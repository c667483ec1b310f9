-------------------------- MODULE DsonWriterProofs --------------------------
(***************************************************************************)
(* Theorems about DsonWriter, for every set of names, scalars and counts   *)
(* and every bound: the types, that the writer implements WireContract     *)
(* although it never compares the counts its callers declare, and that it  *)
(* is JsonWriter with counts, whose theorems about text it inherits.       *)
(***************************************************************************)
EXTENDS DsonWriter, SequenceFacts

RootStarted == frames # <<>> => wroteRoot

(* Every frame below the innermost has been given the value that stands on *)
(* it, and only objects wait for one.                                      *)
OuterFramesSettled == \A i \in 1 .. Len(frames) - 1 : ~frames[i].expecting

OnlyObjectsExpect == \A i \in DOMAIN frames : frames[i].expecting => frames[i].kind = "object"

(* What before_value, write_field and end leave behind.  The contract's     *)
(* Settled clears the innermost container only: that it describes all of   *)
(* them needs OuterFramesSettled.                                          *)
IInv ==
    /\ TypeOK
    /\ RootStarted
    /\ OuterFramesSettled
    /\ OnlyObjectsExpect

-----------------------------------------------------------------------------
(* What the invariant says of the innermost frame. *)
LEMMA TopFacts ==
    ASSUME IInv, frames # <<>>
    PROVE  /\ Len(frames) \in DOMAIN frames
           /\ Top = frames[Len(frames)]
           /\ Top \in FrameType
           /\ Top.kind \in {"sequence", "object"}
           /\ Top.expecting => Top.kind = "object"
<1>1. Len(frames) \in DOMAIN frames /\ Top \in FrameType
    BY DEF IInv, TypeOK, Top
<1> QED BY <1>1 DEF Top, IInv, OnlyObjectsExpect, FrameType

(* The frames after before_value has accepted a value: as many, of the same *)
(* kinds, and none of them waiting.                                         *)
LEMMA FramesAfterValueSettled ==
    ASSUME IInv, ValueError = "none"
    PROVE  /\ FramesAfterValue \in Seq(FrameType)
           /\ Len(FramesAfterValue) = Len(frames)
           /\ \A i \in DOMAIN frames :
                 /\ FramesAfterValue[i].kind = frames[i].kind
                 /\ ~FramesAfterValue[i].expecting
<1>1. CASE frames = <<>>
    BY <1>1 DEF FramesAfterValue
<1>2. CASE frames # <<>>
    <2> DEFINE settled == Given(Top)
    <2>1. Len(frames) \in DOMAIN frames /\ Top \in FrameType
        BY <1>2 DEF IInv, TypeOK, Top
    <2>2. /\ settled \in FrameType
          /\ settled.kind = Top.kind
          /\ ~settled.expecting
        BY <1>2, <2>1, TopFacts DEF ValueError, Given, FrameType
    <2>3. FramesAfterValue = [frames EXCEPT ![Len(frames)] = settled]
        BY <1>2 DEF FramesAfterValue, Top
    <2>4. /\ FramesAfterValue \in Seq(FrameType)
          /\ Len(FramesAfterValue) = Len(frames)
          /\ FramesAfterValue[Len(frames)] = settled
          /\ \A i \in 1 .. Len(frames) - 1 : FramesAfterValue[i] = frames[i]
        BY <2>1, <2>2, <2>3 DEF IInv, TypeOK
    <2>5. ASSUME NEW i \in DOMAIN frames
          PROVE  /\ FramesAfterValue[i].kind = frames[i].kind
                 /\ ~FramesAfterValue[i].expecting
        <3>1. CASE i = Len(frames)
            BY <2>2, <2>4, <3>1 DEF Top
        <3>2. CASE i # Len(frames)
            <4>1. i \in 1 .. Len(frames) - 1
                BY <3>2 DEF IInv, TypeOK
            <4> QED BY <2>4, <4>1 DEF IInv, OuterFramesSettled
        <3> QED BY <3>1, <3>2
    <2> QED BY <2>4, <2>5
<1> QED BY <1>1, <1>2

(* Tokens are tokens. *)
LEMMA TokensTyped ==
    /\ \A is \in TokenKind : Mark(is) \in Token
    /\ \A is \in TokenKind, size \in Sizes : Opening(is, size) \in Token
    /\ \A name \in Names : NameToken(name) \in Token
    /\ \A value \in Scalars : ScalarToken(value) \in Token
BY DsonBounds DEF Mark, Opening, NameToken, ScalarToken, Token, TokenKind

(* A failed call keeps the invariant: it only leaves its message. *)
LEMMA FailKeeps ==
    ASSUME IInv, NEW message \in Message, Fail(message)
    PROVE  IInv'
BY DEF IInv, Fail, TypeOK, RootStarted, OuterFramesSettled, OnlyObjectsExpect

LEMMA RefuseKeeps == ASSUME IInv, RefuseValue PROVE IInv'
BY FailKeeps DEF RefuseValue, ValueError, Message

(* Frames of which all were settled, and the text that goes with them. *)
LEMMA StepKeeps ==
    ASSUME IInv, NEW written \in Seq(Token), output' = output \o written,
           frames' \in Seq(FrameType), error' = error, wroteRoot' \in BOOLEAN,
           RootStarted', OuterFramesSettled', OnlyObjectsExpect'
    PROVE  IInv'
<1>1. output' \in Seq(Token) /\ error' \in Message
    BY DEF IInv, TypeOK
<1> QED BY <1>1 DEF IInv, TypeOK

(* What before_value and a value add to the text. *)
LEMMA SeparatedIs ==
    ASSUME IInv, NEW token \in Token
    PROVE  \E written \in Seq(Token) : output \o ValueSeparator \o <<token>> = output \o written
<1>1. Mark("comma") \in Token
    BY TokensTyped DEF TokenKind
<1>2. ValueSeparator \in Seq(Token)
    BY <1>1 DEF ValueSeparator
<1>3. output \in Seq(Token) /\ <<token>> \in Seq(Token)
    BY DEF IInv, TypeOK
<1>4. /\ ValueSeparator \o <<token>> \in Seq(Token)
      /\ output \o ValueSeparator \o <<token>> = output \o (ValueSeparator \o <<token>>)
    BY <1>2, <1>3, JoinTwice
<1> QED BY <1>4

(* A value that is a scalar keeps the invariant. *)
LEMMA ScalarKeeps ==
    ASSUME IInv, NEW token \in Token, StartValue(token, <<>>)
    PROVE  IInv'
<1>1. /\ ValueError = "none"
      /\ output' = output \o ValueSeparator \o <<token>>
      /\ frames' = FramesAfterValue \o <<>>
      /\ wroteRoot' = (wroteRoot \/ frames = <<>>)
      /\ error' = error
    BY DEF StartValue
<1>2. /\ FramesAfterValue \in Seq(FrameType)
      /\ Len(FramesAfterValue) = Len(frames)
      /\ \A i \in DOMAIN frames :
            /\ FramesAfterValue[i].kind = frames[i].kind
            /\ ~FramesAfterValue[i].expecting
    BY <1>1, FramesAfterValueSettled
<1>3. frames' = FramesAfterValue /\ frames' \in Seq(FrameType) /\ DOMAIN frames' = DOMAIN frames
    BY <1>1, <1>2 DEF IInv, TypeOK
<1>4. \A i \in DOMAIN frames' : ~frames'[i].expecting
    BY <1>2, <1>3
<1>5. OuterFramesSettled' /\ OnlyObjectsExpect'
    <2>1. 1 .. Len(frames') - 1 \subseteq DOMAIN frames'
        BY <1>3
    <2> QED BY <1>4, <2>1 DEF OuterFramesSettled, OnlyObjectsExpect
<1>6. wroteRoot' \in BOOLEAN /\ RootStarted'
    BY <1>1 DEF IInv, TypeOK, RootStarted
<1>7. PICK written \in Seq(Token) : output' = output \o written
    BY <1>1, SeparatedIs
<1> QED BY <1>1, <1>3, <1>5, <1>6, <1>7, StepKeeps

(* A value that opens a container keeps the invariant. *)
LEMMA OpeningKeeps ==
    ASSUME IInv, NEW token \in Token, NEW frame \in FrameType, ~frame.expecting,
           StartValue(token, <<frame>>)
    PROVE  IInv'
<1>1. /\ ValueError = "none"
      /\ output' = output \o ValueSeparator \o <<token>>
      /\ frames' = FramesAfterValue \o <<frame>>
      /\ wroteRoot' = (wroteRoot \/ frames = <<>>)
      /\ error' = error
    BY DEF StartValue
<1>2. /\ FramesAfterValue \in Seq(FrameType)
      /\ Len(FramesAfterValue) = Len(frames)
      /\ \A i \in DOMAIN frames : ~FramesAfterValue[i].expecting
    BY <1>1, FramesAfterValueSettled
<1>3. /\ frames' \in Seq(FrameType)
      /\ Len(frames) \in Nat
      /\ Len(frames') = Len(frames) + 1
      /\ \A i \in 1 .. Len(frames) : frames'[i] = FramesAfterValue[i]
      /\ frames'[Len(frames) + 1] = frame
    <2> DEFINE after == FramesAfterValue
    <2>1. after \in Seq(FrameType) /\ Len(after) = Len(frames) /\ frames' = after \o <<frame>>
        BY <1>1, <1>2
    <2> HIDE DEF after
    <2>2. /\ frames' \in Seq(FrameType)
          /\ Len(after) \in Nat
          /\ Len(frames') = Len(after) + 1
          /\ \A i \in 1 .. Len(after) : frames'[i] = after[i]
          /\ frames'[Len(after) + 1] = frame
        BY <2>1, PushIs
    <2> QED BY <2>1, <2>2 DEF after
<1>4. ASSUME NEW i \in DOMAIN frames' PROVE ~frames'[i].expecting
    <2>1. CASE i = Len(frames) + 1
        BY <1>3, <2>1
    <2>2. CASE i # Len(frames) + 1
        <3>1. i \in 1 .. Len(frames) /\ i \in DOMAIN frames
            BY <1>3, <2>2 DEF IInv, TypeOK
        <3> QED BY <1>2, <1>3, <3>1
    <2> QED BY <2>1, <2>2
<1>5. OuterFramesSettled' /\ OnlyObjectsExpect'
    <2>1. 1 .. Len(frames') - 1 \subseteq DOMAIN frames'
        BY <1>3
    <2> QED BY <1>4, <2>1 DEF OuterFramesSettled, OnlyObjectsExpect
<1>6. wroteRoot' \in BOOLEAN /\ RootStarted'
    BY <1>1 DEF IInv, TypeOK, RootStarted
<1>7. PICK written \in Seq(Token) : output' = output \o written
    BY <1>1, SeparatedIs
<1> QED BY <1>1, <1>3, <1>5, <1>6, <1>7, StepKeeps

LEMMA OpenedFrame ==
    ASSUME NEW kind \in {"sequence", "object"}, NEW checked \in BOOLEAN
    PROVE  Frame(kind, checked) \in FrameType /\ ~Frame(kind, checked).expecting
BY DEF Frame, FrameType

(* A name leaves the innermost object waiting, and no other. *)
LEMMA WriteFieldKeeps ==
    ASSUME IInv, NEW name \in Names, WriteField(name)
    PROVE  IInv'
<1>1. CASE FieldError(name) # "none"
    <2>1. Fail(FieldError(name)) /\ FieldError(name) \in Message
        BY <1>1 DEF WriteField, FieldError, Message
    <2> QED BY <2>1, FailKeeps
<1>2. CASE FieldError(name) = "none"
    <2> DEFINE comma == IF Top.first THEN <<>> ELSE <<Mark("comma")>>
               field == <<NameToken(name), Mark("equals")>>
               top == Named(Top, name)
    <2> HIDE DEF comma, field, top
    <2>1. frames # <<>> /\ Top.kind = "object"
        BY <1>2 DEF FieldError
    <2>2. /\ output' = output \o comma \o field
          /\ frames' = [frames EXCEPT ![Len(frames)] = top]
          /\ wroteRoot' = wroteRoot
          /\ error' = error
        BY <1>2 DEF WriteField, comma, field, top
    <2>3. top \in FrameType /\ top.kind = "object"
        BY <2>1, TopFacts DEF FrameType, top, Named
    <2>4. comma \in Seq(Token) /\ field \in Seq(Token)
        <3>1. Mark("comma") \in Token /\ Mark("equals") \in Token /\ NameToken(name) \in Token
            BY TokensTyped DEF TokenKind
        <3> QED BY <3>1 DEF comma, field
    <2>5. output' = output \o (comma \o field) /\ comma \o field \in Seq(Token)
        <3>1. output \in Seq(Token)
            BY DEF IInv, TypeOK
        <3> QED BY <2>2, <2>4, <3>1, JoinTwice
    <2>6. /\ frames' \in Seq(FrameType)
          /\ Len(frames') = Len(frames)
          /\ frames'[Len(frames)] = top
          /\ \A i \in 1 .. Len(frames) - 1 : frames'[i] = frames[i]
        <3>1. frames \in Seq(FrameType) /\ Len(frames) \in 1 .. Len(frames)
            BY <2>1 DEF IInv, TypeOK
        <3> QED BY <2>2, <2>3, <3>1
    <2>7. OuterFramesSettled'
        BY <2>6 DEF IInv, OuterFramesSettled
    <2>8. OnlyObjectsExpect'
        <3> SUFFICES ASSUME NEW i \in DOMAIN frames', frames'[i].expecting
                     PROVE  frames'[i].kind = "object"
            BY DEF OnlyObjectsExpect
        <3>1. CASE i = Len(frames)
            BY <2>3, <2>6, <3>1
        <3>2. CASE i # Len(frames)
            <4>1. i \in 1 .. Len(frames) - 1 /\ i \in DOMAIN frames
                BY <2>6, <3>2 DEF IInv, TypeOK
            <4> QED BY <2>6, <4>1 DEF IInv, OnlyObjectsExpect
        <3> QED BY <3>1, <3>2
    <2>9. RootStarted' /\ wroteRoot' \in BOOLEAN
        BY <2>1, <2>2 DEF IInv, TypeOK, RootStarted
    <2> HIDE DEF comma, field
    <2> QED BY <2>2, <2>5, <2>6, <2>7, <2>8, <2>9, StepKeeps
<1> QED BY <1>1, <1>2

(* Closing a container leaves the settled frames below it. *)
LEMMA EndContainerKeeps ==
    ASSUME IInv, NEW kind \in {"sequence", "object"}, NEW mark \in TokenKind,
           EndContainer(kind, mark)
    PROVE  IInv'
<1>1. CASE EndError(kind) # "none"
    <2>1. Fail(EndError(kind)) /\ EndError(kind) \in Message
        BY <1>1 DEF EndContainer, EndError, Message
    <2> QED BY <2>1, FailKeeps
<1>2. CASE EndError(kind) = "none"
    <2>1. frames # <<>>
        BY <1>2 DEF EndError
    <2>2. /\ output' = output \o <<Mark(mark)>>
          /\ frames' = SubSeq(frames, 1, Len(frames) - 1)
          /\ wroteRoot' = wroteRoot
          /\ error' = error
        BY <1>2 DEF EndContainer
    <2>3. <<Mark(mark)>> \in Seq(Token)
        BY TokensTyped
    <2>4. /\ frames' \in Seq(FrameType)
          /\ Len(frames') = Len(frames) - 1
          /\ \A i \in 1 .. Len(frames) - 1 : frames'[i] = frames[i]
        BY <2>1, <2>2, FrontOf DEF IInv, TypeOK
    <2>5. \A i \in DOMAIN frames' : ~frames'[i].expecting
        BY <2>4 DEF IInv, OuterFramesSettled
    <2>6. OuterFramesSettled' /\ OnlyObjectsExpect'
        <3>1. 1 .. Len(frames') - 1 \subseteq DOMAIN frames'
            BY <2>4
        <3> QED BY <2>5, <3>1 DEF OuterFramesSettled, OnlyObjectsExpect
    <2>7. RootStarted' /\ wroteRoot' \in BOOLEAN
        BY <2>1, <2>2 DEF IInv, TypeOK, RootStarted
    <2> QED BY <2>2, <2>3, <2>4, <2>6, <2>7, StepKeeps
<1> QED BY <1>1, <1>2

-----------------------------------------------------------------------------
LEMMA InitIInv == Init => IInv
<1> SUFFICES ASSUME Init PROVE IInv
    OBVIOUS
<1>1. /\ frames = <<>> /\ output = <<>>
      /\ wroteRoot = FALSE /\ error = "none"
    BY DEF Init
<1>2. TypeOK
    <2>1. frames \in Seq(FrameType) /\ output \in Seq(Token)
        BY <1>1
    <2>2. wroteRoot \in BOOLEAN /\ error \in Message
        BY <1>1 DEF Message
    <2> QED BY <2>1, <2>2 DEF TypeOK
<1> QED BY <1>1, <1>2 DEF IInv, RootStarted, OuterFramesSettled, OnlyObjectsExpect

LEMMA NextIInv == IInv /\ [Next]_dsonVars => IInv'
<1> SUFFICES ASSUME IInv, [Next]_dsonVars PROVE IInv'
    OBVIOUS
<1>1. ASSUME NEW value \in Scalars, WriteScalar(value) PROVE IInv'
    <2>1. CASE Fail("unencodable")
        BY <2>1, FailKeeps DEF Message
    <2>2. CASE StartValue(ScalarToken(value), <<>>)
        BY <2>2, ScalarKeeps, TokensTyped
    <2> QED BY <1>1, <2>1, <2>2, RefuseKeeps DEF WriteScalar
<1>2. ASSUME NEW size \in Sizes, BeginSequence(size) PROVE IInv'
    <2>1. CASE StartValue(Opening("begin_sequence", size), <<Frame("sequence", FALSE)>>)
        <3>1. Opening("begin_sequence", size) \in Token
            BY TokensTyped DEF TokenKind
        <3> QED BY <2>1, <3>1, OpenedFrame, OpeningKeeps
    <2> QED BY <1>2, <2>1, RefuseKeeps DEF BeginSequence
<1>3. ASSUME NEW size \in Sizes, NEW checked \in ObjectForms, BeginObject(size, checked) PROVE IInv'
    <2>1. CASE StartValue(Opening("begin_object", size), <<Frame("object", checked)>>)
        <3>1. Opening("begin_object", size) \in Token
            BY TokensTyped DEF TokenKind
        <3>2. checked \in BOOLEAN
            BY DsonBounds
        <3> QED BY <2>1, <3>1, <3>2, OpenedFrame, OpeningKeeps
    <2> QED BY <1>3, <2>1, RefuseKeeps DEF BeginObject
<1>4. ASSUME NEW name \in Names, WriteField(name) PROVE IInv'
    BY <1>4, WriteFieldKeeps
<1>5. CASE EndSequence
    BY <1>5, EndContainerKeeps DEF EndSequence, TokenKind
<1>6. CASE EndObject
    BY <1>6, EndContainerKeeps DEF EndObject, TokenKind
<1>7. CASE UNCHANGED dsonVars
    BY <1>7 DEF dsonVars, IInv, TypeOK, RootStarted, OuterFramesSettled, OnlyObjectsExpect
<1> QED BY <1>1, <1>2, <1>3, <1>4, <1>5, <1>6, <1>7 DEF Next

(* The variables keep their types, whatever calls a codec makes. *)
THEOREM DsonTypeCorrect == Spec => []TypeOK
<1>1. Spec => []IInv
    BY InitIInv, NextIInv, PTL DEF Spec
<1>2. IInv => TypeOK
    BY DEF IInv
<1> QED BY <1>1, <1>2, PTL

-----------------------------------------------------------------------------
(* Refinement of WireContract. *)

(* The container a frame shows to the codec. *)
Shown(frame) == [kind |-> frame.kind, awaiting |-> frame.expecting]

LEMMA OpenContainersFacts ==
    ASSUME IInv
    PROVE  /\ Len(OpenContainers) = Len(frames)
           /\ DOMAIN OpenContainers = 1 .. Len(frames)
           /\ OpenContainers = <<>> <=> frames = <<>>
           /\ \A i \in 1 .. Len(frames) : OpenContainers[i] = Shown(frames[i])
           /\ OpenContainers \in Seq([kind : {"sequence", "object"}, awaiting : BOOLEAN])
<1>1. frames \in Seq(FrameType)
    BY DEF IInv, TypeOK
<1>2. ASSUME NEW i \in 1 .. Len(frames)
      PROVE  Shown(frames[i]) \in [kind : {"sequence", "object"}, awaiting : BOOLEAN]
    <2>1. frames[i] \in FrameType
        BY <1>1
    <2>2. frames[i].kind \in {"sequence", "object"} /\ frames[i].expecting \in BOOLEAN
        BY <2>1 DEF FrameType
    <2> QED BY <2>2 DEF Shown
<1>3. OpenContainers = [i \in 1 .. Len(frames) |-> Shown(frames[i])]
    BY <1>1 DEF OpenContainers, Shown
<1> QED BY <1>1, <1>2, <1>3

(* before_value refuses a value exactly where the contract does. *)
LEMMA ValueAllowedHere ==
    ASSUME IInv, ValueError = "none"
    PROVE  Contract!ValueAllowed
<1>1. CASE frames = <<>>
    BY <1>1, OpenContainersFacts DEF ValueError, Contract!ValueAllowed
<1>2. CASE frames # <<>>
    <2>1. OpenContainers[Len(OpenContainers)] = Shown(Top)
        BY <1>2, TopFacts, OpenContainersFacts DEF IInv, TypeOK
    <2> QED BY <1>2, <2>1, OpenContainersFacts
            DEF ValueError, Contract!ValueAllowed, Contract!Innermost, Shown
<1> QED BY <1>1, <1>2

(* What before_value leaves is what the contract calls Settled. *)
LEMMA SettledHere ==
    ASSUME IInv, ValueError = "none", NEW i \in 1 .. Len(frames)
    PROVE  Contract!Settled[i] = Shown(FramesAfterValue[i])
<1>1. /\ FramesAfterValue[i].kind = frames[i].kind
      /\ FramesAfterValue[i].expecting = FALSE
    <2>1. FramesAfterValue[i] \in FrameType
        BY FramesAfterValueSettled DEF IInv, TypeOK
    <2> QED BY <2>1, FramesAfterValueSettled DEF IInv, TypeOK, FrameType
<1>2. Contract!Settled[i] =
          IF i = Len(frames) THEN Contract!Container(OpenContainers[i].kind, FALSE)
                             ELSE OpenContainers[i]
    BY OpenContainersFacts DEF Contract!Settled
<1>3. CASE i = Len(frames)
    <2>1. OpenContainers[i] = [kind |-> frames[i].kind, awaiting |-> frames[i].expecting]
        BY OpenContainersFacts DEF Shown
    <2>2. Contract!Settled[i] = [kind |-> frames[i].kind, awaiting |-> FALSE]
        BY <1>2, <1>3, <2>1 DEF Contract!Container
    <2> QED BY <1>1, <2>2 DEF Shown
<1>4. CASE i # Len(frames)
    <2>1. frames[i] \in FrameType /\ ~frames[i].expecting
        BY <1>4 DEF IInv, TypeOK, OuterFramesSettled
    <2> QED BY <1>1, <1>2, <1>4, <2>1, OpenContainersFacts DEF Shown, FrameType
<1> QED BY <1>3, <1>4

LEMMA FailStutters ==
    ASSUME NEW message, Fail(message)
    PROVE  UNCHANGED Contract!contractVars
BY DEF Fail, Contract!contractVars, OpenContainers

(* The frames after a step, when it left them typed and counted. *)
LEMMA OpenContainersAfter ==
    ASSUME frames' \in Seq(FrameType)
    PROVE  OpenContainers' = [i \in 1 .. Len(frames') |-> Shown(frames'[i])]
BY DEF OpenContainers, Shown

(* An accepted scalar is the contract's PutScalar. *)
LEMMA ScalarRefines ==
    ASSUME IInv, NEW token, StartValue(token, <<>>)
    PROVE  Contract!PutScalar
<1>1. /\ ValueError = "none"
      /\ frames' = FramesAfterValue \o <<>>
      /\ wroteRoot' = (wroteRoot \/ frames = <<>>)
    BY DEF StartValue
<1>2. /\ FramesAfterValue \in Seq(FrameType)
      /\ Len(FramesAfterValue) = Len(frames)
    BY <1>1, FramesAfterValueSettled
<1>3. frames' = FramesAfterValue /\ Len(frames') = Len(frames) /\ frames' \in Seq(FrameType)
    BY <1>1, <1>2
<1>4. OpenContainers' = [i \in 1 .. Len(frames) |-> Shown(FramesAfterValue[i])]
    BY <1>3, OpenContainersAfter
<1>5. Contract!Settled = [i \in 1 .. Len(frames) |-> Contract!Settled[i]]
    BY OpenContainersFacts DEF Contract!Settled
<1>6. OpenContainers' = Contract!Settled
    BY <1>1, <1>4, <1>5, SettledHere
<1>7. wroteRoot' = TRUE
    BY <1>1 DEF IInv, RootStarted, TypeOK
<1> QED BY <1>1, <1>6, <1>7, ValueAllowedHere DEF Contract!PutScalar

(* An accepted begin call is the contract's OpenContainer. *)
LEMMA OpeningRefines ==
    ASSUME IInv, NEW token, NEW kind \in {"sequence", "object"}, NEW checked \in BOOLEAN,
           StartValue(token, <<Frame(kind, checked)>>)
    PROVE  Contract!OpenContainer(kind)
<1> DEFINE frame == Frame(kind, checked)
           container == Contract!Container(kind, FALSE)
<1>0. frame \in FrameType /\ Shown(frame) = container
    BY DEF Frame, FrameType, Shown, Contract!Container
<1> HIDE DEF frame, container
<1>1. /\ ValueError = "none"
      /\ frames' = FramesAfterValue \o <<frame>>
      /\ wroteRoot' = (wroteRoot \/ frames = <<>>)
    BY DEF StartValue, frame
<1>2. /\ FramesAfterValue \in Seq(FrameType)
      /\ Len(FramesAfterValue) = Len(frames)
      /\ Len(frames) \in Nat
    BY <1>1, FramesAfterValueSettled DEF IInv, TypeOK
<1>3. frames' = [i \in 1 .. Len(frames) + 1 |->
                     IF i <= Len(frames) THEN FramesAfterValue[i] ELSE frame]
    BY <1>0, <1>1, <1>2, AppendIs
<1>4. frames' \in Seq(FrameType) /\ Len(frames') = Len(frames) + 1
    <2>1. FramesAfterValue \o <<frame>> \in Seq(FrameType)
        BY <1>0, <1>2
    <2> QED BY <1>1, <1>2, <1>3, <2>1
<1>5. OpenContainers' = [i \in 1 .. Len(frames) + 1 |->
                             IF i <= Len(frames) THEN Shown(FramesAfterValue[i]) ELSE Shown(frame)]
    BY <1>2, <1>3, <1>4, OpenContainersAfter
<1>6. Contract!Settled = [i \in 1 .. Len(frames) |-> Contract!Settled[i]]
    BY OpenContainersFacts DEF Contract!Settled
<1>7. \A i \in 1 .. Len(frames) : Contract!Settled[i] = Shown(FramesAfterValue[i])
    BY <1>1, SettledHere
<1>8. Contract!Settled \in Seq({Shown(f) : f \in FrameType}) /\ Len(Contract!Settled) = Len(frames)
    <2>1. \A i \in 1 .. Len(frames) : FramesAfterValue[i] \in FrameType
        BY <1>2
    <2> QED BY <1>2, <1>6, <1>7, <2>1
<1>9. Append(Contract!Settled, container) =
          [i \in 1 .. Len(frames) + 1 |->
              IF i <= Len(frames) THEN Contract!Settled[i] ELSE container]
    BY <1>0, <1>8, AppendIs
<1>10. OpenContainers' = Append(Contract!Settled, container)
    BY <1>0, <1>2, <1>5, <1>7, <1>9
<1>11. wroteRoot' = TRUE
    BY <1>1 DEF IInv, RootStarted, TypeOK
<1> QED BY <1>1, <1>10, <1>11, ValueAllowedHere DEF Contract!OpenContainer, container

(* An accepted name is the contract's PutName. *)
LEMMA FieldRefines ==
    ASSUME IInv, NEW name \in Names, WriteField(name), FieldError(name) = "none"
    PROVE  Contract!PutName
<1> DEFINE top == Named(Top, name)
<1>1. /\ frames # <<>>
      /\ Top.kind = "object"
      /\ ~Top.expecting
      /\ wroteRoot' = wroteRoot
      /\ frames' = [frames EXCEPT ![Len(frames)] = top]
    BY DEF FieldError, WriteField, Fail
<1>2. /\ top \in FrameType
      /\ top.kind = Top.kind
      /\ top.expecting = TRUE
    BY <1>1, TopFacts DEF FrameType, Named
<1> HIDE DEF top
<1>3. /\ frames' \in Seq(FrameType)
      /\ Len(frames') = Len(frames)
      /\ frames'[Len(frames)] = top
      /\ \A i \in 1 .. Len(frames) - 1 : frames'[i] = frames[i]
      /\ Len(frames) \in Nat \ {0}
    BY <1>1, <1>2 DEF IInv, TypeOK
<1>4. OpenContainers[Len(frames)] = [kind |-> Top.kind, awaiting |-> Top.expecting]
    BY <1>3, OpenContainersFacts DEF Top, Shown
<1>5. [OpenContainers EXCEPT ![Len(OpenContainers)] = Contract!Container("object", TRUE)]
          = [i \in 1 .. Len(frames) |->
                IF i = Len(frames) THEN Contract!Container("object", TRUE) ELSE OpenContainers[i]]
    BY <1>3, <1>4, OpenContainersFacts
<1>6. OpenContainers' = [i \in 1 .. Len(frames) |-> Shown(frames'[i])]
    BY <1>3, OpenContainersAfter
<1>7. Shown(frames'[Len(frames)]) = Contract!Container("object", TRUE)
    BY <1>1, <1>2, <1>3 DEF Shown, Contract!Container
<1>8. ASSUME NEW i \in 1 .. Len(frames), i # Len(frames)
      PROVE  Shown(frames'[i]) = OpenContainers[i]
    BY <1>3, <1>8, OpenContainersFacts
<1>9. OpenContainers' = [OpenContainers EXCEPT ![Len(OpenContainers)] = Contract!Container("object", TRUE)]
    BY <1>5, <1>6, <1>7, <1>8
<1>10. /\ OpenContainers # <<>>
       /\ OpenContainers[Len(OpenContainers)].kind = "object"
       /\ ~OpenContainers[Len(OpenContainers)].awaiting
    BY <1>1, <1>4, OpenContainersFacts
<1> QED BY <1>1, <1>9, <1>10, Zenon DEF Contract!PutName, Contract!Innermost

(* An accepted end call is the contract's CloseContainer. *)
LEMMA ClosingRefines ==
    ASSUME IInv, NEW kind \in {"sequence", "object"}, NEW mark,
           EndContainer(kind, mark), EndError(kind) = "none"
    PROVE  Contract!CloseContainer(kind)
<1>1. /\ frames # <<>>
      /\ Top.kind = kind
      /\ ~Top.expecting
      /\ wroteRoot' = wroteRoot
      /\ frames' = SubSeq(frames, 1, Len(frames) - 1)
    BY DEF EndError, EndContainer, Fail
<1>2. /\ frames' \in Seq(FrameType)
      /\ Len(frames') = Len(frames) - 1
      /\ \A i \in 1 .. Len(frames) - 1 : frames'[i] = frames[i]
      /\ Len(frames) \in Nat \ {0}
    <2>1. frames \in Seq(FrameType) /\ Len(frames) \in Nat \ {0}
        BY <1>1 DEF IInv, TypeOK
    <2>2. SubSeq(frames, 1, Len(frames) - 1) \in Seq(FrameType)
        BY <2>1
    <2>3. /\ Len(SubSeq(frames, 1, Len(frames) - 1)) = Len(frames) - 1
          /\ \A i \in 1 .. Len(frames) - 1 : SubSeq(frames, 1, Len(frames) - 1)[i] = frames[i]
        BY <2>1, FrontOf
    <2> QED BY <1>1, <2>1, <2>2, <2>3
<1>3. OpenContainers[Len(frames)] = [kind |-> Top.kind, awaiting |-> Top.expecting]
    BY <1>2, OpenContainersFacts DEF Top, Shown
<1>4. OpenContainers' = [i \in 1 .. Len(frames) - 1 |-> Shown(frames'[i])]
    BY <1>2, OpenContainersAfter
<1>5. SubSeq(OpenContainers, 1, Len(OpenContainers) - 1)
          = [i \in 1 .. Len(frames) - 1 |-> OpenContainers[i]]
    BY <1>2, OpenContainersFacts
<1>6. OpenContainers' = SubSeq(OpenContainers, 1, Len(OpenContainers) - 1)
    BY <1>2, <1>4, <1>5, OpenContainersFacts
<1> QED BY <1>1, <1>2, <1>3, <1>6, OpenContainersFacts
        DEF Contract!CloseContainer, Contract!Innermost

LEMMA InitRefines == Init => Contract!Init
BY DEF Init, Contract!Init, OpenContainers

LEMMA NextRefines ==
    IInv /\ [Next]_dsonVars => [Contract!Next]_(Contract!contractVars)
<1> SUFFICES ASSUME IInv, [Next]_dsonVars
             PROVE  Contract!Next \/ UNCHANGED Contract!contractVars
    OBVIOUS
<1>1. ASSUME NEW message, Fail(message)
      PROVE  UNCHANGED Contract!contractVars
    BY <1>1, FailStutters
<1>2. ASSUME NEW value \in Scalars, WriteScalar(value)
      PROVE  Contract!Next \/ UNCHANGED Contract!contractVars
    <2>1. CASE StartValue(ScalarToken(value), <<>>)
        BY <2>1, ScalarRefines DEF Contract!Next
    <2> QED BY <1>1, <1>2, <2>1 DEF WriteScalar, RefuseValue
<1>3. ASSUME NEW size \in Sizes, BeginSequence(size)
      PROVE  Contract!Next \/ UNCHANGED Contract!contractVars
    <2>1. CASE StartValue(Opening("begin_sequence", size), <<Frame("sequence", FALSE)>>)
        BY <2>1, OpeningRefines DEF Contract!Next
    <2> QED BY <1>1, <1>3, <2>1 DEF BeginSequence, RefuseValue
<1>4. ASSUME NEW size \in Sizes, NEW checked \in ObjectForms, BeginObject(size, checked)
      PROVE  Contract!Next \/ UNCHANGED Contract!contractVars
    <2>0. checked \in BOOLEAN
        BY DsonBounds
    <2>1. CASE StartValue(Opening("begin_object", size), <<Frame("object", checked)>>)
        BY <2>0, <2>1, OpeningRefines DEF Contract!Next
    <2> QED BY <1>1, <1>4, <2>1 DEF BeginObject, RefuseValue
<1>5. ASSUME NEW name \in Names, WriteField(name)
      PROVE  Contract!Next \/ UNCHANGED Contract!contractVars
    <2>1. CASE FieldError(name) = "none"
        BY <1>5, <2>1, FieldRefines DEF Contract!Next
    <2> QED BY <1>1, <1>5, <2>1 DEF WriteField
<1>6. ASSUME NEW kind \in {"sequence", "object"}, NEW mark, EndContainer(kind, mark)
      PROVE  Contract!Next \/ UNCHANGED Contract!contractVars
    <2>1. CASE EndError(kind) = "none"
        BY <1>6, <2>1, ClosingRefines DEF Contract!Next
    <2> QED BY <1>1, <1>6, <2>1 DEF EndContainer
<1>7. CASE UNCHANGED dsonVars
    BY <1>7 DEF dsonVars, Contract!contractVars, OpenContainers
<1> QED BY <1>2, <1>3, <1>4, <1>5, <1>6, <1>7 DEF Next, EndSequence, EndObject

(* DsonWriter implements WireContract: seen through its frames, an accepted *)
(* call is the contract's action of the same meaning and a rejected call is *)
(* a stutter.                                                              *)
THEOREM DsonImplementsContract == Spec => ImplementsContract
<1>1. Spec => []IInv
    BY InitIInv, NextIInv, PTL DEF Spec
<1> QED BY <1>1, InitRefines, NextRefines, PTL DEF Spec, ImplementsContract, Contract!Spec

-----------------------------------------------------------------------------
(* DsonWriter is JsonWriter with counts (ImplementsJson), and so what is   *)
(* proved of the text that JsonWriter leaves behind holds of DSON text     *)
(* once counts and tags are set aside.                                     *)
Text == INSTANCE JsonWriterProofs WITH output <- BareText, error <- "none", Unencodable <- {}

-----------------------------------------------------------------------------
(* Setting counts and tags aside, of any tokens. *)
Bares(tokens) == [i \in DOMAIN tokens |-> Bare(tokens[i])]

LEMMA BaresTyped ==
    ASSUME NEW tokens \in Seq(Token)
    PROVE  /\ Bares(tokens) \in Seq({Bare(token) : token \in Token})
           /\ Len(Bares(tokens)) = Len(tokens)
<1> DEFINE S == {Bare(token) : token \in Token}
<1>1. \A i \in 1 .. Len(tokens) : Bare(tokens[i]) \in S
    OBVIOUS
<1> HIDE DEF S
<1>2. Bares(tokens) \in [1 .. Len(tokens) -> S]
    BY <1>1 DEF Bares
<1>3. Bares(tokens) \in Seq(S) /\ Len(Bares(tokens)) = Len(tokens)
    BY <1>2, FunctionIsSeq
<1> QED BY <1>3 DEF S

IsJoin(S, one, two, all) ==
    /\ all \in Seq(S)
    /\ Len(all) = Len(one) + Len(two)
    /\ \A i \in 1 .. Len(one) : all[i] = one[i]
    /\ \A i \in 1 .. Len(two) : all[Len(one) + i] = two[i]

LEMMA JoinIs ==
    ASSUME NEW S, NEW one \in Seq(S), NEW two \in Seq(S)
    PROVE  IsJoin(S, one, two, one \o two)
BY DEF IsJoin

LEMMA BaresJoin ==
    ASSUME NEW one \in Seq(Token), NEW two \in Seq(Token)
    PROVE  Bares(one \o two) = Bares(one) \o Bares(two)
<1> DEFINE left == Bares(one)
           right == Bares(two)
           both == one \o two
           all == Bares(both)
           joined == left \o right
           S == {Bare(token) : token \in Token}
<1>1. IsJoin(Token, one, two, both)
    BY JoinIs
<1>2. /\ left \in Seq(S) /\ Len(left) = Len(one)
      /\ right \in Seq(S) /\ Len(right) = Len(two)
    BY BaresTyped, Zenon
<1>3. /\ \A i \in 1 .. Len(one) : left[i] = Bare(one[i])
      /\ \A i \in 1 .. Len(two) : right[i] = Bare(two[i])
    BY DEF Bares
<1> HIDE DEF left, right, S
<1>4. IsJoin(S, left, right, joined)
    BY <1>2, JoinIs
<1> HIDE DEF both
<1>5. /\ all \in Seq(S) /\ Len(all) = Len(both)
      /\ \A i \in 1 .. Len(both) : all[i] = Bare(both[i])
    <2>1. both \in Seq(Token)
        BY <1>1 DEF IsJoin
    <2>2. all \in Seq(S) /\ Len(all) = Len(both)
        BY <2>1, BaresTyped, Zenon DEF S
    <2> QED BY <2>1, <2>2 DEF Bares
<1> HIDE DEF all, joined
<1>6. Len(one) \in Nat /\ Len(two) \in Nat
    OBVIOUS
<1>7. ASSUME NEW i \in 1 .. Len(one) + Len(two)
      PROVE  all[i] = joined[i]
    <2>1. CASE i \in 1 .. Len(one)
        BY <1>1, <1>2, <1>3, <1>4, <1>5, <1>6, <2>1 DEF IsJoin
    <2>2. CASE i \notin 1 .. Len(one)
        <3> DEFINE k == i - Len(one)
        <3>1. k \in 1 .. Len(two) /\ i = Len(one) + k
            BY <1>6, <2>2
        <3> HIDE DEF k
        <3>2. all[i] = Bare(both[i])
            BY <1>1, <1>5 DEF IsJoin
        <3>3. both[i] = two[k] /\ joined[i] = right[k]
            BY <1>1, <1>2, <1>4, <3>1 DEF IsJoin
        <3> QED BY <1>3, <3>1, <3>2, <3>3
    <2> QED BY <2>1, <2>2
<1>8. /\ all \in Seq(S) /\ Len(all) = Len(one) + Len(two)
      /\ joined \in Seq(S) /\ Len(joined) = Len(one) + Len(two)
    BY <1>1, <1>2, <1>4, <1>5 DEF IsJoin
<1>9. all = joined
    BY <1>6, <1>7, <1>8
<1> QED BY <1>9 DEF all, joined, both, left, right

LEMMA BaresOne == \A token : Bares(<<token>>) = <<Bare(token)>>
BY DEF Bares

LEMMA BaresNone == Bares(<<>>) = <<>>
BY DEF Bares

(* Token by token, what DSON writes is what JSON writes. *)
LEMMA BareTokens ==
    /\ \A is \in TokenKind \ {"equals"} : Bare(Mark(is)) = Json!Mark(is)
    /\ \A is \in TokenKind \ {"equals"}, size \in Sizes : Bare(Opening(is, size)) = Json!Mark(is)
    /\ Bare(Mark("equals")) = Json!Mark("colon")
    /\ \A name \in Names : Bare(NameToken(name)) = Json!NameToken(name)
    /\ \A value \in Scalars : Bare(ScalarToken(value)) = Json!ScalarToken(value)
BY DEF Bare, TokenKind, Mark, Opening, NameToken, ScalarToken,
       Json!Mark, Json!NameToken, Json!ScalarToken

(* What before_value looks at and leaves is the same in both. *)
LEMMA SameFrames ==
    /\ Json!Top = Top
    /\ Json!ValueError = ValueError
    /\ Json!FramesAfterValue = FramesAfterValue
    /\ \A kind, checked : Json!Frame(kind, checked) = Frame(kind, checked)
    /\ \A name : Json!FieldError(name) = FieldError(name)
    /\ \A name : Json!Named(Top, name) = Named(Top, name)
    /\ \A kind : Json!EndError(kind) = EndError(kind)
<1>1. Json!Top = Top
    BY DEF Top, Json!Top
<1>2. Json!ValueError = ValueError
    BY <1>1, Zenon DEF ValueError, Json!ValueError
<1>3. Json!FramesAfterValue = FramesAfterValue
    BY <1>1, Zenon DEF FramesAfterValue, Json!FramesAfterValue, Given, Json!Given
<1>4. \A kind, checked : Json!Frame(kind, checked) = Frame(kind, checked)
    BY Zenon DEF Frame, Json!Frame
<1>5. \A name : Json!FieldError(name) = FieldError(name)
    BY <1>1 DEF FieldError, Json!FieldError
<1>6. \A name : Json!Named(Top, name) = Named(Top, name)
    BY Zenon DEF Named, Json!Named
<1>7. \A kind : Json!EndError(kind) = EndError(kind)
    BY <1>1, Zenon DEF EndError, Json!EndError
<1> QED BY <1>1, <1>2, <1>3, <1>4, <1>5, <1>6, <1>7, Zenon

LEMMA TextGrows ==
    ASSUME IInv, NEW written \in Seq(Token), output' = output \o written
    PROVE  /\ Len(BareText) = Len(output)
           /\ BareText' = BareText \o Bares(written)
<1>1. BareText = Bares(output) /\ BareText' = Bares(output')
    BY DEF BareText, Bares
<1>2. output \in Seq(Token)
    BY DEF IInv, TypeOK
<1>3. Bares(output') = Bares(output) \o Bares(written)
    BY <1>2, BaresJoin, Zenon
<1> QED BY <1>1, <1>2, <1>3, BaresTyped

-----------------------------------------------------------------------------
(* Each call. *)

(* What before_value puts before a value, in either format. *)
LEMMA SeparatorIsJson == ValueSeparator \in Seq(Token) /\ Bares(ValueSeparator) = Json!ValueSeparator
<1>1. Mark("comma") \in Token /\ Bare(Mark("comma")) = Json!Mark("comma")
    BY TokensTyped, BareTokens DEF TokenKind
<1>2. CASE frames # <<>> /\ Top.kind = "sequence" /\ ~Top.first
    <2>1. ValueSeparator = <<Mark("comma")>> /\ Json!ValueSeparator = <<Json!Mark("comma")>>
        BY <1>2, SameFrames, Zenon DEF ValueSeparator, Json!ValueSeparator
    <2> QED BY <1>1, <2>1, BaresOne
<1>3. CASE ~(frames # <<>> /\ Top.kind = "sequence" /\ ~Top.first)
    <2>1. ValueSeparator = <<>> /\ Json!ValueSeparator = <<>>
        BY <1>3, SameFrames, Zenon DEF ValueSeparator, Json!ValueSeparator
    <2> QED BY <2>1, BaresNone
<1> QED BY <1>2, <1>3

LEMMA StartIsJson ==
    ASSUME IInv, NEW token \in Token, NEW opened, StartValue(token, opened)
    PROVE  Json!StartValue(<<Bare(token)>>, opened)
<1> DEFINE written == ValueSeparator \o <<token>>
<1>1. output \in Seq(Token) /\ <<token>> \in Seq(Token) /\ ValueSeparator \in Seq(Token)
    BY SeparatorIsJson DEF IInv, TypeOK
<1>2. output' = output \o written /\ written \in Seq(Token)
    <2>1. output' = output \o ValueSeparator \o <<token>>
        BY Zenon DEF StartValue
    <2> QED BY <1>1, <2>1, JoinTwice
<1>3. Bares(written) = Json!ValueSeparator \o <<Bare(token)>>
    BY <1>1, SeparatorIsJson, BaresJoin, BaresOne
<1> HIDE DEF written
<1>4. Len(BareText) = Len(output) /\ BareText' = BareText \o Bares(written)
    BY <1>2, TextGrows
<1>5. BareText' = BareText \o Json!ValueSeparator \o <<Bare(token)>>
    <2> DEFINE S == {Bare(t) : t \in Token}
    <2>1. BareText = Bares(output)
        BY DEF BareText, Bares
    <2>2. /\ BareText \in Seq(S)
          /\ Json!ValueSeparator \in Seq(S)
          /\ <<Bare(token)>> \in Seq(S)
        BY <1>1, <2>1, BaresTyped, SeparatorIsJson
    <2> HIDE DEF S
    <2>3. BareText \o Json!ValueSeparator \o <<Bare(token)>>
              = BareText \o (Json!ValueSeparator \o <<Bare(token)>>)
        BY <2>2, AnyThreeJoin DEF Joins
    <2> QED BY <1>3, <1>4, <2>3
<1>6. /\ Json!ValueError = "none"
      /\ Len(BareText) < MaxTokens
      /\ frames' = Json!FramesAfterValue \o opened
      /\ wroteRoot' = (wroteRoot \/ frames = <<>>)
    BY <1>4, SameFrames DEF StartValue
<1> QED BY <1>5, <1>6, Zenon DEF Json!StartValue

LEMMA FieldIsJson ==
    ASSUME IInv, NEW name \in Names, WriteField(name), FieldError(name) = "none"
    PROVE  Json!WriteField(name)
<1> DEFINE comma == IF Top.first THEN <<>> ELSE <<Mark("comma")>>
           jsonComma == IF Json!Top.first THEN <<>> ELSE <<Json!Mark("comma")>>
           label == <<NameToken(name), Mark("equals")>>
           jsonLabel == <<Json!NameToken(name), Json!Mark("colon")>>
           written == comma \o label
<1>1. comma \in Seq(Token) /\ Bares(comma) = jsonComma
    <2>1. Mark("comma") \in Token /\ Bare(Mark("comma")) = Json!Mark("comma")
        BY TokensTyped, BareTokens DEF TokenKind
    <2> QED BY <2>1, SameFrames, BaresOne, BaresNone
<1>2. label \in Seq(Token) /\ Bares(label) = jsonLabel
    <2>1. /\ NameToken(name) \in Token /\ Bare(NameToken(name)) = Json!NameToken(name)
          /\ Mark("equals") \in Token /\ Bare(Mark("equals")) = Json!Mark("colon")
        BY TokensTyped, BareTokens DEF TokenKind
    <2>2. Bares(label) = <<Bare(NameToken(name)), Bare(Mark("equals"))>>
        BY DEF Bares
    <2> QED BY <2>1, <2>2
<1>3. /\ output' = output \o comma \o label
      /\ Len(output) < MaxTokens
      /\ frames' = [frames EXCEPT ![Len(frames)] = Named(Top, name)]
      /\ wroteRoot' = wroteRoot
    BY Zenon DEF WriteField, Fail
<1> HIDE DEF comma, jsonComma, label, jsonLabel
<1>4. output \in Seq(Token)
    BY DEF IInv, TypeOK
<1>5. output' = output \o written /\ written \in Seq(Token)
    BY <1>1, <1>2, <1>3, <1>4, JoinTwice
<1>6. Bares(written) = jsonComma \o jsonLabel
    BY <1>1, <1>2, BaresJoin
<1> HIDE DEF written
<1>7. Len(BareText) = Len(output) /\ BareText' = BareText \o Bares(written)
    BY <1>5, TextGrows
<1>8. BareText' = BareText \o jsonComma \o jsonLabel
    <2> DEFINE S == {Bare(t) : t \in Token}
    <2>1. BareText = Bares(output)
        BY DEF BareText, Bares
    <2>2. BareText \in Seq(S) /\ jsonComma \in Seq(S) /\ jsonLabel \in Seq(S)
        BY <1>1, <1>2, <1>4, <2>1, BaresTyped
    <2> HIDE DEF S
    <2>3. BareText \o jsonComma \o jsonLabel = BareText \o (jsonComma \o jsonLabel)
        BY <2>2, AnyThreeJoin DEF Joins
    <2> QED BY <1>6, <1>7, <2>3
<1>9. /\ Json!FieldError(name) = "none"
      /\ Len(BareText) < MaxTokens
      /\ frames' = [frames EXCEPT ![Len(frames)] = Json!Named(Json!Top, name)]
    BY <1>3, <1>7, SameFrames
<1> QED BY <1>3, <1>8, <1>9, Zenon DEF Json!WriteField, jsonComma, jsonLabel

LEMMA EndIsJson ==
    ASSUME IInv, NEW kind, NEW mark \in {"end_sequence", "end_object"},
           EndContainer(kind, mark), EndError(kind) = "none"
    PROVE  Json!EndContainer(kind, mark)
<1>1. /\ Mark(mark) \in Token
      /\ Bare(Mark(mark)) = Json!Mark(mark)
    BY TokensTyped, BareTokens DEF TokenKind
<1>2. /\ output' = output \o <<Mark(mark)>>
      /\ frames' = SubSeq(frames, 1, Len(frames) - 1)
      /\ wroteRoot' = wroteRoot
    BY Zenon DEF EndContainer, Fail
<1>3. BareText' = BareText \o <<Json!Mark(mark)>>
    <2> DEFINE written == <<Mark(mark)>>
    <2>1. written \in Seq(Token)
        BY <1>1
    <2>2. Bares(written) = <<Json!Mark(mark)>>
        BY <1>1, BaresOne
    <2>3. output' = output \o written
        BY <1>2
    <2> HIDE DEF written
    <2> QED BY <2>1, <2>2, <2>3, TextGrows
<1>4. Json!EndError(kind) = "none"
    BY SameFrames
<1> QED BY <1>2, <1>3, <1>4, Zenon DEF Json!EndContainer

LEMMA FailIsNoJson == ASSUME NEW message, Fail(message) PROVE UNCHANGED Json!jsonVars
BY DEF Fail, Json!jsonVars, BareText

LEMMA InitIsJson == Init => Json!Init
BY DEF Init, Json!Init, BareText

LEMMA NextIsJson == IInv /\ [Next]_dsonVars => [Json!Next]_(Json!jsonVars)
<1> SUFFICES ASSUME IInv, [Next]_dsonVars
             PROVE  Json!Next \/ UNCHANGED Json!jsonVars
    OBVIOUS
<1>1. ASSUME NEW message, Fail(message)
      PROVE  UNCHANGED Json!jsonVars
    BY <1>1, FailIsNoJson
<1>2. ASSUME NEW value \in Scalars, WriteScalar(value)
      PROVE  Json!Next \/ UNCHANGED Json!jsonVars
    <2>1. CASE StartValue(ScalarToken(value), <<>>)
        <3>1. ScalarToken(value) \in Token /\ Bare(ScalarToken(value)) = Json!ScalarToken(value)
            BY TokensTyped, BareTokens
        <3>2. Json!StartValue(<<Json!ScalarToken(value)>>, <<>>)
            BY <2>1, <3>1, StartIsJson
        <3>3. Json!WriteScalar(value)
            BY <3>2 DEF Json!WriteScalar
        <3> QED BY <3>3, Zenon DEF Json!Next
    <2> QED BY <1>1, <1>2, <2>1, Zenon DEF WriteScalar, RefuseValue
<1>3. ASSUME NEW size \in Sizes, BeginSequence(size)
      PROVE  Json!Next \/ UNCHANGED Json!jsonVars
    <2> DEFINE token == Opening("begin_sequence", size)
    <2>1. CASE Len(frames) < MaxDepth /\ StartValue(token, <<Frame("sequence", FALSE)>>)
        <3>1. token \in Token /\ Bare(token) = Json!Mark("begin_sequence")
            BY TokensTyped, BareTokens DEF TokenKind
        <3> HIDE DEF token
        <3>2. Json!StartValue(<<Json!Mark("begin_sequence")>>, <<Frame("sequence", FALSE)>>)
            BY <2>1, <3>1, StartIsJson
        <3>3. Json!BeginSequence
            BY <2>1, <3>2, SameFrames, Zenon DEF Json!BeginSequence
        <3> QED BY <3>3, Zenon DEF Json!Next
    <2> QED BY <1>1, <1>3, <2>1, Zenon DEF BeginSequence, RefuseValue
<1>4. ASSUME NEW size \in Sizes, NEW checked \in ObjectForms, BeginObject(size, checked)
      PROVE  Json!Next \/ UNCHANGED Json!jsonVars
    <2> DEFINE token == Opening("begin_object", size)
    <2>1. CASE Len(frames) < MaxDepth /\ StartValue(token, <<Frame("object", checked)>>)
        <3>1. token \in Token /\ Bare(token) = Json!Mark("begin_object")
            BY TokensTyped, BareTokens DEF TokenKind
        <3> HIDE DEF token
        <3>2. Json!StartValue(<<Json!Mark("begin_object")>>, <<Frame("object", checked)>>)
            BY <2>1, <3>1, StartIsJson
        <3>3. Json!BeginObject(checked)
            BY <2>1, <3>2, SameFrames, Zenon DEF Json!BeginObject
        <3> QED BY <3>3, Zenon DEF Json!Next
    <2> QED BY <1>1, <1>4, <2>1, Zenon DEF BeginObject, RefuseValue
<1>5. ASSUME NEW name \in Names, WriteField(name)
      PROVE  Json!Next \/ UNCHANGED Json!jsonVars
    <2>1. CASE FieldError(name) = "none"
        BY <1>5, <2>1, FieldIsJson, Zenon DEF Json!Next
    <2> QED BY <1>1, <1>5, <2>1, Zenon DEF WriteField
<1>6. ASSUME NEW kind, NEW mark \in {"end_sequence", "end_object"}, EndContainer(kind, mark)
      PROVE  Json!EndContainer(kind, mark) \/ UNCHANGED Json!jsonVars
    <2>1. CASE EndError(kind) = "none"
        BY <1>6, <2>1, EndIsJson, Zenon
    <2> QED BY <1>1, <1>6, <2>1, Zenon DEF EndContainer
<1>7. CASE EndSequence \/ EndObject
    BY <1>6, <1>7 DEF EndSequence, EndObject, Json!Next, Json!EndSequence, Json!EndObject
<1>8. CASE UNCHANGED dsonVars
    BY <1>8 DEF dsonVars, Json!jsonVars, BareText
<1> QED BY <1>2, <1>3, <1>4, <1>5, <1>7, <1>8, Zenon DEF Next

(* DsonWriter implements JsonWriter: an accepted call is the same call there, *)
(* a rejected one a stutter, whatever counts the codec declares.             *)
THEOREM DsonIsJsonWithCounts == Spec => ImplementsJson
<1>1. Spec => []IInv
    BY InitIInv, NextIInv, PTL DEF Spec
<1> QED BY <1>1, InitIsJson, NextIsJson, PTL DEF Spec, ImplementsJson, Json!Spec

-----------------------------------------------------------------------------
(* The text. *)
LEMMA SameInit == Json!Init => Text!Init
BY DEF Json!Init, Text!Init

LEMMA SameNext == [Json!Next]_(Json!jsonVars) => [Text!Next]_(Text!jsonVars)
<1> USE DEF Json!Mark, Text!Mark, Json!NameToken, Text!NameToken,
            Json!ScalarToken, Text!ScalarToken, Json!Frame, Text!Frame, Json!Top, Text!Top,
            Json!Fail, Text!Fail, Json!ValueError, Text!ValueError,
            Json!ValueSeparator, Text!ValueSeparator, Json!Given, Text!Given,
            Json!FramesAfterValue, Text!FramesAfterValue,
            Json!StartValue, Text!StartValue, Json!RefuseValue, Text!RefuseValue
<1>1. ASSUME NEW value \in Scalars, Json!WriteScalar(value)
      PROVE  Text!WriteScalar(value)
    BY <1>1, Zenon DEF Json!WriteScalar, Text!WriteScalar
<1>2. Json!BeginSequence => Text!BeginSequence
    BY Zenon DEF Json!BeginSequence, Text!BeginSequence
<1>3. ASSUME NEW checked \in ObjectForms, Json!BeginObject(checked)
      PROVE  Text!BeginObject(checked)
    BY <1>3, Zenon DEF Json!BeginObject, Text!BeginObject
<1>4. ASSUME NEW name \in Names, Json!WriteField(name)
      PROVE  Text!WriteField(name)
    BY <1>4, Zenon DEF Json!WriteField, Text!WriteField, Json!FieldError, Text!FieldError,
                       Json!Named, Text!Named
<1>5. Json!EndSequence => Text!EndSequence
    BY Zenon DEF Json!EndSequence, Text!EndSequence, Json!EndContainer, Text!EndContainer,
                 Json!EndError, Text!EndError
<1>6. Json!EndObject => Text!EndObject
    BY Zenon DEF Json!EndObject, Text!EndObject, Json!EndContainer, Text!EndContainer,
                 Json!EndError, Text!EndError
<1>7. UNCHANGED Json!jsonVars => UNCHANGED Text!jsonVars
    BY DEF Json!jsonVars, Text!jsonVars
<1> QED BY <1>1, <1>2, <1>3, <1>4, <1>5, <1>6, <1>7, Zenon DEF Json!Next, Text!Next

(* After any calls DSON text is, counts and tags set aside, the beginning of *)
(* a JSON document, and once the root is finished it is one: every container *)
(* closed by its own mark, every name followed by its one value, and no name *)
(* twice in an object if all were opened with begin_object_checked.          *)
THEOREM DsonTextCompletes == Spec => []Text!Completes
<1>1. Spec => Json!Spec
    BY DsonIsJsonWithCounts DEF ImplementsJson
<1>2. Json!Spec => Text!Spec
    BY SameInit, SameNext, PTL DEF Json!Spec, Text!Spec
<1>3. /\ ObjectForms \subseteq BOOLEAN
      /\ MaxTokens \in Nat
      /\ MaxDepth \in Nat
    BY DsonBounds
<1>4. Text!Spec => []Text!Completes
    BY <1>3, Text!JsonTextCompletes, Zenon
<1> QED BY <1>1, <1>2, <1>4, PTL

=============================================================================
