-------------------------- MODULE JsonWriterProofs --------------------------
(***************************************************************************)
(* Theorems about JsonWriter, for every set of names and scalars and every *)
(* bound: the types, the placement of separators, that the text is JSON by *)
(* JsonGrammar, and that the writer implements WireContract.               *)
(***************************************************************************)
EXTENDS JsonWriter, JsonGrammarProofs

(* Where the writer stands between two calls: what the last token is, as a *)
(* function of the innermost frame, and that every frame below it has been *)
(* given a value and awaits none.                                          *)
LastIs == output[Len(output)].is

RootStarted ==
    /\ wroteRoot <=> output # <<>>
    /\ frames # <<>> => wroteRoot

OuterFramesSettled ==
    \A i \in 1 .. Len(frames) - 1 : ~frames[i].first /\ ~frames[i].expecting

OnlyObjectsExpect ==
    \A i \in DOMAIN frames :
        frames[i].expecting => frames[i].kind = "object" /\ ~frames[i].first

Standing ==
    /\ frames = <<>> /\ wroteRoot => LastIs \in EndsValue
    /\ frames # <<>> =>
          /\ Top.first => LastIs = IF Top.kind = "object" THEN "begin_object" ELSE "begin_sequence"
          /\ Top.expecting => LastIs = "colon"
          /\ ~Top.first /\ ~Top.expecting => LastIs \in EndsValue

IInv ==
    /\ TypeOK
    /\ RootStarted
    /\ OuterFramesSettled
    /\ OnlyObjectsExpect
    /\ Standing
    /\ SeparatorsWellPlaced

-----------------------------------------------------------------------------
(* Joining two well-placed runs of tokens whose ends may meet. *)
LEMMA WellPlacedJoin ==
    ASSUME NEW left \in Seq(Token), NEW right \in Seq(Token),
           WellPlaced(left), WellPlaced(right),
           left # <<>> /\ right # <<>> => MayFollow(left[Len(left)].is, right[1].is)
    PROVE  WellPlaced(left \o right)
<1> SUFFICES ASSUME NEW i \in 1 .. Len(left \o right) - 1
             PROVE  MayFollow((left \o right)[i].is, (left \o right)[i + 1].is)
    BY DEF WellPlaced
<1>1. CASE i < Len(left)
    BY <1>1 DEF WellPlaced
<1>2. CASE i = Len(left)
    BY <1>2
<1>3. CASE i > Len(left)
    <2>1. /\ i - Len(left) \in 1 .. Len(right) - 1
          /\ (left \o right)[i] = right[i - Len(left)]
          /\ (left \o right)[i + 1] = right[(i - Len(left)) + 1]
        BY <1>3
    <2> QED BY <2>1 DEF WellPlaced
<1> QED BY <1>1, <1>2, <1>3

(* What the invariant says of the innermost frame. *)
LEMMA TopFacts ==
    ASSUME IInv, frames # <<>>
    PROVE  /\ Len(frames) \in DOMAIN frames
           /\ Top = frames[Len(frames)]
           /\ Top \in FrameType
           /\ Top.kind \in {"sequence", "object"}
           /\ Top.expecting => Top.kind = "object" /\ ~Top.first
           /\ Len(output) \in DOMAIN output
<1>1. Len(frames) \in DOMAIN frames /\ Top \in FrameType
    BY DEF IInv, TypeOK, Top
<1>2. Len(output) \in DOMAIN output
    BY DEF IInv, TypeOK, RootStarted
<1> QED BY <1>1, <1>2 DEF Top, IInv, OnlyObjectsExpect, FrameType

(* Every kind of token has a place in the text. *)
LEMMA MarkIsToken == ASSUME NEW is \in TokenKind PROVE Mark(is) \in Token
BY DEF Mark, Token, Payload

(* The frames after before_value has accepted a value: as many, of the same *)
(* kinds, and every one of them settled.                                    *)
LEMMA FramesAfterValueSettled ==
    ASSUME IInv, ValueError = "none"
    PROVE  /\ FramesAfterValue \in Seq(FrameType)
           /\ Len(FramesAfterValue) = Len(frames)
           /\ \A i \in DOMAIN frames :
                 /\ FramesAfterValue[i].kind = frames[i].kind
                 /\ ~FramesAfterValue[i].first
                 /\ ~FramesAfterValue[i].expecting
<1>1. CASE frames = <<>>
    BY <1>1 DEF FramesAfterValue
<1>2. CASE frames # <<>>
    <2> DEFINE settled == Given(Top)
    <2>1. Len(frames) \in DOMAIN frames /\ Top \in FrameType
        BY <1>2 DEF IInv, TypeOK, Top
    <2>2. /\ settled \in FrameType
          /\ settled.kind = Top.kind
          /\ ~settled.first
          /\ ~settled.expecting
        BY <1>2, <2>1, TopFacts DEF ValueError, Given, FrameType
    <2>3. FramesAfterValue = [frames EXCEPT ![Len(frames)] = settled]
        BY <1>2 DEF FramesAfterValue, Top
    <2>4. /\ FramesAfterValue \in Seq(FrameType)
          /\ Len(FramesAfterValue) = Len(frames)
          /\ FramesAfterValue[Len(frames)] = settled
          /\ \A i \in 1 .. Len(frames) - 1 : FramesAfterValue[i] = frames[i]
        BY <2>1, <2>2, <2>3 DEF IInv, TypeOK
    <2>5. ASSUME NEW i \in DOMAIN frames
          PROVE  /\ FramesAfterValue[i].kind = frames[i].kind
                 /\ ~FramesAfterValue[i].first
                 /\ ~FramesAfterValue[i].expecting
        <3>1. CASE i = Len(frames)
            BY <2>2, <2>4, <3>1 DEF Top
        <3>2. CASE i # Len(frames)
            <4>1. i \in 1 .. Len(frames) - 1
                BY <3>2 DEF IInv, TypeOK
            <4> QED BY <2>4, <4>1 DEF IInv, OuterFramesSettled
        <3> QED BY <3>1, <3>2
    <2> QED BY <2>4, <2>5
<1> QED BY <1>1, <1>2

(* The first token of a value may stand after what before_value leaves. *)
LEMMA SeparatorBeforeValue ==
    ASSUME IInv, ValueError = "none", NEW is \in StartsValue
    PROVE  /\ output \o ValueSeparator \in Seq(Token)
           /\ WellPlaced(output \o ValueSeparator)
           /\ output \o ValueSeparator # <<>> =>
                 MayFollow((output \o ValueSeparator)[Len(output \o ValueSeparator)].is, is)
<1> USE DEF IInv
<1>1. ValueSeparator \in Seq(Token)
    BY MarkIsToken DEF ValueSeparator, TokenKind
<1>2. CASE frames = <<>>
    <2>1. output = <<>> /\ ValueSeparator = <<>>
        BY <1>2 DEF ValueError, RootStarted, ValueSeparator, TypeOK
    <2> QED BY <2>1 DEF WellPlaced
<1>3. CASE frames # <<>> /\ ValueSeparator = <<>>
    <2>1. LastIs \in {"colon", "begin_sequence"}
        <3>1. Top.expecting \/ (Top.kind = "sequence" /\ Top.first)
            BY <1>3, TopFacts DEF ValueError, ValueSeparator
        <3> QED BY <1>3, <3>1, TopFacts DEF Standing
    <2>2. output \o ValueSeparator = output
        BY <1>3 DEF TypeOK
    <2>3. MayFollow(LastIs, is)
        BY <2>1 DEF MayFollow, StartsValue
    <2> QED BY <2>2, <2>3 DEF LastIs, TypeOK, SeparatorsWellPlaced
<1>4. CASE frames # <<>> /\ ValueSeparator # <<>>
    <2>1. Top.kind = "sequence" /\ ~Top.first /\ ValueSeparator = <<Mark("comma")>>
        BY <1>4 DEF ValueSeparator
    <2>2. LastIs \in EndsValue
        BY <1>4, <2>1 DEF Standing, OnlyObjectsExpect, TypeOK, Top
    <2>3. MayFollow(LastIs, "comma") /\ MayFollow("comma", is)
        BY <2>2 DEF MayFollow, EndsValue, StartsValue
    <2>4. WellPlaced(ValueSeparator) /\ ValueSeparator[1].is = "comma"
        BY <2>1 DEF WellPlaced, Mark
    <2>5. WellPlaced(output \o ValueSeparator)
        BY <1>1, <2>3, <2>4, WellPlacedJoin DEF SeparatorsWellPlaced, TypeOK, LastIs
    <2>6. (output \o ValueSeparator)[Len(output \o ValueSeparator)].is = "comma"
        BY <2>1 DEF TypeOK, Mark
    <2> QED BY <1>1, <2>3, <2>5, <2>6 DEF TypeOK
<1> QED BY <1>2, <1>3, <1>4

(* A value that is a scalar, or that opens one container, keeps the invariant. *)
LEMMA StartValueKeeps ==
    ASSUME IInv, NEW token \in Token, token.is \in StartsValue,
           NEW opened \in Seq(FrameType), Len(opened) <= 1,
           opened = <<>> => token.is = "scalar",
           opened # <<>> =>
               /\ opened[1].first /\ ~opened[1].expecting
               /\ token.is = IF opened[1].kind = "object" THEN "begin_object" ELSE "begin_sequence",
           StartValue(<<token>>, opened)
    PROVE  IInv'
<1> DEFINE before == output \o ValueSeparator
<1>1. /\ ValueError = "none"
      /\ output' = before \o <<token>>
      /\ frames' = FramesAfterValue \o opened
      /\ wroteRoot' = (wroteRoot \/ frames = <<>>)
      /\ error' = error
    BY DEF StartValue
<1>2. /\ before \in Seq(Token)
      /\ WellPlaced(before)
      /\ before # <<>> => MayFollow(before[Len(before)].is, token.is)
    BY <1>1, SeparatorBeforeValue
<1>3. /\ FramesAfterValue \in Seq(FrameType)
      /\ Len(FramesAfterValue) = Len(frames)
      /\ \A i \in DOMAIN frames :
            /\ FramesAfterValue[i].kind = frames[i].kind
            /\ ~FramesAfterValue[i].first
            /\ ~FramesAfterValue[i].expecting
    BY <1>1, FramesAfterValueSettled
<1> HIDE DEF before
<1>4. WellPlaced(<<token>>)
    BY DEF WellPlaced
<1>5. SeparatorsWellPlaced'
    <2>1. <<token>> \in Seq(Token) /\ <<token>>[1] = token
        OBVIOUS
    <2>2. WellPlaced(before \o <<token>>)
        BY <1>2, <1>4, <2>1, WellPlacedJoin
    <2> QED BY <1>1, <2>2 DEF SeparatorsWellPlaced, WellPlaced
<1>6. /\ output' \in Seq(Token)
      /\ Len(output') = Len(before) + 1
      /\ output'[Len(output')] = token
      /\ output' # <<>>
    BY <1>1, <1>2
<1>7. /\ frames' \in Seq(FrameType)
      /\ Len(frames') = Len(frames) + Len(opened)
      /\ \A i \in 1 .. Len(frames) : frames'[i] = FramesAfterValue[i]
      /\ opened # <<>> => frames'[Len(frames) + 1] = opened[1]
    BY <1>1, <1>3 DEF IInv, TypeOK
<1>8. TypeOK'
    BY <1>1, <1>6, <1>7 DEF IInv, TypeOK
<1>9. RootStarted'
    BY <1>1, <1>6, <1>7 DEF IInv, RootStarted, TypeOK
<1>10. OuterFramesSettled'
    <2> SUFFICES ASSUME NEW i \in 1 .. Len(frames') - 1
                 PROVE  ~frames'[i].first /\ ~frames'[i].expecting
        BY DEF OuterFramesSettled
    <2>1. i \in DOMAIN frames /\ i \in 1 .. Len(frames)
        BY <1>7 DEF IInv, TypeOK
    <2> QED BY <1>3, <1>7, <2>1
<1>11. OnlyObjectsExpect'
    BY <1>3, <1>7 DEF IInv, TypeOK, OnlyObjectsExpect
<1>12. Standing'
    <2>1. CASE opened = <<>>
        <3>1. Len(frames') = Len(frames) /\ token.is \in EndsValue
            BY <1>7, <2>1 DEF EndsValue
        <3>2. LastIs' \in EndsValue
            BY <1>6, <3>1 DEF LastIs
        <3>3. ASSUME frames' # <<>> PROVE ~Top'.first /\ ~Top'.expecting
            <4>1. Len(frames) \in 1 .. Len(frames)
                BY <1>7, <3>1, <3>3 DEF IInv, TypeOK
            <4>2. Top' = FramesAfterValue[Len(frames)]
                BY <1>7, <3>1, <4>1 DEF Top
            <4>3. Len(frames) \in DOMAIN frames
                BY <4>1 DEF IInv, TypeOK
            <4> QED BY <1>3, <4>2, <4>3
        <3> QED BY <3>2, <3>3 DEF Standing
    <2>2. CASE opened # <<>>
        <3>1. frames' # <<>> /\ Top' = opened[1]
            BY <1>7, <2>2 DEF Top, IInv, TypeOK
        <3> QED BY <1>6, <2>2, <3>1 DEF Standing, LastIs
    <2> QED BY <2>1, <2>2
<1> QED BY <1>5, <1>8, <1>9, <1>10, <1>11, <1>12 DEF IInv

(* A failed call keeps the invariant: it only leaves its message. *)
LEMMA FailKeeps ==
    ASSUME IInv, NEW message \in Message, Fail(message)
    PROVE  IInv'
BY DEF IInv, Fail, TypeOK, RootStarted, OuterFramesSettled, OnlyObjectsExpect,
       Standing, SeparatorsWellPlaced, WellPlaced, LastIs, Top

LEMMA WriteScalarKeeps ==
    ASSUME IInv, NEW value \in Scalars, WriteScalar(value)
    PROVE  IInv'
<1>1. CASE Fail("unencodable")
    BY <1>1, FailKeeps DEF Message
<1>2. CASE RefuseValue
    BY <1>2, FailKeeps DEF RefuseValue, ValueError, Message
<1>3. CASE StartValue(<<ScalarToken(value)>>, <<>>)
    <2>1. ScalarToken(value) \in Token /\ ScalarToken(value).is = "scalar"
        BY DEF ScalarToken, Token, TokenKind, Payload
    <2>2. <<>> \in Seq(FrameType) /\ Len(<<>>) <= 1
        OBVIOUS
    <2> QED BY <1>3, <2>1, <2>2, StartValueKeeps DEF StartsValue
<1> QED BY <1>1, <1>2, <1>3 DEF WriteScalar

LEMMA OpenFrame ==
    ASSUME NEW kind \in {"sequence", "object"}, NEW checked \in BOOLEAN
    PROVE  /\ <<Frame(kind, checked)>> \in Seq(FrameType)
           /\ <<Frame(kind, checked)>> # <<>>
           /\ Len(<<Frame(kind, checked)>>) <= 1
           /\ <<Frame(kind, checked)>>[1].kind = kind
           /\ <<Frame(kind, checked)>>[1].first
           /\ ~<<Frame(kind, checked)>>[1].expecting
BY DEF Frame, FrameType

LEMMA BeginSequenceKeeps == ASSUME IInv, BeginSequence PROVE IInv'
<1>1. CASE RefuseValue
    BY <1>1, FailKeeps DEF RefuseValue, ValueError, Message
<1>2. CASE StartValue(<<Mark("begin_sequence")>>, <<Frame("sequence", FALSE)>>)
    <2>1. /\ Mark("begin_sequence") \in Token
          /\ Mark("begin_sequence").is = "begin_sequence"
        BY MarkIsToken DEF Mark, TokenKind
    <2>2. /\ <<Frame("sequence", FALSE)>> \in Seq(FrameType)
          /\ <<Frame("sequence", FALSE)>> # <<>>
          /\ Len(<<Frame("sequence", FALSE)>>) <= 1
          /\ <<Frame("sequence", FALSE)>>[1].kind = "sequence"
          /\ <<Frame("sequence", FALSE)>>[1].first
          /\ ~<<Frame("sequence", FALSE)>>[1].expecting
        BY OpenFrame
    <2> QED BY <1>2, <2>1, <2>2, StartValueKeeps DEF StartsValue
<1> QED BY <1>1, <1>2 DEF BeginSequence

LEMMA BeginObjectKeeps ==
    ASSUME IInv, NEW checked \in BOOLEAN, BeginObject(checked)
    PROVE  IInv'
<1>1. CASE RefuseValue
    BY <1>1, FailKeeps DEF RefuseValue, ValueError, Message
<1>2. CASE StartValue(<<Mark("begin_object")>>, <<Frame("object", checked)>>)
    <2>1. /\ Mark("begin_object") \in Token
          /\ Mark("begin_object").is = "begin_object"
        BY MarkIsToken DEF Mark, TokenKind
    <2>2. /\ <<Frame("object", checked)>> \in Seq(FrameType)
          /\ <<Frame("object", checked)>> # <<>>
          /\ Len(<<Frame("object", checked)>>) <= 1
          /\ <<Frame("object", checked)>>[1].kind = "object"
          /\ <<Frame("object", checked)>>[1].first
          /\ ~<<Frame("object", checked)>>[1].expecting
        BY OpenFrame
    <2> QED BY <1>2, <2>1, <2>2, StartValueKeeps DEF StartsValue
<1> QED BY <1>1, <1>2 DEF BeginObject

(* A name is written after the opening mark or after a comma, and leaves   *)
(* the innermost object awaiting its value.                                *)
LEMMA WriteFieldKeeps ==
    ASSUME IInv, NEW name \in Names, WriteField(name)
    PROVE  IInv'
<1>1. CASE FieldError(name) # "none"
    <2>1. Fail(FieldError(name)) /\ FieldError(name) \in Message
        BY <1>1 DEF WriteField, FieldError, Message
    <2> QED BY <2>1, FailKeeps
<1>2. CASE FieldError(name) = "none"
    <2> DEFINE lead == IF Top.first THEN <<>> ELSE <<Mark("comma")>>
               field == <<NameToken(name), Mark("colon")>>
               top == Named(Top, name)
    <2> HIDE DEF lead, field, top
    <2>1. /\ frames # <<>>
          /\ Top.kind = "object"
          /\ ~Top.expecting
        BY <1>2 DEF FieldError
    <2>2. /\ output' = (output \o lead) \o field
          /\ frames' = [frames EXCEPT ![Len(frames)] = top]
          /\ wroteRoot' = wroteRoot
          /\ error' = error
        BY <1>2 DEF WriteField, lead, field, top
    <2>3. /\ top \in FrameType
          /\ top.kind = "object"
          /\ ~top.first
          /\ top.expecting
        BY <2>1, TopFacts DEF FrameType, top, Named
    <2>4. /\ lead \in Seq(Token)
          /\ WellPlaced(output \o lead)
          /\ output \o lead \in Seq(Token)
          /\ output \o lead # <<>>
          /\ (output \o lead)[Len(output \o lead)].is \in {"begin_object", "comma"}
        <3>1. CASE Top.first
            <4>1. output \o lead = output /\ lead = <<>>
                BY <3>1 DEF IInv, TypeOK, lead
            <4>2. LastIs = "begin_object"
                BY <2>1, <3>1, TopFacts DEF IInv, Standing
            <4>3. output \in Seq(Token) /\ WellPlaced(output) /\ output # <<>>
                BY <2>1, TopFacts DEF IInv, TypeOK, SeparatorsWellPlaced
            <4> QED BY <4>1, <4>2, <4>3 DEF LastIs
        <3>2. CASE ~Top.first
            <4>1. lead = <<Mark("comma")>> /\ Mark("comma").is = "comma"
                BY <3>2 DEF Mark, lead
            <4>2. lead \in Seq(Token) /\ lead[1].is = "comma" /\ lead # <<>>
                BY <4>1, MarkIsToken DEF TokenKind
            <4>3. WellPlaced(lead)
                BY <4>1 DEF WellPlaced
            <4>4. MayFollow(LastIs, "comma")
                BY <2>1, <3>2, TopFacts DEF IInv, Standing, MayFollow
            <4>5. WellPlaced(output \o lead)
                BY <4>2, <4>3, <4>4, WellPlacedJoin DEF IInv, TypeOK, LastIs, SeparatorsWellPlaced
            <4>6. (output \o lead)[Len(output \o lead)] = Mark("comma")
                BY <4>1, <4>2, LastOfJoin DEF IInv, TypeOK
            <4> QED BY <4>1, <4>2, <4>5, <4>6 DEF IInv, TypeOK
        <3> QED BY <3>1, <3>2, TopFacts, <2>1 DEF FrameType
    <2>5. /\ field \in Seq(Token)
          /\ field # <<>>
          /\ Len(field) = 2
          /\ field[1].is = "name"
          /\ field[2].is = "colon"
        <3>1. NameToken(name) \in Token /\ NameToken(name).is = "name"
            BY DEF NameToken, Token, TokenKind, Payload
        <3>2. Mark("colon") \in Token /\ Mark("colon").is = "colon"
            BY MarkIsToken DEF TokenKind, Mark
        <3> QED BY <3>1, <3>2 DEF field
    <2>6. WellPlaced(field)
        BY <2>5 DEF WellPlaced, MayFollow
    <2>7. WellPlaced((output \o lead) \o field)
        <3>1. MayFollow((output \o lead)[Len(output \o lead)].is, field[1].is)
            BY <2>4, <2>5 DEF MayFollow
        <3> QED BY <2>4, <2>5, <2>6, <3>1, WellPlacedJoin
    <2>8. /\ output' \in Seq(Token)
          /\ output' # <<>>
          /\ LastIs' = "colon"
        <3>1. /\ output' \in Seq(Token)
              /\ output' # <<>>
              /\ output'[Len(output')] = field[Len(field)]
            BY <2>2, <2>4, <2>5, LastOfJoin
        <3> QED BY <2>5, <3>1 DEF LastIs
    <2>9. /\ frames' \in Seq(FrameType)
          /\ Len(frames') = Len(frames)
          /\ frames' # <<>>
          /\ Top' = top
          /\ \A i \in 1 .. Len(frames) - 1 : frames'[i] = frames[i]
        BY <2>1, <2>2, <2>3 DEF IInv, TypeOK, Top
    <2>10. TypeOK'
        BY <2>2, <2>8, <2>9 DEF IInv, TypeOK
    <2>11. RootStarted'
        BY <2>1, <2>2, <2>8 DEF IInv, RootStarted
    <2>12. OuterFramesSettled'
        BY <2>9 DEF IInv, OuterFramesSettled
    <2>13. OnlyObjectsExpect'
        <3> SUFFICES ASSUME NEW i \in DOMAIN frames', frames'[i].expecting
                     PROVE  frames'[i].kind = "object" /\ ~frames'[i].first
            BY DEF OnlyObjectsExpect
        <3>1. CASE i = Len(frames)
            BY <2>3, <2>9, <3>1 DEF Top
        <3>2. CASE i # Len(frames)
            <4>1. i \in 1 .. Len(frames) - 1 /\ i \in DOMAIN frames
                BY <2>9, <3>2 DEF IInv, TypeOK
            <4> QED BY <2>9, <4>1 DEF IInv, OnlyObjectsExpect
        <3> QED BY <3>1, <3>2
    <2>14. Standing'
        BY <2>3, <2>8, <2>9 DEF Standing
    <2>15. SeparatorsWellPlaced'
        BY <2>2, <2>7 DEF SeparatorsWellPlaced, WellPlaced
    <2> QED BY <2>10, <2>11, <2>12, <2>13, <2>14, <2>15 DEF IInv
<1> QED BY <1>1, <1>2 DEF WriteField

(* Closing a container leaves its parent settled, right after a value. *)
LEMMA EndContainerKeeps ==
    ASSUME IInv, NEW kind \in {"sequence", "object"},
           NEW mark \in {"end_sequence", "end_object"}, EndContainer(kind, mark),
           mark = IF kind = "object" THEN "end_object" ELSE "end_sequence"
    PROVE  IInv'
<1>1. CASE Fail(EndError(kind))
    BY <1>1, FailKeeps DEF EndError, Message
<1>2. CASE EndError(kind) = "none" /\ ~Fail(EndError(kind))
    <2>1. /\ frames # <<>>
          /\ Top.kind = kind
          /\ ~Top.expecting
        BY <1>2 DEF EndError
    <2>2. /\ output' = output \o <<Mark(mark)>>
          /\ frames' = SubSeq(frames, 1, Len(frames) - 1)
          /\ wroteRoot' = wroteRoot
          /\ error' = error
        BY <1>2 DEF EndContainer, IInv, TypeOK
    <2>3. /\ frames' \in Seq(FrameType)
          /\ Len(frames') = Len(frames) - 1
          /\ \A i \in 1 .. Len(frames) - 1 : frames'[i] = frames[i]
        BY <2>1, <2>2 DEF IInv, TypeOK
    <2>4. /\ <<Mark(mark)>> \in Seq(Token)
          /\ <<Mark(mark)>>[1].is = mark
          /\ WellPlaced(<<Mark(mark)>>)
        BY MarkIsToken DEF TokenKind, Mark, WellPlaced
    <2>5. MayFollow(LastIs, mark)
        <3>1. CASE Top.first
            BY <2>1, <3>1 DEF IInv, Standing, MayFollow
        <3>2. CASE ~Top.first
            BY <2>1, <3>2 DEF IInv, Standing, MayFollow
        <3> QED BY <3>1, <3>2
    <2>6. WellPlaced(output \o <<Mark(mark)>>)
        BY <2>4, <2>5, WellPlacedJoin DEF IInv, TypeOK, SeparatorsWellPlaced, LastIs
    <2>7. /\ output' \in Seq(Token)
          /\ output' # <<>>
          /\ LastIs' = mark
        BY <2>2, <2>4 DEF IInv, TypeOK, LastIs
    <2>8. TypeOK'
        BY <2>2, <2>3, <2>7 DEF IInv, TypeOK
    <2>9. RootStarted'
        BY <2>1, <2>2, <2>7 DEF IInv, RootStarted
    <2>10. OuterFramesSettled'
        <3> SUFFICES ASSUME NEW i \in 1 .. Len(frames') - 1
                     PROVE  ~frames'[i].first /\ ~frames'[i].expecting
            BY DEF OuterFramesSettled
        <3>1. i \in 1 .. Len(frames) - 1
            BY <2>3 DEF IInv, TypeOK
        <3> QED BY <2>3, <3>1 DEF IInv, OuterFramesSettled
    <2>11. OnlyObjectsExpect'
        <3> SUFFICES ASSUME NEW i \in DOMAIN frames', frames'[i].expecting
                     PROVE  FALSE
            BY DEF OnlyObjectsExpect
        <3>1. i \in 1 .. Len(frames) - 1
            BY <2>3 DEF IInv, TypeOK
        <3> QED BY <2>3, <3>1 DEF IInv, OuterFramesSettled
    <2>12. Standing'
        <3>1. LastIs' \in EndsValue
            BY <2>7 DEF EndsValue
        <3>2. frames' # <<>> => ~Top'.first /\ ~Top'.expecting
            <4> SUFFICES ASSUME frames' # <<>>
                         PROVE  ~Top'.first /\ ~Top'.expecting
                OBVIOUS
            <4>1. Len(frames') \in 1 .. Len(frames) - 1
                BY <2>3 DEF IInv, TypeOK
            <4> QED BY <2>3, <4>1 DEF IInv, OuterFramesSettled, Top
        <3> QED BY <3>1, <3>2 DEF Standing
    <2>13. SeparatorsWellPlaced'
        BY <2>2, <2>6 DEF SeparatorsWellPlaced, WellPlaced
    <2> QED BY <2>8, <2>9, <2>10, <2>11, <2>12, <2>13 DEF IInv
<1> QED BY <1>1, <1>2 DEF EndContainer

-----------------------------------------------------------------------------
LEMMA InitIInv == Init => IInv
<1> SUFFICES ASSUME Init PROVE IInv
    OBVIOUS
<1>1. /\ frames = <<>> /\ output = <<>>
      /\ wroteRoot = FALSE /\ error = "none"
    BY DEF Init
<1>2. TypeOK
    <2>1. frames \in Seq(FrameType) /\ output \in Seq(Token)
        BY <1>1
    <2>2. wroteRoot \in BOOLEAN /\ error \in Message
        BY <1>1 DEF Message
    <2> QED BY <2>1, <2>2 DEF TypeOK
<1>3. SeparatorsWellPlaced
    BY <1>1 DEF SeparatorsWellPlaced, WellPlaced
<1> QED BY <1>1, <1>2, <1>3 DEF IInv, RootStarted, OuterFramesSettled, OnlyObjectsExpect, Standing

LEMMA NextIInv == IInv /\ [Next]_jsonVars => IInv'
<1> SUFFICES ASSUME IInv, [Next]_jsonVars PROVE IInv'
    OBVIOUS
<1>1. ASSUME NEW value \in Scalars, WriteScalar(value) PROVE IInv'
    BY <1>1, WriteScalarKeeps
<1>2. CASE BeginSequence
    BY <1>2, BeginSequenceKeeps
<1>3. ASSUME NEW checked \in ObjectForms, BeginObject(checked) PROVE IInv'
    BY <1>3, BeginObjectKeeps, JsonBounds
<1>4. ASSUME NEW name \in Names, WriteField(name) PROVE IInv'
    BY <1>4, WriteFieldKeeps
<1>5. CASE EndSequence
    BY <1>5, EndContainerKeeps DEF EndSequence
<1>6. CASE EndObject
    BY <1>6, EndContainerKeeps DEF EndObject
<1>7. CASE UNCHANGED jsonVars
    BY <1>7 DEF jsonVars, IInv, TypeOK, RootStarted, OuterFramesSettled,
                OnlyObjectsExpect, Standing, SeparatorsWellPlaced, WellPlaced, LastIs, Top
<1> QED BY <1>1, <1>2, <1>3, <1>4, <1>5, <1>6, <1>7 DEF Next

(* The variables keep their types, whatever calls a codec makes. *)
THEOREM JsonTypeCorrect == Spec => []TypeOK
<1>1. Spec => []IInv
    BY InitIInv, NextIInv, PTL DEF Spec
<1>2. IInv => TypeOK
    BY DEF IInv
<1> QED BY <1>1, <1>2, PTL

(* JSON's separators are well placed after any sequence of calls, of any   *)
(* length and nesting: before_value, write_field and end never write a     *)
(* doubled, leading or trailing comma, a name without a colon, or two      *)
(* values side by side, and a rejected call does not make them.            *)
THEOREM JsonSeparators == Spec => []SeparatorsWellPlaced
<1>1. Spec => []IInv
    BY InitIInv, NextIInv, PTL DEF Spec
<1>2. IInv => SeparatorsWellPlaced
    BY DEF IInv
<1> QED BY <1>1, <1>2, PTL

-----------------------------------------------------------------------------
(* The text is JSON. *)

(* What this writer can spell.  A name is written twice into one object only *)
(* if the codec opens it with begin_object, which does not check.            *)
Grammar ==
    [names |-> Names \ Unencodable, scalars |-> Scalars \ Unencodable,
     repeats |-> FALSE \in ObjectForms]

(* A checked object remembers the names it has and the one that waits. *)
NamesRemembered(frame, slot) ==
    frame.kind = "object" =>
        /\ IsSequence(slot.tree.members)
        /\ IF frame.checked
           THEN /\ \A name : HasField(slot.tree.members, name) => name \in frame.fields
                /\ ~frame.first => slot.field \in frame.fields
           ELSE Grammar.repeats

(* The containers that are open, what each holds and which name waits. *)
TextOf(open, text, slots, filling) ==
    /\ TextSpelt(Grammar, open, text, slots, filling)
    /\ \A i \in 1 .. Len(open) : NamesRemembered(open[i], slots[i])

TextIsJson ==
    IF frames = <<>> /\ wroteRoot
    THEN \E tree : Spells(Grammar, output, tree)
    ELSE \E slots : TextOf(frames, output, slots, FALSE)

LEMMA GrammarParts ==
    /\ Grammar.names = Names \ Unencodable
    /\ Grammar.scalars = Scalars \ Unencodable
    /\ Grammar.repeats = (FALSE \in ObjectForms)
BY DEF Grammar

(* The innermost frame after before_value: what JSON needs to know of it. *)
LEMMA FramesAfterValueIs ==
    ASSUME IInv, frames # <<>>, ValueError = "none"
    PROVE  /\ Len(FramesAfterValue) = Len(frames)
           /\ \A i \in 1 .. Len(frames) - 1 : FramesAfterValue[i] = frames[i]
           /\ FramesAfterValue[Len(frames)].kind = Top.kind
           /\ FramesAfterValue[Len(frames)].checked = Top.checked
           /\ FramesAfterValue[Len(frames)].fields = Top.fields
           /\ Top.kind = "object" => ~Top.first
<1> DEFINE settled == Given(Top)
<1>1. /\ Len(frames) \in DOMAIN frames /\ Top \in FrameType
      /\ Top.kind = "object" => ~Top.first
    BY TopFacts DEF ValueError
<1>2. /\ settled \in FrameType /\ settled.kind = Top.kind
      /\ settled.checked = Top.checked /\ settled.fields = Top.fields
    BY <1>1 DEF Given, FrameType
<1>3. FramesAfterValue = [frames EXCEPT ![Len(frames)] = settled]
    BY DEF FramesAfterValue
<1> HIDE DEF settled
<1>4. /\ Len(FramesAfterValue) = Len(frames)
      /\ \A i \in 1 .. Len(frames) - 1 : FramesAfterValue[i] = frames[i]
      /\ FramesAfterValue[Len(frames)] = settled
    BY <1>1, <1>2, <1>3 DEF IInv, TypeOK
<1> QED BY <1>1, <1>2, <1>4

(* A value that is accepted begins where JSON has room for one. *)
LEMMA JsonValueBegins ==
    ASSUME IInv, TextIsJson, ValueError = "none"
    PROVE  \E slots : TextOf(FramesAfterValue, output \o ValueSeparator, slots, TRUE)
<1> DEFINE n == Len(frames)
<1>0. n \in Nat /\ (n = 0 <=> frames = <<>>)
    BY DEF IInv, TypeOK
<1>1. PICK slots : TextOf(frames, output, slots, FALSE)
    <2>1. ~(frames = <<>> /\ wroteRoot)
        BY DEF ValueError
    <2> QED BY <2>1, Zenon DEF TextIsJson
<1>2. TextSpelt(Grammar, frames, output, slots, FALSE)
    BY <1>1 DEF TextOf
<1>3. CASE frames = <<>>
    <2>1. FramesAfterValue = <<>> /\ ValueSeparator = <<>> /\ Len(frames) = 0
        BY <1>3 DEF FramesAfterValue, ValueSeparator
    <2>2. output = <<>>
        BY <1>2, <2>1, NothingOpenNoText, Zenon
    <2>3. output \o ValueSeparator = <<>> /\ Len(FramesAfterValue) = 0
        BY <2>1, <2>2
    <2>4. TextSpelt(Grammar, FramesAfterValue, output \o ValueSeparator, slots, TRUE)
        BY <2>2, <2>3, NothingOpen, Zenon
    <2>5. \A i \in 1 .. Len(FramesAfterValue) : FALSE
        BY <2>3
    <2> QED BY <2>4, <2>5, Zenon DEF TextOf
<1>4. CASE frames # <<>>
    <2>1. n \in Nat \ {0} /\ n \in 1 .. n /\ n \in DOMAIN frames /\ Top = frames[n]
        BY <1>0, <1>4, TopFacts DEF Top
    <2>2. /\ Top.kind \in ContainerKinds
          /\ Top.expecting <=> Top.kind = "object"
        BY <1>4, TopFacts DEF ValueError, ContainerKinds
    <2>3. /\ Len(FramesAfterValue) = n
          /\ \A i \in 1 .. n - 1 : FramesAfterValue[i] = frames[i]
          /\ FramesAfterValue[n].kind = Top.kind
          /\ FramesAfterValue[n].checked = Top.checked
          /\ FramesAfterValue[n].fields = Top.fields
          /\ Top.kind = "object" => ~Top.first
        BY <1>4, FramesAfterValueIs
    <2>4. ValueSeparator = IF n # 0 /\ frames[n].kind = "sequence" /\ ~frames[n].first
                           THEN <<Mark("comma")>> ELSE <<>>
        BY <1>0, <1>4, <2>1 DEF ValueSeparator
    <2>5. TextSpelt(Grammar, FramesAfterValue, output \o ValueSeparator, slots, TRUE)
        BY <1>2, <2>1, <2>2, <2>3, <2>4, ValueBegun
    <2>6. ASSUME NEW i \in 1 .. n PROVE NamesRemembered(FramesAfterValue[i], slots[i])
        <3>1. NamesRemembered(frames[i], slots[i])
            BY <1>1 DEF TextOf
        <3>2. CASE i = n
            BY <2>1, <2>3, <3>1, <3>2 DEF NamesRemembered
        <3>3. CASE i # n
            <4>1. i \in 1 .. n - 1
                BY <2>1, <3>3
            <4> QED BY <2>3, <3>1, <4>1
        <3> QED BY <3>2, <3>3
    <2> QED BY <2>3, <2>5, <2>6 DEF TextOf
<1> QED BY <1>3, <1>4

(* A finished value goes where one has begun. *)
LEMMA JsonValueEnds ==
    ASSUME NEW open \in Seq(FrameType), NEW text, NEW slots, TextOf(open, text, slots, TRUE),
           \A i \in 1 .. Len(open) : ~open[i].first /\ ~open[i].expecting,
           NEW value, NEW item, Spells(Grammar, value, item),
           frames' = open, output' = text \o value, open = <<>> => wroteRoot'
    PROVE  TextIsJson'
<1> DEFINE n == Len(open)
<1>1. n \in Nat /\ (n = 0 <=> open = <<>>)
    OBVIOUS
<1>2. TextSpelt(Grammar, open, text, slots, TRUE)
    BY DEF TextOf
<1>3. value \in Seq(Tokens(Grammar))
    BY TextsAreTokens, SaysParts DEF Spells
<1>4. CASE open = <<>>
    <2>1. text = <<>>
        BY <1>1, <1>2, <1>4, NothingOpenNoText, Zenon
    <2>2. output' = value
        BY <1>3, <2>1
    <2> QED BY <1>4, <2>2 DEF TextIsJson
<1>5. CASE open # <<>>
    <2> DEFINE tree == Plus(open[n].kind, slots[n].tree, slots[n].field, item)
               slots2 == [i \in 1 .. n |-> IF i = n THEN [tree |-> tree, field |-> slots[n].field]
                                           ELSE slots[i]]
    <2>1. n \in Nat \ {0} /\ n \in 1 .. n
        BY <1>1, <1>5
    <2>2. /\ \A i \in 1 .. n - 1 : slots2[i] = slots[i]
          /\ slots2[n].tree = tree
          /\ slots2[n].field = slots[n].field
        BY <2>1
    <2> HIDE DEF slots2
    <2>3. TextSpelt(Grammar, open, text \o value, slots2, FALSE)
        BY <1>2, <2>1, <2>2, ValueEnded
    <2>4. NamesRemembered(open[n], slots2[n])
        <3> SUFFICES ASSUME open[n].kind = "object" PROVE NamesRemembered(open[n], slots2[n])
            BY DEF NamesRemembered
        <3> DEFINE members == slots[n].tree.members
                   field == slots[n].field
        <3>1. slots2[n].tree.members = SetField(members, field, item)
            <4> DEFINE result == SetField(members, field, item)
            <4>1. tree = Node("object", result)
                BY Zenon DEF Plus
            <4> HIDE DEF result, tree
            <4>2. tree.members = result
                BY <4>1, NodeParts
            <4> QED BY <2>2, <4>2 DEF result
        <3>2. NamesRemembered(open[n], slots[n]) /\ ~open[n].first
            BY <2>1 DEF TextOf
        <3> HIDE DEF members, field, tree
        <3>3. /\ IsSequence(SetField(members, field, item))
              /\ \A name : HasField(SetField(members, field, item), name) =>
                               name = field \/ HasField(members, name)
            <4>1. IsSequence(members)
                BY <3>2 DEF NamesRemembered, members
            <4> QED BY <4>1, FieldSet
        <3> QED BY <2>2, <3>1, <3>2, <3>3, Zenon DEF NamesRemembered, members, field
    <2>5. ASSUME NEW i \in 1 .. n PROVE NamesRemembered(open[i], slots2[i])
        <3>1. CASE i = n
            BY <2>4, <3>1
        <3>2. CASE i # n
            <4>1. i \in 1 .. n - 1
                BY <2>1, <3>2
            <4>2. NamesRemembered(open[i], slots[i])
                BY DEF TextOf
            <4> QED BY <2>2, <4>1, <4>2
        <3> QED BY <3>1, <3>2
    <2>6. TextOf(open, text \o value, slots2, FALSE)
        BY <2>3, <2>5 DEF TextOf
    <2> QED BY <1>5, <2>6, Zenon DEF TextIsJson
<1> QED BY <1>4, <1>5

(* A failed call writes nothing. *)
LEMMA FailKeepsText ==
    ASSUME TextIsJson, NEW message, Fail(message)
    PROVE  TextIsJson'
<1>1. frames' = frames /\ output' = output /\ wroteRoot' = wroteRoot
    BY DEF Fail
<1> QED BY <1>1 DEF TextIsJson, TextOf, NamesRemembered

LEMMA ScalarIsJson ==
    ASSUME IInv, TextIsJson, NEW value \in Scalars, WriteScalar(value)
    PROVE  TextIsJson'
<1>1. CASE Fail("unencodable") \/ RefuseValue
    BY <1>1, FailKeepsText DEF RefuseValue
<1>2. CASE value \notin Unencodable /\ StartValue(<<ScalarToken(value)>>, <<>>)
    <2> DEFINE text == output \o ValueSeparator
               scalar == <<ScalarToken(value)>>
    <2>1. /\ ValueError = "none"
          /\ output' = text \o scalar
          /\ frames' = FramesAfterValue \o <<>>
          /\ wroteRoot' = (wroteRoot \/ frames = <<>>)
        BY <1>2 DEF StartValue
    <2>2. /\ FramesAfterValue \in Seq(FrameType)
          /\ Len(FramesAfterValue) = Len(frames)
          /\ \A i \in DOMAIN frames : ~FramesAfterValue[i].first /\ ~FramesAfterValue[i].expecting
        BY <2>1, FramesAfterValueSettled
    <2>3. PICK slots : TextOf(FramesAfterValue, text, slots, TRUE)
        BY <2>1, JsonValueBegins
    <2>4. Spells(Grammar, scalar, Leaf(value))
        <3>1. value \in Grammar.scalars
            BY <1>2, GrammarParts
        <3> QED BY <3>1, ScalarSpelt
    <2> HIDE DEF text, scalar
    <2>5. frames' = FramesAfterValue
        BY <2>1, <2>2
    <2>6. /\ \A i \in 1 .. Len(FramesAfterValue) : ~FramesAfterValue[i].first /\ ~FramesAfterValue[i].expecting
          /\ FramesAfterValue = <<>> => wroteRoot'
        <3>1. DOMAIN frames = 1 .. Len(FramesAfterValue) /\ (FramesAfterValue = <<>> => frames = <<>>)
            BY <2>2 DEF IInv, TypeOK
        <3> QED BY <2>1, <2>2, <3>1, Zenon
    <2> QED BY <2>1, <2>2, <2>3, <2>4, <2>5, <2>6, JsonValueEnds
<1> QED BY <1>1, <1>2 DEF WriteScalar

(* A container that is opened holds nothing yet. *)
LEMMA OpeningIsJson ==
    ASSUME IInv, TextIsJson, NEW kind \in ContainerKinds, NEW checked \in BOOLEAN,
           kind = "object" /\ ~checked => FALSE \in ObjectForms,
           StartValue(<<Opening(kind)>>, <<Frame(kind, checked)>>)
    PROVE  TextIsJson'
<1> DEFINE n == Len(frames)
           text == output \o ValueSeparator
           frame == Frame(kind, checked)
<1>1. /\ ValueError = "none"
      /\ output' = text \o <<Opening(kind)>>
      /\ frames' = FramesAfterValue \o <<frame>>
    BY DEF StartValue
<1>2. FramesAfterValue \in Seq(FrameType) /\ Len(FramesAfterValue) = n /\ n \in Nat
    BY <1>1, FramesAfterValueSettled DEF IInv, TypeOK
<1>3. PICK slots : TextOf(FramesAfterValue, text, slots, TRUE)
    BY <1>1, JsonValueBegins
<1>4. /\ frame.kind = kind /\ frame.first /\ ~frame.expecting /\ frame.checked = checked
      /\ frame \in FrameType
    BY DEF Frame, FrameType, ContainerKinds
<1> HIDE DEF text, frame
<1>5. /\ Len(frames') = n + 1
      /\ \A i \in 1 .. n : frames'[i] = FramesAfterValue[i]
      /\ frames'[n + 1] = frame
    <2> DEFINE settled == FramesAfterValue
    <2>1. settled \in Seq(FrameType) /\ Len(settled) = n /\ frames' = settled \o <<frame>>
        BY <1>1, <1>2
    <2> HIDE DEF settled
    <2>2. /\ Len(frames') = n + 1
          /\ \A i \in 1 .. n : frames'[i] = settled[i]
          /\ frames'[n + 1] = frame
        BY <1>4, <2>1, PushIs
    <2> QED BY <2>2 DEF settled
<1> DEFINE slot == [tree |-> Node(kind, <<>>), field |-> "none"]
           slots2 == [i \in 1 .. n + 1 |-> IF i = n + 1 THEN slot ELSE slots[i]]
<1>6. slots2[n + 1] = slot /\ \A i \in 1 .. n : slots2[i] = slots[i]
    BY <1>2
<1>7. slot.tree = Node(kind, <<>>)
    OBVIOUS
<1> HIDE DEF slots2, slot
<1>8. TextSpelt(Grammar, frames', output', slots2, FALSE)
    <2>1. TextSpelt(Grammar, FramesAfterValue, text, slots, TRUE)
        BY <1>3 DEF TextOf
    <2> DEFINE settled == FramesAfterValue
    <2>2. Len(settled) \in Nat /\ Len(frames') = Len(settled) + 1
        BY <1>2, <1>5
    <2>3. \A i \in 1 .. Len(settled) : frames'[i] = settled[i] /\ slots2[i] = slots[i]
        BY <1>2, <1>5, <1>6
    <2>4. /\ frames'[Len(settled) + 1].kind = kind
          /\ frames'[Len(settled) + 1].first
          /\ ~frames'[Len(settled) + 1].expecting
          /\ slots2[Len(settled) + 1].tree = Node(kind, <<>>)
        BY <1>2, <1>4, <1>5, <1>6, <1>7
    <2>5. TextSpelt(Grammar, settled, text, slots, TRUE)
        BY <2>1
    <2> HIDE DEF settled
    <2>6. TextSpelt(Grammar, frames', text \o <<Opening(kind)>>, slots2, FALSE)
        BY <2>2, <2>3, <2>4, <2>5, ContainerPushed
    <2> QED BY <1>1, <2>6
<1>9. NamesRemembered(frame, slot)
    <2> SUFFICES ASSUME kind = "object" PROVE NamesRemembered(frame, slot)
        BY <1>4 DEF NamesRemembered
    <2>1. slot.tree.members = <<>>
        BY <1>7, NodeParts
    <2>2. IsSequence(<<>>) /\ \A name : ~HasField(<<>>, name)
        BY DEF IsSequence, HasField
    <2> QED BY <1>4, <2>1, <2>2, GrammarParts, Zenon DEF NamesRemembered
<1>10. ASSUME NEW i \in 1 .. n + 1 PROVE NamesRemembered(frames'[i], slots2[i])
    <2>1. CASE i = n + 1
        BY <1>5, <1>6, <1>9, <2>1
    <2>2. CASE i # n + 1
        <3>1. i \in 1 .. n
            BY <1>2, <2>2
        <3>2. NamesRemembered(FramesAfterValue[i], slots[i])
            BY <1>2, <1>3, <3>1 DEF TextOf
        <3> QED BY <1>5, <1>6, <3>1, <3>2
    <2> QED BY <2>1, <2>2
<1>11. TextOf(frames', output', slots2, FALSE)
    BY <1>5, <1>8, <1>10 DEF TextOf
<1>12. frames' # <<>>
    BY <1>2, <1>5
<1> QED BY <1>11, <1>12, Zenon DEF TextIsJson

(* A name is written into an object that has not got it, or may repeat it. *)
LEMMA FieldIsJson ==
    ASSUME IInv, TextIsJson, NEW name \in Names, WriteField(name)
    PROVE  TextIsJson'
<1>1. CASE FieldError(name) # "none"
    <2>1. Fail(FieldError(name))
        BY <1>1 DEF WriteField
    <2> QED BY <2>1, FailKeepsText
<1>2. CASE FieldError(name) = "none"
    <2> DEFINE n == Len(frames)
               top == Named(Top, name)
               lead == IF Top.first THEN <<>> ELSE <<Mark("comma")>>
    <2>1. /\ frames # <<>> /\ Top.kind = "object" /\ ~Top.expecting
          /\ name \notin Unencodable
          /\ ~(Top.checked /\ name \in Top.fields)
        BY <1>2 DEF FieldError
    <2>2. /\ output' = output \o lead \o Label(name)
          /\ frames' = [frames EXCEPT ![n] = top]
        BY <1>2 DEF WriteField, Label
    <2>3. n \in Nat \ {0} /\ n \in 1 .. n /\ Top = frames[n] /\ Top \in FrameType
        BY <2>1, TopFacts DEF IInv, TypeOK, Top
    <2>4. /\ top \in FrameType /\ top.kind = "object" /\ top.expecting /\ ~top.first
          /\ top.checked = Top.checked
          /\ top.checked => top.fields = Top.fields \union {name}
        BY <2>1, <2>3 DEF Named, FrameType
    <2> HIDE DEF top, lead
    <2>5. /\ Len(frames') = n
          /\ frames'[n] = top
          /\ \A i \in 1 .. n - 1 : frames'[i] = frames[i]
        BY <2>2, <2>3, <2>4 DEF IInv, TypeOK
    <2>6. PICK slots : TextOf(frames, output, slots, FALSE)
        BY <2>1, Zenon DEF TextIsJson
    <2> DEFINE slots2 == [i \in 1 .. n |-> IF i = n THEN [tree |-> slots[n].tree, field |-> name]
                                           ELSE slots[i]]
    <2>7. /\ \A i \in 1 .. n - 1 : slots2[i] = slots[i]
          /\ slots2[n].tree = slots[n].tree
          /\ slots2[n].field = name
        BY <2>3
    <2> HIDE DEF slots2
    <2>8. NamesRemembered(Top, slots[n])
        BY <2>3, <2>6 DEF TextOf
    <2>9. Grammar.repeats \/ ~HasField(slots[n].tree.members, name)
        BY <2>1, <2>8 DEF NamesRemembered
    <2>10. TextSpelt(Grammar, frames', output', slots2, FALSE)
        <3>1. TextSpelt(Grammar, frames, output, slots, FALSE)
            BY <2>6 DEF TextOf
        <3>2. name \in Grammar.names
            BY <2>1, GrammarParts
        <3>3. lead = IF frames[n].first THEN <<>> ELSE <<Mark("comma")>>
            BY <2>3 DEF lead
        <3> DEFINE after == frames'
        <3>4. /\ Len(frames) \in Nat \ {0}
              /\ frames[Len(frames)].kind = "object" /\ ~frames[Len(frames)].expecting
              /\ Len(after) = Len(frames)
              /\ after[Len(frames)].kind = "object" /\ after[Len(frames)].expecting
            BY <2>1, <2>3, <2>4, <2>5
        <3>5. \A i \in 1 .. Len(frames) - 1 : after[i] = frames[i] /\ slots2[i] = slots[i]
            BY <2>5, <2>7
        <3> HIDE DEF after
        <3>6. TextSpelt(Grammar, after, output \o lead \o Label(name), slots2, FALSE)
            BY <2>7, <2>9, <3>1, <3>2, <3>3, <3>4, <3>5, NameGiven, Zenon
        <3> QED BY <2>2, <3>6 DEF after
    <2>11. NamesRemembered(top, slots2[n])
        BY <2>1, <2>4, <2>7, <2>8 DEF NamesRemembered
    <2>12. ASSUME NEW i \in 1 .. n PROVE NamesRemembered(frames'[i], slots2[i])
        <3>1. CASE i = n
            BY <2>5, <2>11, <3>1
        <3>2. CASE i # n
            <4>1. i \in 1 .. n - 1
                BY <2>3, <3>2
            <4>2. NamesRemembered(frames[i], slots[i])
                BY <2>6 DEF TextOf
            <4> QED BY <2>5, <2>7, <4>1, <4>2
        <3> QED BY <3>1, <3>2
    <2>13. TextOf(frames', output', slots2, FALSE)
        BY <2>5, <2>10, <2>12 DEF TextOf
    <2>14. frames' # <<>>
        BY <2>3, <2>5
    <2> QED BY <2>13, <2>14, Zenon DEF TextIsJson
<1> QED BY <1>1, <1>2 DEF WriteField

(* What is closed is a value of the container around it, or the document. *)
LEMMA EndIsJson ==
    ASSUME IInv, TextIsJson, NEW kind \in ContainerKinds,
           NEW mark, Mark(mark) = Closing(kind), EndContainer(kind, mark)
    PROVE  TextIsJson'
<1>1. CASE Fail(EndError(kind))
    BY <1>1, FailKeepsText
<1>2. CASE EndError(kind) = "none" /\ ~Fail(EndError(kind))
    <2> DEFINE n == Len(frames)
               below == SubSeq(frames, 1, n - 1)
    <2>1. frames # <<>> /\ Top.kind = kind /\ ~Top.expecting
        BY <1>2 DEF EndError
    <2>2. /\ output' = output \o <<Closing(kind)>>
          /\ frames' = below
          /\ wroteRoot' = wroteRoot /\ wroteRoot
        BY <1>2, <2>1 DEF EndContainer, IInv, RootStarted
    <2>3. n \in Nat \ {0} /\ n \in 1 .. n /\ Top = frames[n]
        BY <2>1 DEF IInv, TypeOK, Top
    <2>4. /\ below \in Seq(FrameType)
          /\ Len(below) = n - 1
          /\ \A i \in 1 .. n - 1 : below[i] = frames[i]
        BY <2>1, FrontOf DEF IInv, TypeOK
    <2>5. PICK slots : TextOf(frames, output, slots, FALSE)
        BY <2>1, Zenon DEF TextIsJson
    <2> HIDE DEF below
    <2>6. PICK start \in Seq(Tokens(Grammar)), value \in Seq(Tokens(Grammar)) :
              /\ output \o <<Closing(kind)>> = start \o value
              /\ Spells(Grammar, value, slots[n].tree)
              /\ TextSpelt(Grammar, below, start, slots, TRUE)
        <3>1. TextSpelt(Grammar, frames, output, slots, FALSE)
            BY <2>5 DEF TextOf
        <3>2. frames[n].kind \in ContainerKinds /\ ~frames[n].expecting /\ frames[n].kind = kind
            BY <2>1, <2>3
        <3>3. \A i \in 1 .. n - 1 : below[i] = frames[i] /\ slots[i] = slots[i]
            BY <2>4
        <3> QED BY <2>3, <2>4, <3>1, <3>2, <3>3, ContainerPopped
    <2>7. TextOf(below, start, slots, TRUE)
        <3>1. ASSUME NEW i \in 1 .. n - 1 PROVE NamesRemembered(below[i], slots[i])
            <4>1. i \in 1 .. n
                BY <2>3
            <4> QED BY <2>4, <2>5, <4>1 DEF TextOf
        <3> QED BY <2>4, <2>6, <3>1 DEF TextOf
    <2>8. \A i \in 1 .. Len(below) : ~below[i].first /\ ~below[i].expecting
        BY <2>4 DEF IInv, OuterFramesSettled
    <2> QED BY <2>2, <2>4, <2>6, <2>7, <2>8, JsonValueEnds
<1> QED BY <1>1, <1>2 DEF EndContainer

LEMMA InitTextIsJson == Init => TextIsJson
<1> SUFFICES ASSUME Init PROVE TextIsJson
    OBVIOUS
<1>1. frames = <<>> /\ output = <<>> /\ ~wroteRoot /\ Len(frames) = 0
    BY DEF Init
<1>2. TextSpelt(Grammar, frames, output, <<>>, FALSE)
    BY <1>1, NothingOpen, Zenon
<1>3. \A i \in 1 .. Len(frames) : FALSE
    BY <1>1
<1>4. TextOf(frames, output, <<>>, FALSE)
    BY <1>2, <1>3, Zenon DEF TextOf
<1> QED BY <1>1, <1>4, Zenon DEF TextIsJson

LEMMA NextTextIsJson == IInv /\ TextIsJson /\ [Next]_jsonVars => TextIsJson'
<1> SUFFICES ASSUME IInv, TextIsJson, [Next]_jsonVars PROVE TextIsJson'
    OBVIOUS
<1>1. ASSUME NEW value \in Scalars, WriteScalar(value) PROVE TextIsJson'
    BY <1>1, ScalarIsJson
<1>2. CASE BeginSequence
    <2>1. CASE RefuseValue
        BY <2>1, FailKeepsText DEF RefuseValue
    <2>2. CASE StartValue(<<Mark("begin_sequence")>>, <<Frame("sequence", FALSE)>>)
        <3>1. Opening("sequence") = Mark("begin_sequence") /\ "sequence" \in ContainerKinds
            BY DEF Opening, ContainerKinds
        <3> QED BY <2>2, <3>1, OpeningIsJson
    <2> QED BY <1>2, <2>1, <2>2 DEF BeginSequence
<1>3. ASSUME NEW checked \in ObjectForms, BeginObject(checked) PROVE TextIsJson'
    <2>1. CASE RefuseValue
        BY <2>1, FailKeepsText DEF RefuseValue
    <2>2. CASE StartValue(<<Mark("begin_object")>>, <<Frame("object", checked)>>)
        <3>1. Opening("object") = Mark("begin_object") /\ "object" \in ContainerKinds
            BY DEF Opening, ContainerKinds
        <3>2. checked \in BOOLEAN /\ (~checked => FALSE \in ObjectForms)
            BY JsonBounds
        <3> QED BY <2>2, <3>1, <3>2, OpeningIsJson
    <2> QED BY <1>3, <2>1, <2>2 DEF BeginObject
<1>4. ASSUME NEW name \in Names, WriteField(name) PROVE TextIsJson'
    BY <1>4, FieldIsJson
<1>5. CASE EndSequence
    <2>1. Mark("end_sequence") = Closing("sequence") /\ "sequence" \in ContainerKinds
        BY DEF Closing, ContainerKinds
    <2> QED BY <1>5, <2>1, EndIsJson DEF EndSequence
<1>6. CASE EndObject
    <2>1. Mark("end_object") = Closing("object") /\ "object" \in ContainerKinds
        BY DEF Closing, ContainerKinds
    <2> QED BY <1>6, <2>1, EndIsJson DEF EndObject
<1>7. CASE UNCHANGED jsonVars
    BY <1>7 DEF jsonVars, TextIsJson, TextOf, NamesRemembered
<1> QED BY <1>1, <1>2, <1>3, <1>4, <1>5, <1>6, <1>7 DEF Next

(* More calls can always make the text a document; once the root is finished *)
(* it is one.                                                                *)
Completes ==
    /\ \E rest \in Seq(Tokens(Grammar)) : \E tree : Spells(Grammar, output \o rest, tree)
    /\ frames = <<>> /\ wroteRoot => \E tree : Spells(Grammar, output, tree)

LEMMA TextCompletesHere == ASSUME IInv, TextIsJson PROVE Completes
<1>1. CASE frames = <<>> /\ wroteRoot
    <2>1. PICK tree : Spells(Grammar, output, tree)
        BY <1>1, Zenon DEF TextIsJson
    <2>2. output \in Seq(Tokens(Grammar))
        BY <2>1, TextsAreTokens, SaysParts DEF Spells
    <2>3. output \o <<>> = output /\ <<>> \in Seq(Tokens(Grammar))
        BY <2>2
    <2> QED BY <2>1, <2>3 DEF Completes
<1>2. CASE frames = <<>> /\ ~wroteRoot
    <2> DEFINE rest == <<Opening("sequence")>> \o <<Closing("sequence")>>
    <2>1. Spells(Grammar, rest, Node("sequence", <<>>))
        BY EmptySpelt DEF ContainerKinds
    <2> HIDE DEF rest
    <2>2. rest \in Seq(Tokens(Grammar))
        BY <2>1, TextsAreTokens, SaysParts DEF Spells
    <2>3. output \o rest = rest
        BY <1>2, <2>2 DEF IInv, RootStarted
    <2> QED BY <1>2, <2>1, <2>2, <2>3 DEF Completes
<1>3. CASE frames # <<>>
    <2>1. PICK slots : TextSpelt(Grammar, frames, output, slots, FALSE)
        BY <1>3, Zenon DEF TextIsJson, TextOf
    <2>2. /\ Len(frames) \in Nat \ {0}
          /\ \A i \in 1 .. Len(frames) : frames[i].kind \in ContainerKinds
        <3>1. frames \in Seq(FrameType)
            BY DEF IInv, TypeOK
        <3>2. \A frame \in FrameType : frame.kind \in ContainerKinds
            BY DEF FrameType, ContainerKinds
        <3> QED BY <1>3, <3>1, <3>2
    <2> QED BY <1>3, <2>1, <2>2, TextCompletes DEF Completes
<1> QED BY <1>1, <1>2, <1>3

(* After any calls, failed ones included, of any number and nesting, the     *)
(* text is the beginning of a document by JSON's own grammar, and once the   *)
(* root is finished it is a document: a single value, every container closed *)
(* by its own mark, every name followed by its value.  If the codec opens   *)
(* all objects with begin_object_checked, no object has a name twice; where  *)
(* it also opens some with begin_object, the text does not tell which those  *)
(* were, and the grammar allows repeats in all (Grammar.repeats).            *)
THEOREM JsonTextCompletes == Spec => []Completes
<1>1. Init => IInv /\ TextIsJson
    BY InitIInv, InitTextIsJson
<1>2. IInv /\ TextIsJson /\ [Next]_jsonVars => (IInv /\ TextIsJson)'
    BY NextIInv, NextTextIsJson
<1>3. IInv /\ TextIsJson => Completes
    BY TextCompletesHere
<1> QED BY <1>1, <1>2, <1>3, PTL DEF Spec

-----------------------------------------------------------------------------
(* Refinement of WireContract. *)

(* The container a frame shows to the codec. *)
Shown(frame) == [kind |-> frame.kind, awaiting |-> frame.expecting]

LEMMA OpenContainersFacts ==
    ASSUME IInv
    PROVE  /\ Len(OpenContainers) = Len(frames)
           /\ DOMAIN OpenContainers = 1 .. Len(frames)
           /\ OpenContainers = <<>> <=> frames = <<>>
           /\ \A i \in 1 .. Len(frames) : OpenContainers[i] = Shown(frames[i])
           /\ OpenContainers \in Seq([kind : {"sequence", "object"}, awaiting : BOOLEAN])
<1>1. frames \in Seq(FrameType)
    BY DEF IInv, TypeOK
<1>2. ASSUME NEW i \in 1 .. Len(frames)
      PROVE  Shown(frames[i]) \in [kind : {"sequence", "object"}, awaiting : BOOLEAN]
    <2>1. frames[i] \in FrameType
        BY <1>1
    <2>2. frames[i].kind \in {"sequence", "object"} /\ frames[i].expecting \in BOOLEAN
        BY <2>1 DEF FrameType
    <2> QED BY <2>2 DEF Shown
<1>3. OpenContainers = [i \in 1 .. Len(frames) |-> Shown(frames[i])]
    BY <1>1 DEF OpenContainers, Shown
<1> QED BY <1>1, <1>2, <1>3

(* before_value refuses a value exactly where the contract does. *)
LEMMA ValueAllowedHere ==
    ASSUME IInv, ValueError = "none"
    PROVE  Contract!ValueAllowed
<1>1. CASE frames = <<>>
    BY <1>1, OpenContainersFacts DEF ValueError, Contract!ValueAllowed
<1>2. CASE frames # <<>>
    <2>1. OpenContainers[Len(OpenContainers)] = Shown(Top)
        BY <1>2, TopFacts, OpenContainersFacts DEF IInv, TypeOK
    <2> QED BY <1>2, <2>1, OpenContainersFacts
            DEF ValueError, Contract!ValueAllowed, Contract!Innermost, Shown
<1> QED BY <1>1, <1>2

(* What before_value leaves is what the contract calls Settled. *)
LEMMA SettledHere ==
    ASSUME IInv, ValueError = "none", NEW i \in 1 .. Len(frames)
    PROVE  Contract!Settled[i] = Shown(FramesAfterValue[i])
<1>1. /\ FramesAfterValue[i].kind = frames[i].kind
      /\ ~FramesAfterValue[i].first
      /\ FramesAfterValue[i].expecting = FALSE
    <2>1. FramesAfterValue[i] \in FrameType
        BY FramesAfterValueSettled DEF IInv, TypeOK
    <2> QED BY <2>1, FramesAfterValueSettled DEF IInv, TypeOK, FrameType
<1>2. Contract!Settled[i] =
          IF i = Len(frames) THEN Contract!Container(OpenContainers[i].kind, FALSE)
                             ELSE OpenContainers[i]
    BY OpenContainersFacts DEF Contract!Settled
<1>3. CASE i = Len(frames)
    <2>1. OpenContainers[i] = [kind |-> frames[i].kind, awaiting |-> frames[i].expecting]
        BY OpenContainersFacts DEF Shown
    <2>2. Contract!Settled[i] = [kind |-> frames[i].kind, awaiting |-> FALSE]
        BY <1>2, <1>3, <2>1 DEF Contract!Container
    <2> QED BY <1>1, <2>2 DEF Shown
<1>4. CASE i # Len(frames)
    <2>1. frames[i] \in FrameType /\ ~frames[i].expecting
        BY <1>4 DEF IInv, TypeOK, OuterFramesSettled
    <2> QED BY <1>1, <1>2, <1>4, <2>1, OpenContainersFacts DEF Shown, FrameType
<1> QED BY <1>3, <1>4

LEMMA FailStutters ==
    ASSUME NEW message, Fail(message)
    PROVE  UNCHANGED Contract!contractVars
BY DEF Fail, Contract!contractVars, OpenContainers

(* The frames after a step, when it left them typed and counted. *)
LEMMA OpenContainersAfter ==
    ASSUME frames' \in Seq(FrameType)
    PROVE  OpenContainers' = [i \in 1 .. Len(frames') |-> Shown(frames'[i])]
BY DEF OpenContainers, Shown

(* An accepted scalar is the contract's PutScalar. *)
LEMMA ScalarRefines ==
    ASSUME IInv, NEW tokens, StartValue(tokens, <<>>)
    PROVE  Contract!PutScalar
<1>1. /\ ValueError = "none"
      /\ frames' = FramesAfterValue \o <<>>
      /\ wroteRoot' = (wroteRoot \/ frames = <<>>)
    BY DEF StartValue
<1>2. /\ FramesAfterValue \in Seq(FrameType)
      /\ Len(FramesAfterValue) = Len(frames)
    BY <1>1, FramesAfterValueSettled
<1>3. frames' = FramesAfterValue /\ Len(frames') = Len(frames) /\ frames' \in Seq(FrameType)
    BY <1>1, <1>2
<1>4. OpenContainers' = [i \in 1 .. Len(frames) |-> Shown(FramesAfterValue[i])]
    BY <1>3, OpenContainersAfter
<1>5. Contract!Settled = [i \in 1 .. Len(frames) |-> Contract!Settled[i]]
    BY OpenContainersFacts DEF Contract!Settled
<1>6. OpenContainers' = Contract!Settled
    BY <1>1, <1>4, <1>5, SettledHere
<1>7. wroteRoot' = TRUE
    BY <1>1 DEF IInv, RootStarted, TypeOK
<1> QED BY <1>1, <1>6, <1>7, ValueAllowedHere DEF Contract!PutScalar

(* An accepted begin call is the contract's OpenContainer. *)
LEMMA OpeningRefines ==
    ASSUME IInv, NEW tokens, NEW kind \in {"sequence", "object"}, NEW checked \in BOOLEAN,
           StartValue(tokens, <<Frame(kind, checked)>>)
    PROVE  Contract!OpenContainer(kind)
<1> DEFINE frame == Frame(kind, checked)
           container == Contract!Container(kind, FALSE)
<1>0. frame \in FrameType /\ Shown(frame) = container
    BY DEF Frame, FrameType, Shown, Contract!Container
<1> HIDE DEF frame, container
<1>1. /\ ValueError = "none"
      /\ frames' = FramesAfterValue \o <<frame>>
      /\ wroteRoot' = (wroteRoot \/ frames = <<>>)
    BY DEF StartValue, frame
<1>2. /\ FramesAfterValue \in Seq(FrameType)
      /\ Len(FramesAfterValue) = Len(frames)
      /\ Len(frames) \in Nat
    BY <1>1, FramesAfterValueSettled DEF IInv, TypeOK
<1>3. frames' = [i \in 1 .. Len(frames) + 1 |->
                     IF i <= Len(frames) THEN FramesAfterValue[i] ELSE frame]
    BY <1>0, <1>1, <1>2, AppendIs
<1>4. frames' \in Seq(FrameType) /\ Len(frames') = Len(frames) + 1
    <2>1. FramesAfterValue \o <<frame>> \in Seq(FrameType)
        BY <1>0, <1>2
    <2> QED BY <1>1, <1>2, <1>3, <2>1
<1>5. OpenContainers' = [i \in 1 .. Len(frames) + 1 |->
                             IF i <= Len(frames) THEN Shown(FramesAfterValue[i]) ELSE Shown(frame)]
    BY <1>2, <1>3, <1>4, OpenContainersAfter
<1>6. Contract!Settled = [i \in 1 .. Len(frames) |-> Contract!Settled[i]]
    BY OpenContainersFacts DEF Contract!Settled
<1>7. \A i \in 1 .. Len(frames) : Contract!Settled[i] = Shown(FramesAfterValue[i])
    BY <1>1, SettledHere
<1>8. Contract!Settled \in Seq({Shown(f) : f \in FrameType}) /\ Len(Contract!Settled) = Len(frames)
    <2>1. \A i \in 1 .. Len(frames) : FramesAfterValue[i] \in FrameType
        BY <1>2
    <2> QED BY <1>2, <1>6, <1>7, <2>1
<1>9. Append(Contract!Settled, container) =
          [i \in 1 .. Len(frames) + 1 |->
              IF i <= Len(frames) THEN Contract!Settled[i] ELSE container]
    BY <1>0, <1>8, AppendIs
<1>10. OpenContainers' = Append(Contract!Settled, container)
    BY <1>0, <1>2, <1>5, <1>7, <1>9
<1>11. wroteRoot' = TRUE
    BY <1>1 DEF IInv, RootStarted, TypeOK
<1> QED BY <1>1, <1>10, <1>11, ValueAllowedHere DEF Contract!OpenContainer, container

(* An accepted name is the contract's PutName. *)
LEMMA FieldRefines ==
    ASSUME IInv, NEW name \in Names, WriteField(name), FieldError(name) = "none"
    PROVE  Contract!PutName
<1> DEFINE top == Named(Top, name)
<1>1. /\ frames # <<>>
      /\ Top.kind = "object"
      /\ ~Top.expecting
      /\ wroteRoot' = wroteRoot
      /\ frames' = [frames EXCEPT ![Len(frames)] = top]
    BY DEF FieldError, WriteField, Fail
<1>2. /\ top \in FrameType
      /\ top.kind = Top.kind
      /\ top.expecting = TRUE
    BY <1>1, TopFacts DEF FrameType, Named
<1> HIDE DEF top
<1>3. /\ frames' \in Seq(FrameType)
      /\ Len(frames') = Len(frames)
      /\ frames'[Len(frames)] = top
      /\ \A i \in 1 .. Len(frames) - 1 : frames'[i] = frames[i]
      /\ Len(frames) \in Nat \ {0}
    BY <1>1, <1>2 DEF IInv, TypeOK
<1>4. OpenContainers[Len(frames)] = [kind |-> Top.kind, awaiting |-> Top.expecting]
    BY <1>3, OpenContainersFacts DEF Top, Shown
<1>5. [OpenContainers EXCEPT ![Len(OpenContainers)] = Contract!Container("object", TRUE)]
          = [i \in 1 .. Len(frames) |->
                IF i = Len(frames) THEN Contract!Container("object", TRUE) ELSE OpenContainers[i]]
    BY <1>3, <1>4, OpenContainersFacts
<1>6. OpenContainers' = [i \in 1 .. Len(frames) |-> Shown(frames'[i])]
    BY <1>3, OpenContainersAfter
<1>7. Shown(frames'[Len(frames)]) = Contract!Container("object", TRUE)
    BY <1>1, <1>2, <1>3 DEF Shown, Contract!Container
<1>8. ASSUME NEW i \in 1 .. Len(frames), i # Len(frames)
      PROVE  Shown(frames'[i]) = OpenContainers[i]
    BY <1>3, <1>8, OpenContainersFacts
<1>9. OpenContainers' = [OpenContainers EXCEPT ![Len(OpenContainers)] = Contract!Container("object", TRUE)]
    BY <1>5, <1>6, <1>7, <1>8
<1>10. /\ OpenContainers # <<>>
       /\ OpenContainers[Len(OpenContainers)].kind = "object"
       /\ ~OpenContainers[Len(OpenContainers)].awaiting
    BY <1>1, <1>4, OpenContainersFacts
<1> QED BY <1>1, <1>9, <1>10, Zenon DEF Contract!PutName, Contract!Innermost

(* An accepted end call is the contract's CloseContainer. *)
LEMMA ClosingRefines ==
    ASSUME IInv, NEW kind \in {"sequence", "object"}, NEW mark,
           EndContainer(kind, mark), EndError(kind) = "none"
    PROVE  Contract!CloseContainer(kind)
<1>1. /\ frames # <<>>
      /\ Top.kind = kind
      /\ ~Top.expecting
      /\ wroteRoot' = wroteRoot
      /\ frames' = SubSeq(frames, 1, Len(frames) - 1)
    BY DEF EndError, EndContainer, Fail
<1>2. /\ frames' \in Seq(FrameType)
      /\ Len(frames') = Len(frames) - 1
      /\ \A i \in 1 .. Len(frames) - 1 : frames'[i] = frames[i]
      /\ Len(frames) \in Nat \ {0}
    <2>1. frames \in Seq(FrameType) /\ Len(frames) \in Nat \ {0}
        BY <1>1 DEF IInv, TypeOK
    <2>2. SubSeq(frames, 1, Len(frames) - 1) \in Seq(FrameType)
        BY <2>1
    <2>3. /\ Len(SubSeq(frames, 1, Len(frames) - 1)) = Len(frames) - 1
          /\ \A i \in 1 .. Len(frames) - 1 : SubSeq(frames, 1, Len(frames) - 1)[i] = frames[i]
        BY <2>1, FrontOf
    <2> QED BY <1>1, <2>1, <2>2, <2>3
<1>3. OpenContainers[Len(frames)] = [kind |-> Top.kind, awaiting |-> Top.expecting]
    BY <1>2, OpenContainersFacts DEF Top, Shown
<1>4. OpenContainers' = [i \in 1 .. Len(frames) - 1 |-> Shown(frames'[i])]
    BY <1>2, OpenContainersAfter
<1>5. SubSeq(OpenContainers, 1, Len(OpenContainers) - 1)
          = [i \in 1 .. Len(frames) - 1 |-> OpenContainers[i]]
    BY <1>2, OpenContainersFacts
<1>6. OpenContainers' = SubSeq(OpenContainers, 1, Len(OpenContainers) - 1)
    BY <1>2, <1>4, <1>5, OpenContainersFacts
<1> QED BY <1>1, <1>2, <1>3, <1>6, OpenContainersFacts
        DEF Contract!CloseContainer, Contract!Innermost

LEMMA InitRefines == Init => Contract!Init
BY DEF Init, Contract!Init, OpenContainers

LEMMA NextRefines ==
    IInv /\ [Next]_jsonVars => [Contract!Next]_(Contract!contractVars)
<1> SUFFICES ASSUME IInv, [Next]_jsonVars
             PROVE  Contract!Next \/ UNCHANGED Contract!contractVars
    OBVIOUS
<1>1. ASSUME NEW message, Fail(message)
      PROVE  UNCHANGED Contract!contractVars
    BY <1>1, FailStutters
<1>2. ASSUME NEW value \in Scalars, WriteScalar(value)
      PROVE  Contract!Next \/ UNCHANGED Contract!contractVars
    <2>1. CASE StartValue(<<ScalarToken(value)>>, <<>>)
        BY <2>1, ScalarRefines DEF Contract!Next
    <2> QED BY <1>1, <1>2, <2>1 DEF WriteScalar, RefuseValue
<1>3. CASE BeginSequence
    <2>1. CASE StartValue(<<Mark("begin_sequence")>>, <<Frame("sequence", FALSE)>>)
        BY <2>1, OpeningRefines DEF Contract!Next
    <2> QED BY <1>1, <1>3, <2>1 DEF BeginSequence, RefuseValue
<1>4. ASSUME NEW checked \in ObjectForms, BeginObject(checked)
      PROVE  Contract!Next \/ UNCHANGED Contract!contractVars
    <2>0. checked \in BOOLEAN
        BY JsonBounds
    <2>1. CASE StartValue(<<Mark("begin_object")>>, <<Frame("object", checked)>>)
        BY <2>0, <2>1, OpeningRefines DEF Contract!Next
    <2> QED BY <1>1, <1>4, <2>1 DEF BeginObject, RefuseValue
<1>5. ASSUME NEW name \in Names, WriteField(name)
      PROVE  Contract!Next \/ UNCHANGED Contract!contractVars
    <2>1. CASE FieldError(name) = "none"
        BY <1>5, <2>1, FieldRefines DEF Contract!Next
    <2> QED BY <1>1, <1>5, <2>1 DEF WriteField
<1>6. ASSUME NEW kind \in {"sequence", "object"}, NEW mark, EndContainer(kind, mark)
      PROVE  Contract!Next \/ UNCHANGED Contract!contractVars
    <2>1. CASE EndError(kind) = "none"
        BY <1>6, <2>1, ClosingRefines DEF Contract!Next
    <2> QED BY <1>1, <1>6, <2>1 DEF EndContainer
<1>7. CASE UNCHANGED jsonVars
    BY <1>7 DEF jsonVars, Contract!contractVars, OpenContainers
<1> QED BY <1>2, <1>3, <1>4, <1>5, <1>6, <1>7 DEF Next, EndSequence, EndObject

(* JsonWriter implements WireContract: seen through its frames, an accepted *)
(* call is the contract's action of the same meaning and a rejected call is *)
(* a stutter.                                                              *)
THEOREM JsonImplementsContract == Spec => ImplementsContract
<1>1. Spec => []IInv
    BY InitIInv, NextIInv, PTL DEF Spec
<1> QED BY <1>1, InitRefines, NextRefines, PTL DEF Spec, ImplementsContract, Contract!Spec

=============================================================================
