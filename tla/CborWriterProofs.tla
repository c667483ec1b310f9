-------------------------- MODULE CborWriterProofs --------------------------
(***************************************************************************)
(* Theorems about CborWriter, for any names, texts, scalars, ids, sizes and *)
(* depth.  The first part is about its counters, which stay right after any *)
(* calls, and about WireContract, which it implements: what the buffered    *)
(* bytes are is of no account there, the entries of a container are taken   *)
(* from some set, and only their number matters.  The second part is about  *)
(* the bytes: the canonical order is a total order on byte strings, sorting *)
(* permutes the entries and leaves none before a smaller one, and comparing *)
(* neighbours finds every repeated key.                                     *)
(***************************************************************************)
EXTENDS CborWriter, SequenceFacts, FiniteSetTheorems

Kinds == SequenceKinds \union ObjectKinds

FrameOf(E) ==
    [kind : Kinds, expected : Nat, written : Nat, compact : BOOLEAN, expecting : BOOLEAN,
     entries : Seq(E)]

Shaped(open) == \E E : open \in Seq(FrameOf(E))

(* What the bookkeeping looks at in a frame. *)
Alike(one, other) ==
    /\ one.kind = other.kind
    /\ one.expected = other.expected
    /\ one.written = other.written
    /\ one.expecting = other.expecting
    /\ Len(one.entries) = Len(other.entries)

SameShape(old, new) ==
    /\ Shaped(new)
    /\ Len(new) = Len(old)
    /\ \A i \in 1 .. Len(old) : Alike(new[i], old[i])

FrameCounted(frame) ==
    /\ frame.written <= frame.expected
    /\ Buffered(frame) => Len(frame.entries) = frame.written
    /\ frame.kind \in SequenceKinds => ~frame.expecting
    /\ frame.expecting => frame.written > 0

(* A frame whose current entry is open to an inner container. *)
Receiving(frame) == frame.written > 0 /\ ~frame.expecting

(* The inductive invariant.  CountsKept is not inductive: that a container  *)
(* has counted the item which another container becomes follows from its    *)
(* never waiting for a value it has not counted (FrameCounted's last part). *)
Counted(open) ==
    \A i \in 1 .. Len(open) :
        FrameCounted(open[i]) /\ (i < Len(open) => Receiving(open[i]))

Good(open) == Shaped(open) /\ Counted(open)

Ready(open) == open # <<>> => Receiving(open[Len(open)])

IInv ==
    /\ Good(frames)
    /\ wroteRoot \in BOOLEAN
    /\ frames # <<>> => wroteRoot

-----------------------------------------------------------------------------
(* Writing bytes leaves the bookkeeping alone. *)

LEMMA FillAlike ==
    ASSUME NEW E, NEW frame \in FrameOf(E), NEW bytes
    PROVE  \E F : /\ E \subseteq F
                  /\ Fill(frame, bytes) \in FrameOf(F)
                  /\ Alike(Fill(frame, bytes), frame)
<1> DEFINE F == E \union {Entry(e.key, e.value \o bytes) : e \in E}
           entries == frame.entries
           filled == Filled(entries, bytes)
<1>1. entries \in Seq(E) /\ DOMAIN entries = 1 .. Len(entries) /\ Len(entries) \in Nat
    BY DEF FrameOf
<1>2. \A i \in 1 .. Len(entries) : entries[i] \in E
    BY <1>1
<1>3. filled = [i \in 1 .. Len(entries) |->
                   IF i = Len(entries) THEN Entry(entries[i].key, entries[i].value \o bytes)
                   ELSE entries[i]]
    BY <1>1 DEF Filled
<1>4. \A i \in 1 .. Len(entries) :
          (IF i = Len(entries) THEN Entry(entries[i].key, entries[i].value \o bytes)
           ELSE entries[i]) \in F
    BY <1>2
<1> HIDE DEF F, entries, filled
<1>5. filled \in Seq(F) /\ Len(filled) = Len(entries)
    <2>1. filled \in [1 .. Len(entries) -> F]
        BY <1>3, <1>4
    <2> QED BY <1>1, <2>1, FunctionIsSeq
<1>6. /\ Fill(frame, bytes) \in FrameOf(F)
      /\ Alike(Fill(frame, bytes), frame)
    BY <1>5 DEF Fill, FrameOf, Alike, filled, entries
<1>7. E \subseteq F
    BY DEF F
<1> QED BY <1>6, <1>7

(* The frame that gets the bytes is one at most, so one set of entries does. *)
LEMMA FramesPlusSame ==
    ASSUME NEW open, Shaped(open), NEW bytes
    PROVE  SameShape(open, FramesPlus(open, bytes))
<1>1. PICK E : open \in Seq(FrameOf(E))
    BY DEF Shaped
<1>2. /\ Len(open) \in Nat
      /\ \A i \in 1 .. Len(open) : open[i] \in FrameOf(E)
      /\ FramesPlus(open, bytes) =
             [i \in 1 .. Len(open) |-> IF i = Active(open) THEN Fill(open[i], bytes) ELSE open[i]]
    BY <1>1 DEF FramesPlus
<1>3. \A i \in 1 .. Len(open) : Alike(open[i], open[i])
    BY DEF Alike
<1>4. CASE Active(open) \in 1 .. Len(open)
    <2>1. PICK F : /\ E \subseteq F
                   /\ Fill(open[Active(open)], bytes) \in FrameOf(F)
                   /\ Alike(Fill(open[Active(open)], bytes), open[Active(open)])
        BY <1>2, <1>4, FillAlike
    <2>2. \A i \in 1 .. Len(open) : open[i] \in FrameOf(F)
        <3>1. Seq(E) \subseteq Seq(F)
            BY <2>1
        <3> QED BY <1>2, <3>1 DEF FrameOf
    <2>3. \A i \in 1 .. Len(open) :
              (IF i = Active(open) THEN Fill(open[i], bytes) ELSE open[i]) \in FrameOf(F)
        BY <2>1, <2>2
    <2>4. /\ FramesPlus(open, bytes) \in Seq(FrameOf(F))
          /\ Len(FramesPlus(open, bytes)) = Len(open)
        BY <1>2, <2>3
    <2> QED BY <1>2, <1>3, <2>1, <2>4 DEF SameShape, Shaped
<1>5. CASE Active(open) \notin 1 .. Len(open)
    <2>1. FramesPlus(open, bytes) = [i \in 1 .. Len(open) |-> open[i]]
        BY <1>2, <1>5
    <2>2. FramesPlus(open, bytes) = open
        BY <1>1, <2>1, SeqIsFunction
    <2> QED BY <1>1, <1>3, <2>2 DEF SameShape, Shaped
<1> QED BY <1>4, <1>5

LEMMA SameKeeps ==
    ASSUME NEW old, NEW new, Good(old), SameShape(old, new)
    PROVE  /\ Good(new)
           /\ Ready(old) => Ready(new)
           /\ new = <<>> <=> old = <<>>
<1>1. /\ Shaped(new) /\ Shaped(old)
      /\ Len(new) = Len(old)
      /\ \A i \in 1 .. Len(old) : Alike(new[i], old[i])
    BY DEF Good, SameShape
<1>2. Len(old) \in Nat /\ (new = <<>> <=> Len(new) = 0) /\ (old = <<>> <=> Len(old) = 0)
    BY <1>1 DEF Shaped
<1>3. \A i \in 1 .. Len(old) :
          /\ FrameCounted(old[i]) => FrameCounted(new[i])
          /\ Receiving(old[i]) => Receiving(new[i])
    BY <1>1 DEF Alike, FrameCounted, Receiving, Buffered
<1>4. Counted(new)
    BY <1>1, <1>2, <1>3 DEF Good, Counted
<1> QED BY <1>1, <1>2, <1>3, <1>4 DEF Good, Ready

-----------------------------------------------------------------------------
(* Each operation keeps the invariant. *)

LEMMA TopIs ==
    ASSUME IInv, frames # <<>>
    PROVE  /\ Len(frames) \in Nat \ {0}
           /\ Top = frames[Len(frames)]
           /\ FrameCounted(Top)
           /\ Top.kind \in Kinds
           /\ Top.expecting \in BOOLEAN
<1>1. PICK E : frames \in Seq(FrameOf(E))
    BY DEF IInv, Good, Shaped
<1>2. Len(frames) \in Nat \ {0} /\ frames[Len(frames)] \in FrameOf(E)
    BY <1>1
<1> QED BY <1>2 DEF IInv, Good, Counted, Top, FrameOf

(* The innermost frame may be replaced by a counted one of the same shape. *)
LEMMA TopReplaced ==
    ASSUME IInv, frames # <<>>, NEW E, frames \in Seq(FrameOf(E)),
           NEW top, NEW F, E \subseteq F, top \in FrameOf(F), FrameCounted(top)
    PROVE  LET new == [frames EXCEPT ![Len(frames)] = top]
           IN  /\ Good(new)
               /\ Len(new) = Len(frames)
               /\ new[Len(frames)] = top
               /\ \A i \in 1 .. Len(frames) - 1 : new[i] = frames[i]
<1> DEFINE new == [frames EXCEPT ![Len(frames)] = top]
<1>1. Len(frames) \in Nat \ {0} /\ \A i \in 1 .. Len(frames) : frames[i] \in FrameOf(E)
    OBVIOUS
<1>2. \A i \in 1 .. Len(frames) : frames[i] \in FrameOf(F)
    <2>1. Seq(E) \subseteq Seq(F)
        OBVIOUS
    <2> QED BY <1>1, <2>1 DEF FrameOf
<1>3. frames \in Seq(FrameOf(F))
    <2>1. frames \in [1 .. Len(frames) -> FrameOf(F)]
        BY <1>1, <1>2, SeqIsFunction
    <2> QED BY <1>1, <2>1, FunctionIsSeq
<1>4. /\ new \in Seq(FrameOf(F))
      /\ Len(new) = Len(frames)
      /\ new[Len(frames)] = top
      /\ \A i \in 1 .. Len(frames) - 1 : new[i] = frames[i]
    BY <1>1, <1>3
<1> HIDE DEF new
<1>5. Counted(new)
    <2> SUFFICES ASSUME NEW i \in 1 .. Len(frames)
                 PROVE  FrameCounted(new[i]) /\ (i < Len(frames) => Receiving(new[i]))
        BY <1>4 DEF Counted
    <2>1. CASE i = Len(frames)
        BY <1>4, <2>1
    <2>2. CASE i # Len(frames)
        <3>1. i \in 1 .. Len(frames) - 1
            BY <1>1, <2>2
        <3> QED BY <1>4, <3>1 DEF IInv, Good, Counted
    <2> QED BY <2>1, <2>2
<1>6. Good(new)
    BY <1>4, <1>5 DEF Good, Shaped
<1> QED BY <1>4, <1>6 DEF new

LEMMA GivenCounted ==
    ASSUME NEW E, NEW frame \in FrameOf(E), FrameCounted(frame),
           frame.kind \in SequenceKinds => frame.written < frame.expected,
           frame.kind \notin SequenceKinds => frame.expecting
    PROVE  \E F : /\ E \subseteq F
                  /\ Given(frame) \in FrameOf(F)
                  /\ FrameCounted(Given(frame))
                  /\ Receiving(Given(frame))
                  /\ Given(frame).kind = frame.kind
<1> DEFINE F == E \union {Entry(<<>>, <<>>)}
           entries == IF frame.kind = "buffered_sequence"
                      THEN Append(frame.entries, Entry(<<>>, <<>>)) ELSE frame.entries
           written == IF frame.kind \in SequenceKinds THEN frame.written + 1 ELSE frame.written
<1>1. /\ frame.entries \in Seq(F)
      /\ frame.written \in Nat /\ frame.expected \in Nat
      /\ frame.kind \in Kinds /\ frame.compact \in BOOLEAN
    <2>1. frame.entries \in Seq(E) /\ Seq(E) \subseteq Seq(F)
        BY DEF FrameOf
    <2> QED BY <2>1 DEF FrameOf
<1>2. /\ entries \in Seq(F)
      /\ Len(entries) = IF frame.kind = "buffered_sequence"
                        THEN Len(frame.entries) + 1 ELSE Len(frame.entries)
    BY <1>1
<1> HIDE DEF F, entries
<1>3. /\ Given(frame) \in FrameOf(F)
      /\ Given(frame).kind = frame.kind
      /\ Given(frame).expected = frame.expected
      /\ Given(frame).written = written
      /\ Given(frame).expecting = FALSE
      /\ Given(frame).entries = entries
    <2>1. written \in Nat
        BY <1>1
    <2> HIDE DEF written
    <2>2. Given(frame) = Updated(frame, written, entries, FALSE)
        BY Zenon DEF Given, written, entries
    <2>3. /\ Updated(frame, written, entries, FALSE) \in FrameOf(F)
          /\ Updated(frame, written, entries, FALSE).kind = frame.kind
          /\ Updated(frame, written, entries, FALSE).expected = frame.expected
          /\ Updated(frame, written, entries, FALSE).written = written
          /\ Updated(frame, written, entries, FALSE).expecting = FALSE
          /\ Updated(frame, written, entries, FALSE).entries = entries
        BY <1>1, <1>2, <2>1 DEF Updated, FrameOf
    <2> QED BY <2>2, <2>3, Zenon
<1>4. FrameCounted(Given(frame)) /\ Receiving(Given(frame))
    BY <1>1, <1>2, <1>3 DEF FrameCounted, Receiving, Buffered, Kinds, SequenceKinds, ObjectKinds
<1>5. E \subseteq F
    BY DEF F
<1> QED BY <1>3, <1>4, <1>5

LEMMA KeyedCounted ==
    ASSUME NEW E, NEW frame \in FrameOf(E), FrameCounted(frame), NEW key,
           frame.kind \notin SequenceKinds, frame.written < frame.expected
    PROVE  \E F : /\ E \subseteq F
                  /\ Keyed(frame, key) \in FrameOf(F)
                  /\ FrameCounted(Keyed(frame, key))
                  /\ Keyed(frame, key).kind = frame.kind
                  /\ Keyed(frame, key).expecting = TRUE
<1> DEFINE F == E \union {Entry(key, <<>>)}
           entries == IF frame.kind = "buffered_object"
                      THEN Append(frame.entries, Entry(key, <<>>)) ELSE frame.entries
<1>1. /\ frame.entries \in Seq(F)
      /\ frame.written \in Nat /\ frame.expected \in Nat
      /\ frame.kind \in Kinds /\ frame.compact \in BOOLEAN
    <2>1. frame.entries \in Seq(E) /\ Seq(E) \subseteq Seq(F)
        BY DEF FrameOf
    <2> QED BY <2>1 DEF FrameOf
<1>2. /\ entries \in Seq(F)
      /\ Len(entries) = IF frame.kind = "buffered_object"
                        THEN Len(frame.entries) + 1 ELSE Len(frame.entries)
    BY <1>1
<1> HIDE DEF F, entries
<1>3. /\ Keyed(frame, key) \in FrameOf(F)
      /\ Keyed(frame, key).kind = frame.kind
      /\ Keyed(frame, key).expected = frame.expected
      /\ Keyed(frame, key).written = frame.written + 1
      /\ Keyed(frame, key).expecting = TRUE
      /\ Keyed(frame, key).entries = entries
    <2> DEFINE written == frame.written + 1
    <2>1. written \in Nat
        BY <1>1
    <2> HIDE DEF written
    <2>2. Keyed(frame, key) = Updated(frame, written, entries, TRUE)
        BY Zenon DEF Keyed, written, entries
    <2>3. /\ Updated(frame, written, entries, TRUE) \in FrameOf(F)
          /\ Updated(frame, written, entries, TRUE).kind = frame.kind
          /\ Updated(frame, written, entries, TRUE).expected = frame.expected
          /\ Updated(frame, written, entries, TRUE).written = written
          /\ Updated(frame, written, entries, TRUE).expecting = TRUE
          /\ Updated(frame, written, entries, TRUE).entries = entries
        BY <1>1, <1>2, <2>1 DEF Updated, FrameOf
    <2>4. Keyed(frame, key).written = frame.written + 1
        BY <2>2, <2>3, Zenon DEF written
    <2> QED BY <2>2, <2>3, <2>4, Zenon
<1>4. FrameCounted(Keyed(frame, key))
    BY <1>1, <1>2, <1>3 DEF FrameCounted, Buffered, Kinds, SequenceKinds, ObjectKinds
<1>5. E \subseteq F
    BY DEF F
<1> QED BY <1>3, <1>4, <1>5

(* before_value leaves every frame counted and ready to receive a container. *)
LEMMA AfterValueGood ==
    ASSUME IInv, ValueError = "none"
    PROVE  /\ Good(FramesAfterValue)
           /\ Ready(FramesAfterValue)
           /\ Len(FramesAfterValue) = Len(frames)
           /\ \A i \in 1 .. Len(frames) :
                 /\ FramesAfterValue[i].kind = frames[i].kind
                 /\ FramesAfterValue[i].expecting = FALSE
<1>1. CASE frames = <<>>
    <2>1. FramesAfterValue = frames
        BY <1>1 DEF FramesAfterValue
    <2> QED BY <1>1, <2>1 DEF IInv, Ready
<1>2. CASE frames # <<>>
    <2>1. PICK E : frames \in Seq(FrameOf(E))
        BY DEF IInv, Good, Shaped
    <2>2. Len(frames) \in Nat \ {0} /\ Top = frames[Len(frames)] /\ FrameCounted(Top)
        BY <1>2, TopIs
    <2>3. Top \in FrameOf(E)
        BY <2>1, <2>2
    <2>4. /\ Top.kind \in SequenceKinds => Top.written < Top.expected
          /\ Top.kind \notin SequenceKinds => Top.expecting
        <3>1. Top.written \in Nat /\ Top.expected \in Nat
            BY <2>3 DEF FrameOf
        <3> QED BY <1>2, <3>1 DEF ValueError
    <2>5. PICK F : /\ E \subseteq F
                   /\ Given(Top) \in FrameOf(F)
                   /\ FrameCounted(Given(Top))
                   /\ Receiving(Given(Top))
                   /\ Given(Top).kind = Top.kind
        BY <2>2, <2>3, <2>4, GivenCounted
    <2> DEFINE given == [frames EXCEPT ![Len(frames)] = Given(Top)]
    <2>6. /\ Good(given)
          /\ Len(given) = Len(frames)
          /\ given[Len(frames)] = Given(Top)
          /\ \A i \in 1 .. Len(frames) - 1 : given[i] = frames[i]
        BY <1>2, <2>1, <2>5, TopReplaced
    <2>7. FramesAfterValue = given
        BY <1>2 DEF FramesAfterValue
    <2> HIDE DEF given
    <2>8. Ready(FramesAfterValue)
        BY <2>5, <2>6, <2>7 DEF Ready
    <2>9. ASSUME NEW i \in 1 .. Len(frames)
          PROVE  /\ FramesAfterValue[i].kind = frames[i].kind
                 /\ FramesAfterValue[i].expecting = FALSE
        <3>1. CASE i = Len(frames)
            <4>1. Given(Top).expecting = FALSE
                BY <2>5 DEF Given, Updated
            <4> QED BY <2>2, <2>5, <2>6, <2>7, <3>1, <4>1
        <3>2. CASE i # Len(frames)
            <4>1. i \in 1 .. Len(frames) - 1 /\ i < Len(frames)
                BY <2>2, <3>2
            <4>2. frames[i] \in FrameOf(E) /\ ~frames[i].expecting
                BY <2>1, <4>1 DEF IInv, Good, Counted, Receiving
            <4> QED BY <2>6, <2>7, <4>1, <4>2 DEF FrameOf
        <3> QED BY <3>1, <3>2
    <2> QED BY <2>6, <2>7, <2>8, <2>9
<1> QED BY <1>1, <1>2

LEMMA PushGood ==
    ASSUME NEW open, Good(open), Ready(open),
           NEW kind \in Kinds, NEW size \in Nat, NEW compact \in BOOLEAN
    PROVE  Good(open \o <<Frame(kind, size, compact)>>)
<1> DEFINE frame == Frame(kind, size, compact)
           new == open \o <<frame>>
<1>1. PICK E : open \in Seq(FrameOf(E))
    BY DEF Good, Shaped
<1>2. frame \in FrameOf(E) /\ FrameCounted(frame)
    BY DEF Frame, FrameOf, FrameCounted, Buffered
<1> HIDE DEF frame
<1>3. /\ new \in Seq(FrameOf(E))
      /\ Len(open) \in Nat
      /\ Len(new) = Len(open) + 1
      /\ new[Len(open) + 1] = frame
      /\ \A i \in 1 .. Len(open) : new[i] = open[i]
    BY <1>1, <1>2
<1> HIDE DEF new
<1>4. Counted(new)
    <2> SUFFICES ASSUME NEW i \in 1 .. Len(open) + 1
                 PROVE  FrameCounted(new[i]) /\ (i < Len(open) + 1 => Receiving(new[i]))
        BY <1>3 DEF Counted
    <2>1. CASE i = Len(open) + 1
        BY <1>2, <1>3, <2>1
    <2>2. CASE i # Len(open) + 1
        <3>1. i \in 1 .. Len(open) /\ open # <<>>
            BY <1>1, <1>3, <2>2
        <3>2. CASE i = Len(open)
            BY <1>3, <3>1, <3>2 DEF Good, Counted, Ready
        <3>3. CASE i # Len(open)
            BY <1>3, <3>1, <3>3 DEF Good, Counted
        <3> QED BY <3>2, <3>3
    <2> QED BY <2>1, <2>2
<1> QED BY <1>3, <1>4 DEF Good, Shaped, new, frame

LEMMA OuterGood ==
    ASSUME IInv, frames # <<>>
    PROVE  /\ Good(Outer)
           /\ Len(Outer) = Len(frames) - 1
           /\ \A i \in 1 .. Len(frames) - 1 : Outer[i] = frames[i]
<1>1. PICK E : frames \in Seq(FrameOf(E))
    BY DEF IInv, Good, Shaped
<1>2. /\ Outer \in Seq(FrameOf(E))
      /\ Len(Outer) = Len(frames) - 1
      /\ \A i \in 1 .. Len(frames) - 1 : Outer[i] = frames[i]
    BY <1>1, FrontOf DEF Outer
<1>3. Len(frames) \in Nat \ {0}
    BY <1>1
<1>4. Counted(Outer)
    BY <1>2, <1>3 DEF IInv, Good, Counted
<1> QED BY <1>2, <1>4 DEF Good, Shaped

LEMMA FailKeeps == ASSUME IInv, NEW message, Fail(message) PROVE IInv'
BY DEF Fail, IInv, Good, Shaped, Counted

(* What an accepted value leaves behind, before its own frame goes on top. *)
LEMMA StartValueFacts ==
    ASSUME IInv, NEW bytes, NEW opened, StartValue(bytes, opened)
    PROVE  \E settled :
              /\ Good(settled)
              /\ Ready(settled)
              /\ Len(settled) = Len(frames)
              /\ \A i \in 1 .. Len(frames) :
                    settled[i].kind = frames[i].kind /\ settled[i].expecting = FALSE
              /\ frames' = settled \o opened
              /\ wroteRoot' = TRUE
<1> DEFINE settled == FramesPlus(FramesAfterValue, bytes)
<1>1. /\ ValueError = "none"
      /\ frames' = settled \o opened
      /\ wroteRoot' = (wroteRoot \/ frames = <<>>)
    BY DEF StartValue
<1>2. /\ Good(FramesAfterValue)
      /\ Ready(FramesAfterValue)
      /\ Len(FramesAfterValue) = Len(frames)
      /\ \A i \in 1 .. Len(frames) :
            /\ FramesAfterValue[i].kind = frames[i].kind
            /\ FramesAfterValue[i].expecting = FALSE
    BY <1>1, AfterValueGood
<1>3. SameShape(FramesAfterValue, settled)
    BY <1>2, FramesPlusSame DEF Good
<1> HIDE DEF settled
<1>4. Good(settled) /\ Ready(settled)
    BY <1>2, <1>3, SameKeeps
<1>5. /\ Len(settled) = Len(frames)
      /\ \A i \in 1 .. Len(frames) :
            settled[i].kind = frames[i].kind /\ settled[i].expecting = FALSE
    BY <1>2, <1>3 DEF SameShape, Alike
<1>6. wroteRoot' = TRUE
    BY <1>1 DEF IInv
<1> QED BY <1>1, <1>4, <1>5, <1>6

LEMMA ScalarKeeps ==
    ASSUME IInv, NEW bytes, StartValue(bytes, <<>>)
    PROVE  IInv'
<1>1. PICK settled : Good(settled) /\ frames' = settled \o <<>> /\ wroteRoot' = TRUE
    BY StartValueFacts
<1>2. frames' = settled
    BY <1>1 DEF Good, Shaped
<1>3. Good(frames')
    BY <1>1, <1>2
<1> QED BY <1>1, <1>3 DEF IInv, Good, Shaped, Counted

LEMMA OpeningKeeps ==
    ASSUME IInv, NEW bytes, NEW kind \in Kinds, NEW size \in Nat, NEW compact \in BOOLEAN,
           StartValue(bytes, <<Frame(kind, size, compact)>>)
    PROVE  IInv'
<1>1. PICK settled : /\ Good(settled) /\ Ready(settled)
                     /\ frames' = settled \o <<Frame(kind, size, compact)>>
                     /\ wroteRoot' = TRUE
    BY StartValueFacts
<1>2. Good(frames')
    BY <1>1, PushGood
<1> QED BY <1>1, <1>2 DEF IInv, Good, Shaped, Counted

(* write_key, once it has accepted the key. *)
LEMMA KeyFacts ==
    ASSUME IInv, NEW key, WriteKey(key), KeyError = "none"
    PROVE  /\ Good(frames')
           /\ frames # <<>>
           /\ Len(frames') = Len(frames)
           /\ \A i \in 1 .. Len(frames) : frames'[i].kind = frames[i].kind
           /\ \A i \in 1 .. Len(frames) - 1 : frames'[i].expecting = frames[i].expecting
           /\ frames'[Len(frames)].expecting = TRUE
           /\ Top.kind \notin SequenceKinds
           /\ ~Top.expecting
           /\ wroteRoot' = wroteRoot
<1> DEFINE keyed == [frames EXCEPT ![Len(frames)] = Keyed(Top, key)]
           bytes == IF Top.kind = "ordered_object" THEN key ELSE <<>>
<1>1. /\ frames # <<>>
      /\ Top.kind \notin SequenceKinds
      /\ ~Top.expecting
      /\ ~(Top.written >= Top.expected)
    BY DEF KeyError
<1>2. frames' = FramesPlus(keyed, bytes) /\ wroteRoot' = wroteRoot
    BY DEF WriteKey
<1>3. PICK E : frames \in Seq(FrameOf(E))
    BY DEF IInv, Good, Shaped
<1>4. Len(frames) \in Nat \ {0} /\ Top = frames[Len(frames)] /\ FrameCounted(Top)
    BY <1>1, TopIs
<1>5. Top \in FrameOf(E) /\ Top.written < Top.expected
    <2>1. Top \in FrameOf(E)
        BY <1>3, <1>4
    <2> QED BY <1>1, <2>1 DEF FrameOf
<1>6. PICK F : /\ E \subseteq F
               /\ Keyed(Top, key) \in FrameOf(F)
               /\ FrameCounted(Keyed(Top, key))
               /\ Keyed(Top, key).kind = Top.kind
               /\ Keyed(Top, key).expecting = TRUE
    BY <1>1, <1>4, <1>5, KeyedCounted
<1>7. /\ Good(keyed)
      /\ Len(keyed) = Len(frames)
      /\ keyed[Len(frames)] = Keyed(Top, key)
      /\ \A i \in 1 .. Len(frames) - 1 : keyed[i] = frames[i]
    BY <1>1, <1>3, <1>6, TopReplaced
<1> HIDE DEF keyed, bytes
<1>8. SameShape(keyed, frames')
    BY <1>2, <1>7, FramesPlusSame DEF Good
<1>9. Good(frames')
    BY <1>7, <1>8, SameKeeps
<1>10. \A i \in 1 .. Len(frames) : keyed[i].kind = frames[i].kind
    BY <1>4, <1>6, <1>7
<1>11. /\ Len(frames') = Len(frames)
       /\ \A i \in 1 .. Len(frames) :
             frames'[i].kind = keyed[i].kind /\ frames'[i].expecting = keyed[i].expecting
    BY <1>7, <1>8 DEF SameShape, Alike
<1>12. Len(frames) \in 1 .. Len(frames) /\ 1 .. Len(frames) - 1 \subseteq 1 .. Len(frames)
    BY <1>4
<1> QED BY <1>1, <1>2, <1>6, <1>7, <1>9, <1>10, <1>11, <1>12

LEMMA WriteKeyKeeps == ASSUME IInv, NEW key, WriteKey(key) PROVE IInv'
<1>1. CASE KeyError = "none"
    <2>1. /\ Good(frames') /\ frames # <<>> /\ wroteRoot' = wroteRoot
        BY <1>1, KeyFacts
    <2> QED BY <2>1 DEF IInv, Good, Shaped, Counted
<1>2. CASE KeyError # "none"
    BY <1>2, FailKeeps DEF WriteKey
<1> QED BY <1>1, <1>2

(* Closing a container: its frame goes, the others stay as they are. *)
LEMMA ClosingFacts ==
    ASSUME IInv, frames # <<>>, wroteRoot' = wroteRoot,
           \/ frames' = Outer
           \/ \E bytes : frames' = FramesPlus(Outer, bytes)
    PROVE  /\ Good(frames')
           /\ Len(frames') = Len(frames) - 1
           /\ \A i \in 1 .. Len(frames) - 1 :
                 frames'[i].kind = frames[i].kind /\ frames'[i].expecting = frames[i].expecting
           /\ IInv'
<1>1. /\ Good(Outer)
      /\ Len(Outer) = Len(frames) - 1
      /\ \A i \in 1 .. Len(frames) - 1 : Outer[i] = frames[i]
    BY OuterGood
<1>2. SameShape(Outer, frames')
    <2>1. CASE frames' = Outer
        BY <1>1, <2>1 DEF SameShape, Alike, Good
    <2>2. CASE \E bytes : frames' = FramesPlus(Outer, bytes)
        BY <1>1, <2>2, FramesPlusSame DEF Good
    <2> QED BY <2>1, <2>2
<1>3. Good(frames')
    BY <1>1, <1>2, SameKeeps
<1>4. /\ Len(frames') = Len(frames) - 1
      /\ \A i \in 1 .. Len(frames) - 1 :
            frames'[i].kind = frames[i].kind /\ frames'[i].expecting = frames[i].expecting
    BY <1>1, <1>2 DEF SameShape, Alike
<1>5. IInv'
    BY <1>3 DEF IInv, Good, Shaped, Counted
<1> QED BY <1>3, <1>4, <1>5

LEMMA EndSequenceKeeps == ASSUME IInv, EndSequence PROVE IInv'
<1>1. CASE EndSequenceError # "none"
    BY <1>1, FailKeeps DEF EndSequence
<1>2. CASE EndSequenceError = "none"
    <2>1. frames # <<>>
        BY <1>2 DEF EndSequenceError
    <2>2. wroteRoot' = wroteRoot /\ \E bytes : frames' = FramesPlus(Outer, bytes)
        BY <1>2 DEF EndSequence, Replace
    <2> QED BY <2>1, <2>2, ClosingFacts
<1> QED BY <1>1, <1>2

LEMMA EndObjectKeeps == ASSUME IInv, EndObject PROVE IInv'
<1>1. CASE EndObjectError # "none"
    BY <1>1, FailKeeps DEF EndObject
<1>2. CASE EndObjectError = "none"
    <2>1. frames # <<>>
        BY <1>2 DEF EndObjectError
    <2>2. /\ wroteRoot' = wroteRoot
          /\ \/ frames' = Outer
             \/ \E bytes : frames' = FramesPlus(Outer, bytes)
        BY <1>2 DEF EndObject, Replace
    <2> QED BY <2>1, <2>2, ClosingFacts
<1> QED BY <1>1, <1>2

-----------------------------------------------------------------------------
LEMMA InitIInv == Init => IInv
<1> SUFFICES ASSUME Init PROVE IInv
    OBVIOUS
<1>1. frames = <<>> /\ wroteRoot = FALSE
    BY DEF Init
<1>2. Shaped(frames)
    BY <1>1 DEF Shaped
<1>3. Counted(frames)
    BY <1>1 DEF Counted
<1> QED BY <1>1, <1>2, <1>3 DEF IInv, Good

(* One step per operation. *)
LEMMA NextIInv == IInv /\ [Next]_cborVars => IInv'
<1> SUFFICES ASSUME IInv, [Next]_cborVars PROVE IInv'
    OBVIOUS
<1>1. ASSUME NEW message, Fail(message) PROVE IInv'
    BY <1>1, FailKeeps
<1>2. ASSUME NEW value \in Scalars, WriteScalar(value) PROVE IInv'
    <2>1. CASE StartValue(Encoding[value], <<>>)
        BY <2>1, ScalarKeeps
    <2> QED BY <1>1, <1>2, <2>1 DEF WriteScalar, RefuseValue
<1>3. ASSUME NEW size \in Sizes, BeginSequence(size) PROVE IInv'
    <2>1. CASE StartValue(ItemHead(4, size), <<Frame("sequence", size, FALSE)>>)
        BY <2>1, OpeningKeeps, CborBounds DEF Kinds, SequenceKinds
    <2> QED BY <1>1, <1>3, <2>1 DEF BeginSequence, RefuseValue
<1>4. ASSUME NEW size \in Sizes, BeginSet(size) PROVE IInv'
    <2>1. CASE StartValue(<<>>, <<Frame("buffered_sequence", size, FALSE)>>)
        BY <2>1, OpeningKeeps, CborBounds DEF Kinds, SequenceKinds
    <2> QED BY <1>1, <1>4, <2>1 DEF BeginSet, RefuseValue
<1>5. ASSUME NEW size \in Sizes, NEW form \in ObjectForms, BeginObject(size, form) PROVE IInv'
    <2>1. size \in Nat /\ form.compact \in BOOLEAN
        BY CborBounds
    <2>2. CASE StartValue(ItemHead(5, size), <<Frame("ordered_object", size, form.compact)>>)
        BY <2>1, <2>2, OpeningKeeps DEF Kinds, ObjectKinds
    <2>3. CASE StartValue(<<>>, <<Frame("buffered_object", size, form.compact)>>)
        BY <2>1, <2>3, OpeningKeeps DEF Kinds, ObjectKinds
    <2> QED BY <1>1, <1>5, <2>2, <2>3 DEF BeginObject, RefuseValue
<1>6. ASSUME NEW name \in Names, WriteField(name) PROVE IInv'
    BY <1>6, WriteKeyKeeps DEF WriteField
<1>7. ASSUME NEW name \in Names, NEW id \in Ids, WriteFieldId(name, id) PROVE IInv'
    BY <1>7, WriteKeyKeeps DEF WriteFieldId
<1>8. CASE EndSequence
    BY <1>8, EndSequenceKeeps
<1>9. CASE EndObject
    BY <1>9, EndObjectKeeps
<1>10. CASE UNCHANGED cborVars
    BY <1>10 DEF cborVars, IInv, Good, Shaped, Counted
<1> QED BY <1>2, <1>3, <1>4, <1>5, <1>6, <1>7, <1>8, <1>9, <1>10 DEF Next

(* After any calls, failed ones included: no container has counted more     *)
(* items than it declared, a buffered container holds an entry for each     *)
(* item counted, and a container around another has its entry ready, so     *)
(* that end_sequence and end_object compare and write what was written.     *)
THEOREM CborCountsKept == Spec => []CountsKept
<1>1. Spec => []IInv
    BY InitIInv, NextIInv, PTL DEF Spec
<1>2. IInv => CountsKept
    <2> SUFFICES ASSUME IInv PROVE CountsKept
        OBVIOUS
    <2>1. DOMAIN frames = 1 .. Len(frames)
        BY DEF IInv, Good, Shaped
    <2> QED BY <2>1 DEF CountsKept, IInv, Good, Counted, FrameCounted, Receiving
<1> QED BY <1>1, <1>2, PTL

-----------------------------------------------------------------------------
(* Refinement of WireContract. *)

ShownKind(kind) == IF kind \in SequenceKinds THEN "sequence" ELSE "object"

Containers == [kind : {"sequence", "object"}, awaiting : BOOLEAN]

LEMMA ShownIs ==
    ASSUME NEW frame
    PROVE  Shown(frame) = Contract!Container(ShownKind(frame.kind), frame.expecting)
BY DEF Shown, ShownKind, Contract!Container

LEMMA OpenContainersFacts ==
    ASSUME Good(frames)
    PROVE  /\ Len(frames) \in Nat
           /\ OpenContainers \in Seq(Containers)
           /\ Len(OpenContainers) = Len(frames)
           /\ OpenContainers = [i \in 1 .. Len(frames) |-> Shown(frames[i])]
           /\ OpenContainers = <<>> <=> frames = <<>>
<1>1. PICK E : frames \in Seq(FrameOf(E))
    BY DEF Good, Shaped
<1>2. Len(frames) \in Nat /\ OpenContainers = [i \in 1 .. Len(frames) |-> Shown(frames[i])]
    BY <1>1 DEF OpenContainers
<1>3. ASSUME NEW i \in 1 .. Len(frames) PROVE Shown(frames[i]) \in Containers
    <2>1. frames[i] \in FrameOf(E)
        BY <1>1
    <2>2. frames[i].expecting \in BOOLEAN
        BY <2>1 DEF FrameOf
    <2> QED BY <2>2 DEF Shown, Containers
<1>4. OpenContainers \in [1 .. Len(frames) -> Containers]
    BY <1>2, <1>3
<1>5. OpenContainers \in Seq(Containers) /\ Len(OpenContainers) = Len(frames)
    BY <1>2, <1>4, FunctionIsSeq
<1>6. OpenContainers = <<>> <=> frames = <<>>
    BY <1>1, <1>5
<1> QED BY <1>2, <1>5, <1>6

(* The same of the frames a step leaves. *)
LEMMA OpenContainersAfter ==
    ASSUME Good(frames')
    PROVE  OpenContainers' = [i \in 1 .. Len(frames') |-> Shown(frames'[i])]
<1>1. DOMAIN frames' = 1 .. Len(frames')
    BY DEF Good, Shaped
<1> QED BY <1>1 DEF OpenContainers

LEMMA InnermostIs ==
    ASSUME IInv, frames # <<>>
    PROVE  /\ OpenContainers # <<>>
           /\ OpenContainers[Len(OpenContainers)].kind = ShownKind(Top.kind)
           /\ OpenContainers[Len(OpenContainers)].awaiting = Top.expecting
<1>1. Len(frames) \in 1 .. Len(frames) /\ Top = frames[Len(frames)]
    BY TopIs
<1>2. OpenContainers[Len(OpenContainers)] = Shown(Top)
    BY <1>1, OpenContainersFacts DEF IInv
<1> QED BY <1>2, OpenContainersFacts DEF IInv, Shown, ShownKind

(* before_value refuses a value exactly where the contract does. *)
LEMMA ValueAllowedHere ==
    ASSUME IInv, ValueError = "none"
    PROVE  Contract!ValueAllowed
<1>1. CASE frames = <<>>
    BY <1>1, OpenContainersFacts DEF IInv, ValueError, Contract!ValueAllowed
<1>2. CASE frames # <<>>
    <2>1. Top.kind \notin SequenceKinds => Top.expecting
        BY <1>2 DEF ValueError
    <2> QED BY <1>2, <2>1, InnermostIs DEF Contract!ValueAllowed, Contract!Innermost, ShownKind
<1> QED BY <1>1, <1>2

(* The frames before_value leaves show what the contract calls Settled. *)
LEMMA SettledShown ==
    ASSUME IInv, NEW settled, Good(settled), Len(settled) = Len(frames),
           \A i \in 1 .. Len(frames) :
               settled[i].kind = frames[i].kind /\ settled[i].expecting = FALSE
    PROVE  Contract!Settled = [i \in 1 .. Len(frames) |-> Shown(settled[i])]
<1>1. /\ Len(frames) \in Nat
      /\ DOMAIN OpenContainers = 1 .. Len(frames)
      /\ Len(OpenContainers) = Len(frames)
      /\ \A i \in 1 .. Len(frames) : OpenContainers[i] = Shown(frames[i])
    BY OpenContainersFacts DEF IInv
<1>2. ASSUME NEW i \in 1 .. Len(frames)
      PROVE  Shown(settled[i]) =
                 IF i = Len(frames) THEN Contract!Container(OpenContainers[i].kind, FALSE)
                                    ELSE OpenContainers[i]
    <2>1. Shown(settled[i]) = Contract!Container(ShownKind(frames[i].kind), FALSE)
        BY ShownIs
    <2>2. CASE i = Len(frames)
        <3>1. OpenContainers[i].kind = ShownKind(frames[i].kind)
            BY <1>1 DEF Shown, ShownKind
        <3> QED BY <2>1, <2>2, <3>1
    <2>3. CASE i # Len(frames)
        <3>1. i < Len(frames)
            BY <1>1, <2>3
        <3>2. ~frames[i].expecting /\ frames[i].expecting \in BOOLEAN
            <4>1. PICK E : frames \in Seq(FrameOf(E))
                BY DEF IInv, Good, Shaped
            <4>2. frames[i] \in FrameOf(E)
                BY <4>1
            <4> QED BY <3>1, <4>2 DEF FrameOf, IInv, Good, Counted, Receiving
        <3>3. OpenContainers[i] = Contract!Container(ShownKind(frames[i].kind), frames[i].expecting)
            BY <1>1, ShownIs
        <3> QED BY <2>1, <2>3, <3>2, <3>3
    <2> QED BY <2>2, <2>3
<1> QED BY <1>1, <1>2 DEF Contract!Settled

LEMMA FailStutters ==
    ASSUME NEW message, Fail(message)
    PROVE  UNCHANGED Contract!contractVars
BY DEF Fail, Contract!contractVars, OpenContainers

(* An accepted scalar is the contract's PutScalar. *)
LEMMA ScalarRefines ==
    ASSUME IInv, NEW bytes, StartValue(bytes, <<>>)
    PROVE  Contract!PutScalar
<1>1. PICK settled : /\ Good(settled)
                     /\ Len(settled) = Len(frames)
                     /\ \A i \in 1 .. Len(frames) :
                           settled[i].kind = frames[i].kind /\ settled[i].expecting = FALSE
                     /\ frames' = settled \o <<>>
                     /\ wroteRoot' = TRUE
    BY StartValueFacts
<1>2. frames' = settled
    BY <1>1 DEF Good, Shaped
<1>3. OpenContainers' = [i \in 1 .. Len(frames) |-> Shown(settled[i])]
    BY <1>1, <1>2, OpenContainersAfter
<1>4. Contract!Settled = [i \in 1 .. Len(frames) |-> Shown(settled[i])]
    BY <1>1, SettledShown
<1>5. Contract!ValueAllowed
    BY ValueAllowedHere DEF StartValue
<1> QED BY <1>1, <1>3, <1>4, <1>5 DEF Contract!PutScalar

(* An accepted begin call is the contract's OpenContainer. *)
LEMMA OpeningRefines ==
    ASSUME IInv, NEW bytes, NEW kind \in Kinds, NEW size \in Nat, NEW compact \in BOOLEAN,
           StartValue(bytes, <<Frame(kind, size, compact)>>)
    PROVE  Contract!OpenContainer(ShownKind(kind))
<1> DEFINE frame == Frame(kind, size, compact)
           container == Contract!Container(ShownKind(kind), FALSE)
<1>1. PICK settled : /\ Good(settled) /\ Ready(settled)
                     /\ Len(settled) = Len(frames)
                     /\ \A i \in 1 .. Len(frames) :
                           settled[i].kind = frames[i].kind /\ settled[i].expecting = FALSE
                     /\ frames' = settled \o <<frame>>
                     /\ wroteRoot' = TRUE
    BY StartValueFacts
<1>2. /\ Shown(frame) = container
      /\ container \in Containers
    BY ShownIs DEF Frame, ShownKind, Containers, Contract!Container
<1>3. /\ Good(frames')
      /\ \A E : frame \in FrameOf(E)
    <2>1. Good(frames')
        BY <1>1, PushGood
    <2>2. ASSUME NEW E PROVE frame \in FrameOf(E)
        BY DEF Frame, FrameOf
    <2> QED BY <2>1, <2>2
<1> HIDE DEF frame, container
<1>4. PICK E : settled \in Seq(FrameOf(E))
    BY <1>1 DEF Good, Shaped
<1>5. /\ Len(frames') = Len(frames) + 1
      /\ \A i \in 1 .. Len(frames) : frames'[i] = settled[i]
      /\ frames'[Len(frames) + 1] = frame
      /\ Len(frames) \in Nat
    <2>1. frame \in FrameOf(E)
        BY <1>3
    <2>2. frames' = settled \o <<frame>> /\ Len(settled) = Len(frames)
        BY <1>1
    <2>3. /\ Len(settled) \in Nat
          /\ Len(frames') = Len(settled) + 1
          /\ \A i \in 1 .. Len(settled) : frames'[i] = settled[i]
          /\ frames'[Len(settled) + 1] = frame
        BY <1>4, <2>1, <2>2, PushIs
    <2> QED BY <2>2, <2>3
<1>6. OpenContainers' =
          [i \in 1 .. Len(frames) + 1 |-> IF i <= Len(frames) THEN Shown(settled[i]) ELSE container]
    <2>1. OpenContainers' = [i \in 1 .. Len(frames) + 1 |-> Shown(frames'[i])]
        BY <1>3, <1>5, OpenContainersAfter
    <2>2. ASSUME NEW i \in 1 .. Len(frames) + 1
          PROVE  Shown(frames'[i]) = IF i <= Len(frames) THEN Shown(settled[i]) ELSE container
        BY <1>2, <1>5
    <2> QED BY <2>1, <2>2
<1>7. Contract!Settled = [i \in 1 .. Len(frames) |-> Shown(settled[i])]
    BY <1>1, SettledShown
<1>8. Contract!Settled \in Seq(Containers) /\ Len(Contract!Settled) = Len(frames)
    <2>1. ASSUME NEW i \in 1 .. Len(frames) PROVE Shown(settled[i]) \in Containers
        BY <1>1 DEF Shown, Containers
    <2>2. Contract!Settled \in [1 .. Len(frames) -> Containers]
        BY <1>7, <2>1
    <2> QED BY <1>5, <2>2, FunctionIsSeq
<1>9. Append(Contract!Settled, container) =
          [i \in 1 .. Len(frames) + 1 |-> IF i <= Len(frames) THEN Contract!Settled[i] ELSE container]
    BY <1>2, <1>8, AppendIs
<1>10. OpenContainers' = Append(Contract!Settled, container)
    BY <1>5, <1>6, <1>7, <1>9
<1>11. Contract!ValueAllowed
    BY ValueAllowedHere DEF StartValue
<1> QED BY <1>1, <1>10, <1>11 DEF Contract!OpenContainer, container

(* An accepted key is the contract's PutName. *)
LEMMA KeyRefines ==
    ASSUME IInv, NEW key, WriteKey(key), KeyError = "none"
    PROVE  Contract!PutName
<1> DEFINE named == Contract!Container("object", TRUE)
<1>1. /\ Good(frames')
      /\ frames # <<>>
      /\ Len(frames') = Len(frames)
      /\ \A i \in 1 .. Len(frames) : frames'[i].kind = frames[i].kind
      /\ \A i \in 1 .. Len(frames) - 1 : frames'[i].expecting = frames[i].expecting
      /\ frames'[Len(frames)].expecting = TRUE
      /\ Top.kind \notin SequenceKinds
      /\ ~Top.expecting
      /\ wroteRoot' = wroteRoot
    BY KeyFacts
<1>2. Len(frames) \in Nat \ {0} /\ Top = frames[Len(frames)]
    BY <1>1, TopIs
<1>3. OpenContainers' = [i \in 1 .. Len(frames) |-> Shown(frames'[i])]
    BY <1>1, OpenContainersAfter
<1>4. ASSUME NEW i \in 1 .. Len(frames)
      PROVE  Shown(frames'[i]) = IF i = Len(frames) THEN named ELSE OpenContainers[i]
    <2>1. CASE i = Len(frames)
        <3>1. ShownKind(frames'[i].kind) = "object"
            BY <1>1, <1>2, <2>1 DEF ShownKind
        <3> QED BY <1>1, <2>1, <3>1, ShownIs
    <2>2. CASE i # Len(frames)
        <3>1. i \in 1 .. Len(frames) - 1
            BY <1>2, <2>2
        <3>2. Shown(frames'[i]) = Shown(frames[i])
            BY <1>1, <3>1 DEF Shown
        <3> QED BY <2>2, <3>2, OpenContainersFacts DEF IInv
    <2> QED BY <2>1, <2>2
<1> HIDE DEF named
<1>5. [OpenContainers EXCEPT ![Len(OpenContainers)] = named]
          = [i \in 1 .. Len(frames) |-> IF i = Len(frames) THEN named ELSE OpenContainers[i]]
    BY OpenContainersFacts DEF IInv
<1>6. OpenContainers' = [OpenContainers EXCEPT ![Len(OpenContainers)] = named]
    BY <1>3, <1>4, <1>5
<1>7. /\ OpenContainers # <<>>
      /\ OpenContainers[Len(OpenContainers)].kind = "object"
      /\ ~OpenContainers[Len(OpenContainers)].awaiting
    BY <1>1, InnermostIs DEF ShownKind
<1> QED BY <1>1, <1>6, <1>7, Zenon DEF Contract!PutName, Contract!Innermost, named

(* Closing, with or without a repeated key, is the contract's CloseContainer. *)
LEMMA ClosingRefines ==
    ASSUME IInv, frames # <<>>, ~Top.expecting, wroteRoot' = wroteRoot,
           \/ frames' = Outer
           \/ \E bytes : frames' = FramesPlus(Outer, bytes)
    PROVE  Contract!CloseContainer(ShownKind(Top.kind))
<1>1. /\ Good(frames')
      /\ Len(frames') = Len(frames) - 1
      /\ \A i \in 1 .. Len(frames) - 1 :
            frames'[i].kind = frames[i].kind /\ frames'[i].expecting = frames[i].expecting
    BY ClosingFacts
<1>2. Len(frames) \in Nat \ {0}
    BY TopIs
<1>3. OpenContainers' = [i \in 1 .. Len(frames) - 1 |-> Shown(frames'[i])]
    BY <1>1, OpenContainersAfter
<1>4. ASSUME NEW i \in 1 .. Len(frames) - 1 PROVE Shown(frames'[i]) = OpenContainers[i]
    <2>1. Shown(frames'[i]) = Shown(frames[i])
        BY <1>1 DEF Shown
    <2> QED BY <1>2, <2>1, OpenContainersFacts DEF IInv
<1>5. SubSeq(OpenContainers, 1, Len(OpenContainers) - 1)
          = [i \in 1 .. Len(frames) - 1 |-> OpenContainers[i]]
    <2>1. /\ OpenContainers \in Seq(Containers)
          /\ Len(OpenContainers) = Len(frames)
        BY OpenContainersFacts DEF IInv
    <2> HIDE DEF OpenContainers
    <2> QED BY <1>2, <2>1
<1>6. OpenContainers' = SubSeq(OpenContainers, 1, Len(OpenContainers) - 1)
    BY <1>3, <1>4, <1>5
<1> QED BY <1>6, InnermostIs DEF Contract!CloseContainer, Contract!Innermost

LEMMA InitRefines == Init => Contract!Init
BY DEF Init, Contract!Init, OpenContainers

LEMMA NextRefines ==
    IInv /\ [Next]_cborVars => [Contract!Next]_(Contract!contractVars)
<1> SUFFICES ASSUME IInv, [Next]_cborVars
             PROVE  Contract!Next \/ UNCHANGED Contract!contractVars
    OBVIOUS
<1>0. \A kind : ShownKind(kind) \in {"sequence", "object"}
    BY DEF ShownKind
<1>1. ASSUME NEW message, Fail(message)
      PROVE  UNCHANGED Contract!contractVars
    BY <1>1, FailStutters
<1>2. ASSUME NEW value \in Scalars, WriteScalar(value)
      PROVE  Contract!Next \/ UNCHANGED Contract!contractVars
    <2>1. CASE StartValue(Encoding[value], <<>>)
        BY <2>1, ScalarRefines DEF Contract!Next
    <2> QED BY <1>1, <1>2, <2>1 DEF WriteScalar, RefuseValue
<1>3. ASSUME NEW bytes, NEW kind \in Kinds, NEW size \in Nat, NEW compact \in BOOLEAN,
             StartValue(bytes, <<Frame(kind, size, compact)>>)
      PROVE  Contract!Next
    BY <1>0, <1>3, OpeningRefines DEF Contract!Next
<1>4. ASSUME NEW size \in Sizes, BeginSequence(size)
      PROVE  Contract!Next \/ UNCHANGED Contract!contractVars
    <2>1. CASE StartValue(ItemHead(4, size), <<Frame("sequence", size, FALSE)>>)
        BY <1>3, <2>1, CborBounds DEF Kinds, SequenceKinds
    <2> QED BY <1>1, <1>4, <2>1 DEF BeginSequence, RefuseValue
<1>5. ASSUME NEW size \in Sizes, BeginSet(size)
      PROVE  Contract!Next \/ UNCHANGED Contract!contractVars
    <2>1. CASE StartValue(<<>>, <<Frame("buffered_sequence", size, FALSE)>>)
        BY <1>3, <2>1, CborBounds DEF Kinds, SequenceKinds
    <2> QED BY <1>1, <1>5, <2>1 DEF BeginSet, RefuseValue
<1>6. ASSUME NEW size \in Sizes, NEW form \in ObjectForms, BeginObject(size, form)
      PROVE  Contract!Next \/ UNCHANGED Contract!contractVars
    <2>1. size \in Nat /\ form.compact \in BOOLEAN
        BY CborBounds
    <2>2. CASE StartValue(ItemHead(5, size), <<Frame("ordered_object", size, form.compact)>>)
        BY <1>3, <2>1, <2>2 DEF Kinds, ObjectKinds
    <2>3. CASE StartValue(<<>>, <<Frame("buffered_object", size, form.compact)>>)
        BY <1>3, <2>1, <2>3 DEF Kinds, ObjectKinds
    <2> QED BY <1>1, <1>6, <2>2, <2>3 DEF BeginObject, RefuseValue
<1>7. ASSUME NEW key, WriteKey(key)
      PROVE  Contract!Next \/ UNCHANGED Contract!contractVars
    <2>1. CASE KeyError = "none"
        BY <1>7, <2>1, KeyRefines DEF Contract!Next
    <2> QED BY <1>1, <1>7, <2>1 DEF WriteKey
<1>8. CASE EndSequence
    <2>1. CASE EndSequenceError = "none"
        <3>1. frames # <<>> /\ Top.kind \in SequenceKinds
            BY <2>1 DEF EndSequenceError
        <3>2. ~Top.expecting
            BY <3>1, TopIs DEF FrameCounted
        <3>3. wroteRoot' = wroteRoot /\ \E bytes : frames' = FramesPlus(Outer, bytes)
            BY <1>8, <2>1 DEF EndSequence, Replace
        <3>4. Contract!CloseContainer(ShownKind(Top.kind))
            BY <3>1, <3>2, <3>3, ClosingRefines
        <3> QED BY <1>0, <3>4 DEF Contract!Next
    <2> QED BY <1>1, <1>8, <2>1 DEF EndSequence
<1>9. CASE EndObject
    <2>1. CASE EndObjectError = "none"
        <3>1. frames # <<>> /\ ~Top.expecting
            BY <2>1 DEF EndObjectError
        <3>2. /\ wroteRoot' = wroteRoot
              /\ \/ frames' = Outer
                 \/ \E bytes : frames' = FramesPlus(Outer, bytes)
            BY <1>9, <2>1 DEF EndObject, Replace
        <3>3. Contract!CloseContainer(ShownKind(Top.kind))
            BY <3>1, <3>2, ClosingRefines
        <3> QED BY <1>0, <3>3 DEF Contract!Next
    <2> QED BY <1>1, <1>9, <2>1 DEF EndObject
<1>10. CASE UNCHANGED cborVars
    BY <1>10 DEF cborVars, Contract!contractVars, OpenContainers
<1> QED BY <1>2, <1>4, <1>5, <1>6, <1>7, <1>8, <1>9, <1>10 DEF Next, WriteField, WriteFieldId

(* CborWriter implements WireContract although it buffers and reorders: the  *)
(* containers it shows open, close and take names and values by the same    *)
(* rules as in the formats that write straight through, also when closing an *)
(* object fails because of a repeated key.                                   *)
THEOREM CborImplementsContract == Spec => ImplementsContract
<1>1. Spec => []IInv
    BY InitIInv, NextIInv, PTL DEF Spec
<1> QED BY <1>1, InitRefines, NextRefines, PTL DEF Spec, ImplementsContract, Contract!Spec

-----------------------------------------------------------------------------
(* The canonical order of RFC 8949 is a strict total order. *)
LEMMA ByteIsNumber == ASSUME NEW x \in Seq(Byte), NEW i \in 1 .. Len(x) PROVE x[i] \in Int
<1>1. x[i] \in Byte
    OBVIOUS
<1>2. Byte \subseteq Int
    BY DEF Byte
<1> QED BY <1>1, <1>2

LEMMA BeforeIrreflexive == ASSUME NEW x \in Seq(Byte) PROVE ~Before(x, x)
<1>1. \A i \in DOMAIN x : ~(x[i] < x[i])
    BY ByteIsNumber
<1> QED BY <1>1 DEF Before

LEMMA BeforeTransitive ==
    ASSUME NEW x \in Seq(Byte), NEW y \in Seq(Byte), NEW z \in Seq(Byte),
           Before(x, y), Before(y, z)
    PROVE  Before(x, z)
<1>1. CASE Len(x) < Len(y) \/ Len(y) < Len(z)
    BY <1>1 DEF Before
<1>2. CASE Len(x) = Len(y) /\ Len(y) = Len(z)
    <2>1. PICK i \in 1 .. Len(x) : x[i] < y[i] /\ \A k \in 1 .. i - 1 : x[k] = y[k]
        BY <1>2 DEF Before
    <2>2. PICK j \in 1 .. Len(x) : y[j] < z[j] /\ \A k \in 1 .. j - 1 : y[k] = z[k]
        BY <1>2 DEF Before
    <2>3. \A k \in 1 .. Len(x) : x[k] \in Int /\ y[k] \in Int /\ z[k] \in Int
        BY <1>2, ByteIsNumber
    <2>4. CASE i <= j
        <3>1. x[i] < z[i]
            <4>1. CASE i = j
                BY <2>1, <2>2, <2>3, <4>1
            <4>2. CASE i < j
                BY <2>1, <2>2, <2>3, <4>2
            <4> QED BY <2>4, <4>1, <4>2
        <3>2. \A k \in 1 .. i - 1 : x[k] = z[k]
            BY <2>1, <2>2, <2>4
        <3> QED BY <1>2, <3>1, <3>2 DEF Before
    <2>5. CASE j < i
        <3>1. x[j] < z[j]
            BY <2>1, <2>2, <2>3, <2>5
        <3>2. \A k \in 1 .. j - 1 : x[k] = z[k]
            BY <2>1, <2>2, <2>5
        <3> QED BY <1>2, <3>1, <3>2 DEF Before
    <2> QED BY <2>4, <2>5
<1> QED BY <1>1, <1>2 DEF Before

LEMMA BeforeTotal ==
    ASSUME NEW x \in Seq(Byte), NEW y \in Seq(Byte), x # y
    PROVE  Before(x, y) \/ Before(y, x)
<1>1. CASE Len(x) # Len(y)
    BY <1>1 DEF Before
<1>2. CASE Len(x) = Len(y)
    <2> DEFINE Differ == {i \in 1 .. Len(x) : x[i] # y[i]}
    <2>1. Differ # {} /\ Differ \subseteq Nat
        BY <1>2
    <2>2. PICK i \in Differ : \A j \in Differ : i <= j
        BY <2>1, LeastOf
    <2>3. \A k \in 1 .. i - 1 : x[k] = y[k]
        BY <2>2
    <2>4. x[i] \in Int /\ y[i] \in Int /\ x[i] # y[i] /\ i \in 1 .. Len(x)
        BY <1>2, <2>2, ByteIsNumber
    <2>5. x[i] < y[i] \/ y[i] < x[i]
        BY <2>4
    <2> QED BY <1>2, <2>3, <2>4, <2>5 DEF Before
<1> QED BY <1>1, <1>2

-----------------------------------------------------------------------------
(* In a total order on 1 .. n each element has its own number of            *)
(* predecessors, so those numbers put the elements in order.                *)

TotalOrder(less, n) ==
    /\ less \subseteq (1 .. n) \X (1 .. n)
    /\ \A i \in 1 .. n : <<i, i>> \notin less
    /\ \A i, j, k \in 1 .. n : <<i, j>> \in less /\ <<j, k>> \in less => <<i, k>> \in less
    /\ \A i, j \in 1 .. n : i # j => <<i, j>> \in less \/ <<j, i>> \in less

Behind(less, n, i) == {j \in 1 .. n : <<j, i>> \in less}

LEMMA RankBounds ==
    ASSUME NEW n \in Nat, NEW less, TotalOrder(less, n), NEW i \in 1 .. n
    PROVE  /\ IsFiniteSet(Behind(less, n, i))
           /\ Cardinality(Behind(less, n, i)) \in 0 .. n - 1
<1>1. IsFiniteSet(1 .. n) /\ Cardinality(1 .. n) = n
    BY FS_Interval
<1>2. /\ IsFiniteSet((1 .. n) \ {i})
      /\ Cardinality((1 .. n) \ {i}) = n - 1
    BY <1>1, FS_RemoveElement
<1>3. Behind(less, n, i) \in SUBSET ((1 .. n) \ {i})
    BY DEF TotalOrder, Behind
<1>4. /\ IsFiniteSet(Behind(less, n, i))
      /\ Cardinality(Behind(less, n, i)) <= n - 1
    BY <1>2, <1>3, FS_Subset
<1>5. Cardinality(Behind(less, n, i)) \in Nat
    BY <1>4, FS_CardinalityType
<1> QED BY <1>4, <1>5

LEMMA RankGrows ==
    ASSUME NEW n \in Nat, NEW less, TotalOrder(less, n),
           NEW i \in 1 .. n, NEW j \in 1 .. n, <<i, j>> \in less
    PROVE  Cardinality(Behind(less, n, i)) < Cardinality(Behind(less, n, j))
<1> DEFINE A == Behind(less, n, i)
           B == Behind(less, n, j)
<1>1. i \notin A /\ A \union {i} \subseteq B
    BY DEF TotalOrder, Behind
<1>2. /\ IsFiniteSet(A) /\ IsFiniteSet(B)
      /\ Cardinality(A) \in Nat /\ Cardinality(B) \in Nat
    BY RankBounds
<1> HIDE DEF A, B
<1>3. Cardinality(A \union {i}) = Cardinality(A) + 1
    BY <1>1, <1>2, FS_AddElement
<1>4. Cardinality(A \union {i}) <= Cardinality(B)
    BY <1>1, <1>2, FS_Subset
<1>5. Cardinality(A) < Cardinality(B)
    BY <1>2, <1>3, <1>4
<1> QED BY <1>5 DEF A, B

(* Each place k has exactly one element with k - 1 predecessors. *)
LEMMA RankReached ==
    ASSUME NEW n \in Nat, NEW less, TotalOrder(less, n), NEW k \in 1 .. n
    PROVE  \E i \in 1 .. n : Cardinality(Behind(less, n, i)) = k - 1
<1> DEFINE rank == [i \in 1 .. n |-> Cardinality(Behind(less, n, i)) + 1]
<1>1. \A i \in 1 .. n : Cardinality(Behind(less, n, i)) \in 0 .. n - 1
    BY RankBounds
<1>2. rank \in [1 .. n -> 1 .. n]
    BY <1>1
<1>3. ASSUME NEW i \in 1 .. n, NEW j \in 1 .. n, i # j
      PROVE  rank[i] # rank[j]
    <2>1. <<i, j>> \in less \/ <<j, i>> \in less
        BY <1>3 DEF TotalOrder
    <2>2. \/ Cardinality(Behind(less, n, i)) < Cardinality(Behind(less, n, j))
          \/ Cardinality(Behind(less, n, j)) < Cardinality(Behind(less, n, i))
        BY <2>1, RankGrows
    <2> QED BY <1>1, <2>2
<1> HIDE DEF rank
<1>4. rank \in Injection(1 .. n, 1 .. n)
    BY <1>2, <1>3 DEF Injection, IsInjective
<1>5. IsFiniteSet(1 .. n)
    BY FS_Interval
<1>6. rank \in Surjection(1 .. n, 1 .. n)
    BY <1>4, <1>5, FS_Injection
<1>7. PICK i \in 1 .. n : rank[i] = k
    BY <1>6 DEF Surjection
<1> QED BY <1>1, <1>7 DEF rank

-----------------------------------------------------------------------------
(* The entries of a buffered container. *)

EntryType == [key : Seq(Byte), value : Seq(Byte)]

Parts == {"key", "value"}

LEMMA PartIsBytes ==
    ASSUME NEW entries \in Seq(EntryType), NEW part \in Parts, NEW i \in 1 .. Len(entries)
    PROVE  entries[i][part] \in Seq(Byte)
<1>1. entries[i] \in EntryType
    OBVIOUS
<1> QED BY <1>1 DEF EntryType, Parts

(* What InOrder sorts by: the part, and among equal parts the place. *)
Less(entries, part) ==
    {p \in (1 .. Len(entries)) \X (1 .. Len(entries)) :
        \/ Before(entries[p[1]][part], entries[p[2]][part])
        \/ entries[p[1]][part] = entries[p[2]][part] /\ p[1] < p[2]}

LEMMA LessIs ==
    ASSUME NEW entries, NEW part, NEW i \in 1 .. Len(entries), NEW j \in 1 .. Len(entries)
    PROVE  <<i, j>> \in Less(entries, part) <=>
               \/ Before(entries[i][part], entries[j][part])
               \/ entries[i][part] = entries[j][part] /\ i < j
BY DEF Less

LEMMA LessThen ==
    ASSUME NEW entries, NEW part, NEW i \in 1 .. Len(entries), NEW j \in 1 .. Len(entries),
           <<i, j>> \in Less(entries, part)
    PROVE  Before(entries[i][part], entries[j][part]) \/ (entries[i][part] = entries[j][part] /\ i < j)
BY LessIs

LEMMA LessIsTotalOrder ==
    ASSUME NEW entries \in Seq(EntryType), NEW part \in Parts
    PROVE  TotalOrder(Less(entries, part), Len(entries))
<1> DEFINE n == Len(entries)
<1>0. n \in Nat /\ \A i \in 1 .. n : entries[i][part] \in Seq(Byte)
    BY PartIsBytes
<1>1. Less(entries, part) \subseteq (1 .. n) \X (1 .. n)
    BY DEF Less
<1>2. ASSUME NEW i \in 1 .. n PROVE <<i, i>> \notin Less(entries, part)
    BY <1>0, LessIs, BeforeIrreflexive
<1>3. ASSUME NEW i \in 1 .. n, NEW j \in 1 .. n, NEW k \in 1 .. n,
             <<i, j>> \in Less(entries, part), <<j, k>> \in Less(entries, part)
      PROVE  <<i, k>> \in Less(entries, part)
    <2> DEFINE x == entries[i][part]
               y == entries[j][part]
               z == entries[k][part]
    <2>1. /\ Before(x, y) \/ (x = y /\ i < j)
          /\ Before(y, z) \/ (y = z /\ j < k)
        BY <1>3, LessThen
    <2>2. x \in Seq(Byte) /\ y \in Seq(Byte) /\ z \in Seq(Byte)
        BY <1>0
    <2> HIDE DEF x, y, z
    <2>3. Before(x, z) \/ (x = z /\ i < k)
        BY <1>0, <2>1, <2>2, BeforeTransitive
    <2> QED BY <2>3, LessIs DEF x, z
<1>4. ASSUME NEW i \in 1 .. n, NEW j \in 1 .. n, i # j
      PROVE  <<i, j>> \in Less(entries, part) \/ <<j, i>> \in Less(entries, part)
    <2> DEFINE x == entries[i][part]
               y == entries[j][part]
    <2>1. x \in Seq(Byte) /\ y \in Seq(Byte)
        BY <1>0
    <2> HIDE DEF x, y
    <2>2. Before(x, y) \/ Before(y, x) \/ (x = y /\ (i < j \/ j < i))
        BY <1>0, <1>4, <2>1, BeforeTotal
    <2> QED BY <2>2, LessIs DEF x, y
<1> QED BY <1>1, <1>2, <1>3, <1>4 DEF TotalOrder

(* The place an entry is sorted to. *)
Place(entries, part, i) == Cardinality(Behind(Less(entries, part), Len(entries), i)) + 1

(* Sorting takes each place from the entry that belongs there. *)
LEMMA InOrderIs ==
    ASSUME NEW entries \in Seq(EntryType), NEW part \in Parts
    PROVE  /\ InOrder(entries, part) \in Seq(EntryType)
           /\ Len(InOrder(entries, part)) = Len(entries)
           /\ \A k \in 1 .. Len(entries) :
                 \E i \in 1 .. Len(entries) :
                    /\ Place(entries, part, i) = k
                    /\ InOrder(entries, part)[k] = entries[i]
<1> DEFINE n == Len(entries)
           less == Less(entries, part)
           Ahead(i) == {j \in DOMAIN entries :
                           \/ Before(entries[j][part], entries[i][part])
                           \/ entries[j][part] = entries[i][part] /\ j < i}
           pick(k) == CHOOSE i \in DOMAIN entries : Cardinality(Ahead(i)) = k - 1
<1>1. n \in Nat /\ DOMAIN entries = 1 .. n
    OBVIOUS
<1>2. \A i \in 1 .. n : Ahead(i) = Behind(less, n, i)
    BY <1>1, LessIs DEF Behind
<1>3. InOrder(entries, part) = [k \in 1 .. n |-> entries[pick(k)]]
    BY <1>1 DEF InOrder
<1>4. ASSUME NEW k \in 1 .. n
      PROVE  pick(k) \in 1 .. n /\ Place(entries, part, pick(k)) = k
    <2>1. \E i \in 1 .. n : Cardinality(Behind(less, n, i)) = k - 1
        BY <1>1, LessIsTotalOrder, RankReached
    <2>2. \E i \in DOMAIN entries : Cardinality(Ahead(i)) = k - 1
        BY <1>1, <1>2, <2>1
    <2>3. pick(k) \in DOMAIN entries /\ Cardinality(Ahead(pick(k))) = k - 1
        <3> HIDE DEF Ahead
        <3> QED BY <2>2
    <2> HIDE DEF Ahead, pick
    <2> QED BY <1>1, <1>2, <2>3 DEF Place
<1> HIDE DEF pick
<1>5. \A k \in 1 .. n : entries[pick(k)] \in EntryType
    BY <1>4
<1>6. InOrder(entries, part) \in Seq(EntryType) /\ Len(InOrder(entries, part)) = n
    <2>1. InOrder(entries, part) \in [1 .. n -> EntryType]
        BY <1>3, <1>5
    <2> QED BY <1>1, <2>1, FunctionIsSeq
<1> QED BY <1>3, <1>4, <1>6

(* Two entries are in the order of the places they are sorted to, and no   *)
(* two of them share a place: sorting permutes the entries.                 *)
LEMMA PlaceFollowsLess ==
    ASSUME NEW entries \in Seq(EntryType), NEW part \in Parts,
           NEW i \in 1 .. Len(entries), NEW j \in 1 .. Len(entries)
    PROVE  /\ Place(entries, part, i) \in 1 .. Len(entries)
           /\ Place(entries, part, i) < Place(entries, part, j) <=> <<i, j>> \in Less(entries, part)
           /\ Place(entries, part, i) = Place(entries, part, j) => i = j
<1> DEFINE n == Len(entries)
           less == Less(entries, part)
           a == Cardinality(Behind(less, n, i))
           b == Cardinality(Behind(less, n, j))
<1>1. n \in Nat /\ TotalOrder(less, n)
    BY LessIsTotalOrder
<1>2. a \in 0 .. n - 1 /\ b \in 0 .. n - 1
    BY <1>1, RankBounds
<1>3. /\ <<i, j>> \in less => a < b
      /\ <<j, i>> \in less => b < a
    BY <1>1, RankGrows
<1>4. i # j => <<i, j>> \in less \/ <<j, i>> \in less
    BY <1>1 DEF TotalOrder
<1>5. Place(entries, part, i) = a + 1 /\ Place(entries, part, j) = b + 1
    BY DEF Place
<1> HIDE DEF a, b, less
<1>6. i = j => a = b
    BY DEF a, b
<1>7. /\ a + 1 \in 1 .. n
      /\ a + 1 < b + 1 <=> <<i, j>> \in less
      /\ a + 1 = b + 1 => i = j
    BY <1>1, <1>2, <1>3, <1>4, <1>6
<1> QED BY <1>5, <1>7 DEF less

(* Sorted entries ascend: none stands behind a greater one. *)
LEMMA InOrderAscends ==
    ASSUME NEW entries \in Seq(EntryType), NEW part \in Parts,
           NEW k \in 1 .. Len(entries), NEW l \in 1 .. Len(entries), k < l
    PROVE  \/ Before(InOrder(entries, part)[k][part], InOrder(entries, part)[l][part])
           \/ InOrder(entries, part)[k][part] = InOrder(entries, part)[l][part]
<1>1. PICK i \in 1 .. Len(entries) :
          Place(entries, part, i) = k /\ InOrder(entries, part)[k] = entries[i]
    BY InOrderIs
<1>2. PICK j \in 1 .. Len(entries) :
          Place(entries, part, j) = l /\ InOrder(entries, part)[l] = entries[j]
    BY InOrderIs
<1>3. <<i, j>> \in Less(entries, part)
    BY <1>1, <1>2, PlaceFollowsLess
<1>4. Before(entries[i][part], entries[j][part]) \/ entries[i][part] = entries[j][part]
    BY <1>3, LessIs
<1> QED BY <1>1, <1>2, <1>4

(* Each entry is found at the place it is sorted to. *)
LEMMA EntryAtPlace ==
    ASSUME NEW entries \in Seq(EntryType), NEW part \in Parts, NEW i \in 1 .. Len(entries)
    PROVE  InOrder(entries, part)[Place(entries, part, i)] = entries[i]
<1>1. Place(entries, part, i) \in 1 .. Len(entries)
    BY PlaceFollowsLess
<1>2. PICK j \in 1 .. Len(entries) :
          /\ Place(entries, part, j) = Place(entries, part, i)
          /\ InOrder(entries, part)[Place(entries, part, i)] = entries[j]
    BY <1>1, InOrderIs
<1>3. j = i
    BY <1>2, PlaceFollowsLess
<1> QED BY <1>2, <1>3

(* The entries two of which have one key. *)
SomeKeyTwice(entries) ==
    \E j, k \in DOMAIN entries : j # k /\ entries[j].key = entries[k].key

(* Comparing neighbours after sorting finds every repeated key, and only    *)
(* those.                                                                   *)
LEMMA NeighboursTellRepeats ==
    ASSUME NEW entries \in Seq(EntryType)
    PROVE  KeysRepeat(entries) <=> SomeKeyTwice(entries)
<1> DEFINE n == Len(entries)
           sorted == InOrder(entries, "key")
<1>0. n \in Nat /\ DOMAIN entries = 1 .. n /\ "key" \in Parts
    BY DEF Parts
<1>1. ASSUME KeysRepeat(entries) PROVE SomeKeyTwice(entries)
    <2>1. PICK k \in 2 .. n : sorted[k - 1].key = sorted[k].key
        BY <1>1 DEF KeysRepeat
    <2>2. k \in 1 .. n /\ k - 1 \in 1 .. n /\ k - 1 # k
        BY <1>0
    <2>3. PICK i \in 1 .. n : Place(entries, "key", i) = k - 1 /\ sorted[k - 1] = entries[i]
        BY <1>0, <2>2, InOrderIs
    <2>4. PICK j \in 1 .. n : Place(entries, "key", j) = k /\ sorted[k] = entries[j]
        BY <1>0, <2>2, InOrderIs
    <2>5. i # j /\ entries[i].key = entries[j].key
        BY <2>1, <2>2, <2>3, <2>4
    <2> QED BY <1>0, <2>5 DEF SomeKeyTwice
<1>2. ASSUME SomeKeyTwice(entries) PROVE KeysRepeat(entries)
    <2>1. PICK i \in 1 .. n, j \in 1 .. n :
              entries[i].key = entries[j].key /\ Place(entries, "key", i) < Place(entries, "key", j)
        <3>1. PICK a \in 1 .. n, b \in 1 .. n : a # b /\ entries[a].key = entries[b].key
            BY <1>0, <1>2 DEF SomeKeyTwice
        <3>2. \/ Place(entries, "key", a) < Place(entries, "key", b)
              \/ Place(entries, "key", b) < Place(entries, "key", a)
            <4>1. /\ Place(entries, "key", a) \in 1 .. n
                  /\ Place(entries, "key", b) \in 1 .. n
                  /\ Place(entries, "key", a) # Place(entries, "key", b)
                BY <1>0, <3>1, PlaceFollowsLess
            <4> QED BY <4>1
        <3> QED BY <3>1, <3>2
    <2> DEFINE k == Place(entries, "key", i)
               l == Place(entries, "key", j)
    <2>2. /\ k \in 1 .. n /\ l \in 1 .. n /\ k < l
          /\ sorted[k] = entries[i] /\ sorted[l] = entries[j]
        BY <1>0, <2>1, PlaceFollowsLess, EntryAtPlace
    <2> HIDE DEF k, l, sorted
    <2>3. k + 1 \in 2 .. n /\ k + 1 \in 1 .. n /\ (k + 1) - 1 = k /\ k < k + 1
        BY <1>0, <2>2
    <2> DEFINE x == sorted[k].key
               y == sorted[k + 1].key
    <2>4. x \in Seq(Byte) /\ y \in Seq(Byte) /\ x = sorted[l].key
        <3>1. sorted \in Seq(EntryType) /\ Len(sorted) = n
            BY <1>0, InOrderIs DEF sorted
        <3>2. sorted[k] \in EntryType /\ sorted[k + 1] \in EntryType
            BY <2>2, <2>3, <3>1
        <3> QED BY <2>1, <2>2, <3>2 DEF EntryType
    <2>5. Before(x, y) \/ x = y
        BY <1>0, <2>2, <2>3, InOrderAscends DEF sorted
    <2>6. Before(y, x) \/ y = x
        <3>1. CASE k + 1 = l
            BY <2>4, <3>1
        <3>2. CASE k + 1 # l
            <4>1. k + 1 < l
                BY <2>2, <3>2
            <4> QED BY <1>0, <2>2, <2>3, <2>4, <4>1, InOrderAscends DEF sorted
        <3> QED BY <3>1, <3>2
    <2>7. x = y
        BY <2>4, <2>5, <2>6, BeforeTransitive, BeforeIrreflexive
    <2> QED BY <2>3, <2>7 DEF KeysRepeat, sorted
<1> QED BY <1>1, <1>2

-----------------------------------------------------------------------------
(* Everything the writer puts together is bytes. *)

(* Cutting bytes off a number: the recursion in Shifted is sound. *)
LEMMA ShiftedIs ==
    ASSUME NEW value \in Nat
    PROVE  /\ Shifted(value, 0) = value
           /\ \A n \in 1 .. 8 : Shifted(value, n) = Shifted(value, n - 1) \div 256
           /\ \A n \in 0 .. 8 : Shifted(value, n) \in Nat
<1> DEFINE step == [p \in Nat \X (1 .. 8) |-> p[1] \div 256]
           Shift(f) == f = [n \in 0 .. 8 |-> IF n = 0 THEN value ELSE f[n - 1] \div 256]
           shift == CHOOSE f : Shift(f)
<1>1. step \in [Nat \X (1 .. 8) -> Nat]
    <2>1. \A p \in Nat \X (1 .. 8) : p[1] \div 256 \in Nat
        OBVIOUS
    <2> QED BY <2>1
<1>2. PICK f \in [0 .. 8 -> Nat] : Steps(f, 8, value, step)
    <2>1. 8 \in Nat
        OBVIOUS
    <2> HIDE DEF step
    <2> QED BY <1>1, <2>1, Recursion
<1>3. ASSUME NEW n \in 0 .. 8, n # 0
      PROVE  step[<<f[n - 1], n>>] = f[n - 1] \div 256
    <2>1. f[n - 1] \in Nat /\ n \in 1 .. 8
        BY <1>2, <1>3
    <2> QED BY <2>1
<1>4. Shift(f)
    <2>1. \A n \in 0 .. 8 : f[n] = IF n = 0 THEN value ELSE step[<<f[n - 1], n>>]
        BY <1>2, Zenon DEF Steps
    <2> HIDE DEF step
    <2> QED BY <1>2, <1>3, <2>1
<1>5. Shift(shift)
    <2> HIDE DEF Shift
    <2> QED BY <1>4
<1>6. \A n \in 0 .. 8 : Shifted(value, n) = shift[n]
    BY DEF Shifted
<1> HIDE DEF shift, step
<1>7. /\ shift[0] = value
      /\ \A n \in 1 .. 8 : shift[n] = shift[n - 1] \div 256
    BY <1>5
<1> HIDE DEF Shift
<1> DEFINE T == {n \in 0 .. 8 : shift[n] \in Nat}
<1>8. 0 \in T /\ \A n \in 0 .. 8 - 1 : n \in T => n + 1 \in T
    <2>1. 0 \in T
        BY <1>7
    <2>2. ASSUME NEW n \in 0 .. 8 - 1, n \in T PROVE n + 1 \in T
        <3>1. shift[n + 1] = shift[n] \div 256 /\ shift[n] \in Nat
            BY <1>7, <2>2
        <3> QED BY <3>1
    <2> QED BY <2>1, <2>2
<1> HIDE DEF T
<1>9. 0 .. 8 \subseteq T
    BY <1>8, BoundedInduction
<1>10. \A n \in 0 .. 8 : shift[n] \in Nat
    BY <1>9 DEF T
<1>11. \A n \in 1 .. 8 : n \in 0 .. 8 /\ n - 1 \in 0 .. 8
    OBVIOUS
<1>12. 0 \in 0 .. 8
    OBVIOUS
<1>13. Shifted(value, 0) = value
    BY <1>6, <1>7, <1>12
<1>14. \A n \in 1 .. 8 : Shifted(value, n) = Shifted(value, n - 1) \div 256
    BY <1>6, <1>7, <1>11
<1>15. \A n \in 0 .. 8 : Shifted(value, n) \in Nat
    BY <1>6, <1>10
<1> QED BY <1>13, <1>14, <1>15

LEMMA BigEndianBytes ==
    ASSUME NEW value \in Nat, NEW width \in 1 .. 8
    PROVE  BigEndian(value, width) \in Seq(Byte)
<1>1. ASSUME NEW i \in 1 .. width
      PROVE  Shifted(value, width - i) % 256 \in Byte
    <2>1. width - i \in 0 .. 8
        OBVIOUS
    <2>2. Shifted(value, width - i) \in Nat
        BY <2>1, ShiftedIs
    <2> QED BY <2>2 DEF Byte
<1>2. BigEndian(value, width) \in [1 .. width -> Byte]
    BY <1>1 DEF BigEndian
<1> QED BY <1>2, FunctionIsSeq

LEMMA ItemHeadBytes ==
    ASSUME NEW major \in 0 .. 7, NEW argument \in Nat
    PROVE  ItemHead(major, argument) \in Seq(Byte)
<1>1. ASSUME NEW b \in Byte PROVE <<b>> \in Seq(Byte)
    OBVIOUS
<1>2. /\ 32 * major + 24 \in Byte /\ 32 * major + 25 \in Byte
      /\ 32 * major + 26 \in Byte /\ 32 * major + 27 \in Byte
      /\ argument <= 23 => 32 * major + argument \in Byte
    BY DEF Byte
<1>3. /\ BigEndian(argument, 1) \in Seq(Byte) /\ BigEndian(argument, 2) \in Seq(Byte)
      /\ BigEndian(argument, 4) \in Seq(Byte) /\ BigEndian(argument, 8) \in Seq(Byte)
    BY BigEndianBytes
<1>4. ASSUME NEW b \in Byte, NEW s \in Seq(Byte) PROVE <<b>> \o s \in Seq(Byte)
    BY <1>1
<1>5. /\ argument <= 23 => <<32 * major + argument>> \in Seq(Byte)
      /\ <<32 * major + 24>> \o BigEndian(argument, 1) \in Seq(Byte)
      /\ <<32 * major + 25>> \o BigEndian(argument, 2) \in Seq(Byte)
      /\ <<32 * major + 26>> \o BigEndian(argument, 4) \in Seq(Byte)
      /\ <<32 * major + 27>> \o BigEndian(argument, 8) \in Seq(Byte)
    BY <1>1, <1>2, <1>3, <1>4
<1> QED BY <1>5, Zenon DEF ItemHead

LEMMA TextItemBytes ==
    ASSUME NEW text \in Seq(Byte)
    PROVE  TextItem(text) \in Seq(Byte)
<1>1. ItemHead(3, Len(text)) \in Seq(Byte)
    BY ItemHeadBytes
<1> QED BY <1>1 DEF TextItem

(* The entries one after the other: the recursion in Contents is sound, and *)
(* joins bytes to bytes.                                                    *)
Accumulates(upTo, entries) ==
    /\ \A n \in 0 .. Len(entries) : upTo[n] \in Seq(Byte)
    /\ upTo[0] = <<>>
    /\ \A n \in 1 .. Len(entries) : upTo[n] = upTo[n - 1] \o entries[n].key \o entries[n].value

LEMMA ContentsIs ==
    ASSUME NEW entries \in Seq(EntryType)
    PROVE  \E upTo : Accumulates(upTo, entries) /\ Contents(entries) = upTo[Len(entries)]
<1> DEFINE last == Len(entries)
           step == [p \in Seq(Byte) \X (1 .. last) |->
                       p[1] \o entries[p[2]].key \o entries[p[2]].value]
           UpTo(f) == f = [n \in 0 .. last |->
                              IF n = 0 THEN <<>> ELSE f[n - 1] \o entries[n].key \o entries[n].value]
           upTo == CHOOSE f : UpTo(f)
<1>1. last \in Nat
    OBVIOUS
<1>2. ASSUME NEW bytes \in Seq(Byte), NEW n \in 1 .. last
      PROVE  bytes \o entries[n].key \o entries[n].value \in Seq(Byte)
    <2>1. entries[n] \in EntryType
        OBVIOUS
    <2>2. entries[n].key \in Seq(Byte) /\ entries[n].value \in Seq(Byte)
        BY <2>1 DEF EntryType
    <2> QED BY <2>2
<1>3. step \in [Seq(Byte) \X (1 .. last) -> Seq(Byte)]
    <2>1. ASSUME NEW p \in Seq(Byte) \X (1 .. last)
          PROVE  p[1] \o entries[p[2]].key \o entries[p[2]].value \in Seq(Byte)
        BY <1>2
    <2> QED BY <2>1
<1>4. PICK f \in [0 .. last -> Seq(Byte)] : Steps(f, last, <<>>, step)
    <2> DEFINE S == Seq(Byte)
               first == <<>>
    <2>1. first \in S /\ step \in [S \X (1 .. last) -> S]
        BY <1>3
    <2> HIDE DEF step, S, first, last
    <2>2. \E f \in [0 .. last -> S] : Steps(f, last, first, step)
        BY <1>1, <2>1, Recursion, Zenon
    <2> QED BY <2>2, Zenon DEF S, first
<1>5. ASSUME NEW n \in 0 .. last, n # 0
      PROVE  step[<<f[n - 1], n>>] = f[n - 1] \o entries[n].key \o entries[n].value
    <2>1. n - 1 \in 0 .. last /\ n \in 1 .. last
        BY <1>1, <1>5
    <2>2. f[n - 1] \in Seq(Byte)
        BY <1>4, <2>1
    <2>3. <<f[n - 1], n>> \in Seq(Byte) \X (1 .. last)
        BY <2>1, <2>2
    <2> QED BY <2>3
<1>6. UpTo(f)
    <2>1. \A n \in 0 .. last : f[n] = IF n = 0 THEN <<>> ELSE step[<<f[n - 1], n>>]
        BY <1>4, Zenon DEF Steps
    <2> HIDE DEF step
    <2> QED BY <1>4, <1>5, <2>1
<1>7. UpTo(upTo)
    <2> HIDE DEF UpTo
    <2> QED BY <1>6
<1> HIDE DEF step, upTo
<1>8. /\ upTo[0] = <<>>
      /\ \A n \in 1 .. last : upTo[n] = upTo[n - 1] \o entries[n].key \o entries[n].value
    <2>1. \A n \in 0 .. last : upTo[n] =
              IF n = 0 THEN <<>> ELSE upTo[n - 1] \o entries[n].key \o entries[n].value
        BY <1>7, Zenon
    <2>2. 0 \in 0 .. last /\ \A n \in 1 .. last : n \in 0 .. last /\ n # 0
        BY <1>1
    <2> QED BY <2>1, <2>2, Zenon
<1> HIDE DEF UpTo
<1> DEFINE T == {n \in 0 .. last : upTo[n] \in Seq(Byte)}
<1>9. 0 \in T
    <2>1. 0 \in 0 .. last /\ <<>> \in Seq(Byte)
        BY <1>1
    <2> QED BY <1>8, <2>1, Zenon
<1>10. ASSUME NEW n \in 0 .. last - 1, n \in T PROVE n + 1 \in T
    <2>1. n + 1 \in 1 .. last /\ (n + 1) - 1 = n /\ upTo[n] \in Seq(Byte)
        BY <1>1, <1>10
    <2>2. upTo[n + 1] = upTo[n] \o entries[n + 1].key \o entries[n + 1].value
        BY <1>8, <2>1
    <2>3. upTo[n + 1] \in Seq(Byte)
        BY <1>2, <2>1, <2>2
    <2> QED BY <1>1, <2>1, <2>3
<1> HIDE DEF T
<1>11. 0 .. last \subseteq T
    BY <1>1, <1>9, <1>10, BoundedInduction
<1>12. \A n \in 0 .. last : upTo[n] \in Seq(Byte)
    BY <1>11 DEF T
<1>13. Contents(entries) = upTo[last]
    BY DEF Contents, upTo, UpTo
<1>14. Accumulates(upTo, entries)
    BY <1>8, <1>12, Zenon DEF Accumulates, last
<1> QED BY <1>13, <1>14

LEMMA ContentsBytes ==
    ASSUME NEW entries \in Seq(EntryType)
    PROVE  Contents(entries) \in Seq(Byte)
<1>1. PICK upTo : Accumulates(upTo, entries) /\ Contents(entries) = upTo[Len(entries)]
    BY ContentsIs
<1>2. Len(entries) \in 0 .. Len(entries)
    OBVIOUS
<1> QED BY <1>1, <1>2 DEF Accumulates

-----------------------------------------------------------------------------
(* What every operation leaves in the frames and in the document. *)

LEMMA UpdatedTyped ==
    ASSUME NEW frame \in FrameType, NEW written \in Nat, NEW entries \in Seq(EntryType),
           NEW expecting \in BOOLEAN
    PROVE  Updated(frame, written, entries, expecting) \in FrameType
BY DEF Updated, FrameType, EntryType

LEMMA EntryAppended ==
    ASSUME NEW entries \in Seq(EntryType), NEW key \in Seq(Byte)
    PROVE  Append(entries, Entry(key, <<>>)) \in Seq(EntryType)
<1>1. Entry(key, <<>>) \in EntryType
    <2>1. <<>> \in Seq(Byte)
        OBVIOUS
    <2> QED BY <2>1 DEF Entry, EntryType
<1> QED BY <1>1

LEMMA FilledTyped ==
    ASSUME NEW entries \in Seq(EntryType), NEW bytes \in Seq(Byte)
    PROVE  Filled(entries, bytes) \in Seq(EntryType)
<1>1. Len(entries) \in Nat /\ DOMAIN entries = 1 .. Len(entries)
    OBVIOUS
<1>2. ASSUME NEW i \in 1 .. Len(entries)
      PROVE  entries[i] \in EntryType /\ Entry(entries[i].key, entries[i].value \o bytes) \in EntryType
    <2>1. entries[i] \in EntryType
        OBVIOUS
    <2>2. entries[i].key \in Seq(Byte) /\ entries[i].value \o bytes \in Seq(Byte)
        BY <2>1 DEF EntryType
    <2> QED BY <2>1, <2>2 DEF Entry, EntryType
<1>3. Filled(entries, bytes) \in [1 .. Len(entries) -> EntryType]
    BY <1>1, <1>2 DEF Filled
<1> QED BY <1>1, <1>3, FunctionIsSeq

LEMMA FillTyped ==
    ASSUME NEW frame \in FrameType, NEW bytes \in Seq(Byte)
    PROVE  Fill(frame, bytes) \in FrameType
<1>1. Filled(frame.entries, bytes) \in Seq(EntryType)
    <2>1. frame.entries \in Seq(EntryType)
        BY DEF FrameType, EntryType
    <2> QED BY <2>1, FilledTyped
<1> QED BY <1>1 DEF Fill, FrameType, EntryType

LEMMA PlusTyped ==
    ASSUME NEW open \in Seq(FrameType), NEW bytes \in Seq(Byte), output \in Seq(Byte)
    PROVE  /\ FramesPlus(open, bytes) \in Seq(FrameType)
           /\ OutputPlus(open, bytes) \in Seq(Byte)
<1>1. Len(open) \in Nat /\ DOMAIN open = 1 .. Len(open)
    OBVIOUS
<1>2. \A i \in 1 .. Len(open) :
          (IF i = Active(open) THEN Fill(open[i], bytes) ELSE open[i]) \in FrameType
    BY FillTyped
<1>3. FramesPlus(open, bytes) \in [1 .. Len(open) -> FrameType]
    BY <1>1, <1>2 DEF FramesPlus
<1>4. output \o bytes \in Seq(Byte)
    OBVIOUS
<1> QED BY <1>1, <1>3, <1>4, FunctionIsSeq DEF OutputPlus

LEMMA TopTyped ==
    ASSUME frames \in Seq(FrameType), frames # <<>>
    PROVE  /\ Top \in FrameType
           /\ Outer \in Seq(FrameType)
           /\ \A top \in FrameType : [frames EXCEPT ![Len(frames)] = top] \in Seq(FrameType)
<1>1. Len(frames) \in 1 .. Len(frames)
    OBVIOUS
<1>2. Outer \in Seq(FrameType)
    BY FrontOf DEF Outer
<1> QED BY <1>1, <1>2 DEF Top

LEMMA GivenTyped ==
    ASSUME NEW frame \in FrameType
    PROVE  Given(frame) \in FrameType
<1>1. frame.entries \in Seq(EntryType) /\ frame.written \in Nat
    BY DEF FrameType, EntryType
<1>2. Append(frame.entries, Entry(<<>>, <<>>)) \in Seq(EntryType)
    <2>1. <<>> \in Seq(Byte)
        OBVIOUS
    <2> QED BY <1>1, <2>1, EntryAppended
<1> DEFINE written == IF frame.kind \in SequenceKinds THEN frame.written + 1 ELSE frame.written
           entries == IF frame.kind = "buffered_sequence"
                      THEN Append(frame.entries, Entry(<<>>, <<>>)) ELSE frame.entries
<1>3. written \in Nat /\ entries \in Seq(EntryType)
    BY <1>1, <1>2
<1>4. Given(frame) = Updated(frame, written, entries, FALSE)
    BY DEF Given
<1> HIDE DEF written, entries
<1> QED BY <1>3, <1>4, UpdatedTyped

LEMMA KeyedTyped ==
    ASSUME NEW frame \in FrameType, NEW key \in Seq(Byte)
    PROVE  Keyed(frame, key) \in FrameType
<1>1. frame.entries \in Seq(EntryType) /\ frame.written \in Nat
    BY DEF FrameType, EntryType
<1> DEFINE written == frame.written + 1
           entries == IF frame.kind = "buffered_object"
                      THEN Append(frame.entries, Entry(key, <<>>)) ELSE frame.entries
<1>2. written \in Nat /\ entries \in Seq(EntryType)
    BY <1>1, EntryAppended
<1>3. Keyed(frame, key) = Updated(frame, written, entries, TRUE)
    BY DEF Keyed
<1> HIDE DEF written, entries
<1> QED BY <1>2, <1>3, UpdatedTyped

LEMMA AfterValueTyped ==
    ASSUME frames \in Seq(FrameType)
    PROVE  FramesAfterValue \in Seq(FrameType)
<1>1. CASE frames = <<>>
    BY <1>1 DEF FramesAfterValue
<1>2. CASE frames # <<>>
    <2>1. Given(Top) \in FrameType
        BY <1>2, TopTyped, GivenTyped
    <2>2. [frames EXCEPT ![Len(frames)] = Given(Top)] \in Seq(FrameType)
        BY <1>2, <2>1, TopTyped
    <2> QED BY <1>2, <2>2 DEF FramesAfterValue
<1> QED BY <1>1, <1>2

LEMMA FailTyped ==
    ASSUME TypeOK, NEW message \in Message, Fail(message)
    PROVE  TypeOK'
BY DEF TypeOK, Fail

LEMMA RefusalTyped ==
    ASSUME TypeOK, RefuseValue
    PROVE  TypeOK'
<1>1. ValueError \in Message
    BY DEF ValueError, Message
<1> QED BY <1>1, FailTyped DEF RefuseValue

LEMMA StartTyped ==
    ASSUME TypeOK, NEW bytes \in Seq(Byte), NEW opened \in Seq(FrameType),
           StartValue(bytes, opened)
    PROVE  TypeOK'
<1>1. /\ FramesPlus(FramesAfterValue, bytes) \in Seq(FrameType)
      /\ OutputPlus(FramesAfterValue, bytes) \in Seq(Byte)
    BY AfterValueTyped, PlusTyped DEF TypeOK
<1>2. frames' \in Seq(FrameType) /\ output' \in Seq(Byte)
    BY <1>1 DEF StartValue
<1>3. wroteRoot' \in BOOLEAN /\ error' \in Message
    BY DEF StartValue, TypeOK
<1> QED BY <1>2, <1>3 DEF TypeOK

LEMMA ReplaceTyped ==
    ASSUME TypeOK, frames # <<>>, NEW bytes \in Seq(Byte), Replace(bytes)
    PROVE  TypeOK'
<1>1. /\ FramesPlus(Outer, bytes) \in Seq(FrameType)
      /\ OutputPlus(Outer, bytes) \in Seq(Byte)
    BY TopTyped, PlusTyped DEF TypeOK
<1> QED BY <1>1 DEF Replace, TypeOK

LEMMA FrameTyped ==
    ASSUME NEW kind \in SequenceKinds \union ObjectKinds, NEW size \in Nat, NEW compact \in BOOLEAN
    PROVE  <<Frame(kind, size, compact)>> \in Seq(FrameType)
<1>1. Frame(kind, size, compact) \in FrameType
    <2>1. <<>> \in Seq([key : Seq(Byte), value : Seq(Byte)])
        OBVIOUS
    <2> QED BY <2>1 DEF Frame, FrameType
<1> QED BY <1>1

LEMMA KeyTyped ==
    ASSUME TypeOK, NEW key \in Seq(Byte), WriteKey(key)
    PROVE  TypeOK'
<1>1. CASE KeyError # "none" /\ Fail(KeyError)
    <2>1. KeyError \in Message
        BY DEF KeyError, Message
    <2> QED BY <1>1, <2>1, FailTyped
<1>2. CASE KeyError = "none" /\ ~(KeyError # "none" /\ Fail(KeyError))
    <2> DEFINE bytes == IF Top.kind = "ordered_object" THEN key ELSE <<>>
               open == [frames EXCEPT ![Len(frames)] = Keyed(Top, key)]
    <2>1. frames # <<>>
        BY <1>2 DEF KeyError
    <2>2. Keyed(Top, key) \in FrameType
        BY <2>1, TopTyped, KeyedTyped DEF TypeOK
    <2>3. bytes \in Seq(Byte) /\ open \in Seq(FrameType)
        BY <2>1, <2>2, TopTyped DEF TypeOK
    <2>4. /\ frames' = FramesPlus(open, bytes) /\ output' = OutputPlus(open, bytes)
          /\ UNCHANGED <<wroteRoot, error>>
        BY <1>2 DEF WriteKey
    <2> HIDE DEF bytes, open
    <2>5. frames' \in Seq(FrameType) /\ output' \in Seq(Byte)
        BY <2>3, <2>4, PlusTyped DEF TypeOK
    <2> QED BY <2>4, <2>5 DEF TypeOK
<1> QED BY <1>1, <1>2 DEF WriteKey

(* A sorted container is bytes. *)
LEMMA SortedBytes ==
    ASSUME TypeOK, frames # <<>>, NEW major \in 0 .. 7, NEW part \in Parts
    PROVE  ItemHead(major, Len(Top.entries)) \o Contents(InOrder(Top.entries, part)) \in Seq(Byte)
<1>1. Top.entries \in Seq(EntryType)
    BY TopTyped DEF TypeOK, FrameType, EntryType
<1>2. Contents(InOrder(Top.entries, part)) \in Seq(Byte)
    BY <1>1, InOrderIs, ContentsBytes
<1>3. ItemHead(major, Len(Top.entries)) \in Seq(Byte)
    <2>1. Len(Top.entries) \in Nat
        BY <1>1
    <2> QED BY <2>1, ItemHeadBytes
<1> QED BY <1>2, <1>3

LEMMA NextTypeOK == TypeOK /\ [Next]_cborVars => TypeOK'
<1> SUFFICES ASSUME TypeOK, [Next]_cborVars PROVE TypeOK'
    OBVIOUS
<1> USE CborBounds
<1>0. <<>> \in Seq(FrameType) /\ <<>> \in Seq(Byte)
    OBVIOUS
<1>1. ASSUME NEW value \in Scalars, WriteScalar(value) PROVE TypeOK'
    <2>1. CASE Fail("unencodable")
        <3>1. "unencodable" \in Message
            BY DEF Message
        <3> QED BY <2>1, <3>1, FailTyped
    <2>2. CASE RefuseValue
        BY <2>2, RefusalTyped
    <2>3. CASE StartValue(Encoding[value], <<>>)
        <3>1. Encoding[value] \in Seq(Byte)
            OBVIOUS
        <3> QED BY <1>0, <2>3, <3>1, StartTyped
    <2> QED BY <1>1, <2>1, <2>2, <2>3 DEF WriteScalar
<1>2. ASSUME NEW size \in Sizes, BeginSequence(size) PROVE TypeOK'
    <2>1. CASE RefuseValue
        BY <2>1, RefusalTyped
    <2>2. CASE StartValue(ItemHead(4, size), <<Frame("sequence", size, FALSE)>>)
        <3>1. ItemHead(4, size) \in Seq(Byte)
            BY ItemHeadBytes
        <3>2. <<Frame("sequence", size, FALSE)>> \in Seq(FrameType)
            BY FrameTyped DEF SequenceKinds
        <3> QED BY <2>2, <3>1, <3>2, StartTyped
    <2> QED BY <1>2, <2>1, <2>2 DEF BeginSequence
<1>3. ASSUME NEW size \in Sizes, BeginSet(size) PROVE TypeOK'
    <2>1. CASE RefuseValue
        BY <2>1, RefusalTyped
    <2>2. CASE StartValue(<<>>, <<Frame("buffered_sequence", size, FALSE)>>)
        <3>1. <<Frame("buffered_sequence", size, FALSE)>> \in Seq(FrameType)
            BY FrameTyped DEF SequenceKinds
        <3> QED BY <1>0, <2>2, <3>1, StartTyped
    <2> QED BY <1>3, <2>1, <2>2 DEF BeginSet
<1>4. ASSUME NEW size \in Sizes, NEW form \in ObjectForms, BeginObject(size, form) PROVE TypeOK'
    <2>1. CASE RefuseValue
        BY <2>1, RefusalTyped
    <2>2. CASE StartValue(ItemHead(5, size), <<Frame("ordered_object", size, form.compact)>>)
        <3>1. ItemHead(5, size) \in Seq(Byte)
            BY ItemHeadBytes
        <3>2. <<Frame("ordered_object", size, form.compact)>> \in Seq(FrameType)
            BY FrameTyped DEF ObjectKinds
        <3> QED BY <2>2, <3>1, <3>2, StartTyped
    <2>3. CASE StartValue(<<>>, <<Frame("buffered_object", size, form.compact)>>)
        <3>1. <<Frame("buffered_object", size, form.compact)>> \in Seq(FrameType)
            BY FrameTyped DEF ObjectKinds
        <3> QED BY <1>0, <2>3, <3>1, StartTyped
    <2> QED BY <1>4, <2>1, <2>2, <2>3 DEF BeginObject
<1>5. ASSUME NEW name \in Names PROVE TextItem(Text[name]) \in Seq(Byte)
    BY TextItemBytes
<1>6. ASSUME NEW name \in Names, WriteField(name) PROVE TypeOK'
    BY <1>5, <1>6, KeyTyped DEF WriteField
<1>7. ASSUME NEW name \in Names, NEW id \in Ids, WriteFieldId(name, id) PROVE TypeOK'
    <2>1. ItemHead(0, id) \in Seq(Byte)
        BY ItemHeadBytes
    <2>2. (IF frames # <<>> /\ Top.compact THEN ItemHead(0, id) ELSE TextItem(Text[name]))
              \in Seq(Byte)
        BY <1>5, <2>1
    <2> QED BY <1>7, <2>2, KeyTyped DEF WriteFieldId
<1>8. CASE EndSequence
    <2>1. CASE EndSequenceError # "none" /\ Fail(EndSequenceError)
        <3>1. EndSequenceError \in Message
            BY DEF EndSequenceError, Message
        <3> QED BY <2>1, <3>1, FailTyped
    <2>2. CASE /\ EndSequenceError = "none"
               /\ Replace(IF Top.kind = "buffered_sequence"
                          THEN ItemHead(4, Len(Top.entries)) \o Contents(InOrder(Top.entries, "value"))
                          ELSE <<>>)
        <3>1. frames # <<>>
            BY <2>2 DEF EndSequenceError
        <3>2. ItemHead(4, Len(Top.entries)) \o Contents(InOrder(Top.entries, "value")) \in Seq(Byte)
            BY <3>1, SortedBytes DEF Parts
        <3> QED BY <1>0, <2>2, <3>1, <3>2, ReplaceTyped
    <2> QED BY <1>8, <2>1, <2>2 DEF EndSequence
<1>9. CASE EndObject
    <2>1. CASE EndObjectError # "none" /\ Fail(EndObjectError)
        <3>1. EndObjectError \in Message
            BY DEF EndObjectError, Message
        <3> QED BY <2>1, <3>1, FailTyped
    <2>2. CASE /\ EndObjectError = "none"
               /\ frames' = Outer /\ error' = "duplicate_key" /\ UNCHANGED <<output, wroteRoot>>
        <3>1. frames # <<>>
            BY <2>2 DEF EndObjectError
        <3>2. Outer \in Seq(FrameType)
            BY <3>1, TopTyped DEF TypeOK
        <3> QED BY <2>2, <3>2 DEF TypeOK, Message
    <2>3. CASE /\ EndObjectError = "none"
               /\ Replace(IF Top.kind = "buffered_object"
                          THEN ItemHead(5, Len(Top.entries)) \o Contents(InOrder(Top.entries, "key"))
                          ELSE <<>>)
        <3>1. frames # <<>>
            BY <2>3 DEF EndObjectError
        <3>2. ItemHead(5, Len(Top.entries)) \o Contents(InOrder(Top.entries, "key")) \in Seq(Byte)
            BY <3>1, SortedBytes DEF Parts
        <3> QED BY <1>0, <2>3, <3>1, <3>2, ReplaceTyped
    <2> QED BY <1>9, <2>1, <2>2, <2>3 DEF EndObject
<1>10. CASE UNCHANGED cborVars
    BY <1>10 DEF cborVars, TypeOK
<1> QED BY <1>1, <1>2, <1>3, <1>4, <1>6, <1>7, <1>8, <1>9, <1>10 DEF Next

(* The frames keep their shape and every byte the writer puts out, buffers  *)
(* or sorts is a byte, whatever the codec calls, in whatever order: TypeOK   *)
(* is inductive as it stands.                                               *)
THEOREM CborTypeCorrect == Spec => []TypeOK
<1>1. Init => TypeOK
    <2>1. <<>> \in Seq(FrameType) /\ <<>> \in Seq(Byte) /\ "none" \in Message
        BY DEF Message
    <2> QED BY <2>1 DEF Init, TypeOK
<1> QED BY <1>1, NextTypeOK, PTL DEF Spec

(* However many fields a plain object has, and in whatever order they were   *)
(* written, end_object sees a repeated key exactly when there is one.        *)
THEOREM CborRepeatsNoticed == Spec => []RepeatsNoticed
<1>1. TypeOK => RepeatsNoticed
    <2> SUFFICES ASSUME TypeOK, NEW i \in DOMAIN frames
                 PROVE  KeysRepeat(frames[i].entries) <=> SomeKeyTwice(frames[i].entries)
        BY Zenon DEF RepeatsNoticed, SomeKeyTwice
    <2>1. frames[i].entries \in Seq(EntryType)
        <3>1. frames[i] \in FrameType
            BY DEF TypeOK
        <3> QED BY <3>1 DEF FrameType, EntryType
    <2> QED BY <2>1, NeighboursTellRepeats
<1> QED BY <1>1, CborTypeCorrect, PTL

(* The same entries, each at another place. *)
Rearranged(entries, sorted) ==
    \E place \in [1 .. Len(entries) -> 1 .. Len(entries)] :
        /\ \A i, j \in 1 .. Len(entries) : place[i] = place[j] => i = j
        /\ \A i \in 1 .. Len(entries) : sorted[place[i]] = entries[i]

(* No key behind a greater or an equal one. *)
Ascending(sorted) ==
    \A k, l \in 1 .. Len(sorted) : k < l => Before(sorted[k].key, sorted[l].key)

LEMMA SortedRearranges ==
    ASSUME NEW entries \in Seq(EntryType), NEW part \in Parts
    PROVE  Rearranged(entries, InOrder(entries, part))
<1> DEFINE n == Len(entries)
           place == [i \in 1 .. n |-> Place(entries, part, i)]
<1>1. place \in [1 .. n -> 1 .. n]
    BY PlaceFollowsLess
<1>2. \A i, j \in 1 .. n : place[i] = place[j] => i = j
    BY PlaceFollowsLess
<1>3. \A i \in 1 .. n : InOrder(entries, part)[place[i]] = entries[i]
    BY EntryAtPlace
<1> HIDE DEF place
<1> QED BY <1>1, <1>2, <1>3, Zenon DEF Rearranged

LEMMA SortedAscends ==
    ASSUME NEW entries \in Seq(EntryType), ~KeysRepeat(entries)
    PROVE  Ascending(InOrder(entries, "key"))
<1> DEFINE n == Len(entries)
           sorted == InOrder(entries, "key")
<1>1. "key" \in Parts /\ DOMAIN entries = 1 .. n /\ Len(sorted) = n
    BY InOrderIs DEF Parts
<1>2. ~SomeKeyTwice(entries)
    BY NeighboursTellRepeats
<1>3. ASSUME NEW k \in 1 .. n, NEW l \in 1 .. n, k < l
      PROVE  Before(sorted[k].key, sorted[l].key)
    <2>1. PICK i \in 1 .. n : Place(entries, "key", i) = k /\ sorted[k] = entries[i]
        BY <1>1, InOrderIs
    <2>2. PICK j \in 1 .. n : Place(entries, "key", j) = l /\ sorted[l] = entries[j]
        BY <1>1, InOrderIs
    <2>3. i # j
        BY <1>3, <2>1, <2>2
    <2>4. sorted[k].key # sorted[l].key
        BY <1>1, <1>2, <2>1, <2>2, <2>3 DEF SomeKeyTwice
    <2>5. Before(sorted[k].key, sorted[l].key) \/ sorted[k].key = sorted[l].key
        BY <1>1, <1>3, InOrderAscends
    <2> QED BY <2>4, <2>5
<1> QED BY <1>1, <1>3, Zenon DEF Ascending

(* What end_object writes when it closes a plain object without a failure:   *)
(* the head of a map and behind it the entries that the codec gave, each    *)
(* once, in strictly ascending order of their keys.                         *)
PlainObjectAscends ==
    EndObject /\ Top.kind = "buffered_object" /\ error' = "none" =>
        \E sorted \in Seq(EntryType) :
            /\ Rearranged(Top.entries, sorted)
            /\ Ascending(sorted)
            /\ Replace(ItemHead(5, Len(Top.entries)) \o Contents(sorted))

(* docs/architecture.md: "Keys use RFC 8949 deterministic ordering."  In     *)
(* whatever order a codec writes the fields of a plain object, however many, *)
(* and whatever stands between them, they come out in that order.           *)
THEOREM CborPlainObjectsAscend == Spec => [][PlainObjectAscends]_cborVars
<1>1. ASSUME TypeOK, EndObject, Top.kind = "buffered_object", error' = "none"
      PROVE  \E sorted \in Seq(EntryType) :
                 /\ Rearranged(Top.entries, sorted)
                 /\ Ascending(sorted)
                 /\ Replace(ItemHead(5, Len(Top.entries)) \o Contents(sorted))
    <2>1. EndObjectError = "none"
        BY <1>1 DEF EndObject, Fail
    <2>2. frames # <<>>
        BY <2>1 DEF EndObjectError
    <2>3. Top.entries \in Seq(EntryType)
        BY <1>1, <2>2, TopTyped DEF TypeOK, FrameType, EntryType
    <2> DEFINE sorted == InOrder(Top.entries, "key")
    <2>4. sorted \in Seq(EntryType) /\ Rearranged(Top.entries, sorted)
        BY <2>3, InOrderIs, SortedRearranges DEF Parts
    <2>5. /\ ~KeysRepeat(Top.entries)
          /\ Replace(ItemHead(5, Len(Top.entries)) \o Contents(sorted))
        BY <1>1, <2>1 DEF EndObject
    <2>6. Ascending(sorted)
        BY <2>3, <2>5, SortedAscends
    <2> HIDE DEF sorted
    <2> QED BY <2>4, <2>5, <2>6
<1>2. TypeOK => PlainObjectAscends
    BY <1>1, Zenon DEF PlainObjectAscends
<1> QED BY <1>2, CborTypeCorrect, PTL

=============================================================================
