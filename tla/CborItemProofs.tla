--------------------------- MODULE CborItemProofs ---------------------------
(***************************************************************************)
(* CborWriter puts well-formed CBOR together, whatever the codec calls and  *)
(* in whatever order: reading bytes composes, a head announces what the     *)
(* writer then owes, and the debts of the open containers add up.           *)
(***************************************************************************)
EXTENDS CborWriterProofs

(* What one byte does to a state of the reader. *)
LEMMA HeadedTyped ==
    ASSUME NEW owed \in Nat, NEW major \in Nat, NEW argument \in Nat
    PROVE  Headed(owed, major, argument) \in State
BY DEF Headed, At, InPayload, Refused, State, Reading

LEMMA InitialTyped ==
    ASSUME NEW owed \in Nat, NEW major \in Nat, NEW additional \in Nat
    PROVE  Initial(owed, major, additional) \in State
<1>1. Headed(owed, major, additional) \in State
    BY HeadedTyped
<1>2. \A left \in Nat : InArgument(owed, major, left, 0) \in State
    BY DEF InArgument, State, Reading
<1>3. Refused \in State
    BY DEF Refused, State, Reading
<1> QED BY <1>1, <1>2, <1>3 DEF Initial

LEMMA TakeTyped ==
    ASSUME NEW state \in State, NEW byte \in Byte
    PROVE  Take(state, byte) \in State
<1>1. /\ state.owed \in Nat /\ state.major \in Nat /\ state.left \in Nat /\ state.argument \in Nat
      /\ byte \in Nat
    BY DEF State, Byte
<1>2. CASE state.reading = "item" /\ state.owed > 0
    <2>1. byte \div 32 \in Nat /\ byte % 32 \in Nat /\ state.owed - 1 \in Nat
        BY <1>1, <1>2
    <2>2. Initial(state.owed - 1, byte \div 32, byte % 32) \in State
        BY <2>1, InitialTyped
    <2> QED BY <1>2, <2>2 DEF Take
<1>3. Argued(state, byte) \in State
    <2>1. 256 * state.argument + byte \in Nat
        BY <1>1
    <2>2. Headed(state.owed, state.major, 256 * state.argument + byte) \in State
        BY <1>1, <2>1, HeadedTyped
    <2>3. state.left > 1 =>
              InArgument(state.owed, state.major, state.left - 1, 256 * state.argument + byte) \in State
        BY <1>1, <2>1 DEF InArgument, State, Reading
    <2> QED BY <1>1, <2>2, <2>3 DEF Argued
<1>4. Skipped(state) \in State
    BY <1>1 DEF Skipped, At, InPayload, State, Reading
<1>5. Refused \in State
    BY DEF Refused, State, Reading
<1> QED BY <1>2, <1>3, <1>4, <1>5 DEF Take

-----------------------------------------------------------------------------
(* Reading byte after byte. *)

Traces(f, state, bytes) ==
    /\ f[0] = state
    /\ \A n \in 1 .. Len(bytes) : f[n] = Take(f[n - 1], bytes[n])

(* The recursion in Read is sound. *)
LEMMA ReadIs ==
    ASSUME NEW state \in State, NEW bytes \in Seq(Byte)
    PROVE  \E f : /\ Traces(f, state, bytes)
                  /\ \A n \in 0 .. Len(bytes) : f[n] \in State
                  /\ Read(state, bytes) = f[Len(bytes)]
<1> DEFINE last == Len(bytes)
           step == [p \in State \X (1 .. last) |-> Take(p[1], bytes[p[2]])]
           UpTo(f) == f = [n \in 0 .. last |-> IF n = 0 THEN state ELSE Take(f[n - 1], bytes[n])]
           upTo == CHOOSE f : UpTo(f)
<1>1. last \in Nat
    OBVIOUS
<1>2. \A n \in 1 .. last : bytes[n] \in Byte
    OBVIOUS
<1>3. step \in [State \X (1 .. last) -> State]
    <2>1. ASSUME NEW p \in State \X (1 .. last) PROVE Take(p[1], bytes[p[2]]) \in State
        BY <1>2, TakeTyped
    <2> QED BY <2>1
<1>4. PICK f \in [0 .. last -> State] : Steps(f, last, state, step)
    <2> HIDE DEF step, last
    <2> QED BY <1>1, <1>3, Recursion
<1>5. ASSUME NEW n \in 0 .. last, n # 0
      PROVE  step[<<f[n - 1], n>>] = Take(f[n - 1], bytes[n])
    <2>1. n - 1 \in 0 .. last /\ n \in 1 .. last
        BY <1>1, <1>5
    <2>2. <<f[n - 1], n>> \in State \X (1 .. last)
        BY <1>4, <2>1
    <2> QED BY <2>2
<1>6. UpTo(f)
    <2>1. \A n \in 0 .. last : f[n] = IF n = 0 THEN state ELSE step[<<f[n - 1], n>>]
        BY <1>4, Zenon DEF Steps
    <2> HIDE DEF step
    <2> QED BY <1>4, <1>5, <2>1
<1>7. UpTo(upTo)
    <2> HIDE DEF UpTo
    <2> QED BY <1>6
<1>8. Read(state, bytes) = upTo[last]
    BY DEF Read
<1> HIDE DEF step, upTo
<1>9. /\ upTo[0] = state
      /\ \A n \in 1 .. last : upTo[n] = Take(upTo[n - 1], bytes[n])
    <2>1. \A n \in 0 .. last : upTo[n] = IF n = 0 THEN state ELSE Take(upTo[n - 1], bytes[n])
        BY <1>7, Zenon
    <2>2. 0 \in 0 .. last /\ \A n \in 1 .. last : n \in 0 .. last /\ n # 0
        BY <1>1
    <2> QED BY <2>1, <2>2, Zenon
<1> HIDE DEF UpTo
<1> DEFINE T == {n \in 0 .. last : upTo[n] \in State}
<1>10. 0 \in T
    BY <1>1, <1>9
<1>11. ASSUME NEW n \in 0 .. last - 1, n \in T PROVE n + 1 \in T
    <2>1. n + 1 \in 1 .. last /\ (n + 1) - 1 = n /\ upTo[n] \in State
        BY <1>1, <1>11
    <2>2. upTo[n + 1] = Take(upTo[n], bytes[n + 1])
        BY <1>9, <2>1
    <2>3. upTo[n + 1] \in State
        BY <1>2, <2>1, <2>2, TakeTyped
    <2> QED BY <1>1, <2>1, <2>3
<1> HIDE DEF T
<1>12. 0 .. last \subseteq T
    BY <1>1, <1>10, <1>11, BoundedInduction
<1>13. \A n \in 0 .. last : upTo[n] \in State
    BY <1>12 DEF T
<1>14. Traces(upTo, state, bytes)
    BY <1>9 DEF Traces
<1> QED BY <1>8, <1>13, <1>14

(* Whatever takes the bytes one by one ends where Read does. *)
LEMMA TraceEnds ==
    ASSUME NEW state \in State, NEW bytes \in Seq(Byte), NEW g, Traces(g, state, bytes)
    PROVE  g[Len(bytes)] = Read(state, bytes)
<1>1. PICK f : Traces(f, state, bytes) /\ Read(state, bytes) = f[Len(bytes)]
    BY ReadIs
<1> DEFINE last == Len(bytes)
           T == {n \in 0 .. last : g[n] = f[n]}
<1>2. last \in Nat
    OBVIOUS
<1>3. 0 \in T
    BY <1>1, <1>2 DEF Traces
<1>4. ASSUME NEW n \in 0 .. last - 1, n \in T PROVE n + 1 \in T
    <2>1. n + 1 \in 1 .. last /\ (n + 1) - 1 = n /\ g[n] = f[n]
        BY <1>2, <1>4
    <2>2. g[n + 1] = Take(g[n], bytes[n + 1]) /\ f[n + 1] = Take(f[n], bytes[n + 1])
        BY <1>1, <2>1 DEF Traces
    <2> QED BY <1>2, <2>1, <2>2
<1> HIDE DEF T
<1>5. 0 .. last \subseteq T
    BY <1>2, <1>3, <1>4, BoundedInduction
<1>6. g[last] = f[last]
    BY <1>2, <1>5 DEF T
<1> QED BY <1>1, <1>6

LEMMA ReadTyped ==
    ASSUME NEW state \in State, NEW bytes \in Seq(Byte)
    PROVE  Read(state, bytes) \in State
<1>1. PICK f : /\ \A n \in 0 .. Len(bytes) : f[n] \in State
               /\ Read(state, bytes) = f[Len(bytes)]
    BY ReadIs
<1>2. Len(bytes) \in 0 .. Len(bytes)
    OBVIOUS
<1> QED BY <1>1, <1>2

LEMMA ReadNothing ==
    ASSUME NEW state \in State
    PROVE  Read(state, <<>>) = state
<1>1. <<>> \in Seq(Byte) /\ Len(<<>>) = 0
    OBVIOUS
<1>2. PICK f : Traces(f, state, <<>>) /\ Read(state, <<>>) = f[Len(<<>>)]
    BY <1>1, ReadIs
<1> QED BY <1>1, <1>2 DEF Traces

LEMMA ReadByte ==
    ASSUME NEW state \in State, NEW byte \in Byte
    PROVE  Read(state, <<byte>>) = Take(state, byte)
<1> DEFINE bytes == <<byte>>
<1>1. bytes \in Seq(Byte) /\ Len(bytes) = 1 /\ bytes[1] = byte
    OBVIOUS
<1> HIDE DEF bytes
<1>2. PICK f : Traces(f, state, bytes) /\ Read(state, bytes) = f[Len(bytes)]
    BY <1>1, ReadIs
<1>3. f[1] = Take(f[1 - 1], bytes[1]) /\ f[0] = state
    BY <1>1, <1>2 DEF Traces
<1>4. Read(state, bytes) = Take(state, byte)
    BY <1>1, <1>2, <1>3
<1> QED BY <1>4 DEF bytes

(* Bytes joined are read one part after the other. *)
LEMMA ReadJoin ==
    ASSUME NEW state \in State, NEW one \in Seq(Byte), NEW two \in Seq(Byte)
    PROVE  Read(state, one \o two) = Read(Read(state, one), two)
<1> DEFINE a == Len(one)
           b == Len(two)
           all == one \o two
<1>1. /\ a \in Nat /\ b \in Nat /\ all \in Seq(Byte) /\ Len(all) = a + b
      /\ \A i \in 1 .. a : all[i] = one[i]
      /\ \A i \in 1 .. b : all[a + i] = two[i]
    OBVIOUS
<1>2. PICK f : Traces(f, state, one) /\ Read(state, one) = f[a]
    BY ReadIs
<1>3. Read(state, one) \in State
    BY ReadTyped
<1>4. PICK g : Traces(g, Read(state, one), two) /\ Read(Read(state, one), two) = g[b]
    BY <1>3, ReadIs
<1> DEFINE h == [n \in 0 .. a + b |-> IF n <= a THEN f[n] ELSE g[n - a]]
<1> HIDE DEF all, a, b
<1>5. /\ \A n \in 0 .. a : h[n] = f[n]
      /\ \A n \in 1 .. b : h[a + n] = g[n]
    BY <1>1
<1>6. h[a] = g[0]
    BY <1>1, <1>2, <1>4, <1>5 DEF Traces
<1> HIDE DEF h
<1>7. Traces(h, state, all)
    <2>1. h[0] = state
        BY <1>1, <1>2, <1>5 DEF Traces
    <2>2. ASSUME NEW n \in 1 .. a + b PROVE h[n] = Take(h[n - 1], all[n])
        <3>1. CASE n <= a
            <4>1. n \in 1 .. a /\ n \in 0 .. a /\ n - 1 \in 0 .. a
                BY <1>1, <3>1
            <4>2. f[n] = Take(f[n - 1], one[n])
                BY <1>2, <4>1 DEF Traces, a
            <4> QED BY <1>1, <1>5, <4>1, <4>2
        <3>2. CASE n > a
            <4> DEFINE k == n - a
            <4>1. k \in 1 .. b /\ n = a + k
                BY <1>1, <3>2
            <4> HIDE DEF k
            <4>2. g[k] = Take(g[k - 1], two[k])
                BY <1>4, <4>1 DEF Traces, b
            <4>3. h[n - 1] = g[k - 1]
                <5>1. CASE k = 1
                    <6>1. n - 1 = a /\ k - 1 = 0
                        BY <1>1, <4>1, <5>1
                    <6> QED BY <1>6, <6>1
                <5>2. CASE k # 1
                    <6>1. k - 1 \in 1 .. b /\ n - 1 = a + (k - 1)
                        BY <1>1, <4>1, <5>2
                    <6> QED BY <1>5, <6>1
                <5> QED BY <5>1, <5>2
            <4> QED BY <1>1, <1>5, <4>1, <4>2, <4>3
        <3> QED BY <1>1, <3>1, <3>2
    <2> QED BY <1>1, <2>1, <2>2 DEF Traces
<1>8. h[a + b] = Read(state, all)
    BY <1>1, <1>7, TraceEnds
<1>9. h[a + b] = g[b]
    <2>1. CASE b = 0
        BY <1>1, <1>6, <2>1
    <2>2. CASE b # 0
        BY <1>1, <1>5, <2>2
    <2> QED BY <2>1, <2>2
<1> QED BY <1>4, <1>8, <1>9 DEF all

-----------------------------------------------------------------------------
(* What bytes do to the items owed does not depend on how many there are.   *)

More(state, k) == [state EXCEPT !.owed = @ + k]

LEMMA MoreAt == ASSUME NEW k \in Nat, NEW m \in Nat PROVE More(At(m), k) = At(m + k)
BY DEF More, At

LEMMA MoreTyped == ASSUME NEW state \in State, NEW k \in Nat PROVE More(state, k) \in State
BY DEF More, State

LEMMA MoreHeaded ==
    ASSUME NEW owed \in Nat, NEW major \in Nat, NEW argument \in Nat, NEW k \in Nat,
           Headed(owed, major, argument).reading # "refused"
    PROVE  Headed(owed + k, major, argument) = More(Headed(owed, major, argument), k)
<1>1. CASE major \in {0, 1, 7}
    BY <1>1 DEF Headed, More, At
<1>2. CASE major \in {2, 3}
    BY <1>2 DEF Headed, More, At, InPayload
<1>3. CASE major = 4
    BY <1>3 DEF Headed, More, At
<1>4. CASE major = 5
    BY <1>4 DEF Headed, More, At
<1>5. CASE major \notin {0, 1, 2, 3, 4, 5, 7}
    BY <1>5 DEF Headed, Refused
<1> QED BY <1>1, <1>2, <1>3, <1>4, <1>5

LEMMA MoreInitial ==
    ASSUME NEW owed \in Nat, NEW major \in Nat, NEW additional \in Nat, NEW k \in Nat,
           Initial(owed, major, additional).reading # "refused"
    PROVE  Initial(owed + k, major, additional) = More(Initial(owed, major, additional), k)
<1>1. Refused.reading = "refused"
    BY DEF Refused
<1>2. \A left \in Nat : InArgument(owed + k, major, left, 0) = More(InArgument(owed, major, left, 0), k)
    BY DEF InArgument, More
<1>3. CASE major = 7 /\ additional \notin {20, 21, 22, 25, 26, 27}
    BY <1>1, <1>3 DEF Initial
<1>4. CASE ~(major = 7 /\ additional \notin {20, 21, 22, 25, 26, 27}) /\ additional <= 23
    <2>1. \A n \in Nat : Initial(n, major, additional) = Headed(n, major, additional)
        BY <1>4 DEF Initial
    <2> QED BY <2>1, MoreHeaded
<1>5. CASE ~(major = 7 /\ additional \notin {20, 21, 22, 25, 26, 27}) /\ additional > 23
    BY <1>1, <1>2, <1>5 DEF Initial
<1> QED BY <1>3, <1>4, <1>5

LEMMA MoreTake ==
    ASSUME NEW state \in State, NEW byte \in Byte, NEW k \in Nat,
           Take(state, byte).reading # "refused"
    PROVE  /\ state.reading # "refused"
           /\ Take(More(state, k), byte) = More(Take(state, byte), k)
<1>1. /\ state.owed \in Nat /\ state.major \in Nat /\ state.left \in Nat /\ state.argument \in Nat
      /\ byte \in Nat
    BY DEF State, Byte
<1>2. /\ More(state, k).reading = state.reading
      /\ More(state, k).owed = state.owed + k
      /\ More(state, k).major = state.major
      /\ More(state, k).left = state.left
      /\ More(state, k).argument = state.argument
    BY DEF More, State
<1>3. Refused.reading = "refused"
    BY DEF Refused
<1>4. CASE state.reading = "item" /\ state.owed > 0
    <2> DEFINE owed == state.owed - 1
               major == byte \div 32
               additional == byte % 32
    <2>1. owed \in Nat /\ major \in Nat /\ additional \in Nat /\ state.owed + k - 1 = owed + k
        BY <1>1, <1>4
    <2>2. Take(state, byte) = Initial(owed, major, additional)
        BY <1>4 DEF Take
    <2>3. Take(More(state, k), byte) = Initial(owed + k, major, additional)
        <3>1. /\ More(state, k).reading = "item" /\ More(state, k).owed > 0
              /\ More(state, k).owed - 1 = owed + k
            BY <1>1, <1>2, <1>4
        <3>2. Take(More(state, k), byte)
                  = Initial(More(state, k).owed - 1, byte \div 32, byte % 32)
            BY <3>1 DEF Take
        <3> QED BY <3>1, <3>2
    <2> HIDE DEF owed, major, additional
    <2> QED BY <1>4, <2>1, <2>2, <2>3, MoreInitial
<1>5. CASE state.reading = "argument"
    <2> DEFINE argument == 256 * state.argument + byte
    <2>1. argument \in Nat
        BY <1>1
    <2>2. Take(state, byte) = Argued(state, byte) /\ Take(More(state, k), byte) = Argued(More(state, k), byte)
        BY <1>2, <1>5 DEF Take
    <2>3. CASE state.left <= 1
        <3>1. Argued(state, byte) = Headed(state.owed, state.major, argument)
            BY <2>3 DEF Argued
        <3>2. Argued(More(state, k), byte) = Headed(state.owed + k, state.major, argument)
            BY <1>2, <2>3 DEF Argued
        <3> HIDE DEF argument
        <3> QED BY <1>1, <1>5, <2>1, <2>2, <3>1, <3>2, MoreHeaded
    <2>4. CASE ~(state.left <= 1)
        <3>1. Argued(state, byte) = InArgument(state.owed, state.major, state.left - 1, argument)
            BY <2>4 DEF Argued
        <3>2. Argued(More(state, k), byte) = InArgument(state.owed + k, state.major, state.left - 1, argument)
            BY <1>2, <2>4 DEF Argued
        <3> HIDE DEF argument
        <3>3. InArgument(state.owed + k, state.major, state.left - 1, argument)
                  = More(InArgument(state.owed, state.major, state.left - 1, argument), k)
            BY DEF InArgument, More
        <3> QED BY <1>5, <2>2, <3>1, <3>2, <3>3
    <2> QED BY <2>3, <2>4
<1>6. CASE state.reading = "payload"
    <2>1. Take(state, byte) = Skipped(state) /\ Take(More(state, k), byte) = Skipped(More(state, k))
        BY <1>2, <1>6 DEF Take
    <2>2. Skipped(More(state, k)) = More(Skipped(state), k)
        <3>1. At(state.owed + k) = More(At(state.owed), k)
            BY <1>1, MoreAt
        <3>2. InPayload(state.owed + k, state.left - 1) = More(InPayload(state.owed, state.left - 1), k)
            BY DEF InPayload, More
        <3> QED BY <1>2, <3>1, <3>2 DEF Skipped
    <2> QED BY <1>6, <2>1, <2>2
<1>7. CASE /\ ~(state.reading = "item" /\ state.owed > 0)
           /\ state.reading # "argument" /\ state.reading # "payload"
    <2>1. Take(state, byte) = Refused
        BY <1>7 DEF Take
    <2> QED BY <1>3, <2>1
<1> QED BY <1>4, <1>5, <1>6, <1>7

LEMMA ReadMore ==
    ASSUME NEW state \in State, NEW bytes \in Seq(Byte), NEW k \in Nat,
           Read(state, bytes).reading # "refused"
    PROVE  Read(More(state, k), bytes) = More(Read(state, bytes), k)
<1>1. PICK f : /\ Traces(f, state, bytes)
               /\ \A n \in 0 .. Len(bytes) : f[n] \in State
               /\ Read(state, bytes) = f[Len(bytes)]
    BY ReadIs
<1> DEFINE last == Len(bytes)
           g == [n \in 0 .. last |-> More(f[n], k)]
           T == {n \in 0 .. last : f[last - n].reading # "refused"}
<1>2. last \in Nat /\ \A n \in 1 .. last : bytes[n] \in Byte
    OBVIOUS
<1>3. ASSUME NEW n \in 1 .. last, f[n].reading # "refused"
      PROVE  f[n - 1].reading # "refused" /\ Take(More(f[n - 1], k), bytes[n]) = More(f[n], k)
    <2>1. f[n] = Take(f[n - 1], bytes[n]) /\ f[n - 1] \in State /\ bytes[n] \in Byte
        BY <1>1, <1>2 DEF Traces
    <2> QED BY <1>3, <2>1, MoreTake
<1>4. 0 .. last \subseteq T
    <2>1. 0 \in T
        BY <1>1, <1>2
    <2>2. ASSUME NEW n \in 0 .. last - 1, n \in T PROVE n + 1 \in T
        <3>1. last - n \in 1 .. last /\ last - (n + 1) = (last - n) - 1
            BY <1>2
        <3> QED BY <1>2, <1>3, <2>2, <3>1
    <2> HIDE DEF T
    <2> QED BY <1>2, <2>1, <2>2, BoundedInduction
<1>5. \A n \in 1 .. last : f[n].reading # "refused"
    <2> SUFFICES ASSUME NEW n \in 1 .. last PROVE f[n].reading # "refused"
        OBVIOUS
    <2>1. last - n \in 0 .. last /\ last - (last - n) = n
        BY <1>2
    <2>2. last - n \in T
        <3> HIDE DEF T
        <3> QED BY <1>4, <2>1
    <2> QED BY <2>1, <2>2
<1>6. Traces(g, More(state, k), bytes)
    <2>1. g[0] = More(state, k)
        BY <1>1, <1>2 DEF Traces
    <2>2. ASSUME NEW n \in 1 .. last PROVE g[n] = Take(g[n - 1], bytes[n])
        <3>1. g[n] = More(f[n], k) /\ g[n - 1] = More(f[n - 1], k)
            BY <1>2
        <3> QED BY <1>3, <1>5, <3>1
    <2> HIDE DEF g
    <2> QED BY <2>1, <2>2 DEF Traces
<1>7. g[last] = More(f[last], k)
    BY <1>2
<1> HIDE DEF g
<1>8. g[last] = Read(More(state, k), bytes)
    BY <1>6, MoreTyped, TraceEnds
<1> QED BY <1>1, <1>7, <1>8

(* Bytes that take the last item owed and leave m, after bytes that owe one *)
(* more than k.                                                             *)
LEMMA AtTyped == ASSUME NEW k \in Nat PROVE At(k) \in State /\ At(k).reading # "refused"
BY DEF At, State, Reading

LEMMA OwesMore ==
    ASSUME NEW bytes \in Seq(Byte), NEW k \in Nat, NEW m \in Nat, Owes(bytes, m)
    PROVE  Read(At(k + 1), bytes) = At(k + m)
<1>1. At(1) \in State /\ At(m).reading # "refused" /\ Read(At(1), bytes) = At(m)
    BY AtTyped DEF Owes
<1>2. Read(More(At(1), k), bytes) = More(At(m), k)
    BY <1>1, ReadMore
<1>3. More(At(1), k) = At(k + 1) /\ More(At(m), k) = At(k + m)
    <2>1. 1 \in Nat /\ 1 + k = k + 1 /\ m + k = k + m
        OBVIOUS
    <2>2. More(At(1), k) = At(1 + k) /\ More(At(m), k) = At(m + k)
        BY <2>1, MoreAt
    <2> QED BY <2>1, <2>2
<1> QED BY <1>2, <1>3

LEMMA OwesJoined ==
    ASSUME NEW before \in Seq(Byte), NEW bytes \in Seq(Byte), NEW k \in Nat, NEW m \in Nat,
           Owes(before, k + 1), Owes(bytes, m)
    PROVE  Owes(before \o bytes, k + m)
<1>1. Read(At(1), before \o bytes) = Read(Read(At(1), before), bytes)
    BY AtTyped, ReadJoin
<1>2. Read(At(k + 1), bytes) = At(k + m)
    BY OwesMore
<1> QED BY <1>1, <1>2 DEF Owes

LEMMA NothingOwesOne == Owes(<<>>, 1)
BY AtTyped, ReadNothing DEF Owes

-----------------------------------------------------------------------------
(* What append_head writes is what read_head reads. *)

LEMMA ReadPayload ==
    ASSUME NEW owed \in Nat, NEW text \in Seq(Byte), text # <<>>
    PROVE  Read(InPayload(owed, Len(text)), text) = At(owed)
<1> DEFINE last == Len(text)
           g == [n \in 0 .. last |-> IF n < last THEN InPayload(owed, last - n) ELSE At(owed)]
<1>1. last \in Nat /\ last > 0
    OBVIOUS
<1>2. g[0] = InPayload(owed, last) /\ g[last] = At(owed)
    BY <1>1
<1>3. ASSUME NEW n \in 1 .. last PROVE g[n] = Take(g[n - 1], text[n])
    <2>1. g[n - 1] = InPayload(owed, last - (n - 1))
        BY <1>1
    <2>2. Take(g[n - 1], text[n]) = Skipped(InPayload(owed, last - (n - 1)))
        <3> HIDE DEF g
        <3> QED BY <2>1 DEF Take, InPayload
    <2>3. Skipped(InPayload(owed, last - (n - 1)))
              = IF last - (n - 1) <= 1 THEN At(owed) ELSE InPayload(owed, last - (n - 1) - 1)
        BY DEF Skipped, InPayload
    <2>4. g[n] = IF n < last THEN InPayload(owed, last - n) ELSE At(owed)
        BY <1>1
    <2>5. (last - (n - 1) <= 1 <=> ~(n < last)) /\ last - (n - 1) - 1 = last - n
        BY <1>1
    <2> HIDE DEF g
    <2> QED BY <2>2, <2>3, <2>4, <2>5
<1> HIDE DEF g
<1>4. Traces(g, InPayload(owed, last), text)
    BY <1>2, <1>3 DEF Traces
<1>5. InPayload(owed, last) \in State
    BY <1>1 DEF InPayload, State, Reading
<1> QED BY <1>2, <1>4, <1>5, TraceEnds

LEMMA ReadArgument ==
    ASSUME NEW owed \in Nat, NEW major \in Nat, NEW argument \in Nat, NEW width \in 1 .. 8,
           Fits(argument, width)
    PROVE  Read(InArgument(owed, major, width, 0), BigEndian(argument, width))
               = Headed(owed, major, argument)
<1> DEFINE bytes == BigEndian(argument, width)
           g == [n \in 0 .. width |->
                    IF n < width THEN InArgument(owed, major, width - n, Shifted(argument, width - n))
                    ELSE Headed(owed, major, argument)]
<1>1. bytes \in Seq(Byte) /\ Len(bytes) = width
    <2>1. bytes \in Seq(Byte)
        BY BigEndianBytes
    <2>2. DOMAIN bytes = 1 .. width
        BY DEF BigEndian
    <2> QED BY <2>1, <2>2
<1>2. \A n \in 1 .. width : bytes[n] = Shifted(argument, width - n) % 256
    BY DEF BigEndian
<1>3. /\ Shifted(argument, 0) = argument /\ Shifted(argument, width) = 0
      /\ \A n \in 1 .. width : /\ Shifted(argument, width - n) \in Nat
                               /\ Shifted(argument, width - (n - 1))
                                      = Shifted(argument, width - n) \div 256
    <2>1. \A n \in 1 .. width : /\ width - n \in 0 .. 8
                               /\ width - (n - 1) \in 1 .. 8
                               /\ width - (n - 1) - 1 = width - n
        OBVIOUS
    <2>2. ASSUME NEW n \in 1 .. width
          PROVE  /\ Shifted(argument, width - n) \in Nat
                 /\ Shifted(argument, width - (n - 1)) = Shifted(argument, width - n) \div 256
        <3> DEFINE a == width - n
                   b == width - (n - 1)
        <3>1. a \in 0 .. 8 /\ b \in 1 .. 8 /\ b - 1 = a
            BY <2>1
        <3> HIDE DEF a, b
        <3>2. Shifted(argument, a) \in Nat
            BY <3>1, ShiftedIs
        <3>3. Shifted(argument, b) = Shifted(argument, b - 1) \div 256
            BY <3>1, ShiftedIs
        <3> QED BY <3>1, <3>2, <3>3 DEF a, b
    <2> QED BY <2>2, ShiftedIs DEF Fits
<1>4. g[0] = InArgument(owed, major, width, 0) /\ g[width] = Headed(owed, major, argument)
    BY <1>3
<1> HIDE DEF bytes
<1>5. ASSUME NEW n \in 1 .. width PROVE g[n] = Take(g[n - 1], bytes[n])
    <2> DEFINE before == Shifted(argument, width - (n - 1))
               after == Shifted(argument, width - n)
    <2>1. g[n - 1] = InArgument(owed, major, width - (n - 1), before)
        OBVIOUS
    <2>2. g[n] = IF n < width THEN InArgument(owed, major, width - n, after)
                 ELSE Headed(owed, major, argument)
        OBVIOUS
    <2>3. before = after \div 256 /\ bytes[n] = after % 256 /\ after \in Nat
          /\ (n = width => after = argument)
        <3>1. n = width => width - n = 0
            OBVIOUS
        <3> QED BY <1>2, <1>3, <3>1
    <2> HIDE DEF g, before, after
    <2>4. 256 * before + bytes[n] = after
        BY <2>3
    <2>5. Take(g[n - 1], bytes[n]) = Argued(InArgument(owed, major, width - (n - 1), before), bytes[n])
        BY <2>1 DEF Take, InArgument
    <2>6. Argued(InArgument(owed, major, width - (n - 1), before), bytes[n])
              = IF width - (n - 1) <= 1 THEN Headed(owed, major, after)
                ELSE InArgument(owed, major, width - (n - 1) - 1, after)
        BY <2>4 DEF Argued, InArgument
    <2>7. CASE n < width
        <3>1. ~(width - (n - 1) <= 1) /\ width - (n - 1) - 1 = width - n
            BY <2>7
        <3> QED BY <2>2, <2>5, <2>6, <2>7, <3>1
    <2>8. CASE n = width
        <3>1. width - (n - 1) <= 1
            BY <2>8
        <3> QED BY <2>2, <2>3, <2>5, <2>6, <2>8, <3>1
    <2> QED BY <2>7, <2>8
<1> HIDE DEF g
<1>6. Traces(g, InArgument(owed, major, width, 0), bytes)
    BY <1>1, <1>4, <1>5 DEF Traces
<1>7. InArgument(owed, major, width, 0) \in State
    BY DEF InArgument, State, Reading
<1>8. g[width] = Read(InArgument(owed, major, width, 0), bytes)
    BY <1>1, <1>6, <1>7, TraceEnds
<1> QED BY <1>4, <1>8 DEF bytes

LEMMA ReadItemHead ==
    ASSUME NEW k \in Nat, NEW major \in 0 .. 5, NEW argument \in Nat, Fits(argument, 8)
    PROVE  Read(At(k + 1), ItemHead(major, argument)) = Headed(k, major, argument)
<1>1. At(k + 1) \in State /\ k + 1 \in Nat
    BY AtTyped
<1>2. ASSUME NEW additional \in 0 .. 31
      PROVE  /\ 32 * major + additional \in Byte
             /\ Take(At(k + 1), 32 * major + additional) = Initial(k, major, additional)
    <2> DEFINE byte == 32 * major + additional
    <2>1. byte \in 0 .. 255 /\ byte \div 32 = major /\ byte % 32 = additional
        OBVIOUS
    <2> HIDE DEF byte
    <2>2. At(k + 1).reading = "item" /\ At(k + 1).owed > 0 /\ At(k + 1).owed - 1 = k
        BY DEF At
    <2>3. Take(At(k + 1), byte) = Initial(k, major, additional)
        BY <2>1, <2>2 DEF Take
    <2> QED BY <2>1, <2>3 DEF Byte, byte
<1>3. ASSUME NEW width \in 1 .. 8, Fits(argument, width), NEW additional \in 24 .. 27,
             Initial(k, major, additional) = InArgument(k, major, width, 0)
      PROVE  Read(At(k + 1), <<32 * major + additional>> \o BigEndian(argument, width))
                 = Headed(k, major, argument)
    <2>1. additional \in 0 .. 31
        OBVIOUS
    <2> DEFINE byte == 32 * major + additional
    <2>2. byte \in Byte /\ Take(At(k + 1), byte) = InArgument(k, major, width, 0)
        BY <1>2, <1>3, <2>1
    <2> HIDE DEF byte
    <2>3. <<byte>> \in Seq(Byte) /\ BigEndian(argument, width) \in Seq(Byte)
        <3>1. BigEndian(argument, width) \in Seq(Byte)
            BY BigEndianBytes
        <3>2. <<byte>> \in Seq(Byte)
            BY <2>2
        <3> QED BY <3>1, <3>2
    <2>4. Read(At(k + 1), <<byte>>) = InArgument(k, major, width, 0)
        BY <1>1, <2>2, ReadByte
    <2>5. Read(At(k + 1), <<byte>> \o BigEndian(argument, width))
              = Read(InArgument(k, major, width, 0), BigEndian(argument, width))
        BY <1>1, <2>3, <2>4, ReadJoin
    <2>6. Read(InArgument(k, major, width, 0), BigEndian(argument, width)) = Headed(k, major, argument)
        BY <1>3, ReadArgument
    <2> QED BY <2>5, <2>6 DEF byte
<1>4. CASE argument <= 23
    <2>1. argument \in 0 .. 31
        BY <1>4
    <2> DEFINE byte == 32 * major + argument
    <2>2. byte \in Byte /\ Take(At(k + 1), byte) = Initial(k, major, argument)
        BY <1>2, <2>1
    <2>3. Initial(k, major, argument) = Headed(k, major, argument)
        BY <1>4 DEF Initial
    <2>4. ItemHead(major, argument) = <<byte>>
        BY <1>4, Zenon DEF ItemHead
    <2> HIDE DEF byte
    <2> QED BY <1>1, <2>2, <2>3, <2>4, ReadByte
<1>5. CASE ~(argument <= 23)
    <2>1. major # 7
        OBVIOUS
    <2>2. /\ Initial(k, major, 24) = InArgument(k, major, 1, 0)
          /\ Initial(k, major, 25) = InArgument(k, major, 2, 0)
          /\ Initial(k, major, 26) = InArgument(k, major, 4, 0)
          /\ Initial(k, major, 27) = InArgument(k, major, 8, 0)
        BY <2>1 DEF Initial
    <2>3. /\ 24 \in 24 .. 27 /\ 25 \in 24 .. 27 /\ 26 \in 24 .. 27 /\ 27 \in 24 .. 27
          /\ 1 \in 1 .. 8 /\ 2 \in 1 .. 8 /\ 4 \in 1 .. 8 /\ 8 \in 1 .. 8
        OBVIOUS
    <2>4. /\ Fits(argument, 1) =>
                 Read(At(k + 1), <<32 * major + 24>> \o BigEndian(argument, 1)) = Headed(k, major, argument)
          /\ Fits(argument, 2) =>
                 Read(At(k + 1), <<32 * major + 25>> \o BigEndian(argument, 2)) = Headed(k, major, argument)
          /\ Fits(argument, 4) =>
                 Read(At(k + 1), <<32 * major + 26>> \o BigEndian(argument, 4)) = Headed(k, major, argument)
          /\ Read(At(k + 1), <<32 * major + 27>> \o BigEndian(argument, 8)) = Headed(k, major, argument)
        BY <1>3, <2>2, <2>3, Zenon
    <2> QED BY <1>5, <2>4, Zenon DEF ItemHead
<1> QED BY <1>4, <1>5

(* A smaller number fits where a greater one does. *)
LEMMA FitsBelow ==
    ASSUME NEW greater \in Nat, NEW smaller \in Nat, smaller <= greater, Fits(greater, 8)
    PROVE  Fits(smaller, 8)
<1> DEFINE T == {n \in 0 .. 8 : Shifted(smaller, n) <= Shifted(greater, n)}
<1>1. 0 \in T
    BY ShiftedIs
<1>2. ASSUME NEW n \in 0 .. 8 - 1, n \in T PROVE n + 1 \in T
    <2>1. n + 1 \in 1 .. 8 /\ n + 1 \in 0 .. 8 /\ (n + 1) - 1 = n /\ n \in 0 .. 8
        OBVIOUS
    <2> DEFINE a == Shifted(smaller, n)
               b == Shifted(greater, n)
    <2>2. /\ Shifted(smaller, n + 1) = a \div 256
          /\ Shifted(greater, n + 1) = b \div 256
          /\ a \in Nat /\ b \in Nat /\ a <= b
        BY <1>2, <2>1, ShiftedIs
    <2> HIDE DEF a, b
    <2>3. a \div 256 <= b \div 256
        BY <2>2
    <2> QED BY <2>1, <2>2, <2>3
<1> HIDE DEF T
<1>3. 0 .. 8 \subseteq T
    BY <1>1, <1>2, BoundedInduction
<1>4. 8 \in 0 .. 8
    OBVIOUS
<1>5. Shifted(smaller, 8) <= Shifted(greater, 8) /\ Shifted(smaller, 8) \in Nat
    BY <1>3, <1>4, ShiftedIs DEF T
<1> QED BY <1>5 DEF Fits

(* The heads CborWriter puts out, and what they announce. *)
LEMMA HeadsOwe ==
    ASSUME NEW argument \in Nat, Fits(argument, 8)
    PROVE  /\ Owes(ItemHead(4, argument), argument)
           /\ Owes(ItemHead(5, argument), 2 * argument)
           /\ WellFormed(ItemHead(0, argument))
<1>1. \A major \in 0 .. 5 : Read(At(1), ItemHead(major, argument)) = Headed(0, major, argument)
    <2>1. 0 \in Nat /\ 0 + 1 = 1
        OBVIOUS
    <2> QED BY <2>1, ReadItemHead
<1>2. /\ Headed(0, 4, argument) = At(0 + argument)
      /\ Headed(0, 5, argument) = At(0 + 2 * argument)
      /\ Headed(0, 0, argument) = At(0)
    BY DEF Headed
<1>3. 0 + argument = argument /\ 0 + 2 * argument = 2 * argument
    OBVIOUS
<1>4. 0 \in 0 .. 5 /\ 4 \in 0 .. 5 /\ 5 \in 0 .. 5
    OBVIOUS
<1> QED BY <1>1, <1>2, <1>3, <1>4 DEF Owes, WellFormed

LEMMA TextWellFormed ==
    ASSUME NEW text \in Seq(Byte), Fits(Len(text), 8)
    PROVE  WellFormed(TextItem(text))
<1>1. Len(text) \in Nat /\ 0 \in Nat /\ 0 + 1 = 1 /\ 3 \in 0 .. 5
    OBVIOUS
<1>2. Read(At(1), ItemHead(3, Len(text))) = Headed(0, 3, Len(text))
    BY <1>1, ReadItemHead
<1>3. ItemHead(3, Len(text)) \in Seq(Byte)
    <2>1. 3 \in 0 .. 7
        OBVIOUS
    <2> QED BY <1>1, <2>1, ItemHeadBytes
<1>4. Read(At(1), TextItem(text)) = Read(Headed(0, 3, Len(text)), text)
    BY <1>2, <1>3, AtTyped, ReadJoin DEF TextItem
<1>5. CASE text = <<>>
    <2>1. Headed(0, 3, Len(text)) = At(0)
        BY <1>5 DEF Headed
    <2> QED BY <1>4, <1>5, <2>1, AtTyped, ReadNothing DEF WellFormed, Owes
<1>6. CASE text # <<>>
    <2>1. Len(text) # 0
        BY <1>6
    <2>2. Headed(0, 3, Len(text)) = InPayload(0, Len(text))
        BY <2>1 DEF Headed
    <2>3. Read(InPayload(0, Len(text)), text) = At(0)
        BY <1>6, ReadPayload
    <2> QED BY <1>4, <2>2, <2>3 DEF WellFormed, Owes
<1> QED BY <1>5, <1>6

-----------------------------------------------------------------------------
(* A container closed: its head, then its sorted entries. *)

(* owed[n] items are owed behind the n-th entry. *)
LEMMA ContentsRead ==
    ASSUME NEW entries \in Seq(EntryType), NEW owed,
           \A n \in 0 .. Len(entries) : owed[n] \in Nat,
           \A n \in 1 .. Len(entries) :
               Read(At(owed[n - 1]), entries[n].key \o entries[n].value) = At(owed[n])
    PROVE  Read(At(owed[0]), Contents(entries)) = At(owed[Len(entries)])
<1> DEFINE last == Len(entries)
<1>1. last \in Nat /\ 0 \in 0 .. last /\ last \in 0 .. last
    OBVIOUS
<1>2. PICK upTo : Accumulates(upTo, entries) /\ Contents(entries) = upTo[last]
    BY ContentsIs
<1>3. At(owed[0]) \in State
    BY <1>1, AtTyped
<1> DEFINE T == {n \in 0 .. last : Read(At(owed[0]), upTo[n]) = At(owed[n])}
<1>4. 0 \in T
    <2>1. upTo[0] = <<>>
        BY <1>2 DEF Accumulates
    <2> QED BY <1>1, <1>3, <2>1, ReadNothing
<1>5. ASSUME NEW n \in 0 .. last - 1, n \in T PROVE n + 1 \in T
    <2>1. n + 1 \in 1 .. last /\ n + 1 \in 0 .. last /\ (n + 1) - 1 = n /\ n \in 0 .. last
        BY <1>1
    <2> DEFINE key == entries[n + 1].key
               value == entries[n + 1].value
    <2>2. key \in Seq(Byte) /\ value \in Seq(Byte)
        <3>1. entries[n + 1] \in EntryType
            BY <2>1
        <3> QED BY <3>1 DEF EntryType
    <2>3. upTo[n] \in Seq(Byte) /\ upTo[n + 1] = upTo[n] \o key \o value
        BY <1>2, <2>1 DEF Accumulates
    <2>4. Read(At(owed[n]), key \o value) = At(owed[n + 1])
        BY <2>1
    <2> HIDE DEF key, value
    <2>5. key \o value \in Seq(Byte) /\ upTo[n + 1] = upTo[n] \o (key \o value)
        <3>1. Joins(Byte, upTo[n], key, value)
            BY <2>2, <2>3, AnyThreeJoin
        <3> QED BY <2>3, <3>1 DEF Joins
    <2>6. Read(At(owed[0]), upTo[n + 1]) = Read(Read(At(owed[0]), upTo[n]), key \o value)
        BY <1>3, <2>3, <2>5, ReadJoin
    <2> QED BY <1>5, <2>1, <2>4, <2>6
<1> HIDE DEF T
<1>6. 0 .. last \subseteq T
    BY <1>1, <1>4, <1>5, BoundedInduction
<1> QED BY <1>1, <1>2, <1>6 DEF T

(* What is true of every entry is true of every sorted one. *)
LEMMA SortedFrom ==
    ASSUME NEW entries \in Seq(EntryType), NEW part \in Parts
    PROVE  /\ InOrder(entries, part) \in Seq(EntryType)
           /\ Len(InOrder(entries, part)) = Len(entries)
           /\ \A k \in 1 .. Len(entries) :
                 \E i \in 1 .. Len(entries) : InOrder(entries, part)[k] = entries[i]
BY InOrderIs

LEMMA SetWhole ==
    ASSUME NEW entries \in Seq(EntryType), Fits(Len(entries), 8),
           \A i \in 1 .. Len(entries) : entries[i].key = <<>> /\ WellFormed(entries[i].value)
    PROVE  WellFormed(ItemHead(4, Len(entries)) \o Contents(InOrder(entries, "value")))
<1> DEFINE last == Len(entries)
           sorted == InOrder(entries, "value")
           owed == [n \in 0 .. last |-> last - n]
<1>1. last \in Nat /\ \A n \in 0 .. last : owed[n] \in Nat
    OBVIOUS
<1>2. /\ sorted \in Seq(EntryType) /\ Len(sorted) = last
      /\ \A k \in 1 .. last : \E i \in 1 .. last : sorted[k] = entries[i]
    BY SortedFrom DEF Parts
<1> HIDE DEF sorted
<1>3. ASSUME NEW n \in 1 .. last
      PROVE  Read(At(owed[n - 1]), sorted[n].key \o sorted[n].value) = At(owed[n])
    <2>1. sorted[n].key = <<>> /\ Owes(sorted[n].value, 0) /\ sorted[n].value \in Seq(Byte)
        <3>1. PICK i \in 1 .. last : sorted[n] = entries[i]
            BY <1>2
        <3>2. sorted[n] \in EntryType
            BY <1>2
        <3> QED BY <3>1, <3>2 DEF WellFormed, EntryType
    <2> DEFINE value == sorted[n].value
               k == last - n
    <2>2. k \in Nat /\ owed[n - 1] = k + 1 /\ owed[n] = k /\ k + 0 = k /\ 0 \in Nat
        BY <1>1
    <2>3. value \in Seq(Byte) /\ Owes(value, 0) /\ <<>> \o value = value
        BY <2>1
    <2> HIDE DEF value, k, owed
    <2>4. Read(At(k + 1), value) = At(k + 0)
        BY <2>2, <2>3, OwesMore
    <2> QED BY <2>1, <2>2, <2>3, <2>4 DEF value
<1>4. owed[0] = last /\ owed[last] = 0
    BY <1>1
<1> HIDE DEF owed
<1>5. Read(At(last), Contents(sorted)) = At(0)
    <2>1. Read(At(owed[0]), Contents(sorted)) = At(owed[Len(sorted)])
        BY <1>1, <1>2, <1>3, ContentsRead
    <2> QED BY <1>2, <1>4, <2>1
<1>6. Read(At(1), ItemHead(4, last)) = At(last) /\ ItemHead(4, last) \in Seq(Byte)
    BY <1>1, HeadsOwe, ItemHeadBytes DEF Owes
<1>7. Contents(sorted) \in Seq(Byte)
    BY <1>2, ContentsBytes
<1>8. Read(At(1), ItemHead(4, last) \o Contents(sorted)) = At(0)
    BY <1>5, <1>6, <1>7, AtTyped, ReadJoin
<1> QED BY <1>8 DEF WellFormed, Owes, sorted

LEMMA ObjectWhole ==
    ASSUME NEW entries \in Seq(EntryType), Fits(Len(entries), 8),
           \A i \in 1 .. Len(entries) : WellFormed(entries[i].key) /\ WellFormed(entries[i].value)
    PROVE  WellFormed(ItemHead(5, Len(entries)) \o Contents(InOrder(entries, "key")))
<1> DEFINE last == Len(entries)
           sorted == InOrder(entries, "key")
           owed == [n \in 0 .. last |-> 2 * (last - n)]
<1>1. last \in Nat /\ \A n \in 0 .. last : owed[n] \in Nat
    OBVIOUS
<1>2. /\ sorted \in Seq(EntryType) /\ Len(sorted) = last
      /\ \A k \in 1 .. last : \E i \in 1 .. last : sorted[k] = entries[i]
    BY SortedFrom DEF Parts
<1> HIDE DEF sorted
<1>3. ASSUME NEW n \in 1 .. last
      PROVE  Read(At(owed[n - 1]), sorted[n].key \o sorted[n].value) = At(owed[n])
    <2> DEFINE key == sorted[n].key
               value == sorted[n].value
               k == 2 * (last - n)
    <2>1. Owes(key, 0) /\ Owes(value, 0) /\ key \in Seq(Byte) /\ value \in Seq(Byte)
        <3>1. PICK i \in 1 .. last : sorted[n] = entries[i]
            BY <1>2
        <3>2. sorted[n] \in EntryType
            BY <1>2
        <3> QED BY <3>1, <3>2 DEF WellFormed, EntryType
    <2>2. /\ k \in Nat /\ k + 1 \in Nat /\ 0 \in Nat
          /\ owed[n - 1] = (k + 1) + 1 /\ owed[n] = k
          /\ k + 0 = k /\ (k + 1) + 0 = k + 1
        BY <1>1
    <2> HIDE DEF key, value, k, owed
    <2>3. Read(At((k + 1) + 1), key) = At(k + 1)
        <3>1. Read(At((k + 1) + 1), key) = At((k + 1) + 0)
            BY <2>1, <2>2, OwesMore
        <3> QED BY <2>2, <3>1
    <2>4. Read(At(k + 1), value) = At(k)
        <3>1. Read(At(k + 1), value) = At(k + 0)
            BY <2>1, <2>2, OwesMore
        <3> QED BY <2>2, <3>1
    <2>5. At((k + 1) + 1) \in State
        BY <2>2, AtTyped
    <2>6. Read(At((k + 1) + 1), key \o value) = At(k)
        BY <2>1, <2>3, <2>4, <2>5, ReadJoin
    <2> QED BY <2>2, <2>6 DEF key, value
<1>4. owed[0] = 2 * last /\ owed[last] = 0
    BY <1>1
<1> HIDE DEF owed
<1>5. Read(At(2 * last), Contents(sorted)) = At(0)
    <2>1. Read(At(owed[0]), Contents(sorted)) = At(owed[Len(sorted)])
        BY <1>1, <1>2, <1>3, ContentsRead
    <2> QED BY <1>2, <1>4, <2>1
<1>6. Read(At(1), ItemHead(5, last)) = At(2 * last) /\ ItemHead(5, last) \in Seq(Byte)
    BY <1>1, HeadsOwe, ItemHeadBytes DEF Owes
<1>7. Contents(sorted) \in Seq(Byte)
    BY <1>2, ContentsBytes
<1>8. Read(At(1), ItemHead(5, last) \o Contents(sorted)) = At(0)
    BY <1>5, <1>6, <1>7, AtTyped, ReadJoin
<1> QED BY <1>8 DEF WellFormed, Owes, sorted

-----------------------------------------------------------------------------
(* What the open containers owe.                                            *)

Awaited(frame) == IF frame.expecting THEN 1 ELSE 0

(* The items that belong straight behind the head of a container that is    *)
(* not buffered: its elements; its keys and values.                         *)
Remaining(frame) ==
    IF frame.kind = "sequence" THEN frame.expected - frame.written
    ELSE 2 * (frame.expected - frame.written) + Awaited(frame)

(* Behind the i-th container, due[i] items are missing where its bytes go:   *)
(* to the last entry of container into[i], or to the document (0).           *)
Debts(open, root, due, into) ==
    /\ due[0] = (IF root THEN 0 ELSE 1)
    /\ into[0] = 0
    /\ \A i \in 1 .. Len(open) :
          IF Buffered(open[i])
          THEN due[i] = Awaited(open[i]) /\ into[i] = i
          ELSE due[i] = due[i - 1] + Remaining(open[i]) /\ into[i] = into[i - 1]

Held(open, out, c) ==
    IF c = 0 THEN out ELSE open[c].entries[Len(open[c].entries)].value

Fillable(open, c) == c = 0 \/ open[c].entries # <<>>

(* A buffered container stands for one item that is still missing in what   *)
(* encloses it; the innermost container owes `pending` items more, of which *)
(* its frame knows already and which are to be written next.                *)
Owed(open, out, due, into, pending) ==
    /\ \A e \in 0 .. Len(open) - 1 :
          Buffered(open[e + 1]) => Owes(Held(open, out, into[e]), due[e] + 1)
    /\ Fillable(open, into[Len(open)]) =>
          Owes(Held(open, out, into[Len(open)]), due[Len(open)] + pending)

Settled(frame) ==
    IF Buffered(frame)
    THEN \A k \in 1 .. Len(frame.entries) :
            /\ frame.kind = "buffered_object" => WellFormed(frame.entries[k].key)
            /\ frame.kind = "buffered_sequence" => frame.entries[k].key = <<>>
            /\ k < Len(frame.entries) => WellFormed(frame.entries[k].value)
            /\ k = Len(frame.entries) /\ frame.expecting => frame.entries[k].value = <<>>
    ELSE frame.entries = <<>>

AllSettled(open) == \A i \in 1 .. Len(open) : Settled(open[i]) /\ Fits(open[i].expected, 8)

Sound(open, out, root, pending) ==
    /\ AllSettled(open)
    /\ \E due, into : Debts(open, root, due, into) /\ Owed(open, out, due, into, pending)

(* The inductive invariant: until a call fails, the bytes put together and  *)
(* the counts kept in the frames tell the same story.                        *)
ItemsKept ==
    /\ TypeOK
    /\ IInv
    /\ error = "none" => Sound(frames, output, wroteRoot, 0)

Collecting(open) == \A i \in 1 .. Len(open) : Buffered(open[i]) => Collects(open[i])

LEMMA DebtsAre ==
    ASSUME NEW open \in Seq(FrameType), \A i \in 1 .. Len(open) : FrameCounted(open[i]),
           NEW root \in BOOLEAN, NEW due, NEW into, Debts(open, root, due, into)
    PROVE  \A i \in 0 .. Len(open) :
              /\ due[i] \in Nat
              /\ into[i] \in 0 .. i
              /\ into[i] # 0 => Buffered(open[into[i]])
              /\ \A j \in 1 .. i : Buffered(open[j]) => j <= into[i]
<1> DEFINE last == Len(open)
           Fact(i) == /\ due[i] \in Nat
                      /\ into[i] \in 0 .. i
                      /\ into[i] # 0 => Buffered(open[into[i]])
                      /\ \A j \in 1 .. i : Buffered(open[j]) => j <= into[i]
           T == {i \in 0 .. last : Fact(i)}
<1>1. last \in Nat
    OBVIOUS
<1>2. ASSUME NEW i \in 1 .. last
      PROVE  Awaited(open[i]) \in Nat /\ (~Buffered(open[i]) => Remaining(open[i]) \in Nat)
    <2>1. open[i] \in FrameType /\ open[i].written <= open[i].expected
        BY DEF FrameCounted
    <2> QED BY <2>1 DEF FrameType, Awaited, Remaining
<1>3. 0 \in T
    <2>1. due[0] \in Nat /\ into[0] = 0
        BY DEF Debts
    <2> QED BY <1>1, <2>1
<1>4. ASSUME NEW i \in 0 .. last - 1, i \in T PROVE i + 1 \in T
    <2> DEFINE k == i + 1
    <2>1. k \in 1 .. last /\ k \in 0 .. last /\ k - 1 = i /\ i \in Nat /\ k = i + 1
        BY <1>1
    <2>2. /\ due[i] \in Nat /\ into[i] \in 0 .. i
          /\ into[i] # 0 => Buffered(open[into[i]])
          /\ \A j \in 1 .. i : Buffered(open[j]) => j <= into[i]
        BY <1>4
    <2>3. IF Buffered(open[k])
          THEN due[k] = Awaited(open[k]) /\ into[k] = k
          ELSE due[k] = due[i] + Remaining(open[k]) /\ into[k] = into[i]
        BY <2>1 DEF Debts
    <2>4. Awaited(open[k]) \in Nat /\ (~Buffered(open[k]) => Remaining(open[k]) \in Nat)
        BY <1>2, <2>1
    <2> HIDE DEF k
    <2>5. CASE Buffered(open[k])
        BY <2>1, <2>3, <2>4, <2>5
    <2>6. CASE ~Buffered(open[k])
        <3>1. due[k] \in Nat /\ into[k] = into[i] /\ into[k] \in 0 .. k
            BY <2>1, <2>2, <2>3, <2>4, <2>6
        <3>2. \A j \in 1 .. k : Buffered(open[j]) => j <= into[k]
            <4> SUFFICES ASSUME NEW j \in 1 .. k, Buffered(open[j]) PROVE j <= into[k]
                OBVIOUS
            <4>1. j \in 1 .. i
                BY <2>1, <2>6
            <4> QED BY <2>2, <3>1, <4>1
        <3> QED BY <2>1, <2>2, <3>1, <3>2
    <2> QED BY <2>5, <2>6 DEF k
<1> HIDE DEF T
<1>5. 0 .. last \subseteq T
    BY <1>1, <1>3, <1>4, BoundedInduction
<1> QED BY <1>5 DEF T

(* active_output finds the container the debts are kept at. *)
LEMMA ActiveIs ==
    ASSUME NEW open \in Seq(FrameType), Collecting(open),
           NEW c \in 0 .. Len(open), c # 0 => Buffered(open[c]),
           \A j \in 1 .. Len(open) : Buffered(open[j]) => j <= c
    PROVE  Active(open) = c
<1>1. Len(open) \in Nat /\ DOMAIN open = 1 .. Len(open)
    OBVIOUS
<1>2. Collectors(open) = {i \in 1 .. Len(open) : Buffered(open[i])}
    <2>1. \A i \in 1 .. Len(open) : Collects(open[i]) <=> Buffered(open[i])
        BY DEF Collects, Buffered, Collecting
    <2> QED BY <1>1, <2>1 DEF Collectors
<1>3. CASE c = 0
    <2>1. Collectors(open) = {}
        BY <1>1, <1>2, <1>3
    <2> QED BY <1>3, <2>1 DEF Active
<1>4. CASE c # 0
    <2>1. c \in Collectors(open) /\ \A j \in Collectors(open) : j <= c
        BY <1>1, <1>2, <1>4
    <2>2. \A i \in Collectors(open) : i \in Int
        BY <1>1, <1>2
    <2> DEFINE m == CHOOSE i \in Collectors(open) : \A j \in Collectors(open) : j <= i
    <2>3. m \in Collectors(open) /\ \A j \in Collectors(open) : j <= m
        BY <2>1
    <2>4. Active(open) = m
        BY <2>1 DEF Active
    <2> HIDE DEF m
    <2>5. m = c
        <3>1. m <= c /\ c <= m /\ m \in Int /\ c \in Int
            BY <2>1, <2>2, <2>3
        <3> QED BY <3>1
    <2> QED BY <2>4, <2>5
<1> QED BY <1>3, <1>4

-----------------------------------------------------------------------------
(* Bytes put out go where the debts are kept. *)

FilledFrom(new, frame, bytes) ==
    /\ new.kind = frame.kind
    /\ new.expected = frame.expected
    /\ new.written = frame.written
    /\ new.expecting = frame.expecting
    /\ Len(new.entries) = Len(frame.entries)
    /\ \A k \in 1 .. Len(frame.entries) :
          /\ new.entries[k].key = frame.entries[k].key
          /\ new.entries[k].value =
                 IF k = Len(frame.entries) THEN frame.entries[k].value \o bytes
                 ELSE frame.entries[k].value

LEMMA FillIs ==
    ASSUME NEW frame \in FrameType, NEW bytes \in Seq(Byte)
    PROVE  /\ FilledFrom(Fill(frame, bytes), frame, bytes)
           /\ Fill(frame, bytes) \in FrameType
<1> DEFINE entries == frame.entries
           new == Fill(frame, bytes)
<1>1. entries \in Seq(EntryType) /\ Len(entries) \in Nat /\ DOMAIN entries = 1 .. Len(entries)
    <2>1. entries \in Seq(EntryType)
        BY DEF FrameType, EntryType
    <2> QED BY <2>1
<1>2. /\ new.kind = frame.kind /\ new.expected = frame.expected /\ new.written = frame.written
      /\ new.expecting = frame.expecting /\ new.entries = Filled(entries, bytes)
    BY DEF Fill, FrameType
<1>3. Filled(entries, bytes) \in Seq(EntryType)
    BY <1>1, FilledTyped
<1>4. /\ DOMAIN Filled(entries, bytes) = 1 .. Len(entries)
      /\ \A k \in 1 .. Len(entries) : Filled(entries, bytes)[k] =
              IF k = Len(entries) THEN Entry(entries[k].key, entries[k].value \o bytes) ELSE entries[k]
    BY <1>1 DEF Filled
<1>5. Len(Filled(entries, bytes)) = Len(entries)
    BY <1>1, <1>3, <1>4
<1>6. \A k \in 1 .. Len(entries) :
          /\ Filled(entries, bytes)[k].key = entries[k].key
          /\ Filled(entries, bytes)[k].value =
                 IF k = Len(entries) THEN entries[k].value \o bytes ELSE entries[k].value
    <2> HIDE DEF entries
    <2> SUFFICES ASSUME NEW k \in 1 .. Len(entries)
                 PROVE  /\ Filled(entries, bytes)[k].key = entries[k].key
                        /\ Filled(entries, bytes)[k].value =
                               IF k = Len(entries) THEN entries[k].value \o bytes ELSE entries[k].value
        OBVIOUS
    <2> DEFINE value == entries[k].value \o bytes
    <2>1. Filled(entries, bytes)[k] = IF k = Len(entries) THEN Entry(entries[k].key, value) ELSE entries[k]
        BY <1>4
    <2> HIDE DEF value
    <2>2. Entry(entries[k].key, value).key = entries[k].key /\ Entry(entries[k].key, value).value = value
        BY DEF Entry
    <2> QED BY <2>1, <2>2 DEF value
<1>7. new \in FrameType
    BY FillTyped
<1> HIDE DEF new, entries
<1>8. FilledFrom(new, frame, bytes)
    BY <1>2, <1>5, <1>6 DEF FilledFrom, entries
<1> QED BY <1>7, <1>8 DEF new

LEMMA FramesPlusAt ==
    ASSUME NEW open \in Seq(FrameType), NEW bytes
    PROVE  /\ DOMAIN FramesPlus(open, bytes) = 1 .. Len(open)
           /\ \A i \in 1 .. Len(open) : FramesPlus(open, bytes)[i] =
                  IF i = Active(open) THEN Fill(open[i], bytes) ELSE open[i]
BY DEF FramesPlus

(* Nothing put out changes nothing. *)
LEMMA NothingPlus ==
    ASSUME NEW open \in Seq(FrameType), output \in Seq(Byte)
    PROVE  FramesPlus(open, <<>>) = open /\ OutputPlus(open, <<>>) = output
<1>1. ASSUME NEW i \in 1 .. Len(open) PROVE Fill(open[i], <<>>) = open[i]
    <2> DEFINE frame == open[i]
               entries == frame.entries
    <2>1. frame \in FrameType /\ entries \in Seq(EntryType)
        <3>1. frame \in FrameType
            OBVIOUS
        <3> QED BY <3>1 DEF FrameType, EntryType
    <2> HIDE DEF frame
    <2>2. ASSUME NEW k \in 1 .. Len(entries)
          PROVE  Entry(entries[k].key, entries[k].value \o <<>>) = entries[k]
        <3>1. entries[k] \in EntryType
            BY <2>1
        <3>2. entries[k].value \in Seq(Byte) /\ entries[k].value \o <<>> = entries[k].value
            BY <3>1 DEF EntryType
        <3> QED BY <3>1, <3>2 DEF Entry, EntryType
    <2>3. Filled(entries, <<>>) = [k \in 1 .. Len(entries) |-> entries[k]]
        <3>1. DOMAIN entries = 1 .. Len(entries)
            BY <2>1
        <3> QED BY <2>2, <3>1 DEF Filled
    <2>4. Filled(entries, <<>>) = entries
        BY <2>1, <2>3, SeqIsFunction
    <2>5. Fill(frame, <<>>) = frame
        BY <2>1, <2>4 DEF Fill, FrameType
    <2> QED BY <2>5 DEF frame
<1>2. FramesPlus(open, <<>>) = [i \in 1 .. Len(open) |-> open[i]]
    BY <1>1 DEF FramesPlus
<1>3. FramesPlus(open, <<>>) = open
    BY <1>2, SeqIsFunction
<1>4. OutputPlus(open, <<>>) = output
    BY DEF OutputPlus
<1> QED BY <1>3, <1>4

LEMMA PlusSound ==
    ASSUME NEW open \in Seq(FrameType), \A i \in 1 .. Len(open) : FrameCounted(open[i]),
           Collecting(open), output \in Seq(Byte), NEW root \in BOOLEAN,
           Sound(open, output, root, 1),
           NEW bytes \in Seq(Byte), NEW m \in Nat, Owes(bytes, m)
    PROVE  /\ Sound(FramesPlus(open, bytes), OutputPlus(open, bytes), root, m)
           /\ Collecting(FramesPlus(open, bytes))
<1> DEFINE last == Len(open)
           new == FramesPlus(open, bytes)
           out == OutputPlus(open, bytes)
<1>1. PICK due, into : Debts(open, root, due, into) /\ Owed(open, output, due, into, 1)
    BY DEF Sound
<1>2. last \in Nat /\ last \in 0 .. last
    OBVIOUS
<1>3. \A i \in 0 .. last :
          /\ due[i] \in Nat /\ into[i] \in 0 .. i /\ (into[i] # 0 => Buffered(open[into[i]]))
          /\ \A j \in 1 .. i : Buffered(open[j]) => j <= into[i]
    BY <1>1, DebtsAre
<1> DEFINE c == into[last]
<1>4. c \in 0 .. last /\ (c # 0 => Buffered(open[c]))
      /\ \A j \in 1 .. last : Buffered(open[j]) => j <= c
    BY <1>2, <1>3
<1>5. Active(open) = c
    BY <1>4, ActiveIs
<1>6. new \in Seq(FrameType) /\ Len(new) = last
    <2>1. new \in Seq(FrameType)
        BY PlusTyped
    <2>2. DOMAIN new = 1 .. last
        BY FramesPlusAt
    <2> QED BY <1>2, <2>1, <2>2
<1>7. \A i \in 1 .. last : new[i] = IF i = c THEN Fill(open[i], bytes) ELSE open[i]
    BY <1>5, FramesPlusAt
<1>8. \A i \in 1 .. last : FilledFrom(Fill(open[i], bytes), open[i], bytes)
    BY FillIs
<1>9. out = IF c = 0 THEN output \o bytes ELSE output
    BY <1>5 DEF OutputPlus
<1> HIDE DEF new, out, last
<1>10. ASSUME NEW i \in 1 .. last
       PROVE  /\ new[i].kind = open[i].kind /\ new[i].expected = open[i].expected
              /\ new[i].written = open[i].written /\ new[i].expecting = open[i].expecting
              /\ Len(new[i].entries) = Len(open[i].entries)
              /\ i # c => new[i] = open[i]
    BY <1>7, <1>8 DEF FilledFrom
<1>11. ASSUME NEW i \in 1 .. last
       PROVE  /\ Buffered(new[i]) <=> Buffered(open[i])
              /\ Awaited(new[i]) = Awaited(open[i])
              /\ Remaining(new[i]) = Remaining(open[i])
              /\ new[i].entries = <<>> <=> open[i].entries = <<>>
    <2>1. open[i].entries \in Seq(EntryType) /\ new[i].entries \in Seq(EntryType)
        <3>1. open[i] \in FrameType /\ new[i] \in FrameType
            BY <1>6 DEF last
        <3> QED BY <3>1 DEF FrameType, EntryType
    <2>2. new[i].entries = <<>> <=> open[i].entries = <<>>
        BY <1>10, <2>1
    <2> QED BY <1>10, <2>2 DEF Buffered, Awaited, Remaining
<1>12. Debts(new, root, due, into)
    BY <1>1, <1>6, <1>11 DEF Debts, last
<1>13. AllSettled(new)
    <2> SUFFICES ASSUME NEW i \in 1 .. last PROVE Settled(new[i]) /\ Fits(new[i].expected, 8)
        BY <1>6 DEF AllSettled
    <2>1. Settled(open[i]) /\ Fits(open[i].expected, 8)
        BY DEF Sound, AllSettled, last
    <2>2. CASE i # c
        BY <1>10, <2>1, <2>2
    <2>3. CASE i = c
        <3>1. Buffered(open[i]) /\ Collects(open[i])
            BY <1>4, <2>3 DEF Collecting, last
        <3>2. ~(open[i].kind = "buffered_object" /\ open[i].expecting)
              /\ (open[i].kind = "buffered_sequence" => ~open[i].expecting)
            BY <3>1 DEF Collects, FrameCounted, SequenceKinds, last
        <3>3. \A k \in 1 .. Len(open[i].entries) :
                  /\ new[i].entries[k].key = open[i].entries[k].key
                  /\ k < Len(open[i].entries) => new[i].entries[k].value = open[i].entries[k].value
            <4>1. FilledFrom(new[i], open[i], bytes)
                BY <1>7, <1>8, <2>3
            <4> QED BY <4>1 DEF FilledFrom
        <3>4. ~open[i].expecting
            BY <3>1, <3>2 DEF Buffered
        <3>5. Settled(new[i])
            BY <1>10, <1>11, <2>1, <3>1, <3>3, <3>4 DEF Settled
        <3> QED BY <1>10, <2>1, <3>5
    <2> QED BY <2>2, <2>3
<1>14. Owed(new, out, due, into, m)
    <2>1. ASSUME NEW e \in 0 .. last - 1, Buffered(new[e + 1])
          PROVE  Owes(Held(new, out, into[e]), due[e] + 1)
        <3>1. e + 1 \in 1 .. last /\ e \in 0 .. last /\ e \in Nat
            BY <1>2
        <3>2. Buffered(open[e + 1]) /\ e + 1 <= c /\ into[e] \in 0 .. e
            BY <1>3, <1>4, <1>11, <2>1, <3>1
        <3>3. into[e] # c /\ c # 0 /\ (into[e] # 0 => into[e] \in 1 .. last)
            BY <1>2, <1>4, <3>1, <3>2
        <3>4. Held(new, out, into[e]) = Held(open, output, into[e])
            BY <1>9, <1>10, <3>3 DEF Held
        <3> QED BY <1>1, <3>2, <3>4 DEF Owed, last
    <2>2. ASSUME Fillable(new, c)
          PROVE  Owes(Held(new, out, c), due[last] + m)
        <3>1. Fillable(open, c)
            BY <1>4, <1>11, <2>2 DEF Fillable
        <3>2. Owes(Held(open, output, c), due[last] + 1) /\ due[last] \in Nat
            BY <1>1, <1>2, <1>3, <3>1 DEF Owed, last
        <3>3. Held(new, out, c) = Held(open, output, c) \o bytes /\ Held(open, output, c) \in Seq(Byte)
            <4>1. CASE c = 0
                BY <1>9, <4>1 DEF Held
            <4>2. CASE c # 0
                <5> DEFINE entries == open[c].entries
                           n == Len(entries)
                <5>1. c \in 1 .. last
                    BY <1>2, <1>4, <4>2
                <5>2. entries \in Seq(EntryType) /\ entries # <<>>
                    <6>1. open[c] \in FrameType
                        BY <5>1 DEF last
                    <6> QED BY <3>1, <4>2, <6>1 DEF FrameType, EntryType, Fillable
                <5>3. n \in 1 .. n /\ entries[n] \in EntryType
                    BY <5>2
                <5>4. Len(new[c].entries) = n /\ new[c].entries[n].value = entries[n].value \o bytes
                    BY <1>7, <1>8, <5>1, <5>3 DEF FilledFrom
                <5> QED BY <4>2, <5>3, <5>4 DEF Held, EntryType
            <4> QED BY <4>1, <4>2
        <3> DEFINE held == Held(open, output, c)
                   k == due[last]
        <3>4. held \in Seq(Byte) /\ k \in Nat /\ Owes(held, k + 1)
            BY <3>2, <3>3
        <3> HIDE DEF held, k
        <3>5. Owes(held \o bytes, k + m)
            BY <3>4, OwesJoined
        <3> QED BY <3>3, <3>5 DEF held, k
    <2> QED BY <1>6, <2>1, <2>2 DEF Owed
<1>15. Collecting(new)
    BY <1>6, <1>10, <1>11 DEF Collecting, Collects, last
<1>16. Sound(new, out, root, m)
    BY <1>12, <1>13, <1>14 DEF Sound
<1> QED BY <1>15, <1>16 DEF new, out

-----------------------------------------------------------------------------
(* The innermost container changes, opens or closes. *)

LEMMA FramesCounted ==
    ASSUME IInv
    PROVE  \A i \in 1 .. Len(frames) : FrameCounted(frames[i])
BY DEF IInv, Good, Counted

LEMMA CountsAreNumbers ==
    ASSUME NEW frame \in FrameType
    PROVE  Remaining(frame) \in Int /\ Awaited(frame) \in 0 .. 1
BY DEF FrameType, Remaining, Awaited

(* The innermost frame becomes `top`, which owes `pending` items less: they *)
(* are to be written next.                                                   *)
LEMMA TopSound ==
    ASSUME TypeOK, IInv, frames # <<>>, Sound(frames, output, wroteRoot, 0),
           NEW top \in FrameType, top.kind = Top.kind, top.expected = Top.expected,
           Settled(top), NEW pending \in Nat,
           ~Buffered(Top) => Remaining(Top) = Remaining(top) + pending,
           Buffered(Top) => /\ top.entries # <<>>
                            /\ Owes(top.entries[Len(top.entries)].value, Awaited(top) + pending)
    PROVE  Sound([frames EXCEPT ![Len(frames)] = top], output, wroteRoot, pending)
<1> DEFINE last == Len(frames)
           new == [frames EXCEPT ![Len(frames)] = top]
<1>1. /\ last \in Nat \ {0} /\ last \in 1 .. last /\ frames \in Seq(FrameType)
      /\ new \in Seq(FrameType) /\ Len(new) = last /\ new[last] = top /\ Top = frames[last]
      /\ \A i \in 1 .. last - 1 : new[i] = frames[i]
    BY DEF TypeOK, Top
<1>2. PICK due, into : Debts(frames, wroteRoot, due, into) /\ Owed(frames, output, due, into, 0)
    BY DEF Sound
<1>3. \A i \in 0 .. last : due[i] \in Nat /\ into[i] \in 0 .. i
    BY <1>1, <1>2, FramesCounted, DebtsAre DEF TypeOK
<1> HIDE DEF new, last
<1> DEFINE final == IF Buffered(top) THEN Awaited(top) ELSE due[last - 1] + Remaining(top)
           debt == [i \in 0 .. last |-> IF i < last THEN due[i] ELSE final]
<1>4. /\ \A i \in 0 .. last - 1 : debt[i] = due[i]
      /\ debt[last] = IF Buffered(top) THEN Awaited(top) ELSE due[last - 1] + Remaining(top)
    <2>1. /\ \A i \in 0 .. last - 1 : i \in 0 .. last /\ i < last
          /\ last \in 0 .. last /\ ~(last < last)
        BY <1>1
    <2> HIDE DEF final
    <2>2. /\ \A i \in 0 .. last - 1 : debt[i] = due[i]
          /\ debt[last] = final
        BY <2>1
    <2> QED BY <2>2 DEF final
<1> HIDE DEF debt
<1>5. Buffered(top) <=> Buffered(Top)
    BY DEF Buffered
<1>6. /\ 0 \in 0 .. last - 1 /\ last - 1 \in 0 .. last - 1
      /\ \A i \in 1 .. last : i # last => /\ i \in 1 .. last - 1 /\ i \in 0 .. last - 1
                                         /\ i - 1 \in 0 .. last - 1
    BY <1>1
<1>7. Debts(new, wroteRoot, debt, into)
    <2>1. debt[0] = (IF wroteRoot THEN 0 ELSE 1) /\ into[0] = 0
        BY <1>2, <1>4, <1>6 DEF Debts
    <2>2. ASSUME NEW i \in 1 .. last
          PROVE  IF Buffered(new[i])
                 THEN debt[i] = Awaited(new[i]) /\ into[i] = i
                 ELSE debt[i] = debt[i - 1] + Remaining(new[i]) /\ into[i] = into[i - 1]
        <3>1. IF Buffered(frames[i])
              THEN due[i] = Awaited(frames[i]) /\ into[i] = i
              ELSE due[i] = due[i - 1] + Remaining(frames[i]) /\ into[i] = into[i - 1]
            BY <1>2 DEF Debts, last
        <3>2. CASE i # last
            BY <1>1, <1>4, <1>6, <3>1, <3>2
        <3>3. CASE i = last
            BY <1>1, <1>4, <1>5, <1>6, <3>1, <3>3
        <3> QED BY <3>2, <3>3
    <2> QED BY <1>1, <2>1, <2>2 DEF Debts
<1>8. AllSettled(new)
    <2> SUFFICES ASSUME NEW i \in 1 .. last PROVE Settled(new[i]) /\ Fits(new[i].expected, 8)
        BY <1>1 DEF AllSettled
    <2>1. Settled(frames[i]) /\ Fits(frames[i].expected, 8)
        BY DEF Sound, AllSettled, last
    <2> QED BY <1>1, <1>6, <2>1
<1>9. Owed(new, output, debt, into, pending)
    <2>1. ASSUME NEW e \in 0 .. last - 1, Buffered(new[e + 1])
          PROVE  Owes(Held(new, output, into[e]), debt[e] + 1)
        <3>1. e + 1 \in 1 .. last /\ e \in 0 .. last /\ e \in Nat
            BY <1>1
        <3>2. Buffered(frames[e + 1])
            BY <1>1, <1>5, <1>6, <2>1, <3>1
        <3>3. Owes(Held(frames, output, into[e]), due[e] + 1)
            BY <1>2, <3>2 DEF Owed, last
        <3>4. into[e] # 0 => into[e] \in 1 .. last - 1
            BY <1>1, <1>3, <3>1
        <3>5. Held(new, output, into[e]) = Held(frames, output, into[e])
            BY <1>1, <3>4 DEF Held
        <3> QED BY <1>4, <3>3, <3>5
    <2>2. ASSUME Fillable(new, into[last])
          PROVE  Owes(Held(new, output, into[last]), debt[last] + pending)
        <3>1. CASE Buffered(top)
            <4>1. into[last] = last /\ debt[last] = Awaited(top)
                BY <1>1, <1>4, <1>7, <3>1 DEF Debts
            <4>2. Held(new, output, last) = top.entries[Len(top.entries)].value
                BY <1>1 DEF Held
            <4> QED BY <1>5, <3>1, <4>1, <4>2
        <3>2. CASE ~Buffered(top)
            <4>1. into[last] = into[last - 1] /\ debt[last] = due[last - 1] + Remaining(top)
                BY <1>1, <1>4, <1>7, <3>2 DEF Debts
            <4>2. due[last] = due[last - 1] + Remaining(Top)
                BY <1>1, <1>2, <1>5, <3>2 DEF Debts, last
            <4>3. debt[last] + pending = due[last] + 0
                <5>1. due[last - 1] \in Nat /\ Remaining(top) \in Int
                    BY <1>1, <1>3, CountsAreNumbers
                <5> DEFINE a == due[last - 1]
                           b == Remaining(top)
                           c == Remaining(Top)
                <5>2. a \in Nat /\ b \in Int /\ c = b + pending
                    BY <1>5, <3>2, <5>1
                <5>3. debt[last] = a + b /\ due[last] = a + c
                    BY <4>1, <4>2
                <5> HIDE DEF a, b, c
                <5> QED BY <5>2, <5>3
            <4>4. into[last] # 0 => into[last] \in 1 .. last - 1
                BY <1>1, <1>3, <1>6, <4>1
            <4>5. /\ Held(new, output, into[last]) = Held(frames, output, into[last])
                  /\ Fillable(frames, into[last])
                BY <1>1, <2>2, <4>4 DEF Held, Fillable
            <4>6. Owes(Held(frames, output, into[last]), due[last] + 0)
                BY <1>2, <4>5 DEF Owed, last
            <4> QED BY <4>3, <4>5, <4>6
        <3> QED BY <3>1, <3>2
    <2> QED BY <1>1, <2>1, <2>2 DEF Owed
<1>10. Sound(new, output, wroteRoot, pending)
    BY <1>7, <1>8, <1>9 DEF Sound
<1> QED BY <1>10 DEF new

(* What the innermost buffered container holds so far. *)
LEMMA TopHolds ==
    ASSUME TypeOK, IInv, frames # <<>>, Sound(frames, output, wroteRoot, 0), Buffered(Top)
    PROVE  /\ Settled(Top) /\ Fits(Top.expected, 8)
           /\ Top.entries # <<>> =>
                 Owes(Top.entries[Len(Top.entries)].value, Awaited(Top))
<1> DEFINE last == Len(frames)
<1>1. last \in Nat \ {0} /\ last \in 1 .. last /\ frames \in Seq(FrameType) /\ Top = frames[last]
    BY DEF TypeOK, Top
<1>2. PICK due, into : Debts(frames, wroteRoot, due, into) /\ Owed(frames, output, due, into, 0)
    BY DEF Sound
<1>3. due[last] = Awaited(Top) /\ into[last] = last
    BY <1>1, <1>2 DEF Debts
<1>4. Settled(Top) /\ Fits(Top.expected, 8)
    BY <1>1 DEF Sound, AllSettled
<1>5. ASSUME Top.entries # <<>>
      PROVE  Owes(Top.entries[Len(Top.entries)].value, Awaited(Top))
    <2>1. Fillable(frames, into[last]) /\ last # 0
        BY <1>1, <1>3, <1>5 DEF Fillable
    <2>2. Owes(Held(frames, output, into[last]), due[last] + 0)
        BY <1>2, <2>1 DEF Owed
    <2>3. Awaited(Top) + 0 = Awaited(Top)
        BY DEF Awaited
    <2>4. Held(frames, output, into[last]) = Top.entries[Len(Top.entries)].value
        BY <1>1, <1>3, <2>1 DEF Held
    <2> QED BY <1>3, <2>2, <2>3, <2>4
<1> QED BY <1>4, <1>5

(* A container opens inside the others: one that is not buffered owes what  *)
(* its head announced, a buffered one stands for the item to come.           *)
LEMMA PushSound ==
    ASSUME NEW open \in Seq(FrameType), \A i \in 1 .. Len(open) : FrameCounted(open[i]),
           Collecting(open), NEW out, NEW root \in BOOLEAN, NEW pending \in Nat,
           Sound(open, out, root, pending),
           NEW frame \in FrameType, frame.entries = <<>>, frame.expecting = FALSE,
           Fits(frame.expected, 8),
           IF Buffered(frame) THEN pending = 1 ELSE Remaining(frame) = pending
    PROVE  Sound(open \o <<frame>>, out, root, 0)
<1> DEFINE last == Len(open)
           new == open \o <<frame>>
           k == last + 1
<1>1. /\ last \in Nat /\ Len(new) = k /\ k \in 1 .. k /\ k - 1 = last /\ k # 0
      /\ new[k] = frame /\ \A i \in 1 .. last : new[i] = open[i]
    BY PushIs
<1>2. PICK due, into : Debts(open, root, due, into) /\ Owed(open, out, due, into, pending)
    BY DEF Sound
<1>3. \A i \in 0 .. last : due[i] \in Nat /\ into[i] \in 0 .. i /\ (into[i] # 0 => Buffered(open[into[i]]))
    BY <1>2, DebtsAre
<1> DEFINE debt == [i \in 0 .. k |->
                       IF i <= last THEN due[i]
                       ELSE IF Buffered(frame) THEN 0 ELSE due[last] + pending]
           goes == [i \in 0 .. k |->
                       IF i <= last THEN into[i] ELSE IF Buffered(frame) THEN k ELSE into[last]]
<1>4. /\ \A i \in 0 .. last : debt[i] = due[i] /\ goes[i] = into[i]
      /\ debt[k] = IF Buffered(frame) THEN 0 ELSE due[last] + pending
      /\ goes[k] = IF Buffered(frame) THEN k ELSE into[last]
    BY <1>1
<1>5. /\ \A i \in 1 .. k : i # k => i \in 1 .. last /\ i \in 0 .. last /\ i - 1 \in 0 .. last
      /\ 0 \in 0 .. last /\ last \in 0 .. last
    BY <1>1
<1> HIDE DEF new, k, debt, goes
<1>6. Debts(new, root, debt, goes)
    <2>1. debt[0] = (IF root THEN 0 ELSE 1) /\ goes[0] = 0
        BY <1>2, <1>4, <1>5 DEF Debts
    <2>2. ASSUME NEW i \in 1 .. k
          PROVE  IF Buffered(new[i])
                 THEN debt[i] = Awaited(new[i]) /\ goes[i] = i
                 ELSE debt[i] = debt[i - 1] + Remaining(new[i]) /\ goes[i] = goes[i - 1]
        <3>1. CASE i # k
            <4>1. i \in 1 .. last /\ i \in 0 .. last /\ i - 1 \in 0 .. last
                BY <1>5, <3>1
            <4>2. IF Buffered(open[i])
                  THEN due[i] = Awaited(open[i]) /\ into[i] = i
                  ELSE due[i] = due[i - 1] + Remaining(open[i]) /\ into[i] = into[i - 1]
                BY <1>2, <4>1 DEF Debts
            <4> QED BY <1>1, <1>4, <4>1, <4>2
        <3>2. CASE i = k
            <4>1. Awaited(frame) = 0
                BY DEF Awaited
            <4> QED BY <1>1, <1>4, <1>5, <3>2, <4>1
        <3> QED BY <3>1, <3>2
    <2> QED BY <1>1, <2>1, <2>2 DEF Debts
<1>7. AllSettled(new)
    <2> SUFFICES ASSUME NEW i \in 1 .. k PROVE Settled(new[i]) /\ Fits(new[i].expected, 8)
        BY <1>1 DEF AllSettled
    <2>1. CASE i # k
        BY <1>1, <1>5, <2>1 DEF Sound, AllSettled
    <2>2. CASE i = k
        <3>1. Settled(frame)
            BY DEF Settled
        <3> QED BY <1>1, <2>2, <3>1
    <2> QED BY <2>1, <2>2
<1>8. Owed(new, out, debt, goes, 0)
    <2>1. ASSUME NEW e \in 0 .. last
          PROVE  /\ Held(new, out, into[e]) = Held(open, out, into[e])
                 /\ Fillable(new, into[e]) <=> Fillable(open, into[e])
        <3>1. into[e] # 0 => into[e] \in 1 .. last
            BY <1>1, <1>3
        <3> QED BY <1>1, <3>1 DEF Held, Fillable
    <2>2. ASSUME NEW e \in 0 .. k - 1, Buffered(new[e + 1])
          PROVE  Owes(Held(new, out, goes[e]), debt[e] + 1)
        <3>1. e \in 0 .. last
            BY <1>1
        <3>2. CASE e # last
            <4>1. e \in 0 .. last - 1 /\ e + 1 \in 1 .. last
                BY <1>1, <3>1, <3>2
            <4>2. Owes(Held(open, out, into[e]), due[e] + 1)
                BY <1>1, <1>2, <2>2, <4>1 DEF Owed
            <4> QED BY <1>4, <2>1, <3>1, <4>2
        <3>3. CASE e = last
            <4>1. Buffered(frame) /\ pending = 1
                BY <1>1, <2>2, <3>3 DEF k
            <4>2. Fillable(open, into[last])
                <5>1. into[last] # 0 => into[last] \in 1 .. last /\ Buffered(open[into[last]])
                    BY <1>1, <1>3, <1>5
                <5> QED BY <5>1 DEF Fillable, Collecting, Collects
            <4>3. Owes(Held(open, out, into[last]), due[last] + 1)
                BY <1>2, <4>1, <4>2 DEF Owed
            <4> QED BY <1>4, <1>5, <2>1, <3>3, <4>3
        <3> QED BY <3>2, <3>3
    <2>3. ASSUME Fillable(new, goes[k])
          PROVE  Owes(Held(new, out, goes[k]), debt[k] + 0)
        <3>1. ~Buffered(frame)
            BY <1>1, <1>4, <2>3 DEF Fillable
        <3>2. goes[k] = into[last] /\ debt[k] + 0 = due[last] + pending
            BY <1>3, <1>4, <1>5, <3>1
        <3>3. Fillable(open, into[last])
            BY <1>5, <2>1, <2>3, <3>2
        <3>4. Owes(Held(open, out, into[last]), due[last] + pending)
            BY <1>2, <3>3 DEF Owed
        <3> QED BY <1>5, <2>1, <3>2, <3>4
    <2> QED BY <1>1, <2>2, <2>3 DEF Owed
<1>9. Sound(new, out, root, 0)
    BY <1>6, <1>7, <1>8 DEF Sound
<1> QED BY <1>9 DEF new

(* The innermost container closes: one that is not buffered owes nothing,   *)
(* of a buffered one the whole item is to be written.                        *)
LEMMA OuterSound ==
    ASSUME TypeOK, IInv, frames # <<>>, Sound(frames, output, wroteRoot, 0),
           ~Buffered(Top) => Remaining(Top) = 0
    PROVE  Sound(Outer, output, wroteRoot, IF Buffered(Top) THEN 1 ELSE 0)
<1> DEFINE last == Len(frames)
           new == Outer
           k == last - 1
           pending == IF Buffered(Top) THEN 1 ELSE 0
<1>1. /\ last \in Nat \ {0} /\ last \in 1 .. last /\ frames \in Seq(FrameType) /\ Top = frames[last]
      /\ k \in Nat /\ k + 1 = last /\ k \in 0 .. last /\ k \in 0 .. last - 1
    BY DEF TypeOK, Top
<1>2. Len(new) = k /\ \A i \in 1 .. k : new[i] = frames[i]
    BY OuterGood
<1>3. PICK due, into : Debts(frames, wroteRoot, due, into) /\ Owed(frames, output, due, into, 0)
    BY DEF Sound
<1>4. \A i \in 0 .. last : due[i] \in Nat /\ into[i] \in 0 .. i
    BY <1>1, <1>3, FramesCounted, DebtsAre DEF TypeOK
<1>5. \A i \in 1 .. k : i \in 1 .. last
    BY <1>1
<1> HIDE DEF new, k, last
<1>6. Debts(new, wroteRoot, due, into)
    BY <1>2, <1>3, <1>5 DEF Debts, last
<1>7. AllSettled(new)
    BY <1>2, <1>5 DEF Sound, AllSettled, last
<1>8. ASSUME NEW e \in 0 .. k
      PROVE  /\ Held(new, output, into[e]) = Held(frames, output, into[e])
             /\ Fillable(new, into[e]) <=> Fillable(frames, into[e])
    <2>1. e \in 0 .. last
        BY <1>1
    <2>2. into[e] # 0 => into[e] \in 1 .. k
        BY <1>1, <1>4, <2>1
    <2> QED BY <1>2, <2>2 DEF Held, Fillable
<1>9. Owed(new, output, due, into, pending)
    <2>1. ASSUME NEW e \in 0 .. k - 1, Buffered(new[e + 1])
          PROVE  Owes(Held(new, output, into[e]), due[e] + 1)
        <3>1. e \in 0 .. last - 1 /\ e + 1 \in 1 .. k /\ e \in 0 .. k
            BY <1>1
        <3>2. Owes(Held(frames, output, into[e]), due[e] + 1)
            BY <1>2, <1>3, <2>1, <3>1 DEF Owed, last
        <3> QED BY <1>8, <3>1, <3>2
    <2>2. ASSUME Fillable(new, into[k])
          PROVE  Owes(Held(new, output, into[k]), due[k] + pending)
        <3>0. k \in 0 .. k
            BY <1>1
        <3>1. CASE Buffered(Top)
            <4>1. Owes(Held(frames, output, into[k]), due[k] + 1)
                BY <1>1, <1>3, <3>1 DEF Owed, last
            <4> QED BY <1>8, <3>0, <3>1, <4>1
        <3>2. CASE ~Buffered(Top)
            <4>1. due[last] = due[last - 1] + Remaining(Top) /\ into[last] = into[last - 1]
                BY <1>1, <1>3, <3>2 DEF Debts, last
            <4>2. last - 1 = k /\ due[last] + 0 = due[k] + pending /\ into[last] = into[k]
                BY <1>1, <1>4, <3>2, <4>1
            <4>3. Owes(Held(frames, output, into[last]), due[last] + 0)
                BY <1>3, <1>8, <2>2, <3>0, <4>2 DEF Owed, last
            <4> QED BY <1>8, <3>0, <4>2, <4>3
        <3> QED BY <3>1, <3>2
    <2> QED BY <1>2, <2>1, <2>2 DEF Owed
<1>10. Sound(new, output, wroteRoot, pending)
    BY <1>6, <1>7, <1>9 DEF Sound
<1> QED BY <1>10 DEF new

-----------------------------------------------------------------------------
(* The calls. *)

LEMMA ReadyCollecting ==
    ASSUME NEW open \in Seq(FrameType), Good(open), Ready(open)
    PROVE  Collecting(open)
<1> SUFFICES ASSUME NEW i \in 1 .. Len(open), Buffered(open[i]) PROVE Collects(open[i])
    BY DEF Collecting
<1>1. Receiving(open[i]) /\ FrameCounted(open[i])
    <2>1. CASE i < Len(open)
        BY <2>1 DEF Good, Counted
    <2>2. CASE i = Len(open)
        BY <2>2 DEF Good, Counted, Ready
    <2> QED BY <2>1, <2>2
<1>2. open[i].entries \in Seq(EntryType)
    <2>1. open[i] \in FrameType
        OBVIOUS
    <2> QED BY <2>1 DEF FrameType, EntryType
<1>3. Len(open[i].entries) > 0
    BY <1>1 DEF Receiving, FrameCounted
<1> QED BY <1>1, <1>2, <1>3 DEF Collects, Receiving, Buffered

(* The shape of what a value or a key leaves in its frame. *)
Appended(new, entries, key) ==
    /\ Len(new) = Len(entries) + 1
    /\ \A k \in 1 .. Len(entries) : new[k] = entries[k]
    /\ new[Len(entries) + 1].key = key
    /\ new[Len(entries) + 1].value = <<>>

LEMMA AppendedIs ==
    ASSUME NEW entries \in Seq(EntryType), NEW key \in Seq(Byte)
    PROVE  Appended(Append(entries, Entry(key, <<>>)), entries, key)
<1> DEFINE last == Entry(key, <<>>)
<1>1. last.key = key /\ last.value = <<>>
    BY DEF Entry
<1> HIDE DEF last
<1>2. /\ Len(Append(entries, last)) = Len(entries) + 1
      /\ \A k \in 1 .. Len(entries) : Append(entries, last)[k] = entries[k]
      /\ Append(entries, last)[Len(entries) + 1] = last
    OBVIOUS
<1> QED BY <1>1, <1>2 DEF last, Appended

LEMMA GivenSound ==
    ASSUME TypeOK, IInv, Sound(frames, output, wroteRoot, 0), frames # <<>>, ValueError = "none"
    PROVE  Sound([frames EXCEPT ![Len(frames)] = Given(Top)], output, wroteRoot, 1)
<1> DEFINE top == Given(Top)
           entries == Top.entries
           n == Len(entries)
<1>1. /\ Top \in FrameType /\ top \in FrameType
      /\ FrameCounted(Top)
    BY TopTyped, GivenTyped, TopIs DEF TypeOK
<1>2. /\ entries \in Seq(EntryType) /\ n \in Nat
      /\ Top.written \in Nat /\ Top.expected \in Nat /\ Top.kind \in SequenceKinds \union ObjectKinds
      /\ Top.expecting \in BOOLEAN
    BY <1>1 DEF FrameType, EntryType
<1>3. /\ top.kind = Top.kind /\ top.expected = Top.expected /\ top.expecting = FALSE
      /\ top.written = IF Top.kind \in SequenceKinds THEN Top.written + 1 ELSE Top.written
      /\ top.entries = IF Top.kind = "buffered_sequence"
                       THEN Append(entries, Entry(<<>>, <<>>)) ELSE entries
    BY DEF Given, Updated
<1>4. /\ Top.kind \in SequenceKinds => Top.written < Top.expected /\ Top.expecting = FALSE
      /\ Top.kind \notin SequenceKinds => Top.expecting = TRUE
    BY <1>1, <1>2 DEF ValueError, FrameCounted
<1>5. /\ Settled(Top)
      /\ Buffered(Top) /\ entries # <<>> => Owes(entries[n].value, Awaited(Top))
    <2>1. Len(frames) \in 1 .. Len(frames) /\ Top = frames[Len(frames)]
        BY TopIs
    <2> QED BY <2>1, TopHolds DEF Sound, AllSettled
<1> HIDE DEF top, entries, n
<1>6. CASE ~Buffered(Top)
    <2>1. Top.kind \in {"sequence", "ordered_object"} /\ top.entries = entries
        BY <1>2, <1>3, <1>6 DEF Buffered, SequenceKinds, ObjectKinds
    <2>2. Settled(top)
        BY <1>3, <1>5, <1>6, <2>1 DEF Settled, Buffered, entries
    <2>3. Remaining(Top) = Remaining(top) + 1
        BY <1>2, <1>3, <1>4, <2>1 DEF Remaining, Awaited, SequenceKinds
    <2>4. Sound([frames EXCEPT ![Len(frames)] = top], output, wroteRoot, 1)
        BY <1>1, <1>3, <1>6, <2>2, <2>3, TopSound
    <2> QED BY <2>4 DEF top
<1>7. CASE Top.kind = "buffered_sequence"
    <2>1. Awaited(Top) = 0 /\ Awaited(top) = 0 /\ Buffered(Top) /\ Buffered(top)
        BY <1>3, <1>4, <1>7 DEF Awaited, Buffered, SequenceKinds
    <2>2. top.entries = Append(entries, Entry(<<>>, <<>>)) /\ <<>> \in Seq(Byte)
        BY <1>3, <1>7
    <2>3. /\ Len(top.entries) = n + 1
          /\ \A k \in 1 .. n : top.entries[k] = entries[k]
          /\ top.entries[n + 1].key = <<>> /\ top.entries[n + 1].value = <<>>
        <3>1. Appended(top.entries, entries, <<>>)
            BY <1>2, <2>2, AppendedIs, Zenon
        <3> QED BY <3>1, Zenon DEF Appended, n
    <2>4. \A k \in 1 .. n : entries[k].key = <<>> /\ WellFormed(entries[k].value)
        <3> SUFFICES ASSUME NEW k \in 1 .. n
                     PROVE  entries[k].key = <<>> /\ WellFormed(entries[k].value)
            OBVIOUS
        <3>1. entries[k].key = <<>> /\ (k < n => WellFormed(entries[k].value))
            BY <1>5, <1>7, <2>1 DEF Settled, entries, n
        <3>2. CASE k = n
            <4>1. entries # <<>>
                BY <1>2, <3>2 DEF n
            <4>2. Owes(entries[n].value, 0)
                BY <1>5, <2>1, <4>1
            <4> QED BY <3>1, <3>2, <4>2 DEF WellFormed
        <3>3. CASE k < n
            BY <3>1, <3>3
        <3> QED BY <1>2, <3>2, <3>3
    <2>5. Settled(top)
        <3> SUFFICES ASSUME NEW k \in 1 .. n + 1
                     PROVE  /\ top.entries[k].key = <<>>
                            /\ k < n + 1 => WellFormed(top.entries[k].value)
            BY <1>3, <1>7, <2>1, <2>3 DEF Settled
        <3>1. CASE k \in 1 .. n
            BY <2>3, <2>4, <3>1
        <3>2. CASE k = n + 1
            BY <1>2, <2>3, <3>2
        <3> QED BY <1>2, <3>1, <3>2
    <2>6. /\ top.entries # <<>>
          /\ Owes(top.entries[Len(top.entries)].value, Awaited(top) + 1)
        <3>1. Awaited(top) + 1 = 1
            BY <2>1
        <3>2. top.entries # <<>>
            BY <1>2, <2>3
        <3> QED BY <2>3, <3>1, <3>2, NothingOwesOne
    <2>7. Sound([frames EXCEPT ![Len(frames)] = top], output, wroteRoot, 1)
        BY <1>1, <1>3, <2>1, <2>5, <2>6, TopSound
    <2> QED BY <2>7 DEF top
<1>8. CASE Top.kind = "buffered_object"
    <2>1. Awaited(Top) = 1 /\ Awaited(top) = 0 /\ Buffered(Top) /\ Buffered(top)
        BY <1>3, <1>4, <1>8 DEF Awaited, Buffered, SequenceKinds
    <2>2. top.entries = entries
        BY <1>3, <1>8
    <2>3. entries # <<>>
        <3>1. Top.written > 0 /\ n = Top.written
            BY <1>1, <1>4, <1>8, <2>1 DEF FrameCounted, SequenceKinds, n, entries
        <3> QED BY <1>2, <3>1 DEF n
    <2>4. Settled(top)
        BY <1>3, <1>5, <1>8, <2>1, <2>2 DEF Settled, entries
    <2>5. Owes(top.entries[Len(top.entries)].value, Awaited(top) + 1)
        <3>1. Awaited(top) + 1 = 1
            BY <2>1
        <3> QED BY <1>5, <2>1, <2>2, <2>3, <3>1 DEF n
    <2>6. Sound([frames EXCEPT ![Len(frames)] = top], output, wroteRoot, 1)
        BY <1>1, <1>3, <2>1, <2>2, <2>3, <2>4, <2>5, TopSound
    <2> QED BY <2>6 DEF top
<1> QED BY <1>6, <1>7, <1>8 DEF Buffered

LEMMA ValueSound ==
    ASSUME TypeOK, IInv, Sound(frames, output, wroteRoot, 0), ValueError = "none"
    PROVE  /\ FramesAfterValue \in Seq(FrameType)
           /\ Good(FramesAfterValue)
           /\ Collecting(FramesAfterValue)
           /\ Sound(FramesAfterValue, output, TRUE, 1)
<1>1. FramesAfterValue \in Seq(FrameType)
    BY AfterValueTyped DEF TypeOK
<1>2. Good(FramesAfterValue) /\ Collecting(FramesAfterValue)
    BY <1>1, AfterValueGood, ReadyCollecting
<1>3. CASE frames # <<>>
    <2>1. FramesAfterValue = [frames EXCEPT ![Len(frames)] = Given(Top)] /\ wroteRoot = TRUE
        BY <1>3 DEF FramesAfterValue, IInv
    <2>2. Sound([frames EXCEPT ![Len(frames)] = Given(Top)], output, wroteRoot, 1)
        BY <1>3, GivenSound
    <2>3. Sound(FramesAfterValue, output, TRUE, 1)
        BY <2>1, <2>2
    <2> QED BY <1>1, <1>2, <2>3
<1>4. CASE frames = <<>>
    <2>1. FramesAfterValue = <<>> /\ wroteRoot = FALSE
        <3>1. wroteRoot \in BOOLEAN
            BY DEF TypeOK
        <3> QED BY <1>4, <3>1 DEF FramesAfterValue, ValueError
    <2>2. PICK due, into : Debts(frames, wroteRoot, due, into) /\ Owed(frames, output, due, into, 0)
        BY DEF Sound
    <2>3. Len(frames) = 0 /\ due[0] = 1 /\ into[0] = 0
        BY <1>4, <2>1, <2>2 DEF Debts
    <2>4. Owes(output, 1)
        <3>1. Fillable(frames, into[Len(frames)]) /\ due[Len(frames)] + 0 = 1
            BY <2>3 DEF Fillable
        <3>2. Owes(Held(frames, output, into[Len(frames)]), due[Len(frames)] + 0)
            BY <2>2, <3>1 DEF Owed
        <3> QED BY <2>3, <3>1, <3>2 DEF Held
    <2> DEFINE debt == [i \in 0 .. 0 |-> 0]
    <2>5. debt[0] = 0
        OBVIOUS
    <2> HIDE DEF debt
    <2>6. Debts(<<>>, TRUE, debt, debt) /\ AllSettled(<<>>)
        BY <2>5 DEF Debts, AllSettled
    <2>7. Owed(<<>>, output, debt, debt, 1)
        <3>1. Len(<<>>) = 0 /\ 0 .. 0 - 1 = {} /\ debt[0] + 1 = 1
            BY <2>5
        <3> QED BY <2>4, <2>5, <3>1 DEF Owed, Held
    <2>8. Sound(<<>>, output, TRUE, 1)
        BY <2>6, <2>7 DEF Sound
    <2> QED BY <1>1, <1>2, <2>1, <2>8
<1> QED BY <1>3, <1>4

(* A value begins: the bytes put out announce m items. *)
LEMMA StartSound ==
    ASSUME TypeOK, IInv, Sound(frames, output, wroteRoot, 0), NEW bytes \in Seq(Byte), NEW opened,
           StartValue(bytes, opened), NEW m \in Nat, Owes(bytes, m)
    PROVE  \E open \in Seq(FrameType) :
              /\ frames' = open \o opened
              /\ \A i \in 1 .. Len(open) : FrameCounted(open[i])
              /\ Collecting(open)
              /\ wroteRoot' = TRUE
              /\ Sound(open, output', wroteRoot', m)
<1> DEFINE open == FramesPlus(FramesAfterValue, bytes)
<1>1. /\ FramesAfterValue \in Seq(FrameType)
      /\ Good(FramesAfterValue)
      /\ Collecting(FramesAfterValue)
      /\ Sound(FramesAfterValue, output, TRUE, 1)
    BY ValueSound DEF StartValue
<1>2. output \in Seq(Byte)
    BY DEF TypeOK
<1>3. \A i \in 1 .. Len(FramesAfterValue) : FrameCounted(FramesAfterValue[i])
    BY <1>1 DEF Good, Counted
<1>4. open \in Seq(FrameType)
    BY <1>1, <1>2, PlusTyped
<1>5. Good(open)
    <2>1. SameShape(FramesAfterValue, open)
        BY <1>1, FramesPlusSame DEF Good
    <2> QED BY <1>1, <2>1, SameKeeps
<1>6. \A i \in 1 .. Len(open) : FrameCounted(open[i])
    BY <1>5 DEF Good, Counted
<1>7. Sound(open, OutputPlus(FramesAfterValue, bytes), TRUE, m) /\ Collecting(open)
    <2>1. TRUE \in BOOLEAN
        OBVIOUS
    <2> QED BY <1>1, <1>2, <1>3, <2>1, PlusSound
<1>8. frames' = open \o opened /\ output' = OutputPlus(FramesAfterValue, bytes)
    BY DEF StartValue
<1>9. wroteRoot' = TRUE
    BY StartValueFacts
<1> HIDE DEF open
<1>10. Sound(open, output', wroteRoot', m)
    BY <1>7, <1>8, <1>9
<1> QED BY <1>4, <1>6, <1>7, <1>8, <1>9, <1>10

LEMMA ScalarSound ==
    ASSUME TypeOK, IInv, Sound(frames, output, wroteRoot, 0), NEW bytes \in Seq(Byte),
           StartValue(bytes, <<>>), WellFormed(bytes)
    PROVE  Sound(frames, output, wroteRoot, 0)'
<1>1. 0 \in Nat /\ Owes(bytes, 0)
    BY DEF WellFormed
<1>2. PICK open \in Seq(FrameType) : frames' = open \o <<>> /\ Sound(open, output', wroteRoot', 0)
    BY <1>1, StartSound
<1>3. frames' = open
    BY <1>2
<1> QED BY <1>2, <1>3

LEMMA OpeningSound ==
    ASSUME TypeOK, IInv, Sound(frames, output, wroteRoot, 0), NEW bytes \in Seq(Byte),
           NEW kind \in SequenceKinds \union ObjectKinds, NEW size \in Nat, NEW compact \in BOOLEAN,
           StartValue(bytes, <<Frame(kind, size, compact)>>), Fits(size, 8),
           NEW m \in Nat, Owes(bytes, m),
           IF kind \in {"buffered_sequence", "buffered_object"} THEN m = 1
           ELSE m = IF kind = "sequence" THEN size ELSE 2 * size
    PROVE  Sound(frames, output, wroteRoot, 0)'
<1> DEFINE frame == Frame(kind, size, compact)
<1>1. PICK open \in Seq(FrameType) :
          /\ frames' = open \o <<frame>>
          /\ \A i \in 1 .. Len(open) : FrameCounted(open[i])
          /\ Collecting(open)
          /\ wroteRoot' = TRUE
          /\ Sound(open, output', wroteRoot', m)
    BY StartSound
<1>2. frame \in FrameType
    <2>1. <<>> \in Seq([key : Seq(Byte), value : Seq(Byte)])
        OBVIOUS
    <2> QED BY <2>1 DEF Frame, FrameType
<1>3. /\ frame.kind = kind /\ frame.expected = size /\ frame.written = 0
      /\ frame.expecting = FALSE /\ frame.entries = <<>>
    BY DEF Frame
<1> HIDE DEF frame
<1>4. Fits(frame.expected, 8)
    BY <1>3
<1>5. IF Buffered(frame) THEN m = 1 ELSE Remaining(frame) = m
    BY <1>3 DEF Buffered, Remaining, Awaited
<1> DEFINE out == output'
           root == wroteRoot'
<1>6. root \in BOOLEAN /\ Sound(open, out, root, m)
    BY <1>1
<1> HIDE DEF out, root
<1>7. Sound(open \o <<frame>>, out, root, 0)
    BY <1>1, <1>2, <1>3, <1>4, <1>5, <1>6, PushSound
<1> QED BY <1>1, <1>7 DEF out, root

(* A key: straight out, or into the next entry. *)
LEMMA OuterCollecting ==
    ASSUME TypeOK, IInv, frames # <<>>
    PROVE  /\ Outer \in Seq(FrameType) /\ Good(Outer) /\ Collecting(Outer)
           /\ Len(Outer) = Len(frames) - 1
           /\ \A i \in 1 .. Len(frames) - 1 : Outer[i] = frames[i]
<1>1. /\ Outer \in Seq(FrameType) /\ Good(Outer)
      /\ Len(Outer) = Len(frames) - 1
      /\ \A i \in 1 .. Len(frames) - 1 : Outer[i] = frames[i]
    BY TopTyped, OuterGood DEF TypeOK
<1>2. Ready(Outer)
    <2> DEFINE k == Len(frames) - 1
    <2>1. Len(frames) \in Nat \ {0} /\ (Outer # <<>> => Len(Outer) > 0)
        BY <1>1, TopIs
    <2>2. Outer # <<>> => k \in 1 .. Len(frames) /\ k < Len(frames) /\ k \in 1 .. k
        BY <1>1, <2>1
    <2>3. Outer # <<>> => Receiving(frames[k])
        BY <2>2 DEF IInv, Good, Counted
    <2> HIDE DEF k
    <2>4. Len(Outer) = k /\ (Outer # <<>> => Outer[k] = frames[k])
        BY <1>1, <2>2 DEF k
    <2> QED BY <2>3, <2>4 DEF Ready
<1> QED BY <1>1, <1>2, ReadyCollecting

LEMMA KeySound ==
    ASSUME TypeOK, IInv, Sound(frames, output, wroteRoot, 0), NEW key \in Seq(Byte),
           WellFormed(key), KeyError = "none", WriteKey(key)
    PROVE  Sound(frames, output, wroteRoot, 0)'
<1> DEFINE top == Keyed(Top, key)
           open == [frames EXCEPT ![Len(frames)] = top]
           bytes == IF Top.kind = "ordered_object" THEN key ELSE <<>>
           entries == Top.entries
           n == Len(entries)
<1>1. /\ frames # <<>> /\ Top.kind \notin SequenceKinds /\ ~Top.expecting
      /\ ~(Top.written >= Top.expected)
    BY DEF KeyError
<1>2. /\ Top \in FrameType /\ top \in FrameType /\ FrameCounted(Top)
    BY <1>1, TopTyped, KeyedTyped, TopIs DEF TypeOK
<1>3. /\ entries \in Seq(EntryType) /\ n \in Nat
      /\ Top.written \in Nat /\ Top.expected \in Nat /\ Top.kind \in SequenceKinds \union ObjectKinds
      /\ Top.written < Top.expected
    BY <1>1, <1>2 DEF FrameType, EntryType
<1>4. /\ top.kind = Top.kind /\ top.expected = Top.expected /\ top.expecting = TRUE
      /\ top.written = Top.written + 1
      /\ top.entries = IF Top.kind = "buffered_object"
                       THEN Append(entries, Entry(key, <<>>)) ELSE entries
    BY DEF Keyed, Updated
<1>5. /\ Settled(Top)
      /\ Buffered(Top) /\ entries # <<>> => Owes(entries[n].value, Awaited(Top))
    <2>1. Len(frames) \in 1 .. Len(frames) /\ Top = frames[Len(frames)]
        BY <1>1, TopIs
    <2> QED BY <1>1, <2>1, TopHolds DEF Sound, AllSettled
<1>6. /\ frames' = FramesPlus(open, bytes) /\ output' = OutputPlus(open, bytes)
      /\ wroteRoot' = wroteRoot
    BY <1>1 DEF WriteKey
<1>7. /\ open \in Seq(FrameType) /\ Len(open) = Len(frames) /\ open[Len(frames)] = top
      /\ \A i \in 1 .. Len(frames) - 1 : open[i] = frames[i]
      /\ Len(frames) \in Nat
    BY <1>1, <1>2 DEF TypeOK
<1>8. Awaited(Top) = 0 /\ Awaited(top) = 1
    BY <1>1, <1>4 DEF Awaited
<1> HIDE DEF top, entries, n, open
<1>9. CASE Top.kind = "ordered_object"
    <2>1. ~Buffered(Top) /\ ~Buffered(top)
        BY <1>4, <1>9 DEF Buffered
    <2>2. Settled(top)
        BY <1>4, <1>5, <1>9, <2>1 DEF Settled, entries
    <2>3. Remaining(Top) = Remaining(top) + 1
        BY <1>3, <1>4, <1>8, <1>9 DEF Remaining
    <2>4. Sound(open, output, wroteRoot, 1)
        BY <1>1, <1>2, <1>4, <2>1, <2>2, <2>3, TopSound DEF open
    <2>5. ASSUME NEW i \in 1 .. Len(open)
          PROVE  FrameCounted(open[i]) /\ (Buffered(open[i]) => Collects(open[i]))
        <3>1. CASE i = Len(frames)
            <4>1. FrameCounted(top)
                <5>1. Top \in FrameOf(EntryType)
                    BY <1>2 DEF FrameOf, FrameType, EntryType, Kinds
                <5> QED BY <1>1, <1>2, <1>3, <5>1, KeyedCounted DEF top
            <4> QED BY <1>7, <2>1, <3>1, <4>1
        <3>2. CASE i # Len(frames)
            <4>1. i \in 1 .. Len(frames) - 1 /\ i \in 1 .. Len(frames)
                BY <1>7, <3>2
            <4>2. open[i] = frames[i] /\ Outer[i] = frames[i] /\ i \in 1 .. Len(Outer)
                BY <1>1, <1>7, <4>1, OuterCollecting
            <4>3. Collecting(Outer)
                BY <1>1, OuterCollecting
            <4> QED BY <4>1, <4>2, <4>3, FramesCounted DEF Collecting
        <3> QED BY <3>1, <3>2
    <2>6. Collecting(open)
        BY <2>5 DEF Collecting
    <2>7. bytes = key
        BY <1>9
    <2>8. output \in Seq(Byte) /\ wroteRoot \in BOOLEAN /\ 0 \in Nat /\ Owes(key, 0)
        BY DEF TypeOK, WellFormed
    <2>9. Sound(FramesPlus(open, key), OutputPlus(open, key), wroteRoot, 0)
        BY <1>7, <2>4, <2>5, <2>6, <2>8, PlusSound
    <2> QED BY <1>6, <2>7, <2>9
<1>10. CASE Top.kind = "buffered_object"
    <2>1. Buffered(Top) /\ Buffered(top)
        BY <1>4, <1>10 DEF Buffered
    <2>2. Appended(top.entries, entries, key)
        BY <1>3, <1>4, <1>10, AppendedIs, Zenon
    <2>3. /\ Len(top.entries) = n + 1
          /\ \A k \in 1 .. n : top.entries[k] = entries[k]
          /\ top.entries[n + 1].key = key /\ top.entries[n + 1].value = <<>>
        BY <2>2, Zenon DEF Appended, n
    <2>4. ASSUME NEW k \in 1 .. n
          PROVE  WellFormed(entries[k].key) /\ WellFormed(entries[k].value)
        <3>1. WellFormed(entries[k].key) /\ (k < n => WellFormed(entries[k].value))
            BY <1>5, <1>10, <2>1 DEF Settled, entries, n
        <3>2. CASE k = n
            <4>1. entries # <<>>
                BY <1>3, <3>2 DEF n
            <4> QED BY <1>5, <1>8, <2>1, <3>1, <3>2, <4>1 DEF WellFormed
        <3>3. CASE k < n
            BY <3>1, <3>3
        <3> QED BY <1>3, <3>2, <3>3
    <2>5. Settled(top)
        <3> SUFFICES ASSUME NEW k \in 1 .. n + 1
                     PROVE  /\ WellFormed(top.entries[k].key)
                            /\ k < n + 1 => WellFormed(top.entries[k].value)
                            /\ k = n + 1 => top.entries[k].value = <<>>
            BY <1>4, <1>10, <2>1, <2>3 DEF Settled
        <3>1. CASE k \in 1 .. n
            BY <1>3, <2>3, <2>4, <3>1
        <3>2. CASE k = n + 1
            BY <1>3, <2>3, <3>2
        <3> QED BY <1>3, <3>1, <3>2
    <2>6. /\ top.entries # <<>>
          /\ Owes(top.entries[Len(top.entries)].value, Awaited(top) + 0)
        <3>1. Awaited(top) + 0 = 1
            BY <1>8
        <3>2. top.entries # <<>>
            BY <1>3, <2>3
        <3> QED BY <2>3, <3>1, <3>2, NothingOwesOne
    <2>7. Sound(open, output, wroteRoot, 0)
        BY <1>1, <1>2, <1>4, <2>1, <2>5, <2>6, TopSound DEF open
    <2>8. bytes = <<>> /\ output \in Seq(Byte)
        BY <1>10 DEF TypeOK
    <2>9. FramesPlus(open, <<>>) = open /\ OutputPlus(open, <<>>) = output
        BY <1>7, <2>8, NothingPlus
    <2> QED BY <1>6, <2>7, <2>8, <2>9
<1> QED BY <1>1, <1>3, <1>9, <1>10 DEF ObjectKinds

(* Closing a container puts its item out, if it was buffered. *)
LEMMA ClosedSound ==
    ASSUME TypeOK, IInv, Sound(frames, output, wroteRoot, 0), frames # <<>>,
           NEW bytes \in Seq(Byte), Replace(bytes),
           IF Buffered(Top) THEN WellFormed(bytes) ELSE bytes = <<>> /\ Remaining(Top) = 0
    PROVE  Sound(frames, output, wroteRoot, 0)'
<1>1. Sound(Outer, output, wroteRoot, IF Buffered(Top) THEN 1 ELSE 0)
    BY OuterSound
<1>2. /\ Outer \in Seq(FrameType) /\ Good(Outer) /\ Collecting(Outer)
      /\ output \in Seq(Byte) /\ wroteRoot \in BOOLEAN
    BY OuterCollecting DEF TypeOK
<1>3. /\ frames' = FramesPlus(Outer, bytes) /\ output' = OutputPlus(Outer, bytes)
      /\ wroteRoot' = wroteRoot
    BY DEF Replace
<1>4. CASE Buffered(Top)
    <2>1. \A i \in 1 .. Len(Outer) : FrameCounted(Outer[i])
        BY <1>2 DEF Good, Counted
    <2>2. 0 \in Nat /\ Owes(bytes, 0)
        BY <1>4 DEF WellFormed
    <2>3. Sound(Outer, output, wroteRoot, 1)
        BY <1>1, <1>4
    <2>4. Sound(FramesPlus(Outer, bytes), OutputPlus(Outer, bytes), wroteRoot, 0)
        BY <1>2, <2>1, <2>2, <2>3, PlusSound
    <2> QED BY <1>3, <2>4
<1>5. CASE ~Buffered(Top)
    <2>1. Sound(Outer, output, wroteRoot, 0) /\ bytes = <<>>
        BY <1>1, <1>5
    <2>2. FramesPlus(Outer, <<>>) = Outer /\ OutputPlus(Outer, <<>>) = output
        BY <1>2, NothingPlus
    <2> QED BY <1>3, <2>1, <2>2
<1> QED BY <1>4, <1>5

(* The entries of a buffered container that awaits nothing are whole items, *)
(* and their number fits a head.                                             *)
LEMMA TopWhole ==
    ASSUME TypeOK, IInv, Sound(frames, output, wroteRoot, 0), frames # <<>>,
           Buffered(Top), ~Top.expecting
    PROVE  /\ Top.entries \in Seq(EntryType)
           /\ Fits(Len(Top.entries), 8)
           /\ \A k \in 1 .. Len(Top.entries) :
                 /\ Top.kind = "buffered_object" => WellFormed(Top.entries[k].key)
                 /\ Top.kind = "buffered_sequence" => Top.entries[k].key = <<>>
                 /\ WellFormed(Top.entries[k].value)
<1> DEFINE entries == Top.entries
           n == Len(entries)
<1>1. Top \in FrameType /\ FrameCounted(Top)
    BY TopTyped, TopIs DEF TypeOK
<1>2. /\ entries \in Seq(EntryType) /\ n \in Nat /\ Top.expected \in Nat /\ n <= Top.expected
    BY <1>1 DEF FrameType, EntryType, FrameCounted
<1>3. /\ Settled(Top) /\ Fits(Top.expected, 8)
      /\ entries # <<>> => Owes(entries[n].value, Awaited(Top))
    BY TopHolds
<1>4. Awaited(Top) = 0
    BY DEF Awaited
<1>5. Fits(n, 8)
    BY <1>2, <1>3, FitsBelow
<1>6. ASSUME NEW k \in 1 .. n
      PROVE  /\ Top.kind = "buffered_object" => WellFormed(entries[k].key)
             /\ Top.kind = "buffered_sequence" => entries[k].key = <<>>
             /\ WellFormed(entries[k].value)
    <2>1. /\ Top.kind = "buffered_object" => WellFormed(entries[k].key)
          /\ Top.kind = "buffered_sequence" => entries[k].key = <<>>
          /\ k < n => WellFormed(entries[k].value)
        BY <1>3 DEF Settled
    <2> HIDE DEF n
    <2>2. CASE k = n
        <3>1. entries # <<>>
            BY <1>2, <2>2 DEF n
        <3> QED BY <1>3, <1>4, <2>1, <2>2, <3>1 DEF WellFormed
    <2>3. CASE k < n
        BY <2>1, <2>3
    <2> QED BY <1>2, <2>2, <2>3
<1> QED BY <1>2, <1>5, <1>6

LEMMA EndSequenceSound ==
    ASSUME TypeOK, IInv, Sound(frames, output, wroteRoot, 0), EndSequenceError = "none", EndSequence
    PROVE  Sound(frames, output, wroteRoot, 0)'
<1> DEFINE item == ItemHead(4, Len(Top.entries)) \o Contents(InOrder(Top.entries, "value"))
<1>1. frames # <<>> /\ Top.kind \in SequenceKinds /\ Top.written = Top.expected
    BY DEF EndSequenceError
<1>2. Replace(IF Top.kind = "buffered_sequence" THEN item ELSE <<>>)
    BY DEF EndSequence
<1>3. Top \in FrameType /\ FrameCounted(Top)
    BY <1>1, TopTyped, TopIs DEF TypeOK
<1>4. ~Top.expecting
    BY <1>1, <1>3 DEF FrameCounted
<1>5. item \in Seq(Byte)
    BY <1>1, SortedBytes DEF Parts
<1>6. CASE Top.kind = "buffered_sequence"
    <2>1. Buffered(Top)
        BY <1>6 DEF Buffered
    <2>2. /\ Top.entries \in Seq(EntryType) /\ Fits(Len(Top.entries), 8)
          /\ \A k \in 1 .. Len(Top.entries) :
                Top.entries[k].key = <<>> /\ WellFormed(Top.entries[k].value)
        BY <1>1, <1>4, <1>6, <2>1, TopWhole
    <2>3. WellFormed(item)
        BY <2>2, SetWhole
    <2> HIDE DEF item
    <2> QED BY <1>1, <1>2, <1>5, <1>6, <2>1, <2>3, ClosedSound
<1>7. CASE Top.kind # "buffered_sequence"
    <2>1. Top.kind = "sequence" /\ ~Buffered(Top) /\ <<>> \in Seq(Byte)
        BY <1>1, <1>7 DEF SequenceKinds, Buffered
    <2>2. Remaining(Top) = 0
        BY <1>1, <1>3, <2>1 DEF Remaining, FrameType
    <2>3. Replace(<<>>)
        BY <1>2, <1>7
    <2> QED BY <1>1, <2>1, <2>2, <2>3, ClosedSound
<1> QED BY <1>6, <1>7

LEMMA EndObjectSound ==
    ASSUME TypeOK, IInv, Sound(frames, output, wroteRoot, 0), EndObjectError = "none", EndObject,
           error' = "none"
    PROVE  Sound(frames, output, wroteRoot, 0)'
<1> DEFINE item == ItemHead(5, Len(Top.entries)) \o Contents(InOrder(Top.entries, "key"))
<1>1. /\ frames # <<>> /\ Top.kind \notin SequenceKinds /\ ~Top.expecting
      /\ Top.written = Top.expected
    BY DEF EndObjectError
<1>2. Replace(IF Top.kind = "buffered_object" THEN item ELSE <<>>)
    BY DEF EndObject
<1>3. Top \in FrameType
    BY <1>1, TopTyped DEF TypeOK
<1>4. Top.kind \in ObjectKinds
    BY <1>1, <1>3 DEF FrameType
<1>5. item \in Seq(Byte)
    BY <1>1, SortedBytes DEF Parts
<1>6. CASE Top.kind = "buffered_object"
    <2>1. Buffered(Top)
        BY <1>6 DEF Buffered
    <2>2. /\ Top.entries \in Seq(EntryType) /\ Fits(Len(Top.entries), 8)
          /\ \A k \in 1 .. Len(Top.entries) :
                WellFormed(Top.entries[k].key) /\ WellFormed(Top.entries[k].value)
        BY <1>1, <1>6, <2>1, TopWhole
    <2>3. WellFormed(item)
        BY <2>2, ObjectWhole
    <2> HIDE DEF item
    <2> QED BY <1>1, <1>2, <1>5, <1>6, <2>1, <2>3, ClosedSound
<1>7. CASE Top.kind # "buffered_object"
    <2>1. Top.kind = "ordered_object" /\ ~Buffered(Top) /\ <<>> \in Seq(Byte)
        BY <1>4, <1>7 DEF ObjectKinds, Buffered
    <2>2. Remaining(Top) = 0
        BY <1>1, <1>3, <2>1 DEF Remaining, Awaited, FrameType
    <2>3. Replace(<<>>)
        BY <1>2, <1>7
    <2> QED BY <1>1, <2>1, <2>2, <2>3, ClosedSound
<1> QED BY <1>6, <1>7

-----------------------------------------------------------------------------
(* Every call keeps the story straight, or fails.                           *)

(* A call that fails leaves its message, one that succeeds leaves the last. *)
LEMMA NothingFailed ==
    ASSUME Next, error' = "none"
    PROVE  error = "none"
<1>1. ASSUME NEW bytes, NEW opened, StartValue(bytes, opened) PROVE error = "none"
    BY <1>1 DEF StartValue
<1>2. ASSUME NEW key, WriteKey(key) PROVE error = "none"
    BY <1>2 DEF WriteKey, Fail
<1>3. ~RefuseValue /\ ~Fail("unencodable")
    BY DEF RefuseValue, Fail
<1>4. CASE EndSequence
    BY <1>4 DEF EndSequence, Fail, Replace
<1>5. CASE EndObject
    BY <1>5 DEF EndObject, Fail, Replace
<1> QED
    BY <1>1, <1>2, <1>3, <1>4, <1>5, Zenon
    DEF Next, WriteScalar, BeginSequence, BeginSet, BeginObject, WriteField, WriteFieldId

LEMMA NextSound ==
    ASSUME TypeOK, IInv, Sound(frames, output, wroteRoot, 0), Next, error' = "none"
    PROVE  Sound(frames, output, wroteRoot, 0)'
<1> USE CborBounds, CborItemsWhole
<1>1. ~RefuseValue /\ ~Fail("unencodable")
    BY DEF RefuseValue, Fail
<1>2. <<>> \in Seq(Byte)
    OBVIOUS
<1>3. ASSUME NEW value \in Scalars, WriteScalar(value) PROVE Sound(frames, output, wroteRoot, 0)'
    <2>1. value \notin Unencodable /\ StartValue(Encoding[value], <<>>)
        BY <1>1, <1>3, Zenon DEF WriteScalar
    <2>2. Encoding[value] \in Seq(Byte)
        OBVIOUS
    <2>3. WellFormed(Encoding[value])
        BY <2>1
    <2> QED BY <2>1, <2>2, <2>3, ScalarSound
<1>4. ASSUME NEW size \in Sizes, BeginSequence(size) PROVE Sound(frames, output, wroteRoot, 0)'
    <2>1. StartValue(ItemHead(4, size), <<Frame("sequence", size, FALSE)>>)
        BY <1>1, <1>4, Zenon DEF BeginSequence
    <2>2. size \in Nat /\ Fits(size, 8)
        OBVIOUS
    <2>3. ItemHead(4, size) \in Seq(Byte)
        BY <2>2, ItemHeadBytes
    <2>4. Owes(ItemHead(4, size), size)
        BY <2>2, HeadsOwe
    <2>5. /\ "sequence" \in SequenceKinds \union ObjectKinds
          /\ "sequence" \notin {"buffered_sequence", "buffered_object"} /\ FALSE \in BOOLEAN
        BY DEF SequenceKinds
    <2> QED BY <2>1, <2>2, <2>3, <2>4, <2>5, OpeningSound
<1>5. ASSUME NEW size \in Sizes, BeginSet(size) PROVE Sound(frames, output, wroteRoot, 0)'
    <2>1. StartValue(<<>>, <<Frame("buffered_sequence", size, FALSE)>>)
        BY <1>1, <1>5, Zenon DEF BeginSet
    <2>2. size \in Nat /\ Fits(size, 8) /\ 1 \in Nat
        OBVIOUS
    <2>3. /\ "buffered_sequence" \in SequenceKinds \union ObjectKinds
          /\ "buffered_sequence" \in {"buffered_sequence", "buffered_object"} /\ FALSE \in BOOLEAN
        BY DEF SequenceKinds
    <2> QED BY <1>2, <2>1, <2>2, <2>3, NothingOwesOne, OpeningSound
<1>6. ASSUME NEW size \in Sizes, NEW form \in ObjectForms, BeginObject(size, form)
      PROVE  Sound(frames, output, wroteRoot, 0)'
    <2>1. size \in Nat /\ Fits(size, 8) /\ form.compact \in BOOLEAN /\ 1 \in Nat /\ 2 * size \in Nat
        OBVIOUS
    <2>2. CASE form.ordered
        <3>1. StartValue(ItemHead(5, size), <<Frame("ordered_object", size, form.compact)>>)
            BY <1>1, <1>6, <2>2, Zenon DEF BeginObject
        <3>2. ItemHead(5, size) \in Seq(Byte)
            BY <2>1, ItemHeadBytes
        <3>3. Owes(ItemHead(5, size), 2 * size)
            BY <2>1, HeadsOwe
        <3>4. /\ "ordered_object" \in SequenceKinds \union ObjectKinds /\ "ordered_object" # "sequence"
              /\ "ordered_object" \notin {"buffered_sequence", "buffered_object"}
            BY DEF ObjectKinds
        <3> QED BY <2>1, <3>1, <3>2, <3>3, <3>4, OpeningSound
    <2>3. CASE ~form.ordered
        <3>1. StartValue(<<>>, <<Frame("buffered_object", size, form.compact)>>)
            BY <1>1, <1>6, <2>3, Zenon DEF BeginObject
        <3>2. /\ "buffered_object" \in SequenceKinds \union ObjectKinds
              /\ "buffered_object" \in {"buffered_sequence", "buffered_object"}
            BY DEF ObjectKinds
        <3> QED BY <1>2, <2>1, <3>1, <3>2, NothingOwesOne, OpeningSound
    <2> QED BY <2>2, <2>3
<1>7. ASSUME NEW key \in Seq(Byte), WellFormed(key), WriteKey(key)
      PROVE  Sound(frames, output, wroteRoot, 0)'
    <2>1. KeyError = "none"
        BY <1>7 DEF WriteKey, Fail
    <2> QED BY <1>7, <2>1, KeySound
<1>8. ASSUME NEW name \in Names PROVE TextItem(Text[name]) \in Seq(Byte) /\ WellFormed(TextItem(Text[name]))
    <2>1. Text[name] \in Seq(Byte) /\ Fits(Len(Text[name]), 8)
        OBVIOUS
    <2> QED BY <2>1, TextItemBytes, TextWellFormed
<1>9. ASSUME NEW name \in Names, WriteField(name) PROVE Sound(frames, output, wroteRoot, 0)'
    BY <1>7, <1>8, <1>9 DEF WriteField
<1>10. ASSUME NEW name \in Names, NEW id \in Ids, WriteFieldId(name, id)
       PROVE  Sound(frames, output, wroteRoot, 0)'
    <2>1. id \in Nat /\ Fits(id, 8) /\ 0 \in 0 .. 7
        OBVIOUS
    <2>2. ItemHead(0, id) \in Seq(Byte) /\ WellFormed(ItemHead(0, id))
        BY <2>1, ItemHeadBytes, HeadsOwe
    <2>3. CASE frames # <<>> /\ Top.compact
        BY <1>7, <1>10, <2>2, <2>3 DEF WriteFieldId
    <2>4. CASE ~(frames # <<>> /\ Top.compact)
        BY <1>7, <1>8, <1>10, <2>4 DEF WriteFieldId
    <2> QED BY <2>3, <2>4
<1>11. CASE EndSequence
    <2>1. EndSequenceError = "none"
        BY <1>11 DEF EndSequence, Fail
    <2> QED BY <1>11, <2>1, EndSequenceSound
<1>12. CASE EndObject
    <2>1. EndObjectError = "none"
        BY <1>12 DEF EndObject, Fail
    <2> QED BY <1>12, <2>1, EndObjectSound
<1> QED BY <1>3, <1>4, <1>5, <1>6, <1>9, <1>10, <1>11, <1>12, Zenon DEF Next

LEMMA NextItemsKept == ItemsKept /\ [Next]_cborVars => ItemsKept'
<1> SUFFICES ASSUME ItemsKept, [Next]_cborVars PROVE ItemsKept'
    OBVIOUS
<1>1. TypeOK /\ IInv /\ TypeOK' /\ IInv'
    BY NextTypeOK, NextIInv, Zenon DEF ItemsKept
<1>2. ASSUME error' = "none" PROVE Sound(frames, output, wroteRoot, 0)'
    <2>1. CASE Next
        <3>1. error = "none"
            BY <1>2, <2>1, NothingFailed
        <3>2. Sound(frames, output, wroteRoot, 0)
            BY <3>1 DEF ItemsKept
        <3> QED BY <1>1, <1>2, <2>1, <3>2, NextSound
    <2>2. CASE UNCHANGED cborVars
        <3>1. /\ frames' = frames /\ output' = output /\ wroteRoot' = wroteRoot /\ error' = error
            BY <2>2 DEF cborVars
        <3>2. Sound(frames, output, wroteRoot, 0)
            BY <1>2, <3>1 DEF ItemsKept
        <3> QED BY <3>1, <3>2
    <2> QED BY <2>1, <2>2
<1> QED BY <1>1, <1>2, Zenon DEF ItemsKept

LEMMA InitItemsKept == Init => ItemsKept
<1> SUFFICES ASSUME Init PROVE ItemsKept
    OBVIOUS
<1>1. frames = <<>> /\ output = <<>> /\ wroteRoot = FALSE /\ error = "none"
    BY DEF Init
<1>2. IInv
    BY InitIInv
<1>3. TypeOK
    <2>1. <<>> \in Seq(FrameType) /\ <<>> \in Seq(Byte) /\ "none" \in Message
        BY DEF Message
    <2> QED BY <1>1, <2>1 DEF TypeOK
<1>4. Sound(frames, output, wroteRoot, 0)
    <2> DEFINE due == [i \in 0 .. 0 |-> 1]
               into == [i \in 0 .. 0 |-> 0]
    <2>1. due[0] = 1 /\ into[0] = 0 /\ Len(frames) = 0 /\ 0 .. 0 - 1 = {} /\ due[0] + 0 = 1
        BY <1>1
    <2> HIDE DEF due, into
    <2>2. Debts(frames, wroteRoot, due, into) /\ AllSettled(frames)
        BY <1>1, <2>1 DEF Debts, AllSettled
    <2>3. Owed(frames, output, due, into, 0)
        BY <1>1, <2>1, NothingOwesOne DEF Owed, Held
    <2> QED BY <2>2, <2>3 DEF Sound
<1> QED BY <1>2, <1>3, <1>4 DEF ItemsKept

-----------------------------------------------------------------------------
LEMMA FinishedWhole ==
    ASSUME Sound(frames, output, wroteRoot, 0), Finished
    PROVE  WellFormed(output)
<1>1. PICK due, into : Debts(frames, wroteRoot, due, into) /\ Owed(frames, output, due, into, 0)
    BY DEF Sound
<1>2. Len(frames) = 0 /\ due[0] = 0 /\ into[0] = 0
    BY <1>1 DEF Debts, Finished
<1>3. Fillable(frames, into[Len(frames)]) /\ due[Len(frames)] + 0 = 0
    BY <1>2 DEF Fillable
<1>4. Owes(Held(frames, output, into[Len(frames)]), due[Len(frames)] + 0)
    BY <1>1, <1>3 DEF Owed
<1>5. Held(frames, output, into[Len(frames)]) = output
    BY <1>2 DEF Held
<1> QED BY <1>3, <1>4, <1>5 DEF WellFormed

LEMMA EntryWhole ==
    ASSUME TypeOK, IInv, Sound(frames, output, wroteRoot, 0),
           NEW i \in 1 .. Len(frames), NEW k \in 1 .. Len(frames[i].entries)
    PROVE  /\ frames[i].kind = "buffered_object" => WellFormed(frames[i].entries[k].key)
           /\ ~(k = Len(frames[i].entries) /\ (i < Len(frames) \/ frames[i].expecting)) =>
                  WellFormed(frames[i].entries[k].value)
           /\ frames[i].expecting /\ k = Len(frames[i].entries) =>
                  frames[i].entries[k].value = <<>>
<1> DEFINE last == Len(frames)
           entries == frames[i].entries
           n == Len(entries)
<1>1. /\ frames[i] \in FrameType /\ last \in Nat /\ i \in Int
      /\ (~(i < last) => i = last /\ frames # <<>>)
    BY DEF TypeOK
<1>2. entries \in Seq(EntryType) /\ n \in Nat /\ (~(k < n) => k = n) /\ entries # <<>>
    BY <1>1 DEF FrameType, EntryType
<1>3. Settled(frames[i])
    BY DEF Sound, AllSettled
<1>4. Buffered(frames[i])
    BY <1>2, <1>3 DEF Settled
<1>5. /\ frames[i].kind = "buffered_object" => WellFormed(entries[k].key)
      /\ k < n => WellFormed(entries[k].value)
      /\ k = n /\ frames[i].expecting => entries[k].value = <<>>
    BY <1>3, <1>4 DEF Settled
<1>6. ASSUME k = n, ~(i < last), ~frames[i].expecting
      PROVE  WellFormed(entries[k].value)
    <2>1. i = last /\ frames # <<>> /\ Top = frames[i]
        BY <1>1, <1>6 DEF Top
    <2>2. Owes(entries[n].value, Awaited(frames[i]))
        BY <1>2, <1>4, <2>1, TopHolds
    <2> QED BY <1>6, <2>2 DEF WellFormed, Awaited
<1> HIDE DEF last, entries, n
<1>7. ~(k = n /\ (i < last \/ frames[i].expecting)) => WellFormed(entries[k].value)
    BY <1>2, <1>5, <1>6, Zenon
<1> QED BY <1>5, <1>7 DEF last, entries, n

(* Whatever a codec calls and however deep it nests, until a call fails every *)
(* entry that CborWriter buffers is a whole item apart from the one it fills, *)
(* and a finished document is exactly one well-formed item: every head counts *)
(* what follows it, sorting moves whole items, and what is written inside a   *)
(* buffered container comes out again in its place.                           *)
THEOREM CborEntriesWhole == Spec => []EntriesWhole
<1>1. ItemsKept => EntriesWhole
    <2> SUFFICES ASSUME ItemsKept, error = "none"
                 PROVE  /\ Finished => WellFormed(output)
                        /\ \A i \in DOMAIN frames : \A k \in DOMAIN frames[i].entries :
                              /\ frames[i].kind = "buffered_object" => WellFormed(frames[i].entries[k].key)
                              /\ ~(/\ k = Len(frames[i].entries)
                                   /\ (i < Len(frames) \/ frames[i].expecting)) =>
                                     WellFormed(frames[i].entries[k].value)
                              /\ frames[i].expecting /\ k = Len(frames[i].entries) =>
                                     frames[i].entries[k].value = <<>>
        BY Zenon DEF EntriesWhole
    <2>1. TypeOK /\ IInv /\ Sound(frames, output, wroteRoot, 0)
        BY DEF ItemsKept
    <2>2. DOMAIN frames = 1 .. Len(frames)
        BY <2>1 DEF TypeOK
    <2>3. ASSUME NEW i \in 1 .. Len(frames)
          PROVE  DOMAIN frames[i].entries = 1 .. Len(frames[i].entries)
        <3>1. frames[i] \in FrameType
            BY <2>1 DEF TypeOK
        <3> QED BY <3>1 DEF FrameType
    <2> QED BY <2>1, <2>2, <2>3, FinishedWhole, EntryWhole, Zenon
<1> QED BY <1>1, InitItemsKept, NextItemsKept, PTL DEF Spec

=============================================================================
