--------------------------- MODULE SequenceFacts ---------------------------
(* What the proofs need to know of joining, extending and shortening a      *)
(* sequence, and induction and recursion over the natural numbers.  The     *)
(* library states induction for an arbitrary predicate P(_), which the      *)
(* provers cannot instantiate; stated for a set, it needs no operator.      *)
EXTENDS Integers, Sequences, SequenceTheorems, WellFoundedInduction, TLAPS

(* A sequence is the function from its positions to its elements. *)
LEMMA SeqIsFunction ==
    ASSUME NEW S, NEW seq \in Seq(S)
    PROVE  seq = [i \in 1 .. Len(seq) |-> seq[i]]
OBVIOUS

(* A function on an initial segment of the positions is a sequence. *)
LEMMA FunctionIsSeq ==
    ASSUME NEW S, NEW n \in Nat, NEW f \in [1 .. n -> S]
    PROVE  f \in Seq(S) /\ Len(f) = n
OBVIOUS

(* The last element of a join is the last of its right part. *)
LEMMA LastOfJoin ==
    ASSUME NEW S, NEW left \in Seq(S), NEW right \in Seq(S), right # <<>>
    PROVE  /\ left \o right \in Seq(S)
           /\ left \o right # <<>>
           /\ (left \o right)[Len(left \o right)] = right[Len(right)]
<1>1. Len(right) \in 1 .. Len(right)
    OBVIOUS
<1>2. /\ left \o right \in Seq(S)
      /\ Len(left \o right) = Len(left) + Len(right)
      /\ (left \o right)[Len(left) + Len(right)] = right[Len(right)]
    BY <1>1
<1> QED BY <1>1, <1>2

(* All elements of a sequence but the last. *)
LEMMA FrontOf ==
    ASSUME NEW S, NEW seq \in Seq(S), seq # <<>>
    PROVE  /\ SubSeq(seq, 1, Len(seq) - 1) \in Seq(S)
           /\ Len(SubSeq(seq, 1, Len(seq) - 1)) = Len(seq) - 1
           /\ \A i \in 1 .. Len(seq) - 1 : SubSeq(seq, 1, Len(seq) - 1)[i] = seq[i]
<1> DEFINE n == Len(seq) - 1
           front == SubSeq(seq, 1, n)
<1>1. n \in Nat /\ \A i \in 1 .. n : seq[i] \in S
    OBVIOUS
<1> HIDE DEF n
<1>2. /\ front \in Seq(S)
      /\ Len(front) = IF 1 <= n THEN n - 1 + 1 ELSE 0
      /\ \A i \in 1 .. n - 1 + 1 : front[i] = seq[1 + i - 1]
    BY <1>1, SubSeqProperties
<1> HIDE DEF front
<1>3. Len(front) = n
    BY <1>1, <1>2
<1>4. \A i \in 1 .. n : front[i] = seq[i]
    BY <1>1, <1>2
<1> QED BY <1>2, <1>3, <1>4 DEF n, front

(* What a sequence pushed onto is. *)
LEMMA PushIs ==
    ASSUME NEW S, NEW seq \in Seq(S), NEW last \in S
    PROVE  /\ seq \o <<last>> \in Seq(S)
           /\ Len(seq) \in Nat
           /\ Len(seq \o <<last>>) = Len(seq) + 1
           /\ \A i \in 1 .. Len(seq) : (seq \o <<last>>)[i] = seq[i]
           /\ (seq \o <<last>>)[Len(seq) + 1] = last
OBVIOUS

(* Joining is associative. *)
LEMMA JoinTwice ==
    ASSUME NEW S, NEW one \in Seq(S), NEW two \in Seq(S), NEW three \in Seq(S)
    PROVE  /\ two \o three \in Seq(S)
           /\ one \o two \o three = one \o (two \o three)
OBVIOUS

(* Joining four sequences, the first with the rest or with what follows. *)
LEMMA JoinFour ==
    ASSUME NEW S, NEW one \in Seq(S), NEW two \in Seq(S), NEW three \in Seq(S), NEW four \in Seq(S)
    PROVE  /\ one \o two \o three \in Seq(S)
           /\ one \o two \o three \o four = one \o (two \o three \o four)
<1>1. /\ one \o two \o three = one \o (two \o three)
      /\ two \o three \in Seq(S)
    BY JoinTwice
<1> DEFINE inner == two \o three
<1>2. inner \in Seq(S) /\ one \o two \o three = one \o inner
    BY <1>1
<1> HIDE DEF inner
<1>3. one \o inner \in Seq(S) /\ one \o inner \o four = one \o (inner \o four)
    BY <1>2, JoinTwice
<1> QED BY <1>2, <1>3, Zenon DEF inner

(* The same, named, so that a proof can say which three it means. *)
Joins(S, one, two, three) ==
    /\ two \o three \in Seq(S)
    /\ one \o two \o three = one \o (two \o three)

LEMMA AnyThreeJoin ==
    ASSUME NEW S, NEW one \in Seq(S), NEW two \in Seq(S), NEW three \in Seq(S)
    PROVE  Joins(S, one, two, three)
BY JoinTwice DEF Joins

(* Extending a sequence by one element, in its two spellings. *)
LEMMA AppendIs ==
    ASSUME NEW S, NEW seq \in Seq(S), NEW last \in S
    PROVE  /\ Append(seq, last) = [i \in 1 .. Len(seq) + 1 |-> IF i <= Len(seq) THEN seq[i] ELSE last]
           /\ seq \o <<last>> = Append(seq, last)
<1> DEFINE f == [i \in 1 .. Len(seq) + 1 |-> IF i <= Len(seq) THEN seq[i] ELSE last]
<1>1. Append(seq, last) \in Seq(S) /\ Len(Append(seq, last)) = Len(seq) + 1
    OBVIOUS
<1>2. \A i \in 1 .. Len(seq) + 1 : Append(seq, last)[i] = f[i]
    OBVIOUS
<1>3. Append(seq, last) = [i \in 1 .. Len(seq) + 1 |-> Append(seq, last)[i]]
    BY <1>1, SeqIsFunction, Zenon
<1>4. Append(seq, last) = f
    BY <1>2, <1>3
<1>5. /\ seq \o <<last>> \in Seq(S) /\ Len(seq \o <<last>>) = Len(seq) + 1
      /\ \A i \in 1 .. Len(seq) + 1 : (seq \o <<last>>)[i] = f[i]
    OBVIOUS
<1>6. seq \o <<last>> = [i \in 1 .. Len(seq) + 1 |-> (seq \o <<last>>)[i]]
    BY <1>5
<1> QED BY <1>4, <1>5, <1>6

-----------------------------------------------------------------------------
(* A set of natural numbers has a least element. *)
LEMMA LeastOf ==
    ASSUME NEW T \in SUBSET Nat, T # {}
    PROVE  \E n \in T : \A m \in T : n <= m
<1> DEFINE R == OpToRel(<, Nat)
<1>1. IsWellFoundedOn(R, Nat)
    BY NatLessThanWellFounded, Zenon
<1>2. \A x, y \in Nat : x < y => <<x, y>> \in R
    BY DEF OpToRel
<1> HIDE DEF R
<1>3. PICK n \in T : \A m \in T : ~(<<m, n>> \in R)
    BY <1>1, WFMin
<1>4. \A m \in T : ~(m < n)
    BY <1>2, <1>3
<1> QED BY <1>4

(* Induction: for a property, T is the set of numbers that have it. *)
LEMMA Induction ==
    ASSUME NEW T, 0 \in T, \A n \in Nat : n \in T => n + 1 \in T
    PROVE  Nat \subseteq T
<1> SUFFICES ASSUME Nat \ T # {} PROVE FALSE
    OBVIOUS
<1>1. PICK n \in Nat \ T : \A m \in Nat \ T : n <= m
    BY LeastOf
<1>2. n # 0 /\ n - 1 \in Nat /\ n - 1 \in T
    BY <1>1
<1>3. (n - 1) + 1 \in T
    BY <1>2
<1> QED BY <1>1, <1>3

(* Induction from all smaller numbers. *)
LEMMA StrongInduction ==
    ASSUME NEW T, \A n \in Nat : (\A m \in 0 .. n - 1 : m \in T) => n \in T
    PROVE  Nat \subseteq T
<1> SUFFICES ASSUME Nat \ T # {} PROVE FALSE
    OBVIOUS
<1>1. PICK n \in Nat \ T : \A m \in Nat \ T : n <= m
    BY LeastOf
<1>2. \A m \in 0 .. n - 1 : m \in T
    BY <1>1
<1> QED BY <1>1, <1>2

(* Induction up to a bound. *)
LEMMA BoundedInduction ==
    ASSUME NEW last \in Nat, NEW T, 0 \in T,
           \A n \in 0 .. last - 1 : n \in T => n + 1 \in T
    PROVE  0 .. last \subseteq T
<1> DEFINE U == {n \in Nat : n <= last => n \in T}
<1>1. 0 \in U
    OBVIOUS
<1>2. \A n \in Nat : n \in U => n + 1 \in U
    OBVIOUS
<1> HIDE DEF U
<1>3. Nat \subseteq U
    BY <1>1, <1>2, Induction
<1> QED BY <1>3 DEF U

(* f starts with `first`, and `step` gives each next value up to k. *)
Steps(f, k, first, step) ==
    \A n \in 0 .. k : f[n] = IF n = 0 THEN first ELSE step[<<f[n - 1], n>>]

(* Primitive recursion over 0 .. last. *)
LEMMA Recursion ==
    ASSUME NEW last \in Nat, NEW S, NEW first \in S, NEW step \in [S \X (1 .. last) -> S]
    PROVE  \E f \in [0 .. last -> S] : Steps(f, last, first, step)
<1> DEFINE Builds(f, k) == Steps(f, k, first, step)
           T == {k \in Nat : \E f \in [0 .. last -> S] : Builds(f, k)}
<1> USE DEF Steps
<1>1. 0 \in T
    <2> DEFINE f == [n \in 0 .. last |-> first]
    <2>1. f \in [0 .. last -> S] /\ Builds(f, 0)
        OBVIOUS
    <2> HIDE DEF Builds, f
    <2> QED BY <2>1
<1>2. ASSUME NEW k \in 0 .. last - 1, k \in T PROVE k + 1 \in T
    <2>1. PICK f \in [0 .. last -> S] : Builds(f, k)
        BY <1>2
    <2> DEFINE g == [n \in 0 .. last |-> IF n <= k THEN f[n] ELSE step[<<f[k], k + 1>>]]
    <2>2. step[<<f[k], k + 1>>] \in S
        <3>1. <<f[k], k + 1>> \in S \X (1 .. last)
            BY <1>2, <2>1
        <3> QED BY <3>1
    <2>3. g \in [0 .. last -> S]
        BY <2>1, <2>2
    <2>4. ASSUME NEW n \in 0 .. k + 1
          PROVE  g[n] = IF n = 0 THEN first ELSE step[<<g[n - 1], n>>]
        <3>1. CASE n <= k
            <4>1. n \in 0 .. k /\ g[n] = f[n] /\ (n # 0 => g[n - 1] = f[n - 1])
                BY <1>2, <3>1
            <4>2. f[n] = IF n = 0 THEN first ELSE step[<<f[n - 1], n>>]
                BY <2>1, <4>1
            <4> HIDE DEF g
            <4> QED BY <4>1, <4>2
        <3>2. CASE n = k + 1
            <4>1. n # 0 /\ g[n] = step[<<f[k], k + 1>>] /\ g[n - 1] = f[k]
                BY <1>2, <3>2
            <4> QED BY <3>2, <4>1
        <3> QED BY <1>2, <3>1, <3>2
    <2> HIDE DEF g
    <2> QED BY <1>2, <2>3, <2>4
<1> HIDE DEF T
<1>3. 0 .. last \subseteq T
    BY <1>1, <1>2, BoundedInduction
<1> QED BY <1>3 DEF T

-----------------------------------------------------------------------------
(* A sequence, of whatever elements: trees have no type to quantify over. *)
IsSequence(seq) == seq \in Seq({seq[i] : i \in DOMAIN seq})

LEMMA SeqIsSequence == ASSUME NEW S, NEW seq \in Seq(S) PROVE IsSequence(seq)
BY DEF IsSequence

LEMMA SequenceIsFunction ==
    ASSUME NEW seq, IsSequence(seq)
    PROVE  Len(seq) \in Nat /\ DOMAIN seq = 1 .. Len(seq)
BY DEF IsSequence

LEMMA FunctionIsSequence ==
    ASSUME NEW n \in Nat, NEW f, f = [i \in 1 .. n |-> f[i]]
    PROVE  IsSequence(f) /\ Len(f) = n
<1> DEFINE S == {f[i] : i \in DOMAIN f}
<1>1. f \in [1 .. n -> S]
    OBVIOUS
<1> QED BY <1>1, FunctionIsSeq DEF IsSequence

LEMMA Pushed ==
    ASSUME NEW seq, IsSequence(seq), NEW last
    PROVE  /\ IsSequence(Append(seq, last))
           /\ Len(Append(seq, last)) = Len(seq) + 1
           /\ \A i \in 1 .. Len(seq) : Append(seq, last)[i] = seq[i]
           /\ Append(seq, last)[Len(seq) + 1] = last
<1> DEFINE S == {seq[i] : i \in DOMAIN seq} \union {last}
<1>1. seq \in Seq(S) /\ last \in S
    BY DEF IsSequence
<1> HIDE DEF S
<1>2. Append(seq, last) \in Seq(S)
    BY <1>1
<1>3. IsSequence(Append(seq, last))
    BY <1>2, SeqIsSequence, Zenon
<1>4. /\ Len(Append(seq, last)) = Len(seq) + 1
      /\ \A i \in 1 .. Len(seq) : Append(seq, last)[i] = seq[i]
      /\ Append(seq, last)[Len(seq) + 1] = last
    BY <1>1
<1> QED BY <1>3, <1>4

LEMMA Popped ==
    ASSUME NEW seq, IsSequence(seq), seq # <<>>
    PROVE  /\ IsSequence(SubSeq(seq, 1, Len(seq) - 1))
           /\ Len(SubSeq(seq, 1, Len(seq) - 1)) = Len(seq) - 1
           /\ \A i \in 1 .. Len(seq) - 1 : SubSeq(seq, 1, Len(seq) - 1)[i] = seq[i]
<1> DEFINE S == {seq[i] : i \in DOMAIN seq}
<1>1. seq \in Seq(S)
    BY DEF IsSequence
<1> HIDE DEF S
<1> QED BY <1>1, FrontOf, SeqIsSequence

LEMMA LastReplaced ==
    ASSUME NEW seq, IsSequence(seq), seq # <<>>, NEW last
    PROVE  /\ IsSequence([seq EXCEPT ![Len(seq)] = last])
           /\ Len([seq EXCEPT ![Len(seq)] = last]) = Len(seq)
           /\ \A i \in 1 .. Len(seq) - 1 : [seq EXCEPT ![Len(seq)] = last][i] = seq[i]
           /\ [seq EXCEPT ![Len(seq)] = last][Len(seq)] = last
<1> DEFINE f == [seq EXCEPT ![Len(seq)] = last]
<1>1. Len(seq) \in Nat \ {0} /\ DOMAIN seq = 1 .. Len(seq)
    <2>1. seq \in Seq({seq[i] : i \in DOMAIN seq})
        BY DEF IsSequence
    <2> QED BY <2>1
<1>2. f = [i \in 1 .. Len(seq) |-> f[i]]
    BY <1>1
<1>3. IsSequence(f) /\ Len(f) = Len(seq)
    BY <1>1, <1>2, FunctionIsSequence
<1> QED BY <1>1, <1>3

=============================================================================
