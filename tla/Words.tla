------------------------------- MODULE Words -------------------------------
(***************************************************************************)
(* Integers of up to 64 bits and more, exactly: the machine's integers as  *)
(* their bytes, most significant first, in two's complement when signed,   *)
(* and the mathematical integers they stand for.                           *)
(***************************************************************************)
EXTENDS Naturals, Sequences

Zeros(n) == [i \in 1 .. n |-> 0]
Complement(word) == [i \in DOMAIN word |-> 255 - word[i]]

(* Without its leading zeros. *)
RECURSIVE Stripped(_)
Stripped(bytes) ==
    IF bytes # <<>> /\ Head(bytes) = 0 THEN Stripped(Tail(bytes)) ELSE bytes

(* The integer n for negative = FALSE and -1 - n for TRUE, where n is what    *)
(* the bytes of the argument spell: CBOR's major types 0 and 1, and, as     *)
(* decimal numerals are exact, what a numeral says in JSON and DSON.        *)
Exactly(negative, bytes) == [negative |-> negative, argument |-> Stripped(bytes)]

IsNegative(word) == word[1] >= 128

OfSigned(word) ==
    IF IsNegative(word) THEN Exactly(TRUE, Complement(word)) ELSE Exactly(FALSE, word)
OfUnsigned(word) == Exactly(FALSE, word)

FitsUnsigned(integer) == ~integer.negative /\ Len(integer.argument) <= 8
FitsSigned(integer) ==
    \/ Len(integer.argument) < 8
    \/ Len(integer.argument) = 8 /\ integer.argument[1] < 128

(* Conversions between widths: i64(value), u64(value), i8(value), ... *)
ZeroExtended(bytes) == Zeros(8 - Len(bytes)) \o bytes
SignExtended(bytes) ==
    IF IsNegative(bytes) THEN Complement(Zeros(8 - Len(bytes))) \o bytes ELSE ZeroExtended(bytes)
LowBytes(word, n) == SubSeq(word, 9 - n, 8)

(* The word of an integer that fits. *)
AsWord(integer) ==
    LET word == ZeroExtended(integer.argument)
    IN  IF integer.negative THEN Complement(word) ELSE word

(* Comparisons of words, as unsigned numbers and in two's complement. *)
AtMost(left, right) ==
    \/ left = right
    \/ \E i \in DOMAIN left :
          /\ left[i] < right[i]
          /\ \A j \in 1 .. i - 1 : left[j] = right[j]
SignedAtMost(left, right) ==
    IF IsNegative(left) = IsNegative(right) THEN AtMost(left, right) ELSE IsNegative(left)

=============================================================================
