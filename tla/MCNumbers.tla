----------------------------- MODULE MCNumbers -----------------------------
(* Integers at and around every boundary of every width, and floats at and   *)
(* around those of half and single precision.                               *)
EXTENDS Numbers, FiniteSets

(* So many equal bytes, one that matters, equal bytes again. *)
Patterns(n) ==
    {[i \in 1 .. n |-> IF i < at THEN before ELSE IF i = at THEN byte ELSE after] :
        at \in 1 .. n, before \in {0, 255}, after \in {0, 255},
        byte \in {0, 1, 23, 24, 127, 128, 254, 255}}

Significands == {0, 1, 3, 1023, 1025, 2047, 2049, 2^24 - 1, 2^24 + 1, 2^29 + 1}
Powers == {-1074, -160, -150, -149, -148, -127, -126, -125, -37, -36, -35, -34, -26, -25, -24,
           -23, -15, -14, -13, -11, -10, -1, 0, 1, 4, 5, 6, 14, 15, 16, 103, 104, 105, 127, 128,
           900}
Doubles ==
    {Fraction(negative, mantissa, power) :
        negative \in BOOLEAN, mantissa \in Significands, power \in Powers}
    \union {Infinite(FALSE), Infinite(TRUE), NotANumber}

MCIntegral ==
    UNION {{Native(type, word) : word \in Patterns(Width[type])} :
              type \in SignedTypes \union UnsignedTypes}

MCFractional ==
    {Native("f64", x) : x \in Doubles}
    \union {Native("f32", x) : x \in {y \in Doubles : IsSingle(y) \/ ~IsFinite(y)}}

Says(says, as) == [says |-> says, as |-> as]

(* A source that no reader should take. *)
Malformed == [is |-> "malformed"]

Integers ==
    {Exactly(negative, bytes) : negative \in BOOLEAN,
        bytes \in {<<>>, <<5>>, <<1>> \o Zeros(7), <<128>> \o Zeros(7), <<127>> \o Complement(Zeros(7)),
                   Complement(Zeros(8)), <<1>> \o Zeros(8)}}

(* The integer in its shortest item and in longer ones. *)
LongItems(integer) ==
    {<<32 * major + head[1]>> \o SubSeq(ZeroExtended(integer.argument), 9 - head[2], 8) :
        major \in {IF integer.negative THEN 1 ELSE 0},
        head \in {h \in {<<24, 1>>, <<25, 2>>, <<26, 4>>, <<27, 8>>} : Len(integer.argument) <= h[2]}}

MCForeign ==
    {Says(n, IntegerNumeral("json", "plain", n)) : n \in Integers}
    \union {Says(Exactly(FALSE, <<>>), Numeral("json", "plain", TRUE, Exactly(FALSE, <<>>)))}
    \union {Says(n, IntegerNumeral("dson", "i64", n)) : n \in {m \in Integers : FitsSigned(m)}}
    \union {Says(n, IntegerNumeral("dson", "u64", n)) : n \in {m \in Integers : FitsUnsigned(m)}}
    \union {Says(Exactly(FALSE, <<>>), Numeral("dson", "i64", TRUE, Exactly(FALSE, <<>>)))}
    \union {Says(Malformed, IntegerNumeral("dson", "i64", n)) :
               n \in {m \in Integers : ~FitsSigned(m)}}
    \union {Says(Malformed, IntegerNumeral("dson", "u64", n)) :
               n \in {m \in Integers : ~FitsUnsigned(m)}}
    \union {Says(Malformed, Numeral("dson", "u64", TRUE, Exactly(FALSE, <<>>))),
            Says(Malformed, FloatNumeral("json", Infinite(FALSE))),
            Says(Malformed, FloatNumeral("dson", Infinite(TRUE)))}
    \union {Says(Nearest(Exactly(FALSE, <<5>>)), Numeral("dson", "f64", FALSE, Exactly(FALSE, <<5>>)))}
    \union UNION {{Says(n, Bytes(item)) : item \in LongItems(n)} :
                     n \in {m \in Integers : Len(m.argument) <= 8}}
    \union {Says(HalfValue(256 * high + low), Bytes(<<249, high, low>>)) :
               high \in 0 .. 255, low \in {0, 1, 255}}
    \union {Says(SingleValue(bytes), Bytes(<<250>> \o bytes)) :
               bytes \in {<<0, 0, 0, 1>>, <<128, 127, 255, 255>>, <<71, 128, 0, 0>>,
                          <<127, 127, 255, 255>>, <<255, 128, 0, 0>>, <<127, 192, 0, 0>>}}

-----------------------------------------------------------------------------
(* Properties. *)

(* What a form of the number says, by the definition of its format. *)
SaidBy(form) ==
    CASE form.at = "value" /\ form.is = "I64" -> OfSigned(form.of)
      [] form.at = "value" /\ form.is = "U64" -> OfUnsigned(form.of)
      [] form.at = "value" /\ form.is = "F64" -> form.of
      [] form.at = "json" -> form.of
      [] form.at = "dson" -> IF form.is = "f64" /\ IsInteger(form.of) THEN Nearest(form.of) ELSE form.of
      [] form.at = "cbor" ->
             IF form.of[1] \in 249 .. 251 THEN FloatOf(form.of)
             ELSE Exactly(form.of[1] >= 32,
                          IF Len(form.of) = 1 THEN <<form.of[1] % 32>> ELSE Tail(form.of))

(* docs/direct-wire-plan.md: "preserve exact integer range checking" and     *)
(* "Preserve exact signed, unsigned, and floating categories."  Whichever    *)
(* formats a number passes through, parsed into a Value and printed again,   *)
(* it stays the same number to the last bit, an integer an integer and a     *)
(* float a float, a negative zero negative.                                 *)
NumberKept ==
    (number.at \in Formats \union {"value"} /\ origin # Malformed) => SaidBy(number) = origin

Has64Bits(integer) == FitsSigned(integer) \/ FitsUnsigned(integer)

(* Does the number belong to the type?  Its bits decide, not its spelling.   *)
(* Floats take integers, too, from JSON of any size; a Value may hold what   *)
(* no format can, infinities and not-a-number.                              *)
Belongs(type) ==
    IF type \in FloatTypes
    THEN IF IsInteger(origin) THEN Has64Bits(origin) \/ number.at = "json"
         ELSE IsFinite(origin) \/ number.at = "value"
    ELSE /\ IsInteger(origin)
         /\ Len(origin.argument) <= Width[type]
         /\ type \in UnsignedTypes => ~origin.negative
         /\ (type \in SignedTypes /\ Len(origin.argument) = Width[type])
                => origin.argument[1] < 128

TheNumber(read) ==
    CASE read.is \in SignedTypes -> OfSigned(SignExtended(read.of)) = origin
      [] read.is \in UnsignedTypes -> OfUnsigned(read.of) = origin
      [] read.is \in FloatTypes ->
             LET x == IF IsInteger(origin) THEN Nearest(origin) ELSE origin
             IN  read.of = IF read.is = "f64" \/ IsSingle(x) THEN x
                           ELSE [is |-> "narrowed", of |-> x]

(* docs/dson.md: "Decoding checks the exact destination range."  A type      *)
(* reads the number if and only if it belongs to the type, and gets it, from *)
(* every format and from a Value, whichever calls have made the form it is   *)
(* read from.                                                               *)
LoadsExactly ==
    [][ \A type \in Types :
          (Loads(type) /\ origin # Malformed) =>
              /\ number'.at = IF Belongs(type) THEN "read" ELSE "refused"
              /\ number'.at = "read" => TheNumber(number') ]_numberVars

(* docs/architecture.md: "Formats and dynamic trees are peer backends."     *)
(* On the sources of this run loads_value refuses the numbers that no type  *)
(* can read, and of the others only JSON integers of more than 64 bits,     *)
(* which loads reads as floats (tests/json_main.dd has loads_value refuse   *)
(* them).  Numerals that underflow, which may part too, are not among them.  *)
DynamicAgrees ==
    [][ LoadsValue =>
          \/ number'.at = "value" <=> \E type \in Types : ReadAs(type, number).at = "read"
          \/ /\ number.at = "json" /\ IsInteger(number.of)
             /\ ~Has64Bits(number.of)
             /\ \A type \in Types :
                    ReadAs(type, number).at = "read" <=> type \in FloatTypes ]_numberVars

(* docs/dson.md: "Preferred integer and length encodings are used."  The     *)
(* bytes that are written are the fewest that say the number.               *)
PreferredLength ==
    IF IsInteger(origin)
    THEN IF origin.argument = <<>> \/ (Len(origin.argument) = 1 /\ origin.argument[1] < 24) THEN 1
         ELSE 1 + (CHOOSE n \in {1, 2, 4, 8} :
                      /\ Len(origin.argument) <= n
                      /\ \A m \in {1, 2, 4, 8} : Len(origin.argument) <= m => n <= m)
    ELSE PreferredWidth(origin)

PreferredEncodings ==
    [][ (number'.at = "cbor" /\ number' # number) =>
          PreferredLength = IF number'.of[1] = 251 THEN 9 ELSE Len(number'.of) ]_numberVars

=============================================================================
