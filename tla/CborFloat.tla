----------------------------- MODULE CborFloat -----------------------------
(***************************************************************************)
(* Floating-point numbers as exact binary fractions, and their encodings   *)
(* in CBOR: CborWriter::write_f64 and float_to_half, CborReader::get_f64   *)
(* and half_to_double.  The 64 bits of a double are kept as the number     *)
(* they encode; those of single and half precision are computed.           *)
(***************************************************************************)
EXTENDS Integers, Sequences, Words

Floating(is, negative, mantissa, power) ==
    [is |-> is, negative |-> negative, mantissa |-> mantissa, power |-> power]

(* mantissa * 2^power, with an odd mantissa or none. *)
RECURSIVE Fraction(_, _, _)
Fraction(negative, mantissa, power) ==
    IF mantissa = 0 THEN Floating("finite", negative, 0, 0)
    ELSE IF mantissa % 2 = 0 THEN Fraction(negative, mantissa \div 2, power + 1)
    ELSE Floating("finite", negative, mantissa, power)

Infinite(negative) == Floating("infinite", negative, 0, 0)
NotANumber == Floating("nan", FALSE, 0, 0)

IsFinite(x) == x.is \notin {"infinite", "nan"}

(* f64(integer): exact for three bytes and less, otherwise whichever double  *)
(* is nearest, named by the integer.                                        *)
Nearest(integer) ==
    LET Small[i \in 0 .. 3] == IF i = 0 THEN 0 ELSE 256 * Small[i - 1] + integer.argument[i]
    IN  IF Len(integer.argument) <= 3
        THEN Fraction(integer.negative,
                      Small[Len(integer.argument)] + (IF integer.negative THEN 1 ELSE 0), 0)
        ELSE [is |-> "nearest", integer |-> integer]

BitLength(n) == CHOOSE bits \in 0 .. 30 : n < 2 ^ bits /\ (bits = 0 \/ n >= 2 ^ (bits - 1))

(* x has no more than so many significant bits, none below 2^least and none  *)
(* at 2^most or above.                                                      *)
HasBits(x, significant, least, most) ==
    /\ BitLength(x.mantissa) <= significant
    /\ x.mantissa = 0 \/ x.power >= least
    /\ x.mantissa = 0 \/ x.power + BitLength(x.mantissa) <= most

IsSingle(x) == x.is = "finite" /\ HasBits(x, 24, -149, 128)

-----------------------------------------------------------------------------
(* Single precision: bit_cast between float and uint32. *)

SingleFields(x) ==
    LET exponent == x.power + BitLength(x.mantissa) + 126
        sign == IF x.negative THEN 1 ELSE 0
    IN  IF x.mantissa = 0 THEN [sign |-> sign, exponent |-> 0, fraction |-> 0]
        ELSE IF exponent <= 0
             THEN [sign |-> sign, exponent |-> 0, fraction |-> x.mantissa * 2 ^ (x.power + 149)]
        ELSE [sign |-> sign, exponent |-> exponent,
              fraction |-> x.mantissa * 2 ^ (24 - BitLength(x.mantissa)) - 2 ^ 23]

SingleBytes(fields) ==
    <<128 * fields.sign + fields.exponent \div 2,
      128 * (fields.exponent % 2) + fields.fraction \div 65536,
      (fields.fraction \div 256) % 256, fields.fraction % 256>>

SingleValue(bytes) ==
    LET negative == bytes[1] >= 128
        exponent == 2 * (bytes[1] % 128) + bytes[2] \div 128
        fraction == 65536 * (bytes[2] % 128) + 256 * bytes[3] + bytes[4]
    IN  CASE exponent = 0 -> Fraction(negative, fraction, -149)
          [] exponent \in 1 .. 254 -> Fraction(negative, fraction + 2 ^ 23, exponent - 150)
          [] exponent = 255 -> IF fraction = 0 THEN Infinite(negative) ELSE NotANumber

-----------------------------------------------------------------------------
(* Half precision. *)

(* half_to_double *)
HalfValue(bits) ==
    LET negative == bits >= 32768
        exponent == (bits \div 1024) % 32
        fraction == bits % 1024
    IN  CASE exponent = 0 -> Fraction(negative, fraction, -24)
          [] exponent \in 1 .. 30 -> Fraction(negative, fraction + 1024, exponent - 25)
          [] exponent = 31 -> IF fraction = 0 THEN Infinite(negative) ELSE NotANumber

(* n / 2^shift to the nearest, to the even one of two: float_to_half *)
Rounded(n, shift) ==
    LET quotient == n \div 2 ^ shift
        remainder == n % 2 ^ shift
        halfway == 2 ^ (shift - 1)
    IN  IF remainder > halfway \/ (remainder = halfway /\ quotient % 2 = 1)
        THEN quotient + 1
        ELSE quotient

(* float_to_half: the fields may carry into each other. *)
HalfBits(single) ==
    LET sign == 32768 * single.sign
        exponent == single.exponent - 112
        rounded == Rounded(single.fraction, 13)
        carried == exponent + (IF rounded = 1024 THEN 1 ELSE 0)
    IN  IF exponent < -10 THEN sign
        ELSE IF exponent <= 0 THEN sign + Rounded(single.fraction + 2 ^ 23, 14 - exponent)
        ELSE IF carried >= 31 THEN sign + 31744
        ELSE sign + 1024 * carried + (rounded % 1024)

-----------------------------------------------------------------------------
(* write_f64 of a finite number, and get_f64. *)

(* A double becomes a float and comes back the same only if it is one. *)
FloatItem(x) ==
    LET single == SingleFields(x)
        half == HalfBits(single)
    IN  IF ~IsSingle(x) THEN <<251, x>>
        ELSE IF HalfValue(half) = x THEN <<249, half \div 256, half % 256>>
        ELSE <<250>> \o SingleBytes(single)

FloatOf(item) ==
    CASE item[1] = 249 -> HalfValue(256 * item[2] + item[3])
      [] item[1] = 250 -> SingleValue(Tail(item))
      [] item[1] = 251 -> item[2]

(* What the widths can hold: the preferred width is the first that can. *)
IsHalf(x) == x.is = "finite" /\ HasBits(x, 11, -24, 16)
PreferredWidth(x) == IF IsHalf(x) THEN 3 ELSE IF IsSingle(x) THEN 5 ELSE 9

=============================================================================
