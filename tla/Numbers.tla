------------------------------ MODULE Numbers ------------------------------
(***************************************************************************)
(* A number on its way through the library: a scalar of some type is        *)
(* written by a typed serialiser (serialize_to), parsed into a Value by     *)
(* loads_value and printed by dumps_value in one format after another, and  *)
(* is at last read as some type (deserialize_as).  A number that comes from  *)
(* elsewhere starts as a source.                                            *)
(*                                                                         *)
(* What a decimal numeral says is exact, so that a token of text holds the  *)
(* integer or the fraction it spells.                                       *)
(***************************************************************************)
EXTENDS CborFloat

CONSTANTS
    Integral,   (* the integers that programs write         *)
    Fractional, (* the floats that they write               *)
    Foreign     (* sources that this library did not write  *)

VARIABLES
    origin,    (* the number the scalar or the source holds    *)
    number     (* where it is now, and in what form            *)

numberVars == <<origin, number>>

SignedTypes == {"i8", "i16", "i32", "i64"}
UnsignedTypes == {"u8", "u16", "u32", "u64"}
FloatTypes == {"f32", "f64"}
Types == SignedTypes \union UnsignedTypes \union FloatTypes
TextFormats == {"json", "dson"}
Formats == TextFormats \union {"cbor"}

-----------------------------------------------------------------------------
(* Forms of a number. *)

Native(type, of) == [at |-> "native", is |-> type, of |-> of]
Value(kind, of) == [at |-> "value", is |-> kind, of |-> of]
Read(type, of) == [at |-> "read", is |-> type, of |-> of]
Bytes(item) == [at |-> "cbor", is |-> "item", of |-> item]

(* A numeral, tagged in DSON and plain in JSON.  It spells an integer or, with *)
(* a point or an exponent, a fraction; minus tells "-0" from "0".            *)
Numeral(format, tag, minus, of) ==
    [at |-> format, is |-> IF format = "json" THEN "plain" ELSE tag, minus |-> minus, of |-> of]
IntegerNumeral(format, tag, integer) == Numeral(format, tag, integer.negative, integer)
FloatNumeral(format, x) == Numeral(format, "f64", FALSE, x)

Refused(by) == [at |-> "refused", is |-> by]

IsInteger(of) == "argument" \in DOMAIN of

-----------------------------------------------------------------------------
(* Writing.  Every call comes from a scalar or from a Value. *)

(* append_head, append_big_endian: an argument in as few bytes as it needs. *)
Head64Early(major, word) ==
    LET prefix == 32 * major
    IN  IF AtMost(word, ZeroExtended(<<23>>)) THEN <<prefix + word[8]>>
        ELSE IF AtMost(word, ZeroExtended(<<254>>)) THEN <<prefix + 24>> \o LowBytes(word, 1)
        ELSE IF AtMost(word, ZeroExtended(<<255, 255>>)) THEN <<prefix + 25>> \o LowBytes(word, 2)
        ELSE IF AtMost(word, ZeroExtended(<<255, 255, 255, 255>>))
             THEN <<prefix + 26>> \o LowBytes(word, 4)
        ELSE <<prefix + 27>> \o word
Head64(major, word) ==
    LET prefix == 32 * major
    IN  IF AtMost(word, ZeroExtended(<<23>>)) THEN <<prefix + word[8]>>
        ELSE IF AtMost(word, ZeroExtended(<<255>>)) THEN <<prefix + 24>> \o LowBytes(word, 1)
        ELSE IF AtMost(word, ZeroExtended(<<255, 255>>)) THEN <<prefix + 25>> \o LowBytes(word, 2)
        ELSE IF AtMost(word, ZeroExtended(<<255, 255, 255, 255>>))
             THEN <<prefix + 26>> \o LowBytes(word, 4)
        ELSE <<prefix + 27>> \o word

WrittenSigned(format, word) ==
    CASE format \in TextFormats -> IntegerNumeral(format, "i64", OfSigned(word))
      [] format = "cbor" -> Bytes(IF IsNegative(word) THEN Head64(1, Complement(word))
                                  ELSE Head64(0, word))

WrittenUnsigned(format, word) ==
    CASE format \in TextFormats -> IntegerNumeral(format, "u64", OfUnsigned(word))
      [] format = "cbor" -> Bytes(Head64(0, word))

(* 17 significant digits say which double it is; JSON and DSON spell 5.0 with *)
(* its point.                                                               *)
WrittenFloatUnpointed(format, x) ==
    IF IsFinite(x) /\ format = "json" /\ x.power = 0 /\ ~x.negative /\ x.mantissa < 256
    THEN IntegerNumeral(format, "plain", Exactly(FALSE, <<x.mantissa>>))
    ELSE IF ~IsFinite(x) THEN Refused("writer")
    ELSE IF format = "cbor" THEN Bytes(FloatItem(x))
    ELSE FloatNumeral(format, x)
WrittenFloat(format, x) ==
    IF ~IsFinite(x) THEN Refused("writer")
    ELSE IF format = "cbor" THEN Bytes(FloatItem(x))
    ELSE FloatNumeral(format, x)

(* serialize_to, of the scalar types *)
Written(format, scalar) ==
    CASE scalar.is \in SignedTypes -> WrittenSigned(format, SignExtended(scalar.of))
      [] scalar.is \in UnsignedTypes -> WrittenUnsigned(format, ZeroExtended(scalar.of))
      [] scalar.is \in FloatTypes -> WrittenFloat(format, scalar.of)

(* write_value, write_dson_value, encode_value *)
Printed(format, value) ==
    CASE value.is = "I64" -> WrittenSigned(format, value.of)
      [] value.is = "U64" -> WrittenUnsigned(format, value.of)
      [] value.is = "F64" -> WrittenFloat(format, value.of)

(* to_value: the calls of ValueWriter *)
Kept(scalar) ==
    CASE scalar.is \in SignedTypes -> Value("I64", SignExtended(scalar.of))
      [] scalar.is \in UnsignedTypes -> Value("U64", ZeroExtended(scalar.of))
      [] scalar.is \in FloatTypes -> Value("F64", scalar.of)

-----------------------------------------------------------------------------
(* Getters.  Each is what its reader finds: [got |-> ...], or Nothing. *)

Nothing == [found |-> FALSE]
Got(of) == [found |-> TRUE, got |-> of]
Found(getting) == getting.found

(* Where an integer of a numeral goes: parse_integer, parse_i64, parse_u64.   *)
(* from_chars of an unsigned type takes no sign, not even that of "-0".      *)
ParsedSigned(source) == IsInteger(source.of) /\ FitsSigned(source.of)
ParsedUnsigned(source) == IsInteger(source.of) /\ ~source.minus /\ FitsUnsigned(source.of)

(* yyjson, external: sint if it has a sign and fits, uint if it has none and *)
(* fits, real otherwise.  A numeral beyond the range of a double is no JSON. *)
Yyjson(source) ==
    IF ~IsInteger(source.of)
    THEN IF IsFinite(source.of) THEN [is |-> "real", of |-> source.of] ELSE Refused("parser")
    ELSE IF source.minus /\ FitsSigned(source.of)
         THEN [is |-> "sint", of |-> AsWord(source.of)]
    ELSE IF ~source.minus /\ FitsUnsigned(source.of)
         THEN [is |-> "uint", of |-> AsWord(source.of)]
    ELSE [is |-> "real", of |-> Nearest(source.of)]

(* parse_numeric, and floating and signed and unsigned of DsonParser: the tag *)
(* says what the numeral must be.                                           *)
ParsedFloat(of) ==
    IF IsInteger(of) THEN Got(Nearest(of)) ELSE IF IsFinite(of) THEN Got(of) ELSE Nothing
Dson(source) ==
    CASE source.is = "i64" -> IF ParsedSigned(source) THEN Got(AsWord(source.of)) ELSE Nothing
      [] source.is = "u64" -> IF ParsedUnsigned(source) THEN Got(AsWord(source.of)) ELSE Nothing
      [] source.is = "f64" -> ParsedFloat(source.of)

(* read_head, read_unsigned: whatever width the argument has *)
Major(item) == item[1] \div 32
Argument(item) ==
    ZeroExtended(IF Len(item) = 1 THEN <<item[1] % 32>> ELSE Tail(item))

Valid(source) ==
    CASE source.at = "json" -> Yyjson(source).is # "parser"
      [] source.at = "dson" -> Found(Dson(source))
      [] source.at \in {"cbor", "value"} -> TRUE

(* get_i64, get_u64 and get_f64 of JsonReader, which has get_f64 give integers *)
(* as well.                                                                  *)
JsonI64(source) ==
    LET read == Yyjson(source)
    IN  IF read.is = "sint" \/ (read.is = "uint" /\ ~IsNegative(read.of))
        THEN Got(read.of) ELSE Nothing
JsonU64(source) ==
    LET read == Yyjson(source)
    IN  IF read.is = "uint" \/ (read.is = "sint" /\ ~IsNegative(read.of))
        THEN Got(read.of) ELSE Nothing
JsonF64(source) ==
    LET read == Yyjson(source)
    IN  Got(CASE read.is = "real" -> read.of
              [] read.is = "sint" -> Nearest(OfSigned(read.of))
              [] read.is = "uint" -> Nearest(OfUnsigned(read.of)))

(* ... of CborReader *)
CborI64(source) ==
    LET argument == Argument(source.of)
        major == Major(source.of)
    IN  IF major \notin {0, 1} \/ IsNegative(argument) THEN Nothing
        ELSE Got(IF major = 1 THEN Complement(argument) ELSE argument)
CborU64(source) == IF Major(source.of) = 0 THEN Got(Argument(source.of)) ELSE Nothing
CborF64(source) ==
    IF Major(source.of) = 7 /\ IsFinite(FloatOf(source.of)) THEN Got(FloatOf(source.of))
    ELSE Nothing

(* ... of DsonReader and of ValueReader: only what the tag or the kind says *)
DsonAs(tag, source) == IF source.is = tag THEN Dson(source) ELSE Nothing
KeptAs(kind, value) == IF value.is = kind THEN Got(value.of) ELSE Nothing

GetI64(source) ==
    CASE source.at = "json" -> JsonI64(source)
      [] source.at = "dson" -> DsonAs("i64", source)
      [] source.at = "cbor" -> CborI64(source)
      [] source.at = "value" -> KeptAs("I64", source)
GetU64(source) ==
    CASE source.at = "json" -> JsonU64(source)
      [] source.at = "dson" -> DsonAs("u64", source)
      [] source.at = "cbor" -> CborU64(source)
      [] source.at = "value" -> KeptAs("U64", source)
GetF64(source) ==
    CASE source.at = "json" -> JsonF64(source)
      [] source.at = "dson" -> DsonAs("f64", source)
      [] source.at = "cbor" -> CborF64(source)
      [] source.at = "value" -> KeptAs("F64", source)

-----------------------------------------------------------------------------
(* Reading as a type. *)

(* read_i64, read_u64 *)
ReadI64(source) ==
    IF Found(GetI64(source)) THEN GetI64(source)
    ELSE IF Found(GetU64(source)) /\ AtMost(GetU64(source).got, <<127>> \o Complement(Zeros(7)))
         THEN GetU64(source)
    ELSE Nothing
ReadU64(source) ==
    IF Found(GetU64(source)) THEN GetU64(source)
    ELSE IF Found(GetI64(source)) /\ ~IsNegative(GetI64(source).got)
         THEN GetI64(source)
    ELSE Nothing

(* read_f64 *)
ReadF64(source) ==
    IF Found(GetF64(source)) THEN GetF64(source)
    ELSE IF Found(GetI64(source)) THEN Got(Nearest(OfSigned(GetI64(source).got)))
    ELSE IF Found(GetU64(source)) THEN Got(Nearest(OfUnsigned(GetU64(source).got)))
    ELSE Nothing

(* The bounds as the source spells them: -128 and 127, 255, 0xffffffff, ... *)
Lowest ==
    [i8 |-> SignExtended(<<128>>), i16 |-> SignExtended(<<128, 0>>),
     i32 |-> SignExtended(<<128, 0, 0, 0>>), i64 |-> <<128>> \o Zeros(7)]
Highest ==
    [i8 |-> ZeroExtended(<<127>>), i16 |-> ZeroExtended(<<127, 255>>),
     i32 |-> ZeroExtended(<<127, 255, 255, 255>>), i64 |-> <<127>> \o Complement(Zeros(7)),
     u8 |-> ZeroExtended(<<255>>), u16 |-> ZeroExtended(<<255, 255>>),
     u32 |-> ZeroExtended(<<255, 255, 255, 255>>), u64 |-> Complement(Zeros(8))]
Width == [i8 |-> 1, i16 |-> 2, i32 |-> 4, i64 |-> 8, u8 |-> 1, u16 |-> 2, u32 |-> 4, u64 |-> 8]

InRangeAbove(type, word) ==
    IF type \in SignedTypes THEN SignedAtMost(word, Highest[type])
    ELSE AtMost(word, Highest[type])
InRange(type, word) ==
    IF type \in SignedTypes
    THEN SignedAtMost(Lowest[type], word) /\ SignedAtMost(word, Highest[type])
    ELSE AtMost(word, Highest[type])

(* f32(decoded.value): a conversion without a check. *)
Single(x) == IF IsSingle(x) THEN x ELSE [is |-> "narrowed", of |-> x]

(* deserialize_as, of the scalar types *)
ReadAs(type, source) ==
    LET found == CASE type \in SignedTypes -> ReadI64(source)
                   [] type \in UnsignedTypes -> ReadU64(source)
                   [] type \in FloatTypes -> ReadF64(source)
    IN  IF ~Valid(source) THEN Refused("parser")
        ELSE IF ~Found(found) THEN Refused("kind")
        ELSE IF type \in FloatTypes
             THEN Read(type, IF type = "f32" THEN Single(found.got) ELSE found.got)
        ELSE IF InRange(type, found.got) THEN Read(type, LowBytes(found.got, Width[type]))
        ELSE Refused("range")

(* loads_value: number of JsonParser, DsonParser, decode_value *)
JsonNumberSigned(source) ==
    IF ~IsInteger(source.of)
    THEN IF IsFinite(source.of) THEN Value("F64", source.of) ELSE Refused("parser")
    ELSE IF FitsSigned(source.of) THEN Value("I64", AsWord(source.of))
    ELSE Refused("parser")
JsonNumber(source) ==
    IF ~IsInteger(source.of)
    THEN IF IsFinite(source.of) THEN Value("F64", source.of) ELSE Refused("parser")
    ELSE IF FitsSigned(source.of) THEN Value("I64", AsWord(source.of))
    ELSE IF ParsedUnsigned(source) THEN Value("U64", AsWord(source.of))
    ELSE Refused("parser")

DsonNumber(source) ==
    LET kind == [i64 |-> "I64", u64 |-> "U64", f64 |-> "F64"]
    IN  IF Found(Dson(source)) THEN Value(kind[source.is], Dson(source).got) ELSE Refused("parser")

CborNumber(source) ==
    IF Major(source.of) = 1 /\ Found(GetI64(source)) THEN Value("I64", GetI64(source).got)
    ELSE IF Major(source.of) = 0 THEN Value("U64", GetU64(source).got)
    ELSE IF Found(GetF64(source)) THEN Value("F64", GetF64(source).got)
    ELSE Refused("parser")

Loaded(source) ==
    CASE source.at = "json" -> JsonNumber(source)
      [] source.at = "dson" -> DsonNumber(source)
      [] source.at = "cbor" -> CborNumber(source)

-----------------------------------------------------------------------------

(* The integer or the fraction a scalar is. *)
Holds(scalar) ==
    CASE scalar.is \in SignedTypes -> OfSigned(scalar.of)
      [] scalar.is \in UnsignedTypes -> OfUnsigned(scalar.of)
      [] scalar.is \in FloatTypes -> scalar.of

Init ==
    \/ /\ number \in Integral \/ number \in Fractional
       /\ origin = Holds(number)
    \/ \E source \in Foreign : number = source.as /\ origin = source.says

Dumps(format) ==
    /\ number.at = "native"
    /\ number' = Written(format, number)
    /\ UNCHANGED origin

ToValue ==
    /\ number.at = "native"
    /\ number' = Kept(number)
    /\ UNCHANGED origin

DumpsValue(format) ==
    /\ number.at = "value"
    /\ number' = Printed(format, number)
    /\ UNCHANGED origin

LoadsValue ==
    /\ number.at \in Formats
    /\ number' = Loaded(number)
    /\ UNCHANGED origin

(* loads, and from_value *)
Loads(type) ==
    /\ number.at \in Formats \union {"value"}
    /\ number' = ReadAs(type, number)
    /\ UNCHANGED origin

Next ==
    \/ \E format \in Formats : Dumps(format) \/ DumpsValue(format)
    \/ ToValue
    \/ LoadsValue
    \/ \E type \in Types : Loads(type)

Spec == Init /\ [][Next]_numberVars

=============================================================================
