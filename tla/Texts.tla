------------------------------- MODULE Texts -------------------------------
(***************************************************************************)
(* Strings, byte by byte: the UTF-8 that the library takes for text        *)
(* (valid_utf8 of src/serdde/json_native.hpp), how JsonWriter escapes it     *)
(* and JsonParser reads it back, and the measured strings of DSON.  Each    *)
(* loop of the code is a function of the turns it has made.                 *)
(***************************************************************************)
EXTENDS Sources

CONSTANT SizeLimit  (* the largest length that a size_t holds *)

Byte == 0 .. 255

(* The sources that are strings are strings of bytes. *)
ASSUME TextSources ==
    /\ SizeLimit \in Nat
    /\ \A kind \in {"utf8", "text", "dson_string"} \intersect Formats :
          /\ Seeds[kind] \subseteq Seq(Byte)
          /\ Alphabet[kind] \subseteq Byte
          /\ Blanks[kind] \subseteq Byte

ByteAt(bytes, i) == IF i \in DOMAIN bytes THEN bytes[i] ELSE 256

-----------------------------------------------------------------------------
(* UTF-8. *)

Lead(count, bits, minimum) == [count |-> count, bits |-> bits, minimum |-> minimum]

(* Mutant of LeadOf: long forms of short characters pass. *)
LeadOfUnbounded(byte) ==
    IF byte <= 127 THEN Lead(0, byte, 0)
    ELSE IF byte \in 194 .. 223 THEN Lead(1, byte % 32, 0)
    ELSE IF byte \in 224 .. 239 THEN Lead(2, byte % 16, 0)
    ELSE IF byte \in 240 .. 244 THEN Lead(3, byte % 8, 0)
    ELSE Lead(0, 0, 1)

(* What a first byte says: how many bytes follow it, its bits of the code   *)
(* point, and the least one to be written so; no code point at all is at     *)
(* least 1 and at most 0.                                                   *)
LeadOf(byte) ==
    IF byte <= 127 THEN Lead(0, byte, 0)
    ELSE IF byte \in 194 .. 223 THEN Lead(1, byte % 32, 128)
    ELSE IF byte \in 224 .. 239 THEN Lead(2, byte % 16, 2048)
    ELSE IF byte \in 240 .. 244 THEN Lead(3, byte % 8, 65536)
    ELSE Lead(0, 0, 1)

Surrogates == 55296 .. 57343

(* The bytes that follow a first byte. *)
Continuation == 128 .. 191

(* codepoint = (codepoint << 6) | (next & 0x3f), for each byte that follows *)
Shifted(count, bits, first, second, third) ==
    IF count = 0 THEN bits
    ELSE IF count = 1 THEN 64 * bits + first
    ELSE IF count = 2 THEN 4096 * bits + 64 * first + second
    ELSE 262144 * bits + 4096 * first + 64 * second + third

CodePointAt(bytes, i) ==
    LET lead == LeadOf(bytes[i])
    IN  Shifted(lead.count, lead.bits, bytes[i + 1] % 64, bytes[i + 2] % 64, bytes[i + 3] % 64)

IsCodePoint(codepoint, minimum) ==
    minimum <= codepoint /\ codepoint <= 1114111 /\ codepoint \notin Surrogates

IsCharacter(bytes, i) ==
    LET lead == LeadOf(bytes[i])
    IN  /\ i + lead.count <= Len(bytes)
        /\ \A k \in 1 .. lead.count : bytes[i + k] \in Continuation
        /\ IsCodePoint(CodePointAt(bytes, i), lead.minimum)

(* One turn of the loop from index i on; 0 if it returns false. *)
NextCharacter(bytes, i) ==
    IF i \notin DOMAIN bytes THEN i
    ELSE IF IsCharacter(bytes, i) THEN i + LeadOf(bytes[i]).count + 1
    ELSE 0

ValidUtf8(bytes) ==
    LET index[turn \in 0 .. Len(bytes)] ==
            IF turn = 0 THEN 1 ELSE NextCharacter(bytes, index[turn - 1])
    IN  index[Len(bytes)] = Len(bytes) + 1

-----------------------------------------------------------------------------
(* JSON strings. *)

Quote == 34
Backslash == 92

(* The escapes of one letter, and what they stand for. *)
Letters == {<<8, 98>>, <<9, 116>>, <<10, 110>>, <<12, 102>>, <<13, 114>>,
            <<Quote, Quote>>, <<Backslash, Backslash>>}

HexDigit(n) == IF n < 10 THEN 48 + n ELSE 87 + n

(* Mutant of EscapedByte: control characters without a letter go through. *)
EscapedByteByLetter(byte) ==
    IF \E pair \in Letters : pair[1] = byte
    THEN <<Backslash, (CHOOSE pair \in Letters : pair[1] = byte)[2]>>
    ELSE <<byte>>

EscapedByte(byte) ==
    IF \E pair \in Letters : pair[1] = byte
    THEN <<Backslash, (CHOOSE pair \in Letters : pair[1] = byte)[2]>>
    ELSE IF byte < 32 THEN <<Backslash, 117, 48, 48, HexDigit(byte \div 16), HexDigit(byte % 16)>>
    ELSE <<byte>>

(* append_escaped_json *)
Escaped(bytes) ==
    LET upTo[n \in 0 .. Len(bytes)] ==
            IF n = 0 THEN <<Quote>> ELSE upTo[n - 1] \o EscapedByte(bytes[n])
    IN  upTo[Len(bytes)] \o <<Quote>>

(* append_utf8, of a code point that is no surrogate *)
Utf8(codepoint) ==
    LET next(shift) == 128 + ((codepoint \div shift) % 64)
    IN  IF codepoint <= 127 THEN <<codepoint>>
        ELSE IF codepoint <= 2047 THEN <<192 + codepoint \div 64, next(1)>>
        ELSE IF codepoint <= 65535 THEN <<224 + codepoint \div 4096, next(64), next(1)>>
        ELSE <<240 + codepoint \div 262144, next(4096), next(64), next(1)>>

(* What has been read, up to `next`. *)
Reading(bytes, next) == [error |-> "reading", bytes |-> bytes, next |-> next]
Text(bytes, next) == [error |-> "none", bytes |-> bytes, next |-> next]
NoText(error, next) == [error |-> error, bytes |-> <<>>, next |-> next]

(* hex_digit *)
HexValue(byte) ==
    IF byte \in 48 .. 57 THEN byte - 48
    ELSE IF byte \in 65 .. 70 THEN byte - 55
    ELSE IF byte \in 97 .. 102 THEN byte - 87
    ELSE 16

(* unicode_unit: four digits from i on *)
HasUnit(input, i) == \A k \in i .. i + 3 : HexValue(ByteAt(input, k)) < 16
Unit(input, i) ==
    LET digit(k) == HexValue(input[i + k])
    IN  4096 * digit(0) + 256 * digit(1) + 16 * digit(2) + digit(3)

(* Mutant of LowSurrogate: any unit is the second of a pair. *)
LowSurrogateOrNot(input, i) ==
    /\ ByteAt(input, i) = Backslash /\ ByteAt(input, i + 1) = 117
    /\ HasUnit(input, i + 2) /\ Unit(input, i + 2) >= 56320

(* Does the escape of a low surrogate stand at i? *)
LowSurrogate(input, i) ==
    /\ ByteAt(input, i) = Backslash /\ ByteAt(input, i + 1) = 117
    /\ HasUnit(input, i + 2) /\ Unit(input, i + 2) \in 56320 .. 57343

(* unicode_escape: the unit at i, and its low surrogate if it is a high one *)
UnicodeEscape(input, i, output) ==
    LET unit == Unit(input, i)
        pair == 65536 + 1024 * (unit - 55296) + (Unit(input, i + 6) - 56320)
    IN  IF ~HasUnit(input, i) THEN NoText("invalid Unicode escape", i)
        ELSE IF unit \notin Surrogates THEN Reading(output \o Utf8(unit), i + 4)
        ELSE IF unit > 56319 THEN NoText("unpaired Unicode surrogate", i)
        ELSE IF ~LowSurrogate(input, i + 4) THEN NoText("invalid low surrogate", i + 4)
        ELSE Reading(output \o Utf8(pair), i + 10)

(* What follows a backslash at i; a solidus may be escaped, too. *)
Escape(input, i, output) ==
    LET escaped == ByteAt(input, i + 1)
        letters == {pair \in Letters \union {<<47, 47>>} : pair[2] = escaped}
    IN  IF escaped = 117 THEN UnicodeEscape(input, i + 2, output)
        ELSE IF letters = {} THEN NoText("unknown escape sequence", i)
        ELSE Reading(Append(output, (CHOOSE pair \in letters : TRUE)[1]), i + 2)

(* One turn of JsonParser.string, unless it has returned. *)
StringTurn(input, read) ==
    LET byte == ByteAt(input, read.next)
    IN  IF read.error # "reading" THEN read
        ELSE IF byte = 256 THEN NoText("unterminated string", read.next)
        ELSE IF byte = Quote
             THEN IF ValidUtf8(read.bytes) THEN Text(read.bytes, read.next + 1)
                  ELSE NoText("string is not valid UTF-8", read.next)
        ELSE IF byte < 32 THEN NoText("control character in string", read.next)
        ELSE IF byte = Backslash THEN Escape(input, read.next, read.bytes)
        ELSE Reading(Append(read.bytes, byte), read.next + 1)

(* Every turn takes a byte or more, and one finds the end of the input. *)
ReadJsonString(input) ==
    LET read[turn \in 0 .. Len(input)] ==
            IF turn = 0 THEN Reading(<<>>, 2) ELSE StringTurn(input, read[turn - 1])
    IN  IF ByteAt(input, 1) # Quote THEN NoText("unexpected character", 1) ELSE read[Len(input)]

-----------------------------------------------------------------------------
(* DSON strings, after their tag "str(". *)

(* append_size *)
Numeral(n) ==
    LET of[m \in 0 .. n] == IF m < 10 THEN <<48 + m>> ELSE Append(of[m \div 10], 48 + (m % 10))
    IN  of[n]

(* append_string *)
Measured(bytes) == Numeral(Len(bytes)) \o <<58>> \o bytes \o <<41>>

(* parse_size: the digits that the input begins with *)
DigitRead(input, read) ==
    IF ByteAt(input, read.next) \in 48 .. 57
    THEN [size |-> 10 * read.size + (input[read.next] - 48), next |-> read.next + 1]
    ELSE read

ParsedSize(input) ==
    LET read[turn \in 0 .. Len(input)] ==
            IF turn = 0 THEN [size |-> 0, next |-> 1] ELSE DigitRead(input, read[turn - 1])
    IN  read[Len(input)]

(* parse_string *)
ReadDsonString(input) ==
    LET length == ParsedSize(input)
        begin == length.next + 1
        end == begin + length.size
        text == SubSeq(input, begin, end - 1)
    IN  IF length.next = 1 THEN NoText("expected a non-negative integer", 1)
        ELSE IF length.size > SizeLimit THEN NoText("integer is out of range", length.next)
        ELSE IF ByteAt(input, length.next) # 58 THEN NoText("expected string length separator", length.next)
        ELSE IF end > Len(input) + 1 THEN NoText("string length exceeds remaining input", begin)
        ELSE IF ~ValidUtf8(text) THEN NoText("string is not valid UTF-8", begin)
        ELSE IF ByteAt(input, end) # 41 THEN NoText("unterminated string value", end)
        ELSE Text(text, end + 1)

-----------------------------------------------------------------------------
(* Properties. *)

(* The Unicode Standard's table 3-7 of well-formed sequences of bytes. *)
WellFormedRows ==
    {<<0 .. 127>>, <<194 .. 223, 128 .. 191>>,
     <<{224}, 160 .. 191, 128 .. 191>>, <<225 .. 236, 128 .. 191, 128 .. 191>>,
     <<{237}, 128 .. 159, 128 .. 191>>, <<238 .. 239, 128 .. 191, 128 .. 191>>,
     <<{240}, 144 .. 191, 128 .. 191, 128 .. 191>>, <<241 .. 243, 128 .. 191, 128 .. 191, 128 .. 191>>,
     <<{244}, 128 .. 143, 128 .. 191, 128 .. 191>>}

StandsAt(row, bytes, i) ==
    /\ i + Len(row) <= Len(bytes) + 1
    /\ \A k \in 1 .. Len(row) : bytes[i + k - 1] \in row[k]

(* The bytes can be divided so that each part is in a row of the table. *)
WellFormed(bytes) ==
    \E starts \in SUBSET (1 .. Len(bytes) + 1) :
        /\ 1 \in starts
        /\ \A i \in starts \ {Len(bytes) + 1} :
              \E row \in WellFormedRows : StandsAt(row, bytes, i) /\ i + Len(row) \in starts

(* docs/direct-wire-plan.md: "owned strings and validated UTF-8;".  What     *)
(* every reader and writer takes for text is what the Unicode Standard       *)
(* calls well-formed: no long form of a short character, no surrogate,       *)
(* nothing beyond the last code point and nothing cut short.                *)
Utf8WellFormed ==
    format \in {"utf8", "text"} => (ValidUtf8(source) <=> WellFormed(source))

(* docs/dson.md: "DSON is deterministic typed text", and JSON is text.  Text  *)
(* that is written comes back byte by byte, and the string ends where the    *)
(* writer ended it, whatever it contains and whatever follows: quotes,       *)
(* brackets, colons, digits, control characters, any UTF-8.  And nothing is  *)
(* a DSON string but a text with its own length, up to leading zeros.        *)
StringsKept ==
    /\ format \in {"utf8", "text"} /\ ValidUtf8(source) /\ Len(source) <= SizeLimit =>
           \A following \in {<<>>, <<34>>, <<41>>, <<49, 34>>} :
               /\ ReadJsonString(Escaped(source) \o following)
                      = Text(source, Len(Escaped(source)) + 1)
               /\ ReadDsonString(Measured(source) \o following)
                      = Text(source, Len(Measured(source)) + 1)
    /\ format = "dson_string" =>
           LET dson == ReadDsonString(source)
               zeros == {k \in 0 .. Len(source) : \A i \in 1 .. k : source[i] = 48}
           IN  dson.error = "none" =>
                   \E k \in zeros : Measured(dson.bytes) = SubSeq(source, k + 1, dson.next - 1)

=============================================================================
