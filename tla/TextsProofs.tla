---------------------------- MODULE TextsProofs ----------------------------
(***************************************************************************)
(* Strings of any length, made of any bytes: what valid_utf8 takes for text *)
(* is what the Unicode Standard calls well-formed, text that is escaped or  *)
(* measured is read back byte by byte, whatever follows it, and what the    *)
(* JSON parser reads is what the pieces of a string spell.                  *)
(***************************************************************************)
EXTENDS Texts, SequenceFacts

LEMMA ByteFacts ==
    ASSUME NEW bytes \in Seq(Byte)
    PROVE  /\ Len(bytes) \in Nat
           /\ DOMAIN bytes = 1 .. Len(bytes)
           /\ \A i \in 1 .. Len(bytes) : bytes[i] \in Byte
OBVIOUS

-----------------------------------------------------------------------------
(* A character of UTF-8 is a row of the table. *)

LEMMA LeadParts ==
    ASSUME NEW count, NEW bits, NEW minimum
    PROVE  /\ Lead(count, bits, minimum).count = count
           /\ Lead(count, bits, minimum).bits = bits
           /\ Lead(count, bits, minimum).minimum = minimum
BY DEF Lead

(* The first bytes of each length, what their bits and those of the bytes    *)
(* that follow are, and the least code point.                               *)
OneLeads == 0 .. 127
TwoLeads == 194 .. 223
ThreeLeads == 224 .. 239
FourLeads == 240 .. 244
NoLeads == 128 .. 193 \union 245 .. 255

Less(p, a, base) == p = a - base
Low(q, b) == q = b % 64
Least(count) ==
    IF count = 0 THEN 0 ELSE IF count = 1 THEN 128 ELSE IF count = 2 THEN 2048 ELSE 65536

Bounds3(a, b) == (a = 224 => b >= 160) /\ (a = 237 => b <= 159)
Bounds4(a, b) == (a = 240 => b >= 144) /\ (a = 244 => b <= 143)

LEMMA LowBits ==
    ASSUME NEW b
    PROVE  \E q : Low(q, b) /\ (b \in Continuation => Less(q, b, 128))
<1>1. \A a \in 128 .. 191 : a % 64 = a - 128
    BY SMT
<1> QED BY <1>1, SMT DEF Low, Less, Continuation

LEMMA LeadIs ==
    /\ \A a \in OneLeads : LeadOf(a) = Lead(0, a, Least(0))
    /\ \A a \in TwoLeads : \E p : Less(p, a, 192) /\ LeadOf(a) = Lead(1, p, Least(1))
    /\ \A a \in ThreeLeads : \E p : Less(p, a, 224) /\ LeadOf(a) = Lead(2, p, Least(2))
    /\ \A a \in FourLeads : \E p : Less(p, a, 240) /\ LeadOf(a) = Lead(3, p, Least(3))
    /\ \A a \in NoLeads : LeadOf(a) = Lead(0, 0, 1)
<1>1. /\ \A a \in 194 .. 223 : a % 32 = a - 192
      /\ \A a \in 224 .. 239 : a % 16 = a - 224
      /\ \A a \in 240 .. 244 : a % 8 = a - 240
    BY SMT
<1>2. \A a \in OneLeads : LeadOf(a) = Lead(0, a, Least(0))
    BY SMT DEF OneLeads, LeadOf, Least
<1>3. \A a \in TwoLeads : \E p : Less(p, a, 192) /\ LeadOf(a) = Lead(1, p, Least(1))
    BY <1>1, SMT DEF TwoLeads, LeadOf, Less, Least
<1>4. \A a \in ThreeLeads : \E p : Less(p, a, 224) /\ LeadOf(a) = Lead(2, p, Least(2))
    BY <1>1, SMT DEF ThreeLeads, LeadOf, Less, Least
<1>5. \A a \in FourLeads : \E p : Less(p, a, 240) /\ LeadOf(a) = Lead(3, p, Least(3))
    BY <1>1, SMT DEF FourLeads, LeadOf, Less, Least
<1>6. \A a \in NoLeads : LeadOf(a) = Lead(0, 0, 1)
    BY SMT DEF NoLeads, LeadOf
<1> QED BY <1>2, <1>3, <1>4, <1>5, <1>6, Zenon

(* The code points of each length of character, from the bytes that make it. *)
LEMMA OneByte ==
    ASSUME NEW a \in OneLeads, NEW q, NEW r, NEW s
    PROVE  IsCodePoint(Shifted(0, a, q, r, s), Least(0))
BY SMT DEF OneLeads, Surrogates, IsCodePoint, Shifted, Least

LEMMA TwoBytes ==
    ASSUME NEW a \in TwoLeads, NEW b \in Continuation,
           NEW p, NEW q, Less(p, a, 192), Less(q, b, 128), NEW r, NEW s
    PROVE  IsCodePoint(Shifted(1, p, q, r, s), Least(1))
BY SMT DEF TwoLeads, Continuation, Less, Surrogates, IsCodePoint, Shifted, Least

LEMMA ThreeBytes ==
    ASSUME NEW a \in ThreeLeads, NEW b \in Continuation, NEW c \in Continuation,
           NEW p, NEW q, NEW r, Less(p, a, 224), Less(q, b, 128), Less(r, c, 128), NEW s
    PROVE  IsCodePoint(Shifted(2, p, q, r, s), Least(2)) <=> Bounds3(a, b)
BY SMT DEF ThreeLeads, Continuation, Less, Surrogates, IsCodePoint, Shifted, Least, Bounds3

LEMMA FourBytes ==
    ASSUME NEW a \in FourLeads, NEW b \in Continuation, NEW c \in Continuation,
           NEW d \in Continuation, NEW p, NEW q, NEW r, NEW s,
           Less(p, a, 240), Less(q, b, 128), Less(r, c, 128), Less(s, d, 128)
    PROVE  IsCodePoint(Shifted(3, p, q, r, s), Least(3)) <=> Bounds4(a, b)
BY SMT DEF FourLeads, Continuation, Less, Surrogates, IsCodePoint, Shifted, Least, Bounds4

LEMMA NoBytes ==
    ASSUME NEW q, NEW r, NEW s
    PROVE  ~IsCodePoint(Shifted(0, 0, q, r, s), 1)
BY SMT DEF IsCodePoint, Shifted

(* The bytes of a character at i. *)
Four(bytes, i, a, b, c, d) ==
    a = bytes[i] /\ b = bytes[i + 1] /\ c = bytes[i + 2] /\ d = bytes[i + 3]

(* What IsCharacter asks of a character whose first byte says how long it is. *)
Asks(bytes, i, count, codepoint, minimum) ==
    /\ LeadOf(bytes[i]).count = count
    /\ CodePointAt(bytes, i) = codepoint
    /\ IsCharacter(bytes, i) <=>
          /\ i + count <= Len(bytes)
          /\ \A k \in 1 .. count : bytes[i + k] \in Continuation
          /\ IsCodePoint(codepoint, minimum)

LEMMA CharacterAsks ==
    ASSUME NEW bytes, NEW i, NEW a, NEW b, NEW c, NEW d, Four(bytes, i, a, b, c, d),
           NEW q, NEW r, NEW s, Low(q, b), Low(r, c), Low(s, d),
           NEW count, NEW bits, NEW minimum, LeadOf(a) = Lead(count, bits, minimum)
    PROVE  Asks(bytes, i, count, Shifted(count, bits, q, r, s), minimum)
<1>1. LeadOf(bytes[i]) = Lead(count, bits, minimum)
    BY Zenon DEF Four
<1>2. /\ LeadOf(bytes[i]).count = count
      /\ LeadOf(bytes[i]).bits = bits
      /\ LeadOf(bytes[i]).minimum = minimum
    BY <1>1, LeadParts, SMT
<1>3. IsCharacter(bytes, i) <=>
          /\ i + count <= Len(bytes)
          /\ \A k \in 1 .. count : bytes[i + k] \in Continuation
          /\ IsCodePoint(CodePointAt(bytes, i), minimum)
    BY <1>2, SMT DEF IsCharacter
<1>4. CodePointAt(bytes, i)
          = Shifted(count, bits, bytes[i + 1] % 64, bytes[i + 2] % 64, bytes[i + 3] % 64)
    BY <1>2, SMT DEF CodePointAt
<1>5. CodePointAt(bytes, i) = Shifted(count, bits, q, r, s)
    BY <1>4, Zenon DEF Four, Low
<1> QED BY <1>2, <1>3, <1>5, Zenon DEF Asks

LEMMA IsOneByte ==
    ASSUME NEW bytes, NEW i, NEW a \in OneLeads, NEW b, NEW c, NEW d, Four(bytes, i, a, b, c, d)
    PROVE  /\ LeadOf(bytes[i]).count = 0
           /\ IsCharacter(bytes, i) <=> i + 0 <= Len(bytes)
<1>1. LeadOf(a) = Lead(0, a, Least(0))
    BY LeadIs, Zenon
<1>2. PICK q, r, s : Low(q, b) /\ Low(r, c) /\ Low(s, d)
    BY LowBits, Zenon
<1>3. Asks(bytes, i, 0, Shifted(0, a, q, r, s), Least(0))
    BY <1>1, <1>2, CharacterAsks, Zenon
<1>4. IsCodePoint(Shifted(0, a, q, r, s), Least(0))
    BY OneByte, Zenon
<1>5. 1 .. 0 = {}
    BY SMT
<1> QED BY <1>3, <1>4, <1>5, Zenon DEF Asks

LEMMA IsTwoBytes ==
    ASSUME NEW bytes, NEW i, NEW a \in TwoLeads, NEW b, NEW c, NEW d, Four(bytes, i, a, b, c, d)
    PROVE  /\ LeadOf(bytes[i]).count = 1
           /\ IsCharacter(bytes, i) <=> i + 1 <= Len(bytes) /\ b \in Continuation
<1>1. PICK p : Less(p, a, 192) /\ LeadOf(a) = Lead(1, p, Least(1))
    BY LeadIs, Zenon
<1>2. PICK q, r, s : /\ Low(q, b) /\ Low(r, c) /\ Low(s, d)
                     /\ b \in Continuation => Less(q, b, 128)
    BY LowBits, Zenon
<1>3. Asks(bytes, i, 1, Shifted(1, p, q, r, s), Least(1))
    BY <1>1, <1>2, CharacterAsks, Zenon
<1>4. b \in Continuation => IsCodePoint(Shifted(1, p, q, r, s), Least(1))
    BY <1>1, <1>2, TwoBytes, Zenon
<1>5. (\A k \in 1 .. 1 : bytes[i + k] \in Continuation) <=> b \in Continuation
    <2>1. 1 .. 1 = {1}
        BY SMT
    <2> QED BY <2>1, Zenon DEF Four
<1> QED BY <1>3, <1>4, <1>5, Zenon DEF Asks

LEMMA IsThreeBytes ==
    ASSUME NEW bytes, NEW i, NEW a \in ThreeLeads, NEW b, NEW c, NEW d, Four(bytes, i, a, b, c, d)
    PROVE  /\ LeadOf(bytes[i]).count = 2
           /\ IsCharacter(bytes, i) <=>
                 /\ i + 2 <= Len(bytes)
                 /\ b \in Continuation /\ c \in Continuation
                 /\ Bounds3(a, b)
<1>1. PICK p : Less(p, a, 224) /\ LeadOf(a) = Lead(2, p, Least(2))
    BY LeadIs, Zenon
<1>2. PICK q, r, s : /\ Low(q, b) /\ Low(r, c) /\ Low(s, d)
                     /\ b \in Continuation => Less(q, b, 128)
                     /\ c \in Continuation => Less(r, c, 128)
    BY LowBits, Zenon
<1>3. Asks(bytes, i, 2, Shifted(2, p, q, r, s), Least(2))
    BY <1>1, <1>2, CharacterAsks, Zenon
<1>4. b \in Continuation /\ c \in Continuation =>
          (IsCodePoint(Shifted(2, p, q, r, s), Least(2)) <=> Bounds3(a, b))
    <2> SUFFICES ASSUME b \in Continuation, c \in Continuation
                 PROVE  IsCodePoint(Shifted(2, p, q, r, s), Least(2)) <=> Bounds3(a, b)
        OBVIOUS
    <2>1. Less(p, a, 224) /\ Less(q, b, 128) /\ Less(r, c, 128)
        BY <1>1, <1>2, Zenon
    <2> QED BY <2>1, ThreeBytes, Zenon
<1>5. (\A k \in 1 .. 2 : bytes[i + k] \in Continuation) <=> b \in Continuation /\ c \in Continuation
    <2>1. 1 .. 2 = {1, 2}
        BY SMT
    <2> QED BY <2>1, Zenon DEF Four
<1> QED BY <1>3, <1>4, <1>5, Zenon DEF Asks

LEMMA IsFourBytes ==
    ASSUME NEW bytes, NEW i, NEW a \in FourLeads, NEW b, NEW c, NEW d, Four(bytes, i, a, b, c, d)
    PROVE  /\ LeadOf(bytes[i]).count = 3
           /\ IsCharacter(bytes, i) <=>
                 /\ i + 3 <= Len(bytes)
                 /\ b \in Continuation /\ c \in Continuation /\ d \in Continuation
                 /\ Bounds4(a, b)
<1>1. PICK p : Less(p, a, 240) /\ LeadOf(a) = Lead(3, p, Least(3))
    BY LeadIs, Zenon
<1>2. PICK q, r, s : /\ Low(q, b) /\ Low(r, c) /\ Low(s, d)
                     /\ b \in Continuation => Less(q, b, 128)
                     /\ c \in Continuation => Less(r, c, 128)
                     /\ d \in Continuation => Less(s, d, 128)
    BY LowBits, Zenon
<1>3. Asks(bytes, i, 3, Shifted(3, p, q, r, s), Least(3))
    BY <1>1, <1>2, CharacterAsks, Zenon
<1>4. b \in Continuation /\ c \in Continuation /\ d \in Continuation =>
          (IsCodePoint(Shifted(3, p, q, r, s), Least(3)) <=> Bounds4(a, b))
    <2> SUFFICES ASSUME b \in Continuation, c \in Continuation, d \in Continuation
                 PROVE  IsCodePoint(Shifted(3, p, q, r, s), Least(3)) <=> Bounds4(a, b)
        OBVIOUS
    <2>1. Less(p, a, 240) /\ Less(q, b, 128) /\ Less(r, c, 128) /\ Less(s, d, 128)
        BY <1>1, <1>2, Zenon
    <2> QED BY <2>1, FourBytes, Zenon
<1>5. (\A k \in 1 .. 3 : bytes[i + k] \in Continuation) <=>
          b \in Continuation /\ c \in Continuation /\ d \in Continuation
    <2>1. 1 .. 3 = {1, 2, 3}
        BY SMT
    <2> QED BY <2>1, Zenon DEF Four
<1> QED BY <1>3, <1>4, <1>5, Zenon DEF Asks

LEMMA IsNoCharacter ==
    ASSUME NEW bytes, NEW i, NEW a \in NoLeads, NEW b, NEW c, NEW d, Four(bytes, i, a, b, c, d)
    PROVE  ~IsCharacter(bytes, i)
<1>1. LeadOf(a) = Lead(0, 0, 1)
    BY LeadIs, Zenon
<1>2. PICK q, r, s : Low(q, b) /\ Low(r, c) /\ Low(s, d)
    BY LowBits, Zenon
<1>3. Asks(bytes, i, 0, Shifted(0, 0, q, r, s), 1)
    BY <1>1, <1>2, CharacterAsks, Zenon
<1> QED BY <1>3, NoBytes, Zenon DEF Asks

-----------------------------------------------------------------------------
(* A character is a row of the table, and the row is as long.  The rows of   *)
(* each length:                                                             *)
OneRows == {<<0 .. 127>>}
TwoRows == {<<194 .. 223, 128 .. 191>>}
ThreeRows ==
    {<<{224}, 160 .. 191, 128 .. 191>>, <<225 .. 236, 128 .. 191, 128 .. 191>>,
     <<{237}, 128 .. 159, 128 .. 191>>, <<238 .. 239, 128 .. 191, 128 .. 191>>}
FourRows ==
    {<<{240}, 144 .. 191, 128 .. 191, 128 .. 191>>, <<241 .. 243, 128 .. 191, 128 .. 191, 128 .. 191>>,
     <<{244}, 128 .. 143, 128 .. 191, 128 .. 191>>}

LEMMA RowsAre == WellFormedRows = OneRows \union TwoRows \union ThreeRows \union FourRows
<1>1. \A one, two, three, four, five, six, seven, eight, nine :
          {one, two, three, four, five, six, seven, eight, nine}
              = {one} \union {two} \union {three, four, five, six} \union {seven, eight, nine}
    BY SMT
<1> QED BY <1>1 DEF WellFormedRows, OneRows, TwoRows, ThreeRows, FourRows

(* A row of one to four sets of bytes. *)
LEMMA RowOfOne ==
    ASSUME NEW bytes, Len(bytes) \in Nat, NEW i \in Nat, NEW a, NEW b, NEW c, NEW d,
           Four(bytes, i, a, b, c, d), NEW A
    PROVE  Len(<<A>>) = 1 /\ (StandsAt(<<A>>, bytes, i) <=> i + 0 <= Len(bytes) /\ a \in A)
<1>1. Len(<<A>>) = 1 /\ <<A>>[1] = A /\ 1 .. 1 = {1} /\ i + 1 - 1 = i
    BY SMT
<1>2. i + 1 <= Len(bytes) + 1 <=> i + 0 <= Len(bytes)
    BY SMT
<1> QED BY <1>1, <1>2, Zenon DEF StandsAt, Four

LEMMA RowOfTwo ==
    ASSUME NEW bytes, Len(bytes) \in Nat, NEW i \in Nat, NEW a, NEW b, NEW c, NEW d,
           Four(bytes, i, a, b, c, d), NEW A, NEW B
    PROVE  /\ Len(<<A, B>>) = 2
           /\ StandsAt(<<A, B>>, bytes, i) <=> i + 1 <= Len(bytes) /\ a \in A /\ b \in B
<1>1. /\ Len(<<A, B>>) = 2 /\ <<A, B>>[1] = A /\ <<A, B>>[2] = B /\ 1 .. 2 = {1, 2}
      /\ i + 1 - 1 = i /\ i + 2 - 1 = i + 1
    BY SMT
<1>2. i + 2 <= Len(bytes) + 1 <=> i + 1 <= Len(bytes)
    BY SMT
<1> QED BY <1>1, <1>2, Zenon DEF StandsAt, Four

LEMMA RowOfThree ==
    ASSUME NEW bytes, Len(bytes) \in Nat, NEW i \in Nat, NEW a, NEW b, NEW c, NEW d,
           Four(bytes, i, a, b, c, d), NEW A, NEW B, NEW C
    PROVE  /\ Len(<<A, B, C>>) = 3
           /\ StandsAt(<<A, B, C>>, bytes, i)
                 <=> i + 2 <= Len(bytes) /\ a \in A /\ b \in B /\ c \in C
<1>1. /\ Len(<<A, B, C>>) = 3 /\ 1 .. 3 = {1, 2, 3}
      /\ <<A, B, C>>[1] = A /\ <<A, B, C>>[2] = B /\ <<A, B, C>>[3] = C
      /\ i + 1 - 1 = i /\ i + 2 - 1 = i + 1 /\ i + 3 - 1 = i + 2
    BY SMT
<1>2. i + 3 <= Len(bytes) + 1 <=> i + 2 <= Len(bytes)
    BY SMT
<1> QED BY <1>1, <1>2, Zenon DEF StandsAt, Four

LEMMA RowOfFour ==
    ASSUME NEW bytes, Len(bytes) \in Nat, NEW i \in Nat, NEW a, NEW b, NEW c, NEW d,
           Four(bytes, i, a, b, c, d), NEW A, NEW B, NEW C, NEW D
    PROVE  /\ Len(<<A, B, C, D>>) = 4
           /\ StandsAt(<<A, B, C, D>>, bytes, i)
                 <=> i + 3 <= Len(bytes) /\ a \in A /\ b \in B /\ c \in C /\ d \in D
<1>1. /\ Len(<<A, B, C, D>>) = 4 /\ 1 .. 4 = {1, 2, 3, 4}
      /\ <<A, B, C, D>>[1] = A /\ <<A, B, C, D>>[2] = B
      /\ <<A, B, C, D>>[3] = C /\ <<A, B, C, D>>[4] = D
      /\ i + 1 - 1 = i /\ i + 2 - 1 = i + 1 /\ i + 3 - 1 = i + 2 /\ i + 4 - 1 = i + 3
    BY SMT
<1>2. i + 4 <= Len(bytes) + 1 <=> i + 3 <= Len(bytes)
    BY SMT
<1> QED BY <1>1, <1>2, Zenon DEF StandsAt, Four

(* Some row of a set stands at i just if the character there is so long. *)
Rows(rows, bytes, i, length, leads, follow) ==
    /\ \A row \in rows : Len(row) = length + 1
    /\ (\E row \in rows : StandsAt(row, bytes, i))
          <=> i + length <= Len(bytes) /\ bytes[i] \in leads /\ follow

LEMMA OneRowsAre ==
    ASSUME NEW bytes, Len(bytes) \in Nat, NEW i \in Nat, NEW a, NEW b, NEW c, NEW d,
           Four(bytes, i, a, b, c, d)
    PROVE  Rows(OneRows, bytes, i, 0, OneLeads, TRUE)
<1> DEFINE A == 0 .. 127
<1>1. OneRows = {<<A>>} /\ OneLeads = A
    BY DEF OneRows, OneLeads
<1> HIDE DEF A
<1>2. Len(<<A>>) = 0 + 1 /\ (StandsAt(<<A>>, bytes, i) <=> i + 0 <= Len(bytes) /\ a \in A)
    BY RowOfOne
<1> QED BY <1>1, <1>2, Zenon DEF Rows, Four

LEMMA TwoRowsAre ==
    ASSUME NEW bytes, Len(bytes) \in Nat, NEW i \in Nat, NEW a, NEW b, NEW c, NEW d,
           Four(bytes, i, a, b, c, d)
    PROVE  Rows(TwoRows, bytes, i, 1, TwoLeads, b \in Continuation)
<1> DEFINE A == 194 .. 223
           B == 128 .. 191
<1>1. TwoRows = {<<A, B>>} /\ TwoLeads = A /\ Continuation = B
    BY DEF TwoRows, TwoLeads, Continuation
<1> HIDE DEF A, B
<1>2. /\ Len(<<A, B>>) = 1 + 1
      /\ StandsAt(<<A, B>>, bytes, i) <=> i + 1 <= Len(bytes) /\ a \in A /\ b \in B
    BY RowOfTwo
<1> QED BY <1>1, <1>2, Zenon DEF Rows, Four

LEMMA ThreeRowsAre ==
    ASSUME NEW bytes, Len(bytes) \in Nat, NEW i \in Nat, NEW a, NEW b, NEW c, NEW d,
           Four(bytes, i, a, b, c, d)
    PROVE  Rows(ThreeRows, bytes, i, 2, ThreeLeads,
                b \in Continuation /\ c \in Continuation /\ Bounds3(a, b))
<1> DEFINE A1 == {224}
           B1 == 160 .. 191
           A2 == 225 .. 236
           A3 == {237}
           B3 == 128 .. 159
           A4 == 238 .. 239
           C == 128 .. 191
<1>1. /\ ThreeRows = {<<A1, B1, C>>, <<A2, C, C>>, <<A3, B3, C>>, <<A4, C, C>>}
      /\ Continuation = C
    BY DEF ThreeRows, Continuation
<1>2. a \in ThreeLeads /\ b \in C /\ Bounds3(a, b) <=>
          \/ a \in A1 /\ b \in B1
          \/ a \in A2 /\ b \in C
          \/ a \in A3 /\ b \in B3
          \/ a \in A4 /\ b \in C
    <2>1. ASSUME a \in ThreeLeads, b \in C, Bounds3(a, b)
          PROVE  \/ a \in A1 /\ b \in B1
                 \/ a \in A2 /\ b \in C
                 \/ a \in A3 /\ b \in B3
                 \/ a \in A4 /\ b \in C
        BY <2>1, SMT DEF ThreeLeads, Bounds3
    <2>2. ASSUME a \in A1, b \in B1 PROVE a \in ThreeLeads /\ b \in C /\ Bounds3(a, b)
        BY <2>2, SMT DEF ThreeLeads, Bounds3
    <2>3. ASSUME a \in A2, b \in C PROVE a \in ThreeLeads /\ b \in C /\ Bounds3(a, b)
        BY <2>3, SMT DEF ThreeLeads, Bounds3
    <2>4. ASSUME a \in A3, b \in B3 PROVE a \in ThreeLeads /\ b \in C /\ Bounds3(a, b)
        BY <2>4, SMT DEF ThreeLeads, Bounds3
    <2>5. ASSUME a \in A4, b \in C PROVE a \in ThreeLeads /\ b \in C /\ Bounds3(a, b)
        BY <2>5, SMT DEF ThreeLeads, Bounds3
    <2> HIDE DEF A1, B1, A2, A3, B3, A4, C
    <2> QED BY <2>1, <2>2, <2>3, <2>4, <2>5, Zenon
<1> HIDE DEF A1, B1, A2, A3, B3, A4, C
<1>3. \A A, B : /\ Len(<<A, B, C>>) = 2 + 1
                /\ StandsAt(<<A, B, C>>, bytes, i)
                      <=> i + 2 <= Len(bytes) /\ a \in A /\ b \in B /\ c \in C
    BY RowOfThree
<1>4. \A row \in ThreeRows : Len(row) = 2 + 1
    BY <1>1, <1>3, Zenon
<1>5. (\E row \in ThreeRows : StandsAt(row, bytes, i)) <=>
          /\ i + 2 <= Len(bytes)
          /\ c \in C
          /\ \/ a \in A1 /\ b \in B1
             \/ a \in A2 /\ b \in C
             \/ a \in A3 /\ b \in B3
             \/ a \in A4 /\ b \in C
    BY <1>1, <1>3, Zenon
<1> QED BY <1>1, <1>2, <1>4, <1>5, Zenon DEF Rows, Four

LEMMA FourRowsAre ==
    ASSUME NEW bytes, Len(bytes) \in Nat, NEW i \in Nat, NEW a, NEW b, NEW c, NEW d,
           Four(bytes, i, a, b, c, d)
    PROVE  Rows(FourRows, bytes, i, 3, FourLeads,
                b \in Continuation /\ c \in Continuation /\ d \in Continuation /\ Bounds4(a, b))
<1> DEFINE A1 == {240}
           B1 == 144 .. 191
           A2 == 241 .. 243
           A3 == {244}
           B3 == 128 .. 143
           C == 128 .. 191
<1>1. /\ FourRows = {<<A1, B1, C, C>>, <<A2, C, C, C>>, <<A3, B3, C, C>>}
      /\ Continuation = C
    BY DEF FourRows, Continuation
<1>2. a \in FourLeads /\ b \in C /\ Bounds4(a, b) <=>
          \/ a \in A1 /\ b \in B1
          \/ a \in A2 /\ b \in C
          \/ a \in A3 /\ b \in B3
    <2>1. ASSUME a \in FourLeads, b \in C, Bounds4(a, b)
          PROVE  \/ a \in A1 /\ b \in B1
                 \/ a \in A2 /\ b \in C
                 \/ a \in A3 /\ b \in B3
        BY <2>1, SMT DEF FourLeads, Bounds4
    <2>2. ASSUME a \in A1, b \in B1 PROVE a \in FourLeads /\ b \in C /\ Bounds4(a, b)
        BY <2>2, SMT DEF FourLeads, Bounds4
    <2>3. ASSUME a \in A2, b \in C PROVE a \in FourLeads /\ b \in C /\ Bounds4(a, b)
        BY <2>3, SMT DEF FourLeads, Bounds4
    <2>4. ASSUME a \in A3, b \in B3 PROVE a \in FourLeads /\ b \in C /\ Bounds4(a, b)
        BY <2>4, SMT DEF FourLeads, Bounds4
    <2> HIDE DEF A1, B1, A2, A3, B3, C
    <2> QED BY <2>1, <2>2, <2>3, <2>4, Zenon
<1> HIDE DEF A1, B1, A2, A3, B3, C
<1>3. \A A, B : /\ Len(<<A, B, C, C>>) = 3 + 1
                /\ StandsAt(<<A, B, C, C>>, bytes, i)
                      <=> i + 3 <= Len(bytes) /\ a \in A /\ b \in B /\ c \in C /\ d \in C
    BY RowOfFour
<1>4. \A row \in FourRows : Len(row) = 3 + 1
    BY <1>1, <1>3, Zenon
<1>5. (\E row \in FourRows : StandsAt(row, bytes, i)) <=>
          /\ i + 3 <= Len(bytes)
          /\ c \in C /\ d \in C
          /\ \/ a \in A1 /\ b \in B1
             \/ a \in A2 /\ b \in C
             \/ a \in A3 /\ b \in B3
    BY <1>1, <1>3, Zenon
<1> QED BY <1>1, <1>2, <1>4, <1>5, Zenon DEF Rows, Four

(* The characters that begin with some bytes are some rows. *)
Matches(rows, bytes, i, length, leads) ==
    /\ bytes[i] \in leads =>
          /\ LeadOf(bytes[i]).count = length
          /\ IsCharacter(bytes, i) => \E row \in rows : StandsAt(row, bytes, i)
    /\ \A row \in rows : StandsAt(row, bytes, i) =>
          IsCharacter(bytes, i) /\ Len(row) = LeadOf(bytes[i]).count + 1

LEMMA RowsMatch ==
    ASSUME NEW bytes, NEW i, NEW rows, NEW length, NEW leads, NEW follow,
           Rows(rows, bytes, i, length, leads, follow),
           bytes[i] \in leads =>
               /\ LeadOf(bytes[i]).count = length
               /\ IsCharacter(bytes, i) <=> i + length <= Len(bytes) /\ follow
    PROVE  Matches(rows, bytes, i, length, leads)
BY Zenon DEF Matches, Rows

LEMMA CharacterIsRow ==
    ASSUME NEW bytes \in Seq(Byte), NEW i \in 1 .. Len(bytes)
    PROVE  /\ IsCharacter(bytes, i) => \E row \in WellFormedRows : StandsAt(row, bytes, i)
           /\ \A row \in WellFormedRows : StandsAt(row, bytes, i) =>
                 IsCharacter(bytes, i) /\ Len(row) = LeadOf(bytes[i]).count + 1
<1>1. PICK a, b, c, d : Four(bytes, i, a, b, c, d)
    BY Zenon DEF Four
<1>2. i \in Nat /\ Len(bytes) \in Nat /\ bytes[i] \in Byte
    BY ByteFacts
<1>3. a = bytes[i]
    BY <1>1, Zenon DEF Four
<1>4. Matches(OneRows, bytes, i, 0, OneLeads)
    <2>1. Rows(OneRows, bytes, i, 0, OneLeads, TRUE)
        BY <1>1, <1>2, OneRowsAre, Zenon
    <2>2. bytes[i] \in OneLeads =>
              /\ LeadOf(bytes[i]).count = 0
              /\ IsCharacter(bytes, i) <=> i + 0 <= Len(bytes) /\ TRUE
        BY <1>1, <1>3, IsOneByte, Zenon
    <2> QED BY <2>1, <2>2, RowsMatch, Zenon
<1>5. Matches(TwoRows, bytes, i, 1, TwoLeads)
    <2> DEFINE follow == b \in Continuation
    <2>1. Rows(TwoRows, bytes, i, 1, TwoLeads, follow)
        BY <1>1, <1>2, TwoRowsAre, Zenon
    <2>2. bytes[i] \in TwoLeads =>
              /\ LeadOf(bytes[i]).count = 1
              /\ IsCharacter(bytes, i) <=> i + 1 <= Len(bytes) /\ follow
        BY <1>1, <1>3, IsTwoBytes, Zenon
    <2> HIDE DEF follow
    <2> QED BY <2>1, <2>2, RowsMatch, Zenon
<1>6. Matches(ThreeRows, bytes, i, 2, ThreeLeads)
    <2> DEFINE follow == b \in Continuation /\ c \in Continuation /\ Bounds3(a, b)
    <2>1. Rows(ThreeRows, bytes, i, 2, ThreeLeads, follow)
        BY <1>1, <1>2, ThreeRowsAre, Zenon
    <2>2. bytes[i] \in ThreeLeads =>
              /\ LeadOf(bytes[i]).count = 2
              /\ IsCharacter(bytes, i) <=> i + 2 <= Len(bytes) /\ follow
        BY <1>1, <1>3, IsThreeBytes, Zenon
    <2> HIDE DEF follow
    <2> QED BY <2>1, <2>2, RowsMatch, Zenon
<1>7. Matches(FourRows, bytes, i, 3, FourLeads)
    <2> DEFINE follow ==
               b \in Continuation /\ c \in Continuation /\ d \in Continuation /\ Bounds4(a, b)
    <2>1. Rows(FourRows, bytes, i, 3, FourLeads, follow)
        BY <1>1, <1>2, FourRowsAre, Zenon
    <2>2. bytes[i] \in FourLeads =>
              /\ LeadOf(bytes[i]).count = 3
              /\ IsCharacter(bytes, i) <=> i + 3 <= Len(bytes) /\ follow
        BY <1>1, <1>3, IsFourBytes, Zenon
    <2> HIDE DEF follow
    <2> QED BY <2>1, <2>2, RowsMatch, Zenon
<1>8. bytes[i] \in NoLeads => ~IsCharacter(bytes, i)
    BY <1>1, <1>3, IsNoCharacter, Zenon
<1>9. \/ bytes[i] \in OneLeads \/ bytes[i] \in TwoLeads \/ bytes[i] \in ThreeLeads
      \/ bytes[i] \in FourLeads \/ bytes[i] \in NoLeads
    <2>1. \A x \in Byte : \/ x \in OneLeads \/ x \in TwoLeads \/ x \in ThreeLeads
                           \/ x \in FourLeads \/ x \in NoLeads
        BY SMT DEF Byte, OneLeads, TwoLeads, ThreeLeads, FourLeads, NoLeads
    <2> QED BY <1>2, <2>1, Zenon
<1> QED BY <1>4, <1>5, <1>6, <1>7, <1>8, <1>9, RowsAre, Zenon DEF Matches

-----------------------------------------------------------------------------
(* The loop of valid_utf8. *)

LEMMA LeadCount ==
    ASSUME NEW byte PROVE LeadOf(byte).count \in 0 .. 3
BY SMT DEF LeadOf, Lead

LEMMA NextIs ==
    ASSUME NEW bytes \in Seq(Byte), NEW i \in 0 .. Len(bytes) + 1
    PROVE  /\ NextCharacter(bytes, i) \in 0 .. Len(bytes) + 1
           /\ i \notin 1 .. Len(bytes) => NextCharacter(bytes, i) = i
           /\ i \in 1 .. Len(bytes) /\ IsCharacter(bytes, i) =>
                 NextCharacter(bytes, i) = i + LeadOf(bytes[i]).count + 1
           /\ i \in 1 .. Len(bytes) /\ ~IsCharacter(bytes, i) => NextCharacter(bytes, i) = 0
<1>1. Len(bytes) \in Nat /\ DOMAIN bytes = 1 .. Len(bytes)
    BY ByteFacts
<1>2. CASE i \notin 1 .. Len(bytes)
    BY <1>1, <1>2, Zenon DEF NextCharacter
<1>3. CASE i \in 1 .. Len(bytes) /\ IsCharacter(bytes, i)
    <2>1. NextCharacter(bytes, i) = i + LeadOf(bytes[i]).count + 1
        BY <1>1, <1>3, Zenon DEF NextCharacter
    <2>2. i + LeadOf(bytes[i]).count <= Len(bytes)
        BY <1>3, Zenon DEF IsCharacter
    <2> DEFINE count == LeadOf(bytes[i]).count
    <2>3. count \in 0 .. 3
        BY LeadCount, Zenon
    <2> HIDE DEF count
    <2>4. i + count + 1 \in 0 .. Len(bytes) + 1
        BY <1>1, <2>2, <2>3, SMT DEF count
    <2> QED BY <1>3, <2>1, <2>4, Zenon DEF count
<1>4. CASE i \in 1 .. Len(bytes) /\ ~IsCharacter(bytes, i)
    <2>1. NextCharacter(bytes, i) = 0
        BY <1>1, <1>4, Zenon DEF NextCharacter
    <2>2. 0 \in 0 .. Len(bytes) + 1
        BY <1>1
    <2> QED BY <1>4, <2>1, <2>2, Zenon
<1> QED BY <1>2, <1>3, <1>4, Zenon

(* index is where each turn of the loop begins. *)
Visits(index, bytes) ==
    /\ index[0] = 1
    /\ \A n \in 1 .. Len(bytes) : index[n] = NextCharacter(bytes, index[n - 1])
    /\ \A n \in 0 .. Len(bytes) : index[n] \in 0 .. Len(bytes) + 1

(* The recursion in ValidUtf8 is sound. *)
LEMMA IndexIs ==
    ASSUME NEW bytes \in Seq(Byte)
    PROVE  \E index : Visits(index, bytes) /\ (ValidUtf8(bytes) <=> index[Len(bytes)] = Len(bytes) + 1)
<1> DEFINE last == Len(bytes)
           S == 0 .. last + 1
           step == [p \in S \X (1 .. last) |-> NextCharacter(bytes, p[1])]
           UpTo(f) == f = [n \in 0 .. last |-> IF n = 0 THEN 1 ELSE NextCharacter(bytes, f[n - 1])]
           upTo == CHOOSE f : UpTo(f)
<1>1. last \in Nat /\ 1 \in S
    BY ByteFacts
<1>2. step \in [S \X (1 .. last) -> S]
    <2>1. ASSUME NEW p \in S \X (1 .. last) PROVE NextCharacter(bytes, p[1]) \in S
        BY NextIs
    <2> QED BY <2>1
<1>3. PICK f \in [0 .. last -> S] : Steps(f, last, 1, step)
    <2> HIDE DEF step, last, S
    <2> QED BY <1>1, <1>2, Recursion
<1>4. ASSUME NEW n \in 0 .. last, n # 0
      PROVE  step[<<f[n - 1], n>>] = NextCharacter(bytes, f[n - 1])
    <2>1. n - 1 \in 0 .. last /\ n \in 1 .. last
        BY <1>1, <1>4
    <2>2. <<f[n - 1], n>> \in S \X (1 .. last)
        BY <1>3, <2>1
    <2> QED BY <2>2
<1>5. UpTo(f)
    <2>1. \A n \in 0 .. last : f[n] = IF n = 0 THEN 1 ELSE step[<<f[n - 1], n>>]
        BY <1>3, Zenon DEF Steps
    <2> HIDE DEF step
    <2> QED BY <1>3, <1>4, <2>1
<1>6. UpTo(upTo)
    <2> HIDE DEF UpTo
    <2> QED BY <1>5
<1>7. ValidUtf8(bytes) <=> upTo[last] = last + 1
    BY DEF ValidUtf8
<1> HIDE DEF step, upTo
<1>8. /\ upTo[0] = 1
      /\ \A n \in 1 .. last : upTo[n] = NextCharacter(bytes, upTo[n - 1])
    <2>1. \A n \in 0 .. last : upTo[n] = IF n = 0 THEN 1 ELSE NextCharacter(bytes, upTo[n - 1])
        BY <1>6, Zenon
    <2>2. 0 \in 0 .. last /\ \A n \in 1 .. last : n \in 0 .. last /\ n # 0
        BY <1>1
    <2> QED BY <2>1, <2>2, Zenon
<1> HIDE DEF UpTo
<1> DEFINE T == {n \in 0 .. last : upTo[n] \in S}
<1>9. 0 \in T
    BY <1>1, <1>8
<1>10. ASSUME NEW n \in 0 .. last - 1, n \in T PROVE n + 1 \in T
    <2>1. n + 1 \in 1 .. last /\ (n + 1) - 1 = n /\ upTo[n] \in S
        BY <1>1, <1>10
    <2>2. upTo[n + 1] = NextCharacter(bytes, upTo[n])
        BY <1>8, <2>1
    <2>3. upTo[n + 1] \in S
        BY <2>1, <2>2, NextIs
    <2> QED BY <1>1, <2>1, <2>3
<1> HIDE DEF T
<1>11. 0 .. last \subseteq T
    BY <1>1, <1>9, <1>10, BoundedInduction
<1>12. \A n \in 0 .. last : upTo[n] \in S
    BY <1>11 DEF T
<1>13. Visits(upTo, bytes)
    BY <1>8, <1>12 DEF Visits
<1> QED BY <1>7, <1>13

(* A sequence of rows is what the loop goes through. *)
LEMMA WellFormedIsValid ==
    ASSUME NEW bytes \in Seq(Byte), WellFormed(bytes)
    PROVE  ValidUtf8(bytes)
<1> DEFINE last == Len(bytes)
<1>1. last \in Nat
    BY ByteFacts
<1>2. PICK index : Visits(index, bytes) /\ (ValidUtf8(bytes) <=> index[last] = last + 1)
    BY IndexIs
<1>3. PICK starts \in SUBSET (1 .. last + 1) :
          /\ 1 \in starts
          /\ \A i \in starts \ {last + 1} :
                \E row \in WellFormedRows : StandsAt(row, bytes, i) /\ i + Len(row) \in starts
    BY Zenon DEF WellFormed
<1> DEFINE T == {n \in 0 .. last : index[n] \in starts /\ (index[n] >= n + 1 \/ index[n] = last + 1)}
<1>4. 0 \in T
    BY <1>1, <1>2, <1>3 DEF Visits
<1>5. ASSUME NEW n \in 0 .. last - 1, n \in T PROVE n + 1 \in T
    <2>1. /\ n + 1 \in 1 .. last /\ (n + 1) - 1 = n /\ n + 1 \in 0 .. last
          /\ index[n] \in starts /\ (index[n] >= n + 1 \/ index[n] = last + 1)
        BY <1>1, <1>5
    <2>2. index[n + 1] = NextCharacter(bytes, index[n])
        BY <1>2, <2>1 DEF Visits
    <2> HIDE DEF T
    <2> DEFINE i == index[n]
    <2>3. i \in 1 .. last + 1 /\ i \in 0 .. last + 1
        <3>1. i \in 1 .. last + 1
            BY <1>3, <2>1, Zenon
        <3> HIDE DEF i
        <3> QED BY <1>1, <3>1
    <2>4. CASE i = last + 1
        <3>1. i \notin 1 .. last
            BY <1>1, <2>4
        <3>2. index[n + 1] = i
            BY <2>2, <2>3, <3>1, NextIs, Zenon
        <3> QED BY <2>1, <2>4, <3>2, Zenon DEF T
    <2>5. CASE i # last + 1
        <3>1. PICK row \in WellFormedRows : StandsAt(row, bytes, i) /\ i + Len(row) \in starts
            BY <1>3, <2>1, <2>5
        <3>2. i \in 1 .. last
            BY <1>1, <2>3, <2>5
        <3>3. IsCharacter(bytes, i) /\ Len(row) = LeadOf(bytes[i]).count + 1
            BY <3>1, <3>2, CharacterIsRow, Zenon
        <3>4. index[n + 1] = i + LeadOf(bytes[i]).count + 1
            BY <2>2, <2>3, <3>2, <3>3, NextIs, Zenon
        <3> DEFINE count == LeadOf(bytes[i]).count
        <3>5. count \in 0 .. 3
            BY LeadCount, Zenon
        <3> HIDE DEF count, i
        <3>6. index[n + 1] = i + Len(row) /\ index[n + 1] >= i + 1
            BY <2>3, <3>3, <3>4, <3>5, SMT DEF count
        <3>7. i >= n + 1
            BY <2>1, <2>5, Zenon DEF i
        <3>8. index[n + 1] >= (n + 1) + 1
            <4> DEFINE next == index[n + 1]
            <4>1. next \in 1 .. last + 1
                BY <1>3, <3>1, <3>6, Zenon
            <4> HIDE DEF next
            <4> QED BY <2>1, <2>3, <3>6, <3>7, <4>1, SMT DEF next
        <3>9. index[n + 1] \in starts
            BY <3>1, <3>6, Zenon
        <3> QED BY <2>1, <3>8, <3>9, Zenon DEF T
    <2> QED BY <2>4, <2>5
<1> HIDE DEF T
<1>6. 0 .. last \subseteq T
    BY <1>1, <1>4, <1>5, BoundedInduction
<1>7. index[last] \in starts /\ (index[last] >= last + 1 \/ index[last] = last + 1)
    BY <1>1, <1>6 DEF T
<1>8. index[last] = last + 1
    <2>1. index[last] \in 1 .. last + 1
        BY <1>3, <1>7, Zenon
    <2> QED BY <1>1, <1>7, <2>1
<1> QED BY <1>2, <1>8

(* What the loop goes through is a sequence of rows. *)
LEMMA ValidIsWellFormed ==
    ASSUME NEW bytes \in Seq(Byte), ValidUtf8(bytes)
    PROVE  WellFormed(bytes)
<1> DEFINE last == Len(bytes)
<1>1. last \in Nat
    BY ByteFacts
<1>2. PICK index : Visits(index, bytes) /\ index[last] = last + 1
    BY IndexIs
<1> DEFINE starts == {index[n] : n \in 0 .. last}
           T == {k \in 0 .. last : index[last - k] # 0}
<1>3. 0 \in T
    BY <1>1, <1>2
<1>4. ASSUME NEW k \in 0 .. last - 1, k \in T PROVE k + 1 \in T
    <2>1. /\ last - k \in 1 .. last /\ (last - k) - 1 = last - (k + 1) /\ index[last - k] # 0
          /\ k + 1 \in 0 .. last
        BY <1>1, <1>4
    <2> HIDE DEF T
    <2> DEFINE i == index[last - (k + 1)]
    <2>2. index[last - k] = NextCharacter(bytes, i)
        BY <1>2, <2>1, Zenon DEF Visits
    <2>3. 0 \in 0 .. last + 1 /\ 0 \notin 1 .. last
        BY <1>1
    <2>4. NextCharacter(bytes, 0) = 0
        BY <2>3, NextIs, Zenon
    <2>5. i # 0
        BY <2>1, <2>2, <2>4, Zenon
    <2> QED BY <2>1, <2>5, Zenon DEF T
<1> HIDE DEF T
<1>5. 0 .. last \subseteq T
    BY <1>1, <1>3, <1>4, BoundedInduction
<1>6. ASSUME NEW n \in 0 .. last PROVE index[n] \in 1 .. last + 1
    <2>1. last - n \in 0 .. last /\ last - (last - n) = n
        BY <1>1
    <2>2. index[n] # 0
        BY <1>5, <2>1 DEF T
    <2>3. index[n] \in 0 .. last + 1
        BY <1>2, Zenon DEF Visits
    <2> QED BY <1>1, <2>2, <2>3
<1>7. starts \in SUBSET (1 .. last + 1)
    BY <1>6, Zenon
<1>8. 1 \in starts
    <2>1. 0 \in 0 .. last /\ index[0] = 1
        BY <1>1, <1>2 DEF Visits
    <2> QED BY <2>1, Zenon
<1>9. ASSUME NEW i \in starts \ {last + 1}
      PROVE  \E row \in WellFormedRows : StandsAt(row, bytes, i) /\ i + Len(row) \in starts
    <2>1. PICK n \in 0 .. last : i = index[n]
        OBVIOUS
    <2>2. i \in 1 .. last + 1 /\ i # last + 1 /\ i # index[last]
        BY <1>2, <1>6, <2>1, Zenon
    <2>3. i \in 1 .. last /\ i \in 0 .. last + 1
        BY <1>1, <2>2
    <2>4. n + 1 \in 1 .. last /\ n + 1 \in 0 .. last /\ (n + 1) - 1 = n
        BY <1>1, <2>1, <2>2
    <2>5. index[n + 1] = NextCharacter(bytes, i)
        BY <1>2, <2>1, <2>4 DEF Visits
    <2>6. index[n + 1] # 0
        BY <1>1, <1>6, <2>4
    <2>7. IsCharacter(bytes, i)
        BY <2>3, <2>5, <2>6, NextIs, Zenon
    <2>8. index[n + 1] = i + LeadOf(bytes[i]).count + 1
        BY <2>3, <2>5, <2>7, NextIs, Zenon
    <2>9. PICK row \in WellFormedRows : StandsAt(row, bytes, i) /\ Len(row) = LeadOf(bytes[i]).count + 1
        BY <2>3, <2>7, CharacterIsRow, Zenon
    <2> DEFINE count == LeadOf(bytes[i]).count
    <2>10. count \in 0 .. 3
        BY LeadCount, Zenon
    <2> HIDE DEF count
    <2>11. i + Len(row) = index[n + 1]
        BY <1>1, <2>3, <2>8, <2>9, <2>10, SMT DEF count
    <2>12. index[n + 1] \in starts
        BY <2>4, Zenon
    <2> QED BY <2>9, <2>11, <2>12, Zenon
<1> HIDE DEF starts
<1> QED BY <1>7, <1>8, <1>9, Zenon DEF WellFormed

-----------------------------------------------------------------------------
(* JSON strings: what is written for a byte is read as that byte. *)

Pairs == Letters \union {<<47, 47>>}

LEMMA PairFacts ==
    /\ \A pair \in Pairs : pair[1] \in Byte /\ pair[2] \in Byte /\ pair[2] # 117
    /\ \A pair, other \in Pairs : pair[1] = other[1] => pair = other
    /\ \A pair, other \in Pairs : pair[2] = other[2] => pair = other
<1>1. \A pair \in Pairs :
          \/ pair = <<8, 98>> \/ pair = <<9, 116>> \/ pair = <<10, 110>> \/ pair = <<12, 102>>
          \/ pair = <<13, 114>> \/ pair = <<34, 34>> \/ pair = <<92, 92>> \/ pair = <<47, 47>>
    BY SMT DEF Pairs, Letters, Quote, Backslash
<1>2. \A pair \in Pairs :
          \/ pair[1] = 8 /\ pair[2] = 98 /\ pair = <<8, 98>>
          \/ pair[1] = 9 /\ pair[2] = 116 /\ pair = <<9, 116>>
          \/ pair[1] = 10 /\ pair[2] = 110 /\ pair = <<10, 110>>
          \/ pair[1] = 12 /\ pair[2] = 102 /\ pair = <<12, 102>>
          \/ pair[1] = 13 /\ pair[2] = 114 /\ pair = <<13, 114>>
          \/ pair[1] = 34 /\ pair[2] = 34 /\ pair = <<34, 34>>
          \/ pair[1] = 92 /\ pair[2] = 92 /\ pair = <<92, 92>>
          \/ pair[1] = 47 /\ pair[2] = 47 /\ pair = <<47, 47>>
    BY <1>1, SMT
<1>3. \A pair \in Pairs : pair[1] \in Byte /\ pair[2] \in Byte /\ pair[2] # 117
    BY <1>2, SMT DEF Byte
<1>4. \A pair, other \in Pairs : pair[1] = other[1] => pair = other
    BY <1>2, SMT
<1>5. \A pair, other \in Pairs : pair[2] = other[2] => pair = other
    BY <1>2, SMT
<1> QED BY <1>3, <1>4, <1>5, Zenon

(* The letters that stand for bytes that are written so. *)
LEMMA LetteredBytes ==
    /\ \E pair \in Letters : pair[1] = Quote
    /\ \E pair \in Letters : pair[1] = Backslash
<1>1. <<Quote, Quote>> \in Letters /\ <<Backslash, Backslash>> \in Letters
    BY Zenon DEF Letters
<1>2. <<Quote, Quote>>[1] = Quote /\ <<Backslash, Backslash>>[1] = Backslash
    OBVIOUS
<1> QED BY <1>1, <1>2, Zenon

(* Two digits that spell a control character. *)
HexParts(byte, high, low) ==
    /\ high \in Byte /\ low \in Byte
    /\ HexValue(high) \in 0 .. 1 /\ HexValue(low) \in 0 .. 15
    /\ byte = 16 * HexValue(high) + HexValue(low)

LEMMA HexFacts ==
    ASSUME NEW byte \in 0 .. 31
    PROVE  HexParts(byte, HexDigit(byte \div 16), HexDigit(byte % 16))
<1> DEFINE h == byte \div 16
           l == byte % 16
<1>1. h \in 0 .. 1 /\ l \in 0 .. 15 /\ byte = 16 * h + l
    BY SMT
<1> HIDE DEF h, l
<1>2. \A n \in 0 .. 15 : HexDigit(n) \in Byte /\ HexValue(HexDigit(n)) = n
    BY SMT DEF HexDigit, HexValue, Byte
<1>3. h \in 0 .. 15
    BY <1>1, SMT
<1>4. /\ HexDigit(h) \in Byte /\ HexDigit(l) \in Byte
      /\ HexValue(HexDigit(h)) = h /\ HexValue(HexDigit(l)) = l
    BY <1>1, <1>2, <1>3, Zenon
<1>5. HexParts(byte, HexDigit(h), HexDigit(l))
    BY <1>1, <1>4, Zenon DEF HexParts
<1> QED BY <1>5, Zenon DEF h, l

(* What is written for a byte. *)
LetterPiece(byte, letter) == EscapedByte(byte) = <<Backslash, letter>> /\ <<byte, letter>> \in Letters
HexPiece(byte, high, low) ==
    /\ EscapedByte(byte) = <<Backslash, 117, 48, 48, high, low>>
    /\ HexParts(byte, high, low)
PlainPiece(byte) ==
    EscapedByte(byte) = <<byte>> /\ byte >= 32 /\ byte # Quote /\ byte # Backslash

LEMMA EscapedByteIs ==
    ASSUME NEW byte \in Byte
    PROVE  \/ \E letter \in Byte : LetterPiece(byte, letter)
           \/ byte < 32 /\ \E high, low : HexPiece(byte, high, low)
           \/ PlainPiece(byte)
<1>1. CASE \E pair \in Letters : pair[1] = byte
    <2> DEFINE pair == CHOOSE p \in Letters : p[1] = byte
    <2>1. pair \in Letters /\ pair[1] = byte
        BY <1>1
    <2>2. EscapedByte(byte) = <<Backslash, pair[2]>>
        BY <1>1, Zenon DEF EscapedByte
    <2> HIDE DEF pair
    <2>3. pair \in Pairs
        BY <2>1, Zenon DEF Pairs
    <2>4. pair = <<pair[1], pair[2]>>
        BY <2>1, SMT DEF Letters
    <2>5. pair[2] \in Byte
        BY <2>3, PairFacts, Zenon
    <2> QED BY <2>1, <2>2, <2>4, <2>5, Zenon DEF LetterPiece
<1>2. CASE ~(\E pair \in Letters : pair[1] = byte) /\ byte < 32
    <2>1. EscapedByte(byte)
              = <<Backslash, 117, 48, 48, HexDigit(byte \div 16), HexDigit(byte % 16)>>
        BY <1>2, Zenon DEF EscapedByte
    <2>2. byte \in 0 .. 31
        BY <1>2, SMT DEF Byte
    <2> QED BY <1>2, <2>1, <2>2, HexFacts, Zenon DEF HexPiece
<1>3. CASE ~(\E pair \in Letters : pair[1] = byte) /\ ~(byte < 32)
    <2>1. EscapedByte(byte) = <<byte>>
        BY <1>3, Zenon DEF EscapedByte
    <2>2. byte # Quote /\ byte # Backslash
        BY <1>3, LetteredBytes, Zenon
    <2>3. byte >= 32
        BY <1>3, SMT DEF Byte
    <2> QED BY <2>1, <2>2, <2>3, Zenon DEF PlainPiece
<1> QED BY <1>1, <1>2, <1>3, Zenon

LEMMA EscapedByteTyped ==
    ASSUME NEW byte \in Byte
    PROVE  EscapedByte(byte) \in Seq(Byte) /\ Len(EscapedByte(byte)) \in Nat \ {0}
<1>2. Backslash \in Byte /\ 117 \in Byte /\ 48 \in Byte
    BY SMT DEF Backslash, Byte
<1>4. CASE \E letter \in Byte : LetterPiece(byte, letter)
    <2>1. PICK letter \in Byte : EscapedByte(byte) = <<Backslash, letter>>
        BY <1>4, Zenon DEF LetterPiece
    <2>2. <<Backslash, letter>> \in Seq(Byte) /\ Len(<<Backslash, letter>>) \in Nat \ {0}
        BY <1>2
    <2> QED BY <2>1, <2>2, Zenon
<1>5. CASE \E high, low : HexPiece(byte, high, low)
    <2>1. PICK high \in Byte, low \in Byte :
              EscapedByte(byte) = <<Backslash, 117, 48, 48, high, low>>
        BY <1>5, Zenon DEF HexPiece, HexParts
    <2> DEFINE piece == <<Backslash, 117, 48, 48, high, low>>
    <2>2. piece \in Seq(Byte) /\ Len(piece) \in Nat \ {0}
        BY <1>2
    <2> QED BY <2>1, <2>2, Zenon
<1>6. CASE PlainPiece(byte)
    <2>1. <<byte>> \in Seq(Byte) /\ Len(<<byte>>) \in Nat \ {0}
        OBVIOUS
    <2> QED BY <1>6, <2>1, Zenon DEF PlainPiece
<1> QED BY <1>4, <1>5, <1>6, EscapedByteIs, Zenon

(* What one turn of JsonParser.string does. *)
LEMMA ReadingIs ==
    ASSUME NEW bytes, NEW next
    PROVE  /\ Reading(bytes, next).error = "reading"
           /\ Reading(bytes, next).bytes = bytes
           /\ Reading(bytes, next).next = next
BY SMT DEF Reading

LEMMA EscapeTurn ==
    ASSUME NEW input, NEW bytes, NEW next, ByteAt(input, next) = Backslash
    PROVE  StringTurn(input, Reading(bytes, next)) = Escape(input, next, bytes)
<1> DEFINE read == Reading(bytes, next)
<1>1. Backslash # 256 /\ Backslash # Quote /\ ~(Backslash < 32)
    BY SMT DEF Quote, Backslash
<1>2. read.error = "reading" /\ read.bytes = bytes /\ read.next = next
    BY ReadingIs, Zenon
<1> HIDE DEF read
<1>3. StringTurn(input, read) = Escape(input, next, bytes)
    BY <1>1, <1>2, Zenon DEF StringTurn
<1> QED BY <1>3, Zenon DEF read

LEMMA PlainTurn ==
    ASSUME NEW input, NEW bytes, NEW next, NEW byte \in Byte, ByteAt(input, next) = byte,
           byte >= 32, byte # Quote, byte # Backslash
    PROVE  StringTurn(input, Reading(bytes, next)) = Reading(Append(bytes, byte), next + 1)
<1> DEFINE read == Reading(bytes, next)
<1>1. byte # 256 /\ ~(byte < 32)
    BY SMT DEF Byte
<1>2. read.error = "reading" /\ read.bytes = bytes /\ read.next = next
    BY ReadingIs, Zenon
<1> HIDE DEF read
<1>3. StringTurn(input, read) = Reading(Append(bytes, byte), next + 1)
    BY <1>1, <1>2, Zenon DEF StringTurn
<1> QED BY <1>3, Zenon DEF read

LEMMA QuoteTurn ==
    ASSUME NEW input, NEW bytes, NEW next, ByteAt(input, next) = Quote, ValidUtf8(bytes)
    PROVE  StringTurn(input, Reading(bytes, next)) = Text(bytes, next + 1)
<1> DEFINE read == Reading(bytes, next)
<1>1. Quote # 256
    BY SMT DEF Quote
<1>2. read.error = "reading" /\ read.bytes = bytes /\ read.next = next
    BY ReadingIs, Zenon
<1> HIDE DEF read
<1>3. StringTurn(input, read) = Text(bytes, next + 1)
    BY <1>1, <1>2, Zenon DEF StringTurn
<1> QED BY <1>3, Zenon DEF read

LEMMA DoneTurn ==
    ASSUME NEW input, NEW bytes, NEW next
    PROVE  StringTurn(input, Text(bytes, next)) = Text(bytes, next)
<1>1. Text(bytes, next).error # "reading"
    BY SMT DEF Text
<1> QED BY <1>1, Zenon DEF StringTurn

LEMMA LetterRead ==
    ASSUME NEW input, NEW i, NEW output, NEW byte, NEW letter, <<byte, letter>> \in Pairs,
           ByteAt(input, i + 1) = letter
    PROVE  Escape(input, i, output) = Reading(Append(output, byte), i + 2)
<1> DEFINE pair == <<byte, letter>>
           letters == {p \in Letters \union {<<47, 47>>} : p[2] = letter}
           chosen == CHOOSE p \in letters : TRUE
<1>1. pair[1] = byte /\ pair[2] = letter
    OBVIOUS
<1>2. pair \in Pairs
    OBVIOUS
<1> HIDE DEF pair
<1>3. pair \in letters
    BY <1>1, <1>2, Zenon DEF Pairs
<1>4. \A p \in letters : p = pair
    <2>1. \A p \in letters : p \in Pairs /\ p[2] = letter
        BY Zenon DEF Pairs
    <2> HIDE DEF letters
    <2> QED BY <1>1, <1>2, <2>1, PairFacts, Zenon
<1>5. letter # 117
    BY <1>1, <1>2, PairFacts, Zenon
<1>6. chosen = pair /\ letters # {}
    <2> HIDE DEF letters
    <2> QED BY <1>3, <1>4, Zenon
<1>7. Escape(input, i, output) = Reading(Append(output, chosen[1]), i + 2)
    BY <1>5, <1>6, Zenon DEF Escape
<1> HIDE DEF chosen, letters
<1> QED BY <1>1, <1>6, <1>7, Zenon

LEMMA ControlFacts ==
    ASSUME NEW byte \in Byte, byte < 32
    PROVE  byte \notin Surrogates /\ Utf8(byte) = <<byte>>
<1>1. byte <= 127 /\ byte < 55296
    BY SMT DEF Byte
<1> QED BY <1>1, SMT DEF Utf8, Surrogates

(* The four digits of a control character. *)
UnicodeAt(input, i, high, low) ==
    /\ ByteAt(input, i) = 48 /\ ByteAt(input, i + 1) = 48
    /\ ByteAt(input, i + 2) = high /\ ByteAt(input, i + 3) = low

LEMMA UnicodeRead ==
    ASSUME NEW input, NEW i \in Nat, NEW output \in Seq(Byte), NEW byte \in Byte, byte < 32,
           NEW high, NEW low, HexParts(byte, high, low), UnicodeAt(input, i, high, low)
    PROVE  UnicodeEscape(input, i, output) = Reading(Append(output, byte), i + 4)
<1>1. HexValue(48) = 0
    BY SMT DEF HexValue
<1>2. \A k, x : ByteAt(input, k) = x /\ x \in Byte => input[k] = x
    <2>1. \A x \in Byte : x # 256
        BY SMT DEF Byte
    <2> QED BY <2>1, SMT DEF ByteAt
<1>3. 48 \in Byte /\ high \in Byte /\ low \in Byte
    BY SMT DEF Byte, HexParts
<1>4. /\ input[i] = 48 /\ input[i + 1] = 48 /\ input[i + 2] = high /\ input[i + 3] = low
      /\ i + 0 = i
    <2>1. i + 0 = i
        OBVIOUS
    <2>2. input[i] = 48 /\ input[i + 1] = 48
        BY <1>2, <1>3 DEF UnicodeAt
    <2>3. input[i + 2] = high /\ input[i + 3] = low
        BY <1>2, <1>3 DEF UnicodeAt
    <2> QED BY <2>1, <2>2, <2>3
<1>5. HexValue(high) \in 0 .. 1 /\ HexValue(low) \in 0 .. 15
    BY Zenon DEF HexParts
<1>6. HasUnit(input, i)
    <2>1. \A k \in i .. i + 3 : k = i \/ k = i + 1 \/ k = i + 2 \/ k = i + 3
        OBVIOUS
    <2> DEFINE h == HexValue(high)
               l == HexValue(low)
               z == HexValue(48)
    <2>2. z < 16 /\ h < 16 /\ l < 16
        <3>1. z = 0 /\ h \in 0 .. 1 /\ l \in 0 .. 15
            BY <1>1, <1>5, Zenon
        <3> HIDE DEF h, l, z
        <3> QED BY <3>1
    <2>3. \A k \in i .. i + 3 : ByteAt(input, k) \in {48, high, low}
        BY <2>1, Zenon DEF UnicodeAt
    <2> HIDE DEF h, l, z
    <2>4. HexValue(48) < 16 /\ HexValue(high) < 16 /\ HexValue(low) < 16
        BY <2>2, Zenon DEF h, l, z
    <2> QED BY <2>3, <2>4, Zenon DEF HasUnit
<1>7. Unit(input, i) = 4096 * HexValue(48) + 256 * HexValue(48) + 16 * HexValue(high) + HexValue(low)
    BY <1>4, SMT DEF Unit
<1>8. Unit(input, i) = byte
    <2> DEFINE h == HexValue(high)
               l == HexValue(low)
               z == HexValue(48)
    <2>1. byte = 16 * h + l /\ z = 0 /\ h \in 0 .. 1 /\ l \in 0 .. 15
        BY <1>1, <1>5, Zenon DEF HexParts
    <2>2. Unit(input, i) = 4096 * z + 256 * z + 16 * h + l
        BY <1>7, SMT
    <2> HIDE DEF h, l, z
    <2> QED BY <2>1, <2>2, SMT
<1>9. byte \notin Surrogates /\ Utf8(byte) = <<byte>>
    BY ControlFacts, Zenon
<1>11. output \o <<byte>> = Append(output, byte)
    BY AppendIs
<1>12. UnicodeEscape(input, i, output) = Reading(output \o Utf8(byte), i + 4)
    BY <1>6, <1>8, <1>9, SMT DEF UnicodeEscape
<1> QED BY <1>9, <1>11, <1>12, Zenon

(* A piece stands at some place of the input. *)
Standing(input, next, piece) == \A k \in 1 .. Len(piece) : ByteAt(input, next + k - 1) = piece[k]

LEMMA PieceRead ==
    ASSUME NEW input, NEW next \in Nat, NEW bytes \in Seq(Byte), NEW byte \in Byte,
           Standing(input, next, EscapedByte(byte))
    PROVE  StringTurn(input, Reading(bytes, next))
               = Reading(Append(bytes, byte), next + Len(EscapedByte(byte)))
<1> DEFINE piece == EscapedByte(byte)
<1>1. \A k \in 1 .. Len(piece) : ByteAt(input, next + k - 1) = piece[k]
    BY Zenon DEF Standing
<1> HIDE DEF piece
<1>2. CASE \E letter \in Byte : LetterPiece(byte, letter)
    <2>1. PICK letter \in Byte : piece = <<Backslash, letter>> /\ <<byte, letter>> \in Letters
        BY <1>2, Zenon DEF LetterPiece, piece
    <2>2. /\ Len(piece) = 2 /\ piece[1] = Backslash /\ piece[2] = letter
          /\ next + 1 - 1 = next /\ next + 2 - 1 = next + 1
        BY <2>1
    <2>3. 1 \in 1 .. 2 /\ 2 \in 1 .. 2
        OBVIOUS
    <2>4. ByteAt(input, next) = Backslash /\ ByteAt(input, next + 1) = letter
        BY <1>1, <2>2, <2>3, Zenon
    <2>5. StringTurn(input, Reading(bytes, next)) = Escape(input, next, bytes)
        BY <2>4, EscapeTurn, Zenon
    <2>6. Escape(input, next, bytes) = Reading(Append(bytes, byte), next + 2)
        BY <2>1, <2>4, LetterRead, Zenon DEF Pairs
    <2> QED BY <2>2, <2>5, <2>6, Zenon DEF piece
<1>3. CASE byte < 32 /\ \E high, low : HexPiece(byte, high, low)
    <2>1. PICK high, low : piece = <<Backslash, 117, 48, 48, high, low>> /\ HexParts(byte, high, low)
        BY <1>3, Zenon DEF HexPiece, piece
    <2>2. /\ Len(piece) = 6 /\ piece[1] = Backslash /\ piece[2] = 117
          /\ piece[3] = 48 /\ piece[4] = 48 /\ piece[5] = high /\ piece[6] = low
        BY <2>1
    <2> DEFINE i == next + 2
    <2>3. /\ next + 1 - 1 = next /\ next + 2 - 1 = next + 1 /\ next + 3 - 1 = i
          /\ next + 4 - 1 = i + 1 /\ next + 5 - 1 = i + 2 /\ next + 6 - 1 = i + 3
          /\ i \in Nat /\ i + 4 = next + 6
        OBVIOUS
    <2>4. 1 \in 1 .. 6 /\ 2 \in 1 .. 6 /\ 3 \in 1 .. 6 /\ 4 \in 1 .. 6 /\ 5 \in 1 .. 6 /\ 6 \in 1 .. 6
        OBVIOUS
    <2>5. /\ ByteAt(input, next) = Backslash /\ ByteAt(input, next + 1) = 117
          /\ UnicodeAt(input, i, high, low)
        <3> HIDE DEF i
        <3>1. /\ ByteAt(input, next + 1 - 1) = piece[1] /\ ByteAt(input, next + 2 - 1) = piece[2]
              /\ ByteAt(input, next + 3 - 1) = piece[3] /\ ByteAt(input, next + 4 - 1) = piece[4]
              /\ ByteAt(input, next + 5 - 1) = piece[5] /\ ByteAt(input, next + 6 - 1) = piece[6]
            BY <1>1, <2>2, <2>4, SMT
        <3>2. ByteAt(input, next) = Backslash /\ ByteAt(input, next + 1) = 117
            BY <2>2, <2>3, <3>1, SMT
        <3>3. /\ ByteAt(input, i) = 48 /\ ByteAt(input, i + 1) = 48
              /\ ByteAt(input, i + 2) = high /\ ByteAt(input, i + 3) = low
            BY <2>2, <2>3, <3>1, SMT
        <3> QED BY <3>2, <3>3, Zenon DEF UnicodeAt
    <2>6. StringTurn(input, Reading(bytes, next)) = Escape(input, next, bytes)
        BY <2>5, EscapeTurn, Zenon
    <2>7. Escape(input, next, bytes) = UnicodeEscape(input, i, bytes)
        BY <2>5, Zenon DEF Escape
    <2> HIDE DEF i
    <2>8. UnicodeEscape(input, i, bytes) = Reading(Append(bytes, byte), i + 4)
        BY <1>3, <2>1, <2>3, <2>5, UnicodeRead, SMT
    <2> QED BY <2>2, <2>3, <2>6, <2>7, <2>8, Zenon DEF piece
<1>4. CASE PlainPiece(byte)
    <2>1. piece = <<byte>> /\ byte >= 32 /\ byte # Quote /\ byte # Backslash
        BY <1>4, Zenon DEF PlainPiece, piece
    <2>2. Len(piece) = 1 /\ piece[1] = byte /\ next + 1 - 1 = next /\ 1 \in 1 .. 1
        BY <2>1
    <2>3. ByteAt(input, next) = byte
        BY <1>1, <2>2, Zenon
    <2>4. StringTurn(input, Reading(bytes, next)) = Reading(Append(bytes, byte), next + 1)
        BY <2>1, <2>3, PlainTurn, SMT
    <2> QED BY <2>2, <2>4, Zenon DEF piece
<1> QED BY <1>2, <1>3, <1>4, EscapedByteIs, Zenon

(* The first n bytes. *)
First(bytes, n) == [i \in 1 .. n |-> bytes[i]]

LEMMA FirstIs ==
    ASSUME NEW bytes \in Seq(Byte)
    PROVE  /\ First(bytes, 0) = <<>>
           /\ First(bytes, Len(bytes)) = bytes
           /\ \A n \in 0 .. Len(bytes) : First(bytes, n) \in Seq(Byte) /\ Len(First(bytes, n)) = n
           /\ \A n \in 1 .. Len(bytes) : First(bytes, n) = Append(First(bytes, n - 1), bytes[n])
<1>1. Len(bytes) \in Nat /\ \A i \in 1 .. Len(bytes) : bytes[i] \in Byte
    BY ByteFacts
<1>2. First(bytes, 0) = <<>>
    BY DEF First
<1>3. First(bytes, Len(bytes)) = bytes
    BY SeqIsFunction, Zenon DEF First
<1>4. ASSUME NEW n \in 0 .. Len(bytes)
      PROVE  First(bytes, n) \in Seq(Byte) /\ Len(First(bytes, n)) = n
    <2>1. First(bytes, n) \in [1 .. n -> Byte] /\ n \in Nat
        BY <1>1 DEF First
    <2> QED BY <2>1, FunctionIsSeq, Zenon
<1>5. ASSUME NEW n \in 1 .. Len(bytes)
      PROVE  First(bytes, n) = Append(First(bytes, n - 1), bytes[n])
    <2> DEFINE before == First(bytes, n - 1)
    <2>1. n - 1 \in 0 .. Len(bytes) /\ (n - 1) + 1 = n /\ bytes[n] \in Byte
        BY <1>1
    <2>2. before \in Seq(Byte) /\ Len(before) = n - 1
        BY <1>4, <2>1, Zenon
    <2>3. \A i \in 1 .. n - 1 : before[i] = bytes[i]
        BY DEF First
    <2> HIDE DEF before
    <2>4. Append(before, bytes[n])
              = [i \in 1 .. Len(before) + 1 |-> IF i <= Len(before) THEN before[i] ELSE bytes[n]]
        BY <2>1, <2>2, AppendIs
    <2>5. \A i \in 1 .. n : (IF i <= n - 1 THEN before[i] ELSE bytes[n]) = bytes[i]
        BY <2>1, <2>3
    <2>6. Append(before, bytes[n]) = [i \in 1 .. n |-> bytes[i]]
        BY <2>1, <2>2, <2>4, <2>5
    <2> QED BY <2>6, Zenon DEF First, before
<1> QED BY <1>2, <1>3, <1>4, <1>5, Zenon

(* A join that begins at some place is its left part and then its right one. *)
LEMMA JoinStands ==
    ASSUME NEW input, NEW next \in Nat, NEW left \in Seq(Byte), NEW right \in Seq(Byte),
           Standing(input, next, left \o right)
    PROVE  Standing(input, next, left) /\ Standing(input, next + Len(left), right)
<1> DEFINE both == left \o right
<1>1. /\ Len(left) \in Nat /\ Len(right) \in Nat /\ Len(both) = Len(left) + Len(right)
      /\ \A k \in 1 .. Len(left) : both[k] = left[k]
      /\ \A k \in 1 .. Len(right) : both[Len(left) + k] = right[k]
    OBVIOUS
<1>2. \A k \in 1 .. Len(both) : ByteAt(input, next + k - 1) = both[k]
    BY Zenon DEF Standing
<1> HIDE DEF both
<1>3. ASSUME NEW k \in 1 .. Len(left) PROVE ByteAt(input, next + k - 1) = left[k]
    <2>1. k \in 1 .. Len(both)
        BY <1>1
    <2> QED BY <1>1, <1>2, <2>1, Zenon
<1>4. ASSUME NEW k \in 1 .. Len(right) PROVE ByteAt(input, next + Len(left) + k - 1) = right[k]
    <2>1. Len(left) + k \in 1 .. Len(both) /\ next + (Len(left) + k) - 1 = next + Len(left) + k - 1
        BY <1>1
    <2>2. ByteAt(input, next + (Len(left) + k) - 1) = both[Len(left) + k]
        BY <1>2, <2>1, Zenon
    <2>3. both[Len(left) + k] = right[k]
        BY <1>1, Zenon
    <2> QED BY <2>1, <2>2, <2>3, Zenon
<1> QED BY <1>3, <1>4, Zenon DEF Standing

LEMMA JoinLength ==
    ASSUME NEW left \in Seq(Byte), NEW right \in Seq(Byte)
    PROVE  /\ left \o right \in Seq(Byte) /\ Len(left \o right) = Len(left) + Len(right)
           /\ Len(left) \in Nat /\ Len(right) \in Nat
OBVIOUS

(* What an input begins with stands at its beginning. *)
LEMMA BeginningStands ==
    ASSUME NEW part \in Seq(Byte), NEW following \in Seq(Byte)
    PROVE  Standing(part \o following, 1, part)
<1> DEFINE input == part \o following
<1>1. /\ DOMAIN input = 1 .. Len(part) + Len(following)
      /\ Len(part) \in Nat /\ Len(following) \in Nat
      /\ \A k \in 1 .. Len(part) : input[k] = part[k]
    OBVIOUS
<1> HIDE DEF input
<1>2. ASSUME NEW k \in 1 .. Len(part) PROVE ByteAt(input, 1 + k - 1) = part[k]
    <2>1. 1 + k - 1 = k /\ k \in DOMAIN input
        BY <1>1
    <2>2. ByteAt(input, k) = input[k]
        BY <2>1, Zenon DEF ByteAt
    <2>3. ByteAt(input, k) = part[k]
        BY <1>1, <2>2, Zenon
    <2> QED BY <2>1, <2>3, Zenon
<1> QED BY <1>2, Zenon DEF Standing, input

(* upTo is what append_escaped_json has appended before each byte. *)
Builds(upTo, bytes) ==
    /\ upTo[0] = <<Quote>>
    /\ \A n \in 1 .. Len(bytes) : upTo[n] = upTo[n - 1] \o EscapedByte(bytes[n])
    /\ \A n \in 0 .. Len(bytes) : upTo[n] \in Seq(Byte)

(* The recursion in Escaped is sound. *)
LEMMA EscapedIs ==
    ASSUME NEW bytes \in Seq(Byte)
    PROVE  \E upTo : Builds(upTo, bytes) /\ Escaped(bytes) = upTo[Len(bytes)] \o <<Quote>>
<1> DEFINE last == Len(bytes)
           S == Seq(Byte)
           first == <<Quote>>
           step == [p \in S \X (1 .. last) |-> p[1] \o EscapedByte(bytes[p[2]])]
           UpTo(f) == f = [n \in 0 .. last |-> IF n = 0 THEN first ELSE f[n - 1] \o EscapedByte(bytes[n])]
           upTo == CHOOSE f : UpTo(f)
<1>1. last \in Nat /\ first \in S /\ \A n \in 1 .. last : bytes[n] \in Byte
    BY ByteFacts DEF Quote, Byte
<1>2. step \in [S \X (1 .. last) -> S]
    <2>1. ASSUME NEW p \in S \X (1 .. last) PROVE p[1] \o EscapedByte(bytes[p[2]]) \in S
        <3>1. p[1] \in S /\ bytes[p[2]] \in Byte
            BY <1>1
        <3>2. EscapedByte(bytes[p[2]]) \in S
            BY <3>1, EscapedByteTyped, Zenon
        <3> QED BY <3>1, <3>2
    <2> QED BY <2>1
<1>3. PICK f \in [0 .. last -> S] : Steps(f, last, first, step)
    <2> HIDE DEF step, last, S, first
    <2> QED BY <1>1, <1>2, Recursion
<1>4. ASSUME NEW n \in 0 .. last, n # 0
      PROVE  step[<<f[n - 1], n>>] = f[n - 1] \o EscapedByte(bytes[n])
    <2>1. n - 1 \in 0 .. last /\ n \in 1 .. last
        BY <1>1, <1>4
    <2>2. <<f[n - 1], n>> \in S \X (1 .. last)
        BY <1>3, <2>1
    <2> QED BY <2>2
<1>5. UpTo(f)
    <2>1. \A n \in 0 .. last : f[n] = IF n = 0 THEN first ELSE step[<<f[n - 1], n>>]
        BY <1>3, Zenon DEF Steps
    <2> HIDE DEF step, first
    <2> QED BY <1>3, <1>4, <2>1
<1>6. UpTo(upTo)
    <2> HIDE DEF UpTo
    <2> QED BY <1>5
<1>7. Escaped(bytes) = upTo[last] \o <<Quote>>
    BY DEF Escaped
<1> HIDE DEF step, upTo, first
<1>8. /\ upTo[0] = first
      /\ \A n \in 1 .. last : upTo[n] = upTo[n - 1] \o EscapedByte(bytes[n])
    <2>1. \A n \in 0 .. last :
              upTo[n] = IF n = 0 THEN first ELSE upTo[n - 1] \o EscapedByte(bytes[n])
        BY <1>6, Zenon
    <2>2. 0 \in 0 .. last /\ \A n \in 1 .. last : n \in 0 .. last /\ n # 0
        BY <1>1
    <2> QED BY <2>1, <2>2, Zenon
<1> HIDE DEF UpTo
<1> DEFINE T == {n \in 0 .. last : upTo[n] \in S}
<1>9. 0 \in T
    BY <1>1, <1>8
<1>10. ASSUME NEW n \in 0 .. last - 1, n \in T PROVE n + 1 \in T
    <2>1. n + 1 \in 1 .. last /\ (n + 1) - 1 = n /\ upTo[n] \in S
        BY <1>1, <1>10
    <2>2. upTo[n + 1] = upTo[n] \o EscapedByte(bytes[n + 1])
        BY <1>8, <2>1
    <2>3. EscapedByte(bytes[n + 1]) \in S
        BY <1>1, <2>1, EscapedByteTyped, Zenon
    <2>4. upTo[n + 1] \in S
        BY <2>1, <2>2, <2>3
    <2> QED BY <1>1, <2>1, <2>4
<1> HIDE DEF T
<1>11. 0 .. last \subseteq T
    BY <1>1, <1>9, <1>10, BoundedInduction
<1>12. \A n \in 0 .. last : upTo[n] \in S
    BY <1>11 DEF T
<1>13. Builds(upTo, bytes)
    BY <1>8, <1>12 DEF Builds, first
<1> QED BY <1>7, <1>13

(* Where each byte of a string that was written stands. *)
LEMMA PiecesStand ==
    ASSUME NEW bytes \in Seq(Byte), NEW upTo, Builds(upTo, bytes), NEW input,
           Standing(input, 1, upTo[Len(bytes)] \o <<Quote>>)
    PROVE  /\ \A n \in 1 .. Len(bytes) : Standing(input, Len(upTo[n - 1]) + 1, EscapedByte(bytes[n]))
           /\ Standing(input, Len(upTo[Len(bytes)]) + 1, <<Quote>>)
           /\ ByteAt(input, 1) = Quote
<1> DEFINE last == Len(bytes)
           T == {k \in 0 .. last : Standing(input, 1, upTo[last - k])}
<1>1. /\ last \in Nat /\ \A n \in 1 .. last : bytes[n] \in Byte
      /\ \A n \in 0 .. last : upTo[n] \in Seq(Byte) /\ Len(upTo[n]) \in Nat
    BY ByteFacts, Zenon DEF Builds
<1>2. <<Quote>> \in Seq(Byte) /\ Len(<<Quote>>) = 1 /\ <<Quote>>[1] = Quote
    BY DEF Quote, Byte
<1>3. /\ Standing(input, 1, upTo[last])
      /\ Standing(input, 1 + Len(upTo[last]), <<Quote>>)
    <2>1. last \in 0 .. last /\ 1 \in Nat
        BY <1>1
    <2>2. upTo[last] \in Seq(Byte)
        BY <1>1, <2>1, Zenon
    <2> QED BY <1>2, <2>1, <2>2, JoinStands, Zenon
<1>4. ASSUME NEW n \in 1 .. last, Standing(input, 1, upTo[n])
      PROVE  /\ Standing(input, 1, upTo[n - 1])
             /\ Standing(input, 1 + Len(upTo[n - 1]), EscapedByte(bytes[n]))
    <2>1. n - 1 \in 0 .. last /\ 1 \in Nat
        BY <1>1
    <2>2. upTo[n - 1] \in Seq(Byte) /\ EscapedByte(bytes[n]) \in Seq(Byte)
        BY <1>1, <2>1, EscapedByteTyped, Zenon
    <2>3. Standing(input, 1, upTo[n - 1] \o EscapedByte(bytes[n]))
        BY <1>4, Zenon DEF Builds
    <2> QED BY <2>1, <2>2, <2>3, JoinStands, Zenon
<1>5. 0 \in T
    BY <1>1, <1>3
<1>6. ASSUME NEW k \in 0 .. last - 1, k \in T PROVE k + 1 \in T
    <2>1. /\ last - k \in 1 .. last /\ (last - k) - 1 = last - (k + 1) /\ k + 1 \in 0 .. last
          /\ Standing(input, 1, upTo[last - k])
        BY <1>1, <1>6
    <2> HIDE DEF T
    <2>2. Standing(input, 1, upTo[last - (k + 1)])
        BY <1>4, <2>1, Zenon
    <2> QED BY <2>1, <2>2, Zenon DEF T
<1> HIDE DEF T
<1>7. 0 .. last \subseteq T
    BY <1>1, <1>5, <1>6, BoundedInduction
<1>8. ASSUME NEW n \in 0 .. last PROVE Standing(input, 1, upTo[n])
    <2>1. last - n \in 0 .. last /\ last - (last - n) = n
        BY <1>1
    <2>2. Standing(input, 1, upTo[last - (last - n)])
        BY <1>7, <2>1 DEF T
    <2> QED BY <2>1, <2>2, Zenon
<1>9. ASSUME NEW n \in 1 .. last
      PROVE  Standing(input, Len(upTo[n - 1]) + 1, EscapedByte(bytes[n]))
    <2>1. n \in 0 .. last /\ n - 1 \in 0 .. last
        BY <1>1
    <2>2. Len(upTo[n - 1]) \in Nat
        BY <1>1, <2>1, Zenon
    <2>3. 1 + Len(upTo[n - 1]) = Len(upTo[n - 1]) + 1
        BY <2>2
    <2>4. Standing(input, 1 + Len(upTo[n - 1]), EscapedByte(bytes[n]))
        BY <1>4, <1>8, <2>1, Zenon
    <2> QED BY <2>3, <2>4, Zenon
<1>10. Standing(input, Len(upTo[last]) + 1, <<Quote>>)
    <2>1. Len(upTo[last]) \in Nat
        BY <1>1
    <2>2. 1 + Len(upTo[last]) = Len(upTo[last]) + 1
        BY <2>1
    <2> QED BY <1>3, <2>2, Zenon
<1>11. ByteAt(input, 1) = Quote
    <2>1. 0 \in 0 .. last /\ 1 \in 1 .. 1 /\ 1 + 1 - 1 = 1
        BY <1>1
    <2>2. Standing(input, 1, <<Quote>>)
        BY <1>8, <2>1, Zenon DEF Builds
    <2> QED BY <1>2, <2>1, <2>2, SMT DEF Standing
<1> QED BY <1>9, <1>10, <1>11, Zenon

(* Every byte takes a place at least. *)
LEMMA PiecesGrow ==
    ASSUME NEW bytes \in Seq(Byte), NEW upTo, Builds(upTo, bytes)
    PROVE  /\ Len(upTo[0]) = 1
           /\ \A n \in 0 .. Len(bytes) : Len(upTo[n]) \in Nat /\ Len(upTo[n]) >= n + 1
           /\ \A n \in 1 .. Len(bytes) :
                 Len(upTo[n]) = Len(upTo[n - 1]) + Len(EscapedByte(bytes[n]))
<1> DEFINE last == Len(bytes)
           T == {n \in 0 .. last : Len(upTo[n]) >= n + 1}
<1>1. /\ last \in Nat /\ \A n \in 1 .. last : bytes[n] \in Byte
      /\ \A n \in 0 .. last : upTo[n] \in Seq(Byte) /\ Len(upTo[n]) \in Nat
    BY ByteFacts, Zenon DEF Builds
<1>2. Len(upTo[0]) = 1
    <2>1. upTo[0] = <<Quote>>
        BY Zenon DEF Builds
    <2> QED BY <2>1
<1>3. ASSUME NEW n \in 1 .. last
      PROVE  /\ Len(upTo[n]) = Len(upTo[n - 1]) + Len(EscapedByte(bytes[n]))
             /\ Len(EscapedByte(bytes[n])) \in Nat \ {0}
    <2>1. n - 1 \in 0 .. last
        BY <1>1
    <2>2. /\ upTo[n - 1] \in Seq(Byte) /\ EscapedByte(bytes[n]) \in Seq(Byte)
          /\ Len(EscapedByte(bytes[n])) \in Nat \ {0}
        BY <1>1, <2>1, EscapedByteTyped, Zenon
    <2>3. upTo[n] = upTo[n - 1] \o EscapedByte(bytes[n])
        BY Zenon DEF Builds
    <2>4. Len(upTo[n - 1] \o EscapedByte(bytes[n])) = Len(upTo[n - 1]) + Len(EscapedByte(bytes[n]))
        BY <2>2
    <2> QED BY <2>2, <2>3, <2>4, Zenon
<1>4. 0 \in T
    <2>1. 0 \in 0 .. last
        BY <1>1
    <2>2. Len(upTo[0]) >= 0 + 1
        BY <1>2
    <2> HIDE DEF T
    <2> QED BY <2>1, <2>2, Zenon DEF T
<1>5. ASSUME NEW n \in 0 .. last - 1, n \in T PROVE n + 1 \in T
    <2>1. n + 1 \in 1 .. last /\ (n + 1) - 1 = n /\ n \in 0 .. last /\ n + 1 \in 0 .. last
        BY <1>1
    <2>2. Len(upTo[n]) >= n + 1 /\ Len(upTo[n]) \in Nat
        BY <1>1, <1>5, <2>1
    <2>3. /\ Len(upTo[n + 1]) = Len(upTo[n]) + Len(EscapedByte(bytes[n + 1]))
          /\ Len(EscapedByte(bytes[n + 1])) \in Nat \ {0}
        BY <1>3, <2>1, Zenon
    <2>4. \A a, b, c : /\ a >= n + 1 /\ a \in Nat
                       /\ b = a + c /\ c \in Nat \ {0}
                       => b >= (n + 1) + 1
        BY <1>1
    <2>5. Len(upTo[n + 1]) >= (n + 1) + 1
        BY <2>2, <2>3, <2>4, Zenon
    <2> HIDE DEF T
    <2> QED BY <2>1, <2>5, Zenon DEF T
<1> HIDE DEF T
<1>6. 0 .. last \subseteq T
    BY <1>1, <1>4, <1>5, BoundedInduction
<1>7. \A n \in 0 .. last : Len(upTo[n]) >= n + 1
    BY <1>6 DEF T
<1> QED BY <1>1, <1>2, <1>3, <1>7, Zenon

(* JsonParser reads a string that was written, and stops where it ends. *)
LEMMA JsonStringRead ==
    ASSUME NEW bytes \in Seq(Byte), ValidUtf8(bytes), NEW following \in Seq(Byte)
    PROVE  ReadJsonString(Escaped(bytes) \o following) = Text(bytes, Len(Escaped(bytes)) + 1)
<1> DEFINE last == Len(bytes)
           input == Escaped(bytes) \o following
           N == Len(input)
<1>1. PICK upTo : Builds(upTo, bytes) /\ Escaped(bytes) = upTo[last] \o <<Quote>>
    BY EscapedIs
<1>2. last \in Nat /\ \A n \in 1 .. last : bytes[n] \in Byte
    BY ByteFacts
<1>3. /\ Len(upTo[0]) = 1
      /\ \A n \in 0 .. last : Len(upTo[n]) \in Nat /\ Len(upTo[n]) >= n + 1
      /\ \A n \in 1 .. last : Len(upTo[n]) = Len(upTo[n - 1]) + Len(EscapedByte(bytes[n]))
    BY <1>1, PiecesGrow, Zenon
<1>4. /\ Escaped(bytes) \in Seq(Byte)
      /\ Len(Escaped(bytes)) = Len(upTo[last]) + 1
    <2>1. last \in 0 .. last
        BY <1>2
    <2>2. upTo[last] \in Seq(Byte) /\ Quote \in Byte
        BY <1>1, <2>1, SMT DEF Builds, Quote, Byte
    <2> QED BY <1>1, <2>2, PushIs
<1>5. N \in Nat /\ N >= last + 2
    <2>1. last \in 0 .. last
        BY <1>2
    <2>2. Len(upTo[last]) \in Nat /\ Len(upTo[last]) >= last + 1
        BY <1>3, <2>1, Zenon
    <2>3. N = Len(Escaped(bytes)) + Len(following) /\ Len(following) \in Nat
        BY <1>4, JoinLength, Zenon
    <2> HIDE DEF N
    <2> QED BY <1>2, <1>4, <2>2, <2>3
<1>6. Standing(input, 1, upTo[last] \o <<Quote>>)
    BY <1>1, <1>4, BeginningStands, Zenon
<1> HIDE DEF input, N
<1>7. /\ \A n \in 1 .. last : Standing(input, Len(upTo[n - 1]) + 1, EscapedByte(bytes[n]))
      /\ Standing(input, Len(upTo[last]) + 1, <<Quote>>)
      /\ ByteAt(input, 1) = Quote
    BY <1>1, <1>6, PiecesStand, Zenon
<1> DEFINE end == Len(upTo[last]) + 2
           f == [t \in 0 .. N |-> IF t <= last THEN Reading(First(bytes, t), Len(upTo[t]) + 1)
                                  ELSE Text(bytes, end)]
           UpTo(g) == g = [t \in 0 .. N |-> IF t = 0 THEN Reading(<<>>, 2)
                                            ELSE StringTurn(input, g[t - 1])]
           read == CHOOSE g : UpTo(g)
<1>8. f[0] = Reading(<<>>, 2)
    <2>1. 0 \in 0 .. N /\ 0 <= last /\ Len(upTo[0]) + 1 = 2
        BY <1>2, <1>3, <1>5
    <2>2. First(bytes, 0) = <<>>
        BY FirstIs, Zenon
    <2> QED BY <2>1, <2>2
<1>9. ASSUME NEW t \in 1 .. N PROVE f[t] = StringTurn(input, f[t - 1])
    <2>1. t \in 0 .. N /\ t - 1 \in 0 .. N
        BY <1>5
    <2>2. CASE t <= last
        <3>1. t \in 1 .. last /\ t - 1 \in 0 .. last /\ t - 1 <= last
            BY <1>2, <1>5, <2>2
        <3> DEFINE next == Len(upTo[t - 1]) + 1
                   before == First(bytes, t - 1)
        <3>2. f[t - 1] = Reading(before, next) /\ f[t] = Reading(First(bytes, t), Len(upTo[t]) + 1)
            BY <2>1, <2>2, <3>1, Zenon
        <3>3. Len(upTo[t - 1]) \in Nat /\ before \in Seq(Byte) /\ bytes[t] \in Byte
            BY <1>2, <1>3, <3>1, FirstIs, Zenon
        <3>4. next \in Nat /\ Standing(input, next, EscapedByte(bytes[t]))
            <4>1. next \in Nat
                BY <3>3
            <4> QED BY <1>7, <3>1, <4>1, Zenon
        <3>5. next + Len(EscapedByte(bytes[t])) = Len(upTo[t]) + 1
            <4>1. Len(upTo[t]) = Len(upTo[t - 1]) + Len(EscapedByte(bytes[t]))
                BY <1>3, <3>1, Zenon
            <4>2. Len(EscapedByte(bytes[t])) \in Nat
                BY <3>3, EscapedByteTyped
            <4>3. \A a, b, c \in Nat : b = a + c => (a + 1) + c = b + 1
                OBVIOUS
            <4>4. Len(upTo[t]) \in Nat
                <5>1. t \in 0 .. last
                    BY <1>2, <3>1
                <5> QED BY <1>3, <5>1, Zenon
            <4> QED BY <3>3, <4>1, <4>2, <4>3, <4>4, Zenon
        <3>6. First(bytes, t) = Append(before, bytes[t])
            BY <3>1, FirstIs, Zenon
        <3> HIDE DEF next, before, f
        <3>7. StringTurn(input, Reading(before, next))
                  = Reading(Append(before, bytes[t]), next + Len(EscapedByte(bytes[t])))
            BY <3>3, <3>4, PieceRead, Zenon
        <3> QED BY <3>2, <3>5, <3>6, <3>7, Zenon
    <2>3. CASE t = last + 1
        <3>1. t - 1 = last /\ ~(t <= last) /\ t - 1 <= last /\ last \in 0 .. last
            BY <1>2, <2>3
        <3>2. f[t] = Text(bytes, end) /\ f[t - 1] = Reading(First(bytes, last), Len(upTo[last]) + 1)
            BY <2>1, <3>1, Zenon
        <3>3. First(bytes, last) = bytes
            BY FirstIs, Zenon
        <3> DEFINE next == Len(upTo[last]) + 1
        <3>4. next \in Nat /\ next + 1 = end /\ 1 \in 1 .. 1 /\ next + 1 - 1 = next
              /\ Len(<<Quote>>) = 1 /\ <<Quote>>[1] = Quote
            BY <1>3, <3>1
        <3> HIDE DEF end, f
        <3>5. ByteAt(input, next) = Quote
            <4>1. Standing(input, next, <<Quote>>)
                BY <1>7, Zenon
            <4> HIDE DEF next
            <4> QED BY <3>4, <4>1, SMT DEF Standing
        <3>6. StringTurn(input, Reading(bytes, next)) = Text(bytes, next + 1)
            BY <3>5, QuoteTurn, Zenon
        <3> QED BY <3>2, <3>3, <3>4, <3>6, Zenon
    <2>4. CASE t > last + 1
        <3>1. ~(t <= last) /\ ~(t - 1 <= last)
            BY <1>2, <1>5, <2>4
        <3>2. f[t] = Text(bytes, end) /\ f[t - 1] = Text(bytes, end)
            BY <2>1, <3>1, Zenon
        <3> HIDE DEF f, end
        <3> QED BY <3>2, DoneTurn, Zenon
    <2>5. t <= last \/ t = last + 1 \/ t > last + 1
        <3> HIDE DEF f
        <3> QED BY <1>2, <1>5
    <2> HIDE DEF f
    <2> QED BY <2>2, <2>3, <2>4, <2>5, Zenon
<1>10. UpTo(f)
    <2>1. \A t \in 0 .. N : t # 0 => t \in 1 .. N
        BY <1>5
    <2>2. f = [t \in 0 .. N |-> f[t]]
        BY Zenon
    <2> HIDE DEF f
    <2> DEFINE g == [t \in 0 .. N |-> IF t = 0 THEN Reading(<<>>, 2) ELSE StringTurn(input, f[t - 1])]
    <2>3. \A t \in 0 .. N : g[t] = IF t = 0 THEN Reading(<<>>, 2) ELSE StringTurn(input, f[t - 1])
        BY Zenon
    <2>4. g = [t \in 0 .. N |-> g[t]]
        BY Zenon
    <2>5. \A t \in 0 .. N : f[t] = IF t = 0 THEN Reading(<<>>, 2) ELSE StringTurn(input, f[t - 1])
        BY <1>8, <1>9, <2>1, Zenon
    <2> HIDE DEF g
    <2>6. \A t \in 0 .. N : f[t] = g[t]
        BY <2>3, <2>5, Zenon
    <2>7. f = g
        BY <2>2, <2>4, <2>6, Zenon
    <2> QED BY <2>7, Zenon DEF g
<1>11. UpTo(read)
    <2> HIDE DEF UpTo, f
    <2> QED BY <1>10, Zenon
<1>12. ReadJsonString(input) = read[N]
    BY <1>7, Zenon DEF ReadJsonString, N
<1> HIDE DEF read
<1>13. /\ read[0] = Reading(<<>>, 2)
       /\ \A t \in 1 .. N : read[t] = StringTurn(input, read[t - 1])
    <2>1. \A t \in 0 .. N :
              read[t] = IF t = 0 THEN Reading(<<>>, 2) ELSE StringTurn(input, read[t - 1])
        BY <1>11, Zenon
    <2>2. 0 \in 0 .. N /\ \A t \in 1 .. N : t \in 0 .. N /\ t # 0
        BY <1>5
    <2> QED BY <2>1, <2>2, Zenon
<1>14. f[N] = Text(bytes, Len(Escaped(bytes)) + 1)
    <2>1. N \in 0 .. N /\ ~(N <= last) /\ last \in 0 .. last
        BY <1>2, <1>5
    <2>2. end = Len(Escaped(bytes)) + 1
        BY <1>3, <1>4, <2>1
    <2> HIDE DEF end
    <2> QED BY <2>1, <2>2, Zenon
<1> HIDE DEF UpTo, f
<1> DEFINE T == {t \in 0 .. N : read[t] = f[t]}
<1>15. 0 \in T
    BY <1>5, <1>8, <1>13
<1>16. ASSUME NEW t \in 0 .. N - 1, t \in T PROVE t + 1 \in T
    <2>1. t + 1 \in 1 .. N /\ (t + 1) - 1 = t /\ t + 1 \in 0 .. N /\ read[t] = f[t]
        BY <1>5, <1>16
    <2> HIDE DEF T
    <2>2. read[t + 1] = f[t + 1]
        BY <1>9, <1>13, <2>1, Zenon
    <2> QED BY <2>1, <2>2, Zenon DEF T
<1> HIDE DEF T
<1>17. 0 .. N \subseteq T
    BY <1>5, <1>15, <1>16, BoundedInduction
<1>18. read[N] = f[N]
    BY <1>5, <1>17 DEF T
<1> QED BY <1>12, <1>14, <1>18, Zenon DEF input

-----------------------------------------------------------------------------
(* DSON strings: the decimal numeral of a length. *)

Digits == 48 .. 57
Tens(n) == n \div 10
Ones(n) == n % 10

LEMMA TensAndOnes ==
    /\ \A n \in Nat : /\ Tens(n) \in Nat /\ Ones(n) \in 0 .. 9 /\ n = 10 * Tens(n) + Ones(n)
                      /\ n >= 10 => Tens(n) \in 1 .. n - 1
    /\ \A n \in Nat, one \in 0 .. 9 : Tens(10 * n + one) = n /\ Ones(10 * n + one) = one
<1>1. \A n \in Nat : Tens(n) \in Nat /\ Ones(n) \in 0 .. 9 /\ n = 10 * Tens(n) + Ones(n)
    BY SMT DEF Tens, Ones
<1>2. \A n \in Nat : n >= 10 => Tens(n) \in 1 .. n - 1
    BY SMT DEF Tens
<1>3. ASSUME NEW n \in Nat, NEW one \in 0 .. 9
      PROVE  Tens(10 * n + one) = n /\ Ones(10 * n + one) = one
    <2> DEFINE all == 10 * n + one
               tens == Tens(all)
               ones == Ones(all)
    <2>1. all \in Nat
        OBVIOUS
    <2>2. tens \in Nat /\ ones \in 0 .. 9 /\ all = 10 * tens + ones
        BY <1>1, <2>1, Zenon
    <2> HIDE DEF tens, ones
    <2>3. tens = n /\ ones = one
        BY <2>2, SMT
    <2> QED BY <2>3, Zenon DEF tens, ones
<1>4. \A n \in Nat, one \in 0 .. 9 : Tens(10 * n + one) = n /\ Ones(10 * n + one) = one
    BY <1>3, Zenon
<1> QED BY <1>1, <1>2, <1>4, SMT

(* What append_size makes of n, given what it makes of the tens. *)
Spelled(of, n) == IF n < 10 THEN <<48 + n>> ELSE Append(of[Tens(n)], 48 + Ones(n))

Spelling(of, n) == \A m \in 0 .. n : of[m] = Spelled(of, m) /\ of[m] \in Seq(Digits)

LEMMA SpelledTyped ==
    ASSUME NEW n \in Nat, NEW of, n >= 10 => of[Tens(n)] \in Seq(Digits)
    PROVE  Spelled(of, n) \in Seq(Digits)
<1>1. CASE n < 10
    <2>1. 48 + n \in Digits
        BY <1>1, SMT DEF Digits
    <2>2. <<48 + n>> \in Seq(Digits)
        BY <2>1
    <2> QED BY <1>1, <2>2, Zenon DEF Spelled
<1>2. CASE ~(n < 10)
    <2>1. n >= 10
        BY <1>2, SMT
    <2> DEFINE tens == of[Tens(n)]
               one == 48 + Ones(n)
    <2>2. tens \in Seq(Digits)
        BY <2>1, Zenon
    <2>3. one \in Digits
        <3> DEFINE ones == Ones(n)
        <3>1. ones \in 0 .. 9
            BY TensAndOnes, Zenon
        <3> HIDE DEF ones
        <3>2. 48 + ones \in Digits
            BY <3>1, SMT DEF Digits
        <3> QED BY <3>2, Zenon DEF ones
    <2> HIDE DEF tens, one
    <2>4. Append(tens, one) \in Seq(Digits)
        BY <2>2, <2>3
    <2> QED BY <1>2, <2>4, Zenon DEF Spelled, tens, one
<1> QED BY <1>1, <1>2

(* The recursion in Numeral is sound. *)
LEMMA SpellingExists ==
    ASSUME NEW n \in Nat
    PROVE  \E of : of = [m \in 0 .. n |-> of[m]] /\ Spelling(of, n)
<1> DEFINE Found(of, k) == of = [m \in 0 .. k |-> of[m]] /\ Spelling(of, k)
           T == {k \in Nat : \E of : Found(of, k)}
<1>1. 0 \in T
    <2> DEFINE of == [m \in 0 .. 0 |-> <<48 + m>>]
    <2>1. of = [m \in 0 .. 0 |-> of[m]]
        BY Zenon
    <2>2. \A m \in 0 .. 0 : m = 0 /\ m \in Nat /\ m < 10
        OBVIOUS
    <2>3. \A m \in 0 .. 0 : of[m] = <<48 + m>>
        BY Zenon
    <2> HIDE DEF of
    <2>4. \A m \in 0 .. 0 : Spelled(of, m) = <<48 + m>>
        BY <2>2, Zenon DEF Spelled
    <2>5. \A m \in 0 .. 0 : Spelled(of, m) \in Seq(Digits)
        <3>1. \A m \in 0 .. 0 : <<48 + m>> \in Seq(Digits)
            <4>1. 48 + 0 \in Digits
                BY SMT DEF Digits
            <4>2. <<48 + 0>> \in Seq(Digits)
                BY <4>1
            <4> QED BY <2>2, <4>2, Zenon
        <3> QED BY <2>4, <3>1, Zenon
    <2>6. Spelling(of, 0)
        BY <2>3, <2>4, <2>5, Zenon DEF Spelling
    <2>7. 0 \in Nat
        OBVIOUS
    <2> QED BY <2>1, <2>6, <2>7, Zenon
<1>2. ASSUME NEW k \in Nat, k \in T PROVE k + 1 \in T
    <2>1. PICK of : Found(of, k)
        BY <1>2
    <2> DEFINE next == [m \in 0 .. k + 1 |-> IF m <= k THEN of[m] ELSE Spelled(of, k + 1)]
    <2>2. next = [m \in 0 .. k + 1 |-> next[m]]
        BY Zenon
    <2>3. \A m \in 0 .. k + 1 : /\ m \in Nat
                                /\ m <= k => m \in 0 .. k
                                /\ ~(m <= k) => m = k + 1
        OBVIOUS
    <2>4. \A m \in 0 .. k + 1 : next[m] = IF m <= k THEN of[m] ELSE Spelled(of, k + 1)
        BY Zenon
    <2> HIDE DEF next
    <2>5. \A m \in 0 .. k + 1 : next[m] = Spelled(of, m)
        BY <2>1, <2>3, <2>4, Zenon DEF Spelling
    <2>6. ASSUME NEW m \in 0 .. k + 1, ~(m < 10)
          PROVE  Tens(m) \in 0 .. k /\ next[Tens(m)] = of[Tens(m)]
        <3> DEFINE tens == Tens(m)
        <3>1. m >= 10 /\ m \in Nat
            BY <2>6
        <3>2. tens \in 1 .. m - 1
            BY <3>1, TensAndOnes, Zenon
        <3> HIDE DEF tens
        <3>3. tens \in 0 .. k /\ tens \in 0 .. k + 1 /\ tens <= k
            BY <3>2
        <3>4. next[tens] = of[tens]
            BY <2>4, <3>3, Zenon
        <3> QED BY <3>3, <3>4, Zenon DEF tens
    <2>7. \A m \in 0 .. k + 1 : Spelled(next, m) = Spelled(of, m)
        BY <2>6, Zenon DEF Spelled
    <2>8. ASSUME NEW m \in 0 .. k + 1 PROVE Spelled(of, m) \in Seq(Digits)
        <3>1. m \in Nat /\ (m >= 10 => ~(m < 10))
            BY <2>3
        <3>2. m >= 10 => of[Tens(m)] \in Seq(Digits)
            BY <2>1, <2>6, <3>1, Zenon DEF Spelling
        <3> QED BY <3>1, <3>2, SpelledTyped, Zenon
    <2>9. Spelling(next, k + 1)
        BY <2>5, <2>7, <2>8, Zenon DEF Spelling
    <2>10. k + 1 \in Nat
        OBVIOUS
    <2> QED BY <2>2, <2>9, <2>10, Zenon
<1> HIDE DEF T
<1>3. Nat \subseteq T
    BY <1>1, <1>2, Induction
<1> QED BY <1>3 DEF T

LEMMA NumeralOf ==
    ASSUME NEW n \in Nat
    PROVE  \E of : Spelling(of, n) /\ Numeral(n) = of[n]
<1> DEFINE Is(f) == f = [m \in 0 .. n |-> IF m < 10 THEN <<48 + m>>
                                           ELSE Append(f[m \div 10], 48 + (m % 10))]
           of == CHOOSE f : Is(f)
<1>1. PICK f : f = [m \in 0 .. n |-> f[m]] /\ Spelling(f, n)
    BY SpellingExists
<1>2. Is(f)
    <2> DEFINE g == [m \in 0 .. n |-> Spelled(f, m)]
    <2>1. g = [m \in 0 .. n |-> g[m]] /\ \A m \in 0 .. n : g[m] = Spelled(f, m)
        BY Zenon
    <2> HIDE DEF g
    <2>2. f = g
        BY <1>1, <2>1, Zenon DEF Spelling
    <2> QED BY <2>2, Zenon DEF g, Spelled, Tens, Ones
<1>3. Is(of)
    <2> HIDE DEF Is
    <2> QED BY <1>2, Zenon
<1>4. Numeral(n) = of[n]
    BY DEF Numeral
<1> HIDE DEF of
<1>5. \A m \in 0 .. n : of[m] = Spelled(of, m)
    BY <1>3, Zenon DEF Spelled, Tens, Ones
<1> HIDE DEF Is
<1> DEFINE T == {m \in Nat : m \in 0 .. n => of[m] \in Seq(Digits)}
<1>6. ASSUME NEW m \in Nat, \A k \in 0 .. m - 1 : k \in T PROVE m \in T
    <2> SUFFICES ASSUME m \in 0 .. n PROVE of[m] \in Seq(Digits)
        OBVIOUS
    <2>1. ASSUME m >= 10 PROVE of[Tens(m)] \in Seq(Digits)
        <3> DEFINE tens == Tens(m)
        <3>1. tens \in 1 .. m - 1
            BY <2>1, TensAndOnes, Zenon
        <3> HIDE DEF tens
        <3>2. tens \in 0 .. m - 1 /\ tens \in 0 .. n
            BY <3>1
        <3> QED BY <1>6, <3>2 DEF tens
    <2> HIDE DEF T
    <2> QED BY <1>5, <2>1, SpelledTyped, Zenon
<1> HIDE DEF T
<1>7. Nat \subseteq T
    BY <1>6, StrongInduction
<1>8. \A m \in 0 .. n : of[m] \in Seq(Digits)
    BY <1>7 DEF T
<1> QED BY <1>4, <1>5, <1>8, Zenon DEF Spelling

(* A numeral is that of its tens, and a digit more. *)
LEMMA NumeralIs ==
    ASSUME NEW n \in Nat
    PROVE  /\ Numeral(n) \in Seq(Digits)
           /\ n < 10 => Numeral(n) = <<48 + n>>
           /\ n >= 10 => Numeral(n) = Append(Numeral(Tens(n)), 48 + Ones(n))
<1>1. PICK of : Spelling(of, n) /\ Numeral(n) = of[n]
    BY NumeralOf
<1>2. n \in 0 .. n /\ (n >= 10 => ~(n < 10))
    OBVIOUS
<1>3. Numeral(n) \in Seq(Digits) /\ Numeral(n) = Spelled(of, n)
    BY <1>1, <1>2, Zenon DEF Spelling
<1>4. ASSUME n >= 10 PROVE of[Tens(n)] = Numeral(Tens(n))
    <2> DEFINE tens == Tens(n)
    <2>1. tens \in 1 .. n - 1
        BY <1>4, TensAndOnes, Zenon
    <2> HIDE DEF tens
    <2>2. tens \in Nat /\ tens \in 0 .. tens
        BY <2>1
    <2>3. PICK f : Spelling(f, tens) /\ Numeral(tens) = f[tens]
        BY <2>2, NumeralOf, Zenon
    <2> DEFINE T == {m \in Nat : m \in 0 .. tens => of[m] = f[m]}
    <2>4. ASSUME NEW m \in Nat, \A k \in 0 .. m - 1 : k \in T PROVE m \in T
        <3> SUFFICES ASSUME m \in 0 .. tens PROVE of[m] = f[m]
            OBVIOUS
        <3>1. m \in 0 .. n /\ (~(m < 10) => m >= 10)
            BY <2>1
        <3>2. ASSUME m >= 10 PROVE of[Tens(m)] = f[Tens(m)]
            <4> DEFINE less == Tens(m)
            <4>1. less \in 1 .. m - 1
                BY <3>2, TensAndOnes, Zenon
            <4> HIDE DEF less
            <4>2. less \in 0 .. m - 1 /\ less \in 0 .. tens
                BY <2>1, <4>1
            <4> QED BY <2>4, <4>2 DEF less
        <3> HIDE DEF T
        <3>3. Spelled(of, m) = Spelled(f, m)
            BY <3>1, <3>2, Zenon DEF Spelled
        <3> QED BY <1>1, <2>3, <3>1, <3>3, Zenon DEF Spelling
    <2> HIDE DEF T
    <2>5. Nat \subseteq T
        BY <2>4, StrongInduction
    <2>6. of[tens] = f[tens]
        BY <2>2, <2>5 DEF T
    <2> QED BY <2>3, <2>6, Zenon DEF tens
<1> QED BY <1>2, <1>3, <1>4, Zenon DEF Spelled

-----------------------------------------------------------------------------
(* DSON strings: reading a length. *)

(* value[t] is the number that the first t of some digits spell. *)
Values(value, digits, last) ==
    /\ value[0] = 0
    /\ \A t \in 1 .. last : value[t] = 10 * value[t - 1] + (digits[t] - 48)
    /\ \A t \in 0 .. last : value[t] \in Nat

LEMMA DigitIs == ASSUME NEW digit \in Digits PROVE digit - 48 \in 0 .. 9 /\ digit \in Byte
BY SMT DEF Digits, Byte

LEMMA ValuesExist ==
    ASSUME NEW last \in Nat, NEW digits, \A t \in 1 .. last : digits[t] \in Digits
    PROVE  \E value : Values(value, digits, last)
<1> DEFINE step == [p \in Nat \X (1 .. last) |-> 10 * p[1] + (digits[p[2]] - 48)]
<1>1. step \in [Nat \X (1 .. last) -> Nat]
    <2>1. ASSUME NEW p \in Nat \X (1 .. last) PROVE 10 * p[1] + (digits[p[2]] - 48) \in Nat
        <3> DEFINE digit == digits[p[2]]
                   one == digit - 48
                   tens == p[1]
        <3>1. tens \in Nat /\ digit \in Digits
            OBVIOUS
        <3> HIDE DEF digit
        <3>2. one \in 0 .. 9
            BY <3>1, DigitIs, Zenon
        <3> HIDE DEF one, tens
        <3>3. 10 * tens + one \in Nat
            BY <3>1, <3>2
        <3> QED BY <3>3, Zenon DEF tens, one, digit
    <2> QED BY <2>1
<1>2. PICK value \in [0 .. last -> Nat] : Steps(value, last, 0, step)
    <2> HIDE DEF step
    <2>1. 0 \in Nat
        OBVIOUS
    <2> QED BY <1>1, <2>1, Recursion
<1>3. value[0] = 0
    <2>1. 0 \in 0 .. last
        OBVIOUS
    <2> QED BY <1>2, <2>1, Zenon DEF Steps
<1>4. ASSUME NEW t \in 1 .. last PROVE value[t] = 10 * value[t - 1] + (digits[t] - 48)
    <2>1. t \in 0 .. last /\ t # 0 /\ t - 1 \in 0 .. last
        OBVIOUS
    <2>2. <<value[t - 1], t>> \in Nat \X (1 .. last)
        BY <1>2, <2>1
    <2>3. step[<<value[t - 1], t>>] = 10 * value[t - 1] + (digits[t] - 48)
        BY <2>2
    <2> HIDE DEF step
    <2>4. value[t] = step[<<value[t - 1], t>>]
        BY <1>2, <2>1, Zenon DEF Steps
    <2> QED BY <2>3, <2>4, Zenon
<1>5. \A t \in 0 .. last : value[t] \in Nat
    BY <1>2
<1> QED BY <1>3, <1>4, <1>5, Zenon DEF Values

Sized(size, next) == [size |-> size, next |-> next]

LEMMA SizedIs == \A size, next : Sized(size, next).size = size /\ Sized(size, next).next = next
BY DEF Sized

(* The loop of parse_size takes the digits that the input begins with. *)
LEMMA SizeRead ==
    ASSUME NEW input \in Seq(Byte), NEW last \in 0 .. Len(input),
           \A i \in 1 .. last : input[i] \in Digits, ByteAt(input, last + 1) \notin Digits,
           NEW value, Values(value, input, last)
    PROVE  ParsedSize(input) = Sized(value[last], last + 1)
<1> DEFINE N == Len(input)
           Reached(t) == IF t <= last THEN t ELSE last
           f == [t \in 0 .. N |-> Sized(value[Reached(t)], Reached(t) + 1)]
           UpTo(g) == g = [turn \in 0 .. N |-> IF turn = 0 THEN Sized(0, 1)
                                               ELSE DigitRead(input, g[turn - 1])]
           read == CHOOSE g : UpTo(g)
<1>1. N \in Nat /\ last \in Nat /\ last <= N /\ DOMAIN input = 1 .. N
    BY ByteFacts
<1>2. f[0] = Sized(0, 1)
    <2>1. 0 \in 0 .. N /\ Reached(0) = 0 /\ 0 + 1 = 1
        BY <1>1
    <2>2. value[0] = 0
        BY Zenon DEF Values
    <2> QED BY <2>1, <2>2, Zenon
<1>3. ASSUME NEW t \in 1 .. N PROVE f[t] = DigitRead(input, f[t - 1])
    <2>1. t \in 0 .. N /\ t - 1 \in 0 .. N
        BY <1>1
    <2>2. CASE t <= last
        <3>1. Reached(t) = t /\ Reached(t - 1) = t - 1 /\ (t - 1) + 1 = t /\ t \in 1 .. last /\ t \in DOMAIN input
            BY <1>1, <2>2
        <3>2. f[t] = Sized(value[t], t + 1) /\ f[t - 1] = Sized(value[t - 1], t)
            BY <2>1, <3>1, Zenon
        <3>3. ByteAt(input, t) = input[t] /\ input[t] \in 48 .. 57
            BY <3>1, Zenon DEF ByteAt, Digits
        <3> HIDE DEF f, Reached
        <3>4. DigitRead(input, f[t - 1]) = Sized(10 * value[t - 1] + (input[t] - 48), t + 1)
            <4> DEFINE now == f[t - 1]
            <4>1. now.size = value[t - 1] /\ now.next = t
                <5>1. now = Sized(value[t - 1], t)
                    BY <3>2, Zenon
                <5> HIDE DEF now
                <5> QED BY <5>1, SizedIs, SMT
            <4> HIDE DEF now
            <4>2. DigitRead(input, now) = Sized(10 * value[t - 1] + (input[t] - 48), t + 1)
                BY <3>3, <4>1, Zenon DEF DigitRead, Sized
            <4> QED BY <4>2, Zenon DEF now
        <3>5. value[t] = 10 * value[t - 1] + (input[t] - 48)
            BY <3>1, Zenon DEF Values
        <3> QED BY <3>2, <3>4, <3>5, Zenon
    <2>3. CASE ~(t <= last)
        <3>1. Reached(t) = last /\ Reached(t - 1) = last
            BY <1>1, <2>3
        <3>2. f[t] = Sized(value[last], last + 1) /\ f[t - 1] = Sized(value[last], last + 1)
            BY <2>1, <3>1, Zenon
        <3> HIDE DEF f, Reached
        <3>3. ByteAt(input, last + 1) \notin 48 .. 57
            BY Zenon DEF Digits
        <3>4. f[t - 1].next = last + 1
            BY <3>2, SizedIs, Zenon
        <3>5. DigitRead(input, f[t - 1]) = f[t - 1]
            BY <3>3, <3>4, Zenon DEF DigitRead
        <3> QED BY <3>2, <3>5, Zenon
    <2> QED BY <2>2, <2>3, Zenon
<1>4. UpTo(f)
    <2>1. \A t \in 0 .. N : t # 0 => t \in 1 .. N
        BY <1>1
    <2>2. f = [t \in 0 .. N |-> f[t]]
        BY Zenon
    <2> HIDE DEF f
    <2> DEFINE g == [turn \in 0 .. N |-> IF turn = 0 THEN Sized(0, 1) ELSE DigitRead(input, f[turn - 1])]
    <2>3. \A t \in 0 .. N : g[t] = IF t = 0 THEN Sized(0, 1) ELSE DigitRead(input, f[t - 1])
        BY Zenon
    <2>4. g = [t \in 0 .. N |-> g[t]]
        BY Zenon
    <2> HIDE DEF g
    <2>5. \A t \in 0 .. N : f[t] = g[t]
        BY <1>2, <1>3, <2>1, <2>3, Zenon
    <2>6. f = g
        BY <2>2, <2>4, <2>5, Zenon
    <2> QED BY <2>6, Zenon DEF g
<1>5. UpTo(read)
    <2> HIDE DEF UpTo, f
    <2> QED BY <1>4, Zenon
<1>6. ParsedSize(input) = read[N]
    BY DEF ParsedSize, Sized
<1> HIDE DEF read
<1>7. /\ read[0] = Sized(0, 1)
      /\ \A t \in 1 .. N : read[t] = DigitRead(input, read[t - 1])
    <2>1. \A t \in 0 .. N : read[t] = IF t = 0 THEN Sized(0, 1) ELSE DigitRead(input, read[t - 1])
        BY <1>5, Zenon
    <2>2. 0 \in 0 .. N /\ \A t \in 1 .. N : t \in 0 .. N /\ t # 0
        BY <1>1
    <2> QED BY <2>1, <2>2, Zenon
<1>8. f[N] = Sized(value[last], last + 1)
    <2>1. N \in 0 .. N
        <3> HIDE DEF N, f, Reached, UpTo
        <3> QED BY <1>1
    <2>2. N <= last => N = last
        <3> HIDE DEF N, f, Reached, UpTo
        <3> QED BY <1>1
    <2>3. Reached(N) = last
        BY <2>2, Zenon
    <2> QED BY <2>1, <2>3, Zenon
<1> HIDE DEF UpTo, f, Reached
<1> DEFINE T == {t \in 0 .. N : read[t] = f[t]}
<1>9. 0 \in T
    BY <1>1, <1>2, <1>7
<1>10. ASSUME NEW t \in 0 .. N - 1, t \in T PROVE t + 1 \in T
    <2>1. t + 1 \in 1 .. N /\ (t + 1) - 1 = t /\ t + 1 \in 0 .. N /\ read[t] = f[t]
        BY <1>1, <1>10
    <2> HIDE DEF T
    <2>2. read[t + 1] = f[t + 1]
        BY <1>3, <1>7, <2>1, Zenon
    <2> QED BY <2>1, <2>2, Zenon DEF T
<1> HIDE DEF T
<1>11. 0 .. N \subseteq T
    BY <1>1, <1>9, <1>10, BoundedInduction
<1>12. read[N] = f[N]
    BY <1>1, <1>11 DEF T
<1> QED BY <1>6, <1>8, <1>12, Zenon

(* Every input begins with some number of digits. *)
LEMMA DigitsEnd ==
    ASSUME NEW input \in Seq(Byte)
    PROVE  \E last \in 0 .. Len(input) :
               /\ \A i \in 1 .. last : input[i] \in Digits
               /\ ByteAt(input, last + 1) \notin Digits
<1> DEFINE N == Len(input)
           T == {n \in Nat : ByteAt(input, n + 1) \notin Digits}
<1>1. N \in Nat /\ DOMAIN input = 1 .. N
    BY ByteFacts
<1>2. N \in T
    <2>1. N + 1 \notin DOMAIN input
        <3> HIDE DEF N, T
        <3>1. \A n \in Nat : ~(n + 1 <= n)
            OBVIOUS
        <3>2. \A n \in Nat : \A i \in 1 .. n : i <= n
            OBVIOUS
        <3>3. N + 1 \notin 1 .. N
            BY <1>1, <3>1, <3>2, Zenon
        <3> QED BY <1>1, <3>3, Zenon
    <2>2. ByteAt(input, N + 1) = 256
        BY <2>1, Zenon DEF ByteAt
    <2>3. 256 \notin Digits
        BY SMT DEF Digits
    <2> QED BY <1>1, <2>2, <2>3, Zenon
<1>3. PICK last \in T : \A n \in T : last <= n
    <2>1. T \in SUBSET Nat /\ T # {}
        BY <1>2
    <2> HIDE DEF T
    <2> QED BY <2>1, LeastOf
<1>4. last \in 0 .. N
    <2>1. last \in Nat /\ last <= N
        BY <1>2, <1>3
    <2> QED BY <1>1, <2>1
<1>5. ASSUME NEW i \in 1 .. last PROVE input[i] \in Digits
    <2>1. i - 1 \in Nat /\ ~(last <= i - 1) /\ (i - 1) + 1 = i /\ i \in DOMAIN input
        BY <1>1, <1>4
    <2>2. ByteAt(input, i) \in Digits
        BY <1>3, <2>1, Zenon
    <2> QED BY <2>1, <2>2, Zenon DEF ByteAt
<1>6. ByteAt(input, last + 1) \notin Digits
    BY <1>3
<1> QED BY <1>4, <1>5, <1>6, Zenon

(* What the numeral of n spells is n. *)
Spells(n) ==
    /\ Len(Numeral(n)) \in Nat \ {0}
    /\ \A value : Values(value, Numeral(n), Len(Numeral(n))) => value[Len(Numeral(n))] = n

LEMMA NumeralSpells == \A n \in Nat : Spells(n)
<1> DEFINE T == {n \in Nat : Spells(n)}
<1>1. ASSUME NEW n \in Nat, \A m \in 0 .. n - 1 : m \in T PROVE n \in T
    <2> DEFINE digits == Numeral(n)
    <2>1. /\ n < 10 => digits = <<48 + n>>
          /\ n >= 10 => digits = Append(Numeral(Tens(n)), 48 + Ones(n))
        BY NumeralIs, Zenon
    <2>2. CASE n < 10
        <3>1. digits = <<48 + n>>
            BY <2>1, <2>2, Zenon
        <3>2. Len(<<48 + n>>) = 1 /\ <<48 + n>>[1] = 48 + n /\ 1 \in 1 .. 1 /\ 1 \in Nat \ {0} /\ 1 - 1 = 0
            OBVIOUS
        <3>3. Len(digits) = 1 /\ digits[1] = 48 + n
            BY <3>1, <3>2, Zenon
        <3> HIDE DEF digits
        <3>4. ASSUME NEW value, Values(value, digits, Len(digits)) PROVE value[Len(digits)] = n
            <4>1. value[0] = 0 /\ value[1] = 10 * value[0] + (digits[1] - 48)
                BY <3>2, <3>3, <3>4, Zenon DEF Values
            <4>2. value[1] = 10 * 0 + ((48 + n) - 48)
                BY <3>3, <4>1, Zenon
            <4>3. 10 * 0 + ((48 + n) - 48) = n
                OBVIOUS
            <4> QED BY <3>3, <4>2, <4>3, Zenon
        <3> QED BY <3>2, <3>3, <3>4, Zenon DEF Spells, digits
    <2>3. CASE n >= 10
        <3> DEFINE tens == Tens(n)
                   ones == Ones(n)
                   front == Numeral(tens)
                   long == Len(front)
        <3>1. tens \in 1 .. n - 1 /\ ones \in 0 .. 9 /\ n = 10 * tens + ones
            BY <2>3, TensAndOnes, Zenon
        <3>2. digits = Append(front, 48 + ones)
            BY <2>1, <2>3, Zenon
        <3> HIDE DEF tens, ones
        <3>3. tens \in Nat /\ tens \in 0 .. n - 1
            BY <3>1
        <3>4. Spells(tens)
            BY <1>1, <3>3
        <3>5. long \in Nat \ {0} /\ \A value : Values(value, front, long) => value[long] = tens
            BY <3>4, Zenon DEF Spells
        <3>6. front \in Seq(Digits) /\ 48 + ones \in Digits
            <4>1. 48 + ones \in Digits
                BY <3>1, SMT DEF Digits
            <4> QED BY <3>3, <4>1, NumeralIs, Zenon
        <3>7. /\ Len(Append(front, 48 + ones)) = long + 1
              /\ Append(front, 48 + ones)[long + 1] = 48 + ones
              /\ \A i \in 1 .. long : Append(front, 48 + ones)[i] = front[i]
            <4> HIDE DEF front
            <4> QED BY <3>6
        <3> HIDE DEF digits, front, long
        <3>8. /\ Len(digits) = long + 1 /\ digits[long + 1] = 48 + ones
              /\ \A i \in 1 .. long : digits[i] = front[i]
            BY <3>2, <3>7, Zenon
        <3>9. /\ \A t \in 1 .. long : t \in 1 .. long + 1
              /\ \A t \in 0 .. long : t \in 0 .. long + 1
              /\ long + 1 \in 1 .. long + 1 /\ (long + 1) - 1 = long /\ long + 1 \in Nat \ {0}
            BY <3>5
        <3>10. ASSUME NEW value, Values(value, digits, Len(digits)) PROVE value[Len(digits)] = n
            <4>1. Values(value, front, long)
                BY <3>8, <3>9, <3>10, Zenon DEF Values
            <4>2. value[long] = tens
                BY <3>5, <4>1, Zenon
            <4>3. value[long + 1] = 10 * value[long] + (digits[long + 1] - 48)
                BY <3>8, <3>9, <3>10, Zenon DEF Values
            <4>4. value[long + 1] = 10 * tens + ((48 + ones) - 48)
                BY <3>8, <4>2, <4>3, Zenon
            <4>5. 10 * tens + ((48 + ones) - 48) = n
                BY <3>1
            <4> QED BY <3>8, <4>4, <4>5, Zenon
        <3> QED BY <3>8, <3>9, <3>10, Zenon DEF Spells, digits
    <2>4. n < 10 \/ n >= 10
        OBVIOUS
    <2> HIDE DEF digits, T
    <2>5. Spells(n)
        BY <2>2, <2>3, <2>4, Zenon DEF T
    <2> QED BY <2>5 DEF T
<1> HIDE DEF T
<1>2. Nat \subseteq T
    BY <1>1, StrongInduction
<1> QED BY <1>2 DEF T

(* After k zeros, the first `last` digits are this numeral. *)
Trimmed(digits, last, k, numeral) ==
    /\ \A i \in 1 .. k : digits[i] = 48
    /\ numeral = [i \in 1 .. last - k |-> digits[k + i]]

LEMMA OneDigit ==
    ASSUME NEW digits, NEW k \in Nat, digits[k + 1] \in Digits, \A i \in 1 .. k : digits[i] = 48
    PROVE  Trimmed(digits, k + 1, k, Numeral(digits[k + 1] - 48))
<1> DEFINE digit == digits[k + 1]
           ones == digit - 48
<1>1. ones \in 0 .. 9
    BY DigitIs, Zenon
<1> HIDE DEF digit
<1>2. digit \in Nat /\ digit = 48 + ones
    BY SMT DEF Digits, digit
<1> HIDE DEF ones
<1>3. ones \in Nat /\ ones < 10
    BY <1>1
<1>4. Numeral(ones) = <<digit>>
    BY <1>2, <1>3, NumeralIs, Zenon
<1>5. (k + 1) - k = 1 /\ \A i \in 1 .. 1 : k + i = k + 1
    OBVIOUS
<1>6. <<digit>> = [i \in 1 .. 1 |-> digit]
    OBVIOUS
<1>7. [i \in 1 .. 1 |-> digit] = [i \in 1 .. (k + 1) - k |-> digits[k + i]]
    <2> DEFINE f == [i \in 1 .. 1 |-> digit]
               g == [i \in 1 .. (k + 1) - k |-> digits[k + i]]
    <2>1. f = [i \in 1 .. 1 |-> f[i]] /\ \A i \in 1 .. 1 : f[i] = digit
        BY Zenon
    <2>2. g = [i \in 1 .. (k + 1) - k |-> g[i]] /\ \A i \in 1 .. (k + 1) - k : g[i] = digits[k + i]
        BY Zenon
    <2> HIDE DEF f, g
    <2>3. g = [i \in 1 .. 1 |-> g[i]] /\ \A i \in 1 .. 1 : g[i] = digit
        BY <1>5, <2>2, Zenon DEF digit
    <2>4. f = g
        BY <2>1, <2>3, Zenon
    <2> QED BY <2>4, Zenon DEF f, g
<1> QED BY <1>4, <1>6, <1>7, Zenon DEF Trimmed, ones, digit

(* Digits are the numeral of what they spell, after zeros. *)
LEMMA DigitsTrimmed ==
    ASSUME NEW last \in Nat \ {0}, NEW digits, \A i \in 1 .. last : digits[i] \in Digits,
           NEW value, Values(value, digits, last)
    PROVE  \E k \in 0 .. last - 1 : Trimmed(digits, last, k, Numeral(value[last]))
<1> DEFINE Found(t, k) == Trimmed(digits, t, k, Numeral(value[t]))
           T == {n \in 0 .. last - 1 : \E k \in 0 .. n : Found(n + 1, k)}
<1>1. 0 \in T
    <2>1. 0 \in 0 .. last - 1 /\ 0 \in 0 .. 0 /\ 0 \in Nat /\ 0 + 1 = 1 /\ 1 \in 1 .. last /\ 1 - 1 = 0
          /\ \A i \in 1 .. 0 : digits[i] = 48
        OBVIOUS
    <2>2. digits[1] \in Digits
        BY <2>1
    <2>3. Trimmed(digits, 1, 0, Numeral(digits[1] - 48))
        BY <2>1, <2>2, OneDigit, Zenon
    <2>4. value[1] = 10 * value[0] + (digits[1] - 48) /\ value[0] = 0
        BY <2>1, Zenon DEF Values
    <2>5. \A one \in 0 .. 9 : 10 * 0 + one = one
        OBVIOUS
    <2>6. value[1] = digits[1] - 48
        BY <2>2, <2>4, <2>5, DigitIs, Zenon
    <2>7. Found(0 + 1, 0)
        BY <2>1, <2>3, <2>6, Zenon
    <2> HIDE DEF Found
    <2> QED BY <2>1, <2>7
<1>2. ASSUME NEW n \in 0 .. (last - 1) - 1, n \in T PROVE n + 1 \in T
    <2>1. PICK k \in 0 .. n : Found(n + 1, k)
        BY <1>2, Zenon
    <2> DEFINE t == n + 1
               tens == value[t]
               one == digits[t + 1] - 48
    <2>2. /\ t \in 0 .. last - 1 /\ t \in 0 .. last /\ t \in Nat /\ t + 1 \in 1 .. last
          /\ (t + 1) - 1 = t /\ k \in Nat /\ k \in 0 .. t /\ t \in 0 .. t
        OBVIOUS
    <2>3. digits[t + 1] \in Digits /\ one \in 0 .. 9
        <3>1. digits[t + 1] \in Digits
            BY <2>2
        <3> QED BY <3>1, DigitIs, Zenon
    <2>4. tens \in Nat /\ value[t + 1] = 10 * tens + one
        BY <2>2, Zenon DEF Values
    <2>5. Trimmed(digits, t, k, Numeral(tens))
        BY <2>1, Zenon
    <2> HIDE DEF Found, T
    <2>6. CASE tens = 0
        <3>1. Numeral(tens) = <<48 + 0>>
            <4>1. 0 < 10 /\ 0 \in Nat
                OBVIOUS
            <4> HIDE DEF tens
            <4> QED BY <2>6, <4>1, NumeralIs, Zenon
        <3>2. <<48 + 0>> = [i \in 1 .. t - k |-> digits[k + i]]
            BY <2>5, <3>1, Zenon DEF Trimmed
        <3>3. t - k = 1 /\ digits[k + 1] = 48
            <4>1. Len(<<48 + 0>>) = 1 /\ <<48 + 0>>[1] = 48 /\ t - k \in Nat
                BY <2>2
            <4> DEFINE f == [i \in 1 .. t - k |-> digits[k + i]]
            <4>2. f = [i \in 1 .. t - k |-> f[i]] /\ \A i \in 1 .. t - k : f[i] = digits[k + i]
                BY Zenon
            <4> HIDE DEF f
            <4>3. Len(f) = t - k
                BY <4>1, <4>2, FunctionIsSequence, Zenon
            <4>4. t - k = 1 /\ f[1] = 48
                BY <3>2, <4>1, <4>3, Zenon DEF f
            <4>5. 1 \in 1 .. t - k
                BY <4>4
            <4> QED BY <4>2, <4>4, <4>5, Zenon
        <3>4. ASSUME NEW i \in 1 .. t PROVE digits[i] = 48
            <4>1. i \in 1 .. k \/ i = k + 1
                BY <2>2, <3>3
            <4> QED BY <2>5, <3>3, <4>1, Zenon DEF Trimmed
        <3>5. 10 * 0 + one = one
            BY <2>3
        <3>6. value[t + 1] = one
            BY <2>4, <2>6, <3>5, Zenon
        <3>7. Trimmed(digits, t + 1, t, Numeral(one))
            BY <2>2, <2>3, <3>4, OneDigit, Zenon
        <3>8. Found(t + 1, t)
            BY <3>6, <3>7, Zenon DEF Found
        <3> QED BY <2>2, <3>8, Zenon DEF T
    <2>7. CASE tens # 0
        <3> DEFINE all == 10 * tens + one
                   front == Numeral(tens)
                   long == Len(front)
        <3> HIDE DEF one, tens
        <3>1. all \in Nat /\ all >= 10 /\ 48 + one \in Digits
            <4>1. 48 + one \in 48 .. 57
                BY <2>3
            <4> QED BY <2>3, <2>4, <2>7, <4>1 DEF Digits
        <3>2. Tens(all) = tens /\ Ones(all) = one
            BY <2>3, <2>4, TensAndOnes, Zenon
        <3>3. Numeral(all) = Append(front, 48 + one)
            <4> HIDE DEF all
            <4> QED BY <3>1, <3>2, NumeralIs, Zenon
        <3>4. front \in Seq(Digits) /\ front = [i \in 1 .. t - k |-> digits[k + i]]
            BY <2>4, <2>5, NumeralIs, Zenon DEF Trimmed
        <3> HIDE DEF front
        <3>5. long = t - k /\ \A i \in 1 .. t - k : front[i] = digits[k + i]
            <4>1. t - k \in Nat
                BY <2>2
            <4>2. \A i \in 1 .. t - k : front[i] = digits[k + i]
                BY <3>4, Zenon
            <4>3. front = [i \in 1 .. t - k |-> front[i]]
                BY <3>4, Zenon
            <4> QED BY <4>1, <4>2, <4>3, FunctionIsSequence, Zenon
        <3>6. Append(front, 48 + one)
                  = [i \in 1 .. long + 1 |-> IF i <= long THEN front[i] ELSE 48 + one]
            BY <3>1, <3>4, AppendIs
        <3> DEFINE f == [i \in 1 .. long + 1 |-> IF i <= long THEN front[i] ELSE 48 + one]
                   g == [i \in 1 .. (t + 1) - k |-> digits[k + i]]
        <3>7. f = [i \in 1 .. long + 1 |-> f[i]]
              /\ \A i \in 1 .. long + 1 : f[i] = IF i <= long THEN front[i] ELSE 48 + one
            BY Zenon
        <3>8. g = [i \in 1 .. (t + 1) - k |-> g[i]] /\ \A i \in 1 .. (t + 1) - k : g[i] = digits[k + i]
            BY Zenon
        <3> HIDE DEF f, g, long
        <3>9. /\ long + 1 = (t + 1) - k
              /\ \A i \in 1 .. long + 1 : /\ i <= long => i \in 1 .. t - k
                                          /\ ~(i <= long) => k + i = t + 1
            BY <2>2, <3>5
        <3>10. 48 + one = digits[t + 1]
            BY <2>3, SMT DEF one, Digits
        <3>11. \A i \in 1 .. long + 1 : f[i] = g[i]
            BY <3>5, <3>7, <3>8, <3>9, <3>10, Zenon
        <3>12. f = g
            BY <3>7, <3>8, <3>9, <3>11, Zenon
        <3>13. Numeral(value[t + 1]) = g
            BY <2>4, <3>3, <3>6, <3>12, Zenon DEF f
        <3>14. Found(t + 1, k)
            BY <2>5, <3>13, Zenon DEF Found, Trimmed, g
        <3> QED BY <2>2, <3>14, Zenon DEF T
    <2> QED BY <2>6, <2>7, Zenon
<1> HIDE DEF T
<1>3. 0 .. last - 1 \subseteq T
    BY <1>1, <1>2, BoundedInduction
<1>4. last - 1 \in T /\ (last - 1) + 1 = last
    BY <1>3
<1> QED BY <1>4, Zenon DEF T

(* What stands in an input is a part of it. *)
LEMMA StandingIs ==
    ASSUME NEW input \in Seq(Byte), NEW next \in Nat \ {0}, NEW piece \in Seq(Byte),
           Standing(input, next, piece)
    PROVE  /\ \A k \in 1 .. Len(piece) : /\ next + k - 1 \in 1 .. Len(input)
                                         /\ input[next + k - 1] = piece[k]
           /\ SubSeq(input, next, next + Len(piece) - 1) = piece
<1> DEFINE long == Len(piece)
           stop == next + long - 1
           part == SubSeq(input, next, stop)
<1>1. ASSUME NEW k \in 1 .. long
      PROVE  next + k - 1 \in 1 .. Len(input) /\ input[next + k - 1] = piece[k]
    <2>1. piece[k] \in Byte
        BY ByteFacts
    <2>2. ByteAt(input, next + k - 1) = piece[k]
        BY Zenon DEF Standing
    <2>3. 256 \notin Byte
        BY SMT DEF Byte
    <2>4. next + k - 1 \in DOMAIN input
        BY <2>1, <2>2, <2>3, Zenon DEF ByteAt
    <2>5. DOMAIN input = 1 .. Len(input)
        BY ByteFacts
    <2> QED BY <2>2, <2>4, <2>5, Zenon DEF ByteAt
<1>2. long \in Nat /\ piece = [k \in 1 .. long |-> piece[k]]
    BY ByteFacts, SeqIsFunction
<1> HIDE DEF long
<1>3. stop \in Int /\ next \in Int /\ stop - next + 1 = long /\ (next <= stop \/ long = 0)
      /\ (long = 0 => ~(next <= stop))
    BY <1>2
<1>4. \A i \in next .. stop : input[i] \in Byte
    <2> SUFFICES ASSUME NEW i \in next .. stop PROVE input[i] \in Byte
        OBVIOUS
    <2> DEFINE k == i - next + 1
    <2>1. k \in 1 .. long /\ next + k - 1 = i
        BY <1>2
    <2> HIDE DEF k, stop
    <2>2. i \in 1 .. Len(input)
        BY <1>1, <2>1, Zenon
    <2> QED BY <2>2, ByteFacts
<1> HIDE DEF stop
<1>5. /\ part \in Seq(Byte)
      /\ Len(part) = IF next <= stop THEN stop - next + 1 ELSE 0
      /\ \A i \in 1 .. stop - next + 1 : part[i] = input[next + i - 1]
    BY <1>3, <1>4, SubSeqProperties
<1> HIDE DEF part
<1>6. Len(part) = long
    BY <1>3, <1>5
<1>7. part = [k \in 1 .. long |-> part[k]]
    BY <1>5, <1>6, SeqIsFunction, Zenon
<1>8. \A k \in 1 .. long : part[k] = piece[k]
    BY <1>1, <1>3, <1>5, Zenon
<1>9. part = piece
    BY <1>2, <1>7, <1>8, Zenon
<1> QED BY <1>1, <1>9, Zenon DEF part, stop, long

(* parse_string, once parse_size has read a size. *)
AfterSize(input, size, next) ==
    LET begin == next + 1
        end == begin + size
        text == SubSeq(input, begin, end - 1)
    IN  IF next = 1 THEN NoText("expected a non-negative integer", 1)
        ELSE IF size > SizeLimit THEN NoText("integer is out of range", next)
        ELSE IF ByteAt(input, next) # 58 THEN NoText("expected string length separator", next)
        ELSE IF end > Len(input) + 1 THEN NoText("string length exceeds remaining input", begin)
        ELSE IF ~ValidUtf8(text) THEN NoText("string is not valid UTF-8", begin)
        ELSE IF ByteAt(input, end) # 41 THEN NoText("unterminated string value", end)
        ELSE Text(text, end + 1)

LEMMA AfterSizeIs ==
    ASSUME NEW input, NEW size, NEW next, ParsedSize(input) = Sized(size, next)
    PROVE  ReadDsonString(input) = AfterSize(input, size, next)
<1>1. ReadDsonString(input) = AfterSize(input, ParsedSize(input).size, ParsedSize(input).next)
    BY Zenon DEF ReadDsonString, AfterSize
<1>2. ParsedSize(input).size = size /\ ParsedSize(input).next = next
    BY SizedIs, Zenon
<1> QED BY <1>1, <1>2, Zenon

(* What append_string writes, parse_string reads, and it stops where the     *)
(* writer did.                                                              *)
LEMMA DsonStringRead ==
    ASSUME NEW bytes \in Seq(Byte), ValidUtf8(bytes), Len(bytes) <= SizeLimit,
           NEW following \in Seq(Byte)
    PROVE  ReadDsonString(Measured(bytes) \o following) = Text(bytes, Len(Measured(bytes)) + 1)
<1> DEFINE n == Len(bytes)
           num == Numeral(n)
           last == Len(num)
           input == Measured(bytes) \o following
           begin == last + 2
           end == begin + n
<1>1. n \in Nat
    BY ByteFacts
<1> HIDE DEF n
<1>2. Spells(n) /\ num \in Seq(Digits)
    BY <1>1, NumeralSpells, NumeralIs, Zenon
<1> HIDE DEF num
<1>3. last \in Nat \ {0} /\ \A i \in 1 .. last : num[i] \in Digits
    <2>1. last \in Nat \ {0}
        BY <1>2, Zenon DEF Spells, num
    <2>2. \A i \in 1 .. last : num[i] \in Digits
        BY <1>2
    <2> QED BY <2>1, <2>2, Zenon
<1>4. num \in Seq(Byte)
    <2>1. Digits \subseteq Byte
        BY SMT DEF Digits, Byte
    <2> QED BY <1>2, <2>1
<1>5. <<58>> \in Seq(Byte) /\ <<41>> \in Seq(Byte) /\ Len(<<58>>) = 1 /\ Len(<<41>>) = 1
    <2>1. 58 \in Byte /\ 41 \in Byte
        BY SMT DEF Byte
    <2> QED BY <2>1
<1>6. Measured(bytes) = num \o <<58>> \o bytes \o <<41>>
    BY Zenon DEF Measured, num, n
<1> DEFINE one == num \o <<58>>
           two == one \o bytes
           all == two \o <<41>>
<1>7. one \in Seq(Byte) /\ Len(one) = last + 1
    BY <1>4, <1>5
<1> HIDE DEF one, last
<1>8. two \in Seq(Byte) /\ Len(two) = (last + 1) + n
    BY <1>7 DEF n
<1> HIDE DEF two
<1>9. all \in Seq(Byte) /\ Len(all) = (last + 1) + n + 1
    BY <1>5, <1>8
<1>10. Measured(bytes) = all
    BY <1>6, Zenon DEF all, two, one
<1> HIDE DEF all
<1>11. input \in Seq(Byte)
    BY <1>9, <1>10
<1>12. Standing(input, 1, all)
    BY <1>9, <1>10, BeginningStands, Zenon
<1> HIDE DEF input
<1>13. 1 \in Nat /\ last \in Nat /\ n \in Nat /\ 1 + last \in Nat /\ 1 + (last + 1) \in Nat
    BY <1>1, <1>3
<1>14. Standing(input, 1, two) /\ Standing(input, 1 + ((last + 1) + n), <<41>>)
    BY <1>5, <1>8, <1>12, <1>13, JoinStands, Zenon DEF all
<1>15. Standing(input, 1, one) /\ Standing(input, 1 + (last + 1), bytes)
    BY <1>7, <1>14, <1>13, JoinStands, Zenon DEF two
<1>16. Standing(input, 1, num) /\ Standing(input, 1 + last, <<58>>)
    BY <1>4, <1>5, <1>15, <1>13, JoinStands, Zenon DEF one, last
<1>17. /\ \A i \in 1 .. last : i \in 1 .. Len(input) /\ input[i] = num[i]
       /\ SubSeq(input, 1 + (last + 1), 1 + (last + 1) + n - 1) = bytes
       /\ 1 + ((last + 1) + n) + 1 - 1 \in 1 .. Len(input)
    <2>1. 1 \in Nat \ {0} /\ 1 + (last + 1) \in Nat \ {0} /\ 1 + ((last + 1) + n) \in Nat \ {0}
          /\ 1 \in 1 .. 1 /\ \A i \in 1 .. last : 1 + i - 1 = i
        BY <1>13
    <2>2. \A i \in 1 .. last : i \in 1 .. Len(input) /\ input[i] = num[i]
        <3>1. \A i \in 1 .. Len(num) : /\ 1 + i - 1 \in 1 .. Len(input)
                                        /\ input[1 + i - 1] = num[i]
            BY <1>4, <1>11, <1>16, <2>1, StandingIs, Zenon
        <3> QED BY <2>1, <3>1, Zenon DEF last
    <2>3. SubSeq(input, 1 + (last + 1), 1 + (last + 1) + n - 1) = bytes
        BY <1>11, <1>15, <2>1, StandingIs, Zenon DEF n
    <2>4. 1 + ((last + 1) + n) + 1 - 1 \in 1 .. Len(input)
        BY <1>5, <1>11, <1>14, <2>1, StandingIs, Zenon
    <2> QED BY <2>2, <2>3, <2>4, Zenon
<1>18. ByteAt(input, last + 1) = 58 /\ ByteAt(input, end) = 41
    <2>1. 1 \in 1 .. 1 /\ 1 + last + 1 - 1 = last + 1 /\ 1 + ((last + 1) + n) + 1 - 1 = end
        BY <1>13
    <2>2. <<58>>[1] = 58 /\ <<41>>[1] = 41
        OBVIOUS
    <2> HIDE DEF end
    <2>3. ByteAt(input, 1 + last + 1 - 1) = 58
        BY <1>5, <1>16, <2>1, <2>2, Zenon DEF Standing
    <2>4. ByteAt(input, 1 + ((last + 1) + n) + 1 - 1) = 41
        BY <1>5, <1>14, <2>1, <2>2, Zenon DEF Standing
    <2> QED BY <2>1, <2>3, <2>4, Zenon
<1>19. PICK value : Values(value, num, last)
    BY <1>3, <1>13, ValuesExist, Zenon
<1>20. value[last] = n
    BY <1>2, <1>19, Zenon DEF Spells, num, last
<1>21. Values(value, input, last)
    BY <1>17, <1>19, Zenon DEF Values
<1>22. ParsedSize(input) = Sized(n, last + 1)
    <2>1. last \in 0 .. Len(input)
        <3>1. last \in 1 .. last
            BY <1>3 DEF last
        <3>2. last \in 1 .. Len(input)
            BY <1>17, <3>1, Zenon
        <3> QED BY <3>2
    <2>2. \A i \in 1 .. last : input[i] \in Digits
        BY <1>3, <1>17, Zenon DEF last
    <2>3. 58 \notin Digits
        BY SMT DEF Digits
    <2>4. ByteAt(input, last + 1) \notin Digits
        BY <1>18, <2>3, Zenon
    <2>5. ParsedSize(input) = Sized(value[last], last + 1)
        BY <1>11, <1>21, <2>1, <2>2, <2>4, SizeRead, Zenon
    <2> QED BY <1>20, <2>5, Zenon
<1>23. ReadDsonString(input) = AfterSize(input, n, last + 1)
    BY <1>22, AfterSizeIs, Zenon
<1>24. AfterSize(input, n, last + 1) = Text(bytes, end + 1)
    <2>1. /\ last + 1 # 1 /\ ~(n > SizeLimit) /\ (last + 1) + 1 = begin
          /\ begin = 1 + (last + 1) /\ end - 1 = 1 + (last + 1) + n - 1
        <3>1. last # 0 /\ n <= SizeLimit /\ SizeLimit \in Nat
            BY <1>3, TextSources DEF last, n
        <3> QED BY <1>13, <3>1
    <2>2. ~(end > Len(input) + 1)
        <3>1. 1 + ((last + 1) + n) + 1 - 1 = end /\ Len(input) \in Nat
            BY <1>11, <1>13
        <3> DEFINE L == Len(input)
        <3> HIDE DEF L
        <3>2. end \in 1 .. L /\ L \in Nat
            BY <1>17, <3>1, Zenon DEF L
        <3> HIDE DEF end
        <3>3. ~(end > L + 1)
            BY <3>2
        <3> QED BY <3>3, Zenon DEF L
    <2> HIDE DEF begin
    <2>3. SubSeq(input, begin, end - 1) = bytes
        BY <1>17, <2>1, Zenon
    <2> QED BY <1>18, <2>1, <2>2, <2>3, Zenon DEF AfterSize, end
<1>25. Len(Measured(bytes)) + 1 = end + 1
    BY <1>9, <1>10, <1>13
<1> QED BY <1>23, <1>24, <1>25, Zenon DEF input

(* Two parts in a row are their join. *)
LEMMA PartsJoin ==
    ASSUME NEW input, NEW next \in Nat, NEW left \in Seq(Byte), NEW right \in Seq(Byte),
           Standing(input, next, left), Standing(input, next + Len(left), right)
    PROVE  Standing(input, next, left \o right)
<1> DEFINE both == left \o right
           first == Len(left)
<1>1. /\ first \in Nat /\ Len(right) \in Nat /\ Len(both) = first + Len(right)
      /\ \A k \in 1 .. first : both[k] = left[k]
      /\ \A k \in 1 .. Len(right) : both[first + k] = right[k]
    OBVIOUS
<1>2. /\ \A k \in 1 .. first : ByteAt(input, next + k - 1) = left[k]
      /\ \A k \in 1 .. Len(right) : ByteAt(input, next + first + k - 1) = right[k]
    BY Zenon DEF Standing
<1> HIDE DEF both, first
<1>3. ASSUME NEW k \in 1 .. Len(both) PROVE ByteAt(input, next + k - 1) = both[k]
    <2>1. CASE k <= first
        <3>1. k \in 1 .. first
            BY <1>1, <2>1
        <3> QED BY <1>1, <1>2, <3>1, Zenon
    <2>2. CASE ~(k <= first)
        <3> DEFINE j == k - first
        <3>1. j \in 1 .. Len(right) /\ first + j = k /\ next + first + j - 1 = next + k - 1
            BY <1>1, <2>2
        <3> HIDE DEF j
        <3> QED BY <1>1, <1>2, <3>1, Zenon
    <2> QED BY <2>1, <2>2
<1> QED BY <1>3, Zenon DEF Standing, both

LEMMA TextIs ==
    \A bytes, next : Text(bytes, next).bytes = bytes /\ Text(bytes, next).next = next
BY SMT DEF Text

(* Where parse_string looks for a text, and the conditions under which it    *)
(* returns one.                                                             *)
Spans(input, size, next, begin, end, text) ==
    begin = next + 1 /\ end = begin + size /\ text = SubSeq(input, begin, end - 1)

Enclosed(input, next, begin, end) ==
    /\ next # 1 /\ ByteAt(input, next) = 58
    /\ ~(end > Len(input) + 1) /\ ByteAt(input, end) = 41

LEMMA TextAfterSize ==
    ASSUME NEW input, NEW size, NEW next, AfterSize(input, size, next).error = "none",
           NEW begin, NEW end, NEW text, Spans(input, size, next, begin, end, text)
    PROVE  Enclosed(input, next, begin, end) /\ AfterSize(input, size, next) = Text(text, end + 1)
<1>1. \A error, at : NoText(error, at).error = error
    BY Zenon DEF NoText
<1>2. /\ "expected a non-negative integer" # "none"
      /\ "integer is out of range" # "none"
      /\ "expected string length separator" # "none"
      /\ "string length exceeds remaining input" # "none"
      /\ "string is not valid UTF-8" # "none"
      /\ "unterminated string value" # "none"
    BY Zenon
<1> DEFINE after == AfterSize(input, size, next)
           closed == IF ByteAt(input, end) # 41 THEN NoText("unterminated string value", end)
                     ELSE Text(text, end + 1)
           valid == IF ~ValidUtf8(text) THEN NoText("string is not valid UTF-8", begin) ELSE closed
           fits == IF end > Len(input) + 1
                   THEN NoText("string length exceeds remaining input", begin) ELSE valid
           separated == IF ByteAt(input, next) # 58
                        THEN NoText("expected string length separator", next) ELSE fits
           small == IF size > SizeLimit THEN NoText("integer is out of range", next) ELSE separated
<1>3. after = IF next = 1 THEN NoText("expected a non-negative integer", 1) ELSE small
    BY Zenon DEF AfterSize, Spans
<1>4. after.error = "none"
    BY Zenon
<1> HIDE DEF after, small
<1>5. next # 1 /\ after = small
    BY <1>1, <1>2, <1>3, <1>4, Zenon
<1> HIDE DEF separated
<1>6. after = separated
    BY <1>1, <1>2, <1>4, <1>5, Zenon DEF small
<1> HIDE DEF fits
<1>7. ByteAt(input, next) = 58 /\ after = fits
    BY <1>1, <1>2, <1>4, <1>6, Zenon DEF separated
<1> HIDE DEF valid
<1>8. ~(end > Len(input) + 1) /\ after = valid
    BY <1>1, <1>2, <1>4, <1>7, Zenon DEF fits
<1> HIDE DEF closed
<1>9. after = closed
    BY <1>1, <1>2, <1>4, <1>8, Zenon DEF valid
<1>10. ByteAt(input, end) = 41 /\ after = Text(text, end + 1)
    BY <1>1, <1>2, <1>4, <1>9, Zenon DEF closed
<1> QED BY <1>5, <1>7, <1>8, <1>10, Zenon DEF after, Enclosed

(* A DSON string is what append_string writes of the text, after zeros. *)
LEMMA DsonStringIsMeasured ==
    ASSUME NEW input \in Seq(Byte), ReadDsonString(input).error = "none"
    PROVE  \E k \in 0 .. Len(input) :
               /\ \A i \in 1 .. k : input[i] = 48
               /\ Measured(ReadDsonString(input).bytes)
                      = SubSeq(input, k + 1, ReadDsonString(input).next - 1)
<1> DEFINE N == Len(input)
           dson == ReadDsonString(input)
<1>1. N \in Nat /\ DOMAIN input = 1 .. N /\ \A i \in 1 .. N : input[i] \in Byte
    BY ByteFacts
<1>2. PICK last \in 0 .. N : /\ \A i \in 1 .. last : input[i] \in Digits
                             /\ ByteAt(input, last + 1) \notin Digits
    BY DigitsEnd
<1>3. last \in Nat /\ last \in 0 .. last
    BY <1>1
<1>4. PICK value : Values(value, input, last)
    BY <1>2, <1>3, ValuesExist, Zenon
<1> DEFINE size == value[last]
           next == last + 1
<1>5. size \in Nat
    BY <1>3, <1>4, Zenon DEF Values
<1>6. ParsedSize(input) = Sized(size, next)
    BY <1>2, <1>4, SizeRead, Zenon
<1> HIDE DEF size
<1>7. dson = AfterSize(input, size, next)
    BY <1>6, AfterSizeIs, Zenon
<1> DEFINE begin == next + 1
           end == begin + size
           text == SubSeq(input, begin, end - 1)
<1>8. /\ next # 1 /\ ByteAt(input, next) = 58
      /\ ~(end > N + 1) /\ ByteAt(input, end) = 41
      /\ dson = Text(text, end + 1)
    <2>1. Spans(input, size, next, begin, end, text)
        BY Zenon DEF Spans
    <2>2. AfterSize(input, size, next).error = "none"
        BY <1>7, Zenon
    <2> HIDE DEF text, end, begin, next, size, dson, N
    <2>3. Enclosed(input, next, begin, end) /\ AfterSize(input, size, next) = Text(text, end + 1)
        BY <2>1, <2>2, TextAfterSize, Zenon
    <2> QED BY <1>7, <2>3, Zenon DEF N, Enclosed
<1>9. dson.bytes = text /\ dson.next = end + 1
    <2> HIDE DEF text, end, dson
    <2>1. dson = Text(text, end + 1)
        BY <1>8, Zenon
    <2> QED BY <2>1, TextIs, Zenon
<1>10. last \in Nat \ {0} /\ begin \in Nat \ {0} /\ end - 1 <= N /\ end - 1 - begin + 1 = size
       /\ end - 1 \in Int /\ (size # 0 <=> begin <= end - 1) /\ begin = last + 2
    <2> HIDE DEF N
    <2> QED BY <1>1, <1>3, <1>5, <1>8
<1>11. text \in Seq(Byte) /\ Len(text) = size /\ \A i \in 1 .. size : text[i] = input[begin + i - 1]
    <2> DEFINE stop == end - 1
    <2>1. stop \in Int /\ stop <= N /\ begin \in Nat \ {0} /\ stop - begin + 1 = size
          /\ (size # 0 <=> begin <= stop)
        BY <1>10, Zenon
    <2> HIDE DEF stop, begin
    <2>2. \A i \in begin .. stop : i \in 1 .. N
        <3> HIDE DEF N
        <3> QED BY <1>1, <2>1
    <2>3. \A i \in begin .. stop : input[i] \in Byte
        BY <1>1, <2>2, Zenon
    <2> DEFINE part == SubSeq(input, begin, stop)
    <2>4. /\ part \in Seq(Byte)
          /\ Len(part) = IF begin <= stop THEN stop - begin + 1 ELSE 0
          /\ \A i \in 1 .. stop - begin + 1 : part[i] = input[begin + i - 1]
        <3>1. begin \in Int
            BY <2>1
        <3> QED BY <2>1, <2>3, <3>1, SubSeqProperties
    <2> HIDE DEF part
    <2>5. Len(part) = size
        BY <1>5, <2>1, <2>4
    <2> QED BY <2>1, <2>4, <2>5, Zenon DEF part, stop
<1> HIDE DEF text
<1>12. PICK k \in 0 .. last - 1 : Trimmed(input, last, k, Numeral(size))
    BY <1>2, <1>4, <1>10, DigitsTrimmed, Zenon DEF size
<1> DEFINE num == Numeral(size)
           long == last - k
<1>13. /\ \A i \in 1 .. k : input[i] = 48
       /\ num = [i \in 1 .. long |-> input[k + i]]
    BY <1>12, Zenon DEF Trimmed
<1>14. long \in Nat /\ k + 1 \in Nat \ {0} /\ k \in 0 .. N /\ (k + 1) + long = next
    <2> HIDE DEF N
    <2> QED BY <1>1, <1>3, <1>12
<1>15. num \in Seq(Byte) /\ Len(num) = long
    <2>1. num \in Seq(Digits)
        BY <1>5, NumeralIs, Zenon
    <2>2. Digits \subseteq Byte
        BY SMT DEF Digits, Byte
    <2> HIDE DEF long
    <2>3. num = [i \in 1 .. long |-> num[i]]
        BY <1>13, Zenon
    <2> HIDE DEF num
    <2>4. Len(num) = long
        BY <1>14, <2>3, FunctionIsSequence, Zenon
    <2> QED BY <2>1, <2>2, <2>4
<1>16. Standing(input, k + 1, num)
    <2> SUFFICES ASSUME NEW i \in 1 .. long PROVE ByteAt(input, (k + 1) + i - 1) = num[i]
        BY <1>15, Zenon DEF Standing
    <2>1. (k + 1) + i - 1 = k + i /\ k + i \in 1 .. N
        <3> HIDE DEF N
        <3> QED BY <1>1, <1>3, <1>12
    <2>2. ByteAt(input, k + i) = input[k + i]
        BY <1>1, <2>1, Zenon DEF ByteAt
    <2>3. num[i] = input[k + i]
        BY <1>13, Zenon
    <2> QED BY <2>1, <2>2, <2>3, Zenon
<1> HIDE DEF num, long
<1>17. Standing(input, next, <<58>>) /\ Standing(input, end, <<41>>)
    <2>1. /\ Len(<<58>>) = 1 /\ <<58>>[1] = 58 /\ Len(<<41>>) = 1 /\ <<41>>[1] = 41
          /\ next + 1 - 1 = next /\ end + 1 - 1 = end /\ \A i \in 1 .. 1 : i = 1
        BY <1>3, <1>5
    <2> HIDE DEF next, end
    <2> QED BY <1>8, <2>1, Zenon DEF Standing
<1>18. Standing(input, begin, text)
    <2> SUFFICES ASSUME NEW i \in 1 .. size PROVE ByteAt(input, begin + i - 1) = text[i]
        BY <1>11, Zenon DEF Standing
    <2>1. begin + i - 1 \in 1 .. N
        <3> DEFINE stop == end - 1
        <3>1. stop \in Int /\ stop <= N /\ begin \in Nat \ {0} /\ stop - begin + 1 = size
            BY <1>10, Zenon
        <3> HIDE DEF stop, begin, N
        <3> QED BY <1>1, <1>5, <3>1
    <2>2. ByteAt(input, begin + i - 1) = input[begin + i - 1]
        BY <1>1, <2>1, Zenon DEF ByteAt
    <2> QED BY <1>11, <2>2, Zenon
<1>19. <<58>> \in Seq(Byte) /\ <<41>> \in Seq(Byte) /\ Len(<<58>>) = 1 /\ Len(<<41>>) = 1
    <2>1. 58 \in Byte /\ 41 \in Byte
        BY SMT DEF Byte
    <2> QED BY <2>1
<1> DEFINE one == num \o <<58>>
           two == one \o text
           all == two \o <<41>>
<1>20. one \in Seq(Byte) /\ Len(one) = long + 1
    BY <1>15, <1>19
<1>21. Standing(input, k + 1, one)
    <2>1. k + 1 \in Nat /\ Standing(input, (k + 1) + Len(num), <<58>>)
        <3> HIDE DEF next
        <3> QED BY <1>14, <1>15, <1>17, Zenon
    <2> QED BY <1>15, <1>16, <1>19, <2>1, PartsJoin, Zenon
<1> HIDE DEF one
<1>22. two \in Seq(Byte) /\ Len(two) = (long + 1) + size
    BY <1>11, <1>20, JoinLength, Zenon
<1>23. (k + 1) + (long + 1) = begin /\ (k + 1) + ((long + 1) + size) = end
    BY <1>3, <1>5, <1>12, <1>14
<1> HIDE DEF begin
<1>24. Standing(input, k + 1, two)
    BY <1>11, <1>14, <1>18, <1>20, <1>21, <1>23, PartsJoin, Zenon
<1> HIDE DEF two, end
<1>25. all \in Seq(Byte) /\ Len(all) = ((long + 1) + size) + 1
    BY <1>19, <1>22
<1>26. Standing(input, k + 1, all)
    BY <1>14, <1>17, <1>19, <1>22, <1>23, <1>24, PartsJoin, Zenon
<1>27. Measured(text) = all
    <2>1. num = Numeral(Len(text))
        BY <1>11, Zenon DEF num
    <2> QED BY <2>1, Zenon DEF Measured, all, two, one
<1> HIDE DEF all
<1>28. SubSeq(input, k + 1, (k + 1) + Len(all) - 1) = all
    BY <1>14, <1>25, <1>26, StandingIs, Zenon
<1>29. (k + 1) + Len(all) - 1 = dson.next - 1
    <2>1. (k + 1) + (((long + 1) + size) + 1) - 1 = ((k + 1) + ((long + 1) + size) + 1) - 1
        BY <1>5, <1>14
    <2> QED BY <1>9, <1>23, <1>25, <2>1, Zenon
<1>30. Measured(dson.bytes) = SubSeq(input, k + 1, dson.next - 1)
    BY <1>9, <1>27, <1>28, <1>29, Zenon
<1> QED BY <1>13, <1>14, <1>30, Zenon

-----------------------------------------------------------------------------
(* JSON strings: what is read is what the pieces of the string spell.  This  *)
(* is RFC 8259's notion of a string, and knows nothing of how it is read.    *)

(* The digits of a value, in either case. *)
HexForms(n) == IF n < 10 THEN {48 + n} ELSE {55 + n, 87 + n}

(* The kinds of UTF-16 units: those that are code points, those that are the *)
(* first of a pair, and those that are the second.                           *)
IsUnit(unit) == unit \in Nat /\ unit <= 65535
IsHigh(unit) == unit \in Nat /\ 55296 <= unit /\ unit <= 56319
IsLow(unit) == unit \in Nat /\ 56320 <= unit /\ unit <= 57343
IsSingle(unit) == IsUnit(unit) /\ ~IsHigh(unit) /\ ~IsLow(unit)

UnitValue(a, b, c, d) == 4096 * a + 256 * b + 16 * c + d
PairValue(high, low) == 65536 + 1024 * (high - 55296) + (low - 56320)

(* The escape of a unit. *)
UnitSpelled(piece, unit) ==
    \E a, b, c, d \in 0 .. 15 :
        \E w \in HexForms(a) : \E x \in HexForms(b) : \E y \in HexForms(c) : \E z \in HexForms(d) :
            /\ unit = UnitValue(a, b, c, d)
            /\ piece = <<Backslash, 117, w, x, y, z>>

LetterSpelled(piece, codepoint) ==
    \E pair \in Pairs : piece = <<Backslash, pair[2]>> /\ codepoint = pair[1]

SingleSpelled(piece, codepoint) == IsSingle(codepoint) /\ UnitSpelled(piece, codepoint)

PairSpelled(piece, codepoint) ==
    \E high, low : \E left, right \in Seq(Byte) :
        /\ IsHigh(high) /\ UnitSpelled(left, high)
        /\ IsLow(low) /\ UnitSpelled(right, low)
        /\ piece = left \o right
        /\ codepoint = PairValue(high, low)

EscapeSpelled(piece, codepoint) ==
    LetterSpelled(piece, codepoint) \/ SingleSpelled(piece, codepoint) \/ PairSpelled(piece, codepoint)

(* A byte that stands for itself. *)
RawSpelled(piece, text) ==
    \E byte \in Byte : /\ byte >= 32 /\ byte # Quote /\ byte # Backslash
                       /\ piece = <<byte>> /\ text = <<byte>>

PieceSpelled(piece, text) ==
    \/ RawSpelled(piece, text)
    \/ \E codepoint : EscapeSpelled(piece, codepoint) /\ text = Utf8(codepoint)

LEMMA HexFormsAre ==
    /\ \A n \in 0 .. 15 : \A byte \in HexForms(n) : byte \in Byte /\ HexValue(byte) = n
    /\ \A byte \in 0 .. 256 : HexValue(byte) < 16 =>
          HexValue(byte) \in 0 .. 15 /\ byte \in HexForms(HexValue(byte)) /\ byte \in Byte
<1>1. \A n \in 0 .. 15 : \A byte \in HexForms(n) : byte \in Byte /\ HexValue(byte) = n
    BY SMT DEF HexForms, HexValue, Byte
<1>2. \A byte \in 0 .. 256 : HexValue(byte) < 16 =>
          HexValue(byte) \in 0 .. 15 /\ byte \in HexForms(HexValue(byte)) /\ byte \in Byte
    BY SMT DEF HexForms, HexValue, Byte
<1> QED BY <1>1, <1>2, Zenon

(* A byte of the input, or what stands for its end. *)
LEMMA ByteAtIs ==
    ASSUME NEW input \in Seq(Byte), NEW i
    PROVE  /\ ByteAt(input, i) \in 0 .. 256
           /\ ByteAt(input, i) \in Byte => ByteAt(input, i) = input[i] /\ i \in 1 .. Len(input)
           /\ ByteAt(input, i) # 256 => ByteAt(input, i) \in Byte
<1>1. DOMAIN input = 1 .. Len(input) /\ \A k \in 1 .. Len(input) : input[k] \in Byte
    BY ByteFacts
<1>2. 256 \in 0 .. 256 /\ 256 \notin Byte /\ \A byte \in Byte : byte \in 0 .. 256
    BY SMT DEF Byte
<1> QED BY <1>1, <1>2, Zenon DEF ByteAt

(* Six bytes in a row. *)
SixInARow(input, next, a, b, c, d, e, f) ==
    /\ ByteAt(input, next) = a /\ ByteAt(input, next + 1) = b
    /\ ByteAt(input, next + 2) = c /\ ByteAt(input, next + 3) = d
    /\ ByteAt(input, next + 4) = e /\ ByteAt(input, next + 5) = f

LEMMA SixStand ==
    ASSUME NEW input, NEW next \in Nat, NEW a, NEW b, NEW c, NEW d, NEW e, NEW f
    PROVE  /\ Len(<<a, b, c, d, e, f>>) = 6
           /\ Standing(input, next, <<a, b, c, d, e, f>>) <=> SixInARow(input, next, a, b, c, d, e, f)
<1> DEFINE piece == <<a, b, c, d, e, f>>
<1>1. /\ Len(piece) = 6 /\ piece[1] = a /\ piece[2] = b /\ piece[3] = c
      /\ piece[4] = d /\ piece[5] = e /\ piece[6] = f
    OBVIOUS
<1>2. /\ next + 1 - 1 = next /\ next + 2 - 1 = next + 1 /\ next + 3 - 1 = next + 2
      /\ next + 4 - 1 = next + 3 /\ next + 5 - 1 = next + 4 /\ next + 6 - 1 = next + 5
      /\ \A k \in 1 .. 6 : k = 1 \/ k = 2 \/ k = 3 \/ k = 4 \/ k = 5 \/ k = 6
      /\ 1 \in 1 .. 6 /\ 2 \in 1 .. 6 /\ 3 \in 1 .. 6 /\ 4 \in 1 .. 6 /\ 5 \in 1 .. 6 /\ 6 \in 1 .. 6
    OBVIOUS
<1> HIDE DEF piece
<1>3. ASSUME Standing(input, next, piece)
      PROVE  /\ ByteAt(input, next) = a /\ ByteAt(input, next + 1) = b
             /\ ByteAt(input, next + 2) = c /\ ByteAt(input, next + 3) = d
             /\ ByteAt(input, next + 4) = e /\ ByteAt(input, next + 5) = f
    <2>1. \A k \in 1 .. 6 : ByteAt(input, next + k - 1) = piece[k]
        BY <1>1, <1>3, Zenon DEF Standing
    <2> QED BY <1>1, <1>2, <2>1, Zenon
<1>4. ASSUME ByteAt(input, next) = a /\ ByteAt(input, next + 1) = b,
             ByteAt(input, next + 2) = c /\ ByteAt(input, next + 3) = d,
             ByteAt(input, next + 4) = e /\ ByteAt(input, next + 5) = f
      PROVE  Standing(input, next, piece)
    <2>1. ASSUME NEW k \in 1 .. 6 PROVE ByteAt(input, next + k - 1) = piece[k]
        <3>1. k = 1 \/ k = 2 \/ k = 3 \/ k = 4 \/ k = 5 \/ k = 6
            BY <1>2, Zenon
        <3> QED BY <1>1, <1>2, <1>4, <3>1, Zenon
    <2> QED BY <1>1, <2>1, Zenon DEF Standing
<1>5. Standing(input, next, piece) <=> SixInARow(input, next, a, b, c, d, e, f)
    BY <1>3, <1>4, Zenon DEF SixInARow
<1>6. Len(piece) = 6
    BY <1>1, Zenon
<1> QED BY <1>5, <1>6, Zenon DEF piece

(* The kinds of units, as the code tells them apart. *)
LEMMA UnitKinds ==
    ASSUME NEW unit, IsUnit(unit)
    PROVE  /\ unit \notin Surrogates <=> IsSingle(unit)
           /\ unit \in Surrogates => (unit > 56319 <=> IsLow(unit)) /\ (~(unit > 56319) <=> IsHigh(unit))
           /\ unit \in 56320 .. 57343 <=> IsLow(unit)
           /\ unit \in Nat
<1> DEFINE first == 55296
           end == 57343
           start == 56320
<1>0. Surrogates = first .. end
    BY DEF Surrogates
<1>1. 56320 .. 57343 = start .. end
    OBVIOUS
<1>2. first = 55296 /\ end = 57343 /\ start = 56320
    OBVIOUS
<1> HIDE DEF first, end, start
<1>3. unit \in Nat /\ first \in Int /\ end \in Int /\ start \in Int
    BY <1>2 DEF IsUnit
<1>4. /\ unit \in Surrogates <=> first <= unit /\ unit <= end
      /\ unit \in 56320 .. 57343 <=> start <= unit /\ unit <= end
    <2>1. \A i, j, k \in Int : k \in i .. j <=> i <= k /\ k <= j
        OBVIOUS
    <2>2. unit \in Int
        BY <1>3
    <2>3. /\ unit \in first .. end <=> first <= unit /\ unit <= end
          /\ unit \in start .. end <=> start <= unit /\ unit <= end
        BY <1>3, <2>1, <2>2, Zenon
    <2> DEFINE lows == 56320 .. 57343
    <2>4. lows = start .. end
        BY <1>1
    <2> HIDE DEF lows
    <2>5. unit \in lows <=> start <= unit /\ unit <= end
        BY <2>3, <2>4, Zenon
    <2>6. unit \in Surrogates <=> first <= unit /\ unit <= end
        BY <1>0, <2>3, Zenon
    <2> QED BY <2>5, <2>6 DEF lows
<1> QED BY <1>2, <1>3, <1>4, SMT DEF IsUnit, IsSingle, IsHigh, IsLow

LEMMA UnitBounds ==
    ASSUME NEW a \in 0 .. 15, NEW b \in 0 .. 15, NEW c \in 0 .. 15, NEW d \in 0 .. 15
    PROVE  IsUnit(UnitValue(a, b, c, d))
BY SMT DEF UnitValue, IsUnit

(* Four digits, at i and behind it. *)
FourAt(input, i, w, x, y, z) ==
    /\ ByteAt(input, i) = w /\ ByteAt(input, i + 1) = x
    /\ ByteAt(input, i + 2) = y /\ ByteAt(input, i + 3) = z

AreHex(w, x, y, z) == HexValue(w) < 16 /\ HexValue(x) < 16 /\ HexValue(y) < 16 /\ HexValue(z) < 16

HexUnit(w, x, y, z) == UnitValue(HexValue(w), HexValue(x), HexValue(y), HexValue(z))

LEMMA HasUnitIs ==
    ASSUME NEW input, NEW i \in Nat, NEW w, NEW x, NEW y, NEW z, FourAt(input, i, w, x, y, z)
    PROVE  HasUnit(input, i) <=> AreHex(w, x, y, z)
<1>1. /\ \A k \in i .. i + 3 : k = i \/ k = i + 1 \/ k = i + 2 \/ k = i + 3
      /\ i \in i .. i + 3 /\ i + 1 \in i .. i + 3 /\ i + 2 \in i .. i + 3 /\ i + 3 \in i .. i + 3
    OBVIOUS
<1>2. ASSUME HasUnit(input, i) PROVE AreHex(w, x, y, z)
    BY <1>1, <1>2, Zenon DEF HasUnit, FourAt, AreHex
<1>3. ASSUME AreHex(w, x, y, z) PROVE HasUnit(input, i)
    <2>1. \A k \in i .. i + 3 : ByteAt(input, k) = w \/ ByteAt(input, k) = x
                                \/ ByteAt(input, k) = y \/ ByteAt(input, k) = z
        BY <1>1, Zenon DEF FourAt
    <2> QED BY <1>3, <2>1, Zenon DEF HasUnit, AreHex
<1> QED BY <1>2, <1>3, Zenon

LEMMA UnitIs ==
    ASSUME NEW input \in Seq(Byte), NEW i \in Nat,
           NEW w \in Byte, NEW x \in Byte, NEW y \in Byte, NEW z \in Byte,
           FourAt(input, i, w, x, y, z)
    PROVE  Unit(input, i) = HexUnit(w, x, y, z)
<1>1. input[i] = w /\ input[i + 1] = x /\ input[i + 2] = y /\ input[i + 3] = z
    BY ByteAtIs, Zenon DEF FourAt
<1>2. i + 0 = i
    OBVIOUS
<1>3. input[i + 0] = w
    BY <1>1, <1>2, Zenon
<1>4. HexUnit(w, x, y, z) = 4096 * HexValue(w) + 256 * HexValue(x) + 16 * HexValue(y) + HexValue(z)
    BY DEF HexUnit, UnitValue
<1> QED BY <1>1, <1>3, <1>4, SMT DEF Unit

(* Six bytes: the escape of a unit. *)
SixAt(input, next, w, x, y, z) ==
    /\ ByteAt(input, next) = Backslash /\ ByteAt(input, next + 1) = 117
    /\ FourAt(input, next + 2, w, x, y, z)

SixBytes(w, x, y, z) == <<Backslash, 117, w, x, y, z>>

LEMMA SixStands ==
    ASSUME NEW input, NEW next \in Nat, NEW w, NEW x, NEW y, NEW z
    PROVE  /\ Len(SixBytes(w, x, y, z)) = 6
           /\ Standing(input, next, SixBytes(w, x, y, z)) <=> SixAt(input, next, w, x, y, z)
           /\ w \in Byte /\ x \in Byte /\ y \in Byte /\ z \in Byte => SixBytes(w, x, y, z) \in Seq(Byte)
<1> DEFINE u == 117
<1>1. (next + 2) + 1 = next + 3 /\ (next + 2) + 2 = next + 4 /\ (next + 2) + 3 = next + 5
    OBVIOUS
<1>2. Backslash \in Byte /\ u \in Byte
    BY SMT DEF Backslash, Byte
<1>3. SixBytes(w, x, y, z) = <<Backslash, u, w, x, y, z>>
    BY DEF SixBytes
<1>4. SixAt(input, next, w, x, y, z) <=>
          /\ ByteAt(input, next) = Backslash /\ ByteAt(input, next + 1) = u
          /\ FourAt(input, next + 2, w, x, y, z)
    BY DEF SixAt
<1> HIDE DEF u
<1>5. Len(SixBytes(w, x, y, z)) = 6
    BY <1>3
<1>6. w \in Byte /\ x \in Byte /\ y \in Byte /\ z \in Byte => SixBytes(w, x, y, z) \in Seq(Byte)
    BY <1>2, <1>3
<1>7. Standing(input, next, <<Backslash, u, w, x, y, z>>)
          <=> SixInARow(input, next, Backslash, u, w, x, y, z)
    BY SixStand, Zenon
<1>8. Standing(input, next, SixBytes(w, x, y, z)) <=> SixAt(input, next, w, x, y, z)
    BY <1>1, <1>3, <1>4, <1>7, Zenon DEF FourAt, SixInARow
<1> QED BY <1>5, <1>6, <1>8, Zenon

HexOf(byte, n) == n \in 0 .. 15 /\ byte \in HexForms(n)

LEMMA HexOfIs ==
    ASSUME NEW byte, NEW n
    PROVE  /\ HexOf(byte, n) => byte \in Byte /\ HexValue(byte) = n /\ HexValue(byte) < 16
           /\ byte \in 0 .. 256 /\ HexValue(byte) < 16 => HexOf(byte, HexValue(byte))
<1>1. ASSUME HexOf(byte, n) PROVE byte \in Byte /\ HexValue(byte) = n /\ HexValue(byte) < 16
    <2>1. byte \in Byte /\ HexValue(byte) = n
        BY <1>1, HexFormsAre, Zenon DEF HexOf
    <2>2. n < 16
        BY <1>1 DEF HexOf
    <2> QED BY <2>1, <2>2, Zenon
<1>2. ASSUME byte \in 0 .. 256, HexValue(byte) < 16 PROVE HexOf(byte, HexValue(byte))
    BY <1>2, HexFormsAre, Zenon DEF HexOf
<1> QED BY <1>1, <1>2, Zenon

(* The escape of a unit, digit by digit. *)
DigitsSpell(piece, unit, w, x, y, z) ==
    /\ HexOf(w, HexValue(w)) /\ HexOf(x, HexValue(x))
    /\ HexOf(y, HexValue(y)) /\ HexOf(z, HexValue(z))
    /\ piece = SixBytes(w, x, y, z) /\ unit = HexUnit(w, x, y, z)

LEMMA UnitSpelledIs ==
    ASSUME NEW piece, NEW unit
    PROVE  UnitSpelled(piece, unit) <=> \E w, x, y, z : DigitsSpell(piece, unit, w, x, y, z)
<1>1. ASSUME UnitSpelled(piece, unit) PROVE \E w, x, y, z : DigitsSpell(piece, unit, w, x, y, z)
    <2>1. PICK a \in 0 .. 15, b \in 0 .. 15, c \in 0 .. 15, d \in 0 .. 15 :
              \E w \in HexForms(a) : \E x \in HexForms(b) : \E y \in HexForms(c) : \E z \in HexForms(d) :
                  unit = UnitValue(a, b, c, d) /\ piece = SixBytes(w, x, y, z)
        BY <1>1, Zenon DEF UnitSpelled, SixBytes
    <2>2. PICK w \in HexForms(a), x \in HexForms(b), y \in HexForms(c), z \in HexForms(d) :
              unit = UnitValue(a, b, c, d) /\ piece = SixBytes(w, x, y, z)
        BY <2>1, Zenon
    <2>3. HexOf(w, a) /\ HexOf(x, b) /\ HexOf(y, c) /\ HexOf(z, d)
        BY Zenon DEF HexOf
    <2>4. HexValue(w) = a /\ HexValue(x) = b /\ HexValue(y) = c /\ HexValue(z) = d
        BY <2>3, HexOfIs, Zenon
    <2>5. unit = HexUnit(w, x, y, z)
        BY <2>2, <2>4, Zenon DEF HexUnit
    <2> QED BY <2>2, <2>3, <2>4, <2>5, Zenon DEF DigitsSpell
<1>2. ASSUME NEW w, NEW x, NEW y, NEW z, DigitsSpell(piece, unit, w, x, y, z)
      PROVE  UnitSpelled(piece, unit)
    <2> DEFINE a == HexValue(w)
               b == HexValue(x)
               c == HexValue(y)
               d == HexValue(z)
    <2>1. /\ a \in 0 .. 15 /\ b \in 0 .. 15 /\ c \in 0 .. 15 /\ d \in 0 .. 15
          /\ w \in HexForms(a) /\ x \in HexForms(b) /\ y \in HexForms(c) /\ z \in HexForms(d)
        BY <1>2, Zenon DEF DigitsSpell, HexOf
    <2>2. unit = UnitValue(a, b, c, d) /\ piece = SixBytes(w, x, y, z)
        BY <1>2, Zenon DEF DigitsSpell, HexUnit
    <2> HIDE DEF a, b, c, d
    <2> QED BY <2>1, <2>2, Zenon DEF UnitSpelled, SixBytes
<1> QED BY <1>1, <1>2, Zenon

(* Where the escape of a unit is found, one stands, and the other way round. *)
UnitAt(input, next) ==
    /\ ByteAt(input, next) = Backslash /\ ByteAt(input, next + 1) = 117
    /\ HasUnit(input, next + 2)

UnitStands(input, next, piece, unit) ==
    /\ piece \in Seq(Byte) /\ Len(piece) = 6
    /\ UnitSpelled(piece, unit) /\ Standing(input, next, piece)

LEMMA SpellingStands ==
    ASSUME NEW input \in Seq(Byte), NEW next \in Nat, NEW piece, NEW unit,
           NEW w, NEW x, NEW y, NEW z, DigitsSpell(piece, unit, w, x, y, z),
           SixAt(input, next, w, x, y, z)
    PROVE  /\ UnitAt(input, next) /\ Unit(input, next + 2) = unit /\ IsUnit(unit)
           /\ UnitStands(input, next, piece, unit)
<1>1. /\ w \in Byte /\ x \in Byte /\ y \in Byte /\ z \in Byte
      /\ AreHex(w, x, y, z)
    BY HexOfIs, Zenon DEF DigitsSpell, AreHex
<1>2. next + 2 \in Nat
    OBVIOUS
<1>3. FourAt(input, next + 2, w, x, y, z)
    BY Zenon DEF SixAt
<1>4. UnitAt(input, next)
    BY <1>1, <1>2, <1>3, HasUnitIs, Zenon DEF UnitAt, SixAt
<1>5. Unit(input, next + 2) = unit
    <2>1. Unit(input, next + 2) = HexUnit(w, x, y, z)
        BY <1>1, <1>2, <1>3, UnitIs
    <2> QED BY <2>1, Zenon DEF DigitsSpell
<1>6. IsUnit(unit)
    BY UnitBounds, Zenon DEF DigitsSpell, HexOf, HexUnit
<1>7. UnitSpelled(piece, unit)
    BY UnitSpelledIs, Zenon
<1>8. piece \in Seq(Byte) /\ Len(piece) = 6 /\ Standing(input, next, piece)
    BY <1>1, SixStands, Zenon DEF DigitsSpell
<1> QED BY <1>4, <1>5, <1>6, <1>7, <1>8, Zenon DEF UnitStands

LEMMA UnitFound ==
    ASSUME NEW input \in Seq(Byte), NEW next \in Nat, UnitAt(input, next)
    PROVE  /\ IsUnit(Unit(input, next + 2))
           /\ \E piece : UnitStands(input, next, piece, Unit(input, next + 2))
<1> DEFINE w == ByteAt(input, next + 2)
           x == ByteAt(input, (next + 2) + 1)
           y == ByteAt(input, (next + 2) + 2)
           z == ByteAt(input, (next + 2) + 3)
           piece == SixBytes(w, x, y, z)
           unit == HexUnit(w, x, y, z)
<1>1. next + 2 \in Nat
    OBVIOUS
<1>2. FourAt(input, next + 2, w, x, y, z)
    BY Zenon DEF FourAt
<1>3. w \in 0 .. 256 /\ x \in 0 .. 256 /\ y \in 0 .. 256 /\ z \in 0 .. 256
    BY ByteAtIs
<1> HIDE DEF w, x, y, z
<1>4. AreHex(w, x, y, z)
    BY <1>1, <1>2, HasUnitIs, Zenon DEF UnitAt
<1>5. DigitsSpell(piece, unit, w, x, y, z)
    BY <1>3, <1>4, HexOfIs, Zenon DEF DigitsSpell, AreHex
<1>6. SixAt(input, next, w, x, y, z)
    BY <1>2, Zenon DEF SixAt, UnitAt
<1> HIDE DEF piece, unit
<1> QED BY <1>5, <1>6, SpellingStands, Zenon

LEMMA UnitTaken ==
    ASSUME NEW input \in Seq(Byte), NEW next \in Nat, NEW piece, NEW unit,
           UnitSpelled(piece, unit), Standing(input, next, piece)
    PROVE  /\ UnitAt(input, next) /\ Unit(input, next + 2) = unit /\ IsUnit(unit)
           /\ UnitStands(input, next, piece, unit)
<1>1. PICK w, x, y, z : DigitsSpell(piece, unit, w, x, y, z)
    BY UnitSpelledIs, Zenon
<1>2. SixAt(input, next, w, x, y, z)
    BY <1>1, SixStands, Zenon DEF DigitsSpell
<1> QED BY <1>1, <1>2, SpellingStands, Zenon

LEMMA NoTextIs ==
    ASSUME NEW error, NEW next
    PROVE  NoText(error, next).error = error
BY SMT DEF NoText

(* The string is given up. *)
Refused(read) == read.error # "reading" /\ read.error # "none"

(* What unicode_escape makes of a unit, and of the one behind it. *)
LowAt(input, next) == UnitAt(input, next) /\ IsLow(Unit(input, next + 2))

LEMMA LowSurrogateIs ==
    ASSUME NEW input \in Seq(Byte), NEW next \in Nat
    PROVE  LowSurrogate(input, next) <=> LowAt(input, next)
<1>1. LowSurrogate(input, next) <=> UnitAt(input, next) /\ Unit(input, next + 2) \in 56320 .. 57343
    BY DEF LowSurrogate, UnitAt
<1>2. UnitAt(input, next) => (Unit(input, next + 2) \in 56320 .. 57343 <=> IsLow(Unit(input, next + 2)))
    BY UnitFound, UnitKinds
<1> QED BY <1>1, <1>2 DEF LowAt

Escapes(input, next, output, read) ==
    \/ /\ IsSingle(Unit(input, next + 2))
       /\ read = Reading(output \o Utf8(Unit(input, next + 2)), next + 6)
    \/ /\ IsHigh(Unit(input, next + 2)) /\ LowAt(input, next + 6)
       /\ read = Reading(output \o Utf8(PairValue(Unit(input, next + 2), Unit(input, next + 8))), next + 12)
    \/ /\ ~IsSingle(Unit(input, next + 2))
       /\ ~(IsHigh(Unit(input, next + 2)) /\ LowAt(input, next + 6))
       /\ Refused(read)

LEMMA EscapeErrors ==
    \A next : /\ Refused(NoText("invalid Unicode escape", next))
              /\ Refused(NoText("unpaired Unicode surrogate", next))
              /\ Refused(NoText("invalid low surrogate", next))
              /\ Refused(NoText("unknown escape sequence", next))
              /\ Refused(NoText("unterminated string", next))
              /\ Refused(NoText("string is not valid UTF-8", next))
              /\ Refused(NoText("control character in string", next))
<1>1. /\ "invalid Unicode escape" # "reading" /\ "invalid Unicode escape" # "none"
      /\ "unpaired Unicode surrogate" # "reading" /\ "unpaired Unicode surrogate" # "none"
      /\ "invalid low surrogate" # "reading" /\ "invalid low surrogate" # "none"
      /\ "unknown escape sequence" # "reading" /\ "unknown escape sequence" # "none"
      /\ "unterminated string" # "reading" /\ "unterminated string" # "none"
      /\ "string is not valid UTF-8" # "reading" /\ "string is not valid UTF-8" # "none"
      /\ "control character in string" # "reading" /\ "control character in string" # "none"
    BY Zenon
<1>2. \A error, next : error # "reading" /\ error # "none" => Refused(NoText(error, next))
    BY NoTextIs, Zenon DEF Refused
<1> QED BY <1>1, <1>2, Zenon

LEMMA UnicodeEscapeIs ==
    ASSUME NEW input \in Seq(Byte), NEW next \in Nat, NEW output, UnitAt(input, next)
    PROVE  Escapes(input, next, output, UnicodeEscape(input, next + 2, output))
<1> DEFINE i == next + 2
           unit == Unit(input, next + 2)
           low == Unit(input, next + 8)
           read == UnicodeEscape(input, next + 2, output)
           late == unit > 56319
<1>1. /\ (next + 2) + 4 = next + 6 /\ (next + 2) + 6 = next + 8 /\ (next + 2) + 10 = next + 12
      /\ next + 6 \in Nat /\ next + 2 \in Nat
    OBVIOUS
<1>2. HasUnit(input, next + 2) /\ IsUnit(unit)
    BY UnitFound, Zenon DEF UnitAt
<1>3. LowSurrogate(input, next + 6) <=> LowAt(input, next + 6)
    BY <1>1, LowSurrogateIs, Zenon
<1>4. /\ unit \notin Surrogates <=> IsSingle(unit)
      /\ unit \in Surrogates => (late <=> IsLow(unit)) /\ (~late <=> IsHigh(unit))
    BY <1>2, UnitKinds
<1>5. CASE unit \notin Surrogates
    <2>1. read = Reading(output \o Utf8(unit), (next + 2) + 4)
        BY <1>2, <1>5 DEF UnicodeEscape
    <2> QED BY <1>1, <1>4, <1>5, <2>1 DEF Escapes
<1>6. CASE unit \in Surrogates /\ late
    <2>1. read = NoText("unpaired Unicode surrogate", next + 2)
        BY <1>2, <1>6 DEF UnicodeEscape
    <2>2. Refused(read)
        BY <2>1, EscapeErrors, Zenon
    <2>3. ~IsSingle(unit) /\ ~IsHigh(unit)
        BY <1>4, <1>6 DEF IsSingle
    <2> QED BY <2>2, <2>3, Zenon DEF Escapes
<1>7. CASE unit \in Surrogates /\ ~late /\ ~LowSurrogate(input, next + 6)
    <2>1. read = NoText("invalid low surrogate", (next + 2) + 4)
        BY <1>1, <1>2, <1>7 DEF UnicodeEscape
    <2>2. Refused(read)
        BY <2>1, EscapeErrors, Zenon
    <2> HIDE DEF late, unit, read
    <2>3. ~IsSingle(unit) /\ ~LowAt(input, next + 6)
        BY <1>3, <1>4, <1>7, Zenon
    <2> QED BY <2>2, <2>3, Zenon DEF Escapes, unit, read
<1>8. CASE unit \in Surrogates /\ ~late /\ LowSurrogate(input, next + 6)
    <2>1. read = Reading(output \o Utf8(65536 + 1024 * (unit - 55296) + (Unit(input, (next + 2) + 6) - 56320)),
                         (next + 2) + 10)
        BY <1>1, <1>2, <1>8 DEF UnicodeEscape
    <2>2. PairValue(unit, low) = 65536 + 1024 * (unit - 55296) + (Unit(input, (next + 2) + 6) - 56320)
        BY <1>1 DEF PairValue
    <2>3. read = Reading(output \o Utf8(PairValue(unit, low)), next + 12)
        BY <1>1, <2>1, <2>2
    <2> HIDE DEF late, unit, read, low
    <2>4. IsHigh(unit) /\ LowAt(input, next + 6)
        BY <1>3, <1>4, <1>8, Zenon
    <2> QED BY <2>3, <2>4, Zenon DEF Escapes, unit, read, low
<1> HIDE DEF late
<1> QED BY <1>5, <1>6, <1>7, <1>8, Zenon

LEMMA LetterWhole ==
    ASSUME NEW pair \in Pairs
    PROVE  /\ pair[1] \in Byte /\ pair[2] \in Byte /\ pair[2] # 117
           /\ pair = <<pair[1], pair[2]>>
           /\ Utf8(pair[1]) = <<pair[1]>>
<1>1. pair[1] \in Byte /\ pair[2] \in Byte /\ pair[2] # 117
    BY PairFacts, Zenon
<1>2. pair = <<pair[1], pair[2]>> /\ pair[1] <= 127
    BY SMT DEF Pairs, Letters, Quote, Backslash
<1>3. Utf8(pair[1]) = <<pair[1]>>
    BY <1>2 DEF Utf8
<1> QED BY <1>1, <1>2, <1>3, Zenon

(* What is behind a backslash. *)
LEMMA EscapeIs ==
    ASSUME NEW input \in Seq(Byte), NEW next \in Nat, NEW output, ByteAt(input, next) = Backslash
    PROVE  /\ UnitAt(input, next) =>
                 Escape(input, next, output) = UnicodeEscape(input, next + 2, output)
           /\ \A pair \in Pairs : ByteAt(input, next + 1) = pair[2] =>
                 Escape(input, next, output) = Reading(Append(output, pair[1]), next + 2)
           /\ \/ UnitAt(input, next)
              \/ \E pair \in Pairs : ByteAt(input, next + 1) = pair[2]
              \/ Refused(Escape(input, next, output))
<1>1. ASSUME ByteAt(input, next + 1) = 117
      PROVE  Escape(input, next, output) = UnicodeEscape(input, next + 2, output)
    BY <1>1, Zenon DEF Escape
<1>2. ASSUME NEW pair \in Pairs, ByteAt(input, next + 1) = pair[2]
      PROVE  Escape(input, next, output) = Reading(Append(output, pair[1]), next + 2)
    <2>1. <<pair[1], pair[2]>> \in Pairs
        BY LetterWhole, Zenon
    <2> QED BY <1>2, <2>1, LetterRead, Zenon
<1>3. CASE ByteAt(input, next + 1) = 117 /\ ~HasUnit(input, next + 2)
    <2>1. UnicodeEscape(input, next + 2, output) = NoText("invalid Unicode escape", next + 2)
        BY <1>3 DEF UnicodeEscape
    <2>2. Refused(Escape(input, next, output))
        BY <1>1, <1>3, <2>1, EscapeErrors, Zenon
    <2> QED BY <1>1, <1>2, <2>2, Zenon DEF UnitAt
<1>4. CASE ByteAt(input, next + 1) = 117 /\ HasUnit(input, next + 2)
    BY <1>1, <1>2, <1>4, Zenon DEF UnitAt
<1>5. CASE ByteAt(input, next + 1) # 117
    <2> DEFINE letters == {pair \in Pairs : pair[2] = ByteAt(input, next + 1)}
    <2>1. CASE letters = {}
        <3>1. Escape(input, next, output) = NoText("unknown escape sequence", next)
            BY <1>5, <2>1, Zenon DEF Escape, Pairs
        <3>2. Refused(Escape(input, next, output))
            BY <3>1, EscapeErrors, Zenon
        <3> QED BY <1>1, <1>2, <3>2, Zenon DEF UnitAt
    <2>2. CASE letters # {}
        BY <1>1, <1>2, <2>2, Zenon DEF UnitAt
    <2> QED BY <2>1, <2>2, Zenon
<1> QED BY <1>3, <1>4, <1>5, Zenon

InUnicode(codepoint) == codepoint \in Nat /\ codepoint <= 1114111

LEMMA Utf8Typed ==
    ASSUME NEW codepoint \in Nat, InUnicode(codepoint)
    PROVE  Utf8(codepoint) \in Seq(Byte)
<1>1. CASE codepoint <= 127
    <2>1. codepoint \in Byte
        BY <1>1 DEF Byte
    <2> QED BY <1>1, <2>1 DEF Utf8
<1>2. CASE ~(codepoint <= 127) /\ codepoint <= 2047
    <2> DEFINE a == 192 + codepoint \div 64
               b == 128 + ((codepoint \div 1) % 64)
    <2>1. a \in Byte /\ b \in Byte
        BY <1>2, SMT DEF Byte
    <2>2. Utf8(codepoint) = <<a, b>>
        BY <1>2 DEF Utf8
    <2> HIDE DEF a, b
    <2> QED BY <2>1, <2>2
<1>3. CASE ~(codepoint <= 2047) /\ codepoint <= 65535
    <2> DEFINE a == 224 + codepoint \div 4096
               b == 128 + ((codepoint \div 64) % 64)
               c == 128 + ((codepoint \div 1) % 64)
    <2>1. a \in Byte /\ b \in Byte /\ c \in Byte
        BY <1>3, SMT DEF Byte
    <2>2. Utf8(codepoint) = <<a, b, c>>
        BY <1>3 DEF Utf8
    <2> HIDE DEF a, b, c
    <2> QED BY <2>1, <2>2
<1>4. CASE ~(codepoint <= 65535)
    <2> DEFINE a == 240 + codepoint \div 262144
               b == 128 + ((codepoint \div 4096) % 64)
               c == 128 + ((codepoint \div 64) % 64)
               d == 128 + ((codepoint \div 1) % 64)
    <2>1. a \in Byte /\ b \in Byte /\ c \in Byte /\ d \in Byte
        BY <1>4, SMT DEF Byte, InUnicode
    <2>2. Utf8(codepoint) = <<a, b, c, d>>
        BY <1>4 DEF Utf8
    <2> HIDE DEF a, b, c, d
    <2> QED BY <2>1, <2>2
<1> QED BY <1>1, <1>2, <1>3, <1>4

LEMMA PairBounds ==
    ASSUME NEW high, NEW low, IsHigh(high), IsLow(low)
    PROVE  PairValue(high, low) \in Nat /\ InUnicode(PairValue(high, low))
BY SMT DEF IsHigh, IsLow, PairValue, InUnicode

(* What a turn of the loop takes when a piece stands where it looks. *)
Taken(input, next, bytes, piece, text) ==
    /\ piece \in Seq(Byte) /\ Len(piece) \in Nat \ {0} /\ text \in Seq(Byte)
    /\ StringTurn(input, Reading(bytes, next)) = Reading(bytes \o text, next + Len(piece))

LEMMA RawTaken ==
    ASSUME NEW input \in Seq(Byte), NEW next \in Nat, NEW bytes \in Seq(Byte), NEW piece, NEW text,
           RawSpelled(piece, text), Standing(input, next, piece)
    PROVE  Taken(input, next, bytes, piece, text)
<1>1. PICK byte \in Byte : /\ byte >= 32 /\ byte # Quote /\ byte # Backslash
                           /\ piece = <<byte>> /\ text = <<byte>>
    BY Zenon DEF RawSpelled
<1>2. Len(<<byte>>) = 1 /\ <<byte>>[1] = byte /\ 1 \in 1 .. 1 /\ next + 1 - 1 = next /\ 1 \in Nat \ {0}
      /\ <<byte>> \in Seq(Byte)
    OBVIOUS
<1>3. ByteAt(input, next) = byte
    BY <1>1, <1>2, Zenon DEF Standing
<1>4. StringTurn(input, Reading(bytes, next)) = Reading(Append(bytes, byte), next + 1)
    BY <1>1, <1>3, PlainTurn
<1>5. bytes \o <<byte>> = Append(bytes, byte)
    BY AppendIs
<1> QED BY <1>1, <1>2, <1>4, <1>5, Zenon DEF Taken

LEMMA LetterTaken ==
    ASSUME NEW input \in Seq(Byte), NEW next \in Nat, NEW bytes \in Seq(Byte),
           NEW piece, NEW codepoint,
           LetterSpelled(piece, codepoint), Standing(input, next, piece)
    PROVE  Taken(input, next, bytes, piece, Utf8(codepoint))
<1>1. PICK pair \in Pairs : piece = <<Backslash, pair[2]>> /\ codepoint = pair[1]
    BY Zenon DEF LetterSpelled
<1> DEFINE byte == pair[1]
           letter == pair[2]
<1>2. byte \in Byte /\ letter \in Byte /\ Utf8(byte) = <<byte>>
    BY LetterWhole, Zenon
<1>3. Backslash \in Byte
    BY SMT DEF Backslash, Byte
<1> HIDE DEF byte, letter
<1> DEFINE two == <<Backslash, letter>>
<1>4. /\ Len(two) = 2 /\ two[1] = Backslash /\ two[2] = letter /\ two \in Seq(Byte)
      /\ 1 \in 1 .. 2 /\ 2 \in 1 .. 2 /\ next + 1 - 1 = next /\ next + 2 - 1 = next + 1 /\ 2 \in Nat \ {0}
    BY <1>2, <1>3
<1>5. piece = two
    BY <1>1, Zenon DEF letter
<1> HIDE DEF two
<1>6. ByteAt(input, next) = Backslash /\ ByteAt(input, next + 1) = letter
    BY <1>4, <1>5, Zenon DEF Standing
<1>7. StringTurn(input, Reading(bytes, next)) = Escape(input, next, bytes)
    BY <1>6, EscapeTurn, Zenon
<1>8. Escape(input, next, bytes) = Reading(Append(bytes, byte), next + 2)
    BY <1>6, EscapeIs, Zenon DEF byte, letter
<1>9. bytes \o <<byte>> = Append(bytes, byte) /\ <<byte>> \in Seq(Byte)
    BY <1>2, AppendIs
<1>10. Utf8(codepoint) = <<byte>>
    BY <1>1, <1>2, Zenon DEF byte
<1> QED BY <1>4, <1>5, <1>7, <1>8, <1>9, <1>10, Zenon DEF Taken

LEMMA UnitTurn ==
    ASSUME NEW input \in Seq(Byte), NEW next \in Nat, NEW bytes, UnitAt(input, next)
    PROVE  StringTurn(input, Reading(bytes, next)) = UnicodeEscape(input, next + 2, bytes)
<1>1. ByteAt(input, next) = Backslash
    BY Zenon DEF UnitAt
<1>2. StringTurn(input, Reading(bytes, next)) = Escape(input, next, bytes)
    BY <1>1, EscapeTurn, Zenon
<1>3. Escape(input, next, bytes) = UnicodeEscape(input, next + 2, bytes)
    BY <1>1, EscapeIs
<1> QED BY <1>2, <1>3, Zenon

LEMMA SingleTaken ==
    ASSUME NEW input \in Seq(Byte), NEW next \in Nat, NEW bytes \in Seq(Byte),
           NEW piece, NEW codepoint,
           SingleSpelled(piece, codepoint), Standing(input, next, piece)
    PROVE  Taken(input, next, bytes, piece, Utf8(codepoint))
<1>1. /\ UnitAt(input, next) /\ Unit(input, next + 2) = codepoint
      /\ UnitStands(input, next, piece, codepoint) /\ IsSingle(codepoint)
    BY UnitTaken, Zenon DEF SingleSpelled
<1>3. StringTurn(input, Reading(bytes, next)) = UnicodeEscape(input, next + 2, bytes)
    BY <1>1, UnitTurn
<1>4. Escapes(input, next, bytes, UnicodeEscape(input, next + 2, bytes))
    BY <1>1, UnicodeEscapeIs
<1>5. ~IsHigh(codepoint)
    BY <1>1, Zenon DEF IsSingle
<1>6. UnicodeEscape(input, next + 2, bytes) = Reading(bytes \o Utf8(codepoint), next + 6)
    BY <1>1, <1>4, <1>5, Zenon DEF Escapes
<1>7. codepoint \in Nat /\ InUnicode(codepoint)
    BY <1>1, SMT DEF IsSingle, IsUnit, InUnicode
<1>8. Utf8(codepoint) \in Seq(Byte)
    BY <1>7, Utf8Typed
<1>9. piece \in Seq(Byte) /\ Len(piece) = 6 /\ 6 \in Nat \ {0}
    BY <1>1 DEF UnitStands
<1> QED BY <1>3, <1>6, <1>8, <1>9, Zenon DEF Taken

(* Two pieces that stand one behind the other. *)
LEMMA JoinedStands ==
    ASSUME NEW input, NEW next \in Nat, NEW left \in Seq(Byte), NEW right \in Seq(Byte),
           Standing(input, next, left), Standing(input, next + Len(left), right)
    PROVE  Standing(input, next, left \o right)
<1> DEFINE both == left \o right
<1>1. /\ Len(left) \in Nat /\ Len(right) \in Nat /\ Len(both) = Len(left) + Len(right)
      /\ \A k \in 1 .. Len(left) : both[k] = left[k]
      /\ \A k \in 1 .. Len(right) : both[Len(left) + k] = right[k]
    OBVIOUS
<1> HIDE DEF both
<1>2. ASSUME NEW k \in 1 .. Len(both) PROVE ByteAt(input, next + k - 1) = both[k]
    <2>1. CASE k \in 1 .. Len(left)
        BY <1>1, <2>1, Zenon DEF Standing
    <2>2. CASE k \notin 1 .. Len(left)
        <3> DEFINE m == k - Len(left)
        <3>1. m \in 1 .. Len(right) /\ Len(left) + m = k /\ next + Len(left) + m - 1 = next + k - 1
            BY <1>1, <2>2
        <3> HIDE DEF m
        <3>2. ByteAt(input, next + Len(left) + m - 1) = right[m]
            BY <3>1, Zenon DEF Standing
        <3> QED BY <1>1, <3>1, <3>2, Zenon
    <2> QED BY <2>1, <2>2, Zenon
<1> QED BY <1>2, Zenon DEF Standing, both

LEMMA PairTaken ==
    ASSUME NEW input \in Seq(Byte), NEW next \in Nat, NEW bytes \in Seq(Byte),
           NEW piece, NEW codepoint,
           PairSpelled(piece, codepoint), Standing(input, next, piece)
    PROVE  Taken(input, next, bytes, piece, Utf8(codepoint))
<1>1. PICK high, low : \E left, right \in Seq(Byte) :
          /\ IsHigh(high) /\ UnitSpelled(left, high) /\ IsLow(low) /\ UnitSpelled(right, low)
          /\ piece = left \o right /\ codepoint = PairValue(high, low)
    BY Zenon DEF PairSpelled
<1>2. PICK left \in Seq(Byte), right \in Seq(Byte) :
          /\ IsHigh(high) /\ UnitSpelled(left, high) /\ IsLow(low) /\ UnitSpelled(right, low)
          /\ piece = left \o right /\ codepoint = PairValue(high, low)
    BY <1>1, Zenon
<1>3. Standing(input, next, left) /\ Standing(input, next + Len(left), right)
    BY <1>2, JoinStands, Zenon
<1>4. /\ UnitAt(input, next) /\ Unit(input, next + 2) = high
      /\ UnitStands(input, next, left, high)
    BY <1>2, <1>3, UnitTaken, Zenon
<1>5. Len(left) = 6 /\ next + 6 \in Nat /\ next + 6 + 2 = next + 8
    BY <1>4 DEF UnitStands
<1>6. /\ UnitAt(input, next + 6) /\ Unit(input, next + 6 + 2) = low
      /\ UnitStands(input, next + 6, right, low)
    <2> DEFINE behind == next + 6
    <2>1. behind \in Nat /\ Standing(input, behind, right)
        BY <1>3, <1>5, Zenon
    <2> HIDE DEF behind
    <2>2. /\ UnitAt(input, behind) /\ Unit(input, behind + 2) = low
          /\ UnitStands(input, behind, right, low)
        BY <1>2, <2>1, UnitTaken, Zenon
    <2> QED BY <2>2, Zenon DEF behind
<1>7. LowAt(input, next + 6)
    BY <1>2, <1>6, Zenon DEF LowAt
<1>9. StringTurn(input, Reading(bytes, next)) = UnicodeEscape(input, next + 2, bytes)
    BY <1>4, UnitTurn
<1>10. Escapes(input, next, bytes, UnicodeEscape(input, next + 2, bytes))
    BY <1>4, UnicodeEscapeIs
<1>11. ~IsSingle(high)
    BY <1>2, Zenon DEF IsSingle
<1>12. UnicodeEscape(input, next + 2, bytes) = Reading(bytes \o Utf8(codepoint), next + 12)
    <2>1. Unit(input, next + 8) = low
        BY <1>5, <1>6, Zenon
    <2> QED BY <1>2, <1>4, <1>7, <1>10, <1>11, <2>1, Zenon DEF Escapes
<1>13. Utf8(codepoint) \in Seq(Byte)
    BY <1>2, PairBounds, Utf8Typed
<1>14. piece \in Seq(Byte) /\ Len(piece) = 12 /\ 12 \in Nat \ {0}
    <2>1. Len(left) = 6 /\ Len(right) = 6
        BY <1>4, <1>6, Zenon DEF UnitStands
    <2>2. piece \in Seq(Byte) /\ Len(piece) = Len(left) + Len(right)
        BY <1>2, JoinLength, Zenon
    <2> QED BY <2>1, <2>2
<1> QED BY <1>9, <1>12, <1>13, <1>14, Zenon DEF Taken

LEMMA SpelledTaken ==
    ASSUME NEW input \in Seq(Byte), NEW next \in Nat, NEW bytes \in Seq(Byte),
           NEW piece, NEW text, PieceSpelled(piece, text), Standing(input, next, piece)
    PROVE  Taken(input, next, bytes, piece, text)
<1>1. CASE RawSpelled(piece, text)
    BY <1>1, RawTaken, Zenon
<1>2. CASE \E codepoint : EscapeSpelled(piece, codepoint) /\ text = Utf8(codepoint)
    <2>1. PICK codepoint : EscapeSpelled(piece, codepoint) /\ text = Utf8(codepoint)
        BY <1>2, Zenon
    <2> QED BY <2>1, LetterTaken, SingleTaken, PairTaken, Zenon DEF EscapeSpelled
<1> QED BY <1>1, <1>2, Zenon DEF PieceSpelled

(* A piece stands there, or the string ends, or it is given up. *)
PieceStands(input, next) ==
    \E piece, text : PieceSpelled(piece, text) /\ Standing(input, next, piece)

Ends(input, next, bytes, read) ==
    ByteAt(input, next) = Quote /\ ValidUtf8(bytes) /\ read = Text(bytes, next + 1)

LEMMA UnitTurnIs ==
    ASSUME NEW input \in Seq(Byte), NEW next \in Nat, NEW bytes, UnitAt(input, next)
    PROVE  PieceStands(input, next) \/ Refused(StringTurn(input, Reading(bytes, next)))
<1> DEFINE unit == Unit(input, next + 2)
           low == Unit(input, next + 8)
<1>1. StringTurn(input, Reading(bytes, next)) = UnicodeEscape(input, next + 2, bytes)
    BY UnitTurn
<1>2. Escapes(input, next, bytes, UnicodeEscape(input, next + 2, bytes))
    BY UnicodeEscapeIs
<1>3. PICK left : UnitStands(input, next, left, unit)
    BY UnitFound, Zenon
<1>4. CASE IsSingle(unit)
    <2>1. SingleSpelled(left, unit) /\ Standing(input, next, left)
        BY <1>3, <1>4, Zenon DEF SingleSpelled, UnitStands
    <2> HIDE DEF unit
    <2> QED BY <2>1, Zenon DEF PieceStands, PieceSpelled, EscapeSpelled
<1>5. CASE IsHigh(unit) /\ LowAt(input, next + 6)
    <2>1. next + 6 \in Nat /\ next + 6 + 2 = next + 8
        OBVIOUS
    <2>2. UnitAt(input, next + 6) /\ IsLow(low)
        BY <1>5, <2>1, Zenon DEF LowAt
    <2>3. PICK right : UnitStands(input, next + 6, right, low)
        <3> DEFINE behind == next + 6
        <3>1. behind \in Nat /\ UnitAt(input, behind) /\ behind + 2 = next + 8
            BY <2>1, <2>2
        <3> HIDE DEF behind
        <3>2. \E right : UnitStands(input, behind, right, Unit(input, behind + 2))
            BY <3>1, UnitFound, Zenon
        <3> QED BY <3>1, <3>2, Zenon DEF behind
    <2> DEFINE piece == left \o right
    <2>4. /\ left \in Seq(Byte) /\ right \in Seq(Byte) /\ Len(left) = 6
          /\ Standing(input, next, left) /\ Standing(input, next + Len(left), right)
          /\ UnitSpelled(left, unit) /\ UnitSpelled(right, low)
        BY <1>3, <2>3, Zenon DEF UnitStands
    <2>5. Standing(input, next, piece)
        BY <2>4, JoinedStands, Zenon
    <2> HIDE DEF unit, low
    <2>6. PairSpelled(piece, PairValue(unit, low))
        BY <1>5, <2>2, <2>4, Zenon DEF PairSpelled
    <2> HIDE DEF piece
    <2> QED BY <2>5, <2>6, Zenon DEF PieceStands, PieceSpelled, EscapeSpelled
<1>6. CASE ~IsSingle(unit) /\ ~(IsHigh(unit) /\ LowAt(input, next + 6))
    <2>1. Refused(UnicodeEscape(input, next + 2, bytes))
        BY <1>2, <1>6, Zenon DEF Escapes
    <2> QED BY <1>1, <2>1, Zenon
<1> QED BY <1>4, <1>5, <1>6, Zenon

LEMMA BackslashTurnIs ==
    ASSUME NEW input \in Seq(Byte), NEW next \in Nat, NEW bytes, ByteAt(input, next) = Backslash
    PROVE  PieceStands(input, next) \/ Refused(StringTurn(input, Reading(bytes, next)))
<1>1. StringTurn(input, Reading(bytes, next)) = Escape(input, next, bytes)
    BY EscapeTurn, Zenon
<1>2. CASE UnitAt(input, next)
    BY <1>2, UnitTurnIs
<1>3. ASSUME NEW pair \in Pairs, ByteAt(input, next + 1) = pair[2]
      PROVE  PieceStands(input, next)
    <2> DEFINE letter == pair[2]
               two == <<Backslash, letter>>
    <2>1. /\ Len(two) = 2 /\ two[1] = Backslash /\ two[2] = letter
          /\ next + 1 - 1 = next /\ next + 2 - 1 = next + 1
          /\ \A k \in 1 .. 2 : k = 1 \/ k = 2
        OBVIOUS
    <2>2. LetterSpelled(two, pair[1])
        BY Zenon DEF LetterSpelled
    <2> HIDE DEF two
    <2>3. ASSUME NEW k \in 1 .. 2 PROVE ByteAt(input, next + k - 1) = two[k]
        <3>1. k = 1 \/ k = 2
            BY <2>1, Zenon
        <3> QED BY <1>3, <2>1, <3>1, Zenon
    <2>4. Standing(input, next, two)
        BY <2>1, <2>3, Zenon DEF Standing
    <2> QED BY <2>2, <2>4, Zenon DEF PieceStands, PieceSpelled, EscapeSpelled
<1>4. CASE Refused(Escape(input, next, bytes))
    BY <1>1, <1>4, Zenon
<1>5. \/ UnitAt(input, next)
      \/ \E pair \in Pairs : ByteAt(input, next + 1) = pair[2]
      \/ Refused(Escape(input, next, bytes))
    BY EscapeIs
<1> QED BY <1>2, <1>3, <1>4, <1>5, Zenon

LEMMA TurnIs ==
    ASSUME NEW input \in Seq(Byte), NEW next \in Nat, NEW bytes
    PROVE  \/ PieceStands(input, next)
           \/ Ends(input, next, bytes, StringTurn(input, Reading(bytes, next)))
           \/ Refused(StringTurn(input, Reading(bytes, next)))
<1> DEFINE byte == ByteAt(input, next)
           state == Reading(bytes, next)
           read == StringTurn(input, state)
<1>1. state.error = "reading" /\ state.bytes = bytes /\ state.next = next
    BY ReadingIs, Zenon
<1>2. byte # 256 => byte \in Byte
    BY ByteAtIs
<1> HIDE DEF state
<1>3. CASE byte = 256
    <2>1. read = NoText("unterminated string", next)
        BY <1>1, <1>3 DEF StringTurn
    <2> QED BY <2>1, EscapeErrors, Zenon DEF state
<1>4. CASE byte = Quote /\ ValidUtf8(bytes)
    <2>1. read = Text(bytes, next + 1)
        BY <1>4, QuoteTurn, Zenon DEF state
    <2> QED BY <1>4, <2>1, Zenon DEF Ends, state
<1>5. CASE byte = Quote /\ ~ValidUtf8(bytes)
    <2>1. read = NoText("string is not valid UTF-8", next)
        BY <1>1, <1>5 DEF StringTurn, Quote
    <2> QED BY <2>1, EscapeErrors, Zenon DEF state
<1>6. CASE byte # 256 /\ byte # Quote /\ byte < 32
    <2>1. read = NoText("control character in string", next)
        BY <1>1, <1>6 DEF StringTurn
    <2> QED BY <2>1, EscapeErrors, Zenon DEF state
<1>7. CASE byte = Backslash
    BY <1>7, BackslashTurnIs, Zenon DEF state
<1>8. CASE byte \in Byte /\ byte # Quote /\ byte # Backslash /\ ~(byte < 32)
    <2>1. byte >= 32
        <3>1. \A b \in Byte : ~(b < 32) => b >= 32
            BY DEF Byte
        <3> HIDE DEF byte
        <3> QED BY <1>8, <3>1, Zenon
    <2>2. RawSpelled(<<byte>>, <<byte>>)
        <3> HIDE DEF byte
        <3> QED BY <1>8, <2>1, Zenon DEF RawSpelled
    <2>3. /\ Len(<<byte>>) = 1 /\ <<byte>>[1] = byte /\ next + 1 - 1 = next
          /\ \A k \in 1 .. 1 : k = 1
        OBVIOUS
    <2>4. Standing(input, next, <<byte>>)
        BY <2>3, Zenon DEF Standing
    <2> QED BY <2>2, <2>4, Zenon DEF PieceStands, PieceSpelled
<1> HIDE DEF byte
<1> QED BY <1>2, <1>3, <1>4, <1>5, <1>6, <1>7, <1>8, Zenon

(* read is what JsonParser.string has read before each turn. *)
Reads(read, input) ==
    /\ read[0] = Reading(<<>>, 2)
    /\ \A t \in 1 .. Len(input) : read[t] = StringTurn(input, read[t - 1])

IsReading(read) == \E bytes \in Seq(Byte) : \E next \in Nat : read = Reading(bytes, next)

LEMMA PieceTaken ==
    ASSUME NEW input \in Seq(Byte), NEW next \in Nat, NEW bytes \in Seq(Byte), PieceStands(input, next)
    PROVE  /\ \E piece, text : /\ PieceSpelled(piece, text) /\ Standing(input, next, piece)
                               /\ Taken(input, next, bytes, piece, text)
           /\ IsReading(StringTurn(input, Reading(bytes, next)))
<1>1. PICK piece, text : PieceSpelled(piece, text) /\ Standing(input, next, piece)
    BY Zenon DEF PieceStands
<1>2. Taken(input, next, bytes, piece, text)
    BY <1>1, SpelledTaken, Zenon
<1>3. /\ bytes \o text \in Seq(Byte) /\ next + Len(piece) \in Nat
      /\ StringTurn(input, Reading(bytes, next)) = Reading(bytes \o text, next + Len(piece))
    <2>1. /\ text \in Seq(Byte) /\ Len(piece) \in Nat
          /\ StringTurn(input, Reading(bytes, next)) = Reading(bytes \o text, next + Len(piece))
        BY <1>2, Zenon DEF Taken
    <2>2. bytes \o text \in Seq(Byte)
        BY <2>1, JoinLength, Zenon
    <2>3. next + Len(piece) \in Nat
        BY <2>1
    <2> QED BY <2>1, <2>2, <2>3, Zenon
<1> QED BY <1>1, <1>2, <1>3, Zenon DEF IsReading

LEMMA NotReading ==
    ASSUME NEW input, NEW read, read.error # "reading"
    PROVE  StringTurn(input, read) = read
BY Zenon DEF StringTurn

LEMMA EndsOrRefused ==
    ASSUME NEW input, NEW next, NEW bytes, NEW read,
           Ends(input, next, bytes, read) \/ Refused(read)
    PROVE  read.error # "reading"
<1>1. Text(bytes, next + 1).error # "reading"
    BY SMT DEF Text
<1> QED BY <1>1, Zenon DEF Ends, Refused

(* The recursion in ReadJsonString is sound. *)
LEMMA JsonStringIs ==
    ASSUME NEW input \in Seq(Byte), ByteAt(input, 1) = Quote
    PROVE  \E read : Reads(read, input) /\ ReadJsonString(input) = read[Len(input)]
<1> DEFINE N == Len(input)
           R == {Reading(p[1], p[2]) : p \in Seq(Byte) \X Nat}
           S == R \union {StringTurn(input, r) : r \in R}
           step == [p \in S \X (1 .. N) |-> StringTurn(input, p[1])]
           first == Reading(<<>>, 2)
           UpTo(g) == g = [t \in 0 .. N |-> IF t = 0 THEN Reading(<<>>, 2)
                                            ELSE StringTurn(input, g[t - 1])]
           read == CHOOSE g : UpTo(g)
<1>1. N \in Nat
    BY ByteFacts
<1>2. \A r : r \in R <=> IsReading(r)
    <2>1. ASSUME NEW r \in R PROVE IsReading(r)
        <3>1. PICK p \in Seq(Byte) \X Nat : r = Reading(p[1], p[2])
            OBVIOUS
        <3>2. p[1] \in Seq(Byte) /\ p[2] \in Nat
            OBVIOUS
        <3> QED BY <3>1, <3>2, Zenon DEF IsReading
    <2>2. ASSUME NEW r, IsReading(r) PROVE r \in R
        <3>1. PICK bytes \in Seq(Byte) : \E next \in Nat : r = Reading(bytes, next)
            BY <2>2, Zenon DEF IsReading
        <3>2. PICK next \in Nat : r = Reading(bytes, next)
            BY <3>1, Zenon
        <3> DEFINE p == <<bytes, next>>
        <3>3. p \in Seq(Byte) \X Nat /\ p[1] = bytes /\ p[2] = next
            OBVIOUS
        <3> HIDE DEF p
        <3> QED BY <3>2, <3>3, Zenon
    <2> QED BY <2>1, <2>2, Zenon
<1>3. first \in S
    <2>1. 2 \in Nat /\ <<>> \in Seq(Byte)
        OBVIOUS
    <2>2. IsReading(first)
        BY <2>1, Zenon DEF IsReading
    <2> HIDE DEF first, R
    <2> QED BY <1>2, <2>2, Zenon
<1> HIDE DEF R
<1>4. ASSUME NEW r \in S PROVE StringTurn(input, r) \in S
    <2>1. CASE r \in R
        BY <2>1, Zenon
    <2>2. ASSUME NEW q \in R, r = StringTurn(input, q) PROVE StringTurn(input, r) \in S
        <3>1. IsReading(q)
            BY <1>2, Zenon
        <3>2. PICK bytes \in Seq(Byte) : \E next \in Nat : q = Reading(bytes, next)
            BY <3>1, Zenon DEF IsReading
        <3>3. PICK next \in Nat : q = Reading(bytes, next)
            BY <3>2, Zenon
        <3>4. CASE PieceStands(input, next)
            <4>1. IsReading(StringTurn(input, Reading(bytes, next)))
                BY <3>4, PieceTaken
            <4>2. r \in R
                BY <1>2, <2>2, <3>3, <4>1, Zenon
            <4> QED BY <4>2, Zenon
        <3>5. CASE ~PieceStands(input, next)
            <4>1. Ends(input, next, bytes, r) \/ Refused(r)
                BY <2>2, <3>3, <3>5, TurnIs, Zenon
            <4>2. r.error # "reading"
                BY <4>1, EndsOrRefused, Zenon
            <4>3. StringTurn(input, r) = r
                BY <4>2, NotReading, Zenon
            <4> HIDE DEF S
            <4> QED BY <4>3, Zenon
        <3> QED BY <3>4, <3>5, Zenon
    <2> QED BY <2>1, <2>2, Zenon
<1> HIDE DEF S, first
<1>5. step \in [S \X (1 .. N) -> S]
    <2>1. ASSUME NEW p \in S \X (1 .. N) PROVE StringTurn(input, p[1]) \in S
        <3>1. p[1] \in S
            OBVIOUS
        <3> QED BY <1>4, <3>1, Zenon
    <2> QED BY <2>1, Zenon
<1>6. PICK f \in [0 .. N -> S] : Steps(f, N, first, step)
    <2> HIDE DEF step
    <2> QED BY <1>1, <1>3, <1>5, Recursion
<1>7. \A t \in 0 .. N : f[t] = IF t = 0 THEN Reading(<<>>, 2) ELSE StringTurn(input, f[t - 1])
    <2> TAKE t \in 0 .. N
    <2>1. f[t] = IF t = 0 THEN first ELSE step[<<f[t - 1], t>>]
        BY <1>6, Zenon DEF Steps
    <2>2. CASE t = 0
        BY <2>1, <2>2, Zenon DEF first
    <2>3. CASE t # 0
        <3>1. t \in 1 .. N /\ t - 1 \in 0 .. N
            BY <1>1, <2>3
        <3>2. <<f[t - 1], t>> \in S \X (1 .. N) /\ <<f[t - 1], t>>[1] = f[t - 1]
            BY <1>6, <3>1
        <3>3. step[<<f[t - 1], t>>] = StringTurn(input, f[t - 1])
            BY <3>2, Zenon
        <3> HIDE DEF step
        <3> QED BY <2>1, <2>3, <3>3, Zenon
    <2> QED BY <2>2, <2>3, Zenon
<1>8. UpTo(f)
    <2> DEFINE g == [t \in 0 .. N |-> IF t = 0 THEN Reading(<<>>, 2) ELSE StringTurn(input, f[t - 1])]
    <2>1. f = [t \in 0 .. N |-> f[t]]
        BY <1>6
    <2>2. \A t \in 0 .. N : g[t] = IF t = 0 THEN Reading(<<>>, 2) ELSE StringTurn(input, f[t - 1])
        BY Zenon
    <2>3. g = [t \in 0 .. N |-> g[t]]
        BY Zenon
    <2> HIDE DEF g
    <2>4. \A t \in 0 .. N : f[t] = g[t]
        BY <1>7, <2>2, Zenon
    <2>5. f = g
        BY <2>1, <2>3, <2>4, Zenon
    <2> QED BY <2>5, Zenon DEF g
<1>9. UpTo(read)
    <2> HIDE DEF UpTo
    <2> QED BY <1>8, Zenon
<1>10. ReadJsonString(input) = read[N]
    BY Zenon DEF ReadJsonString
<1> HIDE DEF read
<1>11. Reads(read, input)
    <2>1. \A t \in 0 .. N : read[t] = IF t = 0 THEN Reading(<<>>, 2) ELSE StringTurn(input, read[t - 1])
        BY <1>9, Zenon
    <2>2. 0 \in 0 .. N /\ \A t \in 1 .. N : t \in 0 .. N /\ t # 0
        BY <1>1
    <2> QED BY <2>1, <2>2, Zenon DEF Reads
<1> QED BY <1>10, <1>11, Zenon

(* Once the parser has returned, that is the result. *)
LEMMA Stays ==
    ASSUME NEW input \in Seq(Byte), NEW read, Reads(read, input),
           NEW m \in 0 .. Len(input), read[m].error # "reading"
    PROVE  read[Len(input)] = read[m]
<1> DEFINE N == Len(input)
           rest == N - m
           T == {k \in 0 .. rest : read[m + k] = read[m]}
<1>1. N \in Nat
    BY ByteFacts
<1> HIDE DEF N
<1>2. rest \in Nat /\ m + 0 = m /\ m + rest = N /\ 0 \in 0 .. rest /\ rest \in 0 .. rest
    BY <1>1 DEF N
<1>3. 0 \in T
    BY <1>2
<1>4. ASSUME NEW k \in 0 .. rest - 1, k \in T PROVE k + 1 \in T
    <2>1. /\ m + (k + 1) \in 1 .. N /\ (m + (k + 1)) - 1 = m + k /\ k + 1 \in 0 .. rest
          /\ read[m + k] = read[m]
        BY <1>1, <1>4 DEF N
    <2>2. read[m + (k + 1)] = StringTurn(input, read[(m + (k + 1)) - 1])
        BY <2>1, Zenon DEF Reads, N
    <2>3. read[m + (k + 1)] = read[m]
        BY <2>1, <2>2, NotReading, Zenon
    <2> QED BY <2>1, <2>3
<1> HIDE DEF T
<1>5. 0 .. rest \subseteq T
    BY <1>2, <1>3, <1>4, BoundedInduction
<1>6. read[m + rest] = read[m]
    BY <1>2, <1>5 DEF T
<1> QED BY <1>2, <1>6 DEF N

(* The input is divided into pieces: starts[i] is where the piece behind the *)
(* i-th begins, and texts[i] what the first i of them spell.                 *)
Divided(input, n, starts, texts) ==
    /\ starts[0] = 2 /\ texts[0] = <<>>
    /\ \A i \in 1 .. n : \E piece, text :
          /\ PieceSpelled(piece, text)
          /\ Standing(input, starts[i - 1], piece)
          /\ starts[i] = starts[i - 1] + Len(piece)
          /\ texts[i] = texts[i - 1] \o text

(* A JSON string stands at the beginning of the input, ends before `next`,   *)
(* and means these bytes, which are well-formed UTF-8.                       *)
JsonSpells(input, bytes, next) ==
    /\ ByteAt(input, 1) = Quote
    /\ WellFormed(bytes)
    /\ \E n \in Nat : \E starts \in [0 .. n -> Nat], texts \in [0 .. n -> Seq(Byte)] :
          /\ Divided(input, n, starts, texts)
          /\ ByteAt(input, starts[n]) = Quote
          /\ bytes = texts[n]
          /\ next = starts[n] + 1

LEMMA PiecesAdvance ==
    ASSUME NEW input \in Seq(Byte), NEW n \in Nat, NEW starts \in [0 .. n -> Nat],
           NEW texts \in [0 .. n -> Seq(Byte)], Divided(input, n, starts, texts)
    PROVE  /\ starts[n] >= n + 2
           /\ \A i \in 1 .. n : StringTurn(input, Reading(texts[i - 1], starts[i - 1]))
                                    = Reading(texts[i], starts[i])
<1>1. ASSUME NEW i \in 1 .. n
      PROVE  /\ starts[i] > starts[i - 1]
             /\ StringTurn(input, Reading(texts[i - 1], starts[i - 1])) = Reading(texts[i], starts[i])
    <2>1. PICK piece, text : /\ PieceSpelled(piece, text)
                             /\ Standing(input, starts[i - 1], piece)
                             /\ starts[i] = starts[i - 1] + Len(piece)
                             /\ texts[i] = texts[i - 1] \o text
        BY Zenon DEF Divided
    <2>2. starts[i - 1] \in Nat /\ texts[i - 1] \in Seq(Byte) /\ starts[i] \in Nat
        BY SMT
    <2>3. Taken(input, starts[i - 1], texts[i - 1], piece, text)
        BY <2>1, <2>2, SpelledTaken, Zenon
    <2>4. StringTurn(input, Reading(texts[i - 1], starts[i - 1])) = Reading(texts[i], starts[i])
        BY <2>1, <2>3, Zenon DEF Taken
    <2>5. Len(piece) \in Nat \ {0}
        BY <2>3, Zenon DEF Taken
    <2> DEFINE a == starts[i - 1]
               b == starts[i]
               c == Len(piece)
    <2>6. b = a + c /\ a \in Nat /\ c \in Nat \ {0}
        BY <2>1, <2>2, <2>5, Zenon
    <2> HIDE DEF a, b, c
    <2>7. b > a
        BY <2>6
    <2> QED BY <2>4, <2>7, Zenon DEF a, b
<1> DEFINE T == {i \in 0 .. n : starts[i] >= i + 2}
<1>2. 0 \in T
    BY DEF Divided
<1>3. ASSUME NEW i \in 0 .. n - 1, i \in T PROVE i + 1 \in T
    <2>1. i + 1 \in 1 .. n /\ (i + 1) - 1 = i /\ i + 1 \in 0 .. n
        OBVIOUS
    <2>2. starts[i + 1] > starts[i]
        BY <1>1, <2>1
    <2>3. starts[i + 1] \in Nat /\ starts[i] \in Nat /\ starts[i] >= i + 2
        BY <1>3, <2>1
    <2> QED BY <2>1, <2>2, <2>3
<1> HIDE DEF T
<1>4. 0 .. n \subseteq T
    BY <1>2, <1>3, BoundedInduction
<1>5. starts[n] >= n + 2
    BY <1>4 DEF T
<1> QED BY <1>1, <1>5, Zenon

(* What pieces spell is read. *)
LEMMA SpelledIsRead ==
    ASSUME NEW input \in Seq(Byte), NEW bytes, NEW next, JsonSpells(input, bytes, next)
    PROVE  ReadJsonString(input) = Text(bytes, next)
<1> DEFINE N == Len(input)
<1>1. PICK n \in Nat : \E starts \in [0 .. n -> Nat], texts \in [0 .. n -> Seq(Byte)] :
          /\ Divided(input, n, starts, texts) /\ ByteAt(input, starts[n]) = Quote
          /\ bytes = texts[n] /\ next = starts[n] + 1
    BY Zenon DEF JsonSpells
<1>2. PICK starts \in [0 .. n -> Nat], texts \in [0 .. n -> Seq(Byte)] :
          /\ Divided(input, n, starts, texts) /\ ByteAt(input, starts[n]) = Quote
          /\ bytes = texts[n] /\ next = starts[n] + 1
    BY <1>1, Zenon
<1>3. PICK read : Reads(read, input) /\ ReadJsonString(input) = read[N]
    BY JsonStringIs DEF JsonSpells
<1>4. N \in Nat /\ n \in 0 .. n /\ 0 \in 0 .. n
    BY ByteFacts
<1>5. starts[n] >= n + 2 /\ starts[n] \in Nat
    BY <1>2, <1>4, PiecesAdvance
<1>6. n + 1 \in 1 .. N /\ n + 1 \in 0 .. N /\ (n + 1) - 1 = n
    <2>1. Quote \in Byte
        BY SMT DEF Quote, Byte
    <2>2. starts[n] \in 1 .. N
        BY <1>2, <2>1, ByteAtIs
    <2> HIDE DEF N
    <2> QED BY <1>4, <1>5, <2>2
<1> DEFINE T == {i \in 0 .. n : read[i] = Reading(texts[i], starts[i])}
<1>7. 0 \in T
    <2>1. read[0] = Reading(texts[0], starts[0])
        BY <1>2, <1>3, Zenon DEF Reads, Divided
    <2> QED BY <1>4, <2>1
<1>8. ASSUME NEW i \in 0 .. n - 1, i \in T PROVE i + 1 \in T
    <2>1. i + 1 \in 1 .. n /\ (i + 1) - 1 = i /\ i + 1 \in 0 .. n /\ i + 1 \in 1 .. N
        BY <1>4, <1>6
    <2>2. read[i + 1] = StringTurn(input, read[i]) /\ read[i] = Reading(texts[i], starts[i])
        BY <1>3, <1>8, <2>1 DEF Reads
    <2>3. StringTurn(input, Reading(texts[i], starts[i])) = Reading(texts[i + 1], starts[i + 1])
        <3>1. \A j \in 1 .. n : StringTurn(input, Reading(texts[j - 1], starts[j - 1]))
                                    = Reading(texts[j], starts[j])
            BY <1>2, PiecesAdvance
        <3> QED BY <2>1, <3>1, Zenon
    <2>4. read[i + 1] = Reading(texts[i + 1], starts[i + 1])
        BY <2>2, <2>3, Zenon
    <2> QED BY <2>1, <2>4
<1> HIDE DEF T
<1>9. 0 .. n \subseteq T
    BY <1>7, <1>8, BoundedInduction
<1>10. read[n] = Reading(bytes, starts[n])
    BY <1>2, <1>4, <1>9 DEF T
<1>11. ValidUtf8(bytes)
    <2>1. bytes \in Seq(Byte) /\ WellFormed(bytes)
        BY <1>2, <1>4 DEF JsonSpells
    <2> QED BY <2>1, WellFormedIsValid
<1>12. read[n + 1] = Text(bytes, next)
    <2>1. read[n + 1] = StringTurn(input, read[n])
        BY <1>3, <1>6 DEF Reads
    <2>2. StringTurn(input, Reading(bytes, starts[n])) = Text(bytes, starts[n] + 1)
        BY <1>2, <1>11, QuoteTurn, Zenon
    <2> QED BY <1>2, <1>10, <2>1, <2>2, Zenon
<1>13. Text(bytes, next).error # "reading"
    BY SMT DEF Text
<1>14. read[N] = read[n + 1]
    BY <1>3, <1>6, <1>12, <1>13, Stays
<1> QED BY <1>3, <1>12, <1>14, Zenon

(* What is read is spelt by pieces. *)
LEMMA ReadIsSpelled ==
    ASSUME NEW input \in Seq(Byte), NEW bytes, NEW next,
           ReadJsonString(input) = Text(bytes, next)
    PROVE  JsonSpells(input, bytes, next)
<1> DEFINE N == Len(input)
<1>1. Text(bytes, next).error = "none"
    BY SMT DEF Text
<1>2. ByteAt(input, 1) = Quote
    <2>1. "unexpected character" # "none"
        BY Zenon
    <2>2. NoText("unexpected character", 1).error # "none"
        BY <2>1, NoTextIs, Zenon
    <2>3. ByteAt(input, 1) # Quote => ReadJsonString(input) = NoText("unexpected character", 1)
        BY Zenon DEF ReadJsonString
    <2> QED BY <1>1, <2>2, <2>3, Zenon
<1>3. PICK read : Reads(read, input) /\ ReadJsonString(input) = read[N]
    BY <1>2, JsonStringIs
<1>4. N \in Nat
    BY ByteFacts
<1> DEFINE Q == {t \in 0 .. N : read[t].error # "reading"}
<1>5. N \in Q
    <2>1. read[N].error = "none"
        BY <1>1, <1>3, Zenon
    <2>2. "none" # "reading"
        BY Zenon
    <2>3. N \in 0 .. N
        BY <1>4
    <2> QED BY <2>1, <2>2, <2>3, Zenon
<1>6. PICK m \in Q : \A t \in Q : m <= t
    <2>1. Q \in SUBSET Nat /\ Q # {}
        BY <1>5
    <2> HIDE DEF Q
    <2> QED BY <2>1, LeastOf
<1>7. m \in 0 .. N /\ read[m].error # "reading"
    OBVIOUS
<1>8. \A t \in 0 .. N : t < m => read[t].error = "reading"
    <2> TAKE t \in 0 .. N
    <2> HAVE t < m
    <2>1. t \notin Q
        BY <1>4, <1>6, <1>7
    <2> QED BY <2>1, Zenon
<1> HIDE DEF Q
<1>9. m \in 1 .. N
    <2>1. read[0] = Reading(<<>>, 2)
        BY <1>3, Zenon DEF Reads
    <2>3. read[0].error = "reading"
        BY <2>1, SMT DEF Reading
    <2>2. m # 0
        BY <1>7, <2>3, Zenon
    <2> QED BY <1>4, <1>7, <2>2
<1> DEFINE n == m - 1
<1>10. n \in Nat /\ n + 1 = m /\ n \in 0 .. n /\ 0 \in 0 .. n /\ n < m
    BY <1>9
<1> HIDE DEF N
<1>11. ASSUME NEW t \in 0 .. n, IsReading(read[t])
       PROVE  /\ read[t] = Reading(read[t].bytes, read[t].next)
              /\ read[t].bytes \in Seq(Byte) /\ read[t].next \in Nat
    <2>1. PICK b \in Seq(Byte) : \E i \in Nat : read[t] = Reading(b, i)
        BY <1>11, Zenon DEF IsReading
    <2>2. PICK i \in Nat : read[t] = Reading(b, i)
        BY <2>1, Zenon
    <2>3. read[t].bytes = b /\ read[t].next = i
        BY <2>2, SMT DEF Reading
    <2> QED BY <2>2, <2>3, Zenon
<1>12. ASSUME NEW t \in 0 .. n - 1, IsReading(read[t])
       PROVE  /\ IsReading(read[t + 1])
              /\ \E piece, text :
                    /\ PieceSpelled(piece, text)
                    /\ Standing(input, read[t].next, piece)
                    /\ read[t + 1].next = read[t].next + Len(piece)
                    /\ read[t + 1].bytes = read[t].bytes \o text
    <2> DEFINE b == read[t].bytes
               i == read[t].next
    <2>1. t \in 0 .. n /\ t + 1 \in 1 .. N /\ (t + 1) - 1 = t /\ t + 1 \in 0 .. N /\ t + 1 < m
        BY <1>4, <1>9, <1>10
    <2>2. read[t] = Reading(b, i) /\ b \in Seq(Byte) /\ i \in Nat
        BY <1>11, <1>12, <2>1
    <2>3. read[t + 1] = StringTurn(input, Reading(b, i))
        BY <1>3, <2>1, <2>2, Zenon DEF Reads, N
    <2>4. read[t + 1].error = "reading"
        BY <1>8, <2>1, Zenon
    <2> HIDE DEF b, i
    <2>5. PieceStands(input, i)
        BY <2>2, <2>3, <2>4, TurnIs, EndsOrRefused, Zenon
    <2>6. PICK piece, text : /\ PieceSpelled(piece, text) /\ Standing(input, i, piece)
                             /\ Taken(input, i, b, piece, text)
        BY <2>2, <2>5, PieceTaken
    <2>7. read[t + 1] = Reading(b \o text, i + Len(piece))
        BY <2>3, <2>6, Zenon DEF Taken
    <2>8. read[t + 1].bytes = b \o text /\ read[t + 1].next = i + Len(piece)
        BY <2>7, SMT DEF Reading
    <2>9. IsReading(read[t + 1])
        BY <2>2, <2>3, <2>5, PieceTaken
    <2> QED BY <2>6, <2>8, <2>9, Zenon DEF b, i
<1> DEFINE T == {t \in 0 .. n : IsReading(read[t])}
<1>13. 0 \in T
    <2>1. <<>> \in Seq(Byte) /\ 2 \in Nat
        OBVIOUS
    <2>2. IsReading(read[0])
        BY <1>3, <2>1, Zenon DEF Reads, IsReading
    <2> QED BY <1>10, <2>2, Zenon
<1> HIDE DEF n
<1>14. ASSUME NEW t \in 0 .. n - 1, t \in T PROVE t + 1 \in T
    <2>1. t + 1 \in 0 .. n
        BY <1>10
    <2>2. IsReading(read[t + 1])
        BY <1>12, <1>14, Zenon
    <2> QED BY <2>1, <2>2, Zenon
<1> HIDE DEF T
<1>15. 0 .. n \subseteq T
    BY <1>10, <1>13, <1>14, BoundedInduction
<1>16. \A t \in 0 .. n : IsReading(read[t])
    BY <1>15 DEF T
<1> DEFINE starts == [t \in 0 .. n |-> read[t].next]
           texts == [t \in 0 .. n |-> read[t].bytes]
<1>17. starts \in [0 .. n -> Nat] /\ texts \in [0 .. n -> Seq(Byte)]
    BY <1>11, <1>16
<1>18. Divided(input, n, starts, texts)
    <2>1. starts[0] = 2 /\ texts[0] = <<>>
        <3>1. read[0].next = 2 /\ read[0].bytes = <<>>
            <4>1. read[0] = Reading(<<>>, 2)
                BY <1>3, Zenon DEF Reads
            <4> QED BY <4>1, SMT DEF Reading
        <3> QED BY <1>10, <3>1, Zenon
    <2>2. ASSUME NEW i \in 1 .. n
          PROVE  \E piece, text : /\ PieceSpelled(piece, text)
                                  /\ Standing(input, starts[i - 1], piece)
                                  /\ starts[i] = starts[i - 1] + Len(piece)
                                  /\ texts[i] = texts[i - 1] \o text
        <3> DEFINE t == i - 1
        <3>1. t \in 0 .. n - 1 /\ t + 1 = i /\ t \in 0 .. n /\ i \in 0 .. n
            BY <1>10
        <3>2. /\ starts[t] = read[t].next /\ starts[i] = read[i].next
              /\ texts[t] = read[t].bytes /\ texts[i] = read[i].bytes
            BY <3>1, Zenon
        <3> HIDE DEF t, starts, texts
        <3>3. \E piece, text :
                  /\ PieceSpelled(piece, text)
                  /\ Standing(input, read[t].next, piece)
                  /\ read[t + 1].next = read[t].next + Len(piece)
                  /\ read[t + 1].bytes = read[t].bytes \o text
            BY <1>12, <1>16, <3>1, Zenon
        <3>4. \E piece, text : /\ PieceSpelled(piece, text)
                               /\ Standing(input, starts[t], piece)
                               /\ starts[i] = starts[t] + Len(piece)
                               /\ texts[i] = texts[t] \o text
            BY <3>1, <3>2, <3>3, Zenon
        <3> QED BY <3>4, Zenon DEF t
    <2> HIDE DEF starts, texts
    <2> QED BY <2>1, <2>2, Zenon DEF Divided
<1>19. starts[n] = read[n].next /\ texts[n] = read[n].bytes
    BY <1>10, Zenon
<1> HIDE DEF starts, texts
<1> DEFINE b == texts[n]
           i == starts[n]
<1>20. b \in Seq(Byte) /\ i \in Nat
    BY <1>10, <1>17
<1>21. read[m] = StringTurn(input, Reading(b, i))
    <2>1. read[n] = Reading(b, i)
        BY <1>10, <1>11, <1>16, <1>19, Zenon
    <2>2. m - 1 = n
        BY <1>10
    <2>3. read[m] = StringTurn(input, read[m - 1])
        BY <1>3, <1>9, Zenon DEF Reads, N
    <2> QED BY <2>1, <2>2, <2>3, Zenon
<1> HIDE DEF b, i
<1>22. read[N] = read[m]
    BY <1>3, <1>7, Stays DEF N
<1>23. ~PieceStands(input, i)
    <2> SUFFICES ASSUME PieceStands(input, i) PROVE FALSE
        OBVIOUS
    <2>1. IsReading(read[m])
        BY <1>20, <1>21, PieceTaken
    <2>2. read[m].error = "reading"
        <3>1. PICK c \in Seq(Byte) : \E k \in Nat : read[m] = Reading(c, k)
            BY <2>1, Zenon DEF IsReading
        <3> QED BY <3>1, SMT DEF Reading
    <2> QED BY <1>7, <2>2, Zenon
<1>24. ~Refused(read[m])
    BY <1>1, <1>3, <1>22, Zenon DEF Refused
<1>25. Ends(input, i, b, read[m])
    BY <1>20, <1>21, <1>23, <1>24, TurnIs, Zenon
<1>26. bytes = b /\ next = i + 1
    <2>1. Text(bytes, next) = Text(b, i + 1)
        BY <1>3, <1>22, <1>25, Zenon DEF Ends
    <2>2. /\ Text(bytes, next).bytes = bytes /\ Text(bytes, next).next = next
          /\ Text(b, i + 1).bytes = b /\ Text(b, i + 1).next = i + 1
        BY TextIs, Zenon
    <2> QED BY <2>1, <2>2, Zenon
<1>27. WellFormed(bytes)
    BY <1>20, <1>25, <1>26, ValidIsWellFormed, Zenon DEF Ends
<1>28. ByteAt(input, i) = Quote
    BY <1>25, Zenon DEF Ends
<1> QED BY <1>2, <1>10, <1>17, <1>18, <1>26, <1>27, <1>28, Zenon DEF JsonSpells, b, i

(* For all inputs: JsonParser.string returns a text and a place exactly when *)
(* the input begins with a JSON string that means this text and ends there:  *)
(* quotes around pieces, each a byte that needs no escape, an escape of one  *)
(* letter, a unit that is a code point, or a surrogate pair, put together to *)
(* well-formed UTF-8.  Nothing else is read, and nothing is read otherwise.  *)
THEOREM JsonStringsAreExact ==
    \A input \in Seq(Byte) : \A bytes, next :
        ReadJsonString(input) = Text(bytes, next) <=> JsonSpells(input, bytes, next)
BY SpelledIsRead, ReadIsSpelled, Zenon

-----------------------------------------------------------------------------
(* What is written of a code point. *)

(* The only character of some bytes, and its code point. *)
OneCharacter(bytes, codepoint) ==
    /\ IsCharacter(bytes, 1)
    /\ Len(bytes) = LeadOf(bytes[1]).count + 1
    /\ CodePointAt(bytes, 1) = codepoint

LEMMA FollowerIs ==
    ASSUME NEW n \in 0 .. 63
    PROVE  128 + n \in Continuation /\ Low(n, 128 + n) /\ Less(n, 128 + n, 128)
BY SMT DEF Continuation, Low, Less

LEMMA OneOf ==
    ASSUME NEW bytes, NEW count \in Nat, NEW a, NEW b, NEW c, NEW d, Four(bytes, 1, a, b, c, d),
           NEW q, NEW r, NEW s, Low(q, b), Low(r, c), Low(s, d),
           NEW p, NEW minimum, LeadOf(a) = Lead(count, p, minimum),
           Len(bytes) = count + 1, \A k \in 1 .. count : bytes[1 + k] \in Continuation,
           NEW codepoint, Shifted(count, p, q, r, s) = codepoint, IsCodePoint(codepoint, minimum)
    PROVE  OneCharacter(bytes, codepoint)
<1>1. Asks(bytes, 1, count, codepoint, minimum)
    BY CharacterAsks, Zenon
<1>2. 1 + count <= Len(bytes)
    OBVIOUS
<1> QED BY <1>1, <1>2, Zenon DEF Asks, OneCharacter

(* For all code points: what append_utf8 writes is one character, of the      *)
(* fewest bytes, and valid_utf8 finds the same code point in it.             *)
THEOREM Utf8SpellsOneCharacter ==
    ASSUME NEW codepoint \in Nat, IsCodePoint(codepoint, 0)
    PROVE  OneCharacter(Utf8(codepoint), codepoint)
<1> DEFINE bytes == Utf8(codepoint)
<1>2. CASE codepoint <= 127
    <2> DEFINE one == <<codepoint>>
               b == one[2]
               c == one[3]
               d == one[4]
    <2>1. bytes = one
        BY <1>2 DEF Utf8
    <2>2. one[1] = codepoint /\ Len(one) = 1
        OBVIOUS
    <2>3. LeadOf(codepoint) = Lead(0, codepoint, 0)
        BY <1>2 DEF LeadOf
    <2>4. Four(one, 1, codepoint, b, c, d)
        BY <2>2 DEF Four
    <2> HIDE DEF one, b, c, d
    <2>5. PICK q, r, s : Low(q, b) /\ Low(r, c) /\ Low(s, d)
        BY LowBits, Zenon
    <2>6. Shifted(0, codepoint, q, r, s) = codepoint
        BY DEF Shifted
    <2>7. OneCharacter(one, codepoint)
        <3>1. 0 \in Nat /\ Len(one) = 0 + 1 /\ \A k \in 1 .. 0 : one[1 + k] \in Continuation
            BY <2>2
        <3> QED BY <2>3, <2>4, <2>5, <2>6, <3>1, OneOf, Zenon
    <2> QED BY <2>1, <2>7, Zenon
<1>3. CASE ~(codepoint <= 127) /\ codepoint <= 2047
    <2> DEFINE p == codepoint \div 64
               q == codepoint % 64
               a == 192 + p
               b == 128 + q
               two == <<a, b>>
               c == two[3]
               d == two[4]
    <2>1. p \in 2 .. 31 /\ q \in 0 .. 63 /\ codepoint = 64 * p + q /\ (codepoint \div 1) % 64 = q
        BY <1>3, SMT
    <2>2. bytes = <<192 + codepoint \div 64, 128 + ((codepoint \div 1) % 64)>>
        BY <1>3 DEF Utf8
    <2>3. bytes = two
        BY <2>1, <2>2, SMT
    <2> HIDE DEF p, q
    <2>4. a \in TwoLeads /\ a % 32 = p
        BY <2>1, SMT DEF TwoLeads
    <2>5. LeadOf(a) = Lead(1, p, Least(1))
        BY <2>1, <2>4, SMT DEF LeadOf, TwoLeads, Least
    <2>6. b \in Continuation /\ Low(q, b)
        BY <2>1, FollowerIs
    <2> HIDE DEF a, b
    <2>7. two[1] = a /\ two[2] = b /\ Len(two) = 2
        OBVIOUS
    <2>8. Four(two, 1, a, b, c, d)
        BY <2>7 DEF Four
    <2> HIDE DEF two, c, d
    <2>9. PICK r, s : Low(r, c) /\ Low(s, d)
        BY LowBits, Zenon
    <2>10. Shifted(1, p, q, r, s) = codepoint
        BY <2>1, SMT DEF Shifted
    <2>11. IsCodePoint(codepoint, Least(1))
        BY <1>3, SMT DEF IsCodePoint, Least
    <2>12. OneCharacter(two, codepoint)
        <3>1. 1 \in Nat /\ Len(two) = 1 + 1 /\ \A k \in 1 .. 1 : two[1 + k] \in Continuation
            BY <2>6, <2>7
        <3> QED BY <2>5, <2>6, <2>8, <2>9, <2>10, <2>11, <3>1, OneOf, Zenon
    <2> QED BY <2>3, <2>12, Zenon
<1>4. CASE ~(codepoint <= 2047) /\ codepoint <= 65535
    <2> DEFINE p == codepoint \div 4096
               q == (codepoint \div 64) % 64
               r == codepoint % 64
               a == 224 + p
               b == 128 + q
               c == 128 + r
               three == <<a, b, c>>
               d == three[4]
    <2>1. /\ p \in 0 .. 15 /\ q \in 0 .. 63 /\ r \in 0 .. 63
          /\ codepoint = 4096 * p + 64 * q + r /\ (codepoint \div 1) % 64 = r
        BY <1>4, SMT
    <2>2. bytes = <<224 + codepoint \div 4096, 128 + ((codepoint \div 64) % 64),
                    128 + ((codepoint \div 1) % 64)>>
        BY <1>4 DEF Utf8
    <2>3. bytes = three
        BY <2>1, <2>2, SMT
    <2> HIDE DEF p, q, r
    <2>4. a \in 224 .. 239 /\ a % 16 = p
        BY <2>1, SMT
    <2>5. LeadOf(a) = Lead(2, p, Least(2))
        BY <2>1, <2>4, SMT DEF LeadOf, Least
    <2>6. b \in Continuation /\ Low(q, b) /\ c \in Continuation /\ Low(r, c)
        BY <2>1, FollowerIs
    <2> HIDE DEF a, b, c
    <2>7. three[1] = a /\ three[2] = b /\ three[3] = c /\ Len(three) = 3
        OBVIOUS
    <2>8. Four(three, 1, a, b, c, d)
        BY <2>7 DEF Four
    <2> HIDE DEF three, d
    <2>9. PICK s : Low(s, d)
        BY LowBits, Zenon
    <2>10. Shifted(2, p, q, r, s) = codepoint
        BY <2>1, SMT DEF Shifted
    <2>11. IsCodePoint(codepoint, Least(2))
        BY <1>4, SMT DEF IsCodePoint, Least
    <2>12. OneCharacter(three, codepoint)
        <3>1. 2 \in Nat /\ Len(three) = 2 + 1 /\ \A k \in 1 .. 2 : three[1 + k] \in Continuation
            BY <2>6, <2>7
        <3> QED BY <2>5, <2>6, <2>8, <2>9, <2>10, <2>11, <3>1, OneOf, Zenon
    <2> QED BY <2>3, <2>12, Zenon
<1>5. CASE ~(codepoint <= 65535)
    <2> DEFINE p == codepoint \div 262144
               q == (codepoint \div 4096) % 64
               r == (codepoint \div 64) % 64
               s == codepoint % 64
               a == 240 + p
               b == 128 + q
               c == 128 + r
               d == 128 + s
               four == <<a, b, c, d>>
    <2>1. /\ p \in 0 .. 4 /\ q \in 0 .. 63 /\ r \in 0 .. 63 /\ s \in 0 .. 63
          /\ codepoint = 262144 * p + 4096 * q + 64 * r + s /\ (codepoint \div 1) % 64 = s
        BY <1>5, SMT DEF IsCodePoint
    <2>2. bytes = <<240 + codepoint \div 262144, 128 + ((codepoint \div 4096) % 64),
                    128 + ((codepoint \div 64) % 64), 128 + ((codepoint \div 1) % 64)>>
        BY <1>5 DEF Utf8
    <2>3. bytes = four
        BY <2>1, <2>2, SMT
    <2> HIDE DEF p, q, r, s
    <2>4. a \in 240 .. 244 /\ a % 8 = p
        BY <2>1, SMT
    <2>5. LeadOf(a) = Lead(3, p, Least(3))
        BY <2>1, <2>4, SMT DEF LeadOf, Least
    <2>6. /\ b \in Continuation /\ Low(q, b) /\ c \in Continuation /\ Low(r, c)
          /\ d \in Continuation /\ Low(s, d)
        BY <2>1, FollowerIs
    <2> HIDE DEF a, b, c, d
    <2>7. four[1] = a /\ four[2] = b /\ four[3] = c /\ four[4] = d /\ Len(four) = 4
        OBVIOUS
    <2>8. Four(four, 1, a, b, c, d)
        BY <2>7 DEF Four
    <2> HIDE DEF four
    <2>10. Shifted(3, p, q, r, s) = codepoint
        BY <2>1, SMT DEF Shifted
    <2>11. IsCodePoint(codepoint, Least(3))
        BY <1>5, SMT DEF IsCodePoint, Least
    <2>12. OneCharacter(four, codepoint)
        <3>1. 3 \in Nat /\ Len(four) = 3 + 1 /\ \A k \in 1 .. 3 : four[1 + k] \in Continuation
            BY <2>6, <2>7
        <3> QED BY <2>5, <2>6, <2>8, <2>10, <2>11, <3>1, OneOf, Zenon
    <2> QED BY <2>3, <2>12, Zenon
<1> QED BY <1>2, <1>3, <1>4, <1>5

-----------------------------------------------------------------------------
(* Every source that is a string is one of bytes. *)

Strings == {"utf8", "text", "dson_string"}

SourceIsBytes == format \in Formats /\ (format \in Strings => source \in Seq(Byte))

LEMMA StringSources ==
    \A kind \in Strings \intersect Formats :
        /\ Seeds[kind] \subseteq Seq(Byte)
        /\ Alphabet[kind] \subseteq Byte
        /\ Blanks[kind] \subseteq Byte
BY TextSources, Zenon DEF Strings

LEMMA SourcesAreBytes == Spec => []SourceIsBytes
<1>1. Init => SourceIsBytes
    <2> SUFFICES ASSUME Init PROVE SourceIsBytes
        OBVIOUS
    <2>1. format \in Formats /\ source \in Seeds[format]
        BY DEF Init
    <2> QED BY <2>1, StringSources, Zenon DEF SourceIsBytes
<1>2. ASSUME SourceIsBytes, [Next]_sourceVars PROVE SourceIsBytes'
    <2>1. CASE UNCHANGED sourceVars
        BY <1>2, <2>1, Zenon DEF SourceIsBytes, sourceVars
    <2>2. ASSUME NEW unit \in Alphabet[format], Extend(unit) PROVE SourceIsBytes'
        <3>1. format' = format /\ source' = Append(source, unit)
            BY <2>2, Zenon DEF Extend
        <3>2. format \in Strings => unit \in Byte /\ source \in Seq(Byte)
            BY <1>2, StringSources, Zenon DEF SourceIsBytes
        <3>3. format \in Strings => Append(source, unit) \in Seq(Byte)
            BY <3>2
        <3> QED BY <1>2, <3>1, <3>3, Zenon DEF SourceIsBytes
    <2>3. ASSUME NEW blank \in Blanks[format], NEW place \in 1 .. Len(source) + 1,
                 LayOut(blank, place)
          PROVE  SourceIsBytes'
        <3>1. /\ format' = format
              /\ source' = SubSeq(source, 1, place - 1) \o <<blank>> \o SubSeq(source, place, Len(source))
            BY <2>3, Zenon DEF LayOut, InsertAt
        <3>2. format \in Strings => blank \in Byte /\ source \in Seq(Byte)
            BY <1>2, StringSources, Zenon DEF SourceIsBytes
        <3>3. ASSUME format \in Strings PROVE source' \in Seq(Byte)
            <4>1. blank \in Byte /\ source \in Seq(Byte) /\ Len(source) \in Nat /\ place \in Nat
                BY <3>2, <3>3, ByteFacts
            <4> DEFINE before == SubSeq(source, 1, place - 1)
                       after == SubSeq(source, place, Len(source))
            <4>2. \A i \in 1 .. place - 1 : source[i] \in Byte
                BY <4>1, ByteFacts
            <4>3. \A i \in place .. Len(source) : source[i] \in Byte
                BY <4>1, ByteFacts
            <4>4. before \in Seq(Byte)
                BY <4>1, <4>2, SubSeqProperties
            <4>5. after \in Seq(Byte)
                BY <4>1, <4>3, SubSeqProperties
            <4> HIDE DEF before, after
            <4>6. before \o <<blank>> \o after \in Seq(Byte)
                BY <4>1, <4>4, <4>5
            <4> QED BY <3>1, <4>6, Zenon DEF before, after
        <3> QED BY <1>2, <3>1, <3>3, Zenon DEF SourceIsBytes
    <2> QED BY <1>2, <2>1, <2>2, <2>3, Zenon DEF Next
<1> QED BY <1>1, <1>2, PTL DEF Spec

(* What the readers and the writers take for text is what the Unicode        *)
(* Standard calls well-formed, of whatever bytes and however long it is.    *)
THEOREM Utf8IsWellFormed == Spec => []Utf8WellFormed
<1>1. SourceIsBytes => Utf8WellFormed
    <2> SUFFICES ASSUME SourceIsBytes, format \in {"utf8", "text"}
                 PROVE  ValidUtf8(source) <=> WellFormed(source)
        BY Zenon DEF Utf8WellFormed
    <2>1. source \in Seq(Byte)
        BY Zenon DEF SourceIsBytes, Strings
    <2> QED BY <2>1, WellFormedIsValid, ValidIsWellFormed, Zenon
<1> QED BY <1>1, SourcesAreBytes, PTL

(* For all strings: text that is written in JSON or in DSON is read back as  *)
(* it was and ends where the writer ended it, and a DSON string is what      *)
(* append_string writes of its text, after zeros.                           *)
THEOREM StringsAreKept == Spec => []StringsKept
<1> DEFINE Kept(following) ==
        /\ ReadJsonString(Escaped(source) \o following) = Text(source, Len(Escaped(source)) + 1)
        /\ ReadDsonString(Measured(source) \o following) = Text(source, Len(Measured(source)) + 1)
<1>1. ASSUME SourceIsBytes, ValidUtf8(source), Len(source) <= SizeLimit, format \in {"utf8", "text"}
      PROVE  \A following \in {<<>>, <<34>>, <<41>>, <<49, 34>>} : Kept(following)
    <2>1. source \in Seq(Byte)
        BY <1>1, Zenon DEF SourceIsBytes, Strings
    <2>2. \A following \in Seq(Byte) : Kept(following)
        BY <1>1, <2>1, JsonStringRead, DsonStringRead, Zenon
    <2>3. 34 \in Byte /\ 41 \in Byte /\ 49 \in Byte
        BY SMT DEF Byte
    <2>4. /\ <<>> \in Seq(Byte) /\ <<34>> \in Seq(Byte) /\ <<41>> \in Seq(Byte)
          /\ <<49, 34>> \in Seq(Byte)
        BY <2>3
    <2> HIDE DEF Kept
    <2> QED BY <2>2, <2>4, Zenon
<1>2. ASSUME SourceIsBytes, format = "dson_string", ReadDsonString(source).error = "none"
      PROVE  \E k \in {j \in 0 .. Len(source) : \A i \in 1 .. j : source[i] = 48} :
                 Measured(ReadDsonString(source).bytes)
                     = SubSeq(source, k + 1, ReadDsonString(source).next - 1)
    <2>1. source \in Seq(Byte)
        BY <1>2, Zenon DEF SourceIsBytes, Strings
    <2> QED BY <1>2, <2>1, DsonStringIsMeasured, Zenon
<1>3. SourceIsBytes => StringsKept
    BY <1>1, <1>2, Zenon DEF StringsKept
<1> QED BY <1>3, SourcesAreBytes, PTL

=============================================================================
