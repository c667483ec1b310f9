------------------------------ MODULE CborHead ------------------------------
(* The head of a CBOR item: major type and argument in as few bytes as the *)
(* argument needs (append_head and append_big_endian of CborWriter), and   *)
(* how read_head takes it apart again.                                     *)
EXTENDS Naturals, Sequences

Byte == 0 .. 255

(* value >> 8 * count: what is left of a number of eight bytes without the *)
(* last `count` of them.                                                   *)
Shifted(value, count) ==
    LET shift[n \in 0 .. 8] == IF n = 0 THEN value ELSE shift[n - 1] \div 256
    IN  shift[count]

Fits(value, width) == Shifted(value, width) = 0

(* append_big_endian: the bytes are cut off one after the other. *)
BigEndian(value, width) == [i \in 1 .. width |-> Shifted(value, width - i) % 256]

(* append_head *)
ItemHead(major, argument) ==
    IF argument <= 23 THEN <<32 * major + argument>>
    ELSE IF Fits(argument, 1) THEN <<32 * major + 24>> \o BigEndian(argument, 1)
    ELSE IF Fits(argument, 2) THEN <<32 * major + 25>> \o BigEndian(argument, 2)
    ELSE IF Fits(argument, 4) THEN <<32 * major + 26>> \o BigEndian(argument, 4)
    ELSE <<32 * major + 27>> \o BigEndian(argument, 8)

(* append_text, encoded_text *)
TextItem(text) == ItemHead(3, Len(text)) \o text

(* The canonical order of RFC 8949: shorter first, then bytewise.  It sorts  *)
(* the encoded keys of objects (unsigned_less on keys of one length) and    *)
(* the encoded items of sets.                                               *)
Before(left, right) ==
    \/ Len(left) < Len(right)
    \/ /\ Len(left) = Len(right)
       /\ \E i \in DOMAIN left :
             /\ left[i] < right[i]
             /\ \A j \in 1 .. i - 1 : left[j] = right[j]

=============================================================================
