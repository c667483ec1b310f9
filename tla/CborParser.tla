----------------------------- MODULE CborParser -----------------------------
(***************************************************************************)
(* How the repository reads CBOR back into a tree: the validating walk of  *)
(* src/serdde/cbor_wire_common.hpp (read_head, parse_node, parse_container) *)
(* and decode_value of src/serdde/cbor_value.dd, in one pass.  Scalars and *)
(* strings keep their bytes.                                               *)
(*                                                                         *)
(* RECURSIVE operators: for TLC's runs only.                               *)
(***************************************************************************)
EXTENDS Naturals, Sequences, WireTree, CborHead

CONSTANTS
    NestingLimit,  (* 128 in the source                *)
    NotText        (* byte strings that are not UTF-8  *)

Parsed(tree, next) == [error |-> "none", tree |-> tree, next |-> next]
Failed(message, at) == [error |-> message, tree |-> Leaf("none"), next |-> at]

RECURSIVE BigEndianValue(_), Decimal(_)

(* read_unsigned *)
BigEndianValue(bytes) ==
    IF bytes = <<>> THEN 0
    ELSE 256 * BigEndianValue(SubSeq(bytes, 1, Len(bytes) - 1)) + bytes[Len(bytes)]

(* The bytes that follow an initial byte with this additional information. *)
ArgumentWidth(additional) ==
    IF additional <= 23 THEN 0 ELSE 2 ^ (additional - 24)

(* read_head *)
ReadHead(bytes, i) ==
    LET additional == bytes[i] % 32
        width == ArgumentWidth(additional)
        error == CASE additional = 31 -> "indefinite-length CBOR values are not supported"
                   [] additional \in 28 .. 30 -> "reserved CBOR additional information"
                   [] additional < 28 -> IF i + width > Len(bytes) THEN "truncated CBOR argument" ELSE "none"
    IN  [error |-> error, major |-> bytes[i] \div 32, additional |-> additional,
         argument |-> IF error # "none" THEN 0
                      ELSE IF additional < 24 THEN additional
                      ELSE BigEndianValue(SubSeq(bytes, i + 1, i + width)),
         payload |-> IF additional < 28 THEN i + 1 + width ELSE i + 1]

(* to_string, for key_label *)
Decimal(n) == IF n < 10 THEN <<48 + n>> ELSE Decimal(n \div 10) \o <<48 + (n % 10)>>

RECURSIVE ParseNode(_, _, _), ParseElements(_, _, _, _, _), ParsePairs(_, _, _, _, _, _),
          ParseValue(_, _, _, _, _, _)

(* The key at i: key_label gives its name, same_key compares its bytes. *)
KeyRead(bytes, i, key, head) ==
    IF key.error # "none" THEN [error |-> key.error, next |-> key.next]
    ELSE IF head.major \notin {0, 3}
         THEN [error |-> "CBOR object keys must be strings or unsigned integers", next |-> i]
    ELSE [error |-> "none", next |-> key.next,
          same |-> IF head.major = 0 THEN <<0, head.argument>>
                   ELSE <<3, SubSeq(bytes, head.payload, key.next - 1)>>,
          label |-> IF head.major = 0 THEN <<35>> \o Decimal(head.argument)
                    ELSE SubSeq(bytes, head.payload, key.next - 1)]
ParseKey(bytes, i, depth) == KeyRead(bytes, i, ParseNode(bytes, i, depth), ReadHead(bytes, i))

ParseElements(bytes, i, depth, count, items) ==
    IF Len(items) = count THEN Parsed(SequenceOf(items), i)
    ELSE LET item == ParseNode(bytes, i, depth + 1)
         IN  IF item.error # "none" THEN item
             ELSE ParseElements(bytes, item.next, depth, count, Append(items, item.tree))

(* Repeated keys are looked for once all pairs are read. *)
ParsePairs(bytes, i, depth, count, keys, members) ==
    IF Len(keys) = count
    THEN IF \E j, k \in DOMAIN keys : j # k /\ keys[j] = keys[k]
         THEN Failed("duplicate CBOR object key", i)
         ELSE Parsed(ObjectOf(members), i)
    ELSE ParseValue(bytes, depth, count, keys, members, ParseKey(bytes, i, depth + 1))

ParseValue(bytes, depth, count, keys, members, key) ==
    LET value == ParseNode(bytes, key.next, depth + 1)
    IN  IF key.error # "none" THEN Failed(key.error, key.next)
        ELSE IF value.error # "none" THEN value
        ELSE ParsePairs(bytes, value.next, depth, count, Append(keys, key.same),
                        SetField(members, key.label, value.tree))

ParseText(bytes, i, head) ==
    LET end == head.payload + head.argument
    IN  IF head.argument > Len(bytes) + 1 - head.payload THEN Failed("truncated CBOR string", i)
        ELSE IF head.major = 3 /\ SubSeq(bytes, head.payload, end - 1) \in NotText
             THEN Failed("CBOR text is not valid UTF-8", head.payload)
        ELSE Parsed(Leaf(SubSeq(bytes, i, end - 1)), end)

ParseContainer(bytes, i, head, depth) ==
    IF head.argument > Len(bytes) THEN Failed("CBOR container length is too large", i)
    ELSE IF head.major = 4 THEN ParseElements(bytes, head.payload, depth, head.argument, <<>>)
    ELSE ParsePairs(bytes, head.payload, depth, head.argument, <<>>, <<>>)

(* What stands behind a head. *)
ParseAfter(bytes, i, depth, head) ==
    LET scalar == Parsed(Leaf(SubSeq(bytes, i, head.payload - 1)), head.payload)
    IN  CASE head.error # "none" -> Failed(head.error, i)
          [] head.error = "none" /\ head.major \in {0, 1} -> scalar
          [] head.error = "none" /\ head.major \in {2, 3} -> ParseText(bytes, i, head)
          [] head.error = "none" /\ head.major \in {4, 5} -> ParseContainer(bytes, i, head, depth)
          [] head.error = "none" /\ head.major = 6 -> Failed("CBOR tags are not supported", i)
          [] OTHER -> IF head.additional \in {20, 21, 22, 25, 26, 27} THEN scalar
                      ELSE Failed("unsupported CBOR simple value", i)

ParseNode(bytes, i, depth) ==
    IF depth > NestingLimit THEN Failed("CBOR nesting depth exceeds 128", i)
    ELSE IF i > Len(bytes) THEN Failed("unexpected end of CBOR input", i)
    ELSE ParseAfter(bytes, i, depth, ReadHead(bytes, i))

(* Document, loads_value *)
Whole(bytes, root) ==
    IF root.error = "none" /\ root.next # Len(bytes) + 1
    THEN Failed("trailing data after CBOR root value", root.next)
    ELSE root
ParseCbor(bytes) == Whole(bytes, ParseNode(bytes, 1, 0))

(* The key a member was read from: "#n" is the label of an integer key (of *)
(* one digit, in the trees looked at here).                                *)
KeyItem(label) == IF label # <<>> /\ label[1] = 35 THEN ItemHead(0, label[2] - 48) ELSE TextItem(label)

RECURSIVE Canonical(_)

(* Every object of a tree has its keys in canonical order, no key twice. *)
Canonical(tree) ==
    CASE tree.node = "scalar" -> TRUE
      [] tree.node = "sequence" -> \A i \in DOMAIN tree.items : Canonical(tree.items[i])
      [] tree.node = "object" ->
             /\ \A i, j \in DOMAIN tree.members :
                    i < j => Before(KeyItem(tree.members[i].name), KeyItem(tree.members[j].name))
             /\ \A i \in DOMAIN tree.members : Canonical(tree.members[i].tree)

=============================================================================
