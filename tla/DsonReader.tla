----------------------------- MODULE DsonReader -----------------------------
(***************************************************************************)
(* The typed DSON reader, src/serdde/dson_wire_reader.hpp, over the tokens *)
(* DsonWriter emits.  It parses the source once to validate it and keeps   *)
(* nothing but byte ranges: what a codec asks a reader afterwards          *)
(* (element, key, field, size) is found by parsing the range again from    *)
(* its beginning, and so is every earlier key when a key is checked.       *)
(*                                                                         *)
(* RECURSIVE operators: for TLC's runs only.                               *)
(***************************************************************************)
EXTENDS Naturals, Sequences, ReadView

CONSTANTS
    NestingLimit,  (* 128 in the source              *)
    NotText        (* names whose bytes are not UTF-8 *)

(* A Node: where the value begins, where its body begins, what follows it. *)
Node(kind, begin, payload, next, count) ==
    [error |-> "none", kind |-> kind, begin |-> begin, payload |-> payload,
     next |-> next, count |-> count]

Invalid(message, at) == [Node("invalid", at, at, at, 0) EXCEPT !.error = message]

Mark(tokens, i) == IF i \in DOMAIN tokens THEN tokens[i].is ELSE "end"

RECURSIVE SkipSpace(_, _)
SkipSpace(tokens, i) ==
    IF Mark(tokens, i) \in {"space", "newline"} THEN SkipSpace(tokens, i + 1) ELSE i

RECURSIVE ParseNode(_, _, _), AfterItems(_, _, _, _), AfterEntries(_, _, _, _, _)
RECURSIVE ItemAt(_, _, _, _), EntryAt(_, _, _, _)

(* A node in a body, with the position of the first mark behind it. *)
Spaced(tokens, node) == [node |-> node, after |-> SkipSpace(tokens, node.next)]

(* The k-th item of the sequence body at i (sequence_element). *)
LaterItem(tokens, item, depth, k) ==
    IF item.node.error # "none" \/ k = 1 THEN item.node
    ELSE IF Mark(tokens, item.after) # "comma"
    THEN Invalid("expected sequence separator", item.after)
    ELSE ItemAt(tokens, item.after + 1, depth, k - 1)

ItemAt(tokens, i, depth, k) == LaterItem(tokens, Spaced(tokens, ParseNode(tokens, i, depth)), depth, k)

(* An entry of an object body, whose key and what follows it are known. *)
EntryOf(tokens, key, depth) ==
    [key |-> key.node,
     value |-> Spaced(tokens,
         IF key.node.kind # "string" THEN Invalid("object key must be a DSON string", key.node.next)
         ELSE IF Mark(tokens, key.after) # "equals"
         THEN Invalid("expected object field separator", key.after)
         ELSE ParseNode(tokens, key.after + 1, depth))]

ParseEntry(tokens, i, depth) == EntryOf(tokens, Spaced(tokens, ParseNode(tokens, i, depth)), depth)

(* The k-th entry of the object body at i (object_entry), a key and a value. *)
LaterEntry(tokens, entry, depth, k) ==
    IF entry.value.node.error # "none" \/ k = 1 THEN [key |-> entry.key, value |-> entry.value.node]
    ELSE IF Mark(tokens, entry.value.after) # "comma"
    THEN LET broken == Invalid("expected object separator", entry.value.after)
         IN  [key |-> broken, value |-> broken]
    ELSE EntryAt(tokens, entry.value.after + 1, depth, k - 1)

EntryAt(tokens, i, depth, k) == LaterEntry(tokens, ParseEntry(tokens, i, depth), depth, k)

(* Mutant of DuplicateKey: the entry just before the candidate is passed over. *)
DuplicateKeyButLast(tokens, entries, prior, candidate, depth) ==
    \E k \in 1 .. prior - 1 : tokens[EntryAt(tokens, entries, depth + 1, k).key.begin].of
                                 = tokens[candidate.begin].of

(* duplicate_key: the keys of the `prior` entries before the candidate *)
DuplicateKey(tokens, entries, prior, candidate, depth) ==
    \E k \in 1 .. prior : tokens[EntryAt(tokens, entries, depth + 1, k).key.begin].of
                             = tokens[candidate.begin].of

(* The position after the items of a body that still has `left` to come, or *)
(* what is wrong with them (parse_sequence).                                *)
AfterItem(tokens, item, depth, left) ==
    IF item.node.error # "none" THEN item.node
    ELSE IF left = 1 THEN AfterItems(tokens, item.after, depth, 0)
    ELSE IF Mark(tokens, item.after) = "comma" THEN AfterItems(tokens, item.after + 1, depth, left - 1)
    ELSE Invalid("expected sequence entry separator", item.after)

AfterItems(tokens, i, depth, left) ==
    IF left = 0 THEN Node("invalid", i, i, i, 0)
    ELSE AfterItem(tokens, Spaced(tokens, ParseNode(tokens, i, depth + 1)), depth, left)

(* The same for the entries of the object body at `entries` (parse_object). *)
AfterEntry(tokens, entry, depth, entries, counts) ==
    LET after == entry.value.after
        one == [prior |-> counts.prior + 1, left |-> counts.left - 1]
    IN  IF entry.key.kind = "string" /\ DuplicateKey(tokens, entries, counts.prior, entry.key, depth)
        THEN Invalid("duplicate object key", entry.key.next)
        ELSE IF entry.value.node.error # "none" THEN entry.value.node
        ELSE IF one.left = 0 THEN AfterEntries(tokens, after, depth, entries, one)
        ELSE IF Mark(tokens, after) = "comma" THEN AfterEntries(tokens, after + 1, depth, entries, one)
        ELSE Invalid("expected object entry separator", after)

AfterEntries(tokens, i, depth, entries, counts) ==
    IF counts.left = 0 THEN Node("invalid", i, i, i, 0)
    ELSE AfterEntry(tokens, ParseEntry(tokens, i, depth + 1), depth, entries, counts)

(* parse_sequence, parse_object: a body of as many items as declared, closed *)
Container(tokens, i, kind, after) ==
    LET count == tokens[i].size
        closing == IF kind = "sequence" THEN "end_sequence" ELSE "end_object"
    IN  IF after.error # "none" THEN after
        ELSE IF Mark(tokens, after.next) # closing
             THEN Invalid("count does not match its body", after.next)
        ELSE Node(kind, i, i + 1, after.next + 1, count)

(* parse_value; a name token is a str(..) item *)
ParseNode(tokens, before, depth) ==
    LET i == SkipSpace(tokens, before)
        mark == Mark(tokens, i)
    IN  CASE mark = "scalar" -> Node("scalar", i, i, i + 1, 0)
          [] mark = "name" ->
                 IF tokens[i].of \in NotText THEN Invalid("string is not valid UTF-8", i)
                 ELSE Node("string", i, i, i + 1, 0)
          [] mark \in {"begin_sequence", "begin_object"} ->
                 IF depth >= NestingLimit THEN Invalid("DSON nesting depth exceeds 128", i)
                 ELSE IF mark = "begin_sequence"
                 THEN Container(tokens, i, "sequence", AfterItems(tokens, i + 1, depth, tokens[i].size))
                 ELSE Container(tokens, i, "object",
                                AfterEntries(tokens, i + 1, depth, i + 1,
                                             [prior |-> 0, left |-> tokens[i].size]))
          [] OTHER -> Invalid("unknown DSON value tag", i)

(* DsonReader(source) *)
Finished(tokens, root) ==
    IF root.node.error = "none" /\ root.after <= Len(tokens)
    THEN Invalid("trailing characters after DSON value", root.after)
    ELSE root.node

Root(tokens) == Finished(tokens, Spaced(tokens, ParseNode(tokens, 1, 0)))

EntriesOf(tokens, node) == [k \in 1 .. node.count |-> EntryAt(tokens, node.payload, 1, k)]
NamedIn(tokens, entries, name) ==
    LET matching == {k \in DOMAIN entries : tokens[entries[k].key.begin].of = name}
    IN  IF matching = {} THEN Invalid("no such field", 0) ELSE entries[First(matching)].value

(* find_field: each entry in turn, found from the object's beginning *)
FindField(tokens, node, name) == NamedIn(tokens, EntriesOf(tokens, node), name)

RECURSIVE View(_, _)

MemberOf(tokens, entry) == Member(TextKey(tokens[entry.key.begin].of), View(tokens, entry.value))

(* All that element(i), key(i) and the scalar getters give of a reader at   *)
(* this node: whatever its depth, they parse again from depth 1.            *)
View(tokens, node) ==
    CASE node.kind \in {"scalar", "string"} -> Leaf(tokens[node.begin].of)
      [] node.kind = "sequence" ->
             SequenceOf([k \in 1 .. node.count |-> View(tokens, ItemAt(tokens, node.payload, 1, k))])
      [] node.kind = "object" ->
             ObjectOf([k \in 1 .. node.count |-> MemberOf(tokens, EntryAt(tokens, node.payload, 1, k))])

=============================================================================
