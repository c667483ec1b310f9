----------------------------- MODULE CborReader -----------------------------
(***************************************************************************)
(* The typed CBOR reader, src/serdde/cbor_wire_reader.hpp.  A Document      *)
(* validates its bytes once, then walks them again, container by container, *)
(* and appends the children of each to one flat array, remembering for     *)
(* every container where its children start.  Readers find elements, keys  *)
(* and fields in that array alone.                                         *)
(*                                                                         *)
(* RECURSIVE operators: for TLC's runs only.                               *)
(***************************************************************************)
EXTENDS CborParser, ReadView, SequencesExt

(* A Node of the document: read_head, and where the value ends. *)
Node(head, i, next) ==
    [begin |-> i, major |-> head.major, argument |-> head.argument,
     payload |-> head.payload, next |-> next]
NodeAt(bytes, i) == Node(ReadHead(bytes, i), i, ParseNode(bytes, i, 0).next)

IsContainer(node) == node.major \in {4, 5}

(* How many children a container has: a map has two for each pair. *)
Width(node) == IF node.major = 5 THEN 2 * node.argument ELSE node.argument

RECURSIVE Successive(_, _, _), Followed(_, _, _), Indexed(_, _, _), IndexedWith(_, _, _, _)

(* The `left` values that follow one another from i on. *)
Successive(bytes, i, left) ==
    IF left = 0 THEN <<>> ELSE Followed(bytes, NodeAt(bytes, i), left)
Followed(bytes, child, left) == <<child>> \o Successive(bytes, child.next, left - 1)

(* Mutant of Indexed: each child is indexed before the next one is put down. *)
IndexedDepthFirst(bytes, index, parent) ==
    IF ~IsContainer(parent) THEN index
    ELSE FoldLeft(LAMBDA filled, child :
                      Indexed(bytes, [filled EXCEPT !.children = Append(@, child)], child),
                  [index EXCEPT !.ranges = @ \union
                      {[parent |-> parent.begin, first |-> Len(index.children), count |-> Width(parent)]}],
                  Successive(bytes, parent.payload, Width(parent)))

(* index_children: the children go behind those already there, the range is *)
(* filed under the container's first byte, and then each child is indexed.  *)
Indexed(bytes, index, parent) ==
    IF ~IsContainer(parent) THEN index
    ELSE IndexedWith(bytes, index, parent, Successive(bytes, parent.payload, Width(parent)))
IndexedWith(bytes, index, parent, found) ==
    FoldLeft(LAMBDA filled, child : Indexed(bytes, filled, child),
             [children |-> index.children \o found,
              ranges |-> index.ranges \union
                  {[parent |-> parent.begin, first |-> Len(index.children), count |-> Width(parent)]}],
             found)

(* Document: what it refuses, and the index it keeps *)
NoChildren == [children |-> <<>>, ranges |-> {}]
Checked(bytes, error) ==
    [error |-> error,
     index |-> IF error # "none" THEN NoChildren ELSE Indexed(bytes, NoChildren, NodeAt(bytes, 1))]
Document(bytes) == Checked(bytes, ParseCbor(bytes).error)

(* Document.child: the k-th child of a container, counted from 1 *)
Child(index, parent, k) ==
    LET range == CHOOSE r \in index.ranges : r.parent = parent.begin
    IN  index.children[range.first + k]

(* key_label *)
KeyOf(bytes, key) ==
    IF key.major = 0 THEN NumberKey(key.argument, <<35>> \o Decimal(key.argument))
    ELSE TextKey(SubSeq(bytes, key.payload, key.next - 1))

(* visit_fields: the pairs of a map, in order *)
Pairs(index, node) ==
    [k \in 1 .. node.argument |-> [key |-> Child(index, node, 2 * k - 1), value |-> Child(index, node, 2 * k)]]

TextKeyEquals(bytes, key, name) ==
    /\ key.major = 3 /\ key.argument = Len(name)
    /\ SubSeq(bytes, key.payload, key.payload + key.argument - 1) = name

(* The pairs that a name finds (field_count), or with its id a name or an id *)
(* (field_count_id).                                                        *)
Matching(bytes, index, node, name) ==
    {k \in DOMAIN Pairs(index, node) : TextKeyEquals(bytes, Pairs(index, node)[k].key, name)}
MatchingId(bytes, index, node, name, id) ==
    {k \in DOMAIN Pairs(index, node) :
        LET key == Pairs(index, node)[k].key
        IN  (key.major = 0 /\ key.argument = id) \/ TextKeyEquals(bytes, key, name)}

(* Mutant of FindField: each match takes the place of the one before. *)
FindFieldLast(index, node, matching) ==
    Pairs(index, node)[CHOOSE k \in matching : \A other \in matching : other <= k].value

(* find_field: the value of the first of the pairs that match *)
FindField(index, node, matching) == Pairs(index, node)[First(matching)].value

RECURSIVE View(_, _, _)

(* All that element(i), key(i) and the getters give of a reader at a node. *)
View(bytes, index, node) ==
    CASE node.major = 4 ->
             SequenceOf([k \in 1 .. node.argument |-> View(bytes, index, Child(index, node, k))])
      [] node.major = 5 ->
             ObjectOf([k \in 1 .. node.argument |->
                 Member(KeyOf(bytes, Child(index, node, 2 * k - 1)),
                        View(bytes, index, Child(index, node, 2 * k)))])
      [] OTHER -> Leaf(SubSeq(bytes, node.begin, node.next - 1))

=============================================================================
