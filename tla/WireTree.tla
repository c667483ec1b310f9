------------------------------ MODULE WireTree ------------------------------
(***************************************************************************)
(* The values a document denotes, as the dynamic Value of                  *)
(* src/serdde/value.dd holds them: a scalar, a sequence, or an object whose *)
(* members keep their order (object_order) and are found by name.          *)
(***************************************************************************)
EXTENDS Sequences

Leaf(value) == [node |-> "scalar", value |-> value]
SequenceOf(items) == [node |-> "sequence", items |-> items]
ObjectOf(members) == [node |-> "object", members |-> members]
Member(name, tree) == [name |-> name, tree |-> tree]

(* has_field *)
HasField(members, name) == \E i \in DOMAIN members : members[i].name = name

(* set_field: an existing name keeps its place and takes the new value *)
SetField(members, name, tree) ==
    IF HasField(members, name)
    THEN [i \in DOMAIN members |->
             IF members[i].name = name THEN Member(name, tree) ELSE members[i]]
    ELSE Append(members, Member(name, tree))

=============================================================================
