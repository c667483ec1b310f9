------------------------------ MODULE ReadView ------------------------------
(***************************************************************************)
(* What the immutable readers of the formats let a codec see of a document *)
(* (src/serdde/cbor_wire_reader.hpp, dson_wire_reader.hpp,                 *)
(* json_wire_native.hpp, value_backend.dd): a tree whose object members    *)
(* have a key each.  Only CBOR has keys that are numbers.                  *)
(*                                                                         *)
(* RECURSIVE operators: for TLC's runs only.                               *)
(***************************************************************************)
EXTENDS Naturals, Sequences, FiniteSets, SequencesExt, WireTree

TextKey(name) == [numbered |-> FALSE, id |-> 0, label |-> name]
NumberKey(id, label) == [numbered |-> TRUE, id |-> id, label |-> label]

HasTextKey(member, name) == ~member.name.numbered /\ member.name.label = name
HasNumberKey(member, id) == member.name.numbered /\ member.name.id = id

(* key_matches *)
KeyMatches(member, name, id) == HasNumberKey(member, id) \/ HasTextKey(member, name)

First(indices) == CHOOSE i \in indices : \A j \in indices : i <= j

(* The member that field(name) takes its value from; has_field says whether *)
(* there is one.                                                            *)
HasNamed(view, name) == \E i \in DOMAIN view.members : HasTextKey(view.members[i], name)
Named(view, name) == view.members[First({i \in DOMAIN view.members : HasTextKey(view.members[i], name)})].tree

(* field_count_id and field_id *)
CountById(view, name, id) == Cardinality({i \in DOMAIN view.members : KeyMatches(view.members[i], name, id)})
ById(view, name, id) == view.members[First({i \in DOMAIN view.members : KeyMatches(view.members[i], name, id)})].tree

RECURSIVE Labelled(_)

(* The dynamic tree with the members of the view, set one after another     *)
(* under their labels (decode_value of src/serdde/cbor_value.dd).           *)
Labelled(view) ==
    CASE view.node = "scalar" -> view
      [] view.node = "sequence" -> SequenceOf([i \in DOMAIN view.items |-> Labelled(view.items[i])])
      [] view.node = "object" ->
             ObjectOf(FoldLeft(LAMBDA members, member :
                                   SetField(members, member.name.label, Labelled(member.tree)),
                               <<>>, view.members))

=============================================================================
