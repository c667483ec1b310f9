----------------------------- MODULE JsonReader -----------------------------
(***************************************************************************)
(* The typed JSON reader, src/serdde/json_wire_document.hpp and            *)
(* json_wire_native.hpp, over the tokens JsonWriter emits.  yyjson parses   *)
(* the whole document first, keeps repeated keys and takes any depth; then *)
(* validate_json_tree walks the tree, and objects are read through the     *)
(* index it leaves behind.                                                 *)
(*                                                                         *)
(* RECURSIVE operators: for TLC's runs only.                               *)
(***************************************************************************)
EXTENDS ReadView

CONSTANT NestingLimit  (* 128 in the source *)

Mark(tokens, i) == IF i \in DOMAIN tokens THEN tokens[i].is ELSE "end"

Read(view, next) == [ok |-> TRUE, view |-> view, next |-> next]
Broken(next) == [ok |-> FALSE, view |-> Leaf("none"), next |-> next]

RECURSIVE Element(_, _), Elements(_, _, _), Entries(_, _, _)

(* yyjson: the rest of an array, of an object, and a value *)
Elements(tokens, i, items) ==
    LET item == Element(tokens, i)
        all == Append(items, item.view)
    IN  IF ~item.ok THEN item
        ELSE IF Mark(tokens, item.next) = "end_sequence" THEN Read(SequenceOf(all), item.next + 1)
        ELSE IF Mark(tokens, item.next) = "comma" THEN Elements(tokens, item.next + 1, all)
        ELSE Broken(item.next)

Entries(tokens, i, members) ==
    LET value == Element(tokens, i + 2)
        all == Append(members, Member(TextKey(tokens[i].of), value.view))
    IN  IF Mark(tokens, i) # "name" THEN Broken(i)
        ELSE IF Mark(tokens, i + 1) # "colon" THEN Broken(i + 1)
        ELSE IF ~value.ok THEN value
        ELSE IF Mark(tokens, value.next) = "end_object" THEN Read(ObjectOf(all), value.next + 1)
        ELSE IF Mark(tokens, value.next) = "comma" THEN Entries(tokens, value.next + 1, all)
        ELSE Broken(value.next)

Element(tokens, i) ==
    CASE Mark(tokens, i) \in {"scalar", "name"} -> Read(Leaf(tokens[i].of), i + 1)
      [] Mark(tokens, i) = "begin_sequence" ->
             IF Mark(tokens, i + 1) = "end_sequence" THEN Read(SequenceOf(<<>>), i + 2)
             ELSE Elements(tokens, i + 1, <<>>)
      [] Mark(tokens, i) = "begin_object" ->
             IF Mark(tokens, i + 1) = "end_object" THEN Read(ObjectOf(<<>>), i + 2)
             ELSE Entries(tokens, i + 1, <<>>)
      [] OTHER -> Broken(i)

RepeatsKey(view) ==
    \E i, j \in DOMAIN view.members : i # j /\ view.members[i].name.label = view.members[j].name.label

Children(view) ==
    CASE view.node = "scalar" -> <<>>
      [] view.node = "sequence" -> view.items
      [] view.node = "object" -> [i \in DOMAIN view.members |-> view.members[i].tree]

RECURSIVE TreeError(_, _)

(* Mutant of TreeError: a value at the limit is already too deep. *)
TreeErrorAtLimit(view, depth) ==
    IF depth >= NestingLimit THEN "JSON nesting depth exceeds 128"
    ELSE IF view.node = "object" /\ RepeatsKey(view) THEN "duplicate object key"
    ELSE "none"

(* validate_json_tree: the children of an object before its own keys *)
TreeError(view, depth) ==
    LET children == Children(view)
        wrong == {i \in DOMAIN children : TreeError(children[i], depth + 1) # "none"}
    IN  IF depth > NestingLimit THEN "JSON nesting depth exceeds 128"
        ELSE IF wrong # {} THEN TreeError(children[First(wrong)], depth + 1)
        ELSE IF view.node = "object" /\ RepeatsKey(view) THEN "duplicate object key"
        ELSE "none"

(* JsonDocument, and the reader of its root *)
Root(tokens) ==
    LET root == Element(tokens, 1)
    IN  IF ~root.ok \/ root.next <= Len(tokens) THEN [error |-> "invalid JSON", view |-> root.view]
        ELSE [error |-> TreeError(root.view, 0), view |-> root.view]

-----------------------------------------------------------------------------
(* What a codec asks of a reader: members by place, through the index, and  *)
(* by name, through yyjson; a name is not counted, as none repeats.         *)

KeyAt(view, i) == view.members[i].name.label
ElementAt(view, i) == Children(view)[i]
HasNameIn(view, name) == view.node = "object" /\ HasNamed(view, name)
CountIn(view, name) == IF HasNameIn(view, name) THEN 1 ELSE 0
FieldIn(view, name) == Named(view, name)

=============================================================================
