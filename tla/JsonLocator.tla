---------------------------- MODULE JsonLocator ----------------------------
(***************************************************************************)
(* Where a value stands in its JSON source: src/serdde/json_wire_location  *)
(* .hpp walks the source a second time, beside the tree that yyjson has     *)
(* built, until it reaches the node it was asked for.  Nodes are named by  *)
(* the way to them: i for the i-th child, -i for the key of the i-th entry. *)
(*                                                                         *)
(* RECURSIVE operators: for TLC's runs only.                               *)
(***************************************************************************)
EXTENDS JsonReader, Integers

CONSTANT NamesInOrder  (* the names of members, in the order of their bytes *)

Blank == {"space", "newline"}

(* Offsets count from 0. *)
CharAt(chars, offset) == IF offset < Len(chars) THEN chars[offset + 1] ELSE "end"
Past(chars, offset) == IF offset < Len(chars) THEN offset + 1 ELSE offset

RECURSIVE SkipSpace(_, _), SkipScalar(_, _), InString(_, _)

SkipSpace(chars, offset) ==
    IF CharAt(chars, offset) \in Blank THEN SkipSpace(chars, offset + 1) ELSE offset

SkipScalar(chars, offset) ==
    IF CharAt(chars, offset) \in Blank \union {",", "]", "}", "end"} THEN offset
    ELSE SkipScalar(chars, offset + 1)

InString(chars, offset) ==
    CASE CharAt(chars, offset) = "end" -> offset
      [] CharAt(chars, offset) = "quote" -> offset + 1
      [] CharAt(chars, offset) = "backslash" -> InString(chars, Past(chars, offset + 1))
      [] OTHER -> InString(chars, offset + 1)
(* Mutant of SkipString: the first quotation mark ends it. *)
RECURSIVE ToQuote(_, _)
ToQuote(chars, offset) ==
    CASE CharAt(chars, offset) = "end" -> offset
      [] CharAt(chars, offset) = "quote" -> offset + 1
      [] OTHER -> ToQuote(chars, offset + 1)
SkipStringUnescaped(chars, offset) ==
    IF CharAt(chars, offset) = "quote" THEN ToQuote(chars, offset + 1) ELSE offset
SkipString(chars, offset) ==
    IF CharAt(chars, offset) = "quote" THEN InString(chars, offset + 1) ELSE offset

-----------------------------------------------------------------------------
(* visit.  The walk is its cursor and, once it is there, where the target is; *)
(* Len(chars), the end of the source, means nowhere yet.                     *)

Walk(cursor, found) == [cursor |-> cursor, found |-> found]
IsFound(chars, walk) == walk.found # Len(chars)

RECURSIVE Visit(_, _, _, _, _), VisitItems(_, _, _, _, _, _), VisitEntries(_, _, _, _, _, _)

(* What follows the i-th of the children: a comma, or after the last the end. *)
AfterChild(chars, view, i, walk) ==
    LET next == SkipSpace(chars, walk.cursor)
    IN  [walk EXCEPT !.cursor =
            IF i < Len(Children(view)) THEN Past(chars, next) ELSE next]
AfterLast(chars, walk) ==
    [walk EXCEPT !.cursor = Past(chars, SkipSpace(chars, walk.cursor))]

VisitItems(chars, target, path, view, i, walk) ==
    IF i > Len(view.items) THEN AfterLast(chars, walk)
    ELSE LET item == Visit(chars, target, Append(path, i), view.items[i], walk)
         IN  IF IsFound(chars, item) THEN item
             ELSE VisitItems(chars, target, path, view, i + 1, AfterChild(chars, view, i, item))

VisitEntries(chars, target, path, view, i, walk) ==
    IF i > Len(view.members) THEN AfterLast(chars, walk)
    ELSE LET key == SkipSpace(chars, walk.cursor)
             colon == SkipSpace(chars, SkipString(chars, key))
             value == Visit(chars, target, Append(path, i), view.members[i].tree,
                            [walk EXCEPT !.cursor = Past(chars, colon)])
         IN  IF target = Append(path, -i) THEN Walk(key, key)
             ELSE IF IsFound(chars, value) THEN value
             ELSE VisitEntries(chars, target, path, view, i + 1, AfterChild(chars, view, i, value))

Visit(chars, target, path, view, walk) ==
    LET start == SkipSpace(chars, walk.cursor)
        inside == Walk(Past(chars, start), walk.found)
    IN  IF IsFound(chars, walk) THEN [walk EXCEPT !.cursor = start]
        ELSE IF target = path THEN Walk(start, start)
        ELSE CASE view.node = "sequence" -> VisitItems(chars, target, path, view, 1, inside)
               [] view.node = "object" -> VisitEntries(chars, target, path, view, 1, inside)
               [] view.node = "scalar" ->
                      Walk(IF CharAt(chars, start) = "quote" THEN SkipString(chars, start)
                           ELSE SkipScalar(chars, start), walk.found)

(* json_value_offset, value_offset *)
Offset(chars, root, target) ==
    LET walk == Visit(chars, target, <<>>, root, Walk(0, Len(chars)))
    IN  IF IsFound(chars, walk) THEN walk.found ELSE 0

-----------------------------------------------------------------------------
(* validate_json_tree: which key is the repeated one, named by the way to it, *)
(* <<>> for none.  Children come before the object's own keys; of several     *)
(* repeated names the first in order is reported, where it stands again.      *)

Rank(label) == CHOOSE rank \in DOMAIN NamesInOrder : NamesInOrder[rank] = label

(* Mutant of Again: where a name stands that will stand again. *)
AgainLater(view) ==
    IF view.node # "object" THEN {}
    ELSE {i \in DOMAIN view.members :
             \E j \in i + 1 .. Len(view.members) :
                 view.members[j].name.label = view.members[i].name.label}

(* The entries whose key stands further up already. *)
Again(view) ==
    IF view.node # "object" THEN {}
    ELSE {i \in DOMAIN view.members :
             \E j \in 1 .. i - 1 : view.members[j].name.label = view.members[i].name.label}

RECURSIVE RepeatedKey(_, _)

RepeatedKey(view, path) ==
    LET rank(i) == Rank(view.members[i].name.label)
        smallest == {i \in Again(view) : \A j \in Again(view) : rank(i) <= rank(j)}
        Within(i, child) == RepeatedKey(child, Append(path, i))
        children == Children(view)
        broken == {i \in DOMAIN children : Within(i, children[i]) # <<>>}
    IN  IF broken # {} THEN Within(First(broken), children[First(broken)])
        ELSE IF Again(view) # {} THEN Append(path, -First(smallest))
        ELSE <<>>

(* error_offset after validation: of a repeated key; a document that is too  *)
(* deep is said to be wrong at its beginning.                                *)
ErrorOffset(chars, root) ==
    IF TreeError(root, 0) = "duplicate object key" THEN Offset(chars, root, RepeatedKey(root, <<>>))
    ELSE 0

(* line_and_column *)
LineAndColumn(chars, offset) ==
    FoldLeft(LAMBDA at, char : IF char = "newline" THEN [line |-> at.line + 1, column |-> 1]
                               ELSE [at EXCEPT !.column = @ + 1],
             [line |-> 1, column |-> 1], SubSeq(chars, 1, offset))

=============================================================================
