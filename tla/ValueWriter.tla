---------------------------- MODULE ValueWriter ----------------------------
(***************************************************************************)
(* ValueWriter of src/serdde/value_backend.dd: the backend that builds a   *)
(* dynamic Value.  Unlike the wire writers it looks at the parent only     *)
(* when a value is finished (attach): an opening never fails, and whatever *)
(* is wrong with it is found when the container closes.  The name a value  *)
(* waits for is kept in `fields`, where the empty name means none.         *)
(***************************************************************************)
EXTENDS Naturals, Sequences, WireTree

CONSTANTS
    Names,        (* member names a codec writes, NoName perhaps among them *)
    NoName,       (* the empty string                                       *)
    Scalars,      (* scalar values a codec writes                           *)
    ObjectForms,  (* which objects it opens: checked (TRUE), plain (FALSE)  *)
    MaxDepth,     (* bound: containers a codec opens inside one another     *)
    MaxItems      (* bound: items of one container                          *)

VARIABLES
    root,    (* root: null until a value is finished outside all containers *)
    stack,   (* stack, fields and checked_objects, side by side             *)
    failed,  (* failed                                                      *)
    message  (* message                                                     *)

valueVars == <<root, stack, failed, message>>

Slot(tree, checked) == [tree |-> tree, field |-> NoName, checked |-> checked]

Null == Leaf("null")

Init ==
    /\ root = Null
    /\ stack = <<>>
    /\ failed = FALSE
    /\ message = "none"

Items(tree) == IF tree.node = "object" THEN tree.members ELSE tree.items

(* attach, once the containers `open` are those the value goes into *)
AttachError(open) ==
    IF open = <<>> THEN "none"
    ELSE LET parent == open[Len(open)]
         IN  IF parent.tree.node = "sequence" THEN "none"
             ELSE IF parent.field = NoName THEN "no_field_name"
             ELSE IF parent.checked /\ HasField(parent.tree.members, parent.field)
                  THEN "duplicate_field"
             ELSE "none"

(* Mutant of With: the name is cleared before it is used. *)
WithNameLost(slot, tree) ==
    IF slot.tree.node = "sequence"
    THEN [slot EXCEPT !.tree = SequenceOf(Append(slot.tree.items, tree))]
    ELSE [slot EXCEPT !.tree = ObjectOf(SetField(slot.tree.members, NoName, tree)),
                      !.field = NoName]

With(slot, tree) ==
    IF slot.tree.node = "sequence"
    THEN [slot EXCEPT !.tree = SequenceOf(Append(slot.tree.items, tree))]
    ELSE [slot EXCEPT !.tree = ObjectOf(SetField(slot.tree.members, slot.field, tree)),
                      !.field = NoName]

Attach(open, tree) ==
    IF AttachError(open) # "none"
    THEN /\ stack' = open
         /\ failed' = TRUE
         /\ message' = AttachError(open)
         /\ UNCHANGED root
    ELSE IF open = <<>>
    THEN /\ root' = tree
         /\ stack' = open
         /\ UNCHANGED <<failed, message>>
    ELSE /\ Len(Items(open[Len(open)].tree)) < MaxItems
         /\ stack' = [open EXCEPT ![Len(open)] = With(@, tree)]
         /\ UNCHANGED <<root, failed, message>>

(* write_null, write_bool, write_i64, write_u64, write_f64, write_string *)
WriteScalar(value) == Attach(stack, Leaf(value))

Open(tree, checked) ==
    /\ Len(stack) < MaxDepth
    /\ stack' = Append(stack, Slot(tree, checked))
    /\ UNCHANGED <<root, failed, message>>

(* begin_sequence, begin_set *)
BeginSequence == Open(SequenceOf(<<>>), FALSE)

(* begin_object and its _ordered, _compact and _compact_ordered forms; with *)
(* checked, begin_object_checked                                            *)
BeginObject(checked) == Open(ObjectOf(<<>>), checked)

FieldError ==
    IF stack = <<>> THEN "outside_object"
    ELSE IF stack[Len(stack)].tree.node # "object" THEN "outside_object"
    ELSE IF stack[Len(stack)].field # NoName THEN "missing_value"
    ELSE "none"

(* write_field, write_field_id *)
WriteField(name) ==
    \/ /\ FieldError # "none"
       /\ failed' = TRUE
       /\ message' = FieldError
       /\ UNCHANGED <<root, stack>>
    \/ /\ FieldError = "none"
       /\ stack' = [stack EXCEPT ![Len(stack)].field = name]
       /\ UNCHANGED <<root, failed, message>>

(* end_container, for end_sequence and end_object alike: what was opened is *)
(* not compared with what is closed, nor is a name that still waits noticed *)
EndContainer ==
    \/ /\ stack = <<>>
       /\ failed' = TRUE
       /\ message' = "empty_stack"
       /\ UNCHANGED <<root, stack>>
    \/ /\ stack # <<>>
       /\ Attach(SubSeq(stack, 1, Len(stack) - 1), stack[Len(stack)].tree)

Next ==
    \/ \E value \in Scalars : WriteScalar(value)
    \/ BeginSequence
    \/ \E checked \in ObjectForms : BeginObject(checked)
    \/ \E name \in Names : WriteField(name)
    \/ EndContainer

Spec == Init /\ [][Next]_valueVars

=============================================================================
