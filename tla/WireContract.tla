---------------------------- MODULE WireContract ----------------------------
(***************************************************************************)
(* What a codec may rely on from any wire writer, whatever the format: the *)
(* containers it opened close in reverse order and under the kind they     *)
(* were opened with, an object takes a name and then exactly one value     *)
(* before the next name, nothing but a name may follow another name's      *)
(* value, and there is one root.  A call that would break one of these     *)
(* rules changes nothing: it is a stuttering step here.                    *)
(*                                                                         *)
(* JsonWriter, DsonWriter and CborWriter are shown to implement this       *)
(* specification under the mapping each of them states.                    *)
(***************************************************************************)
EXTENDS Naturals, Sequences

VARIABLES
    open,   (* the open containers, outermost first *)
    rooted  (* has the root value been started?     *)

contractVars == <<open, rooted>>

Container(kind, awaiting) == [kind |-> kind, awaiting |-> awaiting]

Innermost == open[Len(open)]

ValueAllowed ==
    /\ open = <<>> => ~rooted
    /\ open # <<>> /\ Innermost.kind = "object" => Innermost.awaiting

(* The open containers once the innermost one has been given its value. *)
Settled ==
    [i \in DOMAIN open |->
        IF i = Len(open) THEN Container(open[i].kind, FALSE) ELSE open[i]]

Init == open = <<>> /\ rooted = FALSE

PutScalar ==
    /\ ValueAllowed
    /\ open' = Settled
    /\ rooted' = TRUE

OpenContainer(kind) ==
    /\ ValueAllowed
    /\ open' = Append(Settled, Container(kind, FALSE))
    /\ rooted' = TRUE

PutName ==
    /\ open # <<>>
    /\ Innermost.kind = "object"
    /\ ~Innermost.awaiting
    /\ open' = [open EXCEPT ![Len(open)] = Container("object", TRUE)]
    /\ UNCHANGED rooted

CloseContainer(kind) ==
    /\ open # <<>>
    /\ Innermost.kind = kind
    /\ ~Innermost.awaiting
    /\ open' = SubSeq(open, 1, Len(open) - 1)
    /\ UNCHANGED rooted

Next ==
    \/ PutScalar
    \/ PutName
    \/ \E kind \in {"sequence", "object"} : OpenContainer(kind) \/ CloseContainer(kind)

Spec == Init /\ [][Next]_contractVars

=============================================================================
