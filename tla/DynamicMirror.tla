--------------------------- MODULE DynamicMirror ---------------------------
(***************************************************************************)
(* A codec, generated or handwritten, that makes any calls whatever, once  *)
(* on a JsonWriter (json.dumps) and once on a ValueWriter (to_value).  It   *)
(* stops at the first call that fails, as every codec does that returns    *)
(* what write_ok gives it.  JsonWriter judges a call when it is made,      *)
(* ValueWriter when the value it belongs to is finished, and ValueWriter    *)
(* does not compare the kinds of what is opened and closed.                *)
(***************************************************************************)
EXTENDS Naturals, Sequences

CONSTANTS
    Names,        (* the member names the codec writes                     *)
    NoName,       (* the empty name                                        *)
    Scalars,      (* the scalars it writes                                 *)
    ObjectForms,  (* the objects it opens: checked (TRUE), plain (FALSE)   *)
    MaxTokens,    (* bound: JSON tokens at which no further call starts    *)
    MaxDepth      (* bound: containers opened inside one another           *)

(* The empty name is set aside: JSON spells it like any other, ValueWriter  *)
(* takes it for no name at all.                                             *)
ASSUME MirrorNames ==
    /\ NoName \notin Names
    /\ ObjectForms \subseteq BOOLEAN

VARIABLES
    jsonFrames, jsonText, jsonRooted, jsonError,
    valueRoot, valueStack, valueFailed, valueMessage

mirrorVars ==
    <<jsonFrames, jsonText, jsonRooted, jsonError,
      valueRoot, valueStack, valueFailed, valueMessage>>

Json == INSTANCE JsonWriter WITH
            frames <- jsonFrames, output <- jsonText, wroteRoot <- jsonRooted, error <- jsonError,
            Unencodable <- {}

Value == INSTANCE ValueWriter WITH
            root <- valueRoot, stack <- valueStack, failed <- valueFailed, message <- valueMessage,
            MaxItems <- MaxTokens

Init == Json!Init /\ Value!Init

(* The codec goes on while no call has failed. *)
Goes == jsonError = "none" /\ ~valueFailed

WriteScalar(value) == Goes /\ Json!WriteScalar(value) /\ Value!WriteScalar(value)

BeginSequence == Goes /\ Json!BeginSequence /\ Value!BeginSequence

BeginObject(checked) == Goes /\ Json!BeginObject(checked) /\ Value!BeginObject(checked)

WriteField(name) == Goes /\ Json!WriteField(name) /\ Value!WriteField(name)

EndSequence == Goes /\ Json!EndSequence /\ Value!EndContainer

EndObject == Goes /\ Json!EndObject /\ Value!EndContainer

Next ==
    \/ \E value \in Scalars : WriteScalar(value)
    \/ BeginSequence
    \/ \E checked \in ObjectForms : BeginObject(checked)
    \/ \E name \in Names : WriteField(name)
    \/ EndSequence
    \/ EndObject

Spec == Init /\ [][Next]_mirrorVars

-----------------------------------------------------------------------------
(* Properties. *)

NamesOf(members) == {members[k].name : k \in DOMAIN members}

(* ValueWriter takes every call JsonWriter takes, although it checks a value *)
(* only when it is finished, and as long as no call has failed its stack is  *)
(* the frames of JsonWriter: it waits for a value exactly where JSON has     *)
(* written a name, and where the object is checked the names JSON remembers  *)
(* are those of the members it has and of the one it waits for.              *)
StacksAgree ==
    jsonError = "none" =>
        /\ ~valueFailed
        /\ Len(valueStack) = Len(jsonFrames)
        /\ \A i \in DOMAIN jsonFrames :
              /\ valueStack[i].tree.node = jsonFrames[i].kind
              /\ jsonFrames[i].kind = "object" =>
                     (valueStack[i].field # NoName <=> jsonFrames[i].expecting \/ i < Len(jsonFrames))
              /\ jsonFrames[i].checked =>
                     jsonFrames[i].fields =
                         NamesOf(valueStack[i].tree.members) \union ({valueStack[i].field} \ {NoName})

=============================================================================
