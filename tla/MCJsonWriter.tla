---------------------------- MODULE MCJsonWriter ----------------------------
(* JsonWriter on small instances, its text read back by JsonParser. *)
EXTENDS JsonWriter

Parser == INSTANCE JsonParser WITH NestingLimit <- 128

(* The shortest legal way to end the document: the awaited value, if any,  *)
(* then the closing mark of every open container, innermost first.         *)
Completion ==
    (IF ~wroteRoot \/ (frames # <<>> /\ Top.expecting) THEN <<ScalarToken("v")>> ELSE <<>>)
    \o [i \in DOMAIN frames |->
           IF frames[Len(frames) + 1 - i].kind = "object" THEN Mark("end_object") ELSE Mark("end_sequence")]

(* At every moment, after any calls, failed ones included, the text can be  *)
(* completed to a document the repository's own parser accepts.  The only   *)
(* thing the parser may still object to is a name repeated in an object the *)
(* codec did not open with begin_object_checked.                            *)
EveryPrefixCompletes ==
    LET result == Parser!ParseJson(output \o Completion)
    IN  \/ result.error = "none"
        \/ result.error = "duplicate object key" /\ FALSE \in ObjectForms

=============================================================================
