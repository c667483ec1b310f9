-------------------------- MODULE MCDynamicMirror --------------------------
(* DynamicMirror on small instances, the JSON read back by JsonParser. *)
EXTENDS DynamicMirror

Parser == INSTANCE JsonParser WITH NestingLimit <- 128

Finished == jsonRooted /\ jsonFrames = <<>> /\ jsonError = "none"

Repeats == Parser!ParseJson(jsonText).error = "duplicate object key"

(* What to_value builds is what json.dumps spells: whatever calls a codec   *)
(* makes, once the document is finished the two hold the same tree.  Only a  *)
(* name repeated in an object that was not opened as checked sets them       *)
(* apart: the Value keeps the last of the two, the JSON parser refuses both. *)
ValueFollowsJson ==
    Finished =>
        IF Repeats THEN FALSE \in ObjectForms
        ELSE Parser!ParseJson(jsonText) = Parser!Parsed(valueRoot, Len(jsonText) + 1)

=============================================================================
