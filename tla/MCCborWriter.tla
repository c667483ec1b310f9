---------------------------- MODULE MCCborWriter ----------------------------
(* CborWriter on small instances, its documents read back by CborParser. *)
EXTENDS CborWriter

(* "b" and "aa" sort the other way round in bytes and in dictionary order;  *)
(* "xFF" is not UTF-8.                                                      *)
MCText == [name \in Names |->
    CASE name = "b" -> <<98>> [] name = "aa" -> <<97, 97>> [] name = "xFF" -> <<255>>]

(* null, the integer 24 (a two-byte item), and an infinity *)
MCEncoding == [value \in Scalars |->
    CASE value = "null" -> <<246>> [] value = "24" -> <<24, 24>> [] value = "inf" -> <<>>]

MCNamedForms == [ordered : {FALSE}, compact : {FALSE}]
MCAllObjectForms == [ordered : BOOLEAN, compact : {FALSE}]

(* Bound: a container inside another has two items at most, and none inside *)
(* a root of three.                                                         *)
ItemsBounded ==
    \A i \in 2 .. Len(frames) : frames[i].expected <= IF frames[1].expected > 2 THEN 0 ELSE 2

Parser == INSTANCE CborParser WITH NestingLimit <- 128, NotText <- {<<255>>}

(* What the reader may still object to: the writer does not check names,   *)
(* and it leaves the keys of an ordered object to the caller.              *)
LeftToCaller ==
    {"none", "CBOR text is not valid UTF-8"}
    \union (IF \E form \in ObjectForms : form.ordered THEN {"duplicate CBOR object key"} ELSE {})

(* When no call has failed, the repository's own reader takes the finished   *)
(* document: no key of a plain object twice, text and nesting as it wants    *)
(* them, and nothing behind the root.                                        *)
FinishedDecodes ==
    Finished /\ error = "none" => Parser!ParseCbor(output).error \in LeftToCaller

(* docs/architecture.md: "Keys use RFC 8949 deterministic ordering."  The   *)
(* plain objects of a finished document have their keys in that order,      *)
(* whatever order the codec wrote them in and however deep they are.        *)
PlainObjectsCanonical ==
    Finished /\ error = "none" =>
        LET result == Parser!ParseCbor(output)
        IN  result.error = "none" => Parser!Canonical(result.tree)

=============================================================================
