---------------------------- MODULE MCDsonWriter ----------------------------
(* DsonWriter on small instances, its documents read back by DsonParser. *)
EXTENDS DsonWriter, FiniteSets

Parser == INSTANCE DsonParser WITH NestingLimit <- 128, NotText <- Unencodable

Openings == {"begin_sequence", "begin_object"}
Closings == {"end_sequence", "end_object"}

(* How many containers are open just before token i. *)
DepthAt(i) ==
    Cardinality({j \in 1 .. i - 1 : output[j].is \in Openings})
    - Cardinality({j \in 1 .. i - 1 : output[j].is \in Closings})

(* The closing mark of the container opened at token i. *)
ClosingOf(i) ==
    CHOOSE j \in i + 1 .. Len(output) :
        /\ DepthAt(j + 1) = DepthAt(i)
        /\ \A k \in i + 1 .. j - 1 : DepthAt(k + 1) > DepthAt(i)

(* What the container opened at token i really holds: one item more than the *)
(* commas directly inside it, none if nothing stands between its marks.      *)
ItemsOf(i) ==
    LET commas == {j \in i + 1 .. ClosingOf(i) - 1 :
                      output[j].is = "comma" /\ DepthAt(j) = DepthAt(i) + 1}
    IN  IF ClosingOf(i) = i + 1 THEN 0 ELSE Cardinality(commas) + 1

CountsHonest ==
    \A i \in DOMAIN output : output[i].is \in Openings => output[i].size = ItemsOf(i)

NamesReadable == \A i \in DOMAIN output : output[i].is = "name" => output[i].of \notin Unencodable

(* A finished document is accepted by the repository's parser exactly when *)
(* every declared count is the number of items written and every name is   *)
(* text; the writer itself never compares them, so this is all that stands *)
(* between a miscounting codec and a document that means something else.   *)
(* (An object not opened with begin_object_checked may also repeat a name.) *)
ParserCatchesMiscounts ==
    Finished =>
        LET result == Parser!ParseDson(output)
        IN  IF CountsHonest /\ NamesReadable
            THEN \/ result.error = "none"
                 \/ result.error = "duplicate object key" /\ FALSE \in ObjectForms
            ELSE result.error # "none"

=============================================================================
