----------------------------- MODULE JsonWriter -----------------------------
(***************************************************************************)
(* serdde_wire::JsonWriter (src/serdde/json_wire_writer.hpp): the streaming *)
(* writer behind json.dumps.  A codec calls it in any order it likes; each *)
(* call either appends tokens to the text or fails, leaving a message.     *)
(*                                                                         *)
(* The text is kept as a sequence of tokens: punctuation, the spelling of  *)
(* a scalar, an escaped member name.  A name or scalar the method rejects  *)
(* before it looks at the frames (text that is not UTF-8, a float that is  *)
(* not finite) is a member of Unencodable.                                 *)
(***************************************************************************)
EXTENDS Naturals, Sequences, JsonTokens

CONSTANTS
    Names,        (* member names a codec writes                           *)
    Scalars,      (* scalar values a codec writes                          *)
    Unencodable,  (* the names and scalars this format cannot spell        *)
    ObjectForms,  (* which objects it opens: checked (TRUE), plain (FALSE) *)
    MaxTokens,    (* bound: no accepted call starts at or past this length *)
    MaxDepth      (* bound: containers a codec opens inside one another    *)

ASSUME JsonBounds ==
    /\ ObjectForms \subseteq BOOLEAN
    /\ MaxTokens \in Nat
    /\ MaxDepth \in Nat

VARIABLES
    frames,     (* frames_: the open containers, outermost first *)
    output,     (* *output_: the text so far, as tokens          *)
    wroteRoot,  (* wrote_root_                                   *)
    error       (* error_: the kind of the last message       *)

jsonVars == <<frames, output, wroteRoot, error>>

Frame(kind, checked) ==
    [kind |-> kind, first |-> TRUE, expecting |-> FALSE,
     checked |-> checked, fields |-> {}]

Top == frames[Len(frames)]

Init ==
    /\ frames = <<>>
    /\ output = <<>>
    /\ wroteRoot = FALSE
    /\ error = "none"

(* Mutant of Fail: the call fails and leaves no message. *)
FailSilent(message) == error' = "" /\ UNCHANGED <<frames, output, wroteRoot>>

Fail(message) ==
    /\ error' = message
    /\ UNCHANGED <<frames, output, wroteRoot>>

(* before_value: what it refuses, the comma it writes, the frames it leaves. *)
ValueError ==
    IF frames = <<>>
    THEN IF wroteRoot THEN "multiple_roots" ELSE "none"
    ELSE IF Top.kind = "object" /\ ~Top.expecting
         THEN "no_field_name" ELSE "none"

ValueSeparator ==
    IF frames # <<>> /\ Top.kind = "sequence" /\ ~Top.first
    THEN <<Mark("comma")>> ELSE <<>>

(* Mutant of Given: the first item of a sequence leaves it still empty. *)
GivenStillFirst(frame) == IF frame.kind = "object" THEN [frame EXCEPT !.expecting = FALSE] ELSE frame

Given(frame) ==
    IF frame.kind = "object" THEN [frame EXCEPT !.expecting = FALSE]
                             ELSE [frame EXCEPT !.first = FALSE]

FramesAfterValue ==
    IF frames = <<>> THEN <<>> ELSE [frames EXCEPT ![Len(frames)] = Given(Top)]

(* A value that starts with `tokens` and opens the frames `opened` (0 or 1). *)
StartValue(tokens, opened) ==
    /\ ValueError = "none"
    /\ Len(output) < MaxTokens
    /\ output' = output \o ValueSeparator \o tokens
    /\ frames' = FramesAfterValue \o opened
    /\ wroteRoot' = (wroteRoot \/ frames = <<>>)
    /\ UNCHANGED error

RefuseValue == ValueError # "none" /\ Fail(ValueError)

(* write_null, write_bool, write_i64, write_u64, write_f64, write_string *)
WriteScalar(value) ==
    \/ value \in Unencodable /\ Fail("unencodable")
    \/ /\ value \notin Unencodable
       /\ RefuseValue \/ StartValue(<<ScalarToken(value)>>, <<>>)

(* begin_sequence, begin_set: the declared size is ignored *)
BeginSequence ==
    \/ RefuseValue
    \/ /\ Len(frames) < MaxDepth
       /\ StartValue(<<Mark("begin_sequence")>>, <<Frame("sequence", FALSE)>>)

(* begin_object and its _ordered, _compact and _compact_ordered forms; with *)
(* checked, begin_object_checked.  The declared size is ignored.            *)
BeginObject(checked) ==
    \/ RefuseValue
    \/ /\ Len(frames) < MaxDepth
       /\ StartValue(<<Mark("begin_object")>>, <<Frame("object", checked)>>)

(* Mutant of FieldError: checked objects are not checked. *)
FieldErrorUnchecked(name) ==
    IF frames = <<>> THEN "outside_object"
    ELSE IF Top.kind # "object" THEN "outside_object"
    ELSE IF Top.expecting THEN "missing_value"
    ELSE IF name \in Unencodable THEN "not_utf8"
    ELSE "none"

FieldError(name) ==
    IF frames = <<>> THEN "outside_object"
    ELSE IF Top.kind # "object" THEN "outside_object"
    ELSE IF Top.expecting THEN "missing_value"
    ELSE IF name \in Unencodable THEN "not_utf8"
    ELSE IF Top.checked /\ name \in Top.fields THEN "duplicate_field"
    ELSE "none"

(* Mutant of Named: the name is not kept. *)
NamedForgotten(frame, name) == [frame EXCEPT !.first = FALSE, !.expecting = TRUE]

(* A name leaves its object awaiting the value; record_field keeps the name *)
(* of a checked object.                                                     *)
Named(frame, name) ==
    [frame EXCEPT !.first = FALSE,
                  !.expecting = TRUE,
                  !.fields = IF frame.checked THEN frame.fields \union {name}
                                              ELSE frame.fields]

(* write_field, and write_field_id, which ignores the id *)
WriteField(name) ==
    \/ FieldError(name) # "none" /\ Fail(FieldError(name))
    \/ /\ FieldError(name) = "none"
       /\ Len(output) < MaxTokens
       /\ output' = output \o (IF Top.first THEN <<>> ELSE <<Mark("comma")>>)
                           \o <<NameToken(name), Mark("colon")>>
       /\ frames' = [frames EXCEPT ![Len(frames)] = Named(Top, name)]
       /\ UNCHANGED <<wroteRoot, error>>

(* Mutant of EndError: a name may be left without its value. *)
EndErrorAwaiting(kind) ==
    IF frames = <<>> THEN "close_mismatch"
    ELSE IF Top.kind # kind THEN "close_mismatch"
    ELSE "none"

EndError(kind) ==
    IF frames = <<>> THEN "close_mismatch"
    ELSE IF Top.kind # kind THEN "close_mismatch"
    ELSE IF Top.expecting THEN "missing_value"
    ELSE "none"

(* end_sequence, end_object *)
EndContainer(kind, mark) ==
    \/ EndError(kind) # "none" /\ Fail(EndError(kind))
    \/ /\ EndError(kind) = "none"
       /\ output' = output \o <<Mark(mark)>>
       /\ frames' = SubSeq(frames, 1, Len(frames) - 1)
       /\ UNCHANGED <<wroteRoot, error>>

EndSequence == EndContainer("sequence", "end_sequence")
EndObject == EndContainer("object", "end_object")

Next ==
    \/ \E value \in Scalars : WriteScalar(value)
    \/ BeginSequence
    \/ \E checked \in ObjectForms : BeginObject(checked)
    \/ \E name \in Names : WriteField(name)
    \/ EndSequence
    \/ EndObject

Spec == Init /\ [][Next]_jsonVars

-----------------------------------------------------------------------------
(* Properties. *)

Payload == Names \union Scalars \union {"none"}

TokenKind ==
    {"begin_sequence", "end_sequence", "begin_object", "end_object",
     "comma", "colon", "name", "scalar"}

Token == [is : TokenKind, of : Payload]

FrameType ==
    [kind : {"sequence", "object"}, first : BOOLEAN, expecting : BOOLEAN,
     checked : BOOLEAN, fields : SUBSET Names]

Message ==
    {"none", "unencodable", "multiple_roots", "no_field_name", "outside_object",
     "missing_value", "not_utf8", "duplicate_field", "close_mismatch"}

(* The variables of JsonWriter keep the shapes its declarations give them. *)
TypeOK ==
    /\ frames \in Seq(FrameType)
    /\ output \in Seq(Token)
    /\ wroteRoot \in BOOLEAN
    /\ error \in Message

StartsValue == {"scalar", "begin_sequence", "begin_object"}
EndsValue == {"scalar", "end_sequence", "end_object"}

(* The tokens the JSON grammar lets stand next to each other. *)
MayFollow(left, right) ==
    \/ left = "begin_sequence" /\ right \in StartsValue \union {"end_sequence"}
    \/ left = "begin_object" /\ right \in {"name", "end_object"}
    \/ left = "comma" /\ right \in StartsValue \union {"name"}
    \/ left = "name" /\ right = "colon"
    \/ left = "colon" /\ right \in StartsValue
    \/ left \in EndsValue /\ right \in {"comma", "end_sequence", "end_object"}

WellPlaced(tokens) ==
    \A i \in 1 .. Len(tokens) - 1 : MayFollow(tokens[i].is, tokens[i + 1].is)

(* Whatever calls a codec makes, failed ones included, no two tokens stand  *)
(* next to each other that JSON keeps apart: no doubled, leading or trailing *)
(* comma, no name without its colon and value, no two values side by side   *)
(* (before_value, write_field and end place the separators).                *)
SeparatorsWellPlaced == WellPlaced(output)

(* The open containers and awaited values a codec sees through JsonWriter. *)
OpenContainers ==
    [i \in DOMAIN frames |-> [kind |-> frames[i].kind, awaiting |-> frames[i].expecting]]

Contract == INSTANCE WireContract WITH open <- OpenContainers, rooted <- wroteRoot

(* JsonWriter keeps the contract of a wire writer: every call that succeeds *)
(* is a step the contract allows, every call that fails changes nothing     *)
(* the contract can see.                                                    *)
ImplementsContract == Contract!Spec

=============================================================================
