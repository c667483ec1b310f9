----------------------------- MODULE DsonWriter -----------------------------
(***************************************************************************)
(* serdde_wire::DsonWriter (src/serdde/dson_wire_writer.hpp): typed text    *)
(* whose containers carry the number of items their caller declared.  The  *)
(* writer copies that number and never compares it with what follows; only *)
(* the readers do.  Names are written as they are, without the check       *)
(* write_string makes.                                                     *)
(***************************************************************************)
EXTENDS Naturals, Sequences

CONSTANTS
    Names,        (* member names a codec writes                           *)
    Scalars,      (* scalar values a codec writes                          *)
    Unencodable,  (* text that is not UTF-8, floats that are not finite    *)
    Sizes,        (* item counts a codec declares                          *)
    ObjectForms,  (* which objects it opens: checked (TRUE), plain (FALSE) *)
    MaxTokens,    (* bound: no accepted call starts at or past this length *)
    MaxDepth      (* bound: containers a codec opens inside one another    *)

ASSUME DsonBounds ==
    /\ Sizes \subseteq Nat
    /\ ObjectForms \subseteq BOOLEAN
    /\ MaxTokens \in Nat
    /\ MaxDepth \in Nat

VARIABLES
    frames,     (* frames_: the open containers, outermost first *)
    output,     (* *output_: the text so far, as tokens          *)
    wroteRoot,  (* wrote_root_                                   *)
    error       (* error_: the kind of the last message          *)

dsonVars == <<frames, output, wroteRoot, error>>

(* Tokens: punctuation, an opening with its declared count, str(n:name), a *)
(* tagged scalar.                                                          *)
Mark(mark) == [is |-> mark, of |-> "none", size |-> 0]
Opening(mark, size) == [is |-> mark, of |-> "none", size |-> size]
NameToken(name) == [is |-> "name", of |-> name, size |-> 0]
ScalarToken(value) == [is |-> "scalar", of |-> value, size |-> 0]

Frame(kind, checked) ==
    [kind |-> kind, first |-> TRUE, expecting |-> FALSE,
     checked |-> checked, fields |-> {}]

Top == frames[Len(frames)]

Init ==
    /\ frames = <<>>
    /\ output = <<>>
    /\ wroteRoot = FALSE
    /\ error = "none"

(* Mutant of Fail: the call fails and leaves no message. *)
FailSilent(message) == error' = "" /\ UNCHANGED <<frames, output, wroteRoot>>

Fail(message) ==
    /\ error' = message
    /\ UNCHANGED <<frames, output, wroteRoot>>

(* before_value: what it refuses, the comma it writes, the frames it leaves. *)
ValueError ==
    IF frames = <<>>
    THEN IF wroteRoot THEN "multiple_roots" ELSE "none"
    ELSE IF Top.kind = "object" /\ ~Top.expecting
         THEN "no_field_name" ELSE "none"

ValueSeparator ==
    IF frames # <<>> /\ Top.kind = "sequence" /\ ~Top.first
    THEN <<Mark("comma")>> ELSE <<>>

Given(frame) ==
    IF frame.kind = "object" THEN [frame EXCEPT !.expecting = FALSE]
                             ELSE [frame EXCEPT !.first = FALSE]

FramesAfterValue ==
    IF frames = <<>> THEN <<>> ELSE [frames EXCEPT ![Len(frames)] = Given(Top)]

StartValue(token, opened) ==
    /\ ValueError = "none"
    /\ Len(output) < MaxTokens
    /\ output' = output \o ValueSeparator \o <<token>>
    /\ frames' = FramesAfterValue \o opened
    /\ wroteRoot' = (wroteRoot \/ frames = <<>>)
    /\ UNCHANGED error

RefuseValue == ValueError # "none" /\ Fail(ValueError)

(* write_null, write_bool, write_i64, write_u64, write_f64, write_string *)
WriteScalar(value) ==
    \/ value \in Unencodable /\ Fail("unencodable")
    \/ /\ value \notin Unencodable
       /\ RefuseValue \/ StartValue(ScalarToken(value), <<>>)

(* begin_sequence, begin_set *)
BeginSequence(size) ==
    \/ RefuseValue
    \/ /\ Len(frames) < MaxDepth
       /\ StartValue(Opening("begin_sequence", size), <<Frame("sequence", FALSE)>>)

(* begin_object and its _ordered, _compact and _compact_ordered forms; with *)
(* checked, begin_object_checked.                                           *)
BeginObject(size, checked) ==
    \/ RefuseValue
    \/ /\ Len(frames) < MaxDepth
       /\ StartValue(Opening("begin_object", size), <<Frame("object", checked)>>)

FieldError(name) ==
    IF frames = <<>> THEN "outside_object"
    ELSE IF Top.kind # "object" THEN "outside_object"
    ELSE IF Top.expecting THEN "missing_value"
    ELSE IF Top.checked /\ name \in Top.fields THEN "duplicate_field"
    ELSE "none"

(* Mutant of Named: the first member leaves the object still empty. *)
NamedStillFirst(frame, name) ==
    [frame EXCEPT !.expecting = TRUE,
                  !.fields = IF frame.checked THEN frame.fields \union {name} ELSE frame.fields]

(* duplicate_field keeps the names of a checked object. *)
Named(frame, name) ==
    [frame EXCEPT !.first = FALSE,
                  !.expecting = TRUE,
                  !.fields = IF frame.checked THEN frame.fields \union {name}
                                              ELSE frame.fields]

(* write_field, and write_field_id, which ignores the id *)
WriteField(name) ==
    \/ FieldError(name) # "none" /\ Fail(FieldError(name))
    \/ /\ FieldError(name) = "none"
       /\ Len(output) < MaxTokens
       /\ output' = output \o (IF Top.first THEN <<>> ELSE <<Mark("comma")>>)
                           \o <<NameToken(name), Mark("equals")>>
       /\ frames' = [frames EXCEPT ![Len(frames)] = Named(Top, name)]
       /\ UNCHANGED <<wroteRoot, error>>

(* Mutant of EndError: an object may close on a name without a value. *)
EndErrorAwaiting(kind) ==
    IF frames = <<>> THEN "close_mismatch"
    ELSE IF Top.kind # kind THEN "close_mismatch"
    ELSE "none"

EndError(kind) ==
    IF frames = <<>> THEN "close_mismatch"
    ELSE IF Top.kind # kind THEN "close_mismatch"
    ELSE IF Top.expecting THEN "missing_value"
    ELSE "none"

(* end_sequence, end_object *)
EndContainer(kind, mark) ==
    \/ EndError(kind) # "none" /\ Fail(EndError(kind))
    \/ /\ EndError(kind) = "none"
       /\ output' = output \o <<Mark(mark)>>
       /\ frames' = SubSeq(frames, 1, Len(frames) - 1)
       /\ UNCHANGED <<wroteRoot, error>>

EndSequence == EndContainer("sequence", "end_sequence")
EndObject == EndContainer("object", "end_object")

Next ==
    \/ \E value \in Scalars : WriteScalar(value)
    \/ \E size \in Sizes : BeginSequence(size)
    \/ \E size \in Sizes, checked \in ObjectForms : BeginObject(size, checked)
    \/ \E name \in Names : WriteField(name)
    \/ EndSequence
    \/ EndObject

Spec == Init /\ [][Next]_dsonVars

-----------------------------------------------------------------------------
(* Properties. *)

TokenKind ==
    {"begin_sequence", "end_sequence", "begin_object", "end_object",
     "comma", "equals", "name", "scalar"}

Token == [is : TokenKind, of : Names \union Scalars \union {"none"}, size : Nat]

FrameType ==
    [kind : {"sequence", "object"}, first : BOOLEAN, expecting : BOOLEAN,
     checked : BOOLEAN, fields : SUBSET Names]

Message ==
    {"none", "unencodable", "multiple_roots", "no_field_name", "outside_object",
     "missing_value", "duplicate_field", "close_mismatch"}

(* The variables of DsonWriter keep the shapes its declarations give them. *)
TypeOK ==
    /\ frames \in Seq(FrameType)
    /\ output \in Seq(Token)
    /\ wroteRoot \in BOOLEAN
    /\ error \in Message

(* The open containers and awaited values a codec sees through DsonWriter. *)
OpenContainers ==
    [i \in DOMAIN frames |-> [kind |-> frames[i].kind, awaiting |-> frames[i].expecting]]

Contract == INSTANCE WireContract WITH open <- OpenContainers, rooted <- wroteRoot

(* DsonWriter keeps the contract of a wire writer: every call that succeeds *)
(* is a step the contract allows, every call that fails changes nothing     *)
(* the contract can see.                                                    *)
ImplementsContract == Contract!Spec

(* The text without the counts and with JSON's colon: JSON, if the calls and *)
(* separators are right.  Names and scalars are spelt differently.          *)
Bare(token) == [is |-> IF token.is = "equals" THEN "colon" ELSE token.is, of |-> token.of]

BareText == [i \in DOMAIN output |-> Bare(output[i])]

Json == INSTANCE JsonWriter WITH output <- BareText, error <- "none", Unencodable <- {}

(* DsonWriter is JsonWriter with counts: whatever calls a codec makes, each *)
(* call that DsonWriter accepts is one that JsonWriter accepts, with the    *)
(* same separators before it and the same frames after it, if every name    *)
(* and scalar could be spelt.  So a codec that works on one text format     *)
(* works on the other, and only counts and spellings tell the texts apart.  *)
ImplementsJson == Json!Spec

(* A document that a codec finished: its root was written and closed. *)
Finished == wroteRoot /\ frames = <<>>

=============================================================================
