---------------------------- MODULE PeerBackends ----------------------------
(***************************************************************************)
(* A value of a derived class encoded by the four backends that serdde      *)
(* offers: json.dumps, dson.dumps, cbor.dumps and to_value.  Each has a     *)
(* writer of its own, to which the codec makes the calls of ClassEncoder;   *)
(* the first call that fails ends that backend's run with an error, and a   *)
(* run with no calls left returns what the writer holds, without asking     *)
(* whether everything was closed.  The four runs advance side by side, so   *)
(* that their outcomes can be compared.                                     *)
(***************************************************************************)
EXTENDS ClassEncoder, CborHead

CONSTANTS
    Documents,      (* the class values that are encoded                      *)
    Names,          (* the member names they use                              *)
    NoName,         (* the empty name                                         *)
    Scalars,        (* the scalars they use                                   *)
    Encoding,       (* the bytes of each scalar's CBOR item                   *)
    NotText,        (* the names that are not UTF-8                           *)
    NotFinite       (* the scalars that are floats without a finite value     *)

VARIABLES
    document,                            (* the value being encoded        *)
    plainCalls, canonicalCalls,          (* the calls it takes             *)
    made,                                (* how many have been made        *)
    outcome,                             (* each backend's outcome         *)
    jsonFrames, jsonText, jsonRooted, jsonError,
    dsonFrames, dsonText, dsonRooted, dsonError,
    cborFrames, cborBytes, cborRooted, cborError,
    valueRoot, valueStack, valueFailed, valueMessage

(* The writers' own bounds do not bite here. *)
Ample == 100

Json == INSTANCE JsonWriter WITH
            frames <- jsonFrames, output <- jsonText, wroteRoot <- jsonRooted, error <- jsonError,
            Unencodable <- NotText \union NotFinite, ObjectForms <- BOOLEAN,
            MaxTokens <- Ample, MaxDepth <- Ample

Dson == INSTANCE DsonWriter WITH
            frames <- dsonFrames, output <- dsonText, wroteRoot <- dsonRooted, error <- dsonError,
            Unencodable <- NotText \union NotFinite, ObjectForms <- BOOLEAN,
            Sizes <- 0 .. Ample, MaxTokens <- Ample, MaxDepth <- Ample

Cbor == INSTANCE CborWriter WITH
            frames <- cborFrames, output <- cborBytes, wroteRoot <- cborRooted, error <- cborError,
            Unencodable <- NotFinite, ObjectForms <- [ordered : BOOLEAN, compact : BOOLEAN],
            Ids <- 0 .. Ample, Sizes <- 0 .. Ample, MaxDepth <- Ample

Value == INSTANCE ValueWriter WITH
            root <- valueRoot, stack <- valueStack, failed <- valueFailed, message <- valueMessage,
            ObjectForms <- BOOLEAN, MaxDepth <- Ample, MaxItems <- Ample

jsonRun == <<jsonFrames, jsonText, jsonRooted, jsonError>>
dsonRun == <<dsonFrames, dsonText, dsonRooted, dsonError>>
cborRun == <<cborFrames, cborBytes, cborRooted, cborError>>
valueRun == <<valueRoot, valueStack, valueFailed, valueMessage>>

peerVars ==
    <<document, plainCalls, canonicalCalls, made, outcome, jsonRun, dsonRun, cborRun, valueRun>>

Backends == {"json", "dson", "cbor", "value"}

JsonCall(call) ==
    CASE call.method = "scalar" -> Json!WriteScalar(call.name)
      [] call.method \in {"begin_sequence", "begin_set"} -> Json!BeginSequence
      [] call.method \in {"begin_object", "begin_object_compact"} -> Json!BeginObject(FALSE)
      [] call.method = "begin_object_checked" -> Json!BeginObject(TRUE)
      [] call.method \in {"field", "field_id"} -> Json!WriteField(call.name)
      [] call.method = "end_sequence" -> Json!EndSequence
      [] call.method = "end_object" -> Json!EndObject
      [] call.method = "refused" -> UNCHANGED jsonRun

DsonCall(call) ==
    CASE call.method = "scalar" -> Dson!WriteScalar(call.name)
      [] call.method \in {"begin_sequence", "begin_set"} -> Dson!BeginSequence(call.size)
      [] call.method \in {"begin_object", "begin_object_compact"} -> Dson!BeginObject(call.size, FALSE)
      [] call.method = "begin_object_checked" -> Dson!BeginObject(call.size, TRUE)
      [] call.method \in {"field", "field_id"} -> Dson!WriteField(call.name)
      [] call.method = "end_sequence" -> Dson!EndSequence
      [] call.method = "end_object" -> Dson!EndObject
      [] call.method = "refused" -> UNCHANGED dsonRun

CborForm(method) ==
    [ordered |-> method \in {"begin_object_ordered", "begin_object_compact_ordered"},
     compact |-> method \in {"begin_object_compact", "begin_object_compact_ordered"}]

CborCall(call) ==
    CASE call.method = "scalar" -> Cbor!WriteScalar(call.name)
      [] call.method = "begin_sequence" -> Cbor!BeginSequence(call.size)
      [] call.method = "begin_set" -> Cbor!BeginSet(call.size)
      [] call.method \in {"begin_object", "begin_object_checked", "begin_object_compact",
                          "begin_object_ordered", "begin_object_compact_ordered"} ->
             Cbor!BeginObject(call.size, CborForm(call.method))
      [] call.method = "field" -> Cbor!WriteField(call.name)
      [] call.method = "field_id" -> Cbor!WriteFieldId(call.name, call.id)
      [] call.method = "end_sequence" -> Cbor!EndSequence
      [] call.method = "end_object" -> Cbor!EndObject
      [] call.method = "refused" -> UNCHANGED cborRun

ValueCallMade(call) ==
    CASE call.method = "scalar" -> Value!WriteScalar(call.name)
      [] call.method \in {"begin_sequence", "begin_set"} -> Value!BeginSequence
      [] call.method \in {"begin_object", "begin_object_compact"} -> Value!BeginObject(FALSE)
      [] call.method = "begin_object_checked" -> Value!BeginObject(TRUE)
      [] call.method \in {"field", "field_id"} -> Value!WriteField(call.name)
      [] call.method \in {"end_sequence", "end_object"} -> Value!EndContainer
      [] call.method = "refused" -> UNCHANGED valueRun

Init ==
    /\ document \in Documents
    /\ plainCalls = Calls(document, FALSE)
    /\ canonicalCalls = Calls(document, TRUE)
    /\ made = 0
    /\ outcome = [backend \in Backends |-> "running"]
    /\ Json!Init /\ Dson!Init /\ Cbor!Init /\ Value!Init

(* The next call of a backend whose run is not over: it fails, or the codec  *)
(* itself refuses to go on, or it was the last one and the run returns Ok,  *)
(* or the run goes on.                                                      *)
Outcome(backend, calls, failing) ==
    IF outcome[backend] # "running" THEN outcome[backend]
    ELSE IF failing \/ calls[made + 1].method = "refused" THEN "failed"
    ELSE IF made + 1 = Len(calls) THEN "ok"
    ELSE "running"

Running(backend) == outcome[backend] = "running"

Advance ==
    /\ \E backend \in Backends : Running(backend)
    /\ IF Running("json") THEN JsonCall(plainCalls[made + 1]) ELSE UNCHANGED jsonRun
    /\ IF Running("dson") THEN DsonCall(plainCalls[made + 1]) ELSE UNCHANGED dsonRun
    /\ IF Running("cbor") THEN CborCall(canonicalCalls[made + 1]) ELSE UNCHANGED cborRun
    /\ IF Running("value") THEN ValueCallMade(plainCalls[made + 1]) ELSE UNCHANGED valueRun
    /\ made' = made + 1
    /\ outcome' = [backend \in Backends |->
           CASE backend = "json" -> Outcome(backend, plainCalls, jsonError' # "none")
             [] backend = "dson" -> Outcome(backend, plainCalls, dsonError' # "none")
             [] backend = "cbor" -> Outcome(backend, canonicalCalls, cborError' # "none")
             [] backend = "value" -> Outcome(backend, plainCalls, valueFailed')]
    /\ UNCHANGED <<document, plainCalls, canonicalCalls>>

Next == Advance

Spec == Init /\ [][Next]_peerVars

-----------------------------------------------------------------------------
(* Properties. *)

Over == \A backend \in Backends : ~Running(backend)

(* docs/generated-code.md: "a field-count method that accounts for skips and *)
(* flattened objects".  No run ends because the generated code wrote fewer   *)
(* or more fields than the count it declared.                                *)
CountsHonoured == cborError \notin {"too_many_fields", "length_mismatch"}

=============================================================================
