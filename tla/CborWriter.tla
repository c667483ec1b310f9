----------------------------- MODULE CborWriter -----------------------------
(***************************************************************************)
(* serdde_wire::CborWriter (src/serdde/cbor_wire_writer.hpp).  Sets and     *)
(* plain objects are buffered, entry by entry, and written in canonical    *)
(* order when they close; what is written inside them goes to the value of *)
(* their last entry (active_output).  Sequences and ordered objects go     *)
(* straight to the enclosing buffer, or to the document.                   *)
(*                                                                         *)
(* Names and scalars stand for their bytes: Text gives a name's bytes,     *)
(* Encoding a scalar's item.                                               *)
(***************************************************************************)
EXTENDS Naturals, Sequences, FiniteSets, CborItems

CONSTANTS
    Names,        (* member names a codec writes                            *)
    Text,         (* the bytes of each name                                 *)
    Scalars,      (* scalar values a codec writes                           *)
    Encoding,     (* the bytes of each scalar's CBOR item                   *)
    Unencodable,  (* the scalars this format cannot spell                   *)
    Ids,          (* compact field ids                                      *)
    Sizes,        (* item counts a codec declares                           *)
    ObjectForms,  (* which objects it opens: [ordered, compact]             *)
    MaxDepth      (* bound: containers a codec opens inside one another     *)

ASSUME CborBounds ==
    /\ Text \in [Names -> Seq(Byte)]
    /\ Encoding \in [Scalars -> Seq(Byte)]
    /\ Ids \subseteq Nat
    /\ Sizes \subseteq Nat
    /\ ObjectForms \subseteq [ordered : BOOLEAN, compact : BOOLEAN]
    /\ MaxDepth \in Nat

(* Encoding gives whole items, as write_null .. write_f64 spell them, and   *)
(* every size, id and length is a number of eight bytes (size_t, uint64_t). *)
ASSUME CborItemsWhole ==
    /\ \A value \in Scalars \ Unencodable : WellFormed(Encoding[value])
    /\ \A size \in Sizes : Fits(size, 8)
    /\ \A id \in Ids : Fits(id, 8)
    /\ \A name \in Names : Fits(Len(Text[name]), 8)

VARIABLES
    frames,     (* frames_: the open containers, outermost first *)
    output,     (* *output_: the bytes of the document so far    *)
    wroteRoot,  (* wrote_root_                                   *)
    error       (* error_: the kind of the last message          *)

cborVars == <<frames, output, wroteRoot, error>>

SequenceKinds == {"sequence", "buffered_sequence"}
ObjectKinds == {"ordered_object", "buffered_object"}

Entry(key, value) == [key |-> key, value |-> value]

Frame(kind, size, compact) ==
    [kind |-> kind, expected |-> size, written |-> 0, compact |-> compact,
     expecting |-> FALSE, entries |-> <<>>]

Updated(frame, written, entries, expecting) ==
    [kind |-> frame.kind, expected |-> frame.expected, written |-> written,
     compact |-> frame.compact, expecting |-> expecting, entries |-> entries]

Top == frames[Len(frames)]

Init ==
    /\ frames = <<>>
    /\ output = <<>>
    /\ wroteRoot = FALSE
    /\ error = "none"

(* Mutant of Fail: the call fails and leaves no message. *)
FailSilent(message) == error' = "" /\ UNCHANGED <<frames, output, wroteRoot>>

Fail(message) ==
    /\ error' = message
    /\ UNCHANGED <<frames, output, wroteRoot>>

(* active_output: the innermost frame that has an entry to fill, if any. *)
Collects(frame) ==
    /\ frame.entries # <<>>
    /\ \/ frame.kind = "buffered_sequence"
       \/ frame.kind = "buffered_object" /\ ~frame.expecting

Collectors(open) == {i \in DOMAIN open : Collects(open[i])}

(* Mutants of Active: the outermost frame that collects takes the bytes; *)
(* only the innermost frame is asked.                                    *)
ActiveOutermost(open) ==
    IF Collectors(open) = {} THEN 0
    ELSE CHOOSE i \in Collectors(open) : \A j \in Collectors(open) : i <= j

ActiveInnermostOnly(open) == IF Len(open) \in Collectors(open) THEN Len(open) ELSE 0

Active(open) ==
    IF Collectors(open) = {} THEN 0
    ELSE CHOOSE i \in Collectors(open) : \A j \in Collectors(open) : j <= i

Filled(entries, bytes) ==
    [i \in DOMAIN entries |->
        IF i = Len(entries) THEN Entry(entries[i].key, entries[i].value \o bytes) ELSE entries[i]]

Fill(frame, bytes) == [frame EXCEPT !.entries = Filled(frame.entries, bytes)]

(* active_output() += bytes, with the frames `open`: either a frame changes *)
(* or the document does.                                                    *)
FramesPlus(open, bytes) ==
    [i \in DOMAIN open |-> IF i = Active(open) THEN Fill(open[i], bytes) ELSE open[i]]

OutputPlus(open, bytes) == IF Active(open) = 0 THEN output \o bytes ELSE output

(* before_value: what it refuses, the frames it leaves. *)
ValueError ==
    IF frames = <<>> THEN IF wroteRoot THEN "multiple_roots" ELSE "none"
    ELSE IF Top.kind \in SequenceKinds
         THEN IF Top.written >= Top.expected THEN "too_many_elements" ELSE "none"
    ELSE IF ~Top.expecting THEN "no_field_name" ELSE "none"

(* Mutant of Given: an item of a set goes on filling the item before it. *)
GivenSharedEntry(frame) ==
    Updated(frame,
            IF frame.kind \in SequenceKinds THEN frame.written + 1 ELSE frame.written,
            IF frame.kind = "buffered_sequence" /\ frame.entries = <<>>
            THEN <<Entry(<<>>, <<>>)>> ELSE frame.entries,
            FALSE)

Given(frame) ==
    Updated(frame,
            IF frame.kind \in SequenceKinds THEN frame.written + 1 ELSE frame.written,
            IF frame.kind = "buffered_sequence"
            THEN Append(frame.entries, Entry(<<>>, <<>>)) ELSE frame.entries,
            FALSE)

FramesAfterValue ==
    IF frames = <<>> THEN <<>> ELSE [frames EXCEPT ![Len(frames)] = Given(Top)]

(* A value that begins with `bytes` and opens the frames `opened` (0 or 1). *)
StartValue(bytes, opened) ==
    /\ ValueError = "none"
    /\ frames' = FramesPlus(FramesAfterValue, bytes) \o opened
    /\ output' = OutputPlus(FramesAfterValue, bytes)
    /\ wroteRoot' = (wroteRoot \/ frames = <<>>)
    /\ UNCHANGED error

RefuseValue == ValueError # "none" /\ Fail(ValueError)

(* write_null, write_bool, write_i64, write_u64, write_f64, write_string *)
WriteScalar(value) ==
    \/ value \in Unencodable /\ Fail("unencodable")
    \/ /\ value \notin Unencodable
       /\ RefuseValue \/ StartValue(Encoding[value], <<>>)

(* begin_sequence: the head goes out before the frame is pushed *)
BeginSequence(size) ==
    \/ RefuseValue
    \/ /\ Len(frames) < MaxDepth
       /\ StartValue(ItemHead(4, size), <<Frame("sequence", size, FALSE)>>)

(* begin_set *)
BeginSet(size) ==
    \/ RefuseValue
    \/ /\ Len(frames) < MaxDepth
       /\ StartValue(<<>>, <<Frame("buffered_sequence", size, FALSE)>>)

(* begin_object, begin_object_checked, begin_object_compact: buffered; *)
(* begin_object_ordered, begin_object_compact_ordered: straight out    *)
BeginObject(size, form) ==
    \/ RefuseValue
    \/ /\ Len(frames) < MaxDepth
       /\ IF form.ordered
          THEN StartValue(ItemHead(5, size), <<Frame("ordered_object", size, form.compact)>>)
          ELSE StartValue(<<>>, <<Frame("buffered_object", size, form.compact)>>)

(* Mutant of KeyError: fields are not counted against the declared size. *)
KeyErrorUncounted ==
    IF frames = <<>> THEN "outside_object"
    ELSE IF Top.kind \in SequenceKinds THEN "outside_object"
    ELSE IF Top.expecting THEN "missing_value"
    ELSE "none"

KeyError ==
    IF frames = <<>> THEN "outside_object"
    ELSE IF Top.kind \in SequenceKinds THEN "outside_object"
    ELSE IF Top.expecting THEN "missing_value"
    ELSE IF Top.written >= Top.expected THEN "too_many_fields"
    ELSE "none"

Keyed(frame, key) ==
    Updated(frame,
            frame.written + 1,
            IF frame.kind = "buffered_object"
            THEN Append(frame.entries, Entry(key, <<>>)) ELSE frame.entries,
            TRUE)

(* write_key: an ordered object's key goes straight out *)
WriteKey(key) ==
    \/ KeyError # "none" /\ Fail(KeyError)
    \/ /\ KeyError = "none"
       /\ LET bytes == IF Top.kind = "ordered_object" THEN key ELSE <<>>
          IN  /\ frames' = FramesPlus([frames EXCEPT ![Len(frames)] = Keyed(Top, key)], bytes)
              /\ output' = OutputPlus([frames EXCEPT ![Len(frames)] = Keyed(Top, key)], bytes)
       /\ UNCHANGED <<wroteRoot, error>>

WriteField(name) == WriteKey(TextItem(Text[name]))

(* write_field_id: the id is the key of a compact object only *)
WriteFieldId(name, id) ==
    WriteKey(IF frames # <<>> /\ Top.compact THEN ItemHead(0, id) ELSE TextItem(Text[name]))

(* Mutant of InOrder: the entries stay as they were written, so that keys  *)
(* are compared with those written before and after them only.             *)
InOrderUnsorted(entries, part) == entries

(* The entries in canonical order of their keys or of their values. *)
InOrder(entries, part) ==
    LET Ahead(i) == {j \in DOMAIN entries :
                        \/ Before(entries[j][part], entries[i][part])
                        \/ entries[j][part] = entries[i][part] /\ j < i}
    IN  [k \in DOMAIN entries |->
            entries[CHOOSE i \in DOMAIN entries : Cardinality(Ahead(i)) = k - 1]]

Contents(entries) ==
    LET upTo[n \in 0 .. Len(entries)] ==
            IF n = 0 THEN <<>> ELSE upTo[n - 1] \o entries[n].key \o entries[n].value
    IN  upTo[Len(entries)]

Outer == SubSeq(frames, 1, Len(frames) - 1)

(* The innermost frame goes, and `bytes` take its place in what encloses it. *)
Replace(bytes) ==
    /\ frames' = FramesPlus(Outer, bytes)
    /\ output' = OutputPlus(Outer, bytes)
    /\ UNCHANGED <<wroteRoot, error>>

EndSequenceError ==
    IF frames = <<>> THEN "close_mismatch"
    ELSE IF Top.kind \notin SequenceKinds THEN "close_mismatch"
    ELSE IF Top.written # Top.expected THEN "length_mismatch"
    ELSE "none"

EndSequence ==
    \/ EndSequenceError # "none" /\ Fail(EndSequenceError)
    \/ /\ EndSequenceError = "none"
       /\ Replace(IF Top.kind = "buffered_sequence"
                  THEN ItemHead(4, Len(Top.entries)) \o Contents(InOrder(Top.entries, "value"))
                  ELSE <<>>)

(* Mutant of EndObjectError: a name may be left without its value. *)
EndObjectErrorAwaiting ==
    IF frames = <<>> THEN "close_mismatch"
    ELSE IF Top.kind \in SequenceKinds THEN "close_mismatch"
    ELSE IF Top.written # Top.expected THEN "length_mismatch"
    ELSE "none"

EndObjectError ==
    IF frames = <<>> THEN "close_mismatch"
    ELSE IF Top.kind \in SequenceKinds THEN "close_mismatch"
    ELSE IF Top.expecting THEN "missing_value"
    ELSE IF Top.written # Top.expected THEN "length_mismatch"
    ELSE "none"

(* Two neighbours of the sorted entries have the same key. *)
KeysRepeat(entries) ==
    \E i \in 2 .. Len(entries) :
        InOrder(entries, "key")[i - 1].key = InOrder(entries, "key")[i].key

(* A repeated key is noticed after the frame has gone. *)
EndObject ==
    \/ EndObjectError # "none" /\ Fail(EndObjectError)
    \/ /\ EndObjectError = "none"
       /\ IF Top.kind = "buffered_object" /\ KeysRepeat(Top.entries)
          THEN /\ frames' = Outer
               /\ error' = "duplicate_key"
               /\ UNCHANGED <<output, wroteRoot>>
          ELSE Replace(IF Top.kind = "buffered_object"
                       THEN ItemHead(5, Len(Top.entries)) \o Contents(InOrder(Top.entries, "key"))
                       ELSE <<>>)

Next ==
    \/ \E value \in Scalars : WriteScalar(value)
    \/ \E size \in Sizes : BeginSequence(size)
    \/ \E size \in Sizes : BeginSet(size)
    \/ \E size \in Sizes, form \in ObjectForms : BeginObject(size, form)
    \/ \E name \in Names : WriteField(name)
    \/ \E name \in Names, id \in Ids : WriteFieldId(name, id)
    \/ EndSequence
    \/ EndObject

Spec == Init /\ [][Next]_cborVars

-----------------------------------------------------------------------------
(* Properties. *)

FrameType ==
    [kind : SequenceKinds \union ObjectKinds, expected : Nat, written : Nat,
     compact : BOOLEAN, expecting : BOOLEAN,
     entries : Seq([key : Seq(Byte), value : Seq(Byte)])]

Message ==
    {"none", "unencodable", "multiple_roots", "too_many_elements", "no_field_name",
     "outside_object", "missing_value", "too_many_fields", "close_mismatch",
     "length_mismatch", "duplicate_key"}

(* The variables of CborWriter keep the shapes its declarations give them. *)
TypeOK ==
    /\ frames \in Seq(FrameType)
    /\ output \in Seq(Byte)
    /\ wroteRoot \in BOOLEAN
    /\ error \in Message

Buffered(frame) == frame.kind \in {"buffered_sequence", "buffered_object"}

(* The bookkeeping end_sequence and end_object rely on: a buffered container *)
(* holds one entry for each item counted, none counts more than it declared; *)
(* and a container that encloses another has its current entry open to       *)
(* receive it, so that active_output cannot route an inner container's bytes *)
(* past its own parent.                                                      *)
CountsKept ==
    \A i \in DOMAIN frames :
        /\ frames[i].written <= frames[i].expected
        /\ Buffered(frames[i]) => Len(frames[i].entries) = frames[i].written
        /\ i < Len(frames) => frames[i].written > 0 /\ ~frames[i].expecting

(* end_object sorts the entries of a plain object and compares neighbours   *)
(* only: it would find every key written twice, whatever was written       *)
(* between the two, and only such keys.                                     *)
RepeatsNoticed ==
    \A i \in DOMAIN frames : frames[i].kind = "buffered_object" =>
        LET entries == frames[i].entries
        IN  KeysRepeat(entries) <=>
                \E j, k \in DOMAIN entries : j # k /\ entries[j].key = entries[k].key

Finished == wroteRoot /\ frames = <<>>

(* When no call has failed, a finished document is one well-formed item:    *)
(* every byte written inside a set or a plain object, at any depth, has     *)
(* come out again at its place, and every head counts what follows it.      *)
(* While a buffered container is open, each of its entries but the one being *)
(* filled is already a whole item, and a key is a whole item: nothing of one *)
(* entry leaks into its neighbour.                                           *)
EntriesWhole ==
    error = "none" =>
        /\ Finished => WellFormed(output)
        /\ \A i \in DOMAIN frames : \A k \in DOMAIN frames[i].entries :
              LET entry == frames[i].entries[k]
                  pending == k = Len(frames[i].entries) /\ (i < Len(frames) \/ frames[i].expecting)
              IN  /\ frames[i].kind = "buffered_object" => WellFormed(entry.key)
                  /\ ~pending => WellFormed(entry.value)
                  /\ frames[i].expecting /\ k = Len(frames[i].entries) => entry.value = <<>>

(* The open containers and awaited values a codec sees through CborWriter. *)
Shown(frame) ==
    [kind |-> IF frame.kind \in SequenceKinds THEN "sequence" ELSE "object",
     awaiting |-> frame.expecting]

OpenContainers == [i \in DOMAIN frames |-> Shown(frames[i])]

Contract == INSTANCE WireContract WITH open <- OpenContainers, rooted <- wroteRoot

(* CborWriter keeps the contract of a wire writer, the call that finds a    *)
(* repeated key included: it fails, but it has closed the object.           *)
ImplementsContract == Contract!Spec

=============================================================================
