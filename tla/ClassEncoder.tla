---------------------------- MODULE ClassEncoder ----------------------------
(***************************************************************************)
(* The calls that encoding a value makes on its writer: serialize_to of    *)
(* src/serdde/protocol.dd, and the methods that @derive(Serialize)          *)
(* generates for a class (src/serdde/macro_class_direct_encode.dd) and for *)
(* an enum (macro_enum_direct_encode.dd).  Encoding stops at the first call *)
(* that fails, so what it does is a prefix of this sequence.               *)
(*                                                                         *)
(* A class value carries its schema: each field has its serialized name,   *)
(* compact id, flatten and skip attributes, and whether its skip_if        *)
(* predicate holds of the value (omitted).  So does an enum value, which    *)
(* is of one variant.                                                      *)
(*                                                                         *)
(* RECURSIVE operators: for TLC's runs only.                               *)
(***************************************************************************)
EXTENDS Naturals, Sequences, FiniteSetsExt, SequencesExt

CONSTANT Text  (* the bytes of each name *)

Scalar(value) == [is |-> "scalar", value |-> value]
ListOf(items) == [is |-> "list", items |-> items]
SetOf(items) == [is |-> "set", items |-> items]
Pair(key, value) == [name |-> key, value |-> value]
DictOf(members) == [is |-> "dict", members |-> members]
Class(compact, fields) == [is |-> "class", compact |-> compact, fields |-> fields]
ArrayOf(items) == [is |-> "array", items |-> items]
OptionOf(items) == [is |-> "option", items |-> items]  (* of none or one *)
ResultOf(arm, value) == [is |-> "result", arm |-> arm, value |-> value]
VariantOf(index, value) == [is |-> "variant", index |-> index, value |-> value]

(* An enum is tagged externally, internally, adjacently or not at all; a     *)
(* variant without fields is a unit variant.                                *)
Tagged(form, tag, content) == [form |-> form, tag |-> tag, content |-> content]
Enum(tagging, name, fields) ==
    [is |-> "enum", tagging |-> tagging, name |-> name, skipped |-> FALSE,
     compact |-> FALSE, fields |-> fields]
IsUnit(variant) == variant.fields = <<>>

(* Calls on a writer. *)
Call(method, size) == [method |-> method, size |-> size, name |-> "none", id |-> 0]
ValueCall(value) == [method |-> "scalar", size |-> 0, name |-> value, id |-> 0]
FieldCall(name) == [method |-> "field", size |-> 0, name |-> name, id |-> 0]
FieldIdCall(name, id) == [method |-> "field_id", size |-> 0, name |-> name, id |-> id]

(* validate_class: names are distinct, compact classes flatten nothing and *)
(* give distinct ids to their fields                                       *)
ValidClass(class) ==
    /\ \A i, j \in DOMAIN class.fields :
          i # j => /\ class.fields[i].name # class.fields[j].name
                   /\ class.compact => class.fields[i].id # class.fields[j].id
    /\ class.compact => \A i \in DOMAIN class.fields : ~class.fields[i].flatten

(* validate_enum: the same of a variant's fields, none of which has the name *)
(* of an internal tag                                                       *)
ValidVariant(variant) ==
    /\ ValidClass(variant)
    /\ variant.tagging.form = "internal" =>
           \A i \in DOMAIN variant.fields : variant.fields[i].name # variant.tagging.tag

(* has_flattened_field *)
HasFlattened(class) ==
    \E i \in DOMAIN class.fields : ~class.fields[i].skipped /\ class.fields[i].flatten

RECURSIVE FieldCount(_)

(* Mutant of FieldCount: skip_if predicates are not asked. *)
FieldCountUnskipped(class) ==
    LET encoded == {i \in DOMAIN class.fields : ~class.fields[i].skipped}
        flattened == {i \in encoded : class.fields[i].flatten}
    IN  Cardinality(encoded \ flattened)
        + MapThenSumSet(LAMBDA i : FieldCount(class.fields[i].value), flattened)

(* serdde_field_count, as field_count_method generates it: a flattened field *)
(* adds the inner object's count and is not asked for its skip_if predicate. *)
FieldCount(class) ==
    LET encoded == {i \in DOMAIN class.fields : ~class.fields[i].skipped}
        flattened == {i \in encoded : class.fields[i].flatten}
        fixed == encoded \ flattened
        skippedNow == {i \in fixed : class.fields[i].omitted}
    IN  (Cardinality(fixed)
         + MapThenSumSet(LAMBDA i : FieldCount(class.fields[i].value), flattened))
        - Cardinality(skippedNow)

(* Mutant of CanonicalBefore: names in plain dictionary order. *)
CanonicalBeforeByBytes(left, right, compact) ==
    IF compact THEN left.id < right.id
    ELSE \E i \in DOMAIN Text[left.name] \intersect DOMAIN Text[right.name] :
            /\ Text[left.name][i] < Text[right.name][i]
            /\ \A j \in 1 .. i - 1 : Text[left.name][j] = Text[right.name][j]

(* canonical_before *)
CanonicalBefore(left, right, compact) ==
    IF compact THEN left.id < right.id
    ELSE \/ Len(Text[left.name]) < Len(Text[right.name])
         \/ /\ Len(Text[left.name]) = Len(Text[right.name])
            /\ \E i \in DOMAIN Text[left.name] :
                  /\ Text[left.name][i] < Text[right.name][i]
                  /\ \A j \in 1 .. i - 1 : Text[left.name][j] = Text[right.name][j]

(* One round of the insertion sort: the field moves left while it comes     *)
(* before its neighbour.                                                    *)
Inserted(sorted, field, compact) ==
    LET stays == {k \in DOMAIN sorted : ~CanonicalBefore(field, sorted[k], compact)}
        place == IF stays = {} THEN 1 ELSE Max(stays) + 1
    IN  InsertAt(sorted, place, field)

OrderedFields(class, canonical) ==
    IF canonical
    THEN FoldLeft(LAMBDA sorted, field : Inserted(sorted, field, class.compact), <<>>, class.fields)
    ELSE class.fields

RECURSIVE Calls(_, _), FieldsCalls(_, _, _)

(* encode_one_field: a flattened field runs the inner object's                *)
(* serdde_serialize_fields on the same writer, in declaration order.          *)
OneFieldCalls(field, compact, canonicalOutput) ==
    IF field.flatten THEN FieldsCalls(field.value, FALSE, canonicalOutput)
    ELSE <<IF compact THEN FieldIdCall(field.name, field.id) ELSE FieldCall(field.name)>>
         \o Calls(field.value, canonicalOutput)

(* serdde_serialize_fields, serdde_serialize_fields_canonical *)
FieldsCalls(class, canonical, canonicalOutput) ==
    FoldLeft(LAMBDA calls, field :
                 IF field.skipped \/ field.omitted THEN calls
                 ELSE calls \o OneFieldCalls(field, class.compact, canonicalOutput),
             <<>>, OrderedFields(class, canonical))

(* Mutant of BeginMethod: a class that flattens opens a plain object. *)
BeginMethodUnchecked(class, canonicalOutput) ==
    IF canonicalOutput /\ ~HasFlattened(class)
    THEN IF class.compact THEN "begin_object_compact_ordered" ELSE "begin_object_ordered"
    ELSE IF class.compact THEN "begin_object_compact" ELSE "begin_object"

(* encode_method: which begin call, and in which order the fields go *)
BeginMethod(class, canonicalOutput) ==
    IF HasFlattened(class) THEN "begin_object_checked"
    ELSE IF canonicalOutput
    THEN IF class.compact THEN "begin_object_compact_ordered" ELSE "begin_object_ordered"
    ELSE IF class.compact THEN "begin_object_compact" ELSE "begin_object"

(* Payload objects are never checked for repeated names. *)
ObjectCall(size, ordered) ==
    Call(IF ordered THEN "begin_object_ordered" ELSE "begin_object", size)
EndObjectCall == Call("end_object", 0)

PayloadOrdered(variant, canonicalOutput) == canonicalOutput /\ ~HasFlattened(variant)

(* write_payload_object *)
PayloadCalls(variant, canonicalOutput) ==
    LET ordered == PayloadOrdered(variant, canonicalOutput)
    IN  <<ObjectCall(FieldCount(variant), ordered)>>
        \o FieldsCalls(variant, ordered, canonicalOutput) \o <<EndObjectCall>>

(* The tag as a field of the enum's object, and its calls                   *)
(* (write_field_and_string).                                                *)
TagField(variant) ==
    [name |-> variant.tagging.tag, id |-> 0, value |-> Scalar(variant.name),
     flatten |-> FALSE, skipped |-> FALSE, omitted |-> FALSE]
TagCalls(variant) == <<FieldCall(variant.tagging.tag), ValueCall(variant.name)>>

(* external_body *)
ExternalCalls(variant, canonicalOutput) ==
    IF IsUnit(variant) THEN <<ValueCall(variant.name)>>
    ELSE <<ObjectCall(1, canonicalOutput), FieldCall(variant.name)>>
         \o PayloadCalls(variant, canonicalOutput) \o <<EndObjectCall>>

(* internal_body: the tag goes first, or in canonical order before the first *)
(* encoded field that it comes before                                       *)
InternalCalls(variant, canonicalOutput) ==
    LET ordered == PayloadOrdered(variant, canonicalOutput)
        fields == OrderedFields(variant, ordered)
        after == {k \in DOMAIN fields : ~fields[k].skipped
                                        /\ CanonicalBefore(TagField(variant), fields[k], FALSE)}
        place == IF ~ordered THEN 1 ELSE IF after = {} THEN Len(fields) + 1 ELSE Min(after)
    IN  <<ObjectCall(FieldCount(variant) + 1, ordered)>>
        \o FieldsCalls([variant EXCEPT !.fields = InsertAt(fields, place, TagField(variant))],
                       FALSE, canonicalOutput)
        \o <<EndObjectCall>>

(* adjacent_body *)
AdjacentCalls(variant, canonicalOutput) ==
    LET contentName == variant.tagging.content
        content == IF IsUnit(variant) THEN <<>>
                   ELSE <<FieldCall(contentName)>> \o PayloadCalls(variant, canonicalOutput)
        contentFirst == /\ canonicalOutput
                        /\ CanonicalBefore([name |-> contentName], TagField(variant), FALSE)
    IN  <<ObjectCall(IF IsUnit(variant) THEN 1 ELSE 2, canonicalOutput)>>
        \o (IF contentFirst THEN content \o TagCalls(variant) ELSE TagCalls(variant) \o content)
        \o <<EndObjectCall>>

(* untagged_body *)
UntaggedCalls(variant, canonicalOutput) ==
    IF IsUnit(variant) THEN <<ValueCall("null")>> ELSE PayloadCalls(variant, canonicalOutput)

(* serdde_serialize of an enum; a variant that is skipped is an error *)
EnumCalls(variant, canonicalOutput) ==
    IF variant.skipped THEN <<Call("refused", 0)>>
    ELSE CASE variant.tagging.form = "external" -> ExternalCalls(variant, canonicalOutput)
           [] variant.tagging.form = "internal" -> InternalCalls(variant, canonicalOutput)
           [] variant.tagging.form = "adjacent" -> AdjacentCalls(variant, canonicalOutput)
           [] variant.tagging.form = "untagged" -> UntaggedCalls(variant, canonicalOutput)

(* serialize_to on a writer whose canonical_object_order() is given *)
Calls(value, canonicalOutput) ==
    LET ItemCalls(items) ==
            FoldLeft(LAMBDA calls, item : calls \o Calls(item, canonicalOutput), <<>>, items)
        Object(members) ==
            <<Call("begin_object", Len(members))>>
            \o FoldLeft(LAMBDA calls, member :
                            calls \o <<FieldCall(member.name)>> \o Calls(member.value, canonicalOutput),
                        <<>>, members)
            \o <<EndObjectCall>>
    IN  CASE value.is = "scalar" -> <<ValueCall(value.value)>>
          [] value.is \in {"list", "array"} ->
                 <<Call("begin_sequence", Len(value.items))>>
                 \o ItemCalls(value.items) \o <<Call("end_sequence", 0)>>
          [] value.is = "set" ->
                 <<Call("begin_set", Len(value.items))>>
                 \o ItemCalls(value.items) \o <<Call("end_sequence", 0)>>
          [] value.is = "dict" -> Object(value.members)
          [] value.is = "option" ->
                 IF value.items = <<>> THEN <<ValueCall("null")>> ELSE ItemCalls(value.items)
          [] value.is = "result" -> Object(<<Pair(value.arm, value.value)>>)
          [] value.is = "variant" ->
                 Object(<<Pair("index", Scalar(value.index)), Pair("value", value.value)>>)
          [] value.is = "class" ->
                 <<Call(BeginMethod(value, canonicalOutput), FieldCount(value))>>
                 \o FieldsCalls(value, canonicalOutput /\ ~HasFlattened(value), canonicalOutput)
                 \o <<EndObjectCall>>
          [] value.is = "enum" -> EnumCalls(value, canonicalOutput)

=============================================================================
