---------------------------- MODULE ClassDecoder ----------------------------
(***************************************************************************)
(* What decoding makes of a view: deserialize_as of src/serdde/protocol.dd, *)
(* and the methods that @derive(Deserialize) generates for a class          *)
(* (src/serdde/macro_class_direct_decode.dd) and for an enum               *)
(* (macro_enum_direct_decode.dd).                                           *)
(*                                                                         *)
(* A schema is a type.  The fields of a class, or of a variant of an enum,  *)
(* have each a serialized name, its aliases, a compact id, a type, and      *)
(* whether they are flattened, skipped by decoding, or have a default.  The *)
(* result is a value and no error, or an error, the path to it and no value. *)
(*                                                                         *)
(* RECURSIVE operators: for TLC's runs only.                               *)
(***************************************************************************)
EXTENDS Naturals, Sequences, FiniteSets, SequencesExt, ReadView

CONSTANTS
    Null,      (* the scalar null                *)
    Strings    (* the scalars that are strings   *)

ScalarType(accepted) == [is |-> "scalar", accepted |-> accepted]
ListType(item) == [is |-> "list", item |-> item]
SetType(item) == [is |-> "set", item |-> item]
DictType(item) == [is |-> "dict", item |-> item]
OptionType(item) == [is |-> "option", item |-> item]
ArrayType(length, item) == [is |-> "array", length |-> length, item |-> item]
ResultType(ok, err) == [is |-> "result", ok |-> ok, err |-> err]
VariantType(items) == [is |-> "variant", items |-> items]  (* by index *)
ClassType(compact, strict, fields) ==
    [is |-> "class", compact |-> compact, strict |-> strict, fields |-> fields]

(* An enum is tagged externally, internally, adjacently or not at all. *)
EnumType(tagging, strict, variants) ==
    [is |-> "enum", tagging |-> tagging, strict |-> strict, variants |-> variants]
IsUnit(variant) == variant.fields = <<>>

ScalarOf(value) == [is |-> "scalar", value |-> value]
Items(is, values) == [is |-> is, values |-> values]
Absent == [is |-> "default"]
Arm(is, name, value) == [is |-> is, name |-> name, value |-> value]

Decoded(value) == [error |-> "none", path |-> <<>>, value |-> value]
Refused(error, path) == [error |-> error, path |-> path, value |-> Absent]

(* at_field, at_index *)
FieldSegment(name) == [field |-> name]
IndexSegment(index) == [index |-> index]
Under(segment, result) == [result EXCEPT !.path = <<segment>> \o @]
AtField(error, name) == Refused(error, <<FieldSegment(name)>>)

(* validate_class, as far as it is about decoding *)
ValidSchema(class) ==
    LET names(i) == {class.fields[i].name} \union ToSet(class.fields[i].aliases)
    IN  /\ \A i, j \in DOMAIN class.fields : i # j =>
              /\ names(i) \intersect names(j) = {}
              /\ class.compact => class.fields[i].id # class.fields[j].id
        /\ \A i \in DOMAIN class.fields :
              /\ class.fields[i].flatten => ~class.compact /\ ~class.strict /\ class.fields[i].aliases = <<>>
              /\ class.fields[i].skipped => class.fields[i].default

Candidates(field) == <<field.name>> \o field.aliases

(* Mutant of Supplied: has_field for every candidate. *)
SuppliedByName(field, k, view, compact) == HasNamed(view, Candidates(field)[k])

(* Is the k-th candidate there?  The first one of a compact class is also    *)
(* there under its id (has_field_id).                                        *)
Supplied(field, k, view, compact) ==
    IF compact /\ k = 1 THEN CountById(view, field.name, field.id) # 0
    ELSE HasNamed(view, Candidates(field)[k])

SuppliedBy(field, view, compact) ==
    {k \in DOMAIN Candidates(field) : Supplied(field, k, view, compact)}

(* Mutant of LookupError: a second candidate is not noticed. *)
LookupErrorFirstOnly(field, view, compact) ==
    IF SuppliedBy(field, view, compact) = {} /\ ~field.default THEN AtField("missing field", field.name)
    ELSE Decoded(Absent)

(* What is wrong with how a field is supplied: twice under its id and its   *)
(* name, under two candidates, or not at all.                               *)
LookupError(field, view, compact) ==
    LET found == SuppliedBy(field, view, compact)
        second == First(found \ {First(found)})
    IN  IF compact /\ CountById(view, field.name, field.id) > 1
        THEN AtField("duplicate field", field.name)
        ELSE IF Cardinality(found) > 1 THEN AtField("duplicate field", Candidates(field)[second])
        ELSE IF found = {} /\ ~field.default THEN AtField("missing field", field.name)
        ELSE Decoded(Absent)

(* Mutant of UnknownKeys: skipped fields are left out in every class. *)
UnknownKeysUnskipped(class, view) ==
    {i \in DOMAIN view.members :
        \A f \in DOMAIN class.fields :
            LET field == class.fields[f]
            IN  \/ field.skipped
                \/ \A k \in DOMAIN Candidates(field) :
                      ~KeyMatches(view.members[i], Candidates(field)[k], field.id)}

(* The keys that deny_unknown_fields refuses.  A class that is not compact   *)
(* compares the label of each key with the names of all its fields; a       *)
(* compact one asks key_matches, and leaves the skipped fields out.          *)
UnknownKeys(class, view) ==
    {i \in DOMAIN view.members :
        \A f \in DOMAIN class.fields :
            \A k \in DOMAIN Candidates(class.fields[f]) :
                LET field == class.fields[f]
                    name == Candidates(field)[k]
                IN  IF class.compact
                    THEN field.skipped \/ ~KeyMatches(view.members[i], name, field.id)
                    ELSE view.members[i].name.label # name}

RECURSIVE DecodeAs(_, _)

(* Mutant of DecodeField: a flattened field reads the child of its name. *)
DecodeFieldFromChild(field, view, compact) ==
    LET chosen == Candidates(field)[First(SuppliedBy(field, view, compact))]
    IN  IF field.skipped THEN Decoded(Absent)
        ELSE IF LookupError(field, view, compact).error # "none" THEN LookupError(field, view, compact)
        ELSE IF SuppliedBy(field, view, compact) = {} THEN Decoded(Absent)
        ELSE Under(FieldSegment(chosen),
                   DecodeAs(field.type, IF compact THEN ById(view, chosen, field.id) ELSE Named(view, chosen)))

(* One field: skipped, flattened (it decodes the parent's own view), absent *)
(* with a default, or decoded from the member of the candidate supplied.    *)
DecodeField(field, view, compact) ==
    LET chosen == Candidates(field)[First(SuppliedBy(field, view, compact))]
    IN  IF field.skipped THEN Decoded(Absent)
        ELSE IF field.flatten THEN Under(FieldSegment(field.name), DecodeAs(field.type, view))
        ELSE IF LookupError(field, view, compact).error # "none" THEN LookupError(field, view, compact)
        ELSE IF SuppliedBy(field, view, compact) = {} THEN Decoded(Absent)
        ELSE Under(FieldSegment(chosen),
                   DecodeAs(field.type, IF compact THEN ById(view, chosen, field.id) ELSE Named(view, chosen)))

(* What decoding one part after another gives: the first error or all values. *)
AllOf(results) ==
    LET failing == {i \in DOMAIN results : results[i].error # "none"}
    IN  IF failing # {} THEN results[First(failing)]
        ELSE Decoded([i \in DOMAIN results |-> results[i].value])

(* What decoding a part leads to in the whole. *)
Constructed(result, Make(_)) == IF result.error # "none" THEN result ELSE Decoded(Make(result.value))

DecodeFields(class, view) ==
    AllOf([f \in DOMAIN class.fields |-> DecodeField(class.fields[f], view, class.compact)])

(* The unknown keys that are denied, but for those known otherwise. *)
Deny(class, view, known, values) ==
    LET unknown == {i \in UnknownKeys(class, view) : view.members[i].name.label \notin known}
    IN  IF class.strict /\ unknown # {}
        THEN AtField("unknown field", view.members[First(unknown)].name.label)
        ELSE Decoded(values)

(* Mutant of DecodeObject: every object's unknown fields are denied. *)
DecodeObjectStrictly(class, view, known) ==
    LET fields == DecodeFields(class, view)
    IN  IF view.node # "object" THEN Refused("expected object", <<>>)
        ELSE IF fields.error # "none" THEN fields
        ELSE Deny([class EXCEPT !.strict = TRUE], view, {}, fields.value)

(* The fields in their order up to the first error, then the unknown keys. *)
DecodeObject(class, view, known) ==
    LET fields == DecodeFields(class, view)
    IN  IF view.node # "object" THEN Refused("expected object", <<>>)
        ELSE IF fields.error # "none" THEN fields
        ELSE Deny(class, view, known, fields.value)

(* serdde_deserialize of a class *)
DecodeClass(class, view) ==
    Constructed(DecodeObject(class, view, {}), LAMBDA values : Items("class", values))

-----------------------------------------------------------------------------
(* Enums. *)

(* enum_names *)
NamesOf(variant) == ToSet(Candidates(variant))

(* The variants that decoding may choose; one that is skipped is as if it    *)
(* were not declared (active_for_decode).                                   *)
Active(enum) == {v \in DOMAIN enum.variants : ~enum.variants[v].skipped}
Called(enum, label) == {v \in Active(enum) : label \in NamesOf(enum.variants[v])}

IsString(view) == view.node = "scalar" /\ view.value \in Strings

(* The helper of one variant (decode_payload_method).  A unit variant has    *)
(* nothing to decode, and looks at no keys; only one without a tag must be  *)
(* null.                                                                    *)
DecodeVariant(enum, v, view) ==
    LET variant == enum.variants[v]
        known == IF enum.tagging.form = "internal" THEN {enum.tagging.tag} ELSE {}
    IN  IF ~IsUnit(variant)
        THEN Constructed(DecodeObject(ClassType(FALSE, enum.strict, variant.fields), view, known),
                         LAMBDA values : Arm("enum", variant.name, values))
        ELSE IF enum.tagging.form = "untagged" /\ view # Leaf(Null)
        THEN Refused("expected null unit variant", <<>>)
        ELSE Decoded(Arm("enum", variant.name, <<>>))

(* external_decode_body: a string names a unit, the only key any other *)
DecodeExternal(enum, view) ==
    LET named == IsString(view)
        called == {v \in Called(enum, IF named THEN view.value ELSE view.members[1].name.label) :
                      IsUnit(enum.variants[v]) = named}
    IN  IF view.node = "object" /\ Len(view.members) # 1
        THEN Refused("externally tagged enum requires one variant key", <<>>)
        ELSE IF (~named /\ view.node # "object") \/ called = {}
        THEN Refused("unknown externally tagged enum variant", <<>>)
        ELSE DecodeVariant(enum, First(called), IF named THEN view ELSE view.members[1].tree)

(* tagged_decode_body *)
DecodeTagged(enum, view) ==
    LET tag == enum.tagging.tag
        content == enum.tagging.content
        adjacent == enum.tagging.form = "adjacent"
        called == Called(enum, Named(view, tag).value)
        apart == adjacent /\ ~IsUnit(enum.variants[First(called)])
        unknown == {i \in DOMAIN view.members : view.members[i].name.label \notin {tag, content}}
    IN  IF view.node # "object" THEN Refused("expected tagged enum object", <<>>)
        ELSE IF ~HasNamed(view, tag) THEN AtField("missing field", tag)
        ELSE IF ~IsString(Named(view, tag)) THEN Refused("enum tag must be a string", <<>>)
        ELSE IF adjacent /\ enum.strict /\ unknown # {}
        THEN AtField("unknown field", view.members[First(unknown)].name.label)
        ELSE IF called = {} THEN Refused("unknown tagged enum variant", <<>>)
        ELSE IF apart /\ ~HasNamed(view, content) THEN AtField("missing field", content)
        ELSE DecodeVariant(enum, First(called), IF apart THEN Named(view, content) ELSE view)

(* Mutant of Tried: the last variant that decodes. *)
TriedToTheLast(enum, results) ==
    LET decoding == {v \in Active(enum) : results[v].error = "none"}
    IN  IF decoding = {} THEN Refused("value did not match any untagged variant", <<>>)
        ELSE results[CHOOSE v \in decoding : \A w \in decoding : w <= v]

Tried(enum, results) ==
    LET decoding == {v \in Active(enum) : results[v].error = "none"}
    IN  IF decoding = {} THEN Refused("value did not match any untagged variant", <<>>)
        ELSE results[First(decoding)]

(* untagged_decode_body: one variant after the other *)
DecodeUntagged(enum, view) ==
    Tried(enum, [v \in DOMAIN enum.variants |-> DecodeVariant(enum, v, view)])

(* serdde_deserialize of an enum *)
DecodeEnum(enum, view) ==
    CASE enum.tagging.form = "external" -> DecodeExternal(enum, view)
      [] enum.tagging.form \in {"internal", "adjacent"} -> DecodeTagged(enum, view)
      [] enum.tagging.form = "untagged" -> DecodeUntagged(enum, view)

-----------------------------------------------------------------------------
(* Built-in types. *)

(* The values of a sequence or of an object's members, or the first error   *)
(* under its index or key.                                                  *)
DecodeAll(type, children, segments) ==
    AllOf([i \in DOMAIN children |-> Under(segments[i], DecodeAs(type, children[i]))])

DecodeSequence(type, view) ==
    LET all == DecodeAll(type.item, view.items, [i \in DOMAIN view.items |-> IndexSegment(i - 1)])
    IN  IF view.node # "sequence" THEN Refused("expected sequence", <<>>)
        ELSE IF type.is = "array" /\ Len(view.items) # type.length
        THEN Refused("array extent does not match input sequence length", <<>>)
        ELSE IF all.error # "none" THEN all
        ELSE Decoded(Items(type.is, IF type.is = "set" THEN ToSet(all.value) ELSE all.value))

(* dict[str, T]: a label that comes twice keeps its last value *)
DecodeDict(type, view) ==
    LET labels == [i \in DOMAIN view.members |-> view.members[i].name.label]
        all == DecodeAll(type.item, [i \in DOMAIN view.members |-> view.members[i].tree],
                         [i \in DOMAIN labels |-> FieldSegment(labels[i])])
        last(label) == CHOOSE i \in DOMAIN labels :
                           labels[i] = label /\ \A j \in DOMAIN labels : labels[j] = label => j <= i
    IN  IF view.node # "object" THEN Refused("expected object", <<>>)
        ELSE IF all.error # "none" THEN all
        ELSE Decoded(Items("dict", [label \in ToSet(labels) |-> all.value[last(label)]]))

DecodeResult(type, view) ==
    LET only == view.members[1]
        arm == only.name.label
    IN  IF view.node # "object" \/ Len(view.members) # 1 \/ arm \notin {"Ok", "Err"}
        THEN Refused("expected object with exactly one of Ok or Err", <<>>)
        ELSE Constructed(Under(FieldSegment(arm),
                               DecodeAs(IF arm = "Ok" THEN type.ok ELSE type.err, only.tree)),
                         LAMBDA value : Arm("result", arm, value))

(* serdde_decode_variant: the alternatives are found by their index *)
DecodeAlternative(type, index, value) ==
    Constructed(Under(FieldSegment("value"), DecodeAs(type.items[index], value)),
                LAMBDA decoded : Arm("variant", index, decoded))

(* variant[V...]: an index that is no u64 and one that is too large are both *)
(* refused at "index", here with one error.                                 *)
DecodeIndexed(type, view) ==
    LET index == Named(view, "index")
    IN  IF view.node # "object" THEN Refused("expected variant object", <<>>)
        ELSE IF ~HasNamed(view, "index") THEN AtField("missing variant index", "index")
        ELSE IF ~HasNamed(view, "value") THEN AtField("missing variant value", "value")
        ELSE IF index.node # "scalar" \/ index.value \notin DOMAIN type.items
        THEN AtField("variant index is out of range", "index")
        ELSE DecodeAlternative(type, index.value, Named(view, "value"))

(* deserialize_as, whose target says which type is wanted *)
DecodeAs(type, view) ==
    CASE type.is = "scalar" ->
             IF view.node = "scalar" /\ view.value \in type.accepted THEN Decoded(ScalarOf(view.value))
             ELSE Refused("expected scalar", <<>>)
      [] type.is \in {"list", "set", "array"} -> DecodeSequence(type, view)
      [] type.is = "dict" -> DecodeDict(type, view)
      [] type.is = "option" ->
             IF view = Leaf(Null) THEN Decoded(Absent) ELSE DecodeAs(type.item, view)
      [] type.is = "result" -> DecodeResult(type, view)
      [] type.is = "variant" -> DecodeIndexed(type, view)
      [] type.is = "class" -> DecodeClass(type, view)
      [] type.is = "enum" -> DecodeEnum(type, view)

(* deserialize_from *)
DecodeFrom(type, view) == DecodeAs(type, view)

=============================================================================
