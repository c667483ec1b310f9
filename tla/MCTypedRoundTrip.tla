-------------------------- MODULE MCTypedRoundTrip --------------------------
(* PeerBackends, each document then decoded by the type that encoded it,    *)
(* through the typed reader of its format.                                  *)
EXTENDS MCPeerBackends

Decoder == INSTANCE ClassDecoder WITH Null <- "null", Strings <- {"V", "W"}

JsonTyped == INSTANCE JsonReader WITH NestingLimit <- 128
DsonTyped == INSTANCE DsonReader WITH NestingLimit <- 128
CborTyped == INSTANCE CborReader WITH NestingLimit <- 128, NotText <- {Text[name] : name \in NotText}

-----------------------------------------------------------------------------
(* The view each typed reader has of what its backend wrote. *)

RECURSIVE Keyed(_), Spelled(_)

(* ValueReader: the Value itself *)
Keyed(tree) ==
    CASE tree.node = "scalar" -> tree
      [] tree.node = "sequence" -> SequenceOf([i \in DOMAIN tree.items |-> Keyed(tree.items[i])])
      [] tree.node = "object" ->
             ObjectOf([i \in DOMAIN tree.members |->
                 Member(Decoder!TextKey(tree.members[i].name), Keyed(tree.members[i].tree))])

(* The names and scalars whose bytes a CBOR view has. *)
Spelled(view) ==
    CASE view.node = "scalar" -> Leaf(CHOOSE value \in Scalars : Encoding[value] = view.value)
      [] view.node = "sequence" -> SequenceOf([i \in DOMAIN view.items |-> Spelled(view.items[i])])
      [] view.node = "object" ->
             ObjectOf([i \in DOMAIN view.members |->
                 LET key == view.members[i].name
                 IN  Member(IF key.numbered THEN key
                            ELSE Decoder!TextKey(CHOOSE name \in Names : Text[name] = key.label),
                            Spelled(view.members[i].tree))])

ViewOf(backend) ==
    CASE backend = "json" -> JsonTyped!Root(jsonText).view
      [] backend = "dson" -> DsonTyped!View(dsonText, DsonTyped!Root(dsonText))
      [] backend = "cbor" ->
             Spelled(CborTyped!View(cborBytes, CborTyped!Document(cborBytes).index,
                                    CborTyped!NodeAt(cborBytes, 1)))
      [] backend = "value" -> Keyed(valueRoot)

Valid(backend) ==
    CASE backend = "json" -> JsonTyped!Root(jsonText).error = "none"
      [] backend = "dson" -> DsonTyped!Root(dsonText).error = "none"
      [] backend = "cbor" -> CborTyped!Document(cborBytes).error = "none"
      [] backend = "value" -> TRUE

-----------------------------------------------------------------------------
(* The type as a schema.  What encoding leaves out has a default.  An enum   *)
(* has other variants around the one it is of, a unit, one that needs a      *)
(* field no document has, and one that needs none; an untagged enum would    *)
(* take the first or the last for itself if it came earlier.                *)

RECURSIVE TypeOf(_, _), Expected(_)

TypeOf(value, strict) ==
    LET other == Decoder!ScalarType({})
        FieldType(field) ==
            [name |-> field.name, aliases |-> <<>>, id |-> field.id,
             type |-> TypeOf(field.value, strict), flatten |-> field.flatten,
             skipped |-> FALSE, default |-> field.skipped \/ field.omitted]
        Fields == [f \in DOMAIN value.fields |-> FieldType(value.fields[f])]
        Named(name, fields) == [name |-> name, aliases |-> <<>>, skipped |-> FALSE, fields |-> fields]
        unknown == FieldType(Field("zz", 0, Scalar("1")))
        unit == <<Named("Unit", <<>>)>>
        lenient == <<Named("Lenient", <<[unknown EXCEPT !.default = TRUE]>>)>>
        untagged == value.tagging.form = "untagged"
    IN  CASE value.is = "scalar" -> Decoder!ScalarType(Scalars)
          [] value.is = "set" -> Decoder!SetType(Decoder!ScalarType(Scalars))
          [] value.is = "list" -> Decoder!ListType(TypeOf(value.items[1], strict))
          [] value.is = "array" ->
                 Decoder!ArrayType(Len(value.items),
                     IF value.items = <<>> THEN other ELSE TypeOf(value.items[1], strict))
          [] value.is = "dict" -> Decoder!DictType(Decoder!ScalarType(Scalars))
          [] value.is = "option" ->
                 Decoder!OptionType(IF value.items = <<>> THEN other ELSE TypeOf(value.items[1], strict))
          [] value.is = "result" ->
                 IF value.arm = "Ok" THEN Decoder!ResultType(TypeOf(value.value, strict), other)
                 ELSE Decoder!ResultType(other, TypeOf(value.value, strict))
          [] value.is = "variant" ->
                 Decoder!VariantType([index \in {"0", "1"} |->
                     IF index = value.index THEN TypeOf(value.value, strict) ELSE other])
          [] value.is = "class" ->
                 Decoder!ClassType(value.compact, strict /\ ~HasFlattened(value), Fields)
          [] value.is = "enum" ->
                 Decoder!EnumType(value.tagging, strict,
                     (IF untagged THEN <<>> ELSE unit \o lenient)
                     \o <<Named("Demanding", <<unknown>>), Named(value.name, Fields)>>
                     \o (IF untagged /\ ~IsUnit(value) THEN unit ELSE <<>>) \o
                     (IF untagged THEN lenient ELSE <<>>))

(* The value that decoding should give back.  An option that holds what is   *)
(* written as null comes back as one that holds nothing.                    *)
Expected(value) ==
    LET ExpectedItems(items) == [i \in DOMAIN items |-> Expected(items[i])]
        ExpectedFields ==
            [f \in DOMAIN value.fields |->
                IF value.fields[f].skipped \/ value.fields[f].omitted THEN Decoder!Absent
                ELSE Expected(value.fields[f].value)]
    IN  CASE value.is = "scalar" -> Decoder!ScalarOf(value.value)
          [] value.is = "set" -> Decoder!Items("set", {Expected(value.items[i]) : i \in DOMAIN value.items})
          [] value.is \in {"list", "array"} -> Decoder!Items(value.is, ExpectedItems(value.items))
          [] value.is = "dict" ->
                 Decoder!Items("dict",
                     [name \in {value.members[i].name : i \in DOMAIN value.members} |->
                         Expected(value.members[CHOOSE i \in DOMAIN value.members :
                                                    value.members[i].name = name].value)])
          [] value.is = "option" ->
                 IF Plain(value) = Scalar("null") THEN Decoder!Absent ELSE Expected(value.items[1])
          [] value.is = "result" -> Decoder!Arm("result", value.arm, Expected(value.value))
          [] value.is = "variant" -> Decoder!Arm("variant", value.index, Expected(value.value))
          [] value.is = "class" -> Decoder!Items("class", ExpectedFields)
          [] value.is = "enum" -> Decoder!Arm("enum", value.name, ExpectedFields)

(* The documents whose lists have items of one type. *)
Collected ==
    With({SetOf(<<Scalar("null"), Scalar("24"), Scalar("1")>>), DictOf(<<>>),
          DictOf(<<Pair("aa", Scalar("24")), Pair("b", Scalar("1"))>>)}
         \union {ListOf(<<class, class>>) : class \in Leaves})

RECURSIVE SchemaNames(_)

(* The names under which decoding a class looks for members of one view,    *)
(* with those of fields that encoding left out: where two are the same, the *)
(* view of one object cannot tell which of the fields supplied the member.  *)
SchemaNames(class) ==
    FlattenSeq([f \in DOMAIN class.fields |->
        IF class.fields[f].flatten THEN SchemaNames(class.fields[f].value)
        ELSE <<class.fields[f].name>>])

TypedDocuments ==
    {class \in Legal(Collected \union Leaves \union Flattening \union Nesting \union Twice) :
        IsInjective(SchemaNames(class))}
    \union Enumerated
    \union {enum \in Enums(Merging) : enum.tagging.tag \notin ToSet(SchemaNames(enum))
                                     /\ IsInjective(SchemaNames(enum))}

(* Those in which nothing is flattened. *)
FlatDocuments == Legal(Collected \union Leaves \union Nesting) \union Enumerated

AllDocuments == MCDocuments \union TypedDocuments

(* A class that flattens one field and has another of its own. *)
FlatteningOne ==
    Legal(Holding({Flattened(Field("inner", 0, Class(FALSE, <<Field("aa", 0, Scalar("1"))>>)))}, FALSE)
          \union Leaves)

-----------------------------------------------------------------------------
(* Properties. *)

GivenBack(strict) ==
    \A backend \in Backends :
        outcome[backend] = "ok" =>
            /\ Valid(backend)
            /\ Decoder!DecodeFrom(TypeOf(document, strict), ViewOf(backend))
                   = Decoder!Decoded(Expected(document))

(* What a class or an enum wrote it reads back, whichever of the four         *)
(* backends is used: every field that was written has the value it had, every *)
(* other one its default, whatever was flattened, skipped, numbered, tagged  *)
(* or put into canonical order on the way, and nothing else is taken for an  *)
(* error; also not where unknown fields are denied, if nothing is flattened. *)
RoundTrip ==
    /\ document \in TypedDocuments => GivenBack(FALSE)
    /\ document \in FlatDocuments => GivenBack(TRUE)

(* docs/configuration.md, deny_unknown_fields: "Reject object keys not      *)
(* consumed by a field or flatten target."  The same when every class that  *)
(* flattens nothing denies unknown fields.                                  *)
StrictRoundTrip == GivenBack(TRUE)

=============================================================================
