--------------------------- MODULE MCPeerBackends ---------------------------
(* PeerBackends over every legal class and enum of a few shapes, and the     *)
(* documents read back by the repository's own parsers.                     *)
EXTENDS PeerBackends, WireTree

JsonReader == INSTANCE JsonParser WITH NestingLimit <- 128
DsonReader == INSTANCE DsonParser WITH NestingLimit <- 128
Printer == INSTANCE ValuePrinter WITH Unencodable <- NotText
CborReader == INSTANCE CborParser WITH NestingLimit <- 128, NotText <- {Text[name] : name \in NotText}

-----------------------------------------------------------------------------
(* Values. *)

MCText == [name \in Names |->
    CASE name = "b" -> <<98>> [] name = "aa" -> <<97, 97>> [] name = "a" -> <<97>>
      [] name = "xFF" -> <<255>> [] name = "" -> <<>>
      [] name = "V" -> <<86>> [] name = "W" -> <<87>> [] name = "t" -> <<116>>
      [] name = "c" -> <<99>> [] name = "cc" -> <<99, 99>>
      [] name = "Ok" -> <<79, 107>> [] name = "Err" -> <<69, 114, 114>>
      [] name = "index" -> <<105, 110, 100, 101, 120>>
      [] name = "value" -> <<118, 97, 108, 117, 101>>]

(* V and W are strings: their items are those of the names. *)
MCEncoding == [value \in Scalars |->
    CASE value = "0" -> <<0>> [] value = "1" -> <<1>> [] value = "24" -> <<24, 24>>
      [] value = "null" -> <<246>> [] value = "V" -> <<97, 86>> [] value = "W" -> <<97, 87>>]

Field(name, id, value) ==
    [name |-> name, id |-> id, value |-> value,
     flatten |-> FALSE, skipped |-> FALSE, omitted |-> FALSE]

Flattened(field) == [field EXCEPT !.flatten = TRUE]
Omitted(field) == [field EXCEPT !.omitted = TRUE]
Variants(field) == {field, Omitted(field), [field EXCEPT !.skipped = TRUE]}

(* Classes of up to two scalar fields, declared in either order, with       *)
(* compact ids in either order; a field may be skipped, or omitted by its   *)
(* skip_if predicate.                                                       *)
Leaves ==
    {Class(FALSE, <<>>)}
    \union {Class(compact, <<field>>) : compact \in BOOLEAN, field \in Variants(Field("aa", 0, Scalar("1")))}
    \union UNION {{Class(compact, <<one, other>>), Class(compact, <<other, one>>)} :
                     compact \in BOOLEAN,
                     one \in Variants(Field("aa", 0, Scalar("24"))) \union Variants(Field("aa", 2, Scalar("24"))),
                     other \in Variants(Field("b", 1, Scalar("1")))}

(* Classes that hold such a class, flattened or nested, beside a scalar     *)
(* whose name may be one of the inner class's.                              *)
Beside == {Field(name, 3, Scalar("null")) : name \in {"a", "b"}}
          \union {Omitted(Field("b", 3, Scalar("null")))}

Holding(wraps, compact) ==
    UNION {{Class(compact, <<wrap, scalar>>), Class(compact, <<scalar, wrap>>)} :
              wrap \in wraps, scalar \in Beside}

Flattening == Holding({Flattened(Field("inner", 0, class)) : class \in Leaves}, FALSE)
Nesting == UNION {Holding({Field("aa", 0, class) : class \in Leaves}, compact) : compact \in BOOLEAN}

(* A class that flattens a class that flattens. *)
Twice == {Class(FALSE, <<Flattened(Field("outer", 0, class))>>) : class \in Flattening}

(* Classes with one collection for a field. *)
With(collections) == {Class(FALSE, <<Field("aa", 0, items)>>) : items \in collections}

Collecting ==
    With({SetOf(items) : items \in {<<>>, <<Scalar("24")>>, <<Scalar("null"), Scalar("24"), Scalar("1")>>}}
         \union {DictOf(<<>>),
                 DictOf(<<Pair("aa", SetOf(<<Scalar("24"), Scalar("1")>>)), Pair("b", Scalar("1"))>>)}
         \union {ListOf(<<class, DictOf(<<Pair("b", class)>>)>>) : class \in Leaves})

Legal(classes) == {class \in classes : ValidClass(class)}

(* Dicts with the empty key, and with a key that is not UTF-8. *)
OddlyNamed ==
    With({DictOf(<<Pair(key, Scalar("1")), Pair("b", Scalar("24"))>>) : key \in {"", "xFF"}})

(* Enums of each form: a tag that comes before, between or after the fields  *)
(* in canonical order, a content that comes before the tag or after it.     *)
Taggings ==
    {Tagged("external", "none", "none"), Tagged("internal", "t", "none"),
     Tagged("adjacent", "t", "c"), Tagged("adjacent", "t", "cc"), Tagged("untagged", "none", "none")}

(* Payloads of up to two scalars, and payloads that hold others; last, those *)
(* of an enum in an enum.                                                   *)
FieldsOf(classes) == {class.fields : class \in {any \in classes : ~any.compact}}

Payloads ==
    FieldsOf({class \in Leaves : \A i \in DOMAIN class.fields : class.fields[i].id # 2})

Merging ==
    FieldsOf(Holding({Flattened(Field("inner", 0, Class(FALSE, <<Field(name, 0, Scalar("1"))>>))) :
                         name \in {"b", "aa"}}, FALSE))

Enums(payloads) ==
    {enum \in {Enum(tagging, "V", fields) :
                  tagging \in Taggings \union {Tagged("internal", "b", "none")}, fields \in payloads} :
        ValidVariant(enum)}

Containing ==
    LET inner == {Enum(tagging, "W", fields) :
                     tagging \in Taggings, fields \in {<<>>, <<Field("b", 0, Scalar("1"))>>}}
    IN  With(inner \union {ListOf(<<enum, enum>>) : enum \in inner})
        \union Enums({<<Field("aa", 0, enum)>> : enum \in inner})

(* The other built-in types; None and what else is written as null. *)
Optional == {OptionOf(<<>>), OptionOf(<<Scalar("24")>>), OptionOf(<<Scalar("null")>>),
             OptionOf(<<Class(FALSE, <<Field("b", 0, OptionOf(<<>>))>>)>>),
             OptionOf(<<Enum(Tagged("untagged", "none", "none"), "V", <<>>)>>)}

Builtin ==
    With(Optional
         \union {ArrayOf(<<>>), ArrayOf(<<ArrayOf(<<Scalar("1"), Scalar("24")>>), ArrayOf(<<Scalar("24"), Scalar("1")>>)>>)}
         \union {ResultOf(arm, value) : arm \in {"Ok", "Err"}, value \in Optional}
         \union {VariantOf(index, value) : index \in {"0", "1"}, value \in Optional})

Enumerated == Enums(Payloads) \union Containing \union Builtin

(* A variant that is skipped when serialized. *)
SkippedVariant ==
    {[enum EXCEPT !.skipped = TRUE] : enum \in Enums({<<>>, <<Field("b", 0, Scalar("1"))>>})}

MCDocuments ==
    Legal(Collecting \union OddlyNamed \union Leaves \union Flattening \union Nesting \union Twice)
    \union Enumerated \union Enums(Merging) \union SkippedVariant
    \union With(SkippedVariant)

(* The values of a disagreement: a flattened field with a skip_if predicate  *)
(* that holds.                                                              *)
OmittedFlattening ==
    Legal(Holding({Omitted(Flattened(Field("inner", 0, class))) : class \in Leaves}, FALSE))

-----------------------------------------------------------------------------
(* What a document should say. *)

RECURSIVE Members(_, _), Plain(_), Encodable(_, _), HasKey(_, _), Carries(_, _, _)

(* Values without their types: an enum is the string, the null or the object *)
(* that its tagging makes of it, a variant's fields being a payload, whose   *)
(* names the codec does not have checked; what is skipped has no such form.  *)
Plain(value) ==
    LET PlainItems(items) == [i \in DOMAIN items |-> Plain(items[i])]
        PlainFields(fields) == [f \in DOMAIN fields |-> [fields[f] EXCEPT !.value = Plain(@)]]
        payload == [value EXCEPT !.is = "payload", !.fields = PlainFields(@)]
    IN  CASE value.is = "scalar" -> value
          [] value.is \in {"list", "set"} -> [value EXCEPT !.items = PlainItems(@)]
          [] value.is = "array" -> ListOf(PlainItems(value.items))
          [] value.is = "dict" ->
                 DictOf([i \in DOMAIN value.members |->
                            Pair(value.members[i].name, Plain(value.members[i].value))])
          [] value.is = "option" ->
                 IF value.items = <<>> THEN Scalar("null") ELSE Plain(value.items[1])
          [] value.is = "result" -> DictOf(<<Pair(value.arm, Plain(value.value))>>)
          [] value.is = "variant" ->
                 DictOf(<<Pair("index", Scalar(value.index)), Pair("value", Plain(value.value))>>)
          [] value.is = "class" -> Class(value.compact, PlainFields(value.fields))
          [] value.is = "enum" ->
                 CASE value.skipped -> [is |-> "refused"]
                   [] ~value.skipped /\ value.tagging.form = "untagged" ->
                          IF IsUnit(value) THEN Scalar("null") ELSE payload
                   [] ~value.skipped /\ value.tagging.form = "external" ->
                          IF IsUnit(value) THEN Scalar(value.name)
                          ELSE DictOf(<<Pair(value.name, payload)>>)
                   [] ~value.skipped /\ value.tagging.form = "internal" ->
                          [payload EXCEPT !.fields = <<TagField(value)>> \o @]
                   [] ~value.skipped /\ value.tagging.form = "adjacent" ->
                          DictOf(<<Pair(value.tagging.tag, Scalar(value.name))>>
                                 \o IF IsUnit(value) THEN <<>>
                                    ELSE <<Pair(value.tagging.content, payload)>>)

(* The members of a class's object, flattened fields merged into it; a      *)
(* compact class has numbered keys, unless it is itself merged.             *)
Members(class, numbered) ==
    FoldLeft(LAMBDA members, field :
                 IF field.skipped \/ field.omitted THEN members
                 ELSE members \o (IF field.flatten THEN Members(field.value, FALSE)
                                  ELSE <<[name |-> field.name, id |-> field.id, value |-> field.value,
                                          numbered |-> numbered]>>),
             <<>>, class.fields)

MembersOf(value) ==
    IF value.is # "dict" THEN Members(value, value.compact)
    ELSE [i \in DOMAIN value.members |->
             [name |-> value.members[i].name, id |-> 0, numbered |-> FALSE,
              value |-> value.members[i].value]]

(* Nothing in the value is skipped, and none of its objects, as far as their *)
(* names are checked, has two members of one name.                          *)
Encodable(value, checked) ==
    CASE value.is = "refused" -> FALSE
      [] value.is = "scalar" -> TRUE
      [] value.is \in {"list", "set"} -> \A i \in DOMAIN value.items : Encodable(value.items[i], checked)
      [] value.is \in {"dict", "class", "payload"} ->
             /\ value.is \in checked =>
                    \A i, j \in DOMAIN MembersOf(value) :
                        i # j => MembersOf(value)[i].name # MembersOf(value)[j].name
             /\ \A i \in DOMAIN MembersOf(value) : Encodable(MembersOf(value)[i].value, checked)

(* Does some object of the value have one of these names? *)
HasKey(value, names) ==
    CASE value.is \in {"scalar", "refused"} -> FALSE
      [] value.is \in {"list", "set"} -> \E i \in DOMAIN value.items : HasKey(value.items[i], names)
      [] value.is \in {"dict", "class", "payload"} ->
             \E i \in DOMAIN MembersOf(value) :
                 \/ MembersOf(value)[i].name \in names
                 \/ HasKey(MembersOf(value)[i].value, names)

(* The values that a backend should not encode, and those it does not though *)
(* the others do: CBOR alone looks at the names of a payload, Value takes   *)
(* the empty name for no name, JSON alone looks whether names are UTF-8.    *)
Refuses(backend, value) ==
    \/ ~Encodable(value, {"dict", "class"})
    \/ backend = "cbor" /\ ~Encodable(value, {"dict", "class", "payload"})
    \/ backend = "value" /\ HasKey(value, {NoName})
    \/ backend = "json" /\ HasKey(value, NotText)

(* The label of a member: CBOR keeps names as bytes, and numbers the        *)
(* members of a compact class.                                              *)
Label(member, format) ==
    IF format # "cbor" THEN member.name
    ELSE IF member.numbered THEN <<35, 48 + member.id>>
    ELSE Text[member.name]

(* The tree a document was read as carries the value: no item is lost,      *)
(* added or misplaced; in CBOR a set is sorted by its items' bytes.         *)
Carries(tree, value, format) ==
    CASE value.is = "scalar" ->
             tree = Leaf(IF format = "cbor" THEN Encoding[value.value] ELSE value.value)
      [] value.is = "list" \/ (value.is = "set" /\ format # "cbor") ->
             /\ tree.node = "sequence"
             /\ Len(tree.items) = Len(value.items)
             /\ \A i \in DOMAIN value.items : Carries(tree.items[i], value.items[i], format)
      [] value.is = "set" /\ format = "cbor" ->
             /\ tree.node = "sequence"
             /\ Len(tree.items) = Len(value.items)
             /\ \A i \in DOMAIN value.items :
                    \E k \in DOMAIN tree.items : Carries(tree.items[k], value.items[i], format)
             /\ \A k \in 2 .. Len(tree.items) : Before(tree.items[k - 1].value, tree.items[k].value)
      [] value.is \in {"dict", "class", "payload"} ->
             /\ tree.node = "object"
             /\ Len(tree.members) = Len(MembersOf(value))
             /\ \A i \in DOMAIN MembersOf(value) :
                    \E k \in DOMAIN tree.members :
                        /\ tree.members[k].name = Label(MembersOf(value)[i], format)
                        /\ Carries(tree.members[k].tree, MembersOf(value)[i].value, format)

-----------------------------------------------------------------------------
(* Properties. *)

(* A finished run's outcome depends on the value alone and is the same in    *)
(* all four backends, but for odd names: a value is refused exactly when a   *)
(* variant in it is skipped or flattening gives two members of one object    *)
(* the same name ("Serdde rejects duplicate keys during encoding",          *)
(* docs/schema-evolution.md), whether the backend notices at the name, at    *)
(* the value, or when the object closes.  Flattening into an enum's payload  *)
(* is noticed by CBOR alone.                                                *)
RefusedOnCollision ==
    Over => \A backend \in Backends :
                outcome[backend] = IF Refuses(backend, Plain(document)) THEN "failed" ELSE "ok"

Repeating == ~Encodable(Plain(document), {"payload"})

(* The reader's result: the value that was encoded, or, for a document with *)
(* a repeated name or one that is not UTF-8, the error that every reader    *)
(* has for it.                                                              *)
Reads(result, format, unreadable) ==
    IF Repeating THEN result.error = "duplicate object key"
    ELSE IF HasKey(Plain(document), NotText) THEN result.error = unreadable
    ELSE result.error = "none" /\ Carries(result.tree, Plain(document), format)

(* What dumps returned as Ok is read by the format's own parser as the value *)
(* that was encoded: the declared counts, the canonical reordering of fields *)
(* and tags and the buffering of sets and objects lose, repeat and misplace  *)
(* nothing.                                                                 *)
ReadBack ==
    /\ outcome["json"] = "ok" => Reads(JsonReader!ParseJson(jsonText), "json", "none")
    /\ outcome["dson"] = "ok" =>
           Reads(DsonReader!ParseDson(dsonText), "dson", "string is not valid UTF-8")
    /\ outcome["cbor"] = "ok" =>
           Reads(CborReader!ParseCbor(cborBytes), "cbor", "CBOR text is not valid UTF-8")
    /\ outcome["value"] = "ok" => Repeating \/ Carries(valueRoot, Plain(document), "value")

(* The call that a dynamic object or sequence makes for one that a class     *)
(* makes: sets are sequences, and objects neither compact nor in order.      *)
Dynamically(call) ==
    IF call.method = "begin_set" THEN [call EXCEPT !.method = "begin_sequence"]
    ELSE IF call.method \in {"begin_object_checked", "begin_object_compact"}
    THEN [call EXCEPT !.method = "begin_object"]
    ELSE IF call.method = "field_id" THEN [call EXCEPT !.method = "field", !.id = 0]
    ELSE call

(* docs/architecture.md: "Formats and dynamic trees are peer backends."     *)
(* Turned into a Value first and then printed, a class value is the same     *)
(* text, its members in the same order and its counts the true ones; CBOR is *)
(* given the same calls, but for sets and numbered keys, which a Value has   *)
(* not.  A name that is not UTF-8 is refused by both printers, also where    *)
(* the class's own writer does not look.                                    *)
PrintedAlike ==
    (outcome["value"] = "ok" /\ ~Repeating) =>
        LET json == Printer!Dumps(valueRoot, Printer!JsonText(valueRoot))
            dson == Printer!Dumps(valueRoot, Printer!DsonText(valueRoot))
        IN  IF HasKey(Plain(document), NotText) THEN json.error # "none" /\ dson.error # "none"
            ELSE /\ json = [error |-> "none", text |-> jsonText]
                 /\ dson = [error |-> "none", text |-> dsonText]
                 /\ Printer!EncodeValue(valueRoot)
                        = [i \in DOMAIN plainCalls |-> Dynamically(plainCalls[i])]

(* docs/architecture.md: "Keys use RFC 8949 deterministic ordering."  It    *)
(* holds of every object of a document, also where the writer does not sort  *)
(* and the generated code wrote the fields in the order of canonical_before. *)
CborCanonical ==
    outcome["cbor"] = "ok" =>
        LET result == CborReader!ParseCbor(cborBytes)
        IN  result.error = "none" => CborReader!Canonical(result.tree)

=============================================================================
