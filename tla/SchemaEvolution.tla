-------------------------- MODULE SchemaEvolution --------------------------
(***************************************************************************)
(* A class or an enum that reads documents it did not write: older and     *)
(* newer writers, or any other program, supply members one at a time,      *)
(* under the names and ids they know, in any order.  In every state the    *)
(* members supplied so far are a document, and the type decodes it.        *)
(***************************************************************************)
EXTENDS ClassDecoder

CONSTANTS
    Schemas,         (* the classes and enums that read                  *)
    MembersFor(_),   (* the members that writers supply for a schema     *)
    Scalars,         (* what they write instead of an object             *)
    MaxMembers       (* bound: members of a document                     *)

VARIABLES
    schema,      (* the type that reads     *)
    members      (* the members supplied    *)

evolutionVars == <<schema, members>>

Init ==
    /\ schema \in Schemas
    /\ members = <<>>

(* No reader lets a document through that has a key twice. *)
Supply(member) ==
    /\ Len(members) < MaxMembers
    /\ \A i \in DOMAIN members : members[i].name # member.name
    /\ members' = Append(members, member)
    /\ UNCHANGED schema

Next == \E member \in MembersFor(schema) : Supply(member)

Spec == Init /\ [][Next]_evolutionVars

-----------------------------------------------------------------------------
(* Properties. *)

Reads(supplied) == DecodeFrom(schema, ObjectOf(supplied))

Result == Reads(members)

Accepts(result) == result.error = "none"

(* The keys a field answers to. *)
Answers(field, compact, key) ==
    \/ ~key.numbered /\ key.label \in ToSet(Candidates(field))
    \/ compact /\ key.numbered /\ key.id = field.id

Suppliers(field, compact) == {i \in DOMAIN members : Answers(field, compact, members[i].name)}

RECURSIVE Knows(_, _), Consumed(_)

(* Does some field that decoding does not skip answer to the key?  Those of  *)
(* a flattened class answer to the keys of the whole.                       *)
Knows(class, key) ==
    \E f \in DOMAIN class.fields :
        LET field == class.fields[f]
        IN  /\ ~field.skipped
            /\ IF field.flatten THEN Knows(field.type, key) ELSE Answers(field, class.compact, key)

(* The members the fields of a class are supplied by, a field with no or    *)
(* several suppliers, or one that does not take its member, being refused.  *)
Consumed(class) ==
    \A f \in DOMAIN class.fields :
        LET field == class.fields[f]
            suppliers == Suppliers(field, class.compact)
        IN  \/ field.skipped
            \/ field.flatten /\ Consumed(field.type)
            \/ ~field.flatten /\ suppliers = {} /\ field.default
            \/ ~field.flatten /\ \E i \in suppliers :
                   suppliers = {i} /\ Accepts(DecodeFrom(field.type, members[i].tree))

(* docs/schema-evolution.md: missing fields are errors unless they have a   *)
(* default, unknown fields are ignored, and a document that supplies more   *)
(* than one of a field's names is rejected.  A document is accepted exactly *)
(* when each field that is read has one supplier, under its name, an alias  *)
(* or its id, that it can decode, or none and a default.                    *)
SuppliedOnce ==
    schema.is = "class" /\ ~schema.strict => (Accepts(Result) <=> Consumed(schema))

(* The keys deny_unknown_fields lets pass: the known ones, and in a class    *)
(* that is not compact those of its skipped fields.                         *)
Tolerated(class, key) ==
    \/ Knows(class, key)
    \/ ~class.compact /\ \E f \in DOMAIN class.fields : Answers(class.fields[f], FALSE, key)

(* docs/schema-evolution.md: "These defaults allow readers to accept fields *)
(* added by a newer writer while still rejecting incomplete records."       *)
(* Whether the members that no field knows are there or not, at any place   *)
(* among the others, the same value is read or the same error found; with   *)
(* deny_unknown_fields, any one of them is enough to be refused.            *)
UnknownIgnored ==
    schema.is = "class" =>
    LET known == SelectSeq(members, LAMBDA member : Knows(schema, member.name))
        allTolerated == \A i \in DOMAIN members : Tolerated(schema, members[i].name)
    IN  IF ~schema.strict \/ allTolerated THEN Result = Reads(known)
        ELSE ~Accepts(Result)

(* docs/dson.md: "The decoder accepts fields in any order."                 *)
AnyOrder ==
    Accepts(Result) => Reads(Reverse(members)) = Result

(* docs/configuration.md, skip_deserializing: "Ignore input and use the     *)
(* default while decoding."  A member supplied for a skipped field makes no *)
(* difference to what is read; but a compact class that denies unknown      *)
(* fields does not know its skipped fields and refuses the member.          *)
SkippedInputIgnored ==
    schema.is = "class" =>
    \A f \in DOMAIN schema.fields :
        LET field == schema.fields[f]
            others == SelectSeq(members, LAMBDA member : ~Answers(field, schema.compact, member.name))
        IN  field.skipped =>
                IF schema.compact /\ schema.strict THEN Accepts(Result) => others = members
                ELSE Result = Reads(others)

-----------------------------------------------------------------------------
(* Enums as classes. *)

Read(name, aliases, type) ==
    [name |-> name, aliases |-> aliases, id |-> 0, type |-> type,
     flatten |-> FALSE, skipped |-> FALSE, default |-> FALSE]

(* The type of the documents of one variant: an object with the member that *)
(* tags it, if there is one, and the payload under it or beside it.  With   *)
(* deny_unknown_fields a unit variant lets more pass than docs/             *)
(* configuration.md says: any member beside an internal tag, and a content  *)
(* beside an adjacent one.                                                  *)
AsType(enum, variant) ==
    LET names == ScalarType(NamesOf(variant))
        tag == Read(enum.tagging.tag, <<>>, names)
        payload == ClassType(FALSE, enum.strict, variant.fields)
        content == Read(enum.tagging.content, <<>>, payload)
        ignored == [content EXCEPT !.skipped = TRUE, !.default = TRUE]
    IN  CASE enum.tagging.form = "external" /\ IsUnit(variant) -> names
          [] enum.tagging.form = "external" /\ ~IsUnit(variant) ->
                 ClassType(FALSE, TRUE, <<Read(variant.name, variant.aliases, payload)>>)
          [] enum.tagging.form = "internal" ->
                 ClassType(FALSE, enum.strict /\ ~IsUnit(variant), <<tag>> \o variant.fields)
          [] enum.tagging.form = "adjacent" ->
                 ClassType(FALSE, enum.strict, <<tag, IF IsUnit(variant) THEN ignored ELSE content>>)
          [] enum.tagging.form = "untagged" -> IF IsUnit(variant) THEN ScalarType({Null}) ELSE payload

(* The payload of a variant, in what its type reads. *)
Payload(enum, variant, value) ==
    CASE IsUnit(variant) -> <<>>
      [] ~IsUnit(variant) /\ enum.tagging.form = "external" -> value.values[1].values
      [] ~IsUnit(variant) /\ enum.tagging.form = "internal" -> Tail(value.values)
      [] ~IsUnit(variant) /\ enum.tagging.form = "adjacent" -> value.values[2].values
      [] ~IsUnit(variant) /\ enum.tagging.form = "untagged" -> value.values

(* docs/schema-evolution.md: an enum reads a document exactly when the type *)
(* of one of its variants does, "`untagged=True` tries variants in          *)
(* declaration order", and "Variant `rename` and `alias` support the same   *)
(* migration pattern as fields."  Whatever the tag is called, wherever it   *)
(* stands among the members and whatever comes with it, the value is the    *)
(* first such variant and its payload what the type reads.                  *)
VariantsReadAsTypes ==
    schema.is = "enum" =>
    \A view \in {ObjectOf(members)} \union {Leaf(scalar) : scalar \in Scalars} :
        LET read(v) == DecodeFrom(AsType(schema, schema.variants[v]), view)
            reading == {v \in DOMAIN schema.variants : ~schema.variants[v].skipped /\ Accepts(read(v))}
            chosen == schema.variants[First(reading)]
            result == DecodeFrom(schema, view)
        IN  IF reading = {} THEN ~Accepts(result)
            ELSE result = Decoded(Arm("enum", chosen.name,
                                      Payload(schema, chosen, read(First(reading)).value)))

=============================================================================
