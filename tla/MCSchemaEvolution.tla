------------------------- MODULE MCSchemaEvolution -------------------------
(* SchemaEvolution for classes of two fields: the first may have an alias,  *)
(* a default or be skipped, the second may be optional or a flattened class *)
(* of two more fields; and for enums of every tagging with two variants, in *)
(* either order, of which the first may be skipped and the second a unit.   *)
EXTENDS SchemaEvolution

Number == ScalarType({"1"})
Maybe == OptionType(Number)

Field(name, id, type) ==
    [name |-> name, aliases |-> <<>>, id |-> id, type |-> type,
     flatten |-> FALSE, skipped |-> FALSE, default |-> FALSE]

Defaulted(field) == [field EXCEPT !.default = TRUE]
Skipped(field) == [field EXCEPT !.default = TRUE, !.skipped = TRUE]
Flattened(field) == [field EXCEPT !.flatten = TRUE]

A == [Field("a", 1, Number) EXCEPT !.aliases = <<"old", "a1">>]
B == Field("b", 2, Maybe)

Inner == {ClassType(FALSE, FALSE, <<Field("b", 1, Number), field>>) :
             field \in {Defaulted(Field("c", 2, Number)), Skipped(Field("c", 2, Number))}}

Firsts == {A, Defaulted(A), Skipped(A)}
Seconds == {B, Defaulted(B), Skipped(B)} \union {Flattened(Field("inner", 0, class)) : class \in Inner}

Classes ==
    {class \in {ClassType(compact, strict, <<first, second>>) :
                   compact \in BOOLEAN, strict \in BOOLEAN, first \in Firsts, second \in Seconds} :
        ValidSchema(class)}

Taggings ==
    {[form |-> form, tag |-> "t", content |-> "c"] : form \in {"external", "internal", "adjacent", "untagged"}}

Variant(name, aliases, fields) == [name |-> name, aliases |-> aliases, skipped |-> FALSE, fields |-> fields]

V == Variant("V", <<"v1">>, <<[A EXCEPT !.aliases = <<"old">>]>>)
Ws == {Variant("W", <<>>, fields) : fields \in {<<>>, <<Defaulted(Field("b", 2, Maybe))>>}}
VariantLists == {<<v, w>> : v \in {V, [V EXCEPT !.skipped = TRUE]}, w \in Ws}

Enums ==
    {EnumType(tagging, strict, variants) :
        tagging \in Taggings, strict \in BOOLEAN,
        variants \in VariantLists \union {Reverse(variants) : variants \in VariantLists}}

MCSchemas == Classes \union Enums

Carrying(names, values) == {Member(TextKey(name), value) : name \in names, value \in values}

Number1 == Leaf("1")
Payloads ==
    {ObjectOf(<<>>), ObjectOf(<<Member(TextKey("a"), Number1)>>), ObjectOf(<<Member(TextKey("b"), Number1)>>),
     ObjectOf(<<Member(TextKey("x"), Number1), Member(TextKey("old"), Number1)>>), Number1}
Tags == {Leaf("V"), Leaf("v1"), Leaf("W"), Leaf("U"), Number1}

MCMembersFor(type) ==
    IF type.is = "class"
    THEN {Member(key, value) :
             key \in {TextKey(name) : name \in {"a", "old", "b", "c", "x"}}
                     \union {NumberKey(1, "#1"), NumberKey(2, "#2"), NumberKey(7, "#7")},
             value \in {Number1, Leaf("null")}}
    ELSE CASE type.tagging.form = "external" -> Carrying({"V", "v1", "W", "x"}, Payloads)
           [] type.tagging.form = "internal" ->
                  Carrying({"t"}, Tags) \union Carrying({"a", "old", "b", "x"}, {Number1, Leaf("null")})
           [] type.tagging.form = "adjacent" ->
                  Carrying({"t"}, Tags) \union Carrying({"c"}, Payloads) \union Carrying({"a", "x"}, {Number1})
           [] type.tagging.form = "untagged" -> Carrying({"a", "old", "b", "x"}, {Number1, Leaf("null")})

MCScalars == {"V", "v1", "W", "U", "1", "null"}

=============================================================================
