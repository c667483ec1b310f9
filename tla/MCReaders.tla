----------------------------- MODULE MCReaders -----------------------------
(* Each format's typed reader beside the tree that loads_value builds, on   *)
(* the same sources.  The nesting limit, 128 in the source, is small enough *)
(* here for sources to reach and to pass it.  Strings are sources of their   *)
(* own, of bytes.                                                           *)
EXTENDS Texts, FiniteSetsExt

CONSTANTS
    TextLimit,   (* the nesting limit of JSON and DSON        *)
    CborLimit,
    BadNames,    (* names that are not UTF-8                  *)
    Malformed    (* kinds of misspelt tags in DSON sources    *)

(* The third is a name of characters that end or separate values elsewhere,  *)
(* with one that has to be escaped.                                         *)
MCNamesInOrder == <<"", "a", "a\",]}:", "b">>

JsonTyped == INSTANCE JsonLocator WITH NestingLimit <- TextLimit, NamesInOrder <- MCNamesInOrder
JsonDynamic == INSTANCE JsonParser WITH NestingLimit <- TextLimit
DsonTyped == INSTANCE DsonReader WITH NestingLimit <- TextLimit, NotText <- BadNames
DsonDynamic == INSTANCE DsonParser WITH NestingLimit <- TextLimit, NotText <- BadNames
Printer == INSTANCE ValuePrinter WITH Unencodable <- BadNames
Cbor == INSTANCE CborReader WITH NestingLimit <- CborLimit, NotText <- {<<255>>}

-----------------------------------------------------------------------------
(* Sources. *)

Counted(mark, size) == [is |-> mark, of |-> "none", size |-> size]
Plain(mark) == Counted(mark, 0)
Saying(mark, of) == [Plain(mark) EXCEPT !.of = of]

JsonTokens ==
    {Plain(mark) : mark \in {"comma", "colon", "begin_sequence", "end_sequence",
                             "begin_object", "end_object"}}
    \union {Saying("name", name) : name \in {"a", "b"}}
    \union {Saying("scalar", "1")}

DsonTokens ==
    {Plain(mark) : mark \in {"comma", "equals", "end_sequence", "end_object"}}
    \union {Counted(mark, size) : mark \in {"begin_sequence", "begin_object"}, size \in 0 .. 2}
    \union {Saying("name", name) : name \in {"a", "b"} \union BadNames}
    \union {Saying("scalar", "1")}
    \union {[Counted(mark, 1) EXCEPT !.of = "1"] : mark \in Malformed}

(* 0, which is also text, and 24 (one byte follows); the headers of texts of *)
(* no and of one byte, and a byte that is no text; arrays and maps of up to   *)
(* two items; a tag and an indefinite length.                                *)
CborBytes == {0, 24, 96, 97, 255, 128, 129, 130, 161, 162, 192, 159}

(* Documents to lay out: scalars and names of one character or more, empty    *)
(* containers, keys that repeat, at once, at a distance, inside one another  *)
(* and two at a time, and a document that is too deep.                       *)
Odd == MCNamesInOrder[3]
Document(members) == Printer!ObjectOf(members)
Items(items) == Printer!SequenceOf(items)
Field(name, tree) == Printer!Member(name, tree)
One == Printer!Leaf("1")
Half == Printer!Leaf("-0.5")

LaidOut ==
    {Items(<<Half, Document(<<Field(Odd, Half)>>), Items(<<>>), One>>),
     Document(<<Field("a", Printer!Leaf(Odd)), Field("", Document(<<>>)), Field("b", Half)>>),
     Document(<<Field("b", One), Field("a", Items(<<>>)), Field("a", Half), Field("b", One)>>),
     Document(<<Field("a", Document(<<Field(Odd, One), Field(Odd, Half)>>)), Field("a", One)>>),
     Items(<<Items(<<Half, Half>>), Document(<<Field("a", One), Field("b", One), Field("a", One)>>)>>),
     Items(<<Document(<<Field("a", Items(<<Items(<<One>>)>>))>>)>>)}

(* Pieces of a JSON string, and the UTF-16 units they stand for: escapes of  *)
(* a letter, of a character and of the halves of one, characters as they are, *)
(* at every length of their UTF-8, and pieces of no string.                  *)
Piece(text, units) == [text |-> text, units |-> units, ill |-> FALSE]
Ill(text) == [text |-> text, units |-> <<>>, ill |-> TRUE]
Escaping(digits) == <<92, 117>> \o digits

Pieces ==
    {Piece(Escaping(<<100, 56, 51, 68>>), <<55357>>), Piece(Escaping(<<68, 98, 70, 102>>), <<56319>>),
     Piece(Escaping(<<68, 67, 48, 48>>), <<56320>>), Piece(Escaping(<<100, 69, 48, 48>>), <<56832>>),
     Piece(Escaping(<<69, 48, 48, 48>>), <<57344>>), Piece(Escaping(<<48, 48, 55, 70>>), <<127>>),
     Piece(Escaping(<<48, 48, 56, 48>>), <<128>>), Piece(Escaping(<<48, 55, 102, 102>>), <<2047>>),
     Piece(Escaping(<<48, 56, 48, 48>>), <<2048>>), Piece(<<92, 110>>, <<10>>), Piece(<<92, 47>>, <<47>>),
     Piece(<<92, 34>>, <<34>>), Piece(<<120>>, <<120>>), Piece(<<195, 169>>, <<233>>),
     Piece(<<240, 159, 152, 128>>, <<55357, 56832>>),
     Ill(<<195>>), Ill(<<31>>), Ill(<<92, 120>>), Ill(Escaping(<<48, 48, 71, 48>>)), Ill(Escaping(<<100, 56>>))}

(* The first and the last bytes that valid_utf8 tells apart. *)
EdgeBytes == {127, 128, 143, 144, 159, 160, 191, 192, 193, 194, 223, 224, 225, 236, 237, 238, 239,
              240, 241, 243, 244, 245, 255}

(* Bytes that mean something to some format, in a string. *)
TextBytes == {0, 31, 10, 34, 92, 117, 47, 41, 58, 49, 195, 169}

MCSeeds ==
    [json |-> {<<>>}, dson |-> {<<>>}, cbor |-> {<<>>},
     cbor_labels |-> {<<162, 0, 0, 98, 35, 48>>, <<162, 98, 35, 48, 0, 0>>},
     utf8 |-> {<<>>}, text |-> {<<>>}, json_string |-> {<<>>}, dson_string |-> {<<>>},
     json_layout |-> {Printer!JsonText(tree) : tree \in LaidOut},
     dson_layout |-> {Printer!DsonText(tree) : tree \in LaidOut}]

MCBlanks ==
    [kind \in DOMAIN MCSeeds |->
        IF kind = "json_layout" THEN {Printer!Token(mark, "none") : mark \in {"space", "newline"}}
        ELSE IF kind = "dson_layout" THEN {Plain("space")}
        ELSE {}]

MCAlphabet == [json |-> JsonTokens, dson |-> DsonTokens, cbor |-> CborBytes, cbor_labels |-> CborBytes,
               utf8 |-> EdgeBytes, text |-> TextBytes, json_string |-> Pieces,
               dson_string |-> {41, 48, 49, 50, 58, 97, 195, 169},
               json_layout |-> {}, dson_layout |-> {}]

(* What may complete a character. *)
Tails == {<<>>} \union {<<byte>> : byte \in {143, 160}} \union {<<byte, 128>> : byte \in {143, 160}}
         \union {<<byte, 128, 128>> : byte \in {143, 160}}

(* Some reader has read all of it and would read on, or is content with it. *)
MCViable(kind, units) ==
    CASE kind = "json" -> JsonTyped!Element(units, 1).next = Len(units) + 1
      [] kind = "dson" -> \/ DsonDynamic!ParseDson(units).next = Len(units) + 1
                          \/ DsonTyped!Root(units).next = Len(units) + 1
      [] kind \in {"text", "json_string"} -> TRUE
      [] kind = "utf8" -> \E tail \in Tails : ValidUtf8(units \o tail)
      [] kind = "dson_string" ->
             LET string == ReadDsonString(units)
             IN  string.next = Len(units) + 1 \/ string.error = "string length exceeds remaining input"
      [] kind \in {"cbor", "cbor_labels"} ->
             LET root == Cbor!ParseCbor(units)
             IN  \/ root.next = Len(units) + 1
                 \/ root.error \in {"truncated CBOR argument", "truncated CBOR string",
                                    "CBOR container length is too large"}

MCMaxLength == [json |-> 9, dson |-> 10, cbor |-> 6, cbor_labels |-> 8,
                utf8 |-> 4, text |-> 3, json_string |-> 3, dson_string |-> 6, json_layout |-> 0, dson_layout |-> 0]
ShortLength == [dson |-> 3]

(* Sources of bytes that the CBOR readers are given. *)
CborFormats == {"cbor", "cbor_labels"}

-----------------------------------------------------------------------------
(* Properties. *)

(* yyjson leaves blanks between tokens out of its tree. *)
Bare == SelectSeq(source, LAMBDA unit : unit \notin Blanks[format])

(* docs/architecture.md: "Formats and dynamic trees are peer backends."     *)
(* loads and loads_value accept the same JSON and find the same tree, but   *)
(* for one kind of source: an empty container with exactly as many           *)
(* containers around it as the limit allows.  The typed reader counts what  *)
(* is around a value, the parser refuses one more container whatever is in  *)
(* it.                                                                      *)
JsonReadersAgree ==
    format \in {"json", "json_layout"} =>
        LET typed == JsonTyped!Root(Bare)
            dynamic == JsonDynamic!ParseJson(source)
        IN  /\ dynamic.error = "none" => typed.error = "none"
            /\ typed.error = "none" =>
                   \/ dynamic.error = "none" /\ JsonTyped!Labelled(typed.view) = dynamic.tree
                   \/ /\ dynamic.error = "JSON nesting depth exceeds the limit"
                      /\ JsonDynamic!At(source, JsonDynamic!SkipSpace(source, dynamic.next + 1))
                             \in {"end_sequence", "end_object"}

(* docs/architecture.md: "Formats and dynamic trees are peer backends."     *)
(* loads and loads_value accept the same DSON, and what a codec finds by    *)
(* parsing byte ranges again and again is the tree that the other builds in *)
(* one pass: also at the nesting limit, where the ranges are parsed from a  *)
(* smaller depth than they stand at, and whatever blanks stand between.  Of   *)
(* a repeated key both say that the error is after it.                      *)
DsonReadersAgree ==
    format \in {"dson", "dson_layout"} =>
        LET typed == DsonTyped!Root(source)
            dynamic == DsonDynamic!ParseDson(source)
        IN  /\ typed.error = "none" <=> dynamic.error = "none"
            /\ typed.error = "none" =>
                   DsonTyped!Labelled(DsonTyped!View(source, typed)) = dynamic.tree
            /\ typed.error = "duplicate object key" =>
                   dynamic.error = typed.error /\ dynamic.next = typed.begin

(* docs/api.md: an error has "a structured path, format name and, where      *)
(* available, one-based line/column plus byte offset."  yyjson gives no       *)
(* positions: the source is walked a second time beside its tree.  Wherever  *)
(* blanks stand, whatever strings contain and however wide or deep what      *)
(* comes before is, the walk to any value or key ends at that value's first   *)
(* character, and the line and the column are those of the character.        *)
Spelling(of) ==
    CASE of = "1" -> <<"1">>
      [] of = "-0.5" -> <<"-", "0", ".", "5">>
      [] of = "" -> <<"quote", "quote">>
      [] of \in {"a", "b"} -> <<"quote", of, "quote">>
      [] of = Odd -> <<"quote", "a", "backslash", "quote", ",", "]", "}", ":", "quote">>

Chars(unit) ==
    CASE unit.is = "comma" -> <<",">>
      [] unit.is = "colon" -> <<":">>
      [] unit.is = "begin_sequence" -> <<"[">>
      [] unit.is = "end_sequence" -> <<"]">>
      [] unit.is = "begin_object" -> <<"{">>
      [] unit.is = "end_object" -> <<"}">>
      [] unit.is \in {"name", "scalar"} -> Spelling(unit.of)
      [] unit.is \in {"space", "newline"} -> <<unit.is>>

CharsOf(units) == FlattenSeq([i \in DOMAIN units |-> Chars(units[i])])

(* Where a unit begins, counted from 0. *)
Begins(i) == Len(CharsOf(SubSeq(source, 1, i - 1)))

(* The units with which values and keys begin, and the ways to them, in order. *)
Starts == SelectSeq([i \in DOMAIN source |-> i],
                    LAMBDA i : source[i].is \in {"scalar", "name", "begin_sequence", "begin_object"})

RECURSIVE Paths(_, _)
Paths(view, path) ==
    <<path>> \o
    CASE view.node = "scalar" -> <<>>
      [] view.node = "sequence" ->
             FlattenSeq([i \in DOMAIN view.items |-> Paths(view.items[i], Append(path, i))])
      [] view.node = "object" ->
             FlattenSeq([i \in DOMAIN view.members |->
                 <<Append(path, -i)>> \o Paths(view.members[i].tree, Append(path, i))])

LocationsFound ==
    format = "json_layout" =>
        LET root == JsonTyped!Element(Bare, 1).view
            chars == CharsOf(source)
            newlines(offset) == {i \in 1 .. offset : chars[i] = "newline"}
        IN  \A k \in DOMAIN Starts :
                LET offset == JsonTyped!Offset(chars, root, Paths(root, <<>>)[k])
                IN  /\ offset = Begins(Starts[k])
                    /\ JsonTyped!LineAndColumn(chars, offset) =
                           [line |-> Cardinality(newlines(offset)) + 1,
                            column |-> offset - Max({0} \union newlines(offset)) + 1]

(* The same document error with its position: a repeated key is found at one  *)
(* of its further occurrences in the same object, never at the first.        *)
DepthAt(i) ==
    Cardinality({j \in 1 .. i - 1 : source[j].is \in {"begin_sequence", "begin_object"}})
    - Cardinality({j \in 1 .. i - 1 : source[j].is \in {"end_sequence", "end_object"}})

RepeatedKeyLocated ==
    (format = "json_layout" /\ JsonTyped!Root(Bare).error = "duplicate object key") =>
        LET offset == JsonTyped!ErrorOffset(CharsOf(source), JsonTyped!Root(Bare).view)
        IN  \E i \in DOMAIN source, j \in DOMAIN source :
                /\ j < i /\ offset = Begins(i) /\ source[i].is = "name"
                /\ source[j] = source[i]
                /\ \A k \in j .. i : DepthAt(k) >= DepthAt(i)
                /\ DepthAt(j) = DepthAt(i)

(* What readers find through the index is what the validating walk found:    *)
(* each child of each container, in its place, whatever containers, wider or *)
(* narrower, stand before it.  As Document keeps nothing else of the walk,   *)
(* every typed value and every dynamic one rests on it.                      *)
IndexFindsAll ==
    format \in CborFormats =>
        LET document == Cbor!Document(source)
        IN  document.error = "none" =>
                Cbor!Labelled(Cbor!View(source, document.index, Cbor!NodeAt(source, 1)))
                    = Cbor!ParseCbor(source).tree

(* docs/architecture.md: "Formats and dynamic trees are peer backends."     *)
(* A field is found by name, in any object of a document, exactly when the   *)
(* Value of the document has it, and it is the same: by the readers that     *)
(* look the name up in a tree (JSON) or in an index (CBOR) and by the one     *)
(* that parses the object again (DSON).                                      *)
(* A CBOR key that is a number goes by its label in the Value only, where    *)
(* it also takes the place of a text of that label, or gives way to it; and  *)
(* an id finds what has the number or the name, the first one, once each.   *)
RECURSIVE JsonFound(_, _), DsonFound(_, _), CborFound(_, _, _)

Children(tree) ==
    IF tree.node = "sequence" THEN tree.items ELSE [k \in DOMAIN tree.members |-> tree.members[k].tree]

NamesIn(members) == {members[k].name : k \in DOMAIN members}
ValueAt(members, name) == (CHOOSE member \in ToSet(members) : member.name = name).tree

JsonFound(view, tree) ==
    /\ tree.node = "object" =>
           /\ \A name \in {"a", "b"} :
                  LET place == {k \in DOMAIN tree.members : tree.members[k].name = name}
                  IN  /\ JsonTyped!CountIn(view, name) = Cardinality(place)
                      /\ \A k \in place :
                             JsonTyped!FieldIn(view, name) = JsonTyped!ElementAt(view, k)
           /\ \A k \in DOMAIN tree.members : JsonTyped!KeyAt(view, k) = tree.members[k].name
    /\ tree.node # "scalar" =>
           \A k \in DOMAIN Children(tree) : JsonFound(JsonTyped!ElementAt(view, k), Children(tree)[k])

DsonFound(node, tree) ==
    CASE tree.node = "scalar" -> TRUE
      [] tree.node = "sequence" ->
             \A k \in DOMAIN tree.items : DsonFound(DsonTyped!ItemAt(source, node.payload, 1, k), tree.items[k])
      [] tree.node = "object" ->
             /\ \A name \in {"a", "b"} :
                    LET field == DsonTyped!FindField(source, node, name)
                    IN  IF name \in NamesIn(tree.members)
                        THEN DsonTyped!Labelled(DsonTyped!View(source, field)) = ValueAt(tree.members, name)
                        ELSE field.error # "none"
             /\ \A k \in DOMAIN tree.members :
                    DsonFound(DsonTyped!EntryAt(source, node.payload, 1, k).value, tree.members[k].tree)

CborFound(index, view, node) ==
    LET Of(child) == Cbor!View(source, index, child)
        tree == Cbor!Labelled(view)
        keys == {view.members[k].name : k \in DOMAIN view.members}
        labels == {key.label : key \in keys}
        numbers == {key.label : key \in {key \in keys : key.numbered}}
    IN  CASE view.node = "scalar" -> TRUE
          [] view.node = "sequence" ->
                 \A k \in DOMAIN view.items : CborFound(index, view.items[k], Cbor!Child(index, node, k))
          [] view.node = "object" ->
                 /\ \A name \in labels \union {<<33>>} :
                        LET found == Cbor!Matching(source, index, node, name)
                        IN  /\ (found # {}) <=> Cbor!TextKey(name) \in keys
                            /\ found # {} /\ name \notin numbers =>
                                   Cbor!Labelled(Of(Cbor!FindField(index, node, found)))
                                       = ValueAt(tree.members, name)
                            /\ \A id \in {0, 24} :
                                   LET matching == Cbor!MatchingId(source, index, node, name, id)
                                   IN  /\ Cardinality(matching) = Cbor!CountById(view, name, id)
                                       /\ matching # {} =>
                                              Of(Cbor!FindField(index, node, matching)) = Cbor!ById(view, name, id)
                 /\ NamesIn(tree.members) = labels
                 /\ \A k \in DOMAIN view.members :
                        CborFound(index, view.members[k].tree, Cbor!Child(index, node, 2 * k))

CborDocumentFound(document) ==
    document.error = "none" =>
        LET root == Cbor!NodeAt(source, 1)
        IN  CborFound(document.index, Cbor!View(source, document.index, root), root)

FoundByName ==
    /\ format = "json" /\ JsonDynamic!ParseJson(source).error = "none" =>
           JsonFound(JsonTyped!Root(source).view, JsonDynamic!ParseJson(source).tree)
    /\ format = "dson" /\ DsonTyped!Root(source).error = "none" =>
           DsonFound(DsonTyped!Root(source), DsonDynamic!ParseDson(source).tree)
    /\ format \in CborFormats => CborDocumentFound(Cbor!Document(source))

(* The strings of JSON as RFC 8259 has them, in UTF-16: a string is read if   *)
(* its pieces are, and the units they stand for are well formed together,    *)
(* each high surrogate before a low one; and it is the UTF-8 of them.         *)
High(unit) == unit \in 55296 .. 56319
Low(unit) == unit \in 56320 .. 57343

UnitsOf(pieces) == FlattenSeq([i \in DOMAIN pieces |-> pieces[i].units])

InPairs(units) ==
    \A i \in DOMAIN units :
        /\ High(units[i]) => i < Len(units) /\ Low(units[i + 1])
        /\ Low(units[i]) => i > 1 /\ High(units[i - 1])

CodePoints(units) ==
    FlattenSeq([i \in DOMAIN units |->
        IF Low(units[i]) THEN <<>>
        ELSE IF High(units[i]) THEN <<65536 + (units[i] - 55296) * 1024 + units[i + 1] - 56320>>
        ELSE <<units[i]>>])

(* The only bytes that spell a code point. *)
Bytes(codepoint) ==
    CHOOSE bytes \in {<<codepoint>>, <<192 + codepoint \div 64, 128 + (codepoint % 64)>>,
                      <<224 + codepoint \div 4096, 128 + ((codepoint \div 64) % 64), 128 + (codepoint % 64)>>,
                      <<240 + codepoint \div 262144, 128 + ((codepoint \div 4096) % 64),
                        128 + ((codepoint \div 64) % 64), 128 + (codepoint % 64)>>} : WellFormed(bytes)

JsonStringsDecode ==
    format = "json_string" =>
        LET text == FlattenSeq([i \in DOMAIN source |-> source[i].text])
            units == UnitsOf(source)
            read == ReadJsonString(<<34>> \o text \o <<34>>)
        IN  /\ ReadJsonString(<<34>> \o text).error # "none"
            /\ IF (\E i \in DOMAIN source : source[i].ill) \/ ~InPairs(units) THEN read.error # "none"
               ELSE /\ read.error = "none"
                    /\ read.bytes = FlattenSeq([i \in DOMAIN CodePoints(units) |-> Bytes(CodePoints(units)[i])])

(* docs/dson.md: "The parser rejects count mismatches, duplicate keys,      *)
(* malformed numbers, invalid UTF-8, trailing input, and excessive          *)
(* nesting."  No source with a malformed tag is accepted.                   *)
MalformedRefused ==
    (format = "dson" /\ \E i \in DOMAIN source : source[i].is \in Malformed) =>
        /\ DsonTyped!Root(source).error # "none"
        /\ DsonDynamic!ParseDson(source).error # "none"

=============================================================================
