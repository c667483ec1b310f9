---------------------------- MODULE ValuePrinter ----------------------------
(***************************************************************************)
(* dumps_value of the three formats: what a dynamic Value is written as.   *)
(* JSON and DSON are printed straight into a text (src/serdde/json_writer  *)
(* .dd, dson_writer.dd), here the tokens of JsonWriter and DsonWriter;     *)
(* CBOR makes calls on a CborWriter (encode_value of cbor_value.dd), here  *)
(* those of ClassEncoder.                                                  *)
(*                                                                         *)
(* RECURSIVE operators: for TLC's runs only.                               *)
(***************************************************************************)
EXTENDS Naturals, Sequences, SequencesExt, WireTree

CONSTANT Unencodable  (* strings that are not UTF-8, floats that are not finite *)

(* JSON's tokens, and DSON's: theirs have a size, 0 but where a container opens. *)
Token(mark, of) == [is |-> mark, of |-> of]
Sized(mark, of, size) == [is |-> mark, of |-> of, size |-> size]

(* Mutant of Separated: a comma before the first item too. *)
SeparatedFromStart(comma, texts) ==
    FoldLeft(LAMBDA text, item : text \o <<comma>> \o item, <<>>, texts)

Separated(comma, texts) ==
    FoldLeftDomain(LAMBDA text, i : text \o (IF i = 1 THEN <<>> ELSE <<comma>>) \o texts[i],
                   <<>>, texts)

RECURSIVE Spells(_), JsonText(_), DsonText(_), EncodeValue(_)

(* Printing fails at the first string, key or float that has no spelling. *)
Spells(tree) ==
    CASE tree.node = "scalar" -> tree.value \notin Unencodable
      [] tree.node = "sequence" -> \A i \in DOMAIN tree.items : Spells(tree.items[i])
      [] tree.node = "object" ->
             \A i \in DOMAIN tree.members :
                 tree.members[i].name \notin Unencodable /\ Spells(tree.members[i].tree)

(* write_value *)
JsonText(tree) ==
    LET Mark(mark) == Token(mark, "none")
        Entry(member) == <<Token("name", member.name), Mark("colon")>> \o JsonText(member.tree)
    IN  CASE tree.node = "scalar" -> <<Token("scalar", tree.value)>>
          [] tree.node = "sequence" ->
                 <<Mark("begin_sequence")>>
                 \o Separated(Mark("comma"), [i \in DOMAIN tree.items |-> JsonText(tree.items[i])])
                 \o <<Mark("end_sequence")>>
          [] tree.node = "object" ->
                 <<Mark("begin_object")>>
                 \o Separated(Mark("comma"), [i \in DOMAIN tree.members |-> Entry(tree.members[i])])
                 \o <<Mark("end_object")>>

(* write_dson_value *)
DsonText(tree) ==
    LET Mark(mark) == Sized(mark, "none", 0)
        Entry(member) == <<Sized("name", member.name, 0), Mark("equals")>> \o DsonText(member.tree)
    IN  CASE tree.node = "scalar" -> <<Sized("scalar", tree.value, 0)>>
          [] tree.node = "sequence" ->
                 <<Sized("begin_sequence", "none", Len(tree.items))>>
                 \o Separated(Mark("comma"), [i \in DOMAIN tree.items |-> DsonText(tree.items[i])])
                 \o <<Mark("end_sequence")>>
          [] tree.node = "object" ->
                 <<Sized("begin_object", "none", Len(tree.members))>>
                 \o Separated(Mark("comma"), [i \in DOMAIN tree.members |-> Entry(tree.members[i])])
                 \o <<Mark("end_object")>>

(* dumps_value of JSON and DSON *)
Dumps(tree, text) ==
    IF Spells(tree) THEN [error |-> "none", text |-> text]
    ELSE [error |-> "unencodable", text |-> <<>>]

Call(method, size, name) == [method |-> method, size |-> size, name |-> name, id |-> 0]

(* encode_value *)
EncodeValue(tree) ==
    CASE tree.node = "scalar" -> <<Call("scalar", 0, tree.value)>>
      [] tree.node = "sequence" ->
             <<Call("begin_sequence", Len(tree.items), "none")>>
             \o FlattenSeq([i \in DOMAIN tree.items |-> EncodeValue(tree.items[i])])
             \o <<Call("end_sequence", 0, "none")>>
      [] tree.node = "object" ->
             <<Call("begin_object", Len(tree.members), "none")>>
             \o FlattenSeq([i \in DOMAIN tree.members |->
                    <<Call("field", 0, tree.members[i].name)>> \o EncodeValue(tree.members[i].tree)])
             \o <<Call("end_object", 0, "none")>>

=============================================================================
