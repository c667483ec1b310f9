----------------------------- MODULE JsonParser -----------------------------
(***************************************************************************)
(* The recursive-descent JSON parser of src/serdde/json_parser.dd, over the *)
(* tokens JsonWriter emits; a name token is any string, and so a value     *)
(* wherever a value may stand.  Parsing a value, an array or an object at a *)
(* position gives the tree, the position after it, and the message of the  *)
(* first error ("none" for none).                                          *)
(*                                                                         *)
(* RECURSIVE operators: for TLC's runs only.                               *)
(***************************************************************************)
EXTENDS Naturals, Sequences, WireTree

CONSTANT NestingLimit  (* 128 in the source *)

Parsed(tree, next) == [error |-> "none", tree |-> tree, next |-> next]
Failed(message, next) == [error |-> message, tree |-> Leaf("none"), next |-> next]

At(tokens, i) == IF i \in DOMAIN tokens THEN tokens[i].is ELSE "end"

RECURSIVE SkipSpace(_, _)
SkipSpace(tokens, i) ==
    IF At(tokens, i) \in {"space", "newline"} THEN SkipSpace(tokens, i + 1) ELSE i

RECURSIVE ParseValue(_, _, _), ParseItems(_, _, _, _), ParseMembers(_, _, _, _)

(* JsonParser.array, from its first item on *)
ParseItems(tokens, i, depth, items) ==
    LET item == ParseValue(tokens, i, depth + 1)
        all == Append(items, item.tree)
        after == SkipSpace(tokens, item.next)
    IN  IF item.error # "none" THEN item
        ELSE CASE At(tokens, after) = "end_sequence" -> Parsed(SequenceOf(all), after + 1)
               [] At(tokens, after) = "comma" -> ParseItems(tokens, after + 1, depth, all)
               [] OTHER -> Failed("expected ,", after)

(* JsonParser.object, from its first member on *)
ParseMembers(tokens, i, depth, members) ==
    LET colon == SkipSpace(tokens, i + 1)
        value == ParseValue(tokens, colon + 1, depth + 1)
        all == SetField(members, tokens[i].of, value.tree)
        after == SkipSpace(tokens, value.next)
    IN  IF At(tokens, i) # "name" THEN Failed("object key must be a string", i)
        ELSE IF HasField(members, tokens[i].of) THEN Failed("duplicate object key", i + 1)
        ELSE IF At(tokens, colon) # "colon" THEN Failed("expected :", colon)
        ELSE IF value.error # "none" THEN value
        ELSE CASE At(tokens, after) = "end_object" -> Parsed(ObjectOf(all), after + 1)
               [] At(tokens, after) = "comma" ->
                      ParseMembers(tokens, SkipSpace(tokens, after + 1), depth, all)
               [] OTHER -> Failed("expected ,", after)

(* JsonParser.value *)
ParseValue(tokens, before, depth) ==
    LET i == SkipSpace(tokens, before)
        inside == SkipSpace(tokens, i + 1)
    IN  CASE At(tokens, i) \in {"scalar", "name"} -> Parsed(Leaf(tokens[i].of), i + 1)
          [] At(tokens, i) \in {"begin_sequence", "begin_object"} /\ depth >= NestingLimit ->
                 Failed("JSON nesting depth exceeds the limit", i)
          [] At(tokens, i) = "begin_sequence" /\ depth < NestingLimit ->
                 IF At(tokens, inside) = "end_sequence" THEN Parsed(SequenceOf(<<>>), inside + 1)
                 ELSE ParseItems(tokens, inside, depth, <<>>)
          [] At(tokens, i) = "begin_object" /\ depth < NestingLimit ->
                 IF At(tokens, inside) = "end_object" THEN Parsed(ObjectOf(<<>>), inside + 1)
                 ELSE ParseMembers(tokens, inside, depth, <<>>)
          [] OTHER -> Failed("expected a JSON value", i)

(* parse_json *)
ParseJson(tokens) ==
    LET root == ParseValue(tokens, 1, 0)
        after == SkipSpace(tokens, root.next)
    IN  IF root.error = "none" /\ after <= Len(tokens)
        THEN Failed("trailing characters after JSON value", after)
        ELSE root

=============================================================================
