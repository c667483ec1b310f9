----------------------------- MODULE DsonParser -----------------------------
(***************************************************************************)
(* The recursive-descent DSON parser of src/serdde/dson_parser.dd, over the *)
(* tokens DsonWriter emits; a name token is any str(..) item, and so a     *)
(* value wherever a value may stand.  A declared count decides how many    *)
(* items are read and where a comma must stand; the closing mark must      *)
(* follow the last of them.                                                *)
(*                                                                         *)
(* A malformed tag is one that has its first letter and no more than a     *)
(* part of the rest, as in "i5)" for "i64(5)".  signed, unsigned, floating,*)
(* sequence and object call consume_word and drop its result, so they read *)
(* on after the part of the tag that is there.                             *)
(*                                                                         *)
(* RECURSIVE operators: for TLC's runs only.                               *)
(***************************************************************************)
EXTENDS Naturals, Sequences, WireTree

CONSTANTS
    NestingLimit,  (* 128 in the source                                     *)
    NotText        (* names whose bytes are not UTF-8, which string() rejects *)

Parsed(tree, next) == [error |-> "none", tree |-> tree, next |-> next]
Failed(message, next) == [error |-> message, tree |-> Leaf("none"), next |-> next]

At(tokens, i) == IF i \in DOMAIN tokens THEN tokens[i].is ELSE "end"

RECURSIVE SkipSpace(_, _)
SkipSpace(tokens, i) ==
    IF At(tokens, i) \in {"space", "newline"} THEN SkipSpace(tokens, i + 1) ELSE i

(* What each tag is read as. *)
ReadAs(mark) ==
    CASE mark = "malformed_scalar" -> "scalar"
      [] mark = "malformed_sequence" -> "begin_sequence"
      [] mark = "malformed_object" -> "begin_object"
      [] OTHER -> mark

RECURSIVE ParseValue(_, _, _), ParseItems(_, _, _, _, _), ParseMembers(_, _, _, _, _)

(* DsonParser.sequence: the items still to come after `items`, then ]) *)
ParseItems(tokens, i, depth, count, items) ==
    IF Len(items) = count
    THEN IF At(tokens, i) = "end_sequence" THEN Parsed(SequenceOf(items), i + 1)
         ELSE Failed("sequence count does not match its body", i)
    ELSE
    LET item == ParseValue(tokens, i, depth + 1)
        all == Append(items, item.tree)
        after == SkipSpace(tokens, item.next)
    IN  IF item.error # "none" THEN item
        ELSE IF Len(all) = count THEN ParseItems(tokens, after, depth, count, all)
        ELSE IF At(tokens, after) = "comma" THEN ParseItems(tokens, after + 1, depth, count, all)
        ELSE Failed("unexpected character", after)

(* DsonParser.object: the members still to come after `members`, then }) *)
ParseMembers(tokens, before, depth, count, members) ==
    IF Len(members) = count
    THEN IF At(tokens, before) = "end_object" THEN Parsed(ObjectOf(members), before + 1)
         ELSE Failed("object count does not match its body", before)
    ELSE
    LET i == SkipSpace(tokens, before)
        equals == SkipSpace(tokens, i + 1)
        value == ParseValue(tokens, equals + 1, depth + 1)
        all == SetField(members, tokens[i].of, value.tree)
        after == SkipSpace(tokens, value.next)
    IN  IF At(tokens, i) # "name" THEN Failed("invalid DSON tag", i)
        ELSE IF tokens[i].of \in NotText THEN Failed("string is not valid UTF-8", i)
        ELSE IF HasField(members, tokens[i].of) THEN Failed("duplicate object key", i + 1)
        ELSE IF At(tokens, equals) # "equals" THEN Failed("unexpected character", equals)
        ELSE IF value.error # "none" THEN value
        ELSE IF Len(all) = count THEN ParseMembers(tokens, after, depth, count, all)
        ELSE IF At(tokens, after) = "comma" THEN ParseMembers(tokens, after + 1, depth, count, all)
        ELSE Failed("unexpected character", after)

(* DsonParser.value *)
ParseValue(tokens, before, depth) ==
    LET i == SkipSpace(tokens, before)
        tag == ReadAs(At(tokens, i))
    IN  CASE tag = "scalar" -> Parsed(Leaf(tokens[i].of), i + 1)
          [] tag = "name" ->
                 IF tokens[i].of \in NotText THEN Failed("string is not valid UTF-8", i)
                 ELSE Parsed(Leaf(tokens[i].of), i + 1)
          [] tag \in {"begin_sequence", "begin_object"} ->
                 IF depth >= NestingLimit THEN Failed("DSON nesting depth exceeds 128", i)
                 ELSE IF tag = "begin_sequence"
                 THEN ParseItems(tokens, i + 1, depth, tokens[i].size, <<>>)
                 ELSE ParseMembers(tokens, i + 1, depth, tokens[i].size, <<>>)
          [] OTHER -> Failed("unknown DSON value tag", i)

(* parse_dson *)
ParseDson(tokens) ==
    LET root == ParseValue(tokens, 1, 0)
        after == SkipSpace(tokens, root.next)
    IN  IF root.error = "none" /\ after <= Len(tokens)
        THEN Failed("trailing characters after DSON value", after)
        ELSE root

=============================================================================
