---------------------------- MODULE JsonGrammar ----------------------------
(***************************************************************************)
(* Which text is JSON, and what value it spells: the rules of the grammar, *)
(* and derivations from them.  Unlike JsonParser this says nothing of how  *)
(* a text is read, and it is what the proofs about JsonWriter speak of.    *)
(*                                                                         *)
(* A grammar is given by the names and the scalars that can be spelt, and  *)
(* by whether an object may repeat a name; if so, the last value counts,   *)
(* in the place of the first.                                              *)
(***************************************************************************)
EXTENDS Integers, Sequences, JsonTokens, WireTree

Marks == {"begin_sequence", "end_sequence", "begin_object", "end_object", "comma", "colon"}

Tokens(grammar) ==
    {Mark(mark) : mark \in Marks}
    \union {NameToken(name) : name \in grammar.names}
    \union {ScalarToken(value) : value \in grammar.scalars}

ContainerKinds == {"sequence", "object"}

Opening(kind) == Mark(IF kind = "object" THEN "begin_object" ELSE "begin_sequence")
Closing(kind) == Mark(IF kind = "object" THEN "end_object" ELSE "end_sequence")
Inside(kind) == IF kind = "object" THEN "members" ELSE "items"
Node(kind, content) == IF kind = "object" THEN ObjectOf(content) ELSE SequenceOf(content)

(* A judgement: `text` is a value, the items of a sequence or the members   *)
(* of an object, and `tree` is what it spells.                              *)
Says(what, text, tree) == [what |-> what, text |-> text, tree |-> tree]

(* The rules, each from judgements that are known. *)
IsScalar(grammar, said) ==
    \E value \in grammar.scalars : said = Says("value", <<ScalarToken(value)>>, Leaf(value))

IsEmpty(said) ==
    \E kind \in ContainerKinds :
        said = Says("value", <<Opening(kind)>> \o <<Closing(kind)>>, Node(kind, <<>>))

IsFull(known, said) ==
    \E kind \in ContainerKinds, body \in known :
        /\ body.what = Inside(kind)
        /\ said = Says("value", <<Opening(kind)>> \o body.text \o <<Closing(kind)>>,
                       Node(kind, body.tree))

IsFirstItem(known, said) ==
    \E value \in known :
        /\ value.what = "value"
        /\ said = Says("items", value.text, Append(<<>>, value.tree))

IsNextItem(known, said) ==
    \E body, value \in known :
        /\ body.what = "items"
        /\ value.what = "value"
        /\ said = Says("items", body.text \o <<Mark("comma")>> \o value.text,
                       Append(body.tree, value.tree))

Label(name) == <<NameToken(name), Mark("colon")>>

IsFirstMember(grammar, known, said) ==
    \E name \in grammar.names, value \in known :
        /\ value.what = "value"
        /\ said = Says("members", Label(name) \o value.text, SetField(<<>>, name, value.tree))

IsNextMember(grammar, known, said) ==
    \E name \in grammar.names, body, value \in known :
        /\ body.what = "members"
        /\ value.what = "value"
        /\ grammar.repeats \/ ~HasField(body.tree, name)
        /\ said = Says("members", body.text \o <<Mark("comma")>> \o Label(name) \o value.text,
                       SetField(body.tree, name, value.tree))

Follows(grammar, known, said) ==
    \/ IsScalar(grammar, said)
    \/ IsEmpty(said)
    \/ IsFull(known, said)
    \/ IsFirstItem(known, said)
    \/ IsNextItem(known, said)
    \/ IsFirstMember(grammar, known, said)
    \/ IsNextMember(grammar, known, said)

(* n steps, each of which follows from those before it. *)
Derivation(grammar, steps, n) ==
    /\ n \in Nat
    /\ \A k \in 1 .. n : Follows(grammar, {steps[i] : i \in 1 .. k - 1}, steps[k])

Derivable(grammar, said) ==
    \E steps, n : Derivation(grammar, steps, n) /\ said \in {steps[i] : i \in 1 .. n}

(* `text` is a JSON document that spells `tree`. *)
Spells(grammar, text, tree) == Derivable(grammar, Says("value", text, tree))

=============================================================================
