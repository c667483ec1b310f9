------------------------- MODULE JsonGrammarProofs -------------------------
(***************************************************************************)
(* What the proofs about the writers need to know of JsonGrammar: that what *)
(* follows from derivable judgements is derivable, and how the text of      *)
(* nested containers that are still open grows to a document.               *)
(***************************************************************************)
EXTENDS JsonGrammar, SequenceFacts

(* Knowing more never hurts. *)
LEMMA Monotone ==
    ASSUME NEW grammar, NEW known, NEW more, known \subseteq more, NEW said,
           Follows(grammar, known, said)
    PROVE  Follows(grammar, more, said)
<1>1. IsFull(known, said) => IsFull(more, said)
    BY Zenon DEF IsFull
<1>2. IsFirstItem(known, said) => IsFirstItem(more, said)
    BY Zenon DEF IsFirstItem
<1>3. IsNextItem(known, said) => IsNextItem(more, said)
    BY Zenon DEF IsNextItem
<1>4. IsFirstMember(grammar, known, said) => IsFirstMember(grammar, more, said)
    BY Zenon DEF IsFirstMember
<1>5. IsNextMember(grammar, known, said) => IsNextMember(grammar, more, said)
    BY Zenon DEF IsNextMember
<1> QED BY <1>1, <1>2, <1>3, <1>4, <1>5, Zenon DEF Follows

(* Two derivations one after the other, and one step more. *)
LEMMA Derive ==
    ASSUME NEW grammar, NEW one, NEW two, Derivable(grammar, one), Derivable(grammar, two),
           NEW said, Follows(grammar, {one, two}, said)
    PROVE  Derivable(grammar, said)
<1>1. PICK a, m : Derivation(grammar, a, m) /\ one \in {a[i] : i \in 1 .. m}
    BY Zenon DEF Derivable
<1>2. PICK b, n : Derivation(grammar, b, n) /\ two \in {b[i] : i \in 1 .. n}
    BY Zenon DEF Derivable
<1> DEFINE last == m + n + 1
           c == [k \in 1 .. last |-> IF k <= m THEN a[k] ELSE IF k = last THEN said ELSE b[k - m]]
           Known(k) == {c[i] : i \in 1 .. k - 1}
<1>3. m \in Nat /\ n \in Nat /\ last \in Nat
    BY <1>1, <1>2 DEF Derivation
<1>4. /\ \A k \in 1 .. m : c[k] = a[k]
      /\ \A k \in 1 .. n : c[m + k] = b[k]
      /\ c[last] = said
    BY <1>3
<1> HIDE DEF c
<1>5. ASSUME NEW k \in 1 .. m PROVE Follows(grammar, Known(k), c[k])
    <2>1. {a[i] : i \in 1 .. k - 1} \subseteq Known(k)
        BY <1>3, <1>4
    <2>2. Follows(grammar, {a[i] : i \in 1 .. k - 1}, a[k])
        BY <1>1 DEF Derivation
    <2> HIDE DEF Known
    <2>3. Follows(grammar, Known(k), a[k])
        BY <2>1, <2>2, Monotone, Zenon
    <2> QED BY <1>4, <2>3
<1>6. ASSUME NEW k \in 1 .. n PROVE Follows(grammar, Known(m + k), c[m + k])
    <2>1. {b[i] : i \in 1 .. k - 1} \subseteq Known(m + k)
        <3>1. ASSUME NEW i \in 1 .. k - 1 PROVE b[i] \in Known(m + k)
            <4> DEFINE l == m + k
                       j == m + i
            <4>1. j \in 1 .. l - 1 /\ c[j] = b[i]
                BY <1>3, <1>4
            <4> HIDE DEF l, j
            <4>2. b[i] \in Known(l)
                BY <4>1
            <4> QED BY <4>2 DEF l
        <3> QED BY <3>1
    <2>2. Follows(grammar, {b[i] : i \in 1 .. k - 1}, b[k])
        BY <1>2 DEF Derivation
    <2> HIDE DEF Known
    <2>3. Follows(grammar, Known(m + k), b[k])
        BY <2>1, <2>2, Monotone, Zenon
    <2> QED BY <1>4, <2>3
<1>7. Follows(grammar, Known(last), c[last])
    <2>1. one \in Known(last)
        <3>1. PICK i \in 1 .. m : one = a[i]
            BY <1>1
        <3>2. i \in 1 .. last - 1 /\ c[i] = one
            BY <1>3, <1>4, <3>1
        <3> QED BY <3>2
    <2>2. two \in Known(last)
        <3>1. PICK i \in 1 .. n : two = b[i]
            BY <1>2
        <3>2. m + i \in 1 .. last - 1 /\ c[m + i] = two
            BY <1>3, <1>4, <3>1
        <3> QED BY <3>2
    <2> HIDE DEF Known, last
    <2>3. {one, two} \subseteq Known(last)
        BY <2>1, <2>2
    <2> QED BY <1>4, <2>3, Monotone, Zenon
<1>8. ASSUME NEW k \in 1 .. last PROVE Follows(grammar, Known(k), c[k])
    <2>1. CASE k <= m
        <3>1. k \in 1 .. m
            BY <1>3, <2>1
        <3> QED BY <1>5, <3>1
    <2>2. CASE k > m /\ k < last
        <3>1. k - m \in 1 .. n /\ m + (k - m) = k
            BY <1>3, <2>2
        <3>2. Follows(grammar, Known(m + (k - m)), c[m + (k - m)])
            BY <1>6, <3>1
        <3> HIDE DEF Known
        <3> QED BY <3>1, <3>2
    <2>3. CASE k = last
        BY <1>7, <2>3
    <2> QED BY <1>3, <2>1, <2>2, <2>3
<1>9. Derivation(grammar, c, last)
    BY <1>3, <1>8 DEF Derivation
<1>10. said \in {c[i] : i \in 1 .. last}
    BY <1>3, <1>4
<1> HIDE DEF last
<1> QED BY <1>9, <1>10 DEF Derivable

(* What follows from nothing, and from one judgement. *)
LEMMA DeriveFromNothing ==
    ASSUME NEW grammar, NEW said, Follows(grammar, {}, said)
    PROVE  Derivable(grammar, said)
<1> DEFINE c == [k \in 1 .. 1 |-> said]
<1>1. {c[i] : i \in 1 .. 1 - 1} = {} /\ \A k \in 1 .. 1 : k = 1 /\ c[k] = said
    OBVIOUS
<1> HIDE DEF c
<1>2. Derivation(grammar, c, 1)
    BY <1>1 DEF Derivation
<1>3. said \in {c[i] : i \in 1 .. 1}
    BY <1>1
<1> QED BY <1>2, <1>3 DEF Derivable

LEMMA DeriveFromOne ==
    ASSUME NEW grammar, NEW one, Derivable(grammar, one), NEW said, Follows(grammar, {one}, said)
    PROVE  Derivable(grammar, said)
<1>1. Follows(grammar, {one, one}, said)
    <2>1. {one, one} = {one}
        OBVIOUS
    <2> QED BY <2>1
<1> QED BY <1>1, Derive, Zenon

-----------------------------------------------------------------------------
(* A text that says anything consists of tokens. *)
LEMMA PunctuationIsTokens == ASSUME NEW grammar, NEW mark \in Marks PROVE <<Mark(mark)>> \in Seq(Tokens(grammar))
<1>1. Mark(mark) \in Tokens(grammar)
    BY DEF Tokens
<1> QED BY <1>1

LEMMA EndsAreTokens ==
    ASSUME NEW grammar, NEW kind \in ContainerKinds
    PROVE  <<Opening(kind)>> \in Seq(Tokens(grammar)) /\ <<Closing(kind)>> \in Seq(Tokens(grammar))
<1>1. CASE kind = "object"
    BY <1>1, PunctuationIsTokens DEF Opening, Closing, Marks
<1>2. CASE kind = "sequence"
    BY <1>2, PunctuationIsTokens DEF Opening, Closing, Marks
<1> QED BY <1>1, <1>2 DEF ContainerKinds

LEMMA LabelIsTokens ==
    ASSUME NEW grammar, NEW name \in grammar.names
    PROVE  Label(name) \in Seq(Tokens(grammar))
<1>1. NameToken(name) \in Tokens(grammar) /\ Mark("colon") \in Tokens(grammar)
    BY DEF Tokens, Marks
<1> QED BY <1>1 DEF Label

LEMMA CommaIsToken == ASSUME NEW grammar PROVE <<Mark("comma")>> \in Seq(Tokens(grammar))
BY PunctuationIsTokens DEF Marks

LEMMA TokensFollow ==
    ASSUME NEW grammar, NEW known, \A body \in known : body.text \in Seq(Tokens(grammar)),
           NEW said, Follows(grammar, known, said)
    PROVE  said.text \in Seq(Tokens(grammar))
<1> DEFINE S == Seq(Tokens(grammar))
<1>0. ASSUME NEW a \in S, NEW b \in S PROVE a \o b \in S
    OBVIOUS
<1>1. CASE IsScalar(grammar, said)
    <2>1. PICK value \in grammar.scalars : said = Says("value", <<ScalarToken(value)>>, Leaf(value))
        BY <1>1 DEF IsScalar
    <2>2. ScalarToken(value) \in Tokens(grammar)
        BY DEF Tokens
    <2> QED BY <2>1, <2>2 DEF Says
<1>2. CASE IsEmpty(said)
    <2>1. PICK kind \in ContainerKinds :
              said = Says("value", <<Opening(kind)>> \o <<Closing(kind)>>, Node(kind, <<>>))
        BY <1>2 DEF IsEmpty
    <2>2. said.text = <<Opening(kind)>> \o <<Closing(kind)>>
        BY <2>1, Zenon DEF Says
    <2>3. <<Opening(kind)>> \in S /\ <<Closing(kind)>> \in S
        BY EndsAreTokens
    <2> QED BY <1>0, <2>2, <2>3
<1>3. CASE IsFull(known, said)
    <2>1. PICK kind \in ContainerKinds, body \in known :
              said = Says("value", <<Opening(kind)>> \o body.text \o <<Closing(kind)>>,
                          Node(kind, body.tree))
        BY <1>3 DEF IsFull
    <2>2. said.text = <<Opening(kind)>> \o body.text \o <<Closing(kind)>>
        BY <2>1, Zenon DEF Says
    <2>3. <<Opening(kind)>> \in S /\ <<Closing(kind)>> \in S /\ body.text \in S
        BY EndsAreTokens
    <2>4. <<Opening(kind)>> \o body.text \in S
        BY <1>0, <2>3
    <2> QED BY <1>0, <2>2, <2>3, <2>4
<1>4. CASE IsFirstItem(known, said)
    BY <1>4 DEF IsFirstItem, Says
<1>5. CASE IsNextItem(known, said)
    <2>1. PICK body \in known, value \in known :
              said = Says("items", body.text \o <<Mark("comma")>> \o value.text,
                          Append(body.tree, value.tree))
        BY <1>5 DEF IsNextItem
    <2>2. said.text = body.text \o <<Mark("comma")>> \o value.text
        BY <2>1, Zenon DEF Says
    <2>3. body.text \in S /\ value.text \in S /\ <<Mark("comma")>> \in S
        BY CommaIsToken
    <2>4. body.text \o <<Mark("comma")>> \in S
        BY <1>0, <2>3
    <2> QED BY <1>0, <2>2, <2>3, <2>4
<1>6. CASE IsFirstMember(grammar, known, said)
    <2>1. PICK name \in grammar.names, value \in known :
              said = Says("members", Label(name) \o value.text, SetField(<<>>, name, value.tree))
        BY <1>6 DEF IsFirstMember
    <2>2. said.text = Label(name) \o value.text
        BY <2>1, Zenon DEF Says
    <2>3. value.text \in S /\ Label(name) \in S
        BY LabelIsTokens
    <2> QED BY <1>0, <2>2, <2>3
<1>7. CASE IsNextMember(grammar, known, said)
    <2>1. PICK name \in grammar.names, body \in known, value \in known :
              said = Says("members", body.text \o <<Mark("comma")>> \o Label(name) \o value.text,
                          SetField(body.tree, name, value.tree))
        BY <1>7 DEF IsNextMember
    <2>2. said.text = body.text \o <<Mark("comma")>> \o Label(name) \o value.text
        BY <2>1, Zenon DEF Says
    <2>3. body.text \in S /\ value.text \in S /\ Label(name) \in S /\ <<Mark("comma")>> \in S
        BY CommaIsToken, LabelIsTokens
    <2>4. body.text \o <<Mark("comma")>> \in S
        BY <1>0, <2>3
    <2>5. body.text \o <<Mark("comma")>> \o Label(name) \in S
        BY <1>0, <2>3, <2>4
    <2> QED BY <1>0, <2>2, <2>3, <2>5
<1> QED BY <1>1, <1>2, <1>3, <1>4, <1>5, <1>6, <1>7 DEF Follows

LEMMA TextsAreTokens ==
    ASSUME NEW grammar, NEW said, Derivable(grammar, said)
    PROVE  said.text \in Seq(Tokens(grammar))
<1>1. PICK steps, n : Derivation(grammar, steps, n) /\ said \in {steps[i] : i \in 1 .. n}
    BY Zenon DEF Derivable
<1> DEFINE T == {k \in 0 .. n : \A i \in 1 .. k : steps[i].text \in Seq(Tokens(grammar))}
<1>2. n \in Nat
    BY <1>1 DEF Derivation
<1>3. 0 \in T
    BY <1>2
<1>4. ASSUME NEW k \in 0 .. n - 1, k \in T PROVE k + 1 \in T
    <2> DEFINE known == {steps[i] : i \in 1 .. (k + 1) - 1}
    <2>1. \A body \in known : body.text \in Seq(Tokens(grammar))
        <3>1. \A i \in 1 .. (k + 1) - 1 : steps[i].text \in Seq(Tokens(grammar))
            BY <1>2, <1>4
        <3> QED BY <3>1
    <2>2. k + 1 \in 1 .. n
        BY <1>2
    <2>3. Follows(grammar, known, steps[k + 1])
        BY <1>1, <2>2 DEF Derivation
    <2> HIDE DEF known
    <2>4. steps[k + 1].text \in Seq(Tokens(grammar))
        BY <2>1, <2>3, TokensFollow
    <2>5. ASSUME NEW i \in 1 .. k + 1 PROVE steps[i].text \in Seq(Tokens(grammar))
        <3>1. CASE i = k + 1
            BY <2>4, <3>1
        <3>2. CASE i # k + 1
            <4>1. i \in 1 .. k
                BY <3>2
            <4> QED BY <1>4, <4>1
        <3> QED BY <3>1, <3>2
    <2> QED BY <1>2, <2>2, <2>5
<1> HIDE DEF T
<1>5. n \in T
    <2>1. 0 .. n \subseteq T
        BY <1>2, <1>3, <1>4, BoundedInduction
    <2> QED BY <1>2, <2>1
<1> QED BY <1>1, <1>5 DEF T

-----------------------------------------------------------------------------
(* A container in the making: `text` is what has been written of it, `tree` *)
(* what that holds.                                                        *)

Opened(kind, text, tree) == text = <<Opening(kind)>> /\ tree = Node(kind, <<>>)

Filled(grammar, kind, text, tree) ==
    \E body, content :
        /\ Derivable(grammar, Says(Inside(kind), body, content))
        /\ text = <<Opening(kind)>> \o body
        /\ tree = Node(kind, content)

Plus(kind, tree, name, item) ==
    Node(kind, IF kind = "object" THEN SetField(tree.members, name, item)
               ELSE Append(tree.items, item))

(* Whatever value comes next, the container holds it then. *)
Awaits(grammar, kind, text, tree, name) ==
    \A value, item :
        Spells(grammar, value, item) =>
            Filled(grammar, kind, text \o value, Plus(kind, tree, name, item))

(* set_field brings no name but its own. *)
LEMMA FieldSet ==
    ASSUME NEW members, IsSequence(members), NEW field, NEW tree
    PROVE  /\ IsSequence(SetField(members, field, tree))
           /\ \A name : HasField(SetField(members, field, tree), name) =>
                            name = field \/ HasField(members, name)
<1> DEFINE result == SetField(members, field, tree)
<1>1. CASE HasField(members, field)
    <2>1. result = [i \in DOMAIN members |->
                       IF members[i].name = field THEN Member(field, tree) ELSE members[i]]
        BY <1>1 DEF SetField
    <2>2. /\ DOMAIN result = DOMAIN members
          /\ \A i \in DOMAIN members : result[i].name = members[i].name
        BY <2>1 DEF Member
    <2>3. IsSequence(result)
        BY <2>1, <2>2, SequenceIsFunction, FunctionIsSequence
    <2> HIDE DEF result
    <2> QED BY <2>2, <2>3, Zenon DEF HasField, result
<1>2. CASE ~HasField(members, field)
    <2>1. result = Append(members, Member(field, tree))
        BY <1>2 DEF SetField
    <2> HIDE DEF result
    <2>2. /\ IsSequence(result)
          /\ Len(result) = Len(members) + 1
          /\ \A i \in 1 .. Len(members) : result[i] = members[i]
          /\ result[Len(members) + 1] = Member(field, tree)
        BY <2>1, Pushed
    <2>3. /\ Len(members) \in Nat
          /\ DOMAIN members = 1 .. Len(members)
          /\ DOMAIN result = 1 .. Len(members) + 1
          /\ result[Len(members) + 1].name = field
        BY <2>2, SequenceIsFunction DEF Member
    <2>4. \A name : HasField(result, name) => name = field \/ HasField(members, name)
        BY <2>2, <2>3 DEF HasField
    <2> QED BY <2>2, <2>4 DEF result
<1> QED BY <1>1, <1>2

LEMMA NodeParts ==
    ASSUME NEW content
    PROVE  /\ Node("sequence", content).items = content
           /\ Node("object", content).members = content
           /\ Inside("sequence") = "items" /\ Inside("object") = "members"
BY DEF Node, SequenceOf, ObjectOf, Inside

LEMMA SaysParts ==
    ASSUME NEW what, NEW text, NEW tree
    PROVE  /\ Says(what, text, tree).what = what
           /\ Says(what, text, tree).text = text
           /\ Says(what, text, tree).tree = tree
BY DEF Says

LEMMA ScalarSpelt ==
    ASSUME NEW grammar, NEW value \in grammar.scalars
    PROVE  Spells(grammar, <<ScalarToken(value)>>, Leaf(value))
<1> DEFINE said == Says("value", <<ScalarToken(value)>>, Leaf(value))
<1>1. IsScalar(grammar, said)
    BY DEF IsScalar
<1> HIDE DEF said
<1>2. Derivable(grammar, said)
    BY <1>1, DeriveFromNothing DEF Follows
<1> QED BY <1>2 DEF Spells, said

LEMMA EmptySpelt ==
    ASSUME NEW grammar, NEW kind \in ContainerKinds
    PROVE  Spells(grammar, <<Opening(kind)>> \o <<Closing(kind)>>, Node(kind, <<>>))
<1> DEFINE said == Says("value", <<Opening(kind)>> \o <<Closing(kind)>>, Node(kind, <<>>))
<1>1. IsEmpty(said)
    BY Zenon DEF IsEmpty
<1> HIDE DEF said
<1>2. Derivable(grammar, said)
    BY <1>1, DeriveFromNothing DEF Follows
<1> QED BY <1>2 DEF Spells, said

LEMMA FullSpelt ==
    ASSUME NEW grammar, NEW kind \in ContainerKinds, NEW body, NEW content,
           Derivable(grammar, Says(Inside(kind), body, content))
    PROVE  Spells(grammar, <<Opening(kind)>> \o body \o <<Closing(kind)>>, Node(kind, content))
<1> DEFINE one == Says(Inside(kind), body, content)
           said == Says("value", <<Opening(kind)>> \o body \o <<Closing(kind)>>, Node(kind, content))
<1>1. one.what = Inside(kind) /\ one.text = body /\ one.tree = content
    BY SaysParts
<1> HIDE DEF one
<1>2. IsFull({one}, said)
    <2>1. said = Says("value", <<Opening(kind)>> \o one.text \o <<Closing(kind)>>, Node(kind, one.tree))
        BY <1>1
    <2> HIDE DEF said
    <2> QED BY <1>1, <2>1 DEF IsFull
<1> HIDE DEF said
<1>3. Derivable(grammar, said)
    BY <1>2, DeriveFromOne DEF Follows, one
<1> QED BY <1>3 DEF Spells, said

(* A closed container is a value. *)
LEMMA ContainerClosed ==
    ASSUME NEW grammar, NEW kind \in ContainerKinds, NEW text, NEW tree,
           Opened(kind, text, tree) \/ Filled(grammar, kind, text, tree)
    PROVE  Spells(grammar, text \o <<Closing(kind)>>, tree)
<1>1. CASE Opened(kind, text, tree)
    BY <1>1, EmptySpelt DEF Opened
<1>2. CASE Filled(grammar, kind, text, tree)
    <2>1. PICK body, content :
              /\ Derivable(grammar, Says(Inside(kind), body, content))
              /\ text = <<Opening(kind)>> \o body
              /\ tree = Node(kind, content)
        BY <1>2 DEF Filled
    <2> QED BY <2>1, FullSpelt
<1> QED BY <1>1, <1>2

(* An item may follow the opening of a sequence ... *)
LEMMA FirstItemAwaited ==
    ASSUME NEW grammar, NEW text, NEW tree, Opened("sequence", text, tree), NEW name
    PROVE  Awaits(grammar, "sequence", text, tree, name)
<1> SUFFICES ASSUME NEW value, NEW item, Spells(grammar, value, item)
             PROVE  Filled(grammar, "sequence", text \o value, Plus("sequence", tree, name, item))
    BY DEF Awaits
<1> DEFINE one == Says("value", value, item)
           content == Append(<<>>, item)
           said == Says("items", value, content)
<1>1. one.what = "value" /\ one.text = value /\ one.tree = item /\ Derivable(grammar, one)
    BY SaysParts DEF Spells
<1> HIDE DEF one
<1>2. IsFirstItem({one}, said)
    <2>1. said = Says("items", one.text, Append(<<>>, one.tree))
        BY <1>1
    <2> HIDE DEF said
    <2> QED BY <1>1, <2>1 DEF IsFirstItem
<1> HIDE DEF said
<1>3. Derivable(grammar, said)
    BY <1>1, <1>2, DeriveFromOne DEF Follows
<1>4. Plus("sequence", tree, name, item) = Node("sequence", content)
    <2>1. tree.items = <<>>
        BY NodeParts DEF Opened
    <2> QED BY <2>1, Zenon DEF Plus
<1>5. text = <<Opening("sequence")>>
    BY DEF Opened
<1> HIDE DEF content
<1> QED BY <1>3, <1>4, <1>5, NodeParts, Zenon DEF Filled, said

(* ... or a comma after the items there are. *)
LEMMA NextItemAwaited ==
    ASSUME NEW grammar, NEW text, NEW tree, Filled(grammar, "sequence", text, tree), NEW name
    PROVE  Awaits(grammar, "sequence", text \o <<Mark("comma")>>, tree, name)
<1> SUFFICES ASSUME NEW value, NEW item, Spells(grammar, value, item)
             PROVE  Filled(grammar, "sequence", text \o <<Mark("comma")>> \o value,
                           Plus("sequence", tree, name, item))
    BY DEF Awaits
<1>1. PICK body, old :
          /\ Derivable(grammar, Says("items", body, old))
          /\ text = <<Opening("sequence")>> \o body
          /\ tree = Node("sequence", old)
    BY NodeParts DEF Filled
<1> DEFINE one == Says("items", body, old)
           two == Says("value", value, item)
           content == Append(old, item)
           more == body \o <<Mark("comma")>> \o value
           said == Says("items", more, content)
<1>2. /\ one.what = "items" /\ one.text = body /\ one.tree = old /\ Derivable(grammar, one)
      /\ two.what = "value" /\ two.text = value /\ two.tree = item /\ Derivable(grammar, two)
    BY <1>1, SaysParts DEF Spells
<1> HIDE DEF one, two
<1>3. IsNextItem({one, two}, said)
    <2>1. said = Says("items", one.text \o <<Mark("comma")>> \o two.text, Append(one.tree, two.tree))
        BY <1>2
    <2> HIDE DEF said
    <2> QED BY <1>2, <2>1 DEF IsNextItem
<1> HIDE DEF said
<1>4. Derivable(grammar, said)
    BY <1>2, <1>3, Derive DEF Follows
<1>5. Plus("sequence", tree, name, item) = Node("sequence", content)
    <2>1. tree.items = old
        BY <1>1, NodeParts
    <2> QED BY <2>1, Zenon DEF Plus
<1>6. text \o <<Mark("comma")>> \o value = <<Opening("sequence")>> \o more
    <2>1. /\ body \in Seq(Tokens(grammar)) /\ value \in Seq(Tokens(grammar))
          /\ <<Opening("sequence")>> \in Seq(Tokens(grammar))
          /\ <<Mark("comma")>> \in Seq(Tokens(grammar))
        BY <1>2, TextsAreTokens, EndsAreTokens, CommaIsToken DEF ContainerKinds
    <2> QED BY <1>1, <2>1, JoinFour
<1> HIDE DEF content, more
<1> QED BY <1>4, <1>5, <1>6, NodeParts, Zenon DEF Filled, said

(* A value may follow a name, after the opening of an object ... *)
LEMMA FirstMemberAwaited ==
    ASSUME NEW grammar, NEW text, NEW tree, Opened("object", text, tree),
           NEW name \in grammar.names
    PROVE  Awaits(grammar, "object", text \o Label(name), tree, name)
<1> SUFFICES ASSUME NEW value, NEW item, Spells(grammar, value, item)
             PROVE  Filled(grammar, "object", text \o Label(name) \o value,
                           Plus("object", tree, name, item))
    BY DEF Awaits
<1> DEFINE one == Says("value", value, item)
           content == SetField(<<>>, name, item)
           more == Label(name) \o value
           said == Says("members", more, content)
<1>1. one.what = "value" /\ one.text = value /\ one.tree = item /\ Derivable(grammar, one)
    BY SaysParts DEF Spells
<1> HIDE DEF one
<1>2. IsFirstMember(grammar, {one}, said)
    <2>1. said = Says("members", Label(name) \o one.text, SetField(<<>>, name, one.tree))
        BY <1>1
    <2> HIDE DEF said
    <2> QED BY <1>1, <2>1 DEF IsFirstMember
<1> HIDE DEF said
<1>3. Derivable(grammar, said)
    BY <1>1, <1>2, DeriveFromOne DEF Follows
<1>4. Plus("object", tree, name, item) = Node("object", content)
    <2>1. tree.members = <<>>
        BY NodeParts DEF Opened
    <2> QED BY <2>1, Zenon DEF Plus
<1>5. text \o Label(name) \o value = <<Opening("object")>> \o more
    <2>1. /\ value \in Seq(Tokens(grammar)) /\ Label(name) \in Seq(Tokens(grammar))
          /\ <<Opening("object")>> \in Seq(Tokens(grammar))
        BY <1>1, TextsAreTokens, EndsAreTokens, LabelIsTokens DEF ContainerKinds
    <2>2. text = <<Opening("object")>>
        BY DEF Opened
    <2> QED BY <2>1, <2>2, JoinTwice
<1> HIDE DEF content, more
<1> QED BY <1>3, <1>4, <1>5, NodeParts, Zenon DEF Filled, said

(* ... or a comma after the members there are. *)
LEMMA NextMemberAwaited ==
    ASSUME NEW grammar, NEW text, NEW tree, Filled(grammar, "object", text, tree),
           NEW name \in grammar.names, grammar.repeats \/ ~HasField(tree.members, name)
    PROVE  Awaits(grammar, "object", text \o <<Mark("comma")>> \o Label(name), tree, name)
<1> SUFFICES ASSUME NEW value, NEW item, Spells(grammar, value, item)
             PROVE  Filled(grammar, "object", text \o <<Mark("comma")>> \o Label(name) \o value,
                           Plus("object", tree, name, item))
    BY DEF Awaits
<1>1. PICK body, old :
          /\ Derivable(grammar, Says("members", body, old))
          /\ text = <<Opening("object")>> \o body
          /\ tree = Node("object", old)
    BY NodeParts DEF Filled
<1> DEFINE one == Says("members", body, old)
           two == Says("value", value, item)
           content == SetField(old, name, item)
           start == body \o <<Mark("comma")>> \o Label(name)
           more == start \o value
           said == Says("members", more, content)
<1>2. /\ one.what = "members" /\ one.text = body /\ one.tree = old /\ Derivable(grammar, one)
      /\ two.what = "value" /\ two.text = value /\ two.tree = item /\ Derivable(grammar, two)
    BY <1>1, SaysParts DEF Spells
<1>3. tree.members = old
    BY <1>1, NodeParts
<1> HIDE DEF one, two
<1>4. IsNextMember(grammar, {one, two}, said)
    <2>1. said = Says("members", one.text \o <<Mark("comma")>> \o Label(name) \o two.text,
                      SetField(one.tree, name, two.tree))
        BY <1>2
    <2>2. grammar.repeats \/ ~HasField(one.tree, name)
        BY <1>2, <1>3
    <2> HIDE DEF said
    <2> QED BY <1>2, <2>1, <2>2 DEF IsNextMember
<1> HIDE DEF said
<1>5. Derivable(grammar, said)
    BY <1>2, <1>4, Derive DEF Follows
<1>6. Plus("object", tree, name, item) = Node("object", content)
    BY <1>3, Zenon DEF Plus
<1>7. text \o <<Mark("comma")>> \o Label(name) \o value = <<Opening("object")>> \o more
    <2>1. /\ body \in Seq(Tokens(grammar)) /\ value \in Seq(Tokens(grammar))
          /\ <<Opening("object")>> \in Seq(Tokens(grammar))
          /\ <<Mark("comma")>> \in Seq(Tokens(grammar))
          /\ Label(name) \in Seq(Tokens(grammar))
        BY <1>2, TextsAreTokens, EndsAreTokens, CommaIsToken, LabelIsTokens DEF ContainerKinds
    <2>2. /\ start \in Seq(Tokens(grammar))
          /\ text \o <<Mark("comma")>> \o Label(name) = <<Opening("object")>> \o start
        BY <1>1, <2>1, JoinFour
    <2> HIDE DEF start
    <2>3. <<Opening("object")>> \o start \o value = <<Opening("object")>> \o (start \o value)
        BY <2>1, <2>2, JoinTwice
    <2> QED BY <2>2, <2>3, Zenon
<1> HIDE DEF content, more
<1> QED BY <1>5, <1>6, <1>7, NodeParts, Zenon DEF Filled, said

-----------------------------------------------------------------------------
(* Open containers inside one another.  A frame has a kind, says whether it  *)
(* is empty and whether a name waits for its value; a slot says what the     *)
(* container holds and which name waits.  `filling`: the next value of the   *)
(* container has begun.                                                     *)

Part(grammar, frame, slot, filling, text) ==
    IF filling \/ frame.expecting THEN Awaits(grammar, frame.kind, text, slot.tree, slot.field)
    ELSE IF frame.first THEN Opened(frame.kind, text, slot.tree)
    ELSE Filled(grammar, frame.kind, text, slot.tree)

(* What container i has contributed to the text, given what came before. *)
Fits(grammar, frame, slot, filling, before, after) ==
    \E part \in Seq(Tokens(grammar)) :
        after = before \o part /\ Part(grammar, frame, slot, filling, part)

(* The text of all of them: before[i] is what stands before container i. *)
TextSpelt(grammar, frames, text, slots, filling) ==
    \E before :
        /\ before[1] = <<>>
        /\ before[Len(frames) + 1] = text
        /\ \A i \in 1 .. Len(frames) + 1 : before[i] \in Seq(Tokens(grammar))
        /\ \A i \in 1 .. Len(frames) :
              Fits(grammar, frames[i], slots[i], filling \/ i < Len(frames), before[i], before[i + 1])

LEMMA TextIsTokens ==
    ASSUME NEW grammar, NEW frames, Len(frames) \in Nat, NEW text, NEW slots, NEW filling,
           TextSpelt(grammar, frames, text, slots, filling)
    PROVE  text \in Seq(Tokens(grammar))
<1>1. Len(frames) + 1 \in 1 .. Len(frames) + 1
    OBVIOUS
<1> QED BY <1>1 DEF TextSpelt

(* More text changes the innermost container only. *)
LEMMA TopChanged ==
    ASSUME NEW grammar, NEW frames, Len(frames) \in Nat \ {0}, NEW text, NEW slots,
           NEW filling \in BOOLEAN, TextSpelt(grammar, frames, text, slots, filling),
           NEW frames2, Len(frames2) = Len(frames), NEW slots2, NEW filling2 \in BOOLEAN,
           \A i \in 1 .. Len(frames) - 1 :
               frames2[i] = frames[i] /\ slots2[i] = slots[i],
           NEW more \in Seq(Tokens(grammar)),
           \A part \in Seq(Tokens(grammar)) :
               Part(grammar, frames[Len(frames)], slots[Len(frames)], filling, part) =>
                   Part(grammar, frames2[Len(frames)], slots2[Len(frames)], filling2, part \o more)
    PROVE  TextSpelt(grammar, frames2, text \o more, slots2, filling2)
<1> DEFINE n == Len(frames)
<1>1. PICK before :
          /\ before[1] = <<>>
          /\ before[n + 1] = text
          /\ \A i \in 1 .. n + 1 : before[i] \in Seq(Tokens(grammar))
          /\ \A i \in 1 .. n :
                Fits(grammar, frames[i], slots[i], filling \/ i < n, before[i], before[i + 1])
    BY Zenon DEF TextSpelt
<1> DEFINE after == [i \in 1 .. n + 1 |-> IF i = n + 1 THEN text \o more ELSE before[i]]
<1>2. /\ n \in Nat \ {0}
      /\ after[n + 1] = text \o more
      /\ \A i \in 1 .. n : after[i] = before[i]
    OBVIOUS
<1> HIDE DEF after
<1>3. after[1] = <<>>
    BY <1>1, <1>2
<1>4. ASSUME NEW i \in 1 .. n + 1 PROVE after[i] \in Seq(Tokens(grammar))
    <2>1. CASE i = n + 1
        <3>1. text \in Seq(Tokens(grammar))
            <4>1. n + 1 \in 1 .. n + 1
                BY <1>2
            <4> QED BY <1>1, <4>1, Zenon
        <3>2. text \o more \in Seq(Tokens(grammar))
            BY <3>1
        <3> QED BY <1>2, <2>1, <3>2, Zenon
    <2>2. CASE i # n + 1
        <3>1. i \in 1 .. n
            BY <1>2, <2>2
        <3> QED BY <1>1, <1>2, <3>1
    <2> QED BY <2>1, <2>2
<1>5. ASSUME NEW i \in 1 .. n
      PROVE  Fits(grammar, frames2[i], slots2[i], filling2 \/ i < n, after[i], after[i + 1])
    <2>1. CASE i = n
        <3>1. Fits(grammar, frames[n], slots[n], filling, before[n], text)
            <4>1. n \in 1 .. n /\ (filling \/ n < n) = filling
                BY <1>2
            <4> QED BY <1>1, <4>1
        <3>2. PICK part \in Seq(Tokens(grammar)) :
                  text = before[n] \o part /\ Part(grammar, frames[n], slots[n], filling, part)
            BY <3>1 DEF Fits
        <3>3. Part(grammar, frames2[n], slots2[n], filling2, part \o more)
            BY <3>2
        <3>4. /\ part \o more \in Seq(Tokens(grammar))
              /\ text \o more = before[n] \o (part \o more)
            <4> DEFINE start == before[n]
            <4>1. start \in Seq(Tokens(grammar))
                <5>1. n \in 1 .. n + 1
                    BY <1>2
                <5> QED BY <1>1, <5>1
            <4> HIDE DEF start
            <4>2. part \o more \in Seq(Tokens(grammar)) /\ start \o part \o more = start \o (part \o more)
                BY <4>1, JoinTwice
            <4> QED BY <3>2, <4>2, Zenon DEF start
        <3>5. Fits(grammar, frames2[n], slots2[n], filling2, before[n], text \o more)
            BY <3>3, <3>4 DEF Fits
        <3>6. (filling2 \/ i < n) = filling2 /\ after[i] = before[n] /\ after[i + 1] = text \o more
            BY <1>2, <2>1
        <3> QED BY <2>1, <3>5, <3>6
    <2>2. CASE i # n
        <3>1. /\ i \in 1 .. n - 1 /\ i + 1 \in 1 .. n
              /\ (filling \/ i < n) = TRUE /\ (filling2 \/ i < n) = TRUE
            BY <1>2, <2>2
        <3> QED BY <1>1, <1>2, <3>1
    <2> QED BY <2>1, <2>2
<1> QED BY <1>2, <1>3, <1>4, <1>5, Zenon DEF TextSpelt

(* A container opened where a value is awaited. *)
LEMMA ContainerPushed ==
    ASSUME NEW grammar, NEW frames, Len(frames) \in Nat, NEW text, NEW slots,
           TextSpelt(grammar, frames, text, slots, TRUE),
           NEW frames2, Len(frames2) = Len(frames) + 1, NEW slots2,
           \A i \in 1 .. Len(frames) : frames2[i] = frames[i] /\ slots2[i] = slots[i],
           NEW kind \in ContainerKinds, frames2[Len(frames) + 1].kind = kind,
           frames2[Len(frames) + 1].first, ~frames2[Len(frames) + 1].expecting,
           slots2[Len(frames) + 1].tree = Node(kind, <<>>)
    PROVE  TextSpelt(grammar, frames2, text \o <<Opening(kind)>>, slots2, FALSE)
<1> DEFINE n == Len(frames)
           more == <<Opening(kind)>>
<1>1. PICK before :
          /\ before[1] = <<>>
          /\ before[n + 1] = text
          /\ \A i \in 1 .. n + 1 : before[i] \in Seq(Tokens(grammar))
          /\ \A i \in 1 .. n :
                Fits(grammar, frames[i], slots[i], TRUE \/ i < n, before[i], before[i + 1])
    BY Zenon DEF TextSpelt
<1>2. more \in Seq(Tokens(grammar))
    BY EndsAreTokens
<1>3. Part(grammar, frames2[n + 1], slots2[n + 1], FALSE, more)
    BY DEF Part, Opened
<1> HIDE DEF more
<1> DEFINE after == [i \in 1 .. n + 2 |-> IF i = n + 2 THEN text \o more ELSE before[i]]
<1>4. /\ n \in Nat
      /\ after[n + 2] = text \o more
      /\ \A i \in 1 .. n + 1 : after[i] = before[i]
    OBVIOUS
<1> HIDE DEF after
<1>5. text \in Seq(Tokens(grammar)) /\ text \o more \in Seq(Tokens(grammar))
    <2>1. text \in Seq(Tokens(grammar))
        <3>1. n + 1 \in 1 .. n + 1
            BY <1>4
        <3> QED BY <1>1, <3>1, Zenon
    <2> QED BY <1>2, <2>1
<1>6. after[1] = <<>>
    BY <1>1, <1>4
<1>7. ASSUME NEW i \in 1 .. n + 2 PROVE after[i] \in Seq(Tokens(grammar))
    <2>1. CASE i = n + 2
        BY <1>4, <1>5, <2>1, Zenon
    <2>2. CASE i # n + 2
        <3>1. i \in 1 .. n + 1
            BY <1>4, <2>2
        <3> QED BY <1>1, <1>4, <3>1, Zenon
    <2> QED BY <2>1, <2>2
<1>8. ASSUME NEW i \in 1 .. n + 1
      PROVE  Fits(grammar, frames2[i], slots2[i], FALSE \/ i < n + 1, after[i], after[i + 1])
    <2>1. CASE i = n + 1
        <3>1. Fits(grammar, frames2[n + 1], slots2[n + 1], FALSE, text, text \o more)
            BY <1>2, <1>3 DEF Fits
        <3>2. (FALSE \/ i < n + 1) = FALSE /\ after[i] = text /\ after[i + 1] = text \o more
            <4>1. i + 1 = n + 2 /\ i \in 1 .. n + 1
                BY <1>4, <2>1
            <4>2. (FALSE \/ i < n + 1) = FALSE
                BY <1>4, <2>1
            <4> QED BY <1>1, <1>4, <2>1, <4>1, <4>2, Zenon
        <3> QED BY <2>1, <3>1, <3>2, Zenon
    <2>2. CASE i # n + 1
        <3>1. /\ i \in 1 .. n /\ i \in 1 .. n + 1 /\ i + 1 \in 1 .. n + 1
              /\ (TRUE \/ i < n) = TRUE /\ (FALSE \/ i < n + 1) = TRUE
            BY <1>4, <2>2
        <3> QED BY <1>1, <1>4, <3>1, Zenon
    <2> QED BY <2>1, <2>2
<1>9. Len(frames2) = n + 1 /\ Len(frames2) + 1 = n + 2
    BY <1>4
<1>10. TextSpelt(grammar, frames2, text \o more, slots2, FALSE)
    BY <1>4, <1>6, <1>7, <1>8, <1>9, Zenon DEF TextSpelt
<1> QED BY <1>10 DEF more

(* The innermost container is closed: it is a value, and the one around it  *)
(* awaits it.                                                               *)
LEMMA ContainerPopped ==
    ASSUME NEW grammar, NEW frames, Len(frames) \in Nat \ {0}, NEW text, NEW slots,
           TextSpelt(grammar, frames, text, slots, FALSE),
           NEW frames2, Len(frames2) = Len(frames) - 1, NEW slots2,
           \A i \in 1 .. Len(frames) - 1 : frames2[i] = frames[i] /\ slots2[i] = slots[i],
           frames[Len(frames)].kind \in ContainerKinds, ~frames[Len(frames)].expecting
    PROVE  \E start \in Seq(Tokens(grammar)), value \in Seq(Tokens(grammar)) :
              /\ text \o <<Closing(frames[Len(frames)].kind)>> = start \o value
              /\ Spells(grammar, value, slots[Len(frames)].tree)
              /\ TextSpelt(grammar, frames2, start, slots2, TRUE)
              /\ Len(frames) = 1 => start = <<>>
<1> DEFINE n == Len(frames)
           more == <<Closing(frames[n].kind)>>
<1>1. PICK before :
          /\ before[1] = <<>>
          /\ before[n + 1] = text
          /\ \A i \in 1 .. n + 1 : before[i] \in Seq(Tokens(grammar))
          /\ \A i \in 1 .. n :
                Fits(grammar, frames[i], slots[i], FALSE \/ i < n, before[i], before[i + 1])
    BY Zenon DEF TextSpelt
<1>2. n \in Nat \ {0} /\ n \in 1 .. n /\ n \in 1 .. n + 1 /\ (FALSE \/ n < n) = FALSE
    OBVIOUS
<1> DEFINE start == before[n]
<1>3. start \in Seq(Tokens(grammar)) /\ (n = 1 => start = <<>>)
    BY <1>1, <1>2
<1>4. Fits(grammar, frames[n], slots[n], FALSE, start, text)
    BY <1>1, <1>2
<1>5. PICK part \in Seq(Tokens(grammar)) :
          text = start \o part /\ Part(grammar, frames[n], slots[n], FALSE, part)
    BY <1>4 DEF Fits
<1>6. more \in Seq(Tokens(grammar))
    BY EndsAreTokens
<1>7. Spells(grammar, part \o more, slots[n].tree)
    <2>1. \/ Opened(frames[n].kind, part, slots[n].tree)
          \/ Filled(grammar, frames[n].kind, part, slots[n].tree)
        BY <1>5 DEF Part
    <2> QED BY <2>1, ContainerClosed
<1> HIDE DEF start, more
<1>8. part \o more \in Seq(Tokens(grammar)) /\ text \o more = start \o (part \o more)
    BY <1>3, <1>5, <1>6, JoinTwice
<1>9. TextSpelt(grammar, frames2, start, slots2, TRUE)
    <2>1. ASSUME NEW i \in 1 .. n - 1
          PROVE  Fits(grammar, frames2[i], slots2[i], TRUE \/ i < n - 1, before[i], before[i + 1])
        <3>1. i \in 1 .. n /\ (FALSE \/ i < n) = TRUE /\ (TRUE \/ i < n - 1) = TRUE
            BY <1>2
        <3> QED BY <1>1, <3>1, Zenon
    <2>2. Len(frames2) = n - 1 /\ Len(frames2) + 1 = n
        BY <1>2
    <2>3. \A i \in 1 .. n : before[i] \in Seq(Tokens(grammar))
        BY <1>1, <1>2
    <2> QED BY <1>1, <2>1, <2>2, <2>3, Zenon DEF TextSpelt, start
<1> QED BY <1>3, <1>7, <1>8, <1>9 DEF more

(* The calls of a writer, on the text it has.  A value begins in the        *)
(* innermost container, after a comma if it is not the first of a sequence. *)
LEMMA ValueBegun ==
    ASSUME NEW grammar, NEW frames, Len(frames) \in Nat, NEW text, NEW slots,
           TextSpelt(grammar, frames, text, slots, FALSE),
           NEW frames2, Len(frames2) = Len(frames),
           \A i \in 1 .. Len(frames) - 1 : frames2[i] = frames[i],
           Len(frames) # 0 =>
               /\ frames[Len(frames)].kind \in ContainerKinds
               /\ frames[Len(frames)].expecting <=> frames[Len(frames)].kind = "object"
               /\ frames2[Len(frames)].kind = frames[Len(frames)].kind,
           NEW separator,
           separator = IF Len(frames) # 0 /\ frames[Len(frames)].kind = "sequence"
                                          /\ ~frames[Len(frames)].first
                       THEN <<Mark("comma")>> ELSE <<>>
    PROVE  TextSpelt(grammar, frames2, text \o separator, slots, TRUE)
<1> DEFINE n == Len(frames)
<1>1. CASE n = 0
    <2>1. PICK before :
              /\ before[1] = <<>>
              /\ before[n + 1] = text
              /\ \A i \in 1 .. n + 1 : before[i] \in Seq(Tokens(grammar))
        BY Zenon DEF TextSpelt
    <2>2. n + 1 = 1 /\ text \o separator = text
        BY <1>1, <2>1
    <2>3. \A i \in 1 .. n : FALSE
        BY <1>1
    <2> QED BY <2>1, <2>2, <2>3, Zenon DEF TextSpelt
<1>2. CASE n # 0
    <2> DEFINE frame == frames[n]
               slot == slots[n]
    <2>1. separator \in Seq(Tokens(grammar))
        BY CommaIsToken
    <2>2. ASSUME NEW part \in Seq(Tokens(grammar)), Part(grammar, frame, slot, FALSE, part)
          PROVE  Part(grammar, frames2[n], slots[n], TRUE, part \o separator)
        <3>1. CASE frame.kind = "object"
            <4>1. Awaits(grammar, "object", part, slot.tree, slot.field)
                BY <1>2, <2>2, <3>1 DEF Part
            <4>2. part \o separator = part
                BY <1>2, <3>1
            <4> QED BY <1>2, <3>1, <4>1, <4>2 DEF Part
        <3>2. CASE frame.kind = "sequence" /\ frame.first
            <4>1. Awaits(grammar, "sequence", part, slot.tree, slot.field)
                BY <1>2, <2>2, <3>2, FirstItemAwaited DEF Part
            <4>2. part \o separator = part
                BY <1>2, <3>2
            <4> QED BY <1>2, <3>2, <4>1, <4>2 DEF Part
        <3>3. CASE frame.kind = "sequence" /\ ~frame.first
            <4>1. Awaits(grammar, "sequence", part \o <<Mark("comma")>>, slot.tree, slot.field)
                BY <1>2, <2>2, <3>3, NextItemAwaited DEF Part
            <4> QED BY <1>2, <3>3, <4>1 DEF Part
        <3> QED BY <1>2, <3>1, <3>2, <3>3 DEF ContainerKinds
    <2> QED BY <1>2, <2>1, <2>2, TopChanged
<1> QED BY <1>1, <1>2

(* The value that has begun is finished, and the container holds it. *)
LEMMA ValueEnded ==
    ASSUME NEW grammar, NEW frames, Len(frames) \in Nat \ {0}, NEW text, NEW slots,
           TextSpelt(grammar, frames, text, slots, TRUE),
           ~frames[Len(frames)].expecting, ~frames[Len(frames)].first,
           NEW value, NEW item, Spells(grammar, value, item), NEW slots2,
           \A i \in 1 .. Len(frames) - 1 : slots2[i] = slots[i],
           slots2[Len(frames)].tree =
               Plus(frames[Len(frames)].kind, slots[Len(frames)].tree, slots[Len(frames)].field, item)
    PROVE  TextSpelt(grammar, frames, text \o value, slots2, FALSE)
<1> DEFINE n == Len(frames)
<1>1. value \in Seq(Tokens(grammar))
    BY TextsAreTokens, SaysParts DEF Spells
<1>2. ASSUME NEW part \in Seq(Tokens(grammar)), Part(grammar, frames[n], slots[n], TRUE, part)
      PROVE  Part(grammar, frames[n], slots2[n], FALSE, part \o value)
    BY <1>2 DEF Part, Awaits
<1> QED BY <1>1, <1>2, TopChanged

(* A name is given in the innermost container, an object. *)
LEMMA NameGiven ==
    ASSUME NEW grammar, NEW frames, Len(frames) \in Nat \ {0}, NEW text, NEW slots,
           TextSpelt(grammar, frames, text, slots, FALSE),
           frames[Len(frames)].kind = "object", ~frames[Len(frames)].expecting,
           NEW frames2, Len(frames2) = Len(frames), NEW slots2,
           \A i \in 1 .. Len(frames) - 1 : frames2[i] = frames[i] /\ slots2[i] = slots[i],
           frames2[Len(frames)].kind = "object", frames2[Len(frames)].expecting,
           NEW name \in grammar.names,
           grammar.repeats \/ ~HasField(slots[Len(frames)].tree.members, name),
           slots2[Len(frames)].tree = slots[Len(frames)].tree,
           slots2[Len(frames)].field = name,
           NEW lead, lead = IF frames[Len(frames)].first THEN <<>> ELSE <<Mark("comma")>>
    PROVE  TextSpelt(grammar, frames2, text \o lead \o Label(name), slots2, FALSE)
<1> DEFINE n == Len(frames)
           more == lead \o Label(name)
<1>1. lead \in Seq(Tokens(grammar)) /\ Label(name) \in Seq(Tokens(grammar))
    BY CommaIsToken, LabelIsTokens
<1>2. more \in Seq(Tokens(grammar))
    BY <1>1
<1>3. ASSUME NEW part \in Seq(Tokens(grammar)), Part(grammar, frames[n], slots[n], FALSE, part)
      PROVE  Part(grammar, frames2[n], slots2[n], FALSE, part \o more)
    <2>1. Joins(Tokens(grammar), part, lead, Label(name))
        BY <1>1, AnyThreeJoin, Zenon
    <2>2. Awaits(grammar, "object", part \o lead \o Label(name), slots[n].tree, name)
        <3>1. CASE frames[n].first
            <4>1. Opened("object", part, slots[n].tree)
                BY <1>3, <3>1 DEF Part
            <4>2. part \o lead = part
                BY <3>1
            <4> QED BY <4>1, <4>2, FirstMemberAwaited
        <3>2. CASE ~frames[n].first
            <4>1. Filled(grammar, "object", part, slots[n].tree)
                BY <1>3, <3>2 DEF Part
            <4> QED BY <3>2, <4>1, NextMemberAwaited
        <3> QED BY <3>1, <3>2
    <2>3. part \o more = part \o lead \o Label(name)
        BY <2>1, Zenon DEF Joins
    <2> QED BY <2>2, <2>3 DEF Part
<1> HIDE DEF more
<1>4. TextSpelt(grammar, frames2, text \o more, slots2, FALSE)
    BY <1>2, <1>3, TopChanged
<1>5. text \in Seq(Tokens(grammar))
    BY TextIsTokens
<1>6. Joins(Tokens(grammar), text, lead, Label(name))
    BY <1>1, <1>5, AnyThreeJoin, Zenon
<1> QED BY <1>4, <1>6, Zenon DEF more, Joins

(* Where nothing is open there is no text. *)
LEMMA NothingOpen ==
    ASSUME NEW grammar, NEW frames, Len(frames) = 0, NEW slots, NEW filling
    PROVE  TextSpelt(grammar, frames, <<>>, slots, filling)
<1> DEFINE before == [i \in 1 .. 1 |-> <<>>]
<1>1. before[1] = <<>> /\ \A i \in 1 .. 1 : before[i] \in Seq(Tokens(grammar))
    OBVIOUS
<1>2. Len(frames) + 1 = 1 /\ (\A i \in 1 .. Len(frames) : FALSE)
    OBVIOUS
<1> HIDE DEF before
<1> QED BY <1>1, <1>2, Zenon DEF TextSpelt

LEMMA NothingOpenNoText ==
    ASSUME NEW grammar, NEW frames, Len(frames) = 0, NEW text, NEW slots, NEW filling,
           TextSpelt(grammar, frames, text, slots, filling)
    PROVE  text = <<>>
<1>1. Len(frames) + 1 = 1
    OBVIOUS
<1> QED BY <1>1, Zenon DEF TextSpelt

(* Whatever is open can be closed: a value for the name that waits, if one  *)
(* does, and a closing mark for each container.                             *)
LEMMA TextCompletes ==
    ASSUME NEW grammar, NEW frames, Len(frames) \in Nat \ {0}, NEW text, NEW slots,
           TextSpelt(grammar, frames, text, slots, FALSE),
           \A i \in 1 .. Len(frames) : frames[i].kind \in ContainerKinds
    PROVE  \E rest \in Seq(Tokens(grammar)) : \E tree : Spells(grammar, text \o rest, tree)
<1> DEFINE n == Len(frames)
<1>1. PICK before :
          /\ before[1] = <<>>
          /\ before[n + 1] = text
          /\ \A i \in 1 .. n + 1 : before[i] \in Seq(Tokens(grammar))
          /\ \A i \in 1 .. n :
                Fits(grammar, frames[i], slots[i], FALSE \/ i < n, before[i], before[i + 1])
    BY Zenon DEF TextSpelt
<1> DEFINE Reaches(i) ==
               \E rest, value \in Seq(Tokens(grammar)) : \E tree :
                   Spells(grammar, value, tree) /\ text \o rest = before[i] \o value
           T == {k \in 0 .. n - 1 : Reaches(n - k)}
<1>2. n \in Nat \ {0} /\ text \in Seq(Tokens(grammar))
    <2>1. n + 1 \in 1 .. n + 1
        OBVIOUS
    <2> QED BY <1>1, <2>1, Zenon
<1> HIDE DEF T
<1>3. 0 \in T
    <2> DEFINE kind == frames[n].kind
               start == before[n]
    <2>1. n \in 1 .. n /\ n \in 1 .. n + 1 /\ (FALSE \/ n < n) = FALSE /\ 0 \in 0 .. n - 1 /\ n - 0 = n
        BY <1>2
    <2>2. start \in Seq(Tokens(grammar)) /\ kind \in ContainerKinds
        BY <1>1, <2>1
    <2>3. PICK part \in Seq(Tokens(grammar)) :
              text = start \o part /\ Part(grammar, frames[n], slots[n], FALSE, part)
        <3>1. Fits(grammar, frames[n], slots[n], FALSE, start, text)
            BY <1>1, <2>1
        <3> QED BY <3>1 DEF Fits
    <2>4. \E more \in Seq(Tokens(grammar)) : \E tree :
              \/ Opened(kind, part \o more, tree)
              \/ Filled(grammar, kind, part \o more, tree)
        <3>1. CASE frames[n].expecting
            <4> DEFINE more == <<Opening("sequence")>> \o <<Closing("sequence")>>
            <4>1. Spells(grammar, more, Node("sequence", <<>>))
                BY EmptySpelt DEF ContainerKinds
            <4> HIDE DEF more
            <4>2. more \in Seq(Tokens(grammar))
                BY <4>1, TextsAreTokens, SaysParts DEF Spells
            <4>3. Awaits(grammar, kind, part, slots[n].tree, slots[n].field)
                BY <2>3, <3>1 DEF Part
            <4> QED BY <4>1, <4>2, <4>3 DEF Awaits
        <3>2. CASE ~frames[n].expecting
            <4>1. part \o <<>> = part /\ <<>> \in Seq(Tokens(grammar))
                OBVIOUS
            <4> QED BY <2>3, <3>2, <4>1 DEF Part
        <3> QED BY <3>1, <3>2
    <2>more. PICK more \in Seq(Tokens(grammar)) :
              \E tree : \/ Opened(kind, part \o more, tree)
                        \/ Filled(grammar, kind, part \o more, tree)
        BY <2>4
    <2>5. PICK tree : \/ Opened(kind, part \o more, tree)
                      \/ Filled(grammar, kind, part \o more, tree)
        BY <2>more
    <2> DEFINE closing == <<Closing(kind)>>
    <2>6. Spells(grammar, part \o more \o closing, tree)
        BY <2>2, <2>5, ContainerClosed
    <2>7. closing \in Seq(Tokens(grammar))
        BY <2>2, EndsAreTokens
    <2> HIDE DEF closing, start
    <2>8. /\ more \o closing \in Seq(Tokens(grammar))
          /\ part \o more \o closing \in Seq(Tokens(grammar))
          /\ part \o more \o closing = part \o (more \o closing)
        BY <2>7, JoinTwice
    <2> DEFINE rest == more \o closing
               whole == part \o more \o closing
    <2>9. rest \in Seq(Tokens(grammar)) /\ whole \in Seq(Tokens(grammar)) /\ whole = part \o rest
        BY <2>8
    <2> HIDE DEF rest
    <2>10. start \o part \o rest = start \o (part \o rest)
        BY <2>2, <2>9, JoinTwice
    <2>11. Reaches(n)
        <3>1. Spells(grammar, whole, tree)
            BY <2>6
        <3> HIDE DEF whole
        <3>2. text \o rest = start \o whole
            BY <2>3, <2>9, <2>10, Zenon
        <3> QED BY <2>9, <3>1, <3>2, Zenon DEF start
    <2> HIDE DEF Reaches
    <2> QED BY <2>1, <2>11 DEF T
<1>4. ASSUME NEW k \in 0 .. (n - 1) - 1, k \in T PROVE k + 1 \in T
    <2> DEFINE i == (n - k) - 1
               start == before[i]
               kind == frames[i].kind
    <2>1. /\ i \in 1 .. n /\ i \in 1 .. n + 1 /\ i + 1 = n - k /\ (FALSE \/ i < n) = TRUE
          /\ k + 1 \in 0 .. n - 1 /\ n - (k + 1) = i
        BY <1>2
    <2>rest. PICK rest, value \in Seq(Tokens(grammar)) :
              \E tree : Spells(grammar, value, tree) /\ text \o rest = before[i + 1] \o value
        BY <1>4, <2>1 DEF T
    <2>2. PICK tree : Spells(grammar, value, tree) /\ text \o rest = before[i + 1] \o value
        BY <2>rest
    <2> HIDE DEF i
    <2>3. start \in Seq(Tokens(grammar)) /\ kind \in ContainerKinds
        BY <1>1, <2>1
    <2>4. PICK part \in Seq(Tokens(grammar)) :
              before[i + 1] = start \o part /\ Part(grammar, frames[i], slots[i], TRUE, part)
        <3>1. Fits(grammar, frames[i], slots[i], TRUE, start, before[i + 1])
            BY <1>1, <2>1
        <3> QED BY <3>1 DEF Fits
    <2>5. Filled(grammar, kind, part \o value, Plus(kind, slots[i].tree, slots[i].field, tree))
        BY <2>2, <2>4 DEF Part, Awaits
    <2> DEFINE closing == <<Closing(kind)>>
               whole == part \o value \o closing
    <2>6. Spells(grammar, whole, Plus(kind, slots[i].tree, slots[i].field, tree))
        BY <2>3, <2>5, ContainerClosed
    <2>7. closing \in Seq(Tokens(grammar))
        BY <2>3, EndsAreTokens
    <2> HIDE DEF closing, start
    <2>8. text \o rest = (start \o part) \o value
        BY <2>2, <2>4
    <2>9. /\ rest \o closing \in Seq(Tokens(grammar))
          /\ whole \in Seq(Tokens(grammar))
          /\ text \o (rest \o closing) = start \o whole
        <3> DEFINE inner == part \o value
        <3>1. inner \in Seq(Tokens(grammar)) /\ inner \o closing \in Seq(Tokens(grammar))
            BY <2>7
        <3>2. /\ Joins(Tokens(grammar), start, part, value)
              /\ Joins(Tokens(grammar), text, rest, closing)
            BY <1>2, <2>3, <2>7, AnyThreeJoin, Zenon
        <3> HIDE DEF inner
        <3>3. Joins(Tokens(grammar), start, inner, closing)
            BY <2>3, <2>7, <3>1, AnyThreeJoin, Zenon
        <3> QED BY <2>8, <3>1, <3>2, <3>3, Zenon DEF inner, Joins
    <2> HIDE DEF whole
    <2>11. Reaches(i)
        BY <2>6, <2>9 DEF start
    <2> HIDE DEF Reaches
    <2> QED BY <2>1, <2>11 DEF T
<1>5. n - 1 \in T
    <2> DEFINE last == n - 1
    <2>1. last \in Nat /\ last \in 0 .. last
        BY <1>2
    <2>2. \A k \in 0 .. last - 1 : k \in T => k + 1 \in T
        BY <1>4
    <2> HIDE DEF last
    <2>3. 0 .. last \subseteq T
        BY <1>3, <2>1, <2>2, BoundedInduction, Zenon
    <2> QED BY <2>1, <2>3 DEF last
<1>6. Reaches(1)
    <2>1. n - (n - 1) = 1
        BY <1>2
    <2> HIDE DEF Reaches
    <2> QED BY <1>5, <2>1 DEF T
<1>7. PICK rest, value \in Seq(Tokens(grammar)) :
          \E tree : Spells(grammar, value, tree) /\ text \o rest = before[1] \o value
    BY <1>6
<1>8. before[1] \o value = value
    BY <1>1
<1> QED BY <1>7, <1>8

=============================================================================
