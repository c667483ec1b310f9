------------------------ MODULE DynamicMirrorProofs ------------------------
(***************************************************************************)
(* ValueWriter follows JsonWriter, whatever calls a codec makes: for every *)
(* set of names and scalars and every bound.                               *)
(***************************************************************************)
EXTENDS DynamicMirror, JsonGrammarProofs

IsSlot(slot) ==
    slot = [tree |-> slot.tree, field |-> slot.field, checked |-> slot.checked]

(* A frame of JsonWriter and the slot of ValueWriter for the same container. *)
(* `filling`: its next value has begun and is not finished.  JSON notes the   *)
(* value when it begins, Value when it ends, so that meanwhile JSON expects   *)
(* nothing and Value still holds the name.                                   *)
Mirrored(frame, slot, filling) ==
    /\ slot.tree.node = frame.kind
    /\ slot.checked = frame.checked
    /\ frame.checked => frame.kind = "object"
    /\ frame.expecting => frame.kind = "object" /\ ~filling
    /\ frame.kind = "object" =>
          /\ IsSequence(slot.tree.members)
          /\ NamesOf(slot.tree.members) \subseteq Names
          /\ slot.field \in Names \union {NoName}
          /\ slot.field # NoName <=> frame.expecting \/ filling
    /\ frame.checked =>
          /\ frame.fields = NamesOf(slot.tree.members) \union ({slot.field} \ {NoName})
          /\ slot.field \notin NamesOf(slot.tree.members)

(* The frames and the slots, container for container: each but the innermost *)
(* is being filled by the next one, and with `filling` the innermost too.    *)
StacksMirrored(frames, slots, filling) ==
    /\ frames \in Seq(Json!FrameType)
    /\ IsSequence(slots)
    /\ Len(slots) = Len(frames)
    /\ \A i \in 1 .. Len(frames) :
          /\ IsSlot(slots[i])
          /\ Mirrored(frames[i], slots[i], filling \/ i < Len(frames))

IInv ==
    jsonError = "none" => ~valueFailed /\ StacksMirrored(jsonFrames, valueStack, FALSE)

-----------------------------------------------------------------------------
(* set_field adds its name to those the object has, once. *)
LEMMA SetFieldNames ==
    ASSUME NEW members, IsSequence(members), NEW name, NEW tree
    PROVE  /\ IsSequence(Value!SetField(members, name, tree))
           /\ NamesOf(Value!SetField(members, name, tree)) = NamesOf(members) \union {name}
<1> DEFINE result == Value!SetField(members, name, tree)
<1>1. CASE Value!HasField(members, name)
    <2>1. result = [i \in DOMAIN members |->
                       IF members[i].name = name THEN Value!Member(name, tree) ELSE members[i]]
        BY <1>1 DEF Value!SetField
    <2>2. /\ DOMAIN result = DOMAIN members
          /\ \A i \in DOMAIN members : result[i].name = members[i].name
        BY <2>1 DEF Value!Member
    <2>3. NamesOf(result) = NamesOf(members)
        BY <2>2 DEF NamesOf
    <2>4. name \in NamesOf(members)
        BY <1>1 DEF Value!HasField, NamesOf
    <2>5. IsSequence(result)
        BY <2>1, <2>2, SequenceIsFunction, FunctionIsSequence
    <2> QED BY <2>3, <2>4, <2>5
<1>2. CASE ~Value!HasField(members, name)
    <2>1. result = Append(members, Value!Member(name, tree))
        BY <1>2 DEF Value!SetField
    <2> HIDE DEF result
    <2>2. /\ IsSequence(result)
          /\ Len(result) = Len(members) + 1
          /\ \A i \in 1 .. Len(members) : result[i] = members[i]
          /\ result[Len(members) + 1] = Value!Member(name, tree)
        BY <2>1, Pushed
    <2>3. /\ Len(members) \in Nat
          /\ DOMAIN members = 1 .. Len(members)
          /\ DOMAIN result = 1 .. Len(members) + 1
          /\ result[Len(members) + 1].name = name
        BY <2>2, SequenceIsFunction DEF Value!Member
    <2>4. NamesOf(result) = NamesOf(members) \union {name}
        BY <2>2, <2>3 DEF NamesOf
    <2> QED BY <2>2, <2>4 DEF result
<1> QED BY <1>1, <1>2

-----------------------------------------------------------------------------
(* The three ways a call changes the stacks. *)

(* A value that is allowed to begin sets every frame to be filled. *)
LEMMA ValueBegins ==
    ASSUME StacksMirrored(jsonFrames, valueStack, FALSE), Json!ValueError = "none"
    PROVE  /\ Len(Json!FramesAfterValue) = Len(jsonFrames)
           /\ StacksMirrored(Json!FramesAfterValue, valueStack, TRUE)
<1>0. /\ jsonFrames \in Seq(Json!FrameType)
      /\ IsSequence(valueStack)
      /\ Len(valueStack) = Len(jsonFrames)
      /\ \A i \in 1 .. Len(jsonFrames) :
            /\ IsSlot(valueStack[i])
            /\ Mirrored(jsonFrames[i], valueStack[i], i < Len(jsonFrames))
    BY DEF StacksMirrored
<1>1. CASE jsonFrames = <<>>
    BY <1>0, <1>1 DEF Json!FramesAfterValue, StacksMirrored
<1>2. CASE jsonFrames # <<>>
    <2> DEFINE n == Len(jsonFrames)
               top == Json!Given(Json!Top)
    <2>1. n \in Nat \ {0} /\ Json!Top = jsonFrames[n] /\ Json!Top \in Json!FrameType
        BY <1>0, <1>2 DEF Json!Top
    <2>2. Mirrored(Json!Top, valueStack[n], FALSE)
        <3>1. n \in 1 .. n /\ (n < n) = FALSE
            BY <2>1
        <3> QED BY <1>0, <2>1, <3>1
    <2>3. Json!Top.kind = "object" => Json!Top.expecting
        BY <1>2 DEF Json!ValueError
    <2>4. /\ top \in Json!FrameType
          /\ top.kind = Json!Top.kind
          /\ top.checked = Json!Top.checked
          /\ top.fields = Json!Top.fields
          /\ ~top.expecting
        BY <2>1, <2>2 DEF Json!Given, Json!FrameType, Mirrored
    <2>5. Mirrored(top, valueStack[n], TRUE)
        BY <2>2, <2>3, <2>4 DEF Mirrored
    <2>6. Json!FramesAfterValue = [jsonFrames EXCEPT ![n] = top]
        BY <1>2 DEF Json!FramesAfterValue
    <2> HIDE DEF top
    <2>7. /\ Json!FramesAfterValue \in Seq(Json!FrameType)
          /\ Len(Json!FramesAfterValue) = n
          /\ Json!FramesAfterValue[n] = top
          /\ \A i \in 1 .. n - 1 : Json!FramesAfterValue[i] = jsonFrames[i]
        BY <1>0, <2>1, <2>4, <2>6
    <2>8. ASSUME NEW i \in 1 .. n
          PROVE  Mirrored(Json!FramesAfterValue[i], valueStack[i], TRUE)
        <3>1. CASE i = n
            BY <2>5, <2>7, <3>1
        <3>2. CASE i # n
            <4>1. i \in 1 .. n - 1 /\ (i < n) = TRUE
                BY <2>1, <3>2
            <4> QED BY <1>0, <2>7, <4>1
        <3> QED BY <3>1, <3>2
    <2> QED BY <1>0, <2>7, <2>8 DEF StacksMirrored
<1> QED BY <1>1, <1>2

(* The slot that receives the value its frame has begun: ValueWriter finds *)
(* nothing wrong with it, and the two agree again.                         *)
LEMMA SlotReceives ==
    ASSUME NEW frame \in Json!FrameType, NEW slot, IsSlot(slot), Mirrored(frame, slot, TRUE),
           NEW tree
    PROVE  /\ slot.tree.node # "sequence" =>
                 /\ slot.field # NoName
                 /\ ~(slot.checked /\ Value!HasField(slot.tree.members, slot.field))
           /\ IsSlot(Value!With(slot, tree))
           /\ Mirrored(frame, Value!With(slot, tree), FALSE)
<1>1. CASE frame.kind = "sequence"
    <2>1. slot.tree.node = "sequence" /\ ~frame.checked /\ ~frame.expecting
        BY <1>1 DEF Mirrored
    <2>2. Value!With(slot, tree) =
              [tree |-> Value!SequenceOf(Append(slot.tree.items, tree)),
               field |-> slot.field, checked |-> slot.checked]
        BY <2>1, Zenon DEF Value!With, IsSlot
    <2>3. Value!With(slot, tree).tree.node = "sequence"
        BY <2>2 DEF Value!SequenceOf
    <2> QED BY <1>1, <2>1, <2>2, <2>3 DEF Mirrored, IsSlot
<1>2. CASE frame.kind = "object"
    <2> DEFINE members == slot.tree.members
               result == Value!SetField(members, slot.field, tree)
    <2>1. /\ slot.tree.node = "object"
          /\ IsSequence(members)
          /\ NamesOf(members) \subseteq Names
          /\ slot.field \in Names
          /\ ~frame.expecting
          /\ slot.checked = frame.checked
          /\ frame.checked =>
                /\ frame.fields = NamesOf(members) \union {slot.field}
                /\ slot.field \notin NamesOf(members)
        BY <1>2, MirrorNames DEF Mirrored
    <2>2. ~(slot.checked /\ Value!HasField(members, slot.field))
        BY <2>1 DEF Value!HasField, NamesOf
    <2>3. Value!With(slot, tree) =
              [tree |-> Value!ObjectOf(result), field |-> NoName, checked |-> slot.checked]
        BY <2>1, Zenon DEF Value!With, IsSlot
    <2>4. IsSequence(result) /\ NamesOf(result) = NamesOf(members) \union {slot.field}
        BY <2>1, SetFieldNames
    <2> HIDE DEF members, result
    <2>5. /\ IsSlot(Value!With(slot, tree))
          /\ Value!With(slot, tree).tree.node = "object"
          /\ Value!With(slot, tree).tree.members = result
          /\ Value!With(slot, tree).field = NoName
          /\ Value!With(slot, tree).checked = slot.checked
        BY <2>3 DEF Value!ObjectOf, IsSlot
    <2>6. Mirrored(frame, Value!With(slot, tree), FALSE)
        BY <1>2, <2>1, <2>4, <2>5, MirrorNames DEF Mirrored
    <2> QED BY <2>1, <2>2, <2>5, <2>6, MirrorNames DEF members
<1> QED BY <1>1, <1>2 DEF Json!FrameType

(* attach, where JSON has begun the value: it is accepted. *)
LEMMA AttachAccepts ==
    ASSUME NEW frames, NEW slots, StacksMirrored(frames, slots, TRUE), NEW tree,
           Value!Attach(slots, tree)
    PROVE  /\ valueFailed' = valueFailed
           /\ slots = <<>> => valueStack' = slots /\ valueRoot' = tree
           /\ slots # <<>> =>
                 /\ IsSequence(valueStack')
                 /\ Len(valueStack') = Len(slots)
                 /\ \A i \in 1 .. Len(slots) - 1 : valueStack'[i] = slots[i]
                 /\ valueStack'[Len(slots)] = Value!With(slots[Len(slots)], tree)
                 /\ valueRoot' = valueRoot
<1>0. /\ frames \in Seq(Json!FrameType)
      /\ IsSequence(slots)
      /\ Len(slots) = Len(frames)
      /\ \A i \in 1 .. Len(frames) :
            /\ IsSlot(slots[i])
            /\ Mirrored(frames[i], slots[i], TRUE)
    BY Zenon DEF StacksMirrored
<1>1. CASE slots = <<>>
    <2>1. Value!AttachError(slots) = "none"
        BY <1>1 DEF Value!AttachError
    <2> QED BY <1>1, <2>1 DEF Value!Attach
<1>2. CASE slots # <<>>
    <2> DEFINE n == Len(slots)
               last == Value!With(slots[n], tree)
    <2>1. n \in Nat \ {0} /\ n = Len(frames) /\ frames[n] \in Json!FrameType
        <3>1. n \in Nat /\ n # 0
            BY <1>0, <1>2 DEF IsSequence
        <3> QED BY <1>0, <3>1
    <2>2. IsSlot(slots[n]) /\ Mirrored(frames[n], slots[n], TRUE)
        <3>1. n \in 1 .. Len(frames)
            BY <2>1
        <3> QED BY <1>0, <3>1, Zenon
    <2>3. Value!AttachError(slots) = "none"
        <3>1. slots[n].tree.node # "sequence" =>
                 /\ slots[n].field # NoName
                 /\ ~(slots[n].checked /\ Value!HasField(slots[n].tree.members, slots[n].field))
            BY <2>1, <2>2, SlotReceives
        <3> QED BY <1>2, <3>1 DEF Value!AttachError
    <2>4. /\ valueStack' = [slots EXCEPT ![n] = last]
          /\ valueFailed' = valueFailed
          /\ valueRoot' = valueRoot
        BY <1>2, <2>3 DEF Value!Attach
    <2> HIDE DEF last
    <2> DEFINE result == [slots EXCEPT ![Len(slots)] = last]
    <2>5. /\ IsSequence(result)
          /\ Len(result) = Len(slots)
          /\ \A i \in 1 .. Len(slots) - 1 : result[i] = slots[i]
          /\ result[Len(slots)] = last
        BY <1>0, <1>2, LastReplaced
    <2>6. valueStack' = result
        BY <2>4
    <2> HIDE DEF result
    <2> QED BY <1>2, <2>4, <2>5, <2>6 DEF last
<1> QED BY <1>1, <1>2

LEMMA ValueAttached ==
    ASSUME NEW frames, NEW slots, StacksMirrored(frames, slots, TRUE), NEW tree,
           Value!Attach(slots, tree)
    PROVE  valueFailed' = valueFailed /\ StacksMirrored(frames, valueStack', FALSE)
<1>0. /\ frames \in Seq(Json!FrameType)
      /\ IsSequence(slots)
      /\ Len(slots) = Len(frames)
      /\ \A i \in 1 .. Len(frames) :
            /\ IsSlot(slots[i])
            /\ Mirrored(frames[i], slots[i], TRUE)
    BY Zenon DEF StacksMirrored
<1>1. CASE slots = <<>>
    <2>1. valueStack' = slots /\ valueFailed' = valueFailed
        BY <1>1, AttachAccepts
    <2> QED BY <1>0, <1>1, <2>1 DEF StacksMirrored
<1>2. CASE slots # <<>>
    <2> DEFINE n == Len(slots)
               last == Value!With(slots[n], tree)
    <2>1. n \in Nat \ {0} /\ n = Len(frames) /\ n \in 1 .. Len(frames) /\ frames[n] \in Json!FrameType
        <3>1. n \in Nat /\ n # 0
            BY <1>0, <1>2 DEF IsSequence
        <3> QED BY <1>0, <3>1
    <2>2. IsSlot(slots[n]) /\ Mirrored(frames[n], slots[n], TRUE)
        BY <1>0, <2>1, Zenon
    <2>3. IsSlot(last) /\ Mirrored(frames[n], last, FALSE)
        BY <2>1, <2>2, SlotReceives
    <2>4. /\ IsSequence(valueStack')
          /\ Len(valueStack') = n
          /\ \A i \in 1 .. n - 1 : valueStack'[i] = slots[i]
          /\ valueStack'[n] = last
          /\ valueFailed' = valueFailed
        BY <1>2, AttachAccepts
    <2> HIDE DEF last
    <2>5. ASSUME NEW i \in 1 .. n
          PROVE  IsSlot(valueStack'[i]) /\ Mirrored(frames[i], valueStack'[i], FALSE \/ i < n)
        <3>1. CASE i = n
            <4>1. (FALSE \/ i < n) = FALSE
                BY <2>1, <3>1
            <4> QED BY <2>3, <2>4, <3>1, <4>1, Zenon
        <3>2. CASE i # n
            <4>1. i \in 1 .. n - 1 /\ i \in 1 .. Len(frames) /\ (i < n) = TRUE
                BY <2>1, <3>2
            <4> QED BY <1>0, <2>4, <4>1
        <3> QED BY <3>1, <3>2
    <2> QED BY <1>0, <2>1, <2>4, <2>5 DEF StacksMirrored
<1> QED BY <1>1, <1>2

(* A container opened inside those that are being filled. *)
LEMMA ContainerOpened ==
    ASSUME NEW frames, NEW slots, StacksMirrored(frames, slots, TRUE),
           NEW frame \in Json!FrameType, NEW slot, IsSlot(slot), Mirrored(frame, slot, FALSE)
    PROVE  StacksMirrored(frames \o <<frame>>, Append(slots, slot), FALSE)
<1> DEFINE n == Len(frames)
           more == frames \o <<frame>>
<1>0. /\ frames \in Seq(Json!FrameType)
      /\ IsSequence(slots)
      /\ Len(slots) = n
      /\ \A i \in 1 .. n : IsSlot(slots[i]) /\ Mirrored(frames[i], slots[i], TRUE)
    BY DEF StacksMirrored
<1>1. /\ more \in Seq(Json!FrameType)
      /\ n \in Nat
      /\ Len(more) = n + 1
      /\ \A i \in 1 .. n : more[i] = frames[i]
      /\ more[n + 1] = frame
    BY <1>0, PushIs
<1>2. /\ IsSequence(Append(slots, slot))
      /\ Len(Append(slots, slot)) = n + 1
      /\ \A i \in 1 .. n : Append(slots, slot)[i] = slots[i]
      /\ Append(slots, slot)[n + 1] = slot
    BY <1>0, Pushed
<1> HIDE DEF more
<1>3. ASSUME NEW i \in 1 .. n + 1
      PROVE  IsSlot(Append(slots, slot)[i]) /\ Mirrored(more[i], Append(slots, slot)[i], FALSE \/ i < n + 1)
    <2>1. CASE i = n + 1
        <3>1. (FALSE \/ i < n + 1) = FALSE
            BY <1>1, <2>1
        <3> QED BY <1>1, <1>2, <2>1, <3>1
    <2>2. CASE i # n + 1
        <3>1. i \in 1 .. n /\ (FALSE \/ i < n + 1) = TRUE
            BY <1>1, <2>2
        <3> QED BY <1>0, <1>1, <1>2, <3>1
    <2> QED BY <2>1, <2>2
<1>4. StacksMirrored(more, Append(slots, slot), FALSE)
    BY <1>1, <1>2, <1>3 DEF StacksMirrored
<1> QED BY <1>4 DEF more

-----------------------------------------------------------------------------
(* One lemma for each kind of call. *)

LEMMA Continues == IInv /\ Goes => StacksMirrored(jsonFrames, valueStack, FALSE)
BY DEF IInv, Goes

LEMMA ScalarMirrored ==
    ASSUME IInv, NEW value, WriteScalar(value)
    PROVE  IInv'
<1>1. StacksMirrored(jsonFrames, valueStack, FALSE) /\ ~valueFailed
    BY Continues DEF WriteScalar, Goes
<1>2. CASE Json!ValueError = "none" /\ Json!StartValue(<<Json!ScalarToken(value)>>, <<>>)
    <2>1. Value!Attach(valueStack, Value!Leaf(value))
        BY DEF WriteScalar, Value!WriteScalar
    <2>2. valueFailed' = valueFailed /\ StacksMirrored(Json!FramesAfterValue, valueStack', FALSE)
        BY <1>1, <1>2, <2>1, ValueBegins, ValueAttached
    <2>3. jsonFrames' = Json!FramesAfterValue
        <3>1. Json!FramesAfterValue \in Seq(Json!FrameType)
            BY <2>2 DEF StacksMirrored
        <3> QED BY <1>2, <3>1 DEF Json!StartValue
    <2> QED BY <1>1, <2>2, <2>3 DEF IInv
<1>3. CASE ~(Json!ValueError = "none" /\ Json!StartValue(<<Json!ScalarToken(value)>>, <<>>))
    <2>1. Json!ValueError # "none" /\ jsonError' = Json!ValueError
        BY <1>3 DEF WriteScalar, Json!WriteScalar, Json!RefuseValue, Json!Fail, Json!StartValue
    <2> QED BY <2>1 DEF IInv
<1> QED BY <1>2, <1>3

LEMMA OpeningMirrored ==
    ASSUME StacksMirrored(jsonFrames, valueStack, FALSE), ~valueFailed,
           NEW frame \in Json!FrameType, NEW slot, IsSlot(slot), Mirrored(frame, slot, FALSE),
           NEW tokens, Json!StartValue(tokens, <<frame>>),
           valueStack' = Append(valueStack, slot), valueFailed' = valueFailed
    PROVE  IInv'
<1>1. Json!ValueError = "none" /\ jsonFrames' = Json!FramesAfterValue \o <<frame>>
    BY DEF Json!StartValue
<1>2. StacksMirrored(jsonFrames', valueStack', FALSE)
    BY <1>1, ValueBegins, ContainerOpened
<1> QED BY <1>2 DEF IInv

LEMMA SequenceMirrored == ASSUME IInv, BeginSequence PROVE IInv'
<1>1. StacksMirrored(jsonFrames, valueStack, FALSE) /\ ~valueFailed
    BY Continues DEF BeginSequence, Goes
<1> DEFINE frame == Json!Frame("sequence", FALSE)
           slot == Value!Slot(Value!SequenceOf(<<>>), FALSE)
<1>2. CASE Json!StartValue(<<Json!Mark("begin_sequence")>>, <<frame>>)
    <2>1. valueStack' = Append(valueStack, slot) /\ valueFailed' = valueFailed
        BY DEF BeginSequence, Value!BeginSequence, Value!Open
    <2>2. /\ frame \in Json!FrameType
          /\ frame.kind = "sequence" /\ ~frame.checked /\ ~frame.expecting
          /\ frame.checked = FALSE
        BY DEF Json!Frame, Json!FrameType
    <2>3. IsSlot(slot) /\ slot.tree.node = "sequence" /\ slot.checked = FALSE
        BY DEF Value!Slot, Value!SequenceOf, IsSlot
    <2>4. Mirrored(frame, slot, FALSE)
        <3> HIDE DEF frame, slot
        <3> QED BY <2>2, <2>3 DEF Mirrored
    <2> QED BY <1>1, <1>2, <2>1, <2>2, <2>3, <2>4, OpeningMirrored
<1>3. CASE Json!RefuseValue
    BY <1>3 DEF Json!RefuseValue, Json!Fail, IInv
<1> QED BY <1>2, <1>3 DEF BeginSequence, Json!BeginSequence

LEMMA ObjectMirrored ==
    ASSUME IInv, NEW checked \in ObjectForms, BeginObject(checked)
    PROVE  IInv'
<1>1. StacksMirrored(jsonFrames, valueStack, FALSE) /\ ~valueFailed
    BY Continues DEF BeginObject, Goes
<1> DEFINE frame == Json!Frame("object", checked)
           slot == Value!Slot(Value!ObjectOf(<<>>), checked)
<1>2. CASE Json!StartValue(<<Json!Mark("begin_object")>>, <<frame>>)
    <2>1. valueStack' = Append(valueStack, slot) /\ valueFailed' = valueFailed
        BY DEF BeginObject, Value!BeginObject, Value!Open
    <2>2. /\ frame \in Json!FrameType
          /\ frame.kind = "object" /\ frame.checked = checked
          /\ frame.expecting = FALSE /\ frame.fields = {}
        BY MirrorNames DEF Json!Frame, Json!FrameType
    <2>3. /\ IsSlot(slot) /\ slot.tree.node = "object" /\ slot.checked = checked
          /\ slot.field = NoName /\ slot.tree.members = <<>>
        BY DEF Value!Slot, Value!ObjectOf, IsSlot
    <2>4. NamesOf(<<>>) = {} /\ IsSequence(<<>>)
        BY DEF NamesOf, IsSequence
    <2>5. Mirrored(frame, slot, FALSE)
        <3> HIDE DEF frame, slot
        <3> QED BY <2>2, <2>3, <2>4 DEF Mirrored
    <2> QED BY <1>1, <1>2, <2>1, <2>2, <2>3, <2>5, OpeningMirrored
<1>3. CASE Json!RefuseValue
    BY <1>3 DEF Json!RefuseValue, Json!Fail, IInv
<1> QED BY <1>2, <1>3 DEF BeginObject, Json!BeginObject

LEMMA FieldReplaced ==
    ASSUME NEW slot, IsSlot(slot), NEW name
    PROVE  [slot EXCEPT !.field = name] = [tree |-> slot.tree, field |-> name, checked |-> slot.checked]
<1>1. ASSUME NEW tree, NEW field, NEW checked
      PROVE  [[tree |-> tree, field |-> field, checked |-> checked] EXCEPT !.field = name]
                 = [tree |-> tree, field |-> name, checked |-> checked]
    OBVIOUS
<1> DEFINE tree == slot.tree
           field == slot.field
           checked == slot.checked
<1>2. slot = [tree |-> tree, field |-> field, checked |-> checked]
    BY DEF IsSlot
<1> HIDE DEF tree, field, checked
<1>3. [slot EXCEPT !.field = name] = [tree |-> tree, field |-> name, checked |-> checked]
    BY <1>1, <1>2
<1> QED BY <1>3 DEF tree, checked

LEMMA FieldMirrored ==
    ASSUME IInv, NEW name \in Names, WriteField(name)
    PROVE  IInv'
<1> DEFINE n == Len(jsonFrames)
<1>0. /\ jsonFrames \in Seq(Json!FrameType)
      /\ IsSequence(valueStack)
      /\ Len(valueStack) = n
      /\ ~valueFailed
      /\ \A i \in 1 .. n :
            /\ IsSlot(valueStack[i])
            /\ Mirrored(jsonFrames[i], valueStack[i], i < n)
    BY Continues DEF WriteField, Goes, StacksMirrored
<1>1. CASE Json!FieldError(name) # "none"
    BY <1>1 DEF WriteField, Json!WriteField, Json!Fail, IInv
<1>2. CASE Json!FieldError(name) = "none"
    <2> DEFINE frame == Json!Named(jsonFrames[n], name)
               slot == [valueStack[n] EXCEPT !.field = name]
    <2>1. /\ jsonFrames # <<>>
          /\ Json!Top = jsonFrames[n]
          /\ jsonFrames[n].kind = "object"
          /\ ~jsonFrames[n].expecting
          /\ ~(jsonFrames[n].checked /\ name \in jsonFrames[n].fields)
          /\ jsonFrames' = [jsonFrames EXCEPT ![n] = frame]
        BY <1>2 DEF WriteField, Json!WriteField, Json!FieldError, Json!Fail, Json!Top
    <2>2. n \in Nat \ {0} /\ n \in 1 .. n /\ (n < n) = FALSE
        BY <1>0, <2>1
    <2>3. /\ jsonFrames[n] \in Json!FrameType
          /\ IsSlot(valueStack[n])
          /\ Mirrored(jsonFrames[n], valueStack[n], FALSE)
        <3>1. jsonFrames[n] \in Json!FrameType
            BY <1>0, <2>2
        <3> QED BY <1>0, <2>2, <3>1, Zenon
    <2>4. /\ frame \in Json!FrameType
          /\ frame.kind = "object"
          /\ frame.checked = jsonFrames[n].checked
          /\ frame.expecting
          /\ frame.checked => frame.fields = jsonFrames[n].fields \union {name}
        BY <2>1, <2>3 DEF Json!Named, Json!FrameType
    <2>5. slot = [tree |-> valueStack[n].tree, field |-> name, checked |-> valueStack[n].checked]
        BY <2>3, FieldReplaced
    <2>6. /\ IsSlot(slot)
          /\ slot.tree = valueStack[n].tree
          /\ slot.field = name
          /\ slot.checked = valueStack[n].checked
        BY <2>5 DEF IsSlot
    <2> HIDE DEF frame, slot
    <2>7. Mirrored(frame, slot, FALSE)
        BY <2>1, <2>3, <2>4, <2>6, MirrorNames DEF Mirrored
    <2>8. valueStack # <<>> /\ Value!FieldError = "none"
        BY <1>0, <2>1, <2>2, <2>3 DEF Value!FieldError, Mirrored
    <2>9. /\ valueStack' = [valueStack EXCEPT ![n] = slot]
          /\ valueFailed' = valueFailed
        BY <1>0, <2>8 DEF WriteField, Value!WriteField, slot
    <2>10. /\ jsonFrames' \in Seq(Json!FrameType)
           /\ Len(jsonFrames') = n
           /\ jsonFrames'[n] = frame
           /\ \A i \in 1 .. n - 1 : jsonFrames'[i] = jsonFrames[i]
        BY <1>0, <2>1, <2>2, <2>4
    <2>11. /\ IsSequence(valueStack')
           /\ Len(valueStack') = n
           /\ valueStack'[n] = slot
           /\ \A i \in 1 .. n - 1 : valueStack'[i] = valueStack[i]
        <3> DEFINE result == [valueStack EXCEPT ![Len(valueStack)] = slot]
        <3>1. /\ IsSequence(result)
              /\ Len(result) = Len(valueStack)
              /\ \A i \in 1 .. Len(valueStack) - 1 : result[i] = valueStack[i]
              /\ result[Len(valueStack)] = slot
            BY <1>0, <2>8, LastReplaced
        <3>2. valueStack' = result
            BY <1>0, <2>9
        <3> HIDE DEF result
        <3> QED BY <1>0, <3>1, <3>2
    <2>12. ASSUME NEW i \in 1 .. n
           PROVE  IsSlot(valueStack'[i]) /\ Mirrored(jsonFrames'[i], valueStack'[i], FALSE \/ i < n)
        <3>1. CASE i = n
            BY <2>2, <2>6, <2>7, <2>10, <2>11, <3>1, Zenon
        <3>2. CASE i # n
            <4>1. i \in 1 .. n - 1 /\ (i < n) = TRUE /\ (FALSE \/ i < n) = TRUE
                BY <2>2, <3>2
            <4> QED BY <1>0, <2>10, <2>11, <4>1, Zenon
        <3> QED BY <3>1, <3>2
    <2>13. StacksMirrored(jsonFrames', valueStack', FALSE)
        BY <2>10, <2>11, <2>12, Zenon DEF StacksMirrored
    <2> QED BY <1>0, <2>9, <2>13 DEF IInv
<1> QED BY <1>1, <1>2

LEMMA EndMirrored ==
    ASSUME IInv, Goes, NEW kind, NEW mark, Json!EndContainer(kind, mark), Value!EndContainer
    PROVE  IInv'
<1> DEFINE n == Len(jsonFrames)
           below == SubSeq(jsonFrames, 1, n - 1)
           slots == SubSeq(valueStack, 1, Len(valueStack) - 1)
<1>0. /\ jsonFrames \in Seq(Json!FrameType)
      /\ IsSequence(valueStack)
      /\ Len(valueStack) = n
      /\ ~valueFailed
      /\ \A i \in 1 .. n :
            /\ IsSlot(valueStack[i])
            /\ Mirrored(jsonFrames[i], valueStack[i], i < n)
    BY Continues DEF Goes, StacksMirrored
<1>1. CASE Json!EndError(kind) # "none"
    BY <1>1 DEF Json!EndContainer, Json!Fail, IInv
<1>2. CASE Json!EndError(kind) = "none"
    <2>1. jsonFrames # <<>> /\ jsonFrames' = below
        BY <1>2 DEF Json!EndContainer, Json!EndError, Json!Fail
    <2>2. n \in Nat \ {0} /\ valueStack # <<>>
        BY <1>0, <2>1
    <2>3. /\ below \in Seq(Json!FrameType)
          /\ Len(below) = n - 1
          /\ \A i \in 1 .. n - 1 : below[i] = jsonFrames[i]
        BY <1>0, <2>1, FrontOf
    <2>4. /\ IsSequence(slots)
          /\ Len(slots) = n - 1
          /\ \A i \in 1 .. n - 1 : slots[i] = valueStack[i]
        BY <1>0, <2>2, Popped
    <2>5. Value!Attach(slots, valueStack[Len(valueStack)].tree)
        BY <2>2 DEF Value!EndContainer
    <2> HIDE DEF below, slots
    <2>6. ASSUME NEW i \in 1 .. n - 1
          PROVE  IsSlot(slots[i]) /\ Mirrored(below[i], slots[i], TRUE \/ i < n - 1)
        <3>1. i \in 1 .. n /\ (i < n) = TRUE
            BY <2>2
        <3> QED BY <1>0, <2>3, <2>4, <3>1, Zenon
    <2>7. StacksMirrored(below, slots, TRUE)
        BY <2>3, <2>4, <2>6, Zenon DEF StacksMirrored
    <2>8. valueFailed' = valueFailed /\ StacksMirrored(below, valueStack', FALSE)
        BY <2>5, <2>7, ValueAttached
    <2> QED BY <1>0, <2>1, <2>8 DEF IInv
<1> QED BY <1>1, <1>2

LEMMA InitIInv == Init => IInv
BY DEF Init, Json!Init, Value!Init, IInv, StacksMirrored, IsSequence

LEMMA NextIInv == IInv /\ [Next]_mirrorVars => IInv'
<1> SUFFICES ASSUME IInv, [Next]_mirrorVars PROVE IInv'
    OBVIOUS
<1>1. ASSUME NEW value \in Scalars, WriteScalar(value) PROVE IInv'
    BY <1>1, ScalarMirrored
<1>2. CASE BeginSequence
    BY <1>2, SequenceMirrored
<1>3. ASSUME NEW checked \in ObjectForms, BeginObject(checked) PROVE IInv'
    BY <1>3, ObjectMirrored
<1>4. ASSUME NEW name \in Names, WriteField(name) PROVE IInv'
    BY <1>4, FieldMirrored
<1>5. CASE EndSequence
    BY <1>5, EndMirrored DEF EndSequence, Json!EndSequence
<1>6. CASE EndObject
    BY <1>6, EndMirrored DEF EndObject, Json!EndObject
<1>7. CASE UNCHANGED mirrorVars
    BY <1>7 DEF mirrorVars, IInv, StacksMirrored
<1> QED BY <1>1, <1>2, <1>3, <1>4, <1>5, <1>6, <1>7 DEF Next

(* Whatever calls a codec makes, of any number and nesting, to_value takes   *)
(* those that json.dumps takes, and waits for a value exactly where JSON has *)
(* written a name: that attach checks a value when it is finished, and       *)
(* end_container does not look at what it closes, costs it no document.      *)
THEOREM ValueStackFollowsJson == Spec => []StacksAgree
<1>1. Spec => []IInv
    BY InitIInv, NextIInv, PTL DEF Spec
<1>2. IInv => StacksAgree
    <2> SUFFICES ASSUME IInv, jsonError = "none"
                 PROVE  /\ ~valueFailed
                        /\ Len(valueStack) = Len(jsonFrames)
                        /\ \A i \in DOMAIN jsonFrames :
                              Mirrored(jsonFrames[i], valueStack[i], i < Len(jsonFrames))
        BY DEF StacksAgree, Mirrored
    <2> QED BY DEF IInv, StacksMirrored
<1> QED BY <1>1, <1>2, PTL

-----------------------------------------------------------------------------
(* The text and the tree. *)

Grammar == [names |-> Names, scalars |-> Scalars, repeats |-> FALSE \in ObjectForms]

(* What is left of the frames to know: a container that waits for a value or *)
(* is being filled is not empty, and unchecked objects are what they are.    *)
Used(frames, filling) ==
    \A i \in 1 .. Len(frames) :
        /\ frames[i].expecting \/ filling \/ i < Len(frames) => ~frames[i].first
        /\ frames[i].kind = "object" /\ ~frames[i].checked => FALSE \in ObjectForms

TextMirrored ==
    jsonError = "none" =>
        /\ jsonFrames # <<>> => jsonRooted
        /\ Used(jsonFrames, FALSE)
        /\ IF jsonFrames = <<>> /\ jsonRooted
           THEN Spells(Grammar, jsonText, valueRoot)
           ELSE TextSpelt(Grammar, jsonFrames, jsonText, valueStack, FALSE)

(* The modules and the grammar speak of the same tokens and trees. *)
LEMMA SameTokens ==
    /\ \A is : Json!Mark(is) = Mark(is)
    /\ \A name : Json!NameToken(name) = NameToken(name)
    /\ \A value : Json!ScalarToken(value) = ScalarToken(value)
BY DEF Json!Mark, Mark, Json!NameToken, NameToken, Json!ScalarToken, ScalarToken

LEMMA SameTrees ==
    /\ \A value : Value!Leaf(value) = Leaf(value)
    /\ \A content : /\ Value!SequenceOf(content) = Node("sequence", content)
                    /\ Value!ObjectOf(content) = Node("object", content)
    /\ \A members, name, tree : Value!SetField(members, name, tree) = SetField(members, name, tree)
<1>1. /\ \A value : Value!Leaf(value) = Leaf(value)
      /\ \A content : /\ Value!SequenceOf(content) = Node("sequence", content)
                      /\ Value!ObjectOf(content) = Node("object", content)
    BY DEF Value!Leaf, Leaf, Value!SequenceOf, Value!ObjectOf, SequenceOf, ObjectOf, Node
<1>2. ASSUME NEW members, NEW name, NEW tree
      PROVE  Value!SetField(members, name, tree) = SetField(members, name, tree)
    BY Zenon DEF Value!SetField, SetField, Value!HasField, HasField, Value!Member, Member
<1> QED BY <1>1, <1>2

(* The slot that receives a value holds one more, as the grammar has it. *)
LEMMA WithIsPlus ==
    ASSUME NEW frame \in Json!FrameType, NEW slot, IsSlot(slot), Mirrored(frame, slot, TRUE),
           NEW tree
    PROVE  Value!With(slot, tree).tree = Plus(frame.kind, slot.tree, slot.field, tree)
<1>1. CASE frame.kind = "sequence"
    <2> DEFINE items == Append(slot.tree.items, tree)
    <2>1. slot.tree.node = "sequence"
        BY <1>1 DEF Mirrored
    <2>2. Value!With(slot, tree) =
              [tree |-> Value!SequenceOf(items), field |-> slot.field, checked |-> slot.checked]
        BY <2>1, Zenon DEF Value!With, IsSlot
    <2>3. Plus(frame.kind, slot.tree, slot.field, tree) = Node("sequence", items)
        BY <1>1 DEF Plus
    <2> HIDE DEF items
    <2> QED BY <2>2, <2>3, SameTrees
<1>2. CASE frame.kind = "object"
    <2> DEFINE members == SetField(slot.tree.members, slot.field, tree)
    <2>1. slot.tree.node = "object"
        BY <1>2 DEF Mirrored
    <2>2. Value!SetField(slot.tree.members, slot.field, tree) = members
        BY SameTrees, Zenon
    <2>3. Value!With(slot, tree) =
              [tree |-> Value!ObjectOf(members), field |-> NoName, checked |-> slot.checked]
        BY <2>1, <2>2, Zenon DEF Value!With, IsSlot
    <2>4. Plus(frame.kind, slot.tree, slot.field, tree) = Node("object", members)
        BY <1>2 DEF Plus
    <2> HIDE DEF members
    <2> QED BY <2>3, <2>4, SameTrees
<1> QED BY <1>1, <1>2 DEF Json!FrameType

(* JSON begins a value: its text now fits the stacks that are being filled. *)
LEMMA TextBegins ==
    ASSUME IInv, TextMirrored, Goes, Json!ValueError = "none"
    PROVE  /\ TextSpelt(Grammar, Json!FramesAfterValue, jsonText \o Json!ValueSeparator, valueStack, TRUE)
           /\ Used(Json!FramesAfterValue, TRUE)
<1> DEFINE n == Len(jsonFrames)
           after == Json!FramesAfterValue
<1>1. /\ jsonFrames \in Seq(Json!FrameType)
      /\ \A i \in 1 .. n : Mirrored(jsonFrames[i], valueStack[i], i < n)
      /\ Len(after) = n
    BY Continues, ValueBegins DEF StacksMirrored
<1>2. /\ TextSpelt(Grammar, jsonFrames, jsonText, valueStack, FALSE)
      /\ Used(jsonFrames, FALSE)
    BY DEF TextMirrored, Goes, Json!ValueError
<1>3. CASE jsonFrames = <<>>
    <2>1. after = <<>> /\ Json!ValueSeparator = <<>> /\ Len(jsonFrames) = 0
        BY <1>3 DEF Json!FramesAfterValue, Json!ValueSeparator
    <2>2. jsonText = <<>>
        BY <1>2, <2>1, NothingOpenNoText, Zenon
    <2>3. jsonText \o Json!ValueSeparator = <<>> /\ Len(after) = 0 /\ \A i \in 1 .. Len(after) : FALSE
        BY <2>1, <2>2
    <2> QED BY <2>3, NothingOpen, Zenon DEF Used
<1>4. CASE jsonFrames # <<>>
    <2> DEFINE top == Json!Given(Json!Top)
    <2>1. n \in Nat \ {0} /\ n \in 1 .. n /\ Json!Top = jsonFrames[n] /\ Json!Top \in Json!FrameType
        BY <1>1, <1>4 DEF Json!Top
    <2>2. Mirrored(Json!Top, valueStack[n], FALSE)
        <3>1. (n < n) = FALSE
            BY <2>1
        <3> QED BY <1>1, <2>1, <3>1
    <2>3. /\ Json!Top.kind \in ContainerKinds
          /\ Json!Top.expecting <=> Json!Top.kind = "object"
          /\ Json!Top.kind = "object" => ~Json!Top.first
        BY <1>2, <1>4, <2>1, <2>2 DEF Json!ValueError, Json!FrameType, ContainerKinds, Mirrored, Used
    <2>4. /\ top \in Json!FrameType /\ top.kind = Json!Top.kind
          /\ top.checked = Json!Top.checked /\ ~top.first
        BY <2>1, <2>3 DEF Json!Given, Json!FrameType
    <2>5. after = [jsonFrames EXCEPT ![n] = top]
        BY <1>4 DEF Json!FramesAfterValue
    <2> HIDE DEF top
    <2>6. /\ after[n] = top
          /\ \A i \in 1 .. n - 1 : after[i] = jsonFrames[i]
        BY <1>1, <2>1, <2>4, <2>5
    <2>7. Json!ValueSeparator = IF n # 0 /\ jsonFrames[n].kind = "sequence" /\ ~jsonFrames[n].first
                                THEN <<Mark("comma")>> ELSE <<>>
        BY <1>4, <2>1, SameTokens DEF Json!ValueSeparator
    <2> DEFINE separator == Json!ValueSeparator
    <2> HIDE DEF after, separator
    <2>8. TextSpelt(Grammar, after, jsonText \o separator, valueStack, TRUE)
        <3>1. /\ Len(jsonFrames) \in Nat
              /\ Len(after) = Len(jsonFrames)
              /\ Len(jsonFrames) # 0 =>
                    /\ jsonFrames[Len(jsonFrames)].kind \in ContainerKinds
                    /\ jsonFrames[Len(jsonFrames)].expecting <=> jsonFrames[Len(jsonFrames)].kind = "object"
                    /\ after[Len(jsonFrames)].kind = jsonFrames[Len(jsonFrames)].kind
            BY <1>1, <2>1, <2>3, <2>4, <2>6
        <3>2. separator = IF Len(jsonFrames) # 0 /\ jsonFrames[Len(jsonFrames)].kind = "sequence"
                                                 /\ ~jsonFrames[Len(jsonFrames)].first
                          THEN <<Mark("comma")>> ELSE <<>>
            BY <2>7 DEF separator
        <3> QED BY <1>2, <2>6, <3>1, <3>2, ValueBegun
    <2>9. Used(after, TRUE)
        <3> SUFFICES ASSUME NEW i \in 1 .. n
                     PROVE  /\ ~after[i].first
                            /\ after[i].kind = "object" /\ ~after[i].checked => FALSE \in ObjectForms
            BY <1>1 DEF Used
        <3>1. CASE i = n
            BY <1>2, <2>1, <2>4, <2>6, <3>1 DEF Used
        <3>2. CASE i # n
            <4>1. i \in 1 .. n - 1 /\ i < n
                BY <2>1, <3>2
            <4> QED BY <1>2, <2>6, <4>1 DEF Used
        <3> QED BY <3>1, <3>2
    <2> QED BY <2>8, <2>9 DEF separator, after
<1> QED BY <1>3, <1>4

(* attach puts the tree where JSON has finished its text. *)
LEMMA TextEnds ==
    ASSUME NEW frames, NEW slots, StacksMirrored(frames, slots, TRUE), Used(frames, TRUE),
           NEW text, TextSpelt(Grammar, frames, text, slots, TRUE),
           NEW value, NEW tree, Spells(Grammar, value, tree),
           Value!Attach(slots, tree), jsonFrames' = frames, jsonText' = text \o value, jsonRooted'
    PROVE  TextMirrored'
<1> DEFINE n == Len(frames)
<1>0. /\ frames \in Seq(Json!FrameType)
      /\ IsSequence(slots)
      /\ Len(slots) = n
      /\ \A i \in 1 .. n : IsSlot(slots[i]) /\ Mirrored(frames[i], slots[i], TRUE)
    BY DEF StacksMirrored
<1>1. value \in Seq(Tokens(Grammar))
    BY TextsAreTokens, SaysParts DEF Spells
<1>2. Used(frames, FALSE)
    BY DEF Used
<1>3. CASE frames = <<>>
    <2>1. Len(frames) = 0 /\ slots = <<>>
        BY <1>0, <1>3 DEF IsSequence
    <2>2. text = <<>>
        BY <2>1, NothingOpenNoText, Zenon
    <2>3. jsonText' = value
        BY <1>1, <2>2
    <2>4. valueRoot' = tree
        BY <2>1, AttachAccepts, Zenon
    <2> QED BY <1>2, <1>3, <2>3, <2>4 DEF TextMirrored, Used
<1>4. CASE frames # <<>>
    <2>1. n \in Nat \ {0} /\ n \in 1 .. n /\ slots # <<>> /\ frames[n] \in Json!FrameType
        <3>1. n \in Nat \ {0}
            BY <1>0, <1>4
        <3> QED BY <1>0, <3>1
    <2>2. /\ \A i \in 1 .. n - 1 : valueStack'[i] = slots[i]
          /\ valueStack'[n] = Value!With(slots[n], tree)
        BY <1>0, <2>1, AttachAccepts
    <2>3. valueStack'[n].tree = Plus(frames[n].kind, slots[n].tree, slots[n].field, tree)
        <3>1. IsSlot(slots[n]) /\ Mirrored(frames[n], slots[n], TRUE)
            BY <1>0, <2>1
        <3>2. Value!With(slots[n], tree).tree = Plus(frames[n].kind, slots[n].tree, slots[n].field, tree)
            BY <2>1, <3>1, WithIsPlus, Zenon
        <3> QED BY <2>2, <3>2, Zenon
    <2>4. ~frames[n].expecting /\ ~frames[n].first
        BY <1>0, <2>1 DEF Mirrored, Used
    <2> DEFINE after == valueStack'
    <2>5. /\ \A i \in 1 .. Len(frames) - 1 : after[i] = slots[i]
          /\ after[Len(frames)].tree =
                Plus(frames[Len(frames)].kind, slots[Len(frames)].tree, slots[Len(frames)].field, tree)
        BY <2>2, <2>3
    <2> HIDE DEF after
    <2>6. TextSpelt(Grammar, frames, text \o value, after, FALSE)
        BY <2>1, <2>4, <2>5, ValueEnded
    <2> QED BY <1>2, <1>4, <2>6 DEF TextMirrored, Used, after
<1> QED BY <1>3, <1>4

LEMMA ScalarSpeltAlike ==
    ASSUME IInv, TextMirrored, NEW value \in Scalars, WriteScalar(value)
    PROVE  TextMirrored'
<1>1. StacksMirrored(jsonFrames, valueStack, FALSE) /\ Goes
    BY Continues DEF WriteScalar
<1>2. CASE Json!ValueError = "none" /\ Json!StartValue(<<Json!ScalarToken(value)>>, <<>>)
    <2> DEFINE text == jsonText \o Json!ValueSeparator
               scalar == <<ScalarToken(value)>>
               after == Json!FramesAfterValue
    <2>1. TextSpelt(Grammar, after, text, valueStack, TRUE) /\ Used(after, TRUE)
        BY <1>1, <1>2, TextBegins
    <2>2. StacksMirrored(after, valueStack, TRUE)
        BY <1>1, <1>2, ValueBegins
    <2>3. jsonText' = text \o scalar /\ jsonRooted'
        <3>1. jsonFrames # <<>> => jsonRooted
            BY <1>1 DEF TextMirrored, Goes
        <3> QED BY <1>2, <3>1, SameTokens DEF Json!StartValue
    <2>4. jsonFrames' = after
        <3>1. after \in Seq(Json!FrameType)
            BY <2>2 DEF StacksMirrored
        <3> QED BY <1>2, <3>1 DEF Json!StartValue
    <2>5. Value!Attach(valueStack, Leaf(value))
        BY SameTrees DEF WriteScalar, Value!WriteScalar
    <2>6. Spells(Grammar, scalar, Leaf(value))
        <3>1. Grammar.scalars = Scalars
            BY DEF Grammar
        <3> QED BY <3>1, ScalarSpelt
    <2> HIDE DEF text, scalar, after
    <2> QED BY <2>1, <2>2, <2>3, <2>4, <2>5, <2>6, TextEnds
<1>3. CASE ~(Json!ValueError = "none" /\ Json!StartValue(<<Json!ScalarToken(value)>>, <<>>))
    <2>1. Json!ValueError # "none" /\ jsonError' = Json!ValueError
        BY <1>3 DEF WriteScalar, Json!WriteScalar, Json!RefuseValue, Json!Fail, Json!StartValue
    <2> QED BY <2>1 DEF TextMirrored
<1> QED BY <1>2, <1>3

LEMMA OpeningSpeltAlike ==
    ASSUME IInv, TextMirrored, Goes,
           NEW kind \in ContainerKinds, NEW checked \in BOOLEAN,
           kind = "object" /\ ~checked => FALSE \in ObjectForms,
           Json!StartValue(<<Opening(kind)>>, <<Json!Frame(kind, checked)>>),
           valueStack' = Append(valueStack, Value!Slot(Node(kind, <<>>), checked))
    PROVE  TextMirrored'
<1> DEFINE n == Len(jsonFrames)
           text == jsonText \o Json!ValueSeparator
           frame == Json!Frame(kind, checked)
           slot == Value!Slot(Node(kind, <<>>), checked)
           after == Json!FramesAfterValue
<1>1. /\ Json!ValueError = "none"
      /\ jsonText' = text \o <<Opening(kind)>>
      /\ jsonFrames' = after \o <<frame>>
      /\ jsonRooted'
    <2>1. jsonFrames # <<>> => jsonRooted
        BY DEF TextMirrored, Goes
    <2> QED BY <2>1 DEF Json!StartValue
<1>2. /\ TextSpelt(Grammar, after, text, valueStack, TRUE)
      /\ Used(after, TRUE)
    BY <1>1, TextBegins
<1>3. /\ after \in Seq(Json!FrameType) /\ Len(after) = n /\ n \in Nat
      /\ IsSequence(valueStack) /\ Len(valueStack) = n
    BY <1>1, Continues, ValueBegins DEF StacksMirrored
<1>4. /\ frame.kind = kind /\ frame.first /\ ~frame.expecting /\ frame.checked = checked
      /\ frame \in Json!FrameType
    BY DEF Json!Frame, Json!FrameType, ContainerKinds
<1>5. slot.tree = Node(kind, <<>>)
    BY DEF Value!Slot
<1> HIDE DEF text, frame, slot, after
<1>6. /\ Len(jsonFrames') = n + 1
      /\ \A i \in 1 .. n : jsonFrames'[i] = after[i]
      /\ jsonFrames'[n + 1] = frame
    BY <1>1, <1>3, <1>4, PushIs
<1>7. /\ \A i \in 1 .. n : valueStack'[i] = valueStack[i]
      /\ valueStack'[n + 1] = slot
    BY <1>3, Pushed DEF slot
<1> DEFINE frames2 == jsonFrames'
           slots2 == valueStack'
<1>8. /\ Len(after) \in Nat /\ Len(frames2) = Len(after) + 1
      /\ frames2[Len(after) + 1].kind = kind
      /\ frames2[Len(after) + 1].first /\ ~frames2[Len(after) + 1].expecting
      /\ slots2[Len(after) + 1].tree = Node(kind, <<>>)
    BY <1>3, <1>4, <1>5, <1>6, <1>7
<1>9. \A i \in 1 .. Len(after) : frames2[i] = after[i] /\ slots2[i] = valueStack[i]
    BY <1>3, <1>6, <1>7
<1> HIDE DEF frames2, slots2
<1>10. TextSpelt(Grammar, frames2, text \o <<Opening(kind)>>, slots2, FALSE)
    BY <1>2, <1>8, <1>9, ContainerPushed
<1>11. Used(frames2, FALSE)
    <2> SUFFICES ASSUME NEW i \in 1 .. n + 1
                 PROVE  /\ frames2[i].expecting \/ i < n + 1 => ~frames2[i].first
                        /\ frames2[i].kind = "object" /\ ~frames2[i].checked => FALSE \in ObjectForms
        BY <1>3, <1>8 DEF Used
    <2>1. CASE i = n + 1
        <3>1. frames2[i] = frame /\ ~(i < n + 1)
            BY <1>3, <1>6, <2>1 DEF frames2
        <3> QED BY <1>4, <3>1, Zenon
    <2>2. CASE i # n + 1
        <3>1. i \in 1 .. Len(after)
            BY <1>3, <2>2
        <3> QED BY <1>2, <1>9, <3>1 DEF Used
    <2> QED BY <2>1, <2>2
<1>12. jsonFrames' # <<>>
    BY <1>3, <1>6
<1> QED BY <1>1, <1>10, <1>11, <1>12 DEF TextMirrored, frames2, slots2

LEMMA SequenceSpeltAlike == ASSUME IInv, TextMirrored, BeginSequence PROVE TextMirrored'
<1>1. CASE Json!StartValue(<<Json!Mark("begin_sequence")>>, <<Json!Frame("sequence", FALSE)>>)
    <2>1. Json!Mark("begin_sequence") = Opening("sequence")
        BY SameTokens DEF Opening
    <2>2. valueStack' = Append(valueStack, Value!Slot(Node("sequence", <<>>), FALSE))
        BY SameTrees DEF BeginSequence, Value!BeginSequence, Value!Open
    <2> QED BY <1>1, <2>1, <2>2, OpeningSpeltAlike DEF BeginSequence, ContainerKinds
<1>2. CASE Json!RefuseValue
    BY <1>2 DEF Json!RefuseValue, Json!Fail, TextMirrored
<1> QED BY <1>1, <1>2 DEF BeginSequence, Json!BeginSequence

LEMMA ObjectSpeltAlike ==
    ASSUME IInv, TextMirrored, NEW checked \in ObjectForms, BeginObject(checked)
    PROVE  TextMirrored'
<1>1. CASE Json!StartValue(<<Json!Mark("begin_object")>>, <<Json!Frame("object", checked)>>)
    <2>1. Json!Mark("begin_object") = Opening("object")
        BY SameTokens DEF Opening
    <2>2. valueStack' = Append(valueStack, Value!Slot(Node("object", <<>>), checked))
        BY SameTrees DEF BeginObject, Value!BeginObject, Value!Open
    <2>3. checked \in BOOLEAN /\ (~checked => FALSE \in ObjectForms)
        BY MirrorNames
    <2> QED BY <1>1, <2>1, <2>2, <2>3, OpeningSpeltAlike DEF BeginObject, ContainerKinds
<1>2. CASE Json!RefuseValue
    BY <1>2 DEF Json!RefuseValue, Json!Fail, TextMirrored
<1> QED BY <1>1, <1>2 DEF BeginObject, Json!BeginObject

LEMMA FieldSpeltAlike ==
    ASSUME IInv, TextMirrored, NEW name \in Names, WriteField(name)
    PROVE  TextMirrored'
<1> DEFINE n == Len(jsonFrames)
<1>0. /\ jsonFrames \in Seq(Json!FrameType)
      /\ IsSequence(valueStack)
      /\ Len(valueStack) = n
      /\ ~valueFailed
      /\ \A i \in 1 .. n :
            /\ IsSlot(valueStack[i])
            /\ Mirrored(jsonFrames[i], valueStack[i], i < n)
    BY Continues DEF WriteField, Goes, StacksMirrored
<1>1. CASE Json!FieldError(name) # "none"
    BY <1>1 DEF WriteField, Json!WriteField, Json!Fail, TextMirrored
<1>2. CASE Json!FieldError(name) = "none"
    <2> DEFINE frame == Json!Named(jsonFrames[n], name)
               slot == [valueStack[n] EXCEPT !.field = name]
               lead == IF jsonFrames[n].first THEN <<>> ELSE <<Mark("comma")>>
    <2>1. /\ jsonFrames # <<>>
          /\ Json!Top = jsonFrames[n]
          /\ jsonFrames[n].kind = "object"
          /\ ~jsonFrames[n].expecting
          /\ ~(jsonFrames[n].checked /\ name \in jsonFrames[n].fields)
          /\ jsonFrames' = [jsonFrames EXCEPT ![n] = frame]
          /\ jsonText' = jsonText \o lead \o Label(name)
          /\ jsonRooted' = jsonRooted
        BY <1>2, SameTokens DEF WriteField, Json!WriteField, Json!FieldError, Json!Fail, Json!Top, Label
    <2>2. n \in Nat \ {0} /\ n \in 1 .. n /\ (n < n) = FALSE
        BY <1>0, <2>1
    <2>3. /\ jsonFrames[n] \in Json!FrameType
          /\ IsSlot(valueStack[n])
          /\ Mirrored(jsonFrames[n], valueStack[n], FALSE)
        <3>1. jsonFrames[n] \in Json!FrameType
            BY <1>0, <2>2
        <3> QED BY <1>0, <2>2, <3>1, Zenon
    <2>4. /\ frame \in Json!FrameType
          /\ frame.kind = "object" /\ frame.expecting /\ ~frame.first
          /\ frame.checked = jsonFrames[n].checked
        BY <2>1, <2>3 DEF Json!Named, Json!FrameType
    <2>5. slot = [tree |-> valueStack[n].tree, field |-> name, checked |-> valueStack[n].checked]
        BY <2>3, FieldReplaced
    <2>6. slot.tree = valueStack[n].tree /\ slot.field = name
        BY <2>5
    <2> HIDE DEF frame, slot, lead
    <2>7. valueStack # <<>> /\ Value!FieldError = "none"
        BY <1>0, <2>1, <2>2, <2>3 DEF Value!FieldError, Mirrored
    <2>8. valueStack' = [valueStack EXCEPT ![n] = slot]
        BY <1>0, <2>7 DEF WriteField, Value!WriteField, slot
    <2>9. /\ Len(jsonFrames') = n
          /\ jsonFrames'[n] = frame
          /\ \A i \in 1 .. n - 1 : jsonFrames'[i] = jsonFrames[i]
        BY <1>0, <2>1, <2>2, <2>4
    <2>10. /\ valueStack'[n] = slot
           /\ \A i \in 1 .. n - 1 : valueStack'[i] = valueStack[i]
        <3> DEFINE result == [valueStack EXCEPT ![Len(valueStack)] = slot]
        <3>1. /\ \A i \in 1 .. Len(valueStack) - 1 : result[i] = valueStack[i]
              /\ result[Len(valueStack)] = slot
            BY <1>0, <2>7, LastReplaced
        <3>2. valueStack' = result
            BY <1>0, <2>8
        <3> HIDE DEF result
        <3> QED BY <1>0, <3>1, <3>2
    <2>11. /\ TextSpelt(Grammar, jsonFrames, jsonText, valueStack, FALSE)
           /\ Used(jsonFrames, FALSE)
           /\ jsonRooted
        BY <2>1 DEF TextMirrored, WriteField, Goes
    <2>12. Grammar.repeats \/ ~HasField(valueStack[n].tree.members, name)
        <3>1. CASE jsonFrames[n].checked
            BY <2>1, <2>3, <3>1 DEF Mirrored, NamesOf, HasField
        <3>2. CASE ~jsonFrames[n].checked
            BY <2>1, <2>2, <2>11, <3>2 DEF Used, Grammar
        <3> QED BY <3>1, <3>2
    <2> DEFINE frames2 == jsonFrames'
               slots2 == valueStack'
    <2>13. /\ Len(jsonFrames) \in Nat \ {0} /\ Len(frames2) = Len(jsonFrames)
           /\ frames2[Len(jsonFrames)].kind = "object" /\ frames2[Len(jsonFrames)].expecting
           /\ slots2[Len(jsonFrames)].tree = valueStack[Len(jsonFrames)].tree
           /\ slots2[Len(jsonFrames)].field = name
        BY <2>2, <2>4, <2>6, <2>9, <2>10
    <2>14. \A i \in 1 .. Len(jsonFrames) - 1 : frames2[i] = jsonFrames[i] /\ slots2[i] = valueStack[i]
        BY <2>9, <2>10
    <2>15. Used(frames2, FALSE)
        <3> SUFFICES ASSUME NEW i \in 1 .. n
                     PROVE  /\ ~frames2[i].first
                            /\ frames2[i].kind = "object" /\ ~frames2[i].checked => FALSE \in ObjectForms
            BY <2>13 DEF Used
        <3>1. CASE i = n
            BY <2>1, <2>2, <2>4, <2>9, <2>11, <3>1 DEF Used
        <3>2. CASE i # n
            <4>1. i \in 1 .. n - 1 /\ i < n
                BY <2>2, <3>2
            <4> QED BY <2>11, <2>14, <4>1 DEF Used
        <3> QED BY <3>1, <3>2
    <2> HIDE DEF frames2, slots2
    <2>16. TextSpelt(Grammar, frames2, jsonText \o lead \o Label(name), slots2, FALSE)
        <3>1. name \in Grammar.names
            BY DEF Grammar
        <3>2. lead = IF jsonFrames[Len(jsonFrames)].first THEN <<>> ELSE <<Mark("comma")>>
            BY DEF lead
        <3>3. jsonFrames[Len(jsonFrames)].kind = "object" /\ ~jsonFrames[Len(jsonFrames)].expecting
            BY <2>1
        <3> QED BY <2>11, <2>12, <2>13, <2>14, <3>1, <3>2, <3>3, NameGiven, Zenon
    <2>17. jsonFrames' # <<>>
        BY <2>2, <2>9
    <2> QED BY <2>1, <2>11, <2>15, <2>16, <2>17 DEF TextMirrored, frames2, slots2
<1> QED BY <1>1, <1>2

LEMMA EndSpeltAlike ==
    ASSUME IInv, TextMirrored, Goes, NEW kind \in ContainerKinds,
           NEW mark, Json!Mark(mark) = Closing(kind),
           Json!EndContainer(kind, mark), Value!EndContainer
    PROVE  TextMirrored'
<1> DEFINE n == Len(jsonFrames)
           below == SubSeq(jsonFrames, 1, n - 1)
           slots == SubSeq(valueStack, 1, Len(valueStack) - 1)
<1>0. /\ jsonFrames \in Seq(Json!FrameType)
      /\ IsSequence(valueStack)
      /\ Len(valueStack) = n
      /\ \A i \in 1 .. n :
            /\ IsSlot(valueStack[i])
            /\ Mirrored(jsonFrames[i], valueStack[i], i < n)
    BY Continues DEF StacksMirrored
<1>1. CASE Json!EndError(kind) # "none"
    BY <1>1 DEF Json!EndContainer, Json!Fail, TextMirrored
<1>2. CASE Json!EndError(kind) = "none"
    <2>1. /\ jsonFrames # <<>> /\ jsonFrames' = below
          /\ jsonFrames[n].kind = kind /\ ~jsonFrames[n].expecting
          /\ jsonText' = jsonText \o <<Closing(kind)>>
          /\ jsonRooted' = jsonRooted
        BY <1>2 DEF Json!EndContainer, Json!EndError, Json!Fail, Json!Top
    <2>2. n \in Nat \ {0} /\ valueStack # <<>>
        BY <1>0, <2>1
    <2>3. /\ below \in Seq(Json!FrameType)
          /\ Len(below) = n - 1
          /\ \A i \in 1 .. n - 1 : below[i] = jsonFrames[i]
        BY <1>0, <2>1, FrontOf
    <2>4. /\ IsSequence(slots)
          /\ Len(slots) = n - 1
          /\ \A i \in 1 .. n - 1 : slots[i] = valueStack[i]
        BY <1>0, <2>2, Popped
    <2>5. Value!Attach(slots, valueStack[n].tree)
        BY <1>0, <2>2 DEF Value!EndContainer
    <2> HIDE DEF below, slots
    <2>6. ASSUME NEW i \in 1 .. n - 1
          PROVE  IsSlot(slots[i]) /\ Mirrored(below[i], slots[i], TRUE \/ i < n - 1)
        <3>1. i \in 1 .. n /\ (i < n) = TRUE
            BY <2>2
        <3> QED BY <1>0, <2>3, <2>4, <3>1, Zenon
    <2>7. StacksMirrored(below, slots, TRUE)
        BY <2>3, <2>4, <2>6, Zenon DEF StacksMirrored
    <2>8. /\ TextSpelt(Grammar, jsonFrames, jsonText, valueStack, FALSE)
          /\ Used(jsonFrames, FALSE)
          /\ jsonRooted
        BY <2>1 DEF TextMirrored, Goes
    <2>9. PICK start \in Seq(Tokens(Grammar)), value \in Seq(Tokens(Grammar)) :
              /\ jsonText \o <<Closing(kind)>> = start \o value
              /\ Spells(Grammar, value, valueStack[n].tree)
              /\ TextSpelt(Grammar, below, start, slots, TRUE)
        <3>1. \A i \in 1 .. n - 1 : below[i] = jsonFrames[i] /\ slots[i] = valueStack[i]
            BY <2>3, <2>4
        <3>2. jsonFrames[n].kind \in ContainerKinds /\ ~jsonFrames[n].expecting
            BY <2>1
        <3>3. \E start \in Seq(Tokens(Grammar)), value \in Seq(Tokens(Grammar)) :
                  /\ jsonText \o <<Closing(jsonFrames[n].kind)>> = start \o value
                  /\ Spells(Grammar, value, valueStack[n].tree)
                  /\ TextSpelt(Grammar, below, start, slots, TRUE)
            BY <2>2, <2>3, <2>8, <3>1, <3>2, ContainerPopped
        <3> QED BY <2>1, <3>3
    <2>10. Used(below, TRUE)
        <3> SUFFICES ASSUME NEW i \in 1 .. n - 1
                     PROVE  /\ ~below[i].first
                            /\ below[i].kind = "object" /\ ~below[i].checked => FALSE \in ObjectForms
            BY <2>3 DEF Used
        <3>1. i \in 1 .. n /\ i < n
            BY <2>2
        <3> QED BY <2>3, <2>8, <3>1 DEF Used
    <2>11. jsonText' = start \o value /\ jsonRooted'
        BY <2>1, <2>8, <2>9
    <2> QED BY <2>1, <2>5, <2>7, <2>9, <2>10, <2>11, TextEnds
<1> QED BY <1>1, <1>2

LEMMA InitTextMirrored == Init => TextMirrored
<1> SUFFICES ASSUME Init PROVE TextMirrored
    OBVIOUS
<1>1. jsonFrames = <<>> /\ jsonText = <<>> /\ ~jsonRooted /\ Len(jsonFrames) = 0
    BY DEF Init, Json!Init
<1>2. TextSpelt(Grammar, jsonFrames, jsonText, valueStack, FALSE)
    BY <1>1, NothingOpen, Zenon
<1>3. \A i \in 1 .. Len(jsonFrames) : FALSE
    BY <1>1
<1> QED BY <1>1, <1>2, <1>3, Zenon DEF TextMirrored, Used

LEMMA NextTextMirrored == IInv /\ TextMirrored /\ [Next]_mirrorVars => TextMirrored'
<1> SUFFICES ASSUME IInv, TextMirrored, [Next]_mirrorVars PROVE TextMirrored'
    OBVIOUS
<1>1. ASSUME NEW value \in Scalars, WriteScalar(value) PROVE TextMirrored'
    BY <1>1, ScalarSpeltAlike
<1>2. CASE BeginSequence
    BY <1>2, SequenceSpeltAlike
<1>3. ASSUME NEW checked \in ObjectForms, BeginObject(checked) PROVE TextMirrored'
    BY <1>3, ObjectSpeltAlike
<1>4. ASSUME NEW name \in Names, WriteField(name) PROVE TextMirrored'
    BY <1>4, FieldSpeltAlike
<1>5. CASE EndSequence
    <2>1. Json!Mark("end_sequence") = Closing("sequence") /\ "sequence" \in ContainerKinds
        BY SameTokens DEF Closing, ContainerKinds
    <2> QED BY <1>5, <2>1, EndSpeltAlike DEF EndSequence, Json!EndSequence
<1>6. CASE EndObject
    <2>1. Json!Mark("end_object") = Closing("object") /\ "object" \in ContainerKinds
        BY SameTokens DEF Closing, ContainerKinds
    <2> QED BY <1>6, <2>1, EndSpeltAlike DEF EndObject, Json!EndObject
<1>7. CASE UNCHANGED mirrorVars
    BY <1>7 DEF mirrorVars, TextMirrored, Used
<1> QED BY <1>1, <1>2, <1>3, <1>4, <1>5, <1>6, <1>7 DEF Next

(* json.dumps has finished its document and no call has failed. *)
Finished == jsonRooted /\ jsonFrames = <<>> /\ jsonError = "none"

(* What to_value builds is what json.dumps spells: whatever calls a codec    *)
(* makes, of any number and nesting, once the document is finished its text  *)
(* spells the tree ValueWriter holds, by JSON's own grammar.  In an object    *)
(* opened as checked no name occurs twice in the text; in another the tree   *)
(* holds the last value, in the place of the first.                          *)
THEOREM ValueIsWhatJsonSpells == Spec => [](Finished => Spells(Grammar, jsonText, valueRoot))
<1>1. Init => IInv /\ TextMirrored
    BY InitIInv, InitTextMirrored
<1>2. IInv /\ TextMirrored /\ [Next]_mirrorVars => (IInv /\ TextMirrored)'
    BY NextIInv, NextTextMirrored
<1>3. IInv /\ TextMirrored => (Finished => Spells(Grammar, jsonText, valueRoot))
    BY DEF TextMirrored, Finished
<1> QED BY <1>1, <1>2, <1>3, PTL DEF Spec

=============================================================================
