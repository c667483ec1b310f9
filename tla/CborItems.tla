----------------------------- MODULE CborItems -----------------------------
(***************************************************************************)
(* How many items some bytes still owe.  A document owes one item; the      *)
(* head of a container takes one off and adds those it announces, a scalar  *)
(* or a text takes one off.  This is what the repository's validating walk  *)
(* (parse_node, parse_container and read_head of cbor_wire_common.hpp)      *)
(* holds on its stack of calls, flattened to one counter and read byte by  *)
(* byte: the nesting limit, UTF-8 and the rules for keys are CborParser's.  *)
(***************************************************************************)
EXTENDS CborHead

(* Between two items; inside the argument of a head; inside a text.         *)
Reading == {"item", "argument", "payload", "refused"}

State == [reading : Reading, owed : Nat, major : Nat, left : Nat, argument : Nat]

At(owed) == [reading |-> "item", owed |-> owed, major |-> 0, left |-> 0, argument |-> 0]

InArgument(owed, major, left, argument) ==
    [reading |-> "argument", owed |-> owed, major |-> major, left |-> left, argument |-> argument]

InPayload(owed, left) ==
    [reading |-> "payload", owed |-> owed, major |-> 0, left |-> left, argument |-> 0]

Refused == [reading |-> "refused", owed |-> 0, major |-> 0, left |-> 0, argument |-> 0]

(* parse_node behind a head: `owed` items are left beside this one.  Tags   *)
(* are not supported.                                                       *)
Headed(owed, major, argument) ==
    IF major \in {0, 1, 7} THEN At(owed)
    ELSE IF major \in {2, 3} THEN IF argument = 0 THEN At(owed) ELSE InPayload(owed, argument)
    ELSE IF major = 4 THEN At(owed + argument)
    ELSE IF major = 5 THEN At(owed + 2 * argument)
    ELSE Refused

(* read_head at an initial byte: neither reserved additional information    *)
(* nor an indefinite length is read, and of the simple values only those    *)
(* that parse_node knows.                                                   *)
Initial(owed, major, additional) ==
    IF major = 7 /\ additional \notin {20, 21, 22, 25, 26, 27} THEN Refused
    ELSE IF additional <= 23 THEN Headed(owed, major, additional)
    ELSE IF additional = 24 THEN InArgument(owed, major, 1, 0)
    ELSE IF additional = 25 THEN InArgument(owed, major, 2, 0)
    ELSE IF additional = 26 THEN InArgument(owed, major, 4, 0)
    ELSE IF additional = 27 THEN InArgument(owed, major, 8, 0)
    ELSE Refused

(* read_unsigned: value = (value << 8) | byte *)
Argued(state, byte) ==
    IF state.left <= 1 THEN Headed(state.owed, state.major, 256 * state.argument + byte)
    ELSE InArgument(state.owed, state.major, state.left - 1, 256 * state.argument + byte)

Skipped(state) ==
    IF state.left <= 1 THEN At(state.owed) ELSE InPayload(state.owed, state.left - 1)

Take(state, byte) ==
    IF state.reading = "item" /\ state.owed > 0
    THEN Initial(state.owed - 1, byte \div 32, byte % 32)
    ELSE IF state.reading = "argument" THEN Argued(state, byte)
    ELSE IF state.reading = "payload" THEN Skipped(state)
    ELSE Refused

(* Some bytes taken one after the other. *)
Read(state, bytes) ==
    LET upTo[n \in 0 .. Len(bytes)] ==
            IF n = 0 THEN state ELSE Take(upTo[n - 1], bytes[n])
    IN  upTo[Len(bytes)]

(* What is asked of bytes: that they lack k items to be one item. *)
Owes(bytes, k) == Read(At(1), bytes) = At(k)

WellFormed(bytes) == Owes(bytes, 0)

=============================================================================
