---------------------------- MODULE PeerContract ----------------------------
(***************************************************************************)
(* What the caller of enet_host_service() counts on, slot by slot: a       *)
(* connection is announced, its packets are handed over in the order they  *)
(* were sent and each of them once, and its end is reported once, before   *)
(* the slot announces another one.                                         *)
(***************************************************************************)
EXTENDS Integers, Sequences

CONSTANT Slots

VARIABLES
  open,     \* the slots with a connection that was announced and not ended
  handled   \* the packets handed over on the last connection of a slot

contractVars == <<open, handled>>

Init ==
  /\ open = {}
  /\ handled = [s \in Slots |-> <<>>]

Connect(s) ==
  /\ s \notin open
  /\ open' = open \cup {s}
  /\ handled' = [handled EXCEPT ![s] = <<>>]

Handle(s) ==
  /\ s \in open
  /\ handled' = [handled EXCEPT ![s] = Append(@, Len(@) + 1)]
  /\ UNCHANGED open

Disconnect(s) ==
  /\ s \in open
  /\ open' = open \ {s}
  /\ UNCHANGED handled

Next == \E s \in Slots : Connect(s) \/ Handle(s) \/ Disconnect(s)

Spec == Init /\ [][Next]_contractVars

=============================================================================
