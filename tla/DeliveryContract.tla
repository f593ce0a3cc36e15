-------------------------- MODULE DeliveryContract --------------------------
(***************************************************************************)
(* What a channel of ENet promises of the four kinds of packets that can   *)
(* be sent on it: reliable ones, whole or in fragments, come without a gap *)
(* and in order; an unreliable one comes between the reliable ones it was  *)
(* sent between, in order, or not at all; an unsequenced one comes at any  *)
(* time or not at all; none comes twice.                                   *)
(***************************************************************************)
EXTENDS Integers, Sequences, SequencesExt

VARIABLES
  kinds,      \* the kind of every packet sent, in the order of sending
  arrived,    \* the reliable packets of which everything has arrived
  delivered   \* the packets handed over, by their place in kinds

contractVars == <<kinds, arrived, delivered>>

Packets == 1 .. Len(kinds)
Unsequenced == {p \in Packets : kinds[p] = "unsequenced"}
Sequenced == Packets \ Unsequenced
Reliable == {p \in Packets : kinds[p] \in {"reliable", "fragmented"}}

\* The reliable packets that have arrived with all those before them.
Due == {p \in Reliable : \A q \in Reliable : q <= p => q \in arrived}

Legal ==
  /\ Range(delivered) \cap Reliable = Due
  /\ \A i, j \in DOMAIN delivered : i < j =>
       /\ delivered[i] # delivered[j]
       /\ {delivered[i], delivered[j]} \subseteq Sequenced => delivered[i] < delivered[j]
  \* An unreliable packet does not come before the reliable ones it follows.
  /\ \A p \in Range(delivered) \cap Sequenced : \A q \in Reliable : q < p => q \in Range(delivered)

Init ==
  /\ kinds = <<>>
  /\ arrived = {}
  /\ delivered = <<>>

Send ==
  /\ \E k \in {"reliable", "fragmented", "unreliable", "unsequenced"} : kinds' = Append(kinds, k)
  /\ UNCHANGED <<arrived, delivered>>

\* A packet, or part of one, comes in, and with it those that waited for it.
Deliver ==
  /\ UNCHANGED kinds
  /\ arrived \subseteq arrived'
  /\ arrived' \subseteq Reliable
  /\ IsPrefix(delivered, delivered')
  /\ Range(delivered') \subseteq Packets
  /\ Legal'

Next == Send \/ Deliver

Spec == Init /\ [][Next]_contractVars

=============================================================================
