-------------------------- MODULE ChannelContract --------------------------
(***************************************************************************)
(* What the users of a reliable channel of ENet count on, and what         *)
(* EnetHost takes for granted: commands arrive in any order, each of them  *)
(* counts once, and those that have arrived without a gap before them are  *)
(* handed over in the order in which they were sent.                       *)
(***************************************************************************)
EXTENDS Integers, Sequences

VARIABLES
  sent,       \* how many commands were sent
  arrived,    \* the numbers of those that have arrived
  delivered   \* those handed over, in this order

contractVars == <<sent, arrived, delivered>>

Init ==
  /\ sent = 0
  /\ arrived = {}
  /\ delivered = <<>>

Send ==
  /\ sent' = sent + 1
  /\ UNCHANGED <<arrived, delivered>>

InOrder(a) == {n \in a : 1 .. n \subseteq a}

\* InOrder() is 1 .. k for some k, and delivered is the sequence 1, ..., k.
Arrive(n) ==
  /\ n \in (1 .. sent) \ arrived
  /\ arrived' = arrived \cup {n}
  /\ delivered' = [i \in InOrder(arrived') |-> i]
  /\ UNCHANGED sent

Next == Send \/ \E n \in 1 .. sent : Arrive(n)

Spec == Init /\ [][Next]_contractVars

=============================================================================
