--------------------------- MODULE EnetChannelMC ---------------------------
(***************************************************************************)
(* EnetChannel on small windows. The network holds few datagrams at a      *)
(* time: the others it has lost.                                           *)
(***************************************************************************)
EXTENDS EnetChannel

CONSTANT MaxInFlight   \* bound: commands, or acknowledgements, in the network

FewInFlight ==
  /\ Cardinality(toReceiver) <= MaxInFlight
  /\ Cardinality(toSender) <= MaxInFlight

=============================================================================
