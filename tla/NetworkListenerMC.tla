------------------------- MODULE NetworkListenerMC -------------------------
(***************************************************************************)
(* NetworkListener on small instances. Sessions are interchangeable.       *)
(***************************************************************************)
EXTENDS NetworkListener, FiniteSets

CONSTANT MaxDatagrams   \* bound: datagrams clients send in a behaviour

FewDatagrams == Cardinality(toServer) <= MaxDatagrams

SessionSymmetry == Permutations(Sessions)

=============================================================================
