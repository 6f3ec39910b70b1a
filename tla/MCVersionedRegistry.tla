------------------------- MODULE MCVersionedRegistry -------------------------
(* The versioned registry with its history.  Versions, digests and calls are *)
(* interchangeable: all of the properties are safety properties.             *)
EXTENDS RegistryHistory, TLC

\* Bound: one version is given empty ids.
Bound == \A v, w \in unnamed : v = w

MCNext == HistoryNext /\ Bound'

MCSpec == HistoryInit /\ [][MCNext]_historyVars

MCSymmetry ==
  Permutations(Versions) \cup Permutations(Digests) \cup Permutations(Calls)
=============================================================================
