--------------------------- MODULE MCReleaseHistory ---------------------------
(***************************************************************************)
(* ReleaseHistory for TLC, on the instance of MCReleaseAuthority.          *)
(***************************************************************************)
EXTENDS MCReleaseAuthority, ReleaseHistory

\* Bound: the third release is created by callers that are alone, and they stay
\* alone.
BoundedNext ==
  /\ HistoryNext
  /\ alone' \/ release'[r3].state = "ABSENT"

BoundedSpec == HistoryInit /\ [][BoundedNext]_historyVars

=============================================================================
