------------------------------ MODULE ToolHistory ------------------------------
(***************************************************************************)
(* The tool executor with two history variables: the tools that have been  *)
(* suspended or retired, and the tools of which two lifecycle operations   *)
(* have awaited their events at the same time.                             *)
(***************************************************************************)
EXTENDS ToolExecutor

VARIABLES disabled, raced

historyVars == <<vars, disabled, raced>>

Off == {"SUSPENDED", "RETIRED"}

Overlapping(t) ==
  \E m, n \in Admins : m # n /\ change[m].tool = t /\ change[n].tool = t

HistoryInit ==
  /\ Init
  /\ disabled = {}
  /\ raced = {}

HistoryNext ==
  /\ Next
  /\ disabled' = disabled \cup {t \in Tools : tools[t].state \in Off}
  /\ raced' = raced \cup {t \in Tools : Overlapping(t)}

HistorySpec == HistoryInit /\ [][HistoryNext]_historyVars

FairHistorySpec ==
  HistorySpec /\ \A c \in Callers : WF_vars(Progress(c))

\* TOOL_EXECUTION_BOUNDARY.md: "State non-active, allowlist denial, atau kill
\* switch selalu menghentikan eksekusi sebelum adapter dipanggil."  No lifecycle
\* operation leads from SUSPENDED or RETIRED back to ACTIVE, so the adapter of a
\* tool that was suspended or retired is never started again.
DisabledNeverRuns ==
  [][\A c \in Callers : Starts(c) => call[c].request.tool \notin disabled]_historyVars

\* The same of the tools whose lifecycle operations have not overlapped: nothing
\* but such an overlap, no kill switch that is set or cleared, no failing append
\* and no overlap of another tool, lets a disabled tool run again.
UnracedNeverRuns ==
  [][\A c \in Callers :
       Starts(c) => call[c].request.tool \notin disabled \ raced]_historyVars

=============================================================================
