---------------------------- MODULE MCToolExecutor ----------------------------
(* The executor with its history over a governed and a builtin tool. *)
EXTENDS ToolHistory

CONSTANTS t1, t2, k, p1, p2, n1, n2, a1, a2, m1

\* Two requests for one key with different payloads, the same key of another
\* tenant, an unkeyed request that is refused, and one for a tool of its own
\* that requires a key.
Ask(t, n, key, p, denied, invalid) ==
  [tool |-> t, tenant |-> n, key |-> key, payload |-> p, denied |-> denied,
   invalid |-> invalid]

MCRequests ==
  {Ask(t1, n1, k, p1, FALSE, FALSE), Ask(t1, n1, k, p2, FALSE, FALSE),
   Ask(t1, n2, k, p1, FALSE, FALSE), Ask(t1, n1, None, p1, TRUE, FALSE),
   Ask(t1, n1, None, p1, FALSE, TRUE), Ask(t2, n1, None, p1, FALSE, FALSE)}

\* A draft as it should be, one that arrives killed and approved by somebody, one
\* that arrives without its allowlisting.
Draft(kill, allowlisted, approvedBy) ==
  [kill |-> kill, allowlisted |-> allowlisted, approvedBy |-> approvedBy]

MCDrafts ==
  {Draft(FALSE, TRUE, None), Draft(TRUE, TRUE, a1), Draft(FALSE, FALSE, None)}

\* Bound: while there are requests only one operator goes on, and there is one
\* request after operations have overlapped.
Begun == {c \in Callers : call[c] # Idle}

Bound ==
  /\ Begun # {} => \A m \in Admins \ {m1} : change[m] = NoChange
  /\ raced # {} => \A c, d \in Begun : c = d

MCNext == HistoryNext /\ Bound'

MCFairSpec ==
  /\ HistoryInit
  /\ [][MCNext]_historyVars
  /\ \A c \in Callers : WF_vars(Progress(c))
=============================================================================
