------------------------------ MODULE MCAgentRuns ------------------------------
(***************************************************************************)
(* AgentRuns for TLC: GENESIS proposes an agent that needs g1 and refers   *)
(* to a skill of its own accord, and another one that needs g1 and g2; one *)
(* principal has both grants, the other one only the first.                *)
(***************************************************************************)
EXTENDS AgentRuns, TLC

CONSTANTS v1, v2, s1, m1, g1, g2, t1, alice, bob

Needs(grants, tools, refs) ==
  [grants |-> grants, tools |-> tools, refs |-> refs]

MCGrants == {g1, g2}
MCGrantsOf == [p \in {alice, bob} |-> IF p = alice THEN {g1, g2} ELSE {g1}]

MCDefinitions == {Needs({g1}, {t1}, {})}

MCProposals ==
  LET capability == [subject |-> m1, definition |-> Needs({g1}, {t1}, {})]
      propose(d) == [capability |-> capability, grants |-> {g1},
                     agent |-> [subject |-> v1, definition |-> d]]
  IN
  {propose(Needs({g1}, {t1}, {s1})), propose(Needs({g1, g2}, {t1}, {})),
   [capability |-> [capability EXCEPT !.definition.tools = {}],
    grants |-> {}, agent |-> None]}

MCRunRequests ==
  LET ask(test, grants, tools, refs) ==
        [test |-> test, context |-> [grants |-> grants, tools |-> tools],
         tools |-> {}, refs |-> refs]
  IN
  {ask(FALSE, {g1, g2}, {t1}, None), ask(TRUE, {g1, g2}, {t1}, {}),
   ask(FALSE, {g1}, {}, None), ask(FALSE, {g1}, {t1}, {s1})}

Symmetry == Permutations(Calls)

=============================================================================
