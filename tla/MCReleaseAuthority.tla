-------------------------- MODULE MCReleaseAuthority --------------------------
(***************************************************************************)
(* ReleaseAuthority for TLC: a material release r1 and two non-material    *)
(* ones, r2 and r3, as far as the configuration creates them.  The humans  *)
(* submit IT approvals of both reviews, of which one fits r1 alone, and an *)
(* approval and a rejection of the Director.                               *)
(***************************************************************************)
EXTENDS ReleaseAuthority, TLC

CONSTANTS r1, r2, r3, s1, s2, v1, v2

MCSubjects == {s1, s2}
MCReviews == {v1, v2}
MCSubject == [r \in Releases |-> s1]
MCReview == [r \in Releases |-> IF r = r1 THEN v1 ELSE v2]

MCDecisions ==
  LET decide(a, o, v, r) == [authority |-> a, outcome |-> o, review |-> v,
                             release |-> r, subject |-> None]
  IN
  {decide("IT", "APPROVED", v1, None), decide("IT", "APPROVED", v2, None),
   decide("DIRECTOR", "APPROVED", v1, r1),
   decide("DIRECTOR", "REJECTED", v1, None)}

MCPackages == [review: MCReviews, subject: MCSubjects]

\* One report that passes and two that must not: an empty one and one whose
\* negative test was not run.
MCReports ==
  {[required |-> {"NEGATIVE"},
    checks |-> {[category |-> "NEGATIVE", passed |-> TRUE]}],
   [required |-> {}, checks |-> {}],
   [required |-> {"NEGATIVE"},
    checks |-> {[category |-> "POSITIVE", passed |-> TRUE]}]}

Symmetry == Permutations(Calls)

=============================================================================
