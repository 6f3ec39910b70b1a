------------------------------- MODULE MCKnowledge -------------------------------
(***************************************************************************)
(* Knowledge for TLC: somebody who does everything in one workspace, and   *)
(* somebody with less clearance in another.                                *)
(* The two contents have one passage in common.  s2 is called s1@x, and    *)
(* version v2 of s1 is x@v1: both are cited as s1@x@v1.                    *)
(***************************************************************************)
EXTENDS Knowledge, Sequences, TLC

CONSTANTS w1, w2, a1, a2, s1, s2, v1, v2, x, old, new, common, long

SourceScopes == {"scope.sources.write", "scope.sources.verify", "scope.sources.read"}

MCScopes == SourceScopes \cup {"scope.documents.write"}

Comes(w, a, scopes, clearance) ==
  [workspace |-> w, actor |-> a, scopes |-> scopes, clearance |-> clearance]

MCAccesses ==
  {Comes(w1, a1, MCScopes, 2), Comes(w2, a2, SourceScopes, 1)}

Submits(s, v, content, classification) ==
  [source |-> s, version |-> v, content |-> content,
   classification |-> classification]

MCRegistrations ==
  {Submits(s1, v1, old, 1), Submits(s1, v1, new, 1), Submits(s1, v2, old, 1),
   Submits(s1, v2, old, 2), Submits(s2, v1, old, 1)}

MCCitations == {<<s1, v1>>, <<s1, x, v1>>, <<s1, x, x, v1>>}

MCCitationOf ==
  [k \in Sources \X Versions |->
     (IF k[1] = s2 THEN <<s1, x>> ELSE <<s1>>)
       \o (IF k[2] = v2 THEN <<x, v1>> ELSE <<v1>>)]

MCPassagesOf == (old :> {common}) @@ (new :> {common, long})

\* s2 is registered in one workspace.  Documents are kept with the first version of
\* s1 only: their registry shares nothing with that of sources.
Bound ==
  \A k \in VersionKeys :
    versions'[k] # None /\ (k[2] = s2 \/ k[3] = v2) =>
      /\ k[2] = s2 => k[1] = w1
      /\ \A d \in DocumentKeys : documents'[d] = None

MCNext == Next /\ Bound

MCSpec == Init /\ [][MCNext]_vars

Symmetry == Permutations(Calls)

=============================================================================
