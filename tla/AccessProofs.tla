------------------------------- MODULE AccessProofs -------------------------------
(***************************************************************************)
(* What principals are answered stays justified and audited, for every set *)
(* of registrations, commands, domains and limits.                         *)
(***************************************************************************)
EXTENDS Access, IdentityProofs

Backed(a) == \E e \in Registered : accounts[e] = a

\* A retrieval that has been announced, or is about to be.
Admitted == {"announcing", "completing"} \cup Outgoing

\* AnswersJustified for a request g, with what makes it inductive: a request that
\* carries an authority has an actor, and a retrieval is justified from the start.
Justified(g) ==
  /\ g.actor # None => Backed(g.actor)
  /\ g.command # None /\ g.event = "ALLOWED" =>
       g.actor # None /\ Commanded(g.actor, g.command)
  /\ g.asked # None =>
       /\ g.actor # None
       /\ Holds(g.actor, g.asked.permissions, g.asked.scopes)
       /\ g.asked.external => Holds(g.actor, {ExternalPermission}, {ExternalScope})
  /\ g.phase \in Admitted =>
       g.actor # None /\ Holds(g.actor, {}, {ExternalScope})

\* AnswersAudited for a request g with trail t.
Audited(g, t) ==
  /\ g.phase = "returned" => g.event \in t
  /\ g.phase \in Outgoing \cup {"completing"} => "ALLOWED" \in t
  /\ g.phase = "returned" /\ g.external /\ g.asked = None =>
       {"ALLOWED", "SUCCESS"} \subseteq t

\* What the phases of a request imply for its other fields.
Shaped(g) ==
  /\ g.phase \in Appending => g.event \in Outcomes
  /\ g.phase = "announcing" => g.event = "ALLOWED"
  /\ g.phase = "completing" => g.event = "SUCCESS"
  /\ g.phase = "deciding" => ~g.external
  /\ g.phase \in {"asking", "receipting"} => g.asked # None

Sound(g, t) == Shaped(g) /\ Justified(g) /\ Audited(g, t)

IInv ==
  /\ DirectoryInv
  /\ call \in [Calls -> Call]
  /\ trail \in [Calls -> SUBSET Outcomes]
  /\ \A c \in Calls : Sound(call[c], trail[c])

-----------------------------------------------------------------------------
(* Principals. *)

\* Whoever can log in has a membership of the right type, and a grant for each of its
\* roles that says the same.
LEMMA BackedMember ==
  ASSUME IdentityAssumption, DirectoryInv, NEW a, Backed(a)
  PROVE  /\ a \in Actors
         /\ a # None
         /\ memberships[a] \in Membership
         /\ \A role \in memberships[a].roles :
              grants[RoleKey(memberships[a], role)] = GrantOf(memberships[a])
<1>1. PICK e \in Registered : accounts[e] = a
  BY DEF Backed
<1>2. e \in Emails /\ accounts[e] # None
  BY DEF Registered
<1>3. a \in Actors /\ memberships[a] # None
  BY <1>1, <1>2 DEF DirectoryInv, IdentityTypeOK, AccountsMember
<1>4. memberships[a] \in Membership
  BY <1>3 DEF DirectoryInv, IdentityTypeOK
<1>5. \A role \in memberships[a].roles :
        grants[RoleKey(memberships[a], role)] = GrantOf(memberships[a])
  BY <1>1 DEF DirectoryInv, RolesAgree, PrincipalOf
<1>. QED  BY <1>3, <1>4, <1>5 DEF IdentityAssumption

\* The directory has the actor and its workspace in one boundary.
LEMMA BackedPlace ==
  ASSUME IdentityAssumption, DirectoryInv, NEW a, Backed(a)
  PROVE  /\ a \in Actors
         /\ actors[a] = BoundaryOf(memberships[a]) /\ actors[a] # None
         /\ memberships[a].workspace \in Workspaces
         /\ workspaces[memberships[a].workspace] = actors[a]
<1>1. a \in Actors /\ a # None /\ memberships[a] \in Membership
  BY BackedMember
<1>2. memberships[a] # None
  BY <1>1 DEF IdentityAssumption
<1>3. /\ actors[a] = BoundaryOf(memberships[a])
      /\ workspaces[memberships[a].workspace] = BoundaryOf(memberships[a])
  BY <1>1, <1>2 DEF DirectoryInv, MembersAnchored, Anchored
<1>4. BoundaryOf(memberships[a]) \in Boundary /\ memberships[a].workspace \in Workspaces
  BY <1>1, MembershipFields
<1>. QED  BY <1>1, <1>3, <1>4 DEF IdentityAssumption

\* What the membership gives, the grants of the roles give.
LEMMA MemberHolds ==
  ASSUME IdentityAssumption, DirectoryInv, NEW a, Backed(a),
         NEW permissions, permissions \subseteq memberships[a].permissions,
         NEW scopes, scopes \subseteq memberships[a].scopes
  PROVE  Holds(a, permissions, scopes)
<1>1. \A role \in memberships[a].roles :
        grants[RoleKey(memberships[a], role)] = GrantOf(memberships[a])
  BY BackedMember
<1>. QED  BY <1>1 DEF Holds, GrantOf

\* A principal, its membership and what it holds outlast the registrations of others.
LEMMA BackedStays ==
  ASSUME IdentityAssumption, DirectoryInv, DirectoryGrows, NEW a, Backed(a)
  PROVE  /\ Backed(a)'
         /\ memberships'[a] = memberships[a]
         /\ \A role \in memberships[a].roles :
              grants'[RoleKey(memberships[a], role)] =
                grants[RoleKey(memberships[a], role)]
<1>1. PICK e \in Registered : accounts[e] = a
  BY DEF Backed
<1>2. e \in Emails /\ accounts[e] # None
  BY DEF Registered
<1>3. /\ accounts'[e] = a
      /\ memberships'[a] = memberships[a]
      /\ \A role \in memberships[a].roles :
           grants'[RoleKey(memberships[a], role)] = GrantOf(memberships[a])
  BY <1>1, <1>2, AccountStays DEF PrincipalOf
<1>4. Backed(a)'
  BY <1>1, <1>2, <1>3 DEF Backed, Registered
<1>. QED  BY <1>3, <1>4, BackedMember

LEMMA HoldsStays ==
  ASSUME IdentityAssumption, DirectoryInv, DirectoryGrows, NEW a, Backed(a),
         NEW permissions, NEW scopes, Holds(a, permissions, scopes)
  PROVE  Holds(a, permissions, scopes)'
BY BackedStays DEF Holds, RoleKey

LEMMA CommandedStays ==
  ASSUME IdentityAssumption, DirectoryInv, DirectoryGrows, NEW a, Backed(a),
         NEW q, Commanded(a, q)
  PROVE  Commanded(a, q)'
<1>1. Holds(a, {q.permission}, q.scopes)'
  BY HoldsStays DEF Commanded
<1>2. memberships'[a] = memberships[a]
  BY BackedStays
<1>3. /\ actors'[a] = actors[a]
      /\ workspaces'[memberships[a].workspace] = workspaces[memberships[a].workspace]
  BY BackedPlace DEF DirectoryGrows
<1>4. ClaimsHold(a, q.claims)'
  BY <1>2, <1>3 DEF Commanded, ClaimsHold
<1>. QED  BY <1>1, <1>2, <1>4 DEF Commanded

LEMMA JustifiedStays ==
  ASSUME IdentityAssumption, DirectoryInv, DirectoryGrows, NEW g, Justified(g)
  PROVE  Justified(g)'
<1>1. CASE g.actor = None
  BY <1>1 DEF Justified
<1>2. CASE g.actor # None
  <2>1. Backed(g.actor)
    BY <1>2 DEF Justified
  <2>2. Backed(g.actor)' /\ memberships'[g.actor] = memberships[g.actor]
    BY <2>1, BackedStays
  <2>3. \A permissions, scopes :
          Holds(g.actor, permissions, scopes) => Holds(g.actor, permissions, scopes)'
    BY <2>1, HoldsStays
  <2>4. \A q : Commanded(g.actor, q) => Commanded(g.actor, q)'
    BY <2>1, CommandedStays
  <2>. QED  BY <1>2, <2>2, <2>3, <2>4 DEF Justified
<1>. QED  BY <1>1, <1>2

-----------------------------------------------------------------------------
(* Steps of a request. *)

LEMMA AppendingPhases ==
  /\ Appending = {"deciding", "refusing", "receipting", "announcing", "completing", "closing"}
  /\ Then["deciding"] = "returned"
  /\ Then["refusing"] = "raised"
  /\ Then["receipting"] = "returned"
  /\ Then["announcing"] = "fetching"
  /\ Then["completing"] = "returned"
  /\ Then["closing"] = "raised"
BY DEF Appending, Then

LEMMA IdleCall ==
  ASSUME AccessAssumption
  PROVE  Idle \in Call
BY AppendingPhases DEF Idle, Call, Phases, Ended, AccessAssumption

\* The fields of a request.
LEMMA CallFields ==
  ASSUME NEW g \in Call
  PROVE  /\ g.phase \in Phases
         /\ g.actor \in Actors \cup {None}
         /\ g.command \in Command \cup {None}
         /\ g.asked \in Authority \cup {None}
         /\ g.external \in BOOLEAN
         /\ g.received \in 0..MaxBytes
         /\ g.event \in Outcomes \cup {None}
BY DEF Call

\* A request that has become g, with trail t, keeps the invariant if g and t are sound.
LEMMA RequestChanges ==
  ASSUME IInv, NEW c \in Calls, NEW g \in Call, NEW t \in SUBSET Outcomes,
         Goes(c, g), trail' = [trail EXCEPT ![c] = t], UNCHANGED identityVars,
         Sound(g, t)
  PROVE  IInv'
<1>1. DirectoryInv'
  BY DirectoryFrame DEF IInv
<1>2. /\ call' \in [Calls -> Call]
      /\ trail' \in [Calls -> SUBSET Outcomes]
  BY DEF IInv, Goes
<1>3. ASSUME NEW d \in Calls
      PROVE  Sound(call[d], trail[d])' = Sound(call'[d], trail'[d])
  <2>1. Justified(call[d])' = Justified(call'[d])
    BY DEF Justified, Holds, Backed, Registered, Commanded, ClaimsHold, RoleKey, identityVars
  <2>2. /\ Shaped(call[d])' = Shaped(call'[d])
        /\ Audited(call[d], trail[d])' = Audited(call'[d], trail'[d])
    BY DEF Shaped, Audited
  <2>. QED  BY <2>1, <2>2 DEF Sound
<1>4. ASSUME NEW d \in Calls
      PROVE  Sound(call'[d], trail'[d])
  <2>1. call'[d] = (IF d = c THEN g ELSE call[d]) /\ trail'[d] = (IF d = c THEN t ELSE trail[d])
    BY DEF IInv, Goes
  <2>. QED  BY <2>1 DEF IInv
<1>. QED  BY <1>1, <1>2, <1>3, <1>4 DEF IInv

LEMMA AsksSound ==
  ASSUME IInv, NEW c \in Calls, NEW g \in Call, Asks(c, g), Sound(g, {})
  PROVE  IInv'
BY RequestChanges DEF Asks

LEMMA MovesSound ==
  ASSUME IInv, NEW c \in Calls, NEW g \in Call, Moves(c, g), Sound(g, trail[c])
  PROVE  IInv'
<1>1. trail' = [trail EXCEPT ![c] = trail[c]] /\ trail[c] \in SUBSET Outcomes
  BY DEF IInv, Moves
<1>. QED  BY <1>1, RequestChanges DEF Moves

LEMMA EnforceSound ==
  ASSUME IdentityAssumption, AccessAssumption, IInv, NEW c \in Calls, NEW a,
         a = None \/ Backed(a), NEW q \in Commands, Enforce(c, a, q)
  PROVE  IInv'
<1> DEFINE g == [Idle EXCEPT !.phase = "deciding", !.actor = a, !.command = q,
                             !.event = Decision(a, q)]
<1>1. q \in Command
  BY DEF AccessAssumption
<1>2. a \in Actors \cup {None}
  BY BackedMember DEF IInv
<1>3. Decision(a, q) \in Outcomes
  BY DEF Decision, Outcomes
<1>4. g \in Call
  BY <1>1, <1>2, <1>3, IdleCall, AppendingPhases DEF Call, Phases
<1>5. /\ g.phase = "deciding" /\ g.actor = a /\ g.command = q
      /\ g.event = Decision(a, q) /\ g.asked = None /\ g.external = FALSE
  BY DEF Idle
<1>6. Asks(c, g)
  BY DEF Enforce
<1> HIDE DEF g
<1>7. Justified(g)
  <2>1. g.actor # None => Backed(g.actor)
    BY <1>5
  <2>2. ASSUME Decision(a, q) = "ALLOWED"
        PROVE  a # None /\ Commanded(a, q)
    <3>1. a # None /\ ~Conflicting(a, memberships[a], q.claims)
      BY <2>2 DEF Decision
    <3>2. IsAllowed(memberships[a], q)
      BY <2>2 DEF Decision
    <3>3. DirectoryInv
      BY DEF IInv
    <3>4. {q.permission} \subseteq memberships[a].permissions
          /\ q.scopes \subseteq memberships[a].scopes
      BY <3>2 DEF IsAllowed
    <3>5. Holds(a, {q.permission}, q.scopes)
      BY <3>1, <3>3, <3>4, MemberHolds
    <3>6. actors[a].tenant = memberships[a].tenant
          /\ workspaces[memberships[a].workspace] = actors[a]
      <4>1. /\ actors[a] = BoundaryOf(memberships[a])
            /\ workspaces[memberships[a].workspace] = actors[a]
        BY <3>1, <3>3, BackedPlace
      <4>. QED  BY <4>1 DEF BoundaryOf
    <3>7. ClaimsHold(a, q.claims)
      BY <3>1, <3>6 DEF Conflicting, ClaimsHold
    <3>. QED  BY <3>1, <3>2, <3>5, <3>7 DEF IsAllowed, Commanded
  <2>. QED  BY <1>5, <2>1, <2>2 DEF Justified, Admitted, Outgoing
<1>8. Shaped(g) /\ Audited(g, {})
  BY <1>3, <1>5, AppendingPhases DEF Shaped, Audited, Outgoing
<1>. QED  BY <1>4, <1>6, <1>7, <1>8, AsksSound DEF Sound

\* A request that is refused at once.
LEMMA RefusedSound ==
  ASSUME IdentityAssumption, AccessAssumption, IInv, NEW c \in Calls, NEW a, Backed(a),
         NEW p \in {"refusing", "closing"}, NEW outcome \in Outcomes,
         NEW external \in BOOLEAN,
         Asks(c, [Idle EXCEPT !.phase = p, !.actor = a, !.external = external,
                              !.event = outcome])
  PROVE  IInv'
<1> DEFINE g == [Idle EXCEPT !.phase = p, !.actor = a, !.external = external,
                             !.event = outcome]
<1>1. a \in Actors
  BY BackedMember DEF IInv
<1>2. g \in Call
  BY <1>1, IdleCall, AppendingPhases DEF Call, Phases
<1>3. /\ g.phase = p /\ g.actor = a /\ g.command = None /\ g.asked = None
      /\ g.event = outcome
  BY DEF Idle
<1>4. Asks(c, g)
  OBVIOUS
<1> HIDE DEF g
<1>5. Sound(g, {})
  BY <1>3, AppendingPhases DEF Sound, Shaped, Justified, Audited, Admitted, Outgoing
<1>. QED  BY <1>2, <1>4, <1>5, AsksSound

LEMMA AskGenesisSound ==
  ASSUME IdentityAssumption, AccessAssumption, IInv, NEW c \in Calls, NEW a, Backed(a),
         NEW domain \in Domains, NEW external \in BOOLEAN,
         AskGenesis(c, a, domain, external)
  PROVE  IInv'
<1> DEFINE asked == AuthorityFor(memberships[a], domain, external)
           g == [Idle EXCEPT !.phase = "asking", !.actor = a, !.external = external,
                             !.asked = asked]
           m == memberships[a]
<1>1. a \in Actors /\ a # None /\ m \in Membership
  BY BackedMember DEF IInv
<1>2. /\ asked.permissions \subseteq m.permissions
      /\ asked.scopes \subseteq m.scopes
      /\ asked.external => /\ {ExternalPermission} \subseteq m.permissions
                          /\ {ExternalScope} \subseteq m.scopes
  BY DEF AskGenesis, MayResearch, AuthorityFor, MayLookOutside
<1>3. asked \in Authority
  BY DEF AuthorityFor, Authority, AccessAssumption, MayLookOutside
<1>4. asked # None
  BY <1>3 DEF AccessAssumption
<1>5. Asks(c, g)
  BY DEF AskGenesis
<1> HIDE DEF asked
<1>6. g \in Call
  BY <1>1, <1>3, IdleCall, AppendingPhases DEF Call, Phases
<1>7. /\ g.phase = "asking" /\ g.actor = a /\ g.command = None /\ g.asked = asked
  BY DEF Idle
<1> HIDE DEF g
<1>8. /\ Holds(a, asked.permissions, asked.scopes)
      /\ asked.external => Holds(a, {ExternalPermission}, {ExternalScope})
  <2>1. DirectoryInv
    BY DEF IInv
  <2>. QED  BY <1>2, <2>1, MemberHolds
<1>9. Justified(g)
  BY <1>1, <1>7, <1>8 DEF Justified, Admitted, Outgoing
<1>10. Shaped(g) /\ Audited(g, {})
  BY <1>4, <1>7, AppendingPhases DEF Shaped, Audited, Outgoing
<1>. QED  BY <1>5, <1>6, <1>9, <1>10, AsksSound DEF Sound

LEMMA AnnounceSound ==
  ASSUME IdentityAssumption, AccessAssumption, IInv, NEW c \in Calls, NEW a, Backed(a),
         Announce(c, a)
  PROVE  IInv'
<1> DEFINE g == [Idle EXCEPT !.phase = "announcing", !.actor = a, !.external = TRUE,
                             !.event = "ALLOWED"]
<1>1. a \in Actors /\ a # None
  BY BackedMember DEF IInv
<1>2. g \in Call
  BY <1>1, IdleCall, AppendingPhases DEF Call, Phases, Outcomes
<1>3. /\ g.phase = "announcing" /\ g.actor = a /\ g.command = None
      /\ g.asked = None /\ g.event = "ALLOWED"
  BY DEF Idle
<1>4. Asks(c, g)
  BY DEF Announce
<1> HIDE DEF g
<1>5. Holds(a, {}, {ExternalScope})
  <2>1. DirectoryInv /\ {ExternalScope} \subseteq memberships[a].scopes
    BY DEF IInv, Announce
  <2>. QED  BY <2>1, MemberHolds
<1>6. Sound(g, {})
  BY <1>1, <1>3, <1>5, AppendingPhases
     DEF Sound, Shaped, Justified, Audited, Admitted, Outgoing, Outcomes
<1>. QED  BY <1>2, <1>4, <1>6, AsksSound

-----------------------------------------------------------------------------
(* Continuations. *)

\* Request g has gone on to phase p with event `event'; n bytes have been read.
Later(g, p, event, n) == [g EXCEPT !.phase = p, !.event = event, !.received = n]

LEMMA LaterCall ==
  ASSUME NEW g \in Call, NEW p \in Phases, NEW event \in Outcomes \cup {None},
         NEW n \in 0..MaxBytes
  PROVE  /\ Later(g, p, event, n) \in Call
         /\ Later(g, p, event, n).phase = p
         /\ Later(g, p, event, n).event = event
         /\ Later(g, p, event, n).actor = g.actor
         /\ Later(g, p, event, n).command = g.command
         /\ Later(g, p, event, n).asked = g.asked
         /\ Later(g, p, event, n).external = g.external
BY DEF Later, Call

\* A request that ends without an answer.
LEMMA FailsSound ==
  ASSUME IInv, NEW c \in Calls, NEW p \in {"closing", "raised"},
         NEW event \in Outcomes \cup {None},
         p = "closing" => event \in Outcomes,
         event = "ALLOWED" => event = call[c].event,
         Moves(c, Later(call[c], p, event, call[c].received))
  PROVE  IInv'
<1> DEFINE g == call[c]
           h == Later(g, p, event, g.received)
<1>1. g \in Call /\ Sound(g, trail[c])
  BY DEF IInv
<1>2. p \in Phases
  BY AppendingPhases DEF Phases, Ended
<1>3. g.received \in 0..MaxBytes
  BY <1>1, CallFields
<1>4. /\ h \in Call /\ h.phase = p /\ h.event = event
      /\ h.actor = g.actor /\ h.command = g.command /\ h.asked = g.asked
  BY <1>1, <1>2, <1>3, LaterCall
<1>5. Moves(c, h)
  OBVIOUS
<1> HIDE DEF g, h
<1>6. event = "ALLOWED" => event = g.event
  BY DEF g
<1>7. Shaped(h)
  BY <1>4, AppendingPhases DEF Shaped
<1>8. Justified(h) /\ Audited(h, trail[c])
  BY <1>1, <1>4, <1>6 DEF Sound, Justified, Audited, Admitted, Outgoing
<1>. QED  BY <1>4, <1>5, <1>7, <1>8, MovesSound DEF Sound

LEMMA BlockSound ==
  ASSUME IInv, NEW c \in Calls, Block(c)
  PROVE  IInv'
<1>1. call[c] \in Call
  BY DEF IInv
<1>2. Later(call[c], "closing", "BLOCKED", call[c].received) =
        [call[c] EXCEPT !.phase = "closing", !.event = "BLOCKED"]
  BY <1>1 DEF Later, Call
<1>3. Moves(c, Later(call[c], "closing", "BLOCKED", call[c].received))
  BY <1>2 DEF Block
<1>4. "BLOCKED" \in Outcomes
  BY DEF Outcomes
<1>. QED  BY <1>3, <1>4, FailsSound

LEMMA UnavailableSound ==
  ASSUME IInv, NEW c \in Calls, NEW outcome \in {"TIMEOUT", "FAILED"},
         Unavailable(c, outcome)
  PROVE  IInv'
<1>1. call[c] \in Call
  BY DEF IInv
<1>2. Later(call[c], "closing", outcome, call[c].received) =
        [call[c] EXCEPT !.phase = "closing", !.event = outcome]
  BY <1>1 DEF Later, Call
<1>3. Moves(c, Later(call[c], "closing", outcome, call[c].received))
  BY <1>2 DEF Unavailable
<1>4. outcome \in Outcomes
  BY DEF Outcomes
<1>. QED  BY <1>3, <1>4, FailsSound

LEMMA AbortSound ==
  ASSUME IInv, NEW c \in Calls, Abort(c)
  PROVE  IInv'
<1>1. call[c] \in Call
  BY DEF IInv
<1>2. Later(call[c], "raised", call[c].event, call[c].received) =
        [call[c] EXCEPT !.phase = "raised"]
  BY <1>1 DEF Later, Call
<1>3. Moves(c, Later(call[c], "raised", call[c].event, call[c].received))
  BY <1>2 DEF Abort
<1>4. call[c].event \in Outcomes \cup {None}
  BY <1>1, CallFields
<1>. QED  BY <1>3, <1>4, FailsSound

LEMMA GenesisAnswersSound ==
  ASSUME IInv, NEW c \in Calls, GenesisAnswers(c)
  PROVE  IInv'
<1> DEFINE g == call[c]
           h == [g EXCEPT !.phase = "receipting", !.event = "SUCCESS"]
<1>1. g \in Call /\ Sound(g, trail[c]) /\ g.phase = "asking"
  BY DEF IInv, GenesisAnswers
<1>2. h \in Call
  BY <1>1, AppendingPhases DEF Call, Phases, Outcomes
<1>3. /\ h.phase = "receipting" /\ h.event = "SUCCESS" /\ h.actor = g.actor
      /\ h.command = g.command /\ h.asked = g.asked
  BY <1>1 DEF Call
<1>4. Moves(c, h)
  BY DEF GenesisAnswers
<1> HIDE DEF g, h
<1>5. Shaped(h)
  BY <1>1, <1>3, AppendingPhases DEF Sound, Shaped, Outcomes
<1>6. Justified(h) /\ Audited(h, trail[c])
  BY <1>1, <1>3 DEF Sound, Justified, Audited, Admitted, Outgoing
<1>. QED  BY <1>2, <1>4, <1>5, <1>6, MovesSound DEF Sound

\* A response that is read, or has been read.
LEMMA ReadingSound ==
  ASSUME IInv, NEW c \in Calls, call[c].phase \in Outgoing,
         NEW p \in {"streaming", "completing"}, NEW event \in Outcomes \cup {None},
         NEW n \in 0..MaxBytes,
         p = "streaming" => event = call[c].event,
         p = "completing" => event = "SUCCESS",
         Moves(c, Later(call[c], p, event, n))
  PROVE  IInv'
<1> DEFINE g == call[c]
           h == Later(g, p, event, n)
<1>1. g \in Call /\ Sound(g, trail[c]) /\ g.phase \in Outgoing
  BY DEF IInv
<1>2. p \in Phases
  BY AppendingPhases DEF Phases, Outgoing
<1>3. /\ h \in Call /\ h.phase = p /\ h.event = event
      /\ h.actor = g.actor /\ h.command = g.command /\ h.asked = g.asked
  BY <1>1, <1>2, LaterCall
<1>4. Moves(c, h)
  OBVIOUS
<1>5. (p = "streaming" => event = g.event) /\ (p = "completing" => event = "SUCCESS")
  OBVIOUS
<1> HIDE DEF g, h
<1>6. Justified(h)
  BY <1>1, <1>3, <1>5 DEF Sound, Justified, Admitted
<1>7. Shaped(h)
  BY <1>3, <1>5, AppendingPhases DEF Shaped, Outcomes
<1>8. Audited(h, trail[c])
  BY <1>1, <1>3, <1>5 DEF Sound, Audited, Outgoing
<1>. QED  BY <1>3, <1>4, <1>6, <1>7, <1>8, MovesSound DEF Sound

LEMMA RespondSound ==
  ASSUME IInv, NEW c \in Calls, NEW acceptable, NEW length,
         Respond(c, acceptable, length)
  PROVE  IInv'
<1>1. CASE acceptable /\ length <= MaxBytes
  <2>1. call[c] \in Call /\ call[c].phase \in Outgoing
    BY DEF IInv, Respond, Outgoing
  <2>2. Moves(c, [call[c] EXCEPT !.phase = "streaming"])
    BY <1>1 DEF Respond
  <2>3. Later(call[c], "streaming", call[c].event, call[c].received) =
          [call[c] EXCEPT !.phase = "streaming"]
    BY <2>1 DEF Later, Call
  <2>4. call[c].event \in Outcomes \cup {None} /\ call[c].received \in 0..MaxBytes
    BY <2>1, CallFields
  <2>. QED  BY <2>1, <2>2, <2>3, <2>4, ReadingSound
<1>2. CASE ~(acceptable /\ length <= MaxBytes)
  BY <1>2, BlockSound DEF Respond
<1>. QED  BY <1>1, <1>2

LEMMA ReadChunkSound ==
  ASSUME AccessAssumption, IInv, NEW c \in Calls, NEW bytes \in 1..MaxChunk,
         ReadChunk(c, bytes)
  PROVE  IInv'
<1> DEFINE n == Count(call[c], bytes)
<1>1. call[c] \in Call /\ call[c].phase = "streaming"
  BY DEF IInv, ReadChunk
<1>2. call[c].event \in Outcomes \cup {None} /\ call[c].received \in 0..MaxBytes
  BY <1>1, CallFields
<1>3. n \in Nat
  BY <1>2 DEF Count, AccessAssumption
<1>4. CASE n > MaxBytes
  BY <1>4, BlockSound DEF ReadChunk
<1>5. CASE ~(n > MaxBytes)
  <2>1. n \in 0..MaxBytes
    BY <1>3, <1>5 DEF AccessAssumption
  <2>2. Moves(c, [call[c] EXCEPT !.received = n])
    BY <1>5 DEF ReadChunk
  <2> HIDE DEF n
  <2>3. Later(call[c], "streaming", call[c].event, n) = [call[c] EXCEPT !.received = n]
    BY <1>1, <2>1 DEF Later, Call
  <2>. QED  BY <1>1, <1>2, <2>1, <2>2, <2>3, ReadingSound DEF Outgoing
<1>. QED  BY <1>4, <1>5

LEMMA ReadAllSound ==
  ASSUME IInv, NEW c \in Calls, ReadAll(c)
  PROVE  IInv'
<1>1. call[c] \in Call /\ call[c].phase \in Outgoing
  BY DEF IInv, ReadAll, Outgoing
<1>2. call[c].received \in 0..MaxBytes
  BY <1>1, CallFields
<1>3. Later(call[c], "completing", "SUCCESS", call[c].received) =
        [call[c] EXCEPT !.phase = "completing", !.event = "SUCCESS"]
  BY <1>1 DEF Later, Call
<1>4. Moves(c, Later(call[c], "completing", "SUCCESS", call[c].received))
  BY <1>3 DEF ReadAll
<1>5. "SUCCESS" \in Outcomes
  BY DEF Outcomes
<1>. QED  BY <1>1, <1>2, <1>4, <1>5, ReadingSound

LEMMA AppendSound ==
  ASSUME IInv, NEW c \in Calls, Append(c)
  PROVE  IInv'
<1> DEFINE g == call[c]
           h == [g EXCEPT !.phase = Then[g.phase]]
           t == trail[c] \cup {g.event}
<1>1. g \in Call /\ Sound(g, trail[c]) /\ g.phase \in Appending
  BY DEF IInv, Append
<1>2. Then[g.phase] \in {"returned", "raised", "fetching"}
  BY <1>1, AppendingPhases
<1>3. h \in Call
  BY <1>1, <1>2 DEF Call, Phases, Outgoing, Ended
<1>4. /\ h.phase = Then[g.phase] /\ h.event = g.event /\ h.actor = g.actor
      /\ h.command = g.command /\ h.asked = g.asked /\ h.external = g.external
  BY <1>1 DEF Call
<1>5. t \in SUBSET Outcomes
  BY <1>1 DEF IInv, Sound, Shaped
<1>6. Goes(c, h) /\ trail' = [trail EXCEPT ![c] = t] /\ UNCHANGED identityVars
  BY DEF Append, IInv
<1>7. trail[c] \subseteq t /\ g.event \in t
  OBVIOUS
<1> HIDE DEF g, h, t
<1>8. Shaped(h)
  BY <1>2, <1>4, AppendingPhases DEF Shaped
<1>9. Justified(h)
  <2>1. h.phase \in Admitted => g.phase = "announcing"
    BY <1>1, <1>4, AppendingPhases DEF Admitted, Outgoing
  <2>. QED  BY <1>1, <1>4, <2>1 DEF Sound, Justified, Admitted
<1>10. Audited(h, t)
  <2>1. h.phase \in Outgoing \cup {"completing"} => g.phase = "announcing"
    BY <1>1, <1>4, AppendingPhases DEF Outgoing
  <2>2. h.phase = "returned" => g.phase \in {"deciding", "receipting", "completing"}
    BY <1>1, <1>4, AppendingPhases
  <2>. QED  BY <1>1, <1>4, <1>7, <2>1, <2>2 DEF Sound, Shaped, Audited
<1>. QED  BY <1>3, <1>5, <1>6, <1>8, <1>9, <1>10, RequestChanges DEF Sound

LEMMA ProceedsSound ==
  ASSUME AccessAssumption, IInv, NEW c \in Calls, Proceeds(c)
  PROVE  IInv'
BY GenesisAnswersSound, RespondSound, ReadChunkSound, ReadAllSound, UnavailableSound,
   AppendSound, AbortSound DEF Proceeds

LEMMA RequestSound ==
  ASSUME IdentityAssumption, AccessAssumption, IInv, NEW c \in Calls, Request(c)
  PROVE  IInv'
<1>1. CASE \E q \in Commands : Enforce(c, None, q)
  BY <1>1, EnforceSound
<1>2. ASSUME NEW e \in Registered,
             LET a == accounts[e]
             IN
             \/ \E q \in Commands : Enforce(c, a, q)
             \/ \E domain \in Domains : RefuseResearch(c, a, domain)
             \/ \E domain \in Domains, external \in BOOLEAN :
                  AskGenesis(c, a, domain, external)
             \/ Announce(c, a)
             \/ \E admitted \in BOOLEAN : RefuseRetrieval(c, a, admitted)
      PROVE  IInv'
  <2> DEFINE a == accounts[e]
  <2>1. Backed(a)
    BY DEF Backed
  <2> HIDE DEF a
  <2>2. CASE \E q \in Commands : Enforce(c, a, q)
    BY <2>1, <2>2, EnforceSound
  <2>3. CASE \E domain \in Domains : RefuseResearch(c, a, domain)
    <3>1. Asks(c, [Idle EXCEPT !.phase = "refusing", !.actor = a, !.event = "DENIED"])
      BY <2>3 DEF RefuseResearch
    <3>2. Idle.external = FALSE /\ Idle \in Call
      BY IdleCall DEF Idle
    <3>3. [Idle EXCEPT !.phase = "refusing", !.actor = a, !.event = "DENIED"]
            = [Idle EXCEPT !.phase = "refusing", !.actor = a, !.external = FALSE,
                           !.event = "DENIED"]
      BY <3>2 DEF Call
    <3>4. "DENIED" \in Outcomes
      BY DEF Outcomes
    <3>5. Asks(c, [Idle EXCEPT !.phase = "refusing", !.actor = a, !.external = FALSE,
                               !.event = "DENIED"])
      BY <3>1, <3>3
    <3>. QED  BY <2>1, <3>4, <3>5, RefusedSound
  <2>4. CASE \E domain \in Domains, external \in BOOLEAN :
               AskGenesis(c, a, domain, external)
    BY <2>1, <2>4, AskGenesisSound
  <2>5. CASE Announce(c, a)
    BY <2>1, <2>5, AnnounceSound
  <2>6. CASE \E admitted \in BOOLEAN : RefuseRetrieval(c, a, admitted)
    <3>1. Asks(c, [Idle EXCEPT !.phase = "closing", !.actor = a, !.external = TRUE,
                               !.event = "BLOCKED"])
      BY <2>6 DEF RefuseRetrieval
    <3>2. "BLOCKED" \in Outcomes
      BY DEF Outcomes
    <3>. QED  BY <2>1, <3>1, <3>2, RefusedSound
  <2>. QED  BY <1>2, <2>2, <2>3, <2>4, <2>5, <2>6 DEF a
<1>. QED  BY <1>1, <1>2 DEF Request

\* Registrations of others leave every request sound.
LEMMA OthersRegister ==
  ASSUME IdentityAssumption, IInv, Register, UNCHANGED <<call, trail>>
  PROVE  IInv'
<1>1. DirectoryInv' /\ DirectoryGrows
  BY RegisterSound DEF IInv
<1>2. ASSUME NEW c \in Calls
      PROVE  Sound(call[c], trail[c])'
  <2>1. Justified(call[c]) /\ Shaped(call[c]) /\ Audited(call[c], trail[c])
    BY DEF IInv, Sound
  <2>2. call'[c] = call[c] /\ trail'[c] = trail[c]
    OBVIOUS
  <2>3. ASSUME NEW x, Justified(x)
        PROVE  Justified(x)'
    <3>1. DirectoryInv
      BY DEF IInv
    <3>. QED  BY <1>1, <2>3, <3>1, JustifiedStays
  <2>4. PICK x : x = call[c]
    OBVIOUS
  <2>5. Justified(x)'
    BY <2>1, <2>3, <2>4
  <2>6. x = call'[c]
    BY <2>2, <2>4
  <2>7. Justified(call[c])'
    <3>1. Justified(x)' = Justified(call[c])'
      BY <2>6 DEF Justified, Holds, Backed, Registered, Commanded, ClaimsHold, RoleKey
    <3>. QED  BY <2>5, <3>1
  <2>8. Shaped(call[c])' /\ Audited(call[c], trail[c])'
    BY <2>1, <2>2 DEF Shaped, Audited
  <2>. QED  BY <2>7, <2>8 DEF Sound
<1>. QED  BY <1>1, <1>2 DEF IInv

-----------------------------------------------------------------------------
(* The theorems. *)

LEMMA InitSound ==
  ASSUME IdentityAssumption, AccessAssumption, Init
  PROVE  IInv
<1>1. DirectoryInv
  BY EmptySound DEF Init
<1>2. call \in [Calls -> Call] /\ trail \in [Calls -> SUBSET Outcomes]
  BY IdleCall DEF Init
<1>3. ASSUME NEW c \in Calls
      PROVE  Sound(call[c], trail[c])
  <2>1. call[c] = Idle
    BY DEF Init
  <2>2. Idle.phase = "idle" /\ Idle.actor = None /\ Idle.command = None /\ Idle.asked = None
    BY DEF Idle
  <2>. QED  BY <2>1, <2>2, AppendingPhases
            DEF Sound, Shaped, Justified, Audited, Admitted, Outgoing
<1>. QED  BY <1>1, <1>2, <1>3 DEF IInv

LEMMA NextSound ==
  ASSUME IdentityAssumption, AccessAssumption, IInv, [Next]_vars
  PROVE  IInv'
<1>1. CASE Register /\ UNCHANGED <<call, trail>>
  BY <1>1, OthersRegister
<1>2. ASSUME NEW c \in Calls, Request(c) \/ Proceeds(c)
      PROVE  IInv'
  BY <1>2, RequestSound, ProceedsSound
<1>3. CASE UNCHANGED vars
  <2>1. DirectoryInv'
    BY <1>3, DirectoryFrame DEF IInv, vars
  <2>2. ASSUME NEW c \in Calls
        PROVE  Sound(call[c], trail[c])'
    <3>1. Sound(call[c], trail[c])
      BY DEF IInv
    <3>2. UNCHANGED <<identityVars, call, trail>>
      BY <1>3 DEF vars
    <3>3. Justified(call[c])' = Justified(call[c])
      BY <3>2 DEF identityVars, Justified, Holds, Backed, Registered, Commanded, ClaimsHold, RoleKey
    <3>4. /\ Shaped(call[c])' = Shaped(call[c])
          /\ Audited(call[c], trail[c])' = Audited(call[c], trail[c])
      BY <3>2 DEF Shaped, Audited
    <3>. QED  BY <3>1, <3>3, <3>4 DEF Sound
  <2>. QED  BY <1>3, <2>1, <2>2 DEF IInv, vars
<1>. QED  BY <1>1, <1>2, <1>3 DEF Next

LEMMA Invariance ==
  Spec => []IInv
<1>1. Init => IInv
  BY InitSound, IdentityAssumption, AccessAssumption
<1>2. IInv /\ [Next]_vars => IInv'
  BY NextSound, IdentityAssumption, AccessAssumption
<1>. QED  BY <1>1, <1>2, PTL DEF Spec

\* The tables of the directory have their types, and a response that is read, in
\* chunks of any size, never exceeds the limit of external_retrieval.py.
THEOREM TypeCorrect ==
  Spec => []TypeOK
<1>1. IInv => TypeOK
  BY DEF IInv, DirectoryInv, TypeOK
<1>. QED  BY <1>1, Invariance, PTL

\* Whatever registrations succeed, or stop half-way in register(), whoever can log
\* in is anchored in one boundary and has what its roles are granted there.
THEOREM AccountsStaySound ==
  Spec => []AccountsSound
<1>1. IInv => AccountsSound
  BY DirectorySound DEF IInv
<1>. QED  BY <1>1, Invariance, PTL

\* Whatever was allowed by enforce(), sent to GENESIS or read from outside is
\* covered by the membership and by every role of an actor who can log in; an
\* allowed command is aimed at units of the actor, and claims no other actor, tenant
\* or workspace than the directory has.
THEOREM AnswersStayJustified ==
  Spec => []AnswersJustified
<1>1. IInv => AnswersJustified
  BY DEF IInv, Sound, Justified, Backed, Admitted, AnswersJustified
<1>. QED  BY <1>1, Invariance, PTL

\* No answer is returned without its event, and no external source is contacted before
\* the event that allows it, whichever appends fail.
THEOREM AnswersStayAudited ==
  Spec => []AnswersAudited
<1>1. IInv => AnswersAudited
  BY DEF IInv, Sound, Audited, AnswersAudited
<1>. QED  BY <1>1, Invariance, PTL

=============================================================================
