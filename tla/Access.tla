--------------------------------- MODULE Access ---------------------------------
(***************************************************************************)
(* What authenticated principals ask for while others register: decisions  *)
(* of src/alos/authorization/enforcement.py, research requests to GENESIS  *)
(* (src/alos/research/service.py) and the retrieval of external sources    *)
(* (src/alos/integrations/external_retrieval.py).                          *)
(*                                                                         *)
(* A call resolves its principal and makes its checks in one step; it is   *)
(* suspended where it appends an event, asks GENESIS or reads a response.  *)
(***************************************************************************)
EXTENDS Identity, Naturals

CONSTANTS
  Calls,               \* concurrent requests
  Commands,            \* what enforce() is asked
  Domains,             \* DOMAIN_SCOPE: the scopes of the research domains
  RequestPermission,   \* "research.request"
  ExternalPermission,  \* "research.external.read"
  ExternalScope,       \* "scope.sources.external_read"
  MaxBytes,            \* max_response_bytes
  MaxChunk             \* the largest chunk that a response is read in

\* The values of a request body that claim to be the principal's.
Claims == [actor: Actors \cup {None}, tenant: Tenants \cup {None},
           workspace: Workspaces \cup {None}, units: Unit]

Command == [permission: Permissions, scopes: SUBSET Scopes, units: Unit,
            claims: Claims]

\* The authority in the execution context that is sent to GENESIS.
Authority == [permissions: SUBSET Permissions, scopes: SUBSET Scopes,
              external: BOOLEAN]

ASSUME AccessAssumption ==
  /\ Commands \subseteq Command
  /\ Domains \subseteq Scopes
  /\ {RequestPermission, ExternalPermission} \subseteq Permissions
  /\ ExternalScope \in Scopes
  /\ MaxBytes \in Nat
  /\ MaxChunk \in Nat
  /\ None \notin Command \cup Authority

VARIABLES
  call,   \* the requests
  trail   \* the outcomes of the events appended for each request

vars == <<identityVars, call, trail>>

\* Phases in which an event is being appended, and what follows the append.
Then == [deciding |-> "returned", refusing |-> "raised",
         receipting |-> "returned", announcing |-> "fetching",
         completing |-> "returned", closing |-> "raised"]

Appending == DOMAIN Then

Ended == {"idle", "returned", "raised"}

Outgoing == {"fetching", "streaming"}

Phases == Appending \cup Outgoing \cup {"asking"} \cup Ended

Outcomes == {"ALLOWED", "DENIED", "NEEDS_INFO", "SUCCESS", "BLOCKED", "TIMEOUT",
             "FAILED"}

\* `event' is the outcome that is appended next, or was last.
Call == [phase: Phases, actor: Actors \cup {None}, command: Command \cup {None},
         asked: Authority \cup {None}, external: BOOLEAN, received: 0..MaxBytes,
         event: Outcomes \cup {None}]

Idle == [phase |-> "idle", actor |-> None, command |-> None, asked |-> None,
         external |-> FALSE, received |-> 0, event |-> None]

Init ==
  /\ IdentityInit
  /\ call = [c \in Calls |-> Idle]
  /\ trail = [c \in Calls |-> {}]

Goes(c, g) == call' = [call EXCEPT ![c] = g]

\* A new request of actor a: the values of the last one are gone.
Asks(c, g) ==
  /\ call[c].phase \in Ended
  /\ Goes(c, g)
  /\ trail' = [trail EXCEPT ![c] = {}]
  /\ UNCHANGED identityVars

\* Request c goes on without an event.
Moves(c, g) ==
  /\ Goes(c, g)
  /\ UNCHANGED <<identityVars, trail>>

-----------------------------------------------------------------------------
(* enforce(). *)

\* _check_untrusted_conflicts: a unit that the principal does not have is not
\* compared.
Conflicting(a, m, claims) ==
  \/ claims.actor \notin {None, a}
  \/ claims.tenant \notin {None, m.tenant}
  \/ claims.workspace \notin {None, m.workspace}
  \/ \E k \in UnitKinds :
       claims.units[k] # None /\ m.units[k] \notin {None, claims.units[k]}

\* Mutant: the scopes are not looked at.
IsAllowedByPermission(m, q) == q.permission \in m.permissions

\* AuthorizationPolicy.is_allowed(), which enforce() calls with the tenant,
\* organization and workspace of the principal, and with its division and project
\* where the command has none.
IsAllowed(m, q) ==
  /\ \A k \in UnitKinds : q.units[k] \in {None, m.units[k]}
  /\ q.permission \in m.permissions
  /\ q.scopes \subseteq m.scopes

Decision(a, q) ==
  IF a = None \/ Conflicting(a, memberships[a], q.claims) THEN "DENIED"
  ELSE IF memberships[a].scopes = {} THEN "NEEDS_INFO"
  ELSE IF IsAllowed(memberships[a], q) THEN "ALLOWED" ELSE "DENIED"

\* a is None when nobody is authenticated.
Enforce(c, a, q) ==
  Asks(c, [Idle EXCEPT !.phase = "deciding", !.actor = a, !.command = q,
                       !.event = Decision(a, q)])

-----------------------------------------------------------------------------
(* ResearchService.request(). *)

MayResearch(m, domain) ==
  RequestPermission \in m.permissions /\ domain \in m.scopes

\* Mutant: the permission is enough to get the tool.
MayLookOutsideByPermission(m, external) ==
  external /\ ExternalPermission \in m.permissions

MayLookOutside(m, external) ==
  /\ external
  /\ ExternalPermission \in m.permissions
  /\ ExternalScope \in m.scopes

\* permission_refs, scope_refs and allowed_tool_ids of the execution context.
AuthorityFor(m, domain, external) ==
  LET out == MayLookOutside(m, external)
  IN  [permissions |-> {RequestPermission}
                         \cup (IF out THEN {ExternalPermission} ELSE {}),
       scopes |-> {domain} \cup (IF out THEN {ExternalScope} ELSE {}),
       external |-> out]

RefuseResearch(c, a, domain) ==
  /\ ~MayResearch(memberships[a], domain)
  /\ Asks(c, [Idle EXCEPT !.phase = "refusing", !.actor = a,
                          !.event = "DENIED"])

AskGenesis(c, a, domain, external) ==
  /\ MayResearch(memberships[a], domain)
  /\ Asks(c, [Idle EXCEPT !.phase = "asking", !.actor = a, !.external = external,
                          !.asked = AuthorityFor(memberships[a], domain, external)])

\* A decision that satisfies the contract and has the correlation_id of c.
GenesisAnswers(c) ==
  /\ call[c].phase = "asking"
  /\ Moves(c, [call[c] EXCEPT !.phase = "receipting", !.event = "SUCCESS"])

-----------------------------------------------------------------------------
(* ExternalRetrievalService.retrieve(). *)

\* Retrieval of a URL that the policy admits or does not.  No resolver is
\* configured (main.py), and validate_url() awaits nothing.
Announce(c, a) ==
  /\ ExternalScope \in memberships[a].scopes
  /\ Asks(c, [Idle EXCEPT !.phase = "announcing", !.actor = a,
                          !.external = TRUE, !.event = "ALLOWED"])

RefuseRetrieval(c, a, admitted) ==
  /\ ~admitted \/ ExternalScope \notin memberships[a].scopes
  /\ Asks(c, [Idle EXCEPT !.phase = "closing", !.actor = a,
                          !.external = TRUE, !.event = "BLOCKED"])

Block(c) == Moves(c, [call[c] EXCEPT !.phase = "closing", !.event = "BLOCKED"])

\* The header of the response: neither a redirect nor an error, of an allowed
\* content type, and with a content-length, if any, within the limit.
Respond(c, acceptable, length) ==
  /\ call[c].phase = "fetching"
  /\ IF acceptable /\ length <= MaxBytes
     THEN Moves(c, [call[c] EXCEPT !.phase = "streaming"])
     ELSE Block(c)

\* Mutant: the limit is applied to each chunk.
CountOnly(g, bytes) == bytes

Count(g, bytes) == g.received + bytes

\* Mutant: the chunk is kept before the total is looked at.
ReadChunkLate(c, bytes) ==
  /\ call[c].phase = "streaming"
  /\ IF call[c].received > MaxBytes THEN Block(c)
     ELSE Moves(c, [call[c] EXCEPT !.received = Count(call[c], bytes)])

\* aiter_bytes() yields no empty chunks.
ReadChunk(c, bytes) ==
  LET n == Count(call[c], bytes)
  IN
  /\ call[c].phase = "streaming"
  /\ IF n > MaxBytes THEN Block(c)
     ELSE Moves(c, [call[c] EXCEPT !.received = n])

ReadAll(c) ==
  /\ call[c].phase = "streaming"
  /\ Moves(c, [call[c] EXCEPT !.phase = "completing", !.event = "SUCCESS"])

\* httpx raises TimeoutException or another RequestError.
Unavailable(c, outcome) ==
  /\ call[c].phase \in Outgoing
  /\ Moves(c, [call[c] EXCEPT !.phase = "closing", !.event = outcome])

-----------------------------------------------------------------------------
\* Mutant: the caller does not wait for the event.
AppendLost(c) ==
  /\ call[c].phase \in Appending
  /\ Moves(c, [call[c] EXCEPT !.phase = Then[call[c].phase]])

\* The event is in the trail; the call goes on, returns or raises.
Append(c) ==
  /\ call[c].phase \in Appending
  /\ Goes(c, [call[c] EXCEPT !.phase = Then[call[c].phase]])
  /\ trail' = [trail EXCEPT ![c] = @ \cup {call[c].event}]
  /\ UNCHANGED identityVars

\* The append raises, GENESIS does not answer or answers something else, or the
\* request is cancelled: nothing is appended for it any more.
Abort(c) ==
  /\ call[c].phase \notin Ended
  /\ Moves(c, [call[c] EXCEPT !.phase = "raised"])

\* What a request does once it has been made.
Proceeds(c) ==
  \/ GenesisAnswers(c)
  \/ \E acceptable \in BOOLEAN, length \in {0, MaxBytes, MaxBytes + 1} :
       Respond(c, acceptable, length)
  \/ \E bytes \in 1..MaxChunk : ReadChunk(c, bytes)
  \/ ReadAll(c)
  \/ \E outcome \in {"TIMEOUT", "FAILED"} : Unavailable(c, outcome)
  \/ Append(c)
  \/ Abort(c)

Request(c) ==
  \/ \E q \in Commands : Enforce(c, None, q)
  \/ \E e \in Registered :
       LET a == accounts[e]
       IN
       \/ \E q \in Commands : Enforce(c, a, q)
       \/ \E domain \in Domains : RefuseResearch(c, a, domain)
       \/ \E domain \in Domains, external \in BOOLEAN :
            AskGenesis(c, a, domain, external)
       \/ Announce(c, a)
       \/ \E admitted \in BOOLEAN : RefuseRetrieval(c, a, admitted)

Next ==
  \/ Register /\ UNCHANGED <<call, trail>>
  \/ \E c \in Calls : Request(c) \/ Proceeds(c)

\* Appends end, GENESIS and HTTP clients time out.
Spec ==
  /\ Init
  /\ [][Next]_vars
  /\ \A c \in Calls : WF_vars(Proceeds(c))

-----------------------------------------------------------------------------
(* Properties. *)

\* The types of the directory and of the requests; a response that is read never
\* exceeds the limit.
TypeOK ==
  /\ IdentityTypeOK
  /\ call \in [Calls -> Call]
  /\ trail \in [Calls -> SUBSET Outcomes]

\* What the principal of request c may do, by its membership and by the grant of
\* each of its roles.
Holds(a, permissions, scopes) ==
  LET m == memberships[a]
  IN
  /\ permissions \subseteq m.permissions /\ scopes \subseteq m.scopes
  /\ \A role \in m.roles :
       /\ permissions \subseteq grants[RoleKey(m, role)].permissions
       /\ scopes \subseteq grants[RoleKey(m, role)].scopes

\* What a command claims of its actor is what the directory says of the actor, where
\* it says anything: an actor without a division, or a project, may claim any.
ClaimsHold(a, claims) ==
  /\ claims.actor \in {None, a}
  /\ claims.tenant \in {None, actors[a].tenant}
  /\ claims.workspace # None =>
       /\ claims.workspace = memberships[a].workspace
       /\ workspaces[claims.workspace] = actors[a]
  /\ \A k \in UnitKinds :
       None \notin {claims.units[k], memberships[a].units[k]} =>
         claims.units[k] = memberships[a].units[k]

\* Actor a may do what q asks for, where q asks for it.
Commanded(a, q) ==
  /\ Holds(a, {q.permission}, q.scopes)
  /\ \A k \in UnitKinds : q.units[k] \in {None, memberships[a].units[k]}
  /\ ClaimsHold(a, q.claims)

\* AUTHORITY_MODEL.md, "Semua akses ditolak secara default": whatever was allowed,
\* sent to GENESIS or read from outside is covered by the membership of an actor
\* who can log in and by the grants of all its roles, which other registrations,
\* complete or not, may have made before.  An allowed command is aimed at a unit of
\* the actor, if at any, and claims nothing else than the directory says, but "Any
\* mismatch is an immediate denial" (enforcement.py:78) is not what is stated: the
\* code lets the claim of a unit pass if the actor has none, and so does ClaimsHold.
AnswersJustified ==
  \A c \in Calls :
    LET g == call[c]
        q == g.command
    IN
    /\ g.actor # None => \E e \in Registered : accounts[e] = g.actor
    /\ q # None /\ g.event = "ALLOWED" => g.actor # None /\ Commanded(g.actor, q)
    /\ g.asked # None =>
         /\ Holds(g.actor, g.asked.permissions, g.asked.scopes)
         /\ g.asked.external =>
              Holds(g.actor, {ExternalPermission}, {ExternalScope})
    /\ g.phase \in Outgoing \cup {"completing"} =>
         Holds(g.actor, {}, {ExternalScope})

\* MVP1_KNOWLEDGE_RESEARCH_MIGRATION.md:13: an answer is returned only with its
\* event in the trail, and no external source is contacted before the event that
\* allows it, whichever append fails.  GENESIS is asked without one.
AnswersAudited ==
  \A c \in Calls :
    LET g == call[c]
    IN
    /\ g.phase = "returned" => g.event \in trail[c]
    /\ g.phase \in Outgoing \cup {"completing"} => "ALLOWED" \in trail[c]
    /\ g.phase = "returned" /\ g.external /\ g.asked = None =>
         {"ALLOWED", "SUCCESS"} \subseteq trail[c]

\* Every request ends: an endless response runs into the limit.
EveryRequestEnds ==
  \A c \in Calls : call[c].phase \notin Ended ~> call[c].phase \in Ended

=============================================================================
