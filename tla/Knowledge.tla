------------------------------- MODULE Knowledge -------------------------------
(***************************************************************************)
(* The authorities over knowledge: src/alos/sources/service.py with the    *)
(* evidence it registers (src/alos/evidence/registry/service.py), and      *)
(* src/alos/documents/service.py.                                          *)
(*                                                                         *)
(* An operation checks and changes the tables in one step, for nothing is  *)
(* awaited inside the locks, and is suspended while its event is appended. *)
(* What it changed stays if the append fails.  An operation that its scope *)
(* or a check refuses changes nothing and appends nothing, and is left     *)
(* out, except for a search that stops half-way.                           *)
(*                                                                         *)
(* A workspace stands for its tenant and organization too: Identity shows  *)
(* that whoever can log in agrees with others on them.                     *)
(***************************************************************************)
EXTENDS Naturals, FiniteSets

CONSTANTS
  Workspaces,
  Actors,
  Scopes,           \* scope_refs that an access may have
  Sources,          \* source_ids, chosen by the callers
  Versions,         \* source_versions
  Contents,         \* contents, and so their hashes
  Citations,        \* source_id@source_version, in the keys of chunks
  CitationOf,       \* of a source and a version; neither is kept from containing @
  Passages,         \* excerpts with their place: lines, text, truncation
  PassagesOf,       \* the passages that a content can be cut into
  Classifications,  \* ranks: PUBLIC 0 to RESTRICTED 3
  Documents,        \* document_ids
  Revisions,        \* versions of documents
  Metadata,         \* title, category and classification of a document
  References,       \* DocumentVersions: source, location, hash, creator
  Accesses,         \* the access contexts that callers come with
  Registrations,    \* the SourceRegistrations that they submit
  Limit,            \* the limit of a search
  Calls,            \* concurrent operations
  None              \* Python's None

\* KnowledgeAccessContext; `clearance' is its data_classification.
Access == [workspace: Workspaces, actor: Actors, scopes: SUBSET Scopes,
           clearance: Classifications]

\* SourceRegistration: what register() compares or refuses.
Registration == [source: Sources, version: Versions, content: Contents,
                 classification: Classifications]

SourceKeys == Workspaces \X Sources

VersionKeys == Workspaces \X Sources \X Versions

\* SourceVersionRecord.  Nothing sets RETIRED.
SourceVersion ==
  [content: Contents, classification: Classifications,
   status: {"RECEIVED", "VERIFIED"}]

\* A passage of a version, found in the caller's workspace.
Hits == Sources \X Versions \X Passages

\* An evidence_id is a digest of citation, lines and excerpt: it does not contain the
\* workspace, and two sources whose ids contain @ may share it.
EvidenceIds == Citations \X Passages

EvidenceId(hit) == <<CitationOf[hit[1], hit[2]], hit[3]>>

EvidenceRef ==
  [version: VersionKeys, content: Contents, classification: Classifications]

DocumentKeys == Workspaces \X Documents

Document == [metadata: Metadata, owner: Actors]

ASSUME KnowledgeAssumption ==
  /\ Accesses \subseteq Access
  /\ Registrations \subseteq Registration
  /\ CitationOf \in [Sources \X Versions -> Citations]
  /\ PassagesOf \in [Contents -> SUBSET Passages]
  /\ Classifications \subseteq 0..3
  /\ Limit \in 1..50
  /\ None \notin SourceVersion \cup EvidenceRef \cup Document
  /\ None \notin Classifications
  /\ None \notin References
  /\ None \notin Accesses

VARIABLES
  versions,          \* SourceRegistry._versions
  classifications,   \* SourceRegistry._classifications
  evidence,          \* EvidenceRegistry._evidence
  documents,         \* DocumentRegistry._documents
  documentVersions,  \* DocumentRegistry._versions
  call               \* the operations

sourceVars == <<versions, classifications, evidence>>
documentVars == <<documents, documentVersions>>
vars == <<sourceVars, documentVars, call>>

\* A search, with its access and the passages of the context that it makes, or the
\* passage that stopped it, or another operation.
Call == [phase: {"idle", "appending", "returned", "conflict"},
         access: Accesses \cup {None},
         items: {hits \in SUBSET Hits : Cardinality(hits) <= Limit}]

Idle == [phase |-> "idle", access |-> None, items |-> {}]

Init ==
  /\ versions = [k \in VersionKeys |-> None]
  /\ classifications = [k \in SourceKeys |-> None]
  /\ evidence = [i \in EvidenceIds |-> None]
  /\ documents = [d \in DocumentKeys |-> None]
  /\ documentVersions = [k \in DocumentKeys \X Revisions |-> None]
  /\ call = [c \in Calls |-> Idle]

\* A new operation of access a, with the scope that it requires.
Begins(c, a, scope, operation) ==
  /\ call[c].phase # "appending"
  /\ scope \in a.scopes
  /\ call' = [call EXCEPT ![c] = operation]

Announces(c, a, scope) == Begins(c, a, scope, [Idle EXCEPT !.phase = "appending"])

Answers(c, a, scope) == Begins(c, a, scope, Idle)

Searches(c, a, p, hits) ==
  Begins(c, a, "scope.sources.read", [phase |-> p, access |-> a, items |-> hits])

-----------------------------------------------------------------------------
(* SourceRegistry.register() and verify(). *)

\* Mutant: a version that is not verified yet is replaced.
NewUntilVerified(k) ==
  versions[k] # None => versions[k].status = "RECEIVED"

New(k) == versions[k] = None

\* Mutant: each version has a classification of its own.
AnyClassification(k, classification) == TRUE

SameClassification(k, classification) ==
  classifications[k] \in {None, classification}

SourceOf(a, g) == <<a.workspace, g.source>>

VersionOf(a, g) == <<a.workspace, g.source, g.version>>

Register(c, a, g) ==
  /\ Announces(c, a, "scope.sources.write")
  /\ SameClassification(SourceOf(a, g), g.classification)
  /\ New(VersionOf(a, g))
  /\ classifications' = [classifications EXCEPT ![SourceOf(a, g)] = g.classification]
  /\ versions' = [versions EXCEPT ![VersionOf(a, g)] =
       [content |-> g.content, classification |-> g.classification,
        status |-> "RECEIVED"]]
  /\ UNCHANGED <<evidence, documentVars>>

\* The same content again: the version is returned, and nothing is appended even
\* if the append of the first registration failed.
RegisterAgain(c, a, g) ==
  /\ Answers(c, a, "scope.sources.write")
  /\ SameClassification(SourceOf(a, g), g.classification)
  /\ versions[VersionOf(a, g)] # None
  /\ versions[VersionOf(a, g)].content = g.content
  /\ UNCHANGED <<sourceVars, documentVars>>

\* Verified versions can be verified again; the creator may verify.
Verify(c, a, s, v) ==
  LET key == <<a.workspace, s, v>>
  IN
  /\ Announces(c, a, "scope.sources.verify")
  /\ versions[key] # None
  /\ versions' = [versions EXCEPT ![key].status = "VERIFIED"]
  /\ UNCHANGED <<classifications, evidence, documentVars>>

-----------------------------------------------------------------------------
(* SourceRegistry.search_context(). *)

Key(a, hit) == <<a.workspace, hit[1], hit[2]>>

\* Mutant: versions that wait for verification are found.
ReadableUnverified(a, k) ==
  versions[k] # None /\ versions[k].classification <= a.clearance

Readable(a, k) ==
  /\ versions[k] # None
  /\ versions[k].status = "VERIFIED"
  /\ versions[k].classification <= a.clearance

\* What queries of access a can find.
Citable(a) ==
  {hit \in Hits :
     /\ Readable(a, Key(a, hit))
     /\ hit[3] \in PassagesOf[versions[Key(a, hit)].content]}

\* Mutants: the evidence names the clearance that it was found with; the limit is
\* looked at when it is exceeded.
EvidenceAsFound(a, hit) ==
  LET record == versions[Key(a, hit)]
  IN  [version |-> Key(a, hit), content |-> record.content,
       classification |-> a.clearance]

WithinLimitLate(hits) == Cardinality(hits) <= Limit + 1

EvidenceFor(a, hit) ==
  LET record == versions[Key(a, hit)]
  IN  [version |-> Key(a, hit), content |-> record.content,
       classification |-> record.classification]

WithinLimit(hits) == Cardinality(hits) <= Limit

\* Mutant: evidence is overwritten.
RegistrableAnyway(a, hits, hit) == TRUE

\* EvidenceRegistry.register() after the evidence of hits, which the same search has
\* registered before.
Registrable(a, hits, hit) ==
  /\ evidence[EvidenceId(hit)] \in {None, EvidenceFor(a, hit)}
  /\ \A h \in hits : EvidenceId(h) = EvidenceId(hit) => h = hit

RegisterEvidence(a, hits) ==
  evidence' = [id \in EvidenceIds |->
                 IF \E h \in hits : EvidenceId(h) = id
                 THEN EvidenceFor(a, CHOOSE h \in hits : EvidenceId(h) = id)
                 ELSE evidence[id]]

\* Query, ranking, limit and budget select any of the citable passages.
Search(c, a, hits) ==
  /\ Searches(c, a, "appending", hits)
  /\ hits \subseteq Citable(a)
  /\ WithinLimit(hits)
  /\ \A h \in hits : Registrable(a, hits, h)
  /\ RegisterEvidence(a, hits)
  /\ UNCHANGED <<versions, classifications, documentVars>>

\* EvidenceConflictError at a passage: the evidence of the passages that ranked before
\* it stays.
SearchConflicts(c, a, hit, before) ==
  /\ Searches(c, a, "conflict", {hit})
  /\ before \cup {hit} \subseteq Citable(a)
  /\ WithinLimit(before \cup {hit})
  /\ \A h \in before : Registrable(a, before, h)
  /\ ~Registrable(a, before, hit)
  /\ RegisterEvidence(a, before)
  /\ UNCHANGED <<versions, classifications, documentVars>>

-----------------------------------------------------------------------------
(* DocumentRegistry. *)

RegisterDocument(c, a, d, metadata) ==
  LET key == <<a.workspace, d>>
  IN
  /\ Announces(c, a, "scope.documents.write")
  /\ documents[key] = None
  /\ documents' = [documents EXCEPT ![key] =
                     [metadata |-> metadata, owner |-> a.actor]]
  /\ UNCHANGED <<sourceVars, documentVersions>>

RegisterDocumentAgain(c, a, d, metadata) ==
  /\ Answers(c, a, "scope.documents.write")
  /\ documents[<<a.workspace, d>>] = [metadata |-> metadata, owner |-> a.actor]
  /\ UNCHANGED <<sourceVars, documentVars>>

\* The source that a version refers to is not looked up.
AddVersion(c, a, d, v, reference) ==
  LET key == <<<<a.workspace, d>>, v>>
  IN
  /\ Announces(c, a, "scope.documents.write")
  /\ documents[<<a.workspace, d>>] # None
  /\ documentVersions[key] = None
  /\ documentVersions' = [documentVersions EXCEPT ![key] = reference]
  /\ UNCHANGED <<sourceVars, documents>>

AddVersionAgain(c, a, d, v, reference) ==
  /\ Answers(c, a, "scope.documents.write")
  /\ documents[<<a.workspace, d>>] # None
  /\ documentVersions[<<<<a.workspace, d>>, v>>] = reference
  /\ UNCHANGED <<sourceVars, documentVars>>

-----------------------------------------------------------------------------
\* The event has been appended; a search hands its context out.
Return(c) ==
  /\ call[c].phase = "appending"
  /\ call' = [call EXCEPT ![c] = IF @.access = None THEN Idle
                                ELSE [@ EXCEPT !.phase = "returned"]]
  /\ UNCHANGED <<sourceVars, documentVars>>

\* The append raises or is cancelled.
AuditFails(c) ==
  /\ call[c].phase = "appending"
  /\ call' = [call EXCEPT ![c] = Idle]
  /\ UNCHANGED <<sourceVars, documentVars>>

SourceOperation(c, a) ==
  \/ \E g \in Registrations : Register(c, a, g) \/ RegisterAgain(c, a, g)
  \/ \E s \in Sources, v \in Versions : Verify(c, a, s, v)
  \/ \E hits \in SUBSET Citable(a) :
       \/ Search(c, a, hits)
       \/ \E hit \in Citable(a) : SearchConflicts(c, a, hit, hits)

DocumentOperation(c, a) ==
  \E d \in Documents :
    \/ \E metadata \in Metadata :
         \/ RegisterDocument(c, a, d, metadata)
         \/ RegisterDocumentAgain(c, a, d, metadata)
    \/ \E v \in Revisions, reference \in References :
         \/ AddVersion(c, a, d, v, reference)
         \/ AddVersionAgain(c, a, d, v, reference)

Next ==
  \E c \in Calls :
    \/ \E a \in Accesses : SourceOperation(c, a) \/ DocumentOperation(c, a)
    \/ Return(c)
    \/ AuditFails(c)

Spec == Init /\ [][Next]_vars

-----------------------------------------------------------------------------
(* Properties. *)

\* The types of the registries and of the operations; a context has at most as many
\* items as were asked for.
TypeOK ==
  /\ versions \in [VersionKeys -> SourceVersion \cup {None}]
  /\ classifications \in [SourceKeys -> Classifications \cup {None}]
  /\ evidence \in [EvidenceIds -> EvidenceRef \cup {None}]
  /\ documents \in [DocumentKeys -> Document \cup {None}]
  /\ documentVersions \in [DocumentKeys \X Revisions -> References \cup {None}]
  /\ call \in [Calls -> Call]

\* A version keeps what it was registered with, and its verification.
Same(old, new) ==
  /\ new # None
  /\ new.content = old.content
  /\ new.classification = old.classification
  /\ old.status = "VERIFIED" => new.status = "VERIFIED"

\* MVP1_KNOWLEDGE_RESEARCH_MIGRATION.md:9-11, "metadata dokumen dan versi
\* immutable; registry sumber, versi, klasifikasi immutable": what an authority has
\* once recorded stays, through repeated, failed and concurrent operations, and a
\* source has one classification in all its versions.
KnowledgeImmutable ==
  [][/\ \A k \in VersionKeys :
          versions[k] # None => Same(versions[k], versions'[k])
     /\ \A k \in SourceKeys :
          classifications[k] # None => classifications'[k] = classifications[k]
     /\ \A k, l \in VersionKeys :
          /\ k[1] = l[1] /\ k[2] = l[2]
          /\ versions'[k] # None /\ versions'[l] # None
          => versions'[k].classification = versions'[l].classification
     /\ \A i \in EvidenceIds : evidence[i] # None => evidence'[i] = evidence[i]
     /\ \A k \in DocumentKeys : documents[k] # None => documents'[k] = documents[k]
     /\ \A k \in DocumentKeys \X Revisions :
          documentVersions[k] # None =>
            /\ documentVersions'[k] = documentVersions[k]
            /\ documents'[k[1]] # None]_vars

\* A verified version that access a may read has the passage, and the evidence is
\* that of the version.
Traceable(a, hit) ==
  LET k == <<a.workspace, hit[1], hit[2]>>
      record == versions[k]
  IN
  /\ record # None
  /\ record.status = "VERIFIED"
  /\ record.classification <= a.clearance
  /\ hit[3] \in PassagesOf[record.content]
  /\ evidence[EvidenceId(hit)] =
       [version |-> k, content |-> record.content,
        classification |-> record.classification]

\* Another version, of another workspace or with another source_id, has the same
\* passage under the same citation.
Collides(a, hit) ==
  \E k \in VersionKeys \ {<<a.workspace, hit[1], hit[2]>>} :
    /\ EvidenceId(<<k[2], k[3], hit[3]>>) = EvidenceId(hit)
    /\ versions[k] # None
    /\ hit[3] \in PassagesOf[versions[k].content]

\* MVP1_KNOWLEDGE_RESEARCH_MIGRATION.md:15-18: every item of a context that is
\* being audited or was handed out stays traceable to evidence of the caller's own
\* workspace, a verified version and a classification within its clearance.  The
\* evidence of another workspace, or of a source with the same citation, may stop a
\* search for ever: this is what the code does, and not a claim.  Nothing else stops
\* one, as evidence of the same version, from a search complete or half done, would.
SearchesSound ==
  \A c \in Calls :
    LET a == call[c].access
    IN
    \A hit \in call[c].items :
      IF call[c].phase = "conflict" THEN Collides(a, hit) ELSE Traceable(a, hit)

=============================================================================
