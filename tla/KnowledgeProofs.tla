------------------------------ MODULE KnowledgeProofs ------------------------------
(***************************************************************************)
(* The authorities over knowledge never change what they have recorded,    *)
(* and searches stay traceable, for every set of workspaces, registrations *)
(* and accesses.                                                           *)
(***************************************************************************)
EXTENDS Knowledge, FiniteSetTheorems, TLAPS

\* The versions of a source have the classification of the source.
SourcesInv ==
  /\ versions \in [VersionKeys -> SourceVersion \cup {None}]
  /\ classifications \in [SourceKeys -> Classifications \cup {None}]
  /\ \A k \in VersionKeys :
       versions[k] # None =>
         classifications[<<k[1], k[2]>>] = versions[k].classification

\* The version k that evidence id was made from is cited as id is and has the passage,
\* and the evidence is that of the version.
From(k, id) ==
  LET record == versions[k]
  IN
  /\ id = EvidenceId(<<k[2], k[3], id[2]>>)
  /\ record # None
  /\ id[2] \in PassagesOf[record.content]
  /\ evidence[id] = [version |-> k, content |-> record.content,
                     classification |-> record.classification]

\* All evidence was made from a version that is still there.
EvidenceInv ==
  /\ evidence \in [EvidenceIds -> EvidenceRef \cup {None}]
  /\ \A id \in EvidenceIds :
       evidence[id] # None => \E k \in VersionKeys : From(k, id)

\* Versions of documents belong to a document.
DocumentsInv ==
  /\ documents \in [DocumentKeys -> Document \cup {None}]
  /\ documentVersions \in [DocumentKeys \X Revisions -> References \cup {None}]
  /\ \A k \in DocumentKeys \X Revisions :
       documentVersions[k] # None => documents[k[1]] # None

\* SearchesSound for an operation g; only searches have items.
Sound(g) ==
  /\ g.access = None => g.items = {}
  /\ \A hit \in g.items :
       IF g.phase = "conflict" THEN Collides(g.access, hit) ELSE Traceable(g.access, hit)

CallsInv ==
  /\ call \in [Calls -> Call]
  /\ \A c \in Calls : Sound(call[c])

IInv == SourcesInv /\ EvidenceInv /\ DocumentsInv /\ CallsInv

\* What a step leaves as it is.
VersionsGrow ==
  \A k \in VersionKeys : versions[k] # None => Same(versions[k], versions'[k])

ClassificationsGrow ==
  \A k \in SourceKeys :
    classifications[k] # None => classifications'[k] = classifications[k]

EvidenceGrows ==
  \A id \in EvidenceIds : evidence[id] # None => evidence'[id] = evidence[id]

DocumentsGrow ==
  /\ \A k \in DocumentKeys : documents[k] # None => documents'[k] = documents[k]
  /\ \A k \in DocumentKeys \X Revisions :
       documentVersions[k] # None => documentVersions'[k] = documentVersions[k]

Grows == VersionsGrow /\ ClassificationsGrow /\ EvidenceGrows /\ DocumentsGrow

-----------------------------------------------------------------------------
(* Sources. *)

LEMMA RegisterGrows ==
  ASSUME KnowledgeAssumption, SourcesInv, NEW c \in Calls, NEW a \in Accesses,
         NEW g \in Registrations, Register(c, a, g)
  PROVE  SourcesInv' /\ VersionsGrow /\ ClassificationsGrow
<1> DEFINE s == SourceOf(a, g)
           v == VersionOf(a, g)
           new == [content |-> g.content, classification |-> g.classification,
                   status |-> "RECEIVED"]
<1>1. a \in Access /\ g \in Registration
  BY DEF KnowledgeAssumption
<1>2. s \in SourceKeys /\ v \in VersionKeys /\ s = <<v[1], v[2]>>
  BY <1>1 DEF SourceOf, VersionOf, SourceKeys, VersionKeys, Access, Registration
<1>3. /\ new \in SourceVersion
      /\ new.classification = g.classification
      /\ g.classification \in Classifications
  BY <1>1 DEF SourceVersion, Registration
<1>4. new # None /\ g.classification # None
  BY <1>3 DEF KnowledgeAssumption
<1>5. /\ classifications[s] \in {None, g.classification}
      /\ versions[v] = None
      /\ classifications' = [classifications EXCEPT ![s] = g.classification]
      /\ versions' = [versions EXCEPT ![v] = new]
  BY DEF Register, SameClassification, New
<1> HIDE DEF s, v, new
<1>6. ClassificationsGrow
  BY <1>2, <1>5 DEF SourcesInv, ClassificationsGrow
<1>7. /\ versions' \in [VersionKeys -> SourceVersion \cup {None}]
      /\ classifications' \in [SourceKeys -> Classifications \cup {None}]
  BY <1>2, <1>3, <1>5 DEF SourcesInv
<1>8. ASSUME NEW k \in VersionKeys, versions'[k] # None
      PROVE  classifications'[<<k[1], k[2]>>] = versions'[k].classification
  <2>1. CASE k = v
    BY <1>2, <1>3, <1>5, <2>1 DEF SourcesInv
  <2>2. CASE k # v
    <3>1. versions'[k] = versions[k] /\ versions[k] # None
      BY <1>5, <1>8, <2>2 DEF SourcesInv
    <3>2. <<k[1], k[2]>> \in SourceKeys
      BY DEF VersionKeys, SourceKeys
    <3>3. classifications[<<k[1], k[2]>>] = versions[k].classification
      BY <3>1 DEF SourcesInv
    <3>4. versions[k].classification \in Classifications
      BY <3>1 DEF SourcesInv, SourceVersion
    <3>5. classifications[<<k[1], k[2]>>] # None
      BY <3>3, <3>4 DEF KnowledgeAssumption
    <3>. QED  BY <1>6, <3>1, <3>2, <3>3, <3>5 DEF ClassificationsGrow
  <2>. QED  BY <2>1, <2>2
<1>9. VersionsGrow
  BY <1>5 DEF SourcesInv, VersionsGrow, Same
<1>. QED  BY <1>6, <1>7, <1>8, <1>9 DEF SourcesInv

LEMMA VerifyGrows ==
  ASSUME KnowledgeAssumption, SourcesInv, NEW c \in Calls, NEW a \in Accesses,
         NEW s \in Sources, NEW v \in Versions, Verify(c, a, s, v)
  PROVE  SourcesInv' /\ VersionsGrow /\ ClassificationsGrow
<1> DEFINE key == <<a.workspace, s, v>>
           new == [versions[key] EXCEPT !.status = "VERIFIED"]
<1>1. key \in VersionKeys
  BY DEF VersionKeys, KnowledgeAssumption, Access
<1>2. /\ versions[key] # None
      /\ versions' = [versions EXCEPT ![key] = new]
      /\ classifications' = classifications
  BY DEF Verify
<1>3. versions[key] \in SourceVersion
  BY <1>1, <1>2 DEF SourcesInv
<1>4. /\ new \in SourceVersion
      /\ new.content = versions[key].content
      /\ new.classification = versions[key].classification
      /\ new.status = "VERIFIED"
  BY <1>3 DEF SourceVersion
<1>5. new # None
  BY <1>4 DEF KnowledgeAssumption
<1> HIDE DEF key, new
<1>6. VersionsGrow
  BY <1>1, <1>2, <1>4, <1>5 DEF SourcesInv, VersionsGrow, Same
<1>7. SourcesInv'
  BY <1>1, <1>2, <1>4 DEF SourcesInv
<1>. QED  BY <1>2, <1>6, <1>7 DEF ClassificationsGrow

-----------------------------------------------------------------------------
(* Evidence. *)

\* The evidence of a passage.
LEMMA EvidenceOfHit ==
  ASSUME KnowledgeAssumption, NEW hit \in Hits
  PROVE  /\ EvidenceId(hit) \in EvidenceIds
         /\ EvidenceId(hit)[2] = hit[3]
         /\ hit = <<hit[1], hit[2], hit[3]>>
<1>1. /\ <<hit[1], hit[2]>> \in Sources \X Versions
      /\ hit[3] \in Passages
      /\ hit = <<hit[1], hit[2], hit[3]>>
  BY DEF Hits
<1>2. CitationOf[hit[1], hit[2]] \in Citations
  BY <1>1 DEF KnowledgeAssumption
<1>. QED  BY <1>1, <1>2 DEF EvidenceId, EvidenceIds

\* A version that has become another with the same content has the same passages.
LEMMA FromStays ==
  ASSUME SourcesInv, VersionsGrow, EvidenceGrows,
         NEW k \in VersionKeys, NEW id \in EvidenceIds,
         evidence[id] # None, From(k, id)
  PROVE  From(k, id)'
<1>1. /\ id = EvidenceId(<<k[2], k[3], id[2]>>)
      /\ versions[k] # None
      /\ id[2] \in PassagesOf[versions[k].content]
      /\ evidence[id] = [version |-> k, content |-> versions[k].content,
                         classification |-> versions[k].classification]
  BY DEF From
<1>2. /\ versions'[k] # None
      /\ versions'[k].content = versions[k].content
      /\ versions'[k].classification = versions[k].classification
  BY <1>1 DEF VersionsGrow, Same
<1>3. evidence'[id] = evidence[id]
  BY DEF EvidenceGrows
<1>. QED  BY <1>1, <1>2, <1>3 DEF From

LEMMA EvidenceStays ==
  ASSUME SourcesInv, EvidenceInv, VersionsGrow, UNCHANGED evidence
  PROVE  EvidenceInv' /\ EvidenceGrows
<1>1. EvidenceGrows
  BY DEF EvidenceGrows
<1>2. ASSUME NEW id \in EvidenceIds, evidence'[id] # None
      PROVE  \E k \in VersionKeys : From(k, id)'
  BY <1>1, <1>2, FromStays DEF EvidenceInv
<1>. QED  BY <1>1, <1>2 DEF EvidenceInv

LEMMA CitableEvidence ==
  ASSUME KnowledgeAssumption, SourcesInv, NEW a \in Accesses, NEW hit \in Citable(a)
  PROVE  /\ hit \in Hits
         /\ Key(a, hit) \in VersionKeys
         /\ versions[Key(a, hit)] # None
         /\ versions[Key(a, hit)].status = "VERIFIED"
         /\ versions[Key(a, hit)].classification <= a.clearance
         /\ hit[3] \in PassagesOf[versions[Key(a, hit)].content]
         /\ EvidenceFor(a, hit) \in EvidenceRef
         /\ EvidenceFor(a, hit) # None
<1>1. /\ hit \in Hits /\ Readable(a, Key(a, hit))
      /\ hit[3] \in PassagesOf[versions[Key(a, hit)].content]
  BY DEF Citable
<1>2. a.workspace \in Workspaces
  BY DEF KnowledgeAssumption, Access
<1>3. Key(a, hit) \in VersionKeys
  BY <1>1, <1>2 DEF Key, VersionKeys, Hits
<1>4. versions[Key(a, hit)] \in SourceVersion
  BY <1>1, <1>3 DEF Readable, SourcesInv
<1>5. EvidenceFor(a, hit) \in EvidenceRef
  BY <1>3, <1>4 DEF EvidenceFor, EvidenceRef, SourceVersion
<1>. QED  BY <1>1, <1>3, <1>5 DEF Readable, KnowledgeAssumption

\* A search registers for each evidence_id the evidence of one passage, its own.
LEMMA RegisteredEvidence ==
  ASSUME NEW a, NEW hits, \A h \in hits : Registrable(a, hits, h),
         RegisterEvidence(a, hits), NEW id \in EvidenceIds
  PROVE  /\ \A h \in hits : EvidenceId(h) = id => evidence'[id] = EvidenceFor(a, h)
         /\ (\A h \in hits : EvidenceId(h) # id) => evidence'[id] = evidence[id]
<1>1. ASSUME NEW h \in hits, EvidenceId(h) = id
      PROVE  evidence'[id] = EvidenceFor(a, h)
  <2> DEFINE found == CHOOSE j \in hits : EvidenceId(j) = id
  <2>1. found \in hits /\ EvidenceId(found) = id
    BY <1>1
  <2>2. evidence'[id] = EvidenceFor(a, found)
    BY <1>1 DEF RegisterEvidence
  <2> HIDE DEF found
  <2>3. found = h
    BY <1>1, <2>1 DEF Registrable
  <2>. QED  BY <2>2, <2>3
<1>2. (\A h \in hits : EvidenceId(h) # id) => evidence'[id] = evidence[id]
  BY DEF RegisterEvidence
<1>. QED  BY <1>1, <1>2

\* Registered evidence is that of the caller's own versions.
LEMMA RegisterEvidenceSound ==
  ASSUME KnowledgeAssumption, SourcesInv, EvidenceInv, NEW a \in Accesses,
         NEW hits \in SUBSET Citable(a),
         \A h \in hits : Registrable(a, hits, h),
         RegisterEvidence(a, hits), UNCHANGED versions
  PROVE  EvidenceInv' /\ EvidenceGrows
<1>1. ASSUME NEW id \in EvidenceIds
      PROVE  \/ evidence'[id] = evidence[id]
             \/ \E h \in hits : /\ EvidenceId(h) = id
                               /\ evidence'[id] = EvidenceFor(a, h)
  BY RegisteredEvidence
<1>2. EvidenceGrows
  <2>1. ASSUME NEW id \in EvidenceIds, evidence[id] # None
        PROVE  evidence'[id] = evidence[id]
    BY <1>1, <2>1 DEF Registrable
  <2>. QED  BY <2>1 DEF EvidenceGrows
<1>3. evidence' \in [EvidenceIds -> EvidenceRef \cup {None}]
  <2>1. \A h \in hits : EvidenceFor(a, h) \in EvidenceRef
    BY CitableEvidence
  <2>2. \A id \in EvidenceIds : evidence'[id] \in EvidenceRef \cup {None}
    BY <1>1, <2>1 DEF EvidenceInv
  <2>3. evidence' = [id \in EvidenceIds |-> evidence'[id]]
    BY DEF RegisterEvidence
  <2>. QED  BY <2>2, <2>3
<1>4. ASSUME NEW id \in EvidenceIds, evidence'[id] # None
      PROVE  \E k \in VersionKeys : From(k, id)'
  <2>1. ASSUME NEW h \in hits, EvidenceId(h) = id, evidence'[id] = EvidenceFor(a, h)
        PROVE  \E k \in VersionKeys : From(k, id)'
    <3> DEFINE k == Key(a, h)
    <3>1. /\ h \in Hits
          /\ k \in VersionKeys
          /\ versions[k] # None
          /\ h[3] \in PassagesOf[versions[k].content]
      BY <2>1, CitableEvidence
    <3>2. k[2] = h[1] /\ k[3] = h[2]
      BY DEF Key
    <3>3. id[2] = h[3] /\ id = EvidenceId(<<k[2], k[3], id[2]>>)
      BY <2>1, <3>1, <3>2, EvidenceOfHit
    <3>4. evidence'[id] = [version |-> k, content |-> versions[k].content,
                           classification |-> versions[k].classification]
      BY <2>1 DEF EvidenceFor
    <3> HIDE DEF k
    <3>5. From(k, id)'
      BY <3>1, <3>3, <3>4 DEF From
    <3>. QED  BY <3>1, <3>5
  <2>2. ASSUME evidence'[id] = evidence[id]
        PROVE  \E k \in VersionKeys : From(k, id)'
    <3>1. VersionsGrow
      BY DEF VersionsGrow, Same, SourcesInv
    <3>. QED  BY <1>2, <1>4, <2>2, <3>1, FromStays DEF EvidenceInv
  <2>. QED  BY <1>1, <2>1, <2>2
<1>. QED  BY <1>2, <1>3, <1>4 DEF EvidenceInv

-----------------------------------------------------------------------------
(* Documents. *)

LEMMA RegisterDocumentGrows ==
  ASSUME KnowledgeAssumption, DocumentsInv, NEW c \in Calls, NEW a \in Accesses,
         NEW d \in Documents, NEW metadata \in Metadata,
         RegisterDocument(c, a, d, metadata)
  PROVE  DocumentsInv' /\ DocumentsGrow
<1> DEFINE key == <<a.workspace, d>>
           new == [metadata |-> metadata, owner |-> a.actor]
<1>1. key \in DocumentKeys /\ new \in Document
  BY DEF DocumentKeys, Document, KnowledgeAssumption, Access
<1>2. new # None
  BY <1>1 DEF KnowledgeAssumption
<1>3. /\ documents[key] = None
      /\ documents' = [documents EXCEPT ![key] = new]
      /\ documentVersions' = documentVersions
  BY DEF RegisterDocument
<1> HIDE DEF key, new
<1>4. DocumentsGrow
  BY <1>1, <1>3 DEF DocumentsInv, DocumentsGrow
<1>5. documents' \in [DocumentKeys -> Document \cup {None}]
  BY <1>1, <1>3 DEF DocumentsInv
<1>6. \A k \in DocumentKeys : documents[k] # None => documents'[k] # None
  BY <1>4 DEF DocumentsGrow
<1>. QED  BY <1>3, <1>4, <1>5, <1>6 DEF DocumentsInv

LEMMA AddVersionGrows ==
  ASSUME KnowledgeAssumption, DocumentsInv, NEW c \in Calls, NEW a \in Accesses,
         NEW d \in Documents, NEW v \in Revisions, NEW reference \in References,
         AddVersion(c, a, d, v, reference)
  PROVE  DocumentsInv' /\ DocumentsGrow
<1> DEFINE key == <<<<a.workspace, d>>, v>>
<1>1. key \in DocumentKeys \X Revisions /\ key[1] = <<a.workspace, d>>
  BY DEF DocumentKeys, KnowledgeAssumption, Access
<1>2. /\ documents[key[1]] # None
      /\ documentVersions[key] = None
      /\ documentVersions' = [documentVersions EXCEPT ![key] = reference]
      /\ documents' = documents
  BY <1>1 DEF AddVersion
<1> HIDE DEF key
<1>. QED  BY <1>1, <1>2 DEF DocumentsInv, DocumentsGrow

-----------------------------------------------------------------------------
(* Operations. *)

\* What an operation found stays true while others go on.
LEMMA SoundStays ==
  ASSUME KnowledgeAssumption, SourcesInv, VersionsGrow, EvidenceGrows,
         NEW g \in Call, Sound(g)
  PROVE  Sound(g)'
<1> DEFINE a == g.access
<1>1. a = None => g.items = {}
  BY DEF Sound
<1>2. ASSUME NEW hit \in g.items
      PROVE  IF g.phase = "conflict" THEN Collides(a, hit)' ELSE Traceable(a, hit)'
  <2>1. hit \in Hits /\ a \in Access
    BY <1>1, <1>2 DEF Call, KnowledgeAssumption
  <2>2. a.workspace \in Workspaces
    BY <2>1 DEF Access
  <2> HIDE DEF a
  <2>3. ASSUME Collides(a, hit)
        PROVE  Collides(a, hit)'
    <3>1. PICK k \in VersionKeys \ {<<a.workspace, hit[1], hit[2]>>} :
            /\ EvidenceId(<<k[2], k[3], hit[3]>>) = EvidenceId(hit)
            /\ versions[k] # None
            /\ hit[3] \in PassagesOf[versions[k].content]
      BY <2>3 DEF Collides
    <3>2. versions'[k] # None /\ versions'[k].content = versions[k].content
      BY <3>1 DEF VersionsGrow, Same
    <3>. QED  BY <3>1, <3>2 DEF Collides
  <2>4. ASSUME Traceable(a, hit)
        PROVE  Traceable(a, hit)'
    <3> DEFINE k == <<a.workspace, hit[1], hit[2]>>
               id == EvidenceId(hit)
    <3>1. /\ versions[k] # None /\ versions[k].status = "VERIFIED"
          /\ versions[k].classification <= a.clearance
          /\ hit[3] \in PassagesOf[versions[k].content]
          /\ evidence[id] = [version |-> k, content |-> versions[k].content,
                             classification |-> versions[k].classification]
      BY <2>4 DEF Traceable
    <3>2. k \in VersionKeys
      BY <2>1, <2>2 DEF VersionKeys, Hits
    <3>3. /\ versions'[k] # None /\ versions'[k].status = "VERIFIED"
          /\ versions'[k].classification = versions[k].classification
          /\ versions'[k].content = versions[k].content
      BY <3>1, <3>2 DEF VersionsGrow, Same
    <3>4. versions[k] \in SourceVersion
      BY <3>1, <3>2 DEF SourcesInv
    <3>5. evidence[id] \in EvidenceRef
      BY <3>1, <3>2, <3>4 DEF EvidenceRef, SourceVersion
    <3>6. id \in EvidenceIds
      BY <2>1, EvidenceOfHit
    <3>7. evidence'[id] = evidence[id]
      BY <3>5, <3>6 DEF EvidenceGrows, KnowledgeAssumption
    <3>. QED  BY <3>1, <3>3, <3>7 DEF Traceable
  <2>5. IF g.phase = "conflict" THEN Collides(a, hit) ELSE Traceable(a, hit)
    BY <1>2 DEF Sound, a
  <2>. QED  BY <2>3, <2>4, <2>5
<1>. QED  BY <1>1, <1>2 DEF Sound

\* An operation is as sound as the value that it has become.
LEMMA SoundOf ==
  ASSUME NEW d, NEW x, call'[d] = x, Sound(x)'
  PROVE  Sound(call[d])'
<1>1. /\ x.access = None => x.items = {}
      /\ \A hit \in x.items :
           IF x.phase = "conflict"
           THEN Collides(x.access, hit)' ELSE Traceable(x.access, hit)'
  BY DEF Sound
<1>. QED  BY <1>1 DEF Sound, Collides, Traceable

LEMMA OperationSound ==
  ASSUME KnowledgeAssumption, SourcesInv, VersionsGrow, EvidenceGrows, CallsInv,
         NEW c \in Calls, NEW g \in Call, Sound(g)', call' = [call EXCEPT ![c] = g]
  PROVE  CallsInv'
<1>1. call' \in [Calls -> Call]
  BY DEF CallsInv
<1>2. ASSUME NEW d \in Calls
      PROVE  Sound(call[d])'
  <2>1. PICK x \in Call : x = call[d]
    BY DEF CallsInv
  <2>2. Sound(x)
    BY <2>1 DEF CallsInv
  <2>3. Sound(x)'
    BY <2>2, SoundStays
  <2>4. call'[d] = IF d = c THEN g ELSE x
    BY <2>1 DEF CallsInv
  <2>5. CASE d = c
    <3>1. call'[d] = g
      BY <2>4, <2>5
    <3>. QED  BY <3>1, SoundOf
  <2>6. CASE d # c
    <3>1. call'[d] = x
      BY <2>4, <2>6
    <3>. QED  BY <2>3, <3>1, SoundOf
  <2>. QED  BY <2>5, <2>6
<1>. QED  BY <1>1, <1>2 DEF CallsInv

\* An operation that is not a search.
LEMMA PlainCall ==
  ASSUME KnowledgeAssumption, NEW p \in {"idle", "appending"}
  PROVE  /\ [Idle EXCEPT !.phase = p] \in Call
         /\ [Idle EXCEPT !.phase = p].items = {}
<1>1. Cardinality({}) <= Limit
  BY FS_EmptySet DEF KnowledgeAssumption
<1>. QED  BY <1>1 DEF Idle, Call

LEMMA PlainSound ==
  ASSUME KnowledgeAssumption, SourcesInv, VersionsGrow, EvidenceGrows, CallsInv,
         NEW c \in Calls, NEW p \in {"idle", "appending"},
         call' = [call EXCEPT ![c] = [Idle EXCEPT !.phase = p]]
  PROVE  CallsInv'
<1> DEFINE g == [Idle EXCEPT !.phase = p]
<1>1. g \in Call /\ g.items = {}
  BY PlainCall
<1>2. call' = [call EXCEPT ![c] = g]
  OBVIOUS
<1> HIDE DEF g
<1>3. Sound(g)'
  BY <1>1 DEF Sound
<1>. QED  BY <1>1, <1>2, <1>3, OperationSound

\* A search, once its items are registered or one of them is refused.
LEMMA SearchCall ==
  ASSUME KnowledgeAssumption, NEW a \in Accesses, NEW p \in {"appending", "conflict"},
         NEW hits \in SUBSET Hits, WithinLimit(hits)
  PROVE  [phase |-> p, access |-> a, items |-> hits] \in Call
BY DEF Call, WithinLimit

LEMMA SearchSound ==
  ASSUME KnowledgeAssumption, IInv, NEW c \in Calls, NEW a \in Accesses,
         NEW hits \in SUBSET Citable(a), Search(c, a, hits)
  PROVE  IInv' /\ Grows
<1> DEFINE g == [phase |-> "appending", access |-> a, items |-> hits]
<1>1. /\ RegisterEvidence(a, hits) /\ \A hit \in hits : Registrable(a, hits, hit)
      /\ WithinLimit(hits) /\ call' = [call EXCEPT ![c] = g]
      /\ UNCHANGED <<versions, classifications, documents, documentVersions>>
  BY DEF Search, Searches, Begins, documentVars
<1>2. SourcesInv /\ EvidenceInv /\ DocumentsInv /\ CallsInv
  BY DEF IInv
<1>3. EvidenceInv' /\ EvidenceGrows
  BY <1>1, <1>2, RegisterEvidenceSound
<1>4. VersionsGrow /\ ClassificationsGrow /\ DocumentsGrow
  BY <1>1, <1>2 DEF VersionsGrow, Same, ClassificationsGrow, DocumentsGrow
<1>5. SourcesInv' /\ DocumentsInv'
  BY <1>1, <1>2 DEF SourcesInv, DocumentsInv
<1>6. g \in Call
  BY <1>1, SearchCall DEF Citable
<1>7. Sound(g)'
  <2>1. ASSUME NEW hit \in hits
        PROVE  Traceable(a, hit)'
    <3>1. /\ hit \in Hits
          /\ versions[Key(a, hit)] # None
          /\ versions[Key(a, hit)].status = "VERIFIED"
          /\ versions[Key(a, hit)].classification <= a.clearance
          /\ hit[3] \in PassagesOf[versions[Key(a, hit)].content]
      BY <1>2, CitableEvidence
    <3>2. EvidenceId(hit) \in EvidenceIds
      BY <3>1, EvidenceOfHit
    <3>3. evidence'[EvidenceId(hit)] = EvidenceFor(a, hit)
      BY <1>1, <3>2, RegisteredEvidence
    <3>. QED  BY <1>1, <3>1, <3>3 DEF Traceable, Key, EvidenceFor
  <2>2. a # None
    BY DEF KnowledgeAssumption
  <2>. QED  BY <2>1, <2>2 DEF Sound
<1> HIDE DEF g
<1>8. CallsInv'
  BY <1>1, <1>2, <1>3, <1>4, <1>6, <1>7, OperationSound
<1>. QED  BY <1>3, <1>4, <1>5, <1>8 DEF IInv, Grows

\* What stops a search was made from another version.
LEMMA ConflictCollides ==
  ASSUME KnowledgeAssumption, SourcesInv, EvidenceInv, NEW a \in Accesses,
         NEW before \in SUBSET Citable(a), NEW hit \in Citable(a),
         ~Registrable(a, before, hit)
  PROVE  Collides(a, hit)
<1> DEFINE id == EvidenceId(hit)
<1>1. hit \in Hits /\ id \in EvidenceIds /\ id[2] = hit[3]
  BY CitableEvidence, EvidenceOfHit
<1>2. CASE evidence[id] # None /\ evidence[id] # EvidenceFor(a, hit)
  <2>1. PICK k \in VersionKeys : From(k, id)
    BY <1>1, <1>2 DEF EvidenceInv
  <2>2. k # Key(a, hit)
    BY <1>2, <2>1 DEF From, EvidenceFor
  <2>3. /\ EvidenceId(<<k[2], k[3], hit[3]>>) = EvidenceId(hit)
        /\ versions[k] # None
        /\ hit[3] \in PassagesOf[versions[k].content]
    BY <1>1, <2>1 DEF From
  <2>. QED  BY <2>2, <2>3 DEF Collides, Key
<1>3. CASE \E h \in before : EvidenceId(h) = id /\ h # hit
  <2>1. PICK h \in before : EvidenceId(h) = id /\ h # hit
    BY <1>3
  <2> DEFINE k == Key(a, h)
  <2>2. /\ h \in Hits
        /\ k \in VersionKeys
        /\ versions[k] # None
        /\ h[3] \in PassagesOf[versions[k].content]
    BY <2>1, CitableEvidence
  <2>3. h[3] = hit[3]
    BY <1>1, <2>1, <2>2, EvidenceOfHit
  <2>4. k[2] = h[1] /\ k[3] = h[2]
    BY DEF Key
  <2>5. EvidenceId(<<k[2], k[3], hit[3]>>) = EvidenceId(hit)
    BY <2>1, <2>2, <2>3, <2>4, EvidenceOfHit
  <2>6. k # Key(a, hit)
    <3>1. hit = <<hit[1], hit[2], hit[3]>> /\ h = <<h[1], h[2], h[3]>>
      BY <1>1, <2>2, EvidenceOfHit
    <3>. QED  BY <2>1, <2>3, <3>1 DEF Key
  <2> HIDE DEF k
  <2>. QED  BY <2>2, <2>3, <2>5, <2>6 DEF Collides, Key
<1>. QED  BY <1>2, <1>3 DEF Registrable

LEMMA SearchConflictsSound ==
  ASSUME KnowledgeAssumption, IInv, NEW c \in Calls, NEW a \in Accesses,
         NEW hit \in Citable(a), NEW before \in SUBSET Citable(a),
         SearchConflicts(c, a, hit, before)
  PROVE  IInv' /\ Grows
<1> DEFINE g == [phase |-> "conflict", access |-> a, items |-> {hit}]
<1>1. /\ RegisterEvidence(a, before) /\ \A h \in before : Registrable(a, before, h)
      /\ ~Registrable(a, before, hit) /\ call' = [call EXCEPT ![c] = g]
      /\ UNCHANGED <<versions, classifications, documents, documentVersions>>
  BY DEF SearchConflicts, Searches, Begins, documentVars
<1>2. SourcesInv /\ EvidenceInv /\ DocumentsInv /\ CallsInv
  BY DEF IInv
<1>3. EvidenceInv' /\ EvidenceGrows
  BY <1>1, <1>2, RegisterEvidenceSound
<1>4. VersionsGrow /\ ClassificationsGrow /\ DocumentsGrow
  BY <1>1, <1>2 DEF VersionsGrow, Same, ClassificationsGrow, DocumentsGrow
<1>5. SourcesInv' /\ DocumentsInv'
  BY <1>1, <1>2 DEF SourcesInv, DocumentsInv
<1>6. hit \in Hits
  BY DEF Citable
<1>7. g \in Call
  <2>1. Cardinality({hit}) <= Limit
    <3>1. Cardinality({hit}) = 1
      BY FS_Singleton, Zenon
    <3>. QED  BY <3>1 DEF KnowledgeAssumption
  <2>2. {hit} \in SUBSET Hits /\ WithinLimit({hit})
    BY <1>6, <2>1 DEF WithinLimit
  <2>. QED  BY <2>2, SearchCall
<1>8. Sound(g)'
  <2>1. Collides(a, hit)
    BY <1>1, <1>2, ConflictCollides
  <2>2. Collides(a, hit)'
    BY <1>1, <2>1 DEF Collides
  <2>3. a # None
    BY DEF KnowledgeAssumption
  <2>. QED  BY <2>2, <2>3 DEF Sound
<1> HIDE DEF g
<1>9. CallsInv'
  BY <1>1, <1>2, <1>3, <1>4, <1>7, <1>8, OperationSound
<1>. QED  BY <1>3, <1>4, <1>5, <1>9 DEF IInv, Grows

\* Operations that register sources or documents, or that find what they would
\* register.
LEMMA RegistersSound ==
  ASSUME KnowledgeAssumption, IInv, NEW c \in Calls, NEW p \in {"idle", "appending"},
         call' = [call EXCEPT ![c] = [Idle EXCEPT !.phase = p]],
         SourcesInv', VersionsGrow, ClassificationsGrow,
         DocumentsInv', DocumentsGrow, UNCHANGED evidence
  PROVE  IInv' /\ Grows
<1>1. EvidenceInv' /\ EvidenceGrows
  BY EvidenceStays DEF IInv
<1>2. CallsInv'
  BY <1>1, PlainSound DEF IInv
<1>. QED  BY <1>1, <1>2 DEF IInv, Grows

LEMMA SourcesFrame ==
  ASSUME SourcesInv, UNCHANGED <<versions, classifications>>
  PROVE  SourcesInv' /\ VersionsGrow /\ ClassificationsGrow
BY DEF SourcesInv, VersionsGrow, Same, ClassificationsGrow

LEMMA DocumentsFrame ==
  ASSUME DocumentsInv, UNCHANGED documentVars
  PROVE  DocumentsInv' /\ DocumentsGrow
BY DEF DocumentsInv, DocumentsGrow, documentVars

LEMMA IdlePhase ==
  ASSUME KnowledgeAssumption
  PROVE  Idle = [Idle EXCEPT !.phase = "idle"]
<1>1. Idle.phase = "idle"
  BY DEF Idle
<1>2. Cardinality({}) <= Limit
  BY FS_EmptySet DEF KnowledgeAssumption
<1>3. Idle \in Call
  BY <1>2 DEF Idle, Call
<1>. QED  BY <1>1, <1>3 DEF Call

LEMMA SourceOperationSound ==
  ASSUME KnowledgeAssumption, IInv, NEW c \in Calls, NEW a \in Accesses,
         SourceOperation(c, a)
  PROVE  IInv' /\ Grows
<1>1. SourcesInv /\ DocumentsInv
  BY DEF IInv
<1>2. ASSUME NEW g \in Registrations, Register(c, a, g)
      PROVE  IInv' /\ Grows
  <2>1. SourcesInv' /\ VersionsGrow /\ ClassificationsGrow
    BY <1>1, <1>2, RegisterGrows
  <2>2. /\ call' = [call EXCEPT ![c] = [Idle EXCEPT !.phase = "appending"]]
        /\ UNCHANGED <<evidence, documentVars>>
    BY <1>2 DEF Register, Announces, Begins
  <2>. QED  BY <1>1, <2>1, <2>2, DocumentsFrame, RegistersSound
<1>3. ASSUME NEW g \in Registrations, RegisterAgain(c, a, g)
      PROVE  IInv' /\ Grows
  <2>1. /\ call' = [call EXCEPT ![c] = [Idle EXCEPT !.phase = "idle"]]
        /\ UNCHANGED <<versions, classifications, evidence, documentVars>>
    BY <1>3, IdlePhase DEF RegisterAgain, Answers, Begins, sourceVars
  <2>. QED  BY <1>1, <2>1, SourcesFrame, DocumentsFrame, RegistersSound
<1>4. ASSUME NEW s \in Sources, NEW v \in Versions, Verify(c, a, s, v)
      PROVE  IInv' /\ Grows
  <2>1. SourcesInv' /\ VersionsGrow /\ ClassificationsGrow
    BY <1>1, <1>4, VerifyGrows
  <2>2. /\ call' = [call EXCEPT ![c] = [Idle EXCEPT !.phase = "appending"]]
        /\ UNCHANGED <<evidence, documentVars>>
    BY <1>4 DEF Verify, Announces, Begins
  <2>. QED  BY <1>1, <2>1, <2>2, DocumentsFrame, RegistersSound
<1>. QED  BY <1>2, <1>3, <1>4, SearchSound, SearchConflictsSound DEF SourceOperation

LEMMA DocumentOperationSound ==
  ASSUME KnowledgeAssumption, IInv, NEW c \in Calls, NEW a \in Accesses,
         DocumentOperation(c, a)
  PROVE  IInv' /\ Grows
<1>1. SourcesInv /\ DocumentsInv
  BY DEF IInv
<1>2. PICK d \in Documents :
        \/ \E metadata \in Metadata :
             \/ RegisterDocument(c, a, d, metadata)
             \/ RegisterDocumentAgain(c, a, d, metadata)
        \/ \E v \in Revisions, reference \in References :
             \/ AddVersion(c, a, d, v, reference)
             \/ AddVersionAgain(c, a, d, v, reference)
  BY DEF DocumentOperation
<1>3. ASSUME NEW metadata \in Metadata, RegisterDocument(c, a, d, metadata)
      PROVE  IInv' /\ Grows
  <2>1. DocumentsInv' /\ DocumentsGrow
    BY <1>1, <1>3, RegisterDocumentGrows
  <2>2. /\ call' = [call EXCEPT ![c] = [Idle EXCEPT !.phase = "appending"]]
        /\ UNCHANGED <<versions, classifications, evidence>>
    BY <1>3 DEF RegisterDocument, Announces, Begins, sourceVars
  <2>. QED  BY <1>1, <2>1, <2>2, SourcesFrame, RegistersSound
<1>4. ASSUME NEW v \in Revisions, NEW reference \in References,
             AddVersion(c, a, d, v, reference)
      PROVE  IInv' /\ Grows
  <2>1. DocumentsInv' /\ DocumentsGrow
    BY <1>1, <1>4, AddVersionGrows
  <2>2. /\ call' = [call EXCEPT ![c] = [Idle EXCEPT !.phase = "appending"]]
        /\ UNCHANGED <<versions, classifications, evidence>>
    BY <1>4 DEF AddVersion, Announces, Begins, sourceVars
  <2>. QED  BY <1>1, <2>1, <2>2, SourcesFrame, RegistersSound
<1>5. ASSUME \/ \E metadata \in Metadata : RegisterDocumentAgain(c, a, d, metadata)
             \/ \E v \in Revisions, reference \in References :
                  AddVersionAgain(c, a, d, v, reference)
      PROVE  IInv' /\ Grows
  <2>1. /\ call' = [call EXCEPT ![c] = [Idle EXCEPT !.phase = "idle"]]
        /\ UNCHANGED <<versions, classifications, evidence, documentVars>>
    BY <1>5, IdlePhase
       DEF RegisterDocumentAgain, AddVersionAgain, Answers, Begins, sourceVars
  <2>. QED  BY <1>1, <2>1, SourcesFrame, DocumentsFrame, RegistersSound
<1>. QED  BY <1>2, <1>3, <1>4, <1>5

\* An operation whose event has been appended, or has not.
LEMMA EndsSound ==
  ASSUME KnowledgeAssumption, IInv, NEW c \in Calls, Return(c) \/ AuditFails(c)
  PROVE  IInv' /\ Grows
<1> DEFINE g == [call[c] EXCEPT !.phase = "returned"]
<1>1. SourcesInv /\ EvidenceInv /\ DocumentsInv /\ CallsInv
  BY DEF IInv
<1>2. UNCHANGED <<versions, classifications, evidence, documentVars>>
  BY DEF Return, AuditFails, sourceVars
<1>3. /\ SourcesInv' /\ VersionsGrow /\ ClassificationsGrow
      /\ DocumentsInv' /\ DocumentsGrow
  BY <1>1, <1>2, SourcesFrame, DocumentsFrame
<1>4. CASE call' = [call EXCEPT ![c] = Idle]
  <2>1. call' = [call EXCEPT ![c] = [Idle EXCEPT !.phase = "idle"]]
    BY <1>4, IdlePhase
  <2>. QED  BY <1>2, <1>3, <2>1, RegistersSound
<1>5. CASE call[c].phase = "appending" /\ call' = [call EXCEPT ![c] = g]
  <2>1. EvidenceInv' /\ EvidenceGrows
    BY <1>1, <1>2, <1>3, EvidenceStays
  <2>2. call[c] \in Call /\ Sound(call[c])
    BY <1>1 DEF CallsInv
  <2>3. /\ g \in Call /\ g.access = call[c].access /\ g.items = call[c].items
        /\ g.phase = "returned"
    BY <2>2 DEF Call
  <2> HIDE DEF g
  <2>4. PICK x \in Call : x = g
    BY <2>3
  <2>5. Sound(x)
    BY <1>5, <2>2, <2>3, <2>4 DEF Sound
  <2>6. Sound(x)'
    BY <1>1, <1>3, <2>1, <2>5, SoundStays
  <2>7. call' = [call EXCEPT ![c] = x]
    BY <1>5, <2>4
  <2>8. CallsInv'
    BY <1>1, <1>3, <2>1, <2>6, <2>7, OperationSound
  <2>. QED  BY <1>3, <2>1, <2>8 DEF IInv, Grows
<1>6. call' = [call EXCEPT ![c] = Idle]
        \/ (call[c].phase = "appending" /\ call' = [call EXCEPT ![c] = g])
  BY DEF Return, AuditFails
<1>. QED  BY <1>4, <1>5, <1>6

LEMMA NextSound ==
  ASSUME KnowledgeAssumption, IInv, [Next]_vars
  PROVE  IInv' /\ Grows
<1>1. CASE UNCHANGED vars
  <2>1. /\ SourcesInv' /\ VersionsGrow /\ ClassificationsGrow
        /\ DocumentsInv' /\ DocumentsGrow
    BY <1>1, SourcesFrame, DocumentsFrame DEF IInv, vars, sourceVars
  <2>2. EvidenceInv' /\ EvidenceGrows
    BY <1>1, <2>1, EvidenceStays DEF IInv, vars, sourceVars
  <2>3. CallsInv'
    <3>1. UNCHANGED <<versions, evidence, call>>
      BY <1>1 DEF vars, sourceVars
    <3>2. ASSUME NEW c \in Calls
          PROVE  Sound(call[c])' = Sound(call[c])
      BY <3>1 DEF Sound, Collides, Traceable
    <3>. QED  BY <3>1, <3>2 DEF IInv, CallsInv
  <2>. QED  BY <2>1, <2>2, <2>3 DEF IInv, Grows
<1>2. CASE Next
  <2>1. PICK c \in Calls :
          \/ \E a \in Accesses : SourceOperation(c, a) \/ DocumentOperation(c, a)
          \/ Return(c)
          \/ AuditFails(c)
    BY <1>2 DEF Next
  <2>2. CASE \E a \in Accesses : SourceOperation(c, a) \/ DocumentOperation(c, a)
    BY <2>2, SourceOperationSound, DocumentOperationSound
  <2>3. CASE Return(c) \/ AuditFails(c)
    BY <2>3, EndsSound
  <2>. QED  BY <2>1, <2>2, <2>3
<1>. QED  BY <1>1, <1>2

LEMMA InitSound ==
  ASSUME KnowledgeAssumption, Init
  PROVE  IInv
<1>1. SourcesInv /\ EvidenceInv /\ DocumentsInv
  BY DEF Init, SourcesInv, EvidenceInv, DocumentsInv
<1>2. call \in [Calls -> Call]
  BY IdlePhase, PlainCall DEF Init
<1>3. ASSUME NEW c \in Calls
      PROVE  Sound(call[c])
  BY DEF Init, Idle, Sound
<1>. QED  BY <1>1, <1>2, <1>3 DEF IInv, CallsInv

LEMMA Invariance ==
  Spec => []IInv
<1>1. Init => IInv
  BY InitSound, KnowledgeAssumption
<1>2. IInv /\ [Next]_vars => IInv'
  BY NextSound, KnowledgeAssumption
<1>. QED  BY <1>1, <1>2, PTL DEF Spec

-----------------------------------------------------------------------------
(* The theorems. *)

\* The registries have their types, and no context has more items than its search
\* was asked for.
THEOREM TypeCorrect ==
  Spec => []TypeOK
<1>1. IInv => TypeOK
  BY DEF IInv, SourcesInv, EvidenceInv, DocumentsInv, CallsInv, TypeOK
<1>. QED  BY <1>1, Invariance, PTL

\* However many operations run, fail and are repeated, the registries of
\* sources/service.py, evidence/registry and documents/service.py never change
\* what they have recorded.
THEOREM KnowledgeStays ==
  Spec => KnowledgeImmutable
<1> DEFINE Stays ==
      /\ \A k \in VersionKeys :
           versions[k] # None => Same(versions[k], versions'[k])
      /\ \A k \in SourceKeys :
           classifications[k] # None => classifications'[k] = classifications[k]
      /\ \A k, l \in VersionKeys :
           /\ k[1] = l[1] /\ k[2] = l[2]
           /\ versions'[k] # None /\ versions'[l] # None
           => versions'[k].classification = versions'[l].classification
      /\ \A i \in EvidenceIds : evidence[i] # None => evidence'[i] = evidence[i]
      /\ \A k \in DocumentKeys : documents[k] # None => documents'[k] = documents[k]
      /\ \A k \in DocumentKeys \X Revisions :
           documentVersions[k] # None =>
             /\ documentVersions'[k] = documentVersions[k]
             /\ documents'[k[1]] # None
<1>1. ASSUME IInv, [Next]_vars
      PROVE  Stays
  <2>1. IInv' /\ Grows
    BY <1>1, NextSound, KnowledgeAssumption
  <2>2. VersionsGrow /\ ClassificationsGrow /\ EvidenceGrows /\ DocumentsGrow
    BY <2>1 DEF Grows
  <2>3. SourcesInv' /\ DocumentsInv' /\ DocumentsInv
    BY <1>1, <2>1 DEF IInv
  <2>4. \A k, l \in VersionKeys :
          /\ k[1] = l[1] /\ k[2] = l[2]
          /\ versions'[k] # None /\ versions'[l] # None
          => versions'[k].classification = versions'[l].classification
    BY <2>3 DEF SourcesInv
  <2>5. \A k \in DocumentKeys \X Revisions :
          documentVersions[k] # None =>
            /\ documentVersions'[k] = documentVersions[k]
            /\ documents'[k[1]] # None
    BY <2>2, <2>3 DEF DocumentsGrow, DocumentsInv
  <2>. QED  BY <2>2, <2>4, <2>5
            DEF VersionsGrow, ClassificationsGrow, EvidenceGrows, DocumentsGrow
<1>2. IInv /\ [Next]_vars => [Stays]_vars
  BY <1>1
<1> HIDE DEF Stays
<1>3. Spec => [][Stays]_vars
  BY <1>2, Invariance, PTL DEF Spec
<1>. QED  BY <1>3 DEF Stays, KnowledgeImmutable

\* What search_context() hands out stays traceable, within the caller's workspace and
\* clearance, and what stops it is the evidence of another version with the citation.
THEOREM SearchesStaySound ==
  Spec => []SearchesSound
<1>1. IInv => SearchesSound
  BY DEF IInv, CallsInv, Sound, SearchesSound
<1>. QED  BY <1>1, Invariance, PTL

=============================================================================
