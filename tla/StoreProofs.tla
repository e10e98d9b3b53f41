---------------------------- MODULE StoreProofs ----------------------------
(***************************************************************************)
(* What holds of the store for every number of keys, specs, ids and        *)
(* generations, and every ring capacity.                                   *)
(***************************************************************************)
EXTENDS Store, TLAPS

\* A ring write keeps the ring's variables in their types.
LEMMA RingTyped ==
  ASSUME TypeOK, NEW e \in AuditEntry, appendAuditRingLocked(e)
  PROVE  /\ audit' \in Seq(AuditEntry)
         /\ Len(audit') <= AuditCap
         /\ auditWrite' \in 0 .. AuditCap - 1
         /\ auditEvicted' \in Nat
         /\ seq' \in Nat
<1>1. CASE Len(audit) < AuditCap
  BY <1>1, AuditCapAssumption DEF TypeOK, appendAuditRingLocked
<1>2. CASE ~(Len(audit) < AuditCap)
  <2>1. Len(audit) = AuditCap
    BY <1>2, AuditCapAssumption DEF TypeOK
  <2>2. audit' = [audit EXCEPT ![auditWrite + 1] = e]
    BY <1>2 DEF appendAuditRingLocked
  <2>3. auditWrite + 1 \in 1 .. Len(audit)
    BY <2>1, AuditCapAssumption DEF TypeOK
  <2>4. audit' \in Seq(AuditEntry) /\ Len(audit') = Len(audit)
    BY <2>2, <2>3 DEF TypeOK
  <2>5. auditWrite' \in 0 .. AuditCap - 1 /\ auditEvicted' \in Nat /\ seq' \in Nat
    BY <1>2, AuditCapAssumption DEF TypeOK, appendAuditRingLocked
  <2> QED BY <2>1, <2>4, <2>5, AuditCapAssumption
<1> QED BY <1>1, <1>2

\* The entry written for a document of a live or fresh id is a legal entry.
LEMMA EntryTyped ==
  ASSUME NEW action \in Mutations, NEW id \in Ids, NEW r \in Resource, r.gen \in 1 .. MaxGen
  PROVE  EntryFor(action, id, r) \in AuditEntry
BY DEF EntryFor, AuditEntry, Resource

\* Every step of the store keeps the types.
LEMMA TypeStep ==
  ASSUME TypeOK, [Next]_storeVars
  PROVE  TypeOK'
<1>1. CASE \E key \in Keys, spec \in Specs, labels \in Labels, phase \in CallerPhases :
             CreateResource(key, spec, labels, phase)
  <2>1. PICK key \in Keys, spec \in Specs, labels \in Labels, phase \in CallerPhases :
          CreateResource(key, spec, labels, phase)
    BY <1>1
  <2> DEFINE r == Created(key, spec, labels, phase)
  <2>2. r \in Resource /\ r.gen \in 1 .. MaxGen
    <3> DEFINE ph == IF phase = "" THEN "Pending" ELSE phase
    <3>1. ph \in Phases /\ "plain" \in Messages
      BY CallerPhasesAssumption DEF Phases, Messages
    <3>2. r = [key |-> key, spec |-> spec, labels |-> labels, gen |-> 1,
               phase |-> ph, msg |-> "plain", obs |-> 0]
      BY DEF Created
    <3> HIDE DEF ph, r
    <3> QED BY <3>1, <3>2, BoundsAssumption DEF Resource
  <2>3. nextId + 1 \in Ids /\ nextId' = nextId + 1
    BY <2>1, BoundsAssumption DEF CreateResource, TypeOK, Ids
  <2>4. EntryFor("created", nextId + 1, r) \in AuditEntry
    BY <2>2, <2>3, EntryTyped DEF Mutations
  <2>5. appendAuditRingLocked(EntryFor("created", nextId + 1, r))
    BY <2>1 DEF CreateResource
  <2>6. byID' = MapPut(byID, nextId + 1, r) /\ byLogic' = MapPut(byLogic, key, nextId + 1)
    BY <2>1 DEF CreateResource
  <2> HIDE DEF r
  <2>7. /\ DOMAIN byID' \subseteq 1 .. nextId'
        /\ \A id \in DOMAIN byID' : byID'[id] \in Resource /\ byID'[id].gen \in 1 .. MaxGen
    BY <2>2, <2>3, <2>6, BoundsAssumption DEF TypeOK, MapPut, Ids
  <2>8. /\ DOMAIN byLogic' \subseteq Keys
        /\ \A k \in DOMAIN byLogic' : byLogic'[k] \in 1 .. nextId'
    BY <2>3, <2>6, BoundsAssumption DEF TypeOK, MapPut, Ids
  <2>9. nextId' \in 0 .. MaxIds
    BY <2>3, BoundsAssumption DEF Ids
  <2> QED BY <2>4, <2>5, <2>7, <2>8, <2>9, RingTyped DEF TypeOK
<1>2. CASE \E id \in DOMAIN byID, expected \in 0 .. MaxGen, spec \in Specs,
             labels \in Labels \cup {NoLabels} : UpdateResource(id, expected, spec, labels)
  <2>1. PICK id \in DOMAIN byID, expected \in 0 .. MaxGen, spec \in Specs,
             labels \in Labels \cup {NoLabels} : UpdateResource(id, expected, spec, labels)
    BY <1>2
  <2> DEFINE new == UpdateResult(id, spec, labels)
  <2>2. new \in Resource /\ new.gen \in 1 .. MaxGen
    <3>1. byID[id] \in Resource /\ byID[id].gen \in 1 .. MaxGen
      BY DEF TypeOK
    <3>2. Edited(byID[id], spec, labels) \in Resource
      BY <3>1 DEF Edited, Resource
    <3>3. new \in Resource /\ new.gen \in {byID[id].gen, byID[id].gen + 1}
      BY <3>1, <3>2 DEF UpdateResult, Bumped, Resource
    <3> QED BY <2>1, <3>1, <3>3, BoundsAssumption DEF UpdateResource
  <2>3. id \in Ids
    BY BoundsAssumption DEF TypeOK, Ids
  <2>4. EntryFor("updated", id, new) \in AuditEntry
    BY <2>2, <2>3, EntryTyped DEF Mutations
  <2>5. UNCHANGED auditVars \/ appendAuditRingLocked(EntryFor("updated", id, new))
    BY <2>1 DEF UpdateResource
  <2>6. byID' = MapPut(byID, id, new) /\ UNCHANGED <<byLogic, nextId>>
    BY <2>1 DEF UpdateResource
  <2> HIDE DEF new
  <2>7. /\ DOMAIN byID' \subseteq 1 .. nextId'
        /\ \A i \in DOMAIN byID' : byID'[i] \in Resource /\ byID'[i].gen \in 1 .. MaxGen
    BY <2>2, <2>6 DEF TypeOK, MapPut
  <2>8. CASE UNCHANGED auditVars
    BY <2>6, <2>7, <2>8 DEF TypeOK, auditVars
  <2>9. CASE appendAuditRingLocked(EntryFor("updated", id, new))
    BY <2>4, <2>6, <2>7, <2>9, RingTyped DEF TypeOK
  <2> QED BY <2>5, <2>8, <2>9
<1>3. CASE \E id \in DOMAIN byID, w \in StatusWrites : UpdateStatus(id, w[1], w[2])
  <2>1. PICK id \in DOMAIN byID, w \in StatusWrites : UpdateStatus(id, w[1], w[2])
    BY <1>3
  <2>2. w[1] \in Phases /\ w[2] \in Messages
    BY StatusWritesAssumption
  <2>3. byID[id] \in Resource /\ byID[id].gen \in 1 .. MaxGen /\ id \in Ids
    BY BoundsAssumption DEF TypeOK, Ids
  <2> DEFINE new == Stamped(byID[id], w[1], w[2])
  <2>4. new \in Resource /\ new.gen \in 1 .. MaxGen
    BY <2>2, <2>3 DEF Stamped, Resource
  <2>5. EntryFor("status_changed", id, byID[id]) \in AuditEntry
    BY <2>3, EntryTyped DEF Mutations
  <2>6. /\ byID' = MapPut(byID, id, new) /\ UNCHANGED <<byLogic, nextId>>
        /\ appendAuditRingLocked(EntryFor("status_changed", id, byID[id]))
    BY <2>1 DEF UpdateStatus
  <2> HIDE DEF new
  <2>7. /\ DOMAIN byID' \subseteq 1 .. nextId'
        /\ \A i \in DOMAIN byID' : byID'[i] \in Resource /\ byID'[i].gen \in 1 .. MaxGen
    BY <2>4, <2>6 DEF TypeOK, MapPut
  <2> QED BY <2>5, <2>6, <2>7, RingTyped DEF TypeOK
<1>4. CASE \E id \in DOMAIN byID : DeleteResource(id)
  <2>1. PICK id \in DOMAIN byID : DeleteResource(id)
    BY <1>4
  <2>2. byID[id] \in Resource /\ byID[id].gen \in 1 .. MaxGen /\ id \in Ids
    BY BoundsAssumption DEF TypeOK, Ids
  <2>3. EntryFor("deleted", id, byID[id]) \in AuditEntry
    BY <2>2, EntryTyped DEF Mutations
  <2>4. /\ byID' = MapDelete(byID, id) /\ byLogic' = MapDelete(byLogic, byID[id].key)
        /\ UNCHANGED nextId
        /\ appendAuditRingLocked(EntryFor("deleted", id, byID[id]))
    BY <2>1 DEF DeleteResource
  <2>5. /\ DOMAIN byID' \subseteq 1 .. nextId'
        /\ \A i \in DOMAIN byID' : byID'[i] \in Resource /\ byID'[i].gen \in 1 .. MaxGen
        /\ DOMAIN byLogic' \subseteq Keys
        /\ \A k \in DOMAIN byLogic' : byLogic'[k] \in 1 .. nextId'
    BY <2>4 DEF TypeOK, MapDelete
  <2> QED BY <2>3, <2>4, <2>5, RingTyped DEF TypeOK
<1>5. CASE \E e \in AuditEntry : e.action \in Reports /\ AppendAudit(e)
  BY <1>5, RingTyped DEF TypeOK, AppendAudit, mapVars
<1>6. CASE UNCHANGED storeVars
  BY <1>6 DEF TypeOK, storeVars
<1> QED BY <1>1, <1>2, <1>3, <1>4, <1>5, <1>6 DEF Next

\* Every variable of the store keeps the type its struct declares, whatever
\* sequence of calls it serves.
THEOREM TypeCorrect == Spec => []TypeOK
<1>1. Init => TypeOK
  BY AuditCapAssumption, BoundsAssumption DEF Init, TypeOK
<1>2. TypeOK /\ [Next]_storeVars => TypeOK'
  BY TypeStep
<1> QED BY <1>1, <1>2, PTL DEF Spec

-----------------------------------------------------------------------------
(* The two indexes.                                                        *)

\* byID and byLogic always describe the same set of resources: every create
\* and delete writes both maps under one lock, and no update moves a key.
THEOREM IndexesAgree == Spec => []IndexConsistent
<1>1. Init => IndexConsistent
  BY DEF Init, IndexConsistent
<1>2. TypeOK /\ IndexConsistent /\ [Next]_storeVars => IndexConsistent'
  <2> SUFFICES ASSUME TypeOK, IndexConsistent, [Next]_storeVars
               PROVE  IndexConsistent'
    OBVIOUS
  <2>1. ASSUME NEW key \in Keys, NEW spec \in Specs, NEW labels \in Labels,
               NEW phase \in CallerPhases, CreateResource(key, spec, labels, phase)
        PROVE  IndexConsistent'
    <3> DEFINE r == Created(key, spec, labels, phase)
    <3>1. r.key = key
      BY DEF Created
    <3>2. key \notin DOMAIN byLogic
      BY <2>1 DEF CreateResource, CreateOutcome
    <3>3. nextId + 1 \notin DOMAIN byID
      BY BoundsAssumption DEF TypeOK
    <3>4. byID' = MapPut(byID, nextId + 1, r) /\ byLogic' = MapPut(byLogic, key, nextId + 1)
      BY <2>1 DEF CreateResource
    <3> HIDE DEF r
    <3> QED BY <3>1, <3>2, <3>3, <3>4 DEF IndexConsistent, MapPut
  <2>2. ASSUME NEW id \in DOMAIN byID, NEW new, new.key = byID[id].key,
               byID' = MapPut(byID, id, new), byLogic' = byLogic
        PROVE  IndexConsistent'
    BY <2>2 DEF IndexConsistent, MapPut
  <2>3. ASSUME NEW id \in DOMAIN byID, NEW expected \in 0 .. MaxGen, NEW spec \in Specs,
               NEW labels \in Labels \cup {NoLabels},
               UpdateResource(id, expected, spec, labels)
        PROVE  IndexConsistent'
    <3>1. byID[id] \in Resource
      BY DEF TypeOK
    <3>2. UpdateResult(id, spec, labels).key = byID[id].key
      BY <3>1 DEF UpdateResult, Bumped, Edited, Resource
    <3>3. byID' = MapPut(byID, id, UpdateResult(id, spec, labels)) /\ byLogic' = byLogic
      BY <2>3 DEF UpdateResource
    <3> QED BY <2>2, <3>2, <3>3
  <2>4. ASSUME NEW id \in DOMAIN byID, NEW w \in StatusWrites, UpdateStatus(id, w[1], w[2])
        PROVE  IndexConsistent'
    <3>1. byID[id] \in Resource
      BY DEF TypeOK
    <3>2. Stamped(byID[id], w[1], w[2]).key = byID[id].key
      BY <3>1 DEF Stamped, Resource
    <3>3. byID' = MapPut(byID, id, Stamped(byID[id], w[1], w[2])) /\ byLogic' = byLogic
      BY <2>4 DEF UpdateStatus
    <3> QED BY <2>2, <3>2, <3>3
  <2>5. ASSUME NEW id \in DOMAIN byID, DeleteResource(id)
        PROVE  IndexConsistent'
    BY <2>5 DEF DeleteResource, IndexConsistent, MapDelete
  <2>6. ASSUME NEW e, AppendAudit(e)
        PROVE  IndexConsistent'
    BY <2>6 DEF AppendAudit, mapVars, IndexConsistent
  <2>7. CASE UNCHANGED storeVars
    BY <2>7 DEF storeVars, IndexConsistent
  <2> QED BY <2>1, <2>3, <2>4, <2>5, <2>6, <2>7 DEF Next
<1> QED BY <1>1, <1>2, TypeCorrect, PTL DEF Spec

-----------------------------------------------------------------------------
(* Generations.                                                            *)

\* The step form of GenerationTracksContent.
GenerationStep ==
  /\ \A id \in DOMAIN byID \cap DOMAIN byID' :
       byID'[id].gen = byID[id].gen + (IF specLabelsEqual(byID[id], byID'[id]) THEN 0 ELSE 1)
  /\ \A id \in DOMAIN byID' \ DOMAIN byID : id > nextId

\* A generation names one content: no sequence of updates and status writes
\* reuses a generation for a different spec or label set, and no create
\* revives a deleted id.
THEOREM GenerationNamesContent == Spec => GenerationTracksContent
<1>1. TypeOK /\ [Next]_storeVars => [GenerationStep]_storeVars
  <2> SUFFICES ASSUME TypeOK, Next PROVE GenerationStep
    OBVIOUS
  <2>1. \A id \in DOMAIN byID : byID[id] \in Resource
    BY DEF TypeOK
  <2>2. ASSUME NEW id \in DOMAIN byID, NEW new, byID' = MapPut(byID, id, new),
               new.gen = byID[id].gen + (IF specLabelsEqual(byID[id], new) THEN 0 ELSE 1)
        PROVE  GenerationStep
    BY <2>1, <2>2 DEF GenerationStep, MapPut, specLabelsEqual, Resource
  <2>3. ASSUME NEW key \in Keys, NEW spec \in Specs, NEW labels \in Labels,
               NEW phase \in CallerPhases, CreateResource(key, spec, labels, phase)
        PROVE  GenerationStep
    <3>1. DOMAIN byID' = DOMAIN byID \cup {nextId + 1} /\ \A id \in DOMAIN byID : id # nextId + 1
      BY <2>3 DEF CreateResource, MapPut, TypeOK
    <3>2. \A id \in DOMAIN byID : byID'[id] = byID[id]
      BY <2>3, <3>1 DEF CreateResource, MapPut
    <3> QED BY <2>1, <3>1, <3>2 DEF GenerationStep, specLabelsEqual, Resource, TypeOK
  <2>4. ASSUME NEW id \in DOMAIN byID, NEW expected \in 0 .. MaxGen, NEW spec \in Specs,
               NEW labels \in Labels \cup {NoLabels}, UpdateResource(id, expected, spec, labels)
        PROVE  GenerationStep
    <3> DEFINE work == Edited(byID[id], spec, labels)
               new == Bumped(byID[id], work)
    <3>1. work \in Resource
      BY <2>1 DEF Edited, Resource
    <3>2. byID' = MapPut(byID, id, new)
      BY <2>4 DEF UpdateResource, UpdateResult
    <3> HIDE DEF work
    <3>3. new.spec = work.spec /\ new.labels = work.labels
          /\ new.gen = IF specLabelsEqual(byID[id], work) THEN byID[id].gen ELSE byID[id].gen + 1
      BY <3>1 DEF Bumped, Resource
    <3>4. new.gen = byID[id].gen + (IF specLabelsEqual(byID[id], new) THEN 0 ELSE 1)
      BY <2>1, <3>3 DEF specLabelsEqual, Resource
    <3> QED BY <2>2, <3>2, <3>4
  <2>5. ASSUME NEW id \in DOMAIN byID, NEW w \in StatusWrites, UpdateStatus(id, w[1], w[2])
        PROVE  GenerationStep
    <3> DEFINE new == Stamped(byID[id], w[1], w[2])
    <3>1. new.gen = byID[id].gen /\ specLabelsEqual(byID[id], new)
      BY <2>1 DEF Stamped, specLabelsEqual, Resource
    <3>2. byID' = MapPut(byID, id, new)
      BY <2>5 DEF UpdateStatus
    <3> QED BY <2>1, <2>2, <3>1, <3>2 DEF Resource
  <2>6. ASSUME NEW id \in DOMAIN byID, DeleteResource(id)
        PROVE  GenerationStep
    BY <2>1, <2>6 DEF DeleteResource, MapDelete, GenerationStep, specLabelsEqual, Resource
  <2>7. ASSUME NEW e, AppendAudit(e)
        PROVE  GenerationStep
    BY <2>1, <2>7 DEF AppendAudit, mapVars, GenerationStep, specLabelsEqual, Resource
  <2> QED BY <2>3, <2>4, <2>5, <2>6, <2>7 DEF Next
<1> QED BY <1>1, TypeCorrect, PTL DEF Spec, GenerationTracksContent, GenerationStep

-----------------------------------------------------------------------------
(* The ring.                                                               *)

\* Every step of the store leaves the ring alone or writes one legal entry.
LEMMA WritesEntry ==
  ASSUME TypeOK, TypeOK', [Next]_storeVars
  PROVE  UNCHANGED auditVars \/ \E e \in AuditEntry : appendAuditRingLocked(e)
<1>0. \A id \in DOMAIN byID : id \in Ids /\ byID[id] \in Resource /\ byID[id].gen \in 1 .. MaxGen
  BY BoundsAssumption DEF TypeOK, Ids
<1>0a. \A id \in DOMAIN byID' : id \in Ids /\ byID'[id] \in Resource /\ byID'[id].gen \in 1 .. MaxGen
  BY BoundsAssumption DEF TypeOK, Ids
<1>1. ASSUME NEW key \in Keys, NEW spec \in Specs, NEW labels \in Labels,
             NEW phase \in CallerPhases, CreateResource(key, spec, labels, phase)
      PROVE  \E e \in AuditEntry : appendAuditRingLocked(e)
  <2> DEFINE r == Created(key, spec, labels, phase)
  <2>1. nextId + 1 \in DOMAIN byID' /\ byID'[nextId + 1] = r
    BY <1>1 DEF CreateResource, MapPut
  <2>2. EntryFor("created", nextId + 1, r) \in AuditEntry
    BY <1>0a, <2>1, EntryTyped DEF Mutations
  <2> QED BY <1>1, <2>2 DEF CreateResource
<1>2. ASSUME NEW id \in DOMAIN byID, NEW expected \in 0 .. MaxGen, NEW spec \in Specs,
             NEW labels \in Labels \cup {NoLabels}, UpdateResource(id, expected, spec, labels)
      PROVE  UNCHANGED auditVars \/ \E e \in AuditEntry : appendAuditRingLocked(e)
  <2> DEFINE new == UpdateResult(id, spec, labels)
  <2>1. id \in DOMAIN byID' /\ byID'[id] = new
    BY <1>2 DEF UpdateResource, MapPut
  <2>2. EntryFor("updated", id, new) \in AuditEntry
    BY <1>0a, <2>1, EntryTyped DEF Mutations
  <2> QED BY <1>2, <2>2 DEF UpdateResource
<1>3. ASSUME NEW id \in DOMAIN byID, NEW action \in Mutations,
             appendAuditRingLocked(EntryFor(action, id, byID[id]))
      PROVE  \E e \in AuditEntry : appendAuditRingLocked(e)
  BY <1>0, <1>3, EntryTyped
<1>4. ASSUME NEW id \in DOMAIN byID, NEW w \in StatusWrites, UpdateStatus(id, w[1], w[2])
      PROVE  \E e \in AuditEntry : appendAuditRingLocked(e)
  BY <1>3, <1>4 DEF UpdateStatus, Mutations
<1>5. ASSUME NEW id \in DOMAIN byID, DeleteResource(id)
      PROVE  \E e \in AuditEntry : appendAuditRingLocked(e)
  BY <1>3, <1>5 DEF DeleteResource, Mutations
<1>6. ASSUME NEW e \in AuditEntry, AppendAudit(e)
      PROVE  appendAuditRingLocked(e)
  BY <1>6 DEF AppendAudit
<1>7. CASE UNCHANGED storeVars
  BY <1>7 DEF storeVars, auditVars
<1> QED BY <1>1, <1>2, <1>4, <1>5, <1>6, <1>7 DEF Next

\* The slot ListAudit computes for the k-th newest entry, without the modulo.
LEMMA SlotIndex ==
  ASSUME NEW n \in Nat \ {0}, NEW w \in 0 .. n - 1, NEW k \in 1 .. n
  PROVE  ((w - 1 - (k - 1) + n) % n) + 1 = IF k <= w THEN w - k + 1 ELSE w - k + n + 1
<1> DEFINE x == w - 1 - (k - 1) + n
<1>1. ASSUME NEW y \in 0 .. n - 1
      PROVE  y % n = y
  OBVIOUS
<1>2. ASSUME NEW y \in n .. 2 * n - 1
      PROVE  y % n = y - n
  OBVIOUS
<1>3. CASE k <= w
  <2>1. x \in n .. 2 * n - 1 /\ x - n = w - k
    BY <1>3
  <2> QED BY <1>2, <1>3, <2>1
<1>4. CASE ~(k <= w)
  <2>1. x \in 0 .. n - 1 /\ x = w - k + n
    BY <1>4
  <2> QED BY <1>1, <1>4, <2>1
<1> QED BY <1>3, <1>4

\* The write index stays at the first slot until the ring is full.
RingShape == Len(audit) < AuditCap => auditWrite = 0

\* A listing of the ring a with write index w, as ListAudit computes it and
\* without the modulo.
Listing(a, w) == [k \in 1 .. Len(a) |-> a[((w - 1 - (k - 1) + Len(a)) % Len(a)) + 1]]
Unfolded(a, w) ==
  [k \in 1 .. Len(a) |-> a[IF k <= w THEN w - k + 1 ELSE w - k + Len(a) + 1]]

\* A listing is the retained entries read backwards from the write index.
LEMMA ListingUnfolded ==
  ASSUME NEW a \in Seq(AuditEntry), NEW w \in Nat, Len(a) = 0 \/ w < Len(a)
  PROVE  Listing(a, w) = Unfolded(a, w)
<1> DEFINE n == Len(a)
<1>1. ASSUME NEW k \in 1 .. n
      PROVE  ((w - 1 - (k - 1) + n) % n) + 1 = IF k <= w THEN w - k + 1 ELSE w - k + n + 1
  <2>1. n \in Nat \ {0} /\ w \in 0 .. n - 1
    OBVIOUS
  <2> QED BY <2>1, SlotIndex
<1> QED BY <1>1 DEF Listing, Unfolded

\* A ring write is the window's Record: the new entry comes first and, at
\* capacity, exactly the oldest one disappears.
LEMMA RingWrite ==
  ASSUME TypeOK, TypeOK', RingShape, NEW e \in AuditEntry, appendAuditRingLocked(e)
  PROVE  RingShape' /\ Window!Record(e)
<1> DEFINE n == Len(audit)
           old == ListAudit
           new == ListAudit'
<1>1. RingShape'
  BY AuditCapAssumption DEF RingShape, TypeOK, appendAuditRingLocked
<1>2. old = Unfolded(audit, auditWrite)
  <2>1. audit \in Seq(AuditEntry) /\ auditWrite \in Nat /\ (Len(audit) = 0 \/ auditWrite < Len(audit))
    BY AuditCapAssumption DEF TypeOK, RingShape
  <2>2. old = Listing(audit, auditWrite)
    BY DEF ListAudit, Listing
  <2> QED BY <2>1, <2>2, ListingUnfolded
<1>3. new = Unfolded(audit', auditWrite')
  <2>1. audit' \in Seq(AuditEntry) /\ auditWrite' \in Nat /\ (Len(audit') = 0 \/ auditWrite' < Len(audit'))
    BY <1>1, AuditCapAssumption DEF TypeOK, RingShape
  <2>2. new = Listing(audit', auditWrite')
    BY DEF ListAudit, Listing
  <2> QED BY <2>1, <2>2, ListingUnfolded
<1>4. n \in Nat /\ n <= AuditCap /\ audit \in Seq(AuditEntry)
  BY DEF TypeOK
<1>5. Len(old) = n /\ old \in Seq(AuditEntry)
  <2>1. \A k \in 1 .. n : (IF k <= auditWrite THEN auditWrite - k + 1 ELSE auditWrite - k + n + 1) \in 1 .. n
    BY <1>4, AuditCapAssumption DEF TypeOK, RingShape
  <2>2. \A k \in 1 .. n : old[k] \in AuditEntry
    BY <1>2, <1>4, <2>1 DEF Unfolded
  <2>3. old = [k \in 1 .. n |-> old[k]]
    BY <1>2 DEF Unfolded
  <2> QED BY <1>4, <2>2, <2>3
<1>6. CASE n < AuditCap
  <2>1. audit' = Append(audit, e) /\ auditWrite = 0 /\ auditWrite' = 0 /\ UNCHANGED auditEvicted
    BY <1>6 DEF appendAuditRingLocked, RingShape
  <2>2. new = <<e>> \o old
    <3>1. new = [k \in 1 .. n + 1 |-> audit'[n + 2 - k]]
      BY <1>3, <1>4, <2>1 DEF Unfolded
    <3>2. old = [k \in 1 .. n |-> audit[n + 1 - k]]
      BY <1>2, <1>4, <2>1 DEF Unfolded
    <3>3. \A k \in 1 .. n + 1 : new[k] = (<<e>> \o old)[k]
      BY <1>4, <1>5, <2>1, <3>1, <3>2
    <3> HIDE DEF old, new
    <3>4. <<e>> \o old = [k \in 1 .. n + 1 |-> (<<e>> \o old)[k]]
      BY <1>4, <1>5
    <3> QED BY <3>1, <3>3, <3>4
  <2> QED BY <1>1, <1>5, <1>6, <2>1, <2>2 DEF Window!Record
<1>7. CASE ~(n < AuditCap)
  <2>1. n = AuditCap /\ audit' = [audit EXCEPT ![auditWrite + 1] = e] /\ auditEvicted' = auditEvicted + 1
        /\ auditWrite' = IF auditWrite + 1 = AuditCap THEN 0 ELSE auditWrite + 1
    BY <1>4, <1>7, AuditCapAssumption DEF appendAuditRingLocked
  <2>2. auditWrite \in 0 .. n - 1 /\ Len(audit') = n /\ n \in Nat \ {0}
    BY <2>1, <1>4, AuditCapAssumption DEF TypeOK
  <2> DEFINE cut == SubSeq(old, 1, AuditCap - 1)
  <2>3. cut \in Seq(AuditEntry) /\ Len(cut) = n - 1 /\ \A k \in 1 .. n - 1 : cut[k] = old[k]
    BY <1>5, <2>1, <2>2
  <2>4. \A k \in 1 .. n : (<<e>> \o cut)[k] = IF k = 1 THEN e ELSE old[k - 1]
    BY <2>2, <2>3
  <2>5. \A k \in 1 .. n : new[k] = IF k = 1 THEN e ELSE old[k - 1]
    <3> SUFFICES ASSUME NEW k \in 1 .. n
                 PROVE  new[k] = IF k = 1 THEN e ELSE old[k - 1]
      OBVIOUS
    <3> DEFINE w == auditWrite'
               slot == IF k <= w THEN w - k + 1 ELSE w - k + n + 1
    <3>1. new[k] = audit'[slot] /\ slot \in 1 .. n
      <4>1. new[k] = audit'[slot]
        BY <1>3, <2>2 DEF Unfolded
      <4>2. w \in 0 .. n - 1
        BY <2>1, <2>2
      <4>3. slot \in 1 .. n
        <5> HIDE DEF w, n
        <5> QED BY <2>2, <4>2
      <4> QED BY <4>1, <4>3
    <3>2. CASE k = 1
      <4>1. slot = auditWrite + 1
        BY <2>1, <2>2, <3>2
      <4> HIDE DEF slot, new
      <4>2. audit'[auditWrite + 1] = e
        BY <1>4, <2>1, <2>2
      <4> QED BY <3>1, <3>2, <4>1, <4>2
    <3>3. CASE k # 1
      <4> DEFINE before == IF k - 1 <= auditWrite THEN auditWrite - (k - 1) + 1 ELSE auditWrite - (k - 1) + n + 1
      <4>1. k - 1 \in 1 .. n
        BY <2>2, <3>3
      <4>2. old[k - 1] = audit[before]
        BY <1>2, <4>1 DEF Unfolded
      <4>3. slot = before /\ slot # auditWrite + 1
        BY <2>1, <2>2, <3>3
      <4> HIDE DEF slot, before, old, new
      <4>4. audit'[slot] = audit[slot]
        BY <1>4, <2>1, <2>2, <3>1, <4>3
      <4> QED BY <3>1, <3>3, <4>2, <4>3, <4>4
    <3> QED BY <3>2, <3>3
  <2>6. new = [k \in 1 .. n |-> new[k]]
    BY <1>3, <2>2 DEF Unfolded
  <2>7. new = <<e>> \o cut
    <3> HIDE DEF old, new, cut
    <3>1. <<e>> \o cut = [k \in 1 .. n |-> (<<e>> \o cut)[k]]
      BY <2>2, <2>3
    <3>2. \A k \in 1 .. n : new[k] = (<<e>> \o cut)[k]
      BY <2>4, <2>5
    <3> QED BY <2>6, <3>1, <3>2
  <2> QED BY <1>1, <1>5, <1>7, <2>1, <2>7 DEF Window!Record
<1> QED BY <1>6, <1>7

\* The audit ring with its write index and wrap-around implements the plain
\* "newest AuditCap entries, newest first" window, for every capacity.
THEOREM RingRefinesWindow == Spec => RingImplementsWindow
<1>1. Init => RingShape /\ Window!Init
  BY DEF Init, RingShape, Window!Init, ListAudit
<1>2. TypeOK /\ TypeOK' /\ RingShape /\ [Next]_storeVars => RingShape' /\ [Window!Next]_Window!wvars
  <2> SUFFICES ASSUME TypeOK, TypeOK', RingShape, [Next]_storeVars
               PROVE  RingShape' /\ [Window!Next]_Window!wvars
    OBVIOUS
  <2>1. ASSUME UNCHANGED auditVars
        PROVE  RingShape' /\ UNCHANGED Window!wvars
    BY <2>1 DEF auditVars, RingShape, Window!wvars, ListAudit
  <2>2. ASSUME NEW e \in AuditEntry, appendAuditRingLocked(e)
        PROVE  RingShape' /\ Window!Next
    BY <2>2, RingWrite DEF Window!Next
  <2>3. UNCHANGED auditVars \/ \E e \in AuditEntry : appendAuditRingLocked(e)
    BY WritesEntry
  <2> QED BY <2>1, <2>2, <2>3
<1> QED BY <1>1, <1>2, TypeCorrect, PTL DEF Spec, RingImplementsWindow, Window!Spec
=============================================================================
