------------------------------- MODULE Store -------------------------------
(***************************************************************************)
(* The in-memory resource store (internal/state/store.go).                 *)
(*                                                                         *)
(* One mutex guards everything, so every operation is one action.  An      *)
(* operation that returns an error changes nothing: its failure is the     *)
(* outcome operator, used by the callers that branch on it (Api.tla).      *)
(***************************************************************************)
EXTENDS Resource, Integers

CONSTANTS CallerPhases, \* phases clients put into the documents they create
          StatusWrites, \* the (phase, message) pairs status writers write
          AuditCap, \* capacity of the audit ring
          MaxIds,   \* bound: resources ever created
          MaxGen,   \* bound: generation of one resource
          MaxSeq    \* bound: audit entries ever written

ASSUME AuditCapAssumption == AuditCap \in Nat \ {0}

ASSUME CallerPhasesAssumption == CallerPhases \subseteq Phases \cup {""}

ASSUME StatusWritesAssumption == StatusWrites \subseteq Phases \X Messages

ASSUME BoundsAssumption == MaxIds \in Nat /\ MaxGen \in Nat \ {0} /\ MaxSeq \in Nat

VARIABLES
  byID,         \* map: id -> document
  byLogic,      \* map: logical key -> id
  nextId,       \* ids handed out so far (newID never repeats)
  audit,        \* the ring's backing slice
  auditWrite,   \* the slot the next write at capacity overwrites (0-based)
  auditEvicted, \* entries overwritten so far
  seq           \* entries written so far

mapVars == <<byID, byLogic, nextId>>
auditVars == <<audit, auditWrite, auditEvicted, seq>>
storeVars == <<byID, byLogic, nextId, audit, auditWrite, auditEvicted, seq>>

\* newID: 64 random bits, modelled as a number never handed out before, in
\* creation order (which is also the order listings sort by).
Ids == 1 .. MaxIds

Mutations == {"created", "updated", "deleted", "status_changed"}

\* AppendAudit's entries (webhook deliveries, drift_detected, drift_resolved)
\* stand for themselves only: one value for all of them.
Reports == {"report"}

AuditEntry == [action : Mutations \cup Reports, id : Ids, key : Keys, gen : 1 .. MaxGen]

EntryFor(action, id, r) == [action |-> action, id |-> id, key |-> r.key, gen |-> r.gen]

-----------------------------------------------------------------------------
(* The audit ring.                                                         *)

\* A variant that forgets the wrap-around.
appendAuditRingLocked_NoWrap(e) ==
  /\ seq < MaxSeq
  /\ seq' = seq + 1
  /\ IF Len(audit) < AuditCap
       THEN audit' = Append(audit, e) /\ UNCHANGED <<auditWrite, auditEvicted>>
       ELSE /\ audit' = [audit EXCEPT ![auditWrite + 1] = e]
            /\ auditWrite' = auditWrite + 1
            /\ auditEvicted' = auditEvicted + 1

\* appendAuditRingLocked: append below the capacity, then overwrite the
\* oldest slot and advance the write index with wrap-around.
appendAuditRingLocked(e) ==
  /\ seq < MaxSeq
  /\ seq' = seq + 1
  /\ IF Len(audit) < AuditCap
       THEN /\ audit' = Append(audit, e)
            /\ UNCHANGED <<auditWrite, auditEvicted>>
       ELSE /\ audit' = [audit EXCEPT ![auditWrite + 1] = e]
            /\ auditWrite' = IF auditWrite + 1 = AuditCap THEN 0 ELSE auditWrite + 1
            /\ auditEvicted' = auditEvicted + 1

\* A variant that starts one slot too late.
ListAudit_OffByOne ==
  LET n == Len(audit)
  IN [k \in 1 .. n |-> audit[((auditWrite - (k - 1) + n) % n) + 1]]

\* ListAudit without a filter: index (auditWrite-1-k+n) mod n, newest first.
ListAudit ==
  LET n == Len(audit)
  IN [k \in 1 .. n |-> audit[((auditWrite - 1 - (k - 1) + n) % n) + 1]]

-----------------------------------------------------------------------------
(* The operations.                                                         *)

Init ==
  /\ byID = <<>>
  /\ byLogic = <<>>
  /\ nextId = 0
  /\ audit = <<>>
  /\ auditWrite = 0
  /\ auditEvicted = 0
  /\ seq = 0

\* CreateResource's result for a document: which error, or "ok".
CreateOutcome(key, spec) ==
  IF ~Validate(spec) THEN "validation"
  ELSE IF key \in DOMAIN byLogic THEN "already_exists" ELSE "ok"

\* CreateResource, the successful path.
CreateResource(key, spec, labels, phase) ==
  /\ CreateOutcome(key, spec) = "ok"
  /\ nextId < MaxIds
  /\ nextId' = nextId + 1
  /\ byID' = MapPut(byID, nextId + 1, Created(key, spec, labels, phase))
  /\ byLogic' = MapPut(byLogic, key, nextId + 1)
  /\ appendAuditRingLocked(EntryFor("created", nextId + 1, Created(key, spec, labels, phase)))

\* UpdateResource's result: not found, CAS conflict (0 skips the check),
\* invalid after the edit, or "ok".
UpdateOutcome(id, expected, spec) ==
  IF id \notin DOMAIN byID THEN "not_found"
  ELSE IF expected # 0 /\ expected # byID[id].gen THEN "conflict"
  ELSE IF ~Validate(spec) THEN "validation" ELSE "ok"

\* The document UpdateResource stores.
UpdateResult(id, spec, labels) == Bumped(byID[id], Edited(byID[id], spec, labels))

\* A variant that audits the document it read, not the one it stored.
UpdateResource_AuditsOld(id, expected, spec, labels) ==
  LET new == UpdateResult(id, spec, labels)
  IN /\ UpdateOutcome(id, expected, spec) = "ok"
     /\ new.gen <= MaxGen
     /\ byID' = MapPut(byID, id, new)
     /\ UNCHANGED <<byLogic, nextId>>
     /\ IF specLabelsEqual(byID[id], new)
          THEN UNCHANGED auditVars
          ELSE appendAuditRingLocked(EntryFor("updated", id, byID[id]))

\* UpdateResource, the successful path: an audit entry only for a change.
UpdateResource(id, expected, spec, labels) ==
  LET new == UpdateResult(id, spec, labels)
  IN /\ UpdateOutcome(id, expected, spec) = "ok"
     /\ new.gen <= MaxGen
     /\ byID' = MapPut(byID, id, new)
     /\ UNCHANGED <<byLogic, nextId>>
     /\ IF specLabelsEqual(byID[id], new)
          THEN UNCHANGED auditVars
          ELSE appendAuditRingLocked(EntryFor("updated", id, new))

\* UpdateStatus on a live id: always audited.
UpdateStatus(id, phase, msg) ==
  /\ id \in DOMAIN byID
  /\ byID' = MapPut(byID, id, Stamped(byID[id], phase, msg))
  /\ UNCHANGED <<byLogic, nextId>>
  /\ appendAuditRingLocked(EntryFor("status_changed", id, byID[id]))

\* A variant that leaves the logical key behind.
DeleteResource_KeepsKey(id) ==
  /\ id \in DOMAIN byID
  /\ byID' = MapDelete(byID, id)
  /\ UNCHANGED <<byLogic, nextId>>
  /\ appendAuditRingLocked(EntryFor("deleted", id, byID[id]))

\* DeleteResource on a live id: both maps lose it, then the audit entry.
DeleteResource(id) ==
  /\ id \in DOMAIN byID
  /\ byID' = MapDelete(byID, id)
  /\ byLogic' = MapDelete(byLogic, byID[id].key)
  /\ UNCHANGED nextId
  /\ appendAuditRingLocked(EntryFor("deleted", id, byID[id]))

\* AppendAudit: a caller-built entry (webhook deliveries, drift reports); the
\* generation it carries is the caller's, not the stored one.
AppendAudit(e) ==
  /\ appendAuditRingLocked(e)
  /\ UNCHANGED mapVars

Next ==
  \/ \E key \in Keys, spec \in Specs, labels \in Labels, phase \in CallerPhases :
       CreateResource(key, spec, labels, phase)
  \/ \E id \in DOMAIN byID, expected \in 0 .. MaxGen, spec \in Specs,
       labels \in Labels \cup {NoLabels} : UpdateResource(id, expected, spec, labels)
  \/ \E id \in DOMAIN byID, w \in StatusWrites : UpdateStatus(id, w[1], w[2])
  \/ \E id \in DOMAIN byID : DeleteResource(id)
  \/ \E e \in AuditEntry : e.action \in Reports /\ AppendAudit(e)

Spec == Init /\ [][Next]_storeVars

-----------------------------------------------------------------------------
(* Properties.                                                             *)

\* Every variable has the type the struct declares; ids stay inside what
\* newID handed out and the ring inside its pre-allocated capacity.
TypeOK ==
  /\ nextId \in 0 .. MaxIds
  /\ DOMAIN byID \subseteq 1 .. nextId
  /\ \A id \in DOMAIN byID : byID[id] \in Resource /\ byID[id].gen \in 1 .. MaxGen
  /\ DOMAIN byLogic \subseteq Keys
  /\ \A key \in DOMAIN byLogic : byLogic[key] \in 1 .. nextId
  /\ audit \in Seq(AuditEntry)
  /\ Len(audit) <= AuditCap
  /\ auditWrite \in 0 .. AuditCap - 1
  /\ auditEvicted \in Nat
  /\ seq \in Nat

\* The two indexes of the store describe the same set of resources: byLogic
\* leads to a live document with that key, and every live document is found
\* under its key (CreateResource and DeleteResource maintain both maps).
IndexConsistent ==
  /\ \A key \in DOMAIN byLogic :
       byLogic[key] \in DOMAIN byID /\ byID[byLogic[key]].key = key
  /\ \A id \in DOMAIN byID :
       byID[id].key \in DOMAIN byLogic /\ byLogic[byID[id].key] = id

\* The positions of the mutation entries of id in a listing.
MutationsOf(list, id) ==
  {k \in 1 .. Len(list) : list[k].id = id /\ list[k].action \in Mutations}

\* "Everything is audited": the newest retained mutation entry of a resource
\* says whether it still exists and at which generation, so reading the
\* listing from the top tells the state of the store.
AuditTellsState ==
  LET list == ListAudit
  IN \A id \in 1 .. nextId : \A k \in MutationsOf(list, id) :
       (\A j \in MutationsOf(list, id) : k <= j) =>
          /\ id \in DOMAIN byID <=> list[k].action # "deleted"
          /\ id \in DOMAIN byID => list[k].gen = byID[id].gen

\* A generation names one content: it advances by one exactly when spec or
\* labels change, and a deleted id never comes back (UpdateResource and
\* UpdateStatus on one side, newID on the other).
GenerationTracksContent ==
  [][/\ \A id \in DOMAIN byID \cap DOMAIN byID' :
          byID'[id].gen = byID[id].gen + (IF specLabelsEqual(byID[id], byID'[id]) THEN 0 ELSE 1)
     /\ \A id \in DOMAIN byID' \ DOMAIN byID : id > nextId]_storeVars

\* The ring implements the retained window: what a listing shows evolves as
\* AuditWindow says, with the ring's write index and wrap-around hidden.
Window == INSTANCE AuditWindow
            WITH Entry <- AuditEntry, window <- ListAudit, evicted <- auditEvicted

RingImplementsWindow == Window!Spec
=============================================================================
