----------------------------- MODULE Reconciler -----------------------------
(***************************************************************************)
(* The reconciler (internal/reconcile): a scan loop and an API trigger     *)
(* feed a bounded queue, a pool of workers drains it, and a drift pass     *)
(* walks the converged resources on its own ticker.                        *)
(*                                                                         *)
(* Workers act on a snapshot taken when the trigger was popped; the drift  *)
(* pass acts on the page it listed.  Everything between two store or       *)
(* provider calls is one step, so user writes, out-of-band changes and the *)
(* other goroutines interleave wherever the code lets them.                *)
(*                                                                         *)
(* The audit trail and the bus only receive from the reconciler and are    *)
(* left out (Store.tla has the trail).  A crash keeps the store (pgstore)  *)
(* and the outside world and loses everything in memory; a shutdown, which *)
(* cancels the calls in flight and stamps nothing, leaves the same.        *)
(***************************************************************************)
EXTENDS Resource, Integers, FiniteSets, SequencesExt

CONSTANTS Actuated,    \* keys of kinds with a registered actuator
          FieldMapper, \* does that actuator map specs to fields (and detect drift)?
          FieldsOf,    \* FieldsOf[spec]: DesiredFields, or Unmappable
          Unmappable,
          Absent,      \* no external object
          CallerPhases,\* phases clients put into the documents they create
          Workers, Drift, \* the goroutines
          MaxAttempts, \* RetryPolicy.MaxAttempts
          QueueCap,    \* capacity of the triggers channel
          PageLimit,   \* scanPageLimit
          MaxIds, MaxGen, MaxFaults, MaxDrifts, MaxManual, MaxCrashes \* bounds

ASSUME ActuatedAssumption == Actuated \subseteq Keys /\ FieldMapper \in BOOLEAN

ASSUME GoroutinesAssumption == Drift \notin Workers

ASSUME RetryAssumption == MaxAttempts \in Nat \ {0}

ASSUME LimitsAssumption ==
  /\ QueueCap \in Nat \ {0} /\ PageLimit \in Nat \ {0}
  /\ MaxIds \in Nat /\ MaxGen \in Nat \ {0}
  /\ MaxFaults \in Nat /\ MaxDrifts \in Nat
  /\ MaxManual \in Nat /\ MaxCrashes \in Nat

VARIABLES
  byID, nextId, \* the store's documents
  world,        \* world[key]: the external object's fields
  queue,        \* the triggers channel
  actuating,    \* ids claimed for actuation
  attempts,     \* the retry book: id -> generation, count, inside backoff?
  proc,         \* proc[p]: where goroutine p is, and its locals
  walk,         \* the drift pass: rest of the listed page, next offset
  scanAt,       \* offset of the scan's next page
  faults, drifts, manual, crashes \* how often the environment struck

storeVars == <<byID, nextId>>
envVars == <<faults, drifts, manual, crashes>>
vars == <<byID, nextId, world, queue, actuating, attempts, proc, walk, scanAt,
          faults, drifts, manual, crashes>>

Ids == 1 .. MaxIds
Procs == Workers \cup {Drift}
Fields == {FieldsOf[s] : s \in ValidSpecs} \ {Unmappable}

\* provider.Class, as far as actuationFailed tells classes apart: Unavailable
\* and unclassified errors are handled like Transient.
Classes == {"Transient", "Permanent"}

Idle == [pc |-> "idle"]

Init ==
  /\ byID = <<>> /\ nextId = 0
  /\ world = [k \in Keys |-> Absent]
  /\ queue = <<>>
  /\ actuating = {}
  /\ attempts = <<>>
  /\ proc = [p \in Procs |-> Idle]
  /\ walk = [items |-> <<>>, next |-> 0]
  /\ scanAt = 0
  /\ faults = 0 /\ drifts = 0 /\ manual = 0 /\ crashes = 0

-----------------------------------------------------------------------------
(* Store, queue and retry book.                                            *)

\* UpdateStatus; on a deleted id it fails and callers only log that.
UpdateStatus(id, phase, msg) ==
  byID' = IF id \in DOMAIN byID
            THEN MapPut(byID, id, Stamped(byID[id], phase, msg)) ELSE byID

\* ListResources: a page in creation order from a clamped offset, and the
\* offset of the next one (0: exhausted).
ListResources(keys, offset) ==
  LET all == SetToSortSeq({id \in DOMAIN byID : byID[id].key \in keys}, <)
      from == IF offset > Len(all) THEN Len(all) ELSE offset
      end == IF from + PageLimit > Len(all) THEN Len(all) ELSE from + PageLimit
  IN [items |-> [i \in 1 .. end - from |-> [id |-> all[from + i], r |-> byID[all[from + i]]]],
      next |-> IF end < Len(all) THEN end ELSE 0]

\* A variant without the capacity check.
Send_Unbounded(q, id) == Append(q, id)

\* send: non-blocking, dropped when the channel is full.
Send(q, id) == IF Len(q) < QueueCap THEN Append(q, id) ELSE q

\* attemptBook.
begin(book, id, gen) ==
  IF id \in DOMAIN book /\ book[id].gen = gen THEN book
  ELSE MapPut(book, id, [gen |-> gen, n |-> 0, waiting |-> FALSE])

record(book, id, gen) == [begin(book, id, gen) EXCEPT ![id].n = @ + 1]

schedule(book, id, gen) == [begin(book, id, gen) EXCEPT ![id].waiting = TRUE]

due(id, gen) == ~(id \in DOMAIN attempts /\ attempts[id].gen = gen /\ attempts[id].waiting)

\* The backoff of id's episode runs out.
BackoffElapses(id) ==
  /\ id \in DOMAIN attempts
  /\ attempts[id].waiting
  /\ attempts' = [attempts EXCEPT ![id].waiting = FALSE]
  /\ UNCHANGED <<storeVars, world, queue, actuating, proc, walk, scanAt, envVars>>

-----------------------------------------------------------------------------
(* The scan loop.                                                          *)

Observed(r) == r.obs >= r.gen

\* Variants that forget the retries, and the second half of provisioning.
NeedsWork_NoRetry(id, r) == ~Observed(r) \/ r.phase \in {"Pending", "Provisioning"}
NeedsWork_NoProvisioning(id, r) ==
  ~Observed(r) \/ r.phase = "Pending"
  \/ (r.phase = "Degraded" /\ r.key \in Actuated /\ due(id, r.gen))

\* scan's condition for queueing a resource.
NeedsWork(id, r) ==
  \/ ~Observed(r)
  \/ r.phase \in {"Pending", "Provisioning"}
  \/ r.phase = "Degraded" /\ r.key \in Actuated /\ due(id, r.gen)

\* One page of scan: list it, queue what needs work, remember the cursor.
ScanPage ==
  LET page == ListResources(Keys, scanAt)
      want == SelectSeq(page.items, LAMBDA it : NeedsWork(it.id, it.r))
  IN /\ queue' = FoldLeft(LAMBDA q, it : Send(q, it.id), queue, want)
     /\ scanAt' = page.next
     /\ UNCHANGED <<storeVars, world, actuating, attempts, proc, walk, envVars>>

-----------------------------------------------------------------------------
(* The workers.                                                            *)

Goto(p, next) == proc' = [proc EXCEPT ![p] = next]

\* worker and the head of reconcileOne: pop a trigger, read the resource.
Take(w) ==
  /\ proc[w] = Idle
  /\ queue # <<>>
  /\ queue' = Tail(queue)
  /\ LET id == Head(queue)
     IN IF id \in DOMAIN byID
          THEN Goto(w, [pc |-> "got", id |-> id, r |-> byID[id]])
          ELSE UNCHANGED proc
  /\ UNCHANGED <<storeVars, world, actuating, attempts, walk, scanAt, envVars>>

\* The status-only flow of reconcileOne: no claim, one status write.
StatusOnly(w) ==
  LET r == proc[w].r
      settled == Observed(r) /\ r.phase \notin {"Pending", "Provisioning"}
  IN /\ proc[w].pc = "got" /\ r.key \notin Actuated
     /\ IF settled THEN UNCHANGED byID
        ELSE UpdateStatus(proc[w].id, IF r.phase = "Pending" THEN "Provisioning" ELSE "Ready", "plain")
     /\ Goto(w, Idle)
     /\ UNCHANGED <<nextId, world, queue, actuating, attempts, walk, scanAt, envVars>>

\* The guards of reconcileActuated, on the snapshot.
Skips(id, r) ==
  \/ r.phase \in {"Failed", "Ready"} /\ Observed(r)
  \/ r.phase = "Degraded" /\ ~due(id, r.gen)

\* reconcileActuated up to begin: the claim, and the guards under it (a guard
\* that returns releases the claim again).
Claim(w) ==
  LET id == proc[w].id
      r == proc[w].r
  IN /\ proc[w].pc = "got" /\ r.key \in Actuated
     /\ IF id \in actuating \/ Skips(id, r)
          THEN Goto(w, Idle) /\ UNCHANGED <<actuating, attempts>>
          ELSE /\ actuating' = actuating \cup {id}
               /\ attempts' = begin(attempts, id, r.gen)
               /\ Goto(w, [pc |-> IF r.phase = "Pending" THEN "provision" ELSE "inspect",
                           id |-> id, r |-> r])
     /\ UNCHANGED <<storeVars, world, queue, walk, scanAt, envVars>>

\* Pending resources are stamped Provisioning first; a deleted one ends here.
Provision(w) ==
  LET id == proc[w].id
  IN /\ proc[w].pc = "provision"
     /\ UpdateStatus(id, "Provisioning", "plain")
     /\ IF id \in DOMAIN byID
          THEN /\ Goto(w, [pc |-> "inspect", id |-> id,
                           r |-> [proc[w].r EXCEPT !.phase = "Provisioning"]])
               /\ UNCHANGED actuating
          ELSE Goto(w, Idle) /\ actuating' = actuating \ {id}
     /\ UNCHANGED <<nextId, world, queue, attempts, walk, scanAt, envVars>>

-----------------------------------------------------------------------------
(* Actuation, shared by the workers and the drift pass.                    *)

Faulty == faults < MaxFaults /\ faults' = faults + 1 /\ UNCHANGED <<drifts, manual, crashes>>

\* A variant that takes the budget for spent one attempt late.
Fail_OffByOne(p, class) ==
  LET id == proc[p].id
      gen == proc[p].r.gen
      book == record(attempts, id, gen)
      over == class = "Permanent" \/ book[id].n > MaxAttempts
  IN /\ attempts' = IF over THEN book ELSE schedule(book, id, gen)
     /\ Goto(p, [pc |-> "stamp", id |-> id, r |-> proc[p].r,
                 phase |-> IF over THEN "Failed" ELSE "Degraded"])

\* actuationFailed up to its status write: count the attempt, and decide
\* between Degraded with a backoff and Failed.
Fail(p, class) ==
  LET id == proc[p].id
      gen == proc[p].r.gen
      book == record(attempts, id, gen)
      over == class = "Permanent" \/ book[id].n >= MaxAttempts
  IN /\ attempts' = IF over THEN book ELSE schedule(book, id, gen)
     /\ Goto(p, [pc |-> "stamp", id |-> id, r |-> proc[p].r,
                 phase |-> IF over THEN "Failed" ELSE "Degraded"])

\* The worker's Inspect.
Inspect(w) ==
  /\ proc[w].pc = "inspect"
  /\ \/ /\ Goto(w, [pc |-> "apply", id |-> proc[w].id, r |-> proc[w].r,
                    obs |-> world[proc[w].r.key]])
        /\ UNCHANGED <<attempts, envVars>>
     \/ Faulty /\ \E class \in Classes : Fail(w, class)
  /\ UNCHANGED <<storeVars, world, queue, actuating, walk, scanAt>>

\* A variant that trusts the observed generation although fields can be compared.
PlanFor_TrustsGeneration(r, obs) ==
  IF obs # Absent /\ Observed(r) THEN "noop"
  ELSE IF FieldsOf[r.spec] = Unmappable THEN "error" ELSE "apply"

\* planFor: what the actuator will do about a snapshot and an observation.
PlanFor(r, obs) ==
  IF obs # Absent /\ ~FieldMapper /\ Observed(r) THEN "noop"
  ELSE IF FieldsOf[r.spec] = Unmappable THEN "error"
  ELSE IF FieldMapper /\ obs = FieldsOf[r.spec] THEN "noop" ELSE "apply"

\* runActuation: Plan is pure; Apply succeeds, or fails having done nothing,
\* removed the old object (recreate) or finished after all.
Apply(p) ==
  LET r == proc[p].r
      plan == PlanFor(r, proc[p].obs)
      settle == Goto(p, [pc |-> "stamp", id |-> proc[p].id, r |-> r, phase |-> "Ready"])
  IN /\ proc[p].pc = "apply"
     /\ \/ plan = "error" /\ Fail(p, "Permanent") /\ UNCHANGED <<world, envVars>>
        \/ plan = "noop" /\ settle /\ UNCHANGED <<attempts, world, envVars>>
        \/ /\ plan = "apply"
           /\ settle
           /\ world' = [world EXCEPT ![r.key] = FieldsOf[r.spec]]
           /\ UNCHANGED <<attempts, envVars>>
        \/ /\ plan = "apply"
           /\ Faulty
           /\ \E class \in Classes : Fail(p, class)
           /\ \E left \in {world[r.key], Absent, FieldsOf[r.spec]} :
                world' = [world EXCEPT ![r.key] = left]
     /\ UNCHANGED <<storeVars, queue, actuating, walk, scanAt>>

\* The status write of actuationSettled and actuationFailed, the clear of a
\* finished episode, and the deferred release.
Stamp(p) ==
  LET id == proc[p].id
  IN /\ proc[p].pc = "stamp"
     /\ UpdateStatus(id, proc[p].phase, "plain")
     /\ attempts' = IF proc[p].phase = "Degraded" THEN attempts ELSE MapDelete(attempts, id)
     /\ actuating' = actuating \ {id}
     /\ Goto(p, Idle)
     /\ UNCHANGED <<nextId, world, queue, walk, scanAt, envVars>>

-----------------------------------------------------------------------------
(* The drift pass.                                                         *)

\* driftKind: list the next page of the actuated kind.
DriftPage ==
  /\ FieldMapper
  /\ proc[Drift] = Idle /\ walk.items = <<>>
  /\ walk' = ListResources(Actuated, walk.next)
  /\ UNCHANGED <<storeVars, world, queue, actuating, attempts, proc, scanAt, envVars>>

\* A variant that does not look whether the resource is claimed.
DriftItem_NoTryClaim ==
  LET it == Head(walk.items)
  IN /\ proc[Drift] = Idle /\ walk.items # <<>>
     /\ walk' = [walk EXCEPT !.items = Tail(@)]
     /\ IF it.r.phase = "Ready" /\ Observed(it.r)
          THEN /\ actuating' = actuating \cup {it.id}
               /\ Goto(Drift, [pc |-> "check", id |-> it.id, r |-> it.r])
          ELSE UNCHANGED <<actuating, proc>>
     /\ UNCHANGED <<storeVars, world, queue, attempts, scanAt, envVars>>

\* One listed resource: only converged ones, and only when unclaimed.
DriftItem ==
  LET it == Head(walk.items)
  IN /\ proc[Drift] = Idle /\ walk.items # <<>>
     /\ walk' = [walk EXCEPT !.items = Tail(@)]
     /\ IF it.r.phase = "Ready" /\ Observed(it.r) /\ it.id \notin actuating
          THEN /\ actuating' = actuating \cup {it.id}
               /\ Goto(Drift, [pc |-> "check", id |-> it.id, r |-> it.r])
          ELSE UNCHANGED <<actuating, proc>>
     /\ UNCHANGED <<storeVars, world, queue, attempts, scanAt, envVars>>

Release(p) == Goto(p, Idle) /\ actuating' = actuating \ {proc[p].id}

\* checkDrift: an Inspect error is advisory, an unmappable spec is handed to
\* the workers, a match clears a stale annotation, a difference is reported.
CheckDrift ==
  LET d == proc[Drift]
      want == FieldsOf[d.r.spec]
      obs == world[d.r.key]
  IN /\ d.pc = "check"
     /\ \/ Faulty /\ Release(Drift) /\ UNCHANGED queue
        \/ /\ UNCHANGED envVars
           /\ \/ /\ want = Unmappable
                 /\ queue' = Send(queue, d.id) /\ Release(Drift)
              \/ /\ want # Unmappable /\ obs = want /\ d.r.msg # "Drifted"
                 /\ Release(Drift) /\ UNCHANGED queue
              \/ /\ want # Unmappable /\ obs = want /\ d.r.msg = "Drifted"
                 /\ Goto(Drift, [pc |-> "clear", id |-> d.id, r |-> d.r])
                 /\ UNCHANGED <<queue, actuating>>
              \/ /\ want # Unmappable /\ obs # want
                 /\ Goto(Drift, [pc |-> "report", id |-> d.id, r |-> d.r, obs |-> obs])
                 /\ UNCHANGED <<queue, actuating>>
     /\ UNCHANGED <<storeVars, world, attempts, walk, scanAt>>

\* clearDriftAnnotation.
ClearDrift ==
  /\ proc[Drift].pc = "clear"
  /\ UpdateStatus(proc[Drift].id, "Ready", "plain")
  /\ Release(Drift)
  /\ UNCHANGED <<nextId, world, queue, attempts, walk, scanAt, envVars>>

\* reportDrift: annotate, open an episode, go on to runActuation.
ReportDrift ==
  LET d == proc[Drift]
  IN /\ d.pc = "report"
     /\ UpdateStatus(d.id, "Ready", "Drifted")
     /\ attempts' = begin(attempts, d.id, d.r.gen)
     /\ Goto(Drift, [pc |-> "apply", id |-> d.id, r |-> d.r, obs |-> d.obs])
     /\ UNCHANGED <<nextId, world, queue, actuating, walk, scanAt, envVars>>

-----------------------------------------------------------------------------
(* Users, the outside world, and the process itself.                       *)

UserCreate(key, spec, labels, phase) ==
  /\ nextId < MaxIds
  /\ \A id \in DOMAIN byID : byID[id].key # key
  /\ Validate(spec)
  /\ nextId' = nextId + 1
  /\ byID' = MapPut(byID, nextId + 1, Created(key, spec, labels, phase))
  /\ UNCHANGED <<world, queue, actuating, attempts, proc, walk, scanAt, envVars>>

UserUpdate(id, spec, labels) ==
  /\ id \in DOMAIN byID
  /\ Validate(spec)
  /\ LET new == Bumped(byID[id], Edited(byID[id], spec, labels))
     IN new.gen <= MaxGen /\ byID' = MapPut(byID, id, new)
  /\ UNCHANGED <<nextId, world, queue, actuating, attempts, proc, walk, scanAt, envVars>>

UserDelete(id) ==
  /\ id \in DOMAIN byID
  /\ byID' = MapDelete(byID, id)
  /\ UNCHANGED <<nextId, world, queue, actuating, attempts, proc, walk, scanAt, envVars>>

\* Trigger, from handleReconcile.
Trigger(id) ==
  /\ id \in DOMAIN byID
  /\ manual < MaxManual
  /\ manual' = manual + 1
  /\ queue' = Send(queue, id)
  /\ UNCHANGED <<storeVars, world, actuating, attempts, proc, walk, scanAt, faults, drifts, crashes>>

\* Someone changes or removes the external object behind the reconciler's back.
OutOfBand(key, left) ==
  /\ drifts < MaxDrifts
  /\ drifts' = drifts + 1
  /\ world' = [world EXCEPT ![key] = left]
  /\ UNCHANGED <<storeVars, queue, actuating, attempts, proc, walk, scanAt, faults, manual, crashes>>

Crash ==
  /\ crashes < MaxCrashes
  /\ crashes' = crashes + 1
  /\ queue' = <<>> /\ actuating' = {} /\ attempts' = <<>>
  /\ proc' = [p \in Procs |-> Idle]
  /\ walk' = [items |-> <<>>, next |-> 0]
  /\ scanAt' = 0
  /\ UNCHANGED <<storeVars, world, faults, drifts, manual>>

-----------------------------------------------------------------------------

Worker(w) == Take(w) \/ StatusOnly(w) \/ Claim(w) \/ Provision(w) \/ Inspect(w)
             \/ Apply(w) \/ Stamp(w)

DriftLoop == DriftPage \/ DriftItem \/ CheckDrift \/ ClearDrift \/ ReportDrift
             \/ Apply(Drift) \/ Stamp(Drift)

Environment ==
  \/ \E key \in Keys, spec \in Specs, labels \in Labels, phase \in CallerPhases :
       UserCreate(key, spec, labels, phase)
  \/ \E id \in DOMAIN byID, spec \in Specs, labels \in Labels \cup {NoLabels} :
       UserUpdate(id, spec, labels)
  \/ \E id \in DOMAIN byID : UserDelete(id) \/ Trigger(id)
  \/ \E key \in Actuated, left \in Fields \cup {Absent} : OutOfBand(key, left)
  \/ Crash

Next ==
  \/ \E w \in Workers : Worker(w)
  \/ DriftLoop
  \/ ScanPage
  \/ \E id \in DOMAIN attempts : BackoffElapses(id)
  \/ Environment

Spec == Init /\ [][Next]_vars

\* The tickers tick, goroutines run and clocks advance; users, the outside
\* world and faults owe nothing.
FairSpec ==
  /\ Spec
  /\ \A w \in Workers : WF_vars(Worker(w))
  /\ WF_vars(DriftLoop)
  /\ WF_vars(ScanPage)
  /\ \A id \in Ids : WF_vars(BackoffElapses(id))

-----------------------------------------------------------------------------
(* Properties.                                                             *)

\* The pcs at which a goroutine holds a claim.
Holding(p) == proc[p].pc \in {"provision", "inspect", "apply", "stamp", "check", "clear", "report"}

\* Every variable has its type: queued and claimed ids were handed out, the
\* queue respects its capacity, and no count passes the retry budget.
TypeOK ==
  /\ nextId \in 0 .. MaxIds
  /\ DOMAIN byID \subseteq 1 .. nextId
  /\ \A id \in DOMAIN byID : byID[id] \in Resource
  /\ world \in [Keys -> Fields \cup {Absent}]
  /\ queue \in Seq(1 .. nextId) /\ Len(queue) <= QueueCap
  /\ actuating \subseteq 1 .. nextId
  /\ DOMAIN attempts \subseteq 1 .. nextId
  /\ \A id \in DOMAIN attempts :
       attempts[id] \in [gen : 1 .. MaxGen, n : 0 .. MaxAttempts, waiting : BOOLEAN]
  /\ \A p \in Procs : proc[p] # Idle => proc[p].id \in 1 .. nextId /\ proc[p].r \in Resource
  /\ \A i \in DOMAIN walk.items : walk.items[i].id \in 1 .. nextId

\* The single-actor guarantee of tryClaim: no two goroutines, of the worker
\* pool and the drift pass together, are inside one resource's actuation, and
\* every claim has a holder that will release it.
SingleFlight ==
  /\ \A p, q \in Procs : Holding(p) /\ Holding(q) /\ proc[p].id = proc[q].id => p = q
  /\ actuating = {proc[p].id : p \in {q \in Procs : Holding(q)}}

\* The retry book holds open episodes only: outside an actuation, the entry of
\* a live resource has part of its budget spent and part left.  An episode is
\* never left behind exhausted, or without the attempt that opened it, so the
\* next claim always has at least one attempt to make.
OpenEpisodes ==
  \A id \in (DOMAIN attempts \cap DOMAIN byID) \ actuating :
    attempts[id].n \in 1 .. MaxAttempts - 1

\* Goroutine p writes its outcome in this step (and is not cut off).
Stamps(p) == proc[p].pc = "stamp" /\ proc'[p] = Idle /\ crashes' = crashes

\* Ready is written only when the external object carries the fields of the
\* spec that was actuated: retries re-run the plan until it has succeeded, and
\* the claim keeps the other goroutines away from the object until the status
\* is written.  (Of an object nobody changed out of band, and which no
\* resource before this one owned: the claim is on the id, and a deleted and
\* re-created resource has another.)
ReadyMeansApplied ==
  [][\A p \in Procs : Stamps(p) /\ proc[p].phase = "Ready" /\ drifts = 0 /\ nextId = 1
       => world[proc[p].r.key] = FieldsOf[proc[p].r.spec]]_vars

\* A fresh generation gets its own attempts: what an actuation marks Failed is
\* the generation it attempted, never one that arrived meanwhile.
FailedWasAttempted ==
  [][\A p \in Procs : Stamps(p) /\ proc[p].phase = "Failed" /\ proc[p].id \in DOMAIN byID
       => byID[proc[p].id].gen = proc[p].r.gen]_vars

\* A live resource is where the reconciler is done with it: given up on for
\* its generation, or Ready with nothing left to observe, correct or clear.
Converged(id) ==
  LET r == byID[id]
  IN \/ r.phase = "Failed" /\ Observed(r)
     \/ /\ r.phase = "Ready" /\ Observed(r)
        /\ r.key \in Actuated => r.msg = "plain" /\ world[r.key] = FieldsOf[r.spec]

\* Once users (their manual triggers included, which can keep the queue
\* full), faults and out-of-band changes stop, everything converges and
\* stays converged: whatever was dropped from a full queue, skipped because
\* of a claim, stamped from a stale snapshot or lost in a crash is picked up
\* by a later scan or drift pass.
Convergence == <>[](\A id \in DOMAIN byID : Converged(id))
=============================================================================
