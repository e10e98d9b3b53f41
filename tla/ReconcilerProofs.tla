-------------------------- MODULE ReconcilerProofs --------------------------
(***************************************************************************)
(* The single-actor guarantee of the reconciler, for any number of         *)
(* workers, keys, ids, attempts, crashes and faults, any queue and any     *)
(* page limit.                                                             *)
(*                                                                         *)
(* SingleFlight is inductive once it is known that proc stays a function   *)
(* on the goroutines.  Every step is of one of four shapes, each with a    *)
(* lemma: nobody moves; a goroutine moves outside an actuation; it takes a *)
(* free claim; it goes on under its claim or gives it back.                *)
(***************************************************************************)
EXTENDS Reconciler, TLAPS

HoldingPcs == {"provision", "inspect", "apply", "stamp", "check", "clear", "report"}

\* The goroutines inside an actuation.
Holders == {p \in Procs : Holding(p)}

IInv == proc = [p \in Procs |-> proc[p]] /\ SingleFlight

\* Goto moves p and leaves the other goroutines where they are.
LEMMA Moved ==
  ASSUME proc = [p \in Procs |-> proc[p]], NEW p \in Procs, NEW next, Goto(p, next)
  PROVE  /\ proc' = [q \in Procs |-> proc'[q]]
         /\ proc'[p] = next
         /\ \A q \in Procs \ {p} : proc'[q] = proc[q]
  <1>1. proc' = [q \in Procs |-> IF q = p THEN next ELSE proc[q]]
    BY DEF Goto
  <1>2. QED
    BY <1>1

\* A step of goroutine p that holds no claim before or after it.
LEMMA MovesOutside ==
  ASSUME IInv, NEW p \in Procs, ~Holding(p), NEW next, next.pc \notin HoldingPcs,
         Goto(p, next), UNCHANGED actuating
  PROVE  IInv'
  <1>1. /\ proc' = [q \in Procs |-> proc'[q]]
        /\ proc'[p] = next
        /\ \A q \in Procs \ {p} : proc'[q] = proc[q]
    BY Moved DEF IInv
  <1>2. Holders' = Holders
    BY <1>1 DEF Holders, Holding, HoldingPcs, Idle
  <1>3. \A q, r \in Holders' : proc'[q].id = proc'[r].id => q = r
    BY <1>1, <1>2 DEF IInv, SingleFlight, Holders
  <1>4. actuating' = {proc'[q].id : q \in Holders'}
    BY <1>1, <1>2 DEF IInv, SingleFlight, Holders
  <1>5. QED
    BY <1>1, <1>3, <1>4 DEF IInv, SingleFlight, Holders

\* tryClaim: the id is free, and p becomes its holder.
LEMMA TakesClaim ==
  ASSUME IInv, NEW p \in Procs, ~Holding(p), NEW next, next.pc \in HoldingPcs,
         next.id \notin actuating, Goto(p, next), actuating' = actuating \cup {next.id}
  PROVE  IInv'
  <1>1. /\ proc' = [q \in Procs |-> proc'[q]]
        /\ proc'[p] = next
        /\ \A q \in Procs \ {p} : proc'[q] = proc[q]
    BY Moved DEF IInv
  <1>2. Holders' = Holders \cup {p}
    BY <1>1 DEF Holders, Holding, HoldingPcs, Idle
  <1>3. \A q, r \in Holders' : proc'[q].id = proc'[r].id => q = r
    BY <1>1, <1>2 DEF IInv, SingleFlight, Holders
  <1>4. actuating' = {proc'[q].id : q \in Holders'}
    BY <1>1, <1>2 DEF IInv, SingleFlight, Holders
  <1>5. QED
    BY <1>1, <1>3, <1>4 DEF IInv, SingleFlight, Holders

\* A step of the holder p under its claim.
LEMMA KeepsClaim ==
  ASSUME IInv, NEW p \in Procs, Holding(p), NEW next, next.pc \in HoldingPcs,
         next.id = proc[p].id, Goto(p, next), UNCHANGED actuating
  PROVE  IInv'
  <1>1. /\ proc' = [q \in Procs |-> proc'[q]]
        /\ proc'[p] = next
        /\ \A q \in Procs \ {p} : proc'[q] = proc[q]
    BY Moved DEF IInv
  <1>2. Holders' = Holders
    BY <1>1 DEF Holders, Holding, HoldingPcs, Idle
  <1>3. \A q, r \in Holders' : proc'[q].id = proc'[r].id => q = r
    BY <1>1, <1>2 DEF IInv, SingleFlight, Holders
  <1>4. actuating' = {proc'[q].id : q \in Holders'}
    BY <1>1, <1>2 DEF IInv, SingleFlight, Holders
  <1>5. QED
    BY <1>1, <1>3, <1>4 DEF IInv, SingleFlight, Holders

\* release: since p is the only holder of its id, no claim loses its holder.
LEMMA GivesBack ==
  ASSUME IInv, NEW p \in Procs, Holding(p), Goto(p, Idle),
         actuating' = actuating \ {proc[p].id}
  PROVE  IInv'
  <1>1. /\ proc' = [q \in Procs |-> proc'[q]]
        /\ proc'[p] = Idle
        /\ \A q \in Procs \ {p} : proc'[q] = proc[q]
    BY Moved DEF IInv
  <1>2. Holders' = Holders \ {p}
    BY <1>1 DEF Holders, Holding, HoldingPcs, Idle
  <1>3. \A q, r \in Holders' : proc'[q].id = proc'[r].id => q = r
    BY <1>1, <1>2 DEF IInv, SingleFlight, Holders
  <1>4. actuating' = {proc'[q].id : q \in Holders'}
    BY <1>1, <1>2 DEF IInv, SingleFlight, Holders
  <1>5. QED
    BY <1>1, <1>3, <1>4 DEF IInv, SingleFlight, Holders

LEMMA NobodyMoves ==
  ASSUME IInv, UNCHANGED <<proc, actuating>>
  PROVE  IInv'
  BY DEF IInv, SingleFlight, Holding

LEMMA FailKeepsClaim ==
  ASSUME IInv, NEW p \in Procs, Holding(p), NEW class, Fail(p, class), UNCHANGED actuating
  PROVE  IInv'
  <1> DEFINE next == [pc |-> "stamp", id |-> proc[p].id, r |-> proc[p].r,
                      phase |-> IF class = "Permanent"
                                   \/ record(attempts, proc[p].id, proc[p].r.gen)[proc[p].id].n >= MaxAttempts
                                  THEN "Failed" ELSE "Degraded"]
  <1>1. Goto(p, next)
    BY DEF Fail
  <1>2. next.pc \in HoldingPcs /\ next.id = proc[p].id
    BY DEF HoldingPcs
  <1> HIDE DEF next
  <1>3. QED
    BY <1>1, <1>2, KeepsClaim

LEMMA InductiveStep == IInv /\ [Next]_vars => IInv'
  <1> SUFFICES ASSUME IInv, [Next]_vars PROVE IInv'
    OBVIOUS
  <1> USE DEF Procs
  <1>1. ASSUME NEW w \in Workers, Take(w) PROVE IInv'
    <2> DEFINE next == [pc |-> "got", id |-> Head(queue), r |-> byID[Head(queue)]]
    <2>1. ~Holding(w) /\ next.pc \notin HoldingPcs
      BY <1>1 DEF Take, Idle, Holding, HoldingPcs
    <2>2. UNCHANGED actuating /\ (Goto(w, next) \/ UNCHANGED proc)
      BY <1>1 DEF Take
    <2> HIDE DEF next
    <2>3. QED
      BY <2>1, <2>2, MovesOutside, NobodyMoves
  <1>2. ASSUME NEW w \in Workers, StatusOnly(w) PROVE IInv'
    <2>1. ~Holding(w) /\ Idle.pc \notin HoldingPcs /\ Goto(w, Idle) /\ UNCHANGED actuating
      BY <1>2 DEF StatusOnly, Idle, Holding, HoldingPcs
    <2>2. QED
      BY <2>1, MovesOutside
  <1>3. ASSUME NEW w \in Workers, Claim(w) PROVE IInv'
    <2> DEFINE next == [pc |-> IF proc[w].r.phase = "Pending" THEN "provision" ELSE "inspect",
                        id |-> proc[w].id, r |-> proc[w].r]
    <2>1. ~Holding(w) /\ Idle.pc \notin HoldingPcs
      BY <1>3 DEF Claim, Idle, Holding, HoldingPcs
    <2>2. next.pc \in HoldingPcs /\ next.id = proc[w].id
      BY DEF HoldingPcs
    <2>3. \/ Goto(w, Idle) /\ UNCHANGED actuating
          \/ proc[w].id \notin actuating /\ Goto(w, next) /\ actuating' = actuating \cup {proc[w].id}
      BY <1>3 DEF Claim
    <2> HIDE DEF next
    <2>4. CASE Goto(w, Idle) /\ UNCHANGED actuating
      BY <2>1, <2>4, MovesOutside
    <2>5. CASE proc[w].id \notin actuating /\ Goto(w, next) /\ actuating' = actuating \cup {proc[w].id}
      BY <2>1, <2>2, <2>5, TakesClaim
    <2>6. QED
      BY <2>3, <2>4, <2>5
  <1>4. ASSUME NEW w \in Workers, Provision(w) PROVE IInv'
    <2> DEFINE next == [pc |-> "inspect", id |-> proc[w].id,
                        r |-> [proc[w].r EXCEPT !.phase = "Provisioning"]]
    <2>1. Holding(w) /\ next.pc \in HoldingPcs /\ next.id = proc[w].id
      BY <1>4 DEF Provision, Holding, HoldingPcs
    <2>2. \/ Goto(w, next) /\ UNCHANGED actuating
          \/ Goto(w, Idle) /\ actuating' = actuating \ {proc[w].id}
      BY <1>4 DEF Provision
    <2> HIDE DEF next
    <2>3. QED
      BY <2>1, <2>2, KeepsClaim, GivesBack
  <1>5. ASSUME NEW w \in Workers, Inspect(w) PROVE IInv'
    <2> DEFINE next == [pc |-> "apply", id |-> proc[w].id, r |-> proc[w].r,
                        obs |-> world[proc[w].r.key]]
    <2>1. Holding(w) /\ next.pc \in HoldingPcs /\ next.id = proc[w].id
      BY <1>5 DEF Inspect, Holding, HoldingPcs
    <2>2. UNCHANGED actuating /\ (Goto(w, next) \/ \E class \in Classes : Fail(w, class))
      BY <1>5 DEF Inspect
    <2> HIDE DEF next
    <2>3. QED
      BY <2>1, <2>2, KeepsClaim, FailKeepsClaim
  <1>6. ASSUME NEW p \in Procs, Apply(p) PROVE IInv'
    <2> DEFINE next == [pc |-> "stamp", id |-> proc[p].id, r |-> proc[p].r, phase |-> "Ready"]
    <2>1. Holding(p) /\ next.pc \in HoldingPcs /\ next.id = proc[p].id
      BY <1>6 DEF Apply, Holding, HoldingPcs
    <2>2. UNCHANGED actuating /\ (Goto(p, next) \/ \E class \in Classes : Fail(p, class))
      BY <1>6 DEF Apply, Classes
    <2> HIDE DEF next
    <2>3. QED
      BY <2>1, <2>2, KeepsClaim, FailKeepsClaim
  <1>7. ASSUME NEW p \in Procs, Stamp(p) PROVE IInv'
    <2>1. Holding(p) /\ Goto(p, Idle) /\ actuating' = actuating \ {proc[p].id}
      BY <1>7 DEF Stamp, Holding
    <2>2. QED
      BY <2>1, GivesBack
  <1>8. CASE DriftItem
    <2> DEFINE next == [pc |-> "check", id |-> Head(walk.items).id, r |-> Head(walk.items).r]
    <2>1. ~Holding(Drift) /\ next.pc \in HoldingPcs /\ next.id = Head(walk.items).id
      BY <1>8 DEF DriftItem, Idle, Holding, HoldingPcs
    <2>2. \/ UNCHANGED <<proc, actuating>>
          \/ /\ Head(walk.items).id \notin actuating /\ Goto(Drift, next)
             /\ actuating' = actuating \cup {Head(walk.items).id}
      BY <1>8 DEF DriftItem
    <2> HIDE DEF next
    <2>3. QED
      BY <2>1, <2>2, TakesClaim, NobodyMoves
  <1>9. CASE CheckDrift
    <2> DEFINE clear == [pc |-> "clear", id |-> proc[Drift].id, r |-> proc[Drift].r]
               report == [pc |-> "report", id |-> proc[Drift].id, r |-> proc[Drift].r,
                          obs |-> world[proc[Drift].r.key]]
    <2>1. /\ Holding(Drift)
          /\ clear.pc \in HoldingPcs /\ clear.id = proc[Drift].id
          /\ report.pc \in HoldingPcs /\ report.id = proc[Drift].id
      BY <1>9 DEF CheckDrift, Holding, HoldingPcs
    <2>2. \/ Release(Drift)
          \/ UNCHANGED actuating /\ (Goto(Drift, clear) \/ Goto(Drift, report))
      BY <1>9 DEF CheckDrift
    <2> HIDE DEF clear, report
    <2>3. QED
      BY <2>1, <2>2, KeepsClaim, GivesBack DEF Release
  <1>10. CASE ClearDrift
    BY <1>10, GivesBack DEF ClearDrift, Release, Holding
  <1>11. CASE ReportDrift
    <2> DEFINE next == [pc |-> "apply", id |-> proc[Drift].id, r |-> proc[Drift].r,
                        obs |-> proc[Drift].obs]
    <2>1. Holding(Drift) /\ next.pc \in HoldingPcs /\ next.id = proc[Drift].id
      BY <1>11 DEF ReportDrift, Holding, HoldingPcs
    <2>2. UNCHANGED actuating /\ Goto(Drift, next)
      BY <1>11 DEF ReportDrift
    <2> HIDE DEF next
    <2>3. QED
      BY <2>1, <2>2, KeepsClaim
  <1>12. CASE Crash
    <2>1. proc' = [p \in Procs |-> Idle] /\ actuating' = {}
      BY <1>12 DEF Crash
    <2>2. \A p \in Procs : proc'[p].pc = "idle"
      BY <2>1 DEF Idle
    <2>3. QED
      BY <2>1, <2>2 DEF IInv, SingleFlight, Holding
  <1>13. CASE UNCHANGED <<proc, actuating>>
    BY <1>13, NobodyMoves
  <1>14. ASSUME DriftPage \/ ScanPage \/ (\E id \in DOMAIN attempts : BackoffElapses(id))
                \/ (Environment /\ ~Crash) \/ UNCHANGED vars
         PROVE  UNCHANGED <<proc, actuating>>
    BY <1>14 DEF DriftPage, ScanPage, BackoffElapses, Environment, UserCreate, UserUpdate,
                 UserDelete, Trigger, OutOfBand, vars
  <1>15. QED
    BY <1>1, <1>2, <1>3, <1>4, <1>5, <1>6, <1>7, <1>8, <1>9, <1>10, <1>11, <1>12, <1>13, <1>14
       DEF Next, Worker, DriftLoop, Environment

\* The single-actor guarantee of tryClaim and release: at most one goroutine
\* actuates a resource at a time, and every claim has its holder.
THEOREM SingleActor == Spec => []SingleFlight
  <1>1. Init => IInv
    BY DEF Init, IInv, SingleFlight, Holding, Idle, Procs
  <1>2. IInv => SingleFlight
    BY DEF IInv
  <1>3. QED
    BY <1>1, <1>2, InductiveStep, PTL DEF Spec
=============================================================================
