------------------------------- MODULE Docker -------------------------------
(***************************************************************************)
(* The Docker actuator (internal/provider/docker) driving one Application, *)
(* with the field mapping of the provider SPI (internal/provider).         *)
(*                                                                         *)
(* Reconciler.tla takes an actuation for one step.  Here it is what it is: *)
(* a series of Engine calls, each of which can be refused, or be carried   *)
(* out and its answer lost, or be given up (the client's timeout) and      *)
(* carried out during a later pass, with the daemon dying and other users  *)
(* of the Engine stopping, removing and replacing the container in         *)
(* between.  The reconciler appears as the passes it makes, one at a time  *)
(* (the claim of Reconciler.tla): a worker pass while the resource is      *)
(* unsettled, a drift pass while it is Ready.  The retry budget is         *)
(* Reconciler's subject; failures stay below it here.                      *)
(*                                                                         *)
(* A text is the sequence of its parts between the '=' signs: <<"A">> is   *)
(* "A" and <<"A", "B">> is "A=B", and k \o v is "k=v".                     *)
(***************************************************************************)
EXTENDS Naturals, Sequences

CONSTANTS Specs,      \* Application specs: [image, env, flat, wellFormed]
          Blank,      \* a missing or blank image
          Injected,   \* env list entries the Engine or the image adds
          Foreign,    \* what inspecting other users' containers reports
          ContainerIds, \* ids of containers
          MaxFaults,  \* bound: calls refused, given up or answers lost
          MaxTouches, \* bound: steps of other users of the Engine
          MaxEdits,   \* bound: spec updates
          MaxCrashes  \* bound: daemon restarts

ASSUME BoundsAssumption ==
  /\ MaxFaults \in Nat /\ MaxTouches \in Nat /\ MaxEdits \in Nat /\ MaxCrashes \in Nat

\* Inspect reports an image and a map of variables.
ASSUME ShapesAssumption ==
  /\ 0 \notin ContainerIds
  /\ \A f \in Foreign : f = [image |-> f.image, env |-> [k \in DOMAIN f.env |-> f.env[k]]]

VARIABLES
  spec,    \* the stored spec
  phase,   \* "todo" (Pending, Provisioning, Degraded), "Ready" or "Failed"
  noted,   \* does the status message begin with "Drifted: "?
  ctr,     \* the container of that name: id, fields, running; or NoContainer
  run,     \* the pass under way: where it is, for which spec, on which
           \* container, and whether the container changed under it
  late,    \* requests given up that can still reach the Engine
  count    \* how often the environment struck

vars == <<spec, phase, noted, ctr, run, late, count>>

status == <<phase, noted>>

-----------------------------------------------------------------------------
(* Fields: the normalised image and the variables.                         *)

\* Go map assignment over an earlier map.
Over(f, g) == [k \in DOMAIN f \cup DOMAIN g |-> IF k \in DOMAIN f THEN f[k] ELSE g[k]]

\* The result for a spec without fields (DesiredFields' error).
NoFields == [image |-> Blank, env |-> <<>>]

\* No container of that name.
NoContainer == [id |-> 0, fields |-> NoFields, running |-> FALSE]

\* DesiredFields: the image, then the env block, then flat env.<K> keys; both
\* must be of the accepted shapes.
DesiredFields(s) ==
  IF s.image = Blank \/ ~s.wellFormed THEN NoFields
  ELSE [image |-> s.image, env |-> Over(s.flat, s.env)]

\* FieldsToSpec: observed fields as the spec that would ask for them.
FieldsToSpec(f) == [image |-> f.image, env |-> <<>>, flat |-> f.env, wellFormed |-> TRUE]

\* CompareFields finds a declared field that is missing or differs.
Differs(want, got) ==
  \/ want.image # got.image
  \/ \E k \in DOMAIN want.env : k \notin DOMAIN got.env \/ got.env[k] # want.env[k]

\* containerConfig's list of "key=value" entries ...
EnvList(env) == {k \o env[k] : k \in DOMAIN env}

\* ... the container's list, in which they replace what the image sets ...
Merged(list) == list \cup {e \in Injected : \A own \in list : Head(own) # Head(e)}

\* ... and EnvListToFields, which cuts every entry at its first '='.  (Of two
\* entries with one name the last in the list's order counts, here any.)
EnvListToFields(list) ==
  LET entries == {e \in list : Len(e) > 1 /\ Head(e) # ""}
  IN [k \in {<<Head(e)>> : e \in entries} |-> Tail(CHOOSE e \in entries : <<Head(e)>> = k)]

\* What Inspect reports of a container created from these fields.
Reported(f) == [image |-> f.image, env |-> EnvListToFields(Merged(EnvList(f.env)))]

Converged(s, c) == c # NoContainer /\ ~Differs(DesiredFields(s), c.fields)

\* planFor and PlanContainers: what to do about an observation.
PlanContainers(s, c) ==
  IF DesiredFields(s) = NoFields THEN "error"
  ELSE IF c = NoContainer THEN "create"
  ELSE IF Differs(DesiredFields(s), DesiredFields(FieldsToSpec(c.fields)))
    THEN "update" ELSE "noop"

-----------------------------------------------------------------------------
(* Passes and how they end.                                                *)

Idle == [pc |-> "idle"]

Begin(pc) == run' = [pc |-> pc, s |-> spec, id |-> 0, disturbed |-> FALSE]

\* The pass goes on to its next call.
Goto(pc, id) == run' = [pc |-> pc, s |-> run.s, id |-> id, disturbed |-> run.disturbed]

At(pc, id) == Goto(pc, id) /\ UNCHANGED status

\* A variant without the drift pass.
Pass_WorkersOnly ==
  /\ run = Idle
  /\ phase = "todo" /\ Begin("inspect")
  /\ UNCHANGED <<spec, status, ctr, late, count>>

\* A worker takes an unsettled resource, the drift pass a Ready one; each
\* works on the document it listed.
Pass ==
  /\ run = Idle
  /\ \/ phase = "todo" /\ Begin("inspect")
     \/ phase = "Ready" /\ Begin("check")
  /\ UNCHANGED <<spec, status, ctr, late, count>>

\* UpdateStatus with a message of its own.
UpdateStatus(p) == phase' = p /\ noted' = FALSE

\* actuationSettled.
Settled == UpdateStatus("Ready") /\ run' = Idle

\* actuationFailed: Permanent is terminal, everything else is retried.  A
\* drift pass that cannot inspect, or that finds a spec without fields,
\* leaves the resource alone.
Failed(class) ==
  /\ run' = Idle
  /\ IF run.pc = "check" THEN UNCHANGED status
     ELSE UpdateStatus(IF class = "Permanent" THEN "Failed" ELSE "todo")

\* The ids somebody knows.
Known == {ctr.id} \cup {r.id : r \in late} \cup IF run = Idle THEN {} ELSE {run.id}

\* A container comes into being under the name, with an id that is new to
\* everybody (one that nobody knows any more serves again).
Made(fields, running) ==
  /\ ContainerIds \ Known # {}
  /\ ctr' = [id |-> CHOOSE i \in ContainerIds \ Known : TRUE, fields |-> fields, running |-> running]

\* The calls that change something.
Requests == {"ensure", "recreate", "start", "stop", "remove"}

\* The container a request by id finds.
Found(r) == ctr # NoContainer /\ ctr.id = r.id

\* A variant that removes by name.
Engine_RemovesByName(r) ==
  CASE r.pc \in {"ensure", "recreate"} /\ ctr = NoContainer -> Made(Reported(DesiredFields(r.s)), FALSE)
    [] r.pc \in {"start", "stop"} /\ Found(r) ->
         ctr' = [ctr EXCEPT !.running = (r.pc = "start")]
    [] r.pc = "remove" -> ctr' = NoContainer
    [] OTHER -> UNCHANGED ctr

\* What a request does when it reaches the Engine: create under a free name;
\* start, stop or remove by id.
Engine(r) ==
  CASE r.pc \in {"ensure", "recreate"} /\ ctr = NoContainer -> Made(Reported(DesiredFields(r.s)), FALSE)
    [] r.pc \in {"start", "stop"} /\ Found(r) ->
         ctr' = [ctr EXCEPT !.running = (r.pc = "start")]
    [] r.pc = "remove" /\ Found(r) -> ctr' = NoContainer
    [] OTHER -> UNCHANGED ctr

Fault == count.faults < MaxFaults /\ count' = [count EXCEPT !.faults = @ + 1]

\* A call and what follows its answer.  Or it fails: refused, carried out
\* with its answer lost or unreadable, or given up while under way.
Call(Answered) ==
  /\ \/ Engine(run) /\ Answered /\ UNCHANGED <<late, count>>
     \/ /\ Fault /\ UNCHANGED late
        /\ Engine(run) \/ UNCHANGED ctr
        /\ \E class \in {"Transient", "Permanent"} : Failed(class)
     \/ Fault /\ UNCHANGED ctr /\ late' = late \cup {run} /\ Failed("Transient")
  /\ UNCHANGED spec

\* The same of InspectContainer, which changes nothing.
Read(Answered) ==
  /\ \/ Answered /\ UNCHANGED count
     \/ Fault /\ \E class \in {"Transient", "Permanent"} : Failed(class)
  /\ UNCHANGED <<spec, ctr, late>>

-----------------------------------------------------------------------------
(* The Engine calls of one pass.                                           *)

\* Apply's first call.
Chosen(plan) == Goto(IF plan = "create" THEN "ensure" ELSE "look", 0)

\* A worker's Inspect and plan.
Inspect ==
  /\ run.pc = "inspect"
  /\ Read(LET plan == PlanContainers(run.s, ctr)
          IN \/ plan = "error" /\ Failed("Permanent")
             \/ plan = "noop" /\ Settled
             \/ plan \in {"create", "update"} /\ Chosen(plan) /\ UNCHANGED status)

\* clearDriftAnnotation.  (Only passes write messages: it is the one listed.)
clearDriftAnnotation == IF noted THEN UpdateStatus("Ready") ELSE UNCHANGED status

\* checkDrift: a match is left alone; a difference is annotated on a Ready
\* status (reportDrift), whatever the status is by now, and acted on.
checkDrift ==
  /\ run.pc = "check"
  /\ Read(LET plan == PlanContainers(run.s, ctr)
          IN \/ plan = "error" /\ Failed("Permanent")
             \/ plan = "noop" /\ clearDriftAnnotation /\ run' = Idle
             \/ plan \in {"create", "update"} /\ Chosen(plan) /\ phase' = "Ready" /\ noted' = TRUE)

\* A variant that creates and is done.
CreateContainer_Unstarted(pc, taken) ==
  run.pc = pc /\ Call(IF ctr = NoContainer THEN Settled ELSE taken)

\* CreateContainer: 201 with an id, or 409 when the name is taken.
CreateContainer(pc, taken) ==
  run.pc = pc /\ Call(IF ctr = NoContainer THEN At("start", ctr'.id) ELSE taken)

\* ensure: a taken name is looked up and adopted.
ensure == CreateContainer("ensure", At("adopt", 0))

adopt ==
  run.pc = "adopt" /\ Read(IF ctr = NoContainer THEN Failed("Transient") ELSE At("start", ctr.id))

\* StartContainer: 404 is not among the codes it handles, and classifies as
\* Permanent.
StartContainer ==
  run.pc = "start" /\ Call(IF Found(run) THEN Settled ELSE Failed("Permanent"))

\* recreate: inspect again, then stop, remove, create, start.
look ==
  run.pc = "look" /\ Read(IF ctr = NoContainer THEN At("recreate", 0) ELSE At("stop", ctr.id))

\* StopContainer: 304 and 404 are success.
StopContainer == run.pc = "stop" /\ Call(At("remove", run.id))

\* RemoveContainer: 404 is success.
RemoveContainer == run.pc = "remove" /\ Call(At("recreate", 0))

\* recreate's create: here a taken name is an error (409, Transient).
recreate == CreateContainer("recreate", Failed("Transient"))

-----------------------------------------------------------------------------
(* Everybody else.                                                         *)

\* A spec update reopens the resource; the message stays.
Edit(s) ==
  /\ count.edits < MaxEdits
  /\ s # spec
  /\ spec' = s
  /\ phase' = "todo"
  /\ count' = [count EXCEPT !.edits = @ + 1]
  /\ UNCHANGED <<noted, ctr, run, late>>

\* The daemon dies and comes back: the pass is gone, what is stored is not,
\* and the request it was making may be under way.
Crash ==
  /\ count.crashes < MaxCrashes
  /\ run # Idle
  /\ run' = Idle
  /\ late' = late \/ (run.pc \in Requests /\ late' = late \cup {run})
  /\ count' = [count EXCEPT !.crashes = @ + 1]
  /\ UNCHANGED <<spec, status, ctr>>

\* The container changes under the pass, if there is one.
Disturb ==
  run' = IF run = Idle THEN Idle
         ELSE [pc |-> run.pc, s |-> run.s, id |-> run.id, disturbed |-> TRUE]

\* A request given up earlier reaches the Engine.
Land ==
  /\ \E r \in late : late' = late \ {r} /\ Engine(r)
  /\ Disturb
  /\ UNCHANGED <<spec, status, count>>

\* Another user of the Engine stops or removes the container, puts one of
\* its own in its place, or takes the free name.
Touch ==
  /\ count.touches < MaxTouches
  /\ count' = [count EXCEPT !.touches = @ + 1]
  /\ \/ ctr.running /\ ctr' = [ctr EXCEPT !.running = FALSE]
     \/ ctr # NoContainer /\ ctr' = NoContainer
     \/ \E f \in Foreign : Made(f, TRUE)
  /\ Disturb
  /\ UNCHANGED <<spec, status, late>>

-----------------------------------------------------------------------------

Init ==
  /\ spec \in Specs
  /\ phase = "todo" /\ noted = FALSE
  /\ ctr = NoContainer
  /\ run = Idle /\ late = {}
  /\ count = [faults |-> 0, touches |-> 0, edits |-> 0, crashes |-> 0]

Actuate ==
  \/ Inspect \/ checkDrift \/ ensure \/ adopt \/ look
  \/ StopContainer \/ RemoveContainer \/ recreate \/ StartContainer

Next == Pass \/ Actuate \/ Land \/ Touch \/ Crash \/ \E s \in Specs : Edit(s)

\* The scan and drift tickers keep coming, and a pass under way goes on.
Fairness == WF_vars(Pass) /\ WF_vars(Actuate)

Spec == Init /\ [][Next]_vars /\ Fairness

-----------------------------------------------------------------------------
(* Properties.                                                             *)

TakenDown ==
  ctr # NoContainer /\ (ctr' = NoContainer \/ (ctr.running /\ ~ctr'.running))

\* The requests that take down: the pass's own, and those given up.
Asked(r) == (r = run \/ r \in late) /\ r.pc \in {"stop", "remove"}

\* A container that already does what its spec asks is not taken down: a
\* request of ours stops or removes only the container its pass looked at (by
\* id, so one that took its place survives), however late it arrives, and,
\* unless the container changed under that pass, only one that differs from
\* the spec of the pass.
TakesDownOnlyDrifted ==
  [][(Actuate \/ Land) /\ TakenDown =>
       \E r \in late \cup {run} :
         Asked(r) /\ ctr.id = r.id /\ (r.disturbed \/ ~Converged(r.s, ctr))]_vars

\* The spec has fields and the Engine's env list can carry its variables: what
\* is reported of a container made from the spec is what the spec declares.
\* (A name with an '=' in it, which DesiredFields accepts, comes back as
\* another variable.)
Carried(s) ==
  DesiredFields(s) # NoFields /\ ~Differs(DesiredFields(s), Reported(DesiredFields(s)))

\* A pass ends answered, with the resource Ready.
Succeeds == Actuate /\ run' = Idle /\ phase' = "Ready" /\ UNCHANGED count

\* Ready is true: when a pass ends with the resource Ready, the container is
\* there with the fields of the pass's spec, and it runs if the pass had
\* anything to do, unless the container changed under the pass (an adopted
\* one keeps its own fields) or the spec cannot be carried.
ReadyIsTrue ==
  [][Succeeds /\ ~run.disturbed /\ Carried(run.s)
       => Converged(run.s, ctr') /\ (run.pc \in {"inspect", "check"} \/ ctr'.running)]_vars

\* Once the environment is quiet the container of the current spec is there
\* for good, unless the resource is Failed or its spec cannot be carried: no
\* crash point, lost answer, late request or foreign container leaves it
\* behind, and variables the Engine adds do not make it flap.
Converges == <>[](phase = "Failed" \/ ~Carried(spec) \/ Converged(spec, ctr))

=============================================================================
