----------------------------- MODULE Dispatcher -----------------------------
(***************************************************************************)
(* The webhook dispatcher (internal/webhook/dispatcher.go) on the          *)
(* in-memory bus.                                                          *)
(*                                                                         *)
(* onEvent runs on the goroutine of whoever published: an API handler or   *)
(* a reconciler worker.  Each does its own refresh (list the store, then   *)
(* rebuild the handles under d.mu) and its own fan-out, so those of        *)
(* several publishers interleave.  Each handle has a bounded queue and a   *)
(* worker that posts, retries and backs off.                               *)
(*                                                                         *)
(* A subject is <<kind, type>>: the common prefix and the org are left     *)
(* out.  A store listing is one page (up to 200 subscriptions).            *)
(***************************************************************************)
EXTENDS Bus, FiniteSets, Functions

CONSTANTS Publishers,
          SubIds,       \* ids of Subscription resources
          Specs,        \* their specs: [active, subjects, retries]
          NotYet, Gone, \* a subscription not created yet, or deleted
          OtherSubjects, \* subjects of events about other resources
          QueueSize,    \* Options.QueueSize
          MaxEvents, MaxFaults \* bounds: events published, store errors

ASSUME QueueAssumption == QueueSize \in Nat \ {0}

ASSUME SpecAssumption == NotYet # Gone /\ {NotYet, Gone} \cap Specs = {}

ASSUME DispatcherBounds == MaxEvents \in Nat /\ MaxFaults \in Nat

VARIABLES
  resources, \* resources[id]: the stored spec, NotYet or Gone
  pub,       \* pub[p]: where publisher p is, and its locals
  dsubs,     \* d.subs: the current handle of each id, 0 if it has none
  handles,   \* handles[id]: every subHandle made for id, oldest first
  stage,     \* "new", "running", "draining" (ctx cancelled), "stopped"
  issued, faults

vars == <<next, ring, subs, resources, pub, dsubs, handles, stage, issued, faults>>

Idle == [pc |-> "idle"]

\* A handle: its view, queue and quit channel, its worker, and what became
\* of the events fan-out selected it for (got): the final audit entries.
NewHandle(spec) ==
  [view |-> spec, queue |-> <<>>, quit |-> FALSE, w |-> [pc |-> "top"], got |-> {}, out |-> {}]

\* "ryvex.resource.>" below the common prefix.
SubjectPattern == <<">">>

Live == {id \in SubIds : resources[id] \notin {NotYet, Gone}}

Init ==
  /\ BusInit
  /\ resources \in [SubIds -> Specs \cup {NotYet}]
  /\ pub = [p \in Publishers |-> Idle]
  /\ dsubs = [id \in SubIds |-> 0]
  /\ handles = [id \in SubIds |-> <<>>]
  /\ stage = "new"
  /\ issued = 0 /\ faults = 0

-----------------------------------------------------------------------------
(* refresh, in two steps: the listing, and the rebuild under d.mu.         *)

\* A variant that forgets to close the quit channel of a removed handle.
Rebuild_Leaks(want) ==
  /\ dsubs' = [id \in SubIds |->
       CASE id \notin DOMAIN want -> 0
         [] dsubs[id] # 0 -> dsubs[id]
         [] OTHER -> Len(handles[id]) + 1]
  /\ handles' = [id \in SubIds |->
       CASE id \in DOMAIN want /\ dsubs[id] = 0 -> Append(handles[id], NewHandle(want[id]))
         [] id \in DOMAIN want /\ dsubs[id] # 0 -> [handles[id] EXCEPT ![dsubs[id]].view = want[id]]
         [] OTHER -> handles[id]]

Rebuild(want) ==
  /\ dsubs' = [id \in SubIds |->
       CASE id \notin DOMAIN want -> 0
         [] dsubs[id] # 0 -> dsubs[id]
         [] OTHER -> Len(handles[id]) + 1]
  /\ handles' = [id \in SubIds |->
       CASE id \in DOMAIN want /\ dsubs[id] = 0 -> Append(handles[id], NewHandle(want[id]))
         [] id \in DOMAIN want /\ dsubs[id] # 0 -> [handles[id] EXCEPT ![dsubs[id]].view = want[id]]
         [] id \notin DOMAIN want /\ dsubs[id] # 0 -> [handles[id] EXCEPT ![dsubs[id]].quit = TRUE]
         [] OTHER -> handles[id]]

StoreFault == faults < MaxFaults /\ faults' = faults + 1

\* Start: refresh (a failure only warns), then subscribe.  The HTTP server
\* listens after it, so nothing is published meanwhile.
Start ==
  /\ stage = "new"
  /\ stage' = "running"
  /\ \/ Rebuild(Restrict(resources, Live)) /\ UNCHANGED faults
     \/ StoreFault /\ UNCHANGED <<dsubs, handles>>
  /\ Subscribe(SubjectPattern)
  /\ UNCHANGED <<resources, pub, issued>>

-----------------------------------------------------------------------------
(* Publishers.                                                             *)

Goto(p, to) == pub' = [pub EXCEPT ![p] = to]

\* A write is committed and its event will be published.
Issue(p, subject) ==
  /\ pub[p] = Idle
  /\ stage \in {"running", "draining"}
  /\ issued < MaxEvents
  /\ issued' = issued + 1
  /\ Goto(p, [pc |-> "publish", subject |-> subject])
  /\ UNCHANGED <<busVars, dsubs, handles, stage, faults>>

WriteSubscription(p, id, spec) ==
  /\ resources[id] \notin {Gone, spec}
  /\ resources' = [resources EXCEPT ![id] = spec]
  /\ Issue(p, <<"subscription", IF resources[id] = NotYet THEN "created" ELSE "updated">>)

DeleteSubscription(p, id) ==
  /\ id \in Live
  /\ resources' = [resources EXCEPT ![id] = Gone]
  /\ Issue(p, <<"subscription", "deleted">>)

\* Any other event: another kind, or a subscription's status.
WriteOther(p, subject) ==
  /\ subject[1] = "subscription" => Live # {}
  /\ UNCHANGED resources
  /\ Issue(p, subject)

\* Publish, and the head of onEvent when the dispatcher is subscribed.
Publish(p) ==
  /\ pub[p].pc = "publish"
  /\ LET subject == pub[p].subject
     IN /\ Accept(subject)
        /\ Goto(p, IF Handlers(subject) = {} THEN Idle
                   ELSE [pc |-> IF subject[1] = "subscription" THEN "list" ELSE "fanout",
                         e |-> Numbered(subject)])
  /\ UNCHANGED <<resources, dsubs, handles, stage, issued, faults>>

\* refresh's listing; onEvent ignores a store error and fans out.
List(p) ==
  /\ pub[p].pc = "list"
  /\ \/ /\ Goto(p, [pc |-> "apply", e |-> pub[p].e, want |-> Restrict(resources, Live)])
        /\ UNCHANGED faults
     \/ /\ StoreFault
        /\ Goto(p, [pc |-> "fanout", e |-> pub[p].e])
  /\ UNCHANGED <<busVars, resources, dsubs, handles, stage, issued>>

Apply(p) ==
  /\ pub[p].pc = "apply"
  /\ Rebuild(pub[p].want)
  /\ Goto(p, [pc |-> "fanout", e |-> pub[p].e])
  /\ UNCHANGED <<busVars, resources, stage, issued, faults>>

\* Publisher p after it has dealt with the handles up to todo.
Rest(e, todo) == IF todo = {} THEN Idle ELSE [pc |-> "enqueue", e |-> e, todo |-> todo]

\* fanout copies the handles under the read lock ...
Fanout(p) ==
  /\ pub[p].pc = "fanout"
  /\ Goto(p, Rest(pub[p].e, {<<id, dsubs[id]>> : id \in {i \in SubIds : dsubs[i] # 0}}))
  /\ UNCHANGED <<busVars, resources, dsubs, handles, stage, issued, faults>>

Selected(view, e) == view.active /\ \E pattern \in view.subjects : Match(pattern, e.subject)

\* A variant that drops on overflow without the audit entry.
enqueue_Silent(h, e) ==
  IF Len(h.queue) < QueueSize
  THEN [h EXCEPT !.queue = Append(@, e.id), !.got = @ \cup {e.id}]
  ELSE [h EXCEPT !.got = @ \cup {e.id}]

enqueue(h, e) ==
  IF Len(h.queue) < QueueSize
  THEN [h EXCEPT !.queue = Append(@, e.id), !.got = @ \cup {e.id}]
  ELSE [h EXCEPT !.out = @ \cup {<<e.id, "dropped">>}, !.got = @ \cup {e.id}]

\* A variant without the break: one delivery per matching pattern.
Offer_NoBreak(h, e) ==
  IF Selected(h.view, e)
  THEN LET more == Cardinality({pt \in h.view.subjects : Match(pt, e.subject)}) > 1
       IN IF more THEN enqueue(enqueue(h, e), e) ELSE enqueue(h, e)
  ELSE h

\* One handle's turn in fanout's loop.
Offer(h, e) == IF Selected(h.view, e) THEN enqueue(h, e) ELSE h

\* ... and offers the event to each, in map order.
Enqueue(p) ==
  /\ pub[p].pc = "enqueue"
  /\ \E t \in pub[p].todo :
       /\ handles' = [handles EXCEPT ![t[1]][t[2]] = Offer(@, pub[p].e)]
       /\ Goto(p, Rest(pub[p].e, pub[p].todo \ {t}))
  /\ UNCHANGED <<busVars, resources, dsubs, stage, issued, faults>>

-----------------------------------------------------------------------------
(* The worker of handle n of subscription id.                              *)

Cancelled == stage \in {"draining", "stopped"}

Worker(id, n, pc) == n \in DOMAIN handles[id] /\ handles[id][n].w.pc = pc

Become(id, n, h) ==
  /\ handles' = [handles EXCEPT ![id][n] = h]
  /\ UNCHANGED <<busVars, resources, pub, dsubs, stage, issued, faults>>

\* work: quit and shutdown are looked at first ...
WorkTop(id, n) ==
  /\ Worker(id, n, "top")
  /\ LET h == handles[id][n]
     IN Become(id, n, [h EXCEPT !.w = [pc |-> IF h.quit \/ Cancelled THEN "ended" ELSE "select"]])

\* A variant that does not watch the quit channel while it waits.
WorkSelect_Deaf(id, n) ==
  /\ Worker(id, n, "select")
  /\ LET h == handles[id][n]
     IN \/ /\ Cancelled
           /\ Become(id, n, [h EXCEPT !.w = [pc |-> "ended"]])
        \/ /\ h.queue # <<>>
           /\ Become(id, n, [h EXCEPT !.queue = Tail(@),
                !.w = [pc |-> "try", e |-> Head(h.queue), attempt |-> 1, total |-> h.view.retries + 1]])

\* ... then whichever case of the second select is ready.
WorkSelect(id, n) ==
  /\ Worker(id, n, "select")
  /\ LET h == handles[id][n]
     IN \/ /\ h.quit \/ Cancelled
           /\ Become(id, n, [h EXCEPT !.w = [pc |-> "ended"]])
        \/ /\ h.queue # <<>>
           /\ Become(id, n, [h EXCEPT !.queue = Tail(@),
                !.w = [pc |-> "try", e |-> Head(h.queue), attempt |-> 1, total |-> h.view.retries + 1]])

\* process ends with this outcome; work starts over.
Settle(h, how) == [h EXCEPT !.out = @ \cup {<<h.w.e, how>>}, !.w = [pc |-> "top"]]

\* The outcome of a failed attempt: give up or back off.
Retry(h) == IF h.w.attempt >= h.w.total THEN Settle(h, "failed") ELSE [h EXCEPT !.w.pc = "wait"]

\* One turn of process's loop: the egress guard refuses, the POST succeeds
\* (not once the context it carries is cancelled), or it fails.
Attempt(id, n) ==
  /\ Worker(id, n, "try")
  /\ LET h == handles[id][n]
     IN \/ Become(id, n, Settle(h, "refused"))
        \/ ~Cancelled /\ Become(id, n, Settle(h, "delivered"))
        \/ Become(id, n, Retry(h))

\* wait: the timer fires, or shutdown ends the delivery without outcome.
Backoff(id, n) ==
  /\ Worker(id, n, "wait")
  /\ LET h == handles[id][n]
     IN \/ Become(id, n, [h EXCEPT !.w.pc = "try", !.w.attempt = @ + 1])
        \/ Cancelled /\ Become(id, n, [h EXCEPT !.w = [pc |-> "top"]])

-----------------------------------------------------------------------------
\* The daemon's context is cancelled by the signal, while requests drain ...
Signal ==
  /\ stage = "running"
  /\ stage' = "draining"
  /\ UNCHANGED <<busVars, resources, pub, dsubs, handles, issued, faults>>

\* ... and Stop then leaves the bus.
Stop ==
  /\ stage = "draining"
  /\ stage' = "stopped"
  /\ \E s \in subs : Cancel(s)
  /\ UNCHANGED <<resources, pub, dsubs, handles, issued, faults>>

Handle == {t \in SubIds \X (1 .. MaxEvents + 1) : t[2] \in DOMAIN handles[t[1]]}

PublisherStep(p) == Publish(p) \/ List(p) \/ Apply(p) \/ Fanout(p) \/ Enqueue(p)

WorkerStep(id, n) == WorkTop(id, n) \/ WorkSelect(id, n) \/ Attempt(id, n) \/ Backoff(id, n)

Next ==
  \/ Start \/ Signal \/ Stop
  \/ \E p \in Publishers :
       \/ \E id \in SubIds, spec \in Specs : WriteSubscription(p, id, spec)
       \/ \E id \in SubIds : DeleteSubscription(p, id)
       \/ \E subject \in OtherSubjects : WriteOther(p, subject)
       \/ PublisherStep(p)
  \/ \E t \in Handle : WorkerStep(t[1], t[2])

Spec == Init /\ [][Next]_vars

\* Publishers run onEvent to its end, attempts time out and timers fire;
\* nobody has to write, and no signal has to come.
FairSpec ==
  /\ Spec
  /\ \A p \in Publishers : WF_vars(PublisherStep(p))
  /\ \A id \in SubIds, n \in 1 .. MaxEvents + 1 : WF_vars(WorkerStep(id, n))

-----------------------------------------------------------------------------
Queued(h) == {h.queue[i] : i \in DOMAIN h.queue}
InHand(h) == IF h.w.pc \in {"try", "wait"} THEN {h.w.e} ELSE {}
Settled(h) == {o[1] : o \in h.out}

\* Events selected for the subscription that got no final audit entry
\* (delivered, failed, refused or dropped on overflow) and that no worker
\* will come to any more.
Lost(h) ==
  h.got \ (Settled(h) \cup IF h.w.pc = "ended" THEN {} ELSE Queued(h) \cup InHand(h))

\* Until shutdown an event selected for a subscription disappears without an
\* audit entry in one way only: it was waiting in the queue (or was put
\* there late) of a handle that a refresh has removed ("buffered events are
\* abandoned").  A handle in use loses nothing, and removing one does not
\* cut off the delivery its worker has begun.
Accounted ==
  ~Cancelled => \A t \in Handle :
    LET h == handles[t[1]][t[2]]
    IN Lost(h) # {} => h.quit /\ t[2] # dsubs[t[1]] /\ Lost(h) \subseteq Queued(h)

\* "one delivery per event per subscription" (fanout): an event is in one
\* place only, has one final outcome, and is never given to two handles of
\* the same subscription, even when overlapping refreshes remove and remake
\* the handle during the fan-out.
OneDelivery ==
  \A t \in Handle :
    LET h == handles[t[1]][t[2]]
    IN /\ Cardinality(Queued(h)) = Len(h.queue)
       /\ Queued(h) \cap InHand(h) = {}
       /\ (Queued(h) \cup InHand(h)) \cap Settled(h) = {}
       /\ Cardinality(h.out) = Cardinality(Settled(h))
       /\ \A m \in 1 .. t[2] - 1 : handles[t[1]][m].got \cap h.got = {}

\* refresh leaks no worker: the handles not told to quit are exactly those
\* in d.subs, so a later refresh can still reach every running worker.
NoLeakedWorker ==
  \A t \in Handle : ~handles[t[1]][t[2]].quit <=> dsubs[t[1]] = t[2]

\* Once writes end, the dispatcher comes to rest: workers of current
\* subscriptions have drained their queues (no delivery is retried for
\* ever), and after a removal or a shutdown every worker has returned, also
\* one that a refresh started late: Stop's wg.Wait can end.
Quiesces ==
  <>[](\A t \in Handle :
         LET h == handles[t[1]][t[2]]
         IN IF h.quit \/ Cancelled THEN h.w.pc = "ended" ELSE h.queue = <<>> /\ h.w.pc = "select")
=============================================================================
