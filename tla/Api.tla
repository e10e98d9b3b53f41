-------------------------------- MODULE Api --------------------------------
(***************************************************************************)
(* The mutating REST handlers (internal/api/handlers.go) over the store.   *)
(*                                                                         *)
(* Each handler goroutine makes its store calls one at a time and          *)
(* publishes after the write has committed, so handlers of different       *)
(* requests interleave between a Get and the write that uses it, and       *)
(* between a write and its event.  A request that fails leaves no trace    *)
(* but the error it answers, and returns the handler to "idle".            *)
(*                                                                         *)
(* A crash of the daemon is modelled with a store that survives it         *)
(* (pgstore): the requests in flight are gone, and so are their events.    *)
(***************************************************************************)
EXTENDS Store, FiniteSets

CONSTANTS Clients,   \* concurrent requests, one handler goroutine each
          NoDoc,     \* "nothing read"
          MaxCrashes \* bound: daemon crashes

ASSUME CrashesAssumption == MaxCrashes \in Nat

VARIABLES
  h,       \* h[c]: where client c's request is, and the handler's locals
  seen,    \* seen[c]: the id and document client c read last
  events,  \* what was handed to bus.Publish, in order
  lost,    \* events of requests cut off by a crash
  crashes

apiVars == <<byID, byLogic, nextId, audit, auditWrite, auditEvicted, seq,
             h, seen, events, lost, crashes>>

\* A handler is idle, in a "put" or "delete" with the locals it read from the
\* store, or about to "publish".  An event carries the audit entry's fields;
\* subject, actor and time are left out.
Idle == [pc |-> "idle"]

ApiInit ==
  /\ Init
  /\ h = [c \in Clients |-> Idle]
  /\ seen = [c \in Clients |-> NoDoc]
  /\ events = <<>>
  /\ lost = {}
  /\ crashes = 0

\* The tail of every handler that wrote: the event is built, not yet sent.
Announce(c, event) == h' = [h EXCEPT ![c] = [pc |-> "publish", event |-> event]]

Respond(c) == h' = [h EXCEPT ![c] = Idle]

-----------------------------------------------------------------------------

\* handleScopeGet: the client now knows a document and its generation.
handleScopeGet(c, key) ==
  /\ h[c] = Idle
  /\ key \in DOMAIN byLogic
  /\ seen' = [seen EXCEPT ![c] = [id |-> byLogic[key], doc |-> byID[byLogic[key]]]]
  /\ UNCHANGED <<storeVars, h, events, lost, crashes>>

\* handleCreate: POST, one store call.
handleCreate(c, key, spec, labels, phase) ==
  /\ h[c] = Idle
  /\ CreateResource(key, spec, labels, phase)
  /\ Announce(c, EntryFor("created", nextId', byID'[nextId']))
  /\ UNCHANGED <<seen, events, lost, crashes>>

\* handleScopePut up to GetByLogicalKey: the address resolves now, the write
\* comes later.  expected is 0 (no "generation" in the body) or the
\* generation the client read.
PutGet(c, key, spec, labels, expected) ==
  /\ h[c] = Idle
  /\ h' = [h EXCEPT ![c] =
            [pc |-> "put", key |-> key, spec |-> spec, labels |-> labels,
             expected |-> expected,
             target |-> IF key \in DOMAIN byLogic THEN byLogic[key] ELSE 0]]
  /\ UNCHANGED <<storeVars, seen, events, lost, crashes>>

\* The create branch of handleScopePut: the address was fresh at the Get.
\* The body's generation plays no part in it.  The body's phase is chosen
\* here; nil labels store as the empty set, here any member of Labels.
PutCreate(c) ==
  /\ h[c].pc = "put" /\ h[c].target = 0
  /\ UNCHANGED <<seen, events, lost, crashes>>
  /\ IF CreateOutcome(h[c].key, h[c].spec) = "ok"
       THEN \E phase \in CallerPhases,
               labels \in IF h[c].labels = NoLabels THEN Labels ELSE {h[c].labels} :
              /\ CreateResource(h[c].key, h[c].spec, labels, phase)
              /\ Announce(c, EntryFor("created", nextId', byID'[nextId']))
       ELSE Respond(c) /\ UNCHANGED storeVars

\* A variant that publishes whether or not anything changed.
PutUpdate_AlwaysPublishes(c) ==
  /\ h[c].pc = "put" /\ h[c].target # 0
  /\ UNCHANGED <<seen, events, lost, crashes>>
  /\ LET id == h[c].target
     IN IF UpdateOutcome(id, h[c].expected, h[c].spec) = "ok"
          THEN /\ UpdateResource(id, h[c].expected, h[c].spec, h[c].labels)
               /\ Announce(c, EntryFor("updated", id, byID'[id]))
          ELSE Respond(c) /\ UNCHANGED storeVars

\* A variant that does not hand the body's generation to the store.
PutUpdate_NoCAS(c) ==
  /\ h[c].pc = "put" /\ h[c].target # 0
  /\ UNCHANGED <<seen, events, lost, crashes>>
  /\ LET id == h[c].target
     IN IF UpdateOutcome(id, 0, h[c].spec) = "ok"
          THEN /\ UpdateResource(id, 0, h[c].spec, h[c].labels)
               /\ IF specLabelsEqual(byID[id], byID'[id])
                    THEN Respond(c)
                    ELSE Announce(c, EntryFor("updated", id, byID'[id]))
          ELSE Respond(c) /\ UNCHANGED storeVars

\* The update branch: CAS on the body's generation, and an event only when
\* the closure saw a change under the store's lock.
PutUpdate(c) ==
  /\ h[c].pc = "put" /\ h[c].target # 0
  /\ UNCHANGED <<seen, events, lost, crashes>>
  /\ LET id == h[c].target
     IN IF UpdateOutcome(id, h[c].expected, h[c].spec) = "ok"
          THEN /\ UpdateResource(id, h[c].expected, h[c].spec, h[c].labels)
               /\ IF specLabelsEqual(byID[id], byID'[id])
                    THEN Respond(c)
                    ELSE Announce(c, EntryFor("updated", id, byID'[id]))
          ELSE Respond(c) /\ UNCHANGED storeVars

\* handleScopeDelete and handleDeleteByID up to the Get.
DeleteGet(c, id) ==
  /\ h[c] = Idle
  /\ id \in DOMAIN byID
  /\ h' = [h EXCEPT ![c] = [pc |-> "delete", target |-> id, gen |-> byID[id].gen]]
  /\ UNCHANGED <<storeVars, seen, events, lost, crashes>>

\* Their DeleteResource: the event carries the generation read before it.
DeleteWrite(c) ==
  /\ h[c].pc = "delete"
  /\ UNCHANGED <<seen, events, lost, crashes>>
  /\ LET id == h[c].target
     IN IF id \in DOMAIN byID
          THEN /\ DeleteResource(id)
               /\ Announce(c, [EntryFor("deleted", id, byID[id]) EXCEPT !.gen = h[c].gen])
          ELSE Respond(c) /\ UNCHANGED storeVars

\* The requests that committed and have not published.
Pending == {c \in Clients : h[c].pc = "publish"}

\* bus.Publish and the response.
Publish(c) ==
  /\ h[c].pc = "publish"
  /\ events' = Append(events, h[c].event)
  /\ Respond(c)
  /\ UNCHANGED <<storeVars, seen, lost, crashes>>

\* The daemon dies: requests in flight are cut off where they stand.
Crash ==
  /\ crashes < MaxCrashes
  /\ crashes' = crashes + 1
  /\ h' = [c \in Clients |-> Idle]
  /\ lost' = lost \cup {h[c].event : c \in Pending}
  /\ UNCHANGED <<storeVars, seen, events>>

Handler(c) == PutCreate(c) \/ PutUpdate(c) \/ DeleteWrite(c) \/ Publish(c)

Expected(c) == IF seen[c] = NoDoc THEN {0} ELSE {0, seen[c].doc.gen}

Request(c) ==
  \/ \E key \in Keys : handleScopeGet(c, key)
  \/ \E key \in Keys, spec \in Specs, labels \in Labels, phase \in CallerPhases :
       handleCreate(c, key, spec, labels, phase)
  \/ \E key \in Keys, spec \in Specs, labels \in Labels \cup {NoLabels}, expected \in Expected(c) :
       PutGet(c, key, spec, labels, expected)
  \/ \E id \in DOMAIN byID : DeleteGet(c, id)

ApiNext == (\E c \in Clients : Request(c) \/ Handler(c)) \/ Crash

ApiSpec == ApiInit /\ [][ApiNext]_apiVars

-----------------------------------------------------------------------------
(* Properties.                                                             *)

\* What audit and events must agree on: which mutation of which resource, and
\* the generation it made.  A deleted event carries the generation the
\* handler read before the delete, which an update may have passed since.
Told(e) == IF e.action = "deleted" THEN <<e.action, e.id>> ELSE <<e.action, e.id, e.gen>>

\* Every audited mutation has exactly one event: published, still in the
\* handler that committed it, or cut off by a crash.  No event is published
\* twice, for a no-op PUT, or for a write that failed.
EventsMatchAudit ==
  /\ {Told(audit[i]) : i \in DOMAIN audit} =
       {Told(events[i]) : i \in DOMAIN events} \cup {Told(h[c].event) : c \in Pending}
       \cup {Told(e) : e \in lost}
  /\ Len(audit) = Len(events) + Cardinality(Pending) + Cardinality(lost)

\* Client c's PUT commits in this step.
Commits(c) == h[c].pc = "put" /\ h'[c].pc = "publish"

\* A PUT that echoes the generation its client read overwrites, on the
\* resource it read, nothing but what it read: updates and deletes of other
\* clients in between make it fail (handleScopePut passes in.Generation to
\* the store's CAS).  A resource re-created at the address is another one,
\* of which the generation says nothing.
CASNoLostUpdate ==
  [][\A c \in Clients :
       Commits(c) /\ h[c].expected # 0 /\ h[c].target = seen[c].id
         => specLabelsEqual(byID[h[c].target], seen[c].doc)]_apiVars
=============================================================================
