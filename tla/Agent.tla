------------------------------- MODULE Agent -------------------------------
(***************************************************************************)
(* The node agent (agent/ryvex-agent) against the store behind the REST    *)
(* API: one agent that keeps its own Node resource registered, among       *)
(* others who edit and delete the same resource.                           *)
(*                                                                         *)
(* The agent makes one request at a time and waits five seconds for the    *)
(* answer.  A request it gave up is not gone: it may reach the daemon, or  *)
(* run on in a handler there, while the agent talks to the daemon over     *)
(* another connection.                                                     *)
(*                                                                         *)
(* Waiting is not timed: the ticker and the backoff (backoff.rs) only say  *)
(* how long the agent stays "idle" before the next sync.  The events that  *)
(* the handlers publish are Api's subject; nothing here looks at them.     *)
(***************************************************************************)
EXTENDS Store

CONSTANTS Node,         \* the agent's node_path, a logical key
          Meta,         \* the labels of its document
          Connections,  \* the agent's connections to the daemon
          HandWritten,  \* the spec others write into the node resource
          Free,         \* a connection with no request on it
          Attempts,     \* attempts of one sync_node (3 in the code)
          MaxWindows,   \* bound: spec-refresh windows that elapse
          MaxEdits,     \* bound: writes of others
          MaxFaults,    \* bound: lost, late or refused requests, agent restarts
          MaxCrashes    \* bound: daemon crashes

ASSUME AttemptsAssumption == Attempts \in Nat \ {0}

ASSUME NodeAssumption == Node \in Keys /\ Meta \in Labels /\ HandWritten \in ValidSpecs

VARIABLES
  ag,      \* the agent: where sync_node is, its locals, and SyncState
  conn,    \* conn[s]: the PUT on connection s, on its way, in its handler or answered
  beat,    \* the newest timestamp put into spec.last_seen
  windows, edits, faults, crashes

counters == <<windows, edits, faults, crashes>>
agentVars == <<storeVars, ag, conn, beat, counters>>

\* node_document: of the spec only last_seen and the draining message vary.
node_document(lastSeen, draining) == [seen |-> lastSeen, draining |-> draining]

\* A process that has just started: no last_seen yet (0).
Started == [pc |-> "idle", attempt |-> 0, again |-> FALSE, slot |-> Free,
            last |-> 0, draining |-> FALSE, outcome |-> "none"]

AgentInit ==
  /\ Init
  /\ ag = Started
  /\ conn = [s \in Connections |-> Free]
  /\ beat = 0 /\ windows = 0 /\ edits = 0 /\ faults = 0 /\ crashes = 0

-----------------------------------------------------------------------------
(* sync_node.                                                              *)

\* A variant without the throttle: a new timestamp with every heartbeat.
next_last_seen_Always(due) == beat + 1

\* next_last_seen: a new timestamp when there is none or the refresh window
\* has elapsed (due), the previous one otherwise.
next_last_seen(due) == IF ag.last = 0 \/ due THEN beat + 1 ELSE ag.last

\* A tick, or a signal (then the message is "draining"): sync_node begins by
\* choosing the last_seen that all its attempts carry.
Sync(due, signal) ==
  /\ ag.pc = "idle"
  /\ due => ag.last # 0 /\ windows < MaxWindows
  /\ windows' = IF due THEN windows + 1 ELSE windows
  /\ ag' = [ag EXCEPT !.pc = "fetch", !.last = next_last_seen(due), !.draining = signal,
                      !.outcome = "none"]
  /\ beat' = ag'.last
  /\ UNCHANGED <<storeVars, conn, edits, faults, crashes>>

\* sync_node returns: main waits for the next tick, or ends after draining.
Return(outcome) ==
  ag' = [ag EXCEPT !.pc = IF ag.draining THEN "exit" ELSE "idle", !.outcome = outcome,
                   !.attempt = 0, !.again = FALSE, !.slot = Free]

\* What sync_node does with put_node's outcome, a conflict aside: the second
\* PUT of an attempt counts only when it succeeds.
Decide(outcome) ==
  IF ag.again /\ outcome # "upserted"
    THEN ag' = [ag EXCEPT !.pc = "fetch", !.attempt = @ + 1, !.again = FALSE, !.slot = Free]
    ELSE Return(outcome)

Registered == Node \in DOMAIN byLogic

\* fetch_node: the id and generation stored now, 0 when there is no node.
fetch_node ==
  IF Registered THEN [id |-> byLogic[Node], gen |-> byID[byLogic[Node]].gen]
  ELSE [id |-> 0, gen |-> 0]

\* put_node, the request: the document and the generation just fetched.
Send(s, again) ==
  /\ ag' = [ag EXCEPT !.pc = "wait", !.slot = s, !.again = again]
  /\ conn' = [conn EXCEPT ![s] = [pc |-> "sent", spec |-> node_document(ag.last, ag.draining),
                                  read |-> fetch_node]]
  /\ UNCHANGED <<storeVars, beat, counters>>

\* A variant that reports a missing node and does not create it.
Fetch_NeverCreates(s) ==
  /\ ag.pc = "fetch" /\ conn[s] = Free
  /\ IF Registered THEN Send(s, FALSE)
     ELSE Return("missing") /\ UNCHANGED <<storeVars, conn, beat, counters>>

\* One attempt of the loop: the GET, then the PUT over a connection.
Fetch(s) == ag.pc = "fetch" /\ conn[s] = Free /\ Send(s, FALSE)

\* put_node's answer.  On 409 the fresh generation is fetched (Refetch).
Answer ==
  /\ ag.pc = "wait" /\ conn[ag.slot].pc = "answered"
  /\ conn' = [conn EXCEPT ![ag.slot] = Free]
  /\ LET status == conn[ag.slot].status
     IN IF status = "conflict" THEN ag' = [ag EXCEPT !.pc = "refetch"] ELSE Decide(status)
  /\ UNCHANGED <<storeVars, beat, counters>>

\* A variant that hands the last attempt's conflict to main.
Refetch_LeaksConflict ==
  /\ ag.pc = "refetch"
  /\ IF Registered /\ ~ag.again /\ ag.attempt < Attempts - 1
       THEN Send(ag.slot, TRUE)
       ELSE /\ IF Registered /\ ~ag.again THEN Return("conflict") ELSE Decide("missing")
            /\ UNCHANGED <<storeVars, conn, beat, counters>>

\* The GET after a 409.  Gone: Missing.  Otherwise a conflict: the first PUT
\* of an attempt is repeated with the fresh generation, the second one leads
\* to the next attempt, and in the last attempt the agent gives up.
Refetch ==
  /\ ag.pc = "refetch"
  /\ IF Registered /\ ~ag.again /\ ag.attempt < Attempts - 1
       THEN Send(ag.slot, TRUE)
       ELSE /\ Decide(IF Registered THEN "transient" ELSE "missing")
            /\ UNCHANGED <<storeVars, conn, beat, counters>>

-----------------------------------------------------------------------------
(* What can go wrong on the way.                                           *)

Fault == faults < MaxFaults /\ faults' = faults + 1 /\ UNCHANGED <<windows, edits, crashes>>

\* fetch_node fails (no connection, 5xx, timeout): Transient.
GetFails ==
  /\ Fault
  /\ \/ ag.pc = "fetch" /\ Return("transient")
     \/ ag.pc = "refetch" /\ Decide("transient")
  /\ UNCHANGED <<storeVars, conn, beat>>

\* The PUT takes too long: the agent gives it up wherever it is.
TimeOut ==
  /\ Fault
  /\ ag.pc = "wait"
  /\ Decide("transient")
  /\ conn' = IF conn[ag.slot].pc = "answered" THEN [conn EXCEPT ![ag.slot] = Free] ELSE conn
  /\ UNCHANGED <<storeVars, beat>>

\* The PUT never reaches a handler: the connection breaks or a proxy answers
\* 5xx (Transient), or the request is refused before it (Rejected).
Undelivered ==
  /\ Fault
  /\ ag.pc = "wait" /\ conn[ag.slot].pc = "sent"
  /\ conn' = [conn EXCEPT ![ag.slot] = Free]
  /\ \E outcome \in {"transient", "rejected"} : Decide(outcome)
  /\ UNCHANGED <<storeVars, beat>>

\* The agent dies and is started again: SyncState is lost.
AgentRestart ==
  /\ Fault
  /\ ag.pc # "exit"
  /\ ag' = Started
  /\ conn' = [s \in Connections |->
                IF conn[s] # Free /\ conn[s].pc = "answered" THEN Free ELSE conn[s]]
  /\ UNCHANGED <<storeVars, beat>>

\* The daemon dies with the requests its handlers are at (the store survives):
\* the agent sees its connection reset.
Crash ==
  /\ crashes < MaxCrashes
  /\ crashes' = crashes + 1
  /\ conn' = [s \in Connections |->
                IF conn[s] # Free /\ conn[s].pc = "handling" THEN Free ELSE conn[s]]
  /\ IF ag.slot # Free /\ conn'[ag.slot] = Free THEN Decide("transient") ELSE UNCHANGED ag
  /\ UNCHANGED <<storeVars, beat, windows, edits, faults>>

-----------------------------------------------------------------------------
(* The daemon's side of a connection, and the others.                      *)

\* The request arrives: handleScopePut resolves the address.
Arrive(s) ==
  /\ conn[s] # Free /\ conn[s].pc = "sent"
  /\ conn' = [conn EXCEPT ![s] = [pc |-> "handling", spec |-> conn[s].spec, read |-> conn[s].read,
                                  target |-> IF Registered THEN byLogic[Node] ELSE 0]]
  /\ UNCHANGED <<storeVars, ag, beat, counters>>

\* stateStatus, and put_node's reading of the status.
stateStatus(outcome) ==
  CASE outcome = "ok" -> "upserted"
    [] outcome \in {"conflict", "already_exists"} -> "conflict"
    [] outcome = "not_found" -> "missing"
    [] outcome = "validation" -> "rejected"

\* A variant that does not hand the body's generation to the store.
PutOutcome_NoCAS(s) ==
  IF conn[s].target = 0 THEN CreateOutcome(Node, conn[s].spec)
  ELSE UpdateOutcome(conn[s].target, 0, conn[s].spec)

\* What the store says to the PUT on connection s: the create branch does not
\* look at the generation, the update branch hands it to the CAS.
PutOutcome(s) ==
  IF conn[s].target = 0 THEN CreateOutcome(Node, conn[s].spec)
  ELSE UpdateOutcome(conn[s].target, conn[s].read.gen, conn[s].spec)

\* The rest of handleScopePut.  The status goes to nobody if the agent has
\* given the request up.
Handle(s) ==
  /\ conn[s] # Free /\ conn[s].pc = "handling"
  /\ IF PutOutcome(s) # "ok" THEN UNCHANGED storeVars
     ELSE IF conn[s].target = 0 THEN CreateResource(Node, conn[s].spec, Meta, "")
     ELSE UpdateResource(conn[s].target, 0, conn[s].spec, Meta)
  /\ conn' = [conn EXCEPT ![s] =
               IF ag.slot = s THEN [pc |-> "answered", status |-> stateStatus(PutOutcome(s))]
               ELSE Free]
  /\ UNCHANGED <<ag, beat, counters>>

\* Somebody else creates, edits or deletes the node resource.
Edit ==
  /\ edits < MaxEdits
  /\ edits' = edits + 1
  /\ \/ CreateResource(Node, HandWritten, Meta, "")
     \/ \E id \in DOMAIN byID : UpdateResource(id, 0, HandWritten, Meta) \/ DeleteResource(id)
  /\ UNCHANGED <<ag, conn, beat, windows, faults, crashes>>

AgentStep == (\E s \in Connections : Fetch(s)) \/ Answer \/ Refetch

Daemon(s) == Arrive(s) \/ Handle(s)

AgentNext ==
  \/ \E due, signal \in BOOLEAN : Sync(due, signal)
  \/ AgentStep
  \/ GetFails \/ TimeOut \/ Undelivered \/ AgentRestart
  \/ \E s \in Connections : Daemon(s)
  \/ Crash
  \/ Edit

\* The ticker ticks and the agent runs on; what has been sent arrives or is
\* lost; a handler that has started runs on.  Nobody needs to edit, no signal
\* needs to come and no window needs to elapse.
AgentSpec ==
  /\ AgentInit /\ [][AgentNext]_agentVars
  /\ WF_agentVars(Sync(FALSE, FALSE)) /\ WF_agentVars(AgentStep)
  /\ \A s \in Connections : WF_agentVars(Daemon(s))

-----------------------------------------------------------------------------
(* Properties.                                                             *)

Outcomes == {"upserted", "missing", "transient", "rejected"}

\* The agent's locals have their types; in particular sync_node never returns
\* a Conflict to main (client.rs:195) and makes at most Attempts attempts.
AgentTypeOK ==
  /\ TypeOK
  /\ ag.pc \in {"idle", "fetch", "wait", "refetch", "exit"}
  /\ ag.attempt \in 0 .. Attempts - 1 /\ ag.again \in BOOLEAN
  /\ ag.slot \in Connections \cup {Free}
  /\ ag.last \in 0 .. beat /\ ag.draining \in BOOLEAN
  /\ ag.outcome \in Outcomes \cup {"none"}
  /\ \A s \in Connections : conn[s] = Free \/ conn[s].pc \in {"sent", "handling", "answered"}

\* Heartbeats are free (next_last_seen's rationale, client.rs:57-65): however
\* often the agent ticks and retries, the mutations in the audit trail are
\* accounted for by its enrollment, the windows that elapsed, the writes of
\* others (each undone once), the faults (a restart refreshes, a late request
\* writes an old document that is then put right) and the draining marker.
NoHeartbeatStorm ==
  seq <= 1 + windows + 2 * edits + 3 * faults + (IF ag.draining THEN 1 ELSE 0)

\* A heartbeat the agent gave up and that arrives late does not undo the
\* draining marker: once main has ended with the marker stored, a PUT of the
\* agent that echoes a generation no longer changes the resource it read.
DrainingStays ==
  [][ag.pc = "exit" /\ ag.outcome = "upserted" =>
       \A s \in Connections :
         Handle(s) /\ conn[s].read.gen # 0 /\ conn[s].target = conn[s].read.id
           => UNCHANGED byID]_agentVars

\* The node heals (client.rs:194): as long as no signal ends it, the agent
\* brings its document back again and again, whoever edited or deleted the
\* resource, whatever requests were lost or late and whoever crashed.
Heals ==
  <>(ag.draining) \/ []<>(/\ Registered
                          /\ byID[byLogic[Node]].spec = node_document(ag.last, FALSE))
=============================================================================
