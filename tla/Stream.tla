------------------------------- MODULE Stream -------------------------------
(***************************************************************************)
(* The JetStream event bus (internal/bus/natsbus/natsbus.go) with its      *)
(* durable consumer RYVEX_DISPATCHER, the dispatcher's durable handler     *)
(* (internal/webhook/dispatcher.go, onEventDurable) and a client of the    *)
(* sequence replay GET /v1/{org}/events?from= (internal/api/handlers.go).  *)
(*                                                                         *)
(* The NATS server is external: it appends a published message, hands a    *)
(* bound fetcher due redeliveries and then new messages, redelivers what   *)
(* was not acknowledged within AckWait, and delivers a message at most     *)
(* MaxDeliver times.  Retention (MaxAge) is left out: nothing expires.     *)
(*                                                                         *)
(* A message is known by its stream sequence.  The daemon's loop is one    *)
(* goroutine; the daemon can die between any two of its calls.  A daemon   *)
(* that fails to subscribe durably at its boot has a plain subscription    *)
(* for the rest of its life: it hears what is published, at most once, and *)
(* the consumer's messages wait for the next boot.                         *)
(***************************************************************************)
EXTENDS Naturals, Sequences, SequencesExt, FiniteSetsExt

CONSTANTS
  Messages,   \* what may be published: [kind, org]; a "garbled" one is foreign
  Batch,      \* durableBatchSize
  MaxDeliver, \* Options.MaxDeliver
  ScanCap,    \* messages one replay examines
  Org, Limit, \* the org and limit the replay client asks for
  MaxLog,     \* bound on the stream's length
  MaxFaults   \* bound on failed calls, slow handlers and crashes

ASSUME StreamAssumption ==
  /\ {Batch, MaxDeliver, ScanCap, Limit} \subseteq Nat \ {0}
  /\ {MaxLog, MaxFaults} \subseteq Nat
  /\ \A m \in Messages : m.kind \in {"plain", "subscription", "garbled"}

VARIABLES
  log,      \* the RYVEX stream
  dlq,      \* sequences found in RYVEX_DLQ
  consumer, \* start: first sequence it wants, 0 before it exists; next: first
            \* sequence never delivered
  sent,     \* sent[s]: deliveries of s so far
  out,      \* delivered and not answered
  due,      \* to be redelivered: refused, or AckWait elapsed
  done,     \* acknowledged or terminated: never delivered again
  d,        \* the daemon: where its loop is, and the batch it holds
  fanned,   \* events the dispatcher has fanned out
  replay,   \* the replay client: its cursor and the sequences it received
  mark,     \* history: the stream's length when the first subscribe began
  cut,      \* history: events whose last delivery a fault cut short
  crowded,  \* history: some replay had more matches than its limit
  faults

vars == <<log, dlq, consumer, sent, out, due, done, d, fanned, replay, mark, cut, crowded, faults>>

server == <<log, consumer, sent>>
client == <<replay, crowded>>

Seqs == 1 .. Len(log)
Down == [pc |-> "down"]
Waiting == [pc |-> "fetch"]
Live == [pc |-> "live"] \* the dispatcher's plain subscription

Init ==
  /\ log = <<>> /\ dlq = {} /\ out = {} /\ due = {} /\ done = {}
  /\ consumer = [start |-> 0, next |-> 1]
  /\ sent = [s \in 1 .. MaxLog |-> 0]
  /\ d = Down /\ fanned = {} /\ mark = 0 /\ cut = {}
  /\ replay = [from |-> 0, got |-> <<>>] /\ crowded = FALSE
  /\ faults = 0

Fault == faults < MaxFaults /\ faults' = faults + 1

\* An unanswered delivery that was the last one is history's to record.
CutShort(S) == cut' = cut \cup {s \in S : sent[s] >= MaxDeliver}

-----------------------------------------------------------------------------
(* PublishErr: persisted; persisted, but the ack is lost; or not persisted. *)

\* onEvent on the plain subscription: what can be decoded is fanned out.
Heard(m) ==
  fanned' = IF d = Live /\ m.kind # "garbled" THEN fanned \cup {Len(log) + 1} ELSE fanned

\* A fault loses the ack, or what a plain subscriber would have heard.
Publish(m) ==
  /\ Len(log) < MaxLog
  /\ log' = Append(log, m)
  /\ \/ Heard(m) /\ UNCHANGED faults
     \/ (Heard(m) \/ UNCHANGED fanned) /\ Fault
  /\ UNCHANGED <<dlq, consumer, sent, out, due, done, d, client, mark, cut>>

-----------------------------------------------------------------------------
(* SubscribeDurable at boot, and the fallback of Dispatcher.subscribe.     *)

\* A call of SubscribeDurable fails.
FallBack == d' = Live /\ Fault

\* ensureConsumer: ConsumerInfo finds the consumer (and UpdateConsumer brings
\* its options up to date), or it does not and StreamInfo says where the
\* stream ends (a failure leaves OptStartSeq 0).
ensureConsumer ==
  /\ d = Down
  /\ mark' = IF consumer.start = 0 THEN Len(log) ELSE mark
  /\ \/ consumer.start # 0 /\ d' = [pc |-> "bind"] /\ UNCHANGED faults
     \/ consumer.start = 0 /\ d' = [pc |-> "add", start |-> Len(log) + 1] /\ UNCHANGED faults
     \/ consumer.start = 0 /\ d' = [pc |-> "add", start |-> 0] /\ Fault
     \/ FallBack
  /\ UNCHANGED <<server, dlq, out, due, done, fanned, client, cut>>

\* AddConsumer.  The server may refuse a start sequence beside DeliverAll; a
\* failed call may have created the consumer all the same.
AddConsumer ==
  /\ d.pc = "add"
  /\ LET start == Max({1, d.start})
         made == consumer' = [start |-> start, next |-> start]
     IN \/ made /\ d' = [pc |-> "bind"] /\ UNCHANGED faults
        \/ d.start # 0 /\ d' = Live /\ UNCHANGED <<consumer, faults>>
        \/ (made \/ UNCHANGED consumer) /\ FallBack
  /\ UNCHANGED <<log, dlq, sent, out, due, done, fanned, client, mark, cut>>

\* PullSubscribe binds the consumer, and the loop starts.
PullSubscribe ==
  /\ d.pc = "bind"
  /\ (d' = Waiting /\ UNCHANGED faults) \/ FallBack
  /\ UNCHANGED <<server, dlq, out, due, done, fanned, client, mark, cut>>

-----------------------------------------------------------------------------
(* durableLoop and dispatchDurable.                                        *)

\* What the server has for a fetch: due redeliveries with deliveries left,
\* then the messages from consumer.next on.
Available ==
  SetToSortSeq({s \in due : sent[s] < MaxDeliver}, <)
    \o [i \in 1 .. Len(log) - consumer.next + 1 |-> consumer.next + i - 1]

\* Fetch.  A timeout (nothing available) or an error only makes it try again.
Fetch ==
  /\ d = Waiting /\ Available # <<>>
  /\ LET batch == SubSeq(Available, 1, Min({Batch, Len(Available)}))
         got == ToSet(batch)
     IN /\ d' = [pc |-> "next", batch |-> batch]
        /\ sent' = [s \in DOMAIN sent |-> IF s \in got THEN sent[s] + 1 ELSE sent[s]]
        /\ out' = out \cup got
        /\ due' = due \ got
        /\ consumer' = [consumer EXCEPT !.next = Max({@} \cup {s + 1 : s \in got})]
  /\ UNCHANGED <<log, dlq, done, fanned, client, mark, cut, faults>>

\* The loop moves to the message behind the one it holds.
Advance == d' = IF Len(d.batch) = 1 THEN Waiting ELSE [pc |-> "next", batch |-> Tail(d.batch)]

\* The handler: an undecodable payload is poison; a Subscription event first
\* refreshes the dispatcher's view, which may fail; the rest is fanned out.
onEventDurable ==
  /\ d.pc = "next"
  /\ LET s == Head(d.batch)
         becomes(pc) == d' = [pc |-> pc, batch |-> d.batch]
     IN \/ log[s].kind = "garbled" /\ becomes("poison") /\ UNCHANGED <<fanned, faults>>
        \/ log[s].kind # "garbled" /\ becomes("ack") /\ fanned' = fanned \cup {s} /\ UNCHANGED faults
        \/ log[s].kind = "subscription" /\ becomes("failed") /\ Fault /\ UNCHANGED fanned
  /\ UNCHANGED <<server, dlq, out, due, done, client, mark, cut>>

Answer(s) == out' = out \ {s} /\ due' = due \ {s} /\ done' = done \cup {s}

\* Success is acknowledged; a lost ack leaves the delivery unanswered.
Ack ==
  /\ d.pc = "ack"
  /\ \/ Answer(Head(d.batch)) /\ UNCHANGED faults
     \/ Fault /\ UNCHANGED <<out, due, done>>
  /\ Advance
  /\ UNCHANGED <<server, dlq, fanned, client, mark, cut>>

Refuse(s) ==
  /\ out' = out \ {s}
  /\ due' = IF s \in done THEN due ELSE due \cup {s}
  /\ UNCHANGED done

\* A variant that compares with > instead of >=.
Failed_OffByOne ==
  /\ d.pc = "failed"
  /\ LET s == Head(d.batch)
     IN IF sent[s] > MaxDeliver
        THEN d' = [d EXCEPT !.pc = "max_deliver"] /\ UNCHANGED <<out, due, done>>
        ELSE Refuse(s) /\ Advance
  /\ UNCHANGED <<server, dlq, fanned, client, mark, cut, faults>>

\* Any other error: Nak while deliveries are left, else dead-letter.
Failed ==
  /\ d.pc = "failed"
  /\ LET s == Head(d.batch)
     IN IF sent[s] >= MaxDeliver
        THEN d' = [d EXCEPT !.pc = "max_deliver"] /\ UNCHANGED <<out, due, done>>
        ELSE Refuse(s) /\ Advance
  /\ UNCHANGED <<server, dlq, fanned, client, mark, cut, faults>>

\* A variant that terminates a poison event although it could not be
\* dead-lettered.
DeadLetter_TermsPoison ==
  /\ d.pc \in {"poison", "max_deliver"}
  /\ LET s == Head(d.batch)
     IN \/ dlq' = dlq \cup {s} /\ UNCHANGED faults
        \/ dlq' \in {dlq, dlq \cup {s}} /\ Fault
  /\ d' = [d EXCEPT !.pc = "term"]
  /\ UNCHANGED <<server, out, due, done, fanned, client, mark, cut>>

\* deadLetter: publish to RYVEX_DLQ, then terminate.  When the publish fails
\* (or only its ack is lost) a poison event is refused, to be tried again; an
\* exhausted one is terminated all the same.
DeadLetter ==
  /\ d.pc \in {"poison", "max_deliver"}
  /\ LET s == Head(d.batch)
     IN \/ /\ dlq' = dlq \cup {s}
           /\ d' = [d EXCEPT !.pc = "term"]
           /\ UNCHANGED <<out, due, done, cut, faults>>
        \/ /\ dlq' \in {dlq, dlq \cup {s}}
           /\ Fault /\ CutShort({s})
           /\ IF d.pc = "poison" THEN Refuse(s) /\ Advance
              ELSE d' = [d EXCEPT !.pc = "term"] /\ UNCHANGED <<out, due, done>>
  /\ UNCHANGED <<server, fanned, client, mark>>

Term ==
  /\ d.pc = "term"
  /\ \/ Answer(Head(d.batch)) /\ UNCHANGED faults
     \/ Fault /\ UNCHANGED <<out, due, done>>
  /\ Advance
  /\ UNCHANGED <<server, dlq, fanned, client, mark, cut>>

Held == IF d.pc \in {"down", "add", "bind", "live", "fetch"} THEN {} ELSE ToSet(d.batch)

\* AckWait elapses: for a delivery nobody holds any more, or for one whose
\* handler (or the batch before it) is slow.
AckExpires(s) ==
  /\ s \in out
  /\ IF s \in Held THEN Fault ELSE UNCHANGED faults
  /\ out' = out \ {s} /\ due' = due \cup {s}
  /\ CutShort({s})
  /\ UNCHANGED <<server, dlq, done, d, fanned, client, mark>>

\* The daemon dies; a Cancel between two messages looks the same.
Crash ==
  /\ d # Down /\ Fault
  /\ d' = Down
  /\ UNCHANGED <<server, dlq, out, due, done, fanned, client, mark, cut>>

-----------------------------------------------------------------------------
(* The replay client.                                                      *)

InOrg(S) == {s \in S : log[s].org = Org}
Decodable(S) == {s \in S : log[s].kind # "garbled"}

\* The k smallest and the k largest of a set of sequences.
First(S, k) == {s \in S : Cardinality({t \in S : t < s}) < k}
Newest(S, k) == {s \in S : Cardinality({t \in S : t > s}) < k}

\* A variant that resumes at the cursor instead of behind it.
RecentFrom_Inclusive(from) ==
  LET scanned == First(InOrg({s \in Seqs : s >= from}), ScanCap)
      matched == Decodable(scanned)
  IN [newest |-> Newest(matched, Limit), matched |-> matched,
      last |-> IF matched # {} THEN Max(matched) ELSE Max(scanned \cup {from})]

\* RecentFrom: scan forward from the cursor, keep the newest Limit matches,
\* and resume behind the newest match (or behind everything scanned).
RecentFrom(from) ==
  LET scanned == First(InOrg({s \in Seqs : s >= from + 1}), ScanCap)
      matched == Decodable(scanned)
  IN [newest |-> Newest(matched, Limit), matched |-> matched,
      last |-> IF matched # {} THEN Max(matched) ELSE Max(scanned \cup {from})]

Poll ==
  /\ LET r == RecentFrom(replay.from)
     IN /\ replay' = [from |-> r.last, got |-> replay.got \o SetToSortSeq(r.newest, <)]
        /\ crowded' = (crowded \/ Cardinality(r.matched) > Limit)
  /\ UNCHANGED <<server, dlq, out, due, done, d, fanned, mark, cut, faults>>

-----------------------------------------------------------------------------
Loop == ensureConsumer \/ AddConsumer \/ PullSubscribe \/ Fetch \/ onEventDurable \/ Ack \/ Failed \/ DeadLetter \/ Term

Next ==
  \/ \E m \in Messages : Publish(m)
  \/ Loop
  \/ \E s \in out : AckExpires(s)
  \/ Crash
  \/ Poll

\* The daemon is restarted and its loop runs; the server redelivers what
\* nobody holds.  Nobody has to publish or to poll.
Spec ==
  /\ Init /\ [][Next]_vars
  /\ WF_vars(Loop)
  /\ \A s \in 1 .. MaxLog : WF_vars(s \notin Held /\ AckExpires(s))

-----------------------------------------------------------------------------
\* "the event is acked only after it was fully processed": an event the
\* server will not deliver again was fanned out or is in the dead-letter
\* stream, unless the dead-letter publish of its last delivery failed.
AnsweredWasHandled == done \subseteq fanned \cup dlq \cup cut

\* "resume-after-restart": every event persisted since the first subscribe
\* began is eventually fanned out or dead-lettered, whatever crashed, was lost
\* or was slow, unless a fault met its last delivery or the daemon runs for
\* good on the plain subscription it fell back to (it waits there for the
\* next boot: what a daemon that fell back leaves behind, one that subscribes
\* durably later picks up).
Settles ==
  \A s \in 1 .. MaxLog :
    (s <= Len(log) /\ s > mark /\ consumer.start # 0) ~> (s \in fanned \cup dlq \cup cut \/ d = Live)

\* The replay hands out events in order and never twice, and as long as no
\* page had more matches than its limit, it has left out none.
ReplayExact ==
  /\ \A i, j \in 1 .. Len(replay.got) : i < j => replay.got[i] < replay.got[j]
  /\ crowded \/ ToSet(replay.got) = Decodable(InOrg({s \in Seqs : s <= replay.from}))
=============================================================================
