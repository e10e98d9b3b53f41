-------------------------------- MODULE Bus --------------------------------
(***************************************************************************)
(* The in-memory event bus (internal/bus/bus.go): subscriptions, the       *)
(* replay ring and the subject grammar.  One mutex guards the state, so    *)
(* each operation is one step; the handlers Publish copied run after it,   *)
(* on the publisher's goroutine (Dispatcher.tla has one).                  *)
(*                                                                         *)
(* A subject or pattern is the sequence of its dot-separated segments.     *)
(***************************************************************************)
EXTENDS Naturals, Sequences

CONSTANT RingSize

ASSUME RingSizeAssumption == RingSize \in Nat \ {0}

VARIABLES
  next, \* the counter ids are made of, shared by subscriptions and events
  ring, \* retained events, newest last
  subs  \* live subscriptions

busVars == <<next, ring, subs>>

\* Match's loop walks the segments up to the first one that decides: a ">",
\* the end of the subject, or a segment that differs.
Match(pt, st) ==
  LET passes(i) == pt[i] # ">" /\ i <= Len(st) /\ pt[i] \in {"*", st[i]}
  IN \/ \E i \in 1 .. Len(pt) : pt[i] = ">" /\ i <= Len(st) /\ \A j \in 1 .. i - 1 : passes(j)
     \/ Len(pt) = Len(st) /\ \A i \in 1 .. Len(pt) : passes(i)

BusInit == next = 0 /\ ring = <<>> /\ subs = {}

Subscribe(pattern) ==
  /\ next' = next + 1
  /\ subs' = subs \cup {[id |-> next + 1, pattern |-> pattern]}
  /\ UNCHANGED ring

Cancel(s) ==
  /\ subs' = subs \ {s}
  /\ UNCHANGED <<next, ring>>

\* The event Publish makes of a subject.
Numbered(subject) == [id |-> next + 1, subject |-> subject]

\* Publish under the lock: number the event, append it, cut the ring.
Accept(subject) ==
  LET all == Append(ring, Numbered(subject))
  IN /\ next' = next + 1
     /\ ring' = IF Len(all) > RingSize THEN SubSeq(all, Len(all) - RingSize + 1, Len(all)) ELSE all
     /\ UNCHANGED subs

\* The subscriptions whose handlers Publish copies for a subject.
Handlers(subject) == {s \in subs : Match(s.pattern, subject)}
=============================================================================
