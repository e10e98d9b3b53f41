-------------------------------- MODULE Feed --------------------------------
(***************************************************************************)
(* The two feeds of the REST API (internal/api/handlers.go, handleEvents   *)
(* and handleAudit) and a reader who walks one of them page by page, from  *)
(* the newest entry to the oldest, while the feed keeps growing at the top *)
(* and losing entries at the bottom.                                       *)
(*                                                                         *)
(* The audit feed hands out an offset into the filtered listing of the     *)
(* store, the event feed the sequence of the oldest event delivered.  The  *)
(* entries of both are told apart by their number: the position in the     *)
(* order of writing for an audit entry, the sequence in the id for an      *)
(* event.  A walk that nobody has begun reads nothing: the store runs with *)
(* all its operations when there is no reader, and under an audit reader   *)
(* the log grows by AppendAudit, whose entries page like any others.       *)
(***************************************************************************)
EXTENDS Store, Bus, FiniteSetsExt

CONSTANTS Wanted,    \* the keys the request's org and kind filters let through
          PageSize,  \* limit of the request
          MaxCursor, \* maxCursorOffset: the largest cursor decodeCursor accepts
          MaxEvents  \* bound: numbers the bus hands out

\* maxFeedPage + 1 = 501 is within RingSize = 1024 and within the query
\* limit of the store, so that the probe of one entry past the page is
\* honoured by both.
ASSUME PageSizeAssumption == PageSize \in 1 .. RingSize - 1

ASSUME RequestAssumption == Wanted \subseteq Keys /\ MaxCursor \in Nat

VARIABLE walk \* the reader

feedVars == <<storeVars, busVars, walk>>

\* A reader: the feed it reads, the cursor it sends next (0: none, or one
\* that decodes to the newest page), whether the last answer held a
\* next_cursor; and what it has seen: the numbers delivered, whether one of
\* them came twice, the newest number when it began and the pages it read.
NewWalk(feed) == [feed |-> feed, cursor |-> 0, open |-> TRUE,
                  got |-> {}, twice |-> FALSE, top |-> 0, pages |-> 0]

\* DecodeCursor: a token past the bound is answered 400, and the reader is
\* where it was.  Both feeds use it, for offsets and for sequences.
Decodes(cursor) == cursor <= MaxCursor

\* The numbers of the entries of a newest-first listing that pass the filter.
Numbers(list) ==
  LET kept == SelectSeq(list, LAMBDA e : e.key \in Wanted)
  IN [k \in 1 .. Len(kept) |-> kept[k].number]

UpTo(s, n) == SubSeq(s, 1, Min({n, Len(s)}))

\* The filtered newest-first sequence ListAudit materializes.
AuditFiltered ==
  Numbers([k \in 1 .. Len(audit) |-> [number |-> seq - k + 1, key |-> ListAudit[k].key]])

\* ListAudit with an offset: clamped to the end, then cut at the limit.
ListAuditPage(offset, limit) ==
  LET from == Min({offset, Len(AuditFiltered)})
  IN UpTo(SubSeq(AuditFiltered, from + 1, Len(AuditFiltered)), limit)

\* The retained events of the memory bus, newest first, cut at the limit.
Recent(limit) ==
  UpTo(Numbers([k \in 1 .. Len(ring) |->
                  LET e == ring[Len(ring) + 1 - k]
                  IN [number |-> e.id, key |-> e.subject[1]]]), limit)

\* The filter of a cursor page: strictly older than the cursor.
OlderThan(all, before) == SelectSeq(all, LAMBDA n : n < before)

\* eventPage's snapshot: the probe without a cursor, else the whole ring.
EventSnapshot(before) ==
  IF before = 0 THEN Recent(PageSize + 1) ELSE OlderThan(Recent(RingSize), before)

\* What an answer leaves with the reader: the page, and the cursor of the
\* next one when the probe found more.
Delivered(found, more, cursor, newest) ==
  LET page == UpTo(found, PageSize)
      nums == {page[k] : k \in 1 .. Len(page)}
  IN [walk EXCEPT !.cursor = IF more THEN cursor ELSE 0,
                  !.open = more,
                  !.got = @ \cup nums,
                  !.twice = @ \/ walk.got \cap nums # {},
                  !.top = IF walk.pages = 0 THEN newest ELSE @,
                  !.pages = @ + 1]

\* A variant that counts the probed entry into the next offset.
AuditAnswer_CountsProbe(found) ==
  Delivered(found, Len(found) > PageSize, walk.cursor + Len(found), seq)

\* A variant that takes a full page for a sign of more.
AuditAnswer_FullMeansMore(found) ==
  Delivered(found, Len(found) >= PageSize, walk.cursor + PageSize, seq)

\* handleAudit's answer to a listing probed one entry past the page.
AuditAnswer(found) ==
  Delivered(found, Len(found) > PageSize, walk.cursor + PageSize, seq)

-----------------------------------------------------------------------------
(* The handlers.                                                           *)

handleAudit ==
  /\ walk.feed = "audit" /\ walk.open /\ Decodes(walk.cursor)
  /\ walk' = AuditAnswer(ListAuditPage(walk.cursor, PageSize + 1))
  /\ UNCHANGED <<storeVars, busVars>>

\* handleEvents without ?from= (Stream.tla has that face), and eventPage.
handleEvents ==
  LET found == EventSnapshot(walk.cursor)
      more == Len(found) > PageSize
  IN /\ walk.feed = "events" /\ walk.open /\ Decodes(walk.cursor)
     /\ walk' = Delivered(found, more, IF more THEN found[PageSize] ELSE 0, next)
     /\ UNCHANGED <<storeVars, busVars>>

\* An event about a key is published; its org is the one of the key.
PublishEvent(key) ==
  /\ walk.feed = "events" /\ next < MaxEvents
  /\ Accept(<<key>>)
  /\ UNCHANGED <<storeVars, walk>>

FeedInit ==
  /\ Init /\ BusInit
  /\ \E feed \in {"none", "audit", "events"} : walk = NewWalk(feed)

FeedNext ==
  \/ walk.feed = "none" /\ Next /\ UNCHANGED <<busVars, walk>>
  \/ /\ walk.feed = "audit"
     /\ \E e \in AuditEntry : e.action \in Reports /\ AppendAudit(e)
     /\ UNCHANGED <<busVars, walk>>
  \/ \E key \in Keys : PublishEvent(key)
  \/ handleAudit
  \/ handleEvents

FeedSpec == FeedInit /\ [][FeedNext]_feedVars

-----------------------------------------------------------------------------
(* Properties.                                                             *)

\* The numbers a feed still holds for the reader, and how many it can hold.
Retained == IF walk.feed = "audit"
              THEN {AuditFiltered[k] : k \in 1 .. Len(AuditFiltered)}
              ELSE {Recent(RingSize)[k] : k \in 1 .. Len(Recent(RingSize))}

Capacity == IF walk.feed = "audit" THEN AuditCap ELSE RingSize

\* A walk misses only what is gone: of the entries that were there when it
\* began and still are, it has delivered every one down to the oldest it
\* has reached, and all of them once an answer carries no next_cursor,
\* however many entries arrive or leave between two pages (eventPage and
\* handleAudit).  The event feed also delivers none twice: its cursor is a
\* sequence and not an offset, which new entries shift.
WalkExact ==
  /\ walk.pages > 0 =>
       \A n \in Retained :
         n <= walk.top => n \in walk.got \/ (walk.open /\ \A m \in walk.got : n < m)
  /\ walk.feed = "events" => ~ walk.twice

\* A walk ends within the pages a full feed takes, although the feed keeps
\* growing under it: a cursor is only handed out where an entry follows,
\* and a stale one leads to an empty last page (the "never-error,
\* never-loop" contract of issue #107).
WalkIsBounded == walk.pages * PageSize < Capacity + PageSize

=============================================================================
