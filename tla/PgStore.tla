------------------------------ MODULE PgStore ------------------------------
(***************************************************************************)
(* The PostgreSQL resource store (internal/state/pgstore/pgstore.go).      *)
(*                                                                         *)
(* Store.tla's operations are one action each because a mutex makes them   *)
(* so.  Here each is a READ COMMITTED transaction of several statements,   *)
(* and a statement is an action: transactions of several callers (and of   *)
(* several control-plane processes on one database) interleave between     *)
(* statements, wait for each other's row locks, and end at any point when  *)
(* the statement fails, the ten-second context runs out or the process     *)
(* dies.  What the module shows is that callers cannot tell: the committed *)
(* tables implement Store.                                                 *)
(*                                                                         *)
(* From PostgreSQL the model takes: SELECT ... FOR UPDATE waits for the    *)
(* row's lock and then reads the newest committed row; an INSERT that      *)
(* meets another transaction's uncommitted write of the same unique key    *)
(* waits for it; the audit table's serial column hands out its number at   *)
(* the INSERT, never takes one back, and knows nothing of commit order.    *)
(***************************************************************************)
EXTENDS Resource, Integers, FiniteSets

CONSTANTS Clients,      \* concurrent callers of the store
          CallerPhases, \* phases clients put into the documents they create
          StatusWrites, \* the (phase, message) pairs status writers write
          Expected,     \* ExpectedGeneration values of callers; 0 skips the check
          MaxCalls      \* bound: calls ever made

ASSUME InputsAssumption ==
  /\ CallerPhases \subseteq Phases \cup {""}
  /\ StatusWrites \subseteq Phases \X Messages
  /\ Expected \subseteq Nat

ASSUME MaxCallsAssumption == MaxCalls \in Nat \ {0}

VARIABLES
  rows,   \* table resources, committed: id -> document
  audit,  \* table audit, committed: seq -> entry
  serial, \* the audit table's serial column: numbers handed out
  minted, \* ids handed out by newID
  tx,     \* tx[c]: the transaction c is in
  calls,  \* calls made so far (bound)
  hist    \* history: the audit numbers in the order their rows were committed

vars == <<rows, audit, serial, minted, tx, calls, hist>>

Idle == [pc |-> "idle"]

\* The row of a transaction that has read none.
NoDoc == <<>>

\* Calls on one existing row; the others are "create" and "report".
RowOps == {"update", "status", "delete"}

\* The transaction holds its row's lock, or has inserted its row.
Holds(c) == tx[c].pc \in {"locked", "written", "audited"} /\ tx[c].op # "report"

\* The row of id is free for c.
Free(c, id) == \A o \in Clients \ {c} : Holds(o) => tx[o].id # id

\* Uncommitted writes of other transactions to the row with this unique key.
KeyBusy(c, key) ==
  \E o \in Clients \ {c} : Holds(o) /\ tx[o].pc # "locked" /\ tx[o].cur.key = key

\* auditFor: the entry of a store-made change.
auditFor(t) ==
  [action |-> CASE t.op = "create" -> "created" [] t.op = "update" -> "updated"
                [] t.op = "status" -> "status_changed" [] t.op = "delete" -> "deleted"
                [] t.op = "report" -> "report",
   id |-> t.id, key |-> t.work.key, gen |-> t.work.gen]

\* The end of a transaction, with COMMIT or without: locks and pending rows go.
End(c) == tx' = [tx EXCEPT ![c] = Idle]

Move(c, t) == tx' = [tx EXCEPT ![c] = t]

tables == <<rows, audit, hist>>

-----------------------------------------------------------------------------
(* The statements.                                                         *)

\* A call: what it is about, the row it locked (cur), the row it leaves
\* (work), and its audit entry's number.
Call(pc, op, id, args, doc) ==
  [pc |-> pc, op |-> op, id |-> id, args |-> args, cur |-> doc, work |-> doc, seq |-> 0]

Begin(c, call) ==
  /\ tx[c].pc = "idle"
  /\ calls < MaxCalls
  /\ calls' = calls + 1
  /\ Move(c, call)
  /\ UNCHANGED <<tables, serial>>

\* Ids a caller can know: those some committed entry names.
Known == {audit[s].id : s \in DOMAIN audit}

\* BeginTx of the operations on one row.
BeginUpdate(c) ==
  /\ \E id \in Known, g \in Expected, spec \in Specs, labels \in Labels \cup {NoLabels} :
       Begin(c, Call("begun", "update", id,
                     [expected |-> g, spec |-> spec, labels |-> labels], NoDoc))
  /\ UNCHANGED minted

BeginStatus(c) ==
  /\ \E id \in Known, w \in StatusWrites : Begin(c, Call("begun", "status", id, w, NoDoc))
  /\ UNCHANGED minted

BeginDelete(c) ==
  /\ \E id \in Known : Begin(c, Call("begun", "delete", id, <<>>, NoDoc))
  /\ UNCHANGED minted

BeginRow(c) == BeginUpdate(c) \/ BeginStatus(c) \/ BeginDelete(c)

\* AppendAudit, about a document its caller has read: no transaction of its
\* own, one INSERT that commits by itself.
AppendAudit(c) ==
  /\ \E id \in DOMAIN rows : Begin(c, Call("written", "report", id, <<>>, rows[id]))
  /\ UNCHANGED minted

\* CreateResource: Validate comes before anything else; then the document,
\* its id and the transaction.
BeginCreate(c) ==
  /\ \E key \in Keys, spec \in Specs, labels \in Labels, phase \in CallerPhases :
       /\ Validate(spec)
       /\ Begin(c, Call("begun", "create", minted + 1, <<>>, Created(key, spec, labels, phase)))
  /\ minted' = minted + 1

\* A variant that trusts a look-up in place of the unique index's answer.
Insert_NoWait(c) ==
  /\ tx[c].pc = "begun" /\ tx[c].op = "create"
  /\ IF \E id \in DOMAIN rows : rows[id].key = tx[c].cur.key
       THEN End(c)
       ELSE Move(c, [tx[c] EXCEPT !.pc = "written"])
  /\ UNCHANGED <<tables, serial, minted, calls>>

\* A variant that retries on a unique violation.
Insert_Retries(c) ==
  /\ tx[c].pc = "begun" /\ tx[c].op = "create"
  /\ ~KeyBusy(c, tx[c].cur.key)
  /\ \A id \in DOMAIN rows : rows[id].key # tx[c].cur.key
  /\ Move(c, [tx[c] EXCEPT !.pc = "written"])
  /\ UNCHANGED <<tables, serial, minted, calls>>

\* INSERT INTO resources: waits for an uncommitted write of the key, then is
\* a unique violation (ErrAlreadyExists) or goes in.
Insert(c) ==
  /\ tx[c].pc = "begun" /\ tx[c].op = "create"
  /\ ~KeyBusy(c, tx[c].cur.key)
  /\ IF \E id \in DOMAIN rows : rows[id].key = tx[c].cur.key
       THEN End(c)
       ELSE Move(c, [tx[c] EXCEPT !.pc = "written"])
  /\ UNCHANGED <<tables, serial, minted, calls>>

\* A variant that leaves the generation check to the guarded UPDATE.
SelectForUpdate_NoCAS(c) ==
  /\ tx[c].pc = "begun" /\ tx[c].op \in RowOps
  /\ Free(c, tx[c].id)
  /\ LET t == tx[c]
     IN IF t.id \notin DOMAIN rows
          THEN End(c)
          ELSE Move(c, [t EXCEPT !.pc = "locked", !.cur = rows[t.id]])
  /\ UNCHANGED <<tables, serial, minted, calls>>

\* SELECT ... FOR UPDATE: waits for the lock, then ErrNotFound, ErrConflict
\* (updates only) or the locked row.
SelectForUpdate(c) ==
  /\ tx[c].pc = "begun" /\ tx[c].op \in RowOps
  /\ Free(c, tx[c].id)
  /\ LET t == tx[c]
     IN IF t.id \notin DOMAIN rows \/ (t.op = "update" /\ t.args.expected \notin {0, rows[t.id].gen})
          THEN End(c)
          ELSE Move(c, [t EXCEPT !.pc = "locked", !.cur = rows[t.id]])
  /\ UNCHANGED <<tables, serial, minted, calls>>

\* UPDATE ... WHERE id AND generation: the edited copy, validated; no row hit
\* is ErrNotFound or ErrConflict.
Update(c) ==
  LET t == tx[c]
      new == Bumped(t.cur, Edited(t.cur, t.args.spec, t.args.labels))
  IN /\ t.pc = "locked" /\ t.op = "update"
     /\ Free(c, t.id)
     /\ IF Validate(t.args.spec) /\ t.id \in DOMAIN rows /\ rows[t.id].gen = t.cur.gen
          THEN Move(c, [t EXCEPT !.pc = "written", !.work = new])
          ELSE End(c)
     /\ UNCHANGED <<tables, serial, minted, calls>>

\* A variant that leaves observed_gen out of the UPDATE.
Stamp_KeepsObserved(c) ==
  LET t == tx[c]
  IN /\ t.pc = "locked" /\ t.op = "status"
     /\ Free(c, t.id)
     /\ Move(c, [t EXCEPT !.pc = "written",
                          !.work = [t.cur EXCEPT !.phase = t.args[1], !.msg = t.args[2]]])
     /\ UNCHANGED <<tables, serial, minted, calls>>

\* UpdateStatus's UPDATE: observed_gen = generation, no generation guard.
Stamp(c) ==
  LET t == tx[c]
  IN /\ t.pc = "locked" /\ t.op = "status"
     /\ Free(c, t.id)
     /\ Move(c, [t EXCEPT !.pc = "written", !.work = Stamped(t.cur, t.args[1], t.args[2])])
     /\ UNCHANGED <<tables, serial, minted, calls>>

\* DELETE FROM resources.
DeleteRow(c) ==
  LET t == tx[c]
  IN /\ t.pc = "locked" /\ t.op = "delete"
     /\ Free(c, t.id)
     /\ Move(c, [t EXCEPT !.pc = "written", !.work = t.cur])
     /\ UNCHANGED <<tables, serial, minted, calls>>

\* A transaction without an audit row: the update that changed nothing.
Unaudited(t) == t.op = "update" /\ specLabelsEqual(t.cur, t.work)

\* A variant that writes the audit row outside the transaction, beforehand.
insertAudit_Outside(c) ==
  /\ tx[c].pc = "written"
  /\ ~Unaudited(tx[c])
  /\ serial' = serial + 1
  /\ Move(c, [tx[c] EXCEPT !.pc = "audited", !.seq = serial + 1])
  /\ audit' = MapPut(audit, serial + 1, auditFor(tx[c]))
  /\ hist' = Append(hist, serial + 1)
  /\ UNCHANGED <<rows, minted, calls>>

\* insertAudit: the entry takes its number now and is seen at COMMIT.
insertAudit(c) ==
  /\ tx[c].pc = "written"
  /\ ~Unaudited(tx[c])
  /\ serial' = serial + 1
  /\ Move(c, [tx[c] EXCEPT !.pc = "audited", !.seq = serial + 1])
  /\ UNCHANGED <<tables, minted, calls>>

\* The resources table with t's write in it.
Written(t) ==
  CASE t.op = "delete" -> MapDelete(rows, t.id)
    [] t.op = "report" -> rows
    [] OTHER -> MapPut(rows, t.id, t.work)

\* COMMIT: the row and its audit entry become visible together.  Whether the
\* caller hears of it is another matter: an error from Commit says nothing.
Commit(c) ==
  /\ \/ tx[c].pc = "audited"
     \/ tx[c].pc = "written" /\ Unaudited(tx[c])
  /\ LET t == tx[c]
     IN /\ rows' = Written(t)
        /\ IF t.pc = "audited"
             THEN /\ audit' = MapPut(audit, t.seq, auditFor(t))
                  /\ hist' = Append(hist, t.seq)
             ELSE UNCHANGED <<audit, hist>>
  /\ End(c)
  /\ UNCHANGED <<serial, minted, calls>>

\* A statement fails, the context expires (also while waiting for a lock), or
\* the process dies: the deferred Rollback, or the server, undoes everything.
Rollback(c) ==
  /\ tx[c].pc # "idle"
  /\ End(c)
  /\ UNCHANGED <<tables, serial, minted, calls>>

-----------------------------------------------------------------------------

\* ListAudit without a filter: what is committed, ORDER BY seq DESC.
ListAudit ==
  LET seqs == DOMAIN audit
  IN [k \in 1 .. Cardinality(seqs) |->
        audit[CHOOSE s \in seqs : Cardinality({n \in seqs : n >= s}) = k]]

Init ==
  /\ rows = <<>>
  /\ audit = <<>>
  /\ serial = 0
  /\ minted = 0
  /\ tx = [c \in Clients |-> Idle]
  /\ calls = 0
  /\ hist = <<>>

\* The statements after the first of a call under way.
Step(c) ==
  \/ Insert(c) \/ SelectForUpdate(c)
  \/ Update(c) \/ Stamp(c) \/ DeleteRow(c)
  \/ insertAudit(c) \/ Commit(c)

Next ==
  \E c \in Clients :
    \/ BeginCreate(c) \/ BeginRow(c) \/ AppendAudit(c)
    \/ Step(c) \/ Rollback(c)

\* A call that can go on does: its goroutine runs and the server answers.
\* Nothing is assumed of timeouts: calls must end without their help.
Fairness == \A c \in Clients : WF_vars(Step(c))

Spec == Init /\ [][Next]_vars /\ Fairness

-----------------------------------------------------------------------------
(* Properties.                                                             *)

\* ListAudit orders by number, not by commit: still, the first mutation entry
\* of a resource in the listing says whether the resource exists and at which
\* generation.  Numbers are handed out under the row's lock, so the entries
\* of one resource are numbered in the order of its changes.
ListingTellsState ==
  LET list == ListAudit
      Of(id) == {k \in 1 .. Len(list) : list[k].id = id /\ list[k].action # "report"}
  IN \A k \in 1 .. Len(list) :
       LET e == list[k]
       IN (k \in Of(e.id) /\ \A j \in Of(e.id) : k <= j) =>
            /\ e.id \in DOMAIN rows <=> e.action # "deleted"
            /\ e.id \in DOMAIN rows => e.gen = rows[e.id].gen

\* What one address went through reads in order too, across its resources: an
\* address freed by a delete is taken again only by a transaction numbered
\* after it (the INSERT waits for the delete to be over).
AddressHistoryOrdered ==
  \A i, j \in 1 .. Len(hist) :
    LET a == audit[hist[i]]
        b == audit[hist[j]]
    IN (i < j /\ a.key = b.key /\ "report" \notin {a.action, b.action}) => hist[i] < hist[j]

\* The optimistic lock holds at the COMMIT, not just when it was checked: an
\* update that expected generation g replaces generation g, by g + 1 or, when
\* it changes nothing, by g again.
NoLostUpdate ==
  [][\A c \in Clients :
       (tx[c].pc \in {"written", "audited"} /\ tx[c].op = "update" /\ Commit(c)) =>
          LET t == tx[c]
          IN /\ t.id \in DOMAIN rows
             /\ t.args.expected \in {0, rows[t.id].gen}
             /\ rows'[t.id].gen - rows[t.id].gen =
                  IF specLabelsEqual(rows[t.id], rows'[t.id]) THEN 0 ELSE 1]_vars

\* Lock waits never close a circle: every call ends, with no timeout's help.
CallsEnd == \A c \in Clients : tx[c].pc = "begun" ~> tx[c].pc = "idle"

\* The ids in the order their creation was committed.
Order ==
  LET created == SelectSeq(hist, LAMBDA s : audit[s].action = "created")
  IN [n \in 1 .. Len(created) |-> audit[created[n]].id]

Place(id) == CHOOSE n \in 1 .. Len(Order) : Order[n] = id

\* The committed tables behave as the in-memory store does: every COMMIT is
\* one of Store's operations, every other statement changes nothing a caller
\* can see.  Ids are renamed by the order of creation, and Store's ring is
\* large enough to keep everything, as the audit table does.
Mem == INSTANCE Store
         WITH AuditCap <- MaxCalls, MaxIds <- MaxCalls, MaxGen <- MaxCalls, MaxSeq <- MaxCalls,
              byID <- [n \in {Place(id) : id \in DOMAIN rows} |-> rows[Order[n]]],
              byLogic <- [key \in {rows[id].key : id \in DOMAIN rows} |->
                            Place(CHOOSE id \in DOMAIN rows : rows[id].key = key)],
              nextId <- Len(Order),
              audit <- [k \in 1 .. Len(hist) |->
                          [audit[hist[k]] EXCEPT !.id = Place(@)]],
              auditWrite <- 0, auditEvicted <- 0, seq <- Len(hist)

ImplementsStore == Mem!Spec
=============================================================================
