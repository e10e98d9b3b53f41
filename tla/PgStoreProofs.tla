--------------------------- MODULE PgStoreProofs ---------------------------
(***************************************************************************)
(* The row locks of the PostgreSQL store do their work for every number of *)
(* callers, resources and calls: what a transaction read under its lock is *)
(* what its COMMIT replaces.                                               *)
(***************************************************************************)
EXTENDS PgStore, TLAPS

\* A transaction under way has all its fields.
Full(t) ==
  t = [pc |-> t.pc, op |-> t.op, id |-> t.id, args |-> t.args,
       cur |-> t.cur, work |-> t.work, seq |-> t.seq]

\* It has locked a row of the table.
Held(t) == t.pc \in {"locked", "written", "audited"} /\ t.op \in RowOps

\* It is creating a row.
Creating(t) == t.pc # "idle" /\ t.op = "create"

\* What its arguments are.
ArgsOK(t) ==
  /\ t.op = "update" => t.args \in [expected : Expected, spec : Specs,
                                    labels : Labels \cup {NoLabels}]
  /\ t.op = "status" => t.args \in Phases \X Messages

\* What one transaction relies on: the id it creates is not in the table, and
\* the row it locked is in the table as it was when it was read.
TxOK(t) ==
  \/ t = Idle
  \/ /\ Full(t)
     /\ t.pc \in {"begun", "locked", "written", "audited"}
     /\ t.op \in RowOps \cup {"create", "report"}
     /\ ArgsOK(t)
     /\ Creating(t) => t.id \in 1 .. minted /\ t.id \notin DOMAIN rows /\ t.work \in Resource
     /\ Held(t) =>
          /\ t.id \in DOMAIN rows
          /\ t.cur = rows[t.id]
          /\ t.op = "update" => t.args.expected \in {0, t.cur.gen}
          /\ t.pc # "locked" => t.work \in Resource
          /\ (t.pc # "locked" /\ t.op = "update") =>
                t.work = Bumped(t.cur, Edited(t.cur, t.args.spec, t.args.labels))

\* What keeps two transactions off each other's rows.
Apart(t, u) ==
  /\ Creating(t) /\ Creating(u) => t.id # u.id
  /\ Held(t) /\ Held(u) => t.id # u.id

\* The table's rows have their type and ids newID has handed out.
RowsOK ==
  /\ minted \in Nat
  /\ \A id \in DOMAIN rows : id \in 1 .. minted /\ rows[id] \in Resource

\* The inductive invariant.
LockInv ==
  /\ RowsOK
  /\ tx = [c \in Clients |-> tx[c]]
  /\ \A c \in Clients : TxOK(tx[c])
  /\ \A c, d \in Clients : c # d => Apart(tx[c], tx[d])

\* A document edited and bumped is a document, one generation on if it differs.
LEMMA BumpedTyped ==
  ASSUME NEW r \in Resource, NEW spec \in Specs, NEW labels \in Labels \cup {NoLabels}
  PROVE  LET new == Bumped(r, Edited(r, spec, labels))
         IN /\ new \in Resource
            /\ new.gen - r.gen = IF specLabelsEqual(r, new) THEN 0 ELSE 1
<1> DEFINE e == Edited(r, spec, labels)
           new == Bumped(r, e)
<1>1. e \in Resource /\ e.gen = r.gen
  BY DEF Edited, Resource
<1> HIDE DEF e
<1>2. /\ new \in Resource
      /\ new.spec = e.spec /\ new.labels = e.labels
      /\ new.gen = IF specLabelsEqual(r, e) THEN r.gen ELSE r.gen + 1
  BY <1>1 DEF Bumped, Resource
<1>3. specLabelsEqual(r, new) <=> specLabelsEqual(r, e)
  BY <1>2 DEF specLabelsEqual
<1> HIDE DEF new
<1>4. r.gen \in Nat
  BY DEF Resource
<1>5. new.gen - r.gen = IF specLabelsEqual(r, new) THEN 0 ELSE 1
  BY <1>2, <1>3, <1>4
<1> QED BY <1>2, <1>5 DEF new, e

\* A new document is a document.
LEMMA CreatedTyped ==
  ASSUME NEW key \in Keys, NEW spec \in Specs, NEW labels \in Labels, NEW phase \in CallerPhases
  PROVE  Created(key, spec, labels, phase) \in Resource
<1> DEFINE ph == IF phase = "" THEN "Pending" ELSE phase
<1>1. ph \in Phases /\ "plain" \in Messages
  BY InputsAssumption DEF Phases, Messages
<1>2. Created(key, spec, labels, phase)
        = [key |-> key, spec |-> spec, labels |-> labels, gen |-> 1,
           phase |-> ph, msg |-> "plain", obs |-> 0]
  BY DEF Created
<1> HIDE DEF ph
<1> QED BY <1>1, <1>2 DEF Resource

\* A statement that moves one transaction and leaves the table alone keeps the
\* invariant if the transaction's new state is legal and apart from the others.
LEMMA Moved ==
  ASSUME LockInv, NEW c \in Clients, NEW t, tx' = [tx EXCEPT ![c] = t],
         rows' = rows, minted' \in {minted, minted + 1},
         TxOK(t)', \A d \in Clients \ {c} : Apart(t, tx[d])
  PROVE  LockInv'
<1>1. RowsOK'
  BY DEF LockInv, RowsOK
<1>2. tx' = [d \in Clients |-> tx'[d]] /\ tx'[c] = t /\ \A d \in Clients \ {c} : tx'[d] = tx[d]
  BY DEF LockInv
<1>3. ASSUME NEW d \in Clients \ {c} PROVE TxOK(tx[d])'
  <2>1. TxOK(tx[d])
    BY DEF LockInv
  <2>2. tx'[d] = tx[d]
    BY <1>2
  <2>3. CASE tx[d] = Idle
    BY <2>2, <2>3 DEF TxOK, Idle
  <2>4. CASE tx[d] # Idle
    <3>1. Creating(tx[d]) => tx[d].id \in 1 .. minted
      BY <2>1, <2>4 DEF TxOK
    <3>2. Creating(tx[d]) => tx[d].id \in 1 .. minted'
      BY <3>1 DEF LockInv, RowsOK
    <3> QED BY <2>1, <2>2, <2>4, <3>2 DEF TxOK, Held, Creating, ArgsOK, Full
  <2> QED BY <2>3, <2>4
<1>4. \A d \in Clients : TxOK(tx[d])'
  BY <1>2, <1>3
<1>5. ASSUME NEW d \in Clients, NEW e \in Clients, d # e PROVE Apart(tx'[d], tx'[e])
  <2>1. Apart(tx[d], tx[e])
    BY <1>5 DEF LockInv
  <2> QED BY <1>2, <1>5, <2>1 DEF Apart
<1> QED BY <1>1, <1>2, <1>4, <1>5 DEF LockInv

\* The end of a transaction that wrote nothing.
LEMMA Ended ==
  ASSUME LockInv, NEW c \in Clients, End(c), rows' = rows, minted' = minted
  PROVE  LockInv'
<1>1. TxOK(Idle)' /\ \A d \in Clients \ {c} : Apart(Idle, tx[d])
  BY DEF TxOK, Apart, Idle, Held, Creating
<1> QED BY <1>1, Moved DEF End

\* A transaction that goes on with its own row stays apart from the others.
LEMMA GoesOn ==
  ASSUME LockInv, NEW c \in Clients, NEW t, t.op = tx[c].op, t.id = tx[c].id,
         tx[c].pc # "idle", Held(t) => Held(tx[c])
  PROVE  \A d \in Clients \ {c} : Apart(t, tx[d])
BY DEF LockInv, Apart, Creating

\* A call that begins has locked nothing; what it creates has a new id.
LEMMA Begun ==
  ASSUME LockInv, NEW c \in Clients, NEW t, Begin(c, t), minted' \in {minted, minted + 1},
         Full(t), t.pc \in {"begun", "written"}, t.op \in RowOps \cup {"create", "report"},
         ArgsOK(t), ~Held(t),
         Creating(t) => t.id = minted + 1 /\ minted' = minted + 1 /\ t.work \in Resource
  PROVE  LockInv'
<1>1. minted \in Nat /\ \A id \in DOMAIN rows : id \in 1 .. minted
  BY DEF LockInv, RowsOK
<1>2. rows' = rows /\ tx' = [tx EXCEPT ![c] = t]
  BY DEF Begin, tables, Move
<1>3. TxOK(t)'
  <2>1. Creating(t) => t.id \in 1 .. minted' /\ t.id \notin DOMAIN rows' /\ t.work \in Resource
    BY <1>1, <1>2
  <2> QED BY <2>1 DEF TxOK, Held, Creating, ArgsOK, Full
<1>4. ASSUME NEW d \in Clients \ {c} PROVE Apart(t, tx[d])
  <2>1. TxOK(tx[d])
    BY DEF LockInv
  <2>2. Creating(tx[d]) => tx[d].id \in 1 .. minted
    BY <2>1 DEF TxOK, Creating, Idle
  <2> QED BY <1>1, <2>2 DEF Apart
<1> QED BY <1>2, <1>3, <1>4, Moved

\* COMMIT: what the others locked is still as they read it.
LEMMA Committed ==
  ASSUME LockInv, NEW c \in Clients, Commit(c)
  PROVE  LockInv'
<1> DEFINE t == tx[c]
<1>1. TxOK(t) /\ t # Idle /\ t.pc \in {"written", "audited"}
  BY DEF LockInv, Commit, Idle
<1>2. rows' = Written(t) /\ minted' = minted /\ tx' = [tx EXCEPT ![c] = Idle]
  BY DEF Commit, End
<1>3. tx' = [d \in Clients |-> tx'[d]] /\ tx'[c] = Idle /\ \A d \in Clients \ {c} : tx'[d] = tx[d]
  BY <1>2 DEF LockInv
<1>4. \/ Creating(t) /\ rows' = MapPut(rows, t.id, t.work)
      \/ Held(t) /\ rows' = MapPut(rows, t.id, t.work)
      \/ Held(t) /\ rows' = MapDelete(rows, t.id)
      \/ rows' = rows
  BY <1>1, <1>2 DEF TxOK, Written, RowOps, Creating, Held
<1>5. /\ Creating(t) => t.id \in 1 .. minted /\ t.id \notin DOMAIN rows /\ t.work \in Resource
      /\ Held(t) => t.id \in DOMAIN rows /\ t.work \in Resource
  BY <1>1 DEF TxOK
<1>6. RowsOK'
  BY <1>2, <1>4, <1>5 DEF LockInv, RowsOK, MapPut, MapDelete
<1>7. ASSUME NEW d \in Clients \ {c} PROVE TxOK(tx[d])'
  <2> DEFINE u == tx[d]
  <2>1. TxOK(u) /\ Apart(t, u)
    BY DEF LockInv
  <2>2. CASE u = Idle
    BY <1>3, <2>2 DEF TxOK, Idle
  <2>3. CASE u # Idle
    <3>1. /\ Creating(u) => u.id \in 1 .. minted /\ u.id \notin DOMAIN rows
          /\ Held(u) => u.id \in DOMAIN rows
      BY <2>1, <2>3 DEF TxOK
    <3>2. Creating(u) => u.id \notin DOMAIN rows'
      BY <1>4, <1>5, <2>1, <3>1 DEF Apart, MapPut, MapDelete
    <3>3. Held(u) => u.id \in DOMAIN rows' /\ rows'[u.id] = rows[u.id]
      BY <1>4, <1>5, <2>1, <3>1 DEF Apart, MapPut, MapDelete
    <3>4. tx'[d] = u
      BY <1>3
    <3> HIDE DEF u
    <3> QED BY <1>2, <2>1, <2>3, <3>1, <3>2, <3>3, <3>4 DEF TxOK, Held, Creating, ArgsOK, Full
  <2> QED BY <2>2, <2>3
<1>8. \A d \in Clients : TxOK(tx[d])'
  BY <1>3, <1>7 DEF TxOK
<1>9. ASSUME NEW d \in Clients, NEW e \in Clients, d # e PROVE Apart(tx'[d], tx'[e])
  <2>1. Apart(tx[d], tx[e])
    BY <1>9 DEF LockInv
  <2> QED BY <1>3, <1>9, <2>1 DEF Apart, Idle, Held, Creating
<1> QED BY <1>3, <1>6, <1>8, <1>9 DEF LockInv

\* Every step keeps the invariant: one step of the proof per statement.
LEMMA LockStep ==
  ASSUME LockInv, [Next]_vars
  PROVE  LockInv'
<1>1. ASSUME NEW c \in Clients, BeginCreate(c) PROVE LockInv'
  <2>1. PICK key \in Keys, spec \in Specs, labels \in Labels, phase \in CallerPhases :
          Begin(c, Call("begun", "create", minted + 1, <<>>, Created(key, spec, labels, phase)))
    BY <1>1 DEF BeginCreate
  <2> DEFINE doc == Created(key, spec, labels, phase)
             t == Call("begun", "create", minted + 1, <<>>, doc)
  <2>2. doc \in Resource
    BY CreatedTyped
  <2> HIDE DEF doc
  <2>3. /\ Full(t) /\ t.pc = "begun" /\ t.op = "create" /\ t.id = minted + 1 /\ t.work = doc
    BY DEF Call, Full
  <2>4. Begin(c, t) /\ minted' = minted + 1
    BY <1>1, <2>1 DEF BeginCreate, doc
  <2> HIDE DEF t
  <2> QED BY <2>2, <2>3, <2>4, Begun DEF ArgsOK, Held, Creating, RowOps
<1>2. ASSUME NEW c \in Clients, BeginRow(c) PROVE LockInv'
  <2>0. minted' = minted
    BY <1>2 DEF BeginRow, BeginUpdate, BeginStatus, BeginDelete
  <2>1. PICK id \in Known :
          \/ \E g \in Expected, spec \in Specs, labels \in Labels \cup {NoLabels} :
               Begin(c, Call("begun", "update", id,
                             [expected |-> g, spec |-> spec, labels |-> labels], NoDoc))
          \/ \E w \in StatusWrites : Begin(c, Call("begun", "status", id, w, NoDoc))
          \/ Begin(c, Call("begun", "delete", id, <<>>, NoDoc))
    BY <1>2 DEF BeginRow, BeginUpdate, BeginStatus, BeginDelete
  <2>2. ASSUME NEW op \in RowOps, NEW args, Begin(c, Call("begun", op, id, args, NoDoc)),
               ArgsOK(Call("begun", op, id, args, NoDoc))
        PROVE  LockInv'
    <3> DEFINE t == Call("begun", op, id, args, NoDoc)
    <3>1. Full(t) /\ t.pc = "begun" /\ t.op = op
      BY DEF Call, Full
    <3>2. Begin(c, t) /\ ArgsOK(t)
      BY <2>2
    <3> HIDE DEF t
    <3> QED BY <2>0, <3>1, <3>2, Begun DEF Held, Creating, RowOps
  <2>3. ASSUME NEW g \in Expected, NEW spec \in Specs, NEW labels \in Labels \cup {NoLabels},
               Begin(c, Call("begun", "update", id,
                             [expected |-> g, spec |-> spec, labels |-> labels], NoDoc))
        PROVE  LockInv'
    <3>1. ArgsOK(Call("begun", "update", id,
                      [expected |-> g, spec |-> spec, labels |-> labels], NoDoc))
      BY DEF ArgsOK, Call
    <3> QED BY <2>2, <2>3, <3>1 DEF RowOps
  <2>4. ASSUME NEW w \in StatusWrites, Begin(c, Call("begun", "status", id, w, NoDoc))
        PROVE  LockInv'
    <3>1. ArgsOK(Call("begun", "status", id, w, NoDoc))
      BY InputsAssumption DEF ArgsOK, Call
    <3> QED BY <2>2, <2>4, <3>1 DEF RowOps
  <2>5. ASSUME Begin(c, Call("begun", "delete", id, <<>>, NoDoc))
        PROVE  LockInv'
    <3>1. ArgsOK(Call("begun", "delete", id, <<>>, NoDoc))
      BY DEF ArgsOK, Call
    <3> QED BY <2>2, <2>5, <3>1 DEF RowOps
  <2> QED BY <2>1, <2>3, <2>4, <2>5
<1>3. ASSUME NEW c \in Clients, AppendAudit(c) PROVE LockInv'
  <2>1. PICK id \in DOMAIN rows : Begin(c, Call("written", "report", id, <<>>, rows[id]))
    BY <1>3 DEF AppendAudit
  <2> DEFINE t == Call("written", "report", id, <<>>, rows[id])
  <2>2. Full(t) /\ t.pc = "written" /\ t.op = "report"
    BY DEF Call, Full
  <2>3. Begin(c, t) /\ minted' = minted
    BY <1>3, <2>1 DEF AppendAudit
  <2> HIDE DEF t
  <2> QED BY <2>2, <2>3, Begun DEF ArgsOK, Held, Creating, RowOps
<1>4. ASSUME NEW c \in Clients, Insert(c) PROVE LockInv'
  <2>0. PICK t : t = [tx[c] EXCEPT !.pc = "written"]
    OBVIOUS
  <2>1. rows' = rows /\ minted' = minted /\ (End(c) \/ tx' = [tx EXCEPT ![c] = t])
    BY <1>4, <2>0 DEF Insert, tables, Move
  <2>2. CASE tx' = [tx EXCEPT ![c] = t]
    <3>1. TxOK(tx[c]) /\ tx[c] # Idle /\ tx[c].op = "create" /\ tx[c].pc # "idle"
      BY <1>4 DEF LockInv, Insert, Idle
    <3>2. Full(t) /\ t.pc = "written" /\ t.op = "create" /\ t.id = tx[c].id /\ t.work = tx[c].work
      <4>1. Full(tx[c])
        BY <3>1 DEF TxOK
      <4>2. t = [pc |-> "written", op |-> tx[c].op, id |-> tx[c].id, args |-> tx[c].args,
                 cur |-> tx[c].cur, work |-> tx[c].work, seq |-> tx[c].seq]
        BY <2>0, <4>1 DEF Full
      <4> QED BY <3>1, <4>2 DEF Full
    <3>3. TxOK(t)'
      BY <2>1, <3>1, <3>2 DEF TxOK, Creating, Held, ArgsOK, RowOps, Full
    <3>4. \A d \in Clients \ {c} : Apart(t, tx[d])
      BY <3>1, <3>2, GoesOn DEF Held, RowOps
    <3> QED BY <2>1, <2>2, <3>3, <3>4, Moved
  <2> QED BY <2>1, <2>2, Ended
<1>5. ASSUME NEW c \in Clients, SelectForUpdate(c) PROVE LockInv'
  <2>0. PICK t : t = [tx[c] EXCEPT !.pc = "locked", !.cur = rows[tx[c].id]]
    OBVIOUS
  <2>1. rows' = rows /\ minted' = minted /\ (End(c) \/ tx' = [tx EXCEPT ![c] = t])
    BY <1>5, <2>0 DEF SelectForUpdate, tables, Move
  <2>2. CASE ~End(c)
    <3>1. /\ TxOK(tx[c]) /\ tx[c] # Idle /\ tx[c].op \in RowOps /\ tx[c].pc = "begun"
          /\ tx[c].id \in DOMAIN rows
          /\ tx[c].op = "update" => tx[c].args.expected \in {0, rows[tx[c].id].gen}
          /\ \A d \in Clients \ {c} : Held(tx[d]) => tx[d].id # tx[c].id
      BY <1>5, <2>2 DEF LockInv, SelectForUpdate, Idle, Free, Holds, Held, RowOps
    <3>2. /\ Full(t) /\ t.pc = "locked" /\ t.op = tx[c].op /\ t.id = tx[c].id
          /\ t.args = tx[c].args /\ t.cur = rows[tx[c].id]
      <4>1. Full(tx[c])
        BY <3>1 DEF TxOK
      <4>2. t = [pc |-> "locked", op |-> tx[c].op, id |-> tx[c].id, args |-> tx[c].args,
                 cur |-> rows[tx[c].id], work |-> tx[c].work, seq |-> tx[c].seq]
        BY <2>0, <4>1 DEF Full
      <4> QED BY <4>2 DEF Full
    <3>3. tx' = [tx EXCEPT ![c] = t]
      BY <2>1, <2>2
    <3>4. TxOK(t)'
      BY <2>1, <3>1, <3>2 DEF TxOK, Creating, Held, ArgsOK, RowOps, Full
    <3>5. \A d \in Clients \ {c} : Apart(t, tx[d])
      BY <3>1, <3>2 DEF Apart, Creating, RowOps
    <3> QED BY <2>1, <3>3, <3>4, <3>5, Moved
  <2> QED BY <2>1, <2>2, Ended
<1>6. ASSUME NEW c \in Clients, NEW work, Held(tx[c]), tx[c].pc = "locked",
             work \in Resource,
             tx[c].op = "update" =>
               work = Bumped(tx[c].cur, Edited(tx[c].cur, tx[c].args.spec, tx[c].args.labels)),
             Move(c, [tx[c] EXCEPT !.pc = "written", !.work = work]),
             rows' = rows, minted' = minted
      PROVE  LockInv'
  <2>0. PICK t : t = [tx[c] EXCEPT !.pc = "written", !.work = work]
    OBVIOUS
  <2>1. TxOK(tx[c]) /\ tx[c] # Idle
    BY <1>6 DEF LockInv, Idle
  <2>2. /\ Full(t) /\ t.pc = "written" /\ t.op = tx[c].op /\ t.id = tx[c].id
        /\ t.args = tx[c].args /\ t.cur = tx[c].cur /\ t.work = work
    <3>1. Full(tx[c])
      BY <2>1 DEF TxOK
    <3>2. t = [pc |-> "written", op |-> tx[c].op, id |-> tx[c].id, args |-> tx[c].args,
               cur |-> tx[c].cur, work |-> work, seq |-> tx[c].seq]
      BY <2>0, <3>1 DEF Full
    <3> QED BY <3>2 DEF Full
  <2>3. tx' = [tx EXCEPT ![c] = t]
    BY <1>6, <2>0 DEF Move
  <2>4. TxOK(t)'
    BY <1>6, <2>1, <2>2 DEF TxOK, Creating, Held, ArgsOK, RowOps, Full
  <2>5. \A d \in Clients \ {c} : Apart(t, tx[d])
    BY <1>6, <2>2, GoesOn
  <2> QED BY <1>6, <2>3, <2>4, <2>5, Moved
<1>7. ASSUME NEW c \in Clients, tx[c].pc = "locked", tx[c].op \in RowOps
      PROVE  Held(tx[c]) /\ ArgsOK(tx[c]) /\ tx[c].cur \in Resource
  <2>1. TxOK(tx[c]) /\ tx[c] # Idle /\ Held(tx[c])
    BY <1>7 DEF LockInv, Idle, Held
  <2> QED BY <2>1 DEF LockInv, RowsOK, TxOK
<1>8. ASSUME NEW c \in Clients, Update(c) PROVE LockInv'
  <2>0. PICK new :
          new = Bumped(tx[c].cur, Edited(tx[c].cur, tx[c].args.spec, tx[c].args.labels))
    OBVIOUS
  <2>1. /\ tx[c].pc = "locked" /\ tx[c].op = "update" /\ rows' = rows /\ minted' = minted
        /\ End(c) \/ Move(c, [tx[c] EXCEPT !.pc = "written", !.work = new])
    BY <1>8, <2>0 DEF Update, tables
  <2>2. Held(tx[c]) /\ ArgsOK(tx[c]) /\ tx[c].cur \in Resource
    BY <1>7, <2>1 DEF RowOps
  <2>3. tx[c].args.spec \in Specs /\ tx[c].args.labels \in Labels \cup {NoLabels}
    BY <2>1, <2>2 DEF ArgsOK
  <2>4. new \in Resource
    BY <2>0, <2>2, <2>3, BumpedTyped
  <2> QED BY <1>6, <2>0, <2>1, <2>2, <2>4, Ended
<1>9. ASSUME NEW c \in Clients, Stamp(c) PROVE LockInv'
  <2>0. PICK new : new = Stamped(tx[c].cur, tx[c].args[1], tx[c].args[2])
    OBVIOUS
  <2>1. /\ tx[c].pc = "locked" /\ tx[c].op = "status" /\ rows' = rows /\ minted' = minted
        /\ Move(c, [tx[c] EXCEPT !.pc = "written", !.work = new])
    BY <1>9, <2>0 DEF Stamp, tables
  <2>2. Held(tx[c]) /\ ArgsOK(tx[c]) /\ tx[c].cur \in Resource
    BY <1>7, <2>1 DEF RowOps
  <2>3. tx[c].args[1] \in Phases /\ tx[c].args[2] \in Messages
    BY <2>1, <2>2 DEF ArgsOK
  <2>4. new \in Resource
    BY <2>0, <2>2, <2>3 DEF Stamped, Resource
  <2> QED BY <1>6, <2>1, <2>2, <2>4
<1>10. ASSUME NEW c \in Clients, DeleteRow(c) PROVE LockInv'
  <2>1. /\ tx[c].pc = "locked" /\ tx[c].op = "delete" /\ rows' = rows /\ minted' = minted
        /\ Move(c, [tx[c] EXCEPT !.pc = "written", !.work = tx[c].cur])
    BY <1>10 DEF DeleteRow, tables
  <2>2. Held(tx[c]) /\ tx[c].cur \in Resource
    BY <1>7, <2>1 DEF RowOps
  <2> QED BY <1>6, <2>1, <2>2
<1>11. ASSUME NEW c \in Clients, insertAudit(c) PROVE LockInv'
  <2>0. PICK t : t = [tx[c] EXCEPT !.pc = "audited", !.seq = serial + 1]
    OBVIOUS
  <2>1. rows' = rows /\ minted' = minted /\ tx' = [tx EXCEPT ![c] = t] /\ tx[c].pc = "written"
    BY <1>11, <2>0 DEF insertAudit, tables, Move
  <2>2. TxOK(tx[c]) /\ tx[c] # Idle
    BY <2>1 DEF LockInv, Idle
  <2>3. /\ Full(t) /\ t.pc = "audited" /\ t.op = tx[c].op /\ t.id = tx[c].id
        /\ t.args = tx[c].args /\ t.cur = tx[c].cur /\ t.work = tx[c].work
    <3>1. Full(tx[c])
      BY <2>2 DEF TxOK
    <3>2. t = [pc |-> "audited", op |-> tx[c].op, id |-> tx[c].id, args |-> tx[c].args,
               cur |-> tx[c].cur, work |-> tx[c].work, seq |-> serial + 1]
      BY <2>0, <3>1 DEF Full
    <3> QED BY <3>2 DEF Full
  <2>4. TxOK(t)'
    BY <2>1, <2>2, <2>3 DEF TxOK, Creating, Held, ArgsOK, RowOps, Full
  <2>5. \A d \in Clients \ {c} : Apart(t, tx[d])
    BY <2>1, <2>3, GoesOn DEF Held
  <2> QED BY <2>1, <2>4, <2>5, Moved
<1>12. ASSUME NEW c \in Clients, Rollback(c) PROVE LockInv'
  BY <1>12, Ended DEF Rollback, tables
<1>13. CASE UNCHANGED vars
  <2>1. rows' = rows /\ minted' = minted /\ tx' = tx
    BY <1>13 DEF vars
  <2>2. RowsOK' /\ (tx = [c \in Clients |-> tx[c]])'
    BY <2>1 DEF LockInv, RowsOK
  <2>3. ASSUME NEW c \in Clients PROVE TxOK(tx[c])'
    <3>1. TxOK(tx[c])
      BY DEF LockInv
    <3> QED BY <2>1, <3>1 DEF TxOK, Held, Creating, ArgsOK, Full
  <2>4. ASSUME NEW c \in Clients, NEW d \in Clients, c # d PROVE Apart(tx[c], tx[d])'
    <3>1. Apart(tx[c], tx[d])
      BY <2>4 DEF LockInv
    <3> QED BY <2>1, <3>1 DEF Apart, Held, Creating
  <2> QED BY <2>2, <2>3, <2>4 DEF LockInv
<1> QED BY <1>1, <1>2, <1>3, <1>4, <1>5, <1>8, <1>9, <1>10, <1>11, <1>12, <1>13, Committed
        DEF Next, Step

\* What NoLostUpdate says of one step.
UpdateStep ==
  \A c \in Clients :
    (tx[c].pc \in {"written", "audited"} /\ tx[c].op = "update" /\ Commit(c)) =>
       LET t == tx[c]
       IN /\ t.id \in DOMAIN rows
          /\ t.args.expected \in {0, rows[t.id].gen}
          /\ rows'[t.id].gen - rows[t.id].gen =
               IF specLabelsEqual(rows[t.id], rows'[t.id]) THEN 0 ELSE 1

\* For every number of callers: an update commits on top of the generation it
\* expected and moves it by at most one (UpdateResource's FOR UPDATE and CAS).
THEOREM UpdatesAreNotLost == Spec => NoLostUpdate
<1>1. Init => LockInv
  <2> SUFFICES ASSUME Init PROVE LockInv
    OBVIOUS
  <2>1. RowsOK
    BY DEF Init, RowsOK
  <2>2. tx = [c \in Clients |-> tx[c]] /\ \A c \in Clients : tx[c] = Idle
    BY DEF Init
  <2>3. Apart(Idle, Idle)
    BY DEF Apart, Held, Creating, Idle
  <2>4. TxOK(Idle)
    BY DEF TxOK
  <2> QED BY <2>1, <2>2, <2>3, <2>4 DEF LockInv
<1>2. LockInv /\ [Next]_vars => LockInv'
  BY LockStep
<1>3. LockInv /\ [Next]_vars => [UpdateStep]_vars
  <2> SUFFICES ASSUME LockInv, NEW c \in Clients, tx[c].pc \in {"written", "audited"},
                      tx[c].op = "update", Commit(c)
               PROVE  LET t == tx[c]
                      IN /\ t.id \in DOMAIN rows
                         /\ t.args.expected \in {0, rows[t.id].gen}
                         /\ rows'[t.id].gen - rows[t.id].gen =
                              IF specLabelsEqual(rows[t.id], rows'[t.id]) THEN 0 ELSE 1
    BY DEF UpdateStep
  <2> DEFINE t == tx[c]
  <2>1. TxOK(t) /\ t # Idle /\ Held(t)
    BY DEF LockInv, Idle, Held, RowOps
  <2>2. /\ t.id \in DOMAIN rows /\ t.cur = rows[t.id] /\ t.args.expected \in {0, t.cur.gen}
        /\ t.work = Bumped(t.cur, Edited(t.cur, t.args.spec, t.args.labels))
        /\ t.args.spec \in Specs /\ t.args.labels \in Labels \cup {NoLabels}
    BY <2>1 DEF TxOK, ArgsOK
  <2>3. rows' = MapPut(rows, t.id, t.work)
    BY DEF Commit, Written
  <2>4. rows'[t.id] = t.work
    BY <2>3 DEF MapPut
  <2>5. t.cur \in Resource
    BY <2>2 DEF LockInv, RowsOK
  <2>6. t.work.gen - t.cur.gen = IF specLabelsEqual(t.cur, t.work) THEN 0 ELSE 1
    <3> HIDE DEF t
    <3>1. t.args.spec \in Specs /\ t.args.labels \in Labels \cup {NoLabels}
      BY <2>2
    <3>2. LET new == Bumped(t.cur, Edited(t.cur, t.args.spec, t.args.labels))
          IN new.gen - t.cur.gen = IF specLabelsEqual(t.cur, new) THEN 0 ELSE 1
      BY <2>5, <3>1, BumpedTyped
    <3> QED BY <2>2, <3>2
  <2> QED BY <2>2, <2>4, <2>6
<1> QED BY <1>1, <1>2, <1>3, PTL DEF Spec, NoLostUpdate, UpdateStep
=============================================================================
