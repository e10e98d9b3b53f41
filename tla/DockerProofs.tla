---------------------------- MODULE DockerProofs ----------------------------
(***************************************************************************)
(* What holds of the Docker actuator for all specs, configurations and     *)
(* numbers of faults, restarts and interferences.                          *)
(***************************************************************************)
EXTENDS Docker, TLAPS

\* What Inspect reports: an image and a Go map of variables.
IsReport(f) == f = [image |-> f.image, env |-> [k \in DOMAIN f.env |-> f.env[k]]]

\* What a container with an image reports is what DesiredFields gets back.
LEMMA ObservedRoundTrip ==
  ASSUME NEW f, IsReport(f), f.image # Blank
  PROVE  DesiredFields(FieldsToSpec(f)) = f
<1> DEFINE none == <<>>
<1>1. DOMAIN none = {}
  OBVIOUS
<1> HIDE DEF none
<1>2. DesiredFields(FieldsToSpec(f)) = [image |-> f.image, env |-> Over(f.env, none)]
  BY DEF DesiredFields, FieldsToSpec, none
<1>3. Over(f.env, none) = [k \in DOMAIN f.env |-> f.env[k]]
  BY <1>1 DEF Over
<1> QED BY <1>2, <1>3 DEF IsReport

\* FieldMapper's contract (provider.go): DesiredFields is idempotent over its
\* own output, rebuilt through FieldsToSpec, whatever shape env had.
THEOREM FieldsRoundTrip ==
  ASSUME NEW s
  PROVE  DesiredFields(FieldsToSpec(DesiredFields(s))) = DesiredFields(s)
<1>1. CASE DesiredFields(s) = NoFields
  BY <1>1 DEF DesiredFields, FieldsToSpec, NoFields
<1>2. CASE DesiredFields(s) # NoFields
  <2>1. s.image # Blank /\ DesiredFields(s) = [image |-> s.image, env |-> Over(s.flat, s.env)]
    BY <1>2 DEF DesiredFields
  <2>2. IsReport(DesiredFields(s))
    BY <2>1 DEF IsReport, Over
  <2> QED BY <2>1, <2>2, ObservedRoundTrip
<1> QED BY <1>1, <1>2

-----------------------------------------------------------------------------

\* An entry "k=v" of a name without '=' is cut into that name and that value.
LEMMA CutAtFirst ==
  ASSUME NEW n \in STRING, NEW v \in Seq(STRING), v # <<>>
  PROVE  /\ Len(<<n>> \o v) > 1
         /\ Head(<<n>> \o v) = n
         /\ Tail(<<n>> \o v) = v
  OBVIOUS

\* Names of one part are equal when the parts are.
LEMMA OnePart ==
  ASSUME NEW a, NEW b, <<a>> = <<b>>
  PROVE  a = b
<1>1. <<a>>[1] = a /\ <<b>>[1] = b
  OBVIOUS
<1> QED BY <1>1

\* The names of a spec's variables contain no '=', and names and values are
\* texts.
Plain(env) ==
  \A k \in DOMAIN env :
    /\ \E n \in STRING : n # "" /\ k = <<n>>
    /\ env[k] \in Seq(STRING) /\ env[k] # <<>>

\* The exception ReadyIsTrue and Converges make is no larger than it has to
\* be: the Engine's list carries every spec with fields whose variable names
\* contain no '=' (containerConfig and EnvListToFields are inverse on them,
\* whatever the Engine adds).
THEOREM PlainNamesAreCarried ==
  ASSUME NEW s, DesiredFields(s) # NoFields, Plain(DesiredFields(s).env)
  PROVE  Carried(s)
<1> DEFINE want == DesiredFields(s)
           env == want.env
           own == EnvList(env)
           list == Merged(own)
           entries == {e \in list : Len(e) > 1 /\ Head(e) # ""}
<1> HIDE DEF want
<1>1. ASSUME NEW k \in DOMAIN env
      PROVE  k \in DOMAIN EnvListToFields(list) /\ EnvListToFields(list)[k] = env[k]
  <2>1. PICK n \in STRING : n # "" /\ k = <<n>>
    BY <1>1 DEF Plain, want
  <2>2. env[k] \in Seq(STRING) /\ env[k] # <<>>
    BY <1>1 DEF Plain, want
  <2> DEFINE e == k \o env[k]
  <2>3. Len(e) > 1 /\ Head(e) = n /\ Tail(e) = env[k]
    BY <2>1, <2>2, CutAtFirst
  <2>4. e \in own /\ e \in list
    BY DEF EnvList, Merged
  <2> HIDE DEF e, own
  <2>5. e \in entries
    BY <2>1, <2>3, <2>4
  <2>6. ASSUME NEW o \in entries, <<Head(o)>> = k
        PROVE  o = e
    <3>1. Head(o) = n
      BY <2>1, <2>6, OnePart, Zenon
    <3>2. o \in own
      BY <2>3, <2>4, <3>1 DEF Merged
    <3>3. PICK j \in DOMAIN env : o = j \o env[j]
      BY <3>2 DEF own, EnvList
    <3>4. PICK m \in STRING : m # "" /\ j = <<m>>
      BY DEF Plain, want
    <3>5. env[j] \in Seq(STRING) /\ env[j] # <<>>
      BY DEF Plain, want
    <3>6. Head(o) = m
      BY <3>3, <3>4, <3>5, CutAtFirst
    <3>7. j = k
      BY <2>1, <3>1, <3>4, <3>6
    <3> QED BY <3>3, <3>7 DEF e
  <2>7. <<Head(e)>> = k
    BY <2>1, <2>3
  <2> HIDE DEF entries, list
  <2>8. (CHOOSE o \in entries : <<Head(o)>> = k) = e
    BY <2>5, <2>6, <2>7
  <2>9. k \in {<<Head(o)>> : o \in entries}
    BY <2>5, <2>7
  <2> QED BY <2>3, <2>8, <2>9 DEF EnvListToFields, entries
<1>2. ~Differs(want, Reported(want))
  BY <1>1 DEF Differs, Reported
<1> QED BY <1>2 DEF Carried, want

-----------------------------------------------------------------------------

\* The container is what the Engine reports of one.
CtrOK(c) ==
  c # NoContainer =>
    /\ c = [id |-> c.id, fields |-> c.fields, running |-> c.running]
    /\ IsReport(c.fields)
    /\ c.id # 0

TakesDown(r) == r.pc \in {"stop", "remove"}

\* A request that takes down, sent by a pass that was not disturbed, is for a
\* container that differs.
Aimed(r, c) == TakesDown(r) /\ ~r.disturbed /\ c.id = r.id => ~Converged(r.s, c)

\* The pass under way, while nobody disturbs it: it is on its way to take
\* the container down only because it saw it differ; from the second inspect
\* on it knows its id.
Undisturbed(r, c) ==
  ~r.disturbed =>
    /\ r.pc = "look" \/ TakesDown(r) => c # NoContainer /\ ~Converged(r.s, c)
    /\ TakesDown(r) => c.id = r.id

\* The inductive invariant.
PassInv ==
  /\ CtrOK(ctr)
  /\ run # Idle => Undisturbed(run, ctr)
  /\ \A r \in late : Aimed(r, ctr)

\* An update is planned only for a container that differs.
LEMMA UpdateMeansDrift ==
  ASSUME NEW s, NEW c, c # NoContainer, IsReport(c.fields), PlanContainers(s, c) = "update"
  PROVE  ~Converged(s, c)
<1> DEFINE want == DesiredFields(s)
           back == DesiredFields(FieldsToSpec(c.fields))
<1>1. want # NoFields /\ Differs(want, back)
  BY DEF PlanContainers
<1>2. want.image # Blank
  BY <1>1 DEF DesiredFields
<1>3. CASE c.fields.image # Blank
  BY <1>1, <1>3, ObservedRoundTrip DEF Converged
<1>4. CASE c.fields.image = Blank
  BY <1>2, <1>4 DEF Converged, Differs
<1> QED BY <1>3, <1>4

\* A container that was made is new to every request that was given up.
LEMMA MadeIsNew ==
  ASSUME NEW f, NEW b, IsReport(f), Made(f, b)
  PROVE  CtrOK(ctr)' /\ \A r \in late : Aimed(r, ctr')
<1> DEFINE i == CHOOSE i \in ContainerIds \ Known : TRUE
<1>1. i \in ContainerIds \ Known
  BY DEF Made
<1>2. ctr' = [id |-> i, fields |-> f, running |-> b]
  BY DEF Made
<1> HIDE DEF i
<1>3. i # 0 /\ \A r \in late : i # r.id
  BY <1>1, ShapesAssumption DEF Known
<1>4. ctr'.id = i /\ ctr'.fields = f /\ ctr'.running = b
  BY <1>2
<1>5. CtrOK(ctr)'
  BY <1>2, <1>3, <1>4 DEF CtrOK
<1> QED BY <1>3, <1>4, <1>5 DEF Aimed

\* What is reported of a container is a report.
LEMMA ReportedIsReport ==
  ASSUME NEW f
  PROVE  IsReport(Reported(f))
<1> DEFINE list == Merged(EnvList(f.env))
           entries == {e \in list : Len(e) > 1 /\ Head(e) # ""}
           names == {<<Head(e)>> : e \in entries}
           value(k) == Tail(CHOOSE e \in entries : <<Head(e)>> = k)
           g == EnvListToFields(list)
<1>0. g = [k \in names |-> value(k)]
  BY DEF EnvListToFields
<1> HIDE DEF g, names, value
<1>1. g = [k \in DOMAIN g |-> g[k]]
  BY <1>0
<1>2. Reported(f) = [image |-> f.image, env |-> g]
  BY DEF Reported, g
<1> HIDE DEF list
<1> QED BY <1>1, <1>2 DEF IsReport

\* The same container, up to running.
Same(c, d) == d.id = c.id /\ d.fields = c.fields /\ c # NoContainer /\ d # NoContainer

\* What a request does, told apart by what becomes of the container.
LEMMA EngineOutcome ==
  ASSUME NEW r, Engine(r), CtrOK(ctr)
  PROVE  \/ /\ r.pc \in {"ensure", "recreate"} /\ ctr = NoContainer
            /\ Made(Reported(DesiredFields(r.s)), FALSE)
         \/ /\ r.pc \in {"start", "stop"} /\ ctr.id = r.id
            /\ CtrOK(ctr)' /\ Same(ctr, ctr') /\ ctr'.running = (r.pc = "start")
         \/ r.pc = "remove" /\ ctr' = NoContainer /\ ctr.id = r.id
         \/ ctr' = ctr
<1> DEFINE makes == r.pc \in {"ensure", "recreate"} /\ ctr = NoContainer
           switches == r.pc \in {"start", "stop"} /\ Found(r)
           removes == r.pc = "remove" /\ Found(r)
<1>1. CASE makes
  BY <1>1 DEF Engine
<1>2. CASE switches
  <2> DEFINE b == (r.pc = "start")
  <2>1. ctr' = [ctr EXCEPT !.running = b]
    BY <1>2 DEF Engine
  <2> HIDE DEF b
  <2>2. ctr # NoContainer /\ ctr.id = r.id
    BY <1>2 DEF Found
  <2>3. ctr = [id |-> ctr.id, fields |-> ctr.fields, running |-> ctr.running] /\ ctr.id # 0 /\ IsReport(ctr.fields)
    BY <2>2 DEF CtrOK
  <2>4. ctr' = [id |-> ctr.id, fields |-> ctr.fields, running |-> b]
    BY <2>1, <2>3
  <2>5. ctr'.id = ctr.id /\ ctr'.fields = ctr.fields /\ ctr'.running = b
    BY <2>4
  <2>6. ctr' # NoContainer
    BY <2>3, <2>5 DEF NoContainer
  <2>7. CtrOK(ctr)'
    BY <2>3, <2>4, <2>5 DEF CtrOK
  <2> QED BY <1>2, <2>2, <2>5, <2>6, <2>7 DEF Same, b
<1>3. CASE removes
  BY <1>3 DEF Engine, Found
<1>4. CASE ~makes /\ ~switches /\ ~removes
  BY <1>4 DEF Engine
<1> QED BY <1>1, <1>2, <1>3, <1>4

\* No request brings a converged container into the reach of one given up.
LEMMA EngineKeeps ==
  ASSUME PassInv, NEW r, Engine(r)
  PROVE  CtrOK(ctr)' /\ \A q \in late : Aimed(q, ctr')
<1> DEFINE made == Made(Reported(DesiredFields(r.s)), FALSE)
           same == CtrOK(ctr)' /\ Same(ctr, ctr')
<1>1. made \/ same \/ ctr' = NoContainer \/ ctr' = ctr
  BY EngineOutcome DEF PassInv
<1>2. CASE made
  BY <1>2, MadeIsNew, ReportedIsReport
<1>3. CASE same
  BY <1>3 DEF PassInv, Aimed, Same, Converged
<1>4. CASE ctr' = NoContainer
  BY <1>4 DEF CtrOK, Aimed, Converged
<1>5. CASE ctr' = ctr
  BY <1>5 DEF PassInv, CtrOK, IsReport, Aimed, Converged
<1> QED BY <1>1, <1>2, <1>3, <1>4, <1>5

\* The effects a call can have, whatever follows.
LEMMA CallKeeps ==
  ASSUME PassInv, run # Idle,
         \/ Engine(run) /\ late' = late
         \/ ctr' = ctr /\ late' = late
         \/ ctr' = ctr /\ late' = late \cup {run}
  PROVE  CtrOK(ctr)' /\ \A q \in late' : Aimed(q, ctr')
<1>1. CASE Engine(run) /\ late' = late
  BY <1>1, EngineKeeps
<1>2. CASE ctr' = ctr /\ (late' = late \/ late' = late \cup {run})
  <2>1. CtrOK(ctr)'
    BY <1>2 DEF PassInv, CtrOK, IsReport
  <2>2. Aimed(run, ctr)
    BY DEF PassInv, Undisturbed, Aimed
  <2>3. \A q \in late' : q \in late \/ q = run
    BY <1>2
  <2> QED BY <1>2, <2>1, <2>2, <2>3 DEF PassInv
<1> QED BY <1>1, <1>2

\* A call, and a pass that is over or goes nowhere near taking down.
LEMMA Harmless ==
  ASSUME NEW ACTION A, PassInv, run # Idle, Call(A) \/ Read(A),
         A => run' = Idle \/ run'.pc \in {"ensure", "adopt", "start", "recreate"}
  PROVE  PassInv'
<1>1. CtrOK(ctr)' /\ \A q \in late' : Aimed(q, ctr')
  BY CallKeeps DEF Call, Read
<1>2. run' = Idle \/ run'.pc \in {"ensure", "adopt", "start", "recreate"}
  BY DEF Call, Read, Failed
<1>3. run' # Idle => Undisturbed(run', ctr')
  BY <1>2 DEF Undisturbed, TakesDown
<1> QED BY <1>1, <1>3 DEF PassInv

\* A pass that found what to do.
LEMMA PlanKept ==
  ASSUME NEW ACTION A, PassInv, run # Idle, Read(A),
         A => \/ run' = Idle
              \/ /\ PlanContainers(run.s, ctr) \in {"create", "update"}
                 /\ Chosen(PlanContainers(run.s, ctr))
  PROVE  PassInv'
<1> DEFINE plan == PlanContainers(run.s, ctr)
<1>1. ctr' = ctr /\ late' = late
  BY DEF Read
<1>2. CtrOK(ctr)' /\ \A q \in late' : Aimed(q, ctr')
  BY <1>1, CallKeeps
<1>3. run' = Idle \/ (plan \in {"create", "update"} /\ Chosen(plan))
  BY DEF Read, Failed
<1>4. CASE run' = Idle
  BY <1>2, <1>4 DEF PassInv
<1>5. CASE plan \in {"create", "update"} /\ Chosen(plan)
  <2>1. run'.pc \in {"ensure", "look"} /\ (run'.pc = "look" => plan = "update")
    BY <1>5 DEF Chosen, Goto
  <2>2. CASE run'.pc = "ensure"
    BY <1>2, <2>2 DEF PassInv, Undisturbed, TakesDown
  <2>3. CASE run'.pc = "look"
    <3>1. plan = "update" /\ ctr # NoContainer
      BY <2>1, <2>3 DEF PlanContainers
    <3>2. ~Converged(run.s, ctr)
      BY <3>1, UpdateMeansDrift DEF PassInv, CtrOK
    <3>3. run'.s = run.s
      BY <1>5 DEF Chosen, Goto
    <3>4. Undisturbed(run', ctr')
      BY <1>1, <2>3, <3>1, <3>2, <3>3 DEF Undisturbed, TakesDown
    <3> QED BY <1>2, <3>4 DEF PassInv
  <2> QED BY <2>1, <2>2, <2>3
<1> QED BY <1>3, <1>4, <1>5

\* Every step keeps the invariant.
LEMMA PassStep ==
  ASSUME PassInv, [Next]_vars
  PROVE  PassInv'
<1>0. Idle.pc = "idle"
  BY DEF Idle
<1>1. CASE Pass
  <2>1. run'.pc \in {"inspect", "check"} /\ ctr' = ctr /\ late' = late
    BY <1>1 DEF Pass, Begin
  <2>2. Undisturbed(run', ctr')
    BY <2>1 DEF Undisturbed, TakesDown
  <2> QED BY <2>1, <2>2 DEF PassInv, CtrOK, IsReport
<1>2. CASE Inspect
  <2> DEFINE plan == PlanContainers(run.s, ctr)
             A == \/ plan = "error" /\ Failed("Permanent")
                  \/ plan = "noop" /\ Settled
                  \/ plan \in {"create", "update"} /\ Chosen(plan) /\ UNCHANGED status
  <2>1. run # Idle /\ Read(A)
    BY <1>0, <1>2 DEF Inspect
  <2>2. A => run' = Idle \/ (plan \in {"create", "update"} /\ Chosen(plan))
    BY DEF Failed, Settled
  <2> HIDE DEF A
  <2> QED BY <2>1, <2>2, PlanKept
<1>3. CASE checkDrift
  <2> DEFINE plan == PlanContainers(run.s, ctr)
             A == \/ plan = "error" /\ Failed("Permanent")
                  \/ plan = "noop" /\ clearDriftAnnotation /\ run' = Idle
                  \/ plan \in {"create", "update"} /\ Chosen(plan) /\ phase' = "Ready" /\ noted' = TRUE
  <2>1. run # Idle /\ Read(A)
    BY <1>0, <1>3 DEF checkDrift
  <2>2. A => run' = Idle \/ (plan \in {"create", "update"} /\ Chosen(plan))
    BY DEF Failed
  <2> HIDE DEF A
  <2> QED BY <2>1, <2>2, PlanKept
<1>4. CASE ensure
  <2> DEFINE A == IF ctr = NoContainer THEN At("start", ctr'.id) ELSE At("adopt", 0)
  <2>1. run # Idle /\ Call(A)
    BY <1>0, <1>4 DEF ensure, CreateContainer
  <2>2. A => run'.pc \in {"start", "adopt"}
    BY <2>1 DEF At, Goto
  <2> HIDE DEF A
  <2> QED BY <2>1, <2>2, Harmless
<1>5. CASE recreate
  <2> DEFINE A == IF ctr = NoContainer THEN At("start", ctr'.id) ELSE Failed("Transient")
  <2>1. run # Idle /\ Call(A)
    BY <1>0, <1>5 DEF recreate, CreateContainer
  <2>2. A => run' = Idle \/ run'.pc = "start"
    BY DEF At, Goto, Failed
  <2> HIDE DEF A
  <2> QED BY <2>1, <2>2, Harmless
<1>6. CASE adopt
  <2> DEFINE A == IF ctr = NoContainer THEN Failed("Transient") ELSE At("start", ctr.id)
  <2>1. run # Idle /\ Read(A)
    BY <1>0, <1>6 DEF adopt
  <2>2. A => run' = Idle \/ run'.pc = "start"
    BY DEF At, Goto, Failed
  <2> HIDE DEF A
  <2> QED BY <2>1, <2>2, Harmless
<1>7. CASE StartContainer
  <2> DEFINE A == IF Found(run) THEN Settled ELSE Failed("Permanent")
  <2>1. run # Idle /\ Call(A)
    BY <1>0, <1>7 DEF StartContainer
  <2>2. A => run' = Idle
    BY DEF Settled, Failed
  <2> HIDE DEF A
  <2> QED BY <2>1, <2>2, Harmless
<1>8. CASE RemoveContainer
  <2> DEFINE A == At("recreate", 0)
  <2>1. run # Idle /\ Call(A)
    BY <1>0, <1>8 DEF RemoveContainer
  <2>2. A => run'.pc = "recreate"
    BY DEF At, Goto
  <2> HIDE DEF A
  <2> QED BY <2>1, <2>2, Harmless
<1>9. CASE look
  <2> DEFINE A == IF ctr = NoContainer THEN At("recreate", 0) ELSE At("stop", ctr.id)
  <2>1. run # Idle /\ run.pc = "look" /\ Read(A)
    BY <1>0, <1>9 DEF look
  <2>2. ctr' = ctr /\ late' = late
    BY <2>1 DEF Read
  <2>3. CtrOK(ctr)' /\ \A q \in late' : Aimed(q, ctr')
    BY <2>1, <2>2, CallKeeps
  <2>4. \/ run' = Idle
        \/ run'.pc = "recreate"
        \/ run'.pc = "stop" /\ run'.s = run.s /\ run'.id = ctr.id /\ run'.disturbed = run.disturbed
    <3>1. (run' = Idle) \/ A
      BY <2>1 DEF Read, Failed
    <3> QED BY <3>1 DEF At, Goto
  <2>5. CASE run'.pc = "stop" /\ run'.s = run.s /\ run'.id = ctr.id /\ run'.disturbed = run.disturbed
    <3>1. Undisturbed(run', ctr')
      BY <2>1, <2>2, <2>5 DEF PassInv, Undisturbed, TakesDown
    <3> QED BY <2>3, <3>1 DEF PassInv
  <2>6. CASE run' = Idle \/ run'.pc = "recreate"
    BY <2>3, <2>6 DEF PassInv, Undisturbed, TakesDown
  <2> QED BY <2>4, <2>5, <2>6
<1>10. CASE StopContainer
  <2> DEFINE A == At("remove", run.id)
  <2>1. run # Idle /\ run.pc = "stop" /\ Call(A)
    BY <1>0, <1>10 DEF StopContainer
  <2>2. CtrOK(ctr)' /\ \A q \in late' : Aimed(q, ctr')
    BY <2>1, CallKeeps DEF Call
  <2>3. CASE run' = Idle
    BY <2>2, <2>3 DEF PassInv
  <2>4. CASE Engine(run) /\ A
    <3>1. run' = [pc |-> "remove", s |-> run.s, id |-> run.id, disturbed |-> run.disturbed]
      BY <2>4 DEF At, Goto
    <3>2. ctr' = ctr \/ Same(ctr, ctr')
      BY <2>1, <2>4, EngineOutcome DEF PassInv
    <3>3. Undisturbed(run', ctr')
      <4>1. SUFFICES ASSUME ~run.disturbed
                     PROVE  ctr' # NoContainer /\ ~Converged(run'.s, ctr') /\ ctr'.id = run'.id
        BY <2>1, <3>1 DEF Undisturbed
      <4>2. ctr # NoContainer /\ ~Converged(run.s, ctr) /\ ctr.id = run.id
        BY <2>1, <4>1 DEF PassInv, Undisturbed, TakesDown
      <4>3. run'.s = run.s /\ run'.id = run.id
        BY <2>1, <3>1
      <4> QED BY <3>2, <4>2, <4>3 DEF Same, Converged
    <3> QED BY <2>2, <3>3 DEF PassInv
  <2> QED BY <2>1, <2>3, <2>4 DEF Call, Failed
<1>11. CASE Land
  <2>1. PICK r \in late : late' = late \ {r} /\ Engine(r)
    BY <1>11 DEF Land
  <2>2. CtrOK(ctr)' /\ \A q \in late' : Aimed(q, ctr')
    BY <2>1, EngineKeeps
  <2>3. run' # Idle => run'.disturbed
    BY <1>11 DEF Land, Disturb
  <2> QED BY <2>2, <2>3 DEF PassInv, Undisturbed
<1>12. CASE Touch
  <2>1. late' = late /\ (run' # Idle => run'.disturbed)
    BY <1>12 DEF Touch, Disturb
  <2>2. CtrOK(ctr)' /\ \A q \in late' : Aimed(q, ctr')
    <3>1. CASE \E f \in Foreign : Made(f, TRUE)
      BY <2>1, <3>1, MadeIsNew, ShapesAssumption DEF IsReport
    <3>2. CASE ctr' = NoContainer
      BY <3>2 DEF CtrOK, Aimed, Converged
    <3>3. CASE ctr.running /\ ctr' = [ctr EXCEPT !.running = FALSE]
      <4>1. ctr # NoContainer
        BY <3>3 DEF NoContainer
      <4>2. ctr = [id |-> ctr.id, fields |-> ctr.fields, running |-> ctr.running] /\ ctr.id # 0 /\ IsReport(ctr.fields)
        BY <4>1 DEF PassInv, CtrOK
      <4>3. ctr' = [id |-> ctr.id, fields |-> ctr.fields, running |-> FALSE]
        BY <3>3, <4>2
      <4>4. ctr'.id = ctr.id /\ ctr'.fields = ctr.fields /\ ctr'.running = FALSE
        BY <4>3
      <4>5. CtrOK(ctr)'
        BY <4>2, <4>3, <4>4 DEF CtrOK
      <4> QED BY <2>1, <4>1, <4>4, <4>5 DEF PassInv, Aimed, Converged
    <3> QED BY <1>12, <3>1, <3>2, <3>3 DEF Touch
  <2> QED BY <2>1, <2>2 DEF PassInv, Undisturbed
<1>13. CASE Crash
  <2>1. run # Idle /\ run' = Idle /\ ctr' = ctr /\ (late' = late \/ late' = late \cup {run})
    BY <1>13 DEF Crash
  <2>2. CtrOK(ctr)' /\ \A q \in late' : Aimed(q, ctr')
    BY <2>1, CallKeeps
  <2> QED BY <2>1, <2>2 DEF PassInv
<1>14. CASE \E s \in Specs : Edit(s)
  BY <1>14 DEF Edit, PassInv, CtrOK, IsReport
<1>15. CASE UNCHANGED vars
  BY <1>15 DEF vars, PassInv, CtrOK, IsReport
<1> QED BY <1>1, <1>2, <1>3, <1>4, <1>5, <1>6, <1>7, <1>8, <1>9, <1>10, <1>11, <1>12, <1>13, <1>14,
           <1>15 DEF Next, Actuate

-----------------------------------------------------------------------------

\* What TakesDownOnlyDrifted says of one step.
TakeDownStep ==
  (Actuate \/ Land) /\ TakenDown =>
    \E r \in late \cup {run} : Asked(r) /\ ctr.id = r.id /\ (r.disturbed \/ ~Converged(r.s, ctr))

\* A request that takes the container down is a stop or a removal of it.
LEMMA EngineTakesDown ==
  ASSUME NEW r, Engine(r), CtrOK(ctr), TakenDown
  PROVE  TakesDown(r) /\ ctr.id = r.id
<1>1. ctr # NoContainer /\ ctr' # ctr
  BY DEF TakenDown
<1>2. CASE r.pc \in {"start", "stop"} /\ ctr.id = r.id /\ Same(ctr, ctr') /\ ctr'.running = (r.pc = "start")
  BY <1>2 DEF TakenDown, Same, TakesDown
<1>3. CASE r.pc = "remove" /\ ctr.id = r.id
  BY <1>3 DEF TakesDown
<1> QED BY <1>1, <1>2, <1>3, EngineOutcome

\* For every spec, configuration and interference: our requests take down
\* only the container their pass looked at, however late they arrive, and,
\* left alone, only one that differs from the spec (recreate, StopContainer,
\* RemoveContainer).
THEOREM OnlyDriftedTakenDown == Spec => TakesDownOnlyDrifted
<1>1. Init => PassInv
  BY DEF Init, PassInv, CtrOK, Idle
<1>2. PassInv /\ [Next]_vars => PassInv'
  BY PassStep
<1>3. PassInv /\ [Next]_vars => [TakeDownStep]_vars
  <2> SUFFICES ASSUME PassInv, Actuate \/ Land, TakenDown
               PROVE  \E r \in late \cup {run} :
                        Asked(r) /\ ctr.id = r.id /\ (r.disturbed \/ ~Converged(r.s, ctr))
    BY DEF TakeDownStep
  <2>1. CASE Actuate
    <3>1. ctr' # ctr
      BY DEF TakenDown
    <3>2. run # Idle /\ Engine(run)
      <4>0. Idle.pc = "idle"
        BY DEF Idle
      <4>1. ~Inspect /\ ~checkDrift /\ ~adopt /\ ~look
        BY <3>1 DEF Inspect, checkDrift, adopt, look, Read
      <4>2. ensure \/ recreate => Engine(run) /\ run.pc \in {"ensure", "recreate"}
        BY <3>1 DEF ensure, recreate, CreateContainer, Call
      <4>3. StopContainer \/ RemoveContainer \/ StartContainer
              => Engine(run) /\ run.pc \in {"stop", "remove", "start"}
        BY <3>1 DEF StopContainer, RemoveContainer, StartContainer, Call
      <4> QED BY <2>1, <4>0, <4>1, <4>2, <4>3 DEF Actuate
    <3>3. TakesDown(run) /\ ctr.id = run.id
      BY <3>2, EngineTakesDown DEF PassInv
    <3>4. run.disturbed \/ ~Converged(run.s, ctr)
      BY <3>2, <3>3 DEF PassInv, Undisturbed
    <3> QED BY <3>3, <3>4 DEF Asked, TakesDown
  <2>2. CASE Land
    <3>1. PICK r \in late : Engine(r)
      BY <2>2 DEF Land
    <3>2. TakesDown(r) /\ ctr.id = r.id
      BY <3>1, EngineTakesDown DEF PassInv
    <3>3. r.disturbed \/ ~Converged(r.s, ctr)
      BY <3>2 DEF PassInv, Aimed
    <3> QED BY <3>2, <3>3 DEF Asked, TakesDown
  <2> QED BY <2>1, <2>2
<1> QED BY <1>1, <1>2, <1>3, PTL DEF Spec, TakesDownOnlyDrifted, TakeDownStep
=============================================================================
