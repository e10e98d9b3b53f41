# Ryvex in TLA+

Models, model-checking configurations and machine-checked proofs for the Ryvex
control plane.  `PROJECT.json` maps every definition to the source lines it
stands for, and lists the runs, the mutants that show each property can fail,
the findings, the hazards and the theorems.

## The system and its parts

Ryvex is a Go daemon (`ryvexd`) that keeps declarative resources and drives
them to convergence.

| part | source | here |
|---|---|---|
| resource document, in-memory store, audit ring | `internal/state` | `Resource`, `Store`, `AuditWindow`, `StoreProofs` |
| Postgres store | `internal/state/pgstore` | `PgStore`, `PgStoreProofs` |
| REST handlers over store and bus | `internal/api/handlers.go` | `Api` |
| event and audit feeds | `internal/api/handlers.go` | `Feed`; the replay by sequence in `Stream` |
| reconciler: scan, queue, workers, drift pass, retry book | `internal/reconcile` | `Reconciler`, `ReconcilerProofs` |
| provider SPI | `internal/provider/provider.go` | as `Reconciler` uses it; field mapping in `Docker` |
| docker provider | `internal/provider/docker` | `Docker`, `DockerProofs` |
| event bus, in memory | `internal/bus` | `Bus` (`Api` appends to a sequence) |
| event bus, JetStream | `internal/bus/natsbus` | `Stream` |
| webhook dispatcher | `internal/webhook` | `Dispatcher`; the durable handler in `Stream` |
| authorizer cache, API keys, authorization middleware | `internal/authz`, `internal/api/keys.go`, `internal/api/middleware.go` | `Keys` |
| daemon start and shutdown | `cmd/ryvexd` | seeding and first refresh in `Keys`, shutdown in `Dispatcher` |
| node agent (Rust) | `agent/ryvex-agent` | `Agent` |
| metrics, CLI, SDKs, console | | not modelled: counters, one-shot clients and a UI |

How they interact: a handler writes to the store and then publishes an event on
the bus.  The reconciler polls the store, acts on providers and writes status
back.  Dispatcher and authorizer follow the bus and re-read the store.  The node
agent is a client of the handlers.

## Modules

**`Resource`** has the document (key, spec, labels, generation, phase, message,
observed generation) and the pure part of the store's operations: what is stored
on create, when an update bumps the generation, what a status write stamps.
Specs and labels are opaque values, `Validate` is membership in `ValidSpecs`,
and of messages only "starts with `Drifted:`" is kept.

**`Store`** is `store.go`.  One mutex guards everything, so each operation is one
action: `CreateResource`, `UpdateResource`, `UpdateStatus`, `DeleteResource`,
`AppendAudit`.  Failing calls change nothing; their results are the operators
`CreateOutcome` and `UpdateOutcome`.  The audit ring is modelled slot by slot
with its write index.  **`AuditWindow`** is what it promises: the last `AuditCap`
entries, newest first, and a count of the rest.  `Store` implements it with
`window <- ListAudit`.

**`Api`** extends `Store` with concurrent requests.  A handler is cut where
another can come in between: after the Get that resolves the address, after the
write, before the publish.  `PutCreate` and `PutUpdate` are the two branches of
`handleScopePut`; both DELETE handlers are `DeleteGet; DeleteWrite`.  `Crash`
kills the requests in flight and keeps the store, as with Postgres.

**`Reconciler`** has the goroutines of `internal/reconcile`: the scan (one page
per step), the workers and the drift pass, as program counters with the locals
each of them holds.

| action | code |
|---|---|
| `ScanPage` | `scan`: list a page, queue what needs work, keep the cursor |
| `Take` | `worker`, head of `reconcileOne`: pop, read the snapshot |
| `StatusOnly` | rest of `reconcileOne` for kinds without an actuator |
| `Claim`, `Provision`, `Inspect` | `reconcileActuated` |
| `Apply` | `planFor` and `runActuation`, with failures that did nothing, half or all |
| `Fail` (operator), `Stamp` | `actuationFailed`, `actuationSettled`, `release` |
| `DriftPage`, `DriftItem` | `driftKind` |
| `CheckDrift`, `ReportDrift`, `ClearDrift` | `checkDrift`, `reportDrift`, `clearDriftAnnotation` |
| `BackoffElapses` | the `next` time of a retry episode passes |
| `UserCreate/Update/Delete`, `Trigger` | API writes, `handleReconcile` |
| `OutOfBand`, `Crash` | someone changes the external object; the daemon dies |

Abstractions: a backoff is "inside the window or not".  Unavailable and
unclassified errors are handled like Transient by the code and are Transient
here.  A claim that a guard gives back at once is not taken.  A page and the
sends it causes are one step.  The store's own errors (possible with Postgres)
are left out; the code logs them and goes on at the next scan.  Audit entries
and events of the reconciler are left out; nothing in it reads them.

**`Bus`** is the in-memory bus: subscriptions, numbering, the replay ring and the
subject grammar, on segments.  `Publish` copies the matching handlers under the
lock and runs them after it on the publisher's goroutine.  **`Dispatcher`**
extends it with what runs there.

| action | code |
|---|---|
| `Start` | `Start`: refresh, then subscribe |
| `WriteSubscription`, `DeleteSubscription`, `WriteOther` | committed writes whose event comes next |
| `Publish` | `Bus.Publish` under its lock, head of `onEvent` |
| `List`, `Apply` | `refresh`: the listing, and the rebuild under `d.mu` |
| `Fanout`, `Enqueue` | `fanout`: copy the handles, then offer the event to each |
| `WorkTop`, `WorkSelect` | the two selects of `work` |
| `Attempt`, `Backoff` | `process`: egress guard, POST, retry; `wait` |
| `Signal`, `Stop` | the daemon's context is cancelled; later `Stop` leaves the bus |

`handles[id]` keeps every handle ever made for a subscription, so that workers
of removed ones stay in view; `dsubs` is `d.subs`.  `got` is history: the events
fan-out selected a handle for.  `out` has the final audit entries; entries of
attempts that are retried are left out.  A listing is one page (up to 200
subscriptions), and stored specs parse.  What the egress guard looks at is left
out: it may refuse any attempt.  Audit appends do not fail.

**`Feed`** composes `Store` and `Bus` with a reader who walks a feed page by
page.  `handleAudit` pages by offset into the filtered listing, `handleEvents` by
the sequence of the oldest event delivered; both probe one entry past the page.
Entries are known by their number.  A behaviour has a reader of one feed or none;
without one the store runs with all its operations, under an audit reader the log
grows by `AppendAudit`, whose entries page like any others.

**`Stream`** is the JetStream bus with its durable consumer.  The NATS server is
external: it appends, hands out redeliveries and then new messages, redelivers
after `AckWait`, and stops after `MaxDeliver` deliveries.

| action | code |
|---|---|
| `Publish` | `PublishErr` |
| `ensureConsumer`, `AddConsumer`, `PullSubscribe` | `SubscribeDurable`: where the stream ends, then the consumer, then the binding |
| `Fetch`, `onEventDurable`, `Ack` | `durableLoop`, `dispatchDurable` and the dispatcher's handler |
| `Failed`, `DeadLetter`, `Term` | nak or give up; `deadLetter` |
| `AckExpires`, `Crash` | a slow handler or a lost answer; the daemon dies |
| `Poll` | `GET .../events?from=` over `RecentFrom` |

`PullSubscribe` binds the consumer.  When a call of `SubscribeDurable` fails the
dispatcher falls back to a plain subscription for the life of the process
(`FallBack`, the state `Live`): it hears each event at most once (`Heard`), and
what the consumer holds waits for the next boot.  `cut` has the events whose last
delivery a fault met.  Nothing expires by age.

**`Keys`** has the stored API keys, the authorizer's cache and who refreshes it.
`ListPage` is one page of `Refresh`, `Swap` its end under the lock, `ListFails` a
store error; handlers, the bus handler (on the publisher's goroutine), the ticker
and the boot run it, at once if it so happens.  A request is `Authenticate`,
`Resolve` (identity and `deriveScope`), `Authorize` and `Serve`, each reading the
cache as it is then; key handlers go on with `KeysCreate/Update/Delete`, their
refresh and `Respond`.  `SeedAdminKey`, `Seeded` and `Restart` are the boot.
Tokens stand for their digests; bodies have the right JSON types.  The daemon runs
without `--dev-auth`: with it the middleware takes any well-formed token that
`Authenticate` refuses for an admin (`middleware.go:544-556`, `620-622`), no
request depends on the cache, and nothing here would be left to check.

**`PgStore`** is `pgstore.go`, a statement an action: `BeginCreate`,
`BeginUpdate/Status/Delete`, `SelectForUpdate`, `Insert`, `Update`, `Stamp`,
`DeleteRow`, `insertAudit`, `Commit`, and `Rollback` at any point.  From PostgreSQL
it takes that `FOR UPDATE` waits and then reads the newest row, that an INSERT
waits for a competing uncommitted key, and that serial numbers follow INSERTs and
not COMMITs.  It implements `Store`: ids are renamed by order of creation, every
COMMIT is one of `Store`'s operations and nothing else is visible.

**`Docker`** takes apart what `Reconciler` does in one `Apply`: each Engine call
(`Inspect`, `CreateContainer`, `StartContainer`, `StopContainer`,
`RemoveContainer`) is refused, carried out, carried out with its answer lost, or
given up by the client's timeout (`client.go:51`) and carried out during a later
pass (`Land`).  `Pass` starts a worker pass (`Inspect`) or a drift pass
(`checkDrift`, which annotates a Ready status before it acts, and
`clearDriftAnnotation`); `Edit`, `Crash` and `Touch` (another user of the Engine
stops, removes or replaces the container) come in between.  `DesiredFields`,
`FieldsToSpec`, `Differs` (`CompareFields`) and `PlanContainers` are operators on
maps of fields.  Between the map and the container stands a list of `key=value`
texts: `EnvList` writes it, `Merged` adds what the image sets, `EnvListToFields`
cuts each entry at its first `=`.  A text is the sequence of its parts between the
`=` signs, so that writing is concatenation and cutting takes the head.

**`Agent`** runs the node agent over `Store`: `Sync` starts `sync_node`, `Fetch`,
`Answer` and `Refetch` are its attempts, `Arrive` and `Handle` the PUT handler at
the other end of a connection.  A request the agent gave up (`TimeOut`) may still
arrive.  `Crash`, `AgentRestart`, `Undelivered`, `GetFails` are the faults, `Edit`
the writes of others.

## Runs

| run | shows |
|---|---|
| `store` | `TypeOK`, `IndexConsistent`, `AuditTellsState`, `GenerationTracksContent`, `RingImplementsWindow`; of the feeds `WalkExact`, `WalkIsBounded` |
| `api` | `EventsMatchAudit`, `CASNoLostUpdate` |
| `pgstore` | `ListingTellsState`, `AddressHistoryOrdered`, `NoLostUpdate`, `CallsEnd`, `ImplementsStore` |
| `reconciler` | `TypeOK`, `SingleFlight`, `OpenEpisodes`, `ReadyMeansApplied` |
| `reconciler_live` | `Convergence` with updates, two faults, drift, manual trigger, crash |
| `reconciler_pages` | `Convergence` with two resources, paging, re-creation, a full queue, two workers |
| `docker` | `TakesDownOnlyDrifted`, `ReadyIsTrue`, `Converges` |
| `dispatcher` | `Accounted`, `OneDelivery`, `NoLeakedWorker`, `Quiesces` |
| `stream` | `AnsweredWasHandled`, `ReplayExact`, `Settles` |
| `keys` | `TypeOK`, `PassedOnStoredKeys`, `ImmediateWhenCalm`, `RefreshFaithful`, `CacheConverges` |
| `agent` | `AgentTypeOK`, `NoHeartbeatStorm`, `DrainingStays`, `Heals` |
| `reconciler_fresh` | a place where the code does not do what its text says |

**Bounds.**  `store`: two keys, three ids (a key is re-created while the other
lives), a ring of two slots and five entries, so three entries overwrite
older ones and the index wraps; one invalid spec; pages of one entry, a filter
that lets one of two keys through, an event ring of three and seven events, so
that both feeds roll past a reader who is between two pages, and a cursor bound
below the last event numbers.  `api`: two requests at once on one key, three generations, so that a
write, a competing write and a late CAS fit; two ids, so that delete and
re-create fit in between.  `reconciler`: two workers and the drift pass, two
generations, a retry budget of two and two faults, so that Degraded happens and
both ways into Failed: a permanent error, and the second transient one; one
out-of-band change and one crash; a queue of one, since `reconciler_pages` and
`reconciler_live` are about the queue; the workers are interchangeable (symmetry;
a safety run).  `reconciler_live` has the same budget and faults.  `dispatcher`: two publishers, so that refreshes and
fan-outs overlap; one subscription, since handles of different ids share nothing
but the lock; three events, so that one is posted, one queued and one dropped,
or a handle is made, removed and made again; two specs (active with two matching
patterns and a retry, and inactive); one store error.  `stream`: two messages of
any of four kinds in a batch of two, two deliveries, four faults, so that a fault
meets every call, those of the subscribe included, and every last delivery.  `keys`: the bootstrap key and two more
over three ids, a page of one (a deletion between pages moves a key), two writes,
three requests, a failed listing, a restart.  `pgstore`: two clients, two keys,
four calls: a create, two competing writers and a re-creation; two labels stand
for any change.  `docker`: two images, a variable as block and flat, a variable
with an `=` in its name, a spec without image, two faults, one touch, one edit, a
crash.  Container ids that nobody knows any more (no pass, no late request) serve
again, since a spec that cannot be carried is recreated for ever.  `agent`: two
connections, so that a request given up and the next are both under way; two
edits, a fault, a window, a crash; two attempts per sync instead of three, so
that the conflict of the last attempt is within reach.  (With three attempts,
three edits and two faults the same properties hold over 14.6 million states.)
The environment's counters (`MaxFaults`, `MaxDrifts`,
`MaxManual`, `MaxCrashes`, `MaxIds`, `MaxGen`, `MaxSeq`) bound what others do,
never what the code does.  `store`, `api`, `dispatcher`, `pgstore` and `docker`
stop at their bounds and the agent ends after draining, so deadlock is not
checked there; the reconciler, the durable loop and the authorizer's ticker never
stop, and it is.

**Fairness.**  `Store` and `Api` are checked for safety only.  `Dispatcher`: a publisher runs `onEvent` to its end and each worker goes
on (attempts time out, timers fire); nobody has to write and no signal has to
come.  `Reconciler`: each worker, the drift loop, the scan and each running
backoff are weakly fair, since goroutines are scheduled, tickers tick and time
passes.  Users, faults, out-of-band changes and crashes have none.  Convergence
supposes that manual triggers stop: a user who triggers without end can keep a
full queue full.  `Stream`: the loop runs and a dead daemon is restarted; the
server redelivers what nobody holds.  `Keys`: the boot goes on, the ticker ticks
and a refresh that has begun goes on.  `PgStore`: a transaction goes on when its
statement can; no timeout is owed, so `CallsEnd` shows that none is needed.
`Docker`: passes come and calls return.  `Agent`: the ticker ticks, the agent goes
on when answered, and requests that arrived are handled.  Faults, crashes and
others never have fairness.

## Findings

* **`reconciler_fresh`** - `UpdateStatus` stamps the generation stored now.  A
  spec update during the last attempt at the old one is marked Failed and
  observed, is never attempted, and no scan picks it up; `retry.go:94-96`
  promises a fresh generation its full budget.

More disagreements and limits came up while modelling and have no run of their
own.  In the API, the store and the feeds:

* `docs/api-contracts.md:184-186` says a PUT with `generation: N` fails when the
  stored generation is no longer N.  If the resource was deleted meanwhile, the
  PUT takes the create branch, which ignores the generation, and answers 201.  If
  it was deleted and re-created, generations start again at 1 and the echoed one
  may match the new resource.  `CASNoLostUpdate` is about the resource that was
  read.
* A deleted event carries the generation read before the delete, and two
  handlers may publish in the other order than they committed.
* The audit feed may show an entry twice when new ones shift its offset
  (`WalkExact` says it leaves none out).
* Event cursors are sequences but are decoded with the bound of offsets
  (`store.go:588`): past 2^31 events the feed hands out cursors that it answers
  with 400.
* Event ids of the JetStream bus come from a counter that starts again with the
  process (`natsbus.go:353`), while `handlers.go:295-296` calls the sequence
  monotonic: over events of two processes the event cursor repeats and skips.

In the reconciler and the docker provider:

* The drift pass tests phase and generation on the page it listed and claims
  later.  It can write Ready over a resource that a worker left Degraded, and
  re-apply the old spec; `drift.go:61-63` says such resources are left to the
  workers.  `Convergence` shows that it is repaired.
* A failure or crash between the create and the start of a container leaves one
  that was never started.  The plan compares fields only, so the next pass is a
  no-op and reports Ready (`actuator.go:91-93` has the replay adopt and start
  it).  `ReadyIsTrue` therefore speaks of passes that changed something.
* A variable name with an `=` in it, which `DesiredFields` accepts in an env object
  or as a flat key, comes back from the Engine's list as another variable.  The
  pass that creates the container stamps Ready without the variable being there,
  and each drift pass finds it missing and recreates the container, for ever;
  `spec.go:102-104` says malformed shapes are rejected because "a silently-dropped
  variable would surface later as mystery drift", and `actuator.go:56-57` that
  additions "never flap".  `ReadyIsTrue` and `Converges` except specs that are not
  `Carried`; `PlainNamesAreCarried` proves that, of specs with fields, these are
  all of that kind.
* A container removed by someone between create and start is a 404 at the start,
  which `ClassifyStatus` makes Permanent (`spec.go:219-220` says 404 never
  reaches it).
* A worker whose snapshot was read before another worker's claim ended passes
  the Failed guard and re-opens the resource at the same generation
  (`actuate.go:70` calls Failed terminal for it).
* A resource that became Ready and observed with a spec the provider cannot
  represent (an update that landed during the stamp) is handed to the workers
  by each drift pass and dropped at their steady-state guard; it never surfaces
  as `drift.go:134-137` says.
* For an actuator without a `FieldMapper`, the Degraded stamp of a failed
  attempt marks the generation observed, so the retry plans a no-op and stamps
  Ready (`provider.go:133-134`: "retries replay the same plan").  With
  `FieldMapper = FALSE`, `ReadyMeansApplied` is violated.

In the dispatcher and the durable consumer:

* On the in-memory bus every publisher runs `refresh` itself, and lists the store
  before it takes `d.mu`.  A listing from before a delete, applied after the
  delete's own refresh, gives the deleted subscription a new handle and worker
  until the next subscription event; `dispatcher.go:471-474` says its deliveries
  cease.
* The events in the queue of a handle that a refresh removes are given up
  (`dispatcher.go:515`), and unlike a drop on overflow they leave no audit entry.
  A listing from before a creation, applied after the creation's own refresh, does
  that to a live subscription too: its handle is removed until the next
  subscription event, and the events in between are not offered to it.
  `Accounted` says that nothing else is lost.
* `dispatcher.go:41-42` and `567-569` say "up to max_retries total attempts";
  `process` makes `MaxRetries + 1` (line 582).
* A delivery in its retries when its subscription is removed is retried to the
  end: `wait` watches the context and not `h.quit`.
* A crash, a slow handler or a failed dead-letter publish at the last delivery
  loses the event: the server delivers it no more and it is in no dead-letter
  stream.  `Settles` and `AnsweredWasHandled` except exactly these.
* A daemon whose durable subscribe fails delivers at most once until it is started
  again, and does not retry (`dispatcher.go:351-361`).  One such failure may be of
  the code's making: at the first boot `AddConsumer` gets a start sequence beside
  `DeliverAllPolicy` (`natsbus.go:536`, `562`), which a server may reject; the
  model leaves it the choice.  `Settles` excepts a daemon that runs on the plain
  subscription.
* A replay page with more matches than its limit keeps the newest ones, and its
  cursor moves past the others; `natsbus.go:724-726` says a walk "never replays
  or skips".  `ReplayExact` holds as long as no page is crowded.

In the keys and the agent:

* `keys.go:188-192` ("Revocation is immediate", "a dead token on the next request")
  and `docs/api-contracts.md:241` hold for a handler that nobody disturbs.  A
  refresh that listed before the delete and swaps after the handler's own puts the
  revoked key back, and when the handler's listing fails the error is dropped and
  204 answered; until the next refresh the token still works.
  `ImmediateWhenCalm` has exactly these exceptions, and `CacheConverges` shows that
  the ticker ends them.
* The bootstrap key is seeded again at the next start after an admin deleted it.
* A PUT the agent sent after a GET that found no node carries no generation.  If
  it arrives late it overwrites whatever is there, the draining marker included.
  `DrainingStays` is about PUTs that echo a generation.
* Generations start again at 1 when the node is deleted and re-created, so a late
  PUT may find the generation it echoes on another resource.
* `client.rs:262` says the draining marker is a "single attempt"; it goes through
  the retries of `sync_node`.

## Proofs

All of it is for arbitrary constants, under the named assumptions beside the
CONSTANTS.  Only finiteness bounds (`MaxIds` and the like, any natural numbers)
remain in the guards.

`StoreProofs`:

* `TypeCorrect`: `Spec => []TypeOK`.  `TypeOK` is inductive: ids come from
  `nextId`, and the write index wraps below the capacity.
* `IndexesAgree`: `Spec => []IndexConsistent`, inductive together with `TypeOK`
  (a fresh id is above every id in use, so creation disturbs no other entry).
* `GenerationNamesContent`: the action property, from `TypeOK`.
* `RingRefinesWindow`: the ring implements `AuditWindow`.  The invariant
  `RingShape` is needed: below the capacity the write index is 0, so that the
  modular walk of `ListAudit` lists the slice backwards.  The lemmas `SlotIndex`
  and `RingWrite` say which slot each position of a listing is, before and
  after a write.

`ReconcilerProofs`:

* `SingleActor`: `Spec => []SingleFlight`, for any number of workers and any
  limits.  `SingleFlight` is inductive once `proc` is known to stay a function
  on the goroutines.  It has two halves because neither is inductive alone: a
  claim is granted when the id is not in `actuating`, which excludes a second
  holder only if every holder's id is in it, and giving a claim back keeps that
  only if there is no second holder.  Every action is one of four shapes
  (outside an actuation, taking a free claim, going on under it, giving it
  back), each with a lemma.

`PgStoreProofs`:

* `UpdatesAreNotLost`: `Spec => NoLostUpdate`, for any number of clients and
  calls.  The generation is checked at the `SELECT`, the property is about the
  `COMMIT`.  The inductive invariant `LockInv` carries it over: a row somebody
  locked is in the table as it was read, and no two transactions hold one row or
  create one id.  Lemmas for the shapes of a step (`Begun`, `GoesOn`, `Ended`,
  `Committed`) reduce the proof to the transaction that moved.

`DockerProofs`:

* `FieldsRoundTrip`: `DesiredFields` is idempotent through `FieldsToSpec`, for
  every spec and shape of env: the contract `provider.go` asks of a field mapper.
* `PlainNamesAreCarried`: a spec with fields whose variable names have no `=` comes
  back from the Engine's list as declared, whatever the Engine adds.  It bounds the
  exception of `ReadyIsTrue` and `Converges`.  `CutAtFirst` and `OnePart` are the
  facts about texts: the head of `k=v` is `k`, the rest is `v`.
* `OnlyDriftedTakenDown`: `Spec => TakesDownOnlyDrifted`, for any specs, foreign
  containers and bounds.  `PassInv` says what a pass on its way to take the
  container down knows: left alone, that it differs, and from the second inspect
  on, its id; and that every late stop or remove whose container is still there
  was aimed at one that differs, or at one that changed under its pass.
  `UpdateMeansDrift` is where the field mapping comes in, `MadeIsNew` keeps a new
  container from having an id that a late request knows.

Only model-checked: `AuditTellsState`, the properties of `Feed`, `Api`, `Keys`,
`Stream`, `Agent` and `Dispatcher`, the refinement of `Store` by `PgStore` (its
mapping renames ids through a filtered sequence, which needs induction over
sequences), `OpenEpisodes`, `ReadyMeansApplied`, `ReadyIsTrue`, and everything
temporal beyond safety (`Convergence`, `Quiesces`, `Settles`,
`CacheConverges`, `CallsEnd`, `Converges`, `Heals`), since TLAPS has no support for
fairness here.  The reconciler's `TypeOK` speaks of a queue filled by a fold over
a page, which needs induction over sequences that the installed provers do not do.

## Not modelled

* Metrics, tracing and logging: written and never read by the system.
* CLI, SDKs and console: one-shot requests and a UI.  Their paging loops send the
  cursor back that they got, which is `Feed`'s reader.
* Routing, CORS, body limits, TLS and flags: sequential plumbing of one request or
  of the start.
* Migrations: run once under the database's own lock before anything else.
* The live subscriptions of the JetStream bus (at most once, asynchronous) other
  than the dispatcher's fallback in `Stream`, the bus's
  connection handling and stream provisioning, and retention by age.
* Webhook payloads, signatures, URL checks and what the egress guard looks at;
  `Validate`, the JSON shapes of bodies and the hashing of tokens.
* Durations: tickers, backoffs and timeouts are steps that may happen, not times.

## Plan

1. Proofs: `AuditTellsState`, `EventsMatchAudit` and `CASNoLostUpdate`,
   `PassedOnStoredKeys`, `AnsweredWasHandled`, `NoLeakedWorker` and `OneDelivery`.
2. `Docker` as an implementation of `Reconciler`'s `Apply`, instead of a model
   beside it.
3. The live JetStream subscriptions, composed with `Dispatcher` and `Keys`, whose
   refreshes they trigger asynchronously.
