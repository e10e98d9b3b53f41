-------------------------------- MODULE Keys --------------------------------
(***************************************************************************)
(* Managed API keys: the /v1/keys handlers (internal/api/keys.go), the     *)
(* authorizer's key cache (internal/authz/authz.go), the middleware that   *)
(* reads it (internal/api/middleware.go, AuthZMiddleware) and the boot     *)
(* sequence that seeds it (cmd/ryvexd/serve.go).                           *)
(*                                                                         *)
(* The store holds the APIKey resources; the cache is a listing of them.   *)
(* Refresh lists page by page with no lock and swaps the cache in a later  *)
(* step, so refreshes of handlers, of the bus handler (which the in-memory *)
(* bus runs on the publisher's goroutine), of the ticker and of the boot   *)
(* overlap each other and the writes.                                      *)
(*                                                                         *)
(* The store survives a restart, as with the Postgres backend.  A token    *)
(* stands for its digest: HashToken is injective in the model.             *)
(*                                                                         *)
(* The daemon runs without --dev-auth, under which the middleware takes a  *)
(* well-formed token that Authenticate refuses for an admin: then no       *)
(* request depends on the cache, and nothing here would be left to check.  *)
(***************************************************************************)
EXTENDS Naturals, Sequences, SequencesExt, FiniteSetsExt

CONSTANTS
  Principals,  \* principals keys are minted for
  BootKeys,    \* the --api-keys entries: [principal, token] records
  KeyRequests, \* bodies of POST /v1/keys: [roles, scopes, org, project] records
  Patches,     \* bodies of PUT /v1/keys/{id}: functions of the fields they set
  Requests,    \* the other requests: [route, method, org, project] records
  ReservedOrg, \* state.ReservedOrg
  Clients,     \* goroutines serving requests
  PageLimit,   \* the Limit of Refresh's listing
  MaxIds,      \* bound on keys ever stored
  MaxWrites,   \* bound on key writes through the API
  MaxRequests, \* bound on authenticated requests
  MaxFaults,   \* bound on failed listings
  MaxRestarts  \* bound on restarts of the daemon

ASSUME KeysAssumption ==
  /\ {PageLimit, MaxIds} \subseteq Nat \ {0}
  /\ {MaxWrites, MaxRequests, MaxFaults, MaxRestarts} \subseteq Nat
  /\ \A b \in BootKeys : DOMAIN b = {"principal", "token"}

VARIABLES
  keys,  \* the stored APIKey resources in listing order (created_at, id)
  minted,\* resources created so far, which ids and fresh tokens count
  cache, \* byHash; byPrincipal is derived from the same listing
  run,   \* the Refresh each goroutine is in
  h,     \* the request each client is in
  boot,  \* the daemon: "seed", "refresh" or "serving"
  ever,  \* history: every version of every key the store held
  denied,\* the authz_denied entries of the audit trail: who, on what
  count  \* history: writes, requests, faults and restarts so far

vars == <<keys, minted, cache, run, h, boot, ever, denied, count>>

Refreshers == Clients \cup {"ticker", "boot"}

Wildcard == [org |-> "*", project |-> ""]

KeysRoute == [route |-> "keys", method |-> "", org |-> "", project |-> ""]

-----------------------------------------------------------------------------
(* The key specification and the questions asked of a cached key.          *)

\* ParseAPIKeySpec and ValidScope, for bodies of the right JSON types.
ValidKey(k) ==
  /\ k.roles # {} /\ k.roles \subseteq {"admin", "operator", "viewer"}
  /\ "admin" \in k.roles \/ (k.scopes # {} /\ Wildcard \notin k.scopes)

\* NewAPIKeyResource: active, named after its principal.
NewKey(id, principal, roles, scopes, token) ==
  [id |-> id, principal |-> principal, roles |-> roles, scopes |-> scopes,
   hash |-> token, active |-> TRUE]

\* Create's scope sugar: org and project stand for one scope, and an admin key
\* may leave all of them out.  (Others may not: ValidKey refuses no scopes.)
DerivedScopes(body) ==
  IF body.scopes # {} THEN body.scopes
  ELSE IF body.org # "" THEN {[org |-> body.org, project |-> body.project]}
  ELSE IF "admin" \in body.roles THEN {Wildcard} ELSE {}

\* A project scope covers that project, an org scope everything in the org.
\* The wildcard covers nothing.
ScopeMatches(s, org, project) ==
  s # Wildcard /\ s.org = org /\ (s.project = "" \/ s.project = project)

\* deriveScope, by the shape of the route: what a request touches, or that only
\* an admin may make it.  The index passes, and so do the key routes: their
\* handlers check.  (A body over the limit is a 413 and changes nothing.)
deriveScope(r) ==
  LET scope(org, project, write) ==
        [pass |-> FALSE, adminOnly |-> FALSE, org |-> org, project |-> project, write |-> write]
      none == scope("", "", FALSE)
  IN CASE r.route \in {"index", "keys"} -> [none EXCEPT !.pass = TRUE]
       [] r.route = "resources" /\ r.method = "POST" -> scope(r.org, r.project, TRUE)
       [] r.route = "resources" /\ r.method # "POST" /\ r.org # "" -> scope(r.org, r.project, FALSE)
       [] r.route = "feed" -> scope(r.org, "", FALSE)
       [] r.route = "reconcile" -> scope(r.org, "", TRUE)
       [] r.route = "kind" -> scope(r.org, r.project, FALSE)
       [] r.route = "document" -> scope(r.org, r.project, r.method # "GET")
       [] OTHER -> [none EXCEPT !.adminOnly = TRUE]

\* The decision Authorize takes on a principal's cached key.
Permits(k, t) ==
  /\ k.active
  /\ \/ "admin" \in k.roles
     \/ /\ ~(t.write /\ t.org = ReservedOrg)
        /\ ~(t.write /\ "viewer" \in k.roles)
        /\ \E s \in k.scopes : ScopeMatches(s, t.org, t.project)

\* The entries of the cache for a digest and for a principal: the first wins.
ByHash(token) == SelectInSeq(cache, LAMBDA k : k.hash = token)
ByPrincipal(p) == SelectInSeq(cache, LAMBDA k : k.principal = p)

Stored(p) == \E k \in ToSet(keys) : k.principal = p

-----------------------------------------------------------------------------

Idle == [pc |-> "idle"]
NoRun == [on |-> FALSE, full |-> FALSE, acc |-> <<>>, live |-> {}, kept |-> {}, shifted |-> FALSE]

Init ==
  /\ keys = <<>> /\ minted = 0 /\ cache = <<>> /\ ever = {} /\ denied = {}
  /\ run = [p \in Refreshers |-> NoRun]
  /\ h = [c \in Clients |-> Idle]
  /\ boot = "seed"
  /\ count = [writes |-> 0, requests |-> 0, faults |-> 0, restarts |-> 0]

Tick(what) == count' = [count EXCEPT ![what] = @ + 1]

\* What a write does to the refreshes in flight, as history: live gathers
\* what the store held since they began, kept what it held throughout, and
\* shifted says that a deletion moved later keys up.
Observed(new) ==
  [p \in Refreshers |->
     IF run[p].on
     THEN [run[p] EXCEPT !.live = @ \cup ToSet(new), !.kept = @ \cap ToSet(new),
                         !.shifted = @ \/ Len(new) < Len(keys)]
     ELSE run[p]]

\* A client's write: the store, and the refreshes the handler still owes.
\* calm is history: no other refresh was under way when the write happened,
\* and nothing has disturbed the handler since.
KeyWrite(c, new, refreshes) ==
  /\ keys' = new
  /\ ever' = ever \cup ToSet(new)
  /\ run' = Observed(new)
  /\ h' = [d \in Clients |->
             IF d = c THEN [pc |-> "refresh", left |-> refreshes,
                            calm |-> \A p \in Refreshers : ~run[p].on]
             ELSE IF h[d].pc \in {"refresh", "respond"} THEN [h[d] EXCEPT !.calm = FALSE]
             ELSE h[d]]
  /\ UNCHANGED <<cache, boot, denied>>

Answered(c) == h' = [h EXCEPT ![c] = Idle]

-----------------------------------------------------------------------------
(* AuthZMiddleware.  The token is resolved with two reads of the cache     *)
(* (Authenticate, Lookup) and a scoped request takes a third (Authorize);  *)
(* a refresh may swap the cache between them.                              *)

\* bearerToken and Authenticate; an unknown or disabled key is a 401, which
\* changes nothing.
Authenticate(c, token, op) ==
  /\ boot = "serving" /\ h[c].pc = "idle" /\ count.requests < MaxRequests
  /\ LET i == ByHash(token)
     IN /\ i # 0 /\ cache[i].active
        /\ h' = [h EXCEPT ![c] = [pc |-> "lookup", token |-> token, op |-> op,
                                  principal |-> cache[i].principal]]
  /\ Tick("requests")
  /\ UNCHANGED <<keys, minted, cache, run, boot, ever, denied>>

\* The 403 and AuditDenied's entry.
Deny(c, org, project) ==
  /\ Answered(c)
  /\ denied' = denied \cup {[principal |-> h[c].principal, org |-> org, project |-> project]}

\* The request goes on to its handler, or to Authorize.
Pass(c, pc) == h' = [h EXCEPT ![c].pc = pc] /\ UNCHANGED denied

\* The handlers of the key routes begin with it.
requireAdmin(c, admin) ==
  IF admin THEN h' = [h EXCEPT ![c] = [pc |-> "keys"]] /\ UNCHANGED denied
  ELSE Deny(c, "", "")

\* Lookup and deriveScope: the roles are those the cache has now.  Behind a
\* route that passes comes its handler.
Resolve(c) ==
  /\ h[c].pc = "lookup"
  /\ LET i == ByPrincipal(h[c].principal)
         admin == i # 0 /\ "admin" \in cache[i].roles
         scope == deriveScope(h[c].op)
     IN IF h[c].op = KeysRoute THEN requireAdmin(c, admin)
        ELSE IF scope.pass \/ admin THEN Pass(c, "passed")
        ELSE IF scope.adminOnly THEN Deny(c, scope.org, scope.project)
        ELSE Pass(c, "authorize")
  /\ UNCHANGED <<keys, minted, cache, run, boot, ever, count>>

\* A variant that takes an unknown principal for permitted.
Authorize_OpenWhenUnknown(c) ==
  /\ h[c].pc = "authorize"
  /\ LET i == ByPrincipal(h[c].principal)
         scope == deriveScope(h[c].op)
     IN IF i = 0 \/ Permits(cache[i], scope) THEN Pass(c, "passed")
        ELSE Deny(c, scope.org, scope.project)
  /\ UNCHANGED <<keys, minted, cache, run, boot, ever, count>>

\* Authorize, on the key the cache has by now.
Authorize(c) ==
  /\ h[c].pc = "authorize"
  /\ LET i == ByPrincipal(h[c].principal)
         scope == deriveScope(h[c].op)
     IN IF i # 0 /\ Permits(cache[i], scope) THEN Pass(c, "passed")
        ELSE Deny(c, scope.org, scope.project)
  /\ UNCHANGED <<keys, minted, cache, run, boot, ever, count>>

\* The handler of a data request runs and answers.
Serve(c) ==
  /\ h[c].pc = "passed"
  /\ Answered(c)
  /\ UNCHANGED <<keys, minted, cache, run, boot, ever, denied, count>>

-----------------------------------------------------------------------------
(* The key handlers, past requireAdmin.  GetResource and the write of      *)
(* Update and Delete are one step: ids are never reused and a resource     *)
(* keeps its kind, so the first read can only see what the second sees.    *)

\* KeyService.Create's key, with a fresh token.
Create(principal, body) ==
  NewKey(minted + 1, principal, body.roles, DerivedScopes(body), minted + 1)

\* KeyService.Update's: the fields the body sets replace the stored ones.
Update(k, patch) == [f \in DOMAIN k |-> IF f \in DOMAIN patch THEN patch[f] ELSE k[f]]

\* KeyService.Delete: what is left of the keys.
Delete(i) == RemoveAt(keys, i)

\* A variant over a store without the logical-key check.
KeysCreate_Duplicates(c) ==
  /\ h[c].pc = "keys" /\ count.writes < MaxWrites /\ minted < MaxIds
  /\ \E p \in Principals, body \in KeyRequests :
       LET k == Create(p, body)
       IN ValidKey(k) /\ KeyWrite(c, Append(keys, k), 2)
  /\ minted' = minted + 1
  /\ Tick("writes")

\* handleKeysCreate: validate, CreateResource, publish, refresh.  The bus
\* handler's refresh and the handler's own make two.
KeysCreate(c) ==
  /\ h[c].pc = "keys" /\ count.writes < MaxWrites /\ minted < MaxIds
  /\ \E p \in Principals, body \in KeyRequests :
       LET k == Create(p, body)
       IN IF ValidKey(k) /\ ~Stored(p)
          THEN /\ KeyWrite(c, Append(keys, k), 2)
               /\ minted' = minted + 1
               /\ Tick("writes")
          ELSE Answered(c) /\ UNCHANGED <<keys, minted, cache, run, boot, ever, denied, count>>

\* A variant over a store that lists by the time of the last update.
KeysUpdate_MovesLast(c) ==
  /\ h[c].pc = "keys" /\ count.writes < MaxWrites
  /\ \E i \in 1 .. Len(keys), patch \in Patches :
       LET new == Update(keys[i], patch)
       IN ValidKey(new) /\ KeyWrite(c, Append(RemoveAt(keys, i), new), 2)
  /\ Tick("writes")
  /\ UNCHANGED minted

\* handleKeysUpdate: publish only when something changed, refresh always.
KeysUpdate(c) ==
  /\ h[c].pc = "keys" /\ count.writes < MaxWrites
  /\ \E i \in 1 .. Len(keys), patch \in Patches :
       LET new == Update(keys[i], patch)
       IN IF ValidKey(new)
          THEN /\ KeyWrite(c, [keys EXCEPT ![i] = new], IF new = keys[i] THEN 1 ELSE 2)
               /\ Tick("writes")
               /\ UNCHANGED minted
          ELSE Answered(c) /\ UNCHANGED <<keys, minted, cache, run, boot, ever, denied, count>>

\* A variant that trusts an event to refresh, as the other two handlers could.
KeysDelete_NoRefresh(c) ==
  /\ h[c].pc = "keys" /\ count.writes < MaxWrites
  /\ \E i \in 1 .. Len(keys) :
       /\ keys' = RemoveAt(keys, i)
       /\ run' = Observed(RemoveAt(keys, i))
       /\ h' = [h EXCEPT ![c] = [pc |-> "respond", calm |-> \A p \in Refreshers : ~run[p].on]]
  /\ Tick("writes")
  /\ UNCHANGED <<minted, cache, boot, ever, denied>>

\* handleKeysDelete: no event is published, so one refresh.
KeysDelete(c) ==
  /\ h[c].pc = "keys" /\ count.writes < MaxWrites
  /\ \E i \in 1 .. Len(keys) : KeyWrite(c, Delete(i), 1)
  /\ Tick("writes")
  /\ UNCHANGED minted

Respond(c) ==
  /\ h[c].pc = "respond"
  /\ Answered(c)
  /\ UNCHANGED <<keys, minted, cache, run, boot, ever, denied, count>>

-----------------------------------------------------------------------------
(* Authorizer.Refresh, one step per page and one for the swap.             *)

Refreshing(p) ==
  \/ p \in Clients /\ h[p].pc = "refresh"
  \/ p = "ticker" /\ boot = "serving"
  \/ p = "boot" /\ boot = "refresh"

\* ListResources at the offset the cursor holds.  An empty page or an empty
\* next cursor ends the loop; every page before it was full, so the offset is
\* the number of keys gathered.
ListPage(p) ==
  /\ Refreshing(p) /\ ~run[p].full
  /\ LET r == IF run[p].on THEN run[p]
              ELSE [NoRun EXCEPT !.on = TRUE, !.live = ToSet(keys), !.kept = ToSet(keys)]
         end == Len(r.acc) + PageLimit
     IN run' = [run EXCEPT ![p] =
                  [r EXCEPT !.acc = @ \o SubSeq(keys, Len(r.acc) + 1, Min({end, Len(keys)})),
                            !.full = ~(end < Len(keys))]]
  /\ UNCHANGED <<keys, minted, cache, h, boot, ever, denied, count>>

\* What follows a Refresh of p, whether it failed or not: its error is logged
\* or dropped by every caller.
Refreshed(p, ok) ==
  /\ run' = [run EXCEPT ![p] = NoRun]
  /\ h' = IF p \notin Clients THEN h
          ELSE [h EXCEPT ![p] = [pc |-> IF @.left = 1 THEN "respond" ELSE "refresh",
                                 left |-> @.left - 1, calm |-> @.calm /\ ok]]
  /\ boot' = IF p = "boot" THEN "serving" ELSE boot
  /\ UNCHANGED <<keys, minted, ever, denied>>

ListFails(p) ==
  /\ Refreshing(p) /\ ~run[p].full
  /\ count.faults < MaxFaults
  /\ Refreshed(p, FALSE)
  /\ Tick("faults")
  /\ UNCHANGED cache

\* A variant whose periodic reload is skipped while the number of keys is the
\* same.
Swap_TickerCounts(p) ==
  /\ run[p].full
  /\ cache' = IF p = "ticker" /\ Len(run[p].acc) = Len(cache) THEN cache ELSE run[p].acc
  /\ Refreshed(p, TRUE)
  /\ UNCHANGED count

Swap(p) ==
  /\ run[p].full
  /\ cache' = run[p].acc
  /\ Refreshed(p, TRUE)
  /\ UNCHANGED count

-----------------------------------------------------------------------------
(* Boot and restart.                                                       *)

\* seedBootstrapKeys: SeedAdminKey for each entry whose principal has no key.
\* The entries are registered in map order; the model takes one per step.
SeedAdminKey ==
  /\ boot = "seed" /\ minted < MaxIds
  /\ \E b \in BootKeys :
       LET k == NewKey(minted + 1, b.principal, {"admin"}, {Wildcard}, b.token)
       IN /\ ~Stored(b.principal)
          /\ keys' = Append(keys, k)
          /\ ever' = ever \cup {k}
  /\ minted' = minted + 1
  /\ UNCHANGED <<cache, run, h, boot, denied, count>>

\* Every entry is registered or was left alone: the first Refresh follows.
Seeded ==
  /\ boot = "seed"
  /\ \A b \in BootKeys : Stored(b.principal) \/ minted = MaxIds
  /\ boot' = "refresh"
  /\ UNCHANGED <<keys, minted, cache, run, h, ever, denied, count>>

\* The process dies at any point; what it held in memory is gone.
Restart ==
  /\ count.restarts < MaxRestarts
  /\ boot' = "seed" /\ cache' = <<>>
  /\ run' = [p \in Refreshers |-> NoRun]
  /\ h' = [c \in Clients |-> Idle]
  /\ Tick("restarts")
  /\ UNCHANGED <<keys, minted, ever, denied>>

Tokens == 1 .. MaxIds \cup {b.token : b \in BootKeys}

Next ==
  \/ \E c \in Clients :
       \/ \E token \in Tokens, op \in Requests \cup {KeysRoute} : Authenticate(c, token, op)
       \/ Resolve(c) \/ Authorize(c) \/ Serve(c)
       \/ KeysCreate(c) \/ KeysUpdate(c) \/ KeysDelete(c) \/ Respond(c)
  \/ \E p \in Refreshers : ListPage(p) \/ ListFails(p) \/ Swap(p)
  \/ SeedAdminKey \/ Seeded \/ Restart

\* The daemon boots, the ticker of Start fires again and again, and a handler
\* that owes a refresh runs it.
Fairness ==
  /\ WF_vars(SeedAdminKey) /\ WF_vars(Seeded)
  /\ \A p \in Refreshers : WF_vars(ListPage(p)) /\ WF_vars(Swap(p))

Spec == Init /\ [][Next]_vars /\ Fairness

-----------------------------------------------------------------------------

KeyRecords ==
  [id : 1 .. MaxIds, principal : Principals \cup {b.principal : b \in BootKeys},
   roles : SUBSET {"admin", "operator", "viewer"}, scopes : SUBSET ({Wildcard} \cup UNION {DerivedScopes(r) : r \in KeyRequests}),
   hash : Tokens, active : BOOLEAN]

\* The keys, the cache, every listing in progress and the requests have their
\* types, and no principal has two stored keys.
TypeOK ==
  /\ \A s \in {keys, cache} \cup {run[p].acc : p \in Refreshers} : ToSet(s) \subseteq KeyRecords
  /\ minted \in 0 .. MaxIds /\ boot \in {"seed", "refresh", "serving"}
  /\ \A i, j \in 1 .. Len(keys) : keys[i].principal = keys[j].principal => i = j
  /\ \A c \in Clients : h[c].pc \in {"idle", "lookup", "authorize", "passed", "keys", "refresh", "respond"}

\* A request the middleware lets through presented the token of a key that was
\* active, and unless it asked for the index, its principal had a key that
\* permits the target: each held by the store at some time, though the three
\* reads of the cache may have seen three listings.
PassedOnStoredKeys ==
  \A c \in Clients : h[c].pc = "passed" =>
    /\ \E k \in ever : k.hash = h[c].token /\ k.principal = h[c].principal /\ k.active
    /\ \/ deriveScope(h[c].op).pass
       \/ \E k \in ever : k.principal = h[c].principal
                          /\ ("admin" \in k.roles \/ Permits(k, deriveScope(h[c].op)))

\* "Make the new key usable immediately" and "Revocation is immediate": when
\* a key handler answers, the cache is the store's content, unless another
\* refresh was under way at the write, another key was written after it, or
\* one of its own listings failed.
ImmediateWhenCalm ==
  \A c \in Clients : h[c].pc = "respond" /\ h[c].calm => cache = keys

\* A refresh installs only keys the store held while it was listing, and every
\* key the store held throughout, unless a deletion moved keys up between two
\* pages.
RefreshFaithful ==
  [][\A p \in Refreshers :
       run[p].on /\ run'[p] = NoRun /\ cache' # cache /\ count'.restarts = count.restarts =>
         /\ ToSet(cache') \subseteq run[p].live
         /\ run[p].shifted \/ run[p].kept \subseteq ToSet(cache')]_vars

\* Whatever overlapping or failed refreshes left behind, the ticker brings the
\* cache back to the store's content once writes stop.
CacheConverges == <>[](cache = keys)
=============================================================================
