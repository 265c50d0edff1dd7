# A verification of submcp

submcp is an MCP gateway written in Go. Downstream clients open sessions with it,
list tools and call them; it fans the requests out to upstream MCP servers over
pooled connections. Operators configure servers in an admin UI, tenants configure
their own over a REST API with sealed credentials. This directory holds TLA+
modules of its concurrent and stateful parts, the TLC configurations that check
them, and TLAPS proofs of their safety properties for every instance.

All paths below are relative to the repository.

## 1. Inventory

| Part | State it keeps | Operations | What makes it hard |
|---|---|---|---|
| Connection pool, `internal/mcp/pool.go` | idle stacks, active stacks per session, counters per server and in all, tenant budget, one channel per tenant | Acquire, AcquireTenant, Release, ReleaseSession, SweepExpired | connects outside the lock; three roll-backs; sessions end under their calls; a receive under the lock |
| Circuit breaker, `breaker.go` | state, failures, probes, openedAt | Allow, Success, Failure | late reports, uncounted probe, probes that never report |
| Tool discovery, `aggregator.go` | tool cache, single flight, error_status, sync hashes | getServerTools, fetchServerTools, RefreshServer, quarantine, recordCheck, syncTools | several sections per request, followers without deadline, writes after the lock |
| Routing, `aggregator.go` | namespace cache, route map | getServers, buildRouteMap, CallTool, ListTools, InvalidateNamespace, ForgetServer | entries stored after they were invalidated |
| Tenant servers, `tenant_api.go`, `db/tenant_servers.go` | rows of mcp_servers, an advisory lock | create, patch, delete, test, tools | read-modify-write over several statements |
| Tenant credentials, `tenant_secrets.go`, `tenant_reseal.go` | sealed header maps | seal, merge, re-seal at boot | a boot beside a serving gateway; credentials must not change origin |
| Sessions and transports, `server.go` | session store, SSE channels | initialize, list, call, DELETE, SSE stream and message, sweep | session, stream and call end in any order; bounded channel; writes that block or go nowhere |
| Tenant gate and usage, `tenant.go`, `db/tenants.go` | usage_daily, tenants | checkEntitlement, allowToolCall, TryBumpUsage | two statements per reservation, the day may change, a row read and judged later |
| Rate limiters, `ratelimit.go` | buckets in LRU order | Allow | eviction gives a full bucket back |
| API keys, `auth.go` | api_keys | Authenticate | minted and revoked by sessions made with keys |
| Access verifier, `access/access.go` | key cache | keyFor, Verify | fetch under the mutex, one cooldown for three triggers, rotation during a fetch |
| Admin UI, `ui/ui.go` | sessions; the tables of servers, namespaces, mappings, endpoints | login, logout, requireAuth, CRUD | nobody tells the aggregator's caches |
| Migrations and boot, `db/db.go`, `cmd/submcp/main.go` | schema_migrations | Migrate, sweeper, shutdown | two gateways boot at once |
| Rest: SSRF and network policy, metrics, config, HTTP assembly | none that anything decides on | | |

How they interact. A request passes the rate limiter of its address, its tenant and endpoint
are looked up, its key and the tenant's entitlement are checked, the transport handler looks
its session up, a tool call of a tenant on trial reserves one of the day's calls, and the
handler calls the aggregator. The aggregator reads the namespace's servers (cached 5 s),
builds the route map, asks the breaker, acquires a client from the pool for the *session*
and a *pool key*, calls the upstream, reports to the breaker, writes error_status, and
releases the client. Ending a session (DELETE, SSE disconnect, the sweeper every two
minutes) releases whatever the pool holds for it, without asking whether a call is running.
The tenant API writes rows and then drops the aggregator's caches; the admin UI writes rows
and drops nothing. A booting gateway migrates the schema and re-seals old credentials while
the previous one still serves.

`PROJECT.json` lists the hazards this code is exposed to, each at its line, with
the properties that cover it.

## 2. Modules

| Module | What it is |
|---|---|
| `Pool` | the connection pool: 19 actions, one per section under `Pool.mu`, channel operation, or return of the factory |
| `Leases` | what the pool promises: exclusive leases within the caps. `Pool` implements it |
| `Breaker` | Allow, Success and Failure as operators on the breaker's state |
| `Discovery` | the requests to one server sharing its breaker, tool cache, single flight and error_status |
| `TenantServers` | one tenant's rows under the REST API and the re-seal of a booting gateway |
| `Routing` | a namespace's cached server list and route map, the calls that go by them, and the tenant's changes that drop them |
| `ToolSync` | the stored tools of one server: the hash gate, the transaction behind it, the tenant's tool switch |
| `Delivery` | what the SSE transport promises: a stream per session that hands on what it accepted, in order. `Sessions` implements it |
| `Quota` | what the daily cap promises: a reservation in one step. `Admission` implements it |
| `Sessions` | the downstream side: the session store, requests that name a session, and the streams of the legacy SSE transport with their channels |
| `Limiter` | the rate limiter's Allow, as operators on its state |
| `Admission` | how a request gets in: the limiter, the tenant's row, the entitlement and the daily cap in its two statements. Extends `Limiter` |
| `AdminAccess` | who acts on the admin API: keys, sessions, Access tokens, and the verifier's key cache |
| `Catalog` | what operator and tenant put up and what clients see of it: the admin UI's tables, the tool switch, the names ListTools makes and CallTool takes apart, the caches with their age |
| `PoolProofs`, `CallProofs` (of `Catalog` and `Discovery`), `TenantServersProofs`, `RoutingProofs`, `ToolSyncProofs`, `SessionsProofs`, `AdmissionProofs`, `AdminAccessProofs` | theorems and proofs |
| `MCPool`, `MCDiscovery`, `MCTenantServers`, `MCRouting`, `MCToolSync`, `MCSessions`, `MCAdmission`, `MCAdminAccess`, `MCCatalog` | small instances for TLC: the owner of each server, names and overrides, symmetries |

Definitions named as variants in a comment ("Variant: ...") are plausible mistakes.
Nothing of the model uses them; substituting one for the operator it varies makes
TLC find the property it endangers violated.

### Pool

`idle[v]` is `Pool.idle`, `active` the set of (session, server, client) triples of
`Pool.active`, `activePerServer`, `activeTotal` and `tenantActive` are the counters,
`tenantSem[t]` the number of tokens in a tenant's channel, `heldFor` the fields
`tenant` and `tenantKey` of a pooled client. `pc`, `request` and `held` are the
goroutines' local state: a request goes from `slot` (waiting on the channel) over
`budget` and `acquire` to `connect` (the factory runs, unlocked) and `calling`, or
back over `unreserve`, `unbudget` and `unslot`, the deferred functions.
`Release` and `ReleaseSession` share `Detach`: detach, give back what the clients
count for, park them on the idle stack or close them. Stacks are sets: which of the
idle clients is on top is left open, and so is which the sweeper finds expired.
The clamp of `decActiveLocked` is left out because there is never anything to clamp:
`TypeOK` and `ConnectionAccounting` would fail first. The blocking receive of
`releaseTenantLocked` is a guard, so that a missing token shows as a step that
cannot happen; `TokenPresent` proves that it always can.

### Breaker and Discovery

Time is one bit of the breaker, whether the cooldown has passed, and one of three values of
the cache: none, fresh, stale. A request is a tool call, the server's part of one listing,
or a test. Listings begin with a question to the breaker (`ListAllowed`, in ListTools) or
without one (`RouteBegins`, in buildRouteMap, which ListTools and CallTool run first); a
ListTools of the code is one of each. A listing that must fetch asks (again) in
`FetchAllowed`. Whoever is let in acquires a client first (step `acquire`), which may take a
wait for a slot and a connection made anew, and is sent in `GoesUpstream` without asking
again: the breaker may have opened, cooled and become half-open meanwhile. Outcomes are
`Succeed`, `Fail` (errors and timeouts, and also a full pool or a spent tenant budget, which
the code does not tell apart) and `ClientGone`, the last two also while acquiring.
`Quarantine` and `Unquarantine` are the writes of error_status, after the breaker's lock is
gone; a write may fail. `Land` is the fetcher's deferred function together with its
followers' return. Two variables are history: `early` is who was let in before the breaker
last opened and has not been sent since, `probing` how many others were sent upstream since
it last became half-open.

The failure count stops at MaxFailures: it is compared with nothing else and the code
lets it grow only while the breaker is open.

### TenantServers

One action is one SQL statement, or what a request does between two of them.
`Create`, `Lock`, `Count`, `Insert` and `Rollback` are createServer and the
transaction of CreateTenantServer with its advisory lock; `Read` and `Write` are
updateServer, whose statements are far apart (a DNS lookup lies between them);
`Delete` is one statement; `ListLegacy`, `Reseal` and `StopBoot` are the boot of
another gateway. A header map is abstracted to the set of origins its credentials
were supplied for, the identity of its ciphertext (a fresh nonce every time), and
whether it is of the old format. An empty map is `{}` and equal to every other empty
map, which matters to the compare-and-set. The two-statement answer of a failed
update (404 or 409) only selects a message.

### Routing

`rows` is what the database says: which server bears which name in the namespace.
`list` and `routes` are the two cached tables (`Aggregator.caches`, `Aggregator.routes`),
each a table of names as of some moment or `None`, also when it is older than
`nsCacheTTL`; `ListExpires` and `RoutesExpire` are that age reached. A request goes
from `list` (`UseList`, `ReadList`, `SaveList` are the sections of getServers) over
`route` (`UseRoutes`, `BuildRoutes`, `BuildRoutesPartly`, `SaveRoutes` are
buildRouteMap: a map some server is missing from is used and not kept) to `answer`,
where `target` is the server CallTool sends the call to. Tools are prefixed with the
name in the *list* when they are served, so the tool cache does not enter into it. A
writer's `Create`, `Rename` or `Delete` is the statement that commits, and
`Lookup`/`LookupFails`, `DropList` and `DropRoutes` the rest of the handler. A new
server has a new UUID, whichever: the model draws it by CHOOSE.

### ToolSync

`upstream` is what the server lists, `tools` and `disabled` are its rows, `hash` is the
gateway's memory of the last sync: `{}` for none, `{names}` for the hash of `names` (equal
exactly for equal sets). The hash is that of the list as it came (`fetched`); what is stored
(`saving`, the code's toSave) leaves out the tools that bear one of the override names the
fetch came with, some member of `Filters`: those of a namespace when its ListTools fetches,
none when buildRouteMap or RefreshServer does. `Delete` and `Commit` are the two parts of
SyncTools' transaction at READ COMMITTED: the rows to drop are those committed when the
DELETE runs, and an upsert waits for whoever is deleting one of its rows. `UpsertUnheard` is
a commit of which the gateway is told an error; `SyncFails` is every failure before it,
including the deadlocks Postgres resolves. Fetches are Discovery's; here an answer arrives
at any time, also twice at once, as RefreshServer makes possible.

### Sessions

`sessions[s]` is the endpoint in SessionStore's entry of `s`, `aged` the sessions whose TTL
has passed, `born` a history of where each session was created. `stream[s]` is where
handleSSE is with `s`: at its select (`open`), in the write of an answer (`writing`) or of
the endpoint event or a heartbeat (`beating`), or on its way out. `sseChans` and `chan` are
the registered channels and what is in them, `gone` the streams whose connection is broken,
`read` what the handler has taken from the channel (`Take`) and `written` what of it went
out (`Write`). The handler ignores the errors of its writes and its select may take an
answer when the client has gone already, so to a broken connection (`Disconnect`) a `Write`
writes nothing; and nothing makes a `Write` to a connected client return. A request is one
HTTP request. It comes through handleMetamcp (`Arrive`; `TurnAway` if that or a missing
header ends it), looks its session up (`Lookup`, `LookupFails`, with the lazy expiry of
Get), is served (`ServePost`, `ServeMessage` and its siblings: what happens upstream is not
this module's), and a message's answer goes to the stream's channel (`FindStream`, `Send`)
or nowhere (`StreamGone`, `Drop`). Each of these steps is a section under one mutex or an
operation on the channel, so that deletion, expiry and the end of the stream fall between
any two of them. A request that is over is forgotten, save a message whose answer a channel
took: `before` and `Line` compare those.

ReleaseSession follows wherever a session leaves the store except by lazy expiry in Get;
it is `Pool`'s, where it may come at any time. The map of channels keeps a session's
channel reachable for a request that found it before the stream ended, so an accepted
answer may stay in a channel that nobody reads. `NothingLost` says what does hold: the
channel keeps what it accepted until the handler takes it, and as long as the client is
connected the handler writes what it takes, all of it and in order.

`DeliverySpec` maps this to `Delivery`, where there are no channels, lookups or handlers:
what was accepted is `Line`, what was taken followed by what is in the channel, each answer
with the endpoint its message came to, and what was delivered is how much of it is written.
Until the connection breaks, no more than `ChanCap + 1` answers are accepted and not
written. The refinement says that the parts fit together: a session is found only between
its creation and the end of its stream, `StreamGone` and `Drop` change nothing a client
could tell, and every answer is accepted once, for the endpoint of its session.

Observed while modelling, and not checked by a run:

* handleSSEMessage answers 405 to a method it does not know before it looks whether the
  message is a notification (`server.go:721-730`), which is what happens to
  `notifications/initialized` (`ServeFails`), while `DEVIATIONS.md:26` has
  "notifications → 202".
* The comment at `server.go:633-634` says that without the cap of 24 hours "a held
  connection leaks the goroutine + channel forever". With it, one still does: a handler
  that is blocked in a write does not come back to the select where the cap is, and there
  is no WriteTimeout (`main.go:180-184`). `AllEnds` excepts exactly these streams.
* Answers for which the client was told 202 are lost when the connection breaks (those
  taken from then on, and one in hand) and when the stream ends (those in the channel).

### Limiter and Admission

`limiter` is RateLimiter with every key's position in its list, so that moving to the
front and eviction at the back are one map; `MaxKeys` stands for "no entry". Time is
counted in whole units in which a bucket earns `Rate` tokens, the real arithmetic of
fractions of a second is left out. `LetIn` and `TurnAway` are the middleware. A request
that was let in reads its tenant's row (`Resolve`), may be turned away by everything
between that and the gate (`Turned`: no endpoint, no valid key, no session, an error), is
judged by the clock of that moment on the row it read (`Denied`, `Enter`), and, as a tool
call of a tenant on trial, reserves (`Update`, `UpdateNone`, `Insert`, `Refuse`: the
statements of TryBumpUsage, each atomic, with current_date as of its own). An answer that
is lost (`heard` is FALSE) and every other error let the call through (`FailOpen`), as
the code does on purpose. `SetTenant` is what the dashboard and Stripe's webhooks do to
the row; `Tick` and `Midnight` are two clocks, since the day is the database's.
`granted`, `raced`, `entitled` and `watch` are history: what was granted, who was
overtaken between its statements, who was entitled since it came, and what one address
was let through.

`QuotaSpec` maps the two statements to one reservation of `Quota`. A tool call asks when it
leaves the gate; `UpdateNone` is a stutter; `Update` and `Insert` are both `Reserve`, on the
day of the statement that counts; and a refusal needs the cap or a reservation of the same
tenant that came in between.

### AdminAccess

`apiKey` are rows of api_keys, `session` is the session store, `keys`, `fetchedAt` and
`refetched` are the Verifier's. A request comes with a cookie (`ArriveWithCookie`, then
`Lookup` or `LookupGone`, because `valid` and `lookup` are two sections) or a token;
`KeyFor` takes the mutex and decides, `Answer` is the moment the team's endpoint answers,
`Fetched` and `FetchFailed` the one its answer arrives or does not, so that a rotation can
fall between; the mutex is held all along (`Unlocked`). Signatures and claims are left
open: a token whose key is known may be accepted or refused. `MintKey` and `SetKey` are
the handlers that write keys, `Done` stands for those that write nothing here. An expired
session is one that is gone, by `sweep`, `valid` or `lookup`, whichever comes first.

The gateway starts with the admin keys that the migrations left (`FirstKeys`): 0001 made
admin keys of four by name, and 0003 gave the keys that had no user at the time to the user
of the operator's tenant. `Init` leaves open which of them are root's and which are
`Operator`'s, and takes them to be the operator's keys, as the comments of both files do.

Observed:

* A session outlives the deactivation of the key it was made with, up to its day.
* `ui.go:381-382` says that "every is_admin key has a nil user id", which after migration
  0003 does not hold: an admin key of before it has the operator's user, as the one in
  `tenant_api_test.go:776` has. A session made with it passes requireAuth, is scoped to
  that user and mints no admin keys. `OnlyOperators` says what does hold.

### Catalog

`name`, `spaces`, `mapped`, `off` and `bound` are the rows of servers, namespaces, server
mappings, INACTIVE tool mappings and endpoints. Every handler of the admin UI that writes
one of them is an action, with what the foreign keys take along when a namespace or a
server goes; the tenant's tool switch writes to the namespace its endpoint has, now or
when it looked that up. A name is the sequence of what stands between its `__`, so that
ToolName is concatenation and ParseToolName takes the head off: the model tells apart
what a tool name with a `__` in it makes ambiguous. `ListTools` and `Targets` are the
two functions of that name in the aggregator, of the rows they work with; `Routed` leaves
open which server comes first when two claim a name, as the goroutines that build the map
do. `list` and `routes` keep their age in ticks; a request that has read the rows and not
stored them yet carries them for at most `Slow` ticks, which stands for the deadline of
what is between. A request of a session works with the namespace the endpoint had when
the session was made, as the session store does.

What the model leaves aside: which upstreams answer (any of them may or may not, each
time); that a tool with an override must have a row of its own to have one (overrides are
constants here, nothing in the gateway writes them).

Observed while modelling, and not checked by a run:

* An operator's server keeps its INACTIVE tools callable by their own names; only a
  tenant's tool, or a call by its override, is refused (`aggregator.go:343-353,398-407`),
  while the comment at `aggregator.go:311` says that INACTIVE mappings block the call.
* A tool of a server whose sanitized name contains `__` is listed under a name by which
  CallTool asks the server, if it finds it at all, for another tool
  (`aggregator.go:144-151,342,362`). `WellNamed` asks for names
  without; it also asks that no two servers' names begin alike, which nothing enforces
  among operators' and tenants' servers of one namespace.
* No edit of the admin UI drops a cache of the aggregator, so it takes effect when the
  entries expire; `NoLateCall` says when that is. A session stays with the namespace its
  endpoint had when it began, also after an edit of the endpoint.
* The hash that gates the sync covers the whole list, what is stored lacks the tools that
  bear an override name of the namespace (`aggregator.go:756,765-781`). Usually
  buildRouteMap fetches first, with no filter (`aggregator.go:700`), and ListTools finds a
  fresh cache; but when the route map is fresh and the tool cache has expired, ListTools
  fetches with its filter (`aggregator.go:216`). If the list has changed, or no hash is
  known, a tool named like an override is then not stored, and cannot be switched off,
  until the list changes again, the server is edited or the gateway restarts.
* The comment at `repos.go:450-453` says that ERROR takes a server from the fan-out; the
  query does so no more (`repos.go:196-200`).
* The comment at `tenants.go:208` says that a call that updates and inserts nothing is at
  the cap; `NeverRefusedAlone` is what holds: it may also be one of two first calls of the
  day, when the other one's INSERT came first.
* `UpdateTenantServer` compares the headers only, so a PATCH may put back another PATCH's
  name or URL (`tenant_servers.go:152-165`); reusing an idle client does not look at
  MAX_TOTAL_CONNECTIONS (`pool.go:192`, `README.md:55`), so a client that was idle while others
  filled the cap comes back on top of it; a list from after a rename and a
  route map from before it send a call by the old name to the renamed server
  (`aggregator.go:352-387`). `HeadersNotReverted`, `PerServerCap`, `NeverAnother` and
  `Settles` say what does hold.

## 3. Runs

| Run | Instance | Shows |
|---|---|---|
| pool_counts | 3 requests, 2 sessions, 3 servers (operator, two tenants), 4 clients, caps 3/2, budget 1, share 1 | `TypeOK`, `ConnectionAccounting`, `TenantAccounting`, `OnePlace`, `PerServerCap`, `TenantShare`, `NothingLeaks`, with sessions ending under calls |
| pool_leases | 3 requests, 1 session, 2 servers, 2 clients, caps 2/1, budget 2, share 2; sessions end only between their calls | `LeaseSpec` (refinement of Leases), `RequestEnds` |
| pool_crosstalk | as pool_leases, but sessions may end under a call | `NoCrossTalk` is violated |
| discovery_requests | 2 requests, each as long as it likes between the question and the request, MaxFailures 2, MaxProbes 1 | `TripsAtMax`, `FewProbes`, `OneFlight`, `FailsFast`, `RequestEnds` |
| discovery_wedge | 2 requests, clients that keep calling | `ProbeResolves` is violated |
| tenant_rows | 2 UUIDs, 2 names, 2 origins, 3 ciphertexts, 2 requests, MaxServers 1 | `CredentialsStay`, `ServerLimit`, `HeadersNotReverted` |
| routing_names | 2 requests, 1 writer, 2 servers, 2 names, 3 changes | `TypeOK`, `NeverAnother`, `Settles` |
| toolsync_stored | 2 requests, 2 tools, a filter without names and one with one of them | `HashAgrees`, `Stored` |
| sessions_traffic | 1 session, 2 endpoints, 3 requests, a channel of 2, a connection that may break or block | `Isolated`, `InOrder`, `NothingLost`, `SessionsStay`, `DeliverySpec` (refinement of Delivery), `AllEnds` |
| admission | 2 requests, 3 addresses, 2 entries, 1 tenant with two possible rows, a cap of 2, 2 moments, 2 days | `NeverOverCap`, `NeverRefusedAlone`, `ServedEntitled`, `LimitsRate`, `QuotaSpec` (refinement of Quota) |
| admin_access | 2 requests, 2 API keys, one of them an admin key from before, 1 cookie, the operator's user and a tenant's, 2 signing keys, TTL and cooldown 1, 3 moments | `OnlyOperators`, `FetchesSpaced`, `FollowsTheTeam` |
| catalog | 2 clients, a tenant's and an operator's server, 2 namespaces, 2 endpoints, 2 names, a tool with an override and one with `__` in its name, TTL and delay 1, 3 edits | `CatalogTypes`, `ListedIsCalled`, `DisabledRefused`, `NoLateCall` |

Bounds and why they are enough. Three requests let one hold, one wait and one fail at the
same time, and two of them meet a session that ends; every cap is below the number of
requests that compete for it, so each refusal, wait and roll-back happens. In Discovery a
request that ended begins again, so two of them send any number upstream while the breaker
is half-open, which is what `FewProbes` counts; one can acquire its client while the other
one's failures open the breaker and a probe makes it half-open; and a fetcher and a follower
are two. MaxFailures 2 has a closed breaker with a failure in it. In TenantServers two
requests and a boot interleave on one row, two UUIDs allow a delete and a new row of the
same name, and two origins distinguish the right one from the wrong one; three ciphertexts
suffice for one in the row, one read, one drawn (a fourth adds no state). In Routing three
changes are a create, a rename of it and a create, rename or delete that takes or frees the
name, with one request holding what it read before and one reading after. In ToolSync two
tools let two transactions delete what the other one inserts, which is how they come to wait
for each other, and a filter that takes out one of them leaves the other. In Sessions three
messages are one more than the channel holds, and a request, a deletion and an expiry can
meet on the session; a second session would share nothing with the first but the maps, and
the theorems hold for any number. A request is answered once and does not come again, which
is why a run may stop (no deadlock check there). In Admission two requests are the two first
calls of a day, three addresses are one more than there are entries, a cap of 2 has a first
call, one below and one at the cap, and two days have one midnight, which falls between any
two statements. In AdminAccess two requests are one that fetches and one that waits for the
lock, two keys are one to log in with and one to mint, and three moments are one before, at
and after the TTL and cooldown of 1. In Catalog three edits are a server that is made,
mapped and renamed or unmapped, or an endpoint that is bound elsewhere and a namespace that
goes; two clients share a cache one of them fills late. Nothing is cut off by state
constraints: the bounds are in the sets, `MaxChanges` of Routing is in the guard of the
changes, `MaxEdits` of Catalog in that of the operator's step, `LastNow` and `LastDay` in
those of the clocks, where a run just stays at the last moment.

Symmetry is used in safety runs only, over sets of interchangeable values.

Fairness. `Pool`: a request that can step does (`WF` of `Proceed`), since connecting and
calling are bounded by the HTTP client's timeout (60 s, 20 s for tenants); and a request
that waits for its tenant's slot gets one that comes free again and again (`SF` of
`TakeSlot`), since waiting senders of a Go channel are served in order. No caller has to
give up, no session to end, and the sweeper need not run. `Discovery`: weak fairness of what
a request does once it has come, the wait for a client included, by the same timeouts and by
`bookkeepingTimeout`. `Routing`: a request and a writer that can step do, by the deadlines
of statements and calls, and cached entries grow old. `ToolSync`: the same for a sync, and
the server is listed again and again; `Sessions`: handlers go on (calls have deadlines, and
a full channel is waited for five seconds), a write to a broken connection returns (`WF`),
and a handler that comes to its select again and again takes the case of `sseStreamCap` or
of the client's end some time (`SF` of `CloseStream`: the select chooses at random among
what is ready, and these cases stay ready). A write to a client that is connected and does
not read need never return, and neither TTL nor sweeper need to come. `Stored` speaks of
behaviours in which nothing disturbs any more from some moment on. Admission, AdminAccess
and Catalog have no liveness property and no fairness: what they must not do is the
question, and each of their requests is a straight line of steps whose end is a deadline's.
The violated `ProbeResolves` is checked under the strongest assumption a defender of the
code could ask for (`BusySpec`): time passes and clients keep calling.

What the violations show.

* `NoCrossTalk`: a client in use is parked by ReleaseSession and handed to another
  request. Upstream requests carry constant JSON-RPC ids on one upstream session, so
  the two callers can read each other's answers. As long as sessions end only between
  their calls, the pool keeps its promise: that is `LeaseSpec`.
* `ProbeResolves`: after two probes without a verdict, Allow refuses for good. Two
  probes can be spent by clients that disconnect, and in the code also by listings that
  ask and then find a fresh cache or somebody else's flight. Only an edit of a tenant's
  server (ForgetServer) or a restart ends it.

The same comment (`breaker.go:12-14`) promises *one* probe. The code lets in the request that
finds the cooldown over and MaxProbes more, and requests that were let in before the breaker
opened and are slow to acquire a client are sent on top. That no more than this are sent is
`FewProbes`; that the comment's number does not hold is seen in the model at once (with
`probing <= 1` in its place), and has no run of its own.

Three exceptions are written into `HashAgrees`, and they are real. What is stored agrees with
the hash only up to the override names of some listing (`Holds`), for the reason given under
Catalog. And when two syncs of one
server overlap, the hash of one and the rows of the other may remain; when a commit
is reported as an error, the old hash may come to match again over new rows. In all
cases the gate skips every later sync of that list until the list changes, the server is
edited, or the gateway restarts.

The other exceptions that properties name are of the same kind. `NeverRefusedAlone` lets a
call be refused below the cap when another one made the day's row between its two
statements. `LimitsRate` speaks of an address as long as fewer than `MaxKeys` others ask
between two of its requests, since an evicted bucket comes back full. `FollowsTheTeam`
excludes the time after a fetch that failed: then the verifier serves from the old keys,
however old, as its comment says. `ListedIsCalled` is about servers with a name that names
them (`WellNamed`), and `NoLateCall` has `Late`, TTL and the delay of a request between
reading and storing the rows: the age in the cache counts from the second.

## 4. Proofs

Each theorem is for every value of the constants that satisfies the module's `ASSUME`
(finite sets, positive limits, default values that are none of the values they stand
beside). What it says is what the code says of its configuration, and no more.

**PoolProofs.** The invariant is `IInv`: the type, limits and what each step of a
request implies (a request past `slot` is a tenant's, one that is `calling` holds a
client), `OnePlace`, both accountings and `PerServerCap`. The properties are not
inductive alone. That a counter is a cardinality is only preserved if detaching removes
as many attachments as clients, which needs `OnePlace`; that parking closes nothing
needs `PerServerCap`; that the share holds needs `TenantAccounting`, since the guard is
on the counter; that a token is there needs `TenantAccounting` too. Lemmas on the
cardinality of filtered sets (adding, removing, and moving one element or a whole
session) carry the counting, one per kind of step.

`PoolLeases` is the refinement. Its hypothesis `~EndsMidCall` is what the violated
`NoCrossTalk` shows to be needed: a constant of the module, whether a session may end under
its calls. Then `Exclusive` is inductive: whoever is calling holds an attachment of its own
in its session and nobody else's client; so the client a request is granted is held by
nobody, and the calling requests inject into the attachments, which gives the room in the
caps that `Leases` asks for from the counters the code compares. `CallsDoNotCross` follows
from `Exclusive`: nothing but sessions that end under their calls makes two calls share a
client.

**CallProofs**, *Discovery*. `IInv` joins `BreakerInv` (the breaker is sound: closed exactly
below MaxFailures, probes within bound; while half-open, the requests in `probing` are
and those still acquiring that are not `early` are together at most one more than the
probes counted, and an open breaker has only `early` ones acquiring) and `ControlInv` (the
flight is the one listing between `fetch` and `land`, and whoever waits has one to wait
for). `FewProbes` cannot be seen from the sends alone, since they come long after the
question: the invariant counts who *may* be sent, and lemmas on cardinality say that being
let in adds one, being sent moves one to `probing`, and failing removes one. `FailsFast` is
the same invariant's second half: while the breaker is open, everybody who acquires a client
was doing so when it opened.

**CallProofs**, *Catalog*. `ListedIsCalled` is a statement about names. A listed name is an
override or begins with its server's prefix; taking the prefix off returns the tool's name
(`ParsedName`), no other server of a table begins alike (`OnlyItsServer`), and an override
that belongs to one tool leads to it (`CallsWhatIsListed`), whichever servers the route
map has found. The proof corrected the property: `WellNamed` has to look at
the overrides of the tools a server does not list any more as well, since CallTool asks the
rows for an override and not the list. Sequences enter only by `Head`, `Tail` and
a concatenation after one element, so no induction is needed.

`DisabledRefused` and `NoLateCall` rest on `CatalogInv`, which relates what a request or a
cache holds to the time since the rows said otherwise. `AgeInv` splits the age of rows into
the time a request held them, at most `Slow`, and the time they are cached, below the TTL;
`LateInv` says that what was gone too long when a request began is gone still and in none of
the rows it works with; `BarredInv` is the same of the tool switch: what was off when a
request began is off now and was off when the request read the mappings;
`HasSession` says that a request is one of a session. Edits, steps of a client and
the clock are proved apart (`EditKeeps`, `ClientKeeps`, `TickKeeps`).

**TenantServersProofs.** `CredentialsStay` is not inductive: a PATCH writes a row it
read earlier. The invariant `PairInv` says the same of every row a request has *seen*,
and that the headers the boot has listed are of the old format; merging, creating and
re-sealing preserve the pairing of origin and credentials (three lemmas). `ServerLimit`
rests on `LimitInv`: whoever is past `lock` holds it, so at most one request is between
count and insert, and the count it saw still bounds the rows, since all others only
delete. `HeadersNeverRevert` goes through the steps that write: `PairInv` says that what the
boot has listed is of the old format, the compare-and-set that a row still has the headers
that were read, and `IssuedInv` (whatever row there is has been issued its UUID) that an
insert writes over nothing.

**RoutingProofs.** `NeverAnother` compares a request's list with its target, which came
from another table. `TablesInv` says that all tables in use, of rows, caches and requests,
agree on every server that was never renamed, and know no server that was not issued (a
deleted one never comes back under another name); `CallInv` that a call has its name
throughout. A rename preserves agreement because it enters the server into `renamed`, a
create because no table knows the new UUID.

**ToolSyncProofs.** `HashAgrees` is about moments without a sync, so the invariant says what
holds during one: `Alone`, that a sync which overlaps no other drops exactly what is too
many and has stored exactly what its filter left of its list (`Filtered`, `Holds`);
`Overlaps`, that two syncs at once both
know of it; and `HashInv`, that the hash is out of date only from a commit to its end.

**SessionsProofs.** `Isolated` speaks of requests that looked up a session which may be
gone since, so it is about `born`, and `Original` says that the store never holds anything
else. `InOrder` and `NothingLost` are about `Line`, what was taken followed by what is in
the channel: a lemma on sequences shows that taking, which moves the head of one to the
end of the other, leaves it as it is, another that sending appends to it. `Tracked` relates
what was taken to what is written: a prefix of it, and all but the answer in hand while the
connection lasts (`TakeIs`, `WriteIs`, `FollowsStays`). The rest follows
from `Held` (a line has accepted requests of its session only) and `Past` (what was
answered before a request came is answered), since a request being sent is not. One lemma,
`QuietPreserves`, covers every step but the sending.

`Delivers` is the refinement. `StreamInv` adds what the mapping needs of the streams: a
session with a stream was created, a registered channel belongs to a stream that is open or
closing, and whoever is about to send found the channel of a stream that has opened. A
`Write` is a `Deliver` as long as the connection lasts and a stutter after that, which is
`Tracked`; `Disconnect` is `Break`. Lemmas on `Marked` say how the marked line changes: not
at all by taking, by writing and by whatever does not send (`MarksStay`, `AnswersStay`), by
one answer at its end by `Send` (`AcceptStep`).

**AdmissionProofs.** `LimitsRate` is about a history of one address, so `RateInv` relates it
to the limiter: what the address was let through and what it could still spend are together
at most `Burst + Rate * elapsed`, the entries before its own are exactly those of the others
that asked since it did, and no two entries share a place, which is why it is not the one
evicted while there are fewer than `MaxKeys` of them. Lemmas on `Limiter` say where
`Touched` moves an entry and what `Asked` leaves to spend. `NeverOverCap` is inductive with
the statements atomic; for `NeverRefusedAlone`, `CapInv` adds that a request between its
statements that was not overtaken sees no row or one at the cap, also over midnight, because
no day has a row before it comes. `EntitledInv` gives `ServedEntitled`: the row a request
has read was its tenant's at some moment since it came, and being entitled by it now means
having been entitled then, because no row gets entitled by waiting.

`ReservesAtomically` is the refinement of `Quota`. `RacedInv` says that only a request
about to insert is counted as overtaken, so that `Update` need not forget one;
`CapInv` gives the guard of the abstract refusal, and the lemma `ReserveStep` shows that
either statement is the one abstract step, with `AnsweredIs` for the request that stops
asking.

**AdminAccessProofs.** `OnlyOperators` needs its three parts together: an admin key that is
minted by root or was there from the start, a session that is made with an admin key, an
identity that comes from a session. It holds for whichever of the first keys are whose.
The other two rest on `KeyInv`. `FetchesSpaced` needs the mutex (`Locked`: one request at
most is in its section) and that `refetched` is the start of the last fetch whenever none is
under way, failed or not (`Times`). For `FollowsTheTeam`, `Cached` says that what the cached
keys and the team's differ in changed at `fetchedAt` or later, and so for an answer that is
on its way; and `Decided` that whoever decides by keys that did not fail to be fetched has a
known key no older than the TTL, or an unknown one within the cooldown.

What is only model-checked is liveness: `RequestEnds` of `Pool` and of `Discovery`,
`Settles`, `Stored` and `AllEnds`. Their fairness and ENABLED are out of the prover's reach.
Every other property of a passing run has a theorem. Of the two
properties that runs find violated, `NoCrossTalk` has the theorem `CallsDoNotCross` under
the condition its run leaves out, and `ProbeResolves` is temporal. The types of `Discovery`,
`TenantServers`, `ToolSync`, `Sessions`, `Admission` and `AdminAccess` are proved and left
out of their runs. Nothing is assumed beyond the named assumptions.

## 5. Not modelled

* ForgetServer's replacement of the breaker and the tool cache, and the recorded check
  with its late writes. `Discovery` is about one breaker and one cache entry; a second
  generation of both beside the first squares its states, and what the code promises of
  these 60 seconds is nothing a property could hold it to. The sync hash that goes with
  them is in `ToolSync`, the caches of the namespace in `Routing`.
* `Sessions` composed with `Pool`: `Pool` already lets a session end at any time, so every
  ReleaseSession the transports can make is in it, and the lazy expiry in Get, which
  releases nothing, is a session that does not end yet.
* Migrate: a transaction per file, decided by Postgres alone.
* Shutdown and listeners: the process ends, and what it leaves behind are rows, which the
  modules let stop at every step.
* Cryptography (AES-GCM, RSA), URL and address classification, the wire formats, metrics,
  HTML, configuration, and the deployment script. They are data transformations without
  state, covered by the repository's unit tests; the modules treat their refusals as errors
  that may happen at any time.

Worth doing next, on what is there: abstract specifications of the breaker (what a caller
may rely on while it is half-open) and of the verifier's keys, and an order for `Stored`
and `Settles`, whose steps towards the goal are safety properties that could be proved.
