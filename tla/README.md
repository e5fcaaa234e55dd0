# iot_app: TLA+ specifications and proofs

Formal models of `iot_app`: a NestJS service that puts dashboards, live
telemetry, alarms and a customer hierarchy on top of ThingsBoard, and the Next.js
pages in front of it. The models are written from the code in `src/`; a
definition's lines are listed in `PROJECT.json` under `map`.

Run a configuration with `tlc -config MC_X.cfg MC_X`, check proofs with
`tlapm X_proofs.tla`.

## The system

One backend process serves browsers over REST and two WebSocket endpoints. It
keeps state in memory (subscriptions, timers, in-flight promises), in Redis
(sessions, the ThingsBoard token, caches), in Postgres through Prisma
(hierarchy levels, asset assignments, dashboards, the impersonation log) and in
ThingsBoard (devices, assets, customers, users, telemetry, alarms).

| Part | State | Operations | Correct when |
|---|---|---|---|
| Upstream connection (`thingsboard-ws.service.ts`) | one socket, one connection attempt, reconnect timers, `subscriptions` Map with refCounts and listeners | `subscribe`, closures, `connect`, `open`/`error`/`close`, timer, `handleMessage`, `onModuleDestroy` | counts are exact, ThingsBoard streams the Map, frames reach only their own listeners, drops are recovered, retries do not multiply |
| Telemetry gateway (`telemetry.gateway.ts`) | per browser socket: session promise, `subscriptions` Map of closures, revalidation interval | connect, disconnect, `subscribe`, `unsubscribe`, revalidation | every upstream reference can be given back, a stored closure streams, reserved keys are freed, a dead session loses its socket |
| Alarms gateway (`alarms.gateway.ts`) | per browser socket: session promise, Map of intervals; per subscription the `seen` set | connect, disconnect, `subscribe`, `unsubscribe`, poll | no state sent twice, none lost, no loop outlives its socket |
| Sessions (`auth.service.ts`, `frontend/src/lib/session`) | Redis keys with a sliding TTL, impersonation log; tokens in the tab's storage | login, logout, lookup, impersonate, end; swap and restore of tokens | an abandoned session expires, each impersonation is logged, the tab returns to its own session |
| Service token (`thingsboard-client.service.ts`, `redis.service.ts`) | `tb:jwt` in Redis, in-flight logins | `getToken`, `request` with one retry after a 401, `single` | one login for concurrent misses, a request survives one invalidation |
| Caches (`telemetry`, `attributes`, `entities` scope, `entity-ref-resolver`) | Redis entries with TTLs | read-through fills, `del`, `delByPattern` | stale only for a TTL, an outage is never cached as absence |
| Entities and scope (`entities.service.ts`, guards) | none of its own | descendant sets, `isInScope`, `claimDevice`, read-modify-write updates | the descendant set is the transitive closure, a claim has one winner |
| Hierarchy (`assets.service.ts`, `customers.service.ts`, `users.service.ts`) | Postgres rows beside ThingsBoard entities | create with compensation, delete with checks, link | no row without an entity and no entity without a row |
| Dashboards (`dashboards.service.ts`, `app/dashboard/[id]/page.tsx`) | Postgres rows; the page's copy, the tab's query cache | open, edit, save, delete | the editor holds what the user did, a save takes back no sharing, a widget the panel makes is accepted |
| Cells and their data (`components/dashboards`, `datasource`) | query cache shared by all cells, the window each cell resolved | fetch, render, pick a window; packing, pairing, grouping | a cell reads what its own query would return, windows settle, each algorithm gives what it is for |
| Admin console, wizard, forms (`app/admin`, `widgets/admin`, `widgets/forms`) | selection, columns, dialogs, pending mutations | navigate, create, edit, delete, link | what is asked for fits the tree, columns catch up, nothing is undone unseen |
| Entity page (`app/entities/[id]/page.tsx`) | REST snapshots, two sockets, rows | select a key, frames and answers | the value is of the selected key, no delivered alarm is missing |

How they interact: the telemetry gateway calls `ThingsboardWsService.subscribe`
and keeps the closure it returns; the service calls the gateway back through its
listeners; both gateways ask `AuthService` for a session and `EntitiesService`
for the scope; everything that talks to ThingsBoard takes the token from
`ThingsboardClientService`, which shares it through Redis.

What is hard: Node runs one callback at a time, but nearly every operation
awaits, and whatever it read before is used after. Sockets close while a handler
waits, answers come back out of order, the upstream connection fails in the
middle of a subscribe, two stores are written one after the other without a
transaction. Each hazard is listed at its line in `PROJECT.json`.

## Modules

| Module | Models |
|---|---|
| `SharedFeed` | abstract: callers hold entities; while the connection is up ThingsBoard streams exactly the held ones |
| `ThingsboardWs` | the upstream service, one action per callback |
| `TelemetryGateway` | extends `ThingsboardWs`: the gateway's sockets and handlers; a call of `subscribe` is a handled frame |
| `AlarmsGateway` | the alarm sockets and their poll loops |
| `ServiceToken` | the backend's own ThingsBoard token: cache, shared login, retry after a 401 |
| `ReadCache` | the four read-through caches, their fills and what drops them |
| `Access` | the guards of every route, and the handlers that move or overwrite an entity |
| `ScopeWalk` | the descent that computes a scope, and the listing made from it |
| `Hierarchy` | creating and deleting customers and assets in ThingsBoard and Postgres |
| `UserAccounts` | creating and deleting customer users |
| `Sessions` | the session store and the impersonation log, and one browser tab |
| `DashboardEditor` | one dashboard: the service, the page that edits it, everybody else |
| `WidgetPanel` | the panels that configure a widget, and the schema of the service |
| `DashboardCells` | what the cells of an open dashboard ask the query cache for and find there |
| `CellAlgorithms` | the pure algorithms between data and drawing, each beside a reference definition |
| `AdminConsole` | the admin page: columns, dialogs and their requests |
| `ClientWizard` | the wizard that creates a client |
| `EntityPage` | the page of one entity, with its two sockets |
| `MC_*` | constants for TLC; `MC_Upstream` and `MC_Application` run modules that share no state |
| `ThingsboardWs_proofs`, `TelemetryGateway_proofs` | the proofs of the modules they are named after, the second built on the first |
| `AlarmsGateway_proofs`, `Hierarchy_proofs` | the proofs of the modules they are named after |
| `Backend_proofs` | the proofs of `ServiceToken`, `ReadCache`, `Access` and `ScopeWalk`, a section each |
| `Dashboard_proofs`, `Console_proofs` | the proofs of `WidgetPanel`, `DashboardCells` and `CellAlgorithms`, and of `AdminConsole` |
| `Application_proofs` | the proofs of `EntityPage`, `UserAccounts`, `ClientWizard`, `DashboardEditor` and `Sessions`, and of `MC_Application`, where the parts come together |

In every module a history variable, or a history field of a record, is marked as
such where it is declared: nothing but properties, and the guards that implement a
bound, reads it.

### `ThingsboardWs`

A step is one callback of Node's event loop with the promise continuations it
settles, since microtasks drain before the next callback: `Open` is the 'open'
event, the resubscription loop, and the resumption of every `subscribe()` that
awaited the attempt. Other callbacks run where the code really waits:

- `connecting` is `this.connecting`: `"token"` while `getToken()` is awaited,
  `"handshake"` until 'open' or 'error'.
- `socket` is `this.socket`, `"closing"` between the moment it leaves OPEN and
  its 'close' event. `dying` counts other sockets whose 'close' is still to
  come: failed attempts, and a closing socket replaced by a new one.
- `subscriptions` is the Map; a key it does not have is `NoEntry`.
- `caller` says where each call of `subscribe()` stands. A `failed` call is one
  whose promise rejected: its count and listener stay, as in the code.
- `tbSubs` is what ThingsBoard has open on the current socket and `frames` what
  it sent that is not yet handled; a frame carries the entity it is about, which
  the code cannot see, so that routing can be stated.

The handler of 'open' sends a subscribe for every entry, and then the resumed
`subscribe()` sends its own again: `tbSubs` is a set, the second is absorbed.
Backoff delays are abstracted away: a timer may fire at any time.

### `TelemetryGateway`

`sessions`, `subs` and `revalidator` are the three WeakMaps; `handler` is the
point each `handleSubscribe` waits at (`session`, `scope`, then the upstream
subscribe, which `ThingsboardWs` tracks as `caller`). A resumed handler stores
its closure in the same microtask run as the 'open' event, so `UpstreamOpens`
is one step. A key reserved with the no-op keeps a second frame out until its
handler ends (`ReservationsExclude`). `overtaken` is a history variable, read by
properties only: the handlers whose reservation, or whose socket, was removed
under them.

### `AlarmsGateway`

A subscription's polls occupy slots (`MaxPolls` at most overlap): a request is
asked, answered with what ThingsBoard knows at that moment, and processed when
the answer arrives; or it fails. `AfterPoll` is the rest of `handleSubscribe`
after its first poll. An alarm is the number of its fingerprint, which grows:
acknowledging and clearing are not undone, a new alarm has a new identity.

### `Hierarchy`

`tb`, `owned` and `relations` are what ThingsBoard keeps, `levels` and `rows`
what Postgres keeps; no transaction spans both. `creating` is the await each
`create()` has reached, `deleting` the one each `delete()` has reached:

- Customer: `"created"` (the entity is posted), then the levels, or
  `"undo_entity"` when writing them failed.
- Asset: `"level"` (the level was found, the parent is an asset), `"checked"`,
  `"created"`, `"assigned"`, `"tracked"` (the row is written), `"done"`; a
  failure leads to `"undo_row"` and `"undo_entity"`, or to the latter alone.
- Delete: an asset's children are read in two steps (`ListChildren` the
  relations, `CheckChildren` each child), a customer's rows are counted; then
  `EraseEntity` in ThingsBoard (a 404 counts as success) and `EraseRows`.

A call may fail before or after it took effect, and the process may stop between
any two steps; `request` stays, as what the row of an asset would hold.

Taken from ThingsBoard: it refuses to assign or relate what it does not have, it
drops the relations of what it deletes, and on deleting a customer it deletes
the assets the customer owns or leaves them without an owner. The code does not
say which, so both are possible.

Two history variables carry the excuses of the properties. `faults` holds the
entities whose repair was cut short: a failed compensation, a delete that failed
halfway, a crash, a call whose effect was not reported. `overlapped` holds
`<<e, x>>` when `e` was being deleted (or, being created, could still be rolled
back) while `x`, which names it as customer or parent, was being created. The
properties say that these are the *only* ways into a broken hierarchy; that
they are ways into it is the code's own doing, and run `hierarchy_rows` shows one.

Left out: devices, which are linked by the same calls but have no row (linking is
in `Access`); sub-customers; names. One `delete()` per entity runs at a time: two of
them would repeat the same idempotent calls.

### `ServiceToken`

`jwt` is the key `tb:jwt` in Redis, `inflight` the entry that
`RedisService.single()` keeps for it; a login and the token it obtains have one
number. A request waits in Redis (`get`), joins or starts a login (`miss`, `wait`),
is answered, and after a first 401 deletes the cached token and tries once more.
ThingsBoard revokes by moving on to another `epoch`. Nothing but the requests can
start a login, so `2 * Cardinality(Requests)` of them are enough: no bound, and
`LoginsSuffice` in the proofs shows it.

### `ReadCache`

One cache in four kinds, chosen in the initial state, because the services differ
only in how they share and drop: `latest` shares a fetch and is never invalidated,
`attributes` has several keys and a sweep (`delByPattern`: list the keys, then
unlink), `scope` one key and a sweep, `name` one key and tombstones. An entry is
the version of the data it was computed from. Scope sets and names are computed from
pages: a fill reads the first page and then the rest, and what changed in between
makes its result of neither version (`Torn`) or, when rows moved towards the first page,
leaves a customer out (`rowsMoved`).

A write may be answered an error before or after its effect, a sweep may stop before
it is through, and a SET may fail; each makes the caller's request fail and leaves what
was cached. Two history variables say which keys that concerns: `overtaken` (a fill
read before a write and stored after its sweep), `unswept` (a write took effect and no
sweep followed).

### `Access` and `ScopeWalk`

A request of `Access` is a list of awaits still to come (`todo`); `Handler` is the
list a route starts with. The guards run in the order of `app.module.ts`: the scope
guard for non-sysadmins on routes with an entity type, then `ReaderBlockGuard` and
`RolesGuard`, which do not await. `link` is `AssetsService.linkDevice` (relate, find
the asset's row, hand the device to its customer), `claim` is
`EntitiesService.claimDevice` (look at the owner, assign), `patch` the
read-modify-write updates. Every device may change hands between a check and its
use; `reowned`, `moved` and `raced` record that, for the properties.

`ScopeWalk` computes what `Access` takes as `Scope`: `fetchAllPages` over a table
that changes between pages, the fixed point over `parentCustomerId`, the listings of
each customer's devices, read page by page side by side while devices are handed over
(`handed`) and move from page to page as others leave (`shifted`), and client-side
paging. One
`Pass` goes down the rows and takes in every row whose parent it has; `ScopeIds`
repeats passes as the `while` loop of `resolveScopedCustomerIds` does. Both, like
`PackWidgets` and `MarkerSeverity`, are recursive functions over the number of rows,
not recursive operators, so that they can be reasoned about.

### `Sessions`

The backend half is the set of tokens Redis has (`store`), who each was minted for
and by (`issued`), and the impersonation log. The tab half is its token, the
original that "Back to my session" restores, the row that is to be ended, and the
cached answer of `/auth/me`. A request takes its token when it is sent and is
answered await by await. Two ways of leaving a page matter: `Load` (a full page
load: nothing of the old page hears an answer, the cache is gone) and `Route` (a
route change: everything stays). `endSession()` loads, `logout()` routes, and the
difference is the exception `softened` in `RoleShownIsOwn`.

The login page has no gate: a tab reaches it with a live token, by address (`Visit`)
or by its history (`Browse`), and a sign-in there replaces the token and keeps the
cached identity and the saved original. A request is refused because its session is
gone, or because ThingsBoard refused the backend and the backend passes the 401 on
(`ForwardUnauthorised`); the tab ends its session either way.

### `UserAccounts`

An attempt to create a user is three requests (post, get the activation link,
activate) and nothing that undoes the first; each may fail before or after its
effect, and an account may be deleted in between.

### `DashboardEditor` and `WidgetPanel`

`stored` is the row, `cache` the tab's query cache, `page` the editor's copy,
`saves` its requests. `Seeded` is the effect that fills the copy: the widgets once,
the sharing on every new answer. A save is checked (visibility and `resolveCustomerIds`),
committed in one transaction, read back and answered; each may be overtaken by
somebody else's. What visibility, scope and access lists amount to for one user is
one of five `role`s and four sharings.

`WidgetPanel` has one action per field that `ConfigureStep` shows; `CanAdd` enables
the button, `BuildConfig` writes the configuration, `Seed` reads it back for
editing, and `Accepts` is the backend's schema. Free choices without rules are one
field, `option`. A widget may have been saved through the API: `ApiConfigs` is
everything the schema lets pass, another entity's keys or kind included. `kept` names
the fields a panel still has from such a widget and has not set itself.

### `DashboardCells` and `CellAlgorithms`

A query of a cell is its key in the cache and the form of what its function
returns (`Ask`): cells with one key share whichever answer came first. `memo` is
the window each chart resolved; the sparkline has no memo, so its window moves with
every render.

`CellAlgorithms` has no behaviour: an initial state is a sample, and the invariant
compares the algorithm, translated from the code, with a definition of what it is
for: bucket sizes, the join of two series, widget packing, row heights (with the
height of a scrolled board where there are no rows or the container has none), axes by
unit, table columns, the calendar grid, merged rows and marker severities.

### `AdminConsole`, `ClientWizard`, `EntityPage`

The console's `path` is the drill-down, `column` the query cache per node, `dialog`
the one dialog on top, `pending` the requests. Whether the page reacts to an answer
is `heard`: closing a dialog resets its mutation, and a column that leaves the
screen takes its panel with it. Requests are served whole at one moment, what
happens inside one being the subject of `Hierarchy`; but the answer may be an error
after the effect (`ErrorAfterEffect`), and then nothing is refreshed. A fetch is sent,
the relations are listed, the names are read, and the answer arrives, so it can be
older than a write that was answered meanwhile; an invalidation starts it again, but
not a first load and not the fetch of a node off the screen, which a node that comes
back joins. `missed` is a history variable: the nodes on the screen with a change the
page will not ask for.

The wizard is a form of three steps; the request numbers the levels by their place.

The entity page has, per key, the snapshot fetched and the request under way;
`handler` is the value of `selectedKey` that the socket's message handler closed
over; alarms come as a list and as frames, in any order.

## Runs

| Run | Bounds | Shows |
|---|---|---|
| `upstream` | socket: 2 entities, 4 calls, 1 frame in flight; REST: 2 requests, 2 revocations | counts, routing, one connection, bounded retries, recovery, refinement of `SharedFeed`; shared logins, each forgotten when it ends, and what a retry may be given; liveness of both |
| `upstream_reconnect` | the same, no frames | **violated**: a drop is not recovered when the token lookup of the reconnect fails |
| `gateway` | 2 browsers, 3 subscribe frames on 1 entity | a reservation excludes a second handler; stored closures stream; leaks need an overtaken handler |
| `gateway_live` | 1 browser, 2 frames | reservations settle; the end of a session closes the socket |
| `gateway_cleanup` | 1 browser, 2 frames | **violated**: a disconnect during a subscribe leaves the upstream subscription |
| `alarms` | 1 browser, 2 frames, an alarm with 2 states, 2 overlapping polls | no frame twice, nothing seen unsent, orphaned loops only by a late start, every state arrives |
| `alarms_cleanup` | the same | **violated**: a disconnect during the first poll leaves a loop polling for ever |
| `hierarchy` | 1 customer with any non-empty subset of 2 levels, 2 assets, 3 entities with faults | stores agree, levels and parents stay, except by the faults and overlaps recorded |
| `hierarchy_two` | 2 customers with 2 levels each, 2 assets, no faults | an asset's parent is of its own customer |
| `hierarchy_rows` | as `hierarchy` | **violated**: deleting a customer leaves a row without a hierarchy |
| `application` | twelve parts, below | the properties of the services and pages that have no component in common |
| `entity_live` | 2 keys, 2 readings, 1 frame in flight | **violated**: live frames do not take over from the snapshot |

`upstream` (some 310,000 states) and `application` (some 1,400,000, three
minutes) put modules side by side that share no state: a behaviour chooses one of
them in its first state and the others keep theirs. A product of independent
components would show nothing more.

| Part of `application` | Instance | Property |
|---|---|---|
| cache | 2 readers, 3 versions, each kind | `CacheSafe` |
| access | 2 requests on every route, 2 customers one below the other, an asset, a device, 4 kinds of session | `HandlersAreGuarded`, `LostUpdateOnlyByOverlap`, `ScopedMoves` |
| walk | 3 customers in any order under any parents, 2 devices, pages of one row or device, 1 change during the walk | `WalkSafe` |
| sessions | a sysadmin and a customer user, 2 requests in flight, 3 tokens | `SessionSafe`, `LiveSessionKept` |
| accounts | 3 attempts on one address | `AccountsWork` |
| editor | 2 widgets, 1 save of the page, 1 of somebody else, 5 roles | `EditsKept`, `SharingKept` |
| panel | 2 devices and an asset that report different keys, every widget type, widgets of the API | `PanelSafe` |
| console | a client below a client, 2 assets, 2 requests, 3 clicks, 1 answer under way | `ConsoleSafe` |
| wizard | 2 names, 3 levels, 2 requests | its type, in `ApplicationTypeOK` |
| cells | 9 pairs of widgets that may share queries, 2 devices, 1 change of window | `CellsSafe` |
| page | 2 keys, 2 alarms, 1 reading and 1 frame at a time | `PageSafe` |
| algorithms | samples around the limits of each algorithm | `AlgorithmsAgree` |

`NothingUndone` joins the three action properties `ScopedMoves`, `LiveSessionKept` and `SharingKept`.

### Why the bounds are enough

Upstream: two calls on one entity are needed for a shared
entry, two entities for routing and for an entry that keeps the service alive
while another is dropped, a fourth call for a key that is dropped and subscribed
again under a new cmdId while something else is going on. In the gateway a
second frame of the same browser meets the reservation or replaces it, and a
second browser shares the upstream entry. Two overlapping polls are the least
that can return out of order, and an alarm with two states the least that shows
it. Calls are used once each, which bounds every run without a state
constraint; deadlock is not checked because a finished run stops.

For the service token two requests are a login that is shared and one that is
started behind an invalidation; two revocations are one before and one after a
retry. For a cache two readers are one that fills late and one that reads what it
left, and two changes are the one that is overtaken and the one that follows.

In `Access` two overlapping requests are what a check and its use need to be
separated; customers one below the other are an inside and an outside of the scope.
In `ScopeWalk` pages of one row put every boundary between every two rows, and one
deletion shifts them; two devices of one customer are on two pages, and the one change
hands one of them over between the two.

On the admin page three clicks (`MaxMoves`) leave a client and come back to it, or take
a selected asset along to another client; the third leaves room for one request
(`LastClickAlone`), and two requests overlap with two clicks. One answer under way at a
time (`MaxAnswers`) is what can be older than a write.

A third session is needed for an original saved in an impersonation, left behind by
a logout and found by the next person. It comes only while no other request is in
flight (`ThirdTokenAlone`); requests overlap with two sessions, and of two logins one
is heard before the other is served (`OneMints`). Likewise two widgets are needed for
two removals to overlap, and one for a save to meet somebody else's:
`SecondWidgetAlone` keeps the two apart. These conditions are the model checker's only:
the theorems have none of them.

The entity page needs a second reading only to see that a frame is newer than the
snapshot, which is what `entity_live` is about.

In the hierarchy two assets are a parent and a child, or two children of the
customer, and `MaxLevel = 1` gives them levels; `MaxFaults` is the number of
entities, so every combination of faults occurs. A second customer matters only
to the parent check, and gets a run of its own without faults. Each entity is
created at most once: ThingsBoard gives every creation a new id. Customers and
assets are symmetric; no run with symmetry checks liveness.

Every property has a mutant in `PROJECT.json`: a variant of one definition, as
a plausible bug would have it, under which TLC finds the property violated. The
operators named `X_something` before `X` are those variants; nothing else uses
them.

### Fairness

- `WsFairness`: pending token lookups settle (weakly fair, either way), 'close'
  events are delivered and timers fire; the handshake is strongly fair to `Open`
  because ThingsBoard, retried for ever, accepts one at last. Nothing forces a
  token lookup to succeed: liveness excludes `Stranded`, and
  `RecoveryLostOnlyByTokenFailure` shows that a failed lookup is the only way
  into it.
- `TokenFairness`: what a request awaits settles, since `fetch` and ioredis resolve
  or reject. Nobody has to start a request, and ThingsBoard has to revoke nothing.
- `TelemetryGateway!Fairness`: Redis answers the session lookup, the interval
  fires and finds an ended session, scope requests and connection attempts end
  one way or the other. Browsers are not fair.
- `AlarmsGateway!Fairness`: intervals fire, answers are processed, and ThingsBoard
  answers infinitely many of the polls it is sent (strong fairness: any poll may
  fail, not all of them).

The other modules state safety only: whoever waits there waits for a request of a
browser, and a browser may be closed at any time.

### Divergences between the code and what is said of it

1. **A reconnect can be lost for good** (`upstream_reconnect`). `connect()`
   awaits the token before it creates a socket. If that lookup rejects during a
   reconnect there is no socket whose 'close' would schedule the next attempt.
   Plan 03-01, AC-5, promises reconnection without the clients' help.
2. **A disconnect can leak an upstream subscription** (`gateway_cleanup`). A
   handler that awaits the scope check or the upstream socket stores its closure
   afterwards, although `handleDisconnect` has already run, or the client has
   unsubscribed (which called the reserved no-op). Plan 03-01, AC-4.
3. **A disconnect can leak an alarm poll loop** (`alarms_cleanup`). Nothing is
   reserved and nothing is checked after the first poll. Plan 03-02, Task 2.
4. **Deleting a customer can orphan a row** (`hierarchy_rows`). `delete()` counts
   the rows, deletes the customer, then its levels; an asset creation that read
   its level before and writes its row after the count is not seen. The comment
   on `delete()` says such rows are what the check is for.

5. **Live frames do not take over** (`entity_live`). The frame handler reads
   `selectedKey`, but `useLiveTelemetry` subscribes the handler of the first render,
   whose `selectedKey` is undefined. The comment at `page.tsx:83` says they do.

Seen while modelling and not a run of their own; where a property has an exception,
this is what it is for.

- Upstream and gateways: a `subscribe()` whose connection fails keeps its count and
  listener, so the entity stays subscribed after the next reconnect though nobody
  holds it (`failed` in `RefCountExact`); an overtaken handler's catch deletes a
  later handler's closure from the map; an interval started on a socket that closed
  during the session lookup keeps refreshing that session's TTL.
- Service token: a 401 drops whatever token is cached by then, and a retry may join
  a login that was in flight before the revocation, and be denied.
- Sessions: a logout or a 401 in the middle of an impersonation leaves the saved
  original for the next person who signs in; the cached `/auth/me` survives a
  logout, which loads no page; a sign-in over a live session (`/login` has no gate) keeps
  both the cached identity and the saved original; a late 401 of an older token ends a
  new session, and so does a 401 that ThingsBoard gave the backend and the backend passes
  on (`thingsboard-client.service.ts:36`, `57`, `api-client.ts:37`); a logout that fails
  leaves the page without a token; if writing the log row fails, a
  session minted for somebody else exists without a trace, though no tab has it.
- Caches: a read that a write overtook puts the old entry back; a write whose answer or
  whose sweep fails leaves it (`attributes.service.ts:55-61`,
  `entities.service.ts:281`); a customer that moved between two pages while names were
  looked up is remembered as gone.
- Scope: a table that changes between two pages loses a row of it, and with a customer
  all below it; a device handed over while the list is read is in it twice or not at all.
- Users: a creation cut short keeps its address until the account is deleted.
- Dashboard editor: a page opened again is filled from the stale cache and its
  widgets are not filled again by the refetch (`page.tsx:66`); a second removal
  within the fade of the first forgets the first (`DashboardCanvas.tsx:107`, `169`);
  the save button stays enabled while saving; a creator whose dashboard a sysadmin
  shared with all can no longer save it; a save that took effect may be answered 403
  or 404 by the read that follows.
- Widget panel: a comparison chart cannot be added (it has no keys to choose and
  none to write); decimals out of 0..6 pass the panel and not the schema; editing
  drops the fields only the API sets; lists and axes keep the keys of an entity
  selected before; the schema does not ask whether a pinned entity has the kind and the
  keys a widget names (`widget-registry.ts:79-93`), and a panel that edits such a widget
  keeps what it does not change.
- Cells: a table or scatter chart of one key shares its history query with a line or
  bar chart of that key and window, and each reads the other's form
  (`OneKeyCollision`); the sparkline's window never settles, though the comment at
  `history.ts:207-210` warns against it; rolling windows stay where they were when
  the dashboard was opened.
- Admin console: saving a label on a row that is out of date undoes a rename, and so
  does a second edit while the first is pending in a panel unmounted since; closing a
  dialog before the answer leaves the column as it was, and so does a request that is
  answered an error after it took effect (`assets.service.ts:160-166`,
  `entities.service.ts:314-320`); a column that comes back to the screen joins a fetch
  from before a change made while it was away; a deleted node stays selected; until the levels have loaded the columns are the default ones; Unassign
  on a client's node sends the client's id as an asset's; a scoped user whose own
  client has a parent sees no client (`app/admin/page.tsx:31`). `AddAssetModal.tsx`
  is used by nothing.
- Entity page: a status change of an alarm that is in the fetched list is filtered
  out; an alarm that changes twice has two rows with one React key.

## Proofs

Each theorem holds for every value of the constants that satisfies the assumption
named in the component's module; none bounds the number of requests, sockets,
entities or steps beyond those constants.

`ThingsboardWs_proofs` first proves type correctness. The safety properties are
not inductive one by one, so `IInv` joins them: `UpstreamMatchesMap` needs
`OneConnection` (a failed attempt must not leave a streaming socket behind) and
`RefCountExact` (only the call that takes a count to one subscribes), and all of
them need `CmdIdsFresh`, which says that the cmdIds in the Map are distinct,
were issued before, and name the entity of every frame still in flight:
otherwise closing one entry could close another, and a late frame could find a
listener of another entity. `ReleaseEntries` is the arithmetic at the centre: a
count less the closures that leave is the number of listeners that stay.
`RetriesDoNotMultiply` is separate: only a new call starts a chain of attempts, every
other step hands a chain on or ends it. `ServiceImplementsFeed` shows that `WsSpec`
implements `SharedFeed` with `holders` the listeners, `up` an open socket and `feed`
the entities in `tbSubs`; `RecoveryIsKept` is the action property.

`TelemetryGateway_proofs`: `GatewayInductive` joins `IInv` with what the gateway
keeps: a stored closure can still be called and is of its socket and entity
(`StoredHeld`), the upstream service is called only by handlers that got there
(`CallersEntered`), a handler in flight that was not overtaken still has its
reservation and its socket, and two handlers do not have the same one
(`ReservationsAreExclusive`). The last two are why a reference is lost only to an
overtaken handler. `GatewayKeepsService` says
that the upstream invariant survives being used this way.

`AlarmsGateway_proofs`: `AlarmsInductive` adds to types that what is on the socket was
seen and that nothing happens before a handler has connected; then
`FramesAreSentOnce`, `SeenStatesWereSent`, and the action property `LoopsAreStopped`.

`Backend_proofs`, on `ServiceToken`: `TokenInductive` says where a token can come from
(`TokensAreStored`), that there is always an unused login for who needs one
(`LoginsSuffice`: no more logins were started than attempts got past the cache), and what a
retry can be given (`RetriesAreFresh`): a token minted since the revocation, or the
one of the login in flight at the invalidation.

On `ReadCache`: `CacheInductive` accounts for every stale entry at every moment
of a write, failed ones included (`StaleIsAccounted`): stored late, never announced,
left unswept, or still to be swept. A fill that is about to store an absence saw one,
or rows moved (`AbsentIsReported`), and a leader is fetching or storing
(`LeadersFetch`).

On `Access`: the steps still to come are always a suffix of a list of `Handler`
(`TodoHeads`, `TodoTails`), and `Cleared` says what has been checked by the time that
suffix is reached. From it follow `AccessIsGuarded`, `UpdatesAreKept` and
`MovesAreScoped`.

On `ScopeWalk`, for any finite set of customers under any parents, cycles included,
and any page size, the proof of `WalkIsSafe` has two halves.

- The algorithm. The library's induction rule takes an operator as its parameter and
  cannot be used, so `LeastNumber` (a set of numbers that is not empty has a least
  member, from the well-foundedness of `<`) and `UpTo` do induction with sets, and
  `StepsExist` shows that a function given step by step exists, which is what makes a
  recursive definition equal its own body. `PassSound` and `PassAdds` say what one
  pass adds; `ScopeDeepens` that n passes reach every row at most n steps below the
  root; `ShortestWay` that a shortest way up meets no row twice and so has at most as
  many steps as there are rows. Together, `ScopeIsBeneath`: the fixed point is exactly
  what lies below the root. `PagesJoin` says that the pages of a listing, one after
  another, are the listing.
- The steps. `WalkInductive`: the pages fetched so far hold every row that was there
  when the walk began, except the ones a deletion shifted (`ReadSoFar`); nobody is
  listed before the scope is known; the scope is the descendant set of what was read;
  and a device that was not handed over, of a customer whose pages did not shift, is in
  exactly one place of the list if the page of its customer that holds it has been read, else in none (`Listed`).
  `FetchPageInv`, `DeleteRowInv` and `ListDevicesInv` are the hard steps: the last one
  needs that a device is on one page of its customer (`PageHolds`, `DevicesNamedOnce`).

`Dashboard_proofs`, on `WidgetPanel`: `PanelInductive` adds to `PanelSafe` what the
fields and the widget opened for editing hold (`PanelFieldsOK`): a pinned entity comes
with its own kind and, in a widget of one key, with a key of its own, unless the field
is still the API's (`kept`). Without the half
about the opened widget, seeding the panel from it could not be shown to keep it.

On `DashboardCells`, for any fleet, boards and number of changes of window:
`CellsInductive` adds that all cells but sparklines have resolved the same window
(`MemosAgree`), that every request and answer is one that a cell on the screen asks
for, and carries what that query's function returns (`RequestsAreKnown`), and that the
windows histories were ever asked for are no more than the ranges picked
(`WindowsAreCounted`). The hard step is a fleet that grows behind a list of
devices: `ScreenGrows` shows that nobody's device leaves the screen.

On `CellAlgorithms`, each algorithm for inputs of any length; `SamplesAgree` joins
them into `AlgorithmsAgree` and `AlgorithmsAlwaysAgree` states it of the application.
The loops of the code are recursive functions over the length of their input, and for
each a lemma (`PairsGo`, `PutAllGoes`, `RowsGo`, `PushAllGoes`, `ColumnsGo`,
`GroupsGo`, `OmittedGo`) says that the function has the values of its body, since one
with these values can be built step by step. Then:

- `WidgetsArePackedApart`: every widget placed so far ends above the cursor's row or
  before the cursor in it (`PackedBehind`). `BucketsFit`, `RowsFit` (for containers with
  a height), `MarkersShowTheWorst` and `WeeksCoverTheWindow` need no such invariant.
- `AscendingEnumerates`: sorting is defined without an order of comparisons, each number
  of a finite set has its place behind the smaller ones. That these places are 1 up
  to the number of numbers follows from counting: a one-to-one map into a finite set of
  the same size meets all of it. The pairs and the rows rest on it.
- `PairsAreNearest`, why a cursor that never goes back is enough. Of two neighbours in
  the second series the later one is at least as near exactly when the sample is not
  before their middle (`MiddleTells`). So the cursor has passed the middles that
  are behind the sample and no others (`RightFor`), later samples are behind the same
  middles and more (`PastMiddles` is kept), and where the middles say so is the last of
  the nearest samples (`RightIsMatch`), not only one that is nearer than its neighbours.
- `RowsMergeAll`, `ColumnsAreOnce` and `AxesByUnit`: what one more point, column or key
  adds to what was there (`IsIn`, `ListsOnce`, `GroupsSoFar`). The keys left out of a
  chart are without repetition because the units are (`OmittedListed`).

`Console_proofs`: `ConsoleInductive` says that everything the console knows is nested
like the hierarchy (`ConsoleNested`: tree, columns, selected path, dialog and requests
in flight, where a deleted asset keeps the place it had), that a name shown was given
to that asset once (`NamesAreGiven`), that edits do not overlap while the dialog stays
(`EditsAreAlone`), and that a column on screen with nothing under way, or an answer
under way, is behind the tree only if it is in `missed` or a request that is done will
have it fetched again (`UpToDate`, `BehindIsKnown`). What is nested includes the
answers under way (`ColumnsAreNested`). Only with all of them are `mismatch` and
`undone` empty after every step.

`Hierarchy_proofs` is for any sets of customers and assets, any number of levels
and faults. Its invariant has four parts, each proved to be kept with the help of
earlier ones:

- `LevelsInv`: a row, *and a creation in progress that may still write one*, has
  its level or the excuse. Without the second half the step that writes the row
  could not be proved. A deletion that starts counts the rows and records the
  creations, which are all the claims there can be.
- `AssetInv`: where an asset is in the two stores, at each await of its creation
  and deletion; what an ended creation left is what its last await left.
- `CustomerInv`: the same for customers and levels.
- `TreeInv`: a creation in progress relies on a parent that has its row, is not
  being deleted and is not itself in progress, or is excused; an asset both
  stores have stands under a parent that no deletion has passed the check of.
  `EraseUpright` is its hard step: ThingsBoard may take other assets along with
  a customer, and `LevelsInv` says that every one of them has the excuse.

`Application_proofs`:

- `SessionsAreSafe`. A saved original is right at every moment only because of what
  the requests in flight may still bring, so `SessionInductive` describes those
  (`Sound`: an impersonation was asked for by a sysadmin about somebody who is none,
  a login brings a session of its own user, an `end` names a row the tab has let go
  of), keeps their results apart (`ResultsApart`, so no step ends the log row of the
  session the tab acts under), and says that a session minted for somebody else is
  never a sysadmin's (`ForeignAreCustomers`, so the page cannot offer a second
  impersonation inside the first). `LiveSessionsAreKept` adds `RefusedAreDead`: a token
  the guards once refused never works again, so that refusal of the tab's own token is
  no live session lost; a 401 passed on from ThingsBoard is one, and the statement says so.
- `EditorKeepsEdits`, `EditorKeepsSharing`: `EditorInductive` says which copies the tab
  can hold (`KnownCopies`: an older one, or the stored one) and that a checked save
  was somebody's who may edit.
- `PageIsSafe`: `PageInductive` includes that the handler is the first render's for
  ever, which is what run `entity_live` shows from the other side.
- `UsersAccountsWork`: what an attempt's phase says of its account.
- `WizardTypeInvariant` and `EditorTypeInvariant`. What the editor's `shares` may be is
  bounded by the saves spent (`SharesAreCounted`), which is why its type is not
  inductive alone.
- The whole. `PartsImplemented`: a behaviour of `MC_Application` is, for each part, a
  behaviour of the part's own specification, since a step of one part stutters in the
  others. So what is proved of a part holds of the whole: `ApplicationTypeInvariant`,
  `AccountsAlwaysWork`, `NothingIsUndone` and `ApplicationIsSafe`. The constants of
  `MC_Application` that are definitions play no role in these proofs.

The assumptions are on constants only. Most say that markers such as "no entity" are
not entities and that bounds are numbers. Those with content: ThingsBoard's customers
and the devices are finitely many (`WalkAssumption`); a widget that shows one key is
configured with one, which `PanelSafe` shows of what the panel makes, `Accepts` being
the schema that asks for it (`CellsAssumption`); the hierarchy the console starts in is nested
(`StartAssumption`), as `Hierarchy` has it of what the backend stores; a dashboard
has a widget to edit (`EditorAssumption`); and the algorithms' inputs have their types
(`AlgorithmsAssumption`): a series has one sample per time, as ThingsBoard keeps one
value per key and time, a chart's keys are picked from a list, each once, widgets are
no wider than the grid, as the default layouts of the widget types are, and a window
ends no earlier than it starts.

Every invariant and every action property that a passing run checks is stated by a
theorem. Only model-checked is liveness (`ActiveResumes`, `LoginForgotten`,
`ReservationsSettle`, `SessionEndClosesSocket`, `AlarmReachesSubscriber`): fairness is
out of the proof system's reach. Nor is anything proved of the runs that find a
violation, where the counterexample is the result.

## Not modelled

- Formatting and validation of frames, logging, error messages sent to browsers.
- The rejection of the session lookup at connection time: the unhandled rejection
  ends the process.
- Several backend processes: subscriptions and single-flight are per process.
- Listings and statistics that only read (`getAllScoped` of alarms, positions, entity
  counts, health): they keep no state, and what they are allowed to show is `Access` and
  `ScopeWalk`.
- Of the query library, on the admin page: the collection of columns nobody observes for
  a while, and the fetches after the network was gone. Both fetch more often than the
  model does.
- Galleries, lists, charts' appearance, the component library and the styling: they
  show what a query returned.
- The claim dialog and the calendar grid in time zones whose summer time begins at
  midnight.
- Bootstrap, the Prisma schema and the rate limits, which are configuration.
