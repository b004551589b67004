# Verification of HyperVision ISE Portal

HyperVision ISE Portal manages the endpoints of a Cisco ISE deployment: a FastAPI backend
(`src/backend/app`) between the operators' browsers (`src/frontend/js`, vanilla JavaScript) and
ISE's ERS, OpenAPI, MnT and pxGrid interfaces. The portal has to stay usable when ISE is slow or
away, so nearly all of its own logic is about copies of ISE's state: what the backend caches, who
refreshes it and who invalidates it, and what a page shows while its requests are out. The backend
runs on one asyncio event loop, as many tasks that interleave at every `await`; the browser on one
JavaScript event loop, as many handlers whose answers come in any order, to a page that has been
redrawn, left or opened for something else meanwhile. There are no threads to speak of. The
modules here model both, TLC checks small instances, and TLAPS proves the most important safety
properties for every instance.

Contents: 1 inventory, 2 plan, 3 modules, 4 runs, 5 fairness, 6 proofs, 7 where code and
documentation disagree, 8 what is not modelled.

## 1. Inventory

### Components of the backend

| Component | State it keeps | Operations | Here |
|---|---|---|---|
| ISE HTTP client (`ise/client.py`, `ise/circuit_breaker.py`) | one breaker per host (state, failures, opened at), the count of consecutive 401s | `request`, `ping`, close | modelled but for the pool |
| Endpoint cache (`core/endpoint_cache.py`) | entries, roles index, disk count, byte total, fetch tasks; the group list | `get_detail`, `put_detail`, `invalidate_*`, `set_fetch_backoff`, eviction, load, save | modelled but for groups and saving |
| Endpoint reads and writes (`services/endpoint_service.py`) | none of its own | get, update, delete, status changes, bulk operations | single endpoint modelled |
| Cache sync worker (`services/cache_sync.py`) | none between rounds | one round per interval | modelled |
| Cache prewarm worker (`services/cache_prewarm.py`) | hot queue, scan state, pacer | full scan, drip loop, retries | drip loop modelled |
| pxGrid session worker and cache (`pxgrid/session_worker.py`, `session_cache.py`) | MAC to session, enrichments in flight, SSE subscribers | subscribe, reconcile, handle events, enrich, reconcile stale, fan out | modelled |
| MnT lookups (`ise/mnt_sessions.py`) | none | session by MAC, active list | as sources of answers |
| Settings service (`services/settings_service.py`) | the stored settings | PUT of the whole object | as what a section's save does |
| pxGrid transport, certificates | certificate files | REST calls, STOMP frames | not modelled |
| Anomaly detector, alerts, metrics, watchdog | counters | observe | not modelled |
| Authentication, lockout, rate limit | users file, token generations, lockouts | login, refresh, logout | as sessions that are valid or not |
| Guest expiry, self-registration | rows with an end, tokens, quotas | register, extend, expire | not modelled |
| Stores (`core/atomic_json.py` and its users) | JSON and SQLite files | load, save | not modelled |
| Updates (`services/update_service.py`, `recover.py`) | program files | check, apply, pull, restart | as the answers the page gets |
| Policy, dACL, authorization profiles | none (remote) | CRUD | as what ISE holds |

### Components of the browser client

| Component | State it keeps | Operations | Here |
|---|---|---|---|
| Shell: `app.js`, `auth.js`, `login.js`, `api.js`, six self-loading views | route, current cleanup, stored user, cookie, renewal timer | start, login, logout, render, refresh, refused requests | modelled |
| Registration, offline queue, service worker, CSV (`register.js`, `offline_queue.js`, `service-worker.js`, `csv.js`, `import.js`) | form, queue in `localStorage`, template, preview | submit, queue, flush, export, preview, import | modelled |
| Browse view: endpoint dialog (`browse-detail.js`) | the endpoint it stands for, form, panels, wizard | open, close, save, status commands, simulate | modelled |
| Browse view: table, filters, bulk (`browse-table.js`, `browse-filter.js`, `browse-bulk.js`) | rows, full list, rows on screen, marks, page, filter mode | load, draw, edit, save, undo, bulk, export | modelled |
| Browse view: tree (`browse-tree.js`) | grouping, merges, hidden branches, selection | regroup, merge, hide, drag and drop, store | modelled |
| Browse view: session stream (`browse.js`) | EventSource, sessions known, colours, pause | connect, apply events, look up, pause, leave | modelled |
| Policy page (`policy.js`, `policy-condition-builder.js`) | chosen set and rule, panel, condition tree | edit, move, save, delete | modelled |
| Settings page (`settings.js`, `settings/*.js`), dACL page (`dacls.js`) | a form per section, update cards, templates, editor | fill, save, check, apply, pull | six sections, updates, templates, dACLs |
| Other sections, self-registration page, texts (`i18n.js`) | forms and lists of one resource each | read, write | not modelled |

`PROJECT.json` lists every component with its files.

### How they interact

- Every call to ISE (but pxGrid and MnT, which use clients of their own) goes through one
  `IseClient`, and through the breaker of its host. An open breaker is what "ISE is down" looks
  like to the rest: an `IseApiError` at once.
- Requests, the drip loop and the sync worker all read endpoints and put them into the one
  endpoint cache. Requests share a fetch task for each endpoint; the workers fetch past it.
- Writes go to ISE first and invalidate the cache when the response is there. `update_endpoint`
  leaves a task behind that reads the endpoint again for its audit record.
- The session worker invalidates endpoints of which pxGrid reports a change, and
  `reconcile_stale_sessions` picks its candidates from the ages in the endpoint cache.
- The session cache is written by the worker, and by three kinds of MnT lookup that answer later.
  Every change of it goes to the bounded queue of each subscriber of the SSE stream, from there to
  the browse view, which also asks MnT itself.
- The browser's views share one container, one router with one current cleanup, and one session.
  `api.js` logs the user out at a 401, whichever view asked.
- Dialog, table and tree of the browse view share the rows: a save in the dialog changes a row, an
  event or a filter reloads the rows under the tree and under what is typed into the table.
- The sections of the settings page share one object on the server, which each writes as a whole.
- The register view's form, the flushes of its queue and the CSV import write to the same ISE.

### What is hard, and what makes a component correct

- **Client.** Calls that were admitted before the breaker opened report after it; the probe may
  never report; counters are shared between hosts. Correct: the breaker opens exactly at its
  threshold, wrong credentials open it too, it closes again once ISE is sound, and no read is
  given up without the Primary having been asked.
- **Endpoint cache.** Four structures are kept by hand beside each other through puts over disk
  entries, evictions, invalidations and flushes. Correct: they agree, always.
- **Reads, writes, refreshes.** An answer may be out while a write, a deletion or another refresh
  of the same endpoint happens. Correct: old versions do not come back, or only as far as is
  known and for a time; what is cached ends up equal to ISE; every waiting request returns.
- **Sessions.** The worker misses events while it is away and must bridge the gap between
  SUBSCRIBE, the answer of `getSessions` and the first event; MnT answers come late and may be
  about an earlier session. Correct: no green row without a session, and no session without one.
- **Stream.** A queue that drops its oldest event, a snapshot behind which events are on their
  way, lookups that answer with what was true before. Correct: the view knows what the cache
  knows, the rows show what the view knows, and a view that was left does nothing more.
- **Queue and import.** Two flushes at once, items queued meanwhile, answers lost, a text that is
  written and read by different code. Correct: what was accepted is kept until it is in ISE or
  refused, is settled in the end, and an export imports as it was.
- **Shell.** Views that load while they are left, a session that ends in one place and is used in
  another, a timer that is not always set. Correct: nothing of a left view goes on, a token does
  not run out on a working page, who has no session sees the login page.
- **Dialog, table, tree.** One overlay for all endpoints, one table for all answers, paths that
  are renamed beneath what refers to them. Correct: no endpoint is saved with another's values or
  loses a role, typed text stays, rows are true when all is quiet, filters see every endpoint, and
  a layout is the one that was made.
- **Administration.** An editor whose object was chosen before, a tree that is read back into a
  condition, an object written as a whole by several forms. Correct: the thing that is shown is
  the thing that is written, and nothing else.

`PROJECT.json`, "hazards", has each hazard at its line, with the properties that would show it
going wrong, or the reason why none does. Not among them, being in parts that section 8 lists as
not modelled: a page of the endpoint
list that fails during a scan, so that a partial list counts as complete; the two races of guest
expiry (extended while the expiry is under way, a crash between the PUT and the removal of the
row); group names cached apart from the group list; first-seen records written again by a fetch
that was out at a deletion; and entries still from disk that a save skips.

## 2. Plan

Done, in this order, each with its run and, where named, its proofs:

1. `CircuitBreaker`, `IseClient`, with `IseClientProofs`: what everything else depends on.
2. `EndpointCache` (a value and its operations), `EndpointSync` (the cache at work), with
   `EndpointSyncProofs`.
3. `SessionSync` (worker, session cache, enrichments), with `SessionSyncProofs`.
4. `SessionStream` (from the session cache to the colours on screen), with `SessionStreamProofs`.
5. `OfflineQueue`, `Register`, `CsvImport`, composed in `Intake`; the abstract
   `RegistrationLedger`, and in `IntakeProofs` that the queue implements it and that an export
   imports as it was.
6. `Views` and `Portal`, the shell, with `PortalProofs`.
7. `BrowseDetail`, `BrowseTable`, `BrowseTree`, with `BrowseProofs`.
8. `Conditions` and `PolicyRules`; `Settings`, `SystemUpdate`, `Dacls`, `Templates`, composed in
   `AdminForms`; all of them in `Admin`, with `AdminProofs`.

What would come next, and is not done: the full scan of the prewarm worker with its restart from
disk; guest expiry; accounts (token generations, lockout); the steps of `atomic_write_json` with a
crash between any two, as an implementation of a file replaced in one step; and an abstract
register per endpoint, which `EndpointSync` would implement under fairness.
All the safety properties that are checked are proved.

## 3. Modules

Each module is written from the file named with it. `PROJECT.json`, "map", gives the lines of every
definition. Where a module has several variables of the same kind as the code, they have the code's
names. Request and answer are always two steps: a call is put into a set, is served (where it
matters what ISE held at that moment), and is answered, by an action that is the handler of its
answer as a whole. A call that fails is an action too.

### `CircuitBreaker` (circuit_breaker.py)

A breaker is a record of the attributes of `CircuitBreaker`; each method is an operator, for none
of them awaits. `_opened_at` is kept as the time since, `open_for`, up to `RecoveryTimeout`;
failures saturate at `MaxCount`. The breaker's audit records and log lines are left out.

### `IseClient` (client.py)

One action per stretch between two awaits. `Start` is `request` and `_request_on` up to the HTTP
call: route, breaker check, becoming the probe. `Retry` and `TransportError` are the retry loop;
`RespondBad` is a 401 or a redirect, a failure for the breaker; `RespondGood` is any other answer,
503 and other errors included, which resets it. The fallback of a read to the Primary begins
inside the step in which the read host failed, as in the code (`EndOn`, `OnPrimary`). `Abort` is
everything that leaves the `await` by another exception: cancellation, or an error of httpx that
is no `TransportError`. `ReplaceClient` is a settings change. The drip loop is one of the callers:
it pings while the breaker is open and reads otherwise.

### `EndpointCache` (endpoint_cache.py)

The cache is a record of `details`, `roles_index`, `disk_stale_count` and `total_bytes`; the
operators change all four as the methods do, by increments, so that their agreement is a claim and
not a definition. Bytes are counted as what they are, one for each byte of each entry (`ByteSet`),
so that the sum of the sizes is the cardinality of a set. `put_detail` is a set of results: the eviction order among equal ages is open,
and so is the tier (`ttl`) in which `change_ema` puts an entry. An entry's age is counted up to
`MaxAge`. Groups are not here.

### `EndpointSync` (endpoint_service.py, cache_sync.py, cache_prewarm.py)

A request reads (`Begin`, `Wake`) and, if it is a write, goes on to `Put`, `Written` or
`WriteLost`, and for an update to the audit task (`AuditAfter`). A fetch has two moments: ISE reads
the endpoint (`Answer*`) and the answer arrives (`Deliver*`); what happens between them is what
the properties are about. `inflight` is the shared task of an endpoint; `direct` are the fetches
of the two workers. `DripRound` picks the most overdue entries as `get_priority_stale_ids` orders
them; `SyncRound` picks all past half the TTL; `OnFailure` is what each does about a failure.
Simplifications: the cache is enabled; the portal is in use, so the drip loop uses the base TTL;
`endpoints.update` of the wrapper is one call; a waiting request is not cancelled; the jobs
`update` and `status` differ in the audit task only. `written` and `overtaken` are ghosts.

### `SessionSync` (session_worker.py, session_cache.py, mnt_sessions.py)

The cache's lock is never held over an await, so what runs between two network calls is one step.
The worker goes `down`, `getSessions`, `ActiveList`, `reconcile`, `listening`, and can lose the
connection at each. Events and reconciliation treat each MAC by itself, so each MAC has its own
queue. Sessions of a MAC are numbered; session n has audit session id n and VLAN n, 0 is an empty
field, so a VLAN of another session is seen at once. The VLAN is the one session field kept
(dACL and SGT go the same way, except that the enrichments prefer MnT's). Fields of the endpoint
are left out, and where a condition asks for them (is an enrichment needed, is the answer better)
both outcomes are possible. A session may begin beside the one before, whose disconnect then comes
late. `Init` is a restart: any old entries from disk, and any sessions in ISE. Assumed of ISE:
`getSessions` lists exactly the active sessions of the moment it is answered, the latest of a MAC;
the broker keeps the order of the events of a MAC; MnT may lag by a session and knows the past
hour. Left out: more than one lookup of a kind for a MAC at a time (the bound of `fetch`).

### `SessionStream` (session_cache.py, api/endpoints.py `sessions_stream`, browse.js, browse-table.js)

From the backend's session cache to the colours on screen, for one view from its mount to its
cleanup. `queue` is the subscriber's queue together with what of it is on its way; when it is full
it loses its oldest event. The stream subscribes first and lists second, so `conn` is `accepted`
between the two, and the snapshot (`snap`) arrives before what was queued. The view's actions are
its handlers: each event, `onerror`, the five-second timers, the pause button and its resumption,
the five-minute lookups of details and the MnT lookup of active sessions, `cleanup`. `told` is a
ghost: the MACs of which the present stream has told the view, or will. The columns chosen and the
table's saved layout are left out.

### `OfflineQueue`, `Register`, `CsvImport`, composed in `Intake`; `RegistrationLedger`

`OfflineQueue` (offline_queue.js, and `POST /api/endpoints` as the source of answers) has the queue
in `localStorage`, any number of flushes at once, the network they run over and what ISE holds. A
flush loads its items once (`todo`) and removes each from the stored queue, which it reads again,
as `removeFromQueue` does. A request can be lost before or after ISE has acted on it.
`Register` (register.js, service-worker.js) is the form, what is loaded for it, the vendor hint,
the camera, the own endpoints, and the page itself, which needs the service worker's files to start
offline. `CsvImport` (csv.js, import.js, browse-bulk.js, browse-table.js, settings
section-csv-template.js) writes and reads text as sequences of tokens, since the property is about
the conversion: quoting, doubled quotes, separators, columns by name and by position, trimming, and
the stripping of outer apostrophes are all there; letters are words. `Intake` joins the three over
one ISE. `RegistrationLedger` is the abstract promise: what was accepted is pending until it is
registered or refused. `LedgerKept` states that the queue implements it, with the mapping
`pending <- queue \ made`, `registered <- made`, `refused <- refused \ made`: an item that ISE has
made and the browser does not know of is registered already.

### `Views`, `Portal` (app.js, auth.js, login.js, api.js; dashboard, metrics, trends, lifecycle, logs, audit)

`Views` has the views that load themselves. What one draws is reduced to what a reader of the page
can tell apart (nothing, rows, an error, an open drawer); whether it polls, has a frame of its own,
a retry or a roll-back is a table, `Features`, with one row for each of the six. `Portal` is the
shell: the start of the page (`boot`), the stored user and its time of expiry, the cookie, the
renewal timer and the one-minute poll that stands in for it, `renderView` with its early returns
and cleanups, the refused requests of `api.js`. Sessions are numbered by login, so a late answer of
an earlier one can be told. That roles with few rights are sent to another start page is one
`Fallback` route. `excused` and `overlap` are ghosts: the page slept or a renewal failed since the
last renewal; two renderings were under way at once.

### `BrowseDetail` (browse-detail.js, browse.js)

One overlay serves every endpoint, and its handlers read `state.detailCurrentId` again after each
await. A field's value is the endpoint it came from, so a form that mixes two can be seen. Each
request is a record with the endpoint it was made for, served and answered apart, and each answer's
handler is one action: form, quarantine badge, lazily loaded panels, role catalog, status commands
with their confirmations and the changes of authorization that follow, the simulated rule and the
wizard it opens. `disturbed` is a ghost: endpoints whose dialog was opened or used while a request
of theirs was out, or that met an error. The three properties are about the others, whatever
happens to the disturbed ones; what goes wrong for those is in section 7. A row is a status in
memory (`dialogRows`) and one on screen (`drawn`): every handler that ends in `applyFilter` makes
them equal, and so does anything else that draws the table (`TableRedrawn`), but setting Aktiv or
Inaktiv changes the memory alone; `undrawn` remembers for which endpoints. `DetailAssumption` keeps
the marks for "no endpoint", "loading" and "ready" apart from the endpoints and from each other.

### `BrowseTable` (browse-table.js, browse-filter.js, browse-bulk.js)

Rows in memory (`rows`, `cache`), rows on screen (`table`) and the backend's (`server`) are three
states, and `renderRows` carries the inputs of the second over to the next drawing. A row has
three fields: one whose input is carried over (the authorization selects are such), one whose
input is not (the guest registration), and the badge Aktiv or Inaktiv, which is no input. A
decommission in the backend sets the badge's attribute too and, as `DecommSetAuthz` says, the
authorization; the bulk operations set neither in the rows. Paging,
filter mode with its load of everything, the 250 ms of the filter and the 500 ms of events, saves
of single rows and of all, undo, bulk edits and bulk operations, export and the session lookups are
actions. A chip and the clear button take effect at once in the code, a chip after any delay in the
model. `old` and `switched` in a row and `typed` are ghosts: others changed the endpoint since it
was loaded, or the report of a change was lost; its status was changed in bulk since it was read;
what was typed since the row was drawn. Left out: sorting by a column (which enters filter mode as
a filter does), saved views, the columns one by one; and the bulk edit of the active status and of
PSK keys, which change a cell that an undo does not restore (`browse-table.js:440`).
`TableAssumption` bounds the counters and keeps the mark of a row that is `Gone` apart from rows.

### `BrowseTree` (browse-tree.js)

A branch's path is the sequence of its keys, a key the set of values merged in it. `merges`,
`hidden`, `branchDim` and `expanded` are keyed by path, and merging, splitting, hiding and
regrouping rename the paths beneath (`remapCustomizationKeys`); that is the module's substance.
Dragging carries the path of the moment it began, while rows are reloaded under it. The layout goes
to the preferences when it differs from the one last seen (`sig`), after a timer. `lapsed` is a
ghost: a save failed, met another, or the view was opened over one. Drawing is reduced to which
branches are displayed. What is sent drops what is empty (`Saved`), and `TreeAssumption` says that
a layout that is found in the preferences at the start was once sent by the same code, and that
there are finitely many endpoints.

### `Conditions`, `PolicyRules` (policy-condition-builder.js, policy.js)

`Conditions` defines condition trees as ISE has them and as the editor draws them (`GroupOf`), reads
the editor back (`ReadGroup`), and what both mean (`Holds`, `ShownHolds`): a reference definition,
the truth of a tree over each set of true comparisons. All of them are one recursion, from the
leaves up over the paths of a tree (`FromLeaves`). Attributes are six kinds, named in the module's head, and values three:
what the editor has a list for and what it has not is what it treats differently. `PolicyRules` has
the page: list of sets, rules of the chosen one, cards, panel, every edit of the builder, and each
write with the set and rule its handler closed over.

### `AdminCalls`, `Settings`, `SystemUpdate`, `Dacls`, `Templates`, `AdminForms`, `Admin`

`AdminCalls` has the calls under way and the number of clicks. `Settings` is the six sections that
store through one PUT of the backend settings: the ISE section sends what it has, the cache section
keeps of its GET the ISE connection, and the other four keep all of it (`Body`). A section is one
field, its value; decommissioning has a second, `authz`, for the switch that the server accepts,
does not store and does not report (`Store`, `Reported`). `log` is a history of the saves that were
stored, each with the number of them that were stored before its GET was answered. `SystemUpdate` is the update cards:
choose, validate, apply, check GitHub, pull, and the poll until the server is back. `Dacls` is the
list and its editor, whose Save and Delete use what is selected when they are clicked; `Templates`
one form for all templates. `after` in a call of `Dacls` is a ghost: the ACLs that were just saved,
their lists not here yet, when the call was clicked. `AdminForms` has one of the four pages open, `Admin` adds the policy page.

The operators whose comment calls them a variant or mutant of another are the plausible slips under
which each property fails; no specification uses them. `TypeOK` of `Intake`, `Portal`, `Views`,
`BrowseDetail`, `BrowseTable`, `BrowseTree` and `Admin` documents the state and is in no run; the
proofs establish types of what they need.

## 4. Runs

All twelve pass.

| Run | Configuration | Shows |
|---|---|---|
| `client_split` | two callers (one may be cancelled), split, two attempts, threshold 2 | `TypeOK`, `TripsAtThreshold`, `AuthFailuresTrip`, `ReadFailureReachesPrimary` |
| `client_recovery` | two callers, split, threshold 2, fairness | `HalfOpenHasProbe`, and `Recovers`: both breakers close for good |
| `sync_bookkeeping` | two endpoints, room for one, both workers, events and flushes | `TypeOK`, `AccountsExact` (roles index, disk count, entry limit), `BytesExact` |
| `sync_converges` | one endpoint, one user, both workers, fairness | `OldOnlyIfOvertaken`, `Converges`, `ReadsReturn` |
| `session_sync` | one MAC, two sessions, queue of two, all lookups, fairness | `TypeOK`, `PhantomsAreStale`, `MissingWereCut`, `Converges` |
| `stream` | two MACs, queue of two, two requests out, five events, faults or clicks | `TypeOK`, `StreamExact`, `PaintFollows`, `SilentAfterLeave` |
| `intake` | one MAC, two registrations, two flushes at once, one fault, two other actions, fairness | `LedgerKept`, `Settles`, `RoundTrip` |
| `portal` | five routes, two renderings, two requests out, two logins (one an admin's), three actions or faults, fairness | `OneLiveView`, `ExpiresOnlyOffline`, `LoggedOutSeesLogin`, `RejectedReachesLogin` |
| `detail` | two endpoints, two requests out, five clicks | `OwnValues`, `RolesSurvive`, `TruthShown` |
| `table` | two endpoints, pages of one or two, two requests out, three actions | `EditsSurvive`, `TableTellsTruth`, `FilterFindsAll` |
| `tree` | three endpoints, two dimensions, depth three, three actions, two stored layouts | `LayoutKept`, `MergeLands` |
| `admin` | two calls out; clicks: policy 5 (trees of at most five nodes), settings 2, update 4, dACLs 5, templates 5 | `RulesOwnSet`, `ConditionsKept`, `SavedStays`, `UpdatesFit`, `EditorsOwn` |

Why these bounds are enough to be worth checking:

- Client: a late report needs two calls at once, and a threshold of two tells "at the threshold"
  from "at the first failure". With two attempts a retry happens; with the split both hosts have
  breakers that differ.
- Endpoint cache: eviction needs two endpoints and room for one; the second version is larger and
  carries another role, so a structure that missed an update is off. Ages reach past the TTL and
  past what may be served stale. Both limits occur: one entry, three bytes.
- Convergence: one endpoint is enough since the operations of `sync_converges` treat endpoints
  apart (no limit is set), while user, drip loop and sync worker can each have a fetch of it out.
- Sessions: two sessions give a re-authentication, an overlap and a late disconnect; a queue of
  two gives a disconnect and the next start unread. Other MACs matter only in that `getSessions`
  may be empty or not, which `GetSessions` leaves open.
- Stream: the third event of a queue of two drops one, and with two MACs it can be the other's.
  Five events are a connection, a loss, a reconnection and two events beside it.
- Intake: two flushes of the same two items overlap in every way two flushes can; one loss is
  enough to make an item that is in ISE and in the queue. Descriptions are one of each kind the
  format treats differently: plain, with a quote and a comma, in apostrophes, over two lines.
- Portal: two sessions give a late answer of the one before, two views the one that is left. The
  first session is of an earlier visit. Routes are one of each kind that differs.
- Dialog: A, B and A again, with an answer of each still out, are three of the five clicks.
  Opening, setting Inaktiv, closing and opening the other leaves an undrawn row behind.
- Table: two endpoints on pages of one make a second page; three actions are an edit, what
  disturbs it, and what follows from both; or a tick, a bulk decommission and its reverse.
- Tree: depth three has two levels below a merge, and the two stored layouts come with hidden and
  merged branches beneath those that are merged next, so three actions start in the interesting
  part. Five values give merges that overlap.
- Admin: with two calls out the answer of the one arrives under the other; five clicks choose, edit
  and save one thing and choose another. Two clicks on the settings page are two saves that cross,
  one of which may be of the ISE connection or the cache (three clicks were checked once and gave
  no error, but take too long to be kept). Three ACLs and five clicks save one while another is
  opened, and delete then. The conditions are nested, hold a value outside its list,
  and one has what the editor has no widgets for.

Symmetry is used in `sync_bookkeeping`, `stream` and `detail`, which have no liveness. Deadlock is
not checked where the bounds or an idle user stop the system (`CHECK_DEADLOCK FALSE`: sessions,
events and clicks are bounded and calls are optional). Each property has a mutant, a plausible slip
in the code, under which TLC finds it violated.

## 5. Fairness

Backend:

- Every HTTP exchange ends, since every httpx client has a timeout (`Ends`, `Answer*`, `Deliver*`,
  `Put`, `Written` or `WriteLost`, `GetSessions`, `ActiveList`).
- A task that is ready runs (`Wake`, `AuditAfter`, `Reconcile`, `HandleMessage`): the event loop
  is fair, and the worker reads what has arrived.
- The clock advances (`Tick`).
- The loops of `main.py` never end: the drip loop keeps calling, the sync worker goes round, the
  session worker reconnects after its back-off.

Browser:

- Every request is answered or lost (`Answer` in `Portal`, `Serve` and `FlushAnswered` in
  `Intake`): the server has timeouts, and a browser gives a request up at some time.
- The poll of the alerts goes on while the page is open (`AlertPoll`, a `setInterval`).
- `Settles` has a premise about its user, stated as fairness since it cannot be stated otherwise:
  the connection comes back; the user comes back to the register view and does not leave it for
  good, its lists load sometimes (strong fairness, `ListsLoaded`), and its button is clicked if it
  is offered again and again (strong fairness, `FlushClicked`). The claim is that such a user finds
  the button. No other property assumes anything of a user.

Nothing is assumed of sessions or of ISE; that it recovers is the premise of `Recovers` and both
`Converges` (`healthy`, `network = "settled"`, `settled`), and those three steps have no fairness.

## 6. Proofs

TLAPS proves, for any number of callers, endpoints, users, workers, versions, MACs, sessions,
registrations, flushes, views, logins, dimensions, requests and clicks, and any threshold, limit or
bound that satisfies the named assumptions (`BreakerAssumption`, `ClientAssumption`,
`CacheAssumption`, `SyncAssumption`, `SessionAssumption`, `CapAssumption`, `MacsAssumption` and the
four beside it, `ViewsAssumption`, `PortalAssumption`, `TableAssumption`, `TreeAssumption`,
`DetailAssumption`, `AdminBounds`, `FormsAssumption`, `PolicyAssumption`, `TextAssumption`,
`EntryAssumption`):

- `IseClientProofs`: `TypeOK`, `TripsAtThreshold`, `HalfOpenHasProbe`, `AuthFailuresTrip`,
  `ReadFailureReachesPrimary`. The invariant `IInv` strengthens `AuthFailuresTrip`, which looks at
  closed breakers only, to `AuthFailuresRecorded` (every 401 since the last answer is among the
  failures recorded by the breakers together), and `ReadFailureReachesPrimary`, which is about
  ended calls, to `CallsOK` (a GET that is out at the Primary under the split has a cause). Every
  step of a call "goes" somewhere (`Goes`): it ends, or continues on a host whose breaker let it
  through; `GoesKeeps` deals with both at once.
- `EndpointSyncProofs`: `TypeOK`, `AccountsExact` (and its three parts by themselves),
  `BytesExact`, `OldOnlyIfOvertaken`. `CacheOK` is a property of one cache, kept by each operation
  of `EndpointCache` in a lemma of its own. The bytes of a cache are the elements of a set, so that
  what an entry adds or takes away is the cardinality of a disjoint part of it.
  `OldOnlyIfOvertaken` needs that ISE has what was written (`WorldOK`, `UserOK`) and that an answer
  that is out and older than the last write was out at that write (`FetchOK`).
- `SessionSyncProofs`: `TypeOK`, `PhantomsAreStale`, `MissingWereCut`. The invariant says where
  the truth about a MAC is: in its last undelivered event if there is one (`StreamOK`), else in
  the answer of `getSessions` while that is not applied (`SnapOK`), else in the cache
  (`UpToDateOK`). A change in ISE moves the truth to the stream; each step of the worker moves it
  one place on. It holds only because SUBSCRIBE precedes `getSessions` and the worker reads no
  event before it has reconciled.
- `SessionStreamProofs`: `TypeOK`, `StreamExact`, `PaintFollows`, `SilentAfterLeave`. The invariant
  has the same idea one stage on: what the view will believe of a MAC is in the last queued event
  about it (`QueueOK`), else in the snapshot on its way or in what the view holds (`BaseOK`). An
  event moves a MAC to the first place, its delivery moves it back, and a full queue gives a MAC up
  unless a later event about it remains.
- `IntakeProofs`: `LedgerKept`, the refinement. Every step of form, flush, network and ISE is a
  step of the ledger or one it does not see; `QInv` says that a request that was answered with a
  success has made its endpoint, and that what the form has under way is in no queue yet.
  And `RoundTrip`, for texts of any length. A fold over characters leads from state to state
  (`Leads`), and two of them in a row compose (`LeadsThere`, `LeadsAlong`): a cell in quotes leads
  `ReadChar` from the start of a field to its closing quote with the cell as the value, whatever
  quotes and commas are in it (`QuoteReads`); so a line of such cells reads as the cells and an
  empty one (`RowReads`), lines without a line break that are joined are split again
  (`LinesRead`), and the header finds the last column of each name, which is the one that was
  filled (`ColumnIs`, `CellsAre`). Hence what is read from an export says of each endpoint what ISE
  held (`ExportReads`). The invariant `CsvOK` carries that from the file to the previewed rows and
  to the request, as far as what was exported is `Exportable`, and says that every template,
  imported ones too, holds the portal's columns (`ColumnsOK`); without that a column would be
  missing and the import would clear its field. An item that says what ISE holds changes nothing
  when it is stored (`StoredSame`), whichever of the others are stored before it. `TextAssumption`
  says that texts are made of tokens and that a separator is not the name of a device or a group;
  `EntryAssumption`, that there are finitely many devices and that ISE holds entries of them.
- `PortalProofs`: `OneLiveView`, `ExpiresOnlyOffline`, `LoggedOutSeesLogin`, inductive together
  with what requests carry (`CallsOK`), that only the latest view loads for the
  first time as long as no two renderings met (`LastLoads`), and that
  somebody is about to renew (`Renewing`): the timer, the poll, or a request that is out.
- `AdminProofs`: `RulesOwnSet`, `ConditionsKept`, `SavedStays`, `UpdatesFit`, `EditorsOwn`, from
  one invariant for each page, which matters while it is open. `SavedStays` holds because what a
  save is about to store agrees with all saves before its GET (`Agrees`), but for what one of those
  may have undone and for what it will reset itself; a save that is stored then agrees with them,
  and is the later save that may have undone the others. `EditorsOwn` holds for the ACLs because a
  save selects what its call carries on as the list it waits for (`WriteAnswered`), and when that
  list comes the editor is drawn for what is selected (`EditorDrawn`). The invariant of the policy
  page has two parts. A rule is of the set it is found under wherever it is found: in ISE, in the list, in the
  panel, in a call (`PolicyOK`). And every condition is a tree, every editor has a tree of groups
  and rows, and an untouched one has the tree its rule was opened as (`CondsOK`). What that is
  worth is shown by induction over the places of a tree, for any breadth and depth: an editor's
  tree reads as nothing if it has no row and else as a condition that holds exactly when what it
  shows holds (`TreeReads`); a condition with widgets opens as a group that reads as one of the
  same meaning, and as itself if the editor wrote it (`GroupOpens`); an edit, a removal or a move
  leaves a tree of groups and rows (`EditedTree`).
- `BrowseProofs`, one part for each of the three specifications of the Browse view:
  - The table: `EditsSurvive`, `TableTellsTruth`, `FilterFindsAll`. The first speaks of marked rows
    and is kept because of what holds of all: an input shows what was typed until its row is drawn
    anew, whether or not a save, a load or an undo took the mark away meanwhile (`TypedShows`). The
    other two speak of quiet states, so that the invariant has to say what brings the table there:
    every difference between row and backend has something on its way that will remove it
    (`RowTrue`: a load, or the save, switch or deletion of that endpoint), what an answer brings
    is what the backend has now unless it is marked as old (`AnswersOK`), the rows on screen are
    those in memory unless a load, a deletion or a session lookup will draw them (`ScreenOK`), and
    filter mode has the full list and shows what passes of it, or will (`ListOK`, `FilterOK`). A row
    that was switched in bulk agrees with the backend in what the command did not set, which
    `Agrees` says for rows, answers and screen alike. A
    step may take an answer away only if it does what the answer tells, or leaves another that
    tells the same (`GoesOn`). TLC checked `TruthInv` as an invariant of the run `table` before it
    was proved.
  - The tree: `LayoutKept`, `MergeLands` and the types (`TreeTypeOK`). What the timer holds, else
    what the last PUT carries, else what is stored, is the layout on screen (`Bound`), and a layout
    that has been saved is saved a second time as it is (`SavedTwice`), so that opening the view
    does not count as a change.
    `MergeLands` is an action property and needs no invariant but the types, which is why
    `TreeTypeOK` says of every layout, wherever it is, that its customizations are under paths of
    branches and its merges of two values at least (`IsLayout`). The argument then goes along the
    code: the branches of a level are a partition of its values, and a merge that joined two of
    them stays one branch whatever later merges of the list do (`AlwaysPartition`, `PairStays`,
    `MadeOne`); so the list that `mergeValues` writes shows both (`MergeShows`), alone if no two
    merges met; `remapCustomizationKeys` leaves everything above the merge as it is (`AboveStays`)
    and loses no merge and no hidden key of what it moves (`ListsMove`, `HiddenMoves`); hence the
    rows down to that level are the same (`UnderStays`), and the merged branch is among the paths
    (`ShownAsOne`) and what it took over under it (`CarriedOver`).
  - The dialog: `OwnValues`, `RolesSurvive`, `TruthShown`. An endpoint whose requests did not
    overlap is not open, and at most its row is still to come (`Away`), or is open, with one thing
    under way at a time (`OneAtATime`) and form, badge and buttons of its own but for what that one
    brings (`AtHand`). Its row on screen is the one in memory, or it is undrawn and only the badge
    differs (`DrawnOK`). A step of another endpoint does not reach it (`StaysAway`).

The loops of the tree are folds and recursive functions, and so is what is read off a condition.
The library states induction for operators, which the provers cannot instantiate; `BrowseProofs`,
`AdminProofs` and `IntakeProofs` state it for a set instead (`NaturalsIn`, from the well-foundedness of `<`;
`UpTo`; over the places of a tree, `Subtrees`), and `BrowseProofs` from it that a recursive function on
an interval exists (`Recursion`) and that a fold is the last of a sequence of steps (`FoldsExist`; in `IntakeProofs`
`FoldLeads`, for the loops over the characters and lines of a text).
What a loop does is then a statement about all positions of that sequence. The proofs about the
tree assume of its constants that the endpoints are finitely many and that a layout found in the
preferences is one (`TreeAssumption`).

Only model-checked: what is under fairness (`Recovers`, `ReadsReturn`, both `Converges`, `Settles`,
`RejectedReachesLogin`), since liveness is beyond this prover's installation.

## 7. Where code and documentation disagree, and what was noticed

These were noticed while modelling; none is a failing run. The models contain the behaviour, and
the properties are stated so that what is claimed is what the code keeps; where a property names an
exception, the exception is one of these.

### Backend

- A probe that is cancelled leaves the breaker HALF_OPEN for good (`client.py:272`; the docstring at
  `circuit_breaker.py:9` says its success closes it and its failure opens it). `HalfOpenHasProbe` is therefore checked without
  cancellation.
- A late failure re-opens the circuit under a running probe; a second probe can go out beside it
  (`circuit_breaker.py:71`).
- A read after a write may return the version before it, from a fetch that was out at the
  invalidation (`endpoint_cache.py:398`). `OldOnlyIfOvertaken` shows that this is the only way,
  and `Converges` that it does not last.
- The sync worker drops entries whose refresh fails, so an outage empties the cache
  (`cache_sync.py:111`; ARCHITECTURE.md:45 promises stale data and never an empty screen).
- A value served because its fetch failed is not marked stale (`endpoint_service.py:247`).
- A reconciliation gives a new session the VLAN, dACL and SGT of the one before
  (`session_worker.py:717`); one that finds the answer without a VLAN may keep the old audit
  session id.
- `reconcile_stale_sessions` lists endpoints whose session has ended (`session_worker.py:1082`).
  `PhantomsAreStale` shows that this is the only way to a phantom row after `getSessions`.
- A disconnect that comes after the next session has begun takes that one's entry with it
  (`session_worker.py:390`); `MissingWereCut` names this as the one way a session goes missing.
- Openings of the breaker by a 401 or a redirect write no audit record (`client.py:298-378`;
  CHANGELOG.md:2839 announces one for openings). An HTTP 503 of ISE falls back like the breaker's
  own (`client.py:192`), against the docstring at `client.py:175`.
- The memory limit is checked for new entries only (`config.py:170`); `set_fetch_backoff` rewrites
  `fetched_at`, so an old entry counts as fresh again (`config.py:132`); a docstring of the cache
  speaks of ten times the TTL where `STALE_MAX_FACTOR` is 30.
- A written endpoint is missing from lists until it is read again, since lists are built from the
  cache.

### Session stream

- A late MnT answer overwrites newer events; a removed session comes back into the details with a
  late five-minute answer, and one of a view that was left sets the shared session data.
- An empty snapshot after a reconnection leaves the old green rows; so does `pxgrid_disabled`
  without a filter. An `upsert` over `active = null` makes that one MAC the whole set.
- `onerror` restarts the five-second timer at each failed reconnection, so "live" may stay on.
- An EventSource that was rejected is never started again, and pxGrid enabled later goes unnoticed;
  `cleanup` does not clear a pending `endpointReloadTimer`; expiry of a session in the backend is not
  broadcast; the event "clear" has no sender.

### Shell

- Two renderings at once leak the cleanup of the first (the premise of `OneLiveView`); a view's
  interval goes on behind the login page; the retry timers of lifecycle and trends have no cleanup.
- A late 401 of an old session logs a new one out; a late answer to a renewal restores the old
  user; a second answer about the login status can draw the form over a view.
- A failed status request leaves the login page without a retry. After a login the renewal timer is
  not set until the next start; the one-minute poll stands in (`ExpiresOnlyOffline`).

### Registration and import

- A 401, 409 or 5xx during a flush drops the queued registration for good; a lost response makes the
  next attempt a conflict, counted as failed.
- The banner is not drawn again after an online flush that only fails, nor after the flush of a view
  that was left; `form.reset()` wipes what was typed while the request was out; a late vendor lookup
  or generated PSK lands in the next form; a camera granted after it was cancelled stays on.
- The service worker caches part of the modules, against the comment at `service-worker.js:2`.
- An export with a line break in a description does not import again, outer apostrophes are
  stripped, and an endpoint without a group gets the fallback group: the premises of `RoundTrip`.
  An import also stamps the portal's own attributes again (`endpoint_service.py:861`), which an
  entry of the model does not have.

### Browse view

- After "Inaktiv" or a decommission, `#d-active-status-sel` still holds what was loaded, so Save
  writes the old status back. A failed quarantine query shows "free". Answers of one endpoint's PSK
  key or profile land in the dialog of another, and the confirmation can name the previous one
  (i18n `detail.confirm_decomm`).
- Setting Aktiv or Inaktiv in the dialog changes the row in memory and does not draw it
  (`browse-detail.js:1110`, against `:1085` and `:1158`): the table shows the old badge until
  something else draws it. `TruthShown` names this exception.
- Bulk decommission and reactivation set only the status in the rows (`browse-bulk.js:482`, `:513`),
  while the backend also sets the active attribute and, if the settings say so, the authorization
  (`endpoint_service.py:1042-1054`, `:1095`): badge and authorization stay as they were until the
  rows are loaded again, and saving such a row sends the old authorization. `TableTellsTruth` names
  this exception.
- `dirtyIds` keeps endpoints that were deleted or are on another page; an edit made during a save
  loses its mark (the text stays: `EditsSurvive`); guest fields are not carried over by
  `renderRows`; a late page load in filter mode leaves only that page; a failed `enterFilterMode`
  shows unfiltered rows.
- The merge lists concatenated by a merge need not be disjoint (`browse-tree.js:272` says they
  always are), and then a later merge on that level can take in more than the two branches, so that
  `mergedNodePath` is not the path `applyMergesHidden` produces (`browse-tree.js:233`); nor is it if
  that branch was hidden before: then the two disappear (the two exceptions of `MergeLands`). The
  hidden key of a branch that is merged stops matching; a collision in `branchDim` drops one side's
  grouping; selecting a branch selects its hidden rows; a value with "//" breaks `parentOf`; a
  failed read of the preferences lets the defaults overwrite the stored layout; a drag that began
  before a reload acts on old ids.

### Administration

- Saving the Backend section PUTs its ten fields, and the schema's defaults reset the cache, branch,
  debug, decommissioning and guest settings (`section-backend.js:105-118`); the Cache section resets
  the last four (`section-cache.js:248-275`). A save stored between another one's GET and PUT is
  lost (`section-update.js:608-617`). `SavedStays` names these as the only ways to lose what was
  saved. A load that fails leaves the page's HTML defaults with Save enabled.
- `decomm_set_authz` is accepted, neither stored nor reported (`settings_service.py:42-149`), and
  used (`endpoint_service.py:1048`), although i18n.js:1484 reports the defaults as saved.
- The condition editor "preserves ISE's nesting" (`policy-condition-builder.js:241`,
  RELEASE_NOTES.md:3060), but a reference becomes an empty or default comparison, `isNegate` is
  dropped, an attribute not listed becomes the first one, an operator not listed becomes equals, and
  an identity group not listed becomes empty: `Supported` in `ConditionsKept`. The summary drops the
  parentheses of nested blocks.
- A late answer shows another set's rules under the present title (writes still go to the right
  set: `RulesOwnSet`); answers to a save or deletion close another rule's editor; a drag writes an
  old copy of the rule; a created rule's answer leaves the next new rule's editor with its button
  off.
- While a dACL's save reloads the list, the editor may show B with A selected, and Save or Delete
  hits A (`dacls.js:224-227`: `EditorsOwn` shows that it can hit no third one); late `getDacl`
  answers, and the lists that end in `renderEditor`, overwrite typed text without a question
  (`dacls.js:226-227`, `:246-247`, `:286-288`, `:296-297`); a refresh deselects an ACL that is being
  written anew, and Save ends in a TypeError.
- An answer to any save or deletion of templates hides the form that is open; a value not offered is
  dropped when it is saved; Edit uses the list's copy.
- A late check of one package enables Apply while another is chosen; a failed apply enables its
  button again, whatever was chosen meanwhile (what is sent is still the package that passed its check:
  `UpdatesFit`); the poll for the restarted server may be answered
  by the old one; the check of the old branch shows the pull button after the branch was changed; a
  package and a pull can be applied at once.
- Users (`section-users.js`): two quick clicks on chips can be stored out of order, a reload beside a
  write shows a stale row that the next click writes back, and assigned roles that are not in the
  catalogue are dropped.

## 8. What is not modelled, and why

- I/O and formats: XML and STOMP parsing, certificates, ERS and OpenAPI wrappers, what views draw.
- Remote CRUD without state of its own in the backend: policies, dACLs, profiles, TACACS settings.
  What the browser makes of the first two is modelled.
- Observers that change nothing others read: metrics, alerts, diagnostics, watchdog, the anomaly
  detector.
- Performance: connection pool, concurrency limit, adaptive pacing.
- The full scan of the prewarm worker, its hot queue, the saving of the cache and the restart from
  disk beyond the initial state; guest expiry and its worker; users, tokens, lockout and rate limit;
  the JSON and SQLite stores; replacement of the program files and `recover.py`. These have state
  and hazards that a model would reach (the end of section 1 names them); they come next in the plan.
- In the browser: the settings sections with a resource each (users, roles, SNMP, TACACS, PSK and
  others), the self-registration page, the table of texts, sorting, saved views, the columns. They
  read and write one resource and keep no state that another part reads; what was noticed in
  `section-users.js` is above.
- Bulk operations in the backend, groups and group names, PSK handling, roles and visibility.
- Tests, deployment and packaging.
