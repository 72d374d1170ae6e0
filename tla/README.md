# oui in TLA+

oui is a control panel for the Xray proxy: one Go process that keeps inbounds
and clients in a database, generates Xray's configuration, starts and watches
the Xray process, counts its traffic, cuts off clients that are over their
quota, past their expiry or on too many IPs, and answers a web interface and a
Telegram bot. It is written as services that share package variables, one
database and one child process. Some twenty cron functions, the request
handlers and the bot call them concurrently; the cron starts every tick in a
goroutine of its own, so that the ticks of one job can overlap. The web
interface is a React application of one page: its pages hold a copy of what the
server has, which pushes over a WebSocket, refetches and late answers replace
while somebody edits it.

This directory holds TLA+ modules of the parts where that concurrency, failures
and restarts matter, runs of TLC over small instances of them, and theorems
about them that TLAPS checks. `PROJECT.json` lists runs, theorems, the lines of
the source each definition stands for, and the hazards the properties are for.
Paths below are relative to `src/`.

    tlc -config TrafficWriter.cfg MCTrafficWriter     # a run of TLC
    tlapm TrafficWriterProofs.tla                     # the proofs of a module

## 1. The system's parts

| Part | State | Operations | Hard behaviour | What makes it correct |
|---|---|---|---|---|
| **Traffic writer**, `web/service/traffic_writer.go` | queue, context, done channel, mutex | Start, Stop, submitTrafficWrite, the writer goroutine | stop and restart while callers wait; a mutex held while waiting for queue space | a submitted write is applied once or refused, its caller answered; one writer at a time |
| **Xray process service**, `web/service/xray.go`, `xray/process.go`, `web/job/check_xray_running_job.go` | the process object `p`, the service lock, need-restart and stopped flags, `config.json` | RestartXray, ApplyConfigChange, StopXray, SetToNeedRestart, watchdog | restarts that fail half way, crashes, flags raised during a restart | one Xray at most; what was reported applied stays so; a crash is repaired; a deferred restart happens |
| **WebSocket hub**, `web/websocket`, `web/service/websocket.go` | registry, bounded channels, one send channel per connection | Register, Unregister, broadcast, eviction, Stop, two pumps | full queues, slow readers, panics and restarts of the hub | never a send on a closed channel; no gaps; no leaked connection |
| **Client IP limit**, `web/job/check_client_ip_job.go`, `web/service/iplimit_*.go` | access log, IP rows, firewall rules, three ban logs, takeover probe, marks and timers | scan, bans, unbans, buttons of the bot, log rotation | no lock between scan and administrators; bans known only from logs | at most as many IPs as the limit; every ban can end |
| **Client traffic**, `web/service/inbound.go`, `web/job/xray_traffic_job.go` | per client: row, settings, record; Xray's users and counters | AddTraffic (account, renew, disable), switch, resets, restarts | the same fact stored three times and in a process, changed by concurrent transactions and restarts | no double accounting; who is off is out of Xray; who is over is cut off |
| **Client service**, `web/service/client.go` | client records, their links to inbounds, tombstones, per-inbound locks | create, edit, move, delete, bulk edits, SyncInbound | read-modify-write of a JSON column under a partial lock | settings and records agree; deleted clients stay deleted |
| **Inbound service**, `web/service/inbound.go` | inbounds, firewall side effects | add, update, delete, switch | several systems changed by one request | database, firewall and Xray agree |
| **Managed firewall**, `web/service/managed_firewall.go` | list of rules the panel opened | track, forget, clean up | crash between opening and remembering | a port in use stays open, one out of use is closed |
| **Port conflicts and port hopping**, `web/service/port_conflict.go`, `hysteria_port_hopping.go` | inbounds, an nft table | check then save, rebuild the table | two requests between check and save | no two inbounds share a socket |
| **Nodes**, `web/runtime`, `web/job/node_*.go` | cached remote clients, heartbeat, snapshots of remote traffic | heartbeat, sync, push | lost and late answers, stale snapshots | a deleted client does not come back; traffic is not lost |
| **Online notices**, `web/job/xray_traffic_job.go` | a session per client | reconcile at each tick | overlapping ticks, counters that are reset | each offline notice follows an online notice |
| **Login limiter, sessions, tokens**, `web/controller`, `web/session` | failures per address and name | allow, registerFailure, registerSuccess | window and cooldown | a block lasts its time and ends |
| **Telegram bot**, `web/service/tgbot.go`; **LDAP**, `web/job/ldap_sync_job.go` | callback hashes, user states | dialogues, calls of the services | expired hashes, timers | those of the services it calls |
| **Push channel and inbounds page**, `frontend/src/api`, `frontend/src/hooks/useWebSocket.ts`, `frontend/src/pages/inbounds` | two sockets, pending invalidations, the cached list, row objects, selection, requests | reconnect, pushes, switch with rollback, bulk deletion, hydration | pushes, fetches and answers in any order; changes nobody is told of | never two sockets, never none; a fresh list is the server's; a bulk deletion tries all |
| **Inbound dialog**, `InboundFormModal.tsx`, `inbound-form-adapter.ts`, `frontend/src/schemas` | a form store of one object per protocol, network and security; generator requests; fallback rows | switches, toggles, generators, JSON editors, submit | a late answer into a store that was rebuilt; JSX and schemas that drift apart | what the dialog builds it can submit; what is shown is sent |
| **Outbound dialog and share links**, `OutboundFormModal.tsx`, `outbound-form-adapter.ts`, `inbound-link.ts`, `outbound-link-parser.ts` | a store, the registered fields, a JSON tab | switches, link import, OK | OK takes the fields drawn last; reader and writer written apart | fields reach the row and read back; a link of the panel connects |
| **Xray page**, `frontend/src/pages/xray`, `useXraySetting.ts` | the configuration as text and as template, test rows, dialogs of WARP and NordVPN | every tab and dialog, save, restart, reset, tests | indices and rows of an older list; refetches under an open dialog | text and template agree; renames reach the rules; an edit can be saved |
| **Clients page**, `frontend/src/pages/clients`, `useClients.ts` | answers per query, filters, selection, mutations, dialog and save | filter, toggle, bulk operations, hydrate, save in three requests | cached answers of other queries; a half-done save retried | current lists; the form is of its client; attachments as shown |
| **Scheduler and shutdown**, `web/web.go`, `main.go` | the cron, servers | start, stop, reload on a signal | order of stopping | everything started is stopped |
| **Settings, outbounds, WARP, geo files, server status, panel update, subscriptions, database, controllers, scripts, other pages of the frontend** | rows, files, samples | reads, writes, conversions | - | mostly sequential input and output |

How they meet: handlers change the database, then call
`XrayService.ApplyConfigChange`, which restarts Xray under the service lock.
`RestartXray` calls `GetXrayConfig`, and this calls `AddTraffic` through the
traffic writer while it holds the lock. The traffic job reads Xray's counters,
calls `AddTraffic` the same way, restarts Xray or raises the need-restart flag,
and broadcasts through the hub. The scan for IPs and the bot share the firewall
chain and the ban logs. `web.Server.stop` stops the cron, the traffic writer, the
bot and the hub in this order and then shuts down the HTTP server.

In the browser two WebSocket clients per tab receive what the hub sends. Pushes of
whole lists go straight into the query cache, hints ("invalidate") are collected
for 200 ms and then refetch. The pages copy the cached answer into state of their
own, where switches, hydrate answers and traffic change it in place.

## 2. The modules

### `TrafficWriter`, with `OnceWrites`

One generation per `StartTrafficWriter`: its channel `queue[g]`, its context
`ctxDone[g]`, its goroutine `writer[g]`. The four package variables change
together, so that `twGen` stands for them. A caller runs through
`submitTrafficWrite` in the steps between which others can run: it takes `twMu`,
reads the state, sends or times out, unlocks, and waits for an answer or for the
writer's end. What is applied inline after a stop, with no mutex and possibly
beside the drain, is a step of its own.

`OnceWrites` is what callers are promised: a call is applied exactly once and
answered with its outcome, or refused and not applied. `TrafficWriter`
implements it (`ImplementsOnceWrites`, checked and proved).

### `XrayLifecycle`

A configuration is the number of database commits it was generated from.
`RestartXray` is one step for each effect that others can see: lock, generate,
decide, test and write, stop, start, roll back, done. Any of them can fail. The
process object `p` and the one being built are two places, because a rollback
starts the old object again. Administrators save and apply, or stop; watchdog
ticks count; the need-restart function and a deferring job raise and read the
flag. Crashes happen when Xray runs.

### `WsHub`

The hub goroutine, its two channels, a channel and two pumps per connection.
`select` is a choice among what is ready. Panics end an iteration and, after
`RestartAttempts`, the hub. What a message says and the throttle are left out:
a throttled broadcast does nothing.

### `IpLimit`

One client on one inbound. `access`, the row (`row`, `kept`), `rules` and the
lines a replay of the ban logs can see (`logs`) are separate state, as in the
code. A scan is the steps lift, read, decide, enforce and save. Setting a ban is
three more (its [LIMIT_IP] line, the firewall rule, its BAN line), lifting one two
(the rule, its UNBAN line); a loop over bans makes its calls one after the other
(`calls`), and what a caller does when they are done (mark the IP, clear the row)
waits for them (`after`). The rotation truncates the limit log, copies the ban log
and truncates it in three steps (`rotation`). Administrators, the bot, timers, the
rotation and a restart of the panel come between any of these. `orphans` is
history: the rules whose line was lost, or which were inserted while the UNBAN line
of an earlier lifting was still to come. Three simplifications: a replay reads its
three files in one step, a scan decides about all IPs in one, and a change of the
limit reads the bans to lift as it commits. Scans do not overlap, rules are for one
port, and time is counted in scan periods.

### `ClientTraffic`

The clients of one local inbound without a quota of its own. `rowOn`, `setOn` and
`recOn` are the three places that say whether a client is on; `served` is what
Xray does. A transaction is one step (SQLite is opened with
`_txlock=immediate`), and what a handler reads before it begins is another:
`view` and `seen` are such readings. `AddTraffic` is an operator that returns the
outcome of the whole transaction, because the traffic job, a restart and a look
at the configuration call it and treat the outcome differently.

### `InboundsPage`

The two sockets of a tab (`api/websocket.ts`: that of the bridge and that of the
pages), the messages on their way, `pendingInvalidations`, the cached slim list
with its fetch, and the page: `rows`, selection, requests under way, the bulk
deletion and the dialog. An inbound is on, off, gone or not yet added. A change
of which the server tells this tab nothing (a throttled push, a reset, a
socket that is down) marks what was read before it as `missed`. A change that it
makes or is told of marks what had been read before as `late`: neither
`setQueryData` nor, for a first fetch or a page not on show, `invalidateQueries`
cancels a fetch under way, so that its older answer arrives and counts as fresh.
The marks are history and no action reads them.

### `FormFields`, `InboundForm`

A field is a pair of the object that holds it and its name; a form is the
protocol, the network, the security, the optional parts that are on and the
objects present in the store. `InboundForm` has three views of one store: what
the tabs show (`Visible`), what the schema accepts (`Accepted`) and what is
posted (`Sent`), each translated from its own source file: the dialog, the zod
schemas, the adapter. Generators are a request and an answer that writes into
whatever the store holds by then: it creates the block it writes to if there is
none, and leaves a hole before the certificate it writes to if others were
removed meanwhile. `saveFallbacks` sends the rows that have a child.

### `ShareLinks`, `OutboundForm`

`ShareLinks` has the writer of links, the fields a link carries, and the
reader, the fields it gives back. `OutboundForm` has the store, the fields
registered by the last drawing, the row that OK hands over
(`Confirmed`) and what reopening that row reads (`SettingsFromWire`).

### `XrayTemplate`, `XrayPage`

`XrayTemplate` holds a pure operator per handler: the template before, the
template after, with the indices the handler was given. A list can get a hole
(`PutAt` beyond its end). `WellFormed` is what the schema asks of the lists whose
rows name each other. `XrayPage` decides which index, row and template each
handler gets: that of the present rendering, or of the older one
a memoized column still holds (`tabs`). The text, the template, the refetches that
re-seed both, the poll behind the Save button, the workers of "test all" and the
dialogs of WARP and NordVPN are its state.

### `ClientsPage`

The server's records, one cached answer per query, the list requests, the
filters and the pager, the selection, the mutations, and the dialog with the
record it was opened on. That record is a request: the server reads it and its
attachments (one step here; `client.go:93` and 98 are two reads), later the answer
arrives, and a change between them sets `behind`, which no action reads. A
list the page was told about while its fetch had read is `late`, as on the
inbounds page; counters merged into a stale list take it for fresh
(`applyClientStatsEvent`). A save is the sequence update, attach, detach (`onSave`),
each of which may fail before or after it was stored.

The `MC` modules give the constants of the runs their values. `MCPanelForms`
puts the inbounds page and the two dialogs side by side in one run; they share
no state, and one moves while the others rest.

## 3. The runs

| Run | Instance | What it shows |
|---|---|---|
| `traffic_writer` | 2 callers, 2 controllers, queue of 1, 2 generations | no write is stranded or answered short, one live writer, every submit and stop returns, `OnceWrites` is implemented |
| `xray_safety` | 1 administrator, watchdog tick, job and need-restart function each, 2 commits, 2 failures, 1 crash | one Xray, reported changes stay applied, `config.json` is what runs, restarts deferred before the database is read are kept |
| `xray_live` | 1 administrator, 2 overlapping watchdog ticks, 1 failure, 1 crash | a dead Xray comes back unless stopped by hand; every call returns |
| `wshub` | 2 connections, all channels of 1, the hub gives up after 2 panics | channels in the registry are open and complete; evicted and ended connections are closed and leave; Register returns while the hub lives |
| `ip_bans` | 2 IPs, limits 0 and 1, a button, or two of a configuration change, a rotation and a restart | every firewall rule can be found in the logs, has its line due or is an orphan; with limit 0, or switched off for good, every other ban ends |
| `ip_scan` | 3 IPs, limits 1 and 2, 4 periods, 1 refused rule | a scan lets through at most as many of its IPs as the limit |
| `client_traffic` | a client with a quota, one renewed daily, 2 handlers, 1 tick, 2 requests and faults | nothing is accounted for twice; who is off in the database is out of Xray or a restart is to come; what is reported of a switch holds |
| `client_cut` | 1 client, 1 handler, the same operations | over its quota or past its expiry, a client is cut off in the end |
| `panel_forms` | 3 inbounds, 2 user actions or failures on the page; forms that differ in 2 places from a fresh one, 2 certificates, 2 fallback children; outbounds with 2 optional parts | a tab reconnects and never has two sockets; a list taken for fresh is the server's unless `missed` or `late`; a bulk deletion tries all; what the inbound dialog builds it can submit, what it shows it sends, but for the cases of section 5; outbound rows keep and read back their fields; links of the panel connect |
| `xray_page` | a template with 4 outbounds, a balancer and its rule, DNS and fake DNS, 2 actions | text and template agree; renames reach the rules; all rows are tested; an edit is offered for saving |
| `clients_page` | 2 records, 3 names, 2 inbounds, pages of 1 row, 3 actions or failures | cached answers are current unless `missed` or `late`; the form is of the client its requests go to; attachments are as shown after a save with retries, but for those a failed attempt made |
| `clients_group` | violated, the same instance | a save of the dialog erases the client's group (`ClientFormModal.tsx:342`) |

### Bounds

Counters that could grow for ever are bounded by constants named `Max...`, and
each bound is a guard of the action it limits. Queues have one place: a full
and an empty queue, a send that waits and one that times out then happen with
two callers. Two generations of the writer show a stop and a restart, which is
where a reader of old package variables meets new ones. Two failures suffice
for a restart that fails and a rollback that fails too. The crash and the two
ticks of `xray_live` are what it takes to make one tick reset the count of
another. Two IPs compete for one place; a third makes the choice of an excess
out of a larger list visible. `MaxEvents` bounds configuration changes, buttons
(which count for two, as their timer comes later), rotations, failures and restarts
together. Two in `ip_bans` make a lifting and a ban overlap between a rule and its
line (a change of the limit and the scan, or a button and the scan), put
a line between copy and truncation, and a restart before a line: 460 000 states in
a minute. `ip_scan` has four periods for three IPs and one refused rule: 2.2 million
states in 90 s. In `client_traffic` requests and faults share one
bound of two: two requests that interleave with each other, a tick and a restart,
or one request and a failure, or two failures. A day can pass once, which is
when the renewal and the expiry happen. Larger instances were run once (three
requests and faults, three handlers that switch and reset one client, a renewal
of two days, the setting `restartXrayOnClientDisable` off). Two older formulations
of `CutOff` and `ReportedOnIsServed` failed only there, with two handlers that
overlap a tick or a restart; the theorems below are the answer to that.

On the pages `MaxActions` counts what users and other sessions do and what
fails; what follows from it by itself (answers, timers, effects, pushes) is not
counted, so that two actions already overlap in every order, and a third
is what a retry after a failure needs. Two records and pages of one row make a
second page. The largest runs are `clients_page`, 3.2 million states in two minutes, and
`panel_forms`, 1.6 million in as long. `MaxTouched` bounds how far a form is from a fresh one: two
optional parts, certificates, requests or fallback rows at a time
on any protocol, network and security. A link is imported over a text nobody has
typed into.

### Fairness

Goroutines that can run do run, a channel operation of the hub that waits is
served (Go's `select` chooses at random: strong fairness), and `sync.Mutex`
hands itself to a waiter after a millisecond (strong fairness on taking a lock).
The cron keeps ticking (weak fairness on ticks, scans and the need-restart
function). Nothing is assumed of administrators, clients, faults, crashes and
panics; liveness holds because they are finitely many. `client_cut` assumes no
more than that ticks, the need-restart function, restarts and requests go on.

`wshub` checks no deadlock: after Stop and the end of all connections
everything has stopped. Neither do the runs of the pages: a user may stop at
any time. `EditIsOffered` of `xray_page` assumes that the browser's interval timer
goes on (weak fairness on `PollDirty`) and nothing of users, answers and sessions.

## 4. What is proved

The proofs hold for all values of the constants, within the named assumptions of
the modules (capacities are positive, kinds of actors are disjoint, ...), and
without any assumption on fairness. The inductive invariants (`IInv` of each
module) were checked by TLC before they were proved; the runs leave them out, as
the theorem `Inductive` says more.

* **`TrafficWriterProofs`**. `IInv` says where each request is: a caller is in
  the queue of the generation it read, in the hands of that writer, or
  answered. The step that carries the proof is `CallerInv`: whoever holds
  `twMu` has found the context of its generation not cancelled, and it
  stays so, since `StopTrafficWriter` needs the mutex to cancel. Hence no send
  comes after the drain. From it follow `NoStrandedWrite`, `NeverStoppedShort`,
  `OneLiveWriter` and, step by step with a refinement mapping, `OnceWrites`.
* **`XrayLifecycleProofs`**. Typing, who holds the lock in which line (`LockInv`),
  how fresh the generated configuration is (`SnapInv`), which process may live
  in which line (`ProcessInv`), what each object holds (`VersionInv`) and what
  the file holds (`FileInv`). `VersionInv` is the delicate one: during a restart
  the old object is at least as new as everything reported, so that a rollback
  undoes nothing that was reported.
* **`WsHubProofs`**. `ConnInv` follows one connection: its registration occurs
  at most once in `ops`, never beside a registry entry, and nothing of it comes
  behind its unregistration. So a channel is closed only when it has left the
  registry, and what a registered client has in its channel is what is due.
* **`IpLimitProofs`**. `LineInv`: a line in the older log is never younger
  than one in the current log. `RuleInv`: of the IP of a firewall rule that is no
  orphan no UNBAN line is still to come, and its newest line is a ban, or that
  line is due. A rule becomes an orphan in four places only: inserted
  while such a line is to come (`CallBan`), when its last line is overwritten
  (`RotateCopy`) or is lost after the copy (`RotateTruncate`), and at a restart
  before its line. Every other step preserves `RuleInv`, whatever the number of callers and
  rotations. `AtMostLimit` needs a
  finite set of IPs to count: a scan protects no more IPs than the limit it
  read (`ChosenInv`), and it calls for a ban of every other live IP that is neither
  let through nor banned in the logs.

* **`ClientTrafficProofs`**. `OffLasts` for any clients, handlers, ticks and
  requests: a client without renewal whose switching off has been reported is not
  served again. `Down` says that its settings and record are off and that no
  handler between its reading and its save has read them on, which is where
  `lockInbound` is needed: the update that switches the client off is the only
  one in its section. `AskInv` follows the handler from there through its restart
  to the configuration it generates, `OffInv` keeps what is then true:
  `AddTraffic` switches on only clients with a renewal (`AddTrafficReturns`),
  and a restart takes up nobody whose record is off.
  Three more properties of any number of clients, handlers and overlapping ticks
  rest on it, each with an invariant of its own. `NotOverbilled`: number the
  units of a client's traffic; at any time each belongs to at most one job's
  deltas or to what is accounted for, and those between `last` and the counter to
  nobody (`UnitInv`), so that what is accounted for can be counted. `CutOff`: while
  no restart is under way, whoever is off and known to Xray is `unasked` or
  somebody is to restart Xray (`LeftInv`); while one is, what it has
  read is on, or some other caller is going to restart after it (`SnapInv`); the
  cron counts for nothing there, as another restart may make it skip its own.
  `ReportedOnIsServed`: nobody else asks the contrary (`NoRival`), and whoever
  saves the settings of another client has read this one on (`ViewInv`, again by
  `lockInbound`), so that the handler's restart reads it on or finds it disabled
  (`OnInv`).

* **`XrayPageProofs`**. `TextIsTemplate`: every writer of the text writes the template
  with it, in whichever tab, dialog or answer it is called. `RenamesReachRules` is about
  two handlers, but what they do to a rule or a balancer depends on its fields
  being there, so it needs `SInv` (`PageIsShaped`), for any stored template that has the
  fields and rows of its schema (`StoredAssumption`): each of the forty handlers
  takes a well-formed template, which may have holes, to another, and so does every
  way around them. What is seeded was stored, what is stored was posted, what is
  posted is the text and with `TextIsTemplate` the template on show; a dialog's value
  is a row of a table that may be older. Then a rule that names the tag at the index
  of the dialog by now follows it, and no other tag leaves the list. `AllRowsTested`,
  for any rows and number of workers: a row
  still to be tested is in the queue or in the hands of a worker (`Queued`), and a
  queue that is not empty has its test running (`Worked`).
* **`PanelProofs`**, for any finite set of inbounds. The page: `KnownInv`: every list the
  page holds, is fetching or is being pushed, the selection and the targets of the
  deletion name only inbounds that have been added. Together with `OpsInv` (an
  inbound is added once) none of the targets comes back, so that `BulkInv` can
  count: the targets still there and no longer in the queue are at most those
  counted as failed. `BulkTriesAll` is this at the end of the queue. `ShownInv` gives
  `OnlyTheListed`, which no run checks. `OneSocketOrTimer` needs only itself.
  `ListIsCurrent` says nothing of what is still to arrive, so `CurrentInv` asks the
  same of it: of a fetch that has read, and of the last list among the messages,
  provided none behind it tells of another change. A change reaches the tab as a
  message behind all others, or makes what is held `missed` or stale; a fetch that
  has read becomes `late` or `missed` (`Changed`).
  The dialogs, for any number of certificates and of parts that are on at a time.
  `FormGood` is what every switch of the inbound dialog must leave behind: the blocks
  of the network and the security, hysteria's network with hysteria and only with
  it, a network for every protocol that has a stream. A store typed as JSON promises
  none of this, which is why `Submittable` and `VisibleIsSent` leave it out.
  `VisibleIsSent` then takes one lemma per tab: what it shows is named by the schema of
  the same block. `KeepsClients` needs no invariant. In the outbound dialog one lemma
  per protocol compares the form with the adapter, and the adapter with its reader;
  `LinkConnects` holds as `LinksFaithful` says of each writer and reader of links,
  and as every step but a typed JSON text forgets the link (`DialogInv`).
* **`ClientsPageProofs`**. `ListIsCurrent` of the clients page. `FetchesCurrent` asks it of
  the answers on their way: each is current, or is marked as missed or late. A change
  that the page makes or is told of marks every list that is held stale, at once or
  when the message comes, and what fetches have read late; one that is not told
  marks both as missed.
  `FormIsOfItsClient` and `SavedAttachments` rest on `DialogInv`. Unless a second
  Edit overtook the first, no record is on its way once the form is open
  (`FormInv`), so neither the client nor the attachments it was opened with change
  under it. A record on its way has the attachments its client has, or the form it
  opens is `foreign` (`AsksCurrent`). `AttachInv` follows a save from request to request: the record that
  bears the client's name has the attachments the form was opened with and those
  that failed attempts made, and before the last request those of this attempt;
  or nobody bears the name, and the next request is refused.

Only model-checked: all liveness properties, since TLAPS 1.4.5 proves neither
fairness arguments nor ENABLED, and the violation `clients_group`.

## 5. Where code and documentation differ

`clients_group` shows one: the dialog's payload does not name the group, and the
server's update stores the record it is sent. The modules reproduce others,
which no run checks. In the server:

* A restart deferred while another restart runs is dropped when that one
  succeeds: `isNeedXrayRestart` is cleared at its end (`xray.go:426`) although it
  was raised after the configuration was read (368), against `xray.go:460` and
  466 (`NoDeferredRestartLost`).
* A limit of 0 does not lift every ban, against README.md:163 (`ReleasedAtZero`). It
  lifts those the logs know, and a rule can be one that no replay knows: its line
  was dropped by the second rotation, or by the first if it was written between copy
  and truncation (`clear_logs_job.go:64`-73); the panel stopped between rule and line;
  or it was inserted while the line of an earlier lifting was still to be written, which
  then speaks last (`inbound.go:3185`-3188, 3139-3152, `check_client_ip_job.go:732`-739).
  These are the `orphans`, which `RuleIsLogged` and `BansEnd` leave out. A ban
  whose line is still to come is not lifted by that change of the limit either.
* An incumbent that a takeover was to keep falls through to the ordinary choice
  and may be cut off (`check_client_ip_job.go:686`), against README.md:166
  (`WinnerIsKept`).
* `GetXrayConfig` drops the results of `AddTraffic` (`xray.go:122`), so that a mere
  look at the configuration disables a client that Xray goes on serving
  (`DisabledIsRestarted`).

* A hub that takes the cancellation before the registrations queued behind it,
  or that gives up, closes only the connections in its registry (`hub.go:359`
  says all).
* A watchdog tick that has seen a crash and waits for the lock starts Xray
  again after a StopXray that got the lock first.
* An IP can be banned while fewer live IPs than the limit exist, because the
  scan fills the places from all tracked IPs; one free place lifts two bans;
  the timer of a shorter temporary unban ends a longer one.
* A toggle or a renewal that happens while a restart has read the rows and not
  yet started Xray is in the database and not in Xray until the next
  restart. A reset of a depleted client turns its row on and leaves settings
  and record off, so that Xray does not serve it.
* With `restartXrayOnClientDisable` off, a client disabled while a restart has
  read the rows and not yet started Xray goes on being served (`CutOff` and
  `ExhaustedIsCut` presuppose the setting).
* Besides that look, four steps leave a client served that is off, and ask for no
  restart (`unasked`, which `CutOff` leaves out): a restart of the cron that another
  one has made unnecessary disables a client and then is skipped or fails
  (`xray.go:384`); `SyncInbound` switches off the record of a client whose
  settings are off and whose row is on; a reset adds a client whose record is off
  to Xray; a transaction that is rolled back has already added a client it
  renewed.
* Of two overlapping requests that switch the same client on and off, the one to
  switch it on may report success though Xray does not serve the client and
  the database says it is on (`ReportedOnIsServed` leaves such requests out).
* Switching off a client whose settings are already off writes its record only,
  outside `lockInbound`; the save of another handler that has read the inbound
  before may undo that (`SwitchRecord`; `OffLasts` leaves such a request out).
* A renewal whose new expiry is exactly now is followed by a disabling in the
  same transaction; a client switched off by hand is switched on by its
  renewal.

In the inbound dialog:

* The answer of the Reality or TLS generator that arrives after the protocol was
  changed to one without stream settings (wireguard, http, mixed, tunnel, tun) creates
  `streamSettings` without a network (`InboundFormModal.tsx:508`, 563, 586, 644), which
  `stream/index.ts:39` refuses: the form cannot be submitted. So does a certificate
  answer for a row that was removed with those before it: it leaves a hole in the
  list (`AlwaysSubmittable`; `Submittable` leaves both out, `Strayed`, and a
  certificate whose names or texts were cleared).
* What is typed into the columns of a fallback row without a child is shown and
  dropped without a word (`InboundFormModal.tsx:384`, `ColumnsAreSent`).
* The editor "All" shows stream settings of protocols that have none, which are
  not posted (`AllEditorShowsPayload`).
* A fallback row nobody typed into keeps the columns of its first child when
  another is picked (`UntypedRowFollowsChild`).
* Of a certificate with both forms the schema keeps the file pair, whatever
  the switch says. A late answer of the fallbacks of one inbound, or of
  the generator of vless, lands in the form of the next. A failed save of the
  fallbacks is ignored (`InboundFormModal.tsx:867`).

In the outbound dialog and the links:

* The security radio has no name in the form, so that OK on the form tab drops
  the security unless a field of it is registered (`OutboundFormModal.tsx:1801`,
  `SecurityIsConfirmed`).
* OK throws for freedom without a fragment and for vless with a reverse tag and
  no sniffing (`FormConvertible`).
* The reader of links takes port 443 for every shadowsocks link, and does not read
  back mtu and tti of kcp, ech, the post-quantum key, the mode of xhttp in vmess,
  or the fingerprint and obfuscation of hysteria.

On the pages:

* A push that replaces the cached inbounds does not cancel a fetch under way, whose
  older answer then replaces the push and counts as fresh (`websocketBridge.ts:63`). A
  refetch asked for while the first one runs, or while the page is not on show,
  starts none, with the same outcome (`ListIsCurrent` leaves such lists out, `late`).
* The same on the clients page: the comment at `useClients.ts:209` has every mutation
  refresh both lists, but `invalidateQueries` does not cancel the first
  fetch of the list on show or one of another query, and merging counters
  (`useClients.ts:397`) takes away the mark that a list is stale (`OwnChangesShow`).
* A record that changes between the server's reading and the opening of its dialog
  (`ClientsPage.tsx:387`-392) is edited as it was; its attachments are compared with
  those it had, so that a save may leave others than the form shows
  (`OpenedAsStored`; `SavedAttachments` leaves such a form out).
* A switch changed here and changed back elsewhere stays wrong until the next
  statistics: the refetched list equals the cached one and is not seeded again
  (`useInbounds.ts:219`, `SeededByEveryAnswer`).
* When the record of an inbound cannot be had, its edit opens on the slim row,
  without the secrets of its clients (`InboundsPage.tsx:553`, `EditsHydrated`).
* After the last row of the last page is deleted the clients page is empty
  though there are clients (`ClientsPage.tsx:201`, `NotStaring`).
* A save whose detachment fails has made its attachments. If they are then taken
  off the form, the next attempt leaves them: it compares the form with what the
  client had when the dialog opened (`ClientFormModal.tsx:367`, `SavedAttachments`).
* A save that renames a client and attaches it sends the attachment to the old
  name; one that fails after it was stored is not refetched.
* On the Xray page rows of the outbounds and rules keep the handlers of an older
  rendering while their number is the same (`OutboundsTab.tsx:229`,
  `RoutingTab.tsx:269`), rows of the DNS servers for ever (`DnsTab.tsx:145`).
  An index beyond a list shortened meanwhile leaves a hole. Deleting a balancer,
  an outbound, WARP or NordVPN leaves rules that name it, and renaming an outbound
  too. A refetch drops unsaved edits.

## 6. Not modelled

Settings, outbounds, WARP, Nord, geo files, server status, subscriptions,
controllers, scripts and the panel's update are conversions or
input and output with hardly a state of their own; so are the other pages of the
frontend (overview, nodes, settings, login, API description). The content of generated
configurations and messages is abstracted to what the properties tell apart.
`disableInvalidInbounds`, remote nodes and `DelDepletedClients` are left out of
`ClientTraffic`; two clients behind one IP are left out of `IpLimit`; two
overlapping readings of Xray's counters, which share a Go map without a lock, are
left out of `ClientTraffic`, where a reading is one step.

Of the modelled pages, the values of fields and their validation, the
counters, the online dots, sorting, page sizes, the dialogs that only show (details,
QR codes, exports) and the retry of a request after a refused CSRF token are left out.
`InboundsPage` keeps of an inbound its switch, `ClientsPage` of a client what its
requests tell apart, `XrayPage` of a rule its targets and criteria.

Hazards that no module reaches: `lockInbound` waits for one inbound while it holds
the mutex of all (`client.go:98`); port-hopping syncs replace the nft table without
a lock (`hysteria_port_hopping.go:175`); a cached remote node can come back
with its old address (`runtime/manager.go:71`); sessions of clients that hide or
change their names between two ticks (`xray_traffic_job.go:262`); temporary unbans
do not survive a restart (`tgbot.go:5557`); rules are per IP and port while bans
are per client (`iplimit_firewall.go:95`).

## 7. What comes next

In the order of what a failure would cost:

1. `ManagedFirewall`: ports opened, remembered and closed, with crashes between
   and inbounds saved concurrently. Abstract specification: a port is open
   exactly while an inbound uses it. To prove: a port in use is never closed.
2. `NodeSync`: `runtime.Manager`'s cache, heartbeat and traffic snapshots with
   late answers; a refinement of a plain counter per client.
3. `ClientSync`: several inbounds, `lockInbound`, tombstones, the records, and its
   composition with `ClientsPage`, whose server is a table of records.
   To prove: a deleted client is not brought back within the tombstone's life.
4. `OnlineNotify`: sessions over ticks; online and offline notices alternate.
5. `PortConflict` with port hopping, then `LoginLimiter` and the hash storage.
6. `IpLimit` with two clients behind one IP, and one composition:
   `TrafficWriter` below `RestartXray`, to show that the lock held over a
   traffic write cannot block both.
