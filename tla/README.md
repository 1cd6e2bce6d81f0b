# TLA+ models of llama_proxy

llama_proxy (`src/`) is an OpenAI-compatible reverse proxy in front of llama.cpp
servers.  It spreads requests over a pool of backends, can start and stop two local
model processes (one for *coding* traffic, one for everything else, which do not fit in
memory together), records every request, and streams events to a web page.  This
directory holds TLA+ models of its concurrent parts, the TLC configurations that check
them and the TLAPS proofs about them.

## 1. Inventory

| part | source | state | operations | what is hard |
|---|---|---|---|---|
| model process scheduler | `internal/scheduler/scheduler.go` | `mode`, `readyOK`, `readyCh`, `readyChClosed`, `cmd`, `logFile`, `lastCodingAt` under `mu`; `switchMu` | `Start`, `EnsureCoding`, `TouchCoding`, `ActiveBaseURL`, `ActiveAPIKey`, `BackgroundReady`, `Loop`, `ensureTarget`, `reconcileReady`, `reap`, `Shutdown` | many goroutines; every probe, wait and kill is outside `mu`; processes that crash, hang or never get ready; timeouts on each step |
| request path | `proxy.go` | `active` counter, per-request locals | `handleProxy`, `selectBackend`, failover loop, `streamCopy(SSE)`, `recordRequest` | the backend is chosen before the request is counted; retries |
| balancer | `internal/balancer/balancer.go` | `backends`, `pools` under a RWMutex; cursors of the strategy library | `Select*`, `Select*Excluding`, `Update` | a bounded number of draws must find an untried backend |
| local pool node | `pool.go` | `localNodeInPool`, event ring | `syncLocalBackendNode` (1s loop), `pushSchedEvent` | acts on readiness read earlier |
| request store | `internal/store/store.go`, `internal/model` | rows, payload files | `SaveRawPayload`, `InsertRequest`, `FinishRequest`, `RepairStuckRequests`, `DeleteRequestByID`, `Cleanup` | a row and its two files change in separate steps; crash in between; delete and cleanup against requests in flight |
| queries and statistics | `internal/store/store.go`, `router.go` | none: they read the rows | `GetRequests`, `GetStats*`, `GetDailyStats`, the API handlers, `handleRaw` | times compared as texts, days of UTC+8 over times of UTC; a path read from a row and opened later |
| routing rules, configuration | `internal/config/config.go`, `proxy.go` | read once | `Load`, `validateRouting`, `EffectiveTags`, `matchRoutingRule` | rules, overrides and the pool compete; failover must stay where the rule sent it |
| start-up and database | `main.go`, `internal/db/database.go` | databases and schema of a server | `NewDatabase`, `ensurePostgresDatabase`, `InitDB`, `RetryWrite` | several proxies on one server; a start that ends anywhere and is repeated; quoting in DSNs |
| event hub | `internal/events/events.go` | set of subscriber channels (64 deep) | `Subscribe`, `Unsubscribe`, `Broadcast` | slow subscribers, close against send |
| SSE connections | `server.go`, `router.go` | `sseCancels` | `newSSECtx`, `cancelAllSSE` | registration against shutdown |
| shutdown | `main.go` | signal context | goroutines, `server.Shutdown`, `Scheduler.Shutdown` | what is under way when the signal arrives |
| response streaming and metadata | `proxy.go`, `internal/meta/meta.go` | the capture (`LimitedBuffer`), counters | `streamCopy`, `streamCopySSE`, `LimitedBuffer.Write`, `ParseResponseMeta` | breaks at any byte, the limit inside a line |
| web interface | `frontend/src/App.vue` | filters, the list of requests, calls under way | `loadRequests`, `loadMore`, `setFilters`, the timer | calls overtake each other while rows come in another order than their times, change and go |
| HTTP helpers, static files | `internal/httpx`, `ui.go`, `web_*.go` | none | JSON answers, ids, limits | - |

How they interact: a request with the coding header goes through the scheduler
(`TouchCoding`, `EnsureCoding`, a wait on the ready channel, `ActiveBaseURL`, `TouchCoding`,
`ActiveAPIKey`), every other one through the balancer, whose pool the 1s loop of `pool.go`
rebuilds when `BackgroundReady` changes.  The scheduler reads the request path's `active`
counter in `drain`.  The request path writes the store and the hub.  The panel calls the API
on a timer and when the hub sends it an event, and the API reads the store.  `main.go` opens
the database, spawns the scheduler's goroutines and takes everything down.

What makes each part correct: no model process is leaked and the two are never loaded
together; nobody waits forever for a ready channel (which the code does not reach, see
`bad_orphaned_waiter`); the process that runs is of the mode that is active; the lease gives
the memory back; the proxy leaves no child behind but in the windows `CleanExit` names
(scheduler).  No backend is tried twice, none is left untried, and none outside the pool a
rule has chosen is tried at all (failover).  A path in a row leads to the whole payload until
deletion or expiry, what has expired goes and comes back only through a handler that named its day in time, and a written status is final
(store).  The list of the panel is right once things rest, and its figures agree
(queries, web interface).  Who serves has the whole schema (start-up).  A closed channel is
never sent to (hub).

## 2. Modules

| module | contents |
|---|---|
| `Scheduler` | the scheduler and the goroutines that call it: state, one action per critical section or step outside it, fairness, properties |
| `SchedulerHistory` | `Scheduler` with a history variable: the channels whose switch has given up; what holds of those who wait |
| `SchedulerClaims` | what comments and the project README say and the code does not keep |
| `MCScheduler` | the instances TLC checks |
| `SchedulerProofs` | TLAPS proofs about `Scheduler` and `SchedulerHistory`, that it implements `ModelHost` among them, for all values of the constants |
| `ModelHost` | what the scheduler promises: a host for one model at a time; `Scheduler` implements it |
| `RequestStore` | row and payload files of a request: handler, deletion, cleanup, repair, crash |
| `RawReader` | `RequestStore` and somebody who opens payloads meanwhile |
| `RequestStoreProofs` | TLAPS proofs about `RequestStore` and `RawReader`, for all values of the constants |
| `Routing` | the configuration of backends and rules, and where a request may go |
| `Failover` | extends `Routing`: the choice of a backend, the failover loop, and the local node that joins and leaves the pool |
| `MCFailover` | the instances TLC checks |
| `FailoverProofs` | TLAPS proofs about `Failover`, for all values of the constants |
| `Queries` | the queries behind the API, as operators on a table of requests |
| `Panel` | extends `Queries`: the list of requests of the web panel over a table that changes |
| `MCPanel` | the instance TLC checks |
| `PanelProofs` | TLAPS proofs about `Queries` and `Panel`, for all values of the constants |
| `Startup` | from the configuration to the listening, for several proxies on one database server |
| `MCStartup` | the configurations TLC tries |
| `StartupProofs` | TLAPS proofs about `Startup`: the conversions of DSNs and the start, for all values of the constants |
| `EventHub` | the hub, the connections of the pages, the scheduler's event list, and the server's shutdown |
| `EventHubProofs` | TLAPS proofs about `EventHub`, for all values of the constants |
| `ResponseCopy` | the copying of an answer to the client, the capture of its beginning, and the usage found in it |
| `MCResponseCopy` | the answers TLC tries |
| `ResponseCopyProofs` | TLAPS proofs about `ResponseCopy`, for all values of the constants |
| `DataFacts` | lemmas the proofs share: induction over numbers, finite sets and sequences, sums, `FlattenSeq` |

### Scheduler: how it corresponds to the code

*Atomicity.*  An action is one critical section of `s.mu`, or one step the code takes
without it (a probe, a kill, `cmd.Start`, closing a channel under a second lock).
`s.mu` is therefore not a variable.  `switchMu` is: `ensureTarget` holds it across a
dozen steps, and its deferred unlock is part of the last one (`Return`).

*Goroutines.*  `pc[r]` for a request `r`, `pc["start"]` for the goroutine that runs
`Start`, `pc["loop"]` for `Loop`, `pc["main"]` for `main`.  The reap goroutine of a process
is the action `Reap(g)`.  `ensureTarget` is written once, for whichever goroutine runs it.

*Channels and processes.*  The n-th switch makes channel n and process n, so `readyCh`,
`cmd` and the locals `chan` (the local `newReady`, or the `ch` of `reconcileReady`) and
`victim` (the local `cmd` of `stopProcess` and `Shutdown`) are numbers, 0 is nil.  A process is loading, up, hung, killed (SIGKILL sent, still
there), dead, or reaped.

*Time.*  `lastCodingAt` is kept as its relation to the lease: zero, fresh, expired.  Every
timeout is an event that may happen at any moment; which events happen is the constant
`Events`, so that a run names the faults its claim survives.

*Environment.*  A probe of a mode with a command succeeds when a process that is up serves
its address; with `SharedPort` (as in `config.example.yaml`, where both modes use port
8080) any process does.  A mode without a command is a server outside the proxy.

*What it amounts to.*  `ModelHost` has no goroutine, lock, channel or timer: a mode is active
and announced or not, at most one model is loaded, a client is given an address.  The mapping
is the definition `Host` of `Scheduler`: `active` is `mode`, `ready` is `readyOK`, `given` is
the address a request has read, `loaded` are the modes of the running processes, and `started`
says that the process of the current channel has been started.  `Activate` is the assignment
of `s.mode` in `ensureTarget`, `Load` is `cmd.Start`, `Unload` a kill or a crash, `Announce`
every write of `readyOK`, `Give` is `ActiveBaseURL`; everything else stutters.

*Left out.*  The log file of a process (`logFile`), `Snapshot`, `IsCodingActive`, a configuration with an empty
`readiness_url` or no lease (`Loop` returns at once), and what `sh -c` does with the signal.

### RequestStore: how it corresponds to the code

*Atomicity.*  An action is one SQL statement or one operation on files.  Nothing ties
them together in the code, and a crash may come between any two.  A reading of the clock is
a step of its own where something depends on it later: `SaveName` names the directory of the day,
`SaveDir` makes it at a later time, and `Cleanup` takes the cutoff of the rows (`CleanStart`), lists the
directories (`CleanReadDir`) and takes the cutoff of the directories (`CleanDate`) at three times.

*Locals.*  `pc`, `kind`, `path`, `started` and `ok` are the handler's (`relPath`,
`reqRawPath`, `respRawPath`, `started`, the outcome of the failover loop); `del` and `found`
those of `DeleteRequestByID`; `clean`, `entries` and `cutoffDate` those of `Cleanup`; `stuck`
is what `RepairStuckRequests` has read and not yet looked at.  `listed`, `swept`, `missed`, `revived` and `late` are
observations: what had expired when the pass listed the directories, how far the last pass without errors
got, where there was an error, and which directories were made when their day had expired, since the listing of
the pass that is under way or of the last one.

*Data.*  Time is counted in ticks; a day directory is named by the tick of its midnight,
and since id and kind give the rest of the name, a payload path is that number.  A
payload is whole or a part.  A row keeps who wrote its status, its time and its paths.

*Order.*  The repair is over before the server listens and before `CleanupLoop` starts
(`main.go`), so `phase` goes from booting over repairing to serving.  A request is deleted by
one call at a time: a second one reads the same paths or no row.  An id is used once.

*Left out.*  The metrics table, and the moment in which `Cleanup` has removed part of a
directory.  The queries are in `Queries`, `Normalize` in `Startup`.

### RawReader: how it corresponds to the code

`handleRaw` reads the row and opens the file it names, with everything of `RequestStore`
possible in between.  `ReadRow` is the first, `ReadFile` the second; an open file is read to
its end whatever becomes of its name, and a part breaks off, which is an answer too.
`Answer500` ends a call that failed.  One call is under way at a time: calls change nothing
that another one reads.

### Routing and Failover: how they correspond to the code

*Routing.*  `Load` has set the defaults (`Weight`, `EffectiveTags`) and refused rules without a
pool or a condition (`RulesAssumption`).  A request asks with its User-Agent (the words in it),
its headers, `X-Backend-URL` and `?backend=`.  `RouteOf` is the order of `selectBackend`: the first
rule that matches, then the request's own URL if `allow_dynamic` is on, then the whole pool;
without rules in the file the built-in one for "goclaw" counts.  Coding requests are decided
before and are in `Scheduler`.

*Atomicity.*  A draw from the balancer library is one action, as the library locks; between the draws
of one `selectExcluding` other requests may draw, since all hold the read lock only.
`SyncUpdate` has to wait for them: its guard is the write lock.  The first selection is one
draw; its result is checked for being a URL, and a request whose draw fails the check is
rejected although others might do, as in the code.  The library's strategies
are `external`: a cycle that holds every backend of the pool (wrr, swrr, rr), or any
backend (wr, random).  `MaxTries` adds up the weights of the whole pool, as the
code does for sub-pools too.

*Data.*  The body is its model: `ModelFor` is `RewriteModel` of what the client sent, for each try
anew.  `attempts` is the report that is written when all have failed.

*Environment.*  `SyncRead` and `SyncUpdate` are the two halves of
`syncLocalBackendNode`, `ReadyChanges` stands for the scheduler.  A backend answers, or not, at
will.

### Queries and Panel: how they correspond to the code

*Queries.*  Each API answer is an operator on the table: the window (`EffectiveWindow`, with
the defaults of the handlers), the conditions (`Matching`), the page, the sums.  Of the
conditions that are not about time only `errors_only` is kept; the others have the same form.
`GetStatsByBackend` has none of them, as in the code, which uses the times only.
`Newest` gives each row the place that as many rows are before it (`Newer`, the ORDER BY of
`GetRequests`), which is what sorting does when the order is a total one, as is proved.
An instant is a whole second and the digits of its fraction: that is what tells SQLite's
comparison of texts from Postgres' comparison of times (`TimeValue`).

*Panel.*  A call of `fetchRequests` is sent, answered by a query at a later time, and put to
use later again or failed; the requests of a table come in (`created_at` is that time), get
their row when the backend has answered, end, and go.  `Refresh` is `loadRequests`, which the
timer, an event or the user calls; `Apply` is every function that sets filters; `LoadMore` asks from
the offset of the list it has, `Use` replaces or extends that list whatever has been sent or answered since.

*Overview.*  `Cards`, `Chart` and `ByBackend` are what the panel asks for beside the list: `overviewFilters`
drops the times, the API then takes the last 24 hours for cards and backends, and the chart is of 30 days.

*Left out.*  `autoRefresh` is on; what the page shows of the figures is what one call answers.
The page's own start is the state with no call under way.

### Startup: how it corresponds to the code

*Steps.*  `Load`, `NewDatabase` (with the probe of the database), `CREATE DATABASE`, the
connection, each statement of the schema, `Normalize`, the repair and the listening are steps of their own,
between which other proxies may take theirs.  `log.Fatalf`, and the death of a proxy, lead to `fatal`; `Restart`
is what `docker-compose.yml:16` asks for (`restart: unless-stopped`).

*Data.*  A DSN is a sequence of symbols in which only those characters are told apart that
quoting is about.  `FormatKV`, `ParseKV` and `PgAdminPassword` translate the code's own conversions.  The admin DSN is
read by the driver, pgx, in a way of its own: `PgxReads` (external) takes `\\` for a backslash and `\'` for a quote, and
ends a quoted value at the first quote without such a backslash, so that doubled quotes are the end of a value and
something behind it.  A password that it does not read as it was fails at the server.  An empty one makes the driver
read the next field of the DSN as the password, unless the order of the map puts it last.  A statement of the schema is its
name and the dialect in which it was executed.

*Left out.*  The options of the drivers (journal mode, pool sizes).

### EventHub: how it corresponds to the code

*Atomicity.*  An action is one critical section of the hub's mutex, of `sseMu` or of
`schedMu`, or one step between two.  `Broadcast` puts the event into every channel that has
room, under one lock; `PushSchedEvent` ends where `schedMu` is unlocked, so that between the
list and the broadcast after it others may run.

*State.*  An event is its number, and a channel has the name of its connection, as `handleEvents`
makes one for itself.  `pc[c]` is where that handler is: its deferred calls are the steps `CancelSSE`
and `Unsubscribe`, in their order.  `todo` is the argument of a sender's `Broadcast`, `cancels` the local
of `cancelAllSSE`.  `log`, `listed`, `taken` and `full` are observations.  `phase` is that of `main`: once `server.Shutdown`
has returned the process ends and everything stops.

*Environment.*  A client may leave, which ends the context of its request, or stop reading,
which blocks `Write`.  Shutdown returns when no connection is open, or (event
`closeTimeout`) after its 60s.

*Left out.*  An event that JSON cannot encode, for which `Broadcast` does nothing; `serverErr`.

### ResponseCopy: how it corresponds to the code

*Steps.*  One handler copies one answer and nobody else takes part, so an action is one
turn of the loop: a read that brings n bytes and perhaps an error, and a write that takes wn of them.
`streaming` chooses the loop (`Read`).  `ReadLine` is `bufio.Reader.ReadBytes`, `ReadChunk` a read into the
buffer of 32 KiB.  `Record` is what `handleProxy` does after either loop.

*Data.*  A byte is its place in the answer, so that order and loss can be seen.  A line has a kind,
a size and what its payload says of each count, first choice first (`usage`, `timings`, the
top level); a payload says it when all of it was kept, as a part of a JSON object does not
parse.  A JSON answer is one line.  The name of the model and the times are merged in the same way as the counts.

*Left out.*  Other content types, of which nothing is parsed; carriage returns; the time of the first
byte and the rates.

Definitions called `...Bug` are faulty variants of the definition that follows them; the
properties are tried against them, nothing else uses them.

## 3. Runs

| run | instance | shows |
|---|---|---|
| `sched_faults` | 1 request, 3 switches, every fault: crashes, hangs, failing, slow and late starts, the three timeouts, clients that leave, the lease, the signal | `ProcessOwned` (no leak), `OneModel`, `RunningIsActive`, `ChannelFlag`, `CleanExit`, `TypeOK`; `ImplementsHost`: all of it refines `ModelHost` |
| `sched_lease` | 2 requests, 5 switches, an external background on the same port; the lease expires, clients leave, starts fail or time out | `OrphanedOnlyByGivingUp`, `WaitersReleased`: who waits is let go, unless the switch that made the channel gave up and another one replaced it; `BackgroundReturns` |
| `store_life` | 1 request and a reader of its payloads, day of 2 ticks, retention of 1 day, clock up to 3, all faults | `PayloadKept`, `SweptStaysSwept`, `RepairedAtStart`, `ErrorsExplained`, `StatusSettles`, `TypeOK` |
| `failover_pool` | 2 requests that ask in six ways; 2 static backends, one of weight 2, and the local node; 3 rules | `StaysWhereRouted`, `ReportIsComplete`, `ModelIsBackends`, `MissMeansTried`, `RequestsEnd`, `PoolFollows`, `TypeOK` |
| `event_hub` | 2 pages, 1 sender, channels of 1, a list of 1, 2 events; clients leave and stall, the shutdown may time out | `NoDeadChannel`, `KeepsUp`, `BroadcastsEnd`, `CancelledReturn`, `TypeOK` |
| `response_copy` | streams of up to 2 lines of 4 kinds, ended by [DONE] or not, with or without the last newline, and JSON answers; no limit, 4 and 7 bytes; reads of 3 | `Relayed`, `Captured`, `RecordFits`, `TypeOK` |
| `panel_list` | 3 requests on 2 days of UTC+8, one of them in the first second of a day, the last less than a day after the second; pages of 1, 2 calls under way, 2 filters, SQLite | `WindowWithinSecond`, `DaysAreWhole`, `FiguresAgree`, `CatchesUp`, `TypeOK` |
| `startup_race` | 2 proxies, 1 fault, every database name and every password of up to 3 characters out of 4, each other kind of configuration | `ServesOnSchema`, `StartsInTheEnd` |
| `bad_deaf_ready` | 2 requests, a client leaves | `ReadyIsSignalled` fails: stale `reconcileReady` |
| `bad_orphaned_waiter` | 3 requests, 4 switches, starts may time out | `NoOrphanedWaiter` fails: a switch gives up, the next one replaces its channel, and the request that had joined it waits forever |
| `bad_missed_backend` | 2 requests in the same pool | `MissMeansTried` fails: they share the cursor |
| `bad_sse_wait` | 1 page, 1 event, nothing fails, no timeout | `PagesDoNotDelay` fails: a handler registers after `cancelAllSSE` has looked, and only the timeout ends the wait |

The parts of the inductive invariants of section 4 that no run lists (`ListIsRecent`,
`ModeChangesUnloaded`, the `IInv`s) were tried by TLC on the same instances before they were proved.

*Bounds of the scheduler's runs.*  One request where the faults are in question: `ensureTarget` is run by it, by the start
and by the loop, so that three contend for `switchMu`; 3 switches let a run go background, coding, background.  Two in `sched_lease`, so that one
joins the channel of the other's switch while the loop wants to switch back: each request switches twice at most
(its own, and one after the loop's), the start once, which are the 5 switches; the bound is never what stops one.  For a
waiter to be orphaned three requests are needed, or the lease loop in the place of the third: one whose switch gives up, one that has
joined it, one that has seen the old mode and waits for `switchMu`.  `bad_orphaned_waiter` has the three and nothing but
`startupTimeout`; in `sched_lease` the loop is that third, so that the excuse in `WaitersReleased` is one the run does take.
Deadlock is off where every request may end, the proxy may exit, or a bound is reached.

The other definitions of `SchedulerClaims` are refuted by TLC on the same instances and
kept to be read beside the code, without a run of their own: `ExitClearsReady` (ready is
written after the exit was seen), `CodingToCoding` (the address is read after a switch back), `ClosedMeansAvailable` (after a
crash the dead coding process is never restarted), `NothingLeftRunning` (Fatalf during the
first start), `DrainedBeforeKill` (a request is chosen before it is counted), `HungIsEvicted`,
`KeyMatchesBase`, `StoppedOnlyWhenIdle`, `ReadyHasProcess`, `ForcedOnlyAfterTimeout`.  The same holds of
`RetainedHasPayload` of `RequestStore` (rows expire by the instant, files by the day), of `BackendsAreFiltered` of `Panel` (the backends with only errors asked for) and of `EveryDSNStarts`
of `Startup` (a password with a quote).

One request is enough in `store_life`: requests use rows and files of their own, and share
day directories only, which the proofs cover for any number of them.  Three ticks let a
request begin on one day, save on the next, and expire, and let a handler that has named its directory on the first day make it after
the sweep of that day; without `late`, `SweptStaysSwept` is refuted there.  A clock that stops cannot hide a
violation of the safety properties of shorter runs; the proofs have no such bound.

In `failover_pool` each request has its cursor to itself, which is when a cycle of draws
covers the pool.  The first one asks for the whole pool, for a URL of its own, and with two URLs of
which the winning one is invalid; the second hits two rules at once (the first must win, over its
own URL), or one of them: a pool that loses a member while it fails over, one that is empty
while the local node is away, one that no backend carries.

In `event_hub` a broadcast is atomic, so a second sender would only change whose events
are interleaved; two events fill a channel of one and overflow a list of one; two pages
let one be slow and the other not, and let `cancelAllSSE` find some of them.  The sizes, 64 and 200
in the code, and the numbers of pages and events are free in the proofs.

In `response_copy` the limits fall inside the first line, on a boundary and inside the second;
a line of four bytes is too long for the scanner (64 KiB in the code), the others are not, and each
byte may be the last one read or written.  `UsageRecorded` compares the parser's fold over the lines
with a definition without one; it excuses lines that are too long, after which `bufio.Scanner` gives up and the
usage is lost, of which the code says nothing.  `RecordFits` joins the number of chunks, which counts
what was written, with the usage, which comes from what was kept.

In `panel_list` the times are chosen where the comparisons could go wrong: a fraction in the
first second of a local day, a whole second a few hours later, which in UTC both still belong to the
day before, and the last hour of a local day; the third request comes 23 hours after the second, so that
the cards of the last 24 hours have a part of the chart's yesterday and not all.  The two filters, today and errors only, are a range of times, which the
overview drops, and a condition, which the backends ignore.  A page of one row makes every further row a second page; of two calls
one can overtake the other, and a third would only overtake again.

In `startup_race` two proxies meet at the `CREATE DATABASE` and at each statement, a third
would meet one of them in the same places.  Names of up to three characters hold a quote, a space or a
backslash at either end and in the middle, and so do passwords, the empty one among them.  The passwords the driver reads otherwise
(not `Readable`) are in the run too: such a proxy ends and is restarted for ever, and `ServesOnSchema` holds of it.

### Fairness

`Fairness` of `Scheduler` has one WF for each goroutine (a request, the start, the loop, `main`, the process and its reap): it goes on
when it can, and takes a mutex that stays free.  Nothing is assumed of the order in which those who want `switchMu`
get it.  The lease ticker is not passed over for the other one for ever (WF on `LeaseTick`, which stays enabled as long as the loop is
idle); a server that is up is not found down by every probe of `reconcileReady` (SF on `ReconcileProbeOK`, the only strong
fairness).  A model that loads gets up, a killed process exits, and the lease elapses (WF).  Nothing is assumed of the events: no
timeout, disconnect, failing start, crash or signal ever has to happen.  Every fairness condition stops at the exit of the proxy.

`Failover`'s `FairSpec` assumes that each request goes on (WF; its backend answers or fails in
the end, as the HTTP client has a timeout) and that `syncLocalBackendNode` does (WF: a ticker,
and a RWMutex that lets no new reader pass a waiting writer).  `Panel`'s assumes that the
timer goes off again and again (WF on `Refresh`) and that a call is answered and its answer used in the end
(WF for each place in the list of calls: HTTP calls end, and the page's promises run); that a call succeeds is a premise of
`CatchesUp`.  `Startup`'s assumes that each proxy goes on and is restarted when it has ended (WF), which
is the restart policy of the compose file; the faults are bounded.  `RequestStore`, `RawReader` and
`ResponseCopy` need none.

`EventHub`'s assumes that a goroutine that can run does (WF on `Broadcast`, on the steps of each
handler, on `cancelAllSSE` and on the return of a `Shutdown` that has nothing to wait for), and that
the `select` of a handler, which picks at random, does not pass over a context that is done
forever (SF on `Done`).  No client has to read, stay or leave.

## 4. Proofs

Every safety property that a passing run checks is proved, for all values of the constants that the
assumptions admit; `MissMeansTried`, which is not true of every instance, is proved under the condition that makes it
true.  TLC evaluates the assumptions in every run.

Some of the models compute: sums, sorted lists, parsed texts.  What they compute is defined without
`RECURSIVE` operators, and induction over it is done on a set that is closed: the numbers, the subsets or
the sequences of which a formula holds are all of them (`NatClosure`, `SubsetClosure`, `SeqClosure` in
`DataFacts`, which rest on `<` being well-founded on the naturals).

### Scheduler

`SchedulerProofs` proves, for every set of requests, every configuration, every set of
events and every bound:

| theorem | statement |
|---|---|
| `TypeCorrect` | `Spec => []TypeOK` |
| `Invariance` | `Spec => []IInv` |
| `ProcessesAreOwned` | `Spec => []ProcessOwned` |
| `FlagIsTrue` | `Spec => []ChannelFlag` |
| `OneModelAtATime` | `Spec => []OneModel` |
| `ModeChangesSafely` | `Spec => ModeChangesUnloaded` |
| `ExitsAreClean` | `Spec => CleanExit` |
| `OrphansAreGivenUp` | `HistorySpec => []OrphanedOnlyByGivingUp` |
| `Refinement` | `Spec => ImplementsHost` |
| `ModelFollowsMode` | `Spec => []RunningIsActive` |

Assumptions: the names of the requests differ from those of the other goroutines, the bound
is positive, the configuration is one (`NamesAssumption`, `BoundAssumption`,
`ConfigAssumption`).

Argument.  That no process is leaked is not inductive: a switch holds the only reference to
the old process between `s.cmd = nil` and its exit, and to the new one between `cmd.Start`
and `s.cmd = cmd`.  `IInv` therefore says who may hold one: exactly the holder of
`switchMu` is inside `ensureTarget` (`SwitchMutex`), while it is between those steps `s.cmd` is nil
and its local channel is `s.readyCh` (`SwitchLocals`), and no channel or process with a
number above `s.readyCh` exists (`NothingAhead`), so that a new one is fresh.  The proof has
a lemma per step of `ensureTarget` that changes shared state, one for the steps that only
move on (`QuietStep`), one for those that return (`ReturnStep`), and one for everything
outside `ensureTarget` (`OutsideStep`), which can neither start a process nor touch what
the holder works on.  Two models at once would both be owned, and owners are unique
(`OneOwned`).

The proxy ends in four places (`ExitSteps`): a start that fails, in either of its two branches, a `Shutdown` that has
found no process, and one that kills the one it has found.  `CleanExit` says which running processes each of them may leave: the
one in `s.cmd` when a failing start ends the proxy, for nobody calls `Shutdown` then; one that a switch has taken out of `s.cmd`, or
started and not stored yet; one that a switch has stored between the two steps of `Shutdown`.  These are all
there are, since every running process is owned.

`OrphanedOnlyByGivingUp` is inductive with one more fact (`WaitersServed`): the current channel is closed or given up, or the
switch that made it is still under way.  A switch that ends closes its channel or gives up, and only the
holder of `switchMu` installs another one, so that no open channel is replaced but one that was given up.  That
this excuse is needed is what `bad_orphaned_waiter` shows.

For the refinement, beyond `IInv` the simulation needs that a process is started for the mode that is
active (`StartsActive`), that nothing is announced before the first switch (`HasMode`), and
that a request holds an address only on its way through (`HoldsOnWay`).  With these each
action is a step of the host or leaves its variables alone: one lemma for `ensureTarget`, one
for the requests, one for all others.  In the host, what is loaded is of the active mode by
induction over its six actions, and `RunningIsActive` is that fact seen through the mapping.

### RequestStore and RawReader

`RequestStoreProofs` proves, for every set of requests, every length of a day, every
retention (also none), every set of faults and however long the clock runs:

| theorem | statement |
|---|---|
| `TypeCorrect` | `Spec => []TypeOK` |
| `Invariance` | `Spec => []IInv` |
| `PayloadsStay` | `Spec => []PayloadKept` |
| `ExpiredStaysGone` | `Spec => []SweptStaysSwept` |
| `RepairBeforeServing` | `Spec => []RepairedAtStart` |
| `StatusesSettle` | `Spec => StatusSettles` |
| `ErrorsAreExplained` | `RawSpec => []ErrorsExplained` |

Assumption: a day has at least one tick, the retention is a number of days
(`TimeAssumption`).

Argument.  A path gets into a row from a handler's locals or from the repair, so that
`PayloadKept` needs the same of the path a handler holds, and of the file it is writing
(`InHand`); a file leaves only by deletion, by a sweep whose cutoff then lies behind it, or
when its handler replaces the part by the whole (`FileGoes`), and no such excuse is ever taken back
(`ExcuseStays`).  An expired day stays away, but for the days in `late`: while a pass is under way, each
directory of a day that had expired when it listed them is on its list or was made since (`DirsKept`, with `revived`), the cutoff it takes then is no
earlier than that (`listed <= cutoffDate`), and no cutoff lies ahead of the clock (`Past`), so that a directory made later is of a
day that has not expired, or is one of the late (`SaveDirStep`).  A status
settles because a handler's row is open or gone as long as it is at work (`RowAwaits`), and
the repair works when no handler does (`Alone`).  Each part of `IInv` has a lemma that a step
keeps it; `HandlerLocal` says that a handler touches its own request only, and `OthersTake` that
all others only take away, which leaves the interesting actions.

For the reader, a path that was good when it was read from the row (`Good`: the whole payload is
there, or deletion or expiry excuses its absence) stays good, since files go only with an excuse and no excuse
is taken back.

### Failover

`FailoverProofs` proves, for every pool, set of rules, strategy, weights and requests:

| theorem | statement |
|---|---|
| `TypeCorrect` | `Spec => []TypeOK` |
| `Invariance` | `Spec => []RequestInv` |
| `RequestsStayWhereRouted` | `Spec => []StaysWhereRouted` |
| `ReportsAreComplete` | `Spec => []ReportIsComplete` |
| `ModelsAreTheBackends` | `Spec => []ModelIsBackends` |
| `NobodyIsMissed` | `Spec /\ Undisturbed => MissMeansTried`, for a cyclic strategy whose cycle has no backend more often than its weight |

Assumptions: those of `Routing` on nodes and rules, and that the cycle of the strategy holds
all backends (`NodeAssumption`, `RulesAssumption`, `OrderAssumption`, `NobodyAssumption`).

Argument.  Between two tries the report names exactly the exclusion set, each member once; during a try it
names all of it but the backend that is being asked.  So a backend that has been reported is
never drawn again, and nothing is left out.  Every candidate is a carrier of the route, whatever the
pool was at the time, and a route of its own URL has no carriers, so that nobody else is asked.
That the route is the pool of the first rule that matches needs a least element, which there is because
`<` on the naturals is well-founded.

That the bounded draws find every backend (`maxTries` of `selectExcluding`) is a matter of counting.  `EnoughLeft` says that
a request in the middle of its draws has as many left as there are places of its pool between the cursor and
any backend it has not tried.  At the first draw there are no more such places than the cycle has in all,
and that is at most the sum of the weights (`PlacesFit`, by `SumOfKinds`); each draw takes one place away.  `Undisturbed`,
that nobody else draws from the same cursor meanwhile, is the condition that `bad_missed_backend` shows to be needed;
requests with routes of their own fulfil it, which is the instance of `failover_pool`.  `OrderFitsWeights`
is true of wrr, swrr and rr.

### Panel and Queries

`PanelProofs` proves, for any number of requests that come in and get their rows at any time, any filters, any size of
the page and number of calls, and either database:

| theorem | statement |
|---|---|
| `TypeCorrect` | `Spec => []TypeOK` |
| `WindowsAreRight` | `Spec => []WindowWithinSecond` |
| `ChartIsWhole` | `Spec => []DaysAreWhole` |
| `FiguresDoAgree` | `Spec => []FiguresAgree` |

Assumptions: a page has at least one row, filters are made of times (`PanelAssumption`, `FiltersAssumption`), requests are numbered as
their times go, and a row with an error text has the status of an error (`RequestsAssumption`, as `recordRequest` and
`RepairStuckRequests` write it).

Argument.  The comparison of times, as texts or as times, is irreflexive, transitive and total on different
rows (`LessTransitive`, `LessTotal`, `NewerIsOrder`), so that each place of the list is taken by exactly one row
(`PlacesAreTaken`, by counting the rows before each) and a page holds rows of the window.  Texts of different seconds compare as the times do
(`SecondsDecide`), hence the tolerance of one second and no more.  The bars of the chart count the rows of
the window day by day, with the window opened at the local midnight of the first day (`ChartIs`), so that only the
second at either end of the window can be blurred.  For the figures, the last 24 hours hold what the table has of today in UTC+8 and nothing before yesterday, since no row
is later than the present request (`WindowsNest`), whatever `Less` makes of texts in the second where a window begins; a set between two such days has a number between theirs
(`SpanCount`).  Errors split into 4xx and 5xx (`ErrorsAre`, `ErrorsSpan`), and sums over backends are the sum over all (`SumOfAllKinds`).

### Startup

`StartupProofs` proves, for any number of proxies, faults and restarts:

| theorem | statement |
|---|---|
| `NamesSurvive` | `NamesAreKept`: the name in the user's URL is what `pgDatabaseName` gets, and a `Readable` password is what the driver reads in the admin DSN |
| `ServingHasSchema` | `Spec => []ServesOnSchema` |

Assumption: names and passwords are texts, of any length, and a name is not empty (`ConfigsAssumption`; `ensurePostgresDatabase`
refuses an empty one).

Argument for `NamesSurvive`.  By induction over the value (`DoubledRecovers`): in a value with doubled quotes an even number of quotes stands
before each space and in all, and a run of quotes at its end has even length; so the next doubled quote starts
a run at an odd place, of which `Halved` keeps the first and drops the second.  The outer quotes make the
number before each space odd (`QuotedValue`), hence no field is cut inside (`Balanced`), and the text of two fields is cut
behind each of them and nowhere else (`TwoPieces`), in whichever order the map gave them (`FormatIs`).
For the driver the only quote without a backslash before it is the closing one when the value has no quotes and does not end in a
backslash (`PgxReadsQuoted`), and the escapes change nothing in which every backslash stands alone (`UnescapedIs`).  That no other password
gets through is not proved; TLC has tried it for all passwords of up to 3 characters.

Argument for `ServingHasSchema` (`SchemaInv`).  Where a proxy is tells what it has made sure of: from the first statement on
the database is there, the statements before the next one have taken effect, and a proxy that has not
come to them, or has been restarted, is at the first.  Databases and statements are only ever added, so that
what one proxy has made sure of no other one undoes.

### EventHub

`EventHubProofs` proves, for any number of pages, senders and events, any capacity of the
channels and any length of the list:

| theorem | statement |
|---|---|
| `TypeCorrect` | `Spec => []TypeOK` |
| `Invariance` | `Spec => []IInv` |
| `HubIsClean` | `Spec => []NoDeadChannel` |
| `PagesKeepUp` | `Spec => []KeepsUp` |
| `ListStaysRecent` | `Spec => []ListIsRecent` |

Assumption: the sizes are positive (`SizesAssumption`).

Argument.  `StepTells` says that the step a handler is at decides whether it is subscribed,
registered and closed, and that its channel is empty before it subscribes; no closed
channel is then in the hub.  `KeepsUp` is inductive with it: the channel of a page that was
never full is the end of the log, a broadcast makes both longer by the same event
(`LastAppend`), a receipt takes the first off the end (`LastTail`).  For the list, the
end of an end is an end (`LastLast`).

### ResponseCopy

`ResponseCopyProofs` proves, for any set of answers, any limit and any size of the reads:

| theorem | statement |
|---|---|
| `TypeCorrect` | `Spec => []TypeOK` |
| `Invariance` | `Spec => []IInv` |
| `AnswerIsRelayed` | `Spec => []Relayed` |
| `RecordIsBeginning` | `Spec => []Captured` |
| `ChunksAreCounted` | `Spec => []ChunksCounted` |
| `RecordedAtEnd` | `Spec => []RecordedLate` |
| `RowFitsAnswer` | `Spec => []RecordFits` |

Assumptions: an answer is a sequence of bytes that belong to lines, in order, of their sizes, limits are integers, sizes are numbers
(`ResponsesAssumption`, `LimitsAssumption`).

Argument.  What has been sent, followed by the next piece of the answer, is a longer beginning of it
(`BeginPiece`); `LimitedBuffer.Write` applied to the limited beginning of a sequence gives that of
the longer sequence (`LimitedWriteLimits`: below, across and past the limit).  `IInv` takes from `TypeOK` only
what the copying changes (`CopyType`).  While it goes on, the loop over a stream is at the start of a line, so that it has counted the
data lines it has written, and at most one more when a write breaks off (`CountAgrees`).  What `Record` writes is compared with the
answer itself: the captured text is a beginning of it, so its whole lines are the first lines of the answer (`WholeBefore`),
and the parser's fold over them takes the last value that each count was given (`MergedIs`, by induction over the lines).

### What is only model-checked

Everything under fairness: `WaitersReleased`, `BackgroundReturns`, `RequestsEnd` (of `Failover`), `PoolFollows`,
`BroadcastsEnd`, `CancelledReturn`, `CatchesUp` and `StartsInTheEnd` are
beyond the provers.  `MissMeansTried` is proved under its hypothesis only; outside it, it is
false, as `bad_missed_backend` shows.

## 5. Observations

What the models made visible, beyond the four violated runs, without a run of its own:

- `README.md:248` and `:385` say that `retention_days: 0` keeps records forever;
  `setConfigDefaults` turns 0 into 14, so that only a negative number does.
- `TimeFrom` and `TimeTo` are inclusive (`model.go:45`), but SQLite compares texts and puts "Z" after the
  "." of a fraction: within the second of a boundary rows can be lost or let in. `WindowWithinSecond` and
  `DaysAreWhole` say what remains true.
- The filter "today" of the page is computed once and is that of yesterday after midnight.
- When all backends fail no `request` event is sent, and the page does not listen to `request_deleted`: the
  list is then as old as the timer. `loadMore` over a list that has moved leaves gaps or
  repeats rows until the next refresh. `CatchesUp` says that it is put right.
- `README.md:349` gives one list of filters for `stats`, `stats-by-backend` and `daily-stats`, and the panel sends its filters to
  all three (`App.vue:212-227`), but `GetStatsByBackend` uses the times only (`store.go:494`): with a filter set the
  backends do not add up to the cards. `BackendsAreFiltered` says they do, and TLC refutes it; `FiguresAgree` says what is left.
- The panel drops the range of times for its overview (`App.vue:160-163`): cards and backends are of the last 24 hours and the
  chart of 30 days, whatever range the list below them has.
- A password with a quote, with two backslashes together, with one at its end, or an empty one does not get through `pgAdminDSN` (`database.go:184-193`),
  which doubles quotes where pgx wants backslashes: such a proxy connects to a database that is there, and never creates one (`EveryDSNStarts`).
- A handler that reads the clock at `store.go:58` and makes the directory at `:61` can bring back the directory of a day that was
  swept in between; it stays until the next pass.
- A switch whose start fails or times out leaves `readyOK` false; when it has no process (`cmd` is nil) `reconcileReady` returns at once
  (`scheduler.go:355`), so that an external background that gets ready later is not announced until the next switch.
- A proxy that loses the race for `CREATE DATABASE` ends by `Fatalf`; its restart finds the database.

## 6. Plan

Done: `Scheduler` with its abstract specification and both proofs, `RequestStore` with the reader of payloads,
`Routing` and `Failover`, `EventHub`, `ResponseCopy`, `Startup` and `Queries` with `Panel`, each with proofs of
all its safety properties.  Next, in this order:

1. What `SchedulerClaims` refutes turned into the strongest claims that hold, and proved.
2. `Scheduler` and `Failover` composed: the pool follows the real `BackgroundReady`, and the `active`
   counter that `drain` reads counts the requests that `Failover` forwards.
3. `RetryWrite` with its bounded attempts, `buildProxyPath` as an operator against a reference.
4. `Panel` with its event stream: `EventHub` composed with the refreshes that events cause.

## 7. Not modelled

HTTP helpers, request ids and static files keep no state.  The parsing of Prometheus metrics and the
table of backend metrics are polled and shown, nothing decides by them.  The lists of models and backends and
the scheduler's `Snapshot` read and format.  The options of the database drivers, the transport of the HTTP
client belong to libraries.  The charts and panels of the
web interface show what one call answers.
