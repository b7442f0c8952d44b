# pganalytics-v2: TLA+ models, TLC runs and TLAPS proofs

pganalytics-v2 watches PostgreSQL servers: small C and Go programs read
statistics from PostgreSQL and hand them to Prometheus or to an OpenTelemetry
collector; a Go API serves them from a database. This directory models the
programs that carry the platform's own logic, checks them with TLC and proves
the most important results with TLAPS. All paths below are relative to `src/`.

Many files of the repository do not compile as committed: the root `main.go`
holds its body twice, some packages under `internal/` import modules of another
name, `monitoring/c-collector/main_optimized.c` uses a struct it does not
define, the two Go exporters import two packages called `metric` (and one has
escaped backticks). They are modelled as written, with the meaning the text plainly has.
`monitoring/c-collector/main_fixed.c` is identical to `main.c`, and the tree
below `pganalytics-v2/` repeats most of the repository.

## 1. Inventory

### The parts

| part | code | state | operations | talks to |
|---|---|---|---|---|
| C collector (the deployed exporter, `docker-compose-complete.yml`) | `monitoring/c-collector/main.c` | array of tenant metrics, a mutex, the flag `running`, a listening socket | collect a tenant (connect, lock, memset, 11 queries, unlock), accept, dispatch, format a scrape under the lock, send, stop on a signal | PostgreSQL, Prometheus, the container's health probe |
| optimized C collector (`docker-compose.optimized.yml`) | `monitoring/c-collector/main_optimized.c` | pool of connections, cached sample, no lock | a thread per HTTP connection: test the cache, take a connection, query, give it back, renew the cache; stop and free the pool | same |
| tenant-discovering C collector | `pganalytics-v2/monitoring/c-collector/main.c` | array of 100 tenants, `tenant_count`, a mutex, two flags | discover the databases, update each, serve `/metrics` and `/health`, start and stop | same |
| OpenTelemetry C client | `monitoring/collector-c-otel/main.c` | fixed arrays of metrics and spans, one connection | connect once, collect or make up values, push with a 10 s timeout, sleep | PostgreSQL, the OpenTelemetry collector |
| bypass C collector (`docker/compose/bypass.yml`, "Recomendado") | `monitoring/collector-c-otel/main-prometheus.c` | one metrics struct, no lock | collect in the main loop, serve from libmicrohttpd's thread | PostgreSQL, Prometheus |
| enhanced C collector | `monitoring/c-collector/main_enhanced.c` | as the C collector | as the C collector, with two more queries, an estimate for the WAL files when their query fails, and a page for `/` | same |
| enhanced single-database C collector | `pganalytics-v2/monitoring/c-collector/main_enhanced.c` | one metrics struct, a mutex | collect, serve `/metrics` and a JSON `/health`; does not compile | same |
| OpenTelemetry Go collector, Go service | `monitoring/otel-collector/main.go`, `monitoring/otel-go-service/main.go` | instruments of the OTel SDK, an `sql.DB` without limits, a ticker | at every tick of 30 s take two or five readings; serve `/metrics` and `/health` from memory, `/connections` and `/slow-queries` from a query or from made-up data | PostgreSQL, Prometheus |
| metrics cache | `pkg/metrics/cache.go` | a map with expiry times, an RWMutex, a stop channel | Set, Get, Close, a sweeping goroutine | used by services of the API |
| Go API server | `cmd/server/main.go`, `internal/config`, `internal/middleware/auth.go`, `internal/handlers/` | JWT secret, a connection pool, the tokens its clients hold | start, `OPTIONS`, `/health`, `/auth/login`, `/metrics` behind a token check | PostgreSQL, browsers |
| analytics of the API | `internal/handlers/analytics.go`, `internal/services`, `internal/repositories`, `internal/database/postgres.go` | the same pool, or none | six handlers over five repository operations, each with mock data to fall back on; not registered by `setupRouter` | PostgreSQL |
| monitoring SQL | `monitoring/sql/` | partitions, scores, row policies | make and drop partitions, compute health scores | PostgreSQL only |
| the rest | migrations, dashboards, Prometheus and Alertmanager configuration, Docker, CI, scripts, documents, the exposition writers | none, or external | | |

### What is hard in it, and what makes each part correct

* **C collector.** Two threads and a mutex held over network round trips. A
  scrape must never show a tenant between its memset and its last query, nor mix
  two collections, also when single queries fail; a tenant that cannot be reached
  must not keep the others from being collected; a stalled PostgreSQL or a silent
  client may delay the server but must not block it for ever; the signal must end
  the process although `accept` is restarted and goes on waiting, and `main` must
  not return under the other thread's feet.
* **Optimized C collector.** The pool is raced on by design (test and take are two
  steps). In spite of that, no connection may leak on any path, none that was
  never opened may be handed out, an exhausted pool must still give an answer, and
  the pool must be freed last. The cache is there to spare the database.
* **Tenant-discovering collector.** The list of tenants is rewritten in place while
  clients are being served, with a second critical section for the statistics. A
  scrape must show one discovery; indices must stay inside the array; a signal
  must stop the program also during start-up, where `running = 1` is stored over
  the handler's 0; the mutex must be destroyed last.
* **OpenTelemetry client.** Pushes time out and arrive nevertheless; the arrays
  have fixed sizes; spans nest but are ended without a name.
* **Metrics cache.** The sweep runs against Set, Get, Close and the clock.
* **Bypass collector.** One struct, no lock, a session that is never renewed; the
  time stamp must tell whether the values are current.
* **Go API server.** A goroutine for each request, 25 connections for all of them,
  no timeout. Tokens outlive restarts, but not their 24 hours and not a new
  secret. A stalled PostgreSQL must not take `/metrics` with it.
* **Analytics.** Queries fail one by one, also between two of one section. The
  fallback must not lose a connection, nor mix measured with made-up values.
* **Go exporters.** One goroutine takes all readings, by queries without a timeout,
  through a pool without a limit; `pg_stat_statements` may be missing for good. They must
  come up without a database, answer `/metrics` whatever it does, give back each
  connection also when rows end early, and after any failure take all the readings
  again that can be taken.
* **SQL** (not modelled yet): health-score thresholds the repository's own test
  asserts, and the maintenance of partitions.

`PROJECT.json` lists every hazard at its line with the properties about it, and
says why where there is none.

## 2. Modules and how they correspond to the code

| module | stands for | proofs |
|---|---|---|
| `MetricsBoard` | abstract: a board of finished collections, scraped at one instant | |
| `Collector` | `monitoring/c-collector/main.c` and `main_enhanced.c`; implements `MetricsBoard` | `CollectorProofs` |
| `PooledCollector` | `main_optimized.c` | `PooledCollectorProofs` |
| `TenantDiscovery` | `pganalytics-v2/monitoring/c-collector/main.c` | `TenantDiscoveryProofs` |
| `OtelClient` | `monitoring/collector-c-otel/main.c` | `OtelClientProofs` |
| `BypassCollector` | `monitoring/collector-c-otel/main-prometheus.c` | |
| `Backend` | `cmd/server/main.go` and the parts of `internal/` it uses | `BackendProofs` |
| `Analytics` | the analytics of `internal/`, and `database/postgres.go` | `AnalyticsProofs` |
| `OtelExporters` | `monitoring/otel-go-service/main.go` and `monitoring/otel-collector/main.go` | `OtelExportersProofs` |
| `TtlMap` | abstract: a map whose entries die of age | |
| `TtlCache` | `pkg/metrics/cache.go`; implements `TtlMap` | `TtlCacheProofs` |

Definitions carry the names of the functions where there is one; `map` in
`PROJECT.json` gives the lines. The definitions whose names end in a suffix after
`_`, marked "Mutant", are not part of any specification: each is a plausible
mistake in the definition that follows it, and every checked property is known to
fail when one of them takes its definition's place.

**Collector.** `cpc` and `spc` are the places of the collector thread and of the
main thread. Steps are as small as the shared state needs: lock, memset, each
query, unlock; one step per formatted tenant. A value is abstracted to the number
of the collection that read it, 0 for the zero of the memset, so a mixture of two
collections can be seen. PostgreSQL is up, down or stalled at any moment; going
down breaks the open session, and the failure is noticed only by the next query,
as in libpq. A client may connect, send one of three requests, send nothing, or
leave. That `accept` fails, or that the signal `SIGPIPE` of a send to a client that has left ends
the process, is not modelled. The request buffer is neither terminated nor initialised in the code, so
the dispatch may also match what an earlier request left (`Matches`). Clients beyond
the listen backlog wait outside. `whole` and `late` are history variables.
`main_enhanced.c` has the same threads. A query of `Fallback` (none in `main.c`, that of
the WAL files in `main_enhanced.c`) leaves `Estimate` when it fails, the others leave the zero;
its page for `/` is, like `/health`, a reply without the lock.

**PooledCollector.** Every load and store of `available[i]` that decides something
is a step of its own, and the cache is its age. Two threads that have taken one
`PGconn` may get what one thread alone may get, or one of them hangs in it, or the process
crashes (`Race`). `PQexec` has no timeout: it ends while PostgreSQL is not stalled. A reply
whose last-but-one store is torn from another's is not visible, because the sample's
fields are left out.

**TenantDiscovery.** `discover_tenants` runs in either thread, so its actions take
the thread as a parameter; the local variables are one set, since `main` runs it
only before the collector thread exists. A statistic is abstracted to the database
it was read from. The answer of PostgreSQL is any list of distinct databases, up
to one longer than the array. Time stamps, `database_connected` and the count it
gives on `/health` are left out: nothing but a reply's text depends on them.

A scrape's text is put together by `strcat` in `response_body[16384]`, with no look at
its size, and copied by `snprintf` into `response[4096]`, which cuts it, under a
`Content-Length` that counts all of it. Lengths are counted in whole tenants. One takes five
lines, each with its name, of up to 63 characters: `BodyRoom` tenants surely fit into
the one array (27, or about 60 if their names are short), `SendRoom` into the other
(6, or about 14), and beyond that the model chooses. The step that overruns the
first (`Overflow`) leaves both threads at `"undefined"`: what follows is not modelled. A cut
in the middle of a tenant's lines is one after the last whole tenant.

**OtelClient.** One thread. `received` is what the collector at the other end has,
and a push may fail before or after it arrived.

**BypassCollector.** Each field of the struct is written and read by a step of its
own. Writes with no call between them may come in any order, since the compiler is free
to choose, and so may the reads, the arguments of one `snprintf`. A field is abstracted to
the round that wrote it.

**Backend.** A handler's steps are those at which it waits or touches what others can see:
the token check, the JSON binding, taking a connection, the end of the query,
the reply. `database/sql` and gin are external. A token is modelled by its signer
and the time left to its `exp`; `proof` is a history of the logins by which it is
judged. A restart drops all requests and the pool, and may come with another
secret; `main` starts only with a secret and a PostgreSQL that answers. Whether a login can
succeed depends on the schema, which is not modelled: `handlers/auth.go` asks for the
columns `username` and `password` of `users`, and a migration of the repository creates
`password_hash`. `LoggedIn` stands for a database that has what the query asks for.

**Analytics.** The handlers are modelled although `setupRouter` does not register them,
as gin would run them behind the same token check. A value is
abstracted to where it comes from: the database, a constant, or nowhere yet. While a query
runs, its columns or rows come into the operation's local result one part after the other
(`Scan`), and the query may fail with any of them stored, the second one of
`GetConnectionStats` with the field of the first; what the operation then returns is the
constants in place of the local result (`QueryMocked`), and else the local result
(`QueryDone`). `ConnectionsPercent`, which the service computes of two of the others, is left out. `Init` has NewDB's two outcomes: a
database that answered, or `nil`, with which every section is the mock.

**OtelExporters.** The two programs have one structure and differ in their readings, in
what they do with a failed query, and in the order of reading rows and adding them up. `program`
says which of them a behaviour is of; definitions named `Service...` and `Collector...` belong
to one, the others to both. A goroutine asks the `sql.DB` for a connection, runs its
query, and for a query of several rows reads them. PostgreSQL may refuse new sessions
and keep the old ones (`full`: `max_connections`), go down with all of them, or
stall. `lacks` are readings it never gives: an extension that is not installed, a
NULL. The numbers are left out; `fresh` says which instruments the current tick
has updated. With the numbers goes what the programs do wrong to them: they add absolute
counts (`otel-go-service/main.go:202`, `243`, `260`, `otel-collector/main.go:187`)
to instruments that sum up what they are given, so that the totals grow at every tick
whether anything has happened or not. `/slow-queries` of the collector panics for
every `limit` but 0 and 1, its default of 10 among them (`CollectorSlowQueries`): the request has no
answer. That net/http recovers the panic, so that the one connection is all that is lost
(`Recover`), is taken from the library and not checked.

**TtlCache.** Time is relative: an entry carries its age, ages stop at TTL + 1,
and no clock needs a bound. Get and Set are one step each (they hold the lock from
start to end and read the clock within), the sweep is three.

## 3. Runs

| run | module, bounds | what it shows |
|---|---|---|
| `collector_safety` | Collector; 2 tenants, 2 queries, the second with an estimate, 1 client, backlog 1, 2 rounds | `ReplyIsSnapshot`, `NoMixedRounds`: a formatted scrape equals the last finished collection of every tenant at one instant. `AtMostOneLateClient`: after the signal one client more is served, not the queue. `CleanExit`. `ImplementsBoard`: the two threads implement `MetricsBoard`. |
| `collector_liveness` | Collector; 2 tenants, 1 query, 1 client, 1 round; fair | Unless PostgreSQL stalls for ever: `ServerReturns`, `ShutdownCompletes`, `EveryTenantTried`. |
| `collector_pgup` (violation) | Collector, smallest instance | `PgUpMeansUp`: a finding, see below. |
| `pooled_collector` | PooledCollector; 2 requests, 2 connections, period 2; fair | `NoLeak`, `OnlyOpened`, `NoUseAfterFree`. `GracefulShutdown`: unless PostgreSQL stalls for ever or two requests meet in one connection. |
| `tenants` | TenantDiscovery; 2 databases, 2 slots, 1 statistic, sure room for 1 tenant in either array; fair | `ScrapeNamesOneDiscovery`: all names of one discovery, or the first of them if the reply is cut; `response_body` is overrun only with more tenants than surely fit. `DestroyedUnused`. `ShutdownCompletes` (also for a signal during start-up) and `ServerReturns`, unless PostgreSQL stalls for ever or `response_body` has been overrun. |
| `tenants_isolation` (violation) | same | `TenantIsolation`: a finding. |
| `otel_client` | OtelClient; 6 metrics, 5 spans, rounds 0 to 3 | `AtMostOnce`, `OutageNeverDrops`, `SourcesNeverMix`; `TypeOK` is the bound on the arrays. |
| `ttl_cache` | TtlCache; 2 keys, 2 values, TTL 1, interval 2; fair | `ImplementsTtlMap`; `ExpiredForgotten` unless closed; `SweeperStops`. |
| `backend` | Backend; 2 clients, 1 connection, token life 2, 2 secrets; fair | `EnteredWhenProven`: `/metrics` is let through exactly for a client that logged in less than a token's life ago at a process with this secret. `MetricsSpared`: it is answered whatever PostgreSQL does. `RequestsAnswered`: the rest, unless PostgreSQL stalls for ever. |
| `analytics` | Analytics; 2 requests, 1 connection; fair | `ConnectionsReturned`. `WholeSections`: each section is all measured or all made up, wherever its queries fail. `RequestsAnswered`, unless PostgreSQL stalls for ever. |
| `otel_exporters` | OtelExporters, both programs; 1 client and the collecting goroutine; fair | `ConnectionsReturned`. `ComesUp`: without a database too, the collector unless PostgreSQL stalls for ever. `RequestsAnswered`: `/metrics` and `/health` whatever PostgreSQL does; `/connections`, the service's `/slow-queries`, and the collector's with `?limit=0` or `1`, unless it stalls for ever. The collector's other `/slow-queries`, also without `limit`, panic: of these it says only that they end. `CollectionResumes`: once it stays up, each reading it can answer is taken again and again. |
| `bypass` (violation) | BypassCollector; 2 rounds | `LastUpdateTrue`: a finding. |

The `TypeOK` of every module that has a passing run is checked in one.

**Why the bounds are enough.** Two tenants and two queries are the fewest with a
"before" and an "after" in both loops; two rounds are the fewest that can be mixed,
and round numbers are reused, which only makes more states equal. One client is
enough to be late twice, because it can come back; a second client adds
interleavings of the queue only, which the proofs cover for any set. Two requests
race on one connection while another stays free or not. A tenant list can grow,
shrink and be permuted with two databases; that the program also stays inside the
array with more databases than slots does not happen in that run (two databases,
two slots) and is what the theorem `TypeCorrect` of `TenantDiscoveryProofs` shows, for any
number of both. With sure room for one tenant and two of them, a text is cut, or overruns
its array, or neither. Six metrics and five spans are small enough to fill up within four
cycles. A pool of one connection for two requests is the smallest in which a request
waits for another's, and a connection kept or lost blocks everyone; a token life of 2 has
a fresh, an aging and an expired token, and two secrets one rotation. TTL and interval of the cache differ, so expiry and ticks drift against
each other. The goroutines of the Go exporters meet only in the `sql.DB`, which makes none of
them wait, so one request beside the collecting goroutine has all the
interleavings that matter; all readings, all `lacks` and all routes are in the run.

**Deadlock** is checked in every run; a program that has exited, or panicked,
stutters by an action of its own (`Exited`, `Dead`), and `Bound` is the end of the
modelled rounds of `OtelClient`.

## 4. Fairness

* Threads are scheduled: weak fairness of each thread's step.
* The mutexes of the collectors get strong fairness of the locking steps. A pthread
  mutex promises no order, but each side leaves the mutex free for nearly all of the
  time (sleeps of 15 or 30 s, a round trip to the client) between two uses.
* Clients of `Collector` come back, and close a connection that is not answered:
  `prometheus.yml` scrapes every 10 s with a timeout of 10 s, the container's health
  probe runs every 30 s. A client that connects and sends nothing, for ever, is thereby assumed
  away; the code has no timeout against it. In `TenantDiscovery` the same is part of the fairness of the
  main thread. Without clients no shutdown completes: `accept` is restarted
  after the signal.
* PostgreSQL is never assumed to work. It is assumed only not to stall for ever, as a
  premise of the properties (`NoEndlessStall`), since the code has no query timeout and
  really is blocked by such a server. Two more premises stand for what the code does nothing
  against: that two requests never meet in one `PGconn` (`NeverTwoInOne`, `PooledCollector`),
  and that `response_body` is not overrun (`NeverOverflows`, `TenantDiscovery`).
* In `Backend` and `Analytics` goroutines are scheduled, and taking a connection gets strong
  fairness: `database/sql` hands a returned connection to one of the waiting
  queries, picked at random.
* In `OtelExporters` goroutines are scheduled and the clock ticks, all with weak fairness:
  nothing there waits for another. `CollectionResumes` has the premise that PostgreSQL is up
  from some time on.
* The signal is never assumed to come.
* In `TtlCache`, time passes, and the two cases of `select` get strong fairness because Go
  picks among the ready ones at random. A writer waiting for an RWMutex keeps new
  readers out, so the sweep's lock needs weak fairness only.

## 5. Proofs

Assumptions are the named `ASSUME`s of the modules: sizes are positive, "none" values are
none of the values they are told from, the collecting goroutine of `OtelExporters` is no client,
and its clients are finitely many at a time (their number is part of a type there). Nothing else is
assumed, but for one hypothesis each of two theorems, which they state; every step is checked by
tlapm. Each proof follows the same line: a typing invariant, an invariant `IInv` that
is preserved by every action, one step per action, and PTL at the end. TLC has checked each
`IInv` on a small instance. Every invariant and every safety property that
a passing run checks is proved.

**CollectorProofs.** `IInv` adds to `TypeOK`: each thread is at a place inside its
critical section exactly when it holds the mutex; outside the collector's critical section the
array equals `whole`, inside it only entry `ti` may differ; within a collection
entry `ti` holds for each query done the value of this round or what its failure leaves, and 0
for each query to come; while the server formats, the part of `body` before `si` equals the array;
a late client implies a cleared flag and a main thread past the loop's test. None
of the checked properties is inductive without these. Theorems: `Invariance`,
`TypeCorrect`, `SnapshotReplies`, `SingleRoundReplies`, `OneLateClient`,
`ExitsCleanly`, and `Refinement`: `Collector` implements `MetricsBoard`, for any number
of tenants, queries, rounds and clients. `UpForEver` follows from `Refinement`: no
finished collection takes a tenant's `pg_up` back to 0, which is why the run
`collector_pgup` is violated.

**TtlCacheProofs.** `IInv`: the sweep holds the lock, and every key it is about to
delete is expired, and stays so, since nobody else can write. Theorems:
`TypeCorrect` and `Refinement` (the swept cache implements `TtlMap`).

**TenantDiscoveryProofs.** `IInv`: who holds the mutex where; before the collector
thread exists only `main` discovers; while the slots are written, those before `i` hold
the rows before `i` and `tenant_count = i - 1`; else the slots hold `known`; the
walk of a scrape has copied the names before `si`; the text a reply is cut from has the names
that were known when the mutex was given back. Theorems: `TypeCorrect` (all
indices inside the array for any number of databases), `OneDiscovery` (also of a
cut reply, for any sizes of the two arrays), `MutexOutlivesThreads`. `IsolatedWhileSlotsKept` is what remains of `TenantIsolation`, which
the run `tenants_isolation` refutes: as long as no discovery gives a slot to another database
(`SlotKept`), whatever else fails or races, each scrape shows under a name only what was
read from that database. So a slot that changes its database is the one cause of the finding.

**PooledCollectorProofs.** Two threads may get the same connection, so "a connection in use has
one owner" is false. What is inductive is that it has an owner at least (`NoLeak`):
whoever clears the mark of a connection has it, and who gives it back sets the mark,
whoever else has it too. `IInv` adds that a thread has a connection exactly from taking to
returning it, that one never opened is marked in use from the start, and what has ended
before the pool is destroyed. A thread that hangs keeps its connection, and so does each thread of a
process that has crashed: the invariants hold there too. Theorems: `TypeCorrect`, `PoolNeverLeaks`, `HandsOutOpened`,
`FreedUnused`.

**AnalyticsProofs.** `IInv` counts: `inUse` is the number of requests at "run", which are
finitely many although the requests need not be. A request waits or runs exactly while operations
are left to it (`todo`, a suffix of its handler's list) and has not asked all queries of the first;
its local result has all that the queries done have filled in (so that the one returned
after the last has no zeros), and its sections so far are whole: those that replace a local result are
made up from the start. Theorems: `TypeCorrect`,
`NoConnectionLost`, `SectionsAreWhole`.

**BackendProofs.** `AuthMiddleware` looks at a token, `EnteredWhenProven` at the history of logins. `IInv`
ties them together: the time left to a token and the age of the login it stems from add up to
`Life` in every state, both tick together, both are of one secret, and a process that serves has a
secret (0 is one not yet configured). It counts connections as in `Analytics`. Theorems:
`TypeCorrect`, `EntersExactlyTheProven`.

**OtelClientProofs.** That nothing is received twice is a matter of rounds: what has been received
is from earlier rounds than the current one, except while the process sleeps after a push, and
then the batch is empty or was never sent. That values of two sources never meet needs that the
one connection attempt decides, and that "cache" is reached with a connection only. Theorems:
`TypeCorrect`, `ReceivedOnce`, `OneSource`, and `RoomForOutages`, by an invariant of its own
(`RoomInv`): before a push that was set up there are at most 0, 1, 4, 5 metrics at the places of the
cycle. Its hypothesis is `MaxMetrics >= 5`; the code has 100, and five is
the least (with four the first cycle after connecting overflows: TLC finds it).

**OtelExportersProofs.** `open` is the number of goroutines in a query or at its rows; each step moves
one goroutine (`Move`), and the three ways it can count (`Counted`) are all the code has. That no
instrument is updated that the program lacks needs that a reading is answered only while `at` is a
place in the program's list, so the collecting goroutine rests exactly when `at = 0`.
Theorems: `TypeCorrect`, `NoConnectionLost`.

**Only model-checked:** the liveness properties (`ServerReturns`, `ShutdownCompletes`,
`EveryTenantTried`, `GracefulShutdown`, `RequestsAnswered`, `MetricsSpared`, `ComesUp`,
`CollectionResumes`, `ExpiredForgotten`, `SweeperStops`), since TLAPS proves nothing about
liveness under fairness, and the violations, which are counterexamples.
`BypassCollector` has no proofs: its one run is a violation.

## 6. Findings

* `collector_pgup`: a failed connection leaves the entry of the tenant as it is, so
  `pg_up` ("PostgreSQL server is up") stays 1 when the server has gone down.
* `tenants_isolation`: after a discovery that gives a slot to another database, a
  scrape shows the former database's statistics under the new name.
* `bypass`: `last_update` ("Last metrics update timestamp") is set also by a collection
  both queries of which failed, so values from before an outage look current.

Seen while modelling, and not stated as properties: the second `otel_end_span()` of a
collection (`collector-c-otel/main.c:268`, "metrics.collection") ends the span before
it once more; the totals of the Go exporters described in section 2; the panic of the collector's
`/slow-queries`, which takes the reply also from the request `?limit=5` that
`monitoring/otel-collector/README.md:133-136` gives as an example; the overrun of `response_body` in
the tenant-discovering collector by some number of tenants from 28 to 60 or so, of the 100 there is room for
in the array, and its reply, cut from 7 to 14 or so tenants on; and two threads in one `PGconn` in
`main_optimized.c`, which libpq forbids. The models have the last four as steps. `RequestsAnswered` of the exporters excepts the
requests that panic; `ShutdownCompletes` and `ServerReturns` of the tenant-discovering collector and
`GracefulShutdown` say nothing of a process that has overrun its array or shared a connection.

The other properties hold: of the hazards listed for them, the code keeps what the property states, under
the fairness of section 4 and the premises in the property itself. The hazards in `PROJECT.json` that have
no property, or a note beside it, say what is assumed or left open: among them a silent client, the panic's
confinement to its request, Close called twice and Set after Close.

## 7. Not modelled, and the plan

Not modelled, for good: dashboards, generated Swagger code, Docker and CI files,
scripts, documents, the exposition writers (sequential formatting), and
Prometheus, Alertmanager and the OpenTelemetry collector beyond what the models'
environment says of them. The API's migrations are declarative.

Planned, in this order:

1. `HealthScore` and the partition maintenance of `monitoring/sql`, as functions checked
   against the intervals `009_test_system.sql` asserts.
2. The enhanced single-database collector as one more variant of `Collector`.
3. Invariants of `BypassCollector` (a field never goes back in time, a scrape is
   served during a stall) in a passing run.
4. Proofs: an abstract board of names that `TenantDiscovery` implements, of which `OneDiscovery` would
   be a corollary as `UpForEver` is one of `MetricsBoard`; then the invariants of item 3.
