# cache-gateway in TLA+

cache-gateway is an HTTP service that serves products from Postgres through a
Redis cache, with three protections in each worker process: a Bloom filter
against requests for ids that do not exist, TTL jitter against entries that
expire together, and a request coalescer against many requests that miss the
same entry. This directory models the parts of it whose correctness depends on
the order of events: what tasks of one event loop do between awaits, what
several workers do to one Redis and one Postgres, and what is left behind by a
cancelled task, a failed command or a dead worker. Two smaller modules are
about time and about the request pipeline: how long Redis keeps what it holds,
and what logs and responses say of requests that run side by side.

Paths below are relative to the repository's root (`src/service/bloom.py`, ...).

## The system

| component | state | operations | shared with |
|---|---|---|---|
| `RequestCoalescer` `src/service/coalescer.py` | `_inflight`: key -> future, per worker | `coalesce`, `init_coalescer` | all GET tasks of a worker |
| `BloomFilterService` `src/service/bloom.py` | bit array, three counters, per worker | `__contains__`, `add`, `mark_false_positive`, `build_from_db`, `close` | GET tasks, the admin endpoint, startup |
| `ProductService` `src/service/product.py` | none | `get`, `get_many`, `update`, `delete` | orchestrates the rest |
| `ProductRepository` `src/repository/product.py` | `products` rows in Postgres | `get_by_id`, `update_by_id`, `soft_delete_by_id` | all workers |
| `ProductCacheRepository` `src/repository/product_cache.py` | Redis entries with a TTL | `get`, `set`, `delete`, all fail-open | all workers |
| endpoints `src/api/v1` | none | GET, PUT, DELETE product; bloom stats and rebuild; health | |
| life cycle `src/core/lifecycle.py` | process singletons | startup in order, teardown | |
| worker processes `docker/gunicorn.conf.py` | workers, metric files | restart after `max_requests`, `child_exit` | |
| engine, Redis client `src/db` | connection pools | check-out, check-in | all tasks of a worker |
| middleware, handlers, logging `src/core` | request id context variable | wrap every request, answer errors, write log records | all requests of a worker |
| metrics `src/core/metrics.py` | counters and gauges, per-process files | scrape | all workers |
| health `src/api/v1/health.py` | none | liveness, readiness: a query, then a PING | the stores |
| settings `src/common/settings.py` | TTL, jitter, ceilings, switches | `cache_ttl_jitter_seconds` | everything |
| seeding `scripts/seed_products.py` | none | truncates the table, copies rows in chunks | Postgres, under running workers |

How they interact. A GET asks its worker's filter (a synchronous call), then
awaits Redis, then enters `coalesce()`: the first task of a product becomes the
leader and runs `_load_and_cache` (await Postgres, await Redis SET, add to the
filter), later ones await the leader's future behind `asyncio.shield`. A PUT or
DELETE commits in Postgres, then awaits Redis DEL, then answers. A rebuild
empties its worker's filter, awaits a SELECT of all live ids, and adds them.
Workers share nothing but the stores. Around every endpoint `RequestIdMiddleware`
sets a context variable, `AccessLogMiddleware` writes a record, and four
exception handlers turn errors into responses: three within the middlewares, the
one for unexpected errors outside. There are no locks anywhere; what keeps
the pieces consistent is that code between two awaits runs undisturbed. Under
all of this lie two connection pools per worker: Postgres queues requests beyond
its ceiling, Redis refuses them.

What makes each component correct:

- coalescer: one load per key and worker; no key left registered after its
  load; no waiter left waiting; everyone gets the outcome of the load they
  shared; cancelling one caller does not reach others.
- filter: never rejects a live product it has been told about; a rebuild
  forgets what is gone; counters that can be related to each other.
- cache: agrees with Postgres, up to a stated set of accidents; never stands
  between a client and an existing product when Redis fails.
- writers: what a client was told is visible to whoever asks next, up to the
  same accidents.
- pools: exhausted, they delay requests or cost them the cache; they never make
  requests wait for each other in a circle.
- life cycle: requests run only where every singleton exists; teardown undoes
  startup in reverse and leaves nothing on disk.
- expiry: entries live for their base TTL at least; nothing outlives the longest
  TTL and a load, whatever invalidation misses.
- pipeline: no record or response carries the id of another request; one record of
  the service's tells how each request ended; a readiness answer is about what the probe saw.
- metrics: totals over workers never go back, and count no gauge of the dead.

The hazards behind these (cancellation of a leader, the row held across the SET
of a fill, the invalidation that fails, the emptied filter during a rebuild, a
SET still on the wire when its sender dies, ...) are listed with their lines
and the properties about them in `PROJECT.json`.

## Modules

| module | what it is |
|---|---|
| `Coalescer` | `coalesce()` of all workers, one action per stretch of code between awaits |
| `SingleFlight` | what callers of `coalesce()` are promised, without futures or leaders |
| `CoalescerProofs` | inductive invariant of `Coalescer`, its safety properties and that it implements `SingleFlight`, as theorems |
| `ProductStore` | what clients of the product API are promised, with no cache, filter, coalescer or worker in it |
| `BloomBits` | a filter as the set of its bits; hash functions are a constant |
| `BloomFilter` | one worker's filter with its counters, requests, rebuilds that may fail, deletes and the seeding script |
| `BloomFilterProofs` | what the filter accepts, counts and forgets, as theorems |
| `CacheGateway` | GET, PUT, DELETE and rebuild of all workers over Redis, Postgres, the filters and the coalescers |
| `GatewayControlProofs` | where the gateway's tasks can be, types, lone loads, who is to blame for failures and what filters accept, as theorems |
| `GatewayProofs` | the cause of every stale entry, fresh reads, and that `CacheGateway` implements `ProductStore`, as theorems |
| `Pools` | both connection pools at their ceilings, under reads, writes, lists, timeouts and disconnects |
| `PoolsProofs` | ceilings, nobody holds and waits, one connection per load, and that composing with `SingleFlight` blocks no request, as theorems |
| `Lifecycle` | worker processes from fork to `child_exit`, their singletons, files and metrics, and scrapes |
| `LifecycleProofs` | what processes hold and leave behind, and that scrapes never decrease, as theorems |
| `Expiry` | TTL, jitter and rounding, and one cache entry against a clock |
| `ExpiryProofs` | the term of an entry and the age of what readers are told, as theorems |
| `RequestPipeline` | middlewares, contexts, handlers, log records and the readiness probe of one worker |
| `RequestPipelineProofs` | ids, records of how requests end and readiness answers, as theorems |
| `MCBloomFilter`, `MCCacheGateway` | constants, symmetry and a bound for TLC |

`CacheGateway` instantiates `Coalescer` and performs its actions as part of its
own, so both modules speak of the same leader. `Coalescer` is checked against
`SingleFlight` by refinement. `Pools` composes with `SingleFlight`: for
who holds a connection it only matters what `coalesce()` promises.
`CacheGateway` in turn is checked against `ProductStore`: the stores, filters and
coalescers of all workers together are one row per product whose writes take
effect before they are answered and whose reads return some committed version,
never older than what had been acknowledged when the read was sent, unless the
product was excused. The excuse is exactly `raced` and `lost` below.

### From code to state and actions

`Coalescer`. `inflight` is `_inflight` of all workers, as a function of
`<<worker, key>>`. A task calls once and creates at most one future, so a
future is named by its task. `Lead` is the miss in the dictionary up to the
first await of the loader (lines 90-104); `Join` is the hit up to the shielded
await (76-88); `Resolve` is what follows the loader's end in one go: set the
future, pop the key, return or raise (102-120). `CancelLeader` takes the
`except BaseException` branch, `CancelWaiter` is absorbed by the shield, and
`Restart` replaces a worker. A waiter is resumed by a separate `Wake`, because
the event loop schedules it later.

`BloomFilter`. `bits`, `itemsAdded`, `lookups` and `falsePositives` are the
fields of the service. A request is at `accepted` after its lookup and at
`found` or `absent` after its query; a rebuild is at `selecting` after
`Reset` (205-216) and at `adding` once its SELECT was answered. `ResetFails` is
the reset whose new file cannot be created: the old filter is closed and gone,
the counters are not cleared, and from then on a lookup counts itself and
raises, until another rebuild succeeds. `add` and the whole loop over the
SELECT's rows run without an await, hence `AddRows` is one step. `Truncate` and
`Copy` are the seeding script, which commits chunk by chunk with ids that were
used before. What the model adds to the code is history: `late` (ids inserted
that no build has read), `buried` (deleted since the last reset), `straddling`
(tasks under way at the last reset), `whole` (the rebuild that reset the filter
last has added its rows).

`CacheGateway`. A row is a version and a liveness bit, a cache entry the
version it was filled with, `Absent`, or `Unreadable` (an entry of another
release that does not validate). `pc` is where a task awaits or is about to
go on:

| at | a reader | code |
|---|---|---|
| `get` | accepted by the filter, awaits GET | product.py 73-79 |
| `got` | has the reply, or took a failure for a miss | product_cache.py 66-93 |
| `query` | loads: awaits the SELECT | product.py 111 |
| `loaded` | has the row: awaits SET | product.py 129 |
| `stored` | SET was answered or failed | product.py 131-136 |
| `wait` | awaits the leader's future | coalescer.py 88 |
| `lateSet` | is gone, its SET may be on the wire | |

A writer is `written` between its commit and the answer to its DEL; a rebuild
is at `selecting` and `adding` as above. `closed` are the workers whose filter a
rebuild closed without being able to create the next one (`ResetFails`,
bloom.py 206-213). The closed filter stays in place until another rebuild
succeeds or the worker is replaced, and every use of it raises, which is the
answer `FilterError`: to the lookup of a new GET (`Arrive`), to the add at the
end of a load that was under way (`AddRaises`), which fails its waiters too, and
to the first add of an overlapping rebuild (`AddRowsFails`).

`acked`, `floor`, `raced` and `lost` are history: the newest state of a row a
writer was answered for, its value when a reader arrived, products whose row was
committed to while a load held an older version, and products whose
invalidation did not happen.

`Pools`. `db` and `redis` are the tasks that have a connection of their worker's
pool. A read is at `get` until Redis answers, at `hit` or `miss` until the event
loop resumes it, at `queue` or `query` once it leads, at `set` with both
connections, at `wait` if it joined, and at `closing` while its session is still
open after the load. The Redis pool raises without suspending the task, so a
read that finds it full is at the coalescer, or in the Postgres queue, in the
same step. A commit returns the connection before DEL; a PUT without fields
keeps it. The queue is not fair, as in SQLAlchemy. Redis itself does not fail
here, and coalescing is on.

`Expiry`. One key, two readers and a clock in seconds. `Ttl` is
`_ttl_with_jitter()` in hundredths of a second, so that jitter percentages are
whole numbers and Python's `round()`, ties to even, is exact; `uniform()` is any
value up to the ceiling. `load` holds the row between its SELECT and its SET,
`MaxFlight` seconds at most. `until` and `worst` are history: when a version was
overwritten, and the longest time a version some reader was told had been
overwritten for. Invalidation is `Evict`, which may come at any time or never.

`RequestPipeline`. A request is at `endpoint` once `RequestIdMiddleware` has set
the context variable, at `replied` when a response exists inside the access log,
at `logged` after the access record, and at `raised` while an unexpected error
passes the middlewares. Starlette runs what is inside a `BaseHTTPMiddleware` in
a task of its own with a copy of the context: `inner` is the variable in there,
`outer` in the server's task, where the handler of `Exception` runs. `Receive`
is 40-43 of `middleware.py`, `Leave` 42-47, and `Escape` what happens instead when
`call_next` raises. The error middleware of Starlette sends the response of that
handler (`AnswerError`, at `handled`) and then raises the exception again
(`Reraise`, at `answered`), which the server reports. `configure_logging()` takes
the handlers off uvicorn's loggers and lets them propagate (`logging.py` 75-79),
so what uvicorn writes, one access record per response and "Exception in ASGI
application" per exception that reaches it, goes through the same formatter and
filter: `lines` holds those records (`served`, `failed`) beside the service's
own. That uvicorn writes them is external to the repository. A probe asks
Postgres, then Redis; `Toggle` lets a store fail or come back at any moment, also
between the two.

`Lifecycle`. One action per step of `lifespan()`: the three `init_` calls before
the `try`, the awaited build, the coalescer, and after the `yield` the filter,
Redis and the engine, each of which may fail as the code lets it. `holds` are
the module globals that are set and not disposed of, `tempFiles` the files
`NamedTemporaryFile(delete=False)` leaves. Of the metrics there is one counter
and one live gauge per process. `mark_process_dead` removes the files of live
gauges only; a scrape lists the directory and reads one process's files at a
time while other processes go on.

## Runs

| run | shows | distinct states |
|---|---|---|
| `coalescer` | 4 calls, 2 workers, 1 key: the six safety properties, every call ends, and refinement of `SingleFlight` | 84,629 |
| `coalescer_disconnect` | refuted: a cancelled leader cancels its waiters | |
| `bloom` | 2 requests, 2 rebuilds that may fail at every step, deletes and seeding, 2 products that share a bit | 1,347,276 |
| `bloom_window` | refuted: a rebuild does not serve from the old state | |
| `gateway` | 2 reads and any two of an update, a delete and 2 rebuilds, 2 workers; any Redis command, any query or commit, a rebuild's SELECT and the creation of its filter may fail | 548,315 |
| `gateway_live` | 2 reads and one writer, an update or a delete, 1 worker; failing stores, unanswered commits, cancellation, crash, late SETs, coalescing on and off: requests end, staleness ends, and refinement of `ProductStore` | 165,958 |
| `gateway_stale` | refuted: a read after an answered update may be served the old version, with no fault at all | |
| `pools` | 3 reads, a write and a list, 1 Postgres and 2 Redis connections | 81,993 |
| `pools_repeat` | refuted: a worker queries once per product and expiry | |
| `lifecycle` | 2 workers, one of which may replace the other, 2 requests each at a time, with scrapes | 342,965 |
| `expiry` | 2 readers, base TTLs of 1 and 2 s, jitter of 0, 25, 50 and 100 percent, every draw | 332,036 |
| `pipeline` | 2 requests that may end in every way and a readiness probe, with client ids that may be equal | 463,956 |

Properties worth a word:

- `StaleEntryHasCause`: an entry that differs from its row is explained by a
  writer that has yet to invalidate, by a load that held the old row when it
  was overwritten (`raced`), or by an invalidation that did not happen
  (`lost`). There is no fourth cause.
- `FreshUnlessRaced`: apart from those two accidents reads are monotonic with
  respect to answered writes, across workers and for joined loads too.
- `FilterCoversLive`, `ServesDuringRebuild`: where a live product can be
  rejected, and that the documented claim that it cannot is refuted.
- `ImplementsStore`: the whole gateway, faults included, is one store to its
  clients. It says at once what a read may return, that a failed or unanswered
  write may have taken effect, and that nothing but the two accidents ever
  excuses an old version. A writer that did not invalidate, or was answered
  early, breaks it.
- `NoFalseNegatives`, `SaturationCovers`: from the end of the rebuild that reset
  the filter last, whatever failed, overlapped or was seeded in between. After a
  rebuild that failed half-way there is no promise until the next one, and
  neither here nor in `FilterCoversLive` is there one for products inserted
  after the filter was built.
- `EntriesKeepTheirTerm`, `StalenessBounded`: what the TTL is worth as the last
  resort. The bound has three parts: the load, the longest TTL, and the half
  second that `round()` may add.
- `FailOpen`: no fault of Redis fails a read. Two things do, and both are traced
  to their origin: a query that failed for this product in this worker, possibly
  in another request's load, and a rebuild in this worker that closed the filter
  and could not create the next one (see below).
- `CorrelatedWithin`: which records carry the request's id is a matter of where
  they are written. Within the middlewares all do; outside none does, neither the
  service's record of an unexpected error nor the server's. That a record
  carries the id of another request would be the failure.
- `OneOutcomeRecord`: the whole log of a request, by the status it was answered
  with. One record of the service's says how it ended; the server adds its own,
  and reports an unexpected error a second time (see below).
- `HonestReadiness`: two probes one after the other are not a snapshot; what the
  answer says is that each store did answer, or that one did not, at some time
  while the probe ran.
- `NoHoldAndWait`, `EveryRequestEnds` in `Pools`: the only fairness is that
  stores answer and ready tasks run, so requests end without any timeout. A
  waiter that held a connection would deadlock the worker. A task makes one
  request, so this is not about an endless stream of newcomers that overtake one
  in the queue for a connection.
- `OneConnectionPerLoad`: with `OneQueryPerExpiry` refuted, this is what
  coalescing does give: repetitions of a query follow each other.
- `ScrapesNeverDecrease`: the anomaly that led to ADR-0007, under recycling. It
  holds because the counters of a dead worker stay in the sum, which is not what
  the repository says of `child_exit` (see below).
- `RebuildForgets`, `SaturationCovers`, `RateDriftBounded`: what overlapping
  rebuilds and requests may do to a filter and its counters, and no more.

Bounds. Two tasks on one key give every pairwise race; the coalescer runs four
so that a leader has waiters while another load of the same key leads in the
other worker and a further one follows. One product is enough in the gateway
because requests of different products share nothing but the filter bits, and
those are covered by `BloomFilter` with two overlapping products. A task makes
one request, so counters are bounded by the number of tasks. The gateway runs
carry one state constraint, `FewOthers`: of the writers and rebuilds at most
`MaxOthers` ever start, two in `gateway` and one in `gateway_live`, in any choice,
so that each run meets every pair (an update with a delete, a writer with a
rebuild, two rebuilds) or every single one without the states of all at once. It
is sound for liveness as well, since nothing makes a request start.
`gateway_live` uses one worker, and `gateway` two: faults that involve two workers
meet only in the stores, where two tasks of one worker with coalescing off behave
the same. Cancellation and crashes are left to `gateway_live` and rebuilds to
`gateway`, whose safety properties are all proved for every kind of fault.

`bloom` gives two overlapping rebuilds the chance to fail and to straddle each
other, with two requests under way and ids that are deleted, truncated and come
back. `expiry` has ceilings below, at and above half a second past a whole one,
so that `round()` is met on every side, and a clock (`MaxTime`) that runs past
twice the longest TTL; `MaxVersion` allows two overwrites. `MaxFlight`, the
longest a load may take, is an assumption about the environment: nothing in the
code bounds it, and without a bound there is none on staleness. `pipeline` has
two requests and one id that both clients may send, which is what it takes to
confuse them.

`pools` has fewer connections than requests in both pools, and three reads so
that one can queue, one wait for it and one come late. `lifecycle` bounds the
requests and the counter of a worker by `MaxBusy` and `MaxCount`.

Deadlock is checked for `pipeline` only, whose stores never rest: elsewhere tasks
end, and a system with no requests left rests.

Fairness. A loader ends and a resolved future's waiters are resumed (asyncio
runs every ready callback); a store answers or fails every command; an accepted
request therefore proceeds, and Redis expires every entry because every SET
carries a TTL. No fairness is assumed for arrivals, writes, cancellations,
crashes or faults, and none in `BloomFilter`, `Expiry` and `RequestPipeline`,
which state only safety. After a
crash or cancellation no step is owed by a `lateSet`. In `Lifecycle` the master
kills a worker that has not drained in time and reaps it; no request is assumed
to end.

## Proofs

`CoalescerProofs` proves, for any sets of tasks, workers, keys, values and
errors, that `TypeOK`, `OneLoadPerSlot`, `NoPoisonedKey`, `NoStrandedWaiter`,
`SharedOutcome` and `ShieldHolds` are invariants. None but the first is
inductive alone: the argument is the invariant `IInv`, whose heart is that a
slot's registered future and its leader determine each other (a leader is
registered in its slot, and what is registered is a leader whose future is
pending), from which the uniqueness of leaders, the safety of waiters and the
agreement of outcomes follow. The only assumption is that the sentinels
(`None`, `Pending`, `Cancelled`) differ from the data.

Its last section proves the refinement: initial states map to initial states,
and each action maps to `Call`, `Land`, `Deliver`, `GiveUp` or `Vanish`.
`Resolve` is the interesting case: that those who are owed the outcome are
exactly the waiters of the leader's future needs `IInv` and its primed form.

`GatewayControlProofs` and `GatewayProofs` prove, for any finite set of updaters
and any other tasks, workers and products, with every kind of fault, all the
safety properties of the gateway and that it implements `ProductStore`. The
invariant has five layers, each proved on `Control` and those it says it needs:

- `Control`: where each task can be, what its variables then hold, and that a
  reader's place in `ProductService.get` matches its place in `coalesce()`.
  Each action of the gateway is shown to be a step of `Coalescer` or to leave it
  alone, so the coalescer's `IInv` carries over by its own theorem instead of
  being proved again; `Counted` bounds versions by the updates made, which is
  what makes the type of a version inductive. `TypeOK` and `OneLoadPerWorker`
  follow.
- `Accounts`: what `FailOpen` and `FilterCoversLive` need. A reader may be
  failed by a future, long after its leader saw the query fail and left, so
  `FailuresTraced` keeps for every failed future the leader that is to blame. A
  load or a lookup that a closed filter failed is traced to a rebuild instead:
  `ClosuresTraced` says that the worker of a closed filter has a rebuild that
  ended with `FilterError` (`Broken`). That stays so once another rebuild has
  replaced the filter, while the failed futures are still being handed out.
  A filter may be incomplete only while a rebuild of it is under way or after
  one that failed (`Rebuilding`), and the rebuild that is about to add its rows
  has all live ones (`FiltersOwed`), since rows are only ever deleted.
- `Data`: `HoldersCurrent`, that whoever is about to write a row to Redis has
  the current one unless the product is in `raced`, is what
  `StaleEntryHasCause` needs at `Store`; `AckedBehind`, `WriterKnows`,
  `CacheFresh` and `FloorBehind` relate what writers and readers were told to
  what is stored.
- `NoneAhead`: no entry, and no version a reader holds, was not committed
  (replies and futures are `Answers`, which also says they are not ahead of the row).
- `Answers`: an answer may come from the cache, from a row or from another
  reader's future, so `FreshUnlessRaced` is strengthened to everything a reader
  may be answered with next: the reply in its hand, and the resolved or pending
  future it awaits.

The refinement maps `Arrive` to `Send`; every answer to a reader, wherever it
comes from, to `Read`, `ReadMissing` or `Fail`; `Commit` and `PutNothing` to a
write that is sent and takes effect, `WriteFails` to a refusal, `Evict` to its
acknowledgement, `CommitUnanswered` and `Cancel` to a failure, and `Crash` to
`Abandon`. Everything else, the cache, filters, rebuilds and coalescers, is a
stutter. `Read` is where it could fail: its guard, a committed version not older
than the floor, is what `NoneAhead` and `Answers` say of each source.

`raced`, `lost`, `acked` and `floor` are history variables: no guard reads them.
The assumptions are that a task makes one kind of request (`TasksAssumption`),
that sentinels differ from data and from products, and that every product has at
least one bit in a filter (`BitsOfAssumption`).

`BloomFilterProofs` proves all five properties of the filter for any finite
catalogue, any number of requests and rebuilds, and any hash functions. Each
needs what the rebuilds and requests under way are still going to do:
`AddersComplete` and `AddersCount`, that what the filter owes it has, or the
rebuild that emptied it will add; `AddersForget`, that nobody who did not
straddle the reset holds a product that was dead at it; `MarksCounted`, that
every request that may yet be marked has counted its lookup since the reset or
straddled it. Counting rests on one lemma about cardinalities (`CoveredByTwo`).

`PoolsProofs` proves for any ceilings and any finite set of tasks that `TypeOK`
(with the ceilings in it), `NoHoldAndWait` and `OneConnectionPerLoad` hold.
`Held`, that the connections a task has go with where it is, and `OneLoader`,
that a slot is loading exactly while one reader runs its load, are the two halves
of the invariant; it uses of `coalesce()` only what `SingleFlight` promises,
which `CoalescerProofs` shows the code to keep. The actions of `Pools` perform those
of `SingleFlight` with their guards, which the code does not have; `Attached` and
`RequestsNeverBlocked` show that none of them ever stops a request, so nothing is
hidden by the composition.

`LifecycleProofs` rests on one table, `Holdings`: which singletons a process can
have in each phase, failures included. That scrapes never decrease is about a sum
over processes, which would call for induction over data; the proof counts
instead. A counter that stands at n is n marks of its process, so a sum is the
cardinality of a set of marks, and what a step does to it follows from the
library's facts on unions and products (`TotalSplits`, `TotalCounts`). The
invariant `ScrapesCover` bounds the last scrape by what the one under way will at
least come to.

`ExpiryProofs` proves its bounds for all settings, all draws and any clock; the
invariant dates what loads and entries hold (`CurrentAt`). Two theorems on the side say when jitter works at all:
`JitterSpreads` and `SmallJitterIsNone`.

`RequestPipelineProofs` proves the three properties of the pipeline for any
requests, probes and ids, equal ones included. The id in a record comes from the
context it is written in, so the invariant says what each context holds at each
place (`Known`); `Logged` says exactly which records were written up to each place,
since what the log holds in the end depends on every step before; `Probed` says
of a probe what it found so far, which is what a history of the stores since it
began confirms.

Only model-checked: liveness (`EveryCallEnds`, `EveryRequestEnds`,
`EventuallyConsistent`, `RecycledWorkersEnd`), which is beyond the prover. Every
invariant, every action property and both refinements that a passing run checks
are theorems.

## Found while modelling

1. `coalescer.py:106` stores the leader's `CancelledError` in the future, so a
   disconnected leader cancels all its waiters; the comment at 85-87 says one
   disconnected client does not (`coalescer_disconnect`).
2. `bloom.py:206` empties the filter before awaiting the SELECT; `admin.py:87`
   says it serves from its old state (`bloom_window`).
3. `product.py:129` can put an old row back after an invalidation;
   `product.py:157` and ADR-0006 promise the updated value to the next read
   (`gateway_stale`).
4. `product.py:91` acts on a miss that may be out of date, so a worker may query
   twice for one expiry; `coalescer.py:45` says once (`pools_repeat`).

Five more disagreements, and one hazard no document mentions, are stated by the
properties rather than refuted by runs of their own:

5. An unexpected error is handled outside both middlewares (`handlers.py:129`):
   its record has no request id, its response no `X-Request-ID`, and there is no
   access record. `handlers.py:102` says the traceback is "correlated by request
   id", `middleware.py:20` that the id is echoed on every request,
   `middleware.py:51` that there is one line per request. The exception is then
   raised again, so that uvicorn reports the same failure through the same
   handler, without an id either (`logging.py:75-79`). And every response has an
   access record of uvicorn's beside the service's own, without an id:
   `logging.py:3` says every record carries the request id, and
   `docker/gunicorn.conf.py:68` turns gunicorn's access log off "to avoid
   duplicate, worse lines", while uvicorn's comes through all the same. `CorrelatedWithin` and `OneOutcomeRecord` say what
   the log does hold.
6. `round()` is applied after the jitter was added, so a TTL may exceed the
   ceiling of `settings.py:98` by up to half a second (base 16, 10 percent: a
   draw above 1.5 gives 18, not 17.6), and a ceiling below half a second adds
   nothing at all. `EntriesKeepTheirTerm` carries the half second,
   `SmallJitterIsNone` proves the rest.
7. `bloom.py:214` clears the counters under requests in flight, so
   `false_positives` may count lookups that `total_lookups` does not, against
   `schema/admin.py:57`; `RateDriftBounded` says by how many.
8. A product inserted after the filter was built is rejected at the lookup
   (`product.py:71`), before `product.py:134` could add its key, so the add does
   not make the filter "eventually consistent" (`product.py:131-133`): only a
   rebuild, or bits that collide, lets it through. `NoFalseNegatives` leaves out
   such products until a build has read them.
9. `docker/gunicorn.conf.py:38-42` and `ADR-0007:42` say that `child_exit` retires
   a dead worker's files, because its counters would otherwise be counted twice,
   against its replacement's. `mark_process_dead()` removes the files of live
   gauges and no others: the counters of every worker that ever died stay in each
   later sum. They are counted once, and if they were retired, totals would fall
   at every recycling, against `metrics.py:12-14`: that is the mutant under which
   `ScrapesNeverDecrease` fails.
10. `bloom.py:206-213` closes and unlinks the old filter before it creates the new
    one. If that raises, the worker keeps the closed filter, and each of its GETs
    fails, those of cached products too, until a rebuild succeeds or the worker
    is replaced. `FailOpen` has to make an exception for it.

## Not modelled

Pure validation, rendering, DDL, tracing, the other scripts and the benchmarks:
they have no state that steps of several actors can disturb. `write_strategy` and
`redis_lock_enabled` are settings that are reported and that no code acts on. In modelled parts: the reuse of a
pid, histograms and labels, bodies of responses, a Redis that never answers,
pre-ping and reconnection, a client that disconnects within the middlewares, the
cached entries of rows that the seeding script truncates, and what a readiness
probe takes from saturated pools. `get_many()` takes part as a user of the
Postgres pool; its rows come from one committed query and nothing else.

## Plan

Done: the coalescer with its abstract specification, the filter, the gateway with
its abstract specification, the pools, the life cycle, expiry and the pipeline;
proofs of every safety property, action property and refinement of theirs.

1. What follows for clients from `ProductStore` alone, as theorems about it.
2. Pools: the readiness probe, which takes a connection of each pool in turn.
