----------------------------- MODULE CacheGateway -----------------------------
(***************************************************************************)
(* The product requests of all workers against one Redis and one Postgres: *)
(* ProductService.get, update and delete (src/service/product.py) over     *)
(* ProductCacheRepository and ProductRepository, with each worker's Bloom  *)
(* filter and coalescer, and the admin rebuild of the filter.              *)
(*                                                                         *)
(* Every request is a task that runs once.  A step is one command of a     *)
(* store, or what a task does between the reply to one command and the     *)
(* next.  A product's row is its version, raised by every update, and      *)
(* whether it is live; a cache entry is the version it was filled with.    *)
(***************************************************************************)
EXTENDS BloomBits, Naturals, FiniteSets

CONSTANTS
    Readers,    \* GET /products/{id}
    Updaters,   \* PUT /products/{id} with at least one field
    Deleters,   \* DELETE /products/{id}
    Rebuilders, \* POST /admin/bloom/rebuild
    Workers,    \* gunicorn worker processes
    Faults,     \* what may go wrong: members of FaultKinds
    Settings,   \* the values of coalesce_enabled to consider
    None, Pending, Cancelled,
    NotFound,   \* NotFoundError: Postgres has no such live row
    Rejected,   \* NotFoundError: the Bloom filter says no
    DbError,    \* the query fails
    FilterError, \* the Bloom filter raises: it is closed, or cannot be created
    Absent,     \* Redis: no entry
    Unreadable  \* Redis: an entry that is not a ProductRead of this release

FaultKinds == {"redis", "postgres", "rebuild", "cancel", "crash"}
Writers    == Updaters \cup Deleters
Tasks      == Readers \cup Writers \cup Rebuilders
Versions   == 1 .. 1 + Cardinality(Updaters)
Entries    == Versions \cup {Absent, Unreadable}

ASSUME OptionsAssumption == Faults \subseteq FaultKinds /\ Settings \subseteq BOOLEAN

\* A task makes one kind of request, and updates are numbered by versions.
ASSUME TasksAssumption ==
    /\ IsFiniteSet(Updaters)
    /\ Readers \cap (Writers \cup Rebuilders) = {} /\ Writers \cap Rebuilders = {}
    /\ Updaters \cap Deleters = {}

\* What stands for an answer or for the lack of one is told apart.
ASSUME SentinelsAssumption ==
    /\ None \notin Readers \cup Products \cup (Workers \X Products) \cup Versions
                \cup {Pending, Cancelled, NotFound, DbError, FilterError}
    /\ Pending \notin Versions \cup {Cancelled, NotFound, DbError, FilterError}
    /\ Cancelled \notin Versions \cup {NotFound, DbError, FilterError}
    /\ Versions \cap {NotFound, Rejected, DbError, FilterError, Absent, Unreadable} = {}
    /\ NotFound \notin {Rejected, DbError, FilterError}
    /\ DbError \notin {Rejected, FilterError} /\ Rejected # FilterError

VARIABLES
    \* the coalescers of all workers, see Coalescer
    inflight, future, role, slot, awaits, outcome, hungUp,
    row,        \* Postgres: product -> [ver, live]
    cache,      \* Redis: product -> entry
    filter,     \* worker -> bits of its Bloom filter
    closed,     \* workers whose filter a rebuild closed and could not replace
    coalescing, \* settings.coalesce_enabled
    pc,         \* task -> where it is
    at,         \* task -> <<worker, product>> of the request
    seen,       \* task -> the last reply it got from a store
    ids,        \* rebuild -> the ids its SELECT returned
    resp,       \* task -> the response
    acked,      \* history: product -> newest row state a writer was answered for
    floor,      \* history: reader -> acked when its request arrived
    raced,      \* history: products committed to while a load held an older row
    lost        \* history: products whose invalidation did not happen

Co == INSTANCE Coalescer WITH
    Tasks <- Readers, Keys <- Products, Values <- Versions, Errors <- {NotFound, DbError, FilterError}

coalescer == <<inflight, future, role, slot, awaits, outcome, hungUp>>
stores  == <<row, cache>>
history == <<acked, floor, raced, lost>>
vars == <<coalescer, stores, filter, closed, coalescing, pc, at, seen, ids, resp, history>>

Live == {p \in Products : row[p].live}
Fault(kind) == kind \in Faults

Init ==
    /\ Co!Init
    /\ row \in [Products -> [ver : {1}, live : BOOLEAN]]
    /\ cache \in [Products -> {Absent, Unreadable, 1}]
    /\ \A p \in Products \ Live : cache[p] # 1
    /\ filter = [w \in Workers |-> BitsOfAll(Live)]
    /\ closed = {}
    /\ coalescing \in Settings
    /\ pc = [t \in Tasks |-> "idle"]
    /\ at = [t \in Tasks |-> None]
    /\ seen = [t \in Tasks |-> None]
    /\ ids = [t \in Rebuilders |-> {}]
    /\ resp = [t \in Tasks |-> None]
    /\ acked = row
    /\ floor = [t \in Readers |-> None]
    /\ raced = {}
    /\ lost = {}

Worker(t)  == at[t][1]
Product(t) == at[t][2]

Goto(t, from, to) == pc[t] = from /\ pc' = [pc EXCEPT ![t] = to]
Respond(t, from, r) == Goto(t, from, "done") /\ resp' = [resp EXCEPT ![t] = r]

-----------------------------------------------------------------------------
(* ProductService.get *)

\* The request arrives and asks the Bloom filter of the worker it landed on;
\* a closed filter raises.
Arrive(t, w, p) ==
    /\ at' = [at EXCEPT ![t] = <<w, p>>]
    /\ floor' = [floor EXCEPT ![t] = acked[p]]
    /\ \/ w \notin closed /\ MayContain(filter[w], p) /\ Goto(t, "idle", "get") /\ UNCHANGED resp
       \/ w \notin closed /\ ~MayContain(filter[w], p) /\ Respond(t, "idle", Rejected)
       \/ w \in closed /\ Respond(t, "idle", FilterError)
    /\ UNCHANGED <<coalescer, stores, filter, closed, coalescing, seen, ids, acked, raced, lost>>

\* Mutant of CacheGet: a RedisError fails the request.
CacheGetRaises(t) ==
    /\ \/ /\ Goto(t, "get", "got")
          /\ seen' = [seen EXCEPT ![t] = cache[Product(t)]]
          /\ UNCHANGED resp
       \/ Fault("redis") /\ Respond(t, "get", DbError) /\ UNCHANGED seen
    /\ UNCHANGED <<coalescer, stores, filter, closed, coalescing, at, ids, history>>

\* Redis answers GET.  A RedisError is a miss.
CacheGet(t) ==
    /\ Goto(t, "get", "got")
    /\ \/ seen' = [seen EXCEPT ![t] = cache[Product(t)]]
       \/ Fault("redis") /\ seen' = [seen EXCEPT ![t] = Absent]
    /\ UNCHANGED <<coalescer, stores, filter, closed, coalescing, at, ids, resp, history>>

\* Mutant of CacheHit: whatever Redis holds is returned.
CacheHitUnvalidated(t) ==
    /\ Respond(t, "got", seen[t])
    /\ seen[t] # Absent
    /\ UNCHANGED <<coalescer, stores, filter, closed, coalescing, at, seen, ids, history>>

CacheHit(t) ==
    /\ seen[t] \in Versions
    /\ Respond(t, "got", seen[t])
    /\ UNCHANGED <<coalescer, stores, filter, closed, coalescing, at, seen, ids, history>>

\* Mutant of CacheMiss: every miss leads.
CacheMissLeads(t) ==
    /\ Goto(t, "got", "query")
    /\ seen[t] \notin Versions
    /\ IF coalescing THEN Co!LeadUnchecked(t, at[t]) ELSE UNCHANGED coalescer
    /\ UNCHANGED <<stores, filter, closed, coalescing, at, seen, ids, resp, history>>

\* A miss, or a value that cannot be read: coalesce, or load alone when
\* coalescing is off.
CacheMiss(t) ==
    /\ seen[t] \notin Versions
    /\ \/ Goto(t, "got", "query") /\ coalescing /\ Co!Lead(t, at[t])
       \/ Goto(t, "got", "wait") /\ coalescing /\ Co!Join(t, at[t])
       \/ Goto(t, "got", "query") /\ ~coalescing /\ UNCHANGED coalescer
    /\ UNCHANGED <<stores, filter, closed, coalescing, at, seen, ids, resp, history>>

\* Postgres answers get_by_id().
QueryRow(t) ==
    /\ Goto(t, "query", "loaded")
    /\ LET r == row[Product(t)] IN
        \/ seen' = [seen EXCEPT ![t] = IF r.live THEN r.ver ELSE NotFound]
        \/ Fault("postgres") /\ seen' = [seen EXCEPT ![t] = DbError]
    /\ UNCHANGED <<coalescer, stores, filter, closed, coalescing, at, ids, resp, history>>

\* Mutant of LoadFails: the leader fails alone, its future stays pending.
LoadFailsAlone(t) ==
    /\ seen[t] \in {NotFound, DbError}
    /\ Respond(t, "loaded", seen[t])
    /\ UNCHANGED <<coalescer, stores, filter, closed, coalescing, at, seen, ids, history>>

\* No row, or no answer: the loader raises.
LoadFails(t) ==
    /\ seen[t] \in {NotFound, DbError}
    /\ Respond(t, "loaded", seen[t])
    /\ IF coalescing THEN Co!LoaderRaises(t, seen[t]) ELSE UNCHANGED coalescer
    /\ UNCHANGED <<stores, filter, closed, coalescing, at, seen, ids, history>>

\* Redis executes SET, or fails and is ignored.
Store(t) ==
    /\ seen[t] \in Versions
    /\ Goto(t, "loaded", "stored")
    /\ \/ cache' = [cache EXCEPT ![Product(t)] = seen[t]]
       \/ Fault("redis") /\ UNCHANGED cache
    /\ UNCHANGED <<coalescer, row, filter, closed, coalescing, at, seen, ids, resp, history>>

\* The loader adds the product to the filter and returns.
LoadReturns(t) ==
    /\ Respond(t, "stored", seen[t])
    /\ Worker(t) \notin closed
    /\ filter' = [filter EXCEPT ![Worker(t)] = @ \cup BitsOf[Product(t)]]
    /\ IF coalescing THEN Co!LoaderReturns(t, seen[t]) ELSE UNCHANGED coalescer
    /\ UNCHANGED <<stores, closed, coalescing, at, seen, ids, history>>

\* The filter was closed since the lookup: the loader raises at its add.
AddRaises(t) ==
    /\ Respond(t, "stored", FilterError)
    /\ Worker(t) \in closed
    /\ IF coalescing THEN Co!LoaderRaises(t, FilterError) ELSE UNCHANGED coalescer
    /\ UNCHANGED <<stores, filter, closed, coalescing, at, seen, ids, history>>

\* A waiter is resumed with the leader's result or exception.
WaiterWakes(t) ==
    /\ Co!Wake(t)
    /\ Respond(t, "wait", outcome'[t])
    /\ UNCHANGED <<stores, filter, closed, coalescing, at, seen, ids, history>>

\* Mutant of Expire: SET carries no TTL.
ExpireLegacy(p) ==
    /\ cache[p] = Unreadable
    /\ cache' = [cache EXCEPT ![p] = Absent]
    /\ UNCHANGED <<coalescer, row, filter, closed, coalescing, pc, at, seen, ids, resp, history>>

\* The TTL that every SET carries runs out.
Expire(p) ==
    /\ cache[p] # Absent
    /\ cache' = [cache EXCEPT ![p] = Absent]
    /\ UNCHANGED <<coalescer, row, filter, closed, coalescing, pc, at, seen, ids, resp, history>>

-----------------------------------------------------------------------------
(* ProductService.update and delete *)

\* Readers that hold a row of p they have not finished with: a SET under way,
\* or a coalesced load that others may still join.
Holding(p) ==
    {t \in Readers : /\ pc[t] \in {"loaded", "stored", "lateSet"}
                     /\ Product(t) = p /\ seen[t] \in Versions}

\* Mutant of Commit: the writer is answered before it invalidates.
CommitAnswersEarly(t, w, p) ==
    /\ row[p].live
    /\ Goto(t, "idle", "written")
    /\ at' = [at EXCEPT ![t] = <<w, p>>]
    /\ row' = IF t \in Updaters THEN [row EXCEPT ![p].ver = @ + 1]
                                ELSE [row EXCEPT ![p].live = FALSE]
    /\ seen' = [seen EXCEPT ![t] = row'[p].ver]
    /\ acked' = [acked EXCEPT ![p] = row'[p]]
    /\ raced' = IF Holding(p) = {} THEN raced ELSE raced \cup {p}
    /\ UNCHANGED <<coalescer, cache, filter, closed, coalescing, ids, resp, floor, lost>>

\* The UPDATE of a live row commits.
Commit(t, w, p) ==
    /\ row[p].live
    /\ Goto(t, "idle", "written")
    /\ at' = [at EXCEPT ![t] = <<w, p>>]
    /\ row' = IF t \in Updaters THEN [row EXCEPT ![p].ver = @ + 1]
                                ELSE [row EXCEPT ![p].live = FALSE]
    /\ seen' = [seen EXCEPT ![t] = row'[p].ver]
    /\ raced' = IF Holding(p) = {} THEN raced ELSE raced \cup {p}
    /\ UNCHANGED <<coalescer, cache, filter, closed, coalescing, ids, resp, acked, floor, lost>>

\* A PUT without fields only reads the row, and then invalidates all the same.
PutNothing(t, w, p) ==
    /\ t \in Updaters /\ row[p].live
    /\ Goto(t, "idle", "written")
    /\ at' = [at EXCEPT ![t] = <<w, p>>]
    /\ seen' = [seen EXCEPT ![t] = row[p].ver]
    /\ UNCHANGED <<coalescer, stores, filter, closed, coalescing, ids, resp, history>>

\* No live row matches, or the statement fails: nothing is written.
WriteFails(t, w, p) ==
    /\ at' = [at EXCEPT ![t] = <<w, p>>]
    /\ \/ ~row[p].live /\ Respond(t, "idle", NotFound)
       \/ Fault("postgres") /\ Respond(t, "idle", DbError)
    /\ UNCHANGED <<coalescer, stores, filter, closed, coalescing, seen, ids, history>>

\* Mutant of Evict: DEL names a key nobody reads.
EvictMisses(t) ==
    /\ Respond(t, "written", seen[t])
    /\ acked' = [acked EXCEPT ![Product(t)] = row[Product(t)]]
    /\ UNCHANGED <<coalescer, stores, filter, closed, coalescing, at, seen, ids, floor, raced, lost>>

\* Redis executes DEL, or fails and is ignored; the writer is answered.
Evict(t) ==
    LET p == Product(t) IN
    /\ Respond(t, "written", seen[t])
    /\ \/ cache' = [cache EXCEPT ![p] = Absent] /\ UNCHANGED lost
       \/ Fault("redis") /\ lost' = lost \cup {p} /\ UNCHANGED cache
    /\ acked' = [acked EXCEPT
                    ![p].ver  = IF @ < seen[t] THEN seen[t] ELSE @,
                    ![p].live = @ /\ t \notin Deleters]
    /\ UNCHANGED <<coalescer, row, filter, closed, coalescing, at, seen, ids, floor, raced>>

\* The connection fails after COMMIT was sent: the writer is told so and does
\* not invalidate what it did change.
CommitUnanswered(t) ==
    /\ Fault("postgres")
    /\ Respond(t, "written", DbError)
    /\ lost' = lost \cup {Product(t)}
    /\ UNCHANGED <<coalescer, stores, filter, closed, coalescing, at, seen, ids, acked, floor, raced>>

-----------------------------------------------------------------------------
(* BloomFilterService.build_from_db, called by the admin endpoint *)

\* The old filter is closed and replaced by an empty one before the SELECT.
Reset(t, w) ==
    /\ Goto(t, "idle", "selecting")
    /\ at' = [at EXCEPT ![t] = <<w, None>>]
    /\ filter' = [filter EXCEPT ![w] = {}]
    /\ closed' = closed \ {w}
    /\ UNCHANGED <<coalescer, stores, coalescing, seen, ids, resp, history>>

\* The old filter is closed and its file unlinked, and no new one can be
\* created: the worker keeps the closed one.
ResetFails(t, w) ==
    /\ Fault("rebuild")
    /\ Respond(t, "idle", FilterError)
    /\ at' = [at EXCEPT ![t] = <<w, None>>]
    /\ filter' = [filter EXCEPT ![w] = {}]
    /\ closed' = closed \cup {w}
    /\ UNCHANGED <<coalescer, stores, coalescing, seen, ids, history>>

\* Mutant of Select: it reads the deleted rows.
SelectDeleted(t) ==
    /\ Goto(t, "selecting", "adding")
    /\ ids' = [ids EXCEPT ![t] = Products \ Live]
    /\ UNCHANGED <<coalescer, stores, filter, closed, coalescing, at, seen, resp, history>>

Select(t) ==
    /\ Goto(t, "selecting", "adding")
    /\ ids' = [ids EXCEPT ![t] = Live]
    /\ UNCHANGED <<coalescer, stores, filter, closed, coalescing, at, seen, resp, history>>

AddRows(t) ==
    /\ Goto(t, "adding", "done")
    /\ Worker(t) \in closed => ids[t] = {}
    /\ filter' = [filter EXCEPT ![Worker(t)] = @ \cup BitsOfAll(ids[t])]
    /\ UNCHANGED <<coalescer, stores, closed, coalescing, at, seen, ids, resp, history>>

\* Another rebuild closed the filter meanwhile: the first add raises.
AddRowsFails(t) ==
    /\ Respond(t, "adding", FilterError)
    /\ Worker(t) \in closed /\ ids[t] # {}
    /\ UNCHANGED <<coalescer, stores, filter, closed, coalescing, at, seen, ids, history>>

\* The SELECT fails after the reset: the filter stays empty.
SelectFails(t) ==
    /\ Fault("rebuild")
    /\ Respond(t, "selecting", DbError)
    /\ UNCHANGED <<coalescer, stores, filter, closed, coalescing, at, seen, ids, history>>

-----------------------------------------------------------------------------
(* Tasks that are cancelled, workers that die *)

\* Where a reader is after it stops: a SET it may have sent is still under way.
After(t) == IF pc[t] = "loaded" /\ seen[t] \in Versions THEN "lateSet" ELSE "done"

\* CancelledError is raised at the await the task is at.  A leader hands it to
\* its waiters, a writer does not invalidate, a rebuild leaves the filter empty.
Cancel(t) ==
    /\ Fault("cancel")
    /\ pc[t] \in {"get", "got", "query", "loaded", "stored", "wait", "written", "selecting", "adding"}
    /\ pc' = [pc EXCEPT ![t] = After(t)]
    /\ resp' = [resp EXCEPT ![t] = Cancelled]
    /\ IF t \in Readers /\ role[t] \in {"leader", "waiter"}
       THEN Co!Cancel(t)
       ELSE UNCHANGED coalescer
    /\ lost' = IF pc[t] = "written" THEN lost \cup {Product(t)} ELSE lost
    /\ UNCHANGED <<stores, filter, closed, coalescing, at, seen, ids, acked, floor, raced>>

\* A worker is killed (by the timeout, or what is left of it after the graceful
\* one) or crashes, and its tasks with it.  Its replacement starts with a filter
\* built from Postgres and an empty coalescer.
Crash(w) ==
    /\ Fault("crash")
    /\ LET victims == {t \in Tasks : pc[t] \notin {"idle", "lateSet", "done"} /\ Worker(t) = w} IN
        /\ pc' = [t \in Tasks |-> IF t \in victims THEN After(t) ELSE pc[t]]
        /\ lost' = lost \cup {Product(t) : t \in {u \in victims : pc[u] = "written"}}
    /\ filter' = [filter EXCEPT ![w] = BitsOfAll(Live)]
    /\ closed' = closed \ {w}
    /\ Co!Restart(w)
    /\ UNCHANGED <<stores, coalescing, at, seen, ids, resp, acked, floor, raced>>

\* A SET whose sender is gone reaches Redis, or never does.
LateSet(t) ==
    /\ Goto(t, "lateSet", "done")
    /\ \/ cache' = [cache EXCEPT ![Product(t)] = seen[t]]
       \/ UNCHANGED cache
    /\ UNCHANGED <<coalescer, row, filter, closed, coalescing, at, seen, ids, resp, history>>

-----------------------------------------------------------------------------
Read(t)   == \/ CacheGet(t) \/ CacheHit(t) \/ CacheMiss(t)
             \/ QueryRow(t) \/ LoadFails(t) \/ Store(t) \/ LoadReturns(t) \/ AddRaises(t)
             \/ WaiterWakes(t)
Rebuild(t) == Select(t) \/ AddRows(t) \/ AddRowsFails(t) \/ SelectFails(t)

Next ==
    \/ \E t \in Readers :
        \/ \E w \in Workers, p \in Products : Arrive(t, w, p)
        \/ Read(t) \/ LateSet(t)
    \/ \E t \in Writers :
        \/ \E w \in Workers, p \in Products :
            Commit(t, w, p) \/ PutNothing(t, w, p) \/ WriteFails(t, w, p)
        \/ Evict(t) \/ CommitUnanswered(t)
    \/ \E t \in Rebuilders :
        \/ \E w \in Workers : Reset(t, w) \/ ResetFails(t, w)
        \/ Rebuild(t)
    \/ \E t \in Tasks : Cancel(t)
    \/ \E w \in Workers : Crash(w)
    \/ \E p \in Products : Expire(p)

\* The event loop resumes every task whose reply is there, the stores answer
\* or fail, and Redis expires what carries a TTL.
Fairness ==
    /\ \A t \in Readers : WF_vars(Read(t))
    /\ \A t \in Writers : WF_vars(Evict(t))
    /\ \A t \in Rebuilders : WF_vars(Rebuild(t))
    /\ \A p \in Products : WF_vars(Expire(p))

Spec == Init /\ [][Next]_vars /\ Fairness

-----------------------------------------------------------------------------
(* Properties *)

\* Every variable of this module holds a value of its kind.
TypeOK ==
    /\ coalescing \in BOOLEAN
    /\ row \in [Products -> [ver : Versions, live : BOOLEAN]]
    /\ cache \in [Products -> Entries]
    /\ filter \in [Workers -> SUBSET Bits]
    /\ closed \in SUBSET Workers
    /\ pc \in [Tasks -> {"idle", "get", "got", "query", "loaded", "stored", "wait", "lateSet",
                         "written", "selecting", "adding", "done"}]
    /\ at \in [Tasks -> (Workers \X (Products \cup {None})) \cup {None}]
    /\ seen \in [Tasks -> Entries \cup {NotFound, DbError, None}]
    /\ ids \in [Rebuilders -> SUBSET Products]
    /\ resp \in [Tasks -> Versions \cup {NotFound, Rejected, DbError, FilterError, Cancelled, None}]

Stale(p) == cache[p] \in Versions /\ (cache[p] # row[p].ver \/ ~row[p].live)

\* A cached product differs from its row only while its writer has yet to
\* invalidate it, or after one of two accidents: a load read the old row and
\* filled the cache late, or an invalidation did not happen.
StaleEntryHasCause ==
    \A p \in Products : Stale(p) =>
        \/ \E t \in Writers : pc[t] = "written" /\ Product(t) = p
        \/ p \in raced \cup lost

\* Barring those two accidents, a read that arrives after a write was answered
\* sees it, whichever worker serves it, from the cache, a query of its own or
\* a leader that was loading already.
FreshUnlessRaced ==
    \A t \in Readers : resp[t] \in Versions /\ Product(t) \notin raced \cup lost =>
        floor[t].live /\ resp[t] >= floor[t].ver

\* With coalescing on, one load of a product runs in a worker at a time, and a
\* cancelled or crashed one does not hold back the next.
OneLoadPerWorker ==
    coalescing =>
        \A t, u \in Readers :
            /\ {pc[t], pc[u]} \subseteq {"query", "loaded", "stored"}
            /\ at[t] = at[u]
            => t = u

\* A worker's filter accepts every live product, except between the reset and
\* the adds of a rebuild on that very worker, or after a rebuild that failed
\* there or was cancelled.
FilterCoversLive ==
    \A w \in Workers :
        \/ w \notin closed /\ \A p \in Live : MayContain(filter[w], p)
        \/ \E t \in Rebuilders : /\ pc[t] # "idle" /\ Worker(t) = w
                                 /\ pc[t] = "done" => resp[t] # None

\* Redis is optional: whatever it loses or refuses, a read fails only with an
\* error that Postgres gave for a load of that product in that worker, or that
\* the worker's filter raised after a rebuild could not create a new one.
FailOpen ==
    \A t \in Readers :
        /\ resp[t] = DbError => \E u \in Readers : at[u] = at[t] /\ seen[u] = DbError
        /\ resp[t] = FilterError =>
            \E r \in Rebuilders : resp[r] = FilterError /\ Worker(r) = Worker(t)

\* Seen from outside there is one store: the caches, the filters and the
\* coalescers of all workers are ProductStore, and the two accidents its excuse.
Clients == Readers \cup Writers
Api == INSTANCE ProductStore WITH
    Failures <- {DbError, FilterError, Cancelled},
    excused  <- raced \cup lost,
    asks     <- [t \in Clients |-> IF at[t] = None THEN None ELSE Product(t)],
    wrote    <- [t \in Writers |-> seen[t]],
    answer   <- [t \in Clients |-> resp[t]]

ImplementsStore == Api!Init /\ [][Api!Next]_Api!vars

\* Every request that was accepted ends.
EveryRequestEnds ==
    \A t \in Tasks : pc[t] # "idle" ~> pc[t] \in {"done", "lateSet"}

\* Once writes stop, whatever was stale expires and stays away.
EventuallyConsistent == <>[](\A p \in Products : ~Stale(p))

\* ADR-0006: "eventually consistent (next read after invalidation gets fresh
\* value)"; ProductService.update: "The next read will fetch the updated value."
FreshAfterAck ==
    \A t \in Readers : resp[t] \in Versions => floor[t].live /\ resp[t] >= floor[t].ver
===============================================================================
