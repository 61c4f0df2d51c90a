-------------------------------- MODULE Pools --------------------------------
(***************************************************************************)
(* The connection pools of each worker at their ceilings (src/db/engine.py,*)
(* src/db/redis.py) and who holds what while it waits for what else.  A    *)
(* request for Postgres beyond the ceiling queues; a command for Redis     *)
(* beyond it fails at once and is taken for a miss.  A session keeps its   *)
(* connection from its first statement to its commit, or to the end of the *)
(* request.  Coalescing is on, and is what SingleFlight promises.          *)
(***************************************************************************)
EXTENDS Naturals, FiniteSets

CONSTANTS
    Readers,    \* GET of one product
    Updaters,   \* PUT and DELETE of one product
    Listers,    \* GET of several products, and filter rebuilds
    Workers, Products,
    DbCeiling,      \* db_pool_size + db_max_overflow
    RedisCeiling,   \* redis_max_connections
    None, Pending, Cancelled, Loaded, Failed

Tasks == Readers \cup Updaters \cup Listers
Slots == Workers \X Products

ASSUME CeilingsAssumption == DbCeiling \in Nat \ {0} /\ RedisCeiling \in Nat \ {0}

\* A task makes one kind of request, and there are finitely many.
ASSUME TasksAssumption ==
    /\ IsFiniteSet(Tasks)
    /\ Readers \cap (Updaters \cup Listers) = {} /\ Updaters \cap Listers = {}

ASSUME SentinelsAssumption == None \notin Slots /\ Pending \notin {Loaded, Failed, Cancelled}

VARIABLES
    loading, asked, owed, got,  \* coalesce(), see SingleFlight
    db,         \* tasks with a connection of their worker's Postgres pool
    redis,      \* tasks with a connection of their worker's Redis pool
    cached,     \* products with an entry in Redis
    pc,         \* task -> where it is
    at,         \* task -> its worker and product
    fills       \* history: slot -> times it filled its entry since that was last gone

Flight == INSTANCE SingleFlight WITH Tasks <- Readers, Outcomes <- {Loaded, Failed, Cancelled}

flight == <<loading, asked, owed, got>>
pools  == <<db, redis>>
vars   == <<flight, pools, cached, pc, at, fills>>

Worker(t)  == at[t][1]
Product(t) == at[t][2]

\* Worker w's part of a pool, and whether it has a connection to give.
Of(pool, w) == {t \in pool : Worker(t) = w}
DbRoom(w)    == Cardinality(Of(db, w)) < DbCeiling
RedisRoom(w) == Cardinality(Of(redis, w)) < RedisCeiling

Goto(t, from, to) == pc[t] = from /\ pc' = [pc EXCEPT ![t] = to]

Init ==
    /\ Flight!Init
    /\ db = {} /\ redis = {}
    /\ cached \in SUBSET Products
    /\ pc = [t \in Tasks |-> "idle"]
    /\ at = [t \in Tasks |-> None]
    /\ fills = [s \in Slots |-> 0]

-----------------------------------------------------------------------------
(* The Postgres pool *)

\* Mutant of CheckOut: sessions connect without a pool.
CheckOutUnbounded(t, from, w) == Goto(t, from, "query") /\ db' = db \cup {t}

\* t of worker w executes its session's first statement.
CheckOut(t, from, w) ==
    IF DbRoom(w)
    THEN Goto(t, from, "query") /\ db' = db \cup {t}
    ELSE Goto(t, from, "queue") /\ UNCHANGED db

\* A connection was returned.  The queue is not fair: whoever comes may take it.
Granted(t) ==
    /\ Goto(t, "queue", "query")
    /\ DbRoom(Worker(t))
    /\ db' = db \cup {t}
    /\ UNCHANGED <<flight, redis, cached, at, fills>>

\* The pool's timeout: the request fails, and with it those that joined it.
TimedOut(t) ==
    /\ Goto(t, "queue", "done")
    /\ IF t \in Readers THEN Flight!Land(t, at[t], Failed) ELSE UNCHANGED flight
    /\ UNCHANGED <<pools, cached, at, fills>>

\* The response is sent and the session closed.
Close(t) ==
    /\ Goto(t, "closing", "done")
    /\ db' = db \ {t}
    /\ UNCHANGED <<flight, redis, cached, at, fills>>

-----------------------------------------------------------------------------
(* ProductService.get *)

\* The cache has no answer: lead a load, or wait for the one that runs.
Load(t, from, s) ==
    /\ Flight!Call(t, s)
    /\ IF s \in loading
       THEN Goto(t, from, "wait") /\ UNCHANGED db
       ELSE CheckOut(t, from, s[1])

\* The filter lets the request pass, and it sends GET.  Without a connection
\* for it, it goes on at once.
Get(t, w, p) ==
    /\ at' = [at EXCEPT ![t] = <<w, p>>]
    /\ IF RedisRoom(w)
       THEN Goto(t, "idle", "get") /\ redis' = redis \cup {t} /\ UNCHANGED <<flight, db>>
       ELSE Load(t, "idle", <<w, p>>) /\ UNCHANGED redis
    /\ UNCHANGED <<cached, fills>>

\* Redis answers.  The task goes on when the event loop comes to it.
GetAnswered(t) ==
    /\ Goto(t, "get", IF Product(t) \in cached THEN "hit" ELSE "miss")
    /\ UNCHANGED <<flight, pools, cached, at, fills>>

Hit(t) ==
    /\ Goto(t, "hit", "done")
    /\ redis' = redis \ {t}
    /\ UNCHANGED <<flight, db, cached, at, fills>>

\* Mutant of Miss: the command's connection is kept for the SET to come.
MissKeepsRedis(t) ==
    /\ pc[t] = "miss"
    /\ Load(t, "miss", at[t])
    /\ UNCHANGED <<redis, cached, at, fills>>

\* Mutant of Miss: a waiter reads through its session before it waits.
MissConnects(t) ==
    /\ pc[t] = "miss"
    /\ redis' = redis \ {t}
    /\ IF at[t] \in loading
       THEN /\ DbRoom(Worker(t)) /\ db' = db \cup {t}
            /\ Goto(t, "miss", "wait") /\ Flight!Call(t, at[t])
       ELSE Load(t, "miss", at[t])
    /\ UNCHANGED <<cached, at, fills>>

\* Mutant of Miss: a load is started whether or not one is running.
MissLeads(t) ==
    /\ pc[t] = "miss"
    /\ Flight!Call(t, at[t])
    /\ CheckOut(t, "miss", Worker(t))
    /\ redis' = redis \ {t}
    /\ UNCHANGED <<cached, at, fills>>

Miss(t) ==
    /\ pc[t] = "miss"
    /\ Load(t, "miss", at[t])
    /\ redis' = redis \ {t}
    /\ UNCHANGED <<cached, at, fills>>

\* The row arrives, and the leader sends SET while its session keeps its
\* connection.  Without a connection for it the load ends here.
RowFound(t) ==
    /\ pc[t] = "query"
    /\ IF RedisRoom(Worker(t))
       THEN Goto(t, "query", "set") /\ redis' = redis \cup {t} /\ UNCHANGED flight
       ELSE Goto(t, "query", "closing") /\ Flight!Land(t, at[t], Loaded) /\ UNCHANGED redis
    /\ UNCHANGED <<db, cached, at, fills>>

\* There is no such row, or the query fails.
NoRow(t) ==
    /\ Goto(t, "query", "closing")
    /\ Flight!Land(t, at[t], Failed)
    /\ UNCHANGED <<pools, cached, at, fills>>

SetAnswered(t) ==
    /\ Goto(t, "set", "closing")
    /\ Flight!Land(t, at[t], Loaded)
    /\ cached' = cached \cup {Product(t)}
    /\ fills' = [fills EXCEPT ![at[t]] = @ + 1]
    /\ redis' = redis \ {t}
    /\ UNCHANGED <<db, at>>

\* A waiter needs no connection, and is answered with the leader's outcome.
Woken(t) ==
    /\ Goto(t, "wait", "done")
    /\ Flight!Deliver(t)
    /\ UNCHANGED <<pools, cached, at, fills>>

-----------------------------------------------------------------------------
(* Other requests *)

Put(t, w, p) ==
    /\ at' = [at EXCEPT ![t] = <<w, p>>]
    /\ CheckOut(t, "idle", w)
    /\ UNCHANGED <<flight, redis, cached, fills>>

\* The statement is answered.  A commit returns the connection; a PUT without
\* fields only reads, and keeps it.  Then DEL is sent if there is a row and a
\* connection for it.
Written(t) ==
    /\ UNCHANGED <<flight, cached, at, fills>>
    /\ db' \in {db, db \ {t}}
    /\ \/ Goto(t, "query", "del") /\ RedisRoom(Worker(t)) /\ redis' = redis \cup {t}
       \/ Goto(t, "query", "closing") /\ UNCHANGED redis

\* The product's entry is gone, by DEL or by its TTL.
Forget(p) ==
    /\ cached' = cached \ {p}
    /\ fills' = [s \in Slots |-> IF s[2] = p THEN 0 ELSE fills[s]]

DelAnswered(t) ==
    /\ Goto(t, "del", "closing")
    /\ Forget(Product(t))
    /\ redis' = redis \ {t}
    /\ UNCHANGED <<flight, db, at>>

Expire(p) ==
    /\ p \in cached
    /\ Forget(p)
    /\ UNCHANGED <<flight, pools, pc, at>>

\* One query that takes as long as it takes: a list, or a rebuild.
List(t, w) ==
    /\ at' = [at EXCEPT ![t] = <<w, None>>]
    /\ CheckOut(t, "idle", w)
    /\ UNCHANGED <<flight, redis, cached, fills>>

Listed(t) ==
    /\ Goto(t, "query", "closing")
    /\ UNCHANGED <<flight, pools, cached, at, fills>>

\* The client disconnects.  A SET may have been executed all the same.
Disconnect(t) ==
    /\ pc[t] \notin {"idle", "closing", "done"}
    /\ pc' = [pc EXCEPT ![t] = "done"]
    /\ db' = db \ {t} /\ redis' = redis \ {t}
    /\ IF pc[t] = "set" THEN cached' \in {cached, cached \cup {Product(t)}} ELSE UNCHANGED cached
    /\ IF t \in Readers /\ pc[t] \in {"queue", "query", "set"} THEN Flight!Land(t, at[t], Cancelled)
       ELSE IF pc[t] = "wait" THEN Flight!GiveUp(t)
       ELSE UNCHANGED flight
    /\ UNCHANGED <<at, fills>>

-----------------------------------------------------------------------------
Read(t)  == GetAnswered(t) \/ Hit(t) \/ Miss(t) \/ RowFound(t) \/ NoRow(t) \/ SetAnswered(t) \/ Woken(t)
Write(t) == Written(t) \/ DelAnswered(t)

\* What a request does once it is sent, without timeouts and disconnects.
Proceed(t) ==
    \/ Granted(t) \/ Close(t)
    \/ t \in Readers /\ Read(t)
    \/ t \in Updaters /\ Write(t)
    \/ t \in Listers /\ Listed(t)

Next ==
    \/ \E t \in Readers, w \in Workers, p \in Products : Get(t, w, p)
    \/ \E t \in Updaters, w \in Workers, p \in Products : Put(t, w, p)
    \/ \E t \in Listers, w \in Workers : List(t, w)
    \/ \E t \in Tasks : Proceed(t) \/ TimedOut(t) \/ Disconnect(t)
    \/ \E p \in Products : Expire(p)

Spec == Init /\ [][Next]_vars

\* Stores answer and the event loop comes to every task; nobody needs to time
\* out, disconnect or expire.
Fairness == \A t \in Tasks : WF_vars(Proceed(t))
FairSpec == Spec /\ Fairness

-----------------------------------------------------------------------------
WithinCeilings ==
    \A w \in Workers :
        Cardinality(Of(db, w)) <= DbCeiling /\ Cardinality(Of(redis, w)) <= RedisCeiling

\* Every variable holds a value of its kind, and the pools keep to their
\* ceilings in each worker.
TypeOK ==
    /\ loading \subseteq Slots
    /\ asked \in [Readers -> Slots \cup {None}]
    /\ owed \in [Readers -> {Pending, Loaded, Failed, Cancelled}]
    /\ got \in [Readers -> {Pending, Loaded, Failed, Cancelled}]
    /\ db \subseteq Tasks /\ redis \subseteq Readers \cup Updaters
    /\ cached \subseteq Products
    /\ pc \in [Tasks -> {"idle", "get", "hit", "miss", "wait", "queue", "query", "set", "del",
                         "closing", "done"}]
    /\ at \in [Tasks -> (Workers \X (Products \cup {None})) \cup {None}]
    /\ fills \in [Slots -> 0 .. Cardinality(Readers)]
    /\ WithinCeilings

\* Whoever waits for a connection or for another request's load holds no
\* connection of either pool, and whoever uses both took Postgres first: the
\* pools can be exhausted but not deadlocked.
NoHoldAndWait ==
    \A t \in Tasks :
        /\ pc[t] \in {"queue", "wait"} => t \notin db \cup redis
        /\ t \in db \cap redis => pc[t] \in {"set", "del"}

\* Coalescing bounds what readers take from the Postgres pool: of those that
\* load a product in a worker one has, or queues for, a connection, however
\* many requests miss at once and whatever the pools do.
OneConnectionPerLoad ==
    \A s \in Slots :
        LET loaders == {t \in Readers : at[t] = s /\ pc[t] \in {"queue", "query", "set"}}
        IN  Cardinality(loaders) <= 1 /\ (loaders # {} <=> s \in loading)

\* Every request ends though nobody times out: pool ceilings queue requests,
\* they never stop them.
EveryRequestEnds == \A t \in Tasks : pc[t] # "idle" ~> pc[t] = "done"

\* The documentation's bound on duplicate queries, src/service/coalescer.py:45-46:
\* a worker loads a product once per expiry.
OneQueryPerExpiry == \A s \in Slots : fills[s] <= 1
=============================================================================
