------------------------------ MODULE PoolsProofs ------------------------------
(***************************************************************************)
(* The pools at their ceilings, for any ceilings and any number of tasks:  *)
(* what a task holds goes with where it is, a slot has a load exactly      *)
(* while one reader runs it, and no guard of SingleFlight ever stops a     *)
(* reader.  That everything ends is left to TLC.                           *)
(***************************************************************************)
EXTENDS Pools, FiniteSetTheorems, TLAPS

\* Readers that run the load of their slot.
Loading(t) == pc[t] \in {"queue", "query", "set"}

\* TypeOK without its bounds.
Kinds ==
    /\ loading \subseteq Slots
    /\ asked \in [Readers -> Slots \cup {None}]
    /\ owed \in [Readers -> {Pending, Loaded, Failed, Cancelled}]
    /\ got \in [Readers -> {Pending, Loaded, Failed, Cancelled}]
    /\ cached \subseteq Products
    /\ pc \in [Tasks -> {"idle", "get", "hit", "miss", "wait", "queue", "query", "set", "del",
                         "closing", "done"}]
    /\ at \in [Tasks -> (Workers \X (Products \cup {None})) \cup {None}]
    /\ fills \in [Slots -> Nat]

\* Every task is where its kind of request can be, and knows its request.
Placed ==
    /\ \A t \in Readers : pc[t] # "del" /\ (pc[t] # "idle" => at[t] \in Slots)
    /\ \A t \in Updaters :
        /\ pc[t] \in {"idle", "queue", "query", "del", "closing", "done"}
        /\ pc[t] # "idle" => at[t] \in Slots
    /\ \A t \in Listers :
        /\ pc[t] \in {"idle", "queue", "query", "closing", "done"}
        /\ pc[t] # "idle" => at[t] \in Workers \X {None}

\* What a task holds goes with where it is.
Held ==
    /\ db \subseteq {t \in Tasks : pc[t] \in {"query", "set", "del", "closing"}}
    /\ redis \subseteq {t \in Readers \cup Updaters : pc[t] \in {"get", "hit", "miss", "set", "del"}}

\* A slot has a load exactly while one reader runs it.
OneLoader ==
    /\ \A t \in Readers : Loading(t) => at[t] \in loading
    /\ \A s \in loading : \E t \in Readers : Loading(t) /\ at[t] = s
    /\ \A t, u \in Readers : Loading(t) /\ Loading(u) /\ at[t] = at[u] => t = u

\* Readers that may have filled an entry.
Past == {t \in Readers : pc[t] \in {"closing", "done"}}

\* Each reader fills one entry at most.
FillsCounted == \A s \in Slots : fills[s] <= Cardinality(Past)

Control == Kinds /\ Placed /\ Held
IInv == Control /\ OneLoader /\ WithinCeilings /\ FillsCounted

-----------------------------------------------------------------------------
LEMMA TasksCounted ==
    \A tasks \in SUBSET Tasks : IsFiniteSet(tasks) /\ Cardinality(tasks) \in Nat
BY TasksAssumption, FS_Subset, FS_CardinalityType

\* A set of tasks has room for one more as long as it is below the ceiling.
LEMMA RoomForOne ==
    ASSUME NEW before \in SUBSET Tasks, NEW t \in Tasks, NEW after, NEW ceiling \in Nat,
           \/ after \subseteq before /\ Cardinality(before) <= ceiling
           \/ after \subseteq before \cup {t} /\ Cardinality(before) < ceiling
    PROVE  Cardinality(after) <= ceiling
<1>1. IsFiniteSet(before) /\ Cardinality(before) \in Nat
  BY TasksCounted
<1>2. CASE after \subseteq before /\ Cardinality(before) <= ceiling
  BY <1>1, <1>2, FS_Subset, FS_CardinalityType
<1>3. CASE after \subseteq before \cup {t} /\ Cardinality(before) < ceiling
  <2>1. PICK more : more = before \cup {t}
    OBVIOUS
  <2>2. IsFiniteSet(more) /\ Cardinality(more) <= Cardinality(before) + 1
    BY <1>1, <2>1, FS_AddElement, SMTT(30)
  <2>3. Cardinality(after) <= Cardinality(more)
    BY <1>3, <2>1, <2>2, FS_Subset
  <2>4. Cardinality(after) \in Nat /\ Cardinality(more) \in Nat
    BY <1>3, <2>1, <2>2, FS_Subset, FS_CardinalityType
  <2> QED
    BY <1>1, <1>3, <2>2, <2>3, <2>4
<1> QED
  BY <1>2, <1>3

-----------------------------------------------------------------------------
LEMMA InitHolds == Init => IInv
<1> SUFFICES ASSUME Init
             PROVE  IInv
  OBVIOUS
<1> USE DEF Init, Flight!Init
<1>1. Control
  BY DEF Control, Kinds, Placed, Held, Tasks
<1>2. OneLoader
  BY DEF OneLoader, Loading, Tasks
<1>3. WithinCeilings
  <2>1. \A w : Of(db, w) = {} /\ Of(redis, w) = {}
    BY DEF Of
  <2> QED
    BY <2>1, FS_EmptySet, CeilingsAssumption DEF WithinCeilings
<1>4. FillsCounted
  <2>1. Past \in SUBSET Tasks
    BY DEF Past, Tasks
  <2> QED
    BY <2>1, TasksCounted DEF FillsCounted
<1> QED
  BY <1>1, <1>2, <1>3, <1>4 DEF IInv

\* Every step keeps the kinds, the places and what goes with them.
LEMMA ControlNext == Control /\ [Next]_vars => Control'
<1> SUFFICES ASSUME Control, [Next]_vars
             PROVE  Control'
  OBVIOUS
<1> USE TasksAssumption DEF Control, Kinds, Placed, Held, Tasks, Slots
<1>1. ASSUME NEW t \in Readers, NEW w \in Workers, NEW p \in Products, Get(t, w, p)
      PROVE  Control'
  <2>1. Kinds'
    <3>1. <<w, p>> \in Slots /\ at' \in [Tasks -> (Workers \X (Products \cup {None})) \cup {None}]
      BY <1>1 DEF Get
    <3>2. CASE RedisRoom(w)
      <4>1. pc' \in [Tasks -> {"idle", "get", "hit", "miss", "wait", "queue", "query", "set", "del",
                              "closing", "done"}]
        BY <1>1, <3>2 DEF Get, Goto
      <4>2. UNCHANGED <<flight, cached, fills>>
        BY <1>1, <3>2 DEF Get
      <4> QED
        BY <3>1, <4>1, <4>2 DEF flight
    <3>3. CASE ~RedisRoom(w)
      <4>1. Load(t, "idle", <<w, p>>) /\ UNCHANGED <<cached, fills>>
        BY <1>1, <3>3 DEF Get
      <4>2. /\ loading' \subseteq Slots /\ asked' \in [Readers -> Slots \cup {None}]
            /\ UNCHANGED <<owed, got>>
        BY <3>1, <4>1 DEF Load, Flight!Call
      <4>3. pc' \in [Tasks -> {"idle", "get", "hit", "miss", "wait", "queue", "query", "set", "del",
                              "closing", "done"}]
        BY <4>1 DEF Load, CheckOut, Goto
      <4> QED
        BY <3>1, <4>1, <4>2, <4>3
    <3> QED
      BY <3>2, <3>3
  <2>2. Placed'
    BY <1>1 DEF Get, Load, CheckOut, Goto, Flight!Call
  <2>3. Held'
    BY <1>1 DEF Get, Load, CheckOut, Goto, Flight!Call
  <2> QED
    BY <2>1, <2>2, <2>3
<1>2. ASSUME NEW t \in Updaters, NEW w \in Workers, NEW p \in Products, Put(t, w, p)
      PROVE  Control'
  <2>1. Kinds'
    BY <1>2 DEF Put, CheckOut, Goto, flight
  <2>2. Placed'
    BY <1>2 DEF Put, CheckOut, Goto, flight
  <2>3. Held'
    BY <1>2 DEF Put, CheckOut, Goto, flight
  <2> QED
    BY <2>1, <2>2, <2>3
<1>3. ASSUME NEW t \in Listers, NEW w \in Workers, List(t, w)
      PROVE  Control'
  <2>1. Kinds'
    <3>1. at' \in [Tasks -> (Workers \X (Products \cup {None})) \cup {None}]
      BY <1>3 DEF List
    <3>2. pc' \in [Tasks -> {"idle", "get", "hit", "miss", "wait", "queue", "query", "set", "del",
                            "closing", "done"}]
      BY <1>3 DEF List, CheckOut, Goto
    <3>3. UNCHANGED <<flight, cached, fills>>
      BY <1>3 DEF List
    <3> QED
      BY <3>1, <3>2, <3>3 DEF flight
  <2>2. Placed'
    BY <1>3 DEF List, CheckOut, Goto, flight
  <2>3. Held'
    BY <1>3 DEF List, CheckOut, Goto, flight
  <2> QED
    BY <2>1, <2>2, <2>3
<1>4. ASSUME NEW t \in Tasks, Granted(t) \/ Close(t)
      PROVE  Control'
  BY <1>4 DEF Granted, Close, Goto, flight
<1>5. ASSUME NEW t \in Readers, GetAnswered(t) \/ Hit(t)
      PROVE  Control'
  <2>1. Kinds'
    BY <1>5 DEF GetAnswered, Hit, Goto, flight, pools
  <2>2. Placed'
    BY <1>5 DEF GetAnswered, Hit, Goto, flight, pools
  <2>3. Held'
    BY <1>5 DEF GetAnswered, Hit, Goto, flight, pools
  <2> QED
    BY <2>1, <2>2, <2>3
<1>6. ASSUME NEW t \in Readers, Miss(t)
      PROVE  Control'
  BY <1>6 DEF Miss, Load, CheckOut, Goto, Flight!Call
<1>7. ASSUME NEW t \in Readers, RowFound(t) \/ NoRow(t)
      PROVE  Control'
  BY <1>7 DEF RowFound, NoRow, Goto, Flight!Land, flight, pools
<1>8. ASSUME NEW t \in Readers, SetAnswered(t)
      PROVE  Control'
  BY <1>8 DEF SetAnswered, Goto, Flight!Land, Product
<1>9. ASSUME NEW t \in Readers, Woken(t)
      PROVE  Control'
  BY <1>9 DEF Woken, Goto, Flight!Deliver, Flight!Depart, pools
<1>10. ASSUME NEW t \in Updaters, Write(t)
       PROVE  Control'
  BY <1>10 DEF Write, Written, DelAnswered, Forget, Goto, flight, Product
<1>11. ASSUME NEW t \in Listers, Listed(t)
       PROVE  Control'
  BY <1>11 DEF Listed, Goto, flight, pools
<1>12. ASSUME NEW t \in Tasks, TimedOut(t)
       PROVE  Control'
  BY <1>12 DEF TimedOut, Goto, Flight!Land, flight, pools
<1>13. ASSUME NEW t \in Tasks, Disconnect(t)
       PROVE  Control'
  <2>1. Kinds'
    BY <1>13 DEF Disconnect, Goto, Flight!Land, Flight!GiveUp, Flight!Depart, flight, Product
  <2>2. Placed'
    BY <1>13 DEF Disconnect, Goto, Flight!Land, Flight!GiveUp, Flight!Depart, flight, Product
  <2>3. Held'
    BY <1>13 DEF Disconnect, Goto, Flight!Land, Flight!GiveUp, Flight!Depart, flight, Product
  <2> QED
    BY <2>1, <2>2, <2>3
<1>14. ASSUME NEW p \in Products, Expire(p)
       PROVE  Control'
  BY <1>14 DEF Expire, Forget, flight, pools
<1>15. CASE UNCHANGED vars
  BY <1>15 DEF vars, flight, pools
<1> QED
  BY <1>1, <1>2, <1>3, <1>4, <1>5, <1>6, <1>7, <1>8, <1>9, <1>10, <1>11, <1>12, <1>13, <1>14, <1>15
     DEF Next, Proceed, Read

-----------------------------------------------------------------------------
\* Who runs loads, and for which slots, is as before; nobody else starts one.
LEMMA LoadersKept ==
    ASSUME OneLoader, loading' = loading,
           \A t \in Readers :
                (Loading(t)' <=> Loading(t)) /\ (Loading(t) => at'[t] = at[t])
    PROVE  OneLoader'
BY DEF OneLoader

\* A reader starts the load of a slot that has none.
LEMMA LoaderStarts ==
    ASSUME OneLoader, NEW t \in Readers, NEW s, s \notin loading, loading' = loading \cup {s},
           at'[t] = s, ~Loading(t), Loading(t)',
           \A u \in Readers \ {t} :
                (Loading(u)' <=> Loading(u)) /\ (Loading(u) => at'[u] = at[u])
    PROVE  OneLoader'
BY DEF OneLoader

\* The reader that runs a load ends it.
LEMMA LoaderEnds ==
    ASSUME OneLoader, NEW t \in Readers, Loading(t), loading' = loading \ {at[t]}, ~Loading(t)',
           at' = at, \A u \in Readers \ {t} : Loading(u)' <=> Loading(u)
    PROVE  OneLoader'
BY DEF OneLoader

\* Load(), from any place where no load is run.
LEMMA LoadStarts ==
    ASSUME Control, OneLoader, NEW t \in Readers, NEW from \in {"idle", "miss"}, NEW s,
           Load(t, from, s), at'[t] = s, \A u \in Readers \ {t} : at'[u] = at[u]
    PROVE  OneLoader'
<1> USE DEF Control, Kinds, Tasks
<1>1. pc[t] = from /\ ~Loading(t)
  BY DEF Load, CheckOut, Goto, Loading
<1>2. \A u \in Readers \ {t} : Loading(u)' <=> Loading(u)
  BY DEF Load, CheckOut, Goto, Loading
<1>3. CASE s \in loading
  <2>1. loading' = loading /\ ~Loading(t)'
    BY <1>3 DEF Load, Goto, Flight!Call, Loading
  <2> QED
    BY <1>1, <1>2, <2>1, LoadersKept
<1>4. CASE s \notin loading
  <2>1. loading' = loading \cup {s} /\ Loading(t)'
    BY <1>4 DEF Load, CheckOut, Goto, Flight!Call, Loading
  <2> QED
    BY <1>1, <1>2, <1>4, <2>1, LoaderStarts
<1> QED
  BY <1>3, <1>4

\* No step runs a load twice, or leaves a slot with one that nobody runs.
LEMMA OneLoaderNext == Control /\ OneLoader /\ [Next]_vars => OneLoader'
<1> SUFFICES ASSUME Control, OneLoader, [Next]_vars
             PROVE  OneLoader'
  OBVIOUS
<1> USE TasksAssumption DEF Control, Kinds, Tasks
<1>1. ASSUME NEW t \in Readers, NEW w \in Workers, NEW p \in Products, Get(t, w, p)
      PROVE  OneLoader'
  <2>1. CASE RedisRoom(w)
    <3>1. loading' = loading /\ \A u \in Readers : Loading(u)' <=> Loading(u)
      BY <1>1, <2>1 DEF Get, Goto, flight, Loading
    <3>2. \A u \in Readers : Loading(u) => at'[u] = at[u]
      BY <1>1, <2>1 DEF Get, Goto, Loading
    <3> QED
      BY <3>1, <3>2, LoadersKept
  <2>2. CASE ~RedisRoom(w)
    BY <1>1, <2>2, LoadStarts DEF Get
  <2> QED
    BY <2>1, <2>2
<1>2. ASSUME NEW t \in Updaters \cup Listers, NEW w \in Workers,
             List(t, w) \/ \E p \in Products : Put(t, w, p)
      PROVE  OneLoader'
  <2>1. loading' = loading
    BY <1>2 DEF List, Put, flight
  <2>2. \A u \in Readers : pc'[u] = pc[u] /\ at'[u] = at[u]
    BY <1>2 DEF List, Put, CheckOut, Goto
  <2> QED
    BY <2>1, <2>2, LoadersKept DEF Loading
<1>3. ASSUME NEW t \in Tasks, Granted(t) \/ Close(t)
      PROVE  OneLoader'
  <2>1. \A u \in Readers : Loading(u)' <=> Loading(u)
    BY <1>3 DEF Granted, Close, Goto, Loading
  <2> QED
    BY <1>3, <2>1, LoadersKept DEF Granted, Close, flight
<1>4. ASSUME NEW t \in Readers, GetAnswered(t) \/ Hit(t)
      PROVE  OneLoader'
  <2>1. \A u \in Readers : Loading(u)' <=> Loading(u)
    BY <1>4 DEF GetAnswered, Hit, Goto, Loading
  <2> QED
    BY <1>4, <2>1, LoadersKept DEF GetAnswered, Hit, flight
<1>5. ASSUME NEW t \in Readers, Miss(t)
      PROVE  OneLoader'
  BY <1>5, LoadStarts DEF Miss
<1>6. ASSUME NEW t \in Readers, RowFound(t)
      PROVE  OneLoader'
  <2>1. CASE RedisRoom(Worker(t))
    <3>1. \A u \in Readers : Loading(u)' <=> Loading(u)
      BY <1>6, <2>1 DEF RowFound, Goto, Loading
    <3> QED
      BY <1>6, <2>1, <3>1, LoadersKept DEF RowFound, flight
  <2>2. CASE ~RedisRoom(Worker(t))
    <3>1. /\ Loading(t) /\ ~Loading(t)'
          /\ \A u \in Readers \ {t} : Loading(u)' <=> Loading(u)
      BY <1>6, <2>2 DEF RowFound, Goto, Loading
    <3> QED
      BY <1>6, <2>2, <3>1, LoaderEnds DEF RowFound, Flight!Land
  <2> QED
    BY <2>1, <2>2
<1>7. ASSUME NEW t \in Readers, NoRow(t) \/ SetAnswered(t)
      PROVE  OneLoader'
  <2>1. /\ Loading(t) /\ ~Loading(t)'
        /\ \A u \in Readers \ {t} : Loading(u)' <=> Loading(u)
    BY <1>7 DEF NoRow, SetAnswered, Goto, Loading
  <2> QED
    BY <1>7, <2>1, LoaderEnds DEF NoRow, SetAnswered, Flight!Land
<1>8. ASSUME NEW t \in Readers, Woken(t)
      PROVE  OneLoader'
  <2>1. \A u \in Readers : Loading(u)' <=> Loading(u)
    BY <1>8 DEF Woken, Goto, Loading
  <2> QED
    BY <1>8, <2>1, LoadersKept DEF Woken, Flight!Deliver, Flight!Depart
<1>9. ASSUME NEW t \in Updaters \cup Listers, Write(t) \/ Listed(t)
      PROVE  OneLoader'
  <2>1. \A u \in Readers : pc'[u] = pc[u] /\ at'[u] = at[u]
    BY <1>9 DEF Write, Written, DelAnswered, Listed, Goto
  <2>2. loading' = loading
    BY <1>9 DEF Write, Written, DelAnswered, Listed, flight
  <2> QED
    BY <2>1, <2>2, LoadersKept DEF Loading
<1>10. ASSUME NEW t \in Tasks, TimedOut(t)
       PROVE  OneLoader'
  <2>1. CASE t \in Readers
    <3>1. /\ Loading(t) /\ ~Loading(t)'
          /\ \A u \in Readers \ {t} : Loading(u)' <=> Loading(u)
      BY <1>10, <2>1 DEF TimedOut, Goto, Loading
    <3> QED
      BY <1>10, <2>1, <3>1, LoaderEnds DEF TimedOut, Flight!Land
  <2>2. CASE t \notin Readers
    <3>1. \A u \in Readers : pc'[u] = pc[u] /\ at'[u] = at[u]
      BY <1>10, <2>2 DEF TimedOut, Goto
    <3> QED
      BY <1>10, <2>2, <3>1, LoadersKept DEF TimedOut, flight, Loading
  <2> QED
    BY <2>1, <2>2
<1>11. ASSUME NEW t \in Tasks, Disconnect(t)
       PROVE  OneLoader'
  <2>0. at' = at /\ \A u \in Tasks \ {t} : pc'[u] = pc[u]
    BY <1>11 DEF Disconnect
  <2>1. CASE t \in Readers /\ Loading(t)
    <3>1. ~Loading(t)' /\ \A u \in Readers \ {t} : Loading(u)' <=> Loading(u)
      BY <1>11, <2>0, <2>1 DEF Disconnect, Loading
    <3>2. Flight!Land(t, at[t], Cancelled)
      BY <1>11, <2>1 DEF Disconnect, Loading
    <3> QED
      BY <2>0, <2>1, <3>1, <3>2, LoaderEnds DEF Flight!Land
  <2>2. CASE ~(t \in Readers /\ Loading(t))
    <3>1. \A u \in Readers : Loading(u)' <=> Loading(u)
      BY <1>11, <2>0, <2>2 DEF Disconnect, Loading
    <3>2. loading' = loading
      BY <1>11, <2>2 DEF Disconnect, Loading, Flight!GiveUp, Flight!Depart, flight
    <3> QED
      BY <2>0, <3>1, <3>2, LoadersKept
  <2> QED
    BY <2>1, <2>2
<1>12. ASSUME NEW p \in Products, Expire(p)
       PROVE  OneLoader'
  BY <1>12, LoadersKept DEF Expire, flight, Loading
<1>13. CASE UNCHANGED vars
  BY <1>13, LoadersKept DEF vars, flight, Loading
<1> QED
  BY <1>1, <1>2, <1>3, <1>4, <1>5, <1>6, <1>7, <1>8, <1>9, <1>10, <1>11, <1>12, <1>13
     DEF Next, Proceed, Read

-----------------------------------------------------------------------------
\* A step of one task, which takes only connections that there is room for.
LEMMA CeilingsKept ==
    ASSUME Control, WithinCeilings, NEW t \in Tasks, \A u \in Tasks \ {t} : at'[u] = at[u],
           db' \subseteq db \cup {t}, redis' \subseteq redis \cup {t},
           t \in db' => (t \in db /\ at'[t] = at[t]) \/ DbRoom(at'[t][1]),
           t \in redis' => (t \in redis /\ at'[t] = at[t]) \/ RedisRoom(at'[t][1])
    PROVE  WithinCeilings'
<1> SUFFICES ASSUME NEW w \in Workers
             PROVE  /\ Cardinality(Of(db, w)') <= DbCeiling
                    /\ Cardinality(Of(redis, w)') <= RedisCeiling
  BY DEF WithinCeilings
<1>1. db \subseteq Tasks /\ redis \subseteq Tasks
  BY DEF Control, Held, Tasks
<1>2. PICK heldDb, heldRedis : heldDb = Of(db, w) /\ heldRedis = Of(redis, w)
  OBVIOUS
<1>3. heldDb \in SUBSET Tasks /\ heldRedis \in SUBSET Tasks
  BY <1>1, <1>2 DEF Of
<1>4. Cardinality(heldDb) <= DbCeiling /\ Cardinality(heldRedis) <= RedisCeiling
  BY <1>2 DEF WithinCeilings
<1>5. \/ Of(db, w)' \subseteq heldDb
      \/ Of(db, w)' \subseteq heldDb \cup {t} /\ Cardinality(heldDb) < DbCeiling
  <2>1. CASE t \in db' /\ DbRoom(w)
    BY <1>1, <1>2, <2>1 DEF Of, Worker, DbRoom
  <2>2. CASE ~(t \in db' /\ DbRoom(w))
    BY <1>1, <1>2, <2>2 DEF Of, Worker
  <2> QED
    BY <2>1, <2>2
<1>6. \/ Of(redis, w)' \subseteq heldRedis
      \/ Of(redis, w)' \subseteq heldRedis \cup {t} /\ Cardinality(heldRedis) < RedisCeiling
  <2>1. CASE t \in redis' /\ RedisRoom(w)
    BY <1>1, <1>2, <2>1 DEF Of, Worker, RedisRoom
  <2>2. CASE ~(t \in redis' /\ RedisRoom(w))
    BY <1>1, <1>2, <2>2 DEF Of, Worker
  <2> QED
    BY <2>1, <2>2
<1> QED
  BY <1>3, <1>4, <1>5, <1>6, RoomForOne, CeilingsAssumption

\* No step takes a connection from a pool that has none to give.
LEMMA CeilingsNext == Control /\ WithinCeilings /\ [Next]_vars => WithinCeilings'
<1> SUFFICES ASSUME Control, WithinCeilings, [Next]_vars
             PROVE  WithinCeilings'
  OBVIOUS
<1> USE DEF Tasks
<1>0. /\ \A t \in Tasks : pc[t] = "idle" => t \notin db /\ t \notin redis
      /\ \A t \in Tasks : pc[t] = "query" => t \notin redis
  BY DEF Control, Held
<1>1. ASSUME NEW t \in Readers, NEW w \in Workers, NEW p \in Products, Get(t, w, p)
      PROVE  WithinCeilings'
  <2>1. at'[t][1] = w /\ \A u \in Tasks \ {t} : at'[u] = at[u]
    BY <1>1 DEF Get, Control, Kinds
  <2>2. /\ db' \subseteq db \cup {t} /\ redis' \subseteq redis \cup {t}
        /\ t \in redis' => t \in redis \/ RedisRoom(w)
        /\ t \in db' => t \in db \/ DbRoom(w)
    BY <1>1 DEF Get, Load, CheckOut
  <2>3. t \notin db /\ t \notin redis
    BY <1>0, <1>1 DEF Get, Load, CheckOut, Goto
  <2> QED
    BY <2>1, <2>2, <2>3, CeilingsKept
<1>2. ASSUME NEW t \in Updaters \cup Listers, NEW w \in Workers,
             List(t, w) \/ \E p \in Products : Put(t, w, p)
      PROVE  WithinCeilings'
  <2>1. /\ at'[t][1] = w /\ \A u \in Tasks \ {t} : at'[u] = at[u]
        /\ CheckOut(t, "idle", w) /\ redis' = redis
    BY <1>2 DEF List, Put, Control, Kinds
  <2>2. t \notin db /\ t \notin redis
    BY <1>0, <2>1 DEF CheckOut, Goto
  <2>3. db' \subseteq db \cup {t} /\ (t \in db' => DbRoom(w))
    BY <2>1, <2>2 DEF CheckOut
  <2> QED
    BY <2>1, <2>2, <2>3, CeilingsKept
<1>3. ASSUME NEW t \in Tasks, Granted(t) \/ Close(t)
      PROVE  WithinCeilings'
  BY <1>3, CeilingsKept DEF Granted, Close, Worker
<1>4. ASSUME NEW t \in Readers, Read(t)
      PROVE  WithinCeilings'
  <2>1. at' = at
    BY <1>4 DEF Read, GetAnswered, Hit, Miss, RowFound, NoRow, SetAnswered, Woken
  <2>2. /\ db' \subseteq db \cup {t} /\ redis' \subseteq redis \cup {t}
        /\ t \in db' => t \in db \/ DbRoom(at[t][1])
        /\ t \in redis' => t \in redis \/ RedisRoom(at[t][1])
    BY <1>4
       DEF Read, GetAnswered, Hit, Miss, RowFound, NoRow, SetAnswered, Woken, Load, CheckOut, pools,
           Worker
  <2> QED
    BY <2>1, <2>2, CeilingsKept
<1>5. ASSUME NEW t \in Updaters, Write(t)
      PROVE  WithinCeilings'
  <2>1. at' = at
    BY <1>5 DEF Write, Written, DelAnswered
  <2>2. /\ db' \subseteq db /\ redis' \subseteq redis \cup {t}
        /\ t \in redis' => t \in redis \/ RedisRoom(at[t][1])
    BY <1>5 DEF Write, Written, DelAnswered, Worker
  <2> QED
    BY <2>1, <2>2, CeilingsKept
<1>6. ASSUME NEW t \in Tasks, TimedOut(t) \/ Disconnect(t) \/ Listed(t)
      PROVE  WithinCeilings'
  BY <1>6, CeilingsKept DEF TimedOut, Disconnect, Listed, pools
<1>7. CASE UNCHANGED vars \/ \E p \in Products : Expire(p)
  BY <1>7 DEF vars, Expire, pools, WithinCeilings, Of, Worker
<1> QED
  BY <1>1, <1>2, <1>3, <1>4, <1>5, <1>6, <1>7 DEF Next, Proceed

-----------------------------------------------------------------------------
\* Entries filled no more often, and readers that are past their fill stay so.
LEMMA FillsKept ==
    ASSUME Control, Control', FillsCounted, Past \subseteq Past',
           \A s \in Slots : fills'[s] <= fills[s]
    PROVE  FillsCounted'
<1>1. Past \in SUBSET Tasks /\ Past' \in SUBSET Tasks
  BY DEF Past, Tasks
<1>2. Cardinality(Past) <= Cardinality(Past')
  BY <1>1, TasksCounted, FS_Subset
<1>3. Cardinality(Past) \in Nat /\ Cardinality(Past') \in Nat
  BY <1>1, TasksCounted
<1>4. \A s \in Slots : fills[s] \in Nat /\ fills'[s] \in Nat
  BY DEF Control, Kinds
<1> QED
  BY <1>2, <1>3, <1>4 DEF FillsCounted

\* A reader that fills an entry is past it.
LEMMA FillsNext == Control /\ FillsCounted /\ [Next]_vars => FillsCounted'
<1> SUFFICES ASSUME Control, FillsCounted, [Next]_vars
             PROVE  FillsCounted'
  OBVIOUS
<1>0. Control'
  BY ControlNext
<1>1. ASSUME NEW t \in Readers, SetAnswered(t)
      PROVE  FillsCounted'
  <2>1. t \notin Past /\ Past \cup {t} \subseteq Past'
    BY <1>1 DEF SetAnswered, Goto, Past, Control, Kinds, Tasks
  <2>2. PICK before, more : before = Past /\ more = Past \cup {t}
    OBVIOUS
  <2>3. before \in SUBSET Tasks /\ more \in SUBSET Tasks /\ Past' \in SUBSET Tasks
    BY <2>2 DEF Past, Tasks
  <2>4. IsFiniteSet(before) /\ Cardinality(before) \in Nat /\ Cardinality(Past') \in Nat
    BY <2>3, TasksCounted
  <2>5. Cardinality(more) = Cardinality(before) + 1
    BY <2>1, <2>2, <2>4, FS_AddElement
  <2>6. Cardinality(more) <= Cardinality(Past')
    BY <2>1, <2>2, <2>3, TasksCounted, FS_Subset
  <2>7. \A s \in Slots : fills[s] \in Nat /\ fills'[s] <= fills[s] + 1
    BY <1>1 DEF SetAnswered, Control, Kinds
  <2>8. \A s \in Slots : fills'[s] \in Nat
    BY <1>0 DEF Control, Kinds
  <2> QED
    BY <2>2, <2>4, <2>5, <2>6, <2>7, <2>8 DEF FillsCounted
<1>2. ASSUME \A t \in Readers : ~SetAnswered(t)
      PROVE  FillsCounted'
  <2>1. \A s \in Slots : fills[s] \in Nat
    BY DEF Control, Kinds
  <2>2. \A s \in Slots : fills'[s] <= fills[s]
    <3>1. fills' = fills \/ \E p \in Products : Forget(p)
      <4>1. ASSUME NEW t \in Updaters, Write(t)
            PROVE  fills' = fills \/ \E p \in Products : Forget(p)
        BY <4>1 DEF Write, Written, DelAnswered, Product, Control, Placed, Goto, Slots
      <4>2. ASSUME NEW p \in Products, Expire(p)
            PROVE  Forget(p)
        BY <4>2 DEF Expire
      <4>3. ASSUME NEW t \in Readers, Read(t)
            PROVE  fills' = fills
        BY <1>2, <4>3 DEF Read, GetAnswered, Hit, Miss, RowFound, NoRow, Woken
      <4>4. ASSUME NEW t \in Tasks, Granted(t) \/ Close(t) \/ Listed(t) \/ TimedOut(t) \/ Disconnect(t)
            PROVE  fills' = fills
        BY <4>4 DEF Granted, Close, Listed, TimedOut, Disconnect
      <4>5. ASSUME NEW t \in Tasks, NEW w \in Workers,
                   List(t, w) \/ \E p \in Products : Put(t, w, p) \/ Get(t, w, p)
            PROVE  fills' = fills
        BY <4>5 DEF List, Put, Get
      <4>6. CASE UNCHANGED vars
        BY <4>6 DEF vars
      <4> QED
        BY <4>1, <4>2, <4>3, <4>4, <4>5, <4>6 DEF Next, Proceed, Tasks
    <3>2. ASSUME NEW p \in Products, Forget(p)
          PROVE  \A s \in Slots : fills'[s] <= fills[s]
      BY <2>1, <3>2 DEF Forget
    <3> QED
      BY <2>1, <3>1, <3>2
  <2>3. Past \subseteq Past'
    <3>1. ASSUME NEW u \in Readers, pc[u] \in {"closing", "done"}
          PROVE  pc'[u] \in {"closing", "done"}
      <4> USE TasksAssumption DEF Control, Kinds, Tasks, Goto
      <4>1. ASSUME NEW t \in Readers, NEW w \in Workers, NEW p \in Products, Get(t, w, p)
            PROVE  pc'[u] \in {"closing", "done"}
        BY <3>1, <4>1 DEF Get, Load, CheckOut
      <4>2. ASSUME NEW t \in Tasks, NEW w \in Workers, List(t, w) \/ \E p \in Products : Put(t, w, p)
            PROVE  pc'[u] \in {"closing", "done"}
        BY <3>1, <4>2 DEF List, Put, CheckOut
      <4>3. ASSUME NEW t \in Readers, Read(t)
            PROVE  pc'[u] \in {"closing", "done"}
        BY <3>1, <4>3
           DEF Read, GetAnswered, Hit, Miss, RowFound, NoRow, SetAnswered, Woken, Load, CheckOut
      <4>4. ASSUME NEW t \in Tasks,
                   Write(t) \/ Granted(t) \/ Close(t) \/ Listed(t) \/ TimedOut(t) \/ Disconnect(t)
            PROVE  pc'[u] \in {"closing", "done"}
        BY <3>1, <4>4 DEF Write, Written, DelAnswered, Granted, Close, Listed, TimedOut, Disconnect
      <4>5. CASE UNCHANGED vars \/ \E p \in Products : Expire(p)
        BY <3>1, <4>5 DEF vars, Expire
      <4> QED
        BY <4>1, <4>2, <4>3, <4>4, <4>5 DEF Next, Proceed
    <3> QED
      BY <3>1 DEF Past
  <2> QED
    BY <1>0, <2>2, <2>3, FillsKept
<1> QED
  BY <1>1, <1>2

-----------------------------------------------------------------------------
\* The inductive invariant holds whatever times out, disconnects or expires.
THEOREM Invariant == Spec => []IInv
<1>1. IInv /\ [Next]_vars => IInv'
  BY ControlNext, OneLoaderNext, CeilingsNext, FillsNext DEF IInv
<1> QED
  BY <1>1, InitHolds, PTL DEF Spec

\* Types, and pools that keep to their ceilings.
THEOREM TypeCorrect == Spec => []TypeOK
<1>1. IInv => TypeOK
  <2> SUFFICES ASSUME IInv
               PROVE  TypeOK
    OBVIOUS
  <2>1. Past \in SUBSET Tasks /\ Past \subseteq Readers /\ Readers \in SUBSET Tasks
    BY DEF Past, Tasks
  <2>2. IsFiniteSet(Readers) /\ Cardinality(Past) \in Nat /\ Cardinality(Readers) \in Nat
    BY <2>1, TasksCounted
  <2>3. Cardinality(Past) <= Cardinality(Readers)
    BY <2>1, <2>2, FS_Subset
  <2>4. \A s \in Slots : fills[s] \in 0 .. Cardinality(Readers)
    BY <2>2, <2>3 DEF IInv, FillsCounted, Control, Kinds
  <2>5. fills \in [Slots -> 0 .. Cardinality(Readers)]
    BY <2>4 DEF IInv, Control, Kinds
  <2> QED
    BY <2>5 DEF IInv, Control, Kinds, Held, TypeOK
<1> QED
  BY <1>1, Invariant, PTL

\* Nobody waits for a connection, or for another's load, while holding one.
THEOREM NobodyHoldsAndWaits == Spec => []NoHoldAndWait
<1>1. IInv => NoHoldAndWait
  BY DEF IInv, Control, Held, NoHoldAndWait
<1> QED
  BY <1>1, Invariant, PTL

\* Of the readers that load a product in a worker one uses the pool.
THEOREM LoadsShareConnections == Spec => []OneConnectionPerLoad
<1>1. IInv => OneConnectionPerLoad
  <2> SUFFICES ASSUME IInv, NEW s \in Slots
               PROVE  LET loaders == {t \in Readers : at[t] = s /\ Loading(t)}
                      IN  Cardinality(loaders) <= 1 /\ (loaders # {} <=> s \in loading)
    BY DEF OneConnectionPerLoad, Loading
  <2>1. PICK loaders : loaders = {t \in Readers : at[t] = s /\ Loading(t)}
    OBVIOUS
  <2>2. loaders # {} <=> s \in loading
    BY <2>1 DEF IInv, OneLoader
  <2>3. Cardinality(loaders) <= 1
    <3>1. CASE loaders = {}
      <4>1. Cardinality({}) = 0
        BY FS_EmptySet
      <4> QED
        BY <3>1, <4>1
    <3>2. CASE loaders # {}
      <4>1. PICK t : loaders = {t}
        BY <2>1, <3>2 DEF IInv, OneLoader
      <4>2. Cardinality({t}) = 1
        BY FS_Singleton
      <4> QED
        BY <4>1, <4>2
    <3> QED
      BY <3>1, <3>2
  <2> QED
    BY <2>1, <2>2, <2>3
<1> QED
  BY <1>1, Invariant, PTL

-----------------------------------------------------------------------------
(* The requests and coalesce().  Their actions perform those of SingleFlight *)
(* as part of their own, guards included, which the code does not test: that *)
(* no guard ever stops a request has to be shown.                            *)

\* Whoever loads or waits has asked for its slot and nobody else has; a waiter's
\* load is running or has landed.
Attached ==
    \A t \in Readers :
        /\ Loading(t) => asked[t] = at[t] /\ owed[t] = Pending
        /\ pc[t] = "wait" => asked[t] = at[t] /\ (owed[t] # Pending \/ at[t] \in loading)
        /\ ~Loading(t) /\ pc[t] # "wait" => asked[t] = None /\ owed[t] = Pending
        /\ pc[t] \in {"idle", "get", "hit", "miss"} => got[t] = Pending

\* A reader may call coalesce() when it missed, a loader may land, and a waiter
\* may always give up, and is owed an outcome or has a loader that will land.
NeverBlocked ==
    \A t \in Readers :
        /\ pc[t] \in {"idle", "miss"} => asked[t] = None /\ got[t] = Pending
        /\ Loading(t) => at[t] \in loading /\ t \in Flight!Sharing(at[t])
        /\ pc[t] = "wait" =>
            /\ asked[t] # None
            /\ owed[t] = Pending => \E u \in Readers : Loading(u) /\ at[u] = at[t]

\* A reader that calls coalesce() is attached to its slot.
LEMMA AttachedLoads ==
    ASSUME Control, OneLoader, Attached, NEW t \in Readers, NEW from \in {"idle", "miss"},
           NEW s \in Slots, Load(t, from, s), at'[t] = s, \A u \in Readers \ {t} : at'[u] = at[u]
    PROVE  Attached'
<1>1. /\ pc[t] = from /\ pc'[t] \in {"queue", "query", "wait"} /\ (pc'[t] = "wait" => s \in loading)
      /\ \A u \in Readers \ {t} : pc'[u] = pc[u]
  BY DEF Load, CheckOut, Goto, Control, Kinds, Tasks
<1>2. /\ asked'[t] = s /\ \A u \in Readers \ {t} : asked'[u] = asked[u]
      /\ owed' = owed /\ got' = got /\ loading' = loading \cup {s}
  BY DEF Load, Flight!Call, Control, Kinds
<1>3. owed[t] = Pending
  BY <1>1 DEF Attached, Loading
<1> QED
  BY <1>1, <1>2, <1>3 DEF Attached, Loading

\* A load that lands sets free its loader, and its waiters are owed the outcome.
LEMMA AttachedLands ==
    ASSUME Control, OneLoader, Attached, NEW t \in Readers, Loading(t),
           NEW o \in {Loaded, Failed, Cancelled}, Flight!Land(t, at[t], o),
           pc'[t] \in {"closing", "done"}, at' = at, \A u \in Readers \ {t} : pc'[u] = pc[u]
    PROVE  Attached'
<1>1. /\ asked'[t] = None /\ \A u \in Readers \ {t} : asked'[u] = asked[u]
      /\ \A u \in Readers \ {t} : got'[u] = got[u]
      /\ loading' = loading \ {at[t]}
  BY DEF Flight!Land, Control, Kinds
<1>2. \A u \in Readers :
        owed'[u] = IF u # t /\ asked[u] = at[t] /\ owed[u] = Pending THEN o ELSE owed[u]
  BY DEF Flight!Land, Flight!Sharing
<1>3. o # Pending
  BY SentinelsAssumption
<1>4. owed'[t] = Pending /\ asked'[t] = None
  BY <1>1, <1>2 DEF Attached
<1>5. ASSUME NEW u \in Readers, u # t
      PROVE  /\ Loading(u) => asked'[u] = at[u] /\ owed'[u] = Pending
             /\ pc[u] = "wait" => asked'[u] = at[u] /\ (owed'[u] # Pending \/ at[u] \in loading')
             /\ ~Loading(u) /\ pc[u] # "wait" => asked'[u] = None /\ owed'[u] = Pending
             /\ pc[u] \in {"idle", "get", "hit", "miss"} => got'[u] = Pending
  <2>1. CASE Loading(u)
    <3>1. asked[u] = at[u] /\ owed[u] = Pending /\ at[u] # at[t]
      BY <1>5, <2>1 DEF Attached, OneLoader
    <3> QED
      BY <1>1, <1>2, <1>5, <2>1, <3>1 DEF Loading
  <2>2. CASE pc[u] = "wait"
    <3>1. asked[u] = at[u] /\ (owed[u] # Pending \/ at[u] \in loading)
      BY <2>2 DEF Attached
    <3>2. CASE asked[u] = at[t] /\ owed[u] = Pending
      BY <1>1, <1>2, <1>3, <1>5, <2>2, <3>1, <3>2 DEF Loading
    <3>3. CASE ~(asked[u] = at[t] /\ owed[u] = Pending)
      BY <1>1, <1>2, <1>5, <2>2, <3>1, <3>3 DEF Loading
    <3> QED
      BY <3>2, <3>3
  <2>3. CASE ~Loading(u) /\ pc[u] # "wait"
    <3>1. asked[u] = None /\ owed[u] = Pending /\ None # at[t]
      BY <2>3, SentinelsAssumption DEF Attached, Control, Placed, Loading
    <3>2. pc[u] \in {"idle", "get", "hit", "miss"} => got[u] = Pending
      BY DEF Attached
    <3> QED
      BY <1>1, <1>2, <1>5, <2>3, <3>1, <3>2
  <2> QED
    BY <2>1, <2>2, <2>3
<1> QED
  BY <1>4, <1>5 DEF Attached, Loading

\* A waiter that leaves is attached no more.
LEMMA AttachedLeaves ==
    ASSUME Control, Attached, NEW t \in Readers, NEW o, Flight!Depart(t, o),
           pc'[t] = "done", at' = at, \A u \in Readers \ {t} : pc'[u] = pc[u]
    PROVE  Attached'
<1>1. /\ asked'[t] = None /\ owed'[t] = Pending /\ loading' = loading
      /\ \A u \in Readers \ {t} : asked'[u] = asked[u] /\ owed'[u] = owed[u] /\ got'[u] = got[u]
  BY DEF Flight!Depart, Control, Kinds
<1> QED
  BY <1>1 DEF Attached, Loading

\* A step past coalesce() moves nobody in or out of it.
LEMMA AttachedKept ==
    ASSUME Attached, UNCHANGED flight,
           \A u \in Readers :
               \/ pc'[u] = pc[u] /\ at'[u] = at[u]
               \/ Loading(u) /\ Loading(u)' /\ at'[u] = at[u]
               \/ pc[u] \in {"idle", "get", "hit", "miss"} /\ pc'[u] \in {"get", "hit", "miss", "done"}
               \/ pc[u] = "closing" /\ pc'[u] = "done"
    PROVE  Attached'
BY DEF Attached, flight, Loading

LEMMA AttachedInit == Init => Attached
BY DEF Init, Flight!Init, Attached, Loading, Tasks

\* Every step keeps readers attached.
LEMMA AttachedNext == Control /\ OneLoader /\ Attached /\ [Next]_vars => Attached'
<1> SUFFICES ASSUME Control, OneLoader, Attached, [Next]_vars
             PROVE  Attached'
  OBVIOUS
<1>p. pc \in [Tasks -> {"idle", "get", "hit", "miss", "wait", "queue", "query", "set", "del",
                        "closing", "done"}]
  BY DEF Control, Kinds
<1>s. \A t \in Readers : pc[t] # "idle" => at[t] \in Slots
  BY DEF Control, Placed
<1>a. at \in [Tasks -> (Workers \X (Products \cup {None})) \cup {None}]
  BY DEF Control, Kinds
<1>1. ASSUME NEW t \in Readers, NEW w \in Workers, NEW p \in Products, Get(t, w, p)
      PROVE  Attached'
  <2>1. <<w, p>> \in Slots /\ at'[t] = <<w, p>> /\ \A u \in Readers \ {t} : at'[u] = at[u]
    BY <1>1, <1>a DEF Get, Slots, Tasks
  <2>2. CASE RedisRoom(w)
    <3>1. UNCHANGED flight /\ Goto(t, "idle", "get")
      BY <1>1, <2>2 DEF Get
    <3> QED
      BY <2>1, <3>1, <1>p, AttachedKept DEF Goto, Tasks
  <2>3. CASE ~RedisRoom(w)
    <3>1. Load(t, "idle", <<w, p>>)
      BY <1>1, <2>3 DEF Get
    <3> QED
      BY <2>1, <3>1, AttachedLoads
  <2> QED
    BY <2>2, <2>3
<1>2. ASSUME NEW t \in Readers, Miss(t)
      PROVE  Attached'
  <2>1. at[t] \in Slots /\ at' = at /\ Load(t, "miss", at[t])
    BY <1>2, <1>s DEF Miss
  <2> QED
    BY <2>1, AttachedLoads
<1>3. ASSUME NEW t \in Readers, Loading(t), NEW o \in {Loaded, Failed, Cancelled},
             Flight!Land(t, at[t], o), at' = at,
             pc' = [pc EXCEPT ![t] = "closing"] \/ pc' = [pc EXCEPT ![t] = "done"]
      PROVE  Attached'
  BY <1>3, <1>p, AttachedLands DEF Tasks
<1>4. ASSUME NEW t \in Readers, RowFound(t) \/ NoRow(t) \/ SetAnswered(t)
      PROVE  Attached'
  <2>1. Loading(t) /\ at' = at
    BY <1>4 DEF RowFound, NoRow, SetAnswered, Goto, Loading
  <2>2. CASE \E o \in {Loaded, Failed} : Flight!Land(t, at[t], o) /\ pc' = [pc EXCEPT ![t] = "closing"]
    BY <1>3, <2>1, <2>2
  <2>3. CASE UNCHANGED flight /\ Goto(t, "query", "set")
    BY <2>1, <2>3, <1>p, AttachedKept DEF Goto, Loading, Tasks
  <2> QED
    BY <1>4, <2>2, <2>3 DEF RowFound, NoRow, SetAnswered, Goto
<1>5. ASSUME NEW t \in Readers, NEW o, Flight!Depart(t, o),
             pc' = [pc EXCEPT ![t] = "done"], at' = at
      PROVE  Attached'
  BY <1>5, <1>p, AttachedLeaves DEF Tasks
<1>6. ASSUME NEW t \in Readers, Woken(t)
      PROVE  Attached'
  <2>1. Flight!Depart(t, owed[t]) /\ pc' = [pc EXCEPT ![t] = "done"] /\ at' = at
    BY <1>6 DEF Woken, Goto, Flight!Deliver
  <2> QED
    BY <2>1, <1>5
<1>7. ASSUME NEW t \in Readers, GetAnswered(t) \/ Hit(t)
      PROVE  Attached'
  <2>1. UNCHANGED flight /\ at' = at
    BY <1>7 DEF GetAnswered, Hit, pools
  <2>2. /\ pc[t] \in {"get", "hit"} /\ pc'[t] \in {"hit", "miss", "done"}
        /\ \A u \in Readers \ {t} : pc'[u] = pc[u]
    BY <1>7, <1>p DEF GetAnswered, Hit, Goto, Tasks
  <2> QED
    BY <2>1, <2>2, AttachedKept
<1>8. ASSUME NEW t \in Updaters \cup Listers, UNCHANGED flight,
             \A u \in Tasks \ {t} : pc'[u] = pc[u] /\ at'[u] = at[u]
      PROVE  Attached'
  BY <1>8, TasksAssumption, AttachedKept DEF Tasks
<1>9. ASSUME NEW t \in Updaters \cup Listers, NEW w,
             List(t, w) \/ \E p \in Products : Put(t, w, p)
      PROVE  Attached'
  <2>1. UNCHANGED flight
    BY <1>9 DEF List, Put
  <2>2. \A u \in Tasks \ {t} : pc'[u] = pc[u] /\ at'[u] = at[u]
    BY <1>9, <1>p, <1>a DEF List, Put, CheckOut, Goto
  <2> QED
    BY <1>8, <2>1, <2>2
<1>10. ASSUME NEW t \in Updaters \cup Listers, Write(t) \/ Listed(t)
       PROVE  Attached'
  <2>1. UNCHANGED flight
    BY <1>10 DEF Write, Written, DelAnswered, Listed
  <2>2. \A u \in Tasks \ {t} : pc'[u] = pc[u] /\ at'[u] = at[u]
    BY <1>10, <1>p, <1>a DEF Write, Written, DelAnswered, Listed, Goto
  <2> QED
    BY <1>8, <2>1, <2>2
<1>11. ASSUME NEW t \in Tasks, Granted(t) \/ Close(t)
       PROVE  Attached'
  <2>1. UNCHANGED flight /\ at' = at
    BY <1>11 DEF Granted, Close
  <2>2. /\ \/ pc[t] = "queue" /\ pc'[t] = "query"
           \/ pc[t] = "closing" /\ pc'[t] = "done"
        /\ \A u \in Tasks \ {t} : pc'[u] = pc[u]
    BY <1>11, <1>p DEF Granted, Close, Goto
  <2> QED
    BY <2>1, <2>2, AttachedKept DEF Loading, Tasks
<1>12. ASSUME NEW t \in Tasks, TimedOut(t)
       PROVE  Attached'
  <2>1. CASE t \in Readers
    BY <1>3, <1>12, <2>1 DEF TimedOut, Goto, Loading
  <2>2. CASE t \notin Readers
    BY <1>8, <1>12, <2>2 DEF TimedOut, Goto, Tasks
  <2> QED
    BY <2>1, <2>2
<1>13. ASSUME NEW t \in Tasks, Disconnect(t)
       PROVE  Attached'
  <2>0. at' = at /\ pc' = [pc EXCEPT ![t] = "done"] /\ pc[t] \notin {"idle", "closing", "done"}
    BY <1>13 DEF Disconnect
  <2>1. CASE t \in Readers /\ Loading(t)
    BY <1>3, <1>13, <2>0, <2>1 DEF Disconnect, Loading
  <2>2. CASE t \in Readers /\ pc[t] = "wait"
    <3>1. Flight!Depart(t, Cancelled)
      BY <1>13, <2>2 DEF Disconnect, Flight!GiveUp
    <3> QED
      BY <1>5, <2>0, <2>2, <3>1
  <2>3. CASE t \in Readers /\ pc[t] \in {"get", "hit", "miss"}
    <3>1. UNCHANGED flight
      BY <1>13, <2>3 DEF Disconnect
    <3> QED
      BY <2>0, <2>3, <3>1, <1>p, AttachedKept DEF Tasks
  <2>4. CASE t \notin Readers
    <3>1. pc[t] # "wait"
      BY <2>4 DEF Control, Placed, Tasks
    <3>2. UNCHANGED flight
      BY <1>13, <2>4, <3>1 DEF Disconnect
    <3> QED
      BY <1>8, <2>0, <2>4, <3>2 DEF Tasks
  <2> QED
    BY <2>0, <2>1, <2>2, <2>3, <2>4, <1>p DEF Loading, Control, Placed, Tasks
<1>14. CASE UNCHANGED vars \/ \E p \in Products : Expire(p)
  BY <1>14, AttachedKept DEF vars, Expire
<1>15. ASSUME NEW t \in Tasks, Proceed(t)
       PROVE  Attached'
  BY <1>2, <1>4, <1>6, <1>7, <1>10, <1>11, <1>15 DEF Proceed, Read
<1> QED
  BY <1>1, <1>9, <1>12, <1>13, <1>14, <1>15 DEF Next

\* Readers stay attached to their slots.
LEMMA AttachedAlways == Spec => []Attached
<1>1. IInv /\ Attached /\ [Next]_vars => Attached'
  BY AttachedNext DEF IInv
<1> QED
  BY <1>1, AttachedInit, Invariant, PTL DEF Spec

\* No request is stopped by a condition of SingleFlight that the code has not,
\* and no waiter is left without an outcome or a loader, whatever times out or
\* disconnects.
THEOREM RequestsNeverBlocked == Spec => []NeverBlocked
<1>1. IInv /\ Attached => NeverBlocked
  <2> SUFFICES ASSUME IInv, Attached, NEW t \in Readers
               PROVE  /\ pc[t] \in {"idle", "miss"} => asked[t] = None /\ got[t] = Pending
                      /\ Loading(t) => at[t] \in loading /\ t \in Flight!Sharing(at[t])
                      /\ pc[t] = "wait" =>
                          /\ asked[t] # None
                          /\ owed[t] = Pending => \E u \in Readers : Loading(u) /\ at[u] = at[t]
    BY DEF NeverBlocked
  <2>1. pc[t] # "idle" => at[t] \in Slots /\ at[t] # None
    BY SentinelsAssumption DEF IInv, Control, Placed
  <2>2. pc[t] \in {"idle", "miss"} => asked[t] = None /\ got[t] = Pending
    BY DEF Attached, Loading
  <2>3. Loading(t) => at[t] \in loading /\ t \in Flight!Sharing(at[t])
    BY DEF Attached, IInv, OneLoader, Flight!Sharing
  <2>4. pc[t] = "wait" => asked[t] # None /\ (owed[t] = Pending => at[t] \in loading)
    BY <2>1 DEF Attached
  <2> QED
    BY <2>2, <2>3, <2>4 DEF IInv, OneLoader
<1> QED
  BY <1>1, AttachedAlways, Invariant, PTL
===============================================================================
