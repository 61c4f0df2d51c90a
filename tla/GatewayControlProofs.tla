------------------------- MODULE GatewayControlProofs -------------------------
(***************************************************************************)
(* The gateway's control, for every set of tasks, workers and products:    *)
(* its types, where its tasks can be, and how a reader's place in          *)
(* ProductService.get goes with its place in the coalescer.  The inductive *)
(* invariant of CoalescerProofs is reused: every step of the gateway is a  *)
(* step of the coalescers, or leaves them alone.                           *)
(***************************************************************************)
EXTENDS CacheGateway, FiniteSetTheorems, TLAPS

CP == INSTANCE CoalescerProofs WITH
    Tasks <- Readers, Keys <- Products, Values <- Versions, Errors <- {NotFound, DbError, FilterError}

\* What Postgres may hold of a product.
RowStates == [ver : Versions, live : BOOLEAN]

\* Every task is where its kind of request can be, and knows its request.
Placed ==
    /\ \A t \in Readers :
        /\ pc[t] \in {"idle", "get", "got", "query", "loaded", "stored", "wait", "lateSet", "done"}
        /\ pc[t] # "idle" => at[t] \in Workers \X Products /\ floor[t] \in RowStates
        /\ pc[t] = "loaded" => seen[t] \in Versions \cup {NotFound, DbError}
        /\ pc[t] \in {"stored", "lateSet"} => seen[t] \in Versions
    /\ \A t \in Writers :
        /\ pc[t] \in {"idle", "written", "done"}
        /\ pc[t] # "idle" => at[t] \in Workers \X Products
        /\ pc[t] = "written" => seen[t] \in Versions
    /\ \A t \in Rebuilders :
        /\ pc[t] \in {"idle", "selecting", "adding", "done"}
        /\ pc[t] # "idle" => at[t] \in Workers \X {None}

\* The history variables hold what their comments say.
HistoryOK ==
    /\ acked \in [Products -> RowStates]
    /\ floor \in [Readers -> RowStates \cup {None}]
    /\ raced \in SUBSET Products
    /\ lost \in SUBSET Products

\* Updaters that have sent their request.
Started == {u \in Updaters : pc[u] # "idle"}

\* An update raises a version by one, and each updater updates once.
Counted == \A p \in Products : row[p].ver <= 1 + Cardinality(Started)

\* Where a reader is in ProductService.get is where it is in coalesce().
Linked ==
    \A t \in Readers :
        /\ role[t] = "idle" \/ coalescing
        /\ role[t] \in {"leader", "waiter"} => slot[t] = at[t]
        /\ role[t] = "leader" => pc[t] \in {"query", "loaded", "stored"}
        /\ role[t] = "waiter" <=> pc[t] = "wait"
        /\ coalescing /\ pc[t] \in {"query", "loaded", "stored"} => role[t] = "leader"

\* What the proofs of the gateway's properties rest on.
Control == TypeOK /\ Placed /\ HistoryOK /\ Counted /\ Linked /\ CP!IInv

-----------------------------------------------------------------------------
\* The filter only ever holds positions of the bit array.
LEMMA BitsTyped == \A products \in SUBSET Products : BitsOfAll(products) \in SUBSET Bits
BY BitsOfAssumption DEF BitsOfAll

\* What the coalescer's own invariant says of the types of its variables.
LEMMA CoalescerTyped ==
    CP!IInv =>
        /\ inflight \in [Workers \X Products -> Readers \cup {None}]
        /\ future \in [Readers -> Versions \cup {NotFound, DbError, FilterError, Cancelled, None, Pending}]
        /\ role \in [Readers -> {"idle", "leader", "waiter", "done", "lost"}]
        /\ slot \in [Readers -> (Workers \X Products) \cup {None}]
        /\ awaits \in [Readers -> Readers \cup {None}]
        /\ outcome \in [Readers -> Versions \cup {NotFound, DbError, FilterError, Cancelled, Pending}]
BY DEF CP!IInv, CP!TypeOK, CP!Slots, CP!Outcomes, CP!Roles

\* A waiter awaits a leader of its own slot, and what it is resumed with is an
\* outcome.
LEMMA WaiterServed ==
    ASSUME CP!IInv, NEW t \in Readers, role[t] = "waiter"
    PROVE  /\ awaits[t] \in Readers
           /\ slot[awaits[t]] = slot[t]
           /\ future[awaits[t]] # Pending =>
                future[awaits[t]] \in Versions \cup {NotFound, DbError, FilterError, Cancelled}
BY DEF CP!IInv, CP!WaiterAttached, CP!LeaderRegistered, CP!LeaderKeepsOutcome, CP!Outcomes

\* An update that is still to come leaves room for its version.
LEMMA RoomForOneMore ==
    ASSUME Counted, NEW t \in Updaters, pc[t] = "idle",
           NEW p \in Products, row[p].ver \in Versions
    PROVE  row[p].ver + 1 \in Versions
<1>1. Started \subseteq Updaters /\ Started \cup {t} \subseteq Updaters /\ t \notin Started
  BY DEF Started
<1>2. IsFiniteSet(Started) /\ IsFiniteSet(Started \cup {t})
  BY <1>1, TasksAssumption, FS_Subset
<1>3. Cardinality(Started \cup {t}) = Cardinality(Started) + 1
  BY <1>1, <1>2, FS_AddElement
<1>4. Cardinality(Started \cup {t}) <= Cardinality(Updaters)
  BY <1>1, TasksAssumption, FS_Subset
<1>5. Cardinality(Started) \in Nat /\ Cardinality(Updaters) \in Nat
  BY <1>2, TasksAssumption, FS_CardinalityType
<1>6. row[p].ver <= 1 + Cardinality(Started)
  BY DEF Counted
<1> QED
  BY <1>3, <1>4, <1>5, <1>6 DEF Versions

-----------------------------------------------------------------------------
\* Every step keeps the types, the places and the link to coalesce().
LEMMA ControlNext == ASSUME Control, [Next]_vars PROVE TypeOK' /\ Placed' /\ HistoryOK' /\ Linked'
<1> USE TasksAssumption, SentinelsAssumption DEF Tasks, Writers, Worker, Product, Fault, vars,
    stores, history, coalescer
<1>1. ASSUME NEW t \in Readers, NEW w \in Workers, NEW p \in Products, Arrive(t, w, p)
      PROVE  TypeOK' /\ Placed' /\ HistoryOK' /\ Linked'
  <2>1. TypeOK'
    BY <1>1 DEF Control, TypeOK, Placed, Entries, RowStates, Arrive, Respond, Goto
  <2>2. Placed'
    BY <1>1 DEF Control, TypeOK, Placed, HistoryOK, Entries, Arrive, Respond, Goto
  <2>3. HistoryOK'
    BY <1>1 DEF Control, TypeOK, Placed, HistoryOK, RowStates, Arrive, Respond, Goto
  <2>4. Linked'
    BY <1>1, CoalescerTyped DEF Control, TypeOK, Placed, Linked, Arrive, Respond, Goto
  <2> QED
    BY <2>1, <2>2, <2>3, <2>4
<1>2. ASSUME NEW t \in Readers, CacheGet(t)
      PROVE  TypeOK' /\ Placed' /\ HistoryOK' /\ Linked'
  <2>1. TypeOK'
    <3>1. cache[Product(t)] \in Entries
      BY <1>2 DEF Control, TypeOK, Placed, CacheGet, Goto
    <3> QED
      BY <1>2, <3>1 DEF Control, TypeOK, Entries, CacheGet, Goto
  <2>2. Placed'
    BY <1>2 DEF Control, TypeOK, Placed, Entries, CacheGet, Goto
  <2>3. HistoryOK'
    BY <1>2 DEF Control, HistoryOK, CacheGet
  <2>4. Linked'
    BY <1>2, CoalescerTyped DEF Control, TypeOK, Placed, Linked, CacheGet, Goto, Entries
  <2> QED
    BY <2>1, <2>2, <2>3, <2>4
<1>3. ASSUME NEW t \in Readers, CacheHit(t)
      PROVE  TypeOK' /\ Placed' /\ HistoryOK' /\ Linked'
  <2>1. TypeOK'
    BY <1>3 DEF Control, TypeOK, Placed, Entries, RowStates, CacheHit, Respond, Goto
  <2>2. Placed'
    BY <1>3 DEF Control, TypeOK, Placed, Entries, CacheHit, Respond, Goto
  <2>3. HistoryOK'
    BY <1>3 DEF Control, HistoryOK, CacheHit
  <2>4. Linked'
    BY <1>3, CoalescerTyped DEF Control, TypeOK, Placed, Linked, CacheHit, Respond, Goto
  <2> QED
    BY <2>1, <2>2, <2>3, <2>4
<1>4. ASSUME NEW t \in Readers, CacheMiss(t)
      PROVE  TypeOK' /\ Placed' /\ HistoryOK' /\ Linked'
  <2>1. TypeOK'
    BY <1>4 DEF Control, TypeOK, Placed, Entries, RowStates, CacheMiss, Goto
  <2>2. Placed'
    BY <1>4 DEF Control, TypeOK, Placed, Entries, CacheMiss, Goto
  <2>3. HistoryOK'
    BY <1>4 DEF Control, HistoryOK, CacheMiss
  <2>4. Linked'
    BY <1>4, CoalescerTyped DEF Control, TypeOK, Placed, Linked, CacheMiss, Goto, Co!Lead, Co!Join
  <2> QED
    BY <2>1, <2>2, <2>3, <2>4
<1>5. ASSUME NEW t \in Readers, QueryRow(t)
      PROVE  TypeOK' /\ Placed' /\ HistoryOK' /\ Linked'
  <2>1. TypeOK'
    BY <1>5 DEF Control, TypeOK, Placed, Entries, RowStates, QueryRow, Goto
  <2>2. Placed' /\ HistoryOK'
    <3>1. Placed'
      BY <1>5 DEF Control, TypeOK, Placed, Entries, QueryRow, Goto
    <3>2. HistoryOK'
      BY <1>5 DEF Control, HistoryOK, QueryRow
    <3> QED
      BY <3>1, <3>2
  <2>3. Linked'
    BY <1>5, CoalescerTyped DEF Control, TypeOK, Placed, Linked, QueryRow, Goto
  <2> QED
    BY <2>1, <2>2, <2>3
<1>6. ASSUME NEW t \in Readers, LoadFails(t)
      PROVE  TypeOK' /\ Placed' /\ HistoryOK' /\ Linked'
  <2>1. TypeOK'
    BY <1>6 DEF Control, TypeOK, Placed, Entries, RowStates, LoadFails, Respond, Goto
  <2>2. Placed'
    BY <1>6 DEF Control, TypeOK, Placed, Entries, LoadFails, Respond, Goto
  <2>3. HistoryOK'
    BY <1>6 DEF Control, HistoryOK, LoadFails
  <2>4. Linked'
    BY <1>6, CoalescerTyped
       DEF Control, TypeOK, Placed, Linked, LoadFails, Respond, Goto, Co!LoaderRaises, Co!Resolve
  <2> QED
    BY <2>1, <2>2, <2>3, <2>4
<1>7. ASSUME NEW t \in Readers, Store(t)
      PROVE  TypeOK' /\ Placed' /\ HistoryOK' /\ Linked'
  <2>1. TypeOK'
    BY <1>7 DEF Control, TypeOK, Placed, Entries, RowStates, Store, Goto
  <2>2. Placed'
    BY <1>7 DEF Control, TypeOK, Placed, Entries, Store, Goto
  <2>3. HistoryOK'
    BY <1>7 DEF Control, HistoryOK, Store
  <2>4. Linked'
    BY <1>7, CoalescerTyped DEF Control, TypeOK, Placed, Linked, Store, Goto, Entries
  <2> QED
    BY <2>1, <2>2, <2>3, <2>4
<1>8. ASSUME NEW t \in Readers, LoadReturns(t)
      PROVE  TypeOK' /\ Placed' /\ HistoryOK' /\ Linked'
  <2>1. TypeOK'
    BY <1>8, BitsTyped, BitsOfAssumption
       DEF Control, TypeOK, Placed, Entries, RowStates, LoadReturns, Respond, Goto
  <2>2. Placed'
    BY <1>8 DEF Control, TypeOK, Placed, Entries, LoadReturns, Respond, Goto
  <2>3. HistoryOK'
    BY <1>8 DEF Control, HistoryOK, LoadReturns
  <2>4. Linked'
    BY <1>8, CoalescerTyped
       DEF Control, TypeOK, Placed, Linked, LoadReturns, Respond, Goto, Co!LoaderReturns,
           Co!Resolve
  <2> QED
    BY <2>1, <2>2, <2>3, <2>4
<1>9. ASSUME NEW t \in Readers, WaiterWakes(t)
      PROVE  TypeOK' /\ Placed' /\ HistoryOK' /\ Linked'
  <2>1. TypeOK'
    <3>1. outcome'[t] \in Versions \cup {NotFound, DbError, FilterError, Cancelled}
      BY <1>9, WaiterServed, CoalescerTyped DEF Control, WaiterWakes, Co!Wake, Co!Leave
    <3> QED
      BY <1>9, <3>1 DEF Control, TypeOK, WaiterWakes, Respond, Goto
  <2>2. Placed'
    BY <1>9 DEF Control, TypeOK, Placed, Entries, WaiterWakes, Respond, Goto
  <2>3. HistoryOK'
    BY <1>9 DEF Control, HistoryOK, WaiterWakes
  <2>4. Linked'
    BY <1>9, CoalescerTyped, WaiterServed
       DEF Control, TypeOK, Placed, Linked, WaiterWakes, Respond, Goto, Co!Wake, Co!Leave
  <2> QED
    BY <2>1, <2>2, <2>3, <2>4
<1>10. ASSUME NEW t \in Readers, LateSet(t)
      PROVE  TypeOK' /\ Placed' /\ HistoryOK' /\ Linked'
  <2>1. TypeOK'
    BY <1>10 DEF Control, TypeOK, Placed, Entries, RowStates, LateSet, Goto
  <2>2. Placed'
    BY <1>10 DEF Control, TypeOK, Placed, Entries, LateSet, Goto
  <2>3. HistoryOK'
    BY <1>10 DEF Control, HistoryOK, LateSet
  <2>4. Linked'
    BY <1>10, CoalescerTyped DEF Control, TypeOK, Placed, Linked, LateSet, Goto, Entries
  <2> QED
    BY <2>1, <2>2, <2>3, <2>4
<1>11. ASSUME NEW t \in Writers, NEW w \in Workers, NEW p \in Products, Commit(t, w, p)
      PROVE  TypeOK' /\ Placed' /\ HistoryOK' /\ Linked'
  <2>1. TypeOK'
    <3>1. row[p] \in RowStates /\ row \in [Products -> RowStates]
      BY DEF Control, TypeOK, RowStates
    <3>2. ASSUME t \in Updaters
          PROVE  row[p].ver + 1 \in Versions
      BY <1>11, <3>1, <3>2, RoomForOneMore DEF Control, Commit, Goto, RowStates
    <3>3. row' \in [Products -> RowStates]
      BY <1>11, <3>1, <3>2 DEF Commit, RowStates
    <3>4. row'[p].ver \in Versions
      BY <3>3 DEF RowStates
    <3>5. seen' \in [Tasks -> Entries \cup {NotFound, DbError, None}]
      BY <1>11, <3>4 DEF Control, TypeOK, Commit, Entries
    <3>6. row' \in [Products -> [ver : Versions, live : BOOLEAN]]
      BY <3>3 DEF RowStates
    <3> QED
      BY <1>11, <3>5, <3>6 DEF Control, TypeOK, Commit, Goto
  <2>2. Placed'
    <3>1. seen'[t] \in Versions
      BY <1>11, <2>1 DEF Control, TypeOK, Commit
    <3> QED
      BY <1>11, <3>1 DEF Control, TypeOK, Placed, Commit, Goto
  <2>3. HistoryOK'
    BY <1>11 DEF Control, TypeOK, Placed, HistoryOK, RowStates, Commit, Goto
  <2>4. Linked'
    BY <1>11, CoalescerTyped DEF Control, TypeOK, Placed, Linked, Commit, Goto
  <2> QED
    BY <2>1, <2>2, <2>3, <2>4
<1>12. ASSUME NEW t \in Writers, NEW w \in Workers, NEW p \in Products, PutNothing(t, w, p)
      PROVE  TypeOK' /\ Placed' /\ HistoryOK' /\ Linked'
  <2>1. TypeOK'
    BY <1>12 DEF Control, TypeOK, Placed, Entries, RowStates, PutNothing, Goto
  <2>2. Placed'
    BY <1>12 DEF Control, TypeOK, Placed, Entries, PutNothing, Goto
  <2>3. HistoryOK'
    BY <1>12 DEF Control, HistoryOK, PutNothing
  <2>4. Linked'
    BY <1>12, CoalescerTyped DEF Control, TypeOK, Placed, Linked, PutNothing, Goto
  <2> QED
    BY <2>1, <2>2, <2>3, <2>4
<1>13. ASSUME NEW t \in Writers, NEW w \in Workers, NEW p \in Products, WriteFails(t, w, p)
      PROVE  TypeOK' /\ Placed' /\ HistoryOK' /\ Linked'
  <2>1. TypeOK'
    <3>1. at' \in [Tasks -> (Workers \X (Products \cup {None})) \cup {None}]
      BY <1>13 DEF Control, TypeOK, WriteFails
    <3>2. resp' \in [Tasks -> Versions \cup {NotFound, Rejected, DbError, FilterError, Cancelled, None}]
      BY <1>13 DEF Control, TypeOK, WriteFails, Respond
    <3> QED
      BY <1>13, <3>1, <3>2 DEF Control, TypeOK, WriteFails, Respond, Goto
  <2>2. Placed'
    BY <1>13 DEF Control, TypeOK, Placed, Entries, WriteFails, Respond, Goto
  <2>3. HistoryOK'
    BY <1>13 DEF Control, HistoryOK, WriteFails
  <2>4. Linked'
    BY <1>13, CoalescerTyped DEF Control, TypeOK, Placed, Linked, WriteFails, Respond, Goto
  <2> QED
    BY <2>1, <2>2, <2>3, <2>4
<1>14. ASSUME NEW t \in Writers, Evict(t)
      PROVE  TypeOK' /\ Placed' /\ HistoryOK' /\ Linked'
  <2>1. TypeOK'
    <3>1. cache' \in [Products -> Entries]
      BY <1>14 DEF Control, TypeOK, Entries, Evict
    <3>2. seen[t] \in Versions
      BY <1>14 DEF Control, Placed, Evict, Respond, Goto
    <3>3. resp' \in [Tasks -> Versions \cup {NotFound, Rejected, DbError, FilterError, Cancelled, None}]
      BY <1>14, <3>2 DEF Control, TypeOK, Evict, Respond
    <3> QED
      BY <1>14, <3>1, <3>3 DEF Control, TypeOK, Evict, Respond, Goto
  <2>2. Placed'
    BY <1>14 DEF Control, TypeOK, Placed, HistoryOK, Entries, Evict, Respond, Goto
  <2>3. HistoryOK'
    <3>1. Product(t) \in Products /\ seen[t] \in Versions
      BY <1>14 DEF Control, Placed, Evict, Respond, Goto
    <3>2. acked' \in [Products -> RowStates]
      BY <1>14, <3>1 DEF Control, HistoryOK, RowStates, Evict
    <3> QED
      BY <1>14, <3>1, <3>2 DEF Control, HistoryOK, Evict
  <2>4. Linked'
    BY <1>14, CoalescerTyped DEF Control, TypeOK, Placed, Linked, Evict, Respond, Goto, Entries
  <2> QED
    BY <2>1, <2>2, <2>3, <2>4
<1>15. ASSUME NEW t \in Writers, CommitUnanswered(t)
      PROVE  TypeOK' /\ Placed' /\ HistoryOK' /\ Linked'
  <2>1. TypeOK'
    BY <1>15 DEF Control, TypeOK, Placed, Entries, RowStates, CommitUnanswered, Respond, Goto
  <2>2. Placed'
    BY <1>15 DEF Control, TypeOK, Placed, Entries, CommitUnanswered, Respond, Goto
  <2>3. HistoryOK'
    BY <1>15 DEF Control, Placed, HistoryOK, CommitUnanswered, Respond, Goto
  <2>4. Linked'
    BY <1>15, CoalescerTyped DEF Control, TypeOK, Placed, Linked, CommitUnanswered, Respond, Goto
  <2> QED
    BY <2>1, <2>2, <2>3, <2>4
<1>16. ASSUME NEW t \in Rebuilders, NEW w \in Workers, Reset(t, w)
      PROVE  TypeOK' /\ Placed' /\ HistoryOK' /\ Linked'
  <2>1. TypeOK'
    BY <1>16 DEF Control, TypeOK, Placed, Entries, RowStates, Reset, Goto
  <2>2. Placed'
    BY <1>16 DEF Control, TypeOK, Placed, Entries, Reset, Goto
  <2>3. HistoryOK'
    BY <1>16 DEF Control, HistoryOK, Reset
  <2>4. Linked'
    BY <1>16, CoalescerTyped DEF Control, TypeOK, Placed, Linked, Reset, Goto
  <2> QED
    BY <2>1, <2>2, <2>3, <2>4
<1>17. ASSUME NEW t \in Rebuilders, Select(t)
      PROVE  TypeOK' /\ Placed' /\ HistoryOK' /\ Linked'
  <2>1. TypeOK'
    BY <1>17 DEF Control, TypeOK, Placed, Entries, RowStates, Select, Goto, Live
  <2>2. Placed'
    BY <1>17 DEF Control, TypeOK, Placed, Entries, Select, Goto
  <2>3. HistoryOK'
    BY <1>17 DEF Control, HistoryOK, Select
  <2>4. Linked'
    BY <1>17, CoalescerTyped DEF Control, TypeOK, Placed, Linked, Select, Goto
  <2> QED
    BY <2>1, <2>2, <2>3, <2>4
<1>18. ASSUME NEW t \in Rebuilders, AddRows(t)
      PROVE  TypeOK' /\ Placed' /\ HistoryOK' /\ Linked'
  <2>1. TypeOK'
    BY <1>18, BitsTyped, BitsOfAssumption
       DEF Control, TypeOK, Placed, Entries, RowStates, AddRows, Goto
  <2>2. Placed'
    BY <1>18 DEF Control, TypeOK, Placed, Entries, AddRows, Goto
  <2>3. HistoryOK'
    BY <1>18 DEF Control, HistoryOK, AddRows
  <2>4. Linked'
    BY <1>18, CoalescerTyped DEF Control, TypeOK, Placed, Linked, AddRows, Goto
  <2> QED
    BY <2>1, <2>2, <2>3, <2>4
<1>19. ASSUME NEW t \in Rebuilders, SelectFails(t)
      PROVE  TypeOK' /\ Placed' /\ HistoryOK' /\ Linked'
  <2>1. TypeOK'
    BY <1>19 DEF Control, TypeOK, Placed, Entries, RowStates, SelectFails, Respond, Goto
  <2>2. Placed'
    BY <1>19 DEF Control, TypeOK, Placed, Entries, SelectFails, Respond, Goto
  <2>3. HistoryOK'
    BY <1>19 DEF Control, HistoryOK, SelectFails
  <2>4. Linked'
    BY <1>19, CoalescerTyped DEF Control, TypeOK, Placed, Linked, SelectFails, Respond, Goto
  <2> QED
    BY <2>1, <2>2, <2>3, <2>4
<1>20. ASSUME NEW t \in Tasks, Cancel(t)
      PROVE  TypeOK' /\ Placed' /\ HistoryOK' /\ Linked'
  <2>1. TypeOK'
    BY <1>20 DEF Control, TypeOK, Placed, Entries, RowStates, Cancel, After
  <2>2. Placed'
    BY <1>20 DEF Control, TypeOK, Placed, Entries, Cancel, After
  <2>3. HistoryOK'
    BY <1>20 DEF Control, Placed, HistoryOK, Cancel, After
  <2>4. Linked'
    BY <1>20, CoalescerTyped
       DEF Control, TypeOK, Placed, Linked, Cancel, After, Co!Cancel, Co!CancelLeader,
           Co!CancelWaiter, Co!Resolve, Co!Leave
  <2> QED
    BY <2>1, <2>2, <2>3, <2>4
<1>21. ASSUME NEW w \in Workers, Crash(w)
      PROVE  TypeOK' /\ Placed' /\ HistoryOK' /\ Linked'
  <2>1. TypeOK'
    BY <1>21, BitsTyped, BitsOfAssumption
       DEF Control, TypeOK, Placed, Entries, RowStates, Crash, After, Live
  <2>2. Placed'
    BY <1>21 DEF Control, TypeOK, Placed, HistoryOK, Entries, Crash, After
  <2>3. HistoryOK'
    <3>1. ASSUME NEW t \in Tasks, pc[t] = "written"
          PROVE  Product(t) \in Products
      BY <3>1 DEF Control, Placed
    <3>2. lost' \in SUBSET Products
      BY <1>21, <3>1 DEF Crash, Control, HistoryOK
    <3> QED
      BY <1>21, <3>2 DEF Crash, Control, HistoryOK
  <2>4. Linked'
    BY <1>21, CoalescerTyped
       DEF Control, TypeOK, Placed, Linked, Crash, After, Co!Restart, Co!CallsOn
  <2> QED
    BY <2>1, <2>2, <2>3, <2>4
<1>22. ASSUME NEW p \in Products, Expire(p)
      PROVE  TypeOK' /\ Placed' /\ HistoryOK' /\ Linked'
  <2>1. TypeOK'
    BY <1>22 DEF Control, TypeOK, Placed, Entries, RowStates, Expire
  <2>2. Placed'
    BY <1>22 DEF Control, TypeOK, Placed, Entries, Expire
  <2>3. HistoryOK'
    BY <1>22 DEF Control, HistoryOK, Expire
  <2>4. Linked'
    BY <1>22, CoalescerTyped DEF Control, TypeOK, Placed, Linked, Expire, Entries
  <2> QED
    BY <2>1, <2>2, <2>3, <2>4
<1>23. ASSUME NEW t \in Readers, AddRaises(t)
      PROVE  TypeOK' /\ Placed' /\ HistoryOK' /\ Linked'
  <2>1. TypeOK'
    BY <1>23 DEF Control, TypeOK, Placed, Entries, RowStates, AddRaises, Respond, Goto
  <2>2. Placed'
    BY <1>23 DEF Control, TypeOK, Placed, Entries, AddRaises, Respond, Goto
  <2>3. HistoryOK'
    BY <1>23 DEF Control, HistoryOK, AddRaises
  <2>4. Linked'
    BY <1>23, CoalescerTyped
       DEF Control, TypeOK, Placed, Linked, AddRaises, Respond, Goto, Co!LoaderRaises, Co!Resolve
  <2> QED
    BY <2>1, <2>2, <2>3, <2>4
<1>24. ASSUME NEW t \in Rebuilders, NEW w \in Workers, ResetFails(t, w)
      PROVE  TypeOK' /\ Placed' /\ HistoryOK' /\ Linked'
  <2>1. TypeOK'
    BY <1>24 DEF Control, TypeOK, Placed, Entries, RowStates, ResetFails, Respond, Goto
  <2>2. Placed'
    BY <1>24 DEF Control, TypeOK, Placed, Entries, ResetFails, Respond, Goto
  <2>3. HistoryOK'
    BY <1>24 DEF Control, HistoryOK, ResetFails
  <2>4. Linked'
    BY <1>24, CoalescerTyped DEF Control, TypeOK, Placed, Linked, ResetFails, Respond, Goto
  <2> QED
    BY <2>1, <2>2, <2>3, <2>4
<1>25. ASSUME NEW t \in Rebuilders, AddRowsFails(t)
      PROVE  TypeOK' /\ Placed' /\ HistoryOK' /\ Linked'
  <2>1. TypeOK'
    BY <1>25 DEF Control, TypeOK, Placed, Entries, RowStates, AddRowsFails, Respond, Goto
  <2>2. Placed'
    BY <1>25 DEF Control, TypeOK, Placed, Entries, AddRowsFails, Respond, Goto
  <2>3. HistoryOK'
    BY <1>25 DEF Control, HistoryOK, AddRowsFails
  <2>4. Linked'
    BY <1>25, CoalescerTyped DEF Control, TypeOK, Placed, Linked, AddRowsFails, Respond, Goto
  <2> QED
    BY <2>1, <2>2, <2>3, <2>4
<1>26. CASE UNCHANGED vars
  BY <1>26 DEF Control, TypeOK, Placed, HistoryOK, Linked
<1> QED
  BY <1>1, <1>2, <1>3, <1>4, <1>5, <1>6, <1>7, <1>8, <1>9, <1>10, <1>11, <1>12, <1>13, <1>14,
     <1>15, <1>16, <1>17, <1>18, <1>19, <1>20, <1>21, <1>22, <1>23, <1>24, <1>25, <1>26
     DEF Next, Read, Rebuild

\* A task that has started is never idle again, and only an updater that was
\* idle raises a version.
LEMMA CountedNext == ASSUME Control, [Next]_vars PROVE Counted'
<1> USE TasksAssumption DEF Tasks, Writers
<1>1. ASSUME Started \subseteq Started', row' = row \/ \A p \in Products : row'[p].ver = row[p].ver
      PROVE  Counted'
  <2>1. Started' \subseteq Updaters
    BY DEF Started
  <2>2. Cardinality(Started) <= Cardinality(Started')
    BY <1>1, <2>1, TasksAssumption, FS_Subset
  <2>3. Cardinality(Started) \in Nat /\ Cardinality(Started') \in Nat
    BY <1>1, <2>1, TasksAssumption, FS_Subset, FS_CardinalityType
  <2>4. ASSUME NEW p \in Products
        PROVE  row'[p].ver <= 1 + Cardinality(Started')
    <3>1. row'[p].ver = row[p].ver
      BY <1>1
    <3>2. row[p].ver <= 1 + Cardinality(Started) /\ row[p].ver \in Nat
      BY DEF Control, Counted, TypeOK, Versions
    <3> QED
      BY <2>2, <2>3, <3>1, <3>2
  <2> QED
    BY <2>4 DEF Counted
<1>2. ASSUME NEW t \in Updaters, NEW w \in Workers, NEW p \in Products, Commit(t, w, p)
      PROVE  Counted'
  <2>1. Started' = Started \cup {t} /\ t \notin Started
    BY <1>2 DEF Control, TypeOK, Started, Commit, Goto
  <2>2. Started \subseteq Updaters
    BY DEF Started
  <2>3. Cardinality(Started') = Cardinality(Started) + 1 /\ Cardinality(Started) \in Nat
    BY <2>1, <2>2, TasksAssumption, FS_Subset, FS_AddElement, FS_CardinalityType
  <2>4. \A q \in Products : row[q].ver \in Nat /\ row'[q].ver <= row[q].ver + 1
    BY <1>2 DEF Control, TypeOK, Versions, Commit
  <2>5. \A q \in Products : row[q].ver <= 1 + Cardinality(Started)
    BY DEF Control, Counted
  <2>6. \A q \in Products : row'[q].ver \in Nat
    BY <1>2 DEF Control, TypeOK, Versions, Commit
  <2> QED
    BY <2>3, <2>4, <2>5, <2>6 DEF Counted
<1>3. ASSUME NEW t \in Deleters, NEW w \in Workers, NEW p \in Products, Commit(t, w, p)
      PROVE  Counted'
  <2>1. Started \subseteq Started' /\ \A q \in Products : row'[q].ver = row[q].ver
    BY <1>3 DEF Control, TypeOK, Started, Commit, Goto
  <2> QED
    BY <1>1, <2>1
<1>4. ASSUME NEW t \in Readers,
            Read(t) \/ LateSet(t) \/ \E w \in Workers, p \in Products : Arrive(t, w, p)
      PROVE  Started \subseteq Started' /\ row' = row
  BY <1>4
     DEF Control, TypeOK, Started, Read, Arrive, CacheGet, CacheHit, CacheMiss, QueryRow,
         LoadFails, Store, LoadReturns, AddRaises, WaiterWakes, LateSet, Respond, Goto, stores
<1>5. ASSUME NEW t \in Writers, NEW w \in Workers, NEW p \in Products,
             PutNothing(t, w, p) \/ WriteFails(t, w, p) \/ Evict(t) \/ CommitUnanswered(t)
      PROVE  Started \subseteq Started' /\ row' = row
  BY <1>5
     DEF Control, TypeOK, Started, PutNothing, WriteFails, Evict, CommitUnanswered, Respond, Goto,
         stores
<1>6. ASSUME NEW t \in Rebuilders, Rebuild(t) \/ \E w \in Workers : Reset(t, w) \/ ResetFails(t, w)
      PROVE  Started \subseteq Started' /\ row' = row
  BY <1>6
     DEF Control, TypeOK, Started, Rebuild, Reset, ResetFails, Select, AddRows, AddRowsFails, SelectFails, Respond, Goto,
         stores
<1>7. ASSUME NEW t \in Tasks, Cancel(t)
      PROVE  Started \subseteq Started' /\ row' = row
  BY <1>7 DEF Control, TypeOK, Started, Cancel, After, stores
<1>8. ASSUME NEW w \in Workers, Crash(w)
      PROVE  Started \subseteq Started' /\ row' = row
  BY <1>8 DEF Control, TypeOK, Started, Crash, After, stores
<1>9. ASSUME NEW p \in Products, Expire(p)
      PROVE  Started \subseteq Started' /\ row' = row
  BY <1>9 DEF Control, TypeOK, Started, Expire
<1>10. CASE UNCHANGED vars
  BY <1>10 DEF Control, Counted, Started, vars, stores
<1>11. ASSUME NEW t \in Writers, Evict(t) \/ CommitUnanswered(t)
       PROVE  Started \subseteq Started' /\ row' = row
  BY <1>11 DEF Control, TypeOK, Started, Evict, CommitUnanswered, Respond, Goto, stores
<1> QED
  BY <1>1, <1>2, <1>3, <1>4, <1>5, <1>6, <1>7, <1>8, <1>9, <1>10, <1>11 DEF Next

\* Every step drives the coalescers as the Coalescer module allows.
LEMMA StepObeys == ASSUME Control, [Next]_vars PROVE [Co!Next]_coalescer
<1> USE SentinelsAssumption
<1> DEFINE Obeys == Co!Next \/ UNCHANGED coalescer
<1>1. ASSUME NEW t \in Readers, CacheMiss(t)
      PROVE  Obeys
  <2>1. at[t] \in Co!Slots
    BY <1>1 DEF Control, Placed, CacheMiss, Goto, Co!Slots
  <2>2. CASE Co!Lead(t, at[t])
    BY <2>1, <2>2 DEF Co!Next, Co!Call
  <2>3. CASE Co!Join(t, at[t])
    BY <2>1, <2>3 DEF Co!Next, Co!Call
  <2> QED
    BY <1>1, <2>2, <2>3 DEF CacheMiss, Goto
<1>2. ASSUME NEW t \in Readers, LoadFails(t)
      PROVE  Obeys
  <2>1. CASE Co!LoaderRaises(t, seen[t])
    BY <1>2, <2>1 DEF LoadFails, Co!Next, Co!LoaderEnds
  <2> QED
    BY <1>2, <2>1 DEF LoadFails, coalescer
<1>3. ASSUME NEW t \in Readers, AddRaises(t)
      PROVE  Obeys
  <2>1. CASE Co!LoaderRaises(t, FilterError)
    BY <2>1 DEF Co!Next, Co!LoaderEnds
  <2> QED
    BY <1>3, <2>1 DEF AddRaises, coalescer
<1>4. ASSUME NEW t \in Readers, LoadReturns(t)
      PROVE  Obeys
  <2>1. seen[t] \in Versions
    BY <1>4 DEF Control, Placed, LoadReturns, Respond, Goto
  <2>2. CASE Co!LoaderReturns(t, seen[t])
    BY <2>1, <2>2 DEF Co!Next, Co!LoaderEnds
  <2> QED
    BY <1>4, <2>2 DEF LoadReturns, coalescer
<1>5. ASSUME NEW t \in Readers, WaiterWakes(t)
      PROVE  Obeys
  BY <1>5 DEF WaiterWakes, Co!Next
<1>6. ASSUME NEW t \in Tasks, Cancel(t)
      PROVE  Obeys
  BY <1>6 DEF Cancel, Co!Next
<1>7. ASSUME NEW w \in Workers, Crash(w)
      PROVE  Obeys
  BY <1>7 DEF Crash, Co!Next
<1>8. ASSUME NEW t \in Readers, NEW w \in Workers, NEW p \in Products,
             Arrive(t, w, p) \/ CacheGet(t) \/ CacheHit(t) \/ QueryRow(t) \/ Store(t) \/ LateSet(t)
      PROVE  UNCHANGED coalescer
  BY <1>8 DEF Arrive, CacheGet, CacheHit, QueryRow, Store, LateSet
<1>9. ASSUME NEW t \in Writers, NEW w \in Workers, NEW p \in Products,
             Commit(t, w, p) \/ PutNothing(t, w, p) \/ WriteFails(t, w, p)
      PROVE  UNCHANGED coalescer
  BY <1>9 DEF Commit, PutNothing, WriteFails
<1>10. ASSUME NEW t \in Writers, Evict(t) \/ CommitUnanswered(t)
      PROVE  UNCHANGED coalescer
  BY <1>10 DEF Evict, CommitUnanswered
<1>11. ASSUME NEW t \in Rebuilders, Rebuild(t) \/ \E w \in Workers : Reset(t, w) \/ ResetFails(t, w)
       PROVE  UNCHANGED coalescer
  BY <1>11 DEF Rebuild, Reset, ResetFails, Select, AddRows, AddRowsFails, SelectFails
<1>12. ASSUME NEW p \in Products, Expire(p)
       PROVE  UNCHANGED coalescer
  BY <1>12 DEF Expire
<1>13. CASE UNCHANGED vars
  BY <1>13 DEF vars
<1>14. ASSUME NEW t \in Readers, CacheGet(t) \/ CacheHit(t) \/ QueryRow(t) \/ Store(t) \/ LateSet(t)
       PROVE  UNCHANGED coalescer
  BY <1>14 DEF CacheGet, CacheHit, QueryRow, Store, LateSet
<1> HIDE DEF Obeys
<1>15. Obeys
  BY <1>1, <1>2, <1>3, <1>4, <1>5, <1>6, <1>7, <1>8, <1>9, <1>10, <1>11, <1>12, <1>13, <1>14
     DEF Next, Read, Obeys
<1> QED
  BY <1>15 DEF Obeys

\* Hence the coalescer's inductive invariant is one of the gateway as well.
LEMMA CoalescerNext == ASSUME Control, [Next]_vars PROVE CP!IInv'
<1>1. [Co!Next]_coalescer
  BY StepObeys
<1>2. [CP!Next]_(CP!vars)
  BY <1>1
     DEF coalescer, CP!vars, Co!Next, Co!Call, Co!LoaderEnds, Co!Cancel, Co!Lead, Co!Join,
         Co!LoaderReturns, Co!LoaderRaises, Co!Resolve, Co!Wake, Co!Leave, Co!CancelLeader,
         Co!CancelWaiter, Co!Restart, Co!CallsOn, Co!Slots, CP!Next, CP!Call, CP!LoaderEnds,
         CP!Cancel, CP!Lead, CP!Join, CP!LoaderReturns, CP!LoaderRaises, CP!Resolve, CP!Wake,
         CP!Leave, CP!CancelLeader, CP!CancelWaiter, CP!Restart, CP!CallsOn, CP!Slots
<1> QED
  BY <1>2, SentinelsAssumption, CP!NextIInv DEF Control, CP!Slots, CP!Outcomes

\* The worker that startup leaves behind is in control.
LEMMA ControlInit == Init => Control
<1> SUFFICES ASSUME Init
             PROVE  Control
  OBVIOUS
<1> USE TasksAssumption, SentinelsAssumption DEF Init
<1>0. 1 \in Versions
  BY TasksAssumption, FS_CardinalityType DEF Versions
<1>1. TypeOK
  <2>1. row \in [Products -> [ver : Versions, live : BOOLEAN]]
    BY <1>0
  <2>2. cache \in [Products -> Entries]
    BY <1>0 DEF Entries
  <2>3. filter \in [Workers -> SUBSET Bits]
    BY BitsTyped DEF Live
  <2>4. coalescing \in BOOLEAN
    BY OptionsAssumption
  <2> QED
    BY <2>1, <2>2, <2>3, <2>4 DEF TypeOK
<1>2. Placed /\ HistoryOK
  BY <1>0 DEF Placed, HistoryOK, RowStates, Tasks, Writers
<1>3. Counted
  <2>1. Started \in SUBSET Updaters
    BY DEF Started
  <2>2. Cardinality(Started) \in Nat
    BY <2>1, TasksAssumption, FS_Subset, FS_CardinalityType
  <2>3. \A p \in Products : row[p].ver = 1
    OBVIOUS
  <2>4. 1 <= 1 + Cardinality(Started)
    BY <2>2
  <2> HIDE DEF Init
  <2> QED
    BY <2>3, <2>4, Zenon DEF Counted
<1>4. CP!IInv
  <2>1. CP!Init
    BY DEF CP!Init, Co!Init, CP!Slots, Co!Slots
  <2> QED
    BY <2>1, CP!InitIInv DEF CP!Slots, CP!Outcomes
<1>5. Linked
  BY DEF Linked, Co!Init, Tasks
<1> QED
  BY <1>1, <1>2, <1>3, <1>4, <1>5 DEF Control

\* Types, places and the coalescer's invariant hold in every reachable state.
THEOREM ControlInvariant == Spec => []Control
<1>1. Control /\ [Next]_vars => Control'
  BY ControlNext, CountedNext, CoalescerNext DEF Control
<1> QED
  BY <1>1, ControlInit, PTL DEF Spec

\* Every variable of the gateway keeps a value of its kind.
THEOREM TypeCorrect == Spec => []TypeOK
<1>1. Control => TypeOK
  BY DEF Control
<1> QED
  BY <1>1, ControlInvariant, PTL

\* With coalescing on, one load of a product runs per worker: a loading reader
\* is the leader of its slot.
THEOREM LoadsAlone == Spec => []OneLoadPerWorker
<1>1. Control => OneLoadPerWorker
  BY DEF Control, Linked, OneLoadPerWorker, CP!IInv, CP!LeaderRegistered
<1> QED
  BY <1>1, ControlInvariant, PTL

-----------------------------------------------------------------------------
(* Who failed, and what the filters owe *)

\* A request that was not sent names no product, and one under way has no
\* answer.
Unanswered ==
    \A t \in Tasks :
        /\ pc[t] = "idle" => at[t] = None
        /\ pc[t] \notin {"lateSet", "done"} => resp[t] = None

\* Some reader of t's product in t's worker is done, and saw a query fail.
Blamed(t) == \E u \in Readers : pc[u] = "done" /\ at[u] = at[t] /\ seen[u] = DbError

\* A rebuild closed w's filter and could not create, or not fill, a new one.
Broken(w) == \E r \in Rebuilders : pc[r] = "done" /\ resp[r] = FilterError /\ Worker(r) = w

\* A future only fails when its leader saw the query fail or found its filter
\* closed, and a failed answer has somebody to blame.
FailuresTraced ==
    \A t \in Readers :
        /\ future[t] = DbError => pc[t] = "done" /\ seen[t] = DbError /\ slot[t] = at[t]
        /\ resp[t] = DbError => pc[t] = "done" /\ Blamed(t)
        /\ future[t] = FilterError => pc[t] = "done" /\ slot[t] = at[t] /\ Broken(Worker(t))
        /\ resp[t] = FilterError => pc[t] = "done" /\ Broken(Worker(t))

\* A closed filter was closed by a rebuild that failed.
ClosuresTraced == \A w \in closed : Broken(w)

\* A rebuild of w's filter is under way, or one failed there.
Rebuilding(w) ==
    \E t \in Rebuilders : /\ pc[t] # "idle" /\ Worker(t) = w
                          /\ pc[t] = "done" => resp[t] # None

\* A rebuild that is about to add the rows of its SELECT has all live ones:
\* rows that were deleted since do not matter.
FiltersOwed ==
    /\ \A w \in Workers : Rebuilding(w) \/ \A p \in Live : MayContain(filter[w], p)
    /\ \A t \in Rebuilders : pc[t] = "adding" => Live \subseteq ids[t]

\* What accounts for failures and rejections.
Accounts == Unanswered /\ FailuresTraced /\ ClosuresTraced /\ FiltersOwed

\* Only a commit writes a row.
LEMMA RowOnlyCommits ==
    ASSUME [Next]_vars
    PROVE  row' = row \/ \E t \in Writers, w \in Workers, p \in Products : Commit(t, w, p)
<1> USE DEF stores
<1>1. ASSUME NEW t \in Readers,
             (\E w \in Workers, p \in Products : Arrive(t, w, p)) \/ Read(t) \/ LateSet(t)
      PROVE  row' = row
  BY <1>1 DEF Read, Arrive, CacheGet, CacheHit, CacheMiss, QueryRow, LoadFails, Store,
     LoadReturns, AddRaises, WaiterWakes, LateSet
<1>2. ASSUME NEW t \in Writers, NEW w \in Workers, NEW p \in Products,
             PutNothing(t, w, p) \/ WriteFails(t, w, p)
      PROVE  row' = row
  BY <1>2 DEF PutNothing, WriteFails
<1>3. ASSUME NEW t \in Writers, Evict(t) \/ CommitUnanswered(t)
      PROVE  row' = row
  BY <1>3 DEF Evict, CommitUnanswered
<1>4. ASSUME NEW t \in Rebuilders,
             (\E w \in Workers : Reset(t, w) \/ ResetFails(t, w)) \/ Rebuild(t)
      PROVE  row' = row
  BY <1>4 DEF Rebuild, Reset, ResetFails, Select, AddRows, AddRowsFails, SelectFails
<1>5. CASE \/ \E t \in Tasks : Cancel(t)
           \/ \E w \in Workers : Crash(w)
           \/ \E p \in Products : Expire(p)
  BY <1>5 DEF Cancel, Crash, Expire
<1>6. CASE UNCHANGED vars
  BY <1>6 DEF vars
<1> QED
  BY <1>1, <1>2, <1>3, <1>4, <1>5, <1>6 DEF Next

\* Rows are deleted, never added.
LEMMA LiveShrinks == ASSUME Control, [Next]_vars PROVE Live' \subseteq Live
<1>1. ASSUME NEW t \in Writers, NEW w \in Workers, NEW p \in Products, Commit(t, w, p)
      PROVE  Live' \subseteq Live
  BY <1>1 DEF Control, TypeOK, Live, Commit
<1>2. CASE row' = row
  BY <1>2 DEF Live
<1> QED
  BY <1>1, <1>2, RowOnlyCommits

\* Nothing is answered at the start, and every filter was just built.
LEMMA AccountsInit == Init => Accounts
<1> SUFFICES ASSUME Init
             PROVE  Accounts
  OBVIOUS
<1>1. Unanswered
  BY DEF Init, Unanswered
<1>2. FailuresTraced
  BY SentinelsAssumption DEF Init, Co!Init, FailuresTraced, Tasks
<1>3. ClosuresTraced
  BY DEF Init, ClosuresTraced
<1>4. FiltersOwed
  <2>1. \A w \in Workers, p \in Live : BitsOf[p] \subseteq filter[w]
    BY DEF Init, BitsOfAll, Live
  <2>2. \A t \in Rebuilders : pc[t] = "idle"
    BY DEF Init, Tasks
  <2> QED
    BY <2>1, <2>2 DEF FiltersOwed, MayContain
<1> QED
  BY <1>1, <1>2, <1>3, <1>4 DEF Accounts

\* A request that is over stays as it ended.
LEMMA DoneStays ==
    ASSUME Control, [Next]_vars, NEW t \in Tasks, pc[t] = "done"
    PROVE  pc'[t] = "done" /\ at'[t] = at[t] /\ seen'[t] = seen[t] /\ resp'[t] = resp[t]
<1> USE DEF Respond, Goto
<1>1. ASSUME NEW u \in Readers,
             Read(u) \/ LateSet(u) \/ \E w \in Workers, p \in Products : Arrive(u, w, p)
      PROVE  pc'[t] = "done" /\ at'[t] = at[t] /\ seen'[t] = seen[t] /\ resp'[t] = resp[t]
  BY <1>1
     DEF Control, TypeOK, Read, Arrive, CacheGet, CacheHit, CacheMiss, QueryRow, LoadFails, Store,
         LoadReturns, AddRaises, WaiterWakes, LateSet
<1>2. ASSUME NEW u \in Writers, NEW w \in Workers, NEW p \in Products,
             Commit(u, w, p) \/ PutNothing(u, w, p) \/ WriteFails(u, w, p)
      PROVE  pc'[t] = "done" /\ at'[t] = at[t] /\ seen'[t] = seen[t] /\ resp'[t] = resp[t]
  BY <1>2 DEF Control, TypeOK, Commit, PutNothing, WriteFails
<1>3. ASSUME NEW u \in Writers, Evict(u) \/ CommitUnanswered(u)
      PROVE  pc'[t] = "done" /\ at'[t] = at[t] /\ seen'[t] = seen[t] /\ resp'[t] = resp[t]
  BY <1>3 DEF Control, TypeOK, Evict, CommitUnanswered
<1>4. ASSUME NEW u \in Rebuilders, Rebuild(u) \/ \E w \in Workers : Reset(u, w) \/ ResetFails(u, w)
      PROVE  pc'[t] = "done" /\ at'[t] = at[t] /\ seen'[t] = seen[t] /\ resp'[t] = resp[t]
  BY <1>4 DEF Control, TypeOK, Rebuild, Reset, ResetFails, Select, AddRows, AddRowsFails, SelectFails
<1>5. ASSUME NEW u \in Tasks, Cancel(u)
      PROVE  pc'[t] = "done" /\ at'[t] = at[t] /\ seen'[t] = seen[t] /\ resp'[t] = resp[t]
  BY <1>5 DEF Control, TypeOK, Cancel
<1>6. ASSUME NEW w \in Workers, Crash(w)
      PROVE  pc'[t] = "done" /\ at'[t] = at[t] /\ seen'[t] = seen[t] /\ resp'[t] = resp[t]
  BY <1>6 DEF Crash
<1>7. ASSUME NEW p \in Products, Expire(p)
      PROVE  pc'[t] = "done" /\ at'[t] = at[t] /\ seen'[t] = seen[t] /\ resp'[t] = resp[t]
  BY <1>7 DEF Expire
<1>8. CASE UNCHANGED vars
  BY <1>8 DEF vars
<1> QED
  BY <1>1, <1>2, <1>3, <1>4, <1>5, <1>6, <1>7, <1>8 DEF Next

\* Requests are answered by the steps that end them.
LEMMA UnansweredNext == ASSUME Control, Unanswered, [Next]_vars PROVE Unanswered'
<1> USE DEF Respond, Goto
<1>1. ASSUME NEW u \in Readers,
             Read(u) \/ LateSet(u) \/ \E w \in Workers, p \in Products : Arrive(u, w, p)
      PROVE  Unanswered'
  BY <1>1
     DEF Control, TypeOK, Unanswered, Read, Arrive, CacheGet, CacheHit, CacheMiss, QueryRow,
         LoadFails, Store, LoadReturns, AddRaises, WaiterWakes, LateSet, Tasks
<1>2. ASSUME NEW u \in Writers, NEW w \in Workers, NEW p \in Products,
             Commit(u, w, p) \/ PutNothing(u, w, p) \/ WriteFails(u, w, p)
      PROVE  Unanswered'
  BY <1>2 DEF Control, TypeOK, Unanswered, Commit, PutNothing, WriteFails, Tasks
<1>3. ASSUME NEW u \in Writers, Evict(u) \/ CommitUnanswered(u)
      PROVE  Unanswered'
  BY <1>3 DEF Control, TypeOK, Unanswered, Evict, CommitUnanswered, Tasks
<1>4. ASSUME NEW u \in Rebuilders, Rebuild(u) \/ \E w \in Workers : Reset(u, w) \/ ResetFails(u, w)
      PROVE  Unanswered'
  BY <1>4 DEF Control, TypeOK, Unanswered, Rebuild, Reset, ResetFails, Select, AddRows, AddRowsFails, SelectFails, Tasks
<1>5. ASSUME NEW u \in Tasks, Cancel(u)
      PROVE  Unanswered'
  BY <1>5 DEF Control, TypeOK, Unanswered, Cancel, After
<1>6. ASSUME NEW w \in Workers, Crash(w)
      PROVE  Unanswered'
  BY <1>6 DEF Control, TypeOK, Unanswered, Crash, After
<1>7. ASSUME NEW p \in Products, Expire(p)
      PROVE  Unanswered'
  BY <1>7 DEF Unanswered, Expire
<1>8. CASE UNCHANGED vars
  BY <1>8 DEF Unanswered, vars
<1> QED
  BY <1>1, <1>2, <1>3, <1>4, <1>5, <1>6, <1>7, <1>8 DEF Next

\* The loader of t raises e.
Raises(t, e) ==
    \/ LoadFails(t) /\ seen[t] = e
    \/ AddRaises(t) /\ e = FilterError

\* Only a leader whose loader raises fails its future, and a reader fails either
\* like that, or with its leader, or at the lookup in a closed filter.
LEMMA FailureStep ==
    ASSUME Control, [Next]_vars, NEW t \in Readers, NEW e \in {DbError, FilterError}
    PROVE  /\ future'[t] = e /\ future[t] # e => Raises(t, e) /\ role[t] = "leader"
           /\ resp'[t] = e /\ resp[t] # e =>
                \/ Raises(t, e)
                \/ WaiterWakes(t) /\ future[awaits[t]] = e
                \/ e = FilterError /\ \E w \in closed, p \in Products : Arrive(t, w, p)
<1> DEFINE FutureFails == future'[t] = e /\ future[t] # e
           RespFails   == resp'[t] = e /\ resp[t] # e
           Refused     == e = FilterError /\ \E w \in closed, p \in Products : Arrive(t, w, p)
<1> USE SentinelsAssumption, CoalescerTyped, TasksAssumption DEF Respond, Goto, Tasks, Writers
<1>0. /\ e \notin Versions \cup {NotFound, Rejected, Cancelled, Pending, None}
      /\ e = DbError \/ e = FilterError
  OBVIOUS
<1>1. ASSUME NEW u \in Readers, LoadFails(u)
      PROVE  /\ FutureFails => u = t /\ role[t] = "leader" /\ seen[t] = e
             /\ RespFails => u = t /\ seen[t] = e
  BY <1>0, <1>1 DEF Control, TypeOK, LoadFails, Co!LoaderRaises, Co!Resolve, coalescer
<1>2. ASSUME NEW u \in Readers, WaiterWakes(u)
      PROVE  ~FutureFails /\ (RespFails => u = t /\ future[awaits[t]] = e)
  BY <1>0, <1>2 DEF Control, TypeOK, WaiterWakes, Co!Wake, Co!Leave
<1>3. ASSUME NEW u \in Readers, LoadReturns(u)
      PROVE  ~FutureFails /\ ~RespFails
  <2>1. seen[u] \in Versions
    BY <1>3 DEF Control, Placed, LoadReturns
  <2> QED
    BY <1>0, <1>3, <2>1 DEF Control, TypeOK, LoadReturns, Co!LoaderReturns, Co!Resolve, coalescer
<1>4. ASSUME NEW u \in Readers, AddRaises(u)
      PROVE  /\ FutureFails => u = t /\ role[t] = "leader" /\ e = FilterError
             /\ RespFails => u = t /\ e = FilterError
  BY <1>0, <1>4 DEF Control, TypeOK, AddRaises, Co!LoaderRaises, Co!Resolve, coalescer
<1>5. ASSUME NEW u \in Readers, CacheMiss(u)
      PROVE  ~FutureFails /\ ~RespFails
  BY <1>0, <1>5 DEF Control, TypeOK, CacheMiss, Co!Lead, Co!Join, coalescer
<1>6. ASSUME NEW u \in Tasks, Cancel(u)
      PROVE  ~FutureFails /\ ~RespFails
  BY <1>0, <1>6
     DEF Control, TypeOK, Cancel, Co!Cancel, Co!CancelLeader, Co!CancelWaiter, Co!Resolve,
         Co!Leave, coalescer
<1>7. ASSUME NEW w \in Workers, Crash(w)
      PROVE  ~FutureFails /\ ~RespFails
  BY <1>0, <1>7 DEF Control, TypeOK, Crash, Co!Restart
<1>8. ASSUME UNCHANGED coalescer, resp'[t] = resp[t]
      PROVE  ~FutureFails /\ ~RespFails
  BY <1>8 DEF coalescer
<1>9. ASSUME NEW u \in Writers, NEW w \in Workers, NEW p \in Products,
             Commit(u, w, p) \/ PutNothing(u, w, p) \/ WriteFails(u, w, p)
      PROVE  ~FutureFails /\ ~RespFails
  BY <1>8, <1>9 DEF Control, TypeOK, Commit, PutNothing, WriteFails
<1>10. ASSUME NEW u \in Writers, Evict(u) \/ CommitUnanswered(u)
       PROVE  ~FutureFails /\ ~RespFails
  BY <1>8, <1>10 DEF Control, TypeOK, Evict, CommitUnanswered
<1>11. ASSUME NEW u \in Rebuilders, Rebuild(u) \/ \E w \in Workers : Reset(u, w) \/ ResetFails(u, w)
       PROVE  ~FutureFails /\ ~RespFails
  BY <1>8, <1>11
     DEF Control, TypeOK, Rebuild, Reset, ResetFails, Select, AddRows, AddRowsFails, SelectFails
<1>12. ASSUME NEW p \in Products, Expire(p)
       PROVE  ~FutureFails /\ ~RespFails
  BY <1>8, <1>12 DEF Expire
<1>13. ASSUME UNCHANGED vars
       PROVE  ~FutureFails /\ ~RespFails
  BY <1>8, <1>13 DEF vars
<1>14. ASSUME NEW u \in Readers, CacheGet(u) \/ CacheHit(u) \/ QueryRow(u) \/ Store(u) \/ LateSet(u)
       PROVE  ~FutureFails /\ ~RespFails
  BY <1>0, <1>14 DEF Control, TypeOK, CacheGet, CacheHit, QueryRow, Store, LateSet, coalescer
<1>15. ASSUME NEW u \in Readers, NEW w \in Workers, NEW p \in Products, Arrive(u, w, p)
       PROVE  ~FutureFails /\ (RespFails => Refused)
  BY <1>0, <1>15 DEF Control, TypeOK, Arrive, coalescer
<1> DEFINE Goal == /\ FutureFails => Raises(t, e) /\ role[t] = "leader"
                   /\ RespFails => \/ Raises(t, e)
                                   \/ WaiterWakes(t) /\ future[awaits[t]] = e
                                   \/ Refused
<1> HIDE SentinelsAssumption, CoalescerTyped, TasksAssumption
         DEF FutureFails, RespFails, Refused, Respond, Goto, Tasks, Writers
<1>16. ASSUME NEW u \in Readers, LoadFails(u) \/ AddRaises(u) \/ WaiterWakes(u)
       PROVE  Goal
  <2>1. CASE LoadFails(u)
    BY <1>1, <2>1 DEF Raises
  <2>2. CASE AddRaises(u)
    BY <1>4, <2>2 DEF Raises
  <2>3. CASE WaiterWakes(u)
    BY <1>2, <2>3
  <2> QED
    BY <1>16, <2>1, <2>2, <2>3
<1>17. ~FutureFails /\ (RespFails => Refused) => Goal
  OBVIOUS
<1> HIDE DEF Goal
<1>18. ASSUME NEW u \in Readers, Read(u) \/ LateSet(u)
       PROVE  Goal
  BY <1>3, <1>5, <1>14, <1>16, <1>17, <1>18 DEF Read
<1>19. ASSUME NEW u \in Writers,
              \/ \E w \in Workers, p \in Products :
                    Commit(u, w, p) \/ PutNothing(u, w, p) \/ WriteFails(u, w, p)
              \/ Evict(u) \/ CommitUnanswered(u)
       PROVE  Goal
  BY <1>9, <1>10, <1>17, <1>19
<1>20. ASSUME NEW u \in Rebuilders,
              Rebuild(u) \/ \E w \in Workers : Reset(u, w) \/ ResetFails(u, w)
       PROVE  Goal
  BY <1>11, <1>17, <1>20
<1>21. ASSUME NEW u \in Readers, \E w \in Workers, p \in Products : Arrive(u, w, p)
       PROVE  Goal
  BY <1>15, <1>17, <1>21
<1>22. ASSUME NEW u \in Tasks, Cancel(u)
       PROVE  Goal
  BY <1>6, <1>17, <1>22
<1>23. ASSUME NEW w \in Workers, Crash(w)
       PROVE  Goal
  BY <1>7, <1>17, <1>23
<1>24. ASSUME NEW p \in Products, Expire(p)
       PROVE  Goal
  BY <1>12, <1>17, <1>24
<1>25. ASSUME UNCHANGED vars
       PROVE  Goal
  BY <1>13, <1>17, <1>25
<1>26. Goal
  BY <1>18, <1>19, <1>20, <1>21, <1>22, <1>23, <1>24, <1>25 DEF Next
<1> QED
  BY <1>26 DEF Goal, FutureFails, RespFails, Refused

\* Only a reader that missed the cache takes a place in the coalescer.
LEMMA SlotStays ==
    ASSUME Control, [Next]_vars, NEW t \in Readers, pc[t] # "got"
    PROVE  slot'[t] = slot[t]
<1> USE CoalescerTyped DEF Control
<1>1. ASSUME NEW u \in Readers, CacheMiss(u)
      PROVE  slot'[t] = slot[t]
  BY <1>1 DEF CacheMiss, Goto, Co!Lead, Co!Join, coalescer
<1>2. ASSUME NEW u \in Readers, LoadFails(u) \/ LoadReturns(u) \/ AddRaises(u) \/ WaiterWakes(u)
      PROVE  slot'[t] = slot[t]
  BY <1>2
     DEF LoadFails, LoadReturns, AddRaises, WaiterWakes, Co!LoaderRaises, Co!LoaderReturns,
         Co!Resolve, Co!Wake, Co!Leave, coalescer
<1>3. ASSUME NEW u \in Tasks, Cancel(u)
      PROVE  slot'[t] = slot[t]
  BY <1>3
     DEF Cancel, Co!Cancel, Co!CancelLeader, Co!CancelWaiter, Co!Resolve, Co!Leave, coalescer
<1>4. ASSUME NEW w \in Workers, Crash(w)
      PROVE  slot'[t] = slot[t]
  BY <1>4 DEF Crash, Co!Restart
<1>5. CASE UNCHANGED coalescer
  BY <1>5 DEF coalescer
<1> QED
  BY <1>1, <1>2, <1>3, <1>4, <1>5, ZenonT(40)
     DEF Next, Read, Rebuild, Arrive, CacheGet, CacheHit, QueryRow, Store, LateSet, Commit,
         PutNothing, WriteFails, Evict, CommitUnanswered, Reset, ResetFails, Select, AddRows,
         AddRowsFails, SelectFails, Expire, vars

\* A rebuild that failed stays failed.
LEMMA BrokenStays ==
    ASSUME Control, [Next]_vars, NEW w \in Workers, Broken(w)
    PROVE  Broken(w)'
<1>1. PICK r \in Rebuilders : pc[r] = "done" /\ resp[r] = FilterError /\ Worker(r) = w
  BY DEF Broken
<1>2. pc'[r] = "done" /\ at'[r] = at[r] /\ resp'[r] = resp[r]
  BY <1>1, DoneStays DEF Tasks
<1>3. Worker(r)' = w
  BY <1>1, <1>2 DEF Worker
<1> QED
  BY <1>1, <1>2, <1>3 DEF Broken

\* Only a rebuild that cannot create the new filter leaves a closed one behind.
LEMMA ClosureStep ==
    ASSUME Control, [Next]_vars, NEW w \in closed', w \notin closed
    PROVE  \E r \in Rebuilders : ResetFails(r, w)
<1>1. ASSUME NEW r \in Rebuilders, NEW v \in Workers, ResetFails(r, v)
      PROVE  v = w
  BY <1>1 DEF ResetFails
<1>2. closed' \subseteq closed => FALSE
  OBVIOUS
<1> QED
  BY <1>1, <1>2, ZenonT(40)
     DEF Next, Read, Rebuild, Arrive, CacheGet, CacheHit, CacheMiss, QueryRow, LoadFails, Store,
         LoadReturns, AddRaises, WaiterWakes, LateSet, Commit, PutNothing, WriteFails, Evict,
         CommitUnanswered, Reset, Select, AddRows, AddRowsFails, SelectFails, Cancel, Crash,
         Expire, vars

LEMMA ClosuresNext == ASSUME Control, ClosuresTraced, [Next]_vars PROVE ClosuresTraced'
<1> SUFFICES ASSUME NEW w \in closed'
             PROVE  Broken(w)'
  BY DEF ClosuresTraced
<1>1. w \in Workers
  BY ControlNext DEF TypeOK
<1>2. CASE w \in closed
  BY <1>1, <1>2, BrokenStays DEF ClosuresTraced
<1>3. CASE w \notin closed
  <2>1. PICK r \in Rebuilders : ResetFails(r, w)
    BY <1>3, ClosureStep
  <2>2. pc'[r] = "done" /\ resp'[r] = FilterError /\ at'[r] = <<w, None>>
    BY <2>1 DEF Control, TypeOK, ResetFails, Respond, Goto, Tasks
  <2> QED
    BY <2>2 DEF Broken, Worker
<1> QED
  BY <1>2, <1>3

\* Who failed stays failed, and whoever fails has a query or a rebuild to point to.
LEMMA TracedNext ==
    ASSUME Control, FailuresTraced, ClosuresTraced, [Next]_vars
    PROVE  FailuresTraced'
<1> USE DEF Respond, Goto
<1>1. ASSUME NEW t \in Readers, NEW u \in Readers,
             pc[u] = "done" /\ at[u] = at[t] /\ seen[u] = DbError, at'[t] = at[t]
      PROVE  Blamed(t)'
  <2>1. pc'[u] = "done" /\ at'[u] = at[u] /\ seen'[u] = seen[u]
    BY <1>1, DoneStays DEF Tasks
  <2> QED
    BY <1>1, <2>1 DEF Blamed
<1>2. ASSUME NEW t \in Readers, NEW e \in {DbError, FilterError}, Raises(t, e)
      PROVE  /\ pc[t] \in {"loaded", "stored"} /\ pc'[t] = "done"
             /\ at'[t] = at[t] /\ seen'[t] = seen[t]
  BY <1>2 DEF Raises, Control, TypeOK, LoadFails, AddRaises, Tasks
<1>3. ASSUME NEW t \in Readers, NEW e \in {DbError, FilterError}, Raises(t, e), role[t] = "leader"
      PROVE  slot'[t] = at'[t]
  <2>1. slot[t] = at[t]
    BY <1>3 DEF Control, Linked
  <2>2. slot'[t] = slot[t]
    BY <1>2, <1>3, SlotStays
  <2> QED
    BY <1>2, <1>3, <2>1, <2>2
<1>4. ASSUME NEW t \in Readers, pc[t] # "idle", at'[t] = at[t], Broken(Worker(t))
      PROVE  Broken(Worker(t))'
  <2>1. Worker(t) \in Workers /\ Worker(t)' = Worker(t)
    BY <1>4 DEF Control, Placed, Worker
  <2>2. ASSUME NEW w \in Workers, Broken(w)
        PROVE  Broken(w)'
    BY <2>2, BrokenStays
  <2> QED
    BY <1>4, <2>1, <2>2 DEF Broken
<1>5. ASSUME NEW t \in Readers, AddRaises(t)
      PROVE  Broken(Worker(t))'
  <2>1. pc[t] = "stored" /\ at'[t] = at[t] /\ Worker(t) \in closed
    BY <1>5 DEF AddRaises
  <2> QED
    BY <1>4, <2>1 DEF ClosuresTraced
<1>6. ASSUME NEW t \in Readers, future'[t] = DbError
      PROVE  pc'[t] = "done" /\ seen'[t] = DbError /\ slot'[t] = at'[t]
  <2>1. CASE future[t] = DbError
    <3>1. pc[t] = "done" /\ seen[t] = DbError /\ slot[t] = at[t]
      BY <2>1 DEF FailuresTraced
    <3> QED
      BY <3>1, DoneStays, SlotStays DEF Tasks
  <2>2. CASE future[t] # DbError
    <3>1. Raises(t, DbError) /\ role[t] = "leader"
      BY <1>6, <2>2, FailureStep
    <3>2. seen[t] = DbError
      BY <3>1, SentinelsAssumption DEF Raises
    <3> QED
      BY <1>2, <1>3, <3>1, <3>2
  <2> QED
    BY <2>1, <2>2
<1>7. ASSUME NEW t \in Readers, resp'[t] = DbError
      PROVE  pc'[t] = "done" /\ Blamed(t)'
  <2>1. CASE resp[t] = DbError
    <3>1. pc[t] = "done" /\ Blamed(t)
      BY <2>1 DEF FailuresTraced
    <3>2. pc'[t] = "done" /\ at'[t] = at[t]
      BY <3>1, DoneStays DEF Tasks
    <3> QED
      BY <1>1, <3>1, <3>2 DEF Blamed
  <2>2. CASE resp[t] # DbError
    <3>1. \/ Raises(t, DbError)
          \/ WaiterWakes(t) /\ future[awaits[t]] = DbError
      BY <1>7, <2>2, FailureStep, SentinelsAssumption
    <3>2. CASE Raises(t, DbError)
      <4>1. seen[t] = DbError
        BY <3>2, SentinelsAssumption DEF Raises
      <4> QED
        BY <1>2, <3>2, <4>1 DEF Blamed
    <3>3. CASE WaiterWakes(t) /\ future[awaits[t]] = DbError
      <4>1. pc[t] = "wait" /\ pc'[t] = "done" /\ at'[t] = at[t]
        BY <3>3 DEF Control, TypeOK, WaiterWakes, Tasks
      <4>2. role[t] = "waiter" /\ slot[t] = at[t]
        BY <4>1 DEF Control, Linked
      <4>3. awaits[t] \in Readers /\ slot[awaits[t]] = slot[t]
        BY <4>2, WaiterServed DEF Control
      <4>4. pc[awaits[t]] = "done" /\ seen[awaits[t]] = DbError /\ at[awaits[t]] = at[t]
        BY <3>3, <4>2, <4>3 DEF FailuresTraced
      <4> QED
        BY <1>1, <4>1, <4>3, <4>4
    <3> QED
      BY <3>1, <3>2, <3>3
  <2> QED
    BY <2>1, <2>2
<1>8. ASSUME NEW t \in Readers, future'[t] = FilterError
      PROVE  pc'[t] = "done" /\ slot'[t] = at'[t] /\ Broken(Worker(t))'
  <2>1. CASE future[t] = FilterError
    <3>1. pc[t] = "done" /\ slot[t] = at[t] /\ Broken(Worker(t))
      BY <2>1 DEF FailuresTraced
    <3>2. pc'[t] = "done" /\ at'[t] = at[t] /\ slot'[t] = slot[t]
      BY <3>1, DoneStays, SlotStays DEF Tasks
    <3> QED
      BY <1>4, <3>1, <3>2
  <2>2. CASE future[t] # FilterError
    <3>1. Raises(t, FilterError) /\ role[t] = "leader"
      BY <1>8, <2>2, FailureStep
    <3>2. AddRaises(t)
      BY <3>1, SentinelsAssumption DEF Raises, LoadFails
    <3> QED
      BY <1>2, <1>3, <1>5, <3>1, <3>2
  <2> QED
    BY <2>1, <2>2
<1>9. ASSUME NEW t \in Readers, resp'[t] = FilterError
      PROVE  pc'[t] = "done" /\ Broken(Worker(t))'
  <2>1. CASE resp[t] = FilterError
    <3>1. pc[t] = "done" /\ Broken(Worker(t))
      BY <2>1 DEF FailuresTraced
    <3>2. pc'[t] = "done" /\ at'[t] = at[t]
      BY <3>1, DoneStays DEF Tasks
    <3> QED
      BY <1>4, <3>1, <3>2
  <2>2. CASE resp[t] # FilterError
    <3>1. \/ Raises(t, FilterError)
          \/ WaiterWakes(t) /\ future[awaits[t]] = FilterError
          \/ \E w \in closed, p \in Products : Arrive(t, w, p)
      BY <1>9, <2>2, FailureStep
    <3>2. CASE Raises(t, FilterError)
      <4>1. AddRaises(t)
        BY <3>2, SentinelsAssumption DEF Raises, LoadFails
      <4> QED
        BY <1>2, <1>5, <3>2, <4>1
    <3>3. CASE WaiterWakes(t) /\ future[awaits[t]] = FilterError
      <4>1. pc[t] = "wait" /\ pc'[t] = "done" /\ at'[t] = at[t]
        BY <3>3 DEF Control, TypeOK, WaiterWakes, Tasks
      <4>2. role[t] = "waiter" /\ slot[t] = at[t]
        BY <4>1 DEF Control, Linked
      <4>3. awaits[t] \in Readers /\ slot[awaits[t]] = slot[t]
        BY <4>2, WaiterServed DEF Control
      <4>4. at[awaits[t]] = at[t] /\ Broken(Worker(awaits[t]))
        BY <3>3, <4>2, <4>3 DEF FailuresTraced
      <4>5. Broken(Worker(t))
        BY <4>4 DEF Worker, Broken
      <4> QED
        BY <1>4, <4>1, <4>5
    <3>4. CASE \E w \in closed, p \in Products : Arrive(t, w, p)
      <4>1. PICK w \in closed, p \in Products : Arrive(t, w, p)
        BY <3>4
      <4>2. pc'[t] = "done" /\ at'[t] = <<w, p>>
        BY <4>1 DEF Arrive, Control, TypeOK, Tasks
      <4>3. Broken(w)'
        BY BrokenStays DEF ClosuresTraced, Control, TypeOK
      <4>4. Worker(t)' = w
        BY <4>2 DEF Worker
      <4> QED
        BY <4>2, <4>3, <4>4 DEF Broken
    <3> QED
      BY <3>1, <3>2, <3>3, <3>4
  <2> QED
    BY <2>1, <2>2
<1> QED
  BY <1>6, <1>7, <1>8, <1>9 DEF FailuresTraced

\* A filter loses bits only when its rebuild resets it or its worker is replaced.
LEMMA FilterKept ==
    ASSUME Control, [Next]_vars, NEW w \in Workers,
           ~Crash(w), \A t \in Rebuilders : ~Reset(t, w) /\ ~ResetFails(t, w)
    PROVE  filter[w] \subseteq filter'[w]
<1>1. ASSUME NEW t \in Readers, LoadReturns(t)
      PROVE  filter[w] \subseteq filter'[w]
  BY <1>1 DEF Control, TypeOK, LoadReturns
<1>2. ASSUME NEW t \in Rebuilders, AddRows(t)
      PROVE  filter[w] \subseteq filter'[w]
  BY <1>2 DEF Control, TypeOK, AddRows
<1>3. ASSUME NEW t \in Rebuilders, NEW v \in Workers, Reset(t, v) \/ ResetFails(t, v)
      PROVE  filter[w] \subseteq filter'[w]
  BY <1>3 DEF Control, TypeOK, Reset, ResetFails
<1>4. ASSUME NEW v \in Workers, Crash(v)
      PROVE  filter[w] \subseteq filter'[w]
  BY <1>4 DEF Control, TypeOK, Crash
<1>5. CASE filter' = filter
  BY <1>5
<1> QED
  BY <1>1, <1>2, <1>3, <1>4, <1>5, ZenonT(40)
     DEF Next, Read, Rebuild, Arrive, CacheGet, CacheHit, CacheMiss, QueryRow, LoadFails, Store,
         AddRaises, WaiterWakes, LateSet, Commit, PutNothing, WriteFails, Evict,
         CommitUnanswered, Select, AddRowsFails, SelectFails, Cancel, Expire, vars

\* A rebuild stays under way or failed until it adds its rows or its worker is
\* replaced.
LEMMA RebuildStays ==
    ASSUME Control, [Next]_vars, NEW t \in Rebuilders,
           pc[t] # "idle", pc[t] = "done" => resp[t] # None, ~AddRows(t),
           NEW v \in Workers, Worker(t) = v, ~Crash(v)
    PROVE  /\ pc'[t] # "idle" /\ at'[t] = at[t]
           /\ pc'[t] = "done" => resp'[t] # None
<1> USE SentinelsAssumption, TasksAssumption DEF Respond, Goto, Tasks
<1> DEFINE Stays == /\ pc'[t] # "idle" /\ at'[t] = at[t]
                    /\ pc'[t] = "done" => resp'[t] # None
<1>1. ASSUME pc'[t] = pc[t], at'[t] = at[t], resp'[t] = resp[t]
      PROVE  Stays
  BY <1>1
<1>2. ASSUME NEW u \in Readers,
             Read(u) \/ LateSet(u) \/ \E w \in Workers, p \in Products : Arrive(u, w, p)
      PROVE  Stays
  BY <1>2
     DEF Control, TypeOK, Read, Arrive, CacheGet, CacheHit, CacheMiss, QueryRow, LoadFails, Store,
         LoadReturns, AddRaises, WaiterWakes, LateSet
<1>3. ASSUME NEW u \in Writers,
             \/ \E w \in Workers, p \in Products :
                   Commit(u, w, p) \/ PutNothing(u, w, p) \/ WriteFails(u, w, p)
             \/ Evict(u) \/ CommitUnanswered(u)
      PROVE  Stays
  BY <1>3 DEF Control, TypeOK, Commit, PutNothing, WriteFails, Evict, CommitUnanswered
<1>4. ASSUME NEW u \in Rebuilders, NEW w \in Workers, Reset(u, w) \/ ResetFails(u, w)
      PROVE  Stays
  BY <1>4 DEF Control, TypeOK, Reset, ResetFails
<1>5. ASSUME NEW u \in Rebuilders, Select(u) \/ AddRowsFails(u) \/ SelectFails(u)
      PROVE  Stays
  BY <1>5 DEF Control, TypeOK, Select, AddRowsFails, SelectFails
<1>6. ASSUME NEW u \in Rebuilders, AddRows(u)
      PROVE  Stays
  BY <1>6 DEF Control, TypeOK, AddRows
<1>7. ASSUME NEW u \in Tasks, Cancel(u)
      PROVE  Stays
  BY <1>7 DEF Control, TypeOK, Cancel, After
<1>8. ASSUME NEW w \in Workers, Crash(w)
      PROVE  Stays
  <2>1. v # w
    BY <1>8
  <2> QED
    BY <1>8, <2>1 DEF Control, TypeOK, Crash, After
<1>9. ASSUME NEW p \in Products, Expire(p)
      PROVE  Stays
  BY <1>9 DEF Expire
<1>10. CASE UNCHANGED vars
  BY <1>10 DEF vars
<1> HIDE SentinelsAssumption, TasksAssumption DEF Stays, Respond, Goto, Tasks
<1>11. Stays
  BY <1>2, <1>3, <1>4, <1>5, <1>6, <1>7, <1>8, <1>9, <1>10
     DEF Next, Rebuild, Stays
<1> QED
  BY <1>11 DEF Stays

\* What a rebuild is about to add is what its SELECT returned.
LEMMA IdsStay ==
    ASSUME Control, [Next]_vars, NEW t \in Rebuilders, pc'[t] = "adding", ~Select(t)
    PROVE  pc[t] = "adding" /\ ids'[t] = ids[t]
<1> USE TasksAssumption DEF Control, TypeOK, Respond, Goto, Tasks
<1> DEFINE Stays == pc[t] = "adding" /\ ids'[t] = ids[t]
<1>1. ASSUME NEW u \in Readers,
             Read(u) \/ LateSet(u) \/ \E w \in Workers, p \in Products : Arrive(u, w, p)
      PROVE  Stays
  BY <1>1
     DEF Read, Arrive, CacheGet, CacheHit, CacheMiss, QueryRow, LoadFails, Store, LoadReturns,
         AddRaises, WaiterWakes, LateSet
<1>2. ASSUME NEW u \in Writers,
             \/ \E w \in Workers, p \in Products :
                   Commit(u, w, p) \/ PutNothing(u, w, p) \/ WriteFails(u, w, p)
             \/ Evict(u) \/ CommitUnanswered(u)
      PROVE  Stays
  BY <1>2 DEF Commit, PutNothing, WriteFails, Evict, CommitUnanswered
<1>3. ASSUME NEW u \in Rebuilders, Rebuild(u) \/ \E w \in Workers : Reset(u, w) \/ ResetFails(u, w)
      PROVE  Stays
  BY <1>3 DEF Rebuild, Reset, ResetFails, Select, AddRows, AddRowsFails, SelectFails
<1>4. ASSUME NEW u \in Tasks, Cancel(u)
      PROVE  Stays
  BY <1>4 DEF Cancel, After
<1>5. ASSUME NEW w \in Workers, Crash(w)
      PROVE  Stays
  BY <1>5 DEF Crash, After
<1>6. ASSUME NEW p \in Products, Expire(p)
      PROVE  Stays
  BY <1>6 DEF Expire
<1>7. CASE UNCHANGED vars
  BY <1>7 DEF vars
<1> HIDE TasksAssumption DEF Stays, Control, TypeOK, Respond, Goto, Tasks
<1>8. Stays
  BY <1>1, <1>2, <1>3, <1>4, <1>5, <1>6, <1>7 DEF Next, Stays
<1> QED
  BY <1>8 DEF Stays

\* Only the reset of a rebuild takes a live product out of a filter, and that
\* rebuild brings it back or is seen to fail.
LEMMA OwedNext == ASSUME Control, FiltersOwed, [Next]_vars PROVE FiltersOwed'
<1>1. ASSUME NEW w \in Workers
      PROVE  (Rebuilding(w) \/ \A p \in Live : MayContain(filter[w], p))'
  <2>1. ASSUME \A p \in Live' : BitsOf[p] \subseteq filter'[w]
        PROVE  (\A p \in Live : MayContain(filter[w], p))'
    BY <2>1 DEF MayContain
  <2>2. CASE Crash(w)
    <3>1. Live' = Live
      BY <2>2 DEF Crash, Live, stores
    <3>2. filter'[w] = BitsOfAll(Live)
      BY <2>2 DEF Control, TypeOK, Crash
    <3> QED
      BY <2>1, <3>1, <3>2 DEF BitsOfAll
  <2>3. ASSUME NEW t \in Rebuilders, Reset(t, w) \/ ResetFails(t, w)
        PROVE  Rebuilding(w)'
    <3>1. /\ pc'[t] # "idle" /\ at'[t] = <<w, None>>
          /\ pc'[t] = "done" => resp'[t] # None
      BY <2>3, SentinelsAssumption DEF Control, TypeOK, Reset, ResetFails, Respond, Goto, Tasks
    <3> QED
      BY <3>1 DEF Rebuilding, Worker
  <2>4. ASSUME NEW t \in Rebuilders, AddRows(t), Worker(t) = w
        PROVE  (\A p \in Live : MayContain(filter[w], p))'
    <3>1. Live' \subseteq ids[t]
      BY <2>4, LiveShrinks DEF FiltersOwed, AddRows, Goto
    <3>2. BitsOfAll(ids[t]) \subseteq filter'[w]
      BY <2>4 DEF Control, TypeOK, AddRows
    <3> QED
      BY <2>1, <3>1, <3>2 DEF BitsOfAll
  <2>5. CASE /\ ~Crash(w) /\ \A t \in Rebuilders : ~Reset(t, w) /\ ~ResetFails(t, w)
             /\ \A t \in Rebuilders : Worker(t) = w => ~AddRows(t)
    <3>1. CASE Rebuilding(w)
      <4>1. PICK t \in Rebuilders : /\ pc[t] # "idle" /\ Worker(t) = w
                                    /\ pc[t] = "done" => resp[t] # None
        BY <3>1 DEF Rebuilding
      <4>2. /\ pc'[t] # "idle" /\ at'[t] = at[t]
            /\ pc'[t] = "done" => resp'[t] # None
        <5>1. ~AddRows(t)
          BY <2>5, <4>1
        <5> QED
          BY <2>5, <4>1, <5>1, RebuildStays
      <4>3. Worker(t)' = w
        BY <4>1, <4>2 DEF Worker
      <4>4. Rebuilding(w)'
        BY <4>2, <4>3 DEF Rebuilding
      <4> QED
        BY <4>4
    <3>2. CASE \A p \in Live : MayContain(filter[w], p)
      <4>1. filter[w] \subseteq filter'[w]
        BY <2>5, FilterKept
      <4> QED
        BY <2>1, <3>2, <4>1, LiveShrinks DEF MayContain
    <3> QED
      BY <3>1, <3>2 DEF FiltersOwed
  <2> QED
    BY <2>2, <2>3, <2>4, <2>5
<1>2. ASSUME NEW t \in Rebuilders, pc'[t] = "adding"
      PROVE  Live' \subseteq ids'[t]
  <2>1. CASE Select(t)
    BY <2>1, LiveShrinks DEF Control, TypeOK, Select
  <2>2. CASE ~Select(t)
    <3>1. pc[t] = "adding" /\ ids'[t] = ids[t]
      BY <1>2, <2>2, IdsStay
    <3> QED
      BY <3>1, LiveShrinks DEF FiltersOwed
  <2> QED
    BY <2>1, <2>2
<1> QED
  BY <1>1, <1>2 DEF FiltersOwed

LEMMA AccountsNext == ASSUME Control, Accounts, [Next]_vars PROVE Accounts'
BY UnansweredNext, TracedNext, ClosuresNext, OwedNext DEF Accounts

\* In every reachable state failures are traced and filters accounted for.
THEOREM AccountsInvariant == Spec => [](Control /\ Accounts)
<1>1. Control /\ Accounts /\ [Next]_vars => Accounts'
  BY AccountsNext
<1> QED
  BY <1>1, AccountsInit, ControlInvariant, PTL DEF Spec

\* A worker's filter is open and accepts every live product unless a rebuild of
\* it is under way or failed, however rebuilds, loads, deletes and restarts
\* interleave.
THEOREM NoFalseRejection == Spec => []FilterCoversLive
<1>1. ASSUME Accounts, NEW w \in Workers
      PROVE  \/ w \notin closed /\ \A p \in Live : MayContain(filter[w], p)
             \/ Rebuilding(w)
  <2>1. CASE w \in closed
    <3>1. Broken(w)
      BY <1>1, <2>1 DEF Accounts, ClosuresTraced
    <3>2. FilterError # None
      BY SentinelsAssumption
    <3>3. Rebuilding(w)
      BY <3>1, <3>2 DEF Broken, Rebuilding
    <3> QED
      BY <3>3
  <2>2. CASE w \notin closed
    BY <1>1, <2>2 DEF Accounts, FiltersOwed
  <2> QED
    BY <2>1, <2>2
<1>2. Accounts => FilterCoversLive
  BY <1>1 DEF FilterCoversLive, Rebuilding
<1> QED
  BY <1>2, AccountsInvariant, PTL

\* A read fails for one of two reasons: a failed query for its product in its
\* worker, its own or that of the leader it waited for, or a filter that a
\* rebuild in its worker closed and could not replace.  Redis is never one.
THEOREM RedisOptional == Spec => []FailOpen
<1>1. Accounts => FailOpen
  BY DEF Accounts, FailuresTraced, FailOpen, Blamed, Broken
<1> QED
  BY <1>1, AccountsInvariant, PTL
===============================================================================
