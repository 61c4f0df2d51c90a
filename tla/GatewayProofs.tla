----------------------------- MODULE GatewayProofs -----------------------------
(***************************************************************************)
(* When the cache may be stale, and what readers may be told.  Two layers  *)
(* on top of Control: Data says who may hold an old version of a row, and  *)
(* Answers that whatever a reader has in hand, awaits or was answered is   *)
(* right.  FreshUnlessRaced is not inductive: an answer may come from the  *)
(* cache or from a leader that loaded earlier, so it needs to be true of   *)
(* what is cached and of what leaders hold.                                *)
(***************************************************************************)
EXTENDS GatewayControlProofs

-----------------------------------------------------------------------------
(* Who may hold an old version *)

\* A reader that holds a row it loaded holds the current one, or the product
\* is one that was committed to meanwhile.
HoldersCurrent ==
    \A t \in Readers :
        /\ pc[t] \in {"loaded", "stored", "lateSet"}
        /\ seen[t] \in Versions
        /\ Product(t) \notin raced
        => row[Product(t)].live /\ seen[t] = row[Product(t)].ver

\* No writer was answered for more than it wrote.
AckedBehind ==
    \A p \in Products : acked[p].ver <= row[p].ver /\ (row[p].live => acked[p].live)

\* A writer that is about to invalidate has written, and a deleted row is gone.
WriterKnows ==
    \A t \in Writers : pc[t] = "written" =>
        /\ seen[t] <= row[Product(t)].ver
        /\ t \in Deleters => ~row[Product(t)].live

\* What is cached is no older than what writers were answered for.
CacheFresh ==
    \A p \in Products : cache[p] \in Versions /\ p \notin raced \cup lost =>
        acked[p].live /\ cache[p] >= acked[p].ver

\* A reader's floor is a past value of acked.
FloorBehind ==
    \A t \in Readers : pc[t] # "idle" =>
        /\ floor[t].ver <= acked[Product(t)].ver
        /\ acked[Product(t)].live => floor[t].live

\* Who holds and who knows which version.
Data ==
    /\ HoldersCurrent /\ StaleEntryHasCause
    /\ AckedBehind /\ WriterKnows /\ CacheFresh /\ FloorBehind

\* A cache filled before the service started agrees with Postgres.
LEMMA DataInit == Init => Data
<1> SUFFICES ASSUME Init
             PROVE  Data
  OBVIOUS
<1>1. \A p \in Products : row[p].ver = 1 /\ acked[p] = row[p]
  BY DEF Init
<1>2. \A p \in Products : cache[p] \in Versions => cache[p] = 1 /\ row[p].live
  BY SentinelsAssumption DEF Init, Live
<1>3. \A t \in Tasks : pc[t] = "idle"
  BY DEF Init
<1>4. HoldersCurrent /\ WriterKnows /\ FloorBehind
  BY <1>3 DEF HoldersCurrent, WriterKnows, FloorBehind, Tasks, Writers
<1>5. StaleEntryHasCause /\ AckedBehind /\ CacheFresh
  BY <1>1, <1>2 DEF StaleEntryHasCause, Stale, AckedBehind, CacheFresh
<1> QED
  BY <1>4, <1>5 DEF Data

\* No step leaves a stale entry, or a reader with an old row, without its cause.
LEMMA DataNext == ASSUME Control, Data, [Next]_vars PROVE Data'
<1> USE TasksAssumption, SentinelsAssumption DEF Tasks, Writers, Worker, Product, Fault, vars,
    stores, history, coalescer
<1>1. ASSUME NEW t \in Readers, NEW w \in Workers, NEW p \in Products, Arrive(t, w, p)
      PROVE  Data'
  <2>1. StaleEntryHasCause'
    <3>1. \A u \in Writers : pc'[u] = pc[u] /\ at'[u] = at[u]
      BY <1>1 DEF Control, TypeOK, Arrive, Respond, Goto
    <3>2. UNCHANGED <<row, cache, raced, lost>>
      BY <1>1 DEF Arrive
    <3> HIDE SentinelsAssumption, TasksAssumption
    <3> QED
      BY <3>1, <3>2 DEF Data, StaleEntryHasCause, Stale
  <2>2. FloorBehind'
    BY <1>1
       DEF Control, Data, TypeOK, Placed, HistoryOK, FloorBehind, RowStates, Versions, Arrive,
           Respond, Goto
  <2>3. HoldersCurrent'
    BY <1>1 DEF Control, Data, TypeOK, Placed, HistoryOK, HoldersCurrent, Arrive, Respond, Goto
  <2>4. AckedBehind' /\ WriterKnows' /\ CacheFresh'
    BY <1>1
       DEF Control, Data, TypeOK, Placed, HistoryOK, AckedBehind, WriterKnows, HoldersCurrent,
           CacheFresh, Arrive, Respond, Goto
  <2> QED
    BY <2>1, <2>2, <2>3, <2>4 DEF Data
<1>2. ASSUME NEW t \in Readers, CacheGet(t)
      PROVE  Data'
  <2>1. HoldersCurrent' /\ StaleEntryHasCause'
    BY <1>2
       DEF Control, Data, TypeOK, Placed, HistoryOK, HoldersCurrent, StaleEntryHasCause, Stale,
           CacheGet, Goto, Entries
  <2>2. AckedBehind' /\ WriterKnows' /\ CacheFresh' /\ FloorBehind'
    BY <1>2
       DEF Control, Data, TypeOK, Placed, HistoryOK, AckedBehind, WriterKnows, HoldersCurrent,
           CacheFresh, FloorBehind, CacheGet, Goto, Entries
  <2> QED
    BY <2>1, <2>2 DEF Data
<1>3. ASSUME NEW t \in Readers, CacheHit(t)
      PROVE  Data'
  <2>1. HoldersCurrent' /\ StaleEntryHasCause'
    BY <1>3
       DEF Control, Data, TypeOK, Placed, HistoryOK, HoldersCurrent, StaleEntryHasCause, Stale,
           CacheHit, Respond, Goto
  <2>2. AckedBehind' /\ WriterKnows' /\ CacheFresh' /\ FloorBehind'
    BY <1>3
       DEF Control, Data, TypeOK, Placed, HistoryOK, AckedBehind, WriterKnows, HoldersCurrent,
           CacheFresh, FloorBehind, CacheHit, Respond, Goto
  <2> QED
    BY <2>1, <2>2 DEF Data
<1>4. ASSUME NEW t \in Readers, CacheMiss(t)
      PROVE  Data'
  <2>1. HoldersCurrent' /\ StaleEntryHasCause'
    BY <1>4
       DEF Control, Data, TypeOK, Placed, HistoryOK, HoldersCurrent, StaleEntryHasCause, Stale,
           CacheMiss, Goto
  <2>2. AckedBehind' /\ WriterKnows' /\ CacheFresh' /\ FloorBehind'
    BY <1>4
       DEF Control, Data, TypeOK, Placed, HistoryOK, AckedBehind, WriterKnows, HoldersCurrent,
           CacheFresh, FloorBehind, CacheMiss, Goto
  <2> QED
    BY <2>1, <2>2 DEF Data
<1>5. ASSUME NEW t \in Readers, QueryRow(t)
      PROVE  Data'
  <2>1. HoldersCurrent'
    BY <1>5 DEF Control, Data, TypeOK, Placed, HistoryOK, HoldersCurrent, QueryRow, Goto
  <2>2. StaleEntryHasCause'
    BY <1>5
       DEF Control, Data, TypeOK, Placed, HistoryOK, HoldersCurrent, StaleEntryHasCause, Stale,
           QueryRow, Goto
  <2>3. AckedBehind' /\ WriterKnows' /\ CacheFresh' /\ FloorBehind'
    BY <1>5
       DEF Control, Data, TypeOK, Placed, HistoryOK, AckedBehind, WriterKnows, HoldersCurrent,
           CacheFresh, FloorBehind, QueryRow, Goto
  <2> QED
    BY <2>1, <2>2, <2>3 DEF Data
<1>6. ASSUME NEW t \in Readers, LoadFails(t)
      PROVE  Data'
  <2>1. HoldersCurrent' /\ StaleEntryHasCause'
    BY <1>6
       DEF Control, Data, TypeOK, Placed, HistoryOK, HoldersCurrent, StaleEntryHasCause, Stale,
           LoadFails, Respond, Goto
  <2>2. AckedBehind' /\ WriterKnows' /\ CacheFresh' /\ FloorBehind'
    BY <1>6
       DEF Control, Data, TypeOK, Placed, HistoryOK, AckedBehind, WriterKnows, HoldersCurrent,
           CacheFresh, FloorBehind, LoadFails, Respond, Goto
  <2> QED
    BY <2>1, <2>2 DEF Data
<1>7. ASSUME NEW t \in Readers, Store(t)
      PROVE  Data'
  <2>1. StaleEntryHasCause'
    BY <1>7
       DEF Control, Data, TypeOK, Placed, HistoryOK, HoldersCurrent, StaleEntryHasCause, Stale,
           Store, Goto, Entries
  <2>2. CacheFresh'
    BY <1>7
       DEF Control, Data, TypeOK, Placed, HistoryOK, HoldersCurrent, AckedBehind, CacheFresh,
           RowStates, Versions, Store, Goto, Entries
  <2>3. HoldersCurrent'
    BY <1>7 DEF Control, Data, TypeOK, Placed, HistoryOK, HoldersCurrent, Store, Goto, Entries
  <2>4. AckedBehind' /\ WriterKnows' /\ FloorBehind'
    BY <1>7
       DEF Control, Data, TypeOK, Placed, HistoryOK, AckedBehind, WriterKnows, FloorBehind, Store,
           Goto, Entries
  <2> QED
    BY <2>1, <2>2, <2>3, <2>4 DEF Data
<1>8. ASSUME NEW t \in Readers, LoadReturns(t)
      PROVE  Data'
  <2>1. HoldersCurrent' /\ StaleEntryHasCause'
    BY <1>8
       DEF Control, Data, TypeOK, Placed, HistoryOK, HoldersCurrent, StaleEntryHasCause, Stale,
           LoadReturns, Respond, Goto
  <2>2. AckedBehind' /\ WriterKnows' /\ CacheFresh' /\ FloorBehind'
    BY <1>8
       DEF Control, Data, TypeOK, Placed, HistoryOK, AckedBehind, WriterKnows, HoldersCurrent,
           CacheFresh, FloorBehind, LoadReturns, Respond, Goto
  <2> QED
    BY <2>1, <2>2 DEF Data
<1>9. ASSUME NEW t \in Readers, WaiterWakes(t)
      PROVE  Data'
  <2>1. HoldersCurrent' /\ StaleEntryHasCause'
    BY <1>9
       DEF Control, Data, TypeOK, Placed, HistoryOK, HoldersCurrent, StaleEntryHasCause, Stale,
           WaiterWakes, Respond, Goto
  <2>2. AckedBehind' /\ WriterKnows' /\ CacheFresh' /\ FloorBehind'
    BY <1>9
       DEF Control, Data, TypeOK, Placed, HistoryOK, AckedBehind, WriterKnows, HoldersCurrent,
           CacheFresh, FloorBehind, WaiterWakes, Respond, Goto
  <2> QED
    BY <2>1, <2>2 DEF Data
<1>10. ASSUME NEW t \in Readers, LateSet(t)
      PROVE  Data'
  <2>1. StaleEntryHasCause'
    BY <1>10
       DEF Control, Data, TypeOK, Placed, HistoryOK, HoldersCurrent, StaleEntryHasCause, Stale,
           LateSet, Goto, Entries
  <2>2. CacheFresh'
    BY <1>10
       DEF Control, Data, TypeOK, Placed, HistoryOK, HoldersCurrent, AckedBehind, CacheFresh,
           RowStates, Versions, LateSet, Goto, Entries
  <2>3. HoldersCurrent'
    BY <1>10 DEF Control, Data, TypeOK, Placed, HistoryOK, HoldersCurrent, LateSet, Goto, Entries
  <2>4. AckedBehind' /\ WriterKnows' /\ FloorBehind'
    BY <1>10
       DEF Control, Data, TypeOK, Placed, HistoryOK, AckedBehind, WriterKnows, FloorBehind,
           LateSet, Goto, Entries
  <2> QED
    BY <2>1, <2>2, <2>3, <2>4 DEF Data
<1>11. ASSUME NEW t \in Writers, NEW w \in Workers, NEW p \in Products, Commit(t, w, p)
      PROVE  Data'
  <2>1. HoldersCurrent'
    BY <1>11 DEF Control, Data, TypeOK, Placed, HistoryOK, HoldersCurrent, Commit, Goto, Holding
  <2>2. StaleEntryHasCause'
    BY <1>11
       DEF Control, Data, TypeOK, Placed, HistoryOK, HoldersCurrent, StaleEntryHasCause, Stale,
           Commit, Goto, Holding
  <2>3. AckedBehind'
    BY <1>11
       DEF Control, Data, TypeOK, Placed, HistoryOK, AckedBehind, WriterKnows, RowStates,
           Versions, Commit, Goto, Holding
  <2>4. WriterKnows'
    BY <1>11
       DEF Control, Data, TypeOK, Placed, WriterKnows, RowStates, Versions, Commit, Goto, Holding
  <2>5. CacheFresh' /\ FloorBehind'
    BY <1>11
       DEF Control, Data, TypeOK, Placed, HistoryOK, HoldersCurrent, AckedBehind, CacheFresh,
           FloorBehind, Commit, Goto, Holding
  <2> QED
    BY <2>1, <2>2, <2>3, <2>4, <2>5 DEF Data
<1>12. ASSUME NEW t \in Writers, NEW w \in Workers, NEW p \in Products, PutNothing(t, w, p)
      PROVE  Data'
  <2>1. WriterKnows'
    BY <1>12 DEF Control, Data, TypeOK, Placed, WriterKnows, RowStates, Versions, PutNothing, Goto
  <2>2. HoldersCurrent' /\ StaleEntryHasCause'
    BY <1>12
       DEF Control, Data, TypeOK, Placed, HistoryOK, HoldersCurrent, StaleEntryHasCause, Stale,
           PutNothing, Goto
  <2>3. AckedBehind' /\ CacheFresh' /\ FloorBehind'
    BY <1>12
       DEF Control, Data, TypeOK, Placed, HistoryOK, AckedBehind, WriterKnows, HoldersCurrent,
           CacheFresh, FloorBehind, PutNothing, Goto
  <2> QED
    BY <2>1, <2>2, <2>3 DEF Data
<1>13. ASSUME NEW t \in Writers, NEW w \in Workers, NEW p \in Products, WriteFails(t, w, p)
      PROVE  Data'
  <2>1. StaleEntryHasCause'
    <3>1. \A u \in Writers : pc[u] = "written" => pc'[u] = pc[u] /\ at'[u] = at[u]
      BY <1>13 DEF Control, TypeOK, WriteFails, Respond, Goto
    <3>2. UNCHANGED <<row, cache, raced, lost>>
      BY <1>13 DEF WriteFails
    <3> HIDE SentinelsAssumption, TasksAssumption
    <3> QED
      BY <3>1, <3>2 DEF Data, StaleEntryHasCause, Stale
  <2>2. HoldersCurrent'
    BY <1>13
       DEF Control, Data, TypeOK, Placed, HistoryOK, HoldersCurrent, WriteFails, Respond, Goto
  <2>3. AckedBehind' /\ WriterKnows' /\ CacheFresh' /\ FloorBehind'
    BY <1>13
       DEF Control, Data, TypeOK, Placed, HistoryOK, AckedBehind, WriterKnows, HoldersCurrent,
           CacheFresh, FloorBehind, WriteFails, Respond, Goto
  <2> QED
    BY <2>1, <2>2, <2>3 DEF Data
<1>14. ASSUME NEW t \in Writers, Evict(t)
      PROVE  Data'
  <2> DEFINE q == Product(t)
  <2>1. /\ q \in Products /\ seen[t] \in Versions /\ seen[t] <= row[q].ver
        /\ t \in Deleters => ~row[q].live
    BY <1>14 DEF Control, Placed, Data, WriterKnows, Evict, Respond, Goto
  <2>2. /\ UNCHANGED <<row, at, seen, floor, raced>>
        /\ pc'[t] = "done" /\ \A u \in Tasks \ {t} : pc'[u] = pc[u]
    BY <1>14 DEF Control, TypeOK, Evict, Respond, Goto
  <2>3. \/ cache'[q] = Absent /\ lost' = lost /\ \A p \in Products \ {q} : cache'[p] = cache[p]
        \/ cache' = cache /\ lost' = lost \cup {q}
    BY <1>14, <2>1 DEF Control, TypeOK, Evict
  <2>4. /\ acked'[q].ver = (IF acked[q].ver < seen[t] THEN seen[t] ELSE acked[q].ver)
        /\ acked'[q].live = (acked[q].live /\ t \notin Deleters)
        /\ \A p \in Products \ {q} : acked'[p] = acked[p]
    <3>1. acked' = [acked EXCEPT
                        ![q].ver  = IF @ < seen[t] THEN seen[t] ELSE @,
                        ![q].live = @ /\ t \notin Deleters]
      BY <1>14 DEF Evict
    <3>2. acked \in [Products -> [ver : Versions, live : BOOLEAN]]
      BY DEF Control, HistoryOK, RowStates
    <3> HIDE TasksAssumption, SentinelsAssumption DEF q
    <3>3. q \in Products
      BY <2>1 DEF q
    <3> QED
      BY <3>1, <3>2, <3>3
  <2>5. \A p \in Products : acked[p].ver \in Nat /\ row[p].ver \in Nat
    BY DEF Control, TypeOK, HistoryOK, RowStates, Versions
  <2>6. seen[t] \in Nat /\ Absent \notin Versions
    <3>1. seen[t] \in Nat
      BY <2>1 DEF Versions
    <3> QED
      BY <3>1
  <2> HIDE TasksAssumption, SentinelsAssumption DEF q
  <2>7. ASSUME NEW p \in Products
        PROVE  acked[p].ver <= acked'[p].ver /\ (acked'[p].live => acked[p].live) /\ acked'[p].ver \in Nat
    <3>1. CASE p = q
      <4>1. acked[q].ver \in Nat /\ seen[t] \in Nat
        BY <2>5, <2>6, <3>1
      <4>2. acked'[q].ver \in Nat /\ acked[q].ver <= acked'[q].ver
        BY <2>4, <4>1
      <4> QED
        BY <2>4, <3>1, <4>2
    <3>2. CASE p # q
      <4>1. acked'[p] = acked[p] /\ acked[p].ver \in Nat
        BY <2>4, <2>5, <3>2
      <4> QED
        BY <4>1
    <3> QED
      BY <3>1, <3>2
  <2>8. StaleEntryHasCause'
    <3>1. ASSUME NEW p \in Products, Stale(p)'
          PROVE  \/ \E u \in Writers : pc'[u] = "written" /\ at'[u][2] = p
                 \/ p \in raced' \cup lost'
      <4>1. CASE p = q
        BY <2>2, <2>3, <2>6, <3>1, <4>1 DEF Stale
      <4>2. CASE p # q
        <5>1. Stale(p) /\ p \notin {q}
          BY <2>2, <2>3, <3>1, <4>2 DEF Stale
        <5>2. \/ \E u \in Writers : pc[u] = "written" /\ at[u][2] = p
              \/ p \in raced \cup lost
          BY <5>1 DEF Data, StaleEntryHasCause
        <5> QED
          BY <2>2, <2>3, <4>2, <5>2 DEF q
      <4> QED
        BY <4>1, <4>2
    <3> QED
      BY <3>1 DEF StaleEntryHasCause
  <2>9. AckedBehind'
    BY <2>1, <2>2, <2>4, <2>5, <2>6 DEF Data, AckedBehind
  <2>10. CacheFresh'
    <3>1. ASSUME NEW p \in Products, cache'[p] \in Versions, p \notin raced' \cup lost'
          PROVE  acked'[p].live /\ cache'[p] >= acked'[p].ver
      <4>1. p # q /\ cache'[p] = cache[p] /\ p \notin raced \cup lost
        BY <2>2, <2>3, <2>6, <3>1
      <4> QED
        BY <2>4, <3>1, <4>1 DEF Data, CacheFresh
    <3> QED
      BY <3>1 DEF CacheFresh
  <2>11. FloorBehind'
    <3>1. ASSUME NEW u \in Readers, pc'[u] # "idle"
          PROVE  /\ floor'[u].ver <= acked'[at'[u][2]].ver
                 /\ acked'[at'[u][2]].live => floor'[u].live
      <4>1. pc[u] # "idle" /\ floor'[u] = floor[u] /\ at'[u] = at[u]
        BY TasksAssumption, <2>2, <3>1
      <4>2. at[u] \in Workers \X Products /\ floor[u] \in RowStates
        BY <4>1 DEF Control, Placed
      <4>3. at[u][2] \in Products /\ floor[u].ver \in Nat
        BY <4>2 DEF RowStates, Versions
      <4>4. floor[u].ver <= acked[at[u][2]].ver /\ (acked[at[u][2]].live => floor[u].live)
        BY <4>1 DEF Data, FloorBehind
      <4> QED
        BY <2>5, <2>7, <4>1, <4>3, <4>4
    <3> QED
      BY <3>1 DEF FloorBehind
  <2>12. HoldersCurrent'
    BY TasksAssumption, <2>2 DEF Data, HoldersCurrent
  <2>13. WriterKnows'
    BY <2>2 DEF Data, WriterKnows
  <2> QED
    BY <2>8, <2>9, <2>10, <2>11, <2>12, <2>13 DEF Data
<1>15. ASSUME NEW t \in Writers, CommitUnanswered(t)
      PROVE  Data'
  <2>1. StaleEntryHasCause'
    BY <1>15
       DEF Control, Data, TypeOK, Placed, HistoryOK, HoldersCurrent, StaleEntryHasCause, Stale,
           CommitUnanswered, Respond, Goto
  <2>2. HoldersCurrent'
    BY <1>15
       DEF Control, Data, TypeOK, Placed, HistoryOK, HoldersCurrent, CommitUnanswered, Respond,
           Goto
  <2>3. AckedBehind' /\ WriterKnows' /\ CacheFresh' /\ FloorBehind'
    BY <1>15
       DEF Control, Data, TypeOK, Placed, HistoryOK, AckedBehind, WriterKnows, HoldersCurrent,
           CacheFresh, FloorBehind, CommitUnanswered, Respond, Goto
  <2> QED
    BY <2>1, <2>2, <2>3 DEF Data
<1>16. ASSUME NEW t \in Rebuilders, NEW w \in Workers, Reset(t, w)
      PROVE  Data'
  <2>1. HoldersCurrent' /\ StaleEntryHasCause'
    BY <1>16
       DEF Control, Data, TypeOK, Placed, HistoryOK, HoldersCurrent, StaleEntryHasCause, Stale,
           Reset, Goto
  <2>2. AckedBehind' /\ WriterKnows' /\ CacheFresh' /\ FloorBehind'
    BY <1>16
       DEF Control, Data, TypeOK, Placed, HistoryOK, AckedBehind, WriterKnows, HoldersCurrent,
           CacheFresh, FloorBehind, Reset, Goto
  <2> QED
    BY <2>1, <2>2 DEF Data
<1>17. ASSUME NEW t \in Rebuilders, Select(t)
      PROVE  Data'
  <2>1. HoldersCurrent' /\ StaleEntryHasCause'
    BY <1>17
       DEF Control, Data, TypeOK, Placed, HistoryOK, HoldersCurrent, StaleEntryHasCause, Stale,
           Select, Goto
  <2>2. AckedBehind' /\ WriterKnows' /\ CacheFresh' /\ FloorBehind'
    BY <1>17
       DEF Control, Data, TypeOK, Placed, HistoryOK, AckedBehind, WriterKnows, HoldersCurrent,
           CacheFresh, FloorBehind, Select, Goto
  <2> QED
    BY <2>1, <2>2 DEF Data
<1>18. ASSUME NEW t \in Rebuilders, AddRows(t)
      PROVE  Data'
  <2>1. HoldersCurrent' /\ StaleEntryHasCause'
    BY <1>18
       DEF Control, Data, TypeOK, Placed, HistoryOK, HoldersCurrent, StaleEntryHasCause, Stale,
           AddRows, Goto
  <2>2. AckedBehind' /\ WriterKnows' /\ CacheFresh' /\ FloorBehind'
    BY <1>18
       DEF Control, Data, TypeOK, Placed, HistoryOK, AckedBehind, WriterKnows, HoldersCurrent,
           CacheFresh, FloorBehind, AddRows, Goto
  <2> QED
    BY <2>1, <2>2 DEF Data
<1>19. ASSUME NEW t \in Rebuilders, SelectFails(t)
      PROVE  Data'
  <2>1. HoldersCurrent' /\ StaleEntryHasCause'
    BY <1>19
       DEF Control, Data, TypeOK, Placed, HistoryOK, HoldersCurrent, StaleEntryHasCause, Stale,
           SelectFails, Respond, Goto
  <2>2. AckedBehind' /\ WriterKnows' /\ CacheFresh' /\ FloorBehind'
    BY <1>19
       DEF Control, Data, TypeOK, Placed, HistoryOK, AckedBehind, WriterKnows, HoldersCurrent,
           CacheFresh, FloorBehind, SelectFails, Respond, Goto
  <2> QED
    BY <2>1, <2>2 DEF Data
<1>20. ASSUME NEW t \in Tasks, Cancel(t)
      PROVE  Data'
  <2>1. HoldersCurrent'
    BY <1>20 DEF Control, Data, TypeOK, Placed, HistoryOK, HoldersCurrent, Cancel, After
  <2>2. StaleEntryHasCause'
    BY <1>20
       DEF Control, Data, TypeOK, Placed, HistoryOK, HoldersCurrent, StaleEntryHasCause, Stale,
           Cancel, After
  <2>3. AckedBehind' /\ WriterKnows' /\ CacheFresh' /\ FloorBehind'
    BY <1>20
       DEF Control, Data, TypeOK, Placed, HistoryOK, AckedBehind, WriterKnows, HoldersCurrent,
           CacheFresh, FloorBehind, Cancel, After
  <2> QED
    BY <2>1, <2>2, <2>3 DEF Data
<1>21. ASSUME NEW w \in Workers, Crash(w)
      PROVE  Data'
  <2>1. HoldersCurrent'
    BY <1>21 DEF Control, Data, TypeOK, Placed, HistoryOK, HoldersCurrent, Crash, After
  <2>2. StaleEntryHasCause'
    <3>1. ASSUME NEW p \in Products, Stale(p), p \notin raced \cup lost,
                 NEW u \in Writers, pc[u] = "written", Product(u) = p
          PROVE  (pc'[u] = "written" /\ Product(u)' = p) \/ p \in lost'
      BY <1>21, <3>1 DEF Control, TypeOK, Crash
    <3>2. raced' = raced /\ lost \subseteq lost' /\ \A p \in Products : Stale(p)' => Stale(p)
      BY <1>21 DEF Crash, Stale
    <3> QED
      BY <3>1, <3>2 DEF Data, StaleEntryHasCause
  <2>3. AckedBehind' /\ WriterKnows' /\ CacheFresh' /\ FloorBehind'
    BY <1>21
       DEF Control, Data, TypeOK, Placed, HistoryOK, AckedBehind, WriterKnows, HoldersCurrent,
           CacheFresh, FloorBehind, Crash, After
  <2> QED
    BY <2>1, <2>2, <2>3 DEF Data
<1>22. ASSUME NEW p \in Products, Expire(p)
      PROVE  Data'
  <2>1. StaleEntryHasCause'
    BY <1>22
       DEF Control, Data, TypeOK, Placed, HistoryOK, HoldersCurrent, StaleEntryHasCause, Stale,
           Expire, Entries
  <2>2. HoldersCurrent'
    BY <1>22 DEF Control, Data, TypeOK, Placed, HistoryOK, HoldersCurrent, Expire, Entries
  <2>3. AckedBehind' /\ WriterKnows' /\ CacheFresh' /\ FloorBehind'
    BY <1>22
       DEF Control, Data, TypeOK, Placed, HistoryOK, AckedBehind, WriterKnows, HoldersCurrent,
           CacheFresh, FloorBehind, Expire, Entries
  <2> QED
    BY <2>1, <2>2, <2>3 DEF Data
<1>23. ASSUME NEW t \in Readers, AddRaises(t)
      PROVE  Data'
  <2>1. HoldersCurrent' /\ StaleEntryHasCause'
    BY <1>23
       DEF Control, Data, TypeOK, Placed, HistoryOK, HoldersCurrent, StaleEntryHasCause, Stale,
           AddRaises, Respond, Goto
  <2>2. AckedBehind' /\ WriterKnows' /\ CacheFresh' /\ FloorBehind'
    BY <1>23
       DEF Control, Data, TypeOK, Placed, HistoryOK, AckedBehind, WriterKnows, HoldersCurrent,
           CacheFresh, FloorBehind, AddRaises, Respond, Goto
  <2> QED
    BY <2>1, <2>2 DEF Data
<1>24. ASSUME NEW t \in Rebuilders, NEW w \in Workers, ResetFails(t, w)
      PROVE  Data'
  <2>1. HoldersCurrent' /\ StaleEntryHasCause'
    BY <1>24
       DEF Control, Data, TypeOK, Placed, HistoryOK, HoldersCurrent, StaleEntryHasCause, Stale,
           ResetFails, Respond, Goto
  <2>2. AckedBehind' /\ WriterKnows' /\ CacheFresh' /\ FloorBehind'
    BY <1>24
       DEF Control, Data, TypeOK, Placed, HistoryOK, AckedBehind, WriterKnows, HoldersCurrent,
           CacheFresh, FloorBehind, ResetFails, Respond, Goto
  <2> QED
    BY <2>1, <2>2 DEF Data
<1>25. ASSUME NEW t \in Rebuilders, AddRowsFails(t)
      PROVE  Data'
  <2>1. HoldersCurrent' /\ StaleEntryHasCause'
    BY <1>25
       DEF Control, Data, TypeOK, Placed, HistoryOK, HoldersCurrent, StaleEntryHasCause, Stale,
           AddRowsFails, Respond, Goto
  <2>2. AckedBehind' /\ WriterKnows' /\ CacheFresh' /\ FloorBehind'
    BY <1>25
       DEF Control, Data, TypeOK, Placed, HistoryOK, AckedBehind, WriterKnows, HoldersCurrent,
           CacheFresh, FloorBehind, AddRowsFails, Respond, Goto
  <2> QED
    BY <2>1, <2>2 DEF Data
<1>26. CASE UNCHANGED vars
  BY <1>26
     DEF Data, HoldersCurrent, StaleEntryHasCause, AckedBehind, WriterKnows, CacheFresh,
         FloorBehind, Stale
<1> QED
  BY <1>1, <1>2, <1>3, <1>4, <1>5, <1>6, <1>7, <1>8, <1>9, <1>10, <1>11, <1>12, <1>13, <1>14,
     <1>15, <1>16, <1>17, <1>18, <1>19, <1>20, <1>21, <1>22, <1>23, <1>24, <1>25, <1>26
     DEF Next, Read, Rebuild

-----------------------------------------------------------------------------
(* Nobody is ahead of Postgres *)

\* No cache entry and no reader holds a version that was not committed.
NoneAhead ==
    /\ \A p \in Products : cache[p] \in Versions => cache[p] <= row[p].ver
    /\ \A t \in Readers :
        pc[t] \in {"loaded", "stored", "lateSet"} /\ seen[t] \in Versions =>
            seen[t] <= row[Product(t)].ver

\* Versions never go back.
LEMMA RowsGrow ==
    ASSUME Control, [Next]_vars, NEW p \in Products
    PROVE  row[p].ver <= row'[p].ver
<1>1. ASSUME NEW t \in Writers, NEW w \in Workers, NEW q \in Products, Commit(t, w, q)
      PROVE  row[p].ver <= row'[p].ver
  BY <1>1 DEF Control, TypeOK, Versions, Commit
<1>2. CASE row' = row
  BY <1>2 DEF Control, TypeOK, Versions
<1> QED
  BY <1>1, <1>2, RowOnlyCommits

\* An entry is what it was, gone, or what a reader held.
LEMMA EntrySource ==
    ASSUME Control, [Next]_vars, NEW p \in Products, cache'[p] \in Versions
    PROVE  \/ cache'[p] = cache[p]
           \/ \E t \in Readers : /\ pc[t] \in {"loaded", "lateSet"} /\ seen[t] = cache'[p]
                               /\ Product(t) = p
<1>1. ASSUME NEW t \in Readers, Store(t) \/ LateSet(t)
      PROVE  \/ cache'[p] = cache[p]
             \/ /\ pc[t] \in {"loaded", "lateSet"} /\ seen[t] = cache'[p]
                /\ Product(t) = p
  BY <1>1 DEF Control, TypeOK, Store, LateSet, Goto
<1>2. ASSUME NEW t \in Writers, Evict(t)
      PROVE  cache'[p] = cache[p]
  BY <1>2, SentinelsAssumption DEF Control, TypeOK, Evict
<1>3. ASSUME NEW q \in Products, Expire(q)
      PROVE  cache'[p] = cache[p]
  BY <1>3, SentinelsAssumption DEF Control, TypeOK, Expire
<1>4. CASE cache' = cache
  BY <1>4
<1> QED
  BY <1>1, <1>2, <1>3, <1>4
     DEF Next, Read, Rebuild, Arrive, CacheGet, CacheHit, CacheMiss, QueryRow, LoadFails,
         LoadReturns, AddRaises, WaiterWakes, Commit, PutNothing, WriteFails, CommitUnanswered,
         Reset, ResetFails, Select, AddRows, AddRowsFails, SelectFails, Cancel, Crash, stores, vars

\* What a reader holds it held before, or Postgres has just returned.
LEMMA HeldSource ==
    ASSUME Control, [Next]_vars, NEW t \in Readers,
           pc'[t] \in {"loaded", "stored", "lateSet"}, seen'[t] \in Versions
    PROVE  /\ at'[t] = at[t] /\ pc[t] # "idle"
           /\ \/ pc[t] \in {"loaded", "stored", "lateSet"} /\ seen'[t] = seen[t]
              \/ seen'[t] = row[Product(t)].ver
<1> USE TasksAssumption, SentinelsAssumption DEF Control, TypeOK, Respond, Goto, Tasks, Writers
<1> DEFINE Held == /\ at'[t] = at[t] /\ pc[t] # "idle"
                   /\ \/ pc[t] \in {"loaded", "stored", "lateSet"} /\ seen'[t] = seen[t]
                      \/ seen'[t] = row[Product(t)].ver
<1>1. ASSUME NEW u \in Readers, NEW w \in Workers, NEW p \in Products, Arrive(u, w, p)
      PROVE  Held
  BY <1>1 DEF Arrive
<1>2. ASSUME NEW u \in Readers, Read(u) \/ LateSet(u)
      PROVE  Held
  BY <1>2
     DEF Read, CacheGet, CacheHit, CacheMiss, QueryRow, LoadFails, Store, LoadReturns,
         AddRaises, WaiterWakes, LateSet
<1>3. ASSUME NEW u \in Writers, NEW w \in Workers, NEW p \in Products,
             Commit(u, w, p) \/ PutNothing(u, w, p) \/ WriteFails(u, w, p)
      PROVE  Held
  BY <1>3 DEF Commit, PutNothing, WriteFails
<1>4. ASSUME NEW u \in Writers, Evict(u) \/ CommitUnanswered(u)
      PROVE  Held
  BY <1>4 DEF Evict, CommitUnanswered
<1>5. ASSUME NEW u \in Rebuilders, Rebuild(u) \/ \E w \in Workers : Reset(u, w) \/ ResetFails(u, w)
      PROVE  Held
  BY <1>5 DEF Rebuild, Reset, ResetFails, Select, AddRows, AddRowsFails, SelectFails
<1>6. ASSUME NEW u \in Tasks, Cancel(u)
      PROVE  Held
  BY <1>6 DEF Cancel, After
<1>7. ASSUME NEW w \in Workers, Crash(w)
      PROVE  Held
  BY <1>7 DEF Crash, After
<1>8. ASSUME NEW p \in Products, Expire(p)
      PROVE  Held
  BY <1>8 DEF Expire
<1>9. CASE UNCHANGED vars
  BY <1>9 DEF vars
<1> HIDE TasksAssumption, SentinelsAssumption
         DEF Held, Control, TypeOK, Respond, Goto, Tasks, Writers
<1>10. Held
  BY <1>1, <1>2, <1>3, <1>4, <1>5, <1>6, <1>7, <1>8, <1>9 DEF Next, Held
<1> QED
  BY <1>10 DEF Held

\* What was filled before the service started is version 1.
LEMMA NoneAheadInit == Init => NoneAhead
BY SentinelsAssumption DEF Init, NoneAhead, Tasks

\* No step puts a version into the cache or into a reader's hands that Postgres
\* does not have.
LEMMA NoneAheadNext == ASSUME Control, NoneAhead, [Next]_vars PROVE NoneAhead'
<1>0. TypeOK'
  BY ControlNext
<1>1. ASSUME NEW p \in Products, NEW v \in Versions, v <= row[p].ver
      PROVE  v <= row'[p].ver
  BY <1>0, <1>1, RowsGrow DEF Control, TypeOK, Versions
<1>2. ASSUME NEW p \in Products, cache'[p] \in Versions
      PROVE  cache'[p] <= row'[p].ver
  BY <1>1, <1>2, EntrySource DEF NoneAhead
<1>3. ASSUME NEW t \in Readers,
             pc'[t] \in {"loaded", "stored", "lateSet"}, seen'[t] \in Versions
      PROVE  seen'[t] <= row'[Product(t)'].ver
  <2>1. Product(t)' = Product(t) /\ Product(t) \in Products
    <3>1. at'[t] = at[t] /\ pc[t] # "idle"
      BY <1>3, HeldSource
    <3> QED
      BY <3>1 DEF Control, Placed, Product
  <2>2. seen'[t] <= row[Product(t)].ver
    BY <1>3, <2>1, HeldSource DEF NoneAhead, Control, TypeOK, Versions
  <2> QED
    BY <1>1, <1>3, <2>1, <2>2
<1> QED
  BY <1>2, <1>3 DEF NoneAhead

-----------------------------------------------------------------------------
(* What readers are told *)

\* One of the two accidents befell t's product; its row is gone.
Excused(t)  == Product(t) \in raced \cup lost
Gone(t)     == ~row[Product(t)].live

\* Reader t may be answered v: a version that was committed, no older than what
\* writers were answered for when t arrived, the two accidents excepted, and not
\* found only of a row that is gone.
Right(t, v) ==
    /\ v \in Versions => v <= row[Product(t)].ver
    /\ v \in Versions /\ ~Excused(t) => floor[t].live /\ v >= floor[t].ver
    /\ v = NotFound => Gone(t)

\* Whatever t has in hand, awaits or was answered is right.
AnswerOK(t) ==
    /\ pc[t] = "idle" => resp[t] = None
    /\ pc[t] = "got" /\ seen[t] \in Versions => Right(t, seen[t])
    /\ pc[t] \in {"loaded", "stored"} => Right(t, seen[t])
    /\ pc[t] = "wait" => Right(t, future[awaits[t]])
    /\ Right(t, resp[t])

Answers == \A t \in Readers : AnswerOK(t)

\* Nobody was told anything yet.
LEMMA AnswersInit == Init => Answers
BY SentinelsAssumption DEF Init, Answers, AnswerOK, Right, Tasks

\* The request of t and its floor are kept; an excuse, and a row that is gone,
\* stay.
Keeps(t) ==
    /\ at'[t] = at[t] /\ floor'[t] = floor[t]
    /\ Excused(t) => Excused(t)'
    /\ Gone(t) => Gone(t)'

\* Every step keeps them: rows never come back to life, and no request changes.
LEMMA Monotone ==
    ASSUME Control, [Next]_vars, NEW t \in Readers, pc[t] # "idle"
    PROVE  Keeps(t)
<1> USE TasksAssumption DEF Tasks, Writers, Worker, Product, Fault, vars, stores, history, coalescer
<1>1. ASSUME NEW u \in Readers, NEW w \in Workers, NEW p \in Products, Arrive(u, w, p)
      PROVE  Keeps(t)
  BY <1>1 DEF Keeps, Excused, Gone, Control, TypeOK, Placed, HistoryOK, Arrive, Respond, Goto
<1>2. ASSUME NEW u \in Readers, CacheGet(u)
      PROVE  Keeps(t)
  BY <1>2 DEF Keeps, Excused, Gone, Control, TypeOK, Placed, HistoryOK, CacheGet, Goto, Entries
<1>3. ASSUME NEW u \in Readers, CacheHit(u)
      PROVE  Keeps(t)
  BY <1>3 DEF Keeps, Excused, Gone, Control, TypeOK, Placed, HistoryOK, CacheHit, Respond, Goto
<1>4. ASSUME NEW u \in Readers, CacheMiss(u)
      PROVE  Keeps(t)
  BY <1>4 DEF Keeps, Excused, Gone, Control, TypeOK, Placed, HistoryOK, CacheMiss, Goto
<1>5. ASSUME NEW u \in Readers, QueryRow(u)
      PROVE  Keeps(t)
  BY <1>5 DEF Keeps, Excused, Gone, Control, TypeOK, Placed, HistoryOK, QueryRow, Goto
<1>6. ASSUME NEW u \in Readers, LoadFails(u)
      PROVE  Keeps(t)
  BY <1>6 DEF Keeps, Excused, Gone, Control, TypeOK, Placed, HistoryOK, LoadFails, Respond, Goto
<1>7. ASSUME NEW u \in Readers, Store(u)
      PROVE  Keeps(t)
  BY <1>7 DEF Keeps, Excused, Gone, Control, TypeOK, Placed, HistoryOK, Store, Goto, Entries
<1>8. ASSUME NEW u \in Readers, LoadReturns(u)
      PROVE  Keeps(t)
  BY <1>8 DEF Keeps, Excused, Gone, Control, TypeOK, Placed, HistoryOK, LoadReturns, Respond, Goto
<1>9. ASSUME NEW u \in Readers, WaiterWakes(u)
      PROVE  Keeps(t)
  BY <1>9 DEF Keeps, Excused, Gone, Control, TypeOK, Placed, HistoryOK, WaiterWakes, Respond, Goto
<1>10. ASSUME NEW u \in Readers, LateSet(u)
      PROVE  Keeps(t)
  BY <1>10 DEF Keeps, Excused, Gone, Control, TypeOK, Placed, HistoryOK, LateSet, Goto, Entries
<1>11. ASSUME NEW u \in Writers, NEW w \in Workers, NEW p \in Products, Commit(u, w, p)
      PROVE  Keeps(t)
  BY <1>11 DEF Keeps, Excused, Gone, Control, TypeOK, Placed, HistoryOK, Commit, Goto
<1>12. ASSUME NEW u \in Writers, NEW w \in Workers, NEW p \in Products, PutNothing(u, w, p)
      PROVE  Keeps(t)
  BY <1>12 DEF Keeps, Excused, Gone, Control, TypeOK, Placed, HistoryOK, PutNothing, Goto
<1>13. ASSUME NEW u \in Writers, NEW w \in Workers, NEW p \in Products, WriteFails(u, w, p)
      PROVE  Keeps(t)
  BY <1>13 DEF Keeps, Excused, Gone, Control, TypeOK, Placed, HistoryOK, WriteFails, Respond, Goto
<1>14. ASSUME NEW u \in Writers, Evict(u)
      PROVE  Keeps(t)
  BY <1>14
     DEF Keeps, Excused, Gone, Control, TypeOK, Placed, HistoryOK, Evict, Respond, Goto, Entries
<1>15. ASSUME NEW u \in Writers, CommitUnanswered(u)
      PROVE  Keeps(t)
  BY <1>15
     DEF Keeps, Excused, Gone, Control, TypeOK, Placed, HistoryOK, CommitUnanswered, Respond, Goto
<1>16. ASSUME NEW u \in Rebuilders, NEW w \in Workers, Reset(u, w)
      PROVE  Keeps(t)
  BY <1>16 DEF Keeps, Excused, Gone, Control, TypeOK, Placed, HistoryOK, Reset, Goto
<1>17. ASSUME NEW u \in Rebuilders, Select(u)
      PROVE  Keeps(t)
  BY <1>17 DEF Keeps, Excused, Gone, Control, TypeOK, Placed, HistoryOK, Select, Goto
<1>18. ASSUME NEW u \in Rebuilders, AddRows(u)
      PROVE  Keeps(t)
  BY <1>18 DEF Keeps, Excused, Gone, Control, TypeOK, Placed, HistoryOK, AddRows, Goto
<1>19. ASSUME NEW u \in Rebuilders, SelectFails(u)
      PROVE  Keeps(t)
  BY <1>19
     DEF Keeps, Excused, Gone, Control, TypeOK, Placed, HistoryOK, SelectFails, Respond, Goto
<1>20. ASSUME NEW u \in Tasks, Cancel(u)
      PROVE  Keeps(t)
  BY <1>20 DEF Keeps, Excused, Gone, Control, TypeOK, Placed, HistoryOK, Cancel, After
<1>21. ASSUME NEW w \in Workers, Crash(w)
      PROVE  Keeps(t)
  BY <1>21 DEF Keeps, Excused, Gone, Control, TypeOK, Placed, HistoryOK, Crash, After
<1>22. ASSUME NEW p \in Products, Expire(p)
      PROVE  Keeps(t)
  BY <1>22 DEF Keeps, Excused, Gone, Control, TypeOK, Placed, HistoryOK, Expire, Entries
<1>23. ASSUME NEW u \in Readers, AddRaises(u)
      PROVE  Keeps(t)
  BY <1>23
     DEF Keeps, Excused, Gone, Control, TypeOK, Placed, HistoryOK, AddRaises, Respond, Goto
<1>24. ASSUME NEW u \in Rebuilders, NEW w \in Workers, ResetFails(u, w)
      PROVE  Keeps(t)
  BY <1>24
     DEF Keeps, Excused, Gone, Control, TypeOK, Placed, HistoryOK, ResetFails, Respond, Goto
<1>25. ASSUME NEW u \in Rebuilders, AddRowsFails(u)
      PROVE  Keeps(t)
  BY <1>25
     DEF Keeps, Excused, Gone, Control, TypeOK, Placed, HistoryOK, AddRowsFails, Respond, Goto
<1>26. CASE UNCHANGED vars
  BY <1>26 DEF Keeps, Excused, Gone
<1> QED
  BY <1>1, <1>2, <1>3, <1>4, <1>5, <1>6, <1>7, <1>8, <1>9, <1>10, <1>11, <1>12, <1>13, <1>14,
     <1>15, <1>16, <1>17, <1>18, <1>19, <1>20, <1>21, <1>22, <1>23, <1>24, <1>25, <1>26
     DEF Next, Read, Rebuild

\* An answer that was right stays right.
LEMMA RightKept ==
    ASSUME Control, [Next]_vars, NEW t \in Readers, pc[t] # "idle", NEW v, Right(t, v)
    PROVE  Right(t, v)'
<1>1. Keeps(t) /\ TypeOK'
  BY Monotone, ControlNext
<1>2. Product(t)' = Product(t) /\ Product(t) \in Products
  BY <1>1 DEF Keeps, Control, Placed, Product
<1>3. ASSUME v \in Versions
      PROVE  v <= row'[Product(t)'].ver
  BY <1>1, <1>2, <1>3, RowsGrow DEF Right, Control, TypeOK, Versions
<1> QED
  BY <1>1, <1>3 DEF Keeps, Right

\* A reader that this step does not concern keeps its answers.
LEMMA AnswerKept ==
    ASSUME Control, [Next]_vars, NEW t \in Readers, AnswerOK(t),
           pc'[t] = pc[t], seen'[t] = seen[t], resp'[t] = resp[t],
           pc[t] = "wait" => \/ future'[awaits'[t]] = future[awaits[t]]
                             \/ Right(t, future[awaits[t]])'
    PROVE  AnswerOK(t)'
<1>1. CASE pc[t] = "idle"
  BY <1>1, SentinelsAssumption DEF AnswerOK, Right
<1>2. CASE pc[t] # "idle"
  <2>1. PICK v, f, r : v = seen[t] /\ f = future[awaits[t]] /\ r = resp[t]
    OBVIOUS
  <2>2. /\ Right(t, v) => Right(t, v)'
        /\ Right(t, f) => Right(t, f)'
        /\ Right(t, r) => Right(t, r)'
    BY <1>2, RightKept
  <2>3. pc[t] = "got" /\ seen[t] \in Versions => Right(t, seen[t])'
    BY <2>1, <2>2 DEF AnswerOK, Right
  <2>4. pc[t] \in {"loaded", "stored"} => Right(t, seen[t])'
    BY <2>1, <2>2 DEF AnswerOK, Right
  <2>5. pc[t] = "wait" => Right(t, future[awaits[t]])'
    BY <2>1, <2>2 DEF AnswerOK, Right
  <2>6. Right(t, resp[t])'
    BY <2>1, <2>2 DEF AnswerOK, Right
  <2> QED
    BY <1>2, <2>3, <2>4, <2>5, <2>6 DEF AnswerOK
<1> QED
  BY <1>1, <1>2

\* So does one that only changes its place, to one where it has nothing in hand.
LEMMA AnswerLast ==
    ASSUME Control, [Next]_vars, NEW t \in Readers, AnswerOK(t), pc[t] # "idle",
           pc'[t] \in {"get", "query", "lateSet", "done"}, resp'[t] = resp[t]
    PROVE  AnswerOK(t)'
<1>1. PICK r : r = resp[t]
  OBVIOUS
<1>2. Right(t, r)'
  BY <1>1, RightKept DEF AnswerOK
<1>3. Right(t, resp[t])'
  BY <1>1, <1>2 DEF Right
<1> QED
  BY <1>3 DEF AnswerOK

\* A leader and those who wait for it ask for the same product.
LEMMA SameProduct ==
    ASSUME Control, NEW t \in Readers, pc[t] = "wait"
    PROVE  /\ awaits[t] \in Readers
           /\ role[awaits[t]] \in {"leader", "done"}
           /\ role[awaits[t]] = "leader" => Product(awaits[t]) = Product(t)
BY DEF Control, Linked, CP!IInv, CP!WaiterAttached, Product

\* What Postgres or Redis tells a reader is right to tell.
LEMMA RightNow ==
    ASSUME Control, Data, NoneAhead, NEW t \in Readers, pc[t] # "idle", NEW v
    PROVE  /\ row[Product(t)].live /\ v = row[Product(t)].ver => Right(t, v)
           /\ v \in Versions /\ v = cache[Product(t)] => Right(t, v)
           /\ v = NotFound /\ Gone(t) => Right(t, v)
<1>1. Product(t) \in Products
  BY DEF Control, Placed, Product
<1>2. floor[t].ver \in Nat /\ acked[Product(t)].ver \in Nat /\ row[Product(t)].ver \in Versions
  BY <1>1 DEF Control, Placed, HistoryOK, TypeOK, RowStates, Versions
<1> QED
  BY <1>1, <1>2, SentinelsAssumption
     DEF Data, NoneAhead, AckedBehind, CacheFresh, FloorBehind, Right, Excused, Versions

\* Whoever waits for a leader that resolves with what it holds is told right.
LEMMA SharedRight ==
    ASSUME Control, Data, NoneAhead, Answers, [Next]_vars, NEW t \in Readers, pc[t] = "wait",
           NEW leader \in Readers, leader = awaits[t], role[leader] = "leader",
           pc[leader] \in {"loaded", "stored"}, NEW v, v = seen[leader],
           v \in Versions \cup {NotFound, DbError}
    PROVE  Right(t, v)'
<1>1. Product(leader) = Product(t)
  BY SameProduct
<1>2. CASE v \in Versions /\ ~Excused(t)
  <2>1. row[Product(t)].live /\ v = row[Product(t)].ver
    BY <1>1, <1>2 DEF Data, HoldersCurrent, Excused
  <2>2. Right(t, v)
    BY <2>1, RightNow
  <2> QED
    BY <2>2, RightKept
<1>3. CASE v \in Versions /\ Excused(t)
  <2>1. v <= row[Product(t)].ver
    BY <1>1, <1>3 DEF Answers, AnswerOK, Right
  <2>2. Right(t, v)
    BY <1>3, <2>1, SentinelsAssumption DEF Right
  <2> QED
    BY <2>2, RightKept
<1>4. CASE v = NotFound
  <2>1. Right(leader, v)
    BY DEF Answers, AnswerOK
  <2>2. Gone(t)
    BY <1>1, <1>4, <2>1 DEF Right, Gone
  <2>3. Right(t, v)
    BY <1>4, <2>2, SentinelsAssumption DEF Right
  <2> QED
    BY <2>3, RightKept
<1>5. CASE v = DbError
  BY <1>5, SentinelsAssumption DEF Right
<1> QED
  BY <1>2, <1>3, <1>4, <1>5

\* Every step of every task leaves every reader with what it may be told.
LEMMA AnswersNext == ASSUME Control, Data, NoneAhead, Answers, [Next]_vars PROVE Answers'
<1> USE SentinelsAssumption, TasksAssumption DEF Tasks, Writers, Fault
<1>0. \A u \in Readers : AnswerOK(u)
  BY DEF Answers
<1>1. ASSUME NEW t \in Readers, NEW w \in Workers, NEW p \in Products, Arrive(t, w, p)
      PROVE  Answers'
  <2>1. AnswerOK(t)'
    BY <1>1, <1>0 DEF Control, TypeOK, AnswerOK, Right, Arrive, Respond, Goto
  <2>2. ASSUME NEW u \in Readers \ {t}
        PROVE  AnswerOK(u)'
    BY <1>1, <1>0, <2>2, AnswerKept DEF Control, TypeOK, Arrive, Respond, Goto, coalescer
  <2> QED
    BY <2>1, <2>2 DEF Answers
<1>2. ASSUME NEW t \in Readers, CacheGet(t)
      PROVE  Answers'
  <2>1. AnswerOK(t)'
    <3>1. PICK v, r : v = seen'[t] /\ r = resp[t]
      OBVIOUS
    <3>2. pc[t] = "get" /\ pc'[t] = "got" /\ resp'[t] = r
      BY <1>2, <3>1 DEF Control, TypeOK, CacheGet, Goto
    <3>3. v \in Versions => v = cache[Product(t)]
      BY <1>2, <3>1 DEF Control, TypeOK, CacheGet
    <3>4. v \in Versions => Right(t, v)'
      BY <3>2, <3>3, RightNow, RightKept
    <3>5. Right(t, r)'
      BY <1>0, <3>1, <3>2, RightKept DEF AnswerOK
    <3>6. /\ seen'[t] \in Versions => Right(t, seen[t])'
          /\ Right(t, resp[t])'
      BY <3>1, <3>2, <3>4, <3>5 DEF Right
    <3> QED
      BY <3>2, <3>6 DEF AnswerOK
  <2>2. ASSUME NEW u \in Readers \ {t}
        PROVE  AnswerOK(u)'
    BY <1>2, <1>0, <2>2, AnswerKept DEF Control, TypeOK, CacheGet, Goto, coalescer
  <2> QED
    BY <2>1, <2>2 DEF Answers
<1>3. ASSUME NEW t \in Readers, CacheHit(t)
      PROVE  Answers'
  <2>1. AnswerOK(t)'
    <3>1. PICK v : v = seen[t]
      OBVIOUS
    <3>2. pc[t] = "got" /\ pc'[t] = "done" /\ resp'[t] = v
      BY <1>3, <3>1 DEF Control, TypeOK, CacheHit, Respond, Goto
    <3>3. Right(t, v)'
      BY <1>0, <1>3, <3>1, <3>2, RightKept DEF AnswerOK, CacheHit
    <3>4. Right(t, resp[t])'
      BY <3>2, <3>3 DEF Right
    <3> QED
      BY <3>2, <3>4 DEF AnswerOK
  <2>2. ASSUME NEW u \in Readers \ {t}
        PROVE  AnswerOK(u)'
    BY <1>3, <1>0, <2>2, AnswerKept DEF Control, TypeOK, CacheHit, Respond, Goto, coalescer
  <2> QED
    BY <2>1, <2>2 DEF Answers
<1>4. ASSUME NEW t \in Readers, CacheMiss(t)
      PROVE  Answers'
  <2>1. AnswerOK(t)'
    <3>1. pc[t] = "got" /\ resp'[t] = resp[t]
      BY <1>4 DEF CacheMiss, Goto
    <3>2. CASE pc'[t] = "query"
      BY <1>0, <3>1, <3>2, AnswerLast
    <3>3. CASE pc'[t] = "wait" /\ Co!Join(t, at[t])
      <4>1. at[t] \in Workers \X Products
        BY <3>1 DEF Control, Placed
      <4>2. future'[awaits'[t]] = Pending
        BY <3>3, <4>1, CoalescerTyped DEF Control, Co!Join, CP!IInv, CP!NoPoisonedKey, CP!Slots
      <4>3. Right(t, future[awaits[t]])'
        BY <4>2 DEF Right
      <4>4. PICK r : r = resp[t]
        OBVIOUS
      <4>5. Right(t, r)'
        BY <1>0, <3>1, <4>4, RightKept DEF AnswerOK
      <4>6. Right(t, resp[t])'
        BY <3>1, <4>4, <4>5 DEF Right
      <4> QED
        BY <3>3, <4>3, <4>6 DEF AnswerOK
    <3> QED
      BY <1>4, <3>2, <3>3 DEF Control, TypeOK, CacheMiss, Goto
  <2>2. ASSUME NEW u \in Readers \ {t}
        PROVE  AnswerOK(u)'
    <3>1. pc'[u] = pc[u] /\ seen'[u] = seen[u] /\ resp'[u] = resp[u]
      BY <1>4, <2>2 DEF Control, TypeOK, CacheMiss, Goto
    <3>2. ASSUME pc[u] = "wait"
          PROVE  future'[awaits'[u]] = future[awaits[u]]
      BY <1>4, <2>2, <3>2, SameProduct, CoalescerTyped
         DEF Control, CacheMiss, Co!Lead, Co!Join, coalescer
    <3> QED
      BY <1>0, <3>1, <3>2, AnswerKept
  <2> QED
    BY <2>1, <2>2 DEF Answers
<1>5. ASSUME NEW t \in Readers, QueryRow(t)
      PROVE  Answers'
  <2>1. AnswerOK(t)'
    <3>1. PICK v, r : v = seen'[t] /\ r = resp[t]
      OBVIOUS
    <3>2. pc[t] = "query" /\ pc'[t] = "loaded" /\ resp'[t] = r
      BY <1>5, <3>1 DEF Control, TypeOK, QueryRow, Goto
    <3>3. \/ row[Product(t)].live /\ v = row[Product(t)].ver
          \/ Gone(t) /\ v = NotFound
          \/ v = DbError
      BY <1>5, <3>1 DEF Control, TypeOK, QueryRow, Gone
    <3>4. Right(t, v)
      BY <3>2, <3>3, RightNow DEF Right
    <3>5. Right(t, v)' /\ Right(t, r)'
      BY <1>0, <3>1, <3>2, <3>4, RightKept DEF AnswerOK
    <3>6. Right(t, seen[t])' /\ Right(t, resp[t])'
      BY <3>1, <3>2, <3>5 DEF Right
    <3> QED
      BY <3>2, <3>6 DEF AnswerOK
  <2>2. ASSUME NEW u \in Readers \ {t}
        PROVE  AnswerOK(u)'
    BY <1>5, <1>0, <2>2, AnswerKept DEF Control, TypeOK, QueryRow, Goto, coalescer
  <2> QED
    BY <2>1, <2>2 DEF Answers
<1>6. ASSUME NEW t \in Readers, LoadFails(t)
      PROVE  Answers'
  <2>0. PICK v : v = seen[t]
    OBVIOUS
  <2>1. AnswerOK(t)'
    <3>1. pc[t] \in {"loaded", "stored"} /\ pc'[t] = "done" /\ resp'[t] = v
      BY <1>6, <2>0 DEF Control, TypeOK, LoadFails, Respond, Goto
    <3>2. Right(t, v)'
      BY <1>0, <2>0, <3>1, RightKept DEF AnswerOK
    <3>3. Right(t, resp[t])'
      BY <3>1, <3>2 DEF Right
    <3> QED
      BY <3>1, <3>3 DEF AnswerOK
  <2>2. ASSUME NEW u \in Readers \ {t}
        PROVE  AnswerOK(u)'
    <3>1. pc'[u] = pc[u] /\ seen'[u] = seen[u] /\ resp'[u] = resp[u]
      BY <1>6, <2>2 DEF Control, TypeOK, LoadFails, Respond, Goto
    <3>2. ASSUME pc[u] = "wait", awaits[u] # t \/ ~coalescing
          PROVE  future'[awaits'[u]] = future[awaits[u]]
      BY <1>6, <3>2, SameProduct, CoalescerTyped
         DEF Control, LoadFails, Co!LoaderRaises, Co!Resolve, coalescer
    <3>3. ASSUME pc[u] = "wait", awaits[u] = t, coalescing
          PROVE  Right(u, future[awaits[u]])'
      <4>1. /\ role[t] = "leader" /\ pc[t] \in {"loaded", "stored"}
            /\ future'[t] = v /\ awaits'[u] = t
        BY <1>6, <2>0, <3>3, CoalescerTyped
           DEF Control, LoadFails, Respond, Goto, Co!LoaderRaises, Co!Resolve
      <4>2. v \in Versions \cup {NotFound, DbError}
        BY <1>6, <2>0, <4>1 DEF Control, Placed
      <4>3. Right(u, v)'
        BY <2>0, <3>3, <4>1, <4>2, SharedRight
      <4> QED
        BY <4>1, <4>3 DEF Right
    <3> QED
      BY <1>0, <3>1, <3>2, <3>3, AnswerKept
  <2> QED
    BY <2>1, <2>2 DEF Answers
<1>7. ASSUME NEW t \in Readers, Store(t)
      PROVE  Answers'
  <2>1. AnswerOK(t)'
    <3>1. PICK v, r : v = seen[t] /\ r = resp[t]
      OBVIOUS
    <3>2. pc[t] = "loaded" /\ pc'[t] = "stored" /\ resp'[t] = r /\ seen'[t] = v
      BY <1>7, <3>1 DEF Control, TypeOK, Store, Goto
    <3>3. Right(t, v)' /\ Right(t, r)'
      BY <1>0, <3>1, <3>2, RightKept DEF AnswerOK
    <3>4. Right(t, seen[t])' /\ Right(t, resp[t])'
      BY <3>2, <3>3 DEF Right
    <3> QED
      BY <3>2, <3>4 DEF AnswerOK
  <2>2. ASSUME NEW u \in Readers \ {t}
        PROVE  AnswerOK(u)'
    BY <1>7, <1>0, <2>2, AnswerKept DEF Control, TypeOK, Store, Goto, coalescer
  <2> QED
    BY <2>1, <2>2 DEF Answers
<1>8. ASSUME NEW t \in Readers, LoadReturns(t)
      PROVE  Answers'
  <2>0. PICK v : v = seen[t]
    OBVIOUS
  <2>1. AnswerOK(t)'
    <3>1. pc[t] \in {"loaded", "stored"} /\ pc'[t] = "done" /\ resp'[t] = v
      BY <1>8, <2>0 DEF Control, TypeOK, LoadReturns, Respond, Goto
    <3>2. Right(t, v)'
      BY <1>0, <2>0, <3>1, RightKept DEF AnswerOK
    <3>3. Right(t, resp[t])'
      BY <3>1, <3>2 DEF Right
    <3> QED
      BY <3>1, <3>3 DEF AnswerOK
  <2>2. ASSUME NEW u \in Readers \ {t}
        PROVE  AnswerOK(u)'
    <3>1. pc'[u] = pc[u] /\ seen'[u] = seen[u] /\ resp'[u] = resp[u]
      BY <1>8, <2>2 DEF Control, TypeOK, LoadReturns, Respond, Goto
    <3>2. ASSUME pc[u] = "wait", awaits[u] # t \/ ~coalescing
          PROVE  future'[awaits'[u]] = future[awaits[u]]
      BY <1>8, <3>2, SameProduct, CoalescerTyped
         DEF Control, LoadReturns, Co!LoaderReturns, Co!Resolve, coalescer
    <3>3. ASSUME pc[u] = "wait", awaits[u] = t, coalescing
          PROVE  Right(u, future[awaits[u]])'
      <4>1. /\ role[t] = "leader" /\ pc[t] \in {"loaded", "stored"}
            /\ future'[t] = v /\ awaits'[u] = t
        BY <1>8, <2>0, <3>3, CoalescerTyped
           DEF Control, LoadReturns, Respond, Goto, Co!LoaderReturns, Co!Resolve
      <4>2. v \in Versions \cup {NotFound, DbError}
        BY <1>8, <2>0, <4>1 DEF Control, Placed
      <4>3. Right(u, v)'
        BY <2>0, <3>3, <4>1, <4>2, SharedRight
      <4> QED
        BY <4>1, <4>3 DEF Right
    <3> QED
      BY <1>0, <3>1, <3>2, <3>3, AnswerKept
  <2> QED
    BY <2>1, <2>2 DEF Answers
<1>9. ASSUME NEW t \in Readers, WaiterWakes(t)
      PROVE  Answers'
  <2>1. AnswerOK(t)'
    <3>1. PICK v : v = future[awaits[t]]
      OBVIOUS
    <3>2. pc[t] = "wait" /\ pc'[t] = "done" /\ resp'[t] = v
      BY <1>9, <3>1, CoalescerTyped
         DEF Control, TypeOK, WaiterWakes, Respond, Goto, Co!Wake, Co!Leave
    <3>3. Right(t, v)'
      BY <1>0, <3>1, <3>2, RightKept DEF AnswerOK
    <3>4. Right(t, resp[t])'
      BY <3>2, <3>3 DEF Right
    <3> QED
      BY <3>2, <3>4 DEF AnswerOK
  <2>2. ASSUME NEW u \in Readers \ {t}
        PROVE  AnswerOK(u)'
    BY <1>9, <1>0, <2>2, AnswerKept
       DEF Control, TypeOK, WaiterWakes, Respond, Goto, Co!Wake, Co!Leave
  <2> QED
    BY <2>1, <2>2 DEF Answers
<1>10. ASSUME NEW t \in Readers, LateSet(t)
       PROVE  Answers'
  <2>1. AnswerOK(t)'
    BY <1>10, <1>0, AnswerLast DEF Control, TypeOK, LateSet, Goto
  <2>2. ASSUME NEW u \in Readers \ {t}
        PROVE  AnswerOK(u)'
    BY <1>10, <1>0, <2>2, AnswerKept DEF Control, TypeOK, LateSet, Goto, coalescer
  <2> QED
    BY <2>1, <2>2 DEF Answers
<1>11. ASSUME NEW t \in Tasks, Cancel(t)
       PROVE  Answers'
  <2>1. ASSUME t \in Readers
        PROVE  AnswerOK(t)'
    BY <1>11, <2>1 DEF Control, TypeOK, Cancel, After, AnswerOK, Right
  <2>2. ASSUME NEW u \in Readers \ {t}
        PROVE  AnswerOK(u)'
    <3>1. pc'[u] = pc[u] /\ seen'[u] = seen[u] /\ resp'[u] = resp[u]
      BY <1>11, <2>2 DEF Control, TypeOK, Cancel
    <3>2. ASSUME pc[u] = "wait"
          PROVE  future'[awaits'[u]] \in {future[awaits[u]], Cancelled}
      BY <1>11, <3>2, SameProduct, CoalescerTyped
         DEF Control, Cancel, Co!Cancel, Co!CancelLeader, Co!CancelWaiter, Co!Resolve, Co!Leave,
             coalescer
    <3>3. future'[awaits'[u]] = Cancelled => Right(u, future[awaits[u]])'
      BY DEF Right
    <3> QED
      BY <1>0, <3>1, <3>2, <3>3, AnswerKept
  <2> QED
    BY <2>1, <2>2 DEF Answers
<1>12. ASSUME NEW w \in Workers, Crash(w)
       PROVE  Answers'
  <2>1. ASSUME NEW u \in Readers
        PROVE  AnswerOK(u)'
    <3>1. seen'[u] = seen[u] /\ resp'[u] = resp[u]
      BY <1>12 DEF Crash
    <3>2. \/ pc'[u] = pc[u]
          \/ pc[u] # "idle" /\ pc'[u] \in {"lateSet", "done"}
      BY <1>12 DEF Control, TypeOK, Crash, After
    <3>3. ASSUME pc[u] = "wait"
          PROVE  future'[awaits'[u]] \in {future[awaits[u]], None}
      BY <1>12, <3>3, SameProduct, CoalescerTyped DEF Control, Crash, Co!Restart
    <3>4. future'[awaits'[u]] = None => Right(u, future[awaits[u]])'
      BY DEF Right
    <3>5. CASE pc'[u] = pc[u]
      BY <1>0, <3>1, <3>3, <3>4, <3>5, AnswerKept
    <3>6. CASE pc[u] # "idle" /\ pc'[u] \in {"lateSet", "done"}
      BY <1>0, <3>1, <3>6, AnswerLast
    <3> QED
      BY <3>2, <3>5, <3>6
  <2> QED
    BY <2>1 DEF Answers
<1>13. ASSUME UNCHANGED coalescer,
              \A u \in Readers : pc'[u] = pc[u] /\ seen'[u] = seen[u] /\ resp'[u] = resp[u]
       PROVE  Answers'
  BY <1>0, <1>13, AnswerKept DEF Answers, coalescer
<1>14. ASSUME NEW t \in Writers, NEW w \in Workers, NEW p \in Products,
              Commit(t, w, p) \/ PutNothing(t, w, p) \/ WriteFails(t, w, p)
       PROVE  Answers'
  BY <1>13, <1>14 DEF Control, TypeOK, Commit, PutNothing, WriteFails, Respond, Goto
<1>15. ASSUME NEW t \in Writers, Evict(t) \/ CommitUnanswered(t)
       PROVE  Answers'
  BY <1>13, <1>15 DEF Control, TypeOK, Evict, CommitUnanswered, Respond, Goto
<1>16. ASSUME NEW t \in Rebuilders, Rebuild(t) \/ \E w \in Workers : Reset(t, w) \/ ResetFails(t, w)
       PROVE  Answers'
  BY <1>13, <1>16
     DEF Control, TypeOK, Rebuild, Reset, ResetFails, Select, AddRows, AddRowsFails, SelectFails,
         Respond, Goto
<1>17. ASSUME NEW p \in Products, Expire(p)
       PROVE  Answers'
  BY <1>13, <1>17 DEF Expire
<1>18. ASSUME NEW t \in Readers, AddRaises(t)
       PROVE  Answers'
  <2>1. AnswerOK(t)'
    BY <1>18, <1>0 DEF Control, TypeOK, AnswerOK, Right, AddRaises, Respond, Goto
  <2>2. ASSUME NEW u \in Readers \ {t}
        PROVE  AnswerOK(u)'
    <3>1. pc'[u] = pc[u] /\ seen'[u] = seen[u] /\ resp'[u] = resp[u]
      BY <1>18, <2>2 DEF Control, TypeOK, AddRaises, Respond, Goto
    <3>2. ASSUME pc[u] = "wait"
          PROVE  future'[awaits'[u]] \in {future[awaits[u]], FilterError}
      BY <1>18, <3>2, SameProduct, CoalescerTyped
         DEF Control, AddRaises, Co!LoaderRaises, Co!Resolve, coalescer
    <3>3. future'[awaits'[u]] = FilterError => Right(u, future[awaits[u]])'
      BY DEF Right
    <3> QED
      BY <1>0, <3>1, <3>2, <3>3, AnswerKept
  <2> QED
    BY <2>1, <2>2 DEF Answers
<1>19. CASE UNCHANGED vars
  BY <1>13, <1>19 DEF vars
<1> QED
  BY <1>1, <1>2, <1>3, <1>4, <1>5, <1>6, <1>7, <1>8, <1>9, <1>10, <1>11, <1>12, <1>14, <1>15,
     <1>16, <1>17, <1>18, <1>19
     DEF Next, Read

-----------------------------------------------------------------------------
(* What holds in every reachable state *)

\* The inductive invariant of the gateway.
IInv == Control /\ Data /\ NoneAhead /\ Answers

\* It holds whatever requests, faults and restarts interleave.
THEOREM Invariant == Spec => []IInv
<1>1. Init => IInv
  BY ControlInit, DataInit, NoneAheadInit, AnswersInit DEF IInv
<1>2. IInv /\ [Next]_vars => IInv'
  BY ControlNext, CountedNext, CoalescerNext, DataNext, NoneAheadNext, AnswersNext
     DEF IInv, Control
<1> QED
  BY <1>1, <1>2, PTL DEF Spec

\* A stale entry has a writer that has yet to invalidate it, a load that held
\* the old row when it was overwritten, or an invalidation that did not happen.
THEOREM StaleHasCause == Spec => []StaleEntryHasCause
<1>1. IInv => StaleEntryHasCause
  BY DEF IInv, Data
<1> QED
  BY <1>1, Invariant, PTL

\* Reads that arrive after a write was answered see it, the two accidents excepted.
THEOREM FreshReads == Spec => []FreshUnlessRaced
<1>1. IInv => FreshUnlessRaced
  BY DEF IInv, Answers, AnswerOK, Right, Excused, FreshUnlessRaced
<1> QED
  BY <1>1, Invariant, PTL

-----------------------------------------------------------------------------
(* The gateway implements the product store.  A request is sent when it     *)
(* reaches a worker and answered when its task responds; a write takes      *)
(* effect when its UPDATE commits; a worker that dies abandons the writers  *)
(* it served.  All that caches, filters and coalescers do in between is     *)
(* hidden.                                                                  *)

\* What the clients and the store see.
Asks   == [t \in Clients |-> IF at[t] = None THEN None ELSE Product(t)]
Wrote  == [t \in Writers |-> seen[t]]
Answer == [t \in Clients |-> resp[t]]

\* A client has sent its request unless its task is idle, and waits until it is
\* answered.
LEMMA SentOrIdle ==
    ASSUME Control, Unanswered, NEW t \in Clients
    PROVE  /\ pc[t] = "idle" => Asks[t] = None
           /\ pc[t] # "idle" => Asks[t] = Product(t) /\ Product(t) \in Products /\ Asks[t] # None
           /\ pc[t] \notin {"lateSet", "done"} => Answer[t] = None
BY SentinelsAssumption
DEF Control, Placed, Unanswered, Asks, Answer, Clients, Writers, Tasks, Product

\* A request that reaches a worker is about the product it names.
LEMMA Asking ==
    ASSUME Control, NEW t \in Clients, NEW w \in Workers, NEW p \in Products,
           at' = [at EXCEPT ![t] = <<w, p>>]
    PROVE  Asks' = [Asks EXCEPT ![t] = p]
<1>1. at'[t] = <<w, p>> /\ <<w, p>> # None /\ \A u \in Clients \ {t} : at'[u] = at[u]
  BY SentinelsAssumption DEF Control, TypeOK, Clients, Tasks
<1>2. ASSUME NEW u \in Clients
      PROVE  Asks'[u] = IF u = t THEN p ELSE Asks[u]
  BY <1>1 DEF Asks, Product
<1> QED
  BY <1>2 DEF Asks

\* The initial states are those of the store.
LEMMA InitRefines == Init => Api!Init
BY DEF Init, Api!Init, Clients, Tasks, Writers, Api!Requests, Api!Writers

\* A step that clients cannot see leaves the store as it is.
LEMMA HiddenStep ==
    ASSUME UNCHANGED <<row, acked, raced, lost, floor>>,
           \A t \in Clients : at'[t] = at[t] /\ resp'[t] = resp[t],
           \A t \in Writers : seen'[t] = seen[t]
    PROVE  UNCHANGED Api!vars
BY DEF Api!vars, Clients, Product

\* A read reaches a worker, whose filter may refuse it or fail.
LEMMA ArriveRefines ==
    ASSUME Control, Unanswered, NEW t \in Readers, NEW w \in Workers, NEW p \in Products,
           Arrive(t, w, p)
    PROVE  Api!Send(t, p)
<1> USE TasksAssumption DEF Control, TypeOK, Arrive, Respond, Goto, Clients, Tasks
<1>1. Asks[t] = None
  BY SentOrIdle
<1>2. Asks' = [Asks EXCEPT ![t] = p]
  BY Asking
<1>3. Wrote' = Wrote
  BY DEF Wrote
<1>4. Answer' = Answer \/ \E a \in {Rejected, FilterError} : Answer' = [Answer EXCEPT ![t] = a]
  BY DEF Answer
<1>5. floor' = [floor EXCEPT ![t] = acked[p]] /\ UNCHANGED <<row, acked, raced, lost>>
  BY DEF stores
<1> HIDE TasksAssumption DEF Control, TypeOK, Arrive, Respond, Goto, Clients, Tasks
<1> QED
  BY <1>1, <1>2, <1>3, <1>4, <1>5 DEF Api!Send, Api!Asked, Api!Answered, Asks, Wrote, Answer

\* A reader is answered, with what it is right to tell it.
LEMMA AnswerRefines ==
    ASSUME Control, Unanswered, NEW t \in Readers, pc[t] \notin {"idle", "lateSet", "done"},
           NEW v \in Versions \cup {NotFound, DbError, FilterError, Cancelled}, Right(t, v),
           resp' = [resp EXCEPT ![t] = v], UNCHANGED <<row, acked, raced, lost, floor, at, seen>>
    PROVE  Api!Read(t) \/ Api!ReadMissing(t) \/ Api!Fail(t)
<1> USE TasksAssumption DEF Clients
<1>1. Asks[t] = Product(t) /\ Asks[t] # None /\ Answer[t] = None
  BY SentOrIdle
<1>2. Asks' = Asks /\ Wrote' = Wrote
  BY DEF Asks, Wrote, Product
<1>3. Answer' = [Answer EXCEPT ![t] = v]
  BY DEF Control, TypeOK, Tasks, Answer
<1>4. CASE v \in Versions
  <2>1. v \in 1 .. row[Product(t)].ver
    BY <1>1, <1>4, SentOrIdle DEF Right, Control, TypeOK, Versions
  <2>2. Product(t) \in raced \cup lost \/ (floor[t].live /\ v >= floor[t].ver)
    BY <1>4 DEF Right, Excused
  <2>3. Api!Read(t)
    BY <1>1, <1>2, <1>3, <2>1, <2>2
       DEF Api!Read, Api!Waiting, Api!Answered, Asks, Wrote, Answer
  <2> QED
    BY <2>3
<1>5. CASE v = NotFound
  <2>1. ~row[Product(t)].live
    BY <1>5 DEF Right, Gone
  <2>2. Api!ReadMissing(t)
    BY <1>1, <1>2, <1>3, <1>5, <2>1
       DEF Api!ReadMissing, Api!Waiting, Api!Answered, Asks, Wrote, Answer
  <2> QED
    BY <2>2
<1>6. CASE v \in {DbError, FilterError, Cancelled}
  <2>1. Api!Fail(t)
    BY <1>1, <1>2, <1>3, <1>6 DEF Api!Fail, Api!Waiting, Api!Answered, Asks, Wrote, Answer
  <2> QED
    BY <2>1
<1> QED
  BY <1>4, <1>5, <1>6

\* A write takes effect when its statement commits.
LEMMA WriteRefines ==
    ASSUME Control, Unanswered, NEW t \in Writers, NEW w \in Workers, NEW p \in Products,
           Commit(t, w, p) \/ PutNothing(t, w, p)
    PROVE  Api!Write(t, p)
<1> USE TasksAssumption DEF Control, TypeOK, Commit, PutNothing, Goto, Clients, Tasks
<1>1. Asks[t] = None
  BY SentOrIdle
<1>2. Asks' = [Asks EXCEPT ![t] = p]
  <2>1. at' = [at EXCEPT ![t] = <<w, p>>]
    OBVIOUS
  <2> QED
    BY <2>1, Asking
<1>3. Wrote' = [Wrote EXCEPT ![t] = row'[p].ver]
  BY DEF Wrote, history, stores
<1>4. Answer' = Answer
  BY DEF Answer
<1>5. row[p].live /\ UNCHANGED <<acked, floor>>
  BY DEF history
<1>6. \/ t \in Updaters /\ row' = [row EXCEPT ![p].ver = @ + 1]
      \/ t \in Updaters /\ UNCHANGED row
      \/ t \in Deleters /\ row' = [row EXCEPT ![p].live = FALSE]
  BY DEF Writers, stores
<1>7. (raced \cup lost)' \in {raced \cup lost, (raced \cup lost) \cup {p}}
  BY DEF history
<1> QED
  BY <1>1, <1>2, <1>3, <1>4, <1>5, <1>6, <1>7
     DEF Api!Write, Api!Asked, Asks, Wrote, Answer

\* A write that finds no live row, or whose statement fails, has no effect.
LEMMA RefuseRefines ==
    ASSUME Control, Unanswered, NEW t \in Writers, NEW w \in Workers, NEW p \in Products,
           WriteFails(t, w, p)
    PROVE  Api!Refuse(t, p)
<1> USE TasksAssumption DEF Control, TypeOK, WriteFails, Respond, Goto, Clients, Tasks
<1>1. Asks[t] = None
  BY SentOrIdle
<1>2. Asks' = [Asks EXCEPT ![t] = p]
  BY Asking
<1>3. Wrote' = Wrote
  BY DEF Wrote
<1>4. \/ ~row[p].live /\ Answer' = [Answer EXCEPT ![t] = NotFound]
      \/ Answer' = [Answer EXCEPT ![t] = DbError]
  BY DEF Answer
<1>5. UNCHANGED <<row, acked, raced, lost, floor>>
  BY DEF stores, history
<1> QED
  BY <1>1, <1>2, <1>3, <1>4, <1>5 DEF Api!Refuse, Api!Asked, Api!Answered, Asks, Wrote, Answer

\* A writer is answered when it has tried to invalidate.
LEMMA EvictRefines ==
    ASSUME Control, Unanswered, NEW t \in Writers, Evict(t)
    PROVE  Api!Acknowledge(t)
<1> USE TasksAssumption DEF Control, TypeOK, Evict, Respond, Goto, Clients, Tasks
<1>1. Asks[t] = Product(t) /\ Asks[t] # None /\ Answer[t] = None
  BY SentOrIdle
<1>2. Wrote[t] = seen[t] /\ seen[t] # None
  BY SentinelsAssumption DEF Placed, Wrote
<1>3. Asks' = Asks /\ Wrote' = Wrote
  BY DEF Asks, Wrote, Product
<1>4. Answer' = [Answer EXCEPT ![t] = seen[t]]
  BY DEF Answer
<1>5. (raced \cup lost)' \in {raced \cup lost, (raced \cup lost) \cup {Product(t)}}
  OBVIOUS
<1>6. /\ UNCHANGED <<row, floor>>
      /\ acked' = [acked EXCEPT
                      ![Product(t)].ver  = IF @ < seen[t] THEN seen[t] ELSE @,
                      ![Product(t)].live = @ /\ t \notin Deleters]
  OBVIOUS
<1> QED
  BY <1>1, <1>2, <1>3, <1>4, <1>5, <1>6
     DEF Api!Acknowledge, Api!Waiting, Api!Answered, Asks, Wrote, Answer

\* A writer that is told it failed may have written, and excuses its product.
LEMMA WriterFailRefines ==
    ASSUME Control, Unanswered, NEW t \in Writers, CommitUnanswered(t) \/ Cancel(t)
    PROVE  Api!Fail(t)
<1> USE TasksAssumption DEF Control, TypeOK, CommitUnanswered, Cancel, Respond, Goto, Clients, Tasks
<1>0. pc[t] = "written"
  BY DEF Placed
<1>1. Asks[t] = Product(t) /\ Asks[t] # None /\ Answer[t] = None
  BY <1>0, SentOrIdle
<1>2. Asks' = Asks /\ Wrote' = Wrote
  BY DEF Asks, Wrote, Product
<1>3. \E f \in {DbError, Cancelled} : Answer' = [Answer EXCEPT ![t] = f]
  BY DEF Answer
<1>4. (raced \cup lost)' = (raced \cup lost) \cup {Product(t)}
  BY <1>0
<1>5. UNCHANGED <<row, acked, floor>>
  BY DEF stores
<1> QED
  BY <1>1, <1>2, <1>3, <1>4, <1>5
     DEF Api!Fail, Api!Waiting, Api!Answered, Api!Writers, Writers, Asks, Wrote, Answer

\* The writers a dying worker served go unanswered, and excuse their products.
LEMMA CrashRefines ==
    ASSUME Control, Unanswered, NEW w \in Workers, Crash(w)
    PROVE  Api!Abandon
<1> DEFINE left == {t \in Writers : pc[t] = "written" /\ Worker(t) = w}
<1>1. left \subseteq {t \in Writers : Asks[t] # None /\ Answer[t] = None}
  BY SentOrIdle DEF Clients
<1>2. lost' = lost \cup {Product(t) : t \in left}
  BY TasksAssumption DEF Control, Placed, Crash, Tasks
<1>3. \A t \in left : Asks[t] = Product(t)
  BY SentOrIdle DEF Clients
<1>4. (raced \cup lost)' = (raced \cup lost) \cup {Asks[t] : t \in left}
  BY <1>2, <1>3 DEF Crash
<1>5. Asks' = Asks /\ Wrote' = Wrote /\ Answer' = Answer /\ UNCHANGED <<row, acked, floor>>
  BY DEF Crash, stores, Asks, Wrote, Answer, Product
<1> QED
  BY <1>1, <1>4, <1>5 DEF Api!Abandon, Api!Waiting, Api!Writers, Writers, Asks, Wrote, Answer

\* Every step of the gateway is a step of the product store, or hidden.
LEMMA StepRefines ==
    ASSUME IInv, Unanswered, [Next]_vars
    PROVE  [Api!Next]_Api!vars
<1> USE DEF IInv, Respond, Goto
<1> DEFINE Refines == Api!Next \/ UNCHANGED Api!vars
<1>1. ASSUME NEW t \in Readers, NEW w \in Workers, NEW p \in Products, Arrive(t, w, p)
      PROVE  Refines
  BY <1>1, ArriveRefines DEF Api!Next
<1>2. ASSUME NEW t \in Readers, CacheHit(t) \/ LoadFails(t) \/ LoadReturns(t) \/ WaiterWakes(t)
      PROVE  Refines
  <2>1. PICK v : v = IF pc[t] = "wait" THEN future[awaits[t]] ELSE seen[t]
    OBVIOUS
  <2>2. /\ pc[t] \in {"got", "loaded", "stored", "wait"}
        /\ pc[t] = "got" => seen[t] \in Versions
    BY <1>2 DEF CacheHit, LoadFails, LoadReturns, WaiterWakes
  <2>3. Right(t, v)
    BY <2>1, <2>2 DEF Answers, AnswerOK
  <2>4. v \in Versions \cup {NotFound, DbError, FilterError, Cancelled}
    <3>1. CASE pc[t] = "wait"
      BY <1>2, <2>1, <3>1, WaiterServed
         DEF CacheHit, LoadFails, LoadReturns, WaiterWakes, Co!Wake, Control, Linked
    <3>2. CASE pc[t] # "wait"
      BY <1>2, <2>1, <2>2, <3>2 DEF Control, Placed
    <3> QED
      BY <3>1, <3>2
  <2>5. resp' = [resp EXCEPT ![t] = v] /\ UNCHANGED <<row, acked, raced, lost, floor, at, seen>>
    BY <1>2, <2>1, CoalescerTyped
       DEF CacheHit, LoadFails, LoadReturns, WaiterWakes, Co!Wake, Co!Leave, Control, stores,
           history
  <2>6. Api!Read(t) \/ Api!ReadMissing(t) \/ Api!Fail(t)
    BY <2>2, <2>3, <2>4, <2>5, AnswerRefines
  <2> QED
    BY <2>6 DEF Api!Next, Api!Requests
<1>3. ASSUME NEW t \in Writers, NEW w \in Workers, NEW p \in Products,
             Commit(t, w, p) \/ PutNothing(t, w, p) \/ WriteFails(t, w, p)
      PROVE  Refines
  BY <1>3, WriteRefines, RefuseRefines DEF Api!Next, Api!Writers, Writers
<1>4. ASSUME NEW t \in Writers, Evict(t)
      PROVE  Refines
  BY <1>4, EvictRefines DEF Api!Next, Api!Writers, Writers
<1>5. ASSUME NEW t \in Writers, CommitUnanswered(t) \/ Cancel(t)
      PROVE  Refines
  BY <1>5, WriterFailRefines DEF Api!Next, Api!Requests, Api!Writers, Writers
<1>6. ASSUME NEW t \in Readers, Cancel(t)
      PROVE  Refines
  <2>1. Right(t, Cancelled)
    BY SentinelsAssumption DEF Right
  <2>2. /\ pc[t] \notin {"idle", "lateSet", "done"} /\ resp' = [resp EXCEPT ![t] = Cancelled]
        /\ UNCHANGED <<row, acked, raced, lost, floor, at, seen>>
    BY <1>6 DEF Control, Placed, Cancel, stores
  <2>3. Api!Read(t) \/ Api!ReadMissing(t) \/ Api!Fail(t)
    BY <2>1, <2>2, AnswerRefines
  <2> QED
    BY <2>3 DEF Api!Next, Api!Requests
<1>7. ASSUME NEW t \in Rebuilders, Cancel(t)
      PROVE  Refines
  <2>1. /\ UNCHANGED <<row, acked, raced, lost, floor>>
        /\ \A u \in Clients : at'[u] = at[u] /\ resp'[u] = resp[u]
        /\ \A u \in Writers : seen'[u] = seen[u]
    BY <1>7, TasksAssumption DEF Control, TypeOK, Placed, Cancel, Clients, Tasks, stores
  <2> QED
    BY <2>1, HiddenStep
<1>8. ASSUME NEW w \in Workers, Crash(w)
      PROVE  Refines
  BY <1>8, CrashRefines DEF Api!Next
<1>9. ASSUME NEW t \in Readers,
             CacheGet(t) \/ CacheMiss(t) \/ QueryRow(t) \/ Store(t) \/ LateSet(t)
      PROVE  Refines
  <2>1. /\ UNCHANGED <<row, acked, raced, lost, floor>>
        /\ \A u \in Clients : at'[u] = at[u] /\ resp'[u] = resp[u]
        /\ \A u \in Writers : seen'[u] = seen[u]
    BY <1>9, TasksAssumption
       DEF Control, TypeOK, CacheGet, CacheMiss, QueryRow, Store, LateSet, Tasks, stores, history
  <2> QED
    BY <2>1, HiddenStep
<1>10. ASSUME NEW t \in Rebuilders, Rebuild(t) \/ \E w \in Workers : Reset(t, w) \/ ResetFails(t, w)
       PROVE  Refines
  <2>1. /\ UNCHANGED <<row, acked, raced, lost, floor>>
        /\ \A u \in Clients : at'[u] = at[u] /\ resp'[u] = resp[u]
        /\ \A u \in Writers : seen'[u] = seen[u]
    BY <1>10, TasksAssumption
       DEF Control, TypeOK, Rebuild, Reset, ResetFails, Select, AddRows, AddRowsFails,
           SelectFails, Clients, Tasks, stores, history
  <2> QED
    BY <2>1, HiddenStep
<1>11. ASSUME NEW p \in Products, Expire(p)
       PROVE  Refines
  <2>1. UNCHANGED <<row, acked, raced, lost, floor, at, resp, seen>>
    BY <1>11 DEF Expire, history
  <2> QED
    BY <2>1, HiddenStep
<1>12. ASSUME NEW t \in Readers, AddRaises(t)
       PROVE  Refines
  <2>1. Right(t, FilterError)
    BY SentinelsAssumption DEF Right
  <2>2. /\ pc[t] \notin {"idle", "lateSet", "done"} /\ resp' = [resp EXCEPT ![t] = FilterError]
        /\ UNCHANGED <<row, acked, raced, lost, floor, at, seen>>
    BY <1>12 DEF AddRaises, stores, history
  <2>3. Api!Read(t) \/ Api!ReadMissing(t) \/ Api!Fail(t)
    BY <2>1, <2>2, AnswerRefines
  <2> QED
    BY <2>3 DEF Api!Next, Api!Requests
<1>13. CASE UNCHANGED vars
  BY <1>13, HiddenStep DEF vars, stores, history
<1> HIDE DEF IInv, Respond, Goto, Refines
<1>14. Refines
  BY <1>1, <1>2, <1>3, <1>4, <1>5, <1>6, <1>7, <1>8, <1>9, <1>10, <1>11, <1>12, <1>13
     DEF Next, Read, Tasks, Refines
<1> QED
  BY <1>14 DEF Refines

\* Clients of any number of workers, each with its own filter and coalescer in
\* front of a shared cache, see one product store, excused by the two accidents.
THEOREM StoreImplemented == Spec => ImplementsStore
<1>1. Init => Api!Init
  BY InitRefines
<1>2. IInv /\ Accounts /\ [Next]_vars => [Api!Next]_Api!vars
  BY StepRefines DEF Accounts
<1> QED
  BY <1>1, <1>2, Invariant, AccountsInvariant, PTL DEF Spec, ImplementsStore
===============================================================================
