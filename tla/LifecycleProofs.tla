---------------------------- MODULE LifecycleProofs ----------------------------
(***************************************************************************)
(* What workers hold and leave behind, for any number of processes.        *)
(* It rests on one fact: the phase of a process says what it holds.  That  *)
(* scrapes never decrease rests on another: the total of the counters.     *)
(***************************************************************************)
EXTENDS Lifecycle, FiniteSetTheorems, TLAPS

\* What a process may hold in each phase of its life; a failed one has what
\* the step before left it.
Holdings == [
    unborn    |-> {{}},
    starting  |-> {{}, {"engine"}, {"engine", "redis"}},
    building  |-> {{"engine", "redis", "filter"}},
    built     |-> {{"engine", "redis", "filter"}},
    serving   |-> {Singletons},
    draining  |-> {Singletons},
    closing   |-> {{"engine", "redis", "coalescer"}},
    disposing |-> {{"engine", "coalescer"}},
    stopped   |-> {{"coalescer"}},
    failed    |-> {{}, {"engine"}, {"engine", "redis"}, {"engine", "redis", "filter"},
                   {"engine", "redis", "coalescer"}, {"engine", "coalescer"}},
    dead      |-> {{}},
    reaped    |-> {{}}]

HoldsByPhase == \A p \in Procs : holds[p] \in Holdings[phase[p]]

\* Requests are handled by processes that are up.
BusyOnlyUp == \A p \in Procs : busy[p] > 0 => phase[p] \in {"serving", "draining"}

\* A file that is there has a process that will remove it, or a reason.
FilesHaveOwners ==
    \A p \in tempFiles :
        p \in excused \/ phase[p] \in {"building", "built", "serving", "draining"}

\* Gauges belong to processes that were not reaped; what is reaped stays so.
GaugesHaveOwners ==
    /\ \A p \in gauges : phase[p] # "reaped"
    /\ \A p \in buried : phase[p] = "reaped"

IInv ==
    /\ TypeOK /\ HoldsByPhase /\ BusyOnlyUp
    /\ FilesHaveOwners /\ GaugesHaveOwners /\ GaugesOfTheLiving

LEMMA InitHolds == Init => IInv
BY BoundsAssumption
   DEF Init, IInv, TypeOK, HoldsByPhase, Holdings, BusyOnlyUp, FilesHaveOwners, GaugesHaveOwners,
       GaugesOfTheLiving, Alive

\* Every step keeps the types.
LEMMA TypeNext == TypeOK /\ [Next]_vars => TypeOK'
<1> SUFFICES ASSUME TypeOK, [Next]_vars
             PROVE  TypeOK'
  OBVIOUS
<1> USE BoundsAssumption DEF TypeOK, Alive
<1>1. ASSUME NEW p \in Procs, Fork(p) \/ InitEngine(p) \/ InitRedis(p) \/ InitFilter(p)
      PROVE  TypeOK'
  BY <1>1
     DEF Fork, InitEngine, InitRedis, InitFilter, Creates, Goto, ofDisk, files, ofScrape, Singletons
<1>2. ASSUME NEW p \in Procs, Build(p) \/ BuildFails(p) \/ InitCoalescer(p)
      PROVE  TypeOK'
  BY <1>2 DEF Build, BuildFails, InitCoalescer, Goto, ofDisk, files, ofScrape, Singletons
<1>3. ASSUME NEW p \in Procs, Accept(p) \/ Answer(p)
      PROVE  TypeOK'
  BY <1>3 DEF Accept, Answer, ofDisk, files, ofScrape
<1>4. ASSUME NEW p \in Procs, Recycle(p) \/ Close(p) \/ DisposeRedis(p) \/ DisposeEngine(p)
      PROVE  TypeOK'
  BY <1>4
     DEF Recycle, Close, CloseFilter, DisposeRedis, DisposeEngine, Goto, ofDisk, files, ofScrape
<1>5. ASSUME NEW p \in Procs, Exit(p) \/ Kill(p) \/ ChildExit(p)
      PROVE  TypeOK'
  BY <1>5 DEF Exit, Kill, Gone, ChildExit, Goto, ofDisk, files, ofScrape
<1>6. CASE ScrapeBegins
  BY <1>6 DEF ScrapeBegins, ofProcess, ofDisk, files
<1>7. ASSUME NEW p \in Procs, ScrapeReads(p)
      PROVE  TypeOK'
  BY <1>7 DEF ScrapeReads, ofProcess, ofDisk, files
<1>8. CASE UNCHANGED vars
  BY <1>8 DEF vars, ofProcess, ofDisk, files, ofScrape
<1> QED
  BY <1>1, <1>2, <1>3, <1>4, <1>5, <1>6, <1>7, <1>8 DEF Next, Boot, Serve, Stop

\* Every step moves a process to a phase that goes with what it leaves it.
LEMMA HoldingsNext == TypeOK /\ HoldsByPhase /\ BusyOnlyUp /\ [Next]_vars => HoldsByPhase' /\ BusyOnlyUp'
<1> SUFFICES ASSUME TypeOK, HoldsByPhase, BusyOnlyUp, [Next]_vars
             PROVE  HoldsByPhase' /\ BusyOnlyUp'
  OBVIOUS
<1> USE BoundsAssumption DEF TypeOK, HoldsByPhase, BusyOnlyUp, Alive
<1>1. ASSUME NEW p \in Procs, Fork(p) \/ InitEngine(p) \/ InitRedis(p) \/ InitFilter(p)
      PROVE  HoldsByPhase' /\ BusyOnlyUp'
  BY <1>1 DEF Fork, InitEngine, InitRedis, InitFilter, Creates, Goto, Holdings
<1>2. ASSUME NEW p \in Procs, Build(p) \/ BuildFails(p) \/ InitCoalescer(p)
      PROVE  HoldsByPhase' /\ BusyOnlyUp'
  BY <1>2 DEF Build, BuildFails, InitCoalescer, Goto, Holdings, Singletons
<1>3. ASSUME NEW p \in Procs, Accept(p) \/ Answer(p)
      PROVE  HoldsByPhase' /\ BusyOnlyUp'
  BY <1>3 DEF Accept, Answer
<1>4. ASSUME NEW p \in Procs, Recycle(p) \/ Close(p) \/ DisposeRedis(p) \/ DisposeEngine(p)
      PROVE  HoldsByPhase' /\ BusyOnlyUp'
  BY <1>4 DEF Recycle, Close, DisposeRedis, DisposeEngine, Goto, Holdings, Singletons
<1>5. ASSUME NEW p \in Procs, Exit(p) \/ Kill(p) \/ ChildExit(p)
      PROVE  HoldsByPhase' /\ BusyOnlyUp'
  BY <1>5 DEF Exit, Kill, Gone, ChildExit, Goto, Holdings
<1>6. CASE ScrapeBegins \/ \E p \in Procs : ScrapeReads(p)
  BY <1>6 DEF ScrapeBegins, ScrapeReads, ofProcess
<1>7. CASE UNCHANGED vars
  BY <1>7 DEF vars, ofProcess
<1> QED
  BY <1>1, <1>2, <1>3, <1>4, <1>5, <1>6, <1>7 DEF Next, Boot, Serve, Stop

\* Every step that leaves a file or a gauge behind has a reason to.
LEMMA LeftoversNext ==
    /\ TypeOK /\ FilesHaveOwners /\ GaugesHaveOwners /\ GaugesOfTheLiving
    /\ [Next]_vars
    => FilesHaveOwners' /\ GaugesHaveOwners' /\ GaugesOfTheLiving'
<1> SUFFICES ASSUME TypeOK, FilesHaveOwners, GaugesHaveOwners, GaugesOfTheLiving, [Next]_vars
             PROVE  FilesHaveOwners' /\ GaugesHaveOwners' /\ GaugesOfTheLiving'
  OBVIOUS
<1> USE DEF TypeOK, FilesHaveOwners, GaugesHaveOwners, GaugesOfTheLiving, Alive
<1>1. ASSUME NEW p \in Procs, Fork(p) \/ InitEngine(p) \/ InitRedis(p) \/ InitFilter(p)
      PROVE  FilesHaveOwners' /\ GaugesHaveOwners' /\ GaugesOfTheLiving'
  BY <1>1 DEF Fork, InitEngine, InitRedis, InitFilter, Creates, Goto, ofDisk, files, ofScrape
<1>2. ASSUME NEW p \in Procs, Build(p) \/ BuildFails(p) \/ InitCoalescer(p)
      PROVE  FilesHaveOwners' /\ GaugesHaveOwners' /\ GaugesOfTheLiving'
  BY <1>2 DEF Build, BuildFails, InitCoalescer, Goto, ofDisk, files, ofScrape
<1>3. ASSUME NEW p \in Procs, Accept(p) \/ Answer(p)
      PROVE  FilesHaveOwners' /\ GaugesHaveOwners' /\ GaugesOfTheLiving'
  BY <1>3 DEF Accept, Answer, ofDisk, files, ofScrape
<1>4. ASSUME NEW p \in Procs, Recycle(p) \/ Close(p) \/ DisposeRedis(p) \/ DisposeEngine(p)
      PROVE  FilesHaveOwners' /\ GaugesHaveOwners' /\ GaugesOfTheLiving'
  BY <1>4
     DEF Recycle, Close, CloseFilter, DisposeRedis, DisposeEngine, Goto, ofDisk, files, ofScrape
<1>5. ASSUME NEW p \in Procs, Exit(p) \/ Kill(p) \/ ChildExit(p)
      PROVE  FilesHaveOwners' /\ GaugesHaveOwners' /\ GaugesOfTheLiving'
  BY <1>5 DEF Exit, Kill, Gone, ChildExit, Goto, ofDisk, files, ofScrape
<1>6. CASE ScrapeBegins
  BY <1>6 DEF ScrapeBegins, ofProcess, ofDisk, files
<1>7. ASSUME NEW p \in Procs, ScrapeReads(p)
      PROVE  FilesHaveOwners' /\ GaugesHaveOwners' /\ GaugesOfTheLiving'
  BY <1>7 DEF ScrapeReads, ofProcess, ofDisk, files
<1>8. CASE UNCHANGED vars
  BY <1>8 DEF vars, ofProcess, ofDisk, files, ofScrape
<1> QED
  BY <1>1, <1>2, <1>3, <1>4, <1>5, <1>6, <1>7, <1>8 DEF Next, Boot, Serve, Stop

\* The inductive invariant holds whatever fails and whoever is killed.
THEOREM Invariant == Spec => []IInv
<1>1. IInv /\ [Next]_vars => IInv'
  BY TypeNext, HoldingsNext, LeftoversNext DEF IInv
<1> QED
  BY <1>1, InitHolds, PTL DEF Spec

\* Types, for every number of processes.
THEOREM TypeCorrect == Spec => []TypeOK
<1>1. IInv => TypeOK
  BY DEF IInv
<1> QED
  BY <1>1, Invariant, PTL

\* No request meets a singleton that is missing.
THEOREM Equipped == Spec => []RequestsAreEquipped
<1>1. IInv => RequestsAreEquipped
  BY DEF IInv, HoldsByPhase, Holdings, BusyOnlyUp, RequestsAreEquipped
<1> QED
  BY <1>1, Invariant, PTL

\* Teardown, like a startup that fails, keeps nothing whose foundation is gone.
THEOREM TornDownInReverse == Spec => []ReverseTeardown
<1>1. IInv => ReverseTeardown
  BY DEF IInv, TypeOK, Alive, HoldsByPhase, Holdings, Singletons, ReverseTeardown
<1> QED
  BY <1>1, Invariant, PTL

\* The file of a filter does not outlive its process without a reason.
THEOREM FilesRemoved == Spec => []FilesAreCleanedUp
<1>1. IInv => FilesAreCleanedUp
  BY DEF IInv, FilesHaveOwners, FilesAreCleanedUp
<1> QED
  BY <1>1, Invariant, PTL

\* No scrape adds up the gauges of a process that was reaped before it began.
THEOREM DeadNotCounted == Spec => []GaugesOfTheLiving
<1>1. IInv => GaugesOfTheLiving
  BY DEF IInv
<1> QED
  BY <1>1, Invariant, PTL

-----------------------------------------------------------------------------
(* Scrapes.  A counter that stands at n is n marks of its process, so that   *)
(* what the counters of some processes add up to is the size of a set.       *)

Marks(c, S) == {m \in S \X (1 .. MaxCount) : m[2] <= c[m[1]]}
Total(c, S) == Cardinality(Marks(c, S))

Counters == [Procs -> 0 .. MaxCount]
Forked == {p \in Procs : phase[p] # "unborn"}

\* The last scrape is no more than the counters are, nor than what the scrape
\* under way will come to if no request is counted any more; and it never comes
\* to more than the counters do.
ScrapesCover ==
    /\ IsFiniteSet(Forked) /\ toRead \subseteq Forked
    /\ last <= Total(counter, Forked)
    /\ toRead # {} => last <= sum + Total(counter, toRead)
    /\ toRead # {} => sum + Total(counter, toRead) <= Total(counter, Forked)

\* Finitely many processes have finitely many marks.
LEMMA MarksFinite ==
    ASSUME NEW c \in Counters, NEW S, IsFiniteSet(S)
    PROVE  IsFiniteSet(Marks(c, S)) /\ Total(c, S) \in Nat
<1>1. IsFiniteSet(1 .. MaxCount)
  BY BoundsAssumption, FS_Interval
<1>2. IsFiniteSet(S \X (1 .. MaxCount))
  BY <1>1, FS_Product
<1>3. Marks(c, S) \in SUBSET (S \X (1 .. MaxCount))
  BY DEF Marks
<1>4. IsFiniteSet(Marks(c, S))
  BY <1>2, <1>3, FS_Subset
<1> QED
  BY <1>4, FS_CardinalityType DEF Total

\* More processes have no fewer marks.
LEMMA TotalMonotone ==
    ASSUME NEW c \in Counters, NEW T, IsFiniteSet(T), NEW S \in SUBSET T
    PROVE  Total(c, S) <= Total(c, T)
<1>1. Marks(c, S) \in SUBSET Marks(c, T)
  BY DEF Marks
<1> QED
  BY <1>1, MarksFinite, FS_Subset DEF Total

\* A process contributes its counter to the total.
LEMMA TotalSplits ==
    ASSUME NEW c \in Counters, NEW S \in SUBSET Procs, IsFiniteSet(S), NEW p \in S
    PROVE  Total(c, S) = Total(c, S \ {p}) + c[p]
<1> DEFINE Own == {p} \X (1 .. c[p])
<1>1. c[p] \in Nat /\ c[p] <= MaxCount
  BY BoundsAssumption DEF Counters
<1>2. IsFiniteSet(Own) /\ Cardinality(Own) = c[p]
  <2>1. IsFiniteSet(1 .. c[p]) /\ Cardinality(1 .. c[p]) = c[p]
    BY <1>1, FS_Interval, SMTT(30)
  <2>2. IsFiniteSet({p}) /\ Cardinality({p}) = 1
    BY FS_Singleton
  <2>3. IsFiniteSet(Own) /\ Cardinality(Own) = Cardinality({p}) * Cardinality(1 .. c[p])
    BY <2>1, <2>2, FS_Product
  <2> QED
    BY <1>1, <2>1, <2>2, <2>3
<1>3. IsFiniteSet(Marks(c, S \ {p})) /\ Total(c, S \ {p}) \in Nat
  <2>1. IsFiniteSet(S \ {p})
    BY FS_RemoveElement
  <2> QED
    BY <2>1, MarksFinite
<1>4. Marks(c, S) = Marks(c, S \ {p}) \cup Own
  BY <1>1, BoundsAssumption DEF Marks
<1>5. Marks(c, S \ {p}) \cap Own = {}
  BY DEF Marks
<1>6. Cardinality(Marks(c, S)) = Cardinality(Marks(c, S \ {p})) + Cardinality(Own) - Cardinality({})
  BY <1>2, <1>3, <1>4, <1>5, FS_Union
<1> QED
  BY <1>1, <1>2, <1>3, <1>6, FS_EmptySet DEF Total

\* A request that a process counts makes the total of those it is one of one
\* more, and leaves the others theirs.
LEMMA TotalCounts ==
    ASSUME NEW c \in Counters, NEW p \in Procs, c[p] < MaxCount,
           NEW S \in SUBSET Procs, IsFiniteSet(S)
    PROVE  LET d == [c EXCEPT ![p] = @ + 1]
           IN  Total(d, S) = Total(c, S) + IF p \in S THEN 1 ELSE 0
<1> DEFINE d == [c EXCEPT ![p] = @ + 1]
<1>1. d \in Counters /\ d[p] = c[p] + 1 /\ c[p] \in Nat
  BY BoundsAssumption DEF Counters
<1>2. Marks(d, S \ {p}) = Marks(c, S \ {p})
  BY DEF Marks, Counters
<1>3. CASE p \in S
  <2>1. Total(d, S) = Total(d, S \ {p}) + d[p] /\ Total(c, S) = Total(c, S \ {p}) + c[p]
    BY <1>1, <1>3, TotalSplits
  <2>2. Total(c, S \ {p}) \in Nat
    BY MarksFinite, FS_RemoveElement
  <2> QED
    BY <1>1, <1>2, <1>3, <2>1, <2>2 DEF Total
<1>4. CASE p \notin S
  <2>1. S \ {p} = S
    BY <1>4
  <2>2. Total(c, S) \in Nat
    BY MarksFinite
  <2> QED
    BY <1>2, <1>4, <2>1, <2>2 DEF Total
<1> QED
  BY <1>3, <1>4

LEMMA ScrapesInit == Init => ScrapesCover
<1> SUFFICES ASSUME Init PROVE ScrapesCover
  OBVIOUS
<1>1. Forked = {} /\ toRead = {} /\ last = 0
  BY DEF Init, Forked
<1>2. counter \in Counters
  BY BoundsAssumption DEF Init, Counters
<1>3. IsFiniteSet({})
  BY FS_EmptySet
<1>4. Total(counter, {}) \in Nat
  BY <1>2, <1>3, MarksFinite
<1> QED
  BY <1>1, <1>3, <1>4 DEF ScrapesCover

\* Every step keeps what scrapes are bounded by, and none lowers the last.
LEMMA ScrapesNext == TypeOK /\ ScrapesCover /\ [Next]_vars => ScrapesCover' /\ last' >= last
<1> SUFFICES ASSUME TypeOK, ScrapesCover, [Next]_vars
             PROVE  ScrapesCover' /\ last' >= last
  OBVIOUS
<1> DEFINE Covered == ScrapesCover' /\ last' >= last
<1>t. /\ counter \in Counters /\ sum \in Nat /\ last \in Nat
      /\ phase \in [Procs -> Alive \cup {"unborn", "dead", "reaped"}]
  BY DEF TypeOK, Counters
<1>f. Forked \in SUBSET Procs /\ IsFiniteSet(Forked) /\ toRead \in SUBSET Forked
  BY DEF ScrapesCover, Forked
<1>r. IsFiniteSet(toRead)
  BY <1>f, FS_Subset
<1>n. Total(counter, Forked) \in Nat /\ Total(counter, toRead) \in Nat
  BY <1>t, <1>f, <1>r, MarksFinite
<1>s. ASSUME UNCHANGED <<counter, ofScrape>>, Forked' = Forked
      PROVE  Covered
  BY <1>s, <1>t DEF ScrapesCover, Total, Marks, ofScrape
<1>1. ASSUME NEW p \in Procs, Fork(p)
      PROVE  Covered
  <2>1. Forked' = Forked \cup {p} /\ UNCHANGED <<counter, ofScrape>>
    BY <1>1, <1>t DEF Fork, Goto, Forked, Alive
  <2>2. IsFiniteSet(Forked')
    BY <2>1, <1>f, FS_AddElement
  <2>3. Total(counter, Forked) <= Total(counter, Forked') /\ Total(counter, Forked') \in Nat
    BY <2>1, <2>2, <1>t, TotalMonotone, MarksFinite
  <2>4. Total(counter, Forked)' = Total(counter, Forked') /\ Total(counter, toRead)' = Total(counter, toRead)
    BY <2>1 DEF Total, Marks, ofScrape
  <2> QED
    BY <1>t, <1>f, <1>n, <2>1, <2>2, <2>3, <2>4 DEF ScrapesCover, ofScrape
<1>2. ASSUME NEW p \in Procs,
             \/ InitEngine(p) \/ InitRedis(p) \/ InitFilter(p)
             \/ Build(p) \/ BuildFails(p) \/ InitCoalescer(p)
      PROVE  Covered
  <2>1. UNCHANGED <<counter, ofScrape>> /\ Forked' = Forked
    BY <1>2, <1>t
       DEF InitEngine, InitRedis, InitFilter, Creates, Build, BuildFails, InitCoalescer, Goto, files, Forked
  <2> QED
    BY <2>1, <1>s
<1>3. ASSUME NEW p \in Procs, Accept(p)
      PROVE  Covered
  <2>1. /\ p \in Forked /\ Forked' = Forked /\ UNCHANGED ofScrape
        /\ counter[p] < MaxCount /\ counter' = [counter EXCEPT ![p] = @ + 1]
    BY <1>3, <1>t DEF Accept, Forked
  <2>2. /\ Total(counter', Forked) = Total(counter, Forked) + 1
        /\ \/ Total(counter', toRead) = Total(counter, toRead) + 1
           \/ Total(counter', toRead) = Total(counter, toRead) + 0
    BY <2>1, <1>t, <1>f, <1>r, TotalCounts
  <2>3. Total(counter, Forked)' = Total(counter', Forked) /\ Total(counter, toRead)' = Total(counter', toRead)
    BY <2>1 DEF Total, Marks, ofScrape
  <2> QED
    BY <1>t, <1>f, <1>n, <2>1, <2>2, <2>3 DEF ScrapesCover, ofScrape
<1>4. ASSUME NEW p \in Procs,
             \/ Answer(p) \/ Recycle(p) \/ Close(p) \/ DisposeRedis(p) \/ DisposeEngine(p)
             \/ Exit(p) \/ Kill(p) \/ ChildExit(p)
      PROVE  Covered
  <2>1. UNCHANGED <<counter, ofScrape>> /\ Forked' = Forked
    BY <1>4, <1>t
       DEF Answer, Recycle, Close, DisposeRedis, DisposeEngine, Exit, Kill, Gone, ChildExit, Goto, files,
           Forked, Alive
  <2> QED
    BY <2>1, <1>s
<1>5. CASE ScrapeBegins
  <2>1. /\ toRead' = Forked /\ sum' = 0 /\ Forked' = Forked /\ UNCHANGED <<counter, last>>
    BY <1>5 DEF ScrapeBegins, ofProcess, files, Forked
  <2>2. Total(counter, Forked)' = Total(counter, Forked) /\ Total(counter, toRead)' = Total(counter, Forked)
    BY <2>1 DEF Total, Marks
  <2> QED
    BY <1>t, <1>f, <1>n, <2>1, <2>2 DEF ScrapesCover
<1>6. ASSUME NEW p \in Procs, ScrapeReads(p)
      PROVE  Covered
  <2>1. /\ p \in toRead /\ toRead' = toRead \ {p} /\ sum' = sum + counter[p]
        /\ last' = IF toRead' = {} THEN sum' ELSE last
        /\ Forked' = Forked /\ UNCHANGED counter
    BY <1>6 DEF ScrapeReads, ofProcess, files, Forked
  <2>2. Total(counter, toRead) = Total(counter, toRead') + counter[p]
    BY <2>1, <1>t, <1>f, <1>r, TotalSplits
  <2>3. Total(counter, toRead') \in Nat /\ counter[p] \in Nat
    <3>1. IsFiniteSet(toRead')
      BY <2>1, <1>r, FS_RemoveElement
    <3> QED
      BY <3>1, <1>t, MarksFinite, BoundsAssumption DEF Counters
  <2>4. toRead' = {} => Total(counter, toRead') = 0
    BY FS_EmptySet DEF Total, Marks
  <2>5. Total(counter, Forked)' = Total(counter, Forked) /\ Total(counter, toRead)' = Total(counter, toRead')
    BY <2>1 DEF Total, Marks
  <2>6. last <= sum + Total(counter, toRead) /\ sum + Total(counter, toRead) <= Total(counter, Forked)
    BY <2>1 DEF ScrapesCover
  <2>7. sum' + Total(counter, toRead') = sum + Total(counter, toRead)
    BY <1>t, <1>n, <2>1, <2>2, <2>3
  <2>8. last' >= last /\ last' <= Total(counter, Forked)
    BY <1>t, <1>n, <2>1, <2>3, <2>4, <2>6, <2>7 DEF ScrapesCover
  <2> QED
    BY <1>f, <2>1, <2>5, <2>6, <2>7, <2>8, <1>t, <1>n, <2>3 DEF ScrapesCover
<1>7. CASE UNCHANGED vars
  <2>1. UNCHANGED <<counter, ofScrape>> /\ Forked' = Forked
    BY <1>7 DEF vars, ofProcess, files, Forked
  <2> QED
    BY <2>1, <1>s
<1> QED
  BY <1>1, <1>2, <1>3, <1>4, <1>5, <1>6, <1>7 DEF Next, Boot, Serve, Stop, Covered

\* Two scrapes never find less than one did, whoever was recycled in between.
THEOREM CountersNeverDecrease == Spec => ScrapesNeverDecrease
<1>1. Init => ScrapesCover
  BY ScrapesInit
<1>2. TypeOK /\ ScrapesCover /\ [Next]_vars => ScrapesCover'
  BY ScrapesNext
<1>3. Spec => []ScrapesCover
  BY <1>1, <1>2, TypeCorrect, PTL DEF Spec
<1>4. TypeOK /\ ScrapesCover /\ [Next]_vars => [last' >= last]_vars
  BY ScrapesNext
<1> QED
  BY <1>3, <1>4, TypeCorrect, PTL DEF Spec, ScrapesNeverDecrease
===============================================================================
