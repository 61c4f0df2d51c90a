--------------------------- MODULE CoalescerProofs ---------------------------
(***************************************************************************)
(* The safety of the coalescer for every set of tasks, workers, keys and   *)
(* outcomes.  The invariants the runs check are not inductive: that a      *)
(* waiter is never stranded needs the leader it points at to stay          *)
(* registered until it resolves its future, and that it shares the         *)
(* leader's outcome needs the future to keep what the leader returned.     *)
(* With that invariant, every step is one of SingleFlight or a stutter.    *)
(***************************************************************************)
EXTENDS Coalescer, TLAPS

\* A task that has not called, and a leader, await no one.
AwaitsNobody ==
    \A t \in Tasks : role[t] \in {"idle", "leader"} => awaits[t] = None

\* A live leader is the registered task of its slot and owes an outcome.
LeaderRegistered ==
    \A t \in Tasks : role[t] = "leader" =>
        /\ slot[t] \in Slots
        /\ inflight[slot[t]] = t
        /\ future[t] = Pending

\* What a call that led returned is what its future keeps.
LeaderKeepsOutcome ==
    \A t \in Tasks : role[t] = "done" /\ awaits[t] = None =>
        /\ outcome[t] = future[t]
        /\ future[t] \in Outcomes

\* A waiter awaits a leader of its slot, alive or finished.
WaiterAttached ==
    \A t \in Tasks : role[t] = "waiter" =>
        /\ awaits[t] \in Tasks
        /\ awaits[awaits[t]] = None
        /\ slot[t] \in Slots
        /\ slot[awaits[t]] = slot[t]
        /\ role[awaits[t]] \in {"leader", "done"}

\* A waiter that was resumed by its leader's future left with its outcome.
WaiterServed ==
    \A t \in Tasks : role[t] = "done" /\ awaits[t] # None /\ t \notin hungUp =>
        /\ awaits[t] \in Tasks
        /\ role[awaits[t]] = "done"
        /\ slot[t] = slot[awaits[t]]
        /\ outcome[t] = outcome[awaits[t]]

\* A call has an outcome only once it has left.
OutcomeIsLast ==
    \A t \in Tasks : outcome[t] # Pending => role[t] = "done"

IInv ==
    /\ TypeOK
    /\ NoPoisonedKey
    /\ AwaitsNobody
    /\ LeaderRegistered
    /\ LeaderKeepsOutcome
    /\ WaiterAttached
    /\ WaiterServed
    /\ OutcomeIsLast
    /\ ShieldHolds

-----------------------------------------------------------------------------
\* The invariant holds before any call.
LEMMA InitIInv == Init => IInv
BY SentinelsDiffer DEF Init, IInv, TypeOK, NoPoisonedKey, AwaitsNobody, LeaderRegistered, LeaderKeepsOutcome, WaiterAttached, WaiterServed, OutcomeIsLast, ShieldHolds, Slots, Outcomes, Roles

\* Every step of every task, and a restart, preserves the invariant.
LEMMA NextIInv == IInv /\ [Next]_vars => IInv'
<1> SUFFICES ASSUME IInv, [Next]_vars
             PROVE  IInv'
  OBVIOUS
<1> USE DEF IInv, TypeOK, NoPoisonedKey, AwaitsNobody, LeaderRegistered, LeaderKeepsOutcome, WaiterAttached, WaiterServed, OutcomeIsLast, ShieldHolds, Slots, Roles
<1>1. ASSUME NEW t \in Tasks, NEW s \in Slots, Lead(t, s)
      PROVE  IInv'
  <2>1. TypeOK'
    BY <1>1, SentinelsDiffer DEF Lead
  <2>2. NoPoisonedKey'
    BY <1>1, SentinelsDiffer DEF Lead
  <2>3. AwaitsNobody'
    BY <1>1, SentinelsDiffer DEF Lead
  <2>4. LeaderRegistered'
    BY <1>1, SentinelsDiffer DEF Lead
  <2>5. LeaderKeepsOutcome'
    BY <1>1, SentinelsDiffer DEF Lead
  <2>6. WaiterAttached'
    BY <1>1, SentinelsDiffer DEF Lead
  <2>7. WaiterServed'
    BY <1>1, SentinelsDiffer DEF Lead
  <2>8. OutcomeIsLast'
    BY <1>1, SentinelsDiffer DEF Lead
  <2>9. ShieldHolds'
    BY <1>1, SentinelsDiffer DEF Lead
  <2> QED
    BY <2>1, <2>2, <2>3, <2>4, <2>5, <2>6, <2>7, <2>8, <2>9 DEF IInv
<1>2. ASSUME NEW t \in Tasks, NEW s \in Slots, Join(t, s)
      PROVE  IInv'
  <2>1. TypeOK'
    BY <1>2, SentinelsDiffer DEF Join
  <2>2. NoPoisonedKey'
    BY <1>2, SentinelsDiffer DEF Join
  <2>3. AwaitsNobody'
    BY <1>2, SentinelsDiffer DEF Join
  <2>4. LeaderRegistered'
    BY <1>2, SentinelsDiffer DEF Join
  <2>5. LeaderKeepsOutcome'
    BY <1>2, SentinelsDiffer DEF Join
  <2>6. WaiterAttached'
    BY <1>2, SentinelsDiffer DEF Join
  <2>7. WaiterServed'
    BY <1>2, SentinelsDiffer DEF Join
  <2>8. OutcomeIsLast'
    BY <1>2, SentinelsDiffer DEF Join
  <2>9. ShieldHolds'
    BY <1>2, SentinelsDiffer DEF Join
  <2> QED
    BY <2>1, <2>2, <2>3, <2>4, <2>5, <2>6, <2>7, <2>8, <2>9 DEF IInv
<1>3. ASSUME NEW t \in Tasks, NEW o \in Outcomes, Resolve(t, o),
             hungUp' = IF o = Cancelled THEN hungUp \cup {t} ELSE hungUp
      PROVE  IInv'
  <2>1. TypeOK'
    BY <1>3, SentinelsDiffer DEF Resolve, Outcomes
  <2>2. NoPoisonedKey'
    BY <1>3, SentinelsDiffer DEF Resolve, Outcomes
  <2>3. AwaitsNobody'
    BY <1>3, SentinelsDiffer DEF Resolve, Outcomes
  <2>4. LeaderRegistered'
    BY <1>3, SentinelsDiffer DEF Resolve, Outcomes
  <2>5. LeaderKeepsOutcome'
    BY <1>3, SentinelsDiffer DEF Resolve, Outcomes
  <2>6. WaiterAttached'
    BY <1>3, SentinelsDiffer DEF Resolve, Outcomes
  <2>7. WaiterServed'
    BY <1>3, SentinelsDiffer DEF Resolve, Outcomes
  <2>8. OutcomeIsLast'
    BY <1>3, SentinelsDiffer DEF Resolve, Outcomes
  <2>9. ShieldHolds'
    BY <1>3, SentinelsDiffer DEF Resolve, Outcomes
  <2> QED
    BY <2>1, <2>2, <2>3, <2>4, <2>5, <2>6, <2>7, <2>8, <2>9 DEF IInv
<1>4. ASSUME NEW t \in Tasks, Wake(t)
      PROVE  IInv'
  <2>1. TypeOK'
    BY <1>4, SentinelsDiffer DEF Wake, Leave, Outcomes
  <2>2. NoPoisonedKey'
    BY <1>4, SentinelsDiffer DEF Wake, Leave, Outcomes
  <2>3. AwaitsNobody'
    BY <1>4, SentinelsDiffer DEF Wake, Leave, Outcomes
  <2>4. LeaderRegistered'
    BY <1>4, SentinelsDiffer DEF Wake, Leave, Outcomes
  <2>5. LeaderKeepsOutcome'
    BY <1>4, SentinelsDiffer DEF Wake, Leave, Outcomes
  <2>6. WaiterAttached'
    BY <1>4, SentinelsDiffer DEF Wake, Leave, Outcomes
  <2>7. WaiterServed'
    BY <1>4, SentinelsDiffer DEF Wake, Leave, Outcomes
  <2>8. OutcomeIsLast'
    BY <1>4, SentinelsDiffer DEF Wake, Leave, Outcomes
  <2>9. ShieldHolds'
    BY <1>4, SentinelsDiffer DEF Wake, Leave, Outcomes
  <2> QED
    BY <2>1, <2>2, <2>3, <2>4, <2>5, <2>6, <2>7, <2>8, <2>9 DEF IInv
<1>5. ASSUME NEW t \in Tasks, CancelWaiter(t)
      PROVE  IInv'
  <2>1. TypeOK'
    BY <1>5, SentinelsDiffer DEF CancelWaiter, Leave, Outcomes
  <2>2. NoPoisonedKey'
    BY <1>5, SentinelsDiffer DEF CancelWaiter, Leave, Outcomes
  <2>3. AwaitsNobody'
    BY <1>5, SentinelsDiffer DEF CancelWaiter, Leave, Outcomes
  <2>4. LeaderRegistered'
    BY <1>5, SentinelsDiffer DEF CancelWaiter, Leave, Outcomes
  <2>5. LeaderKeepsOutcome'
    BY <1>5, SentinelsDiffer DEF CancelWaiter, Leave, Outcomes
  <2>6. WaiterAttached'
    BY <1>5, SentinelsDiffer DEF CancelWaiter, Leave, Outcomes
  <2>7. WaiterServed'
    BY <1>5, SentinelsDiffer DEF CancelWaiter, Leave, Outcomes
  <2>8. OutcomeIsLast'
    BY <1>5, SentinelsDiffer DEF CancelWaiter, Leave, Outcomes
  <2>9. ShieldHolds'
    BY <1>5, SentinelsDiffer DEF CancelWaiter, Leave, Outcomes
  <2> QED
    BY <2>1, <2>2, <2>3, <2>4, <2>5, <2>6, <2>7, <2>8, <2>9 DEF IInv
<1>6. ASSUME NEW w \in Workers, Restart(w)
      PROVE  IInv'
  <2>1. TypeOK'
    BY <1>6, SentinelsDiffer DEF Restart, CallsOn, Outcomes
  <2>2. NoPoisonedKey'
    BY <1>6, SentinelsDiffer DEF Restart, CallsOn, Outcomes
  <2>3. AwaitsNobody'
    BY <1>6, SentinelsDiffer DEF Restart, CallsOn, Outcomes
  <2>4. LeaderRegistered'
    BY <1>6, SentinelsDiffer DEF Restart, CallsOn, Outcomes
  <2>5. LeaderKeepsOutcome'
    BY <1>6, SentinelsDiffer DEF Restart, CallsOn, Outcomes
  <2>6. WaiterAttached'
    BY <1>6, SentinelsDiffer DEF Restart, CallsOn, Outcomes
  <2>7. WaiterServed'
    BY <1>6, SentinelsDiffer DEF Restart, CallsOn, Outcomes
  <2>8. OutcomeIsLast'
    BY <1>6, SentinelsDiffer DEF Restart, CallsOn, Outcomes
  <2>9. ShieldHolds'
    BY <1>6, SentinelsDiffer DEF Restart, CallsOn, Outcomes
  <2> QED
    BY <2>1, <2>2, <2>3, <2>4, <2>5, <2>6, <2>7, <2>8, <2>9 DEF IInv
<1>7. ASSUME NEW t \in Tasks, LoaderEnds(t)
      PROVE  IInv'
  <2>1. PICK o \in Values \cup Errors : Resolve(t, o) /\ hungUp' = hungUp
    BY <1>7 DEF LoaderEnds, LoaderReturns, LoaderRaises
  <2>2. o \in Outcomes /\ o # Cancelled
    BY SentinelsDiffer DEF Outcomes
  <2> QED
    BY <1>3, <2>1, <2>2
<1>8. ASSUME NEW t \in Tasks, CancelLeader(t)
      PROVE  IInv'
  <2>1. Cancelled \in Outcomes
    BY DEF Outcomes
  <2> QED
    BY <1>3, <1>8, <2>1 DEF CancelLeader
<1>9. CASE UNCHANGED vars
  BY <1>9 DEF vars
<1> HIDE DEF IInv
<1> QED
  BY <1>1, <1>2, <1>4, <1>5, <1>6, <1>7, <1>8, <1>9 DEF Next, Call, Cancel

\* The invariant is one of every reachable state.
THEOREM Invariant == Spec => []IInv
BY InitIInv, NextIInv, PTL DEF Spec

\* Every variable keeps a value of its kind, in every reachable state.
THEOREM TypeCorrect == Spec => []TypeOK
<1>1. IInv => TypeOK
  BY DEF IInv
<1> QED
  BY <1>1, Invariant, PTL

\* coalesce() runs at most one loader per key and worker at a time: two leaders
\* of one slot would both be the task registered for it.
THEOREM SingleLoad == Spec => []OneLoadPerSlot
<1>1. IInv => OneLoadPerSlot
  BY DEF IInv, LeaderRegistered, OneLoadPerSlot
<1> QED
  BY <1>1, Invariant, PTL

\* The finally block leaves no key behind: what is registered is a live leader.
THEOREM KeysNeverPoisoned == Spec => []NoPoisonedKey
<1>1. IInv => NoPoisonedKey
  BY DEF IInv
<1> QED
  BY <1>1, Invariant, PTL

\* No leader, however it ends, leaves a waiter behind a future nobody resolves.
THEOREM WaitersNeverStranded == Spec => []NoStrandedWaiter
<1>1. ASSUME IInv, NEW t \in Tasks, role[t] = "waiter"
      PROVE  LET leader == awaits[t] IN
               /\ leader \in Tasks
               /\ slot[leader] = slot[t]
               /\ \/ role[leader] = "leader" /\ future[leader] = Pending
                  \/ role[leader] = "done" /\ future[leader] \in Outcomes
  BY <1>1 DEF IInv, WaiterAttached, LeaderRegistered, LeaderKeepsOutcome
<1>2. IInv => NoStrandedWaiter
  BY <1>1 DEF NoStrandedWaiter
<1> QED
  BY <1>2, Invariant, PTL

\* Waiters leave with what their leader returned or raised.
THEOREM OutcomesShared == Spec => []SharedOutcome
<1>1. IInv => SharedOutcome
  BY DEF IInv, WaiterServed, SharedOutcome
<1> QED
  BY <1>1, Invariant, PTL

\* A cancelled waiter takes no one with it.
THEOREM Shielded == Spec => []ShieldHolds
<1>1. IInv => ShieldHolds
  BY DEF IInv
<1> QED
  BY <1>1, Invariant, PTL

-----------------------------------------------------------------------------
(* The coalescer implements single flight.  Leading and joining are both a  *)
(* call; a leader that resolves its future lands the load; a resumed waiter *)
(* is delivered what it is owed; a restarted worker's loads and callers     *)
(* vanish.                                                                  *)

\* Who calls, and for what, as the abstract specification sees it.
Asked == [t \in Tasks |-> IF role[t] \in {"leader", "waiter"} THEN slot[t] ELSE None]
Owed  == [t \in Tasks |-> IF role[t] = "waiter" THEN future[awaits[t]] ELSE Pending]
Loading == {s \in Slots : inflight[s] # None}

LEMMA InitRefines == Init => SF!Init
BY SentinelsDiffer DEF Init, SF!Init

\* Leading a load is a call that starts it.
LEMMA LeadRefines ==
    ASSUME IInv, NEW t \in Tasks, NEW s \in Slots, Lead(t, s)
    PROVE  SF!Call(t, s)
<1>1. Loading' = Loading \cup {s}
  BY SentinelsDiffer DEF IInv, TypeOK, Lead, Loading
<1>2. Asked' = [Asked EXCEPT ![t] = s]
  BY DEF IInv, TypeOK, Lead, Asked
<1>3. Owed' = Owed
  BY DEF IInv, TypeOK, Lead, Owed, WaiterAttached
<1> QED
  BY <1>1, <1>2, <1>3 DEF SF!Call, Loading, Asked, Owed, Lead, IInv, TypeOK, OutcomeIsLast

\* Joining is a call that shares the load already running.
LEMMA JoinRefines ==
    ASSUME IInv, NEW t \in Tasks, NEW s \in Slots, Join(t, s)
    PROVE  SF!Call(t, s)
<1>1. Loading' = Loading \cup {s}
  BY DEF Join, Loading
<1>2. Asked' = [Asked EXCEPT ![t] = s]
  BY DEF IInv, TypeOK, Join, Asked
<1>3. inflight[s] \in Tasks /\ inflight[s] # t /\ future[inflight[s]] = Pending
  BY DEF IInv, TypeOK, NoPoisonedKey, Join
<1>4. Owed' = Owed
  BY <1>3 DEF IInv, TypeOK, Join, Owed
<1> QED
  BY <1>1, <1>2, <1>4 DEF SF!Call, Loading, Asked, Owed, Join, IInv, TypeOK, OutcomeIsLast

\* A future that a waiter awaits is pending exactly while its load runs.
LEMMA PendingMeansLoading ==
    ASSUME IInv, NEW u \in Tasks, role[u] = "waiter", future[awaits[u]] = Pending
    PROVE  inflight[slot[u]] = awaits[u]
<1>1. role[awaits[u]] = "leader"
  BY SentinelsDiffer DEF IInv, WaiterAttached, LeaderKeepsOutcome
<1> QED
  BY <1>1 DEF IInv, WaiterAttached, LeaderRegistered

\* The leader's outcome lands for exactly those that share its load.
LEMMA ResolveRefines ==
    ASSUME IInv, NEW t \in Tasks, NEW o \in Outcomes, Resolve(t, o)
    PROVE  SF!Land(t, slot[t], o)
<1> DEFINE s == slot[t]
           Sharers == {u \in Tasks : Asked[u] = s /\ Owed[u] = Pending}
<1>1. s \in Slots /\ inflight[s] = t
  BY DEF IInv, LeaderRegistered, Resolve
<1>2. Loading' = Loading \ {s} /\ s \in Loading
  BY <1>1, SentinelsDiffer DEF IInv, TypeOK, Resolve, Loading
<1>3. Asked' = [Asked EXCEPT ![t] = None]
  BY DEF IInv, TypeOK, Resolve, Asked
<1>4. t \in Sharers
  BY DEF Resolve, Asked, Owed
<1>5. ASSUME NEW u \in Tasks, role[u] = "waiter"
      PROVE  u \in Sharers <=> awaits[u] = t
  <2>1. CASE awaits[u] = t
    BY <1>5, <2>1 DEF IInv, WaiterAttached, LeaderRegistered, Resolve, Asked, Owed
  <2>2. CASE awaits[u] # t
    BY <1>1, <1>5, <2>2, PendingMeansLoading DEF Asked, Owed
  <2> QED
    BY <2>1, <2>2
<1>6. ASSUME NEW u \in Tasks, role[u] # "waiter", u # t
      PROVE  u \notin Sharers
  BY <1>1, <1>6, SentinelsDiffer DEF IInv, LeaderRegistered, Asked
<1>7. Owed' = [u \in Tasks |-> IF u \in Sharers \ {t} THEN o ELSE Owed[u]]
  <2>1. ASSUME NEW u \in Tasks
        PROVE  Owed'[u] = IF u \in Sharers \ {t} THEN o ELSE Owed[u]
    <3>1. CASE role[u] = "waiter"
      BY <1>5, <3>1 DEF IInv, TypeOK, WaiterAttached, Resolve, Owed
    <3>2. CASE role[u] # "waiter"
      BY <1>6, <3>2 DEF IInv, TypeOK, Resolve, Owed
    <3> QED
      BY <3>1, <3>2
  <2> QED
    BY <2>1 DEF Owed
<1>8. outcome' = [outcome EXCEPT ![t] = o]
  BY DEF Resolve
<1> QED
  BY <1>2, <1>3, <1>4, <1>7, <1>8 DEF SF!Land, SF!Sharing, Loading, Asked, Owed

\* A waiter that leaves, with whatever outcome, departs alone.
LEMMA LeaveRefines ==
    ASSUME IInv, NEW t \in Tasks, NEW o, Leave(t, o)
    PROVE  SF!Depart(t, o)
<1>1. Loading' = Loading /\ outcome' = [outcome EXCEPT ![t] = o]
  BY DEF Leave, Loading
<1>2. Asked' = [Asked EXCEPT ![t] = None] /\ Asked[t] # None
  BY SentinelsDiffer, ZenonT(40) DEF IInv, TypeOK, WaiterAttached, Leave, Asked
<1>3. Owed' = [Owed EXCEPT ![t] = Pending]
  BY DEF IInv, TypeOK, Leave, Owed
<1> QED
  BY <1>1, <1>2, <1>3 DEF SF!Depart, Loading, Asked, Owed

\* A restarted worker takes its loads and its callers with it, and no other's.
LEMMA RestartRefines ==
    ASSUME IInv, NEW w \in Workers, Restart(w)
    PROVE  SF!Vanish({s \in Slots : s[1] = w})
<1> DEFINE S == {s \in Slots : s[1] = w}
<1>1. Loading' = Loading \ S
  BY DEF Restart, Loading
<1>2. ASSUME NEW t \in Tasks
      PROVE  t \in CallsOn(w) <=> Asked[t] \in S
  BY SentinelsDiffer DEF IInv, LeaderRegistered, WaiterAttached, CallsOn, Asked
<1>3. Asked' = [t \in Tasks |-> IF Asked[t] \in S THEN None ELSE Asked[t]]
  BY <1>2 DEF Restart, Asked, CallsOn
<1>4. ASSUME NEW t \in Tasks
      PROVE  Owed'[t] = IF Asked[t] \in S THEN Pending ELSE Owed[t]
  <2>1. CASE t \in CallsOn(w)
    BY <1>2, <2>1 DEF Restart, Owed
  <2>2. CASE t \notin CallsOn(w) /\ role[t] = "waiter"
    <3>1. awaits[t] \in Tasks /\ awaits[t] \notin CallsOn(w)
      BY <2>2 DEF IInv, WaiterAttached, CallsOn
    <3> QED
      BY <1>2, <2>2, <3>1 DEF Restart, Owed
  <2>3. CASE t \notin CallsOn(w) /\ role[t] # "waiter"
    BY <1>2, <2>3 DEF Restart, Owed
  <2> QED
    BY <2>1, <2>2, <2>3
<1>5. Owed' = [t \in Tasks |-> IF Asked[t] \in S THEN Pending ELSE Owed[t]]
  BY <1>4 DEF Owed
<1> QED
  BY <1>1, <1>3, <1>5 DEF SF!Vanish, Loading, Asked, Owed, Restart

\* Every step of the coalescer is a step of single flight or a stutter.
LEMMA StepRefines == IInv /\ [Next]_vars => [SF!Next]_(SF!vars)
<1> SUFFICES ASSUME IInv, [Next]_vars
             PROVE  [SF!Next]_(SF!vars)
  OBVIOUS
<1>1. ASSUME NEW t \in Tasks, Call(t)
      PROVE  SF!Next
  <2>1. PICK s \in Slots : Lead(t, s) \/ Join(t, s)
    BY <1>1 DEF Call
  <2>2. SF!Call(t, s)
    BY <2>1, LeadRefines, JoinRefines
  <2> QED
    BY <2>2 DEF SF!Next
<1>2. ASSUME NEW t \in Tasks, NEW o \in Outcomes, Resolve(t, o)
      PROVE  SF!Next
  <2>1. slot[t] \in Slots
    BY <1>2 DEF IInv, LeaderRegistered, Resolve
  <2>2. SF!Land(t, slot[t], o)
    BY <1>2, ResolveRefines
  <2> QED
    BY <2>1, <2>2 DEF SF!Next
<1>3. ASSUME NEW t \in Tasks, LoaderEnds(t) \/ CancelLeader(t)
      PROVE  SF!Next
  <2>1. PICK o \in Outcomes : Resolve(t, o)
    BY <1>3 DEF LoaderEnds, LoaderReturns, LoaderRaises, CancelLeader, Outcomes
  <2> QED
    BY <1>2, <2>1
<1>4. ASSUME NEW t \in Tasks, Wake(t)
      PROVE  SF!Next
  <2>1. PICK o : o = future[awaits[t]]
    OBVIOUS
  <2>2. Leave(t, o)
    BY <1>4, <2>1 DEF Wake, Leave
  <2>3. SF!Depart(t, o)
    BY <2>2, LeaveRefines
  <2>4. SF!Deliver(t)
    BY <1>4, <2>1, <2>3 DEF SF!Deliver, SF!Depart, Wake
  <2> QED
    BY <2>4 DEF SF!Next
<1>5. ASSUME NEW t \in Tasks, CancelWaiter(t)
      PROVE  SF!Next
  <2>1. SF!GiveUp(t)
    BY <1>5, LeaveRefines DEF CancelWaiter, SF!GiveUp
  <2> QED
    BY <2>1 DEF SF!Next
<1>6. ASSUME NEW w \in Workers, Restart(w)
      PROVE  SF!Next
  BY <1>6, RestartRefines DEF SF!Next
<1>7. CASE UNCHANGED vars
  BY <1>7 DEF vars, SF!vars
<1> QED
  BY <1>1, <1>3, <1>4, <1>5, <1>6, <1>7 DEF Next, Cancel

\* Futures behind shields implement single flight: a load lands once, and for
\* exactly the callers that arrived while it ran.
THEOREM SingleFlightImplemented == Spec => ImplementsSingleFlight
BY InitRefines, StepRefines, Invariant, PTL
DEF Spec, ImplementsSingleFlight, SF!Spec
===============================================================================
