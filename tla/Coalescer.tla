------------------------------ MODULE Coalescer ------------------------------
(***************************************************************************)
(* RequestCoalescer (src/service/coalescer.py): one dictionary of futures  *)
(* per worker process.  The first caller of a key becomes the leader and   *)
(* runs the loader; callers that arrive while its future is registered     *)
(* await that future behind asyncio.shield.                                *)
(*                                                                         *)
(* A step is what one asyncio task does between two awaits.  A task makes  *)
(* one call to coalesce(), as one HTTP request does, so the future it may  *)
(* create is named by the task itself.  The dictionaries of all workers    *)
(* are one function over slots <<worker, key>>.                            *)
(***************************************************************************)
CONSTANTS
    Tasks,      \* asyncio tasks, one per request
    Workers,    \* gunicorn worker processes
    Keys,       \* deduplication keys
    Values,     \* what a loader may return
    Errors,     \* what a loader may raise, asyncio.CancelledError excepted
    None,       \* Python's None: no dictionary entry, no future, no slot
    Pending,    \* a future, or a call, without an outcome yet
    Cancelled   \* asyncio.CancelledError

Slots    == Workers \X Keys
Outcomes == Values \cup Errors \cup {Cancelled}

ASSUME SentinelsDiffer ==
    /\ None \notin Tasks \cup Slots \cup Outcomes \cup {Pending}
    /\ Pending \notin Outcomes
    /\ Cancelled \notin Values \cup Errors

VARIABLES
    inflight,   \* _inflight of every worker: slot -> the task whose future is registered
    future,     \* task -> state of the future it created
    role,       \* task -> its place in coalesce()
    slot,       \* task -> the worker it runs on and the key it asked for
    awaits,     \* waiter -> the task whose future it awaits
    outcome,    \* task -> what its call returned or raised
    hungUp      \* history: tasks that were cancelled from outside

vars == <<inflight, future, role, slot, awaits, outcome, hungUp>>

Roles == {"idle", "leader", "waiter", "done", "lost"}

Init ==
    /\ inflight = [s \in Slots |-> None]
    /\ future   = [t \in Tasks |-> None]
    /\ role     = [t \in Tasks |-> "idle"]
    /\ slot     = [t \in Tasks |-> None]
    /\ awaits   = [t \in Tasks |-> None]
    /\ outcome  = [t \in Tasks |-> Pending]
    /\ hungUp   = {}

-----------------------------------------------------------------------------
(* Entering coalesce() *)

\* Mutant of Lead: the check for a registered future is missing.
LeadUnchecked(t, s) ==
    /\ role[t] = "idle"
    /\ inflight' = [inflight EXCEPT ![s] = t]
    /\ future'   = [future EXCEPT ![t] = Pending]
    /\ role'     = [role EXCEPT ![t] = "leader"]
    /\ slot'     = [slot EXCEPT ![t] = s]
    /\ UNCHANGED <<awaits, outcome, hungUp>>

\* No future is registered: create one, register it, start the loader.
Lead(t, s) ==
    /\ role[t] = "idle"
    /\ inflight[s] = None
    /\ inflight' = [inflight EXCEPT ![s] = t]
    /\ future'   = [future EXCEPT ![t] = Pending]
    /\ role'     = [role EXCEPT ![t] = "leader"]
    /\ slot'     = [slot EXCEPT ![t] = s]
    /\ UNCHANGED <<awaits, outcome, hungUp>>

\* Mutant of Join: the dictionary is looked up with a key that is too coarse.
JoinCoarse(t, s) ==
    /\ role[t] = "idle"
    /\ \E r \in Slots :
        /\ inflight[r] # None
        /\ awaits' = [awaits EXCEPT ![t] = inflight[r]]
    /\ role' = [role EXCEPT ![t] = "waiter"]
    /\ slot' = [slot EXCEPT ![t] = s]
    /\ UNCHANGED <<inflight, future, outcome, hungUp>>

\* A future is registered: await it behind a shield.
Join(t, s) ==
    /\ role[t] = "idle"
    /\ inflight[s] # None
    /\ role'   = [role EXCEPT ![t] = "waiter"]
    /\ slot'   = [slot EXCEPT ![t] = s]
    /\ awaits' = [awaits EXCEPT ![t] = inflight[s]]
    /\ UNCHANGED <<inflight, future, outcome, hungUp>>

-----------------------------------------------------------------------------
(* Leaving coalesce() *)

\* Mutant of Resolve: the leader forgets to return what it stored.
ResolveReturnsNone(t, o) ==
    /\ role[t] = "leader"
    /\ future'   = [future EXCEPT ![t] = o]
    /\ inflight' = [inflight EXCEPT ![slot[t]] = None]
    /\ role'     = [role EXCEPT ![t] = "done"]
    /\ outcome'  = [outcome EXCEPT ![t] = None]
    /\ UNCHANGED <<slot, awaits>>

\* Mutant of Resolve: the key is not popped.
ResolveKeepsKey(t, o) ==
    /\ role[t] = "leader"
    /\ future'  = [future EXCEPT ![t] = o]
    /\ role'    = [role EXCEPT ![t] = "done"]
    /\ outcome' = [outcome EXCEPT ![t] = o]
    /\ UNCHANGED <<inflight, slot, awaits>>

\* The leader resolves its future, and the finally block pops the key, with
\* no await in between.
Resolve(t, o) ==
    /\ role[t] = "leader"
    /\ future'   = [future EXCEPT ![t] = o]
    /\ inflight' = [inflight EXCEPT ![slot[t]] = None]
    /\ role'     = [role EXCEPT ![t] = "done"]
    /\ outcome'  = [outcome EXCEPT ![t] = o]
    /\ UNCHANGED <<slot, awaits>>

LoaderReturns(t, v) == v \in Values /\ Resolve(t, v) /\ UNCHANGED hungUp
LoaderRaises(t, e)  == e \in Errors /\ Resolve(t, e) /\ UNCHANGED hungUp

\* Mutant of CancelLeader: "except Exception" lets CancelledError pass, so the
\* key is popped and the future stays pending.
CancelLeaderUncaught(t) ==
    /\ role[t] = "leader"
    /\ inflight' = [inflight EXCEPT ![slot[t]] = None]
    /\ role'     = [role EXCEPT ![t] = "done"]
    /\ outcome'  = [outcome EXCEPT ![t] = Cancelled]
    /\ hungUp'   = hungUp \cup {t}
    /\ UNCHANGED <<future, slot, awaits>>

\* The leader's task is cancelled inside the loader.  CancelledError is a
\* BaseException: it is stored in the future like any other exception.
CancelLeader(t) == Resolve(t, Cancelled) /\ hungUp' = hungUp \cup {t}

Leave(t, o) ==
    /\ role[t] = "waiter"
    /\ role'    = [role EXCEPT ![t] = "done"]
    /\ outcome' = [outcome EXCEPT ![t] = o]
    /\ UNCHANGED <<inflight, future, slot, awaits>>

\* The awaited future has been resolved and the event loop resumes the waiter.
Wake(t) ==
    /\ role[t] = "waiter"
    /\ future[awaits[t]] # Pending
    /\ Leave(t, future[awaits[t]])
    /\ UNCHANGED hungUp

\* Mutant of CancelWaiter: no shield, the cancelled waiter cancels the future.
CancelWaiterUnshielded(t) ==
    /\ role[t] = "waiter"
    /\ future'  = [future EXCEPT ![awaits[t]] = IF @ = Pending THEN Cancelled ELSE @]
    /\ role'    = [role EXCEPT ![t] = "done"]
    /\ outcome' = [outcome EXCEPT ![t] = Cancelled]
    /\ hungUp'  = hungUp \cup {t}
    /\ UNCHANGED <<inflight, slot, awaits>>

\* A waiter is cancelled: the shield absorbs it, the leader's future is kept.
\* A cancellation wins over a result the waiter has not been resumed with.
CancelWaiter(t) == Leave(t, Cancelled) /\ hungUp' = hungUp \cup {t}

-----------------------------------------------------------------------------
(* The worker process exits and is replaced; init_coalescer() starts empty *)

CallsOn(w) == {t \in Tasks : role[t] \in {"leader", "waiter"} /\ slot[t][1] = w}

Restart(w) ==
    /\ inflight' = [s \in Slots |-> IF s[1] = w THEN None ELSE inflight[s]]
    /\ future'   = [t \in Tasks |-> IF t \in CallsOn(w) THEN None ELSE future[t]]
    /\ role'     = [t \in Tasks |-> IF t \in CallsOn(w) THEN "lost" ELSE role[t]]
    /\ UNCHANGED <<slot, awaits, outcome, hungUp>>

-----------------------------------------------------------------------------
Call(t)       == \E s \in Slots : Lead(t, s) \/ Join(t, s)
LoaderEnds(t) == \/ \E v \in Values : LoaderReturns(t, v)
                 \/ \E e \in Errors : LoaderRaises(t, e)
Cancel(t)     == CancelLeader(t) \/ CancelWaiter(t)

Next ==
    \/ \E t \in Tasks : Call(t) \/ LoaderEnds(t) \/ Wake(t) \/ Cancel(t)
    \/ \E w \in Workers : Restart(w)

\* The event loop resumes every ready task, and a loader ends: each of its
\* awaits is a Redis or Postgres call that answers or fails.
Fairness == \A t \in Tasks : WF_vars(LoaderEnds(t)) /\ WF_vars(Wake(t))

Spec == Init /\ [][Next]_vars /\ Fairness

-----------------------------------------------------------------------------
(* Properties *)

\* Every variable holds a value of its kind.
TypeOK ==
    /\ inflight \in [Slots -> Tasks \cup {None}]
    /\ future   \in [Tasks -> Outcomes \cup {None, Pending}]
    /\ role     \in [Tasks -> Roles]
    /\ slot     \in [Tasks -> Slots \cup {None}]
    /\ awaits   \in [Tasks -> Tasks \cup {None}]
    /\ outcome  \in [Tasks -> Outcomes \cup {Pending}]
    /\ hungUp   \in SUBSET Tasks

\* At most one loader runs for a key in a worker (the promise of coalesce():
\* "called at most once per key, regardless of concurrent request count").
OneLoadPerSlot ==
    \A t, u \in Tasks :
        role[t] = "leader" /\ role[u] = "leader" /\ slot[t] = slot[u] => t = u

\* No key is poisoned: a registered future always has a live leader that is
\* still to resolve and pop it (the finally block runs on every path).
NoPoisonedKey ==
    \A s \in Slots :
        inflight[s] # None =>
            /\ role[inflight[s]] = "leader"
            /\ slot[inflight[s]] = s
            /\ future[inflight[s]] = Pending

\* No waiter hangs: what it awaits is resolved already or will be by a leader
\* of the same key in the same worker.
NoStrandedWaiter ==
    \A t \in Tasks : role[t] = "waiter" =>
        LET leader == awaits[t] IN
            /\ leader \in Tasks
            /\ slot[leader] = slot[t]
            /\ \/ role[leader] = "leader" /\ future[leader] = Pending
               \/ role[leader] = "done" /\ future[leader] \in Outcomes

\* A caller leaves with the leader's own result or exception, unless it was
\* itself cancelled; no one receives the outcome of another key or worker.
SharedOutcome ==
    \A t \in Tasks :
        role[t] = "done" /\ awaits[t] # None /\ t \notin hungUp =>
            /\ outcome[t] = outcome[awaits[t]]
            /\ slot[t] = slot[awaits[t]]

\* Cancelling a waiter reaches no one else (asyncio.shield): a call ends with
\* CancelledError only when that task, or the leader it awaits, was cancelled.
ShieldHolds ==
    \A t \in Tasks :
        outcome[t] = Cancelled => t \in hungUp \/ awaits[t] \in hungUp

\* Every call ends, whatever happens to its leader.
EveryCallEnds ==
    \A t \in Tasks : role[t] \in {"leader", "waiter"} ~> role[t] \in {"done", "lost"}

\* The comment at the shield: "One disconnected client doesn't kill the load
\* for everyone else."  Read over every client, leaders included.
OnlyTheDisconnectedAreCancelled ==
    \A t \in Tasks : outcome[t] = Cancelled => t \in hungUp
-----------------------------------------------------------------------------
(* What the callers are promised, see SingleFlight *)

SF == INSTANCE SingleFlight WITH
    loading <- {s \in Slots : inflight[s] # None},
    asked   <- [t \in Tasks |-> IF role[t] \in {"leader", "waiter"} THEN slot[t] ELSE None],
    owed    <- [t \in Tasks |-> IF role[t] = "waiter" THEN future[awaits[t]] ELSE Pending],
    got     <- outcome

\* Futures, shields and the dictionary implement single flight: a load lands
\* once, for exactly the callers that arrived while it ran.
ImplementsSingleFlight == SF!Spec

=============================================================================
