----------------------------- MODULE SingleFlight -----------------------------
(***************************************************************************)
(* What coalesce() promises its callers (src/service/coalescer.py,         *)
(* docs/adr/0005), with no dictionary, futures or leaders: for each slot   *)
(* at most one load runs; a call starts it or shares it; when the load     *)
(* ends, its outcome is owed to everyone who called since it started.      *)
(***************************************************************************)
CONSTANTS Tasks, Slots, Outcomes, None, Pending, Cancelled

VARIABLES
    loading,    \* the slots a load is running for
    asked,      \* task -> the slot it is calling, None before and after
    owed,       \* task -> outcome its load ended with, not yet delivered
    got         \* task -> what the call returned or raised

vars == <<loading, asked, owed, got>>

Init ==
    /\ loading = {}
    /\ asked   = [t \in Tasks |-> None]
    /\ owed    = [t \in Tasks |-> Pending]
    /\ got     = [t \in Tasks |-> Pending]

\* Callers that share the load now running for s.
Sharing(s) == {t \in Tasks : asked[t] = s /\ owed[t] = Pending}

Call(t, s) ==
    /\ asked[t] = None /\ got[t] = Pending
    /\ loading' = loading \cup {s}
    /\ asked'   = [asked EXCEPT ![t] = s]
    /\ UNCHANGED <<owed, got>>

\* The load ends: one caller, who ran it, leaves with the outcome at once and
\* the others are owed it.
Land(t, s, o) ==
    /\ s \in loading /\ t \in Sharing(s)
    /\ loading' = loading \ {s}
    /\ asked'   = [asked EXCEPT ![t] = None]
    /\ owed'    = [u \in Tasks |-> IF u \in Sharing(s) \ {t} THEN o ELSE owed[u]]
    /\ got'     = [got EXCEPT ![t] = o]

Depart(t, o) ==
    /\ asked[t] # None
    /\ asked' = [asked EXCEPT ![t] = None]
    /\ owed'  = [owed EXCEPT ![t] = Pending]
    /\ got'   = [got EXCEPT ![t] = o]
    /\ UNCHANGED loading

Deliver(t) == owed[t] # Pending /\ Depart(t, owed[t])

\* A caller is cancelled: it alone leaves, the load goes on.
GiveUp(t) == Depart(t, Cancelled)

\* The process exits: the loads of its slots S and their callers are gone.
Vanish(S) ==
    /\ loading' = loading \ S
    /\ asked'   = [t \in Tasks |-> IF asked[t] \in S THEN None ELSE asked[t]]
    /\ owed'    = [t \in Tasks |-> IF asked[t] \in S THEN Pending ELSE owed[t]]
    /\ UNCHANGED got

Next ==
    \/ \E t \in Tasks, s \in Slots :
           Call(t, s) \/ \E o \in Outcomes : Land(t, s, o)
    \/ \E t \in Tasks : Deliver(t) \/ GiveUp(t)
    \/ \E S \in SUBSET Slots : Vanish(S)

Spec == Init /\ [][Next]_vars
=============================================================================
