----------------------------- MODULE ProductStore -----------------------------
(***************************************************************************)
(* What the product API promises its clients, with no cache, filter,       *)
(* coalescer or worker in it: one row per product, writes that take effect *)
(* before they are answered, and reads that are answered at once with some *)
(* version that was committed, no older than what had been acknowledged    *)
(* when the read was sent.  A product may be excused from that last        *)
(* promise, for good, once somebody has asked to write to it.              *)
(* CacheGateway implements it.                                             *)
(***************************************************************************)
EXTENDS Naturals

CONSTANTS
    Readers, Updaters, Deleters, Products, None,
    NotFound,  \* there is no such row
    Rejected,  \* refused without a look at the row
    Failures   \* the answers to a request that could not be carried out

Writers  == Updaters \cup Deleters
Requests == Readers \cup Writers

VARIABLES
    row,     \* product -> [ver, live]
    acked,   \* product -> the newest row state a writer was answered for
    excused, \* products whose readers may be told of old versions
    asks,    \* request -> the product it is about, once it was sent
    floor,   \* reader -> acked when it was sent
    wrote,   \* writer -> the version it is to be answered with
    answer   \* request -> its answer

vars == <<row, acked, excused, asks, floor, wrote, answer>>

Init ==
    /\ row \in [Products -> [ver : {1}, live : BOOLEAN]]
    /\ acked = row
    /\ excused = {}
    /\ asks = [t \in Requests |-> None]
    /\ floor = [t \in Readers |-> None]
    /\ wrote = [t \in Writers |-> None]
    /\ answer = [t \in Requests |-> None]

Asked(t, p) == asks[t] = None /\ asks' = [asks EXCEPT ![t] = p]
Waiting(t) == asks[t] # None /\ answer[t] = None
Answered(t, a) == answer' = [answer EXCEPT ![t] = a]

\* A read is sent, and may be refused or fail at once.
Send(t, p) ==
    /\ Asked(t, p)
    /\ floor' = [floor EXCEPT ![t] = acked[p]]
    /\ UNCHANGED answer \/ \E a \in {Rejected} \cup Failures : Answered(t, a)
    /\ UNCHANGED <<row, acked, excused, wrote>>

\* A read is answered with a version of the row it asked for.
Read(t) ==
    LET p == asks[t] IN
    /\ Waiting(t)
    /\ \E v \in 1 .. row[p].ver :
        /\ p \in excused \/ (floor[t].live /\ v >= floor[t].ver)
        /\ Answered(t, v)
    /\ UNCHANGED <<row, acked, excused, asks, floor, wrote>>

\* A read is answered that there is no such row.
ReadMissing(t) ==
    /\ Waiting(t)
    /\ ~row[asks[t]].live
    /\ Answered(t, NotFound)
    /\ UNCHANGED <<row, acked, excused, asks, floor, wrote>>

\* A write takes effect on a live row, and raises its version or deletes it;
\* an update without fields leaves it alone.
Write(t, p) ==
    /\ Asked(t, p)
    /\ row[p].live
    /\ \/ t \in Updaters /\ row' = [row EXCEPT ![p].ver = @ + 1]
       \/ t \in Updaters /\ UNCHANGED row
       \/ t \in Deleters /\ row' = [row EXCEPT ![p].live = FALSE]
    /\ wrote' = [wrote EXCEPT ![t] = row'[p].ver]
    /\ excused' \in {excused, excused \cup {p}}
    /\ UNCHANGED <<acked, floor, answer>>

\* A write is refused, and has no effect.
Refuse(t, p) ==
    /\ Asked(t, p)
    /\ \/ ~row[p].live /\ Answered(t, NotFound)
       \/ \E f \in Failures : Answered(t, f)
    /\ UNCHANGED <<row, acked, excused, floor, wrote>>

\* A write is answered: from here on reads depend on it.
Acknowledge(t) ==
    LET p == asks[t] IN
    /\ Waiting(t) /\ wrote[t] # None
    /\ Answered(t, wrote[t])
    /\ acked' = [acked EXCEPT
                    ![p].ver  = IF @ < wrote[t] THEN wrote[t] ELSE @,
                    ![p].live = @ /\ t \notin Deleters]
    /\ excused' \in {excused, excused \cup {p}}
    /\ UNCHANGED <<row, asks, floor, wrote>>

\* A request fails; a write may have taken effect.
Fail(t) ==
    /\ Waiting(t)
    /\ \E f \in Failures : Answered(t, f)
    /\ excused' \in {excused} \cup {excused \cup {asks[t]} : u \in {t} \cap Writers}
    /\ UNCHANGED <<row, acked, asks, floor, wrote>>

\* Writers go unanswered for good, and excuse their products.
Abandon ==
    /\ \E left \in SUBSET {t \in Writers : Waiting(t)} :
        excused' = excused \cup {asks[t] : t \in left}
    /\ UNCHANGED <<row, acked, asks, floor, wrote, answer>>

Next ==
    \/ \E t \in Readers :
        \/ \E p \in Products : Send(t, p)
        \/ Read(t) \/ ReadMissing(t)
    \/ \E t \in Writers :
        \/ \E p \in Products : Write(t, p) \/ Refuse(t, p)
        \/ Acknowledge(t)
    \/ \E t \in Requests : Fail(t)
    \/ Abandon

Spec == Init /\ [][Next]_vars
===============================================================================
