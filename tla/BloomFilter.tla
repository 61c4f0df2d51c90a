----------------------------- MODULE BloomFilter -----------------------------
(***************************************************************************)
(* BloomFilterService of one worker (src/service/bloom.py) between the     *)
(* requests that consult it, the admin rebuilds, and Postgres.             *)
(*                                                                         *)
(* A request looks its product up, may then query Postgres, and tells the  *)
(* filter what it found.  A rebuild replaces the filter by an empty one,   *)
(* which may fail and leave it closed, awaits the SELECT, and adds the ids *)
(* it returned.  Steps are what runs between two awaits.  Rows come and go *)
(* by soft deletes and by the seeding script.                              *)
(***************************************************************************)
EXTENDS BloomBits, Naturals, FiniteSets

CONSTANTS
    Requests,   \* tasks of GET /products/{id}, one lookup each
    Rebuilds,   \* tasks of POST /admin/bloom/rebuild
    None        \* no product

ASSUME TasksAssumption ==
    /\ Requests \cap Rebuilds = {}
    /\ None \notin Products

\* What is counted is finite: rows, requests and rebuilds.
ASSUME FiniteAssumption ==
    IsFiniteSet(Products) /\ IsFiniteSet(Requests) /\ IsFiniteSet(Rebuilds)

VARIABLES
    enabled,        \* settings.bloom_enabled
    open,           \* _filter is not closed
    bits,           \* _filter
    itemsAdded,     \* _items_added
    lookups,        \* _total_lookups
    falsePositives, \* _false_positives
    live,           \* Postgres: the rows with deleted_at IS NULL
    unborn,         \* Postgres: ids that have no row
    pc,             \* task -> where it is
    wants,          \* request -> the product it looked up, until it ends
    rows,           \* rebuild -> the ids its SELECT returned, until it ends
    late,           \* history: ids inserted that no finished build has read
    buried,         \* history: ids deleted since the last reset
    straddling,     \* history: tasks that were under way at the last reset
    whole           \* history: the rebuild that reset the filter last has added its rows

filterVars == <<open, bits, itemsAdded, lookups, falsePositives>>
dbVars     == <<live, unborn, buried>>
history    == <<late, straddling, whole>>
vars == <<enabled, filterVars, dbVars, pc, wants, rows, history>>

\* Startup builds the filter before the worker serves (src/core/lifecycle.py).
Init ==
    /\ enabled \in BOOLEAN
    /\ live \in SUBSET Products
    /\ unborn \in SUBSET (Products \ live)
    /\ open = TRUE
    /\ bits = IF enabled THEN BitsOfAll(live) ELSE {}
    /\ itemsAdded = IF enabled THEN Cardinality(live) ELSE 0
    /\ lookups = 0
    /\ falsePositives = 0
    /\ pc = [t \in Requests \cup Rebuilds |-> "idle"]
    /\ wants = [t \in Requests |-> None]
    /\ rows = [r \in Rebuilds |-> {}]
    /\ late = {}
    /\ buried = {}
    /\ straddling = {}
    /\ whole = TRUE

Goto(t, from, to) == pc[t] = from /\ pc' = [pc EXCEPT ![t] = to]

-----------------------------------------------------------------------------
(* Postgres *)

\* The seeding script empties the table: soft-deleted rows go too.
Truncate ==
    /\ live' = {}
    /\ unborn' = Products
    /\ buried' = buried \cup live
    /\ UNCHANGED <<enabled, filterVars, pc, wants, rows, history>>

\* Then it writes rows in chunks, with ids the filter may have seen before.
Copy(chunk) ==
    /\ chunk \subseteq unborn /\ chunk # {}
    /\ live'   = live \cup chunk
    /\ unborn' = unborn \ chunk
    /\ late'   = late \cup chunk
    /\ UNCHANGED <<enabled, filterVars, buried, pc, wants, rows, straddling, whole>>

SoftDelete(p) ==
    /\ p \in live
    /\ live'   = live \ {p}
    /\ buried' = buried \cup {p}
    /\ UNCHANGED <<enabled, filterVars, unborn, pc, wants, rows, history>>

-----------------------------------------------------------------------------
(* Requests *)

\* A closed filter that is enabled cannot be asked or added to: that raises.
Raises == enabled /\ ~open

\* __contains__: a disabled filter accepts everything and counts nothing; a
\* closed one counts the lookup and then raises.
Lookup(t, p) ==
    /\ Goto(t, "idle", IF enabled => open /\ MayContain(bits, p) THEN "accepted" ELSE "done")
    /\ wants'   = [wants EXCEPT ![t] = IF pc'[t] = "accepted" THEN p ELSE None]
    /\ lookups' = IF enabled THEN lookups + 1 ELSE lookups
    /\ UNCHANGED <<enabled, open, bits, itemsAdded, falsePositives, dbVars, rows, history>>

\* The request ends without a query of its own: a cache hit, a coalesced
\* waiter, an error or a disconnect.
ServedElsewhere(t) ==
    /\ Goto(t, "accepted", "done")
    /\ wants' = [wants EXCEPT ![t] = None]
    /\ UNCHANGED <<enabled, filterVars, dbVars, rows, history>>

Query(t) ==
    /\ Goto(t, "accepted", IF wants[t] \in live THEN "found" ELSE "absent")
    /\ UNCHANGED <<enabled, filterVars, dbVars, wants, rows, history>>

\* Mutant of Add: a product whose bits are on already is not counted.
AddCountsNew(ids) ==
    /\ bits' = IF enabled THEN bits \cup BitsOfAll(ids) ELSE bits
    /\ itemsAdded' = IF enabled
                     THEN itemsAdded + Cardinality({p \in ids : ~MayContain(bits, p)})
                     ELSE itemsAdded
    /\ UNCHANGED <<open, lookups, falsePositives>>

\* add(), once for each of ids.
Add(ids) ==
    /\ bits'       = IF enabled THEN bits \cup BitsOfAll(ids) ELSE bits
    /\ itemsAdded' = IF enabled THEN itemsAdded + Cardinality(ids) ELSE itemsAdded
    /\ UNCHANGED <<open, lookups, falsePositives>>

AddFound(t) ==
    /\ Goto(t, "found", "done")
    /\ IF Raises THEN UNCHANGED filterVars ELSE Add({wants[t]})
    /\ wants' = [wants EXCEPT ![t] = None]
    /\ UNCHANGED <<enabled, dbVars, rows, history>>

MarkFalsePositive(t) ==
    /\ Goto(t, "absent", "done")
    /\ falsePositives' = IF enabled THEN falsePositives + 1 ELSE falsePositives
    /\ wants' = [wants EXCEPT ![t] = None]
    /\ UNCHANGED <<enabled, open, bits, itemsAdded, lookups, dbVars, rows, history>>

-----------------------------------------------------------------------------
(* build_from_db() *)

\* A rebuild starts and leaves bits b on and the counters at zero and fp.
ResetTo(r, b, zero, fp) ==
    /\ Goto(r, "idle", "selecting")
    /\ open' = TRUE
    /\ bits' = b
    /\ itemsAdded' = zero
    /\ lookups' = zero
    /\ falsePositives' = fp
    /\ buried' = {}
    /\ straddling' = {t \in Requests \cup Rebuilds : pc[t] \notin {"idle", "done"}}
    /\ whole' = FALSE
    /\ UNCHANGED <<enabled, live, unborn, wants, rows, late>>

\* Mutants of Reset: the counters are cleared to Python's None; the filter is
\* not replaced; the false positives are not cleared.
ResetToNone(r)    == ResetTo(r, {}, None, None)
ResetKeepsBits(r) == ResetTo(r, bits, 0, 0)
ResetKeepsRate(r) == ResetTo(r, {}, 0, falsePositives)

\* The filter is replaced by an empty one before the SELECT is awaited.
Reset(r) == ResetTo(r, {}, 0, 0)

\* The old filter is closed and its file unlinked, but no new one can be
\* created: the counters stay, and so does the closed filter.
ResetFails(r) ==
    /\ Goto(r, "idle", "done")
    /\ open' = FALSE
    /\ bits' = {}
    /\ whole' = FALSE
    /\ UNCHANGED <<enabled, itemsAdded, lookups, falsePositives, dbVars, wants, rows, late, straddling>>

Select(r) ==
    /\ Goto(r, "selecting", "adding")
    /\ rows' = [rows EXCEPT ![r] = live]
    /\ UNCHANGED <<enabled, filterVars, dbVars, wants, history>>

\* Mutant of AddRows: the rows are built aside and swapped in.
AddRowsSwaps(r) ==
    /\ Goto(r, "adding", "done")
    /\ ~Raises
    /\ bits' = BitsOfAll(rows[r])
    /\ itemsAdded' = Cardinality(rows[r])
    /\ late' = late \ rows[r]
    /\ whole' = (whole \/ (open /\ r \notin straddling))
    /\ rows' = [rows EXCEPT ![r] = {}]
    /\ UNCHANGED <<enabled, open, lookups, falsePositives, dbVars, wants, straddling>>

\* A rebuild that straddled another one's reset adds to what that one left.
AddRows(r) ==
    /\ Goto(r, "adding", "done")
    /\ Raises => rows[r] = {}
    /\ Add(rows[r])
    /\ late' = late \ rows[r]
    /\ whole' = (whole \/ (open /\ r \notin straddling))
    /\ rows' = [rows EXCEPT ![r] = {}]
    /\ UNCHANGED <<enabled, dbVars, wants, straddling>>

\* The SELECT fails, the request is cancelled, or another rebuild has left the
\* filter closed: this one ends, and the filter stays as it is.
Abort(r) ==
    /\ \/ \E from \in {"selecting", "adding"} : Goto(r, from, "done")
       \/ Raises /\ rows[r] # {} /\ Goto(r, "adding", "done")
    /\ rows' = [rows EXCEPT ![r] = {}]
    /\ UNCHANGED <<enabled, filterVars, dbVars, wants, history>>

-----------------------------------------------------------------------------
Next ==
    \/ Truncate
    \/ \E chunk \in SUBSET Products : Copy(chunk)
    \/ \E p \in Products : SoftDelete(p)
    \/ \E t \in Requests :
        \/ \E p \in Products : Lookup(t, p)
        \/ ServedElsewhere(t) \/ Query(t) \/ AddFound(t) \/ MarkFalsePositive(t)
    \/ \E r \in Rebuilds : Reset(r) \/ ResetFails(r) \/ Select(r) \/ AddRows(r) \/ Abort(r)

Spec == Init /\ [][Next]_vars

-----------------------------------------------------------------------------
(* Properties *)

\* Every variable holds a value of its kind; the counters never go negative.
TypeOK ==
    /\ enabled \in BOOLEAN
    /\ open \in BOOLEAN
    /\ bits \in SUBSET Bits
    /\ {itemsAdded, lookups, falsePositives} \subseteq Nat
    /\ live \in SUBSET Products /\ unborn \in SUBSET Products
    /\ pc \in [Requests \cup Rebuilds ->
                {"idle", "accepted", "found", "absent", "selecting", "adding", "done"}]
    /\ wants \in [Requests -> Products \cup {None}]
    /\ rows \in [Rebuilds -> SUBSET Products]
    /\ late \in SUBSET Products /\ buried \in SUBSET Products
    /\ straddling \in SUBSET (Requests \cup Rebuilds)
    /\ whole \in BOOLEAN

\* The products the filter owes an answer to: live, and seen by a build.
Owed == live \ late

\* __contains__ says no only of what "definitely does not exist": from the end
\* of the rebuild that reset it last, whatever rebuilds, failures, deletes and
\* adds overlapped or went before, the filter accepts every live product that
\* some build has read.
NoFalseNegatives == enabled /\ whole => open /\ \A p \in Owed : MayContain(bits, p)

\* The saturation gauge never understates the catalogue: by then the filter has
\* counted every product it owes, even when rebuilds reset each other's count.
SaturationCovers == enabled /\ whole => itemsAdded >= Cardinality(Owed)

\* A rebuild is the recovery path for deletions: unless a request or another
\* rebuild straddled its reset and wrote back what it had read, the filter
\* holds no bit of a product that was dead at the reset.
RebuildForgets == straddling = {} => bits \subseteq BitsOfAll(live \cup buried)

\* The counters behind the measured false-positive rate drift apart by at most
\* the requests that looked up before a reset and were marked after it.
RateDriftBounded == falsePositives <= lookups + Cardinality(straddling)

\* rebuild_bloom(): "During rebuild the filter continues serving lookups from
\* its old state, so traffic is not affected."
ServesDuringRebuild ==
    enabled => \/ \A p \in Owed : MayContain(bits, p)
               \/ \A r \in Rebuilds : pc[r] \notin {"selecting", "adding"}
=============================================================================
