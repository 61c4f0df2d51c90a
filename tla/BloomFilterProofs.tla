--------------------------- MODULE BloomFilterProofs ---------------------------
(***************************************************************************)
(* What one worker's filter holds and counts, for every catalogue, every   *)
(* hash and every number of requests and rebuilds.  NoFalseNegatives and   *)
(* SaturationCovers speak of rebuilds that are over; their strengthening   *)
(* speaks of one that is about to add, and of what it will not have to.    *)
(***************************************************************************)
EXTENDS BloomFilter, FiniteSetTheorems, TLAPS

Tasks == Requests \cup Rebuilds

\* A rebuild that has selected its rows, in the filter that it has reset.
Adder(r) == pc[r] = "adding" /\ r \notin straddling /\ open /\ enabled

\* What such a rebuild will not add is in the filter already.
AddersComplete ==
    \A r \in Rebuilds : Adder(r) => \A p \in Owed : p \in rows[r] \/ MayContain(bits, p)

\* And is counted already.
AddersCount ==
    \A r \in Rebuilds : Adder(r) => itemsAdded >= Cardinality(Owed \ rows[r])

\* Unless they straddled a reset, those who will add were told of rows that
\* were live since.
AddersForget ==
    straddling = {} =>
        /\ \A r \in Rebuilds : pc[r] = "adding" => rows[r] \subseteq live \cup buried
        /\ \A t \in Requests : pc[t] = "found" => wants[t] \in live \cup buried

\* Requests that may still be marked as false positives.
Unmarked == {t \in Requests : pc[t] \in {"accepted", "absent"}}

\* Each of them has counted a lookup since the last reset, or straddled it.
MarksCounted ==
    /\ enabled => falsePositives + Cardinality(Unmarked) <= lookups + Cardinality(straddling)
    /\ ~enabled => falsePositives = 0

\* A request that found a row knows which.
FoundKnown == \A t \in Requests : pc[t] \in {"accepted", "found"} => wants[t] \in Products

Covers   == NoFalseNegatives /\ AddersComplete
Counts   == SaturationCovers /\ AddersCount
Forgets  == RebuildForgets /\ AddersForget
IInv     == TypeOK /\ FoundKnown /\ Covers /\ Counts /\ Forgets /\ MarksCounted

-----------------------------------------------------------------------------
\* The filter only ever holds positions of the bit array, and what was added.
LEMMA BitsTyped ==
    \A ids \in SUBSET Products :
        /\ BitsOfAll(ids) \in SUBSET Bits
        /\ \A p \in ids : MayContain(BitsOfAll(ids), p)
        /\ \A more \in SUBSET Products : BitsOfAll(ids) \subseteq BitsOfAll(ids \cup more)
BY BitsOfAssumption DEF BitsOfAll, MayContain

\* Whatever is counted has a number.
LEMMA ProductsCounted ==
    \A ids \in SUBSET Products : IsFiniteSet(ids) /\ Cardinality(ids) \in Nat
BY FiniteAssumption, FS_Subset, FS_CardinalityType

\* Sets of products that are covered by two others have no more members.
LEMMA CoveredByTwo ==
    ASSUME NEW A \in SUBSET Products, NEW B \in SUBSET Products, NEW C \in SUBSET Products,
           A \subseteq B \cup C
    PROVE  Cardinality(A) <= Cardinality(B) + Cardinality(C)
<1>1. IsFiniteSet(B) /\ IsFiniteSet(C) /\ IsFiniteSet(B \cup C)
  BY ProductsCounted
<1>2. Cardinality(A) <= Cardinality(B \cup C)
  BY <1>1, FS_Subset
<1>3. Cardinality(B \cup C) = Cardinality(B) + Cardinality(C) - Cardinality(B \cap C)
  BY <1>1, FS_Union
<1>4. Cardinality(B \cap C) \in Nat /\ Cardinality(A) \in Nat
      /\ Cardinality(B) \in Nat /\ Cardinality(C) \in Nat
  BY ProductsCounted
<1> QED
  BY <1>2, <1>3, <1>4

LEMMA SmallerCounted ==
    ASSUME NEW A \in SUBSET Products, NEW B \in SUBSET Products, A \subseteq B
    PROVE  Cardinality(A) <= Cardinality(B)
BY FiniteAssumption, FS_Subset, ProductsCounted

LEMMA TasksCounted ==
    \A tasks \in SUBSET Tasks : IsFiniteSet(tasks) /\ Cardinality(tasks) \in Nat
<1>1. IsFiniteSet(Tasks)
  BY FiniteAssumption, FS_Union DEF Tasks
<1> QED
  BY <1>1, FS_Subset, FS_CardinalityType

-----------------------------------------------------------------------------
\* A worker starts with a filter that is built.
LEMMA InitHolds == Init => IInv
<1> SUFFICES ASSUME Init
             PROVE  IInv
  OBVIOUS
<1> USE DEF Init
<1>1. live \in SUBSET Products
  OBVIOUS
<1>2. BitsOfAll(live) \in SUBSET Bits /\ Cardinality(live) \in Nat
  BY <1>1, BitsTyped, ProductsCounted
<1>3. TypeOK
  BY <1>1, <1>2 DEF TypeOK
<1>4. Owed = live
  BY DEF Owed
<1>5. NoFalseNegatives
  BY <1>1, <1>4, BitsTyped DEF NoFalseNegatives
<1>6. SaturationCovers
  BY <1>2, <1>4 DEF SaturationCovers
<1>7. AddersComplete /\ AddersCount /\ AddersForget /\ FoundKnown
  BY DEF AddersComplete, AddersCount, AddersForget, FoundKnown, Adder
<1>8. RebuildForgets
  BY DEF RebuildForgets, BitsOfAll
<1>9. MarksCounted
  <2>1. Unmarked = {}
    BY DEF Unmarked
  <2> QED
    BY <2>1, FS_EmptySet DEF MarksCounted
<1> QED
  BY <1>3, <1>5, <1>6, <1>7, <1>8, <1>9 DEF IInv, Covers, Counts, Forgets

-----------------------------------------------------------------------------
\* Every step keeps the types.
LEMMA TypeNext == TypeOK /\ FoundKnown /\ [Next]_vars => TypeOK' /\ FoundKnown'
<1> SUFFICES ASSUME TypeOK, FoundKnown, [Next]_vars
             PROVE  TypeOK' /\ FoundKnown'
  OBVIOUS
<1> USE DEF TypeOK, FoundKnown
<1>1. CASE Truncate
  BY <1>1 DEF Truncate, filterVars, history
<1>2. ASSUME NEW chunk \in SUBSET Products, Copy(chunk)
      PROVE  TypeOK' /\ FoundKnown'
  BY <1>2 DEF Copy, filterVars
<1>3. ASSUME NEW p \in Products, SoftDelete(p)
      PROVE  TypeOK' /\ FoundKnown'
  BY <1>3 DEF SoftDelete, filterVars, history
<1>4. ASSUME NEW t \in Requests, NEW p \in Products, Lookup(t, p)
      PROVE  TypeOK' /\ FoundKnown'
  BY <1>4, TasksAssumption DEF Lookup, Goto, dbVars, history
<1>5. ASSUME NEW t \in Requests, ServedElsewhere(t) \/ Query(t) \/ MarkFalsePositive(t)
      PROVE  TypeOK' /\ FoundKnown'
  BY <1>5, TasksAssumption
     DEF ServedElsewhere, Query, MarkFalsePositive, Goto, filterVars, dbVars, history
<1>6. ASSUME NEW t \in Requests, AddFound(t)
      PROVE  TypeOK' /\ FoundKnown'
  <2>1. wants[t] \in Products
    BY <1>6 DEF AddFound, Goto
  <2>2. BitsOfAll({wants[t]}) \in SUBSET Bits /\ Cardinality({wants[t]}) \in Nat
    BY <2>1, BitsTyped, ProductsCounted
  <2>3. UNCHANGED filterVars \/ Add({wants[t]})
    BY <1>6 DEF AddFound
  <2>4. /\ bits' \in SUBSET Bits /\ itemsAdded' \in Nat
        /\ UNCHANGED <<open, lookups, falsePositives>>
    <3>1. CASE UNCHANGED filterVars
      BY <3>1 DEF filterVars
    <3>2. CASE Add({wants[t]})
      BY <2>2, <3>2 DEF Add
    <3> QED
      BY <2>3, <3>1, <3>2
  <2> QED
    BY <1>6, <2>4, TasksAssumption DEF AddFound, Goto, dbVars, history
<1>7. ASSUME NEW r \in Rebuilds, Reset(r)
      PROVE  TypeOK' /\ FoundKnown'
  <2>1. straddling' \in SUBSET (Requests \cup Rebuilds)
    BY <1>7 DEF Reset, ResetTo
  <2>2. pc' \in [Requests \cup Rebuilds ->
                    {"idle", "accepted", "found", "absent", "selecting", "adding", "done"}]
    BY <1>7 DEF Reset, ResetTo, Goto
  <2>3. /\ open' = TRUE /\ bits' = {} /\ buried' = {} /\ whole' = FALSE
        /\ itemsAdded' = 0 /\ lookups' = 0 /\ falsePositives' = 0
        /\ UNCHANGED <<enabled, live, unborn, wants, rows, late>>
    BY <1>7 DEF Reset, ResetTo
  <2>4. TypeOK'
    <3>1. {itemsAdded', lookups', falsePositives'} \subseteq Nat
      BY <2>3
    <3>2. open' \in BOOLEAN /\ whole' \in BOOLEAN
      BY <2>3
    <3>3. bits' \in SUBSET Bits
      BY <2>3
    <3> QED
      BY <2>1, <2>2, <2>3, <3>1, <3>2, <3>3
  <2>5. FoundKnown'
    BY <1>7, TasksAssumption DEF Reset, ResetTo, Goto
  <2> QED
    BY <2>4, <2>5
<1>11. ASSUME NEW r \in Rebuilds, ResetFails(r)
       PROVE  TypeOK' /\ FoundKnown'
  BY <1>11, TasksAssumption DEF ResetFails, Goto, dbVars
<1>8. ASSUME NEW r \in Rebuilds, Select(r) \/ Abort(r)
      PROVE  TypeOK' /\ FoundKnown'
  BY <1>8, TasksAssumption DEF Select, Abort, Goto, filterVars, dbVars, history
<1>9. ASSUME NEW r \in Rebuilds, AddRows(r)
      PROVE  TypeOK' /\ FoundKnown'
  <2>1. BitsOfAll(rows[r]) \in SUBSET Bits /\ Cardinality(rows[r]) \in Nat
    BY BitsTyped, ProductsCounted
  <2>2. bits' \in SUBSET Bits /\ itemsAdded' \in Nat
    BY <1>9, <2>1 DEF AddRows, Add
  <2> QED
    BY <1>9, <2>2, TasksAssumption DEF AddRows, Add, Goto, dbVars
<1>10. CASE UNCHANGED vars
  BY <1>10 DEF vars, filterVars, dbVars, history
<1> QED
  BY <1>1, <1>2, <1>3, <1>4, <1>5, <1>6, <1>7, <1>8, <1>9, <1>10, <1>11 DEF Next

-----------------------------------------------------------------------------
(* What the filter accepts *)

\* No step makes the filter forget what it owes, or a rebuild leave it out.
LEMMA CoversNext == TypeOK /\ FoundKnown /\ Covers /\ [Next]_vars => Covers'
<1> SUFFICES ASSUME TypeOK, FoundKnown, Covers, [Next]_vars
             PROVE  Covers'
  OBVIOUS
<1> USE DEF Covers, NoFalseNegatives, AddersComplete, Adder, Owed
<1>1. CASE Truncate
  BY <1>1 DEF Truncate, filterVars, history, MayContain
<1>2. ASSUME NEW chunk \in SUBSET Products, Copy(chunk)
      PROVE  Covers'
  BY <1>2 DEF Copy, filterVars, MayContain
<1>3. ASSUME NEW p \in Products, SoftDelete(p)
      PROVE  Covers'
  BY <1>3 DEF SoftDelete, filterVars, history, MayContain
<1>4. ASSUME NEW t \in Requests, NEW p \in Products, Lookup(t, p)
      PROVE  Covers'
  BY <1>4, TasksAssumption DEF Lookup, Goto, dbVars, history, MayContain, TypeOK
<1>5. ASSUME NEW t \in Requests, ServedElsewhere(t) \/ Query(t) \/ MarkFalsePositive(t)
      PROVE  Covers'
  BY <1>5, TasksAssumption
     DEF ServedElsewhere, Query, MarkFalsePositive, Goto, filterVars, dbVars, history, MayContain, TypeOK
<1>6. ASSUME NEW t \in Requests, AddFound(t)
      PROVE  Covers'
  <2>1. open' = open /\ bits \subseteq bits'
    BY <1>6 DEF AddFound, Add, filterVars
  <2>2. \A p \in Products : MayContain(bits, p) => MayContain(bits, p)'
    BY <2>1 DEF MayContain
  <2> QED
    BY <1>6, <2>1, <2>2, TasksAssumption DEF AddFound, Goto, dbVars, history, TypeOK
<1>7. ASSUME NEW r \in Rebuilds, Reset(r) \/ ResetFails(r)
      PROVE  Covers'
  <2>1. whole' = FALSE
    BY <1>7 DEF Reset, ResetTo, ResetFails
  <2>2. ASSUME NEW s \in Rebuilds
        PROVE  ~Adder(s)'
    BY <1>7, <2>2 DEF Reset, ResetTo, ResetFails, Goto, TypeOK
  <2> QED
    BY <2>1, <2>2
<1>8. ASSUME NEW r \in Rebuilds, Select(r)
      PROVE  Covers'
  BY <1>8 DEF Select, Goto, filterVars, dbVars, history, MayContain, TypeOK
<1>9. ASSUME NEW r \in Rebuilds, Abort(r)
      PROVE  Covers'
  BY <1>9 DEF Abort, Goto, filterVars, dbVars, history, MayContain, TypeOK
<1>10. ASSUME NEW r \in Rebuilds, AddRows(r)
       PROVE  Covers'
  <2>1. open' = open /\ enabled' = enabled /\ bits \subseteq bits' /\ live' = live
    BY <1>10 DEF AddRows, Add, dbVars
  <2>2. \A p \in Products : MayContain(bits, p) => MayContain(bits, p)'
    BY <2>1 DEF MayContain
  <2>3. enabled => \A p \in rows[r] : MayContain(bits, p)'
    BY <1>10, BitsTyped DEF AddRows, Add, MayContain, TypeOK
  <2>4. Owed' \subseteq Owed \cup rows[r]
    BY <1>10, <2>1 DEF AddRows
  <2>5. AddersComplete'
    BY <1>10, <2>1, <2>2, <2>3, <2>4 DEF AddRows, Goto, TypeOK
  <2>6. NoFalseNegatives'
    <3>1. CASE enabled /\ whole
      BY <2>1, <2>2, <2>3, <2>4, <3>1 DEF TypeOK
    <3>2. CASE enabled /\ open /\ r \notin straddling
      <4>1. Adder(r)
        BY <1>10, <3>2 DEF AddRows, Goto
      <4>2. \A p \in Owed : p \in rows[r] \/ MayContain(bits, p)
        BY <4>1
      <4> QED
        BY <2>1, <2>2, <2>3, <2>4, <3>2, <4>2 DEF TypeOK
    <3>3. whole' <=> (whole \/ (open /\ r \notin straddling))
      BY <1>10, Zenon DEF AddRows
    <3> QED
      BY <2>1, <3>1, <3>2, <3>3
  <2> QED
    BY <2>5, <2>6
<1>11. CASE UNCHANGED vars
  BY <1>11 DEF vars, filterVars, dbVars, history, MayContain
<1> QED
  BY <1>1, <1>2, <1>3, <1>4, <1>5, <1>6, <1>7, <1>8, <1>9, <1>10, <1>11 DEF Next

-----------------------------------------------------------------------------
(* What the filter counts *)

\* Owing less leaves nothing uncounted, as long as the count does not fall.
LEMMA CountKept ==
    ASSUME TypeOK, TypeOK', Counts, Owed' \subseteq Owed, itemsAdded' >= itemsAdded,
           enabled' = enabled, whole' = whole, open' = open, straddling' = straddling,
           \A r \in Rebuilds : pc'[r] = "adding" =>
                \/ pc[r] = "adding" /\ rows'[r] = rows[r]
                \/ Owed' \subseteq rows'[r]
    PROVE  Counts'
<1> USE DEF TypeOK
<1>1. Owed \in SUBSET Products /\ Owed' \in SUBSET Products
  BY DEF Owed
<1>2. SaturationCovers'
  <2>1. Cardinality(Owed') <= Cardinality(Owed)
    BY <1>1, SmallerCounted
  <2>2. Cardinality(Owed') \in Nat /\ Cardinality(Owed) \in Nat
    BY <1>1, ProductsCounted
  <2>3. ASSUME enabled', whole'
        PROVE  itemsAdded' >= Cardinality(Owed')
    BY <2>1, <2>2, <2>3 DEF Counts, SaturationCovers
  <2> QED
    BY <2>3 DEF SaturationCovers
<1>3. ASSUME NEW r \in Rebuilds, Adder(r)'
      PROVE  itemsAdded' >= Cardinality(Owed' \ rows'[r])
  <2>1. CASE Owed' \subseteq rows'[r]
    <3>1. PICK rest : rest = Owed' \ rows'[r]
      OBVIOUS
    <3>2. rest = {}
      BY <2>1, <3>1
    <3>3. Cardinality(rest) = 0
      BY <3>2, FS_EmptySet
    <3>4. itemsAdded' \in Nat
      OBVIOUS
    <3> QED
      BY <3>1, <3>3, <3>4
  <2>2. CASE pc[r] = "adding" /\ rows'[r] = rows[r]
    <3>1. Adder(r)
      BY <1>3, <2>2 DEF Adder
    <3>2. itemsAdded >= Cardinality(Owed \ rows[r])
      BY <3>1 DEF Counts, AddersCount
    <3>3. PICK less, more : less = Owed' \ rows'[r] /\ more = Owed \ rows[r]
      OBVIOUS
    <3>4. less \in SUBSET Products /\ more \in SUBSET Products /\ less \subseteq more
      BY <1>1, <2>2, <3>3
    <3>5. Cardinality(less) <= Cardinality(more)
      BY <3>4, SmallerCounted
    <3>6. Cardinality(less) \in Nat /\ Cardinality(more) \in Nat
      BY <3>4, ProductsCounted
    <3> QED
      BY <3>2, <3>3, <3>5, <3>6
  <2> QED
    BY <1>3, <2>1, <2>2 DEF Adder
<1> QED
  BY <1>2, <1>3 DEF Counts, AddersCount

\* A rebuild that adds rows covers what becomes owed, and counts it.
LEMMA CountRows ==
    ASSUME TypeOK, TypeOK', Counts, NEW r \in Rebuilds, AddRows(r)
    PROVE  Counts'
<1> USE DEF TypeOK
<1>1. /\ Owed \in SUBSET Products /\ Owed' \in SUBSET Products /\ rows[r] \in SUBSET Products
      /\ Owed' \subseteq Owed \cup rows[r]
  BY DEF Owed, AddRows, dbVars
<1>2. /\ Cardinality(Owed) \in Nat /\ Cardinality(Owed') \in Nat /\ Cardinality(rows[r]) \in Nat
  BY <1>1, ProductsCounted
<1>3. /\ open' = open /\ enabled' = enabled /\ straddling' = straddling
      /\ enabled => itemsAdded' = itemsAdded + Cardinality(rows[r])
  BY DEF AddRows, Add
<1>4. SaturationCovers'
  <2>1. ASSUME enabled, whole
        PROVE  itemsAdded' >= Cardinality(Owed')
    <3>1. Cardinality(Owed') <= Cardinality(Owed) + Cardinality(rows[r])
      BY <1>1, CoveredByTwo
    <3> QED
      BY <1>2, <1>3, <2>1, <3>1 DEF Counts, SaturationCovers
  <2>2. ASSUME enabled, open, r \notin straddling
        PROVE  itemsAdded' >= Cardinality(Owed')
    <3>1. itemsAdded >= Cardinality(Owed \ rows[r])
      BY <2>2 DEF Counts, AddersCount, Adder, AddRows, Goto
    <3>2. PICK rest : rest = Owed \ rows[r]
      OBVIOUS
    <3>3. rest \in SUBSET Products /\ Owed' \subseteq rest \cup rows[r]
      BY <1>1, <3>2
    <3>4. Cardinality(Owed') <= Cardinality(rest) + Cardinality(rows[r])
      BY <1>1, <3>3, CoveredByTwo
    <3>5. Cardinality(rest) \in Nat
      BY <3>3, ProductsCounted
    <3> QED
      BY <1>2, <1>3, <2>2, <3>1, <3>2, <3>4, <3>5
  <2>3. whole' <=> (whole \/ (open /\ r \notin straddling))
    BY Zenon DEF AddRows
  <2> QED
    BY <1>3, <2>1, <2>2, <2>3 DEF SaturationCovers
<1>5. ASSUME NEW s \in Rebuilds, Adder(s)'
      PROVE  itemsAdded' >= Cardinality(Owed' \ rows'[s])
  <2>1. s # r /\ Adder(s) /\ rows'[s] = rows[s]
    BY <1>3, <1>5 DEF Adder, AddRows, Goto
  <2>2. enabled /\ itemsAdded >= Cardinality(Owed \ rows[s])
    BY <2>1 DEF Counts, AddersCount, Adder
  <2>3. PICK less, more : less = Owed' \ rows'[s] /\ more = Owed \ rows[s]
    OBVIOUS
  <2>4. less \in SUBSET Products /\ more \in SUBSET Products /\ less \subseteq more \cup rows[r]
    BY <1>1, <2>1, <2>3
  <2>5. Cardinality(less) <= Cardinality(more) + Cardinality(rows[r])
    BY <1>1, <2>4, CoveredByTwo
  <2>6. Cardinality(less) \in Nat /\ Cardinality(more) \in Nat
    BY <2>4, ProductsCounted
  <2> QED
    BY <1>2, <1>3, <2>2, <2>3, <2>5, <2>6
<1> QED
  BY <1>4, <1>5 DEF Counts, AddersCount

\* No step leaves a product that is owed uncounted.
LEMMA CountsNext == TypeOK /\ FoundKnown /\ Counts /\ [Next]_vars => Counts'
<1> SUFFICES ASSUME TypeOK, FoundKnown, Counts, [Next]_vars
             PROVE  Counts'
  OBVIOUS
<1>0. TypeOK'
  BY TypeNext
<1>1. CASE Truncate
  BY <1>0, <1>1, CountKept DEF Truncate, filterVars, history, Owed, TypeOK
<1>2. ASSUME NEW chunk \in SUBSET Products, Copy(chunk)
      PROVE  Counts'
  BY <1>0, <1>2, CountKept DEF Copy, filterVars, Owed, TypeOK
<1>3. ASSUME NEW p \in Products, SoftDelete(p)
      PROVE  Counts'
  BY <1>0, <1>3, CountKept DEF SoftDelete, filterVars, history, Owed, TypeOK
<1>4. ASSUME NEW t \in Requests, NEW p \in Products, Lookup(t, p)
      PROVE  Counts'
  <2>1. \A r \in Rebuilds : pc'[r] = pc[r]
    BY <1>4, TasksAssumption DEF Lookup, Goto, TypeOK
  <2> QED
    BY <1>0, <1>4, <2>1, CountKept DEF Lookup, dbVars, history, Owed, TypeOK
<1>5. ASSUME NEW t \in Requests, ServedElsewhere(t) \/ Query(t) \/ MarkFalsePositive(t)
      PROVE  Counts'
  <2>1. \A r \in Rebuilds : pc'[r] = pc[r]
    BY <1>5, TasksAssumption DEF ServedElsewhere, Query, MarkFalsePositive, Goto, TypeOK
  <2> QED
    BY <1>0, <1>5, <2>1, CountKept
       DEF ServedElsewhere, Query, MarkFalsePositive, filterVars, dbVars, history, Owed, TypeOK
<1>6. ASSUME NEW t \in Requests, AddFound(t)
      PROVE  Counts'
  <2>1. \A r \in Rebuilds : pc'[r] = pc[r]
    BY <1>6, TasksAssumption DEF AddFound, Goto, TypeOK
  <2>2. wants[t] \in Products
    BY <1>6 DEF AddFound, Goto, FoundKnown
  <2>3. Cardinality({wants[t]}) \in Nat
    BY <2>2, ProductsCounted
  <2>4. open' = open /\ itemsAdded' >= itemsAdded
    <3>1. CASE UNCHANGED filterVars
      BY <3>1 DEF filterVars, TypeOK
    <3>2. CASE Add({wants[t]})
      BY <2>3, <3>2 DEF Add, TypeOK
    <3> QED
      BY <1>6, <3>1, <3>2 DEF AddFound
  <2> QED
    BY <1>0, <1>6, <2>1, <2>4, CountKept DEF AddFound, dbVars, history, Owed
<1>7. ASSUME NEW r \in Rebuilds, Reset(r) \/ ResetFails(r)
      PROVE  Counts'
  <2>1. whole' = FALSE
    BY <1>7 DEF Reset, ResetTo, ResetFails
  <2>2. ASSUME NEW s \in Rebuilds
        PROVE  ~Adder(s)'
    BY <1>7, <2>2 DEF Reset, ResetTo, ResetFails, Goto, TypeOK, Adder
  <2> QED
    BY <2>1, <2>2 DEF Counts, SaturationCovers, AddersCount
<1>8. ASSUME NEW r \in Rebuilds, Select(r)
      PROVE  Counts'
  BY <1>0, <1>8, CountKept DEF Select, Goto, filterVars, dbVars, history, Owed, TypeOK
<1>9. ASSUME NEW r \in Rebuilds, Abort(r)
      PROVE  Counts'
  BY <1>0, <1>9, CountKept DEF Abort, Goto, filterVars, dbVars, history, Owed, TypeOK
<1>10. ASSUME NEW r \in Rebuilds, AddRows(r)
       PROVE  Counts'
  BY <1>0, <1>10, CountRows
<1>11. CASE UNCHANGED vars
  BY <1>0, <1>11, CountKept DEF vars, filterVars, dbVars, history, Owed, TypeOK
<1> QED
  BY <1>1, <1>2, <1>3, <1>4, <1>5, <1>6, <1>7, <1>8, <1>9, <1>10, <1>11 DEF Next

-----------------------------------------------------------------------------
(* What a rebuild forgets *)

\* Unless it straddles a reset, no step writes back what was dead at the reset.
LEMMA ForgetsNext == TypeOK /\ FoundKnown /\ Forgets /\ [Next]_vars => Forgets'
<1> SUFFICES ASSUME TypeOK, FoundKnown, Forgets, [Next]_vars
             PROVE  Forgets'
  OBVIOUS
<1> USE DEF Forgets, RebuildForgets, AddersForget
<1>0. \A ids, more \in SUBSET Products : ids \subseteq more => BitsOfAll(ids) \subseteq BitsOfAll(more)
  BY DEF BitsOfAll
<1>1. CASE Truncate
  <2>1. live' \cup buried' = live \cup buried
    BY <1>1 DEF Truncate
  <2> QED
    BY <1>1, <2>1 DEF Truncate, filterVars, history
<1>2. ASSUME NEW chunk \in SUBSET Products, Copy(chunk)
      PROVE  Forgets'
  <2>1. /\ live \cup buried \subseteq live' \cup buried'
        /\ live' \cup buried' \in SUBSET Products /\ live \cup buried \in SUBSET Products
    BY <1>2 DEF Copy, TypeOK
  <2>2. BitsOfAll(live \cup buried) \subseteq BitsOfAll(live' \cup buried')
    BY <1>0, <2>1
  <2> QED
    BY <1>2, <2>1, <2>2 DEF Copy, filterVars
<1>3. ASSUME NEW p \in Products, SoftDelete(p)
      PROVE  Forgets'
  <2>1. live' \cup buried' = live \cup buried
    BY <1>3 DEF SoftDelete
  <2> QED
    BY <1>3, <2>1 DEF SoftDelete, filterVars, history
<1>4. ASSUME NEW t \in Requests, NEW p \in Products, Lookup(t, p)
      PROVE  Forgets'
  BY <1>4, TasksAssumption DEF Lookup, Goto, dbVars, history, TypeOK
<1>5. ASSUME NEW t \in Requests, ServedElsewhere(t) \/ Query(t) \/ MarkFalsePositive(t)
      PROVE  Forgets'
  BY <1>5, TasksAssumption
     DEF ServedElsewhere, Query, MarkFalsePositive, Goto, filterVars, dbVars, history, TypeOK
<1>6. ASSUME NEW t \in Requests, AddFound(t)
      PROVE  Forgets'
  <2>1. straddling = {} => BitsOfAll({wants[t]}) \subseteq BitsOfAll(live \cup buried)
    BY <1>6 DEF AddFound, Goto, BitsOfAll
  <2>2. bits' \subseteq bits \cup BitsOfAll({wants[t]})
    BY <1>6 DEF AddFound, Add, filterVars
  <2> QED
    BY <1>6, <2>1, <2>2, TasksAssumption DEF AddFound, Goto, dbVars, history, TypeOK
<1>7. ASSUME NEW r \in Rebuilds, Reset(r)
      PROVE  Forgets'
  <2>1. bits' = {}
    BY <1>7 DEF Reset, ResetTo
  <2>2. straddling' = {} => /\ \A s \in Rebuilds : pc'[s] # "adding"
                            /\ \A t \in Requests : pc'[t] # "found"
    BY <1>7, TasksAssumption DEF Reset, ResetTo, Goto, TypeOK
  <2> QED
    BY <2>1, <2>2
<1>8. ASSUME NEW r \in Rebuilds, ResetFails(r)
      PROVE  Forgets'
  BY <1>8, TasksAssumption DEF ResetFails, Goto, dbVars, TypeOK
<1>9. ASSUME NEW r \in Rebuilds, Select(r) \/ Abort(r)
      PROVE  Forgets'
  BY <1>9, TasksAssumption DEF Select, Abort, Goto, filterVars, dbVars, history, TypeOK
<1>10. ASSUME NEW r \in Rebuilds, AddRows(r)
       PROVE  Forgets'
  <2>1. straddling = {} => BitsOfAll(rows[r]) \subseteq BitsOfAll(live \cup buried)
    BY <1>0, <1>10 DEF AddRows, Goto, TypeOK
  <2>2. bits' \subseteq bits \cup BitsOfAll(rows[r])
    BY <1>10 DEF AddRows, Add
  <2> QED
    BY <1>10, <2>1, <2>2, TasksAssumption DEF AddRows, Goto, dbVars, TypeOK
<1>11. CASE UNCHANGED vars
  BY <1>11 DEF vars, filterVars, dbVars, history
<1> QED
  BY <1>1, <1>2, <1>3, <1>4, <1>5, <1>6, <1>7, <1>8, <1>9, <1>10, <1>11 DEF Next

-----------------------------------------------------------------------------
(* What is marked was looked up *)

\* A step that marks nothing, starts nothing and counts no fewer lookups.
LEMMA MarksKept ==
    ASSUME TypeOK, TypeOK', MarksCounted, Unmarked' \subseteq Unmarked,
           enabled' = enabled, falsePositives' = falsePositives, lookups' = lookups,
           straddling' = straddling
    PROVE  MarksCounted'
<1>1. Unmarked \in SUBSET Tasks /\ Unmarked' \in SUBSET Tasks /\ straddling \in SUBSET Tasks
  BY DEF Unmarked, Tasks, TypeOK
<1>2. IsFiniteSet(Unmarked) /\ Cardinality(Unmarked) \in Nat /\ Cardinality(Unmarked') \in Nat
      /\ Cardinality(straddling) \in Nat
  BY <1>1, TasksCounted
<1>3. Cardinality(Unmarked') <= Cardinality(Unmarked)
  BY <1>2, FS_Subset
<1> QED
  BY <1>2, <1>3 DEF MarksCounted, TypeOK

\* Lookups and marks go together, however requests and resets interleave.
LEMMA MarksNext == TypeOK /\ FoundKnown /\ MarksCounted /\ [Next]_vars => MarksCounted'
<1> SUFFICES ASSUME TypeOK, FoundKnown, MarksCounted, [Next]_vars
             PROVE  MarksCounted'
  OBVIOUS
<1>0. TypeOK'
  BY TypeNext
<1>1. CASE Truncate \/ (\E chunk \in SUBSET Products : Copy(chunk)) \/ (\E p \in Products : SoftDelete(p))
  BY <1>0, <1>1, MarksKept DEF Truncate, Copy, SoftDelete, filterVars, history, Unmarked
<1>2. ASSUME NEW t \in Requests, NEW p \in Products, Lookup(t, p)
      PROVE  MarksCounted'
  <2>1. t \notin Unmarked /\ Unmarked' \subseteq Unmarked \cup {t}
    BY <1>2, TasksAssumption DEF Lookup, Goto, Unmarked, TypeOK
  <2>2. Unmarked \cup {t} \in SUBSET Tasks /\ Unmarked \in SUBSET Tasks /\ straddling \in SUBSET Tasks
    BY DEF Unmarked, Tasks, TypeOK
  <2>3. PICK more : more = Unmarked \cup {t}
    OBVIOUS
  <2>4. /\ IsFiniteSet(Unmarked) /\ IsFiniteSet(more)
        /\ Cardinality(Unmarked) \in Nat /\ Cardinality(straddling) \in Nat
    BY <2>2, <2>3, TasksCounted
  <2>5. Cardinality(more) = Cardinality(Unmarked) + 1
    BY <2>1, <2>3, <2>4, FS_AddElement
  <2>6. Cardinality(Unmarked') <= Cardinality(more) /\ Cardinality(Unmarked') \in Nat
    BY <2>1, <2>3, <2>4, FS_Subset, FS_CardinalityType
  <2>7. /\ falsePositives' = falsePositives /\ straddling' = straddling /\ enabled' = enabled
        /\ enabled => lookups' = lookups + 1
    BY <1>2 DEF Lookup, history
  <2> QED
    BY <2>4, <2>5, <2>6, <2>7 DEF MarksCounted, TypeOK
<1>3. ASSUME NEW t \in Requests, ServedElsewhere(t) \/ Query(t)
      PROVE  MarksCounted'
  <2>1. Unmarked' \subseteq Unmarked
    BY <1>3 DEF ServedElsewhere, Query, Goto, Unmarked, TypeOK
  <2> QED
    BY <1>0, <1>3, <2>1, MarksKept DEF ServedElsewhere, Query, filterVars, history
<1>4. ASSUME NEW t \in Requests, AddFound(t)
      PROVE  MarksCounted'
  <2>1. Unmarked' \subseteq Unmarked
    BY <1>4 DEF AddFound, Goto, Unmarked, TypeOK
  <2>2. lookups' = lookups /\ falsePositives' = falsePositives
    BY <1>4 DEF AddFound, Add, filterVars
  <2> QED
    BY <1>0, <1>4, <2>1, <2>2, MarksKept DEF AddFound, history
<1>5. ASSUME NEW t \in Requests, MarkFalsePositive(t)
      PROVE  MarksCounted'
  <2>1. t \in Unmarked /\ Unmarked' = Unmarked \ {t}
    BY <1>5, TasksAssumption DEF MarkFalsePositive, Goto, Unmarked, TypeOK
  <2>2. Unmarked \in SUBSET Tasks /\ straddling \in SUBSET Tasks
    BY DEF Unmarked, Tasks, TypeOK
  <2>3. PICK before : before = Unmarked
    OBVIOUS
  <2>4. IsFiniteSet(before) /\ Cardinality(before) \in Nat /\ Cardinality(straddling) \in Nat
    BY <2>2, <2>3, TasksCounted
  <2>5. Cardinality(before \ {t}) = Cardinality(before) - 1 /\ Cardinality(before \ {t}) \in Nat
    BY <2>1, <2>3, <2>4, FS_RemoveElement, FS_CardinalityType
  <2>6. /\ lookups' = lookups /\ straddling' = straddling /\ enabled' = enabled
        /\ enabled => falsePositives' = falsePositives + 1
        /\ ~enabled => falsePositives' = falsePositives
    BY <1>5 DEF MarkFalsePositive, history
  <2> QED
    BY <2>1, <2>3, <2>4, <2>5, <2>6 DEF MarksCounted, TypeOK
<1>6. ASSUME NEW r \in Rebuilds, Reset(r)
      PROVE  MarksCounted'
  <2>1. Unmarked' \subseteq straddling'
    BY <1>6, TasksAssumption DEF Reset, ResetTo, Goto, Unmarked, TypeOK
  <2>2. straddling' \in SUBSET Tasks /\ Unmarked' \in SUBSET Tasks
    BY <1>0, <2>1 DEF TypeOK, Tasks
  <2>3. Cardinality(Unmarked') <= Cardinality(straddling')
    BY <2>1, <2>2, TasksCounted, FS_Subset
  <2>4. falsePositives' = 0 /\ lookups' = 0
    BY <1>6 DEF Reset, ResetTo
  <2>5. Cardinality(Unmarked') \in Nat /\ Cardinality(straddling') \in Nat
    BY <2>2, TasksCounted
  <2> QED
    BY <2>3, <2>4, <2>5 DEF MarksCounted
<1>7. ASSUME NEW r \in Rebuilds, ResetFails(r) \/ Select(r) \/ Abort(r)
      PROVE  MarksCounted'
  <2>1. Unmarked' \subseteq Unmarked
    BY <1>7, TasksAssumption DEF ResetFails, Select, Abort, Goto, Unmarked, TypeOK
  <2> QED
    BY <1>0, <1>7, <2>1, MarksKept DEF ResetFails, Select, Abort, filterVars, history
<1>8. ASSUME NEW r \in Rebuilds, AddRows(r)
      PROVE  MarksCounted'
  <2>1. Unmarked' \subseteq Unmarked
    BY <1>8, TasksAssumption DEF AddRows, Goto, Unmarked, TypeOK
  <2> QED
    BY <1>0, <1>8, <2>1, MarksKept DEF AddRows, Add
<1>9. CASE UNCHANGED vars
  BY <1>0, <1>9, MarksKept DEF vars, filterVars, history, Unmarked
<1> QED
  BY <1>1, <1>2, <1>3, <1>4, <1>5, <1>6, <1>7, <1>8, <1>9 DEF Next

-----------------------------------------------------------------------------
(* What holds in every reachable state *)

\* It holds whatever requests, rebuilds, failures and writes interleave.
THEOREM Invariant == Spec => []IInv
<1>1. IInv /\ [Next]_vars => IInv'
  BY TypeNext, CoversNext, CountsNext, ForgetsNext, MarksNext DEF IInv
<1> QED
  BY <1>1, InitHolds, PTL DEF Spec

\* Types, for every catalogue and every number of tasks.
THEOREM TypeCorrect == Spec => []TypeOK
<1>1. IInv => TypeOK
  BY DEF IInv
<1> QED
  BY <1>1, Invariant, PTL

\* A live product that some build has read is never rejected once the rebuild
\* that reset the filter last is over.
THEOREM NeverRejectsLive == Spec => []NoFalseNegatives
<1>1. IInv => NoFalseNegatives
  BY DEF IInv, Covers
<1> QED
  BY <1>1, Invariant, PTL

\* Nor is it left out of the saturation gauge.
THEOREM GaugeCovers == Spec => []SaturationCovers
<1>1. IInv => SaturationCovers
  BY DEF IInv, Counts
<1> QED
  BY <1>1, Invariant, PTL

\* A rebuild that nobody straddles forgets what was deleted before it.
THEOREM DeadForgotten == Spec => []RebuildForgets
<1>1. IInv => RebuildForgets
  BY DEF IInv, Forgets
<1> QED
  BY <1>1, Invariant, PTL

\* False positives outnumber lookups by the straddling requests at most.
THEOREM DriftBounded == Spec => []RateDriftBounded
<1>1. IInv => RateDriftBounded
  <2>1. ASSUME IInv
        PROVE  RateDriftBounded
    <3>1. Unmarked \in SUBSET Tasks /\ straddling \in SUBSET Tasks
      BY <2>1 DEF IInv, TypeOK, Unmarked, Tasks
    <3>2. Cardinality(Unmarked) \in Nat /\ Cardinality(straddling) \in Nat
      BY <3>1, TasksCounted
    <3> QED
      BY <2>1, <3>2 DEF IInv, TypeOK, MarksCounted, RateDriftBounded
  <2> QED
    BY <2>1
<1> QED
  BY <1>1, Invariant, PTL
===============================================================================
