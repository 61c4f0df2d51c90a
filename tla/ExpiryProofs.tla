----------------------------- MODULE ExpiryProofs -----------------------------
(***************************************************************************)
(* The terms of cache entries and the bound on staleness, for every        *)
(* setting and every bound of Expiry.  Lemmas about round() and the TTL    *)
(* come first; the bound then follows an old version from the load that    *)
(* selected it to the entry that keeps it.                                 *)
(***************************************************************************)
EXTENDS Expiry, TLAPS

\* round() is off by half a second at most.
LEMMA RoundIsNear ==
    ASSUME NEW n \in Nat
    PROVE  /\ Round(n) \in Nat
           /\ 100 * Round(n) <= n + 50 /\ n <= 100 * Round(n) + 50
BY SMT DEF Round

\* What is a whole number of seconds is kept, and round() is monotone.
LEMMA RoundOfWhole ==
    ASSUME NEW s \in Nat, NEW n \in Nat
    PROVE  /\ Round(100 * s) = s
           /\ n >= 100 * s => Round(n) >= s
BY SMT DEF Round

Ceiling == 100 * base + Jitter + 50

\* Every TTL is between the base TTL and the ceiling, rounded.
LEMMA TtlInBounds ==
    ASSUME base \in Nat \ {0}, Jitter \in Nat, NEW draw \in 0 .. Jitter
    PROVE  Ttl(draw) \in Nat /\ Ttl(draw) >= base /\ 100 * Ttl(draw) <= Ceiling
<1>1. 100 * base + draw \in Nat
  OBVIOUS
<1>2. Ttl(draw) \in Nat /\ 100 * Ttl(draw) <= 100 * base + draw + 50
  BY <1>1, RoundIsNear DEF Ttl
<1>3. Ttl(draw) >= base
  BY <1>1, RoundOfWhole DEF Ttl
<1> QED
  BY <1>2, <1>3 DEF Ceiling

\* A ceiling of less than half a second adds nothing: every entry written at
\* the same time expires at the same time, whatever uniform() draws
\* (CACHE_TTL_SECONDS=4 with 10 percent, for example).
THEOREM SmallJitterIsNone ==
    ASSUME base \in Nat \ {0}, Jitter \in Nat, Jitter < 50
    PROVE  \A draw \in 0 .. Jitter : Ttl(draw) = base
BY SMT DEF Ttl, Round

\* A ceiling of more than half a second spreads the entries.
THEOREM JitterSpreads ==
    ASSUME base \in Nat \ {0}, Jitter \in Nat, Jitter > 50
    PROVE  \E first, second \in 0 .. Jitter : Ttl(first) # Ttl(second)
<1>1. 0 \in 0 .. Jitter /\ 51 \in 0 .. Jitter
  OBVIOUS
<1>2. Ttl(0) = base
  BY SMT DEF Ttl, Round
<1>3. Ttl(51) = base + 1
  BY SMT DEF Ttl, Round
<1> QED
  BY <1>1, <1>2, <1>3

-----------------------------------------------------------------------------
\* Every variable of the module holds a value of its kind.
TypeOK ==
    /\ base \in Nat \ {0} /\ pct \in Nat /\ Jitter \in Nat
    /\ now \in Nat /\ worst \in Nat
    /\ ver \in Versions
    /\ until \in [Versions -> Nat]
    /\ cache \in [ver : Versions, since : Nat, dies : Nat] \cup {Nothing}
    /\ load \in [Readers -> [ver : Versions, since : Nat] \cup {Nothing}]

\* Version v may still be told after the moment m.
CurrentAt(v, m) == v <= ver /\ (v # ver => m <= until[v] /\ until[v] <= now)

\* A load has a version that was current when it began, MaxFlight ago or less.
LoadsRecent ==
    \A r \in Readers : load[r] # Nothing =>
        /\ load[r].since <= now /\ now <= load[r].since + MaxFlight
        /\ CurrentAt(load[r].ver, load[r].since)

\* An entry has not run out, and has a version that was current a load before
\* it was set.
EntryRecent ==
    cache # Nothing =>
        /\ cache.since <= now /\ now < cache.dies
        /\ CurrentAt(cache.ver, cache.since - MaxFlight)

IInv == TypeOK /\ LoadsRecent /\ EntryRecent /\ EntriesKeepTheirTerm /\ StalenessBounded

LEMMA InitHolds == Init => IInv
<1> SUFFICES ASSUME Init
             PROVE  IInv
  OBVIOUS
<1>1. base \in Nat \ {0} /\ pct \in Nat /\ Jitter \in Nat
  BY SettingsAssumption DEF Init, Jitter
<1>2. TypeOK
  BY <1>1, BoundsAssumption DEF Init, TypeOK, Versions
<1>3. LoadsRecent /\ EntryRecent /\ EntriesKeepTheirTerm
  BY DEF Init, LoadsRecent, EntryRecent, EntriesKeepTheirTerm
<1>4. StalenessBounded
  BY <1>1, BoundsAssumption DEF Init, StalenessBounded
<1> QED
  BY <1>2, <1>3, <1>4 DEF IInv

\* What may be told at most seconds after it was current is told in time.
LEMMA ToldInTime ==
    ASSUME TypeOK, StalenessBounded, NEW v \in Versions, Tell(v),
           UNCHANGED settings, now' = now, ver' = ver, until' = until,
           NEW m \in Int, CurrentAt(v, m), 100 * (now - m) <= 100 * (MaxFlight + base) + Jitter + 50
    PROVE  worst' \in Nat /\ StalenessBounded'
<1>1. Jitter' = Jitter
  BY DEF settings, Jitter
<1>2. CASE v = ver
  BY <1>1, <1>2, BoundsAssumption DEF TypeOK, StalenessBounded, Tell, Age, settings
<1>3. CASE v # ver
  <2>1. until[v] \in Nat /\ m <= until[v] /\ until[v] <= now
    BY <1>3 DEF TypeOK, CurrentAt
  <2>2. Age(v) = now - until[v]
    BY <1>3 DEF Age
  <2>3. Age(v) \in Nat /\ 100 * Age(v) <= 100 * (now - m)
    BY <2>1, <2>2 DEF TypeOK
  <2>4. 100 * Age(v) <= 100 * (MaxFlight + base) + Jitter + 50
    BY <2>3, BoundsAssumption DEF TypeOK
  <2>5. worst' \in Nat /\ 100 * worst' <= 100 * (MaxFlight + base) + Jitter + 50
    BY <2>3, <2>4 DEF TypeOK, Tell, StalenessBounded
  <2> QED
    BY <1>1, <2>5 DEF StalenessBounded, settings
<1> QED
  BY <1>2, <1>3

LEMMA NextKeeps == IInv /\ [Next]_vars => IInv'
<1> SUFFICES ASSUME IInv, [Next]_vars
             PROVE  IInv'
  OBVIOUS
<1> USE BoundsAssumption, NothingAssumption DEF IInv
<1>0. Jitter' = Jitter /\ base' = base /\ pct' = pct
  BY DEF Next, Hit, Overwrite, Evict, Tick, Load, Fill, vars, settings, Jitter
<1>1. CASE Hit
  <2>1. worst' \in Nat /\ StalenessBounded'
    <3>1. PICK v, m : v = cache.ver /\ m = cache.since - MaxFlight
      OBVIOUS
    <3>2. cache \in [ver : Versions, since : Nat, dies : Nat]
      BY <1>1 DEF Hit, TypeOK
    <3>3. v \in Versions /\ m \in Int /\ CurrentAt(v, m) /\ Tell(v)
      BY <1>1, <3>1, <3>2 DEF Hit, EntryRecent
    <3>4. 100 * (cache.dies - cache.since) <= 100 * base + Jitter + 50 /\ now < cache.dies
      BY <1>1 DEF Hit, EntryRecent, EntriesKeepTheirTerm
    <3>5. 100 * (now - m) <= 100 * (MaxFlight + base) + Jitter + 50
      BY <3>1, <3>2, <3>4 DEF TypeOK
    <3> QED
      BY <1>1, <3>3, <3>5, ToldInTime DEF Hit
  <2>2. TypeOK'
    BY <1>0, <1>1, <2>1 DEF Hit, TypeOK, settings
  <2>3. LoadsRecent' /\ EntryRecent' /\ EntriesKeepTheirTerm'
    BY <1>0, <1>1
       DEF Hit, LoadsRecent, EntryRecent, CurrentAt, EntriesKeepTheirTerm, settings
  <2> QED
    BY <2>1, <2>2, <2>3
<1>2. ASSUME NEW r \in Readers, Load(r)
      PROVE  IInv'
  <2>1. TypeOK'
    BY <1>0, <1>2 DEF Load, TypeOK, settings
  <2>2. LoadsRecent'
    BY <1>2 DEF Load, LoadsRecent, CurrentAt, TypeOK, Versions
  <2>3. EntryRecent' /\ EntriesKeepTheirTerm' /\ StalenessBounded'
    BY <1>0, <1>2 DEF Load, EntryRecent, CurrentAt, EntriesKeepTheirTerm, StalenessBounded
  <2> QED
    BY <2>1, <2>2, <2>3
<1>3. ASSUME NEW r \in Readers, Fill(r)
      PROVE  IInv'
  <2>0. /\ load[r] \in [ver : Versions, since : Nat]
        /\ load[r].since <= now /\ now <= load[r].since + MaxFlight
        /\ CurrentAt(load[r].ver, load[r].since)
    BY <1>3 DEF Fill, TypeOK, LoadsRecent
  <2>1. worst' \in Nat /\ StalenessBounded'
    <3>1. PICK v, m : v = load[r].ver /\ m = load[r].since
      OBVIOUS
    <3>2. v \in Versions /\ m \in Int /\ CurrentAt(v, m) /\ Tell(v)
      BY <1>3, <2>0, <3>1 DEF Fill
    <3>3. 100 * (now - m) <= 100 * (MaxFlight + base) + Jitter + 50
      BY <2>0, <3>1 DEF TypeOK
    <3> QED
      BY <1>3, <3>2, <3>3, ToldInTime DEF Fill
  <2>2. CASE UNCHANGED cache
    BY <1>0, <1>3, <2>1, <2>2
       DEF Fill, TypeOK, LoadsRecent, EntryRecent, CurrentAt, EntriesKeepTheirTerm, settings
  <2>3. ASSUME NEW draw \in 0 .. Jitter,
               cache' = [ver |-> load[r].ver, since |-> now, dies |-> now + Ttl(draw)]
        PROVE  IInv'
    <3>1. Ttl(draw) \in Nat /\ Ttl(draw) >= base /\ 100 * Ttl(draw) <= 100 * base + Jitter + 50
      BY TtlInBounds DEF TypeOK, Ceiling
    <3>2. TypeOK'
      BY <1>0, <1>3, <2>0, <2>1, <2>3, <3>1 DEF Fill, TypeOK, settings
    <3>3. EntryRecent'
      BY <1>3, <2>0, <2>3, <3>1 DEF Fill, EntryRecent, CurrentAt, TypeOK
    <3>4. EntriesKeepTheirTerm'
      BY <1>0, <2>3, <3>1 DEF EntriesKeepTheirTerm, TypeOK
    <3>5. LoadsRecent'
      BY <1>3 DEF Fill, LoadsRecent, CurrentAt, TypeOK
    <3> QED
      BY <2>1, <3>2, <3>3, <3>4, <3>5
  <2> QED
    BY <1>3, <2>2, <2>3 DEF Fill, Ttls
<1>4. CASE Overwrite
  <2>1. TypeOK'
    BY <1>0, <1>4 DEF Overwrite, TypeOK, Versions, settings
  <2>2. LoadsRecent'
    BY <1>4, SMTT(30) DEF Overwrite, LoadsRecent, CurrentAt, TypeOK, Versions
  <2>3. EntryRecent'
    BY <1>4 DEF Overwrite, EntryRecent, CurrentAt, TypeOK, Versions
  <2>4. EntriesKeepTheirTerm' /\ StalenessBounded'
    BY <1>0, <1>4 DEF Overwrite, EntriesKeepTheirTerm, StalenessBounded
  <2> QED
    BY <2>1, <2>2, <2>3, <2>4
<1>5. CASE Evict
  BY <1>0, <1>5
     DEF Evict, TypeOK, LoadsRecent, EntryRecent, CurrentAt, EntriesKeepTheirTerm,
         StalenessBounded, settings
<1>6. CASE Tick
  <2>1. TypeOK'
    BY <1>0, <1>6 DEF Tick, TypeOK, settings
  <2>2. LoadsRecent'
    BY <1>6 DEF Tick, LoadsRecent, CurrentAt, TypeOK
  <2>3. EntryRecent'
    BY <1>6 DEF Tick, EntryRecent, CurrentAt, TypeOK
  <2>4. EntriesKeepTheirTerm' /\ StalenessBounded'
    BY <1>0, <1>6 DEF Tick, EntriesKeepTheirTerm, StalenessBounded
  <2> QED
    BY <2>1, <2>2, <2>3, <2>4
<1>7. CASE UNCHANGED vars
  BY <1>0, <1>7
     DEF vars, settings, TypeOK, LoadsRecent, EntryRecent, CurrentAt, EntriesKeepTheirTerm,
         StalenessBounded
<1> QED
  BY <1>1, <1>2, <1>3, <1>4, <1>5, <1>6, <1>7 DEF Next

\* The inductive invariant holds whatever loads, writes and ticks interleave.
THEOREM Invariant == Spec => []IInv
BY InitHolds, NextKeeps, PTL DEF Spec

\* Every entry is kept for its base TTL, and for the ceiling and the rounding
\* at most.
THEOREM TermsKept == Spec => []EntriesKeepTheirTerm
<1>1. IInv => EntriesKeepTheirTerm
  BY DEF IInv
<1> QED
  BY <1>1, Invariant, PTL

\* No reader is told of a version that was overwritten longer ago than the
\* longest TTL and a load.
THEOREM StalenessIsBounded == Spec => []StalenessBounded
<1>1. IInv => StalenessBounded
  BY DEF IInv
<1> QED
  BY <1>1, Invariant, PTL
===============================================================================
