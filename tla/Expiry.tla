-------------------------------- MODULE Expiry --------------------------------
(***************************************************************************)
(* How long Redis keeps a product, and how old what readers are told can   *)
(* be when invalidation does not help: the TTL with jitter of              *)
(* ProductCacheRepository (src/repository/product_cache.py) from the two   *)
(* settings it is computed from (src/common/settings.py), with a clock.    *)
(* One key, as keys do not affect each other.                              *)
(***************************************************************************)
EXTENDS Integers

CONSTANTS
    Readers,    \* GET requests, each used again after its answer
    Bases,      \* values of cache_ttl_seconds to consider
    Pcts,       \* values of cache_ttl_jitter_pct
    MaxFlight,  \* bound: seconds from the SELECT of a load to its SET
    MaxVersion, \* bound on the versions of the row
    MaxTime,    \* bound on the clock
    Nothing     \* no entry; no load

\* settings.py:49-50
ASSUME SettingsAssumption == Bases \subseteq Nat \ {0} /\ Pcts \subseteq 0 .. 100

ASSUME BoundsAssumption == {MaxFlight, MaxTime} \subseteq Nat /\ MaxVersion \in Nat \ {0}

ASSUME NothingAssumption ==
    /\ Nothing \notin [ver : 1 .. MaxVersion, since : Nat]
    /\ Nothing \notin [ver : 1 .. MaxVersion, since : Nat, dies : Nat]

VARIABLES
    base, pct, \* the settings
    now,       \* seconds since the start
    ver,       \* Postgres: the version of the row
    until,     \* history: version -> when it was overwritten
    cache,     \* Redis: [ver, since, dies] or Nothing
    load,      \* reader -> [ver, since] of the row it has selected, or Nothing
    worst      \* history: the longest time that a version a reader was told had been
               \* overwritten for

settings == <<base, pct>>
vars == <<settings, now, ver, until, cache, load, worst>>

Versions == 1 .. MaxVersion

Init ==
    /\ base \in Bases
    /\ pct \in Pcts
    /\ now = 0
    /\ ver = 1
    /\ until = [v \in Versions |-> 0]
    /\ cache = Nothing
    /\ load = [r \in Readers |-> Nothing]
    /\ worst = 0

-----------------------------------------------------------------------------
(* _ttl_with_jitter(), in hundredths of a second *)

\* cache_ttl_jitter_seconds: the most that may be added.
Jitter == base * pct

\* round(): to the nearest second, a tie to the even one.
Round(n) ==
    LET q == n \div 100  r == n % 100
    IN  IF r < 50 \/ (r = 50 /\ q % 2 = 0) THEN q ELSE q + 1

\* Mutant of Ttl: jitter is subtracted.
TtlSubtracts(draw) == Round(100 * base - draw)

\* The TTL of an entry, for what uniform() has drawn.
Ttl(draw) == Round(100 * base + draw)

\* The TTLs an entry may get.
Ttls == {Ttl(draw) : draw \in 0 .. Jitter}

-----------------------------------------------------------------------------
\* How long version v has been overwritten for.
Age(v) == IF v = ver THEN 0 ELSE now - until[v]

Tell(v) == worst' = IF Age(v) > worst THEN Age(v) ELSE worst

\* Mutant of Hit: the TTL starts anew with every hit.
HitRenews ==
    /\ cache # Nothing
    /\ Tell(cache.ver)
    /\ cache' = [cache EXCEPT !.dies = now + Ttl(0)]
    /\ UNCHANGED <<settings, now, ver, until, load>>

\* GET finds the entry.
Hit ==
    /\ cache # Nothing
    /\ Tell(cache.ver)
    /\ UNCHANGED <<settings, now, ver, until, cache, load>>

\* GET finds nothing, or fails: the row is selected.
Load(r) ==
    /\ load[r] = Nothing
    /\ load' = [load EXCEPT ![r] = [ver |-> ver, since |-> now]]
    /\ UNCHANGED <<settings, now, ver, until, cache, worst>>

\* SET with its TTL, or a failure that is ignored; the reader is answered.
Fill(r) ==
    /\ load[r] # Nothing
    /\ \/ \E ttl \in Ttls :
            cache' = [ver |-> load[r].ver, since |-> now, dies |-> now + ttl]
       \/ UNCHANGED cache
    /\ Tell(load[r].ver)
    /\ load' = [load EXCEPT ![r] = Nothing]
    /\ UNCHANGED <<settings, now, ver, until>>

\* A write commits; until its DEL, or for want of it, the entry stays.
Overwrite ==
    /\ ver < MaxVersion
    /\ ver' = ver + 1
    /\ until' = [until EXCEPT ![ver] = now]
    /\ UNCHANGED <<settings, now, cache, load, worst>>

\* DEL: the one after a write, or one that was late.
Evict ==
    /\ cache # Nothing
    /\ cache' = Nothing
    /\ UNCHANGED <<settings, now, ver, until, load, worst>>

\* A second passes; no load takes more than MaxFlight of them.  Redis answers
\* no GET with an entry whose time has come.
Tick ==
    /\ now < MaxTime
    /\ \A r \in Readers : load[r] # Nothing => now < load[r].since + MaxFlight
    /\ now' = now + 1
    /\ cache' = IF cache # Nothing /\ cache.dies <= now' THEN Nothing ELSE cache
    /\ UNCHANGED <<settings, ver, until, load, worst>>

Next ==
    \/ Hit \/ Overwrite \/ Evict \/ Tick
    \/ \E r \in Readers : Load(r) \/ Fill(r)

Spec == Init /\ [][Next]_vars

-----------------------------------------------------------------------------
\* Every entry is kept for its base TTL at least, "never subtracted" as
\* _ttl_with_jitter() says, and for the documented ceiling (settings.py:98) at
\* most, but for the half second that round() may add to it.
EntriesKeepTheirTerm ==
    cache # Nothing =>
        LET term == cache.dies - cache.since
        IN  term >= base /\ 100 * term <= 100 * base + Jitter + 50

\* Whatever invalidation misses, no reader is told of a version that was
\* overwritten longer ago than the longest TTL and a load ago: neither hits nor
\* late fills keep an old version alive.
StalenessBounded == 100 * worst <= 100 * (MaxFlight + base) + Jitter + 50
===============================================================================
