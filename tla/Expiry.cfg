\* The settings are small, with ceilings below, at and above half a second
\* past a whole one; the clock runs past twice the longest TTL.
SPECIFICATION Spec
CONSTANTS
    Readers = {r1, r2}
    Bases = {1, 2}
    Pcts = {0, 25, 50, 100}
    MaxFlight = 1
    MaxVersion = 3
    MaxTime = 8
    Nothing = Nothing
INVARIANTS
    EntriesKeepTheirTerm
    StalenessBounded
\* The clock and the versions run out.
CHECK_DEADLOCK FALSE
