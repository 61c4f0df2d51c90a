SPECIFICATION Spec
CONSTANTS
    Tasks = {t1, t2, t3, t4}
    Workers = {w1, w2}
    Keys = {k1}
    Values = {v1}
    Errors = {e1}
    None = None
    Pending = Pending
    Cancelled = Cancelled
INVARIANTS
    TypeOK
    OneLoadPerSlot
    NoPoisonedKey
    NoStrandedWaiter
    SharedOutcome
    ShieldHolds
PROPERTIES
    EveryCallEnds
    ImplementsSingleFlight
\* Every request ends: a state with all tasks done or lost has no call left.
CHECK_DEADLOCK FALSE
