SPECIFICATION Spec
CONSTANTS
    p1 = p1
    MaxOthers = 1
    Products = {p1}
    Bits = {1}
    BitsOf <- MCBitsOf
    Readers = {r1, r2}
    Updaters = {u1}
    Deleters = {d1}
    Rebuilders = {}
    Workers = {w1}
    Faults = {"redis", "postgres", "cancel", "crash"}
    Settings = {TRUE, FALSE}
    None = None
    Pending = Pending
    Cancelled = Cancelled
    NotFound = NotFound
    Rejected = Rejected
    DbError = DbError
    FilterError = FilterError
    Absent = Absent
    Unreadable = Unreadable
PROPERTIES
    EveryRequestEnds
    EventuallyConsistent
    ImplementsStore
CONSTRAINT FewOthers
\* Every request ends, and an empty cache has nothing to expire.
CHECK_DEADLOCK FALSE
