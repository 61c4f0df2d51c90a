SPECIFICATION Spec
CONSTANTS
    p1 = p1
    MaxOthers = 2
    Products = {p1}
    Bits = {1}
    BitsOf <- MCBitsOf
    Readers = {r1, r2}
    Updaters = {u1}
    Deleters = {d1}
    Rebuilders = {b1, b2}
    Workers = {w1, w2}
    Faults = {"redis", "postgres", "rebuild"}
    Settings = {TRUE}
    None = None
    Pending = Pending
    Cancelled = Cancelled
    NotFound = NotFound
    Rejected = Rejected
    DbError = DbError
    FilterError = FilterError
    Absent = Absent
    Unreadable = Unreadable
INVARIANTS
    TypeOK
    StaleEntryHasCause
    FreshUnlessRaced
    OneLoadPerWorker
    FilterCoversLive
    FailOpen
SYMMETRY Symmetry
CONSTRAINT FewOthers
\* Every request ends, and an empty cache has nothing to expire.
CHECK_DEADLOCK FALSE
