\* One worker: three reads of one product, a write and a list, with one Postgres
\* connection and fewer Redis connections than requests.  Requests end, so the
\* system may rest.
SPECIFICATION FairSpec
CONSTANTS
    Readers = {r1, r2, r3}
    Updaters = {u1}
    Listers = {l1}
    Workers = {w1}
    Products = {p1}
    DbCeiling = 1
    RedisCeiling = 2
    None = None
    Pending = Pending
    Cancelled = Cancelled
    Loaded = Loaded
    Failed = Failed
INVARIANTS TypeOK NoHoldAndWait OneConnectionPerLoad
PROPERTY EveryRequestEnds
CHECK_DEADLOCK FALSE
