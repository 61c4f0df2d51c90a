\* Two reads of one product in one worker, with connections for both.
SPECIFICATION Spec
CONSTANTS
    Readers = {r1, r2}
    Updaters = {}
    Listers = {}
    Workers = {w1}
    Products = {p1}
    DbCeiling = 2
    RedisCeiling = 2
    None = None
    Pending = Pending
    Cancelled = Cancelled
    Loaded = Loaded
    Failed = Failed
INVARIANT OneQueryPerExpiry
CHECK_DEADLOCK FALSE
