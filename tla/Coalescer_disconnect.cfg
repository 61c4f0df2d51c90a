SPECIFICATION Spec
CONSTANTS
    Tasks = {t1, t2, t3}
    Workers = {w1}
    Keys = {k1}
    Values = {v1}
    Errors = {e1}
    None = None
    Pending = Pending
    Cancelled = Cancelled
INVARIANTS
    OnlyTheDisconnectedAreCancelled
CHECK_DEADLOCK FALSE
