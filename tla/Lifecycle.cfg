\* Two workers, either of which may be the other's replacement.  The system may
\* rest when both were used.
SPECIFICATION Spec
CONSTANTS
    Procs = {p1, p2}
    WorkerCount = 2
    Settings = {TRUE, FALSE}
    MaxBusy = 2
    MaxCount = 3
INVARIANTS TypeOK RequestsAreEquipped ReverseTeardown FilesAreCleanedUp GaugesOfTheLiving
PROPERTIES ScrapesNeverDecrease RecycledWorkersEnd
CHECK_DEADLOCK FALSE
