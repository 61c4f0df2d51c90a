\* Two requests and a probe, whose ids may be the client's and equal.
SPECIFICATION Spec
CONSTANTS
    Requests = {t1, t2}
    Probes = {h1}
    ClientIds = {c1}
    NoId = NoId
INVARIANTS
    CorrelatedWithin
    OneOutcomeRecord
    HonestReadiness
\* Stores go on failing and coming back: nothing deadlocks.
