SPECIFICATION Spec
CONSTANTS
    p1 = p1
    p2 = p2
    Products = {p1, p2}
    Bits = {1, 2}
    BitsOf <- MCBitsOf
    Requests = {t1, t2}
    Rebuilds = {r1, r2}
    None = None
INVARIANTS
    TypeOK
    NoFalseNegatives
    SaturationCovers
    RebuildForgets
    RateDriftBounded
SYMMETRY Symmetry
\* Requests and rebuilds end, and ids run out: nothing is left to do.
CHECK_DEADLOCK FALSE
