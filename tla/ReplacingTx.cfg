SPECIFICATION Spec
CONSTANTS
    Request = {r1, r2, r3, r4}
    Key = {k1, k2}
    MaxOpenConns = 3
    MaxFaults = 2
    None = None
    r1 = r1
    r2 = r2
    r3 = r3
    r4 = r4
    k1 = k1
    k2 = k2
SYMMETRY Symmetry
INVARIANTS
    TypeOK
    LatestIsActive
    SomeCallWins
    NoneStuck
PROPERTIES
    AtomicReplacement
