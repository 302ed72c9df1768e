SPECIFICATION FairSpec
CONSTANTS
    Request = {r1, r2, r3, r4}
    Key = {k1}
    MaxOpenConns = 3
    MaxFaults = 1
    None = None
    r1 = r1
    r2 = r2
    r3 = r3
    r4 = r4
    k1 = k1
\* A call that is stuck is a counterexample of EveryCallReturns.
CHECK_DEADLOCK FALSE
PROPERTIES
    EveryCallReturns
