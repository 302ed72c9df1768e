SPECIFICATION FairSpec
CONSTANTS
    Request = {q1, q2}
    FlagSets <- CommandLines
    q1 = q1
    q2 = q2
INVARIANTS
    TypeOK
    CutOffOnlyAtDeadline
    ClosedToNewRequests
    DrainNoticed
    TokenKept
PROPERTIES
    SignalEndsProcess
