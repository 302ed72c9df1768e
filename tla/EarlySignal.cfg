SPECIFICATION Spec
CONSTANTS
    Request = {q1}
    FlagSets <- CommandLines
    q1 = q1
INVARIANTS
    ShutdownNeverPanics
