SPECIFICATION Spec
CONSTANTS
    Builder = {b1, b2}
    Object = {o1, o2}
    Scalar = {list}
    Malformed = {garbage}
    NullJson = NullJson
    Empty = Empty
    OtherKey = OtherKey
    Absent = Absent
    Opaque = Opaque
    Rounded <- InFloat64
    LargeNumber = o2
    Call = {c1, c2, c3}
    MaxFaults = 1
    b1 = b1
    b2 = b2
    o1 = o1
    o2 = o2
    list = list
    garbage = garbage
    c1 = c1
    c2 = c2
    c3 = c3
SYMMETRY Symmetry
INVARIANTS
    TypeOK
    SomeSetWins
PROPERTIES
    OtherKeysKept
    AtomicSecrets
