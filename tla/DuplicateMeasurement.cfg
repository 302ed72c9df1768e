SPECIFICATION Spec
CONSTANTS
    Builder = {b1}
    IP = {i1}
    Network = {"production"}
    ProductionNetwork = "production"
    Service = {s1}
    MName = {m1}
    AttType = {"azure-tdx", "dcap-tdx"}
    Secret = {x1}
    Slot = {q1}
    MaxRegistrations = 0
    MaxConfigs = 2
    MaxEvents = 0
    Template <- OneTemplate
    Claim <- OneClaim
    Endpoints = {"AddMeasurement", "ChangeActiveStatusForMeasurement"}
    Null = Null
    NoValue = NoValue
    b1 = b1
    i1 = i1
    m1 = m1
    q1 = q1
    s1 = s1
    x1 = x1
INVARIANTS
    UniquePerNameAndType
