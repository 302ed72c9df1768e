SPECIFICATION Spec
CONSTANTS
    Builder = {b1, b2}
    IP = {i1}
    Network = {"production", "test"}
    ProductionNetwork = "production"
    Service = {s1, s2}
    MName = {m1}
    AttType = {"azure-tdx"}
    Secret = {x1}
    Slot = {q1, q2}
    MaxRegistrations = 3
    MaxConfigs = 2
    MaxEvents = 0
    Template <- OneTemplate
    Claim <- OneClaim
    Endpoints = {"AddBuilder", "ChangeActiveStatusForBuilder", "AddBuilderConfig", "AddMeasurement", "ChangeActiveStatusForMeasurement", "GetActiveBuilders", "RegisterCredentials", "GetActiveBuildersNoAuth"}
    Null = Null
    NoValue = NoValue
    b1 = b1
    b2 = b2
    i1 = i1
    m1 = m1
    q1 = q1
    q2 = q2
    s1 = s1
    s2 = s2
    x1 = x1
SYMMETRY Symmetry
VIEW WithoutResponse
PROPERTIES
    PeerListFaithful
    WrittenAsAttested
