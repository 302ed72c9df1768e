SPECIFICATION FairSpec
CONSTANTS
    Builder = {b1, b2}
    IP = {i1, i2}
    Network = {"production"}
    ProductionNetwork = "production"
    Service = {s1}
    MName = {m1}
    AttType = {"azure-tdx", "dcap-tdx"}
    Secret = {x1}
    Slot = {q1}
    MaxRegistrations = 0
    MaxConfigs = 2
    MaxEvents = 0
    Template <- ManyTemplates
    Claim <- ManyClaims
    Endpoints = {"AddBuilder", "ChangeActiveStatusForBuilder", "AddBuilderConfig", "AddMeasurement", "ChangeActiveStatusForMeasurement", "GetActiveBuilders", "GetAllowedMeasurements"}
    Null = Null
    NoValue = NoValue
    b1 = b1
    b2 = b2
    i1 = i1
    i2 = i2
    m1 = m1
    q1 = q1
    s1 = s1
    x1 = x1
PROPERTIES
    AuthorisedDuringRequest
    RevokedOnlyDrains
    RevocationTakesEffect
