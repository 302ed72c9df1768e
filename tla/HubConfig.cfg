SPECIFICATION Spec
CONSTANTS
    Builder = {b1, b2}
    IP = {i1}
    Network = {"production"}
    ProductionNetwork = "production"
    Service = {s1}
    MName = {m1}
    AttType = {"azure-tdx"}
    Secret = {x1}
    Slot = {q1, q2}
    MaxRegistrations = 0
    MaxConfigs = 2
    MaxEvents = 2
    Template <- OneTemplate
    Claim <- OneClaim
    Endpoints = {"AddBuilder", "ChangeActiveStatusForBuilder", "AddBuilderConfig", "AddMeasurement", "ChangeActiveStatusForMeasurement", "GetConfigSecrets", "SetSecrets", "GetActiveConfig", "GetFullConfig"}
    Null = Null
    NoValue = NoValue
    b1 = b1
    b2 = b2
    i1 = i1
    m1 = m1
    q1 = q1
    q2 = q2
    s1 = s1
    x1 = x1
SYMMETRY Symmetry
VIEW WithoutResponse
INVARIANTS
    TypeOK
    ActiveBuilderConfigured
    EveryReleaseLogged
PROPERTIES
    SecretsWereCurrent
    WrittenAsAttested
