SPECIFICATION Spec
CONSTANTS
    a = a
    b = b
    R1 = R1
    R2 = R2
    cap = cap
    pack = pack
    bat = bat
    sys = sys
    out = out
    got = got
    low = low
    Sim = {a, b}
    Req = {R1, R2}
    NoSim = NoSim
    Outputs <- MCOutputs
    Name <- MCName
    Projects <- MCProjects
    Manifests <- MCManifests
    Absent = Absent
    NoValue = NoValue
    MaxName = MaxName
    Nothing = Nothing
CHECK_DEADLOCK FALSE
INVARIANTS
    CleanVerdictsIgnoreDrift
    FooterAccountsForTable
    ThresholdsAreOwnOrFirst
    DecidedOnMappedData
