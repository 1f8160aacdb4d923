SPECIFICATION MCSpec
CONSTANTS
    a = a
    b = b
    u = u
    v = v
    ftp = ftp
    t1 = t1
    main = main
    dev = dev
    c1 = c1
    c2 = c2
    c3 = c3
    f = f
    g = g
    h = h
    A = A
    B = B
    Ab = Ab
    Bad = Bad
    Un = Un
    DepOrder <- Order
    FileOrder <- Files
    Url = {u, v, ftp}
    Accepted = {u, v}
    Tag = {t1}
    Branch = {main, dev}
    Default = main
    Commit = {c1, c2, c3}
    Manifests <- MCManifests
    Starter <- Scaffolded
    Environments <- Histories
    MaxEvents = 5
    Text = {A, B, Ab, Bad, Un}
    Facts <- MCFacts
    Versions <- Anything
    Excluded = {h}
    Absent = Absent
    NoManifest = NoManifest
    Invalid = Invalid
    Torn = Torn
    Broken = Broken
    EmptyDir = EmptyDir
    Gone = Gone
CHECK_DEADLOCK FALSE
INVARIANTS
    LockDescribesClones
    VerdictIsOnOneSnapshot
    ArtifactsAreClean
    SourcesStayWhole
PROPERTIES
    InstallIsRepeatable
