SPECIFICATION MCSpec
CONSTANTS
    a = a
    b = b
    p = p
    q = q
    e = e
    f = f
    Sim = {a, b}
    RunOrder <- TwoOrder
    Value = {1, 2}
    Source = {p, q}
    Entry = {e}
    Tag = {1}
    Meets <- MCMeets
    Environments <- Crashes
    Seeds <- NoSeeds
    MaxEdits = 1
    MaxCommands = 3
    Unresolved = Unresolved
    Broken = Broken
    Absent = Absent
    NoKey = NoKey
CHECK_DEADLOCK FALSE
INVARIANTS
    KeyDescribesEvidence
    ManifestMatchesSnapshot
