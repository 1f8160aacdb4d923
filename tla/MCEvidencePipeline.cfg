SPECIFICATION MCSpec
CONSTANTS
    a = a
    b = b
    p = p
    q = q
    e = e
    f = f
    Sim = {a}
    RunOrder <- OneOrder
    Value = {1, 2}
    Source = {p, q}
    Entry = {e, f}
    Tag = {1}
    Meets <- MCMeets
    Environments <- Histories
    Seeds <- FixtureSeeds
    MaxEdits = 3
    MaxCommands = 3
    Unresolved = Unresolved
    Broken = Broken
    Absent = Absent
    NoKey = NoKey
CHECK_DEADLOCK FALSE
PROPERTIES
    FreshSkipIsCurrent
    RefreshFailsClosed
    CommandsReturn
