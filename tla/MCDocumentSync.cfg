SPECIFICATION MCSpec
CONSTANTS
    f = f
    g = g
    t0 = t0
    t1 = t1
    t2 = t2
    t3 = t3
    n = n
    m = m
    units = units
    Absent = Absent
    Name = {n, m}
    Package = {units}
    Uri = {f, g}
    Workspace = {f, g}
    Text = {t0, t1, t2, t3}
    Drafts <- OwnNames
    Outline <- Outlines
    Environments <- Sessions
    MaxChanges = 5
CHECK_DEADLOCK FALSE
INVARIANTS
    TypeOK
    LastEditWins
    IndexIsCurrent
    ReachabilityIsCurrent
    
PROPERTIES
    DiagnosticsCatchUp
