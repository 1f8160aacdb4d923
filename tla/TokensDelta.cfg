SPECIFICATION MCSpec
CONSTANTS
    f = f
    g = g
    t0 = t0
    t1 = t1
    t2 = t2
    t3 = t3
    n = n
    m = m
    k = k
    j = j
    Absent = Absent
    Name = {n, m, k, j}
    NewName <- MCNewName
    InFull = {m}
    Alike <- MCAlike
    Rank <- MCRank
    Package = {}
    Uri = {f, g}
    Workspace = {f, g}
    Text = {t0, t1, t2, t3}
    Drafts <- MCDrafts
    Outline <- MCOutline
    Source <- MCSource
    Nodes <- MCNodes
    Formatted <- MCFormatted
    Environments <- Calmly
    Menus <- TokensOnly
    MaxChanges = 3
CHECK_DEADLOCK FALSE
INVARIANT DeltaReplacesAll
