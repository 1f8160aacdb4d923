CONSTANTS
    f = f
    g = g
    wp = wp
    wa = wa
    wb = wb
    wc = wc
    wd = wd
    base = base
    lone = lone
    joined = joined
    moved = moved
    bad = bad
    qualified = qualified
    local = local
    kinds = kinds
    part = part
    twice = twice
    FileOrder <- Order
    Version = {base, lone, joined, moved, bad, qualified, local, kinds, part, twice}
    Versions <- MCVersions
    Facts <- MCFacts
    Nothing = Nothing
    Absent = Absent
    Torn = Torn
    MaxEvents = 4
SPECIFICATION Spec
CHECK_DEADLOCK FALSE
INVARIANTS
    ArchivesCanBeExchanged
    CleanModelsAreExported
