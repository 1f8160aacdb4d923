SPECIFICATION MCSpec
CONSTANTS
    main = main
    idx = idx
    part = part
    dep = dep
    noParse = noParse
    m = m
    reqs = reqs
    req = req
    sys = sys
    lib = lib
    NoParse = noParse
    File <- MCFile
    Outcome <- MCOutcome
    Segment <- MCSegment
    AliasDir <- MCAliasDir
    Dealx <- MCDealx
INVARIANTS
    TypeOK
    WalkInv
    NothingSilentlyDropped
    AnalyzedFilesAreLinked
    AliasedImportsLoad
PROPERTIES
    ImplementsPlan
    LoaderReturns
