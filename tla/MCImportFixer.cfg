SPECIFICATION Spec
CONSTANTS
    f = f
    g = g
    app = app
    lib = lib
    units = units
    Mass = Mass
    Wheel = Wheel
    Typo = Typo
    Real = Real
    Kg = Kg
    Primitives = {Real}
    NoPackage = NoPackage
    MaxRuns = 2
    Target = {f, g}
    Package <- MCPackage
    Name <- MCName
    Worlds <- MCWorlds
    Headers <- MCHeaders
    Mentions <- MCMentions
    Texts <- MCTexts
CHECK_DEADLOCK FALSE
INVARIANTS
    CleanMeansResolved
PROPERTIES
    FixAddsWhatIsNeeded
    FixedFilesStayFixed
