CONSTANTS
    Processes = {p1, p2}
    Branches = {main, alternative}
    Main = main
    Candidates = {k1}
    MaxDecisions = 1
    MaxExplicit = 1
    MaxOperations = 2
    MaxCrashes = 1
    None = None
SPECIFICATION FairSpec
CHECK_DEADLOCK FALSE
INVARIANTS
    TypeOK
    HeadsResolve
    ReplayReproduces
    AskedIsRecorded
PROPERTIES
    ImplementsLedger
    OperationsEnd
