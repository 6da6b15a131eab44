CONSTANTS
    k1 = k1
    k2 = k2
    main = main
    alternative = alternative
    report = report
    other = other
    NumConnections = 2
    Candidates = {k1, k2}
    Admitted <- MCAdmitted
    Neighbours <- MCNeighbours
    Overlaps <- MCOverlaps
    Markers = {unknown}
    Abstain = Abstain
    NoAnswer = NoAnswer
    Unresolved = Unresolved
    NoMarker = NoMarker
    NoDecision = NoDecision
    Branches = {main}
    Main = main
    Reports = {report, other}
    NoBase = NoBase
    Settings <- MCOneBranch
    MaxCrashes = 2
    PowerLoss = FALSE
SPECIFICATION FairSpec
INVARIANTS
    TypeOK
    NoSecondCall
    DecisionsFollowAnswers
    TasksSeeEarlierDecisions
    
PROPERTIES
    ImplementsLedger
    RunEnds
