CONSTANTS
    k1 = k1
    k2 = k2
    main = main
    alternative = alternative
    report = report
    other = other
    NumConnections = 2
    Candidates = {k1, k2}
    Admitted <- MCAdmitted
    Neighbours <- MCNeighbours
    Overlaps <- MCOverlaps
    Markers = {}
    Abstain = Abstain
    NoAnswer = NoAnswer
    Unresolved = Unresolved
    NoMarker = NoMarker
    NoDecision = NoDecision
    Branches = {main, alternative}
    Main = main
    Reports = {report, other}
    NoBase = NoBase
    Settings <- MCTwoBranches
    MaxCrashes = 1
    PowerLoss = TRUE
SPECIFICATION Spec
INVARIANTS
    UnfinishedIsLast
    OneDecisionPerConnection
PROPERTY ForkCanRun
