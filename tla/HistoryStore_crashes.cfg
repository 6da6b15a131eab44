CONSTANTS
    Branches = {main, alternative}
    Main = main
    Bodies = {task, other}
    Tasks = {task}
    None = None
    Broken = Broken
    MaxLines = 3
    MaxCrashes = 2
    PowerLoss = TRUE
SPECIFICATION Spec
CHECK_DEADLOCK FALSE
INVARIANTS
    TypeOK
    HeadsResolve
    EventIdsUnique
PROPERTIES
    HeadsKept
    ImplementsLedger
