CONSTANTS
    NumTasks = 4
    Profiles <- MCProfiles
    Required = {1, 3}
    MayFail = {2, 3}
    MayDie = {1, 2, 3, 4}
SPECIFICATION FairSpec
INVARIANTS
    TypeOK
    RetriesAreAlone
    ResultsMatchFiles
PROPERTIES
    CompletedIsKept
    RunsEnd
