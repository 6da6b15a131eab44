CONSTANTS
    NumTasks = 4
    Profiles <- MCProfiles
    Required = {1, 3}
    MayFail = {2, 3}
    MayDie = {1, 2, 3, 4}
SPECIFICATION Spec
INVARIANT OnlyTasksEndTheRun
