SPECIFICATION Spec
CONSTANTS
    Processes = {p1, p2}
    Keys = {k1, k2}
    Exports = {e1, e2}
    MaxOperations = 3
    MaxCrashes = 1
    None = None
INVARIANT CleanupRemovesOnlyItsOwn
CHECK_DEADLOCK FALSE
