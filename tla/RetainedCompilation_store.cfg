SPECIFICATION Spec
CONSTANTS
    Processes = {p1, p2}
    Route = Route
    Bundle = Bundle
    i1 = i1
    i2 = i2
    only = only
    o1 = o1
    o2 = o2
    Stages <- MCStages
    Dependencies <- MCDependencies
    Version <- MCVersion
    Outputs <- MCOutputs
    Inputs = {i1, i2}
    MaxOperations = 2
    MaxCrashes = 1
    MaxOld = 2
    None = None
SYMMETRY Symmetry
INVARIANTS TypeOK PinnedStays CompiledAsFromNothing InterruptedIsWhole
CHECK_DEADLOCK FALSE
