CONSTANTS
    d1 = d1
    d2 = d2
    Dependencies = {d1, d2}
    Setups <- MCSetups
SPECIFICATION Spec
INVARIANT MemoryTellsTheOutcome
