CONSTANTS
    Clients = {c1, c2}
    NumOutputs = 1
    Dims = {0, 2, 3}
    Setups <- HandoverSetups
SPECIFICATION Spec
INVARIANTS
    FinishRunsOnce
PROPERTIES
    StartedFinishes
    WaitsReturn
    KeepsContract
