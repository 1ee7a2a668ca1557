CONSTANTS
    Clients = {c1, c2}
    NumOutputs = 2
    Dims = {0, 2, 3}
    Setups <- MCSetups
SPECIFICATION Spec
INVARIANTS
    TypeOK
    NoUseAfterFree
    SuccessMeansComputed
    ClientLearnsTheTruth
    MemoryDimsAgree
    JoinedBeforeReturn
    ShapesAreOfTheResults
PROPERTIES
    AnswersAreFinal
SYMMETRY ClientSymmetry
