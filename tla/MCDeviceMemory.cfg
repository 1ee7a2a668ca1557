CONSTANTS
    Memories = {m1, m2}
    Client = client
    Threads = {t1, t2}
    Buffers = {b1, b2}
    Kinds = {"compute", "copy"}
SPECIFICATION Spec
INVARIANTS
    TypeOK
    UsableWhenInitialized
    SuccessReadsGood
    TokensAreExclusive
PROPERTIES
    NoForeignWrites
    KeepsContract
SYMMETRY MemorySymmetry
