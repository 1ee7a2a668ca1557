CHECK_DEADLOCK FALSE
CONSTANTS
    t1 = t1
    t2 = t2
    Threads = {t1, t2}
    Nobody = nobody
    Old = old
    MaxGen = 2
    Calls <- MCCalls
SPECIFICATION Spec
INVARIANTS
    TypeOK
    NobodyWaitsInVain
    ReconnectsOnlyWhenDead
PROPERTIES
    ModelOfLastAttempt
    CallsReturn
