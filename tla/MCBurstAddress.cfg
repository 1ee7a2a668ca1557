CHECK_DEADLOCK FALSE
CONSTANTS
    m1 = m1
    m2 = m2
    b1 = b1
    b2 = b2
    a1 = a1
    k1 = k1
    Threads = {t1, t2}
    Memories = {m1, m2}
    Bursts = {b1, b2}
    Nobody = nobody
    Keys = {k1}
    key <- MCKey
    Addresses = {a1}
    address <- MCSameAddress
    MaxCalls = 3
SPECIFICATION Spec
INVARIANTS
    CachedMemoriesLive
