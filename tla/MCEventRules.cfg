SPECIFICATION Spec
CONSTANTS
    a = a
    b = b
    Addrs = {b}
    Lists <- MCNobody
    Rules = {0, 1}
    RedCoastBlock = 2
    SophonBlock = 3
    FirstNumber = 3
    Threads = {t1}
    MaxNumber = 5
    MaxBlocks = 4
    MaxTxs = 1
INVARIANTS
    CacheSound
