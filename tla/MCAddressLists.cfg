SPECIFICATION Spec
CONSTANTS
    a = a
    b = b
    Addrs = {a, b}
    Lists <- MCLists
    Rules = {0}
    RedCoastBlock = 2
    SophonBlock = 3
    FirstNumber = 2
    Threads = {t1, t2}
    MaxNumber = 4
    MaxBlocks = 3
    MaxTxs = 2
SYMMETRY Symmetry
CONSTRAINT Few
INVARIANTS
    CacheSound
    DenialsRight
