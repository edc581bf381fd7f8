SPECIFICATION FairSpec
CONSTANTS
    Address = {1, 2, 3}
    Epoch = 50
    Word = 65536
    Genesis = {1, 2, 3}
    Online = {1, 3}
    TopSets <- MCFixed
    Salts = {0}
    MaxNumber = 4
    MaxBlocks = 100
    MaxCrashes = 0
PROPERTIES
    NeverStalls
CHECK_DEADLOCK FALSE
