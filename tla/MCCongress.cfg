SPECIFICATION Spec
CONSTANTS
    Address = {1, 2, 3, 4}
    Epoch = 2
    Word = 65536
    Genesis = {1, 2, 3}
    Online = {1, 2, 3}
    TopSets <- MCChange
    Salts = {0}
    MaxNumber = 3
    MaxBlocks = 5
    MaxCrashes = 1
INVARIANTS
    TypeOK
    SealedIsValid
    HeadIsHeaviest
PROPERTIES
    HeadImproves
CHECK_DEADLOCK FALSE
