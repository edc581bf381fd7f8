SPECIFICATION Spec
CONSTANTS
    Address = {1, 2}
    Epoch = 2
    Word = 65536
    Callers = {c1, c2}
    ValidatorSets <- MCGrow
    checkpointInterval = 2
    FullImmutabilityThreshold = 3
    MaxReorg = 1
    MaxLimit = 2
    inmemorySnapshots = 1
    Root = 0
    MaxNumber = 6
    MaxBlocks = 8
    MaxShared = 4
SYMMETRY Symmetry
CONSTRAINT Narrow
INVARIANTS
    HeldSound
PROPERTIES
    Refines
