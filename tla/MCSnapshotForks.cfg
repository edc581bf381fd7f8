SPECIFICATION Spec
CONSTANTS
    Address = {1, 2, 3}
    Epoch = 2
    Word = 65536
    Callers = {c1, c2}
    ValidatorSets <- MCSets
    checkpointInterval = 2
    FullImmutabilityThreshold = 3
    MaxReorg = 1
    MaxLimit = 2
    inmemorySnapshots = 1
    Root = 0
    MaxNumber = 3
    MaxBlocks = 4
    MaxShared = 4
INVARIANTS
    HeldSound
PROPERTIES
    Refines
