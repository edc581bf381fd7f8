SPECIFICATION Spec
CONSTANTS
    Address = {1, 2, 3, 4, 5}
    Epoch = 2
    Word = 65536
    Start = 0
    MaxNumber = 6
    ValidatorSets <- MCSets
INVARIANTS
    TypeOK
    RecentsMirrorChain
    SignersSpaced
    SealSound
    VerifiedApplies
    EnoughSealers
