SPECIFICATION Spec
CONSTANTS
    Address = {1, 2, 3, 4, 5}
    Epoch = 3
    Word = 65536
    Start = 0
    MaxNumber = 5
    ValidatorSets <- MCTwo
INVARIANT AllSealSound
