SPECIFICATION Spec
CONSTANTS
    Vals = {1, 2}
    Stakers = {3, 4}
    GenesisVals <- MCGenesis
    MaxValidators = 2
    MinimalStakingCoin = 1
    minimumValidatorStaking = 2
    StakingLockPeriod = 1
    removeThreshold = 2
    decreaseRate = 2
    MAX_VALIDATORS_PER_TX = 2
    Ids = {1}
    proposalLastingPeriod = 2
    Epoch = 4
    Amounts = {0, 1}
    MaxCoins = 2
    MaxNumber = 6
INVARIANTS
    StakersDistinct
