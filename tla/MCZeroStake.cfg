SPECIFICATION CoinSpec
CONSTANTS
    Vals = {1}
    Stakers = {3, 4}
    GenesisVals <- MCOne
    MaxValidators = 2
    MinimalStakingCoin = 1
    minimumValidatorStaking = 2
    StakingLockPeriod = 1
    removeThreshold = 2
    decreaseRate = 2
    MAX_VALIDATORS_PER_TX = 2
    Ids = {}
    proposalLastingPeriod = 2
    Epoch = 4
    Amounts = {0, 1}
    MaxCoins = 3
    MaxNumber = 6
    Whole = 10
    validatorPartPercent = 6
    creatorPartPercent = 1
    Unit = 6
    extraRewardsPerBlock = 1
    MAX_REWARD_VALIDATORS = 2
    punishThreshold = 1
    Fees = {0, 10}
    FeeAddrs = {3}
    Gifts = {2}
    MaxFees = 32
INVARIANTS
    OnlyStakersPart
