SPECIFICATION CoinSpec
CONSTANTS
    Vals = {1, 2}
    Stakers = {3}
    GenesisVals <- MCGenesis
    MaxValidators = 2
    MinimalStakingCoin = 1
    minimumValidatorStaking = 2
    StakingLockPeriod = 1
    removeThreshold = 2
    decreaseRate = 2
    MAX_VALIDATORS_PER_TX = 2
    Ids = {1}
    proposalLastingPeriod = 2
    Epoch = 4
    Amounts = {0, 1}
    MaxCoins = 1
    MaxNumber = 5
    Whole = 10
    validatorPartPercent = 6
    creatorPartPercent = 1
    Unit = 6
    extraRewardsPerBlock = 1
    MAX_REWARD_VALIDATORS = 3
    punishThreshold = 1
    Fees = {0, 10}
    FeeAddrs = {}
    Gifts = {}
    MaxFees = 20
INVARIANTS
    Solvent
PROPERTIES
    JailedEarnsNothing
