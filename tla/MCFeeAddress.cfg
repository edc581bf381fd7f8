SPECIFICATION CoinSpec
CONSTANTS
    Vals = {1, 2, 3}
    Stakers = {3}
    GenesisVals <- MCGenesis
    MaxValidators = 2
    MinimalStakingCoin = 1
    minimumValidatorStaking = 2
    StakingLockPeriod = 1
    removeThreshold = 2
    decreaseRate = 2
    MAX_VALIDATORS_PER_TX = 2
    Ids = {}
    proposalLastingPeriod = 2
    Epoch = 4
    Amounts = {1, 2}
    MaxCoins = 3
    MaxNumber = 5
    Whole = 10
    validatorPartPercent = 6
    creatorPartPercent = 1
    Unit = 6
    extraRewardsPerBlock = 1
    MAX_REWARD_VALIDATORS = 3
    punishThreshold = 1
    Fees = {10}
    FeeAddrs = {3}
    Gifts = {}
    MaxFees = 30
INVARIANTS
    ProfitsWithdrawable
