------------------------------ MODULE Rewards ------------------------------
(***************************************************************************)
(* The coins of the Validators contract.  Every operation of               *)
(* SystemContracts is taken with what it pays, and the operations that     *)
(* only move coins are added.  Finalize deposits the fees of its block by  *)
(* distributeBlockReward: the validators' part is added to hbIncoming, the *)
(* stakers' part raises reflectionPercentSum, a sum per staked coin from   *)
(* which a staker is later paid for the time since its stakeTime.          *)
(*                                                                         *)
(* Block times grow with every block, so the number stands for the time.   *)
(* Which validator is the last of the active list decides only who is      *)
(* given the rest of a division, and is any.                               *)
(***************************************************************************)
EXTENDS SystemContracts

CONSTANTS
    Whole,                   \* 100% of a fee
    validatorPartPercent,
    creatorPartPercent,
    Unit,                    \* scale of reflectionPercentSum
    extraRewardsPerBlock,
    MAX_REWARD_VALIDATORS,
    punishThreshold,         \* missed blocks that cost a validator its income
    Fees,                    \* what the transactions of a block may pay
    FeeAddrs,                \* accounts a validator may name as its fee address
    Gifts,                   \* values sent to the contract without a call
    MaxFees                  \* bound: fees, gifts and stray values of a run

ASSUME RewardsAssumption ==
    /\ Whole \in Nat \ {0} /\ Unit \in Nat \ {0}
    /\ validatorPartPercent \in Nat /\ creatorPartPercent \in Nat
    /\ validatorPartPercent + creatorPartPercent <= Whole
    /\ extraRewardsPerBlock \in Nat
    /\ MAX_REWARD_VALIDATORS \in Nat
    /\ punishThreshold \in Nat \ {0}
    /\ 0 \notin Vals      \* address(0)
    /\ Fees \subseteq Nat /\ Gifts \subseteq Nat \ {0}

VARIABLES
    balance,               \* coins of the contract's account
    feeAddr,               \* validator -> account that may withdraw its profits
    hbIncoming,            \* validator -> profits not yet withdrawn
    stakeTime,             \* staker -> validator -> time it is paid up to
    lastRewardTime,        \* validator -> time of its last block
    reflectionPercentSum,  \* validator -> time -> paid per staked coin so far
    rewardFund,
    sent,                  \* bound: fees and gifts so far
    pool,                  \* history: stakers' parts not yet paid to stakers
    kept,                  \* history: fees left in the account of their miner
    backdated              \* history: credited for the time before a stake, in units

coinVars == <<balance, feeAddr, hbIncoming, stakeTime, lastRewardTime,
              reflectionPercentSum, rewardFund, sent, pool, kept, backdated>>

allVars == <<vars, coinVars>>

\* A fee address that has never staked has no stakeTime.
TimeOf(s, v) == IF s \in Stakers THEN stakeTime[s][v] ELSE 0

-----------------------------------------------------------------------------
(* Rewards of stakers *)

validPercent(s, v) == reflectionPercentSum[v][lastRewardTime[v]]
                         - reflectionPercentSum[v][stakeTime[s][v]]

viewStakeReward(s, v) == (staked[s][v].coins * validPercent(s, v)) \div Unit

\* The new stakeTime of a staker that is paid.
PaidUpTo(s, v) ==
    IF validPercent(s, v) > 0 THEN lastRewardTime[v] ELSE stakeTime[s][v]

\* withdrawStakingReward in a call that has moved the balance to before.
Pays(s, v, before) ==
    /\ stakeTime[s][v] > 0
    /\ before >= viewStakeReward(s, v)
    /\ balance' = before - viewStakeReward(s, v)
    /\ pool' = pool - viewStakeReward(s, v)

\* Mutant: a staker is paid from the first block of its validator on.
StakeTimeEver(v) == 1

\* The time from which a new staker is paid.
FirstStakeTime(v) == IF lastRewardTime[v] = 0 THEN number ELSE lastRewardTime[v]

\* What a new stake is credited with at once: a staker with an index and no coins,
\* after a stake of zero, keeps its stakeTime.
EarnedBefore(s, v, amount) ==
    IF stakeTime[s][v] > 0 THEN amount * validPercent(s, v) ELSE 0

\* The part of stake about rewards.
StakeReward(s, v, amount) ==
    LET info == staked[s][v]
    IN  IF info.coins = 0
        THEN /\ balance' = balance + amount
             /\ IF info.index = 0
                THEN /\ lastRewardTime' = [lastRewardTime EXCEPT
                                              ![v] = IF @ = 0 THEN number ELSE @]
                     /\ stakeTime' = [stakeTime EXCEPT ![s][v] = FirstStakeTime(v)]
                     /\ UNCHANGED backdated
                ELSE /\ UNCHANGED <<lastRewardTime, stakeTime>>
                     /\ backdated' = backdated + EarnedBefore(s, v, amount)
             /\ UNCHANGED pool
        ELSE /\ Pays(s, v, balance + amount)
             /\ stakeTime' = [stakeTime EXCEPT ![s][v] = PaidUpTo(s, v)]
             /\ UNCHANGED <<lastRewardTime, backdated>>

-----------------------------------------------------------------------------
(* Profits of validators *)

\* Mutant: jailed validators are counted too.
EligibleAll(state, except) == {v \in currentValidatorSet : v # except}

Eligible(state, except) ==
    {v \in currentValidatorSet : state[v] # "Jailed" /\ v # except}

TotalCoins(S) == SumFunctionOnSet(coins, S)

Share(S, total, v) == IF TotalCoins(S) = 0
                      THEN total \div Cardinality(S)
                      ELSE (total * coins[v]) \div TotalCoins(S)

OthersShare(S, total, v) ==
    SumFunction([w \in S \ {v} |-> Share(S, total, w)])

\* The incomes after total is shared out among S; last, one of them, takes the
\* rest.  Without any of them nobody is given anything.
addProfitsToActiveValidatorsByStakePercentExcept(income, S, total, last) ==
    [v \in Vals |->
        IF v \notin S THEN income[v]
        ELSE IF v # last THEN income[v] + Share(S, total, v)
        ELSE income[v] + (total - OthersShare(S, total, v))]

\* Mutant: the punished validator keeps what the others are given.
RemoveIncomingKeeps(v, last) ==
    IF Cardinality(currentValidatorSet) <= 1 THEN hbIncoming
    ELSE addProfitsToActiveValidatorsByStakePercentExcept(
            hbIncoming, Eligible(status, v), hbIncoming[v], last)

\* The income of a punished validator goes to the others.
tryRemoveValidatorIncoming(v, last) ==
    LET shared == addProfitsToActiveValidatorsByStakePercentExcept(
                     hbIncoming, Eligible(status, v), hbIncoming[v], last)
    IN  IF Cardinality(currentValidatorSet) <= 1 THEN hbIncoming
        ELSE [shared EXCEPT ![v] = 0]

\* This miss is one that costs v its income.
takesIncome(v) == \/ shouldRemove(punishment, v)
                  \/ (punishment.records[v].missed + 1) % punishThreshold = 0

\* Mutant: the extra reward is given out again and again.
FundUntouched(extra) == rewardFund

FundLeft(extra) == rewardFund - extra

\* distributeBlockReward with a fee, called by the miner after the punishment
\* has left the incomes at income and the validators in status'.
distributeBlockReward(miner, fee, income, last) ==
    LET part   == (fee * validatorPartPercent) \div Whole
        owner  == (fee * creatorPartPercent) \div Whole
        rest   == fee - part - owner
        extra  == IF /\ rewardFund >= extraRewardsPerBlock
                     /\ balance + fee - owner > extraRewardsPerBlock
                  THEN extraRewardsPerBlock ELSE 0
        total  == part + extra + (IF coins[miner] > 0 THEN 0 ELSE rest)
        hold   == reflectionPercentSum[miner][lastRewardTime[miner]]
    IN  /\ balance' = balance + fee - owner
        /\ lastRewardTime' = [lastRewardTime EXCEPT ![miner] = number]
        /\ reflectionPercentSum' = [reflectionPercentSum EXCEPT ![miner][number] =
              IF coins[miner] > 0 THEN hold + (rest * Unit) \div coins[miner]
                                  ELSE hold]
        /\ pool' = pool + (IF coins[miner] > 0 THEN rest ELSE 0)
        /\ rewardFund' = FundLeft(extra)
        /\ hbIncoming' = addProfitsToActiveValidatorsByStakePercentExcept(
                            income, Eligible(status', 0), total, last)

\* trySendBlockReward: the fee is moved to the miner first; if the call
\* reverts, the error is logged and the fee stays there.
trySendBlockReward(miner, fee, income, last) ==
    IF fee > 0 /\ Cardinality(currentValidatorSet) <= MAX_REWARD_VALIDATORS
    THEN /\ distributeBlockReward(miner, fee, income, last)
         /\ UNCHANGED kept
    ELSE /\ kept' = kept + fee
         /\ hbIncoming' = income
         /\ UNCHANGED <<balance, lastRewardTime, reflectionPercentSum, pool,
                        rewardFund>>

-----------------------------------------------------------------------------
(* The operations of SystemContracts with their coins *)

CoinInit ==
    /\ Init
    /\ balance = 0
    /\ feeAddr = [v \in Vals |-> v]
    /\ hbIncoming = [v \in Vals |-> 0]
    /\ stakeTime = [s \in Stakers |-> [v \in Vals |-> 0]]
    /\ lastRewardTime = [v \in Vals |-> IF v \in Range(GenesisVals) THEN 1 ELSE 0]
    /\ reflectionPercentSum = [v \in Vals |-> [t \in 0 .. MaxNumber |-> 0]]
    /\ rewardFund = 0
    /\ sent = 0 /\ pool = 0 /\ kept = 0 /\ backdated = 0

CoinStake(s, v, amount) ==
    /\ Stake(s, v, amount)
    /\ StakeReward(s, v, amount)
    /\ UNCHANGED <<feeAddr, hbIncoming, reflectionPercentSum, rewardFund, sent, kept>>

CoinCreateValidator(v, fee, amount) ==
    /\ CreateValidator(v, amount)
    /\ StakeReward(v, v, amount)
    /\ feeAddr' = [feeAddr EXCEPT ![v] = fee]
    /\ UNCHANGED <<hbIncoming, reflectionPercentSum, rewardFund, sent, kept>>

\* createOrEditValidator of an existing validator: with a value it returns
\* FALSE, and the contract keeps the value.
EditValidator(v, fee, value) ==
    /\ status[v] # "NotExist"
    /\ sent + value <= MaxFees
    /\ sent' = sent + value
    /\ balance' = balance + value
    /\ feeAddr' = IF value > 0 THEN feeAddr ELSE [feeAddr EXCEPT ![v] = fee]
    /\ UNCHANGED <<vars, hbIncoming, stakeTime, lastRewardTime,
                   reflectionPercentSum, rewardFund, pool, kept, backdated>>

CoinUnstake(s, v) ==
    /\ Unstake(s, v)
    /\ Pays(s, v, balance)
    /\ stakeTime' = [stakeTime EXCEPT ![s][v] = 0]
    /\ UNCHANGED <<feeAddr, hbIncoming, lastRewardTime, reflectionPercentSum,
                   rewardFund, sent, kept, backdated>>

CoinWithdrawStaking(s, v) ==
    /\ WithdrawStaking(s, v)
    /\ balance >= staked[s][v].coins
    /\ balance' = balance - staked[s][v].coins
    /\ UNCHANGED <<feeAddr, hbIncoming, stakeTime, lastRewardTime,
                   reflectionPercentSum, rewardFund, sent, pool, kept,
                   backdated>>

withdrawStakingReward(s, v) ==
    /\ Pays(s, v, balance)
    /\ stakeTime' = [stakeTime EXCEPT ![s][v] = PaidUpTo(s, v)]
    /\ UNCHANGED <<vars, feeAddr, hbIncoming, lastRewardTime,
                   reflectionPercentSum, rewardFund, sent, kept, backdated>>

\* feeAddr is paid the profits, then what it has earned as a staker.
withdrawProfits(v) ==
    LET s == feeAddr[v]
    IN  /\ status[v] # "NotExist"
        /\ hbIncoming[v] > 0
        /\ s \in Stakers
        /\ balance >= hbIncoming[v]
        /\ Pays(s, v, balance - hbIncoming[v])
        /\ hbIncoming' = [hbIncoming EXCEPT ![v] = 0]
        /\ stakeTime' = [stakeTime EXCEPT ![s][v] = PaidUpTo(s, v)]
        /\ UNCHANGED <<vars, feeAddr, lastRewardTime, reflectionPercentSum,
                       rewardFund, sent, kept, backdated>>

\* receive
Receive(value) ==
    /\ sent + value <= MaxFees
    /\ sent' = sent + value
    /\ balance' = balance + value
    /\ rewardFund' = rewardFund + value
    /\ UNCHANGED <<vars, feeAddr, hbIncoming, stakeTime, lastRewardTime,
                   reflectionPercentSum, pool, kept, backdated>>

\* Who may be given the rest of what is shared among S.
Lasts(S) == IF S = {} THEN {0} ELSE S

\* The end of a block: the punishment, the fees, the epoch.
CoinFinalize(missed, miner, fee) ==
    LET v == outTurnValidator
    IN  /\ missed => miner # v
        /\ sent + fee <= MaxFees
        /\ sent' = sent + fee
        /\ Finalize(missed)
        /\ \E first \in Lasts(Eligible(status, v)), last \in Lasts(Eligible(status', 0)) :
              trySendBlockReward(miner, fee,
                  IF missed /\ takesIncome(v) THEN tryRemoveValidatorIncoming(v, first)
                                             ELSE hbIncoming,
                  last)
        /\ UNCHANGED <<feeAddr, stakeTime, backdated>>

CoinNext ==
    \/ \E s \in Stakers, v \in Vals, a \in Amounts : CoinStake(s, v, a)
    \/ \E v \in Vals \cap Stakers, f \in FeeAddrs, a \in Amounts :
          CoinCreateValidator(v, f, a)
    \/ \E v \in Vals, f \in FeeAddrs, g \in Gifts \cup {0} : EditValidator(v, f, g)
    \/ \E s \in Stakers, v \in Vals : CoinUnstake(s, v)
    \/ \E s \in Stakers, v \in Vals : CoinWithdrawStaking(s, v)
    \/ \E s \in Stakers, v \in Vals : withdrawStakingReward(s, v)
    \/ \E v \in Vals : withdrawProfits(v)
    \/ \E g \in Gifts : Receive(g)
    \/ \E v \in Vals, id \in Ids : CreateProposal(v, id) /\ UNCHANGED coinVars
    \/ \E v \in Vals, id \in Ids, auth \in BOOLEAN :
          VoteProposal(v, id, auth) /\ UNCHANGED coinVars
    \/ \E missed \in BOOLEAN, m \in signers, f \in Fees : CoinFinalize(missed, m, f)
    \/ Bounded /\ UNCHANGED coinVars

CoinSpec == CoinInit /\ [][CoinNext]_allVars

-----------------------------------------------------------------------------
(* Properties *)

\* What the stakers could withdraw now.
OwedFor(v) ==
    SumFunction([s \in Stakers |->
        IF stakeTime[s][v] > 0 THEN viewStakeReward(s, v) ELSE 0])

Owed == SumFunction([v \in Vals |-> OwedFor(v)])

Profits == SumFunction(hbIncoming)

\* The contract can pay everybody at once: all stakes, all profits, all rewards
\* of stakers and its reward fund, whatever was staked, shared out, rounded,
\* confiscated and withdrawn before and in which order.  What it lacks is no more
\* than what stakes after a stake of zero were credited with for the time before
\* them, and nothing without these.
Solvent ==
    (Held + Profits + rewardFund + Owed) * Unit <= balance * Unit + backdated

\* The stakers together can never withdraw more than the stakers' parts of the
\* fees ("30% to stakers"), and what stakes after a stake of zero were credited
\* with for the time before them.
StakersPart == Owed * Unit <= pool * Unit + backdated

\* Violated.  The stakers can never withdraw more than the stakers' parts.
OnlyStakersPart == Owed <= pool

\* "Jailed validator can't get profits", not even from the block that jails it
\* nor from the income of another punished validator.
JailedEarnsNothing ==
    [][\A v \in Vals : status'[v] = "Jailed" => hbIncoming'[v] \in {hbIncoming[v], 0}]_allVars

\* Violated.  "feeAddr can withdraw profits of it's validator": the call would
\* not revert.
ProfitsWithdrawable ==
    \A v \in Vals : hbIncoming[v] > 0 => TimeOf(feeAddr[v], v) > 0

\* Violated.  trySendBlockReward makes the miner "deposit block fees to contract":
\* no fee stays with its miner.
FeesDeposited == kept = 0

=============================================================================
