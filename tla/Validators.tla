----------------------------- MODULE Validators -----------------------------
(***************************************************************************)
(* The staking ledger and the validator sets of the Validators contract.   *)
(* A transaction that reverts changes nothing, so a require is a guard of  *)
(* its operation, and so is every implicit one: the underflow and index    *)
(* checks of the compiler.  The block number is a parameter.               *)
(*                                                                         *)
(* The amounts a reward moves (hbIncoming, reflectionPercentSum) are       *)
(* abstracted: nothing here reads them.  What remains of them is whether   *)
(* stakeTime is set, which withdrawStakingReward requires and which can    *)
(* thus revert a stake or an unstake.                                      *)
(***************************************************************************)
EXTENDS Integers, Sequences, FiniteSets, Functions

CONSTANTS
    Vals,                     \* addresses that may become validators
    Stakers,                  \* accounts that send transactions
    GenesisVals,              \* the sequence initialize is called with
    MaxValidators,            \* size of the highest set
    MinimalStakingCoin,       \* coins a validator needs to be staked
    minimumValidatorStaking,  \* coins needed to create a validator
    StakingLockPeriod         \* blocks between unstake and withdrawal

ASSUME AddressAssumption == IsFiniteSet(Vals) /\ IsFiniteSet(Stakers)

ASSUME ParamsAssumption ==
    /\ MaxValidators \in Nat \ {0}
    /\ MinimalStakingCoin \in Nat \ {0}
    /\ minimumValidatorStaking \in Nat
    /\ minimumValidatorStaking >= MinimalStakingCoin
    /\ StakingLockPeriod \in Nat

ASSUME GenesisAssumption ==
    /\ GenesisVals \in Seq(Vals)
    /\ Len(GenesisVals) \in 1 .. MaxValidators
    /\ \A i, j \in 1 .. Len(GenesisVals) :
          GenesisVals[i] = GenesisVals[j] => i = j

VARIABLES
    status,                \* validator -> Status
    coins,                 \* validator -> coins staked for it
    stakers,               \* validator -> list of its stakers
    staked,                \* staker -> validator -> StakingInfo
    totalStake,
    highestValidatorsSet,  \* a sequence: eviction goes by position
    currentValidatorSet    \* a set: every push is guarded by isActiveValidator

validatorsVars == <<status, coins, stakers, staked, totalStake,
                    highestValidatorsSet, currentValidatorSet>>

Status == {"NotExist", "Created", "Staked", "Unstaked", "Jailed"}

\* timed: stakeTime is not zero.  index counts from zero.
NoStake == [coins |-> 0, unstakeBlock |-> 0, index |-> 0, timed |-> FALSE]

initialize ==
    /\ status = [v \in Vals |-> IF v \in Range(GenesisVals)
                                THEN "Staked" ELSE "NotExist"]
    /\ coins = [v \in Vals |-> 0]
    /\ stakers = [v \in Vals |-> <<>>]
    /\ staked = [s \in Stakers |-> [v \in Vals |-> NoStake]]
    /\ totalStake = 0
    /\ highestValidatorsSet = GenesisVals
    /\ currentValidatorSet = Range(GenesisVals)

-----------------------------------------------------------------------------
(* The highest set *)

isTopValidator(v) == v \in Range(highestValidatorsSet)

\* The last entry takes the place of entry i.
SwapRemove(seq, i) ==
    [j \in 1 .. Len(seq) - 1 |-> IF j = i THEN seq[Len(seq)] ELSE seq[j]]

\* The first position with the fewest coins.
Lowest(top) ==
    CHOOSE i \in 1 .. Len(top) :
        \A j \in 1 .. Len(top) :
            \/ coins[top[i]] < coins[top[j]]
            \/ coins[top[i]] = coins[top[j]] /\ i <= j

tryAddValidatorToHighestSet(top, v, staking) ==
    IF v \in Range(top) THEN top
    ELSE IF Len(top) < MaxValidators THEN Append(top, v)
    ELSE IF staking <= coins[top[Lowest(top)]] THEN top
    ELSE [top EXCEPT ![Lowest(top)] = v]

tryRemoveValidatorInHighestSet(top, v) ==
    IF Len(top) > 1 /\ v \in Range(top)
    THEN SwapRemove(top, CHOOSE i \in 1 .. Len(top) : top[i] = v)
    ELSE top

-----------------------------------------------------------------------------
(* Operations.  stake and createOrEditValidator share the body of stake. *)

StakeBody(s, v, amount) ==
    LET info  == staked[s][v]
        first == info.coins = 0 /\ info.index = 0
    IN  /\ info.unstakeBlock = 0
        /\ coins[v] + amount >= MinimalStakingCoin
        /\ info.coins > 0 => info.timed
        /\ stakers' = IF first THEN [stakers EXCEPT ![v] = Append(@, s)]
                               ELSE stakers
        /\ staked' = [staked EXCEPT ![s][v] =
              [info EXCEPT !.coins = @ + amount,
                           !.index = IF first THEN Len(stakers[v]) ELSE @,
                           !.timed = @ \/ first]]
        /\ coins' = [coins EXCEPT ![v] = @ + amount]
        /\ totalStake' = totalStake + amount
        /\ status' = [status EXCEPT ![v] = "Staked"]
        /\ currentValidatorSet' = currentValidatorSet \cup {v}
        /\ highestValidatorsSet' =
              tryAddValidatorToHighestSet(highestValidatorsSet, v,
                                          coins[v] + amount)

stake(s, v, amount) ==
    /\ status[v] \in {"Created", "Staked"}
    /\ StakeBody(s, v, amount)

\* Creation.  Editing an existing validator changes its fee address and its
\* description only.
createOrEditValidator(v, amount) ==
    /\ status[v] = "NotExist"
    /\ amount >= minimumValidatorStaking
    /\ StakeBody(v, v, amount)

\* Mutant: the length of the set is compared with zero.
EmptiesTopZero(v, amount) ==
    /\ Len(highestValidatorsSet) = 0
    /\ isTopValidator(v)
    /\ coins[v] - amount < MinimalStakingCoin

\* This unstake would leave the only top validator without its stake.
EmptiesTop(v, amount) ==
    /\ Len(highestValidatorsSet) = 1
    /\ isTopValidator(v)
    /\ coins[v] - amount < MinimalStakingCoin

\* Mutant: a jailed validator is marked unstaked too.
LosesStakeJailed(v, left) == left < MinimalStakingCoin

\* The validator loses its status unless it is jailed.
LosesStake(v, left) == left < MinimalStakingCoin /\ status[v] # "Jailed"

\* Mutant: the staker that takes the free place keeps its old index.
NoReindex(v, i) == staked

\* The staker that takes the free place i of the list is given its index.
Reindex(v, i) == [staked EXCEPT ![stakers[v][Len(stakers[v])]][v].index = i]

unstake(s, v, block) ==
    LET info == staked[s][v]
        left == coins[v] - info.coins
    IN  /\ status[v] # "NotExist"
        /\ info.unstakeBlock = 0
        /\ info.coins > 0
        /\ left >= 0
        /\ totalStake >= info.coins
        /\ ~ EmptiesTop(v, info.coins)
        /\ info.index < Len(stakers[v])
        /\ info.timed
        /\ stakers' = [stakers EXCEPT ![v] = SwapRemove(@, info.index + 1)]
        /\ staked' = [Reindex(v, info.index) EXCEPT
              ![s][v] = [info EXCEPT !.unstakeBlock = block,
                                     !.index = 0, !.timed = FALSE]]
        /\ coins' = [coins EXCEPT ![v] = left]
        /\ totalStake' = totalStake - info.coins
        /\ IF LosesStake(v, left)
           THEN /\ status' = [status EXCEPT ![v] = "Unstaked"]
                /\ highestValidatorsSet' =
                      tryRemoveValidatorInHighestSet(highestValidatorsSet, v)
           ELSE UNCHANGED <<status, highestValidatorsSet>>
        /\ UNCHANGED currentValidatorSet

\* Mutant: the time lock is the only record of the withdrawal.
WithdrawKeepsCoins(s, v, block) ==
    /\ status[v] # "NotExist"
    /\ staked[s][v].unstakeBlock # 0
    /\ staked[s][v].unstakeBlock + StakingLockPeriod <= block
    /\ staked[s][v].coins > 0
    /\ staked' = [staked EXCEPT ![s][v].unstakeBlock = 0]
    /\ UNCHANGED <<status, coins, stakers, totalStake, highestValidatorsSet,
                   currentValidatorSet>>

withdrawStaking(s, v, block) ==
    /\ status[v] # "NotExist"
    /\ staked[s][v].unstakeBlock # 0
    /\ staked[s][v].unstakeBlock + StakingLockPeriod <= block
    /\ staked[s][v].coins > 0
    /\ staked' = [staked EXCEPT ![s][v].coins = 0, ![s][v].unstakeBlock = 0]
    /\ UNCHANGED <<status, coins, stakers, totalStake, highestValidatorsSet,
                   currentValidatorSet>>

\* A punished validator is jailed unless it may be the last one.
removeValidator(v) ==
    IF Len(highestValidatorsSet) > 1 /\ status[v] # "NotExist"
    THEN /\ status' = [status EXCEPT ![v] = "Jailed"]
         /\ highestValidatorsSet' =
               tryRemoveValidatorInHighestSet(highestValidatorsSet, v)
    ELSE UNCHANGED <<status, highestValidatorsSet>>

tryReactive(v) ==
    status' = IF status[v] \in {"Unstaked", "Jailed"}
              THEN [status EXCEPT ![v] = "Created"]
              ELSE status

updateActiveValidatorSet(newSet) == currentValidatorSet' = newSet

-----------------------------------------------------------------------------
(* Properties *)

\* The contract's variables have their declared types.
ValidatorsTypeOK ==
    /\ status \in [Vals -> Status]
    /\ coins \in [Vals -> Nat]
    /\ stakers \in [Vals -> Seq(Stakers)]
    /\ staked \in [Stakers -> [Vals ->
           [coins : Nat, unstakeBlock : Nat, index : Nat, timed : BOOLEAN]]]
    /\ totalStake \in Nat
    /\ highestValidatorsSet \in Seq(Vals)
    /\ currentValidatorSet \subseteq Vals

\* A stake that earns: placed, and not being withdrawn.
Earning(s, v) == staked[s][v].coins > 0 /\ staked[s][v].unstakeBlock = 0

=============================================================================
