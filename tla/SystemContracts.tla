-------------------------- MODULE SystemContracts --------------------------
(***************************************************************************)
(* The system contracts under the engine: blocks are executed one after    *)
(* another, each with any transactions of stakers and validators followed  *)
(* by the calls Finalize makes as the miner.  The state begins after block *)
(* 1, whose Finalize has initialized the contracts and may already have    *)
(* recorded a miss.                                                        *)
(*                                                                         *)
(* The engine's set of signers is the one the last epoch header carries:   *)
(* what the highest set was at the end of the block before.  It is not     *)
(* currentValidatorSet, which a stake extends at any time.                 *)
(***************************************************************************)
EXTENDS Validators, Punish, Proposal

CONSTANTS
    Epoch,      \* config.Epoch
    Amounts,    \* values a stake may carry
    MaxCoins,   \* bound: coins in the hands of all stakers
    MaxNumber   \* bound: blocks executed

ASSUME SystemAssumption ==
    /\ Vals \subseteq Nat   \* for the order of addresses
    /\ Epoch \in Nat \ {0, 1}   \* block 1 is no epoch block,
    /\ removeThreshold # 1      \* and a miss in it jails nobody
    /\ MaxNumber \in Nat \ {0, 1}
    /\ Amounts \subseteq Nat

VARIABLES
    punishment,   \* storage of the Punish contract
    number,       \* the block being executed
    parentTop,    \* highestValidatorsSet at the end of the parent block
    signers       \* the engine's validator set

vars == <<validatorsVars, proposalVars, punishment, number, parentTop, signers>>

engineVars == <<number, parentTop, signers>>

\* The one of the signers, sorted by address, whose turn block n is.
TurnOf(n, S) ==
    CHOOSE v \in S : Cardinality({w \in S : w < v}) = n % Cardinality(S)

Init ==
    /\ initialize
    /\ NoProposals(Vals)
    /\ punishment \in {NoPunishment(Vals),
                      punish(NoPunishment(Vals), TurnOf(1, Range(GenesisVals)))}
    /\ number = 2
    /\ parentTop = GenesisVals
    /\ signers = Range(GenesisVals)

\* Coins the contract holds for stakers, unlocking ones included.
HeldFor(v) == SumFunction([s \in Stakers |-> staked[s][v].coins])

Held == SumFunction([v \in Vals |-> HeldFor(v)])

-----------------------------------------------------------------------------
(* Transactions *)

Stake(s, v, amount) ==
    /\ stake(s, v, amount)
    /\ Held + amount <= MaxCoins
    /\ UNCHANGED <<proposalVars, punishment, engineVars>>

CreateValidator(v, amount) ==
    /\ createOrEditValidator(v, amount)
    /\ Held + amount <= MaxCoins
    /\ UNCHANGED <<proposalVars, punishment, engineVars>>

Unstake(s, v) ==
    /\ unstake(s, v, number)
    /\ UNCHANGED <<proposalVars, punishment, engineVars>>

WithdrawStaking(s, v) ==
    /\ withdrawStaking(s, v, number)
    /\ UNCHANGED <<proposalVars, punishment, engineVars>>

CreateProposal(dst, id) ==
    /\ createProposal(dst, id, number)
    /\ UNCHANGED <<validatorsVars, punishment, engineVars>>

\* A vote; if it passes the proposal, tryReactive of the destination, which
\* has Punish forget a jailed one.
VoteProposal(voter, id, auth) ==
    LET size == Cardinality(currentValidatorSet)
        dst  == proposals[id].dst
    IN  /\ voter \in currentValidatorSet
        /\ voteProposal(id, voter, auth, number, size)
        /\ IF Passes(id, voter, auth, size)
           THEN /\ tryReactive(dst)
                /\ punishment' = IF status[dst] = "Jailed"
                                 THEN cleanPunishRecord(punishment, dst)
                                 ELSE punishment
           ELSE UNCHANGED <<status, punishment>>
        /\ UNCHANGED <<coins, stakers, staked, totalStake, highestValidatorsSet,
                       currentValidatorSet, engineVars>>

-----------------------------------------------------------------------------
(* The end of a block *)

\* What getTopValidators returns for the header of this block.
getTopValidators == parentTop

outTurnValidator == TurnOf(number, signers)

\* Finalize at the end of a block.  missed: its difficulty is not diffInTurn
\* and the validator whose turn it was is not among the recent signers.
Finalize(missed) ==
    LET v        == outTurnValidator
        punished == IF missed THEN punish(punishment, v) ELSE punishment
        epoch    == number % Epoch = 0
        newSet   == Range(getTopValidators)
    IN  /\ number < MaxNumber
        /\ IF missed /\ shouldRemove(punishment, v)
           THEN removeValidator(v)
           ELSE UNCHANGED <<status, highestValidatorsSet>>
        /\ IF epoch THEN /\ newSet # {}
                         /\ updateActiveValidatorSet(newSet)
                         /\ signers' = newSet
                         /\ punishment' = decreaseMissedBlocksCounter(punished)
           ELSE /\ punishment' = punished
                /\ UNCHANGED <<currentValidatorSet, signers>>
        /\ number' = number + 1
        /\ parentTop' = highestValidatorsSet'
        /\ UNCHANGED <<coins, stakers, staked, totalStake, proposalVars>>

\* The bound is reached.
Bounded ==
    /\ number = MaxNumber
    /\ UNCHANGED vars

Next ==
    \/ \E s \in Stakers, v \in Vals, a \in Amounts : Stake(s, v, a)
    \/ \E v \in Vals \cap Stakers, a \in Amounts : CreateValidator(v, a)
    \/ \E s \in Stakers, v \in Vals : Unstake(s, v)
    \/ \E s \in Stakers, v \in Vals : WithdrawStaking(s, v)
    \/ \E v \in Vals, id \in Ids : CreateProposal(v, id)
    \/ \E v \in Vals, id \in Ids, auth \in BOOLEAN : VoteProposal(v, id, auth)
    \/ \E missed \in BOOLEAN : Finalize(missed)
    \/ Bounded

Spec == Init /\ [][Next]_vars

-----------------------------------------------------------------------------
(* Properties *)

\* Every contract's storage has its declared type; a missed-block counter
\* never reaches the threshold at which it is reset.
TypeOK ==
    /\ ValidatorsTypeOK
    /\ punishment.records \in [Vals ->
          [missed : 0 .. removeThreshold - 1, index : Nat, exist : BOOLEAN]]
    /\ punishment.list \in Seq(Vals)
    /\ lastProposalActive \in [Vals -> BOOLEAN]
    /\ number \in 2 .. MaxNumber
    /\ parentTop \in Seq(Vals)
    /\ signers \subseteq Vals

\* totalStake is the sum of the validators' coins, and the coins of a
\* validator are the stakes for it that are not being withdrawn.
StakeConserved ==
    /\ totalStake = SumFunction(coins)
    /\ \A v \in Vals :
          coins[v] = SumFunction([s \in Stakers |->
                        IF Earning(s, v) THEN staked[s][v].coins ELSE 0])

\* Every stake can be taken back: its staker is in the validator's list at the
\* recorded index and has a stake time, so no check of unstake that is not
\* about the last top validator fails; and one being withdrawn has coins.
StakesReturnable ==
    \A s \in Stakers, v \in Vals :
        LET info == staked[s][v]
        IN  /\ Earning(s, v) => /\ info.index < Len(stakers[v])
                                /\ stakers[v][info.index + 1] = s
                                /\ info.timed
                                /\ coins[v] >= info.coins
                                /\ totalStake >= info.coins
            /\ info.unstakeBlock # 0 => info.coins > 0 /\ status[v] # "NotExist"

\* The highest set, from which the engine takes its signers, is never empty,
\* has no validator twice and holds only staked ones, whatever stakes,
\* unstakes, evictions and jailings happen.
TopSound ==
    /\ Len(highestValidatorsSet) \in 1 .. MaxValidators
    /\ \A i, j \in 1 .. Len(highestValidatorsSet) :
          highestValidatorsSet[i] = highestValidatorsSet[j] => i = j
    /\ \A i \in 1 .. Len(highestValidatorsSet) :
          status[highestValidatorsSet[i]] = "Staked"

\* The punished validators are listed once each, at their recorded index.
PunishListed ==
    LET P == punishment
    IN  /\ \A v \in Vals : P.records[v].exist =>
              /\ P.records[v].index < Len(P.list)
              /\ P.list[P.records[v].index + 1] = v
        /\ \A i \in 1 .. Len(P.list) :
              P.records[P.list[i]].exist /\ P.records[P.list[i]].index = i - 1

\* A validator that was jailed or has lost its stake comes back only in a step
\* that passes a proposal for it with the votes of more than half as many
\* accounts as there are active validators, and a jailed one comes back with
\* a clean record.
RejoinNeedsVote ==
    [][\A v \in Vals :
         /\ status[v] \in {"Unstaked", "Jailed"} /\ status'[v] \in {"Created", "Staked"}
               => \E id \in Ids : /\ Exists(id)
                                  /\ proposals[id].dst = v
                                  /\ ~ proposals[id].resultExist
                                  /\ 2 * proposals'[id].agree
                                        > Cardinality(currentValidatorSet)
         /\ status[v] = "Jailed" /\ status'[v] # "Jailed"
               => ~ punishment'.records[v].exist]_vars

\* Violated.  A jailed validator "have to repropose", and can: unless a vote on
\* a proposal for it is still possible, a new one can be created.
CanRepropose ==
    \A v \in Vals :
        status[v] = "Jailed" /\ lastProposalActive[v]
           => \E id \in Ids : /\ Votable(id, number)
                              /\ proposals[id].dst = v
                              /\ ~ proposals[id].resultExist

\* Violated.  "Address list of user who has staked for this validator": nobody
\* is in it twice.
StakersDistinct == \A v \in Vals : IsInjective(stakers[v])

=============================================================================
