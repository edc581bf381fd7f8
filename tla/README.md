# TLA+ models of the Splendor chain

Splendor is a fork of go-ethereum with a proof-of-authority engine, Congress,
whose validators are elected by staking in a set of system contracts. These
modules model the parts that are Splendor's own and on which its safety rests:
who may sign the next block, how nodes agree on a chain of such blocks, how
the contracts choose, pay and punish the validators, and what else at the end of a
block all nodes must do alike. TLC checks the models on small instances; TLAPS
proves the invariants, action properties and refinements of the passing runs for every
instance, under the hypotheses named with each theorem.

Paths: `congress/` is `src/Core-Blockchain/node_src/consensus/congress/`,
`node/` is `src/Core-Blockchain/node_src/`, `contracts/` is
`src/System-Contracts/contracts/`.

## Inventory

| Component | State | Operations | Hard part | What makes it correct |
|---|---|---|---|---|
| Snapshot (`congress/snapshot.go`) | validator set, map of recent signers | `apply`, `inturn` | four cleanups of the map when the set changes, unsigned arithmetic near genesis | the map mirrors the chain; no signer comes back early; somebody can always sign |
| Seal and verify (`congress/congress.go`) | none of their own | `Prepare`, `Seal`, `verifyHeader`, `verifySeal` | `Seal` has overrides that verification has not | what a node signs, everyone accepts; what everyone accepts can be built on |
| Worker (`node/miner/worker.go`) | sealing tasks | `commitNewWork`, `taskLoop`, `resultLoop` | results arrive after the head has moved | a stale result is still a valid block |
| Fork choice (`node/core/blockchain.go`) | block store, head | `insertChain`, `writeBlockWithState`, `setHeadBeyondRoot` | forks, ties, late blocks, restart on an older head | heads are heaviest; forks are resolved |
| Validators (`contracts/Validators.sol`) | stakes, status, highest set, active set, profits | stake, unstake, withdraw, jail, reactivate, epoch update, rewards | two lists compacted in place, three ways out of the highest set | coins are conserved; every stake can be taken back; the highest set is never empty and only staked |
| Punish (`contracts/Punish.sol`) | missed-block counters and their list | `punish`, `decreaseMissedBlocksCounter`, `cleanPunishRecord` | called by the engine and by a vote | the list and the indices agree |
| Proposal (`contracts/Proposal.sol`) | proposals, votes, the flag of an active proposal | `createProposal`, `voteProposal` | the electorate changes while a vote is open; expiry | nobody returns without a vote; a new proposal stays possible |
| Slashing (`contracts/Slashing.sol`) | evidence, jail times | `reportDoubleSign` | one transaction over two contracts | a report has an effect |
| Rewards (`contracts/Validators.sol`) | balance, incomes, sums per staked coin, reward fund | deposit of fees, withdrawal of profits and rewards, confiscation | three roundings, stake times, jailing in the block that pays | the contract can pay all it owes; a jailed validator earns nothing |
| End of block (`Finalize`, `FinalizeAndAssemble`) | fees, passed proposals | punish, reward, epoch update, governance | an error of one step is swallowed; two copies of the sequence | what one copy assembles the other accepts; a proposal is executed once |
| Snapshot store (`Congress.snapshot`) | LRU, disk checkpoints | walk back, apply forward | trusted checkpoints forget the window | every path to a block gives the same snapshot |
| Address lists (`congress.go`, `blacklist_validator.go`) | two caches by parent hash | `ValidateTx`, `getBlacklist`, `getEventCheckRules` | importer, worker, pool and tracers fill one cache; entries are inherited | an entry is the list of its block; all nodes deny the same transactions |
| X402 (`node/eth/api_x402*.go`) | used nonces, in memory | settle | concurrent calls check and mark in two steps; restart | a payment is settled once |
| Parallel processor (`node/core/parallel_state_processor.go`) | worker pool | batches | swallowed errors | same result as in sequence; not called by block import |

The contracts and the engine meet in three places. At the end of every block
`Finalize` calls Punish for a validator that missed its turn, and at an epoch
block it hands the set it read from Validators *in the state of the parent
block* back to Validators; it deposits the fees in between. That set, sorted, is in
the epoch header's extra field, and `apply` makes it the set that may sign from the next block on. The
worker and the importer both use the snapshot of the parent, the first through
`Seal`, the second through `verifySeal`; a block is only useful if `apply`
accepts it too, since no child of it has a snapshot otherwise. Both also ask
`ValidateTx` for every transaction, through caches they share with the pool and
the tracers, and both run the governance proposals, each with its own copy of the
code.

## Modules

| Module | Models | Uses |
|---|---|---|
| `Snapshot` | operators: `apply`, its cleanups, `inturn`, `verifySeal`, the checks of `Seal` | |
| `HeaderChain` | one chain of headers, grown by `SealBlock` and `ImportBlock` | `Snapshot` |
| `Authorization` | abstract: every block has one snapshot, and callers are given it; `apply` and `verifySeal` are parameters | |
| `SnapshotStore` | `Congress.snapshot` as concurrent calls over cache, disk and headers; refines `Authorization` | `Snapshot`, `Authorization` |
| `Congress` | nodes over a tree of blocks: `NewWork`, `Release`, `Import`, `Crash` | `Snapshot` |
| `Validators` | staking ledger and validator sets | |
| `Punish` | missed-block counters, as functions on storage | |
| `Proposal` | proposals and votes | |
| `SystemContracts` | the three contracts under transactions and `Finalize` | the three above |
| `Rewards` | the coins of the same: fees, incomes, rewards, confiscation | `SystemContracts` |
| `Governance` | passed proposals in the two copies of the end of a block | |
| `AddressLists` | denied addresses and event rules through their caches | |
| `X402` | concurrent settlements over the nonces in memory | |
| `MC...` | values of constants for TLC | |
| `...Proofs` | theorems about the module they are named after; those on `Rewards` are in `SystemContractsProofs` | |

`Snapshot`. A snapshot is a record of number, validator set and `recents`, a
function from some block numbers to signers. Addresses are numbers, so that the
byte order `inturn` sorts by exists. `USub` is uint64 subtraction modulo `Word`.
`SealPermits` is the whole decision of `Seal`: a validator of the set that is
not recent, or whose entry leaves the window with this block, or one of the two
deadlock overrides. `Apply` enters the signer and, at an epoch, replaces the set
and runs the cleanup for an expansion, a reduction or a replacement and then the
emergency one.

`HeaderChain`. `chain` keeps for every number the signer and the set that
authorised it; `snap` is the snapshot at the last block `apply` accepted;
`usable` is FALSE when the tip has none. The state starts at a trusted
checkpoint, genesis or an epoch block, with an empty window: that is what
`Congress.snapshot` does there. `getTopValidators` is any member of
`ValidatorSets`. `Halted` is what is left of a chain whose tip `apply` refused: every
call for a child ends with that error.

`Congress`. A block is the path of signers, selected sets and salts from genesis:
a hash identifies just that. `tree` holds what is derived from a path (header,
total difficulty, snapshot); `stored`, `head` and `sealing` belong to a node.
`NewWork` is `commitNewWork` with `Prepare`, `taskLoop` and the checks of `Seal`;
it drops the earlier tasks except those whose timer has already fired. `Release`
is `resultLoop`, which writes without verifying. `Import` is the verification of
`insertChain` and the write. Both end in `WriteBlockWithState`, whose fork choice
`Reorg` is a set of outcomes: for equal weight and number a coin. `Crash` loses
tasks and rewinds the head to some ancestor, as `setHeadBeyondRoot` does when the
later states were not flushed.

`Validators`, `Punish`, `Proposal`, `SystemContracts`. A transaction that reverts
has no step, so a `require`, an underflow and an index out of range are guards.
Status, coins, the stakers list with the indices into it, the two sets and the
withdrawal lock are kept. In these four modules rewards are abstracted to the one
thing that can stop a stake or an unstake: whether `stakeTime` is set, which
`withdrawStakingReward` requires; `Rewards` has the amounts. The initial state is the
one after block 1, whose `Finalize` initializes the contracts and may already have
recorded a miss. `Finalize` punishes the validator whose turn it was (when `missed`),
jails it at the threshold, and at an epoch installs the set of the parent's state
and decreases the counters, in that order and in one step. The active set is a
set, because every push is guarded by `isActiveValidator`; the highest set is a
sequence, because removal and eviction go by position. Time is the block number.

`SnapshotStore`. A call of `snapshot` is a process: it walks back one block at a
time, looking in memory, then (at multiples of the interval) on disk, then asking
whether it may trust the canonical header of that number; then it applies the
gathered headers one by one, adds the result to the cache, and stores it. Each of
these is a step, since calls run in several goroutines with no lock over the walk.
Around them blocks are imported on what a call returned, the head is reorganised,
the node crashes, and the database is lost while the headers survive in the
freezer (the case the trust in deep headers is for). A block is imported while its
fork is short (`Admitted`): the fetcher discards what is far behind the head and the
downloader looks for no ancestor that deep. Without it a block could be built on an
answer whose window was thinned, and the refinement would fail. `header` keeps for every block
its `line`, the chain that ends in it, and `truth` the fold of `apply` along it,
which no code computes and the properties compare with.

`Authorization` is what callers rely on: no cache, no disk, no walk. An answer is
the true snapshot of its block; only for a block so deep that the chain no longer
forks there it may lack entries of the window. A block enters by `verifySeal` on the
true snapshot. The mapping takes the answers of finished calls and hides the rest.

`Rewards` takes each operation of `SystemContracts` together with what it pays, and
adds those that only move coins. `CoinFinalize` is the whole end of a block:
punishment with the confiscation of an income, deposit of the fees, epoch. A
deposit that reverts leaves the fee with the miner, as the engine swallows the
error. Who is last in the list, and so gets the rest of a division, is any. Three
history variables serve the properties: `pool`, what was set aside for stakers and not
yet paid; `kept`, the fees that stayed with their miner; and `backdated`, what a stake
is credited with for the time before it, which happens after a stake of zero.

`Governance`. `Commit` takes any transaction of any account, as the worker does.
`FinalizeAndAssemble` and `Finalize` are two operators, written from
the two copies in the code; `Accepts` compares the state an importer computes with
the one the block carries. The loops of the code (`Finishing`, `Executing`, `Replaying`,
`Processing`) are recursive functions of the number of rounds done. SysGov itself is byte code and external: a list from
which a finished proposal is removed by moving the last one to its place.

`AddressLists`. A cache maps a block to what the contract holds in its state, as
read through the state a caller passed. An entry may instead be inherited from the
grandparent if the list has not changed since. Importer and worker are threads that
execute a block transaction by transaction, passing the state in the making; the
pool and `GetEVM` pass the parent's; `debug_traceCall`, in `TracedSpec` only, passes
that of the block itself. The caches are LRU lists of 10000, so an entry that a block
in execution uses is not evicted; a failing call of the contract is not modelled.

`X402`. A settlement checks time and payment, then the nonce, then marks it, in
three critical sections; restart empties the map. The last step is the signature of
the envelope, which always fails (see the configuration `MCSettle` below).

## Runs

| Run | Instance | Shows |
|---|---|---|
| `header_chain` | sets of 1 to 5 validators, epoch 2, from genesis to block 6 | the six invariants of `HeaderChain` |
| `congress` | 3 nodes online, a set change, 5 blocks in flight or held, 1 crash | validity, heaviest head, monotone heads |
| `congress_live` | 2 of 3 online, 5 numbers, fair | weights converge; a settled network grows |
| `snapshot_store` | 2 callers, a cache of 1, 8 blocks, sets that grow and shrink, one-block forks | what is held is sound; refinement of `Authorization` |
| `system_contracts` | 3 validators, 2 stakers, highest set of 2, one proposal, epoch 4 | coins conserved, stakes returnable, highest set and punish list sound, return only by vote |
| `rewards` | 2 validators, 2 stakers, stakes of 0, 1, 2, fee address, gifts | solvency; stakers are owed no more than their part, up to `backdated` |
| `profits` | 2 validators, 1 staker, stakes of 0, 1, a proposal, jailing | solvency with confiscation; a jailed validator earns nothing |
| `address_lists` | 2 threads, 3 blocks on two forks across both fork numbers | cache entries and verdicts are those of the parent's state |
| `governance` | 2 validators, 1 user, 4 blocks, 2 transactions each | assembled blocks are accepted unless the coinbase called the contract; proposals are executed once and at once |
| `x402` | 3 calls, 3 payments of 2 nonces, 1 restart | a nonce passes once |
| `repropose` | 2 validators, 2 stakers, 1 proposal | *violated*: an expired proposal blocks the next |
| `trace_call` | 1 thread and `debug_traceCall` | *violated*: the cache is filled from another state |

### Properties

- `RecentsMirrorChain`: after any sequence of epoch changes the recents are
  blocks of the current window with the signers the chain has, none twice.
- `SignersSpaced`: between two blocks of a signer lies the window of some set in
  force in between; no cleanup lets a signer back early. Where an epoch is shorter
  than a window (the shipped 50 blocks are, for 100 validators or more), a signer that
  left the set and came back may sign sooner, but not within an epoch.
- `SealSound`, `VerifiedApplies`: Seal implies verifySeal implies apply, with one
  exception each: the second block in a row of one of two validators
  (`SecondInARow`), and the blocks after genesis whose window would begin before it
  (`BeforeWindow`).
- `EnoughSealers`: at least `N - Limit + 1` validators may sign the next block, so
  that many offline ones as the window allows do not stop the chain; and a tip without
  a snapshot is one of these two exceptions.
- `SealedIsValid`, `HeadIsHeaviest`, `HeadImproves`: stale results, late imports
  and restarts do not put an invalid block into the network, or a node on a
  lighter head than it could have, or back on a head it has left.
- `WeightsConverge`, `SettledGrows`: heads end with the same weight; without an
  open fork the next block always comes.
- `HeldSound`: whatever walks of concurrent calls met, and whatever was evicted or
  lost, a snapshot in memory, on disk or in an answer has the number and the set of
  its block and, until a header above genesis had to be trusted, its window too; a
  call fails only for a block `apply` refuses.
- `Refines`: the store implements `Authorization`. It adds that even after trusted
  headers the answers near the tip are exact, and that no wrong answer lets a block in.
- `StakeConserved`, `StakesReturnable`: the three levels of the ledger agree, and
  no list operation leaves a staker whose unstake would revert.
- `TopSound`: the set the engine will use is not empty, has no duplicates and
  holds staked validators only.
- `PunishListed`, `RejoinNeedsVote`: the punish list agrees with its indices, and
  jail and loss of stake are left only through a passed proposal, with a clean
  record.
- `Solvent`, `StakersPart`: after any order of fees, stakes, withdrawals and
  confiscations, with every rounding, the contract can pay all it owes at once, and
  the stakers together are owed no more than the stakers' parts of the fees. Both are
  exact up to `backdated`: stakes that follow a stake of zero are credited for the time
  before them, and nothing else may be missing. Without such stakes `backdated` is 0.
- `JailedEarnsNothing`: not even from the block that jails it.
- `CacheSound`, `DenialsRight`: whoever filled an entry, it is the list of its
  block; every verdict is that of the parent's state, so nodes agree on valid blocks.
- `AssembledIsAccepted`, `ExecutedOnce`, `PassedExecuted`: the two copies of the end
  of a block agree, so that an assembled block is refused just if the worker took a
  transaction importers take for the engine's own; no proposal is skipped, repeated or delayed although finishing
  one reorders the list and executing one may pass another.
- `SettledOnce`: between two restarts one settlement per payer and nonce.

### The two violated runs

1. *Repropose.* `lastProposalActive` is set by `createProposal` and reset only by a
   pass, so that after a rejected or expired proposal a jailed validator can have no
   other, although it "have to repropose" (`Validators.sol:18`).
2. *Trace call.* `debug_traceCall` passes a block's header with the block's own state
   to `CreateEvmExtraValidator`, which files what it reads under the parent's hash.
   Blocks on that parent are then judged by a list that is not yet in force there.
   `node/eth/api_backend.go:214` warns of just this and `GetEVM` avoids it.

### Further configurations

These are kept for questions beside the regular runs. Run one with
`tlc -config <name>.cfg <module>`, the module being the `MC` module of the component.

| Configuration | Module | Result |
|---|---|---|
| `MCSnapshotForks` | `MCSnapshotStore` | passes: two callers throughout, sets replaced by sets of their size |
| `MCEventRules` | `MCAddressLists` | passes: event rules inherited over several blocks of a longer chain |
| `MCHeaderChainTwo` | `MCHeaderChain` | `AllSealSound` violated |
| `MCHeaderChainFive` | `MCHeaderChain` | `AllVerifiedApply` violated |
| `MCCongressStall` | `MCCongress` | `NeverStalls` violated |
| `MCSnapshotLight` | `MCSnapshotStore` | `SameSigners` violated |
| `MCStakersList` | `MCSystemContracts` | `StakersDistinct` violated |
| `MCZeroStake` | `MCRewards` | `OnlyStakersPart` violated |
| `MCFeeAddress` | `MCRewards` | `ProfitsWithdrawable` violated |
| `MCManyValidators` | `MCRewards` | `FeesDeposited` violated |
| `MCMinerCalls` | `MCGovernance` | `AlwaysAccepted` violated |
| `MCSettle` | `MCX402` | `SettleExecutes` violated |

What the violated ones show:

- *Two validators.* `(2*3)/4 = 1`, so one recent signer counts as a deadlock and
  Seal signs a block that `verifySeal` and `apply` refuse.
- *Five, the first window.* For `number < limit`, `number - limit` wraps around in
  `verifySeal`; a recent signer passes and `apply`, which tests `number >= limit`
  first, refuses the block: it is stored and no child of it can be prepared or
  verified. It takes four validators or more: with fewer the limit is at most two,
  and block 1 has no recent signer.
- *Stall.* Validators 1 and 3 of three are online, block 1 is the turn of the
  offline one, both sign it out of turn, each keeps its own by the coin, and each
  is a recent signer on its head. The comment at `node/eth/backend.go:483`
  describes such a deadlock and switches the preference for own blocks off; the
  coin alone does not exclude it.
- *Light.* On a node whose headers start at a trusted checkpoint the window is
  empty, and it accepts a recent signer that others refuse. `snapshot.go:52` says
  `newSnapshot` is only ever for the genesis block.
- *Stakers list.* A zero stake sits at index 1; the first staker leaves and the
  entry moves to index 0; after a reactivation its owner stakes, coins and index
  are both 0, and it is listed again.
- *Zero stake.* The mirror image: a zero stake at an index above 0 keeps its stake
  time when it becomes a real one, and is owed rewards from before.
- *Fee address.* `withdrawProfits` ends in `withdrawStakingReward`, which reverts
  for an account that never staked; `Validators.sol:430` says the fee address can
  withdraw.
- *Many validators.* With more active validators than `MAX_REWARD_VALIDATORS` each
  deposit reverts, and the fee, already moved to the miner, stays there.
- *Miner calls.* `IsSysTransaction` takes a transaction of the coinbase to the
  contract, and a free one to the address of proposals, for the engine's own.
  Importers take it out of the block and expect a proposal behind it; the worker does
  not filter it, so its block is refused. `congress.go:1377` says the rule is to keep
  the miner from such calls.
- *Settle.* The chain's signer refuses the type of the envelope, so no verified
  payment is ever executed, and its nonce is spent.

### Bounds

The header chain starts at genesis, where subtractions wrap around, and has three
epochs, hence three consecutive set changes of every combination of expansion,
reduction and replacement; windows are at most three blocks, so an entry made under
one set is also seen under the next. The sets include the one of two that halts a
chain. With windows of at most three and an epoch of two, a return within a window
but after an epoch does not occur in the run; it takes an epoch of one or a larger
set, and `SignersStaySpaced` covers it.
`MaxNumber`, `MaxBlocks`, `MaxCrashes`, `Salts`, `Amounts`, `MaxCoins`, `MaxFees`,
`MaxTxs`, `MaxIds`, `MaxTime` and `MaxRestarts` are the bounds; each is named in a
guard. In `Congress` three numbers with five blocks are enough for two siblings, a
stale result on each, and a set change; larger trees repeat these shapes.

`snapshot_store` needs a chain of six above genesis, twice the scaled threshold, for
a header to be trusted, and an eighth block for a fork beside it. Two callers over
all of that are too many states: the constraint `Narrow` lets calls run side by side
over up to `MaxShared` blocks (an epoch, a disk checkpoint, a fork and an eviction
happen there); above that there is one call at a time, one block beside the chain, at
the number that is trusted first, and one set to announce from the second epoch on.
`ImmutableAssumption` says what the threshold is for: forks and windows are
shorter than the part of the chain not yet taken for immutable
(`node/params/network_params.go:57-61`).

In `SystemContracts` and `Rewards` thresholds are scaled down (remove at 2, lock of
1 block, highest set of 2, income taken at 1) so that jailing, unlocking and eviction
happen within an epoch of four blocks, and percentages are tenths: 6 parts for
validators, 1 for the creator, 3 for stakers. `Unit` is 5 in `rewards` and 6 in
`profits`, so that incomes, shares and reflection sums are rounded for some of the
amounts staked. Both runs have stakes of zero. `address_lists` begins at the RedCoast block and crosses Sophon, where
the contract starts to record update numbers; its constraint `Few` lets two blocks
executed side by side have `MaxTxs` transactions between them. `governance` crosses RedCoast. Four
blocks let a proposal pass, pass another, and that one be executed with a block to
spare. `Bounded` stutters at the bound. The `Congress` runs do not check deadlock,
because the network really can come to a halt (`MCCongressStall`).

### Fairness

`FairSpec` assumes weak fairness, per node, of starting work on the head, of
releasing a finished block, and of importing a block a peer holds: the worker's
loops restart on every head event and on a timer, the delay of a sealing task is
finite, and the fetcher and the syncer retry until a block is held. Nothing is
assumed of the coin, of crashes or of the choice between tasks. An unconditional
claim that the chain grows is false (`MCCongressStall`), and stays false with all
validators online, since stale results can tie three heads; hence `SettledGrows`
speaks of states without open forks. The other modules state safety only: their
operations are called from outside and nothing promises that they are.

## Proofs

`HeaderChainProofs` proves, for all addresses, epochs, set families and lengths:

- `TypeCorrect`, `WindowCorrect`: types, and `RecentsMirrorChain`;
- `SealIsSound`, `ImportIsSound`: `SealSound` and `VerifiedApplies`;
- `NeverHalts`: `EnoughSealers`;
- `SignersStaySpaced`: `SignersSpaced`.

The assumptions are those of the modules: finite addresses, nonempty sets, block
numbers that fit a word; nothing is assumed of the epoch's length against the window,
of the sizes of the sets or of where the chain starts. The inductive
invariant `IInv` says that the snapshot is well formed (entries in the window of
its own set, each signer once), that its entries are those of the chain, and that
the chain has no gaps. `RecentsMirrorChain` alone is not inductive: whether a block
written on the tip keeps it depends on the chain ending at the snapshot's number.
The work is in `SnapshotProofs`: `ApplyWellFormed` (every cleanup keeps the
window), `PermittedIsApplied` (why only the pair breaks the overrides: a window
has at most N/2 entries, which reaches three quarters of N, rounded down, only
for one and two validators), `VerifiedIsApplied`, `ManyPermitted` (counting), and
`ApplyForgets` (an entry is dropped only when its distance has passed under the
old or the new set). For a set of two, `PermittedUnlessSecond` shows that the block
Seal wrongly permits is the second in a row. `NeverHalts` carries `HaltCause`, why the
tip has no snapshot, through the step that wrote it (`WriteCause`).
`SignersStaySpaced` carries that every block is accounted for (`Accounted`): it is in
the window, or its signer has waited long enough for the next block (`Waited`), or its
signer is out of the set and an epoch has come since. A signer that returns from the
third case was away for a whole epoch, which is where the second alternative of
`SignersSpaced` comes from.

`CongressProofs` proves, for any set of nodes, any tree, number of forks and crashes:

- `TypeCorrect`, `HeadsAreHeaviest`: types, and `HeadIsHeaviest`;
- `HeadsImprove`: the action property `HeadImproves`;
- `SealedAreValid`: `SealedIsValid` if no set has exactly two members.

`HeadIsHeaviest` is not inductive: a crash rewinds the head to an ancestor, and an
interrupted task drops its block from the tree. `IInv` adds that the tree is closed
under ancestors with weights that grow along a chain (`TreeInv`), and that a block on
its way is its signer's own, on a parent the signer holds, held by nobody and built on
by nobody (`SealInv`), so that dropping it hurts nothing (`DropPending`).
`TypeCorrect` needs besides the count of crashes (`Tally`). For `SealedAreValid` every snapshot of the tree is well formed (`SnapInv`),
and `PermittedIsApplied` of `SnapshotProofs` does the rest: the block is valid on the
snapshot of its parent, whatever became of the head since.

`SnapshotStoreProofs` proves, for any number of callers, any tree, epoch, interval
and threshold:

- `SnapshotsAreSound`: `HeldSound`;
- `StoreImplements`: the refinement `Refines`, where the headers start at genesis and
  no window is longer than an epoch.

The invariant `IInv` says how lines fit
together (`Lines`), that sets and true snapshots follow the line (`Sets`, `Truths`),
that forks are short (`Forks`), that a call stands on the line of its block with the
snapshot of the block of that number (`Calls`), and that memory and disk are sound.
`Forks` is needed for `WalkTrust`, which reads the *canonical* header of a number: it
is the one on the call's own line only because it is deeper than any fork
(`TrustedIsCurrent`). For the refinement `RInv` says what a trusted header costs: a
snapshot computed from the header at `m` is the true one without the entries up to `m`
(`Cut`, `Above`), and only until the window has passed `m` (`AboveHeals`). That is
before the next epoch, so no cleanup, which counts entries, ever sees such a window;
and by `Buried` it is so far below the tip that neither `MayAnswer` nor `Admitted`
concerns it (`FitsMayAnswer`, `ImportExact`). Each step of a call is then a step of
`Authorization` or a stutter (`StepMaps`). The two hypotheses are needed: a root above
genesis gives `MCSnapshotLight`, and over a shorter epoch a cleanup could count a
thinned window.

`SystemContractsProofs` proves, for every finite number of validators and stakers
and every number of blocks and coins:

- `TopAlwaysSound`: `TopSound`, inductive with the types of `status` and of the
  highest set (`TopInv`); one lemma per way the set changes. It discharges for the
  engine what `HeaderChain` assumes of `ValidatorSets`: that they are not empty;
- `PunishAlwaysListed`: `PunishListed`, from a lemma per operation of Punish. That
  `punish` is called for a validator at all needs the engine's side: the signers are
  a nonempty set, and by a pigeonhole argument (`RankTaken`) one of them has its turn;
- `RejoinAlwaysNeedsVote`: the action property `RejoinNeedsVote`, from the same
  `AllInv` with `ProposalInv`, that an existing proposal is about a validator;
- `StakeAlwaysConserved`, `StakesAlwaysReturnable`, `TypeCorrect`: `StakeConserved`,
  `StakesReturnable` and the types.

The last three follow from one invariant, `LedgerInv`; none of them is inductive by
itself. A validator's coins are the sum of its stakers' records that are not being
withdrawn, and the total is the sum over validators, so a record is never larger than
either and no subtraction of an unstake goes below zero, which is what the types need.
That the swap in `unstake` finds its entry needs that the list of a validator and the
indices in the records agree (`Book`): at the first position a stale entry may be left
behind, every other position and every index of an account that earns is right.
Sums over sets are `SumFunction` of the community
modules. What an induction would give about them (how a sum changes with one
argument, that it bounds its terms) is proved by a least counterexample: a set for
which the claim fails has, being finite, a smallest such subset (`LeastSubset`), and
taking a member from that one refutes it. No theorem with an operator as a parameter
is used.

Its second part is about `Rewards`. For all fees and percentages:

- `JailedNeverEarns`: the action property `JailedEarnsNothing`. Both ways an income
  grows share among `Eligible` validators; a confiscated income is shared without the
  one it is taken from, and the fees are shared by the status after the punishment;
- `CoinsRefineContracts`: `CoinSpec => Spec`. Every step with coins is a step of
  `SystemContracts`, so all theorems above hold in it;
- `StakersPartHolds`, `AlwaysSolvent`: `StakersPart` and `Solvent`, stakes of zero
  included.

That the rounded debts to stakers stay within the pool is not inductive: with the next
fee a debt can gain, besides its part of the fee, the fraction that earlier divisions
left out, so the sum of the debts may grow by more than the fee. `CoinInv` therefore
bounds the *unrounded* debts (`Covered`): the sum over stakers of coins times the
growth of the reward per coin is at most the pool times `Unit` and what is
`backdated`. Every operation keeps that bound, and rounding down at the end gives `StakersPart`. The rest of `CoinInv` says
that a staker with a stake time has a stake that earns and a reward that is not negative
(`Timed`), and that the balance covers the stakes, the incomes, the fund and the pool
(`Funded`), which gives `Solvent`. A stake after a stake of zero keeps its stake time and
raises the unrounded debt without a fee; `CreditKeeps` shows that the rise is just what
is added to `backdated`, so that `MCZeroStake` is the only way the parts are exceeded.

`GovernanceProofs` proves, for any validators, users, transactions and proposals:

- `AcceptedUnlessCoinbaseCalls`: `AssembledIsAccepted`;
- `AlwaysExecutedOnce`: `ExecutedOnce`;
- `PassedAlwaysExecuted`: the action property `PassedExecuted`.

The invariant says of the head, of the state in the making and of that of a sealed block
that every proposal is once in one of the two lists (`Sound`) and that there are none
before RedCoast (`Early`); of the block in the making that processing its transactions on
the head leads to just its state with none set aside (`LeadsTo`) until the worker takes
one the importer takes for the engine's own; from then on the importer's state lags
behind by the nonce of the coinbase (`Strays`), and no proposal can make up for it, so
the block is refused (`MCMinerCalls`). While proposals are executed `Sound` does not hold, since an executed
one is still in the list of the passed: `Halfway` says what does, and that the proposals
to be executed stay where they were while others pass; `FinishOne`, that moving the last
proposal to the place of a finished one loses none. `ReplayedAlike` and `ProcessSystem`
then show that the importer goes through the same states. Each loop is a recursive
function; that it exists, hence has the values of its definition, and what holds after
each round are inductions, done with `UpTo` on the set of numbers for which a claim holds.

`AddressListsProofs` proves `CachesAreSound` and `DenialsAreRight` for any tree,
lists, fork numbers and threads. The invariant says that what a block changed carries
its number from Sophon on (`BlockInv`), and that a block in execution has either
executed nothing, so that its state is the parent's, or finds the parent cached
(`ThreadInv`); that is why passing the state in the making as the parent's is sound.

`X402Proofs` proves `NonceSettledOnce`, that is `SettledOnce`, with `NonceInv`: a key
that has passed is in the map of used nonces.

Constants carry named assumptions in the module that declares them. They are facts
about the parameters of a deployment (an epoch longer than one block, a threshold for
removal above one, percentages that add up) except the fork lengths of
`ImmutableAssumption`, which ask for twice the depth of a reorganisation where
`congress.go:409-424` compares with the threshold once. `StoreImplements` and
`SealedAreValid` have the hypotheses named with them.

Only model-checked: the liveness properties `WeightsConverge` and `SettledGrows`
(liveness and `ENABLED` are out of the prover's reach), the two violated runs and the
further configurations.

## Not modelled

- Slashing: every valid report reverts, because `removeValidator` accepts the Punish
  contract only. `isJailed`, which Proposal consults, is therefore FALSE in the model.
- Tiers of validators are views; `ValidatorController` is an older front end no other
  contract or engine call refers to; the amounts per transaction `Finalize` collects
  reach an event only.
- Contract upgrades install byte code once, at fork blocks; the RPC of the engine
  reads snapshots. SysGov and AddressList are byte code: modelled from their use.
- Of a governance proposal only that it may pass another is kept; its gas and the
  erasure of code are left out. A node that has validators' rights but no signing
  function for transactions is not modelled, nor is a database that fails to write.
- X402 beyond the signature, `handler_x402_fix.go` and
  `api_x402_validator_rewards.go`: nothing reaches them.
- The parallel processor: only its tests call it.
- The genesis file shipped with the repository sets neither RedCoast nor Sophon; the
  networks built into `node/params/config.go` do, and `Governance` and `AddressLists`
  are about those.
- Of block import: `insertSideChain` and `writeKnownBlock`, which write what a
  later import would, the dropping of tasks seven blocks old (`worker.go:393`), and
  `ErrUnknownAncestor` for a batch of headers that do not follow each other
  (`congress.go:447-456`), after which nothing has changed.
- Calls of the `onlyMiner` functions of the contracts by anybody but the engine, which
  the contracts would accept from the coinbase; the fees of block 1.
- Failing calls at the end of a block: `FinalizeAndAssemble` logs an error of the epoch
  update (`congress.go:847-852`), and panics in other places, where `Finalize` returns it.
- Inherited go-ethereum code, scripts and middleware. Header fields such as the
  timestamp, the gas limit and the signature are checked by `verifyHeader` one at a
  time and relate to nothing else here.

## Left to do

1. How many blocks an absent validator must miss per epoch to be jailed
   (`Punish.sol:102`), by counting over the length of an epoch.
2. `Chain`: `Congress` over `SystemContracts`, the selected sets those of the contracts.
3. The parallel processor, if it is put to use.
