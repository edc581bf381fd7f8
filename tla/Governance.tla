----------------------------- MODULE Governance -----------------------------
(***************************************************************************)
(* Governance proposals at the end of a block.  FinalizeAndAssemble        *)
(* executes the passed proposals of the SysGov contract and appends a      *)
(* signed transaction for each; Finalize replays them on every other node  *)
(* from the transactions it took out of the block.  SysGov is byte code    *)
(* and external: a list of passed proposals, from which a finished one is  *)
(* removed by moving the last one to its place.                            *)
(***************************************************************************)
EXTENDS Integers, Sequences, SequencesExt, FiniteSets

CONSTANTS
    Validators,
    Users,          \* other accounts that send transactions; they may pass proposals
    RedCoastBlock,
    MaxTxs,         \* bound: transactions of a block before the system ones
    MaxNumber,      \* bound: block number
    MaxIds          \* bound: proposals

ASSUME GovernanceAssumption ==
    /\ Validators \cap Users = {}
    /\ "none" \notin Validators
    /\ RedCoastBlock \in Nat /\ MaxTxs \in Nat /\ MaxNumber \in Nat /\ MaxIds \in Nat

VARIABLES
    number,  \* head of the chain
    st,      \* its state: passed, executed, count of proposals, nonces
    work,    \* block in the making on top of it, or NoWork
    block    \* block sealed on top of it, or NoBlock

vars == <<number, st, work, block>>

NoWork == [coinbase |-> "none"]
NoBlock == [coinbase |-> "none"]

IsRedCoast(n) == n >= RedCoastBlock

(* The SysGov contract *)

\* A proposal may pass another one when it is executed.
commitProposal(s, again) ==
    [s EXCEPT !.passed = Append(@, [id |-> s.count + 1, again |-> again]), !.count = @ + 1]

finishProposalById(s, id) ==
    LET i == CHOOSE k \in DOMAIN s.passed : s.passed[k].id = id
    IN  [s EXCEPT !.passed = Front([@ EXCEPT ![i] = Last(s.passed)])]

Executed(s, prop) ==
    LET t == [s EXCEPT !.executed = Append(@, prop.id)]
    IN  IF prop.again THEN commitProposal(t, FALSE) ELSE t

\* Mutant: one proposal short.
PassedButLast(s) == IF s.passed = <<>> THEN <<>> ELSE Front(s.passed)

\* getPassedProposalCount, and getPassedProposalByIndex for every index below it.
getPassedProposals(s) == s.passed

\* Mutant: only the first one is finished.
FinishFirst(s, props) ==
    IF props = <<>> THEN s ELSE finishProposalById(s, Head(props).id)

\* The states after none, one, ... and all of props are finished, in their order.
Finishing(s, props) ==
    LET after[i \in 0 .. Len(props)] ==
            IF i = 0 THEN s ELSE finishProposalById(after[i - 1], props[i].id)
    IN  after

FinishAll(s, props) == Finishing(s, props)[Len(props)]

(* Transactions *)

\* A transaction to be signed by from in state s.
Tx(s, from, to, free, data) ==
    [from |-> from, to |-> to, free |-> free, nonce |-> s.nonce[from], data |-> data]

Targets == {"SysGov", "SysGovTo"}

NoData == [id |-> 0, again |-> FALSE]

IsSysTransaction(tx, coinbase) ==
    /\ tx.from = coinbase
    /\ \/ tx.to = "SysGovTo" /\ tx.free
       \/ tx.to = "SysGov"

\* An ordinary transaction, of the worker and of Process: SysGov exists from
\* RedCoast on, and its admin passes proposals in it.
Applied(s, n, tx) ==
    LET t == [s EXCEPT !.nonce[tx.from] = @ + 1]
    IN  IF tx.data.id # 0 /\ IsRedCoast(n) THEN commitProposal(t, tx.data.again) ELSE t

(* Assembling *)

executeProposal(s, v, prop) ==
    LET tx == Tx(s, v, "SysGovTo", TRUE, prop)
    IN  [s |-> Executed([s EXCEPT !.nonce[v] = @ + 1], prop), tx |-> tx]

ExecuteNext(r, v, prop) ==
    LET e == executeProposal(r.s, v, prop)
    IN  [s |-> e.s, txs |-> Append(r.txs, e.tx)]

Executing(s, v, props) ==
    LET after[i \in 0 .. Len(props)] ==
            IF i = 0 THEN [s |-> s, txs |-> <<>>]
            ELSE ExecuteNext(after[i - 1], v, props[i])
    IN  after

ExecuteAll(s, v, props) == Executing(s, v, props)[Len(props)]

\* Mutant: the proposals are read from the state of the parent.
AssembleParent(s, n, v, txs) ==
    IF ~IsRedCoast(n) THEN [coinbase |-> v, txs |-> txs, post |-> s]
    ELSE LET r == ExecuteAll(s, v, getPassedProposals(st))
         IN  [coinbase |-> v, txs |-> txs \o r.txs,
              post |-> FinishAll(r.s, getPassedProposals(st))]

\* All are executed before the first is finished, since finishing changes the
\* order of those that are left.
FinalizeAndAssemble(s, n, v, txs) ==
    IF ~IsRedCoast(n) THEN [coinbase |-> v, txs |-> txs, post |-> s]
    ELSE LET props == getPassedProposals(s)
             r == ExecuteAll(s, v, props)
         IN  [coinbase |-> v, txs |-> txs \o r.txs, post |-> FinishAll(r.s, props)]

(* Importing *)

replayProposal(s, tx, prop) == Executed([s EXCEPT !.nonce[tx.from] = @ + 1], prop)

Replayable(coinbase, systemTxs, props) ==
    /\ Len(props) = Len(systemTxs)
    /\ \A i \in DOMAIN props : systemTxs[i].from = coinbase /\ systemTxs[i].data = props[i]

Replaying(s, systemTxs, props) ==
    LET after[i \in 0 .. Len(props)] ==
            IF i = 0 THEN s ELSE replayProposal(after[i - 1], systemTxs[i], props[i])
    IN  after

ReplayAll(s, systemTxs, props) == Replaying(s, systemTxs, props)[Len(props)]

Finalize(s, n, systemTxs) ==
    IF ~IsRedCoast(n) THEN s
    ELSE LET props == getPassedProposals(s)
         IN  FinishAll(ReplayAll(s, systemTxs, props), props)

\* The loop of Process: a system transaction is set aside, any other is applied,
\* which takes the right nonce.
ProcessTx(r, n, coinbase, tx) ==
    IF IsSysTransaction(tx, coinbase)
    THEN [r EXCEPT !.systemTxs = Append(@, tx)]
    ELSE [r EXCEPT !.s = Applied(@, n, tx),
                   !.fits = @ /\ tx.nonce = r.s.nonce[tx.from]]

Unprocessed(s) == [s |-> s, systemTxs |-> <<>>, fits |-> TRUE]

Processing(s, n, b) ==
    LET after[i \in 0 .. Len(b.txs)] ==
            IF i = 0 THEN Unprocessed(s)
            ELSE ProcessTx(after[i - 1], n, b.coinbase, b.txs[i])
    IN  after

\* Process on top of s, and ValidateState: the nonces fit, the system transactions
\* are those of the passed proposals, and the state is the one in the header.
Accepts(s, n, b) ==
    LET r == Processing(s, n, b)[Len(b.txs)]
    IN  /\ r.fits
        /\ IsRedCoast(n) => Replayable(b.coinbase, r.systemTxs, getPassedProposals(r.s))
        /\ Finalize(r.s, n, r.systemTxs) = b.post

(* Steps *)

Init ==
    /\ number = 0
    /\ st = [passed |-> <<>>, executed |-> <<>>, count |-> 0,
             nonce |-> [a \in Validators \cup Users |-> 0]]
    /\ work = NoWork
    /\ block = NoBlock

\* commitNewWork, for a block on the head.
NewWork(v) ==
    /\ work = NoWork /\ block = NoBlock
    /\ number < MaxNumber
    /\ work' = [coinbase |-> v, s |-> st, txs |-> <<>>]
    /\ UNCHANGED <<number, st, block>>

\* commitTransactions: the worker takes a transaction of the pool, whoever sent it.
\* It asks the engine for ValidateTx only, and never for IsSysTransaction.
Commit(from, to, free, data) ==
    LET tx == Tx(work.s, from, to, free, data)
    IN  /\ work # NoWork
        /\ Len(work.txs) < MaxTxs
        /\ data # NoData => work.s.count < MaxIds
        /\ work' = [work EXCEPT !.s = Applied(@, number + 1, tx), !.txs = Append(@, tx)]
        /\ UNCHANGED <<number, st, block>>

\* commit: the block is assembled and sealed.
Seal ==
    /\ work # NoWork
    /\ block' = FinalizeAndAssemble(work.s, number + 1, work.coinbase, work.txs)
    /\ work' = NoWork
    /\ UNCHANGED <<number, st>>

\* The other nodes process the block, and build on it if they accept it.
Import ==
    /\ block # NoBlock
    /\ IF Accepts(st, number + 1, block)
       THEN number' = number + 1 /\ st' = block.post
       ELSE UNCHANGED <<number, st>>
    /\ block' = NoBlock
    /\ UNCHANGED work

Bounded == number = MaxNumber /\ UNCHANGED vars

Next ==
    \/ \E v \in Validators : NewWork(v)
    \/ \E from \in Validators \cup Users, to \in Targets, free \in BOOLEAN :
          Commit(from, to, free, NoData)
    \/ \E from \in Users, again \in BOOLEAN :
          Commit(from, "SysGov", FALSE, [id |-> 1, again |-> again])
    \/ Seal
    \/ Import
    \/ Bounded

Spec == Init /\ [][Next]_vars

-----------------------------------------------------------------------------
(* Properties *)

\* The coinbase's own call of the contract; the engine's transactions carry a
\* proposal.
CallsContract(b) ==
    \E i \in DOMAIN b.txs :
        IsSysTransaction(b.txs[i], b.coinbase) /\ b.txs[i].data = NoData

\* FinalizeAndAssemble and Finalize are two copies of one sequence of steps: a
\* block the worker assembles, whatever the proposals do when they are executed, is
\* one that every node accepts, unless the worker took a transaction of its own
\* coinbase to the contract, which Process sets aside.  With one of these the
\* sealed block is never accepted, before RedCoast or after.
AssembledIsAccepted ==
    block # NoBlock => (Accepts(st, number + 1, block) <=> ~CallsContract(block))

\* What the worker would have if it asked for IsSysTransaction, which does not hold:
\* every block it assembles is accepted.
AlwaysAccepted == block # NoBlock => Accepts(st, number + 1, block)

Ids(s) == {s.passed[i].id : i \in DOMAIN s.passed}

\* Every proposal is waiting or executed, not both, and none is executed twice,
\* although finishing one reorders the rest and proposals pass while others are
\* executed.
ExecutedOnce ==
    /\ IsInjective(st.executed)
    /\ Cardinality(Ids(st)) = Len(st.passed)
    /\ Ids(st) \cap Range(st.executed) = {}
    /\ Ids(st) \cup Range(st.executed) = 1 .. st.count

\* A proposal waits for no more than one block: what was passed before a block is
\* executed by it, although the list is read by index and shortened on the way.
PassedExecuted ==
    [][number' > number => Ids(st) \subseteq Range(st'.executed)]_vars

=============================================================================
