------------------------------ MODULE Congress ------------------------------
(***************************************************************************)
(* A network of nodes that seal, release and import blocks under the       *)
(* Congress engine.  Every node keeps a tree of blocks and a head; the     *)
(* fork choice is by total difficulty.  A sealing task is started on the   *)
(* head of the moment (commitNewWork, Prepare, Seal) and its block comes   *)
(* back after a delay (resultLoop), by which time the head may be another  *)
(* one.  A released block reaches the other nodes in any order and at any  *)
(* time; what a node does with it is decided by verifySeal, apply and the  *)
(* fork choice of the node.                                                *)
(*                                                                         *)
(* A block is identified by its path from genesis, the sequence of the     *)
(* fields of its headers that tell blocks apart: the signer, the validator *)
(* set the contracts select after it, and a salt that stands for the       *)
(* timestamp and the transactions.  A hash commits to the same path.       *)
(***************************************************************************)
EXTENDS Snapshot, Sequences, SequencesExt

CONSTANTS
    Genesis,      \* the validators of the genesis block
    Online,       \* the nodes that take steps
    TopSets,      \* the sets the contracts may select
    Salts,        \* bound: the blocks one validator can make on one parent
    MaxNumber,    \* bound: no block with a larger number is made
    MaxBlocks,    \* bound: the blocks signed and not dropped, genesis included
    MaxCrashes    \* bound: the number of crashes

ASSUME NetworkAssumption ==
    /\ Genesis \in (SUBSET Address) \ {{}}
    /\ Online \subseteq Address
    /\ TopSets \subseteq (SUBSET Address) \ {{}}
    /\ Salts \subseteq Nat
    /\ MaxNumber \in Nat /\ MaxBlocks \in Nat /\ MaxCrashes \in Nat

VARIABLES
    tree,     \* block -> what the engine knows of it, for every signed block
              \*          that is held by a node or may still be released
    stored,   \* node -> the blocks it holds, with their state
    head,     \* node -> its current block
    sealing,  \* node -> blocks signed whose result is on its way
    crashes   \* number of crashes so far

vars == <<tree, stored, head, sealing, crashes>>

genesis == <<>>

Parent(b) == Front(b)
Number(b) == Len(b)
Ancestors(b) == {SubSeq(b, 1, k) : k \in 0 .. Len(b)}

\* The set getTopValidators returns in the state of block p.
getTopValidators(p) == IF p = genesis THEN Genesis ELSE Last(p).top

\* Mutant: the turn of the validator is not looked at.
PrepareInTurn(p, v) ==
    [number     |-> Number(p) + 1,
     signer     |-> v,
     difficulty |-> diffInTurn,
     extra      |-> IF IsEpoch(Number(p) + 1) THEN getTopValidators(p) ELSE {}]

\* The header Prepare makes for v on top of block p.
Prepare(p, v) ==
    [number     |-> Number(p) + 1,
     signer     |-> v,
     difficulty |-> CalcDifficulty(tree[p].snap, v),
     extra      |-> IF IsEpoch(Number(p) + 1) THEN getTopValidators(p) ELSE {}]

\* Block p with header h on top of it: its total difficulty and, if apply
\* accepts h, the snapshot after it.
Entry(p, h) ==
    [header |-> h,
     td     |-> tree[p].td + h.difficulty,
     usable |-> ApplyOK(tree[p].snap, h),
     snap   |-> IF ApplyOK(tree[p].snap, h) THEN Apply(tree[p].snap, h) ELSE tree[p].snap]

Init ==
    /\ tree = [b \in {genesis} |->
                 [header |-> [number |-> 0, signer |-> 0, difficulty |-> 1, extra |-> Genesis],
                  td     |-> 1,
                  usable |-> TRUE,
                  snap   |-> newSnapshot(0, Genesis)]]
    /\ stored = [n \in Online |-> {genesis}]
    /\ head = [n \in Online |-> genesis]
    /\ sealing = [n \in Online |-> {}]
    /\ crashes = 0

-----------------------------------------------------------------------------
(***************************************************************************)
(* The worker.                                                             *)
(***************************************************************************)

\* A later block of one validator on one parent has a later timestamp.
Later(p, n, salt) ==
    \A b \in DOMAIN tree :
        b # genesis /\ Parent(b) = p /\ Last(b).signer = n => Last(b).salt < salt

\* commitNewWork and taskLoop: the node prepares a block on its head and asks
\* Seal for it.  The earlier task is interrupted first, but a result whose
\* timer has fired is no longer stopped.  A head without a snapshot makes
\* Prepare fail; a validator that signed recently is refused by Seal.
NewWork(n) ==
    LET p == head[n] IN
    /\ tree[p].usable
    /\ Number(p) < MaxNumber
    /\ \E fired \in SUBSET sealing[n] :
          LET live == DOMAIN tree \ (sealing[n] \ fired) IN
          IF SealPermits(tree[p].snap, Number(p) + 1, n)
          THEN \E top \in TopSets, salt \in Salts :
                  LET b == Append(p, [signer |-> n, top |-> top, salt |-> salt])
                  IN  /\ Later(p, n, salt)
                      /\ Cardinality(live) < MaxBlocks
                      /\ tree' = [x \in live \cup {b} |->
                                    IF x = b THEN Entry(p, Prepare(p, n)) ELSE tree[x]]
                      /\ sealing' = [sealing EXCEPT ![n] = fired \cup {b}]
          ELSE /\ tree' = Restrict(tree, live)
               /\ sealing' = [sealing EXCEPT ![n] = fired]
    /\ UNCHANGED <<stored, head, crashes>>

\* Mutants: the longer chain wins; a longer chain of the same weight wins; only
\* a block on top of the head becomes the head.
ReorgLongest(n, b) == {Number(b) > Number(head[n])}
ReorgLongerTie(n, b) ==
    {\/ tree[b].td > tree[head[n]].td
     \/ tree[b].td = tree[head[n]].td /\ Number(b) > Number(head[n])}
ReorgOnHead(n, b) == {Parent(b) = head[n]}

\* The fork choice of writeBlockWithState: whether b may become the head of n.
\* Two blocks of one weight and one number are split by a coin, because
\* shouldPreserve is FALSE for this engine.
Reorg(n, b) ==
    LET cur == head[n] IN
    {r \in BOOLEAN :
        /\ tree[b].td > tree[cur].td => r
        /\ tree[b].td < tree[cur].td => ~ r
        /\ tree[b].td = tree[cur].td => /\ Number(b) < Number(cur) => r
                                        /\ Number(b) > Number(cur) => ~ r}

WriteBlockWithState(n, b) ==
    /\ stored' = [stored EXCEPT ![n] = @ \cup {b}]
    /\ \E reorg \in Reorg(n, b) :
          head' = [head EXCEPT ![n] = IF reorg THEN b ELSE @]

\* resultLoop: the signed block is written without another check of its seal,
\* and broadcast.
Release(n, b) ==
    /\ b \in sealing[n]
    /\ sealing' = [sealing EXCEPT ![n] = @ \ {b}]
    /\ WriteBlockWithState(n, b)
    /\ UNCHANGED <<tree, crashes>>

-----------------------------------------------------------------------------
(***************************************************************************)
(* Import and restart.                                                     *)
(***************************************************************************)

\* verifyHeader on top of a parent the node holds.
Verifies(b) ==
    /\ tree[Parent(b)].usable
    /\ VerifySeal(tree[Parent(b)].snap, tree[b].header)

\* insertChain of a block that another node has released.
Import(n, b) ==
    /\ \E m \in Online : b \in stored[m]
    /\ b \notin stored[n]
    /\ Parent(b) \in stored[n]
    /\ Verifies(b)
    /\ WriteBlockWithState(n, b)
    /\ UNCHANGED <<tree, sealing, crashes>>

\* Mutant: the tasks survive the restart, their blocks do not.
CrashKeepsTasks(n) ==
    /\ crashes < MaxCrashes
    /\ crashes' = crashes + 1
    /\ tree' = Restrict(tree, DOMAIN tree \ sealing[n])
    /\ UNCHANGED <<stored, head, sealing>>

\* The process dies and is started again.  Sealing tasks are lost, and the head
\* is rewound to a block whose state had been flushed.
Crash(n) ==
    /\ crashes < MaxCrashes
    /\ crashes' = crashes + 1
    /\ \E b \in Ancestors(head[n]) :
          /\ head' = [head EXCEPT ![n] = b]
          /\ stored' = [stored EXCEPT ![n] = Ancestors(b)]
    /\ sealing' = [sealing EXCEPT ![n] = {}]
    /\ tree' = Restrict(tree, DOMAIN tree \ sealing[n])

\* The bound is reached: no node has anything left to do.
Bounded ==
    /\ \A n \in Online : Number(head[n]) = MaxNumber
    /\ UNCHANGED vars

Next ==
    \/ \E n \in Online : NewWork(n)
    \/ \E n \in Online : \E b \in sealing[n] : Release(n, b)
    \/ \E n \in Online : \E b \in DOMAIN tree \ {genesis} : Import(n, b)
    \/ \E n \in Online : Crash(n)
    \/ Bounded

Spec == Init /\ [][Next]_vars

\* A running node goes on sealing, its timers fire, and blocks its peers hold
\* reach it in the end.
Fairness ==
    \A n \in Online :
        /\ WF_vars(NewWork(n))
        /\ WF_vars(\E b \in sealing[n] : Release(n, b))
        /\ WF_vars(\E b \in DOMAIN tree \ {genesis} : Import(n, b))

FairSpec == Spec /\ Fairness

-----------------------------------------------------------------------------
(* Properties *)

\* The variables have the types the node gives them.
TypeOK ==
    /\ genesis \in DOMAIN tree
    /\ \A b \in DOMAIN tree : /\ tree[b].td \in Nat
                              /\ tree[b].usable \in BOOLEAN
                              /\ b # genesis => Parent(b) \in DOMAIN tree
    /\ stored \in [Online -> SUBSET DOMAIN tree]
    /\ head \in [Online -> DOMAIN tree]
    /\ sealing \in [Online -> SUBSET DOMAIN tree]
    /\ crashes \in 0 .. MaxCrashes

\* A block that a node has signed, even on a head it has since left, is one
\* that every node which holds its parent verifies and can build on.
SealedIsValid ==
    \A b \in DOMAIN tree \ {genesis} : Verifies(b) /\ tree[b].usable

\* The head is a block of greatest total difficulty among those held, although
\* blocks come late, on side chains and from tasks of an earlier head; and the
\* chain below every block held is held too.
HeadIsHeaviest ==
    \A n \in Online :
        /\ head[n] \in stored[n]
        /\ \A b \in stored[n] : /\ tree[b].td <= tree[head[n]].td
                                /\ Ancestors(b) \subseteq stored[n]

\* A running node replaces its head only by a heavier block, or by one of the
\* same weight that is no longer: it never comes back to a head it has left.
HeadImproves ==
    [][\A n \in Online :
          crashes' = crashes /\ head'[n] # head[n]
             => \/ tree[head'[n]].td > tree[head[n]].td
                \/ /\ tree[head'[n]].td = tree[head[n]].td
                   /\ Number(head'[n]) <= Number(head[n])
                   /\ head'[n] \notin stored[n]]_vars

\* Forks do not last for want of weight: in the end all heads weigh the same,
\* whatever the order in which nodes came to hold the blocks.
WeightsConverge ==
    <>[](\A m, n \in Online : tree[head[m]].td = tree[head[n]].td)

\* The nodes agree on a head of weight w, hold the same blocks, and no result
\* of a task on another block is on its way.
Settled(w) ==
    \A m, n \in Online :
        /\ head[m] = head[n] /\ stored[m] = stored[n]
        /\ tree[head[n]].td = w
        /\ Number(head[n]) < MaxNumber
        /\ \A b \in sealing[n] : Parent(b) = head[n]

\* Once the forks are resolved the chain goes on growing, with as many
\* validators offline as the window allows.
SettledGrows ==
    \A w \in 1 .. 2 * MaxNumber + 1 :
        Settled(w) ~> \E n \in Online : tree[head[n]].td > w

\* The chain goes on growing, forks or no forks.
NeverStalls ==
    \A n \in Online : <>(Number(head[n]) = MaxNumber)

=============================================================================
