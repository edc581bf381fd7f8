---------------------------- MODULE HeaderChain ----------------------------
(***************************************************************************)
(* One chain of headers growing under the authorization rules of the       *)
(* Congress engine, from a snapshot taken at a trusted checkpoint (genesis *)
(* or an epoch block).  A block is added either by a node that seals it    *)
(* itself, which writes it after the checks of Seal and no others, or by   *)
(* one that imports it after verifySeal.  Whether the chain can go on is   *)
(* decided by apply: a block whose header apply refuses is stored, but no  *)
(* snapshot exists on top of it and every later Prepare, Seal and          *)
(* verifySeal of a child returns that error.                               *)
(***************************************************************************)
EXTENDS Snapshot

CONSTANTS
    Start,          \* number of the trusted checkpoint
    ValidatorSets,  \* the sets getTopValidators may return at an epoch
    MaxNumber       \* bound: the chain is explored up to this number

ASSUME StartAssumption ==
    Start \in Nat /\ MaxNumber \in Nat /\ Start % Epoch = 0 /\ Start <= MaxNumber
ASSUME ValidatorSetsAssumption ==
    ValidatorSets \subseteq (SUBSET Address) \ {{}}
\* uint64 is wide enough for every block number and every window.
ASSUME WidthAssumption ==
    \A V \in ValidatorSets : MaxNumber + 2 * Limit(V) < Word

VARIABLES
    chain,   \* number -> signer of the block, and the set that authorised it
    snap,    \* snapshot at the last block apply accepted
    usable   \* FALSE: c.snapshot at the tip of the chain returns an error

vars == <<chain, snap, usable>>

\* The header Prepare makes for v on top of the tip.  An epoch header carries
\* the validators getTopValidators returned, any other none.
Prepare(v, top) ==
    [number     |-> snap.number + 1,
     signer     |-> v,
     difficulty |-> CalcDifficulty(snap, v),
     extra      |-> IF IsEpoch(snap.number + 1) THEN top ELSE {}]

Init ==
    /\ \E V \in ValidatorSets : snap = newSnapshot(Start, V)
    /\ chain = [b \in {} |-> 0]
    /\ usable = TRUE

\* Block h is written on the tip; the snapshot on top of it is apply's.
Write(h) ==
    /\ chain' = [b \in (DOMAIN chain) \cup {h.number} |->
                   IF b = h.number
                   THEN [signer |-> h.signer, set |-> snap.validators]
                   ELSE chain[b]]
    /\ usable' = ApplyOK(snap, h)
    /\ snap' = IF ApplyOK(snap, h) THEN Apply(snap, h) ELSE snap

\* A node seals a block: resultLoop writes it without a call of verifySeal.
SealBlock(v, top) ==
    /\ usable
    /\ snap.number < MaxNumber
    /\ SealPermits(snap, snap.number + 1, v)
    /\ Write(Prepare(v, top))

\* A node imports a block that some validator made.
ImportBlock(v, top, difficulty) ==
    LET h == [Prepare(v, top) EXCEPT !.difficulty = difficulty]
    IN  /\ usable
        /\ snap.number < MaxNumber
        /\ VerifySeal(snap, h)
        /\ Write(h)

\* The bound is reached.
Bounded ==
    /\ snap.number = MaxNumber
    /\ UNCHANGED vars

\* c.snapshot at the tip returns apply's error: Prepare, Seal and verifySeal of
\* a child all end with it, and no block is written on this chain.
Halted ==
    /\ ~ usable
    /\ UNCHANGED vars

Next ==
    \/ \E v \in Address, top \in ValidatorSets : SealBlock(v, top)
    \/ \E v \in Address, top \in ValidatorSets, d \in {diffInTurn, diffNoTurn} :
          ImportBlock(v, top, d)
    \/ Bounded
    \/ Halted

Spec == Init /\ [][Next]_vars

-----------------------------------------------------------------------------
(* Properties *)

\* The variables have the types the engine gives them.
TypeOK ==
    /\ usable \in BOOLEAN
    /\ snap.number \in Start .. MaxNumber
    /\ snap.validators \in ValidatorSets
    /\ DOMAIN snap.recents \subseteq Nat
    /\ \A b \in DOMAIN snap.recents : snap.recents[b] \in Address
    /\ DOMAIN chain \subseteq Start + 1 .. MaxNumber
    /\ \A b \in DOMAIN chain : /\ chain[b].signer \in Address
                             /\ chain[b].set \in ValidatorSets

\* Recents holds only blocks of the window of the set in force, each with the
\* signer the chain has at that number, and no signer twice: the cleanups of
\* an epoch leave no entry behind and invent none.
RecentsMirrorChain ==
    /\ \A b \in DOMAIN snap.recents :
          /\ b > snap.number - Limit(snap.validators)
          /\ b <= snap.number
          /\ b \in DOMAIN chain
          /\ snap.recents[b] = chain[b].signer
    /\ IsInjective(snap.recents)

\* The promise of the window, for the blocks apply accepted: between two blocks
\* of one signer lie at least as many blocks as the window of some validator
\* set in force in between, over any number of set changes and cleanups.  A
\* signer that left the set may come back sooner when an epoch is shorter than
\* the window, but not before a whole epoch has passed.
SignersSpaced ==
    \A a, b \in DOMAIN chain :
        a < b /\ b <= snap.number /\ chain[a].signer = chain[b].signer
           => \E k \in a + 1 .. b :
                 \/ b - a >= Limit(chain[k].set)
                 \/ b - a > Epoch /\ chain[a].signer \notin chain[k].set

\* The case in which Seal signs what apply refuses: of two validators, the one
\* that signed the last block counts as the oldest of a window that is three
\* quarters full.
SecondInARow(s, v) ==
    /\ Cardinality(s.validators) = 2
    /\ s.number \in DOMAIN s.recents
    /\ s.recents[s.number] = v

\* The first blocks after genesis, whose window would begin before it:
\* verifySeal's subtraction wraps around.
BeforeWindow(s) == s.number + 1 < Limit(s.validators)

\* A block that Seal lets a validator sign is one that every other node's
\* verifySeal accepts and on which the chain can go on, but for the second
\* block in a row of one of two validators.
SealSound ==
    usable =>
      \A v \in Address, top \in ValidatorSets :
         SealPermits(snap, snap.number + 1, v) /\ ~ SecondInARow(snap, v)
            => VerifySeal(snap, Prepare(v, top)) /\ ApplyOK(snap, Prepare(v, top))

\* A header that verifySeal accepts is one apply accepts, but for the first
\* blocks after genesis: import never leaves a chain without a snapshot at its
\* tip.
VerifiedApplies ==
    usable /\ ~ BeforeWindow(snap) =>
      \A v \in Address, top \in ValidatorSets :
         VerifySeal(snap, Prepare(v, top)) => ApplyOK(snap, Prepare(v, top))

\* No epoch change halts the chain: at every block all but Limit - 1 of the
\* validators may sign the next one, so that many may be offline, and a block
\* on which the chain cannot go on is one of the two cases above.
EnoughSealers ==
    /\ Cardinality({v \in snap.validators :
                       SealPermits(snap, snap.number + 1, v)})
         >= Cardinality(snap.validators) - Limit(snap.validators) + 1
    /\ usable \/ BeforeWindow(snap)
              \/ SecondInARow(snap, chain[snap.number + 1].signer)

\* Without the two cases, as a deployment with two validators or one that is
\* starting would have it.  Both are violated.
AllSealSound ==
    usable =>
      \A v \in Address, top \in ValidatorSets :
         SealPermits(snap, snap.number + 1, v) => ApplyOK(snap, Prepare(v, top))
AllVerifiedApply ==
    usable =>
      \A v \in Address, top \in ValidatorSets :
         VerifySeal(snap, Prepare(v, top)) => ApplyOK(snap, Prepare(v, top))

=============================================================================
