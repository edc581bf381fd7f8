------------------------------ MODULE Snapshot ------------------------------
(***************************************************************************)
(* The authorization snapshot of the Congress engine: the validator set in *)
(* force after a block and the window of recent signers, as a record       *)
(*                                                                         *)
(*    [number |-> n, validators |-> V, recents |-> r]                      *)
(*                                                                         *)
(* where r maps the numbers of some recent blocks to their signers.  The   *)
(* operators are the methods of Snapshot and the two checks the engine     *)
(* makes with it: verifySeal, made by every node that imports a header,    *)
(* and the one Seal makes before it signs.  The hash of the block is left  *)
(* to the modules that keep a tree of blocks.                              *)
(***************************************************************************)
EXTENDS Integers, FiniteSets, Functions

CONSTANTS
    Address,    \* validator addresses; their order is the byte order
    Epoch,      \* config.Epoch: the validator set changes at its multiples
    Word        \* the modulus of uint64 arithmetic

ASSUME AddressAssumption == Address \subseteq Nat /\ IsFiniteSet(Address)
ASSUME EpochAssumption == Epoch \in Nat \ {0}
ASSUME WordAssumption == Word \in Nat

diffInTurn == 2
diffNoTurn == 1

\* uint64 subtraction: a negative difference wraps around.
USub(a, b) == IF a >= b THEN a - b ELSE (a - b) + Word

\* A validator may sign one block in this many consecutive ones.
Limit(V) == (Cardinality(V) \div 2) + 1

IsEpoch(n) == n > 0 /\ n % Epoch = 0

EmptyWindow == [b \in {} |-> 0]

newSnapshot(n, V) == [number |-> n, validators |-> V, recents |-> EmptyWindow]

-----------------------------------------------------------------------------
(* Deleting entries of the Recents map. *)

Without(r, D) == Restrict(r, (DOMAIN r) \ D)

\* The k largest elements of S: what is left when the oldest block is
\* deleted until k remain.
Newest(S, k) == {b \in S : Cardinality({c \in S : c > b}) < k}

\* Blocks that have left the window of a validator set at block n.
Expired(r, n, V) == {b \in DOMAIN r : n >= Limit(V) /\ b <= n - Limit(V)}

(* The four cleanups apply performs when a block changes the validator set. *)

ExpansionCleanup(r, n, new) ==
    LET kept == Without(r, Expired(r, n, new))
    IN  Restrict(kept, Newest(DOMAIN kept, Cardinality(new) - 1))

ReductionCleanup(r, n, old, new) ==
    LET entriesToClear == (Cardinality(old) \div 2) - (Cardinality(new) \div 2)
        targets == {USub(n, Limit(old) + i) : i \in 0 .. (entriesToClear - 1)}
    IN  Without(r, targets \cup Expired(r, n, new))

ReplacementCleanup(r, n, old, new) ==
    LET validatorsToRemove == IF new \subseteq old
                              THEN {}
                              ELSE {b \in DOMAIN r : r[b] \notin new}
    IN  Without(r, validatorsToRemove \cup Expired(r, n, new))

\* Mutant: two thirds are deleted instead of kept.
EmergencyCleanupThird(r, new) ==
    IF Cardinality(DOMAIN r) >= Cardinality(new)
    THEN Restrict(r, Newest(DOMAIN r, Cardinality(new) \div 3))
    ELSE r

EmergencyCleanup(r, new) ==
    IF Cardinality(DOMAIN r) >= Cardinality(new)
    THEN Restrict(r, Newest(DOMAIN r, (Cardinality(new) * 2) \div 3))
    ELSE r

\* Mutant: no cleanup when the validator set changes.
NoCleanup(r, n, old, new) == r

EpochCleanup(r, n, old, new) ==
    EmergencyCleanup(
        IF Cardinality(new) > Cardinality(old) THEN ExpansionCleanup(r, n, new)
        ELSE IF Cardinality(new) < Cardinality(old)
             THEN ReductionCleanup(r, n, old, new)
             ELSE ReplacementCleanup(r, n, old, new),
        new)

-----------------------------------------------------------------------------
(***************************************************************************)
(* apply, for one header [number, signer, difficulty, extra]; extra is the *)
(* validator set the header of an epoch block announces.                   *)
(***************************************************************************)

\* Mutant: off by one, the entry is deleted one block late.
ShiftedLate(snap, n) ==
    IF n > Limit(snap.validators)
    THEN Without(snap.recents, {(n - Limit(snap.validators)) - 1})
    ELSE snap.recents

\* The window with the entry that block n shifts out deleted.
Shifted(snap, n) ==
    IF n >= Limit(snap.validators)
    THEN Without(snap.recents, {n - Limit(snap.validators)})
    ELSE snap.recents

ApplyOK(snap, h) ==
    /\ h.number = snap.number + 1                           \* errInvalidVotingChain
    /\ h.signer \in snap.validators                         \* errUnauthorizedValidator
    /\ h.signer \notin Range(Shifted(snap, h.number))       \* errRecentlySigned

\* The window with the signer of block n entered.
Entered(r, n, signer) ==
    [b \in (DOMAIN r) \cup {n} |-> IF b = n THEN signer ELSE r[b]]

\* Mutant: the validators are read from every header.
ApplyEveryExtra(snap, h) ==
    LET r == Entered(Shifted(snap, h.number), h.number, h.signer)
    IN  [number |-> h.number, validators |-> h.extra, recents |-> r]

Apply(snap, h) ==
    LET r == Entered(Shifted(snap, h.number), h.number, h.signer)
    IN  [number     |-> h.number,
         validators |-> IF IsEpoch(h.number) THEN h.extra ELSE snap.validators,
         recents    |-> IF IsEpoch(h.number)
                        THEN EpochCleanup(r, h.number, snap.validators, h.extra)
                        ELSE r]

\* No snapshot: apply has returned an error.
Invalid == [number |-> -1, validators |-> {}, recents |-> EmptyWindow]

\* The snapshot of a block with header h on one whose snapshot is snap.
Extended(snap, h) ==
    IF snap # Invalid /\ ApplyOK(snap, h) THEN Apply(snap, h) ELSE Invalid

-----------------------------------------------------------------------------
(* The checks of the engine. *)

\* The position of v in the ascending list of validators is n modulo its
\* length.
InTurn(snap, n, v) ==
    /\ v \in snap.validators
    /\ n % Cardinality(snap.validators)
         = Cardinality({w \in snap.validators : w < v})

CalcDifficulty(snap, v) ==
    IF InTurn(snap, snap.number + 1, v) THEN diffInTurn ELSE diffNoTurn

\* Mutant: off by one, the block that shifts an entry out is counted twice.
VerifySealEarly(snap, h) ==
    /\ h.signer \in snap.validators
    /\ \A seen \in DOMAIN snap.recents :
          snap.recents[seen] = h.signer
             => ~ (seen > USub(h.number + 1, Limit(snap.validators)))
    /\ h.difficulty = IF InTurn(snap, h.number, h.signer)
                      THEN diffInTurn ELSE diffNoTurn

\* verifySeal: the test that lets a node import a header on top of snap.
VerifySeal(snap, h) ==
    /\ h.signer \in snap.validators
    /\ \A seen \in DOMAIN snap.recents :
          snap.recents[seen] = h.signer
             => ~ (seen > USub(h.number, Limit(snap.validators)))
    /\ h.difficulty = IF InTurn(snap, h.number, h.signer)
                      THEN diffInTurn ELSE diffNoTurn

\* Seal's loop over Recents for the entry of val at block seen: TRUE where the
\* loop is left by break, FALSE where Seal returns without signing.
LeavesWindow(snap, n, seen) ==
    n >= Limit(snap.validators) /\ seen <= n - Limit(snap.validators)

IsOldest(snap, val) ==
    \E b \in DOMAIN snap.recents :
        /\ \A c \in DOMAIN snap.recents : b <= c
        /\ snap.recents[b] = val

\* Mutant: half of the validators are taken for three quarters.
DeadlockOverrideHalf(snap, val) ==
    /\ Cardinality(DOMAIN snap.recents) >= Cardinality(snap.validators) \div 2
    /\ IsOldest(snap, val)

DeadlockOverride(snap, val) ==
    /\ Cardinality(DOMAIN snap.recents) >= (Cardinality(snap.validators) * 3) \div 4
    /\ IsOldest(snap, val)

CompleteDeadlockOverride(snap, n, val) ==
    /\ Cardinality(DOMAIN snap.recents) >= Cardinality(snap.validators)
    /\ InTurn(snap, n, val) \/ IsOldest(snap, val)

\* Mutant: an entry that the block shifts out is counted.
SealNotRecent(snap, n, val) ==
    val \in snap.validators /\ val \notin Range(snap.recents)

\* Seal goes on to sign block n for val.  Go visits Recents in no particular
\* order and leaves the loop at the first entry of val that lets it pass.
SealPermits(snap, n, val) ==
    /\ val \in snap.validators
    /\ \/ val \notin Range(snap.recents)
       \/ \E seen \in DOMAIN snap.recents :
             /\ snap.recents[seen] = val
             /\ \/ LeavesWindow(snap, n, seen)
                \/ DeadlockOverride(snap, val)
                \/ CompleteDeadlockOverride(snap, n, val)

-----------------------------------------------------------------------------
\* A window of distinct signers at blocks lo + 1 .. hi.
Window(r, lo, hi) ==
    /\ r \in [DOMAIN r -> Address]
    /\ DOMAIN r \subseteq Nat
    /\ \A b \in DOMAIN r : lo < b /\ b <= hi
    /\ IsInjective(r)

\* What every snapshot the engine computes satisfies.
WellFormed(snap) ==
    /\ snap.number \in Nat
    /\ snap.validators \in (SUBSET Address) \ {{}}
    /\ Window(snap.recents, snap.number - Limit(snap.validators), snap.number)

=============================================================================
