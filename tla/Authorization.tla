--------------------------- MODULE Authorization ---------------------------
(***************************************************************************)
(* What the callers of Congress.snapshot rely on, with no cache, no disk   *)
(* and no walk: every block has one snapshot, apply of its header to the   *)
(* snapshot of its parent.  A caller is given that snapshot, and a block   *)
(* enters the tree by the verdict of verifySeal on it.  Of a block buried  *)
(* so deep that the chain no longer forks there a caller may be given a    *)
(* snapshot whose window lacks some entries, but never another validator   *)
(* set nor a signer that is not in the window.                             *)
(***************************************************************************)
EXTENDS Integers

CONSTANTS
    Callers,          \* the goroutines that call snapshot
    Depth,            \* answers for blocks at most this deep are exact
    Invalid,          \* no snapshot
    Extended(_, _),   \* apply: the snapshot after a header, or Invalid
    VerifySeal(_, _)  \* verifySeal: a header is accepted on a snapshot

VARIABLES
    blocks,     \* block -> [number, parent, signer, difficulty, extra, set]
    truth,      \* block -> its snapshot, or Invalid if apply fails on its line
    answers     \* caller -> {}, or the block it asked for with what it got

vars == <<blocks, truth, answers>>

Tip == CHOOSE n \in {blocks[b].number : b \in DOMAIN blocks} :
          \A b \in DOMAIN blocks : blocks[b].number <= n

\* s is the snapshot t, or t with entries of the window missing.
Thinned(s, t) ==
    t # Invalid => /\ s # Invalid
                   /\ s.number = t.number
                   /\ s.validators = t.validators
                   /\ DOMAIN s.recents \subseteq DOMAIN t.recents
                   /\ \A n \in DOMAIN s.recents : s.recents[n] = t.recents[n]

MayAnswer(b, s) == IF blocks[b].number + Depth >= Tip
                   THEN s = truth[b]
                   ELSE Thinned(s, truth[b])

\* One block, the root of the tree, whose snapshot is known.
Init ==
    /\ \E b \in DOMAIN blocks : DOMAIN blocks = {b}
    /\ DOMAIN truth = DOMAIN blocks
    /\ answers = [p \in Callers |-> {}]

Answer(p) ==
    /\ \E a \in answers'[p] : /\ answers'[p] = {a}
                              /\ a.block \in DOMAIN blocks
                              /\ MayAnswer(a.block, a.snap)
    /\ \A q \in Callers \ {p} : answers'[q] = answers[q]
    /\ UNCHANGED <<blocks, truth>>

\* A caller forgets, or a crash makes all of them forget.
Forget ==
    /\ \A q \in Callers : answers'[q] \in {answers[q], {}}
    /\ UNCHANGED <<blocks, truth>>

\* A block is imported on the one a caller asked for, if verifySeal accepts
\* its header on the snapshot of that block.
Import(p) ==
    /\ \E a \in answers[p], b \in (DOMAIN blocks') \ (DOMAIN blocks) :
          /\ DOMAIN blocks' = (DOMAIN blocks) \cup {b}
          /\ blocks'[b].parent = a.block
          /\ VerifySeal(truth[a.block], blocks'[b])
          /\ \A c \in DOMAIN blocks : blocks'[c] = blocks[c]
          /\ truth' = [c \in DOMAIN blocks' |->
                         IF c = b THEN Extended(truth[a.block], blocks'[b])
                         ELSE truth[c]]
    /\ UNCHANGED answers

Next ==
    \/ \E p \in Callers : Answer(p)
    \/ Forget
    \/ \E p \in Callers : Import(p)

Spec == Init /\ [][Next]_vars

=============================================================================
