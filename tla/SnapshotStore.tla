--------------------------- MODULE SnapshotStore ---------------------------
(***************************************************************************)
(* Congress.snapshot: how a node finds the authorization snapshot of a     *)
(* block.  Several goroutines (header verification, Prepare, Finalize, the *)
(* RPC) run it at the same time over one cache in memory, the snapshots on *)
(* disk and the header database.  A call walks back from its block until   *)
(* it meets a snapshot in memory, one on disk or a block it may trust, and *)
(* applies the headers it has gathered on the way.  Blocks arrive while    *)
(* the calls run, the canonical chain is reorganised, the cache evicts,    *)
(* the node crashes, and the key-value store can be lost while the headers *)
(* survive in the freezer.                                                 *)
(*                                                                         *)
(* The headers of a batch under verification (parents) are blocks like     *)
(* those of the database: what the walk finds under a hash is the header   *)
(* with that hash.                                                         *)
(***************************************************************************)
EXTENDS Snapshot

CONSTANTS
    Callers,
    ValidatorSets,              \* the sets getTopValidators may return
    checkpointInterval,         \* snapshots at its multiples go to disk
    FullImmutabilityThreshold,  \* params
    MaxReorg,                   \* length of the longest fork
    MaxLimit,                   \* no window is longer than this
    inmemorySnapshots,          \* capacity of the cache
    Root,                       \* number of the first header the node has
    MaxNumber,                  \* bound: height of the tree
    MaxBlocks                   \* bound: blocks in the tree

ASSUME StoreAssumption ==
    /\ ValidatorSets \subseteq (SUBSET Address) \ {{}}
    /\ checkpointInterval \in Nat \ {0}
    /\ FullImmutabilityThreshold \in Nat
    /\ MaxReorg \in Nat /\ MaxLimit \in Nat /\ inmemorySnapshots \in Nat
    /\ Root \in Nat /\ Root % Epoch = 0
    /\ MaxNumber \in Nat /\ MaxBlocks \in Nat

\* Forks are much shorter than the part of the chain that is not yet taken for
\* immutable, and no window is longer than MaxLimit.
ASSUME ImmutableAssumption ==
    /\ MaxReorg + MaxLimit <= FullImmutabilityThreshold
    /\ 2 * MaxReorg <= FullImmutabilityThreshold
    /\ \A V \in ValidatorSets : Limit(V) <= MaxLimit

VARIABLES
    header,   \* block -> its header; line is the chain that ends in it, by
              \* number, and set the validators in force after it
    truth,    \* history: block -> apply folded along its line
    head,     \* the block the canonical chain ends in
    memory,   \* c.recents: block -> snapshot
    disk,     \* the snapshots in c.db: block -> snapshot
    call,     \* caller -> the progress of its call
    trusted   \* history: blocks above genesis snapshotted as checkpoints

vars == <<header, truth, head, memory, disk, call, trusted>>

Block == DOMAIN header

Auth == INSTANCE Authorization WITH
          Depth   <- FullImmutabilityThreshold - MaxLimit,
          blocks  <- header,
          answers <- [p \in Callers |->
                        IF call[p].pc = "done"
                        THEN {[block |-> call[p].target, snap |-> call[p].snap]}
                        ELSE {}]

Put(f, b, s) == [c \in (DOMAIN f) \cup {b} |-> IF c = b THEN s ELSE f[c]]

ByNumber(n) == header[head].line[n]

Known(n) == n \in DOMAIN header[head].line

Idle == [pc |-> "idle", target |-> 0, cur |-> 0, snap |-> Invalid]

-----------------------------------------------------------------------------
\* Windows a root above genesis may have: the engine's own, which end in it.
RootWindows(V) ==
    UNION {{r \in [D \cup {Root} -> V] : IsInjective(r)} :
              D \in SUBSET ((Root - Limit(V)) + 1 .. Root)}

Init ==
    /\ \E V \in ValidatorSets :
          /\ header = [b \in {0} |->
                [number |-> Root, parent |-> 0, signer |-> 0, difficulty |-> 0,
                 extra |-> V, set |-> V, line |-> [n \in {Root} |-> 0]]]
          /\ \E r \in IF Root = 0 THEN {EmptyWindow} ELSE RootWindows(V) :
                truth = [b \in {0} |-> [newSnapshot(Root, V) EXCEPT !.recents = r]]
    /\ head = 0
    /\ memory = EmptyWindow
    /\ disk = EmptyWindow
    /\ call = [p \in Callers |-> Idle]
    /\ trusted = {}

-----------------------------------------------------------------------------
(* One call of snapshot *)

Begin(p, b) ==
    /\ call[p].pc \in {"idle", "done"}
    /\ call' = [call EXCEPT ![p] = [pc |-> "walk", target |-> b, cur |-> b,
                                    snap |-> Invalid]]
    /\ UNCHANGED <<header, truth, head, memory, disk, trusted>>

\* len(headers)
Gathered(p) == header[call[p].target].number - header[call[p].cur].number

Found(p, s) == call' = [call EXCEPT ![p].pc = "apply", ![p].snap = s]

OnDisk(b) == header[b].number % checkpointInterval = 0 /\ b \in DOMAIN disk

\* Mutant: a canonical epoch block is trusted however near it is.
TrustsEveryEpoch(p) ==
    LET n == header[call[p].cur].number
    IN  n % Epoch = 0 /\ Known(n) /\ ByNumber(n) = call[p].cur

\* The walk stands at a block whose validators are taken from the canonical
\* header of its number, with an empty window.
Trusts(p) ==
    LET n == header[call[p].cur].number
    IN  /\ \/ n = 0
           \/ /\ n % Epoch = 0
              /\ \/ Gathered(p) > FullImmutabilityThreshold
                 \/ ~ Known(n - 1)
        /\ Known(n)

WalkMemory(p) ==
    /\ call[p].pc = "walk"
    /\ call[p].cur \in DOMAIN memory
    /\ Found(p, memory[call[p].cur])
    /\ UNCHANGED <<header, truth, head, memory, disk, trusted>>

WalkDisk(p) ==
    /\ call[p].pc = "walk"
    /\ call[p].cur \notin DOMAIN memory
    /\ OnDisk(call[p].cur)
    /\ Found(p, disk[call[p].cur])
    /\ UNCHANGED <<header, truth, head, memory, disk, trusted>>

WalkTrust(p) ==
    LET n          == header[call[p].cur].number
        checkpoint == ByNumber(n)
        s          == newSnapshot(n, header[checkpoint].extra)
    IN  /\ call[p].pc = "walk"
        /\ call[p].cur \notin DOMAIN memory
        /\ ~ OnDisk(call[p].cur)
        /\ Trusts(p)
        /\ Found(p, s)
        /\ disk' = Put(disk, checkpoint, s)
        /\ trusted' = IF n = 0 THEN trusted ELSE trusted \cup {checkpoint}
        /\ UNCHANGED <<header, truth, head, memory>>

WalkBack(p) ==
    /\ call[p].pc = "walk"
    /\ call[p].cur \notin DOMAIN memory
    /\ ~ OnDisk(call[p].cur)
    /\ ~ Trusts(p)
    /\ call' = [call EXCEPT ![p].cur = header[call[p].cur].parent]
    /\ UNCHANGED <<header, truth, head, memory, disk, trusted>>

\* apply, one header; an error ends the call.
ApplyHeader(p) ==
    LET s == call[p].snap
        h == header[header[call[p].target].line[s.number + 1]]
    IN  /\ call[p].pc = "apply"
        /\ s.number < header[call[p].target].number
        /\ call' = IF ApplyOK(s, h)
                   THEN [call EXCEPT ![p].snap = Apply(s, h)]
                   ELSE [call EXCEPT ![p].pc = "done", ![p].snap = Invalid]
        /\ UNCHANGED <<header, truth, head, memory, disk, trusted>>

\* c.recents.Add: a full cache gives up some other snapshot.
AddRecent(p) ==
    LET t == call[p].target
        m == Put(memory, t, call[p].snap)
    IN  /\ call[p].pc = "apply"
        /\ call[p].snap.number = header[t].number
        /\ IF Cardinality(DOMAIN m) <= inmemorySnapshots
           THEN memory' = m
           ELSE \E b \in DOMAIN memory : memory' = Restrict(m, (DOMAIN m) \ {b})
        /\ call' = [call EXCEPT ![p].pc = "store"]
        /\ UNCHANGED <<header, truth, head, disk, trusted>>

\* Mutant: the snapshot is stored under the block the walk ended at.
StoreUnderBase(p) ==
    /\ call[p].pc = "store"
    /\ disk' = IF call[p].snap.number % checkpointInterval = 0 /\ Gathered(p) > 0
               THEN Put(disk, call[p].cur, call[p].snap)
               ELSE disk
    /\ call' = [call EXCEPT ![p].pc = "done"]
    /\ UNCHANGED <<header, truth, head, memory, trusted>>

Store(p) ==
    /\ call[p].pc = "store"
    /\ disk' = IF call[p].snap.number % checkpointInterval = 0 /\ Gathered(p) > 0
               THEN Put(disk, call[p].target, call[p].snap)
               ELSE disk
    /\ call' = [call EXCEPT ![p].pc = "done"]
    /\ UNCHANGED <<header, truth, head, memory, trusted>>

-----------------------------------------------------------------------------
(* The world around the calls *)

\* A block of number n with this line may join the tree: two branches never
\* part more than MaxReorg blocks below the lower of their tips.
Joins(line, n) ==
    \A c \in Block : \A k \in (DOMAIN line) \cap (DOMAIN header[c].line) :
        k + MaxReorg <= n /\ k + MaxReorg <= header[c].number
           => line[k] = header[c].line[k]

\* The fetcher discards a block far behind the head, and the downloader does not
\* look for a common ancestor that deep: a fork arrives while it is short.
Admitted(n) == \A c \in Block : header[c].number <= n + MaxReorg

\* The canonical chain is at most MaxReorg blocks shorter than another one.
Leads(b) == \A c \in Block : header[c].number <= header[b].number + MaxReorg

\* verifySeal accepts a header on the snapshot a call has returned, and the
\* block is written; it may become the head.  Siblings that differ in nothing
\* the engine reads are one block.
Import(p, v, top) ==
    LET s      == call[p].snap
        parent == call[p].target
        n      == header[parent].number + 1
        b      == Cardinality(Block)
        h      == [number |-> n, parent |-> parent, signer |-> v,
                   difficulty |-> CalcDifficulty(s, v),
                   extra |-> IF IsEpoch(n) THEN top ELSE {},
                   set |-> IF IsEpoch(n) THEN top ELSE header[parent].set,
                   line |-> Put(header[parent].line, n, b)]
    IN  /\ call[p].pc = "done"
        /\ s # Invalid
        /\ n <= MaxNumber
        /\ b < MaxBlocks
        /\ VerifySeal(s, h)
        /\ \A c \in Block : header[c].parent = parent /\ c # 0
              => header[c].signer # v \/ header[c].extra # h.extra
        /\ Admitted(n)
        /\ Joins(h.line, n)
        /\ header' = Put(header, b, h)
        /\ truth' = Put(truth, b, Extended(truth[parent], h))
        /\ head' \in {head, b}
        /\ Leads(head)'
        /\ UNCHANGED <<memory, disk, call, trusted>>

Crash ==
    /\ memory' = EmptyWindow
    /\ call' = [p \in Callers |-> Idle]
    /\ UNCHANGED <<header, truth, head, disk, trusted>>

\* The chain is initialised again from the freezer.
Reinit ==
    /\ memory' = EmptyWindow
    /\ disk' = EmptyWindow
    /\ call' = [p \in Callers |-> Idle]
    /\ UNCHANGED <<header, truth, head, trusted>>

Next ==
    \/ \E p \in Callers, b \in Block : Begin(p, b)
    \/ \E p \in Callers : WalkMemory(p)
    \/ \E p \in Callers : WalkDisk(p)
    \/ \E p \in Callers : WalkTrust(p)
    \/ \E p \in Callers : WalkBack(p)
    \/ \E p \in Callers : ApplyHeader(p)
    \/ \E p \in Callers : AddRecent(p)
    \/ \E p \in Callers : Store(p)
    \/ \E p \in Callers, v \in Address, top \in ValidatorSets : Import(p, v, top)
    \/ Crash
    \/ Reinit

Spec == Init /\ [][Next]_vars

-----------------------------------------------------------------------------
(* Properties *)

\* s is the snapshot of block b, as far as the node can know: until a block
\* above genesis had to be trusted, all of it; after that its validator set.
Sound(b, s) ==
    /\ s.number = header[b].number
    /\ s.validators = header[b].set
    /\ trusted = {} => s = truth[b]

\* Whatever the walks of concurrent calls met, and whatever was evicted, lost
\* or reorganised meanwhile, every snapshot in memory, on disk and returned to
\* a caller is sound for the block it is filed under; a call fails only for a
\* block that apply refuses.
HeldSound ==
    /\ \A b \in DOMAIN memory : Sound(b, memory[b])
    /\ \A b \in DOMAIN disk : Sound(b, disk[b])
    /\ \A p \in Callers : call[p].pc = "done" =>
          IF call[p].snap = Invalid
          THEN trusted = {} => truth[call[p].target] = Invalid
          ELSE Sound(call[p].target, call[p].snap)

\* The store implements Authorization: the answers for blocks that may still be
\* reorganised are exact, even after trusted checkpoints, and a block enters the
\* tree only if verifySeal accepts it on the true snapshot of its parent.
Refines == Auth!Spec

\* Violated where the node's headers start above genesis.  newSnapshot "does not
\* initialize the set of recent validators, so only ever use if for the genesis
\* block": an answer lets sign whom the true snapshot lets sign.
SameSigners ==
    \A p \in Callers : call[p].pc = "done" /\ call[p].snap # Invalid =>
        \A v \in Address :
            LET s == call[p].snap
                h == [number |-> s.number + 1, signer |-> v,
                      difficulty |-> CalcDifficulty(s, v)]
            IN  VerifySeal(s, h) => VerifySeal(truth[call[p].target], h)

=============================================================================
