---------------------------- MODULE AddressLists ----------------------------
(***************************************************************************)
(* The denied addresses and the event check rules of the AddressList       *)
(* contract, as one node reads them: through two caches keyed by the hash  *)
(* of a parent block, filled from whatever state the caller passes as the  *)
(* state of that parent.  Importers, the worker, the pool and the RPC      *)
(* share the caches.  A block is its position in tree; the contract is     *)
(* external and kept as its two lists and the numbers of their last        *)
(* updates.                                                                *)
(***************************************************************************)
EXTENDS Integers, Sequences

CONSTANTS
    Addrs,
    Lists,          \* contents [from, to] of the denied addresses
    Rules,          \* contents of the event check rules
    RedCoastBlock,
    SophonBlock,
    FirstNumber,    \* number of the oldest block considered
    Threads,        \* goroutines that execute a block: importer, worker
    MaxNumber,      \* bound: block number
    MaxBlocks,      \* bound: blocks of the tree
    MaxTxs          \* bound: transactions of a block

ASSUME ForksAssumption ==
    /\ RedCoastBlock \in Nat /\ SophonBlock \in Nat /\ FirstNumber \in Nat
    /\ RedCoastBlock < SophonBlock
    /\ MaxNumber \in Nat /\ MaxBlocks \in Nat /\ MaxTxs \in Nat

ASSUME ListsAssumption ==
    \A l \in Lists : l.from \in SUBSET Addrs /\ l.to \in SUBSET Addrs

VARIABLES
    tree,            \* block -> [parent, number, st]
    blacklists,      \* c.blacklists: some blocks -> direction of each denied address
    eventCheckRules, \* c.eventCheckRules: some blocks -> rules
    thread,          \* thread -> what it executes
    agreed           \* history: the last verdict on a transaction was the right one

vars == <<tree, blacklists, eventCheckRules, thread, agreed>>

Blocks == DOMAIN tree
NextNumber(p) == tree[p].number + 1  \* number of a header on top of p

\* Content of the contract: lists and the number of the block that last changed
\* each; the first version of the contract, before Sophon, records no number.
UpdateBlacks(st, num, l) ==
    [st EXCEPT !.blacks = l, !.blacksAt = IF num >= SophonBlock THEN num ELSE @]
UpdateRules(st, num, r) == [st EXCEPT !.rules = r, !.rulesAt = num]

Updated(st, num) ==
    {st} \cup {UpdateBlacks(st, num, l) : l \in Lists}
         \cup (IF num >= SophonBlock THEN {UpdateRules(st, num, r) : r \in Rules} ELSE {})

\* Mutant: the list of destinations overwrites that of senders.
DirectionsLastWins(l) ==
    [a \in l.from \cup l.to |-> IF a \in l.to THEN "to" ELSE "from"]

Directions(l) ==
    [a \in l.from \cup l.to |->
        IF a \in l.from \cap l.to THEN "both" ELSE IF a \in l.from THEN "from" ELSE "to"]

\* Mutant: one block too early.
UnchangedSinceLate(num, at) == num >= 2 /\ num >= at + 1

\* The last update is older than the parent of the header.
UnchangedSince(num, at) == num >= 2 /\ num > at + 1

\* A cache after a lookup for a header on p: an entry once made is kept, and a new
\* one is that of the grandparent if the caller may inherit it.
Put(cache, p, v) == [q \in DOMAIN cache \cup {p} |-> IF q = p THEN v ELSE cache[q]]

Filled(cache, p, inherits, v) ==
    IF p \in DOMAIN cache
    THEN cache
    ELSE Put(cache, p, IF inherits /\ tree[p].parent \in DOMAIN cache
                       THEN cache[tree[p].parent] ELSE v)

\* st is what the caller passes as the state of p.
getBlacklist(p, st) ==
    Filled(blacklists, p,
           NextNumber(p) > SophonBlock /\ UnchangedSince(NextNumber(p), st.blacksAt),
           Directions(st.blacks))

getEventCheckRules(p, st) ==
    Filled(eventCheckRules, p, UnchangedSince(NextNumber(p), st.rulesAt), st.rules)

Denied(m, from, to) ==
    \/ from \in DOMAIN m /\ m[from] # "to"
    \/ to \in DOMAIN m /\ m[to] # "from"

\* Caches after CreateEvmExtraValidator.
CreateEvmExtraValidator(p, st) ==
    IF NextNumber(p) > SophonBlock
    THEN /\ blacklists' = getBlacklist(p, st)
         /\ eventCheckRules' = getEventCheckRules(p, st)
    ELSE UNCHANGED <<blacklists, eventCheckRules>>

\* Caches after ValidateTx, its verdict, and whether it is the one of the lists in
\* the state of the parent.
ValidateTx(p, st, from, to, denied) ==
    /\ blacklists' = IF NextNumber(p) > RedCoastBlock THEN getBlacklist(p, st) ELSE blacklists
    /\ denied = (NextNumber(p) > RedCoastBlock /\ Denied(blacklists'[p], from, to))
    /\ agreed' = (NextNumber(p) > RedCoastBlock =>
                    (denied <=> \/ from \in tree[p].st.blacks.from
                                \/ to \in tree[p].st.blacks.to))
    /\ UNCHANGED eventCheckRules

NoEntries == [q \in {} |-> q]

Idle == [mode |-> "idle"]
Running(t) == thread[t].mode # "idle"

Init ==
    \E l \in Lists, r \in Rules :
        /\ tree = <<[parent |-> 0, number |-> FirstNumber,
                     st |-> [blacks |-> l, rules |-> r, blacksAt |-> 0, rulesAt |-> 0]]>>
        /\ blacklists = NoEntries
        /\ eventCheckRules = NoEntries
        /\ thread = [t \in Threads |-> Idle]
        /\ agreed = TRUE

\* Process and commitNewWork up to the first transaction.
Start(t, p, mode) ==
    /\ ~Running(t)
    /\ NextNumber(p) <= MaxNumber
    /\ CreateEvmExtraValidator(p, tree[p].st)
    /\ thread' = [thread EXCEPT ![t] =
            [mode |-> mode, parent |-> p, st |-> tree[p].st, txs |-> 0]]
    /\ UNCHANGED <<tree, agreed>>

\* One transaction: it is validated with the state that the earlier ones have
\* left.  A denied one ends an import and is skipped by the worker.
Execute(t, from, to, denied) ==
    LET w == thread[t]
    IN  /\ Running(t)
        /\ w.txs < MaxTxs
        /\ ValidateTx(w.parent, w.st, from, to, denied)
        /\ \/ /\ denied
              /\ thread' = IF w.mode = "import" THEN [thread EXCEPT ![t] = Idle] ELSE thread
           \/ /\ ~denied
              /\ \E st \in Updated(w.st, NextNumber(w.parent)) :
                    thread' = [thread EXCEPT ![t].st = st, ![t].txs = @ + 1]
        /\ UNCHANGED tree

\* The block is written.
Finish(t) ==
    LET w == thread[t]
    IN  /\ Running(t)
        /\ Len(tree) < MaxBlocks
        /\ tree' = Append(tree, [parent |-> w.parent, number |-> NextNumber(w.parent), st |-> w.st])
        /\ thread' = [thread EXCEPT ![t] = Idle]
        /\ UNCHANGED <<blacklists, eventCheckRules, agreed>>

Abort(t) ==
    /\ Running(t)
    /\ thread' = [thread EXCEPT ![t] = Idle]
    /\ UNCHANGED <<tree, blacklists, eventCheckRules, agreed>>

\* The pool validates for a block on top of its head.
PoolValidate(p, from, to, denied) ==
    /\ ValidateTx(p, tree[p].st, from, to, denied)
    /\ UNCHANGED <<tree, thread>>

\* GetEVM and the tracers of blocks: the header of b with the state of its parent.
Trace(b) ==
    /\ tree[b].parent # 0
    /\ CreateEvmExtraValidator(tree[b].parent, tree[tree[b].parent].st)
    /\ UNCHANGED <<tree, thread, agreed>>

\* debug_traceCall: the header of b with the state of b itself.
TraceCall(b) ==
    /\ tree[b].parent # 0
    /\ CreateEvmExtraValidator(tree[b].parent, tree[b].st)
    /\ UNCHANGED <<tree, thread, agreed>>

\* The caches hold the 10000 entries used last: one that a block in execution
\* looks up stays.
Evict(p) ==
    /\ \A t \in Threads : Running(t) => thread[t].parent # p
    /\ \/ /\ p \in DOMAIN blacklists
          /\ blacklists' = [q \in DOMAIN blacklists \ {p} |-> blacklists[q]]
          /\ UNCHANGED eventCheckRules
       \/ /\ p \in DOMAIN eventCheckRules
          /\ eventCheckRules' = [q \in DOMAIN eventCheckRules \ {p} |-> eventCheckRules[q]]
          /\ UNCHANGED blacklists
    /\ UNCHANGED <<tree, thread, agreed>>

Restart ==
    /\ blacklists' = NoEntries
    /\ eventCheckRules' = NoEntries
    /\ thread' = [t \in Threads |-> Idle]
    /\ UNCHANGED <<tree, agreed>>

Next ==
    \/ \E t \in Threads, p \in Blocks, mode \in {"import", "work"} : Start(t, p, mode)
    \/ \E t \in Threads, from, to \in Addrs, denied \in BOOLEAN : Execute(t, from, to, denied)
    \/ \E t \in Threads : Finish(t)
    \/ \E t \in Threads : Abort(t)
    \/ \E p \in Blocks, from, to \in Addrs, denied \in BOOLEAN :
            PoolValidate(p, from, to, denied)
    \/ \E b \in Blocks : Trace(b)
    \/ \E p \in Blocks : Evict(p)
    \/ Restart

Spec == Init /\ [][Next]_vars

\* The same node while it serves debug_traceCall.
TracedNext == Next \/ \E b \in Blocks : TraceCall(b)

TracedSpec == Init /\ [][TracedNext]_vars

-----------------------------------------------------------------------------
(* Properties *)

\* "make sure to use parent state to avoid mix up inner cache": whoever filled an
\* entry, from the contract or from the entry of the grandparent, in whatever
\* order and on whatever fork, it is the content in the state of its block.
CacheSound ==
    /\ \A p \in DOMAIN blacklists : blacklists[p] = Directions(tree[p].st.blacks)
    /\ \A p \in DOMAIN eventCheckRules : eventCheckRules[p] = tree[p].st.rules

\* A transaction is denied exactly when the lists of the parent block deny its
\* sender or its destination, for every caller and after any number of
\* transactions of the same block: all nodes agree on the blocks that are valid.
DenialsRight == agreed

=============================================================================
