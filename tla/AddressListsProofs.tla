------------------------- MODULE AddressListsProofs -------------------------
(***************************************************************************)
(* Proof that the caches of AddressLists hold the content of the contract  *)
(* in the state of each block, and that transactions are denied by it, for *)
(* any tree of blocks, lists and threads, if every caller passes the state *)
(* of the parent.                                                          *)
(***************************************************************************)
EXTENDS AddressLists, TLAPS

States == [blacks : Lists, rules : Rules, blacksAt : Nat, rulesAt : Nat]
BlockRecords == [parent : Nat, number : Nat, st : States]

\* What executing a block of number n on the content s may make of it: from Sophon
\* on a list that differs carries the number.
Follows(s, t, n) ==
    /\ n >= SophonBlock => (t.blacksAt = n \/ t.blacks = s.blacks)
    /\ t.rulesAt = n \/ t.rules = s.rules

BlockInv ==
    /\ tree \in Seq(BlockRecords)
    /\ \A b \in Blocks : tree[b].parent < b
    /\ \A b \in Blocks : tree[b].parent \in Blocks =>
         /\ tree[b].number = NextNumber(tree[b].parent)
         /\ Follows(tree[tree[b].parent].st, tree[b].st, tree[b].number)

\* A block in execution: before its first transaction its content is that of the
\* parent, and after it the parent is cached.
Sound(w, known) ==
    /\ w.parent \in Blocks
    /\ w.txs \in Nat
    /\ w.st \in States
    /\ w.txs = 0 => w.st = tree[w.parent].st
    /\ w.txs # 0 /\ NextNumber(w.parent) > RedCoastBlock => w.parent \in known
    /\ Follows(tree[w.parent].st, w.st, NextNumber(w.parent))

ThreadInv ==
    /\ DOMAIN thread = Threads
    /\ \A t \in Threads : Running(t) => Sound(thread[t], DOMAIN blacklists)

CacheInv ==
    /\ DOMAIN blacklists \subseteq Blocks
    /\ DOMAIN eventCheckRules \subseteq Blocks
    /\ CacheSound

IInv == BlockInv /\ ThreadInv /\ CacheInv /\ DenialsRight

\* The fields of a block.
LEMMA BlockTyped ==
    ASSUME BlockInv, NEW b \in Blocks
    PROVE  /\ tree[b].parent \in Nat /\ tree[b].number \in Nat /\ tree[b].st \in States
           /\ NextNumber(b) \in Nat
<1>1. tree[b] \in BlockRecords
  BY DEF BlockInv, Blocks
<1> QED
  BY <1>1 DEF BlockRecords, NextNumber

-----------------------------------------------------------------------------
(* Lookups *)

\* The map of directions denies the senders and the destinations of the lists.
LEMMA DirectionsDeny ==
    ASSUME NEW l, NEW from, NEW to
    PROVE  Denied(Directions(l), from, to) <=> from \in l.from \/ to \in l.to
BY DEF Denied, Directions

\* Looking up the denied addresses of p with the content of p, or with anything if
\* p is cached, keeps the cache right.
LEMMA BlacklistLookup ==
    ASSUME BlockInv, CacheInv, NEW p \in Blocks, NEW st,
           p \in DOMAIN blacklists \/ st = tree[p].st
    PROVE  /\ DOMAIN getBlacklist(p, st) = DOMAIN blacklists \cup {p}
           /\ \A q \in DOMAIN blacklists \cup {p} :
                getBlacklist(p, st)[q] = Directions(tree[q].st.blacks)
<1> DEFINE inherits == NextNumber(p) > SophonBlock /\ UnchangedSince(NextNumber(p), st.blacksAt)
           C == getBlacklist(p, st)
<1>1. /\ DOMAIN C = DOMAIN blacklists \cup {p}
      /\ \A q \in DOMAIN blacklists : C[q] = blacklists[q]
      /\ p \notin DOMAIN blacklists =>
           C[p] = IF inherits /\ tree[p].parent \in DOMAIN blacklists
                  THEN blacklists[tree[p].parent] ELSE Directions(st.blacks)
  BY DEF getBlacklist, Filled, Put
<1>2. \A q \in DOMAIN blacklists : blacklists[q] = Directions(tree[q].st.blacks)
  BY DEF CacheInv, CacheSound
<1>3. ASSUME p \notin DOMAIN blacklists PROVE C[p] = Directions(tree[p].st.blacks)
  <2>1. st = tree[p].st
    BY <1>3
  <2>2. CASE inherits /\ tree[p].parent \in DOMAIN blacklists
    <3> DEFINE g == tree[p].parent
    <3>1. g \in Blocks
      BY <2>2 DEF CacheInv
    <3>2. Follows(tree[g].st, tree[p].st, tree[p].number)
      BY <3>1 DEF BlockInv
    <3>3. tree[p] \in BlockRecords
      BY DEF BlockInv, Blocks
    <3>4. tree[p].number >= SophonBlock /\ tree[p].st.blacksAt # tree[p].number
      BY <2>1, <2>2, <3>3, ForksAssumption
      DEF UnchangedSince, NextNumber, BlockRecords, States
    <3>5. tree[p].st.blacks = tree[g].st.blacks
      BY <3>2, <3>4 DEF Follows
    <3> QED
      BY <1>1, <1>2, <1>3, <2>2, <3>5
  <2>3. CASE ~(inherits /\ tree[p].parent \in DOMAIN blacklists)
    BY <1>1, <1>3, <2>1, <2>3
  <2> QED
    BY <2>2, <2>3
<1> QED
  BY <1>1, <1>2, <1>3

\* The same for the event check rules.
LEMMA RulesLookup ==
    ASSUME BlockInv, CacheInv, NEW p \in Blocks, NEW st, st = tree[p].st
    PROVE  /\ DOMAIN getEventCheckRules(p, st) = DOMAIN eventCheckRules \cup {p}
           /\ \A q \in DOMAIN eventCheckRules \cup {p} :
                getEventCheckRules(p, st)[q] = tree[q].st.rules
<1> DEFINE inherits == UnchangedSince(NextNumber(p), st.rulesAt)
           C == getEventCheckRules(p, st)
<1>1. /\ DOMAIN C = DOMAIN eventCheckRules \cup {p}
      /\ \A q \in DOMAIN eventCheckRules : C[q] = eventCheckRules[q]
      /\ p \notin DOMAIN eventCheckRules =>
           C[p] = IF inherits /\ tree[p].parent \in DOMAIN eventCheckRules
                  THEN eventCheckRules[tree[p].parent] ELSE st.rules
  BY DEF getEventCheckRules, Filled, Put
<1>2. \A q \in DOMAIN eventCheckRules : eventCheckRules[q] = tree[q].st.rules
  BY DEF CacheInv, CacheSound
<1>3. ASSUME p \notin DOMAIN eventCheckRules PROVE C[p] = tree[p].st.rules
  <2>1. CASE inherits /\ tree[p].parent \in DOMAIN eventCheckRules
    <3> DEFINE g == tree[p].parent
    <3>1. g \in Blocks
      BY <2>1 DEF CacheInv
    <3>2. Follows(tree[g].st, tree[p].st, tree[p].number)
      BY <3>1 DEF BlockInv
    <3>3. tree[p] \in BlockRecords
      BY DEF BlockInv, Blocks
    <3>4. tree[p].st.rulesAt # tree[p].number
      BY <2>1, <3>3 DEF UnchangedSince, NextNumber, BlockRecords, States
    <3>5. tree[p].st.rules = tree[g].st.rules
      BY <3>2, <3>4 DEF Follows
    <3> QED
      BY <1>1, <1>2, <1>3, <2>1, <3>5
  <2>2. CASE ~(inherits /\ tree[p].parent \in DOMAIN eventCheckRules)
    BY <1>1, <1>3, <2>2
  <2> QED
    BY <2>1, <2>2
<1> QED
  BY <1>1, <1>2, <1>3

\* Creating the validator of a header with the state of its parent.
LEMMA ExtraValidatorKeeps ==
    ASSUME BlockInv, CacheInv, NEW p \in Blocks,
           CreateEvmExtraValidator(p, tree[p].st), UNCHANGED tree
    PROVE  CacheInv' /\ DOMAIN blacklists \subseteq DOMAIN blacklists'
<1>1. CASE NextNumber(p) > SophonBlock
  <2>1. /\ blacklists' = getBlacklist(p, tree[p].st)
        /\ eventCheckRules' = getEventCheckRules(p, tree[p].st)
    BY <1>1 DEF CreateEvmExtraValidator
  <2>2. /\ DOMAIN blacklists' = DOMAIN blacklists \cup {p}
        /\ \A q \in DOMAIN blacklists' : blacklists'[q] = Directions(tree[q].st.blacks)
    BY <2>1, BlacklistLookup
  <2>3. /\ DOMAIN eventCheckRules' = DOMAIN eventCheckRules \cup {p}
        /\ \A q \in DOMAIN eventCheckRules' : eventCheckRules'[q] = tree[q].st.rules
    BY <2>1, RulesLookup
  <2> QED
    BY <2>2, <2>3 DEF CacheInv, CacheSound, Blocks
<1>2. CASE ~(NextNumber(p) > SophonBlock)
  BY <1>2 DEF CreateEvmExtraValidator, CacheInv, CacheSound, Blocks
<1> QED
  BY <1>1, <1>2

\* Validating a transaction with the state of the parent, or with any state once the
\* parent is cached, keeps the cache right and gives the right verdict.
LEMMA ValidateKeeps ==
    ASSUME BlockInv, CacheInv, NEW p \in Blocks, NEW st, NEW from, NEW to,
           NEW denied \in BOOLEAN,
           NextNumber(p) > RedCoastBlock => p \in DOMAIN blacklists \/ st = tree[p].st,
           ValidateTx(p, st, from, to, denied), UNCHANGED tree
    PROVE  /\ CacheInv'
           /\ DenialsRight'
           /\ DOMAIN blacklists \subseteq DOMAIN blacklists'
           /\ NextNumber(p) > RedCoastBlock => p \in DOMAIN blacklists'
<1>1. CASE NextNumber(p) > RedCoastBlock
  <2>1. blacklists' = getBlacklist(p, st) /\ eventCheckRules' = eventCheckRules
    BY <1>1 DEF ValidateTx
  <2>2. /\ DOMAIN blacklists' = DOMAIN blacklists \cup {p}
        /\ \A q \in DOMAIN blacklists' : blacklists'[q] = Directions(tree[q].st.blacks)
    BY <1>1, <2>1, BlacklistLookup
  <2>3. denied <=> Denied(Directions(tree[p].st.blacks), from, to)
    BY <1>1, <2>2 DEF ValidateTx
  <2>4. denied <=> from \in tree[p].st.blacks.from \/ to \in tree[p].st.blacks.to
    BY <2>3, DirectionsDeny
  <2>5. DenialsRight'
    BY <2>4 DEF ValidateTx, DenialsRight
  <2>6. CacheInv'
    BY <2>1, <2>2 DEF CacheInv, CacheSound, Blocks
  <2> QED
    BY <2>2, <2>5, <2>6
<1>2. CASE ~(NextNumber(p) > RedCoastBlock)
  <2>1. blacklists' = blacklists /\ eventCheckRules' = eventCheckRules
    BY <1>2 DEF ValidateTx
  <2>2. DenialsRight'
    BY <1>2 DEF ValidateTx, DenialsRight
  <2> QED
    BY <1>2, <2>1, <2>2 DEF CacheInv, CacheSound, Blocks
<1> QED
  BY <1>1, <1>2

-----------------------------------------------------------------------------
(* Steps *)

\* Executing transactions keeps the relation of a block to its parent.
LEMMA UpdatedFollows ==
    ASSUME NEW s, NEW st \in States, NEW n \in Nat, Follows(s, st, n),
           NEW new \in Updated(st, n)
    PROVE  new \in States /\ Follows(s, new, n)
<1>1. CASE new = st
  BY <1>1
<1>2. CASE \E l \in Lists : new = UpdateBlacks(st, n, l)
  BY <1>2, ForksAssumption DEF UpdateBlacks, States, Follows
<1>3. CASE \E r \in Rules : new = UpdateRules(st, n, r)
  BY <1>3 DEF UpdateRules, States, Follows
<1> QED
  BY <1>1, <1>2, <1>3 DEF Updated

\* Threads that do not change stay sound while the cache of a running one grows.
LEMMA ThreadsKept ==
    ASSUME ThreadInv, UNCHANGED <<tree, thread>>,
           DOMAIN blacklists \subseteq DOMAIN blacklists'
    PROVE  ThreadInv'
BY DEF ThreadInv, Running, Sound, Blocks, NextNumber

\* One thread changes, to idle or to a sound execution.
LEMMA ThreadChanged ==
    ASSUME ThreadInv, UNCHANGED tree, NEW t \in Threads, NEW w,
           DOMAIN blacklists \subseteq DOMAIN blacklists',
           thread' = [thread EXCEPT ![t] = w],
           w.mode # "idle" => Sound(w, DOMAIN blacklists')
    PROVE  ThreadInv'
<1>1. DOMAIN thread' = Threads
  BY DEF ThreadInv
<1>2. thread'[t] = w /\ \A u \in Threads \ {t} : thread'[u] = thread[u]
  BY DEF ThreadInv
<1>3. ASSUME NEW u \in Threads, Running(u)'
      PROVE  Sound(thread[u], DOMAIN blacklists)'
  <2>1. CASE u = t
    BY <1>2, <1>3, <2>1 DEF Running, Sound, Blocks, NextNumber
  <2>2. CASE u # t
    BY <1>2, <1>3, <2>2 DEF ThreadInv, Running, Sound, Blocks, NextNumber
  <2> QED
    BY <2>1, <2>2
<1> QED
  BY <1>1, <1>3 DEF ThreadInv

\* The tree changes only when a block is written.
LEMMA TreeKept ==
    ASSUME BlockInv, UNCHANGED tree
    PROVE  BlockInv'
BY DEF BlockInv, Blocks, NextNumber

LEMMA InitIInv == Init => IInv
<1> SUFFICES ASSUME Init PROVE IInv
  OBVIOUS
<1>1. PICK l \in Lists, r \in Rules :
        tree = <<[parent |-> 0, number |-> FirstNumber,
                  st |-> [blacks |-> l, rules |-> r, blacksAt |-> 0, rulesAt |-> 0]]>>
  BY DEF Init
<1> DEFINE root == [parent |-> 0, number |-> FirstNumber,
                    st |-> [blacks |-> l, rules |-> r, blacksAt |-> 0, rulesAt |-> 0]]
<1>2. root \in BlockRecords /\ root.parent = 0
  BY ForksAssumption DEF BlockRecords, States
<1>3. tree \in Seq(BlockRecords) /\ Blocks = {1} /\ tree[1].parent = 0
  <2> HIDE DEF root
  <2>1. tree = <<root>>
    BY <1>1 DEF root
  <2> QED
    BY <1>2, <2>1 DEF Blocks
<1>4. BlockInv
  BY <1>3 DEF BlockInv
<1>5. ThreadInv
  BY DEF Init, ThreadInv, Running, Idle
<1>6. CacheInv
  BY DEF Init, CacheInv, CacheSound, NoEntries
<1>7. DenialsRight
  BY DEF Init, DenialsRight
<1> QED
  BY <1>4, <1>5, <1>6, <1>7 DEF IInv

\* Starting a block: the validator is created from the state of the parent.
LEMMA StartKeeps ==
    ASSUME IInv, NEW t \in Threads, NEW p \in Blocks, NEW mode \in {"import", "work"},
           Start(t, p, mode)
    PROVE  IInv'
<1> DEFINE w == [mode |-> mode, parent |-> p, st |-> tree[p].st, txs |-> 0]
<1>1. /\ CreateEvmExtraValidator(p, tree[p].st)
      /\ UNCHANGED <<tree, agreed>>
      /\ thread' = [thread EXCEPT ![t] = w]
  BY DEF Start
<1>2. CacheInv' /\ DOMAIN blacklists \subseteq DOMAIN blacklists'
  BY <1>1, ExtraValidatorKeeps DEF IInv
<1>3. tree[p].st \in States
  BY BlockTyped DEF IInv
<1>4. Sound(w, DOMAIN blacklists')
  BY <1>3 DEF Sound, Follows
<1>5. ThreadInv'
  <2> HIDE DEF w
  <2> QED
    BY <1>1, <1>2, <1>4, ThreadChanged DEF IInv
<1>6. DenialsRight'
  BY <1>1 DEF IInv, DenialsRight
<1> QED
  BY <1>1, <1>2, <1>5, <1>6, TreeKept DEF IInv

\* A transaction: the first is validated with the parent's content, and a later one
\* finds the parent cached.
LEMMA ExecuteKeeps ==
    ASSUME IInv, NEW t \in Threads, NEW from \in Addrs, NEW to \in Addrs,
           NEW denied \in BOOLEAN, Execute(t, from, to, denied)
    PROVE  IInv'
<1> DEFINE w == thread[t]
           p == w.parent
<1>1. /\ Running(t)
      /\ ValidateTx(p, w.st, from, to, denied)
      /\ UNCHANGED tree
  BY DEF Execute
<1>2. Sound(w, DOMAIN blacklists)
  BY <1>1 DEF IInv, ThreadInv
<1>3. p \in Blocks
  BY <1>2 DEF Sound
<1>4. NextNumber(p) > RedCoastBlock => p \in DOMAIN blacklists \/ w.st = tree[p].st
  BY <1>2 DEF Sound
<1>5. /\ CacheInv'
      /\ DenialsRight'
      /\ DOMAIN blacklists \subseteq DOMAIN blacklists'
      /\ NextNumber(p) > RedCoastBlock => p \in DOMAIN blacklists'
  <2> HIDE DEF w, p
  <2> QED
    BY <1>1, <1>3, <1>4, ValidateKeeps DEF IInv
<1>6. CASE denied
  <2>1. CASE thread' = thread
    BY <1>1, <1>5, <2>1, ThreadsKept, TreeKept DEF IInv
  <2>2. CASE thread' = [thread EXCEPT ![t] = Idle]
    <3>1. Idle.mode = "idle"
      BY DEF Idle
    <3>2. ThreadInv'
      BY <1>1, <1>5, <2>2, <3>1, ThreadChanged DEF IInv
    <3> QED
      BY <1>1, <1>5, <3>2, TreeKept DEF IInv
  <2> QED
    BY <1>6, <2>1, <2>2 DEF Execute
<1>7. CASE ~denied
  <2>1. PICK st \in Updated(w.st, NextNumber(p)) :
          thread' = [thread EXCEPT ![t].st = st, ![t].txs = @ + 1]
    BY <1>7 DEF Execute
  <2>2. NextNumber(p) \in Nat
    BY <1>3, BlockTyped DEF IInv
  <2>3. w.st \in States /\ Follows(tree[p].st, w.st, NextNumber(p)) /\ w.txs \in Nat
    BY <1>2 DEF Sound
  <2>4. st \in States /\ Follows(tree[p].st, st, NextNumber(p))
    <3> HIDE DEF w, p
    <3> QED
      BY <2>1, <2>2, <2>3, UpdatedFollows
  <2> DEFINE v == [w EXCEPT !.st = st, !.txs = @ + 1]
  <2>5. thread' = [thread EXCEPT ![t] = v]
    BY <2>1 DEF IInv, ThreadInv
  <2>6. v.mode # "idle" => Sound(v, DOMAIN blacklists')
    BY <1>3, <1>5, <2>3, <2>4 DEF Sound
  <2>7. ThreadInv'
    <3> HIDE DEF v, w, p
    <3> QED
      BY <1>1, <1>5, <2>5, <2>6, ThreadChanged DEF IInv
  <2> QED
    BY <1>1, <1>5, <2>7, TreeKept DEF IInv
<1> QED
  BY <1>6, <1>7

\* A thread that gives up.
LEMMA AbortKeeps ==
    ASSUME IInv, NEW t \in Threads, Abort(t)
    PROVE  IInv'
<1>1. /\ thread' = [thread EXCEPT ![t] = Idle]
      /\ UNCHANGED <<tree, blacklists, eventCheckRules, agreed>>
      /\ Idle.mode = "idle"
  BY DEF Abort, Idle
<1>2. ThreadInv'
  BY <1>1, ThreadChanged DEF IInv
<1>3. CacheInv' /\ DenialsRight'
  BY <1>1 DEF IInv, CacheInv, CacheSound, Blocks, DenialsRight
<1> QED
  BY <1>1, <1>2, <1>3, TreeKept DEF IInv

\* Writing a block: the earlier blocks stay, and the new one follows its parent.
LEMMA FinishKeeps ==
    ASSUME IInv, NEW t \in Threads, Finish(t)
    PROVE  IInv'
<1> DEFINE w == thread[t]
           n == Len(tree)
           new == [parent |-> w.parent, number |-> NextNumber(w.parent), st |-> w.st]
<1>1. /\ Running(t)
      /\ tree' = Append(tree, new)
      /\ thread' = [thread EXCEPT ![t] = Idle]
      /\ UNCHANGED <<blacklists, eventCheckRules, agreed>>
  BY DEF Finish
<1>2. Sound(w, DOMAIN blacklists)
  BY <1>1 DEF IInv, ThreadInv
<1>3. tree \in Seq(BlockRecords) /\ n \in Nat /\ Blocks = 1 .. n
  BY DEF IInv, BlockInv, Blocks
<1>4. w.parent \in Blocks /\ w.st \in States
  BY <1>2 DEF Sound
<1>5. new \in BlockRecords
  <2>1. w.parent \in Nat /\ NextNumber(w.parent) \in Nat
    BY <1>3, <1>4, BlockTyped DEF IInv
  <2> QED
    BY <1>4, <2>1 DEF BlockRecords
<1>6. /\ tree' \in Seq(BlockRecords)
      /\ Blocks' = 1 .. n + 1
      /\ tree'[n + 1] = new
      /\ \A b \in Blocks : tree'[b] = tree[b]
  <2> HIDE DEF new
  <2> QED
    BY <1>1, <1>3, <1>5 DEF Blocks
<1>7. BlockInv'
  <2>1. ASSUME NEW b \in Blocks', (tree[b].parent \in Blocks)'
        PROVE  (/\ tree[b].number = NextNumber(tree[b].parent)
                /\ Follows(tree[tree[b].parent].st, tree[b].st, tree[b].number))'
    <3>1. CASE b = n + 1
      <4>1. Follows(tree[w.parent].st, w.st, NextNumber(w.parent))
        BY <1>2 DEF Sound
      <4>2. tree'[b].parent = w.parent /\ tree'[w.parent] = tree[w.parent]
        BY <1>4, <1>6, <3>1
      <4>3. tree'[b].number = NextNumber(w.parent) /\ tree'[b].st = w.st
        BY <1>6, <3>1
      <4> QED
        BY <4>1, <4>2, <4>3 DEF NextNumber, Follows
    <3>2. CASE b # n + 1
      <4>1. b \in Blocks /\ tree'[b] = tree[b]
        BY <1>3, <1>6, <3>2
      <4>2. tree[b] \in BlockRecords
        BY <1>3, <4>1
      <4>3. CASE tree[b].parent \in Blocks
        <5>1. tree'[tree[b].parent] = tree[tree[b].parent]
          BY <1>6, <4>3
        <5> QED
          BY <4>1, <4>3, <5>1 DEF IInv, BlockInv, NextNumber, Follows
      <4>4. CASE tree[b].parent = n + 1
        BY <1>3, <4>1, <4>4 DEF IInv, BlockInv
      <4> QED
        BY <1>3, <1>6, <2>1, <4>1, <4>2, <4>3, <4>4 DEF BlockRecords
    <3> QED
      BY <3>1, <3>2
  <2>2. \A b \in Blocks' : tree'[b].parent < b
    BY <1>3, <1>4, <1>6 DEF IInv, BlockInv
  <2> QED
    BY <1>6, <2>1, <2>2 DEF BlockInv
<1>8. ThreadInv'
  <2>1. DOMAIN thread' = Threads
    BY <1>1 DEF IInv, ThreadInv
  <2>2. ASSUME NEW u \in Threads, Running(u)'
        PROVE  Sound(thread[u], DOMAIN blacklists)'
    <3>1. thread'[t] = Idle /\ \A x \in Threads \ {t} : thread'[x] = thread[x]
      BY <1>1 DEF IInv, ThreadInv
    <3>2. u # t
      BY <2>2, <3>1 DEF Running, Idle
    <3>3. thread'[u] = thread[u] /\ Sound(thread[u], DOMAIN blacklists)
      BY <2>2, <3>1, <3>2 DEF IInv, ThreadInv, Running
    <3>4. /\ thread[u].parent \in Blocks
          /\ tree'[thread[u].parent] = tree[thread[u].parent]
          /\ thread[u].parent \in Blocks'
      BY <1>3, <1>6, <3>3 DEF Sound
    <3> QED
      BY <1>1, <3>3, <3>4 DEF Sound, NextNumber
  <2> QED
    BY <2>1, <2>2 DEF ThreadInv
<1>9. CacheInv' /\ DenialsRight'
  BY <1>1, <1>3, <1>6 DEF IInv, CacheInv, CacheSound, DenialsRight
<1> QED
  BY <1>7, <1>8, <1>9 DEF IInv

\* The pool: the content of the head is the parent's of the next block.
LEMMA PoolKeeps ==
    ASSUME IInv, NEW p \in Blocks, NEW from \in Addrs, NEW to \in Addrs,
           NEW denied \in BOOLEAN, PoolValidate(p, from, to, denied)
    PROVE  IInv'
<1>1. ValidateTx(p, tree[p].st, from, to, denied) /\ UNCHANGED <<tree, thread>>
  BY DEF PoolValidate
<1>2. CacheInv' /\ DenialsRight' /\ DOMAIN blacklists \subseteq DOMAIN blacklists'
  BY <1>1, ValidateKeeps DEF IInv
<1> QED
  BY <1>1, <1>2, ThreadsKept, TreeKept DEF IInv

\* GetEVM and the tracers of blocks pass the state of the parent.
LEMMA TraceKeeps ==
    ASSUME IInv, NEW b \in Blocks, Trace(b)
    PROVE  IInv'
<1> DEFINE p == tree[b].parent
<1>1. /\ p # 0
      /\ CreateEvmExtraValidator(p, tree[p].st)
      /\ UNCHANGED <<tree, thread, agreed>>
  BY DEF Trace
<1>2. tree[b] \in BlockRecords /\ p < b /\ Blocks = 1 .. Len(tree) /\ Len(tree) \in Nat
  BY DEF IInv, BlockInv, Blocks
<1>3. p \in Blocks
  BY <1>1, <1>2 DEF BlockRecords
<1>4. CacheInv' /\ DOMAIN blacklists \subseteq DOMAIN blacklists'
  <2> HIDE DEF p
  <2> QED
    BY <1>1, <1>3, ExtraValidatorKeeps DEF IInv
<1>5. DenialsRight'
  BY <1>1 DEF IInv, DenialsRight
<1> QED
  BY <1>1, <1>4, <1>5, ThreadsKept, TreeKept DEF IInv

\* An entry that leaves a cache is not the parent of a block in execution.
LEMMA EvictKeeps ==
    ASSUME IInv, NEW p \in Blocks, Evict(p)
    PROVE  IInv'
<1>1. UNCHANGED <<tree, thread, agreed>>
  BY DEF Evict
<1>2. CASE /\ blacklists' = [q \in DOMAIN blacklists \ {p} |-> blacklists[q]]
           /\ UNCHANGED eventCheckRules
  <2>1. CacheInv'
    BY <1>1, <1>2 DEF IInv, CacheInv, CacheSound, Blocks
  <2>2. ASSUME NEW t \in Threads, Running(t)'
        PROVE  Sound(thread[t], DOMAIN blacklists)'
    <3>1. Running(t) /\ thread[t].parent # p /\ Sound(thread[t], DOMAIN blacklists)
      BY <1>1, <2>2 DEF Running, Evict, IInv, ThreadInv
    <3> QED
      BY <1>1, <1>2, <3>1 DEF Sound, Blocks, NextNumber
  <2>3. ThreadInv'
    BY <1>1, <2>2 DEF IInv, ThreadInv
  <2> QED
    BY <1>1, <2>1, <2>3, TreeKept DEF IInv, DenialsRight
<1>3. CASE /\ eventCheckRules' = [q \in DOMAIN eventCheckRules \ {p} |-> eventCheckRules[q]]
           /\ UNCHANGED blacklists
  <2>1. CacheInv'
    BY <1>1, <1>3 DEF IInv, CacheInv, CacheSound, Blocks
  <2> QED
    BY <1>1, <1>3, <2>1, ThreadsKept, TreeKept DEF IInv, DenialsRight
<1> QED
  BY <1>2, <1>3 DEF Evict

\* A node starts again with empty caches.
LEMMA RestartKeeps ==
    ASSUME IInv, Restart
    PROVE  IInv'
<1>1. CacheInv'
  BY DEF Restart, CacheInv, CacheSound, NoEntries
<1>2. ThreadInv'
  BY DEF Restart, ThreadInv, Running, Idle
<1> QED
  BY <1>1, <1>2, TreeKept DEF IInv, Restart, DenialsRight

\* No step breaks the invariant; debug_traceCall is not among the steps of Next.
LEMMA NextIInv == IInv /\ [Next]_vars => IInv'
<1> SUFFICES ASSUME IInv, [Next]_vars PROVE IInv'
  OBVIOUS
<1>1. CASE Next
  <2>1. CASE \E t \in Threads, p \in Blocks, mode \in {"import", "work"} : Start(t, p, mode)
    BY <2>1, StartKeeps
  <2>2. CASE \E t \in Threads, from, to \in Addrs, denied \in BOOLEAN :
               Execute(t, from, to, denied)
    BY <2>2, ExecuteKeeps
  <2>3. CASE \E t \in Threads : Finish(t)
    BY <2>3, FinishKeeps
  <2>4. CASE \E t \in Threads : Abort(t)
    BY <2>4, AbortKeeps
  <2>5. CASE \E p \in Blocks, from, to \in Addrs, denied \in BOOLEAN :
               PoolValidate(p, from, to, denied)
    BY <2>5, PoolKeeps
  <2>6. CASE \E b \in Blocks : Trace(b)
    BY <2>6, TraceKeeps
  <2>7. CASE \E p \in Blocks : Evict(p)
    BY <2>7, EvictKeeps
  <2>8. CASE Restart
    BY <2>8, RestartKeeps
  <2> QED
    BY <1>1, <2>1, <2>2, <2>3, <2>4, <2>5, <2>6, <2>7, <2>8 DEF Next
<1>2. CASE UNCHANGED vars
  BY <1>2, ThreadsKept, TreeKept DEF vars, IInv, CacheInv, CacheSound, Blocks, DenialsRight
<1> QED
  BY <1>1, <1>2

\* CacheSound for every tree, list and number of threads: entries filled by any
\* caller, inherited from a grandparent or read again after an eviction or a
\* restart are the content of the contract in the state of their block.
THEOREM CachesAreSound == Spec => []CacheSound
<1>1. IInv => CacheSound
  BY DEF IInv, CacheInv
<1> QED
  BY InitIInv, NextIInv, <1>1, PTL DEF Spec

\* DenialsRight for the same: every verdict of ValidateTx is the one of the lists
\* of the parent block.
THEOREM DenialsAreRight == Spec => []DenialsRight
<1>1. IInv => DenialsRight
  BY DEF IInv
<1> QED
  BY InitIInv, NextIInv, <1>1, PTL DEF Spec

=============================================================================
