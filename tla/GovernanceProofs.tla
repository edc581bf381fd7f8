-------------------------- MODULE GovernanceProofs --------------------------
(***************************************************************************)
(* The end of a block, for any validators, users, transactions and         *)
(* proposals: what FinalizeAndAssemble makes of a block is what Finalize   *)
(* makes of it on the other nodes, if and only if the worker took no call  *)
(* of the contract by its own coinbase (AcceptedUnlessCoinbaseCalls), and  *)
(* no proposal is lost, repeated or delayed (AlwaysExecutedOnce,           *)
(* PassedAlwaysExecuted).  A block is followed through Process beside the  *)
(* worker: both stand at the same state (LeadsTo) until the coinbase       *)
(* calls, and then Process is behind for good (Strays).                    *)
(*                                                                         *)
(* The loops of the code are recursive functions over the numbers of steps *)
(* done.  A fact about one is proved by induction with UpTo, which takes   *)
(* the set of the numbers for which the fact holds.                        *)
(***************************************************************************)
EXTENDS Governance, SequenceTheorems, FiniteSetTheorems, TLAPS

Accounts == Validators \cup Users

Props == [id : Nat, again : BOOLEAN]

States == [passed : Seq(Props), executed : Seq(Nat), count : Nat,
           nonce : [Accounts -> Nat]]

Txs == [from : Accounts, to : Targets, free : BOOLEAN, nonce : Nat, data : Props]

\* Every proposal is once in one of the two lists.
Sound(s) ==
    /\ s \in States
    /\ \A i, j \in DOMAIN s.passed : s.passed[i].id = s.passed[j].id => i = j
    /\ IsInjective(s.executed)
    /\ Ids(s) \cap Range(s.executed) = {}
    /\ Ids(s) \cup Range(s.executed) = 1 .. s.count

\* SysGov does not exist, and has no proposals, before RedCoast.
Early(s, n) == ~ IsRedCoast(n) => s.passed = <<>>

\* Where Process stands when the common transactions have led to s and the system
\* transactions T have been set aside.
Aside(s, T) == [s |-> s, systemTxs |-> T, fits |-> TRUE]

Works == [coinbase : Validators, s : States, txs : Seq(Txs)]

Progress == [s : States, systemTxs : Seq(Txs), fits : BOOLEAN]

\* Where Process stands when it has done the transactions of w on top of s.
Done(s, n, w) == Processing(s, n, w)[Len(w.txs)]

\* The transactions of w, all common, lead from s to its state.
LeadsTo(s, n, w) == ~ CallsContract(w) /\ Done(s, n, w) = Aside(w.s, <<>>)

\* Process has set a transaction aside that the worker of v has applied to t.
Behind(r, v, t) ==
    /\ r \in Progress /\ r.systemTxs # <<>>
    /\ r.s.passed = t.passed /\ r.s.count = t.count
    /\ r.s.nonce[v] < t.nonce[v]

\* The coinbase's own call of the contract leaves Process behind the worker.
Strays(s, n, w) == CallsContract(w) /\ Behind(Done(s, n, w), w.coinbase, w.s)

StateInv == number \in Nat /\ Sound(st) /\ Early(st, number)

WorkInv ==
    work # NoWork =>
        /\ work \in Works
        /\ LeadsTo(st, number + 1, work) \/ Strays(st, number + 1, work)
        /\ Sound(work.s) /\ Early(work.s, number + 1)
        /\ Ids(st) \subseteq Ids(work.s)

\* What will be true of the chain if the block is imported, and whether it will be.
BlockInv ==
    block # NoBlock =>
        /\ Accepts(st, number + 1, block) <=> ~ CallsContract(block)
        /\ Sound(block.post) /\ Early(block.post, number + 1)
        /\ Ids(st) \subseteq Range(block.post.executed)

\* There is never a block in the making beside one that waits to be imported.
IInv == StateInv /\ WorkInv /\ BlockInv /\ (work = NoWork \/ block = NoBlock)

(***************************************************************************)
(* Induction, and the recursive functions: that each of them exists, and   *)
(* hence has the values its definition says.  The provers have no lemma    *)
(* about an arbitrary operator, so each function has its own.              *)
(***************************************************************************)

\* A nonempty set of subsets of a finite set has a least one.
LEMMA LeastSubset ==
    ASSUME NEW S, IsFiniteSet(S), NEW T, T \subseteq SUBSET S, T # {}
    PROVE  \E A \in T : \A B \in T : ~ (B \subseteq A /\ B # A)
<1>1. FiniteSubsetsOf(S) = SUBSET S
  BY FS_FiniteSubsetsOfFinite
<1>2. IsWellFoundedOn(StrictSubsetOrdering(S), SUBSET S)
  BY <1>1, FS_StrictSubsetOrderingWellFounded
<1>3. PICK A \in T : \A B \in T : ~ (<<B, A>> \in StrictSubsetOrdering(S))
  BY <1>2, WFMin
<1> QED
  BY <1>3 DEF StrictSubsetOrdering

\* So has a nonempty set of numbers up to n.
LEMMA LeastNumber ==
    ASSUME NEW n \in Nat, NEW S, S \subseteq 0 .. n, S # {}
    PROVE  \E m \in S : \A k \in S : m <= k
<1> DEFINE T == {0 .. i : i \in S}
<1>1. PICK D : D = 0 .. n
  OBVIOUS
<1>2. IsFiniteSet(D)
  BY <1>1, FS_Interval
<1>3. T \subseteq SUBSET D
  BY <1>1
<1>4. T # {}
  OBVIOUS
<1>5. PICK A \in T : \A B \in T : ~ (B \subseteq A /\ B # A)
  <2> HIDE DEF T
  <2> QED  BY <1>2, <1>3, <1>4, LeastSubset
<1>6. PICK m \in S : A = 0 .. m
  OBVIOUS
<1>7. ASSUME NEW k \in S, k < m PROVE FALSE
  <2>1. 0 .. k \in T
    OBVIOUS
  <2>2. 0 .. k \subseteq 0 .. m /\ m \in 0 .. m /\ m \notin 0 .. k
    BY <1>7
  <2> QED  BY <1>5, <1>6, <2>1, <2>2
<1>8. \A k \in S : m <= k
  BY <1>7
<1> QED  BY <1>8

\* Induction up to n, on the set of the numbers for which a claim holds.
LEMMA UpTo ==
    ASSUME NEW n \in Nat, NEW S, 0 \in S,
           \A i \in 0 .. n - 1 : i \in S => i + 1 \in S
    PROVE  \A i \in 0 .. n : i \in S
<1> DEFINE T == {i \in 0 .. n : i \notin S}
<1> SUFFICES ASSUME T # {} PROVE FALSE
  OBVIOUS
<1>1. PICK m \in T : \A k \in T : m <= k
  <2> HIDE DEF T
  <2>1. T \subseteq 0 .. n
    BY DEF T
  <2> QED  BY <2>1, LeastNumber
<1>2. m # 0
  OBVIOUS
<1>3. m - 1 \in 0 .. n - 1 /\ m - 1 \in 0 .. n /\ m - 1 + 1 = m
  BY <1>2
<1>4. m - 1 \in T
  BY <1>3
<1> QED  BY <1>1, <1>4

\* g is the function that Finishing defines.
IsFinishing(g, s, props, len) ==
    g = [i \in 0 .. len |-> IF i = 0 THEN s
                            ELSE finishProposalById(g[i - 1], props[i].id)]

LEMMA FinishingExists ==
    ASSUME NEW s, NEW props, NEW len \in Nat
    PROVE  \E g : IsFinishing(g, s, props, len)
<1> DEFINE S == {k \in Nat : \E g : IsFinishing(g, s, props, k)}
<1>1. 0 \in S
  <2>1. IsFinishing([i \in 0 .. 0 |-> s], s, props, 0)
    BY DEF IsFinishing
  <2> QED  BY <2>1
<1>2. ASSUME NEW k \in 0 .. len - 1, k \in S PROVE k + 1 \in S
  <2>1. PICK g : IsFinishing(g, s, props, k)
    BY <1>2
  <2>2. k \in Nat
    OBVIOUS
  <2> DEFINE h == [i \in 0 .. k + 1 |-> IF i \in 0 .. k THEN g[i]
                                        ELSE finishProposalById(g[k], props[i].id)]
  <2>3. h[0] = s
    <3>1. g[0] = s
      BY <2>1, <2>2 DEF IsFinishing
    <3> QED  BY <2>2, <3>1
  <2>4. ASSUME NEW i \in 1 .. k
        PROVE  h[i] = finishProposalById(h[i - 1], props[i].id)
    <3>1. g[i] = finishProposalById(g[i - 1], props[i].id)
      BY <2>1, <2>2 DEF IsFinishing
    <3>2. h[i] = g[i] /\ h[i - 1] = g[i - 1]
      BY <2>2
    <3> QED  BY <3>1, <3>2
  <2>5. h[k + 1] = finishProposalById(h[k], props[k + 1].id)
    BY <2>2
  <2>6. h = [i \in 0 .. k + 1 |-> h[i]]
    OBVIOUS
  <2> HIDE DEF h
  <2>7. \A i \in 0 .. k + 1 :
           h[i] = IF i = 0 THEN s
                  ELSE finishProposalById(h[i - 1], props[i].id)
    <3> SUFFICES ASSUME NEW i \in 0 .. k + 1, i # 0
                 PROVE  h[i] = finishProposalById(h[i - 1], props[i].id)
      BY <2>3
    <3>1. i \in 1 .. k \/ (i = k + 1 /\ i - 1 = k)
      BY <2>2
    <3> QED  BY <2>4, <2>5, <3>1
  <2>8. IsFinishing(h, s, props, k + 1)
    BY <2>6, <2>7 DEF IsFinishing
  <2> QED  BY <2>2, <2>8
<1>3. len \in S
  <2> HIDE DEF S
  <2>1. \A i \in 0 .. len : i \in S
    BY <1>1, <1>2, UpTo
  <2> QED  BY <2>1
<1> QED  BY <1>3

LEMMA FinishingAt ==
    ASSUME NEW s, NEW props, Len(props) \in Nat
    PROVE  /\ Finishing(s, props)[0] = s
           /\ \A i \in 1 .. Len(props) :
                 Finishing(s, props)[i]
                    = finishProposalById(Finishing(s, props)[i - 1], props[i].id)
<1>1. PICK g : IsFinishing(g, s, props, Len(props))
  BY FinishingExists
<1>2. IsFinishing(Finishing(s, props), s, props, Len(props))
  BY <1>1 DEF IsFinishing, Finishing
<1>3. PICK f, len : f = Finishing(s, props) /\ len = Len(props)
  OBVIOUS
<1>4. /\ f[0] = s
      /\ \A i \in 1 .. len : f[i] = finishProposalById(f[i - 1], props[i].id)
  <2>1. len \in Nat /\ IsFinishing(f, s, props, len)
    BY <1>2, <1>3
  <2> QED  BY <2>1 DEF IsFinishing
<1> QED  BY <1>3, <1>4

\* g is the function that Executing defines.
IsExecuting(g, s, v, props, len) ==
    g = [i \in 0 .. len |-> IF i = 0 THEN [s |-> s, txs |-> <<>>]
                            ELSE ExecuteNext(g[i - 1], v, props[i])]

LEMMA ExecutingExists ==
    ASSUME NEW s, NEW v, NEW props, NEW len \in Nat
    PROVE  \E g : IsExecuting(g, s, v, props, len)
<1> DEFINE S == {k \in Nat : \E g : IsExecuting(g, s, v, props, k)}
<1>1. 0 \in S
  <2>1. IsExecuting([i \in 0 .. 0 |-> [s |-> s, txs |-> <<>>]], s, v, props, 0)
    BY DEF IsExecuting
  <2> QED  BY <2>1
<1>2. ASSUME NEW k \in 0 .. len - 1, k \in S PROVE k + 1 \in S
  <2>1. PICK g : IsExecuting(g, s, v, props, k)
    BY <1>2
  <2>2. k \in Nat
    OBVIOUS
  <2> DEFINE h == [i \in 0 .. k + 1 |-> IF i \in 0 .. k THEN g[i]
                                        ELSE ExecuteNext(g[k], v, props[i])]
  <2>3. h[0] = [s |-> s, txs |-> <<>>]
    <3>1. g[0] = [s |-> s, txs |-> <<>>]
      BY <2>1, <2>2 DEF IsExecuting
    <3> QED  BY <2>2, <3>1
  <2>4. ASSUME NEW i \in 1 .. k
        PROVE  h[i] = ExecuteNext(h[i - 1], v, props[i])
    <3>1. g[i] = ExecuteNext(g[i - 1], v, props[i])
      BY <2>1, <2>2 DEF IsExecuting
    <3>2. h[i] = g[i] /\ h[i - 1] = g[i - 1]
      BY <2>2
    <3> QED  BY <3>1, <3>2
  <2>5. h[k + 1] = ExecuteNext(h[k], v, props[k + 1])
    BY <2>2
  <2>6. h = [i \in 0 .. k + 1 |-> h[i]]
    OBVIOUS
  <2> HIDE DEF h
  <2>7. \A i \in 0 .. k + 1 :
           h[i] = IF i = 0 THEN [s |-> s, txs |-> <<>>]
                  ELSE ExecuteNext(h[i - 1], v, props[i])
    <3> SUFFICES ASSUME NEW i \in 0 .. k + 1, i # 0
                 PROVE  h[i] = ExecuteNext(h[i - 1], v, props[i])
      BY <2>3
    <3>1. i \in 1 .. k \/ (i = k + 1 /\ i - 1 = k)
      BY <2>2
    <3> QED  BY <2>4, <2>5, <3>1
  <2>8. IsExecuting(h, s, v, props, k + 1)
    BY <2>6, <2>7 DEF IsExecuting
  <2> QED  BY <2>2, <2>8
<1>3. len \in S
  <2> HIDE DEF S
  <2>1. \A i \in 0 .. len : i \in S
    BY <1>1, <1>2, UpTo
  <2> QED  BY <2>1
<1> QED  BY <1>3

LEMMA ExecutingAt ==
    ASSUME NEW s, NEW v, NEW props, Len(props) \in Nat
    PROVE  /\ Executing(s, v, props)[0] = [s |-> s, txs |-> <<>>]
           /\ \A i \in 1 .. Len(props) :
                 Executing(s, v, props)[i]
                    = ExecuteNext(Executing(s, v, props)[i - 1], v, props[i])
<1>1. PICK g : IsExecuting(g, s, v, props, Len(props))
  BY ExecutingExists
<1>2. IsExecuting(Executing(s, v, props), s, v, props, Len(props))
  BY <1>1 DEF IsExecuting, Executing
<1>3. PICK f, len : f = Executing(s, v, props) /\ len = Len(props)
  OBVIOUS
<1>4. /\ f[0] = [s |-> s, txs |-> <<>>]
      /\ \A i \in 1 .. len : f[i] = ExecuteNext(f[i - 1], v, props[i])
  <2>1. len \in Nat /\ IsExecuting(f, s, v, props, len)
    BY <1>2, <1>3
  <2> QED  BY <2>1 DEF IsExecuting
<1> QED  BY <1>3, <1>4

\* g is the function that Replaying defines.
IsReplaying(g, s, systemTxs, props, len) ==
    g = [i \in 0 .. len |-> IF i = 0 THEN s
                            ELSE replayProposal(g[i - 1], systemTxs[i], props[i])]

LEMMA ReplayingExists ==
    ASSUME NEW s, NEW systemTxs, NEW props, NEW len \in Nat
    PROVE  \E g : IsReplaying(g, s, systemTxs, props, len)
<1> DEFINE S == {k \in Nat : \E g : IsReplaying(g, s, systemTxs, props, k)}
<1>1. 0 \in S
  <2>1. IsReplaying([i \in 0 .. 0 |-> s], s, systemTxs, props, 0)
    BY DEF IsReplaying
  <2> QED  BY <2>1
<1>2. ASSUME NEW k \in 0 .. len - 1, k \in S PROVE k + 1 \in S
  <2>1. PICK g : IsReplaying(g, s, systemTxs, props, k)
    BY <1>2
  <2>2. k \in Nat
    OBVIOUS
  <2> DEFINE h == [i \in 0 .. k + 1 |-> IF i \in 0 .. k THEN g[i]
                                        ELSE replayProposal(g[k], systemTxs[i], props[i])]
  <2>3. h[0] = s
    <3>1. g[0] = s
      BY <2>1, <2>2 DEF IsReplaying
    <3> QED  BY <2>2, <3>1
  <2>4. ASSUME NEW i \in 1 .. k
        PROVE  h[i] = replayProposal(h[i - 1], systemTxs[i], props[i])
    <3>1. g[i] = replayProposal(g[i - 1], systemTxs[i], props[i])
      BY <2>1, <2>2 DEF IsReplaying
    <3>2. h[i] = g[i] /\ h[i - 1] = g[i - 1]
      BY <2>2
    <3> QED  BY <3>1, <3>2
  <2>5. h[k + 1] = replayProposal(h[k], systemTxs[k + 1], props[k + 1])
    BY <2>2
  <2>6. h = [i \in 0 .. k + 1 |-> h[i]]
    OBVIOUS
  <2> HIDE DEF h
  <2>7. \A i \in 0 .. k + 1 :
           h[i] = IF i = 0 THEN s
                  ELSE replayProposal(h[i - 1], systemTxs[i], props[i])
    <3> SUFFICES ASSUME NEW i \in 0 .. k + 1, i # 0
                 PROVE  h[i] = replayProposal(h[i - 1], systemTxs[i], props[i])
      BY <2>3
    <3>1. i \in 1 .. k \/ (i = k + 1 /\ i - 1 = k)
      BY <2>2
    <3> QED  BY <2>4, <2>5, <3>1
  <2>8. IsReplaying(h, s, systemTxs, props, k + 1)
    BY <2>6, <2>7 DEF IsReplaying
  <2> QED  BY <2>2, <2>8
<1>3. len \in S
  <2> HIDE DEF S
  <2>1. \A i \in 0 .. len : i \in S
    BY <1>1, <1>2, UpTo
  <2> QED  BY <2>1
<1> QED  BY <1>3

LEMMA ReplayingAt ==
    ASSUME NEW s, NEW systemTxs, NEW props, Len(props) \in Nat
    PROVE  /\ Replaying(s, systemTxs, props)[0] = s
           /\ \A i \in 1 .. Len(props) :
                 Replaying(s, systemTxs, props)[i]
                    = replayProposal(Replaying(s, systemTxs, props)[i - 1], systemTxs[i], props[i])
<1>1. PICK g : IsReplaying(g, s, systemTxs, props, Len(props))
  BY ReplayingExists
<1>2. IsReplaying(Replaying(s, systemTxs, props), s, systemTxs, props, Len(props))
  BY <1>1 DEF IsReplaying, Replaying
<1>3. PICK f, len : f = Replaying(s, systemTxs, props) /\ len = Len(props)
  OBVIOUS
<1>4. /\ f[0] = s
      /\ \A i \in 1 .. len : f[i] = replayProposal(f[i - 1], systemTxs[i], props[i])
  <2>1. len \in Nat /\ IsReplaying(f, s, systemTxs, props, len)
    BY <1>2, <1>3
  <2> QED  BY <2>1 DEF IsReplaying
<1> QED  BY <1>3, <1>4

\* g is the function that Processing defines.
IsProcessing(g, s, n, b, len) ==
    g = [i \in 0 .. len |-> IF i = 0 THEN Unprocessed(s)
                            ELSE ProcessTx(g[i - 1], n, b.coinbase, b.txs[i])]

LEMMA ProcessingExists ==
    ASSUME NEW s, NEW n, NEW b, NEW len \in Nat
    PROVE  \E g : IsProcessing(g, s, n, b, len)
<1> DEFINE S == {k \in Nat : \E g : IsProcessing(g, s, n, b, k)}
<1>1. 0 \in S
  <2>1. IsProcessing([i \in 0 .. 0 |-> Unprocessed(s)], s, n, b, 0)
    BY DEF IsProcessing
  <2> QED  BY <2>1
<1>2. ASSUME NEW k \in 0 .. len - 1, k \in S PROVE k + 1 \in S
  <2>1. PICK g : IsProcessing(g, s, n, b, k)
    BY <1>2
  <2>2. k \in Nat
    OBVIOUS
  <2> DEFINE h == [i \in 0 .. k + 1 |-> IF i \in 0 .. k THEN g[i]
                                        ELSE ProcessTx(g[k], n, b.coinbase, b.txs[i])]
  <2>3. h[0] = Unprocessed(s)
    <3>1. g[0] = Unprocessed(s)
      BY <2>1, <2>2 DEF IsProcessing
    <3> QED  BY <2>2, <3>1
  <2>4. ASSUME NEW i \in 1 .. k
        PROVE  h[i] = ProcessTx(h[i - 1], n, b.coinbase, b.txs[i])
    <3>1. g[i] = ProcessTx(g[i - 1], n, b.coinbase, b.txs[i])
      BY <2>1, <2>2 DEF IsProcessing
    <3>2. h[i] = g[i] /\ h[i - 1] = g[i - 1]
      BY <2>2
    <3> QED  BY <3>1, <3>2
  <2>5. h[k + 1] = ProcessTx(h[k], n, b.coinbase, b.txs[k + 1])
    BY <2>2
  <2>6. h = [i \in 0 .. k + 1 |-> h[i]]
    OBVIOUS
  <2> HIDE DEF h
  <2>7. \A i \in 0 .. k + 1 :
           h[i] = IF i = 0 THEN Unprocessed(s)
                  ELSE ProcessTx(h[i - 1], n, b.coinbase, b.txs[i])
    <3> SUFFICES ASSUME NEW i \in 0 .. k + 1, i # 0
                 PROVE  h[i] = ProcessTx(h[i - 1], n, b.coinbase, b.txs[i])
      BY <2>3
    <3>1. i \in 1 .. k \/ (i = k + 1 /\ i - 1 = k)
      BY <2>2
    <3> QED  BY <2>4, <2>5, <3>1
  <2>8. IsProcessing(h, s, n, b, k + 1)
    BY <2>6, <2>7 DEF IsProcessing
  <2> QED  BY <2>2, <2>8
<1>3. len \in S
  <2> HIDE DEF S
  <2>1. \A i \in 0 .. len : i \in S
    BY <1>1, <1>2, UpTo
  <2> QED  BY <2>1
<1> QED  BY <1>3

LEMMA ProcessingAt ==
    ASSUME NEW s, NEW n, NEW b, Len(b.txs) \in Nat
    PROVE  /\ Processing(s, n, b)[0] = Unprocessed(s)
           /\ \A i \in 1 .. Len(b.txs) :
                 Processing(s, n, b)[i]
                    = ProcessTx(Processing(s, n, b)[i - 1], n, b.coinbase, b.txs[i])
<1>1. PICK g : IsProcessing(g, s, n, b, Len(b.txs))
  BY ProcessingExists
<1>2. IsProcessing(Processing(s, n, b), s, n, b, Len(b.txs))
  BY <1>1 DEF IsProcessing, Processing
<1>3. PICK f, len : f = Processing(s, n, b) /\ len = Len(b.txs)
  OBVIOUS
<1>4. /\ f[0] = Unprocessed(s)
      /\ \A i \in 1 .. len : f[i] = ProcessTx(f[i - 1], n, b.coinbase, b.txs[i])
  <2>1. len \in Nat /\ IsProcessing(f, s, n, b, len)
    BY <1>2, <1>3
  <2> QED  BY <2>1 DEF IsProcessing
<1> QED  BY <1>3, <1>4

(***************************************************************************)
(* The lists of SysGov                                                     *)
(***************************************************************************)

Distinct(s) == \A i, j \in DOMAIN s.passed : s.passed[i].id = s.passed[j].id => i = j

LEMMA CommitParts ==
    ASSUME NEW s \in States, NEW again \in BOOLEAN, NEW t, t = commitProposal(s, again)
    PROVE  /\ t \in States
           /\ t.executed = s.executed /\ t.count = s.count + 1 /\ t.nonce = s.nonce
           /\ Len(t.passed) = Len(s.passed) + 1
           /\ \A i \in 1 .. Len(s.passed) : t.passed[i] = s.passed[i]
           /\ t.passed[Len(s.passed) + 1].id = s.count + 1
<1>1. PICK p : p = [id |-> s.count + 1, again |-> again]
  OBVIOUS
<1>2. p \in Props /\ p.id = s.count + 1
  BY <1>1 DEF Props, States
<1>3. s.passed \in Seq(Props)
  BY DEF States
<1>4. /\ t.passed = Append(s.passed, p) /\ t.executed = s.executed
      /\ t.count = s.count + 1 /\ t.nonce = s.nonce
      /\ t = [passed |-> t.passed, executed |-> t.executed, count |-> t.count,
              nonce |-> t.nonce]
  BY <1>1 DEF commitProposal, States
<1>5. PICK P : P = s.passed
  OBVIOUS
<1>6. /\ Append(P, p) \in Seq(Props) /\ Len(Append(P, p)) = Len(P) + 1
      /\ \A i \in 1 .. Len(P) : Append(P, p)[i] = P[i]
      /\ Append(P, p)[Len(P) + 1] = p
  BY <1>2, <1>3, <1>5
<1>7. t.passed \in Seq(Props) /\ t.executed \in Seq(Nat) /\ t.count \in Nat
      /\ t.nonce \in [Accounts -> Nat]
  BY <1>4, <1>5, <1>6 DEF States
<1>8. t \in States
  BY <1>4, <1>7 DEF States
<1> QED  BY <1>2, <1>4, <1>5, <1>6, <1>8

\* A new proposal has a new number.
LEMMA CommitIds ==
    ASSUME NEW s \in States, NEW again \in BOOLEAN, NEW t, t = commitProposal(s, again),
           Distinct(s), Ids(s) \subseteq 1 .. s.count
    PROVE  Distinct(t) /\ Ids(t) = Ids(s) \cup {s.count + 1}
<1>1. PICK P, Q, c : P = s.passed /\ Q = t.passed /\ c = s.count
  OBVIOUS
<1>2. /\ Q \in Seq(Props) /\ Len(Q) = Len(P) + 1
      /\ \A i \in 1 .. Len(P) : Q[i] = P[i]
      /\ Q[Len(P) + 1].id = c + 1
  <2>1. /\ t \in States /\ Len(t.passed) = Len(s.passed) + 1
        /\ \A i \in 1 .. Len(s.passed) : t.passed[i] = s.passed[i]
        /\ t.passed[Len(s.passed) + 1].id = s.count + 1
    BY CommitParts
  <2>2. t.passed \in Seq(Props)
    BY <2>1 DEF States
  <2> QED  BY <1>1, <2>1, <2>2
<1>3. P \in Seq(Props) /\ c \in Nat
  BY <1>1 DEF States
<1>4. \A i \in 1 .. Len(P) : P[i].id \in 1 .. c
  BY <1>1, <1>3 DEF Ids
<1>5. \A i, j \in 1 .. Len(P) : P[i].id = P[j].id => i = j
  BY <1>1, <1>3 DEF Distinct
<1>6. \A i, j \in 1 .. Len(Q) : Q[i].id = Q[j].id => i = j
  BY <1>2, <1>3, <1>4, <1>5
<1>7. {Q[i].id : i \in 1 .. Len(Q)} = {P[i].id : i \in 1 .. Len(P)} \cup {c + 1}
  <2>1. Len(P) \in Nat
    BY <1>3
  <2>2. \A i \in 1 .. Len(Q) : i \in 1 .. Len(P) \/ i = Len(P) + 1
    BY <1>2, <2>1
  <2>3. 1 .. Len(P) \subseteq 1 .. Len(Q) /\ Len(P) + 1 \in 1 .. Len(Q)
    BY <1>2, <2>1
  <2> QED  BY <1>2, <2>2, <2>3
<1>8. DOMAIN P = 1 .. Len(P) /\ DOMAIN Q = 1 .. Len(Q)
  BY <1>2, <1>3
<1>9. Distinct(t)
  BY <1>1, <1>6, <1>8 DEF Distinct
<1>10. Ids(t) = {Q[i].id : i \in 1 .. Len(Q)} /\ Ids(s) = {P[i].id : i \in 1 .. Len(P)}
  BY <1>1, <1>8 DEF Ids
<1> QED  BY <1>1, <1>7, <1>9, <1>10

\* finishProposalById takes one proposal from the list, whatever its place.
LEMMA FinishOne ==
    ASSUME NEW s \in States, Distinct(s), NEW id \in Ids(s),
           NEW t, t = finishProposalById(s, id)
    PROVE  /\ t \in States /\ Distinct(t) /\ Ids(t) = Ids(s) \ {id}
           /\ t.executed = s.executed /\ t.count = s.count /\ t.nonce = s.nonce
           /\ Len(t.passed) = Len(s.passed) - 1
<1>1. PICK P : P = s.passed
  OBVIOUS
<1>2. P \in Seq(Props) /\ DOMAIN P = 1 .. Len(P) /\ Len(P) \in Nat
  BY <1>1 DEF States
<1>3. PICK i : i = CHOOSE k \in DOMAIN P : P[k].id = id
  OBVIOUS
<1>4. i \in 1 .. Len(P) /\ P[i].id = id
  <2>1. \E k \in DOMAIN P : P[k].id = id
    BY <1>1 DEF Ids
  <2> QED  BY <1>2, <1>3, <2>1
<1>5. PICK n : n = Len(P)
  OBVIOUS
<1>6. n \in Nat /\ n >= 1 /\ i \in 1 .. n /\ P \in [1 .. n -> Props]
  BY <1>2, <1>4, <1>5
<1>7. PICK R : R = [P EXCEPT ![i] = P[n]]
  OBVIOUS
<1>8. R \in [1 .. n -> Props] /\ \A k \in 1 .. n : R[k] = IF k = i THEN P[n] ELSE P[k]
  BY <1>6, <1>7
<1>9. R \in Seq(Props) /\ Len(R) = n
  BY <1>6, <1>8
<1>10. PICK Q : Q = SubSeq(R, 1, n - 1)
  OBVIOUS
<1>11. /\ Q \in Seq(Props) /\ Len(Q) = n - 1 /\ DOMAIN Q = 1 .. n - 1
      /\ \A k \in 1 .. n - 1 : Q[k] = IF k = i THEN P[n] ELSE P[k]
  <2>1. /\ Q \in Seq(Props) /\ Len(Q) = n - 1
        /\ \A k \in 1 .. n - 1 : Q[k] = R[k]
    BY <1>6, <1>9, <1>10
  <2> QED  BY <1>6, <1>8, <2>1
<1>12. t = [s EXCEPT !.passed = Q]
  <2>1. t = [s EXCEPT !.passed = Front([P EXCEPT ![i] = Last(P)])]
    BY <1>1, <1>3 DEF finishProposalById
  <2>2. Last(P) = P[n] /\ Front(R) = Q
    BY <1>5, <1>9, <1>10 DEF Front, Last
  <2> QED  BY <1>7, <2>1, <2>2
<1>13. /\ t.passed = Q /\ t.executed = s.executed /\ t.count = s.count
      /\ t.nonce = s.nonce
      /\ t = [passed |-> t.passed, executed |-> t.executed, count |-> t.count,
              nonce |-> t.nonce]
  BY <1>12 DEF States
<1>14. t \in States
  BY <1>11, <1>13 DEF States
<1>15. \A j, k \in 1 .. n : P[j].id = P[k].id => j = k
  BY <1>1, <1>2, <1>5 DEF Distinct
<1>16. \A j, k \in 1 .. n - 1 : Q[j].id = Q[k].id => j = k
  BY <1>6, <1>11, <1>15
<1>17. {Q[k].id : k \in 1 .. n - 1} = {P[k].id : k \in 1 .. n} \ {id}
  <2>1. ASSUME NEW k \in 1 .. n - 1
        PROVE  Q[k].id \in {P[j].id : j \in 1 .. n} \ {id}
    <3>1. PICK j \in 1 .. n : Q[k] = P[j] /\ j # i
      BY <1>6, <1>11
    <3> QED  BY <1>4, <1>6, <1>15, <3>1
  <2>2. ASSUME NEW j \in 1 .. n, P[j].id # id
        PROVE  P[j].id \in {Q[k].id : k \in 1 .. n - 1}
    <3>1. j # i
      BY <1>4, <2>2
    <3>2. \E k \in 1 .. n - 1 : Q[k] = P[j]
      <4>1. CASE j = n
        <5>1. i \in 1 .. n - 1 /\ Q[i] = P[j]
          BY <1>6, <1>11, <3>1, <4>1
        <5> QED  BY <5>1
      <4>2. CASE j # n
        <5>1. j \in 1 .. n - 1 /\ Q[j] = P[j]
          BY <1>6, <1>11, <3>1, <4>2
        <5> QED  BY <5>1
      <4> QED  BY <4>1, <4>2
    <3> QED  BY <3>2
  <2> QED  BY <2>1, <2>2
<1>18. DOMAIN P = 1 .. n /\ DOMAIN Q = 1 .. n - 1
  BY <1>2, <1>5, <1>11
<1>19. Distinct(t)
  BY <1>13, <1>16, <1>18 DEF Distinct
<1>20. Ids(t) = {Q[k].id : k \in 1 .. n - 1} /\ Ids(s) = {P[k].id : k \in 1 .. n}
  BY <1>1, <1>13, <1>18 DEF Ids
<1> QED  BY <1>1, <1>5, <1>11, <1>13, <1>14, <1>17, <1>19, <1>20

(***************************************************************************)
(* Executing all proposals, then finishing all                             *)
(***************************************************************************)

LEMMA NonceParts ==
    ASSUME NEW s \in States, NEW a \in Accounts, NEW t, t = [s EXCEPT !.nonce[a] = @ + 1]
    PROVE  /\ t \in States
           /\ t.passed = s.passed /\ t.executed = s.executed /\ t.count = s.count
<1>1. PICK f : f = [s.nonce EXCEPT ![a] = @ + 1]
  OBVIOUS
<1>2. f \in [Accounts -> Nat]
  BY <1>1 DEF States
<1>3. t = [s EXCEPT !.nonce = f]
  BY <1>1 DEF States
<1>4. /\ t.passed = s.passed /\ t.executed = s.executed /\ t.count = s.count
      /\ t.nonce = f
      /\ t = [passed |-> t.passed, executed |-> t.executed, count |-> t.count,
              nonce |-> t.nonce]
  BY <1>3 DEF States
<1>5. t \in States
  BY <1>2, <1>4 DEF States
<1> QED  BY <1>4, <1>5

ExecutedIds(s, i) == [k \in 1 .. i |-> s.passed[k].id]

\* t is a state in which the first i proposals of s have been executed and none
\* is finished; what they passed stands behind the proposals of s.
Halfway(s, t, i) ==
    /\ t \in States /\ Distinct(t)
    /\ Len(t.passed) >= Len(s.passed)
    /\ \A k \in 1 .. Len(s.passed) : t.passed[k] = s.passed[k]
    /\ Ids(t) \cap Range(s.executed) = {}
    /\ Ids(t) \cup Range(s.executed) = 1 .. t.count
    /\ t.executed = s.executed \o ExecutedIds(s, i)

LEMMA HalfwayStart ==
    ASSUME NEW s, Sound(s)
    PROVE  Halfway(s, s, 0)
<1>1. s.executed \in Seq(Nat) /\ s.passed \in Seq(Props) /\ s \in States
  BY DEF Sound, States
<1>2. ExecutedIds(s, 0) = <<>>
  BY DEF ExecutedIds
<1>3. s.executed = s.executed \o ExecutedIds(s, 0)
  BY <1>1, <1>2
<1>4. Distinct(s)
  BY DEF Sound, Distinct
<1>5. Len(s.passed) \in Nat
  BY <1>1
<1> QED  BY <1>1, <1>3, <1>4, <1>5 DEF Sound, Halfway

LEMMA ExecutedIdsNext ==
    ASSUME NEW s \in States, NEW i \in 0 .. Len(s.passed) - 1
    PROVE  s.executed \o ExecutedIds(s, i + 1)
              = Append(s.executed \o ExecutedIds(s, i), s.passed[i + 1].id)
<1>1. PICK E, P : E = s.executed /\ P = s.passed
  OBVIOUS
<1>2. E \in Seq(Nat) /\ P \in Seq(Props)
  BY <1>1 DEF States
<1>3. i \in Nat /\ \A k \in 1 .. i + 1 : P[k].id \in Nat
  <2>1. Len(P) \in Nat /\ i \in 0 .. Len(P) - 1
    BY <1>1, <1>2
  <2>2. \A k \in 1 .. Len(P) : P[k] \in Props
    BY <1>2
  <2> QED  BY <2>1, <2>2 DEF Props
<1>4. PICK A, B : A = [k \in 1 .. i |-> P[k].id] /\ B = [k \in 1 .. i + 1 |-> P[k].id]
  OBVIOUS
<1>5. A \in Seq(Nat) /\ Len(A) = i
  BY <1>3, <1>4
<1>6. B = Append(A, P[i + 1].id)
  BY <1>3, <1>4, <1>5
<1>7. PICK x : x = P[i + 1].id
  OBVIOUS
<1>8. x \in Nat
  BY <1>3, <1>7
<1>9. E \o Append(A, x) = Append(E \o A, x)
  BY <1>2, <1>5, <1>8
<1> QED  BY <1>1, <1>4, <1>6, <1>7, <1>9 DEF ExecutedIds

LEMMA ExecutedHalfway ==
    ASSUME NEW s, Sound(s), NEW i \in 0 .. Len(s.passed) - 1, NEW t, Halfway(s, t, i),
           NEW v \in Accounts
    PROVE  Halfway(s, Executed([t EXCEPT !.nonce[v] = @ + 1], s.passed[i + 1]), i + 1)
<1>1. PICK u : u = [t EXCEPT !.nonce[v] = @ + 1]
  OBVIOUS
<1>2. t \in States /\ s \in States
  BY DEF Halfway, Sound
<1>3. /\ u \in States /\ u.passed = t.passed /\ u.executed = t.executed
      /\ u.count = t.count
  BY <1>1, <1>2, NonceParts
<1>4. PICK p : p = s.passed[i + 1]
  OBVIOUS
<1>5. p \in Props
  BY <1>2, <1>4 DEF States
<1>6. PICK w : w = [u EXCEPT !.executed = Append(@, p.id)]
  OBVIOUS
<1>7. /\ w.passed = t.passed /\ w.executed = Append(t.executed, p.id)
      /\ w.count = t.count /\ w.nonce = u.nonce
      /\ w = [passed |-> w.passed, executed |-> w.executed, count |-> w.count,
              nonce |-> w.nonce]
  BY <1>3, <1>6 DEF States
<1>8. Append(t.executed, p.id) \in Seq(Nat)
  BY <1>2, <1>5 DEF States, Props
<1>9. w \in States
  BY <1>2, <1>3, <1>7, <1>8 DEF States
<1>10. w.executed = s.executed \o ExecutedIds(s, i + 1)
  BY <1>2, <1>4, <1>7, ExecutedIdsNext DEF Halfway
<1>11. Distinct(w) /\ Ids(w) = Ids(t)
  BY <1>7 DEF Halfway, Distinct, Ids
<1>12. Halfway(s, w, i + 1)
  BY <1>7, <1>9, <1>10, <1>11 DEF Halfway
<1>13. CASE ~ p.again
  BY <1>1, <1>4, <1>6, <1>12, <1>13 DEF Executed
<1>14. CASE p.again
  <2>1. PICK x : x = commitProposal(w, FALSE)
    OBVIOUS
  <2>2. Executed(u, p) = x
    BY <1>6, <1>14, <2>1 DEF Executed
  <2>3. Ids(w) \subseteq 1 .. w.count
    BY <1>12 DEF Halfway
  <2>4. /\ x \in States /\ x.executed = w.executed /\ x.count = w.count + 1
        /\ Len(x.passed) = Len(w.passed) + 1
        /\ \A k \in 1 .. Len(w.passed) : x.passed[k] = w.passed[k]
    BY <1>9, <2>1, CommitParts
  <2>5. Distinct(x) /\ Ids(x) = Ids(w) \cup {w.count + 1}
    BY <1>9, <1>11, <2>1, <2>3, CommitIds
  <2>6. w.count \in Nat /\ Len(w.passed) \in Nat /\ Len(s.passed) \in Nat
    BY <1>2, <1>9 DEF States
  <2>7. Ids(x) \cap Range(s.executed) = {} /\ Ids(x) \cup Range(s.executed) = 1 .. x.count
    <3>1. /\ Ids(w) \cap Range(s.executed) = {}
          /\ Ids(w) \cup Range(s.executed) = 1 .. w.count
      BY <1>12 DEF Halfway
    <3>2. w.count + 1 \notin 1 .. w.count /\ 1 .. x.count = 1 .. w.count \cup {w.count + 1}
      BY <2>4, <2>6
    <3> QED  BY <2>5, <3>1, <3>2
  <2>8. Len(x.passed) >= Len(s.passed)
        /\ \A k \in 1 .. Len(s.passed) : x.passed[k] = s.passed[k]
    <3>1. PICK m, n, W, X, P : /\ m = Len(w.passed) /\ n = Len(s.passed)
                               /\ W = w.passed /\ X = x.passed /\ P = s.passed
      OBVIOUS
    <3>2. m \in Nat /\ n \in Nat /\ m >= n /\ \A k \in 1 .. n : W[k] = P[k]
      BY <1>12, <2>6, <3>1 DEF Halfway
    <3>3. Len(X) = m + 1 /\ \A k \in 1 .. m : X[k] = W[k]
      BY <2>4, <3>1
    <3>4. Len(X) >= n /\ \A k \in 1 .. n : X[k] = P[k]
      BY <3>2, <3>3
    <3> QED  BY <3>1, <3>4
  <2>9. Halfway(s, x, i + 1)
    BY <1>10, <2>4, <2>5, <2>7, <2>8 DEF Halfway
  <2> QED  BY <1>1, <1>4, <2>2, <2>9
<1> QED  BY <1>13, <1>14

\* The transactions that validator v signs for the first i proposals of s.
SysTxs(T, s, v, i) ==
    /\ T \in Seq(Txs) /\ Len(T) = i
    /\ \A k \in 1 .. i : /\ T[k].from = v /\ T[k].to = "SysGovTo" /\ T[k].free
                         /\ T[k].data = s.passed[k]

Midway(s, v, r, i) == Halfway(s, r.s, i) /\ SysTxs(r.txs, s, v, i)

LEMMA ExecuteNextMidway ==
    ASSUME NEW s, Sound(s), NEW v \in Validators, NEW i \in 0 .. Len(s.passed) - 1,
           NEW r, Midway(s, v, r, i)
    PROVE  Midway(s, v, ExecuteNext(r, v, s.passed[i + 1]), i + 1)
<1>1. PICK t, p : t = r.s /\ p = s.passed[i + 1]
  OBVIOUS
<1>2. s \in States /\ t \in States /\ v \in Accounts
  BY <1>1 DEF Sound, Midway, Halfway, Accounts
<1>3. p \in Props /\ i \in Nat
  <2>1. s.passed \in Seq(Props)
    BY <1>2 DEF States
  <2> QED  BY <1>1, <2>1
<1>4. PICK u : u = Executed([t EXCEPT !.nonce[v] = @ + 1], p)
  OBVIOUS
<1>5. Halfway(s, u, i + 1)
  BY <1>1, <1>2, <1>4, ExecutedHalfway DEF Midway
<1>6. PICK x : x = Tx(t, v, "SysGovTo", TRUE, p)
  OBVIOUS
<1>7. /\ x.from = v /\ x.to = "SysGovTo" /\ x.free /\ x.data = p
      /\ x \in Txs
  <2>1. t.nonce[v] \in Nat
    BY <1>2 DEF States
  <2> QED  BY <1>2, <1>3, <1>6, <2>1 DEF Tx, Txs, Targets
<1>8. ExecuteNext(r, v, p) = [s |-> u, txs |-> Append(r.txs, x)]
  BY <1>1, <1>4, <1>6 DEF ExecuteNext, executeProposal
<1>9. PICK T, U : T = r.txs /\ U = Append(T, x)
  OBVIOUS
<1>10. SysTxs(T, s, v, i)
  BY <1>9 DEF Midway
<1>11. T \in Seq(Txs) /\ Len(T) = i
  BY <1>10 DEF SysTxs
<1>12. U \in Seq(Txs) /\ Len(U) = i + 1 /\ U[i + 1] = x
       /\ \A k \in 1 .. i : U[k] = T[k]
  BY <1>3, <1>7, <1>9, <1>11
<1>13. \A k \in 1 .. i + 1 : /\ U[k].from = v /\ U[k].to = "SysGovTo" /\ U[k].free
                             /\ U[k].data = s.passed[k]
  <2> SUFFICES ASSUME NEW k \in 1 .. i + 1
               PROVE  /\ U[k].from = v /\ U[k].to = "SysGovTo" /\ U[k].free
                      /\ U[k].data = s.passed[k]
    OBVIOUS
  <2>1. k \in 1 .. i \/ k = i + 1
    BY <1>3
  <2>2. CASE k \in 1 .. i
    BY <1>10, <1>12, <2>2 DEF SysTxs
  <2>3. CASE k = i + 1
    BY <1>1, <1>7, <1>12, <2>3
  <2> QED  BY <2>1, <2>2, <2>3
<1>14. SysTxs(U, s, v, i + 1)
  BY <1>12, <1>13 DEF SysTxs
<1> QED  BY <1>1, <1>5, <1>8, <1>9, <1>14 DEF Midway

LEMMA ExecutingMidway ==
    ASSUME NEW s, Sound(s), NEW v \in Validators
    PROVE  \A i \in 0 .. Len(s.passed) : Midway(s, v, Executing(s, v, s.passed)[i], i)
<1>1. PICK P, n, f : P = s.passed /\ n = Len(P) /\ f = Executing(s, v, P)
  OBVIOUS
<1>2. n \in Nat
  BY <1>1 DEF Sound, States
<1>3. /\ f[0] = [s |-> s, txs |-> <<>>]
      /\ \A i \in 1 .. n : f[i] = ExecuteNext(f[i - 1], v, P[i])
  BY <1>1, <1>2, ExecutingAt
<1> DEFINE S == {i \in Nat : Midway(s, v, f[i], i)}
<1>4. 0 \in S
  <2>1. f[0].s = s /\ f[0].txs = <<>>
    BY <1>3
  <2>2. SysTxs(<<>>, s, v, 0)
    BY DEF SysTxs
  <2> QED  BY <2>1, <2>2, HalfwayStart DEF Midway
<1>5. ASSUME NEW i \in 0 .. n - 1, i \in S PROVE i + 1 \in S
  <2>1. f[i + 1] = ExecuteNext(f[i], v, P[i + 1])
    <3>1. i + 1 \in 1 .. n /\ i + 1 - 1 = i
      BY <1>2
    <3> QED  BY <1>3, <3>1
  <2>2. Midway(s, v, ExecuteNext(f[i], v, P[i + 1]), i + 1)
    BY <1>1, <1>5, ExecuteNextMidway
  <2> QED  BY <1>2, <2>1, <2>2
<1>6. \A i \in 0 .. n : i \in S
  <2> HIDE DEF S
  <2> QED  BY <1>2, <1>4, <1>5, UpTo
<1> QED  BY <1>1, <1>6

\* Replaying the transactions of the assembled block leads to the same state.
LEMMA ReplayedAlike ==
    ASSUME NEW s, Sound(s), NEW v \in Validators, NEW T, SysTxs(T, s, v, Len(s.passed))
    PROVE  ReplayAll(s, T, s.passed) = ExecuteAll(s, v, s.passed).s
<1>1. PICK P, n, f, g : /\ P = s.passed /\ n = Len(P) /\ f = Executing(s, v, P)
                        /\ g = Replaying(s, T, P)
  OBVIOUS
<1>2. n \in Nat
  BY <1>1 DEF Sound, States
<1>3. /\ f[0] = [s |-> s, txs |-> <<>>]
      /\ \A i \in 1 .. n : f[i] = ExecuteNext(f[i - 1], v, P[i])
  BY <1>1, <1>2, ExecutingAt
<1>4. g[0] = s /\ \A i \in 1 .. n : g[i] = replayProposal(g[i - 1], T[i], P[i])
  BY <1>1, <1>2, ReplayingAt
<1> DEFINE S == {i \in Nat : g[i] = f[i].s}
<1>5. 0 \in S
  BY <1>3, <1>4
<1>6. ASSUME NEW i \in 0 .. n - 1, i \in S PROVE i + 1 \in S
  <2>1. i + 1 \in 1 .. n /\ i + 1 - 1 = i /\ i + 1 \in Nat
    BY <1>2
  <2>2. f[i + 1] = ExecuteNext(f[i], v, P[i + 1])
    BY <1>3, <2>1
  <2>3. g[i + 1] = replayProposal(g[i], T[i + 1], P[i + 1])
    BY <1>4, <2>1
  <2>4. T[i + 1].from = v
    BY <1>1, <2>1 DEF SysTxs
  <2>5. g[i] = f[i].s
    BY <1>6
  <2>6. f[i + 1].s = Executed([f[i].s EXCEPT !.nonce[v] = @ + 1], P[i + 1])
    BY <2>2 DEF ExecuteNext, executeProposal
  <2>7. g[i + 1] = f[i + 1].s
    BY <2>3, <2>4, <2>5, <2>6 DEF replayProposal
  <2> QED  BY <2>1, <2>7
<1>7. \A i \in 0 .. n : i \in S
  <2> HIDE DEF S
  <2> QED  BY <1>2, <1>5, <1>6, UpTo
<1> QED  BY <1>1, <1>2, <1>7 DEF ReplayAll, ExecuteAll

\* u is t without the first i proposals of s.
Finished(s, t, u, i) ==
    /\ u \in States /\ Distinct(u)
    /\ u.executed = t.executed /\ u.count = t.count
    /\ Ids(u) = Ids(t) \ {s.passed[k].id : k \in 1 .. i}

LEMMA FinishingFinished ==
    ASSUME NEW s, Sound(s), NEW t, Halfway(s, t, Len(s.passed))
    PROVE  Finished(s, t, FinishAll(t, s.passed), Len(s.passed))
<1>1. PICK P, n, f : P = s.passed /\ n = Len(P) /\ f = Finishing(t, P)
  OBVIOUS
<1>2. n \in Nat /\ P \in Seq(Props)
  BY <1>1 DEF Sound, States
<1>3. f[0] = t /\ \A i \in 1 .. n : f[i] = finishProposalById(f[i - 1], P[i].id)
  BY <1>1, <1>2, FinishingAt
<1> DEFINE S == {i \in Nat : Finished(s, t, f[i], i)}
<1>4. 0 \in S
  <2>1. {s.passed[k].id : k \in 1 .. 0} = {}
    OBVIOUS
  <2>2. t \in States /\ Distinct(t)
    BY DEF Halfway
  <2>3. Finished(s, t, t, 0)
    BY <2>1, <2>2 DEF Finished
  <2> QED  BY <1>3, <2>3
<1>5. ASSUME NEW i \in 0 .. n - 1, i \in S PROVE i + 1 \in S
  <2>1. i + 1 \in 1 .. n /\ i + 1 - 1 = i /\ i + 1 \in Nat /\ i \in Nat
    BY <1>2
  <2>2. PICK u, w, id : u = f[i] /\ w = f[i + 1] /\ id = P[i + 1].id
    OBVIOUS
  <2>3. w = finishProposalById(u, id)
    BY <1>3, <2>1, <2>2
  <2>4. Finished(s, t, u, i)
    BY <1>5, <2>2
  <2>5. id \in Ids(t)
    <3>1. t.passed \in Seq(Props) /\ Len(t.passed) >= n
      BY <1>1 DEF Halfway, States
    <3>2. i + 1 \in DOMAIN t.passed
      BY <1>2, <2>1, <3>1
    <3>3. t.passed[i + 1] = P[i + 1]
      BY <1>1, <2>1 DEF Halfway
    <3> QED  BY <2>2, <3>2, <3>3 DEF Ids
  <2>6. id \notin {P[k].id : k \in 1 .. i}
    <3>1. \A j, k \in 1 .. n : P[j].id = P[k].id => j = k
      BY <1>1, <1>2 DEF Sound
    <3> QED  BY <1>2, <2>1, <2>2, <3>1
  <2>7. id \in Ids(u)
    BY <1>1, <2>4, <2>5, <2>6 DEF Finished
  <2>8. /\ w \in States /\ Distinct(w) /\ Ids(w) = Ids(u) \ {id}
        /\ w.executed = u.executed /\ w.count = u.count
    BY <2>3, <2>4, <2>7, FinishOne DEF Finished
  <2>9. {P[k].id : k \in 1 .. i + 1} = {P[k].id : k \in 1 .. i} \cup {id}
    <3>1. \A k \in 1 .. i + 1 : k \in 1 .. i \/ k = i + 1
      BY <2>1
    <3>2. 1 .. i \subseteq 1 .. i + 1 /\ i + 1 \in 1 .. i + 1
      BY <2>1
    <3> QED  BY <2>2, <3>1, <3>2
  <2>10. Ids(w) = Ids(t) \ {P[k].id : k \in 1 .. i + 1}
    <3>1. Ids(u) = Ids(t) \ {P[k].id : k \in 1 .. i}
      BY <1>1, <2>4 DEF Finished
    <3> QED  BY <2>8, <2>9, <3>1
  <2>11. Finished(s, t, w, i + 1)
    BY <1>1, <2>4, <2>8, <2>10 DEF Finished
  <2> QED  BY <2>1, <2>2, <2>11
<1>6. \A i \in 0 .. n : i \in S
  <2> HIDE DEF S
  <2> QED  BY <1>2, <1>4, <1>5, UpTo
<1> QED  BY <1>1, <1>2, <1>6 DEF FinishAll

\* Appending new numbers to a list that has none twice.
LEMMA Joined ==
    ASSUME NEW A \in Seq(Nat), NEW B \in Seq(Nat), IsInjective(A), IsInjective(B),
           Range(A) \cap Range(B) = {}
    PROVE  IsInjective(A \o B) /\ Range(A \o B) = Range(A) \cup Range(B)
<1>1. PICK m, n, C : m = Len(A) /\ n = Len(B) /\ C = A \o B
  OBVIOUS
<1>2. m \in Nat /\ n \in Nat /\ DOMAIN A = 1 .. m /\ DOMAIN B = 1 .. n
  BY <1>1
<1>3. /\ DOMAIN C = 1 .. m + n
      /\ \A i \in 1 .. m : C[i] = A[i]
      /\ \A i \in 1 .. n : C[m + i] = B[i]
  BY <1>1
<1>4. \A i \in 1 .. m + n : i \in 1 .. m \/ (i - m \in 1 .. n /\ i = m + (i - m))
  BY <1>2
<1>5. \A i \in 1 .. m + n :
         (i \in 1 .. m /\ C[i] = A[i]) \/ (i - m \in 1 .. n /\ C[i] = B[i - m])
  <2> SUFFICES ASSUME NEW i \in 1 .. m + n
               PROVE  (i \in 1 .. m /\ C[i] = A[i]) \/ (i - m \in 1 .. n /\ C[i] = B[i - m])
    OBVIOUS
  <2>1. CASE i \in 1 .. m
    BY <1>3, <2>1
  <2>2. CASE i - m \in 1 .. n /\ i = m + (i - m)
    BY <1>3, <2>2
  <2> QED  BY <1>4, <2>1, <2>2
<1>6. \A i \in 1 .. m, j \in 1 .. n : A[i] # B[j]
  BY <1>2 DEF Range
<1>7. \A i, j \in 1 .. m + n : C[i] = C[j] => i = j
  <2> SUFFICES ASSUME NEW i \in 1 .. m + n, NEW j \in 1 .. m + n, C[i] = C[j]
               PROVE  i = j
    OBVIOUS
  <2>1. \A a, b \in 1 .. m : A[a] = A[b] => a = b
    BY <1>2 DEF IsInjective
  <2>2. \A a, b \in 1 .. n : B[a] = B[b] => a = b
    BY <1>2 DEF IsInjective
  <2>3. CASE i \in 1 .. m /\ C[i] = A[i]
    BY <1>5, <1>6, <2>1, <2>3
  <2>4. CASE i - m \in 1 .. n /\ C[i] = B[i - m]
    <3>1. j - m \in 1 .. n /\ C[j] = B[j - m]
      BY <1>5, <1>6, <2>4
    <3>2. i - m = j - m
      BY <2>2, <2>4, <3>1
    <3> QED  BY <1>2, <3>2
  <2> QED  BY <1>5, <2>3, <2>4
<1>8. \A i \in 1 .. m : i \in 1 .. m + n
  BY <1>2
<1>9. \A i \in 1 .. n : m + i \in 1 .. m + n
  BY <1>2
<1>10. {C[i] : i \in 1 .. m + n} = {A[i] : i \in 1 .. m} \cup {B[i] : i \in 1 .. n}
  BY <1>3, <1>5, <1>8, <1>9
<1>11. IsInjective(C)
  BY <1>3, <1>7 DEF IsInjective
<1>12. Range(C) = Range(A) \cup Range(B)
  BY <1>2, <1>3, <1>10 DEF Range
<1> QED  BY <1>1, <1>11, <1>12

\* The end of a block keeps every proposal in one list, and moves those that had
\* passed from the one to the other.
LEMMA EndOfBlock ==
    ASSUME NEW s, Sound(s), NEW v \in Validators,
           NEW u, u = FinishAll(ExecuteAll(s, v, s.passed).s, s.passed)
    PROVE  Sound(u) /\ Ids(s) \subseteq Range(u.executed)
<1>1. PICK P, n, t : P = s.passed /\ n = Len(P) /\ t = ExecuteAll(s, v, P).s
  OBVIOUS
<1>2. P \in Seq(Props) /\ n \in Nat /\ DOMAIN P = 1 .. n /\ s.executed \in Seq(Nat)
  BY <1>1 DEF Sound, States
<1>3. Halfway(s, t, n)
  BY <1>1, <1>2, ExecutingMidway DEF Midway, ExecuteAll
<1>4. Finished(s, t, u, n)
  BY <1>1, <1>3, FinishingFinished
<1>5. PICK E, B : E = s.executed /\ B = ExecutedIds(s, n)
  OBVIOUS
<1>6. B \in Seq(Nat) /\ DOMAIN B = 1 .. n /\ \A k \in 1 .. n : B[k] = P[k].id
  <2>1. \A k \in 1 .. n : P[k].id \in Nat
    <3>1. \A k \in DOMAIN P : P[k] \in Props
      BY <1>2
    <3> QED  BY <1>2, <3>1 DEF Props
  <2>2. B = [k \in 1 .. n |-> P[k].id]
    BY <1>1, <1>5 DEF ExecutedIds
  <2> QED  BY <1>2, <2>1, <2>2
<1>7. IsInjective(B)
  <2>1. \A j, k \in 1 .. n : P[j].id = P[k].id => j = k
    BY <1>1, <1>2 DEF Sound
  <2> QED  BY <1>6, <2>1 DEF IsInjective
<1>8. Ids(s) = {P[k].id : k \in 1 .. n}
  BY <1>1, <1>2 DEF Ids
<1>9. Range(B) = Ids(s)
  BY <1>6, <1>8 DEF Range
<1>10. E \in Seq(Nat) /\ IsInjective(E) /\ Range(E) \cap Range(B) = {}
  BY <1>2, <1>5, <1>9 DEF Sound
<1>11. u.executed = E \o B
  BY <1>3, <1>4, <1>5 DEF Halfway, Finished
<1>12. IsInjective(u.executed) /\ Range(u.executed) = Range(E) \cup Ids(s)
  BY <1>6, <1>7, <1>9, <1>10, <1>11, Joined
<1>13. Ids(u) = Ids(t) \ Ids(s)
  BY <1>1, <1>4, <1>8 DEF Finished
<1>14. Ids(s) \subseteq Ids(t)
  <2>1. \A k \in 1 .. n : k \in DOMAIN t.passed /\ t.passed[k] = P[k]
    <3>1. t.passed \in Seq(Props) /\ Len(t.passed) >= n
      BY <1>1, <1>3 DEF Halfway, States
    <3> QED  BY <1>1, <1>2, <1>3, <3>1 DEF Halfway
  <2> QED  BY <1>8, <2>1 DEF Ids
<1>15. /\ Ids(t) \cap Range(E) = {} /\ Ids(t) \cup Range(E) = 1 .. t.count
       /\ u.count = t.count /\ u \in States /\ Distinct(u)
  BY <1>3, <1>4, <1>5 DEF Halfway, Finished
<1>16. Ids(u) \cap Range(u.executed) = {} /\ Ids(u) \cup Range(u.executed) = 1 .. u.count
  BY <1>12, <1>13, <1>14, <1>15
<1> QED  BY <1>12, <1>15, <1>16 DEF Sound, Distinct

(***************************************************************************)
(* Processing a block                                                      *)
(***************************************************************************)

\* What Process has done after i transactions depends on these only.
LEMMA ProcessingPrefix ==
    ASSUME NEW s, NEW n, NEW b, NEW c, b.coinbase = c.coinbase,
           Len(b.txs) \in Nat, Len(c.txs) \in Nat, Len(b.txs) <= Len(c.txs),
           \A i \in 1 .. Len(b.txs) : b.txs[i] = c.txs[i]
    PROVE  Processing(s, n, b)[Len(b.txs)] = Processing(s, n, c)[Len(b.txs)]
<1>1. PICK f, g, l, m, B, C, a : /\ f = Processing(s, n, b) /\ g = Processing(s, n, c)
                                 /\ l = Len(b.txs) /\ m = Len(c.txs)
                                 /\ B = b.txs /\ C = c.txs /\ a = b.coinbase
  OBVIOUS
<1>2. /\ f[0] = Unprocessed(s)
      /\ \A i \in 1 .. l : f[i] = ProcessTx(f[i - 1], n, a, B[i])
  BY <1>1, ProcessingAt
<1>3. /\ g[0] = Unprocessed(s)
      /\ \A i \in 1 .. m : g[i] = ProcessTx(g[i - 1], n, a, C[i])
  BY <1>1, ProcessingAt
<1>4. l \in Nat /\ m \in Nat /\ l <= m /\ \A i \in 1 .. l : B[i] = C[i]
  BY <1>1
<1> DEFINE S == {i \in Nat : f[i] = g[i]}
<1>5. 0 \in S
  BY <1>2, <1>3
<1>6. ASSUME NEW i \in 0 .. l - 1, i \in S PROVE i + 1 \in S
  <2>1. i + 1 \in 1 .. l /\ i + 1 \in 1 .. m /\ i + 1 - 1 = i /\ i + 1 \in Nat
    BY <1>4
  <2>2. f[i + 1] = ProcessTx(f[i], n, a, B[i + 1])
    BY <1>2, <2>1
  <2>3. g[i + 1] = ProcessTx(g[i], n, a, C[i + 1])
    BY <1>3, <2>1
  <2>4. f[i] = g[i] /\ B[i + 1] = C[i + 1]
    BY <1>4, <1>6, <2>1
  <2> QED  BY <2>1, <2>2, <2>3, <2>4
<1>7. \A i \in 0 .. l : i \in S
  <2> HIDE DEF S
  <2> QED  BY <1>4, <1>5, <1>6, UpTo
<1> QED  BY <1>1, <1>4, <1>7

LEMMA ProcessLast ==
    ASSUME NEW s, NEW n, NEW b, NEW l \in Nat, Len(b.txs) = l + 1
    PROVE  Processing(s, n, b)[l + 1]
              = ProcessTx(Processing(s, n, b)[l], n, b.coinbase, b.txs[l + 1])
<1>1. Len(b.txs) \in Nat /\ l + 1 \in 1 .. Len(b.txs) /\ l + 1 - 1 = l
  OBVIOUS
<1> QED  BY <1>1, ProcessingAt

\* x is w with more transactions.
Continues(x, w, T) == x.coinbase = w.coinbase /\ x.txs = w.txs \o T

\* What w and x have in common is processed alike.
LEMMA ProcessContinued ==
    ASSUME NEW s, NEW n, NEW w \in Works, NEW T \in Seq(Txs), NEW x,
           Continues(x, w, T)
    PROVE  /\ Len(w.txs) \in Nat /\ Len(x.txs) = Len(w.txs) + Len(T)
           /\ \A i \in 1 .. Len(w.txs) : x.txs[i] = w.txs[i]
           /\ \A i \in 1 .. Len(T) : x.txs[Len(w.txs) + i] = T[i]
           /\ Processing(s, n, x)[Len(w.txs)] = Done(s, n, w)
<1>1. PICK W, U, l : W = w.txs /\ U = x.txs /\ l = Len(W)
  OBVIOUS
<1>2. W \in Seq(Txs) /\ U = W \o T /\ w.coinbase = x.coinbase
  BY <1>1 DEF Works, Continues
<1>3. /\ l \in Nat /\ Len(U) = l + Len(T)
      /\ \A i \in 1 .. l : W[i] = U[i]
      /\ \A i \in 1 .. Len(T) : U[l + i] = T[i]
  BY <1>1, <1>2
<1>4. Len(w.txs) \in Nat /\ Len(x.txs) \in Nat /\ Len(w.txs) <= Len(x.txs)
  BY <1>1, <1>3
<1>5. \A i \in 1 .. Len(w.txs) : w.txs[i] = x.txs[i]
  BY <1>1, <1>3
<1>6. Processing(s, n, w)[Len(w.txs)] = Processing(s, n, x)[Len(w.txs)]
  BY <1>2, <1>4, <1>5, ProcessingPrefix
<1> QED  BY <1>1, <1>3, <1>6 DEF Done

\* One more transaction.
LEMMA ProcessOneMore ==
    ASSUME NEW s, NEW n, NEW w \in Works, NEW tx \in Txs,
           NEW x, Continues(x, w, <<tx>>)
    PROVE  Done(s, n, x) = ProcessTx(Done(s, n, w), n, w.coinbase, tx)
<1>1. PICK l, a, T : l = Len(w.txs) /\ a = w.coinbase /\ T = <<tx>>
  OBVIOUS
<1>2. T \in Seq(Txs) /\ Len(T) = 1 /\ T[1] = tx
  BY <1>1
<1>3. /\ Len(w.txs) \in Nat /\ Len(x.txs) = Len(w.txs) + Len(T)
      /\ \A i \in 1 .. Len(T) : x.txs[Len(w.txs) + i] = T[i]
      /\ Processing(s, n, x)[Len(w.txs)] = Done(s, n, w)
  <2>1. Continues(x, w, T)
    BY <1>1
  <2>2. T \in Seq(Txs)
    BY <1>2
  <2>3. w \in Works
    OBVIOUS
  <2> QED  BY ONLY <2>1, <2>2, <2>3, ProcessContinued
<1>4. l \in Nat /\ Len(x.txs) = l + 1 /\ x.txs[l + 1] = tx /\ x.coinbase = a
  BY <1>1, <1>2, <1>3 DEF Continues
<1>5. PICK f : f = Processing(s, n, x)
  OBVIOUS
<1>6. f[l + 1] = ProcessTx(f[l], n, a, tx)
  BY <1>4, <1>5, ProcessLast
<1>7. f[l] = Done(s, n, w)
  BY <1>1, <1>3, <1>5
<1> QED  BY <1>1, <1>4, <1>5, <1>6, <1>7 DEF Done

\* Whether the coinbase calls the contract, one transaction later.
LEMMA CallsOneMore ==
    ASSUME NEW w \in Works, NEW tx \in Txs, NEW x, Continues(x, w, <<tx>>)
    PROVE  CallsContract(x) <=>
              \/ CallsContract(w)
              \/ IsSysTransaction(tx, w.coinbase) /\ tx.data = NoData
<1>1. PICK l, W, U, a : l = Len(W) /\ W = w.txs /\ U = x.txs /\ a = w.coinbase
  OBVIOUS
<1>2. W \in Seq(Txs) /\ U = W \o <<tx>> /\ x.coinbase = a
  BY <1>1 DEF Works, Continues
<1>3. /\ l \in Nat /\ DOMAIN W = 1 .. l /\ DOMAIN U = 1 .. l + 1
      /\ \A i \in 1 .. l : U[i] = W[i]
      /\ U[l + 1] = tx
  BY <1>1, <1>2
<1>4. CallsContract(w) <=> \E i \in 1 .. l : IsSysTransaction(W[i], a) /\ W[i].data = NoData
  BY <1>1, <1>3 DEF CallsContract
<1>5. CallsContract(x) <=> \E i \in 1 .. l + 1 : IsSysTransaction(U[i], a) /\ U[i].data = NoData
  BY <1>1, <1>2, <1>3 DEF CallsContract
<1>6. \A i \in 1 .. l + 1 : i \in 1 .. l \/ i = l + 1
  BY <1>3
<1>7. 1 .. l \subseteq 1 .. l + 1 /\ l + 1 \in 1 .. l + 1
  BY <1>3
<1>8. a = w.coinbase
  BY <1>1
<1> HIDE DEF CallsContract
<1> QED  BY <1>3, <1>4, <1>5, <1>6, <1>7, <1>8

OnlySystem(T, v) == T \in Seq(Txs) /\ \A i \in 1 .. Len(T) : IsSysTransaction(T[i], v)

\* The transactions the engine has added are set aside.
LEMMA ProcessSystem ==
    ASSUME NEW s, NEW n, NEW w \in Works, NEW r \in Progress, r = Done(s, n, w),
           NEW T, OnlySystem(T, w.coinbase), NEW x, Continues(x, w, T)
    PROVE  Done(s, n, x) = [s |-> r.s, systemTxs |-> r.systemTxs \o T, fits |-> r.fits]
<1>1. PICK l, U, a : l = Len(w.txs) /\ U = x.txs /\ a = w.coinbase
  OBVIOUS
<1>2. PICK m, Q, ws, ok : m = Len(T) /\ Q = r.systemTxs /\ ws = r.s /\ ok = r.fits
  OBVIOUS
<1>3. T \in Seq(Txs) /\ m \in Nat /\ Q \in Seq(Txs)
  BY <1>2 DEF OnlySystem, Progress
<1>4. /\ l \in Nat /\ Len(U) = l + m
      /\ \A i \in 1 .. m : U[l + i] = T[i]
      /\ Processing(s, n, x)[l] = r
  <2>1. T \in Seq(Txs)
    BY <1>3
  <2>2. /\ Len(w.txs) \in Nat /\ Len(x.txs) = Len(w.txs) + Len(T)
        /\ \A i \in 1 .. Len(T) : x.txs[Len(w.txs) + i] = T[i]
        /\ Processing(s, n, x)[Len(w.txs)] = Done(s, n, w)
    BY <2>1, ProcessContinued
  <2> QED  BY <1>1, <1>2, <2>2
<1>5. PICK f : f = Processing(s, n, x)
  OBVIOUS
<1>6. f[l] = [s |-> ws, systemTxs |-> Q, fits |-> ok]
  BY <1>2, <1>4, <1>5 DEF Progress
<1>7. \A i \in 1 .. l + m : f[i] = ProcessTx(f[i - 1], n, a, U[i])
  <2>1. Len(x.txs) \in Nat /\ x.coinbase = a
    BY <1>1, <1>3, <1>4 DEF Continues
  <2> QED  BY <1>1, <1>4, <1>5, <2>1, ProcessingAt
<1> DEFINE S == {i \in Nat : f[l + i] = [s |-> ws, systemTxs |-> Q \o SubSeq(T, 1, i), fits |-> ok]}
<1>8. 0 \in S
  <2>1. Q \o SubSeq(T, 1, 0) = Q /\ l + 0 = l
    BY <1>3, <1>4
  <2> QED  BY <1>6, <2>1
<1>9. ASSUME NEW i \in 0 .. m - 1, i \in S PROVE i + 1 \in S
  <2>1. /\ i \in Nat /\ l + (i + 1) \in 1 .. l + m /\ l + (i + 1) - 1 = l + i
        /\ i + 1 \in 1 .. m
    BY <1>4, <1>3
  <2>2. PICK t, R : t = T[i + 1] /\ R = Q \o SubSeq(T, 1, i)
    OBVIOUS
  <2>3. f[l + (i + 1)] = ProcessTx(f[l + i], n, a, t)
    BY <1>4, <1>7, <2>1, <2>2
  <2>4. IsSysTransaction(t, a)
    BY <1>1, <1>2, <2>1, <2>2 DEF OnlySystem
  <2>5. f[l + i] = [s |-> ws, systemTxs |-> R, fits |-> ok]
    BY <1>9, <2>2
  <2>6. ProcessTx(f[l + i], n, a, t) = [s |-> ws, systemTxs |-> Append(R, t), fits |-> ok]
    BY <2>4, <2>5 DEF ProcessTx
  <2>7. Q \o SubSeq(T, 1, i + 1) = Append(R, t)
    <3>1. PICK V : V = SubSeq(T, 1, i)
      OBVIOUS
    <3>2. SubSeq(T, 1, i + 1) = Append(V, t) /\ V \in Seq(Txs) /\ t \in Txs
      BY <1>3, <1>2, <2>1, <2>2, <3>1
    <3>3. Q \o Append(V, t) = Append(Q \o V, t)
      BY <1>3, <3>2
    <3> QED  BY <2>2, <3>1, <3>2, <3>3
  <2>8. f[l + (i + 1)] = [s |-> ws, systemTxs |-> Q \o SubSeq(T, 1, i + 1), fits |-> ok]
    BY <2>3, <2>6, <2>7
  <2> QED  BY <2>1, <2>8
<1>10. \A i \in 0 .. m : i \in S
  <2> HIDE DEF S
  <2> QED  BY <1>8, <1>9, <1>3, UpTo
<1>11. SubSeq(T, 1, m) = T
  BY <1>2, <1>3
<1>12. f[l + m] = [s |-> ws, systemTxs |-> Q \o T, fits |-> ok]
  <2>1. m \in S
    <3> HIDE DEF S
    <3> QED  BY <1>10, <1>3
  <2> QED  BY <1>11, <2>1
<1> QED  BY <1>1, <1>2, <1>4, <1>5, <1>12 DEF Done

\* What the worker and Process make of a transaction.
AfterTx(u, s, n, tx) ==
    /\ u \in States
    /\ u.nonce = [s.nonce EXCEPT ![tx.from] = @ + 1]
    /\ IF tx.data.id # 0 /\ IsRedCoast(n)
       THEN /\ u.passed = Append(s.passed, [id |-> s.count + 1, again |-> tx.data.again])
            /\ u.count = s.count + 1
       ELSE u.passed = s.passed /\ u.count = s.count

LEMMA AppliedParts ==
    ASSUME NEW s \in States, NEW n, NEW tx \in Txs
    PROVE  AfterTx(Applied(s, n, tx), s, n, tx)
<1>0. PICK u : u = Applied(s, n, tx)
  OBVIOUS
<1> SUFFICES AfterTx(u, s, n, tx)
  BY <1>0
<1>1. PICK a, t, g : /\ a = tx.from /\ t = [s EXCEPT !.nonce[a] = @ + 1]
                     /\ g = tx.data.again
  OBVIOUS
<1>2. a \in Accounts /\ g \in BOOLEAN
  BY <1>1 DEF Txs, Props
<1>3. t \in States /\ t.passed = s.passed /\ t.count = s.count
  BY <1>1, <1>2, NonceParts
<1>4. t.nonce = [s.nonce EXCEPT ![a] = @ + 1]
  BY <1>1 DEF States
<1>5. CASE tx.data.id # 0 /\ IsRedCoast(n)
  <2>1. u = commitProposal(t, g)
    BY <1>0, <1>1, <1>5 DEF Applied
  <2>2. u \in States
    BY <1>2, <1>3, <2>1, CommitParts
  <2>3. /\ u.nonce = t.nonce /\ u.count = t.count + 1
        /\ u.passed = Append(t.passed, [id |-> t.count + 1, again |-> g])
    BY <1>3, <2>1 DEF commitProposal, States
  <2> QED  BY <1>1, <1>3, <1>4, <1>5, <2>2, <2>3 DEF AfterTx
<1>6. CASE ~ (tx.data.id # 0 /\ IsRedCoast(n))
  <2>1. u = t
    BY <1>0, <1>1, <1>6 DEF Applied
  <2> QED  BY <1>1, <1>3, <1>4, <1>6, <2>1 DEF AfterTx
<1> QED  BY <1>5, <1>6

\* The coinbase's own call leaves Process behind.
LEMMA FallsBehind ==
    ASSUME NEW v \in Accounts, NEW t \in States, NEW n,
           NEW r, r = Aside(t, <<>>) \/ Behind(r, v, t),
           NEW tx \in Txs, IsSysTransaction(tx, v), tx.data = NoData
    PROVE  Behind(ProcessTx(r, n, v, tx), v, Applied(t, n, tx))
<1>1. PICK u, q : u = Applied(t, n, tx) /\ q = ProcessTx(r, n, v, tx)
  OBVIOUS
<1>2. /\ r \in Progress /\ r.s.passed = t.passed /\ r.s.count = t.count
      /\ r.s.nonce[v] <= t.nonce[v]
  <2>1. t.nonce[v] \in Nat
    BY DEF States
  <2>2. CASE r = Aside(t, <<>>)
    BY <2>1, <2>2 DEF Aside, Progress
  <2>3. CASE Behind(r, v, t)
    <3>1. r.s.nonce[v] \in Nat
      BY <2>3 DEF Behind, Progress, States
    <3> QED  BY <2>1, <2>3, <3>1 DEF Behind
  <2> QED  BY <2>2, <2>3
<1>3. q = [r EXCEPT !.systemTxs = Append(@, tx)]
  BY <1>1 DEF ProcessTx
<1>4. /\ q.s = r.s /\ q.systemTxs = Append(r.systemTxs, tx) /\ q.fits = r.fits
      /\ q = [s |-> q.s, systemTxs |-> q.systemTxs, fits |-> q.fits]
  BY <1>2, <1>3 DEF Progress
<1>5. q.systemTxs \in Seq(Txs) /\ q.systemTxs # <<>>
  <2>1. PICK Q : Q = r.systemTxs
    OBVIOUS
  <2>2. Q \in Seq(Txs)
    BY <1>2, <2>1 DEF Progress
  <2>3. Append(Q, tx) \in Seq(Txs) /\ Append(Q, tx) # <<>>
    <3>1. PICK A : A = Append(Q, tx)
      OBVIOUS
    <3>2. A \in Seq(Txs) /\ Len(A) = Len(Q) + 1 /\ Len(Q) \in Nat
      BY <2>2, <3>1
    <3>3. A # <<>>
      BY <3>2
    <3> QED  BY <3>1, <3>2, <3>3
  <2> QED  BY <1>4, <2>1, <2>3
<1>6. q \in Progress
  BY <1>2, <1>4, <1>5 DEF Progress
<1>7. /\ u.nonce = [t.nonce EXCEPT ![tx.from] = @ + 1]
      /\ u.passed = t.passed /\ u.count = t.count
  <2>1. tx.data.id = 0
    BY DEF NoData
  <2>2. AfterTx(u, t, n, tx)
    BY <1>1, AppliedParts
  <2> QED  BY <2>1, <2>2 DEF AfterTx
<1>8. q.s.nonce[v] < u.nonce[v]
  <2>1. tx.from = v
    BY DEF IsSysTransaction
  <2>2. r.s.nonce[v] \in Nat /\ t.nonce[v] \in Nat
    BY <1>2 DEF Progress, States
  <2>3. u.nonce[v] = t.nonce[v] + 1
    BY <1>7, <2>1 DEF States
  <2> QED  BY <1>2, <1>4, <2>2, <2>3
<1>9. Behind(q, v, u)
  BY <1>2, <1>4, <1>5, <1>6, <1>7, <1>8 DEF Behind
<1> QED  BY <1>1, <1>9

\* It stays behind whatever common transactions follow.
LEMMA StaysBehind ==
    ASSUME NEW v \in Accounts, NEW t \in States, NEW n, NEW r, Behind(r, v, t),
           NEW tx \in Txs, ~ IsSysTransaction(tx, v)
    PROVE  Behind(ProcessTx(r, n, v, tx), v, Applied(t, n, tx))
<1>1. PICK u, q, rs, w : /\ u = Applied(t, n, tx) /\ q = ProcessTx(r, n, v, tx)
                         /\ rs = r.s /\ w = Applied(rs, n, tx)
  OBVIOUS
<1>2. /\ r \in Progress /\ rs \in States /\ rs.passed = t.passed /\ rs.count = t.count
      /\ r.systemTxs # <<>> /\ rs.nonce[v] < t.nonce[v]
  BY <1>1 DEF Behind, Progress
<1>3. /\ q.s = w /\ q.systemTxs = r.systemTxs /\ q.fits \in BOOLEAN
      /\ q = [s |-> q.s, systemTxs |-> q.systemTxs, fits |-> q.fits]
  <2>1. q = [r EXCEPT !.s = Applied(@, n, tx),
                      !.fits = @ /\ tx.nonce = r.s.nonce[tx.from]]
    BY <1>1 DEF ProcessTx
  <2> QED  BY <1>1, <1>2, <2>1 DEF Progress
<1>4. AfterTx(w, rs, n, tx)
  BY <1>1, <1>2, AppliedParts
<1>5. AfterTx(u, t, n, tx)
  BY <1>1, AppliedParts
<1>6. w.passed = u.passed /\ w.count = u.count
  BY <1>2, <1>4, <1>5 DEF AfterTx
<1>7. w.nonce[v] < u.nonce[v]
  <2>1. /\ rs.nonce \in [Accounts -> Nat] /\ t.nonce \in [Accounts -> Nat]
        /\ tx.from \in Accounts
    BY <1>2 DEF States, Txs
  <2> QED  BY <1>2, <1>4, <1>5, <2>1 DEF AfterTx
<1>8. q \in Progress
  BY <1>2, <1>3, <1>4 DEF Progress, AfterTx
<1>9. Behind(q, v, u)
  BY <1>2, <1>3, <1>6, <1>7, <1>8 DEF Behind
<1> QED  BY <1>1, <1>9

(***************************************************************************)
(* The invariant                                                           *)
(***************************************************************************)

LEMMA RedCoastStays ==
    ASSUME NEW s, NEW n \in Nat, Early(s, n)
    PROVE  Early(s, n + 1)
BY GovernanceAssumption DEF Early, IsRedCoast

LEMMA AppliedSound ==
    ASSUME NEW s, Sound(s), NEW n, Early(s, n), NEW tx \in Txs,
           NEW u, u = Applied(s, n, tx)
    PROVE  Sound(u) /\ Ids(s) \subseteq Ids(u) /\ Early(u, n)
<1>1. PICK a, t, g : /\ a = tx.from /\ t = [s EXCEPT !.nonce[a] = @ + 1]
                     /\ g = tx.data.again
  OBVIOUS
<1>2. a \in Accounts /\ g \in BOOLEAN /\ s \in States
  BY <1>1 DEF Txs, Props, Sound
<1>3. /\ t \in States
      /\ t.passed = s.passed /\ t.executed = s.executed /\ t.count = s.count
  BY <1>1, <1>2, NonceParts
<1>4. Ids(t) = Ids(s)
  BY <1>3 DEF Ids
<1>5. Sound(t) /\ Early(t, n)
  BY <1>3, <1>4 DEF Sound, Early
<1>6. CASE u = t
  BY <1>4, <1>5, <1>6
<1>7. CASE IsRedCoast(n) /\ u = commitProposal(t, g)
  <2>1. Distinct(t) /\ Ids(t) \subseteq 1 .. t.count
    BY <1>5 DEF Sound, Distinct
  <2>2. u \in States /\ u.executed = t.executed /\ u.count = t.count + 1
    BY <1>2, <1>3, <1>7, CommitParts
  <2>3. Distinct(u) /\ Ids(u) = Ids(t) \cup {t.count + 1}
    BY <1>2, <1>3, <1>7, <2>1, CommitIds
  <2>4. t.count \in Nat
    BY <1>3 DEF States
  <2>5. t.count + 1 \notin 1 .. t.count /\ 1 .. u.count = 1 .. t.count \cup {t.count + 1}
    BY <2>2, <2>4
  <2>6. Ids(t) \cap Range(t.executed) = {} /\ Ids(t) \cup Range(t.executed) = 1 .. t.count
    BY <1>5 DEF Sound
  <2>7. Ids(u) \cap Range(u.executed) = {} /\ Ids(u) \cup Range(u.executed) = 1 .. u.count
    BY <2>2, <2>3, <2>5, <2>6
  <2>8. Sound(u)
    BY <1>5, <2>2, <2>3, <2>7 DEF Sound, Distinct
  <2>9. Early(u, n)
    BY <1>7 DEF Early
  <2> QED  BY <1>4, <2>3, <2>8, <2>9
<1> QED  BY <1>1, <1>6, <1>7 DEF Applied

\* b is the block assembled from w.
AssembledFrom(b, w, n) == b = FinalizeAndAssemble(w.s, n, w.coinbase, w.txs)

\* T are the transactions the engine has added to those of w.
EndedBy(b, w, n, T) ==
    /\ Continues(b, w, T) /\ OnlySystem(T, w.coinbase)
    /\ \A i \in 1 .. Len(T) : T[i].data # NoData
    /\ IF IsRedCoast(n) THEN SysTxs(T, w.s, w.coinbase, Len(w.s.passed))
                        ELSE T = <<>> /\ b.post = w.s

LEMMA AssembledEnd ==
    ASSUME NEW n, NEW w \in Works, Sound(w.s), NEW b, AssembledFrom(b, w, n)
    PROVE  \E T : EndedBy(b, w, n, T)
<1>1. PICK t, v, W : t = w.s /\ v = w.coinbase /\ W = w.txs
  OBVIOUS
<1>2. v \in Validators /\ W \in Seq(Txs) /\ Sound(t)
  BY <1>1 DEF Works
<1>3. CASE ~ IsRedCoast(n)
  <2>1. b.coinbase = v /\ b.txs = W /\ b.post = t
    BY <1>1, <1>3 DEF AssembledFrom, FinalizeAndAssemble
  <2>2. PICK T : T = <<>>
    OBVIOUS
  <2>3. T \in Seq(Txs) /\ Len(T) = 0 /\ W \o T = W
    BY <1>2, <2>2
  <2>4. Continues(b, w, T)
    BY <1>1, <2>1, <2>3 DEF Continues
  <2>5. OnlySystem(T, w.coinbase)
    BY <2>3 DEF OnlySystem
  <2>6. EndedBy(b, w, n, T)
    BY <1>1, <1>3, <2>1, <2>2, <2>3, <2>4, <2>5 DEF EndedBy
  <2> QED  BY <2>6
<1>4. CASE IsRedCoast(n)
  <2>1. PICK P, m, e : P = t.passed /\ m = Len(P) /\ e = ExecuteAll(t, v, P)
    OBVIOUS
  <2>2. PICK T : T = e.txs
    OBVIOUS
  <2>3. b.coinbase = v /\ b.txs = W \o T
    BY <1>1, <1>4, <2>1, <2>2 DEF AssembledFrom, FinalizeAndAssemble, getPassedProposals
  <2>4. m \in Nat /\ P \in Seq(Props) /\ DOMAIN P = 1 .. m
    BY <1>2, <2>1 DEF Sound, States
  <2>5. SysTxs(T, t, v, m)
    BY <1>2, <2>1, <2>2, <2>4, ExecutingMidway DEF Midway, ExecuteAll
  <2>6. OnlySystem(T, v)
    BY <2>5 DEF SysTxs, OnlySystem, IsSysTransaction
  <2>7. ASSUME NEW i \in 1 .. Len(T) PROVE T[i].data # NoData
    <3>1. i \in 1 .. m /\ T[i].data = P[i]
      BY <2>1, <2>5 DEF SysTxs
    <3>2. P[i].id \in 1 .. t.count
      <4>1. P[i].id \in Ids(t)
        BY <2>1, <2>4, <3>1 DEF Ids
      <4> QED  BY <1>2, <4>1 DEF Sound
    <3>3. t.count \in Nat
      BY <1>2 DEF Sound, States
    <3>4. P[i].id # 0
      BY <3>2, <3>3
    <3> QED  BY <3>1, <3>4 DEF NoData
  <2>8. Continues(b, w, T)
    BY <1>1, <2>3 DEF Continues
  <2>9. EndedBy(b, w, n, T)
    BY <1>1, <1>4, <2>1, <2>5, <2>6, <2>7, <2>8 DEF EndedBy
  <2> QED  BY <2>9
<1> QED  BY <1>3, <1>4

\* The engine's transactions are no calls of the coinbase.
LEMMA CallsAssembled ==
    ASSUME NEW n, NEW w \in Works, NEW b, NEW T, EndedBy(b, w, n, T)
    PROVE  CallsContract(b) <=> CallsContract(w)
<1>1. PICK l, m, W, U, a : /\ l = Len(W) /\ W = w.txs /\ U = b.txs /\ a = w.coinbase
                           /\ m = Len(T)
  OBVIOUS
<1>2. /\ W \in Seq(Txs) /\ T \in Seq(Txs) /\ U = W \o T /\ b.coinbase = a
      /\ \A i \in 1 .. m : T[i].data # NoData
  BY <1>1 DEF Works, Continues, EndedBy, OnlySystem
<1>3. /\ l \in Nat /\ m \in Nat /\ DOMAIN W = 1 .. l /\ DOMAIN U = 1 .. l + m
      /\ \A i \in 1 .. l : U[i] = W[i]
      /\ \A i \in 1 .. m : U[l + i] = T[i]
  BY <1>1, <1>2
<1>4. CallsContract(w) <=> \E i \in 1 .. l : IsSysTransaction(W[i], a) /\ W[i].data = NoData
  BY <1>1, <1>3 DEF CallsContract
<1>5. CallsContract(b) <=> \E i \in 1 .. l + m : IsSysTransaction(U[i], a) /\ U[i].data = NoData
  BY <1>1, <1>2, <1>3 DEF CallsContract
<1>6. ASSUME NEW i \in 1 .. l + m, U[i].data = NoData PROVE i \in 1 .. l
  <2> SUFFICES ASSUME i \notin 1 .. l PROVE FALSE
    OBVIOUS
  <2>1. i - l \in 1 .. m /\ l + (i - l) = i
    BY <1>3
  <2> QED  BY <1>2, <1>3, <1>6, <2>1
<1>7. 1 .. l \subseteq 1 .. l + m
  BY <1>3
<1> QED  BY <1>3, <1>4, <1>5, <1>6, <1>7

\* The state of the block.
LEMMA AssembledPost ==
    ASSUME NEW s, NEW n, NEW w \in Works,
           Sound(w.s), Early(w.s, n), Ids(s) \subseteq Ids(w.s),
           NEW b, AssembledFrom(b, w, n)
    PROVE  /\ Sound(b.post) /\ Early(b.post, n)
           /\ Ids(s) \subseteq Range(b.post.executed)
<1>1. PICK t, v, W : t = w.s /\ v = w.coinbase /\ W = w.txs
  OBVIOUS
<1>2. v \in Validators /\ Sound(t)
  BY <1>1 DEF Works
<1>3. CASE ~ IsRedCoast(n)
  <2>1. b.post = t
    BY <1>1, <1>3 DEF AssembledFrom, FinalizeAndAssemble
  <2>2. Ids(t) = {}
    <3>1. t.passed = <<>>
      BY <1>1, <1>3 DEF Early
    <3> QED  BY <3>1 DEF Ids
  <2> QED  BY <1>1, <2>1, <2>2
<1>4. CASE IsRedCoast(n)
  <2>1. PICK P, m, e : P = t.passed /\ m = Len(P) /\ e = ExecuteAll(t, v, P)
    OBVIOUS
  <2>2. PICK u : u = FinishAll(e.s, P)
    OBVIOUS
  <2>3. b.post = u
    BY <1>1, <1>4, <2>1, <2>2 DEF AssembledFrom, FinalizeAndAssemble, getPassedProposals
  <2>4. m \in Nat
    BY <1>2, <2>1 DEF Sound, States
  <2>5. Sound(u) /\ Ids(t) \subseteq Range(u.executed)
    BY <1>2, <2>1, <2>2, <2>4, EndOfBlock
  <2>6. Early(u, n)
    BY <1>4 DEF Early
  <2> QED  BY <1>1, <2>3, <2>5, <2>6
<1> QED  BY <1>3, <1>4

\* Assembling and processing agree when the coinbase makes no call of its own.
LEMMA AssembledAccepted ==
    ASSUME NEW s, NEW n, NEW w \in Works, LeadsTo(s, n, w), Sound(w.s),
           NEW b, AssembledFrom(b, w, n)
    PROVE  Accepts(s, n, b) /\ ~ CallsContract(b)
<1>1. PICK t, v : t = w.s /\ v = w.coinbase
  OBVIOUS
<1>2. v \in Validators /\ Sound(t) /\ t \in States
  BY <1>1 DEF Works, Sound
<1>3. PICK T : EndedBy(b, w, n, T)
  BY AssembledEnd
<1>4. ~ CallsContract(b)
  <2>1. ~ CallsContract(w)
    BY DEF LeadsTo
  <2> QED  BY <1>3, <2>1, CallsAssembled
<1>5. T \in Seq(Txs) /\ OnlySystem(T, w.coinbase) /\ Continues(b, w, T) /\ b.coinbase = v
  BY <1>1, <1>3 DEF EndedBy, OnlySystem, Continues
<1>6. PICK r : r = Done(s, n, b)
  OBVIOUS
<1>7. r.fits /\ r.s = t /\ r.systemTxs = T
  <2>1. PICK q : q = Done(s, n, w)
    OBVIOUS
  <2>2. q \in Progress /\ q.s = t /\ q.systemTxs = <<>> /\ q.fits
    BY <1>1, <1>2, <2>1 DEF LeadsTo, Aside, Progress
  <2>3. r = [s |-> q.s, systemTxs |-> q.systemTxs \o T, fits |-> q.fits]
    BY <1>5, <1>6, <2>1, <2>2, ProcessSystem
  <2>4. <<>> \o T = T
    BY <1>5
  <2> QED  BY <2>2, <2>3, <2>4
<1>8. CASE ~ IsRedCoast(n)
  <2>1. Finalize(r.s, n, r.systemTxs) = b.post
    BY <1>1, <1>3, <1>7, <1>8 DEF Finalize, EndedBy
  <2> QED  BY <1>4, <1>6, <1>7, <1>8, <2>1 DEF Accepts, Done
<1>9. CASE IsRedCoast(n)
  <2>1. PICK P, m, e : P = t.passed /\ m = Len(P) /\ e = ExecuteAll(t, v, P)
    OBVIOUS
  <2>2. PICK u : u = FinishAll(e.s, P)
    OBVIOUS
  <2>3. b.post = u
    BY <1>1, <1>9, <2>1, <2>2 DEF AssembledFrom, FinalizeAndAssemble, getPassedProposals
  <2>4. m \in Nat /\ DOMAIN P = 1 .. m
    BY <1>2, <2>1 DEF States
  <2>5. SysTxs(T, t, v, m)
    BY <1>1, <1>3, <1>9, <2>1 DEF EndedBy
  <2>6. ReplayAll(t, T, P) = e.s
    BY <1>2, <2>1, <2>4, <2>5, ReplayedAlike
  <2>7. Finalize(t, n, T) = u
    BY <1>9, <2>1, <2>2, <2>6 DEF Finalize, getPassedProposals
  <2>8. Replayable(v, T, P)
    BY <2>1, <2>4, <2>5 DEF Replayable, SysTxs
  <2> QED  BY <1>4, <1>5, <1>6, <1>7, <2>1, <2>3, <2>7, <2>8
           DEF Accepts, Done, getPassedProposals
<1> QED  BY <1>8, <1>9

\* They do not when it does: from RedCoast on there are more system transactions
\* than proposals, and before it the nonce of the coinbase is another.
LEMMA AssembledRefused ==
    ASSUME NEW s, NEW n, NEW w \in Works, Strays(s, n, w), Sound(w.s),
           NEW b, AssembledFrom(b, w, n)
    PROVE  ~ Accepts(s, n, b) /\ CallsContract(b)
<1>1. PICK t, v : t = w.s /\ v = w.coinbase
  OBVIOUS
<1>2. v \in Accounts /\ t \in States
  BY <1>1 DEF Works, Accounts
<1>3. PICK T : EndedBy(b, w, n, T)
  BY AssembledEnd
<1>4. CallsContract(b)
  <2>1. CallsContract(w)
    BY DEF Strays
  <2> QED  BY <1>3, <2>1, CallsAssembled
<1>5. T \in Seq(Txs) /\ OnlySystem(T, w.coinbase) /\ Continues(b, w, T) /\ b.coinbase = v
  BY <1>1, <1>3 DEF EndedBy, OnlySystem, Continues
<1>6. PICK q, r : q = Done(s, n, w) /\ r = Done(s, n, b)
  OBVIOUS
<1>7. Behind(q, v, t)
  BY <1>1, <1>6 DEF Strays
<1>8. q \in Progress
  BY <1>7 DEF Behind
<1>9. r = [s |-> q.s, systemTxs |-> q.systemTxs \o T, fits |-> q.fits]
  <2>1. Done(s, n, b) = [s |-> q.s, systemTxs |-> q.systemTxs \o T, fits |-> q.fits]
    <3>1. OnlySystem(T, w.coinbase) /\ Continues(b, w, T)
      BY <1>5
    <3>2. q = Done(s, n, w)
      BY <1>6
    <3>3. w \in Works
      OBVIOUS
    <3> QED  BY ONLY <1>8, <3>1, <3>2, <3>3, ProcessSystem
  <2> QED  BY <1>6, <2>1
<1>10. CASE ~ IsRedCoast(n)
  <2>1. b.post = t
    BY <1>1, <1>3, <1>10 DEF EndedBy
  <2>2. Finalize(r.s, n, r.systemTxs) = q.s
    BY <1>9, <1>10 DEF Finalize
  <2>3. q.s # t
    <3>1. q.s.nonce[v] \in Nat /\ t.nonce[v] \in Nat /\ q.s.nonce[v] < t.nonce[v]
      BY <1>2, <1>7 DEF Behind, Progress, States
    <3> QED  BY <3>1
  <2>4. ~ Accepts(s, n, b)
    BY <1>6, <2>1, <2>2, <2>3 DEF Accepts, Done
  <2> QED  BY <1>4, <2>4
<1>11. CASE IsRedCoast(n)
  <2>1. PICK P, Q : P = t.passed /\ Q = q.systemTxs
    OBVIOUS
  <2>2. q.s.passed = P /\ Q \in Seq(Txs) /\ Q # <<>>
    BY <1>7, <2>1 DEF Behind, Progress
  <2>3. Len(T) = Len(P)
    BY <1>1, <1>3, <1>11, <2>1 DEF EndedBy, SysTxs
  <2>4. Len(Q \o T) # Len(P)
    <3>1. Len(Q) \in Nat /\ Len(Q) # 0 /\ Len(T) \in Nat
      BY <1>5, <2>2
    <3>2. Len(Q \o T) = Len(Q) + Len(T)
      BY <1>5, <2>2
    <3> QED  BY <2>3, <3>1, <3>2
  <2>5. ~ Replayable(b.coinbase, r.systemTxs, getPassedProposals(r.s))
    BY <1>9, <2>1, <2>2, <2>4 DEF Replayable, getPassedProposals
  <2>6. ~ Accepts(s, n, b)
    BY <1>6, <1>11, <2>5 DEF Accepts, Done
  <2> QED  BY <1>4, <2>6
<1> QED  BY <1>10, <1>11

LEMMA InitIInv == Init => IInv
<1> SUFFICES ASSUME Init PROVE IInv
  OBVIOUS
<1>1. PICK f : f = [a \in Accounts |-> 0]
  OBVIOUS
<1>2. f \in [Accounts -> Nat]
  BY <1>1
<1>3. /\ number = 0 /\ work = NoWork /\ block = NoBlock
      /\ st = [passed |-> <<>>, executed |-> <<>>, count |-> 0, nonce |-> f]
  BY <1>1 DEF Init, Accounts
<1>4. st \in States /\ st.passed = <<>> /\ st.executed = <<>> /\ st.count = 0
  BY <1>2, <1>3 DEF States
<1>5. Ids(st) = {} /\ Range(st.executed) = {} /\ 1 .. st.count = {}
  BY <1>4 DEF Ids, Range
<1>6. Sound(st)
  <2>1. IsInjective(st.executed)
    BY <1>4 DEF IsInjective
  <2> QED  BY <1>4, <1>5, <2>1 DEF Sound
<1> QED  BY <1>3, <1>4, <1>6 DEF IInv, StateInv, WorkInv, BlockInv, Early

\* The block in the making starts with the state of the head and no transaction.
LEMMA NewWorkIInv ==
    ASSUME IInv, NEW v \in Validators, NewWork(v)
    PROVE  IInv'
<1>1. PICK n, s, w : n = number /\ s = st /\ w = work'
  OBVIOUS
<1>2. /\ number' = n /\ st' = s /\ block = NoBlock /\ block' = NoBlock
      /\ w = [coinbase |-> v, s |-> s, txs |-> <<>>]
  BY <1>1 DEF NewWork
<1>3. n \in Nat /\ Sound(s) /\ Early(s, n)
  BY <1>1 DEF IInv, StateInv
<1>4. Early(s, n + 1)
  BY <1>3, RedCoastStays
<1>5. w.s = s /\ w.txs = <<>> /\ w \in Works
  BY <1>2, <1>3 DEF Works, Sound
<1>6. LeadsTo(s, n + 1, w)
  <2>1. Len(w.txs) \in Nat /\ Len(w.txs) = 0
    BY <1>5
  <2>2. Processing(s, n + 1, w)[0] = Unprocessed(s)
    BY <2>1, ProcessingAt
  <2>3. Unprocessed(s) = Aside(s, <<>>)
    BY DEF Unprocessed, Aside
  <2>4. ~ CallsContract(w)
    BY <1>5 DEF CallsContract
  <2> QED  BY <1>5, <2>1, <2>2, <2>3, <2>4 DEF LeadsTo, Done
<1>7. StateInv'
  BY <1>1, <1>2, <1>3 DEF StateInv
<1>8. WorkInv'
  BY <1>1, <1>2, <1>3, <1>4, <1>5, <1>6 DEF WorkInv
<1>9. BlockInv'
  BY <1>2 DEF BlockInv
<1> QED  BY <1>2, <1>7, <1>8, <1>9 DEF IInv

\* The worker takes a transaction, and Process keeps up with it or falls behind.
LEMMA CommitWork ==
    ASSUME NEW s, NEW n, NEW w \in Works, LeadsTo(s, n, w) \/ Strays(s, n, w),
           NEW tx \in Txs, tx.nonce = w.s.nonce[tx.from],
           IsSysTransaction(tx, w.coinbase) => tx.data = NoData,
           NEW x, Continues(x, w, <<tx>>), x.s = Applied(w.s, n, tx)
    PROVE  LeadsTo(s, n, x) \/ Strays(s, n, x)
<1>1. PICK v, t, q, r : v = w.coinbase /\ t = w.s /\ q = Done(s, n, w) /\ r = Done(s, n, x)
  OBVIOUS
<1>2. v \in Accounts /\ t \in States /\ x.coinbase = v
  BY <1>1 DEF Works, Accounts, Continues
<1>3. r = ProcessTx(q, n, v, tx)
  BY <1>1, ProcessOneMore
<1>4. CallsContract(x) <=> CallsContract(w) \/ (IsSysTransaction(tx, v) /\ tx.data = NoData)
  BY <1>1, CallsOneMore
<1>5. PICK u : u = Applied(t, n, tx)
  OBVIOUS
<1>6. x.s = u
  BY <1>1, <1>5
<1>7. CASE IsSysTransaction(tx, v)
  <2>1. tx.data = NoData
    BY <1>1, <1>7
  <2>2. q = Aside(t, <<>>) \/ Behind(q, v, t)
    BY <1>1 DEF LeadsTo, Strays
  <2>3. Behind(r, v, u)
    BY <1>2, <1>3, <1>5, <1>7, <2>1, <2>2, FallsBehind
  <2> QED  BY <1>1, <1>2, <1>4, <1>6, <1>7, <2>1, <2>3 DEF Strays
<1>8. CASE ~ IsSysTransaction(tx, v) /\ Strays(s, n, w)
  <2>1. Behind(q, v, t)
    BY <1>1, <1>8 DEF Strays
  <2>2. Behind(r, v, u)
    BY <1>2, <1>3, <1>5, <1>8, <2>1, StaysBehind
  <2>3. CallsContract(x)
    BY <1>4, <1>8 DEF Strays
  <2> QED  BY <1>1, <1>2, <1>6, <2>2, <2>3 DEF Strays
<1>9. CASE ~ IsSysTransaction(tx, v) /\ LeadsTo(s, n, w)
  <2>1. q = Aside(t, <<>>) /\ ~ CallsContract(x)
    BY <1>1, <1>4, <1>9 DEF LeadsTo
  <2>2. tx.nonce = t.nonce[tx.from]
    BY <1>1
  <2>3. ProcessTx(Aside(t, <<>>), n, v, tx) = Aside(u, <<>>)
    BY <1>5, <1>9, <2>2 DEF ProcessTx, Aside
  <2> QED  BY <1>1, <1>3, <1>6, <2>1, <2>3 DEF LeadsTo
<1> QED  BY <1>7, <1>8, <1>9

LEMMA CommitIInv ==
    ASSUME IInv, NEW from \in Accounts, NEW to \in Targets, NEW free \in BOOLEAN,
           NEW data \in Props, data = NoData \/ from \notin Validators,
           Commit(from, to, free, data)
    PROVE  IInv'
<1>1. PICK n, s, w, x : n = number + 1 /\ s = st /\ w = work /\ x = work'
  OBVIOUS
<1>2. PICK tx, t : tx = Tx(w.s, from, to, free, data) /\ t = Applied(w.s, n, tx)
  OBVIOUS
<1>3. /\ number' = number /\ st' = s /\ block' = block /\ work # NoWork
      /\ x = [w EXCEPT !.s = Applied(@, n, tx), !.txs = Append(@, tx)]
  BY <1>1, <1>2 DEF Commit
<1>4. /\ w \in Works /\ (LeadsTo(s, n, w) \/ Strays(s, n, w))
      /\ Sound(w.s) /\ Early(w.s, n) /\ Ids(s) \subseteq Ids(w.s)
      /\ block = NoBlock
  BY <1>1, <1>3 DEF IInv, WorkInv
<1>5. w.s \in States /\ w.coinbase \in Validators
  BY <1>4 DEF Works
<1>6. /\ tx \in Txs /\ tx.nonce = w.s.nonce[tx.from]
      /\ tx.from = from /\ tx.data = data
  <2>1. w.s.nonce[from] \in Nat
    BY <1>5 DEF States
  <2> QED  BY <1>2, <2>1 DEF Tx, Txs
<1>7. Sound(t) /\ Ids(w.s) \subseteq Ids(t) /\ Early(t, n)
  BY <1>2, <1>4, <1>6, AppliedSound
<1>8. PICK U : U = Append(w.txs, tx)
  OBVIOUS
<1>9. U \in Seq(Txs) /\ U = w.txs \o <<tx>>
  BY <1>4, <1>6, <1>8 DEF Works
<1>10. /\ x.coinbase = w.coinbase /\ x.s = t /\ x.txs = U
       /\ x = [coinbase |-> x.coinbase, s |-> x.s, txs |-> x.txs]
  BY <1>2, <1>3, <1>4, <1>8 DEF Works
<1>11. x \in Works
  BY <1>5, <1>7, <1>9, <1>10 DEF Works, Sound
<1>12. LeadsTo(s, n, x) \/ Strays(s, n, x)
  <2>1. Continues(x, w, <<tx>>)
    BY <1>9, <1>10 DEF Continues
  <2>2. IsSysTransaction(tx, w.coinbase) => tx.data = NoData
    BY <1>5, <1>6 DEF IsSysTransaction
  <2>3. x.s = Applied(w.s, n, tx)
    BY <1>2, <1>10
  <2>4. tx \in Txs /\ tx.nonce = w.s.nonce[tx.from]
    BY <1>6
  <2>5. w \in Works /\ (LeadsTo(s, n, w) \/ Strays(s, n, w))
    BY <1>4
  <2> QED  BY ONLY <2>1, <2>2, <2>3, <2>4, <2>5, CommitWork
<1>13. StateInv'
  BY <1>1, <1>3 DEF IInv, StateInv
<1>14. WorkInv'
  BY <1>1, <1>3, <1>4, <1>7, <1>10, <1>11, <1>12 DEF WorkInv
<1>15. BlockInv' /\ block' = NoBlock
  BY <1>3, <1>4 DEF BlockInv
<1> QED  BY <1>13, <1>14, <1>15 DEF IInv

LEMMA SealIInv ==
    ASSUME IInv, Seal
    PROVE  IInv'
<1>1. PICK n, s, w, b : n = number + 1 /\ s = st /\ w = work /\ b = block'
  OBVIOUS
<1>2. /\ number' = number /\ st' = s /\ work' = NoWork /\ work # NoWork
      /\ AssembledFrom(b, w, n)
  BY <1>1 DEF Seal, AssembledFrom
<1>3. /\ w \in Works /\ (LeadsTo(s, n, w) \/ Strays(s, n, w))
      /\ Sound(w.s) /\ Early(w.s, n) /\ Ids(s) \subseteq Ids(w.s)
  BY <1>1, <1>2 DEF IInv, WorkInv
<1>4. Accepts(s, n, b) <=> ~ CallsContract(b)
  <2>1. CASE LeadsTo(s, n, w)
    BY <1>2, <1>3, <2>1, AssembledAccepted
  <2>2. CASE Strays(s, n, w)
    BY <1>2, <1>3, <2>2, AssembledRefused
  <2> QED  BY <1>3, <2>1, <2>2
<1>5. /\ Sound(b.post) /\ Early(b.post, n)
      /\ Ids(s) \subseteq Range(b.post.executed)
  BY <1>2, <1>3, AssembledPost
<1>6. StateInv'
  BY <1>1, <1>2 DEF IInv, StateInv
<1>7. BlockInv'
  BY <1>1, <1>2, <1>4, <1>5 DEF BlockInv
<1>8. WorkInv'
  BY <1>2 DEF WorkInv
<1> QED  BY <1>2, <1>6, <1>7, <1>8 DEF IInv

\* The block is accepted and its state is the next one, or nothing changes.
LEMMA ImportIInv ==
    ASSUME IInv, Import
    PROVE  IInv' /\ (number' = number \/ Ids(st) \subseteq Range(st'.executed))
<1>1. /\ Sound(block.post) /\ Early(block.post, number + 1)
      /\ Ids(st) \subseteq Range(block.post.executed)
      /\ block # NoBlock /\ work = NoWork
  BY DEF Import, IInv, BlockInv
<1>2. /\ block' = NoBlock /\ work' = NoWork
      /\ \/ number' = number + 1 /\ st' = block.post
         \/ number' = number /\ st' = st
  BY <1>1 DEF Import
<1>3. StateInv'
  BY <1>1, <1>2 DEF IInv, StateInv
<1>4. WorkInv' /\ BlockInv'
  BY <1>2 DEF WorkInv, BlockInv
<1> QED  BY <1>1, <1>2, <1>3, <1>4 DEF IInv

\* Every step keeps the invariant.
LEMMA NextIInv == IInv /\ [Next]_vars => IInv'
<1> SUFFICES ASSUME IInv, [Next]_vars PROVE IInv'
  OBVIOUS
<1>1. CASE UNCHANGED vars
  BY <1>1 DEF vars, IInv, StateInv, WorkInv, BlockInv
<1>2. ASSUME NEW v \in Validators, NewWork(v) PROVE IInv'
  BY <1>2, NewWorkIInv
<1>3. ASSUME NEW from \in Validators \cup Users, NEW to \in Targets, NEW free \in BOOLEAN,
             Commit(from, to, free, NoData)
      PROVE  IInv'
  <2>1. NoData \in Props
    BY DEF NoData, Props
  <2> QED  BY <1>3, <2>1, CommitIInv DEF Accounts
<1>4. ASSUME NEW from \in Users, NEW again \in BOOLEAN,
             Commit(from, "SysGov", FALSE, [id |-> 1, again |-> again])
      PROVE  IInv'
  <2>1. PICK d : d = [id |-> 1, again |-> again]
    OBVIOUS
  <2>2. d \in Props /\ from \in Accounts /\ "SysGov" \in Targets /\ FALSE \in BOOLEAN
    BY <2>1 DEF Props, Accounts, Targets
  <2>3. Commit(from, "SysGov", FALSE, d)
    BY <1>4, <2>1
  <2>4. from \notin Validators
    BY GovernanceAssumption
  <2> QED  BY <2>2, <2>3, <2>4, CommitIInv
<1>5. CASE Seal
  BY <1>5, SealIInv
<1>6. CASE Import
  BY <1>6, ImportIInv
<1>7. CASE Bounded
  BY <1>1, <1>7 DEF Bounded
<1> QED  BY <1>1, <1>2, <1>3, <1>4, <1>5, <1>6, <1>7 DEF Next

\* The invariant holds of every state of the chain, the worker and the block.
THEOREM AlwaysIInv == Spec => []IInv
BY InitIInv, NextIInv, PTL DEF Spec

-----------------------------------------------------------------------------

\* FinalizeAndAssemble and Finalize agree: whatever transactions the worker took
\* and whatever the proposals do, the block it assembles is accepted by every node
\* if and only if none of these is its coinbase's own call of the contract.
THEOREM AcceptedUnlessCoinbaseCalls == Spec => []AssembledIsAccepted
<1>1. IInv => AssembledIsAccepted
  BY DEF IInv, BlockInv, AssembledIsAccepted
<1> QED  BY <1>1, AlwaysIInv, PTL

\* Every proposal is waiting or executed, not both, and none is executed twice.
THEOREM AlwaysExecutedOnce == Spec => []ExecutedOnce
<1>1. ASSUME Sound(st) PROVE ExecutedOnce
  <2>1. PICK P, n, I : P = st.passed /\ n = Len(P) /\ I = Ids(st)
    OBVIOUS
  <2>2. P \in Seq(Props) /\ n \in Nat /\ DOMAIN P = 1 .. n
    BY <1>1, <2>1 DEF Sound, States
  <2>3. PICK f : f = [i \in 1 .. n |-> P[i].id]
    OBVIOUS
  <2>4. I = {P[i].id : i \in 1 .. n}
    BY <2>1, <2>2 DEF Ids
  <2>5. \A i, j \in 1 .. n : P[i].id = P[j].id => i = j
    BY <1>1, <2>1, <2>2 DEF Sound
  <2>6. f \in Bijection(1 .. n, I)
    <3>1. f \in [1 .. n -> I]
      BY <2>3, <2>4
    <3>2. IsInjective(f)
      BY <2>3, <2>5 DEF IsInjective
    <3>3. \A x \in I : \E i \in 1 .. n : f[i] = x
      BY <2>3, <2>4
    <3> QED  BY <3>1, <3>2, <3>3 DEF Bijection, Injection, Surjection
  <2>7. IsFiniteSet(1 .. n) /\ Cardinality(1 .. n) = n
    BY <2>2, FS_Interval
  <2>8. Cardinality(I) = n
    <3>1. ExistsBijection(1 .. n, I)
      BY <2>6 DEF ExistsBijection
    <3> QED  BY <2>7, <3>1, FS_Bijection
  <2> QED  BY <1>1, <2>1, <2>8 DEF Sound, ExecutedOnce
<1>2. IInv => ExecutedOnce
  BY <1>1 DEF IInv, StateInv
<1> QED  BY <1>2, AlwaysIInv, PTL

\* Every proposal that has passed before a block is executed by it.
THEOREM PassedAlwaysExecuted == Spec => PassedExecuted
<1> DEFINE A == number' > number => Ids(st) \subseteq Range(st'.executed)
<1>1. IInv /\ [Next]_vars => [A]_vars
  <2> SUFFICES ASSUME IInv, Next, number' > number
               PROVE  Ids(st) \subseteq Range(st'.executed)
    OBVIOUS
  <2>1. number \in Nat
    BY DEF IInv, StateInv
  <2>2. CASE Import
    BY <2>1, <2>2, ImportIInv
  <2>3. CASE number' = number
    BY <2>1, <2>3
  <2> QED  BY <2>2, <2>3 DEF Next, NewWork, Commit, Seal, Bounded, vars
<1> QED  BY <1>1, AlwaysIInv, PTL DEF Spec, PassedExecuted

=============================================================================
