--------------------------- MODULE CongressProofs ---------------------------
(***************************************************************************)
(* The network of Congress nodes, for any validators, any nodes and any    *)
(* number of blocks and crashes: the head of a node is always a heaviest   *)
(* block it holds, a running node never goes back to a head it has left,   *)
(* and, unless a set of exactly two validators is in force, a block that   *)
(* is signed is one that every node accepts.                               *)
(***************************************************************************)
EXTENDS Congress, SnapshotProofs, SequenceTheorems

\* What a block adds to the path of its parent.
Link == [signer : Online, top : TopSets, salt : Salts]

-----------------------------------------------------------------------------
(* Blocks as paths from genesis. *)

\* A block on top of p has p as its parent, and the ancestors of p and itself
\* as its ancestors.
LEMMA AppendPath ==
    ASSUME NEW p \in Seq(Link), NEW x \in Link
    PROVE  LET b == Append(p, x) IN
           /\ b \in Seq(Link) /\ b # genesis
           /\ Parent(b) = p /\ Last(b) = x
           /\ Number(p) \in Nat /\ Number(b) = Number(p) + 1
           /\ Ancestors(b) = Ancestors(p) \cup {b}
<1> DEFINE b == Append(p, x)
<1>1. /\ b \in Seq(Link) /\ b # genesis
      /\ Len(p) \in Nat /\ Len(b) = Len(p) + 1
      /\ \A i \in 1 .. Len(p) : b[i] = p[i]
      /\ b[Len(p) + 1] = x
  BY AppendProperties, LenProperties DEF genesis
<1>2. \A i \in 1 .. Len(b) : b[i] \in Link
  BY <1>1, ElementOfSeq
<1>3. \A i \in 1 .. Len(p) : p[i] \in Link
  BY ElementOfSeq
<1> HIDE DEF b
<1>4. ASSUME NEW k \in 0 .. Len(p)
      PROVE  SubSeq(b, 1, k) = SubSeq(p, 1, k)
  <2>1. /\ SubSeq(b, 1, k) \in Seq(Link)
        /\ Len(SubSeq(b, 1, k)) = IF 1 <= k THEN k - 1 + 1 ELSE 0
        /\ \A i \in 1 .. k - 1 + 1 : SubSeq(b, 1, k)[i] = b[1 + i - 1]
    BY <1>1, <1>2, SubSeqProperties
  <2>2. /\ SubSeq(p, 1, k) \in Seq(Link)
        /\ Len(SubSeq(p, 1, k)) = IF 1 <= k THEN k - 1 + 1 ELSE 0
        /\ \A i \in 1 .. k - 1 + 1 : SubSeq(p, 1, k)[i] = p[1 + i - 1]
    BY <1>1, <1>3, SubSeqProperties
  <2>3. /\ Len(SubSeq(b, 1, k)) = k /\ Len(SubSeq(p, 1, k)) = k
        /\ \A i \in 1 .. k : SubSeq(b, 1, k)[i] = SubSeq(p, 1, k)[i]
    BY <1>1, <2>1, <2>2
  <2> HIDE DEF Link
  <2> QED  BY <2>1, <2>2, <2>3, SeqEqual
<1>5. SubSeq(p, 1, Len(p)) = p /\ SubSeq(b, 1, Len(b)) = b
  BY <1>1, SubSeqFull
<1>6. Parent(b) = p /\ Last(b) = x
  BY <1>1, <1>4, <1>5 DEF Parent, Front, Last
<1>7. 0 .. Len(b) = (0 .. Len(p)) \cup {Len(b)}
  BY <1>1
<1>8. Ancestors(b) = Ancestors(p) \cup {b}
  BY <1>4, <1>5, <1>7 DEF Ancestors
<1> QED  BY <1>1, <1>6, <1>8 DEF b, Number

\* Every block but genesis is one on top of its parent.
LEMMA PathParent ==
    ASSUME NEW b \in Seq(Link), b # genesis
    PROVE  /\ Parent(b) \in Seq(Link) /\ Last(b) \in Link
           /\ b = Append(Parent(b), Last(b))
           /\ Number(Parent(b)) \in Nat /\ Number(b) = Number(Parent(b)) + 1
           /\ Ancestors(b) = Ancestors(Parent(b)) \cup {b}
<1>1. PICK p \in Seq(Link), x \in Link : b = Append(p, x)
  BY SequenceEmptyOrAppend DEF genesis
<1> QED  BY <1>1, AppendPath

\* A block is among its ancestors.
LEMMA OwnAncestor ==
    ASSUME NEW b \in Seq(Link)
    PROVE  b \in Ancestors(b) /\ Number(b) \in Nat
<1>1. SubSeq(b, 1, Len(b)) = b /\ Len(b) \in Nat
  BY SubSeqFull, LenProperties
<1>2. \E k \in 0 .. Len(b) : b = SubSeq(b, 1, k)
  <2>1. Len(b) \in 0 .. Len(b)
    BY <1>1
  <2> QED  BY <1>1, <2>1
<1> QED  BY <1>1, <1>2 DEF Ancestors, Number

\* An ancestor of an ancestor is an ancestor.
LEMMA AncestorsNest ==
    ASSUME NEW b \in Seq(Link), NEW a \in Ancestors(b)
    PROVE  a \in Seq(Link) /\ Ancestors(a) \subseteq Ancestors(b)
<1>1. PICK k \in 0 .. Len(b) : a = SubSeq(b, 1, k)
  BY DEF Ancestors
<1>2. Len(b) \in Nat /\ \A i \in 1 .. Len(b) : b[i] \in Link
  BY LenProperties, ElementOfSeq
<1>3. /\ a \in Seq(Link)
      /\ Len(a) = k
      /\ \A i \in 1 .. k : a[i] = b[i]
  <2>1. /\ SubSeq(b, 1, k) \in Seq(Link)
        /\ Len(SubSeq(b, 1, k)) = IF 1 <= k THEN k - 1 + 1 ELSE 0
        /\ \A i \in 1 .. k - 1 + 1 : SubSeq(b, 1, k)[i] = b[1 + i - 1]
    BY <1>2, SubSeqProperties
  <2> QED  BY <1>1, <1>2, <2>1
<1>4. ASSUME NEW j \in 0 .. k
      PROVE  SubSeq(a, 1, j) = SubSeq(b, 1, j)
  <2>1. /\ SubSeq(b, 1, j) \in Seq(Link)
        /\ Len(SubSeq(b, 1, j)) = IF 1 <= j THEN j - 1 + 1 ELSE 0
        /\ \A i \in 1 .. j - 1 + 1 : SubSeq(b, 1, j)[i] = b[1 + i - 1]
    BY <1>2, SubSeqProperties
  <2>2. \A i \in 1 .. j : a[i] \in Link
    BY <1>2, <1>3
  <2>3. /\ SubSeq(a, 1, j) \in Seq(Link)
        /\ Len(SubSeq(a, 1, j)) = IF 1 <= j THEN j - 1 + 1 ELSE 0
        /\ \A i \in 1 .. j - 1 + 1 : SubSeq(a, 1, j)[i] = a[1 + i - 1]
    BY <1>2, <2>2, SubSeqProperties
  <2>4. /\ Len(SubSeq(a, 1, j)) = j /\ Len(SubSeq(b, 1, j)) = j
        /\ \A i \in 1 .. j : SubSeq(a, 1, j)[i] = SubSeq(b, 1, j)[i]
    BY <1>2, <1>3, <2>1, <2>3
  <2> HIDE DEF Link
  <2> QED  BY <2>1, <2>3, <2>4, SeqEqual
<1> QED  BY <1>2, <1>3, <1>4 DEF Ancestors

-----------------------------------------------------------------------------
(***************************************************************************)
(* The inductive invariant.  The heaviest head needs the tree to be closed *)
(* under ancestors, with weights that grow along a chain (a crash rewinds  *)
(* the head), and a block whose result is on its way to be a leaf that     *)
(* nobody holds (it is dropped when its task is interrupted).              *)
(***************************************************************************)

\* The chain below every block is known and no heavier.
TreeInv ==
    /\ genesis \in DOMAIN tree
    /\ DOMAIN tree \subseteq Seq(Link)
    /\ \A b \in DOMAIN tree :
          /\ tree[b].td \in Nat
          /\ \A a \in Ancestors(b) : a \in DOMAIN tree /\ tree[a].td <= tree[b].td

\* Nodes hold known blocks, with the chain below them, and nothing heavier than
\* their head.
StoreInv ==
    /\ stored \in [Online -> SUBSET DOMAIN tree]
    /\ head \in [Online -> DOMAIN tree]
    /\ HeadIsHeaviest

\* A block on its way is its node's own, on a parent the node holds; no node
\* holds it and no block is built on it.
Pending(n, b) ==
    /\ b \in DOMAIN tree /\ b # genesis
    /\ Last(b).signer = n
    /\ Parent(b) \in stored[n]
    /\ \A m \in Online : b \notin stored[m]
    /\ \A c \in DOMAIN tree : c # b => b \notin Ancestors(c)

SealInv ==
    /\ sealing \in [Online -> SUBSET DOMAIN tree]
    /\ \A n \in Online : \A b \in sealing[n] : Pending(n, b)

IInv == TreeInv /\ StoreInv /\ SealInv

\* What is dropped from the tree is nobody's and nobody's ancestor, so the
\* rest stays closed under ancestors and holds what the nodes hold.
LEMMA DropPending ==
    ASSUME IInv, NEW n \in Online, NEW D \in SUBSET sealing[n]
    PROVE  LET live == DOMAIN tree \ D IN
           /\ genesis \in live
           /\ \A b \in live : Ancestors(b) \subseteq live
           /\ \A m \in Online : stored[m] \subseteq live /\ head[m] \in live
           /\ \A m \in Online : \A b \in sealing[m] : m # n => b \in live
<1> DEFINE live == DOMAIN tree \ D
<1>1. \A b \in D : Pending(n, b)
  BY DEF IInv, SealInv
<1>2. genesis \in live
  BY <1>1 DEF IInv, TreeInv, Pending
<1>3. \A b \in live : Ancestors(b) \subseteq live
  BY <1>1 DEF IInv, TreeInv, Pending
<1>4. \A m \in Online : stored[m] \subseteq live /\ head[m] \in live
  BY <1>1 DEF IInv, StoreInv, HeadIsHeaviest, Pending
<1>5. \A m \in Online : \A b \in sealing[m] : m # n => b \in live
  BY <1>1 DEF IInv, SealInv, Pending
<1> QED  BY <1>2, <1>3, <1>4, <1>5

\* Both difficulties are positive.
LEMMA DifficultyType == \A s, v : CalcDifficulty(s, v) \in {1, 2}
BY DEF CalcDifficulty, diffInTurn, diffNoTurn

LEMMA InitIInv == ASSUME Init PROVE IInv
<1>1. Ancestors(genesis) = {genesis}
  <2>1. genesis \in Seq(Link) /\ Len(genesis) = 0
    BY EmptySeq DEF genesis
  <2>2. SubSeq(genesis, 1, 0) = genesis
    BY SubSeqEmpty DEF genesis
  <2>3. 0 .. 0 = {0}
    OBVIOUS
  <2> QED  BY <2>1, <2>2, <2>3 DEF Ancestors
<1>2. genesis \in Seq(Link)
  BY EmptySeq DEF genesis
<1>3. DOMAIN tree = {genesis} /\ tree[genesis].td = 1
  BY DEF Init
<1>4. TreeInv
  BY <1>1, <1>2, <1>3 DEF TreeInv
<1>5. StoreInv
  BY <1>1, <1>3 DEF StoreInv, HeadIsHeaviest, Init
<1>6. SealInv
  BY DEF SealInv, Init
<1> QED  BY <1>4, <1>5, <1>6 DEF IInv

\* The tree loses what is dropped and, if Seal permits, gains a block on top
\* of the head.
LEMMA NewWorkIInv ==
    ASSUME IInv, NEW n \in Online, NewWork(n)
    PROVE  IInv'
<1>0. PICK p : p = head[n]
  OBVIOUS
<1>1. PICK fired \in SUBSET sealing[n] :
         LET live == DOMAIN tree \ (sealing[n] \ fired) IN
         IF SealPermits(tree[p].snap, Number(p) + 1, n)
         THEN \E top \in TopSets, salt \in Salts :
                 LET b == Append(p, [signer |-> n, top |-> top, salt |-> salt])
                 IN  /\ Later(p, n, salt)
                     /\ Cardinality(live) < MaxBlocks
                     /\ tree' = [x \in live \cup {b} |->
                                   IF x = b THEN Entry(p, Prepare(p, n)) ELSE tree[x]]
                     /\ sealing' = [sealing EXCEPT ![n] = fired \cup {b}]
         ELSE /\ tree' = Restrict(tree, live)
              /\ sealing' = [sealing EXCEPT ![n] = fired]
  BY <1>0 DEF NewWork
<1>2. stored' = stored /\ head' = head
  BY DEF NewWork
<1> DEFINE live == DOMAIN tree \ (sealing[n] \ fired)
<1>3. /\ genesis \in live
      /\ \A b \in live : Ancestors(b) \subseteq live
      /\ \A m \in Online : stored[m] \subseteq live /\ head[m] \in live
      /\ \A m \in Online : \A b \in sealing[m] : m # n => b \in live
  <2>1. PICK D \in SUBSET sealing[n] : D = sealing[n] \ fired
    OBVIOUS
  <2> QED  BY <2>1, DropPending
<1>4. /\ fired \subseteq live /\ live \subseteq DOMAIN tree
      /\ \A m \in Online : \A b \in sealing[m] : Pending(m, b)
      /\ sealing \in [Online -> SUBSET DOMAIN tree]
  BY DEF IInv, SealInv
<1>5. CASE SealPermits(tree[p].snap, Number(p) + 1, n)
  <2>1. PICK top \in TopSets, salt \in Salts :
          LET b == Append(p, [signer |-> n, top |-> top, salt |-> salt])
          IN  /\ Later(p, n, salt)
              /\ tree' = [x \in live \cup {b} |->
                            IF x = b THEN Entry(p, Prepare(p, n)) ELSE tree[x]]
              /\ sealing' = [sealing EXCEPT ![n] = fired \cup {b}]
    BY <1>1, <1>5
  <2> DEFINE x == [signer |-> n, top |-> top, salt |-> salt]
             b == Append(p, x)
  <2>2. x \in Link /\ x.signer = n /\ x.salt = salt /\ salt \in Nat
    BY NetworkAssumption DEF Link
  <2>3. p \in live /\ p \in stored[n] /\ p \in Seq(Link)
    BY <1>0, <1>3 DEF IInv, TreeInv, StoreInv, HeadIsHeaviest
  <2> HIDE DEF x
  <2>4. /\ b \in Seq(Link) /\ b # genesis
        /\ Parent(b) = p /\ Last(b) = x
        /\ Ancestors(b) = Ancestors(p) \cup {b}
    BY <2>2, <2>3, AppendPath
  <2>5. b \notin DOMAIN tree
    <3>1. Later(p, n, salt)
      BY <2>1
    <3> HIDE DEF b
    <3> QED  BY <2>2, <2>4, <3>1 DEF Later
  <2>6. /\ tree' = [y \in live \cup {b} |->
                      IF y = b THEN Entry(p, Prepare(p, n)) ELSE tree[y]]
        /\ sealing' = [sealing EXCEPT ![n] = fired \cup {b}]
    BY <2>1 DEF x
  <2>7. tree[p].td \in Nat /\ Ancestors(p) \subseteq stored[n]
    BY <2>3 DEF IInv, TreeInv, StoreInv, HeadIsHeaviest
  <2> HIDE DEF b, live
  <2>8. /\ DOMAIN tree' = live \cup {b}
        /\ \A y \in live : tree'[y] = tree[y]
        /\ tree'[b] = Entry(p, Prepare(p, n))
    BY <1>4, <2>5, <2>6
  <2>9. tree'[b].td \in Nat /\ tree[p].td <= tree'[b].td
    <3>1. tree'[b].td = tree[p].td + CalcDifficulty(tree[p].snap, n)
      BY <2>8 DEF Entry, Prepare
    <3> QED  BY <2>7, <3>1, DifficultyType
  <2>10. TreeInv'
    <3>1. \A c \in live : /\ tree'[c].td \in Nat
                          /\ \A a \in Ancestors(c) : /\ a \in DOMAIN tree'
                                                     /\ tree'[a].td <= tree'[c].td
      BY <1>3, <1>4, <2>8 DEF IInv, TreeInv
    <3>2. \A a \in Ancestors(b) : a \in DOMAIN tree' /\ tree'[a].td <= tree'[b].td
      <4>1. tree'[b].td <= tree'[b].td
        BY <2>9
      <4>2. ASSUME NEW a \in Ancestors(p)
            PROVE  a \in live /\ tree'[a].td <= tree'[b].td
        <5>1. a \in live /\ tree'[a].td = tree[a].td
          BY <1>3, <2>3, <2>8
        <5>2. tree[a].td \in Nat /\ tree[a].td <= tree[p].td
          BY <1>4, <2>3, <5>1 DEF IInv, TreeInv
        <5> QED  BY <2>7, <2>9, <5>1, <5>2
      <4> QED  BY <2>4, <2>8, <4>1, <4>2
    <3>3. genesis \in DOMAIN tree' /\ DOMAIN tree' \subseteq Seq(Link)
      BY <1>3, <1>4, <2>4, <2>8 DEF IInv, TreeInv
    <3> QED  BY <2>8, <2>9, <3>1, <3>2, <3>3 DEF TreeInv
  <2>11. StoreInv'
    <3>1. \A m \in Online : \A c \in stored[m] : tree'[c] = tree[c] /\ c \in DOMAIN tree'
      BY <1>3, <2>8
    <3>2. \A m \in Online : tree'[head[m]] = tree[head[m]] /\ head[m] \in DOMAIN tree'
      BY <1>3, <2>8
    <3>3. stored' \in [Online -> SUBSET DOMAIN tree'] /\ head' \in [Online -> DOMAIN tree']
      BY <1>2, <3>1, <3>2 DEF IInv, StoreInv
    <3>4. HeadIsHeaviest'
      BY <1>2, <3>1, <3>2 DEF IInv, StoreInv, HeadIsHeaviest
    <3> QED  BY <3>3, <3>4 DEF StoreInv
  <2>12. SealInv'
    <3>1. /\ sealing'[n] = fired \cup {b}
          /\ \A m \in Online \ {n} : sealing'[m] = sealing[m]
          /\ sealing' \in [Online -> SUBSET DOMAIN tree']
      BY <1>3, <1>4, <2>6, <2>8
    <3>2. ASSUME NEW m \in Online, NEW c \in sealing[m], c \in live
          PROVE  Pending(m, c)'
      <4>1. Pending(m, c)
        BY <1>4
      <4>2. c \notin Ancestors(b)
        BY <2>4, <2>5, <2>7, <4>1 DEF Pending
      <4> QED  BY <1>2, <1>4, <2>8, <3>2, <4>1, <4>2 DEF Pending
    <3>3. Pending(n, b)'
      <4>1. \A m \in Online : b \notin stored[m]
        BY <1>3, <1>4, <2>5
      <4>2. \A c \in live : b \notin Ancestors(c)
        BY <1>3, <1>4, <2>5
      <4> QED  BY <1>2, <2>2, <2>3, <2>4, <2>8, <4>1, <4>2 DEF Pending
    <3>4. \A m \in Online : \A c \in sealing'[m] : Pending(m, c)'
      BY <1>3, <1>4, <3>1, <3>2, <3>3
    <3> QED  BY <3>1, <3>4 DEF SealInv
  <2> QED  BY <2>10, <2>11, <2>12 DEF IInv
<1>6. CASE ~ SealPermits(tree[p].snap, Number(p) + 1, n)
  <2>1. tree' = Restrict(tree, live) /\ sealing' = [sealing EXCEPT ![n] = fired]
    BY <1>1, <1>6
  <2> HIDE DEF live
  <2>2. DOMAIN tree' = live /\ \A y \in live : tree'[y] = tree[y]
    BY <2>1 DEF Restrict
  <2>3. TreeInv'
    BY <1>3, <1>4, <2>2 DEF IInv, TreeInv
  <2>4. StoreInv'
    <3>1. \A m \in Online : \A c \in stored[m] : tree'[c] = tree[c] /\ c \in DOMAIN tree'
      BY <1>3, <2>2
    <3>2. \A m \in Online : tree'[head[m]] = tree[head[m]] /\ head[m] \in DOMAIN tree'
      BY <1>3, <2>2
    <3>3. stored' \in [Online -> SUBSET DOMAIN tree'] /\ head' \in [Online -> DOMAIN tree']
      BY <1>2, <3>1, <3>2 DEF IInv, StoreInv
    <3>4. HeadIsHeaviest'
      BY <1>2, <3>1, <3>2 DEF IInv, StoreInv, HeadIsHeaviest
    <3> QED  BY <3>3, <3>4 DEF StoreInv
  <2>5. SealInv'
    <3>1. /\ sealing'[n] = fired
          /\ \A m \in Online \ {n} : sealing'[m] = sealing[m]
          /\ sealing' \in [Online -> SUBSET DOMAIN tree']
      BY <1>3, <1>4, <2>1, <2>2
    <3>2. ASSUME NEW m \in Online, NEW c \in sealing[m], c \in live
          PROVE  Pending(m, c)'
      <4>1. Pending(m, c)
        BY <1>4
      <4> QED  BY <1>2, <1>4, <2>2, <3>2, <4>1 DEF Pending
    <3> QED  BY <1>3, <1>4, <3>1, <3>2 DEF SealInv
  <2> QED  BY <2>3, <2>4, <2>5 DEF IInv
<1> QED  BY <1>5, <1>6

\* Writing a block on a parent the node holds keeps the head a heaviest block;
\* a new head is the block written, and it is heavier, or as heavy and no longer.
LEMMA WriteStore ==
    ASSUME IInv, NEW n \in Online, NEW b \in DOMAIN tree, b # genesis,
           Parent(b) \in stored[n], tree' = tree, WriteBlockWithState(n, b)
    PROVE  /\ StoreInv'
           /\ stored'[n] = stored[n] \cup {b}
           /\ \A m \in Online \ {n} : stored'[m] = stored[m] /\ head'[m] = head[m]
           /\ head'[n] # head[n] =>
                /\ head'[n] = b
                /\ \/ tree[b].td > tree[head[n]].td
                   \/ tree[b].td = tree[head[n]].td /\ Number(b) <= Number(head[n])
<1>1. PICK r \in Reorg(n, b) : head' = [head EXCEPT ![n] = IF r THEN b ELSE @]
  BY DEF WriteBlockWithState
<1>2. stored' = [stored EXCEPT ![n] = @ \cup {b}]
  BY DEF WriteBlockWithState
<1>3. /\ stored \in [Online -> SUBSET DOMAIN tree]
      /\ head \in [Online -> DOMAIN tree]
      /\ \A m \in Online : head[m] \in stored[m]
      /\ \A m \in Online : \A c \in stored[m] : /\ tree[c].td <= tree[head[m]].td
                                                /\ Ancestors(c) \subseteq stored[m]
      /\ \A c \in DOMAIN tree : tree[c].td \in Nat /\ c \in Seq(Link)
  BY DEF IInv, StoreInv, TreeInv, HeadIsHeaviest
<1>4. /\ stored'[n] = stored[n] \cup {b}
      /\ \A m \in Online \ {n} : stored'[m] = stored[m]
      /\ stored' \in [Online -> SUBSET DOMAIN tree]
  BY <1>2, <1>3
<1>5. /\ head'[n] = IF r THEN b ELSE head[n]
      /\ \A m \in Online \ {n} : head'[m] = head[m]
      /\ head' \in [Online -> DOMAIN tree]
  BY <1>1, <1>3
<1>6. /\ r \in BOOLEAN
      /\ tree[b].td > tree[head[n]].td => r
      /\ tree[b].td < tree[head[n]].td => ~ r
      /\ tree[b].td = tree[head[n]].td /\ Number(b) > Number(head[n]) => ~ r
  BY DEF Reorg
<1>7. Ancestors(b) \subseteq stored[n] \cup {b}
  BY <1>3, PathParent
<1>8. tree[b].td \in Nat /\ tree[head[n]].td \in Nat
  BY <1>3
<1>9. Number(b) \in Nat /\ Number(head[n]) \in Nat
  BY <1>3, OwnAncestor
<1>10. tree[head[n]].td <= tree[head'[n]].td /\ tree[b].td <= tree[head'[n]].td
  BY <1>5, <1>6, <1>8
<1>11. head'[n] # head[n] =>
         /\ head'[n] = b
         /\ \/ tree[b].td > tree[head[n]].td
            \/ tree[b].td = tree[head[n]].td /\ Number(b) <= Number(head[n])
  BY <1>5, <1>6, <1>8, <1>9
<1>12. ASSUME NEW m \in Online
       PROVE  /\ head'[m] \in stored'[m]
              /\ \A c \in stored'[m] : /\ tree[c].td <= tree[head'[m]].td
                                       /\ Ancestors(c) \subseteq stored'[m]
  <2>1. CASE m # n
    BY <1>3, <1>4, <1>5, <2>1
  <2>2. CASE m = n
    <3>1. head'[n] \in stored'[n]
      BY <1>3, <1>4, <1>5
    <3>2. ASSUME NEW c \in stored[n]
          PROVE  tree[c].td <= tree[head'[n]].td /\ Ancestors(c) \subseteq stored'[n]
      <4>1. tree[c].td \in Nat /\ tree[head'[n]].td \in Nat
        BY <1>3, <1>5
      <4>2. tree[c].td <= tree[head[n]].td
        BY <1>3
      <4>3. tree[c].td <= tree[head'[n]].td
        BY <1>8, <1>10, <4>1, <4>2
      <4> QED  BY <1>3, <1>4, <4>3
    <3> QED  BY <1>4, <1>7, <1>10, <2>2, <3>1, <3>2
  <2> QED  BY <2>1, <2>2
<1>13. StoreInv'
  BY <1>4, <1>5, <1>12 DEF StoreInv, HeadIsHeaviest
<1> QED  BY <1>4, <1>5, <1>11, <1>13

\* A released block leaves the results on their way and is held by its node.
LEMMA ReleaseIInv ==
    ASSUME IInv, NEW n \in Online, NEW b, Release(n, b)
    PROVE  IInv'
<1>1. /\ b \in sealing[n] /\ tree' = tree
      /\ sealing' = [sealing EXCEPT ![n] = @ \ {b}]
      /\ WriteBlockWithState(n, b)
  BY DEF Release
<1>2. /\ \A m \in Online : \A c \in sealing[m] : Pending(m, c)
      /\ sealing \in [Online -> SUBSET DOMAIN tree]
  BY DEF IInv, SealInv
<1>3. Pending(n, b)
  BY <1>1, <1>2
<1>4. /\ StoreInv'
      /\ stored'[n] = stored[n] \cup {b}
      /\ \A m \in Online \ {n} : stored'[m] = stored[m]
  BY <1>1, <1>3, WriteStore DEF Pending
<1>5. TreeInv'
  BY <1>1 DEF IInv, TreeInv
<1>6. /\ sealing'[n] = sealing[n] \ {b}
      /\ \A m \in Online \ {n} : sealing'[m] = sealing[m]
      /\ sealing' \in [Online -> SUBSET DOMAIN tree']
  BY <1>1, <1>2
<1>7. ASSUME NEW m \in Online, NEW c \in sealing'[m]
      PROVE  Pending(m, c)'
  <2>1. Pending(m, c) /\ c # b
    BY <1>2, <1>3, <1>6 DEF Pending
  <2>2. \A k \in Online : c \notin stored'[k]
    BY <1>4, <2>1 DEF Pending
  <2>3. Parent(c) \in stored'[m]
    BY <1>4, <2>1 DEF Pending
  <2> QED  BY <1>1, <2>1, <2>2, <2>3 DEF Pending
<1>8. SealInv'
  BY <1>6, <1>7 DEF SealInv
<1> QED  BY <1>4, <1>5, <1>8 DEF IInv

\* An imported block is one that another node holds, so it is nowhere on its
\* way.
LEMMA ImportIInv ==
    ASSUME IInv, NEW n \in Online, NEW b \in DOMAIN tree \ {genesis}, Import(n, b)
    PROVE  IInv'
<1>1. /\ tree' = tree /\ sealing' = sealing
      /\ Parent(b) \in stored[n] /\ WriteBlockWithState(n, b)
  BY DEF Import
<1>2. PICK k \in Online : b \in stored[k]
  BY DEF Import
<1>3. /\ StoreInv'
      /\ stored'[n] = stored[n] \cup {b}
      /\ \A m \in Online \ {n} : stored'[m] = stored[m]
  BY <1>1, WriteStore
<1>4. TreeInv'
  BY <1>1 DEF IInv, TreeInv
<1>5. ASSUME NEW m \in Online, NEW c \in sealing[m]
      PROVE  Pending(m, c)'
  <2>1. Pending(m, c)
    BY DEF IInv, SealInv
  <2>2. c # b
    BY <1>2, <2>1 DEF Pending
  <2>3. /\ \A i \in Online : c \notin stored'[i]
        /\ Parent(c) \in stored'[m]
    BY <1>3, <2>1, <2>2 DEF Pending
  <2> QED  BY <1>1, <2>1, <2>3 DEF Pending
<1>6. SealInv'
  BY <1>1, <1>5 DEF IInv, SealInv
<1> QED  BY <1>3, <1>4, <1>6 DEF IInv

\* A crash rewinds the head, and what is held with it, to an ancestor.
LEMMA CrashIInv ==
    ASSUME IInv, NEW n \in Online, Crash(n)
    PROVE  IInv'
<1>1. PICK b \in Ancestors(head[n]) :
         /\ head' = [head EXCEPT ![n] = b]
         /\ stored' = [stored EXCEPT ![n] = Ancestors(b)]
  BY DEF Crash
<1> DEFINE live == DOMAIN tree \ sealing[n]
<1>2. /\ sealing' = [sealing EXCEPT ![n] = {}]
      /\ tree' = Restrict(tree, live)
  BY DEF Crash
<1>3. /\ genesis \in live
      /\ \A c \in live : Ancestors(c) \subseteq live
      /\ \A m \in Online : stored[m] \subseteq live /\ head[m] \in live
      /\ \A m \in Online : \A c \in sealing[m] : m # n => c \in live
  <2>1. PICK D \in SUBSET sealing[n] : D = sealing[n]
    OBVIOUS
  <2> QED  BY <2>1, DropPending
<1>4. live \subseteq DOMAIN tree
  OBVIOUS
<1> HIDE DEF live
<1>5. DOMAIN tree' = live /\ \A c \in live : tree'[c] = tree[c]
  BY <1>2 DEF Restrict
<1>6. TreeInv'
  BY <1>3, <1>4, <1>5 DEF IInv, TreeInv
<1>7. /\ head'[n] = b /\ stored'[n] = Ancestors(b)
      /\ \A m \in Online \ {n} : head'[m] = head[m] /\ stored'[m] = stored[m]
  BY <1>1 DEF IInv, StoreInv
<1>8. b \in live /\ b \in Seq(Link) /\ b \in Ancestors(b) /\ Ancestors(b) \subseteq live
  BY <1>3, <1>4, AncestorsNest, OwnAncestor DEF IInv, TreeInv
<1>9. /\ \A c \in Ancestors(b) : tree'[c].td <= tree'[b].td
      /\ \A c \in Ancestors(b) : Ancestors(c) \subseteq Ancestors(b)
  BY <1>5, <1>6, <1>8, AncestorsNest DEF TreeInv
<1>10. /\ stored' \in [Online -> SUBSET DOMAIN tree']
       /\ head' \in [Online -> DOMAIN tree']
  BY <1>1, <1>3, <1>5, <1>8 DEF IInv, StoreInv
<1>11. ASSUME NEW m \in Online
       PROVE  /\ head'[m] \in stored'[m]
              /\ \A c \in stored'[m] : /\ tree'[c].td <= tree'[head'[m]].td
                                       /\ Ancestors(c) \subseteq stored'[m]
  <2>1. CASE m = n
    BY <1>7, <1>8, <1>9, <2>1
  <2>2. CASE m # n
    <3>1. \A c \in stored[m] : tree'[c] = tree[c]
      BY <1>3, <1>5
    <3>2. head[m] \in stored[m] /\ tree'[head[m]] = tree[head[m]]
      BY <1>3, <1>5 DEF IInv, StoreInv, HeadIsHeaviest
    <3> QED  BY <1>7, <2>2, <3>1, <3>2 DEF IInv, StoreInv, HeadIsHeaviest
  <2> QED  BY <2>1, <2>2
<1>12. StoreInv'
  BY <1>10, <1>11 DEF StoreInv, HeadIsHeaviest
<1>13. /\ sealing'[n] = {}
       /\ \A m \in Online \ {n} : sealing'[m] = sealing[m]
       /\ sealing' \in [Online -> SUBSET DOMAIN tree']
  BY <1>2, <1>3, <1>5 DEF IInv, SealInv
<1>14. ASSUME NEW m \in Online, NEW c \in sealing'[m]
       PROVE  Pending(m, c)'
  <2>1. m # n /\ c \in sealing[m] /\ c \in live
    BY <1>3, <1>13
  <2>2. Pending(m, c)
    BY <2>1 DEF IInv, SealInv
  <2>3. Ancestors(b) \subseteq stored[n]
    BY AncestorsNest DEF IInv, TreeInv, StoreInv, HeadIsHeaviest
  <2>4. \A k \in Online : c \notin stored'[k]
    BY <1>7, <2>2, <2>3 DEF Pending
  <2> QED  BY <1>4, <1>5, <1>7, <2>1, <2>2, <2>4 DEF Pending
<1>15. SealInv'
  BY <1>13, <1>14 DEF SealInv
<1> QED  BY <1>6, <1>12, <1>15 DEF IInv

\* Every step keeps the invariant.
LEMMA NextIInv ==
    ASSUME IInv, [Next]_vars
    PROVE  IInv'
<1>1. CASE \E n \in Online : NewWork(n)
  BY <1>1, NewWorkIInv
<1>2. CASE \E n \in Online : \E b \in sealing[n] : Release(n, b)
  BY <1>2, ReleaseIInv
<1>3. CASE \E n \in Online : \E b \in DOMAIN tree \ {genesis} : Import(n, b)
  BY <1>3, ImportIInv
<1>4. CASE \E n \in Online : Crash(n)
  BY <1>4, CrashIInv
<1>5. CASE UNCHANGED vars
  BY <1>5 DEF vars, IInv, TreeInv, StoreInv, HeadIsHeaviest, SealInv, Pending
<1>6. CASE Bounded
  BY <1>5, <1>6 DEF Bounded
<1> QED  BY <1>1, <1>2, <1>3, <1>4, <1>5, <1>6 DEF Next

LEMMA Invariance == Spec => []IInv
<1>1. Init => IInv
  BY InitIInv
<1>2. IInv /\ [Next]_vars => IInv'
  BY NextIInv
<1> QED  BY <1>1, <1>2, PTL DEF Spec

\* Block b is new and signed by n on top of its head p, whose snapshot it knows.
Signed(n, p, b) ==
    /\ p = head[n] /\ p \in DOMAIN tree /\ tree[p].usable
    /\ SealPermits(tree[p].snap, Number(p) + 1, n)
    /\ b \in Seq(Link) /\ b # genesis /\ Parent(b) = p /\ b \notin DOMAIN tree

\* Whatever the step, the tree keeps a part L of the blocks, unchanged, and
\* gains at most one block, which is signed.
LEMMA TreeStep ==
    ASSUME IInv, [Next]_vars
    PROVE  \E L \in SUBSET DOMAIN tree :
             /\ \A y \in L : tree'[y] = tree[y]
             /\ \/ DOMAIN tree' = L
                \/ \E n \in Online : \E p, b :
                      /\ Signed(n, p, b)
                      /\ DOMAIN tree' = L \cup {b}
                      /\ tree'[b] = Entry(p, Prepare(p, n))
<1>1. ASSUME NEW n \in Online, NewWork(n)
      PROVE  \E L \in SUBSET DOMAIN tree :
               /\ \A y \in L : tree'[y] = tree[y]
               /\ \/ DOMAIN tree' = L
                  \/ \E p, b : /\ Signed(n, p, b)
                               /\ DOMAIN tree' = L \cup {b}
                               /\ tree'[b] = Entry(p, Prepare(p, n))
  <2>0. PICK p : p = head[n]
    OBVIOUS
  <2>1. PICK fired \in SUBSET sealing[n] :
          LET live == DOMAIN tree \ (sealing[n] \ fired) IN
          IF SealPermits(tree[p].snap, Number(p) + 1, n)
          THEN \E top \in TopSets, salt \in Salts :
                  LET b == Append(p, [signer |-> n, top |-> top, salt |-> salt])
                  IN  /\ Later(p, n, salt)
                      /\ Cardinality(live) < MaxBlocks
                      /\ tree' = [x \in live \cup {b} |->
                                    IF x = b THEN Entry(p, Prepare(p, n)) ELSE tree[x]]
                      /\ sealing' = [sealing EXCEPT ![n] = fired \cup {b}]
          ELSE /\ tree' = Restrict(tree, live)
               /\ sealing' = [sealing EXCEPT ![n] = fired]
    BY <1>1, <2>0 DEF NewWork
  <2>2. PICK live \in SUBSET DOMAIN tree : live = DOMAIN tree \ (sealing[n] \ fired)
    OBVIOUS
  <2>3. CASE ~ SealPermits(tree[p].snap, Number(p) + 1, n)
    <3>1. tree' = Restrict(tree, live)
      BY <2>1, <2>2, <2>3
    <3>2. DOMAIN tree' = live /\ \A y \in live : tree'[y] = tree[y]
      BY <3>1 DEF Restrict
    <3> QED  BY <3>2
  <2>4. CASE SealPermits(tree[p].snap, Number(p) + 1, n)
    <3>1. PICK top \in TopSets, salt \in Salts :
            LET b == Append(p, [signer |-> n, top |-> top, salt |-> salt])
            IN  /\ Later(p, n, salt)
                /\ tree' = [x \in live \cup {b} |->
                              IF x = b THEN Entry(p, Prepare(p, n)) ELSE tree[x]]
      BY <2>1, <2>2, <2>4
    <3>2. PICK x \in Link : x = [signer |-> n, top |-> top, salt |-> salt]
      BY DEF Link
    <3>3. PICK b : b = Append(p, x)
      OBVIOUS
    <3>4. x.signer = n /\ x.salt = salt /\ salt \in Nat /\ Later(p, n, salt)
      BY <3>1, <3>2, NetworkAssumption
    <3>5. p \in DOMAIN tree /\ p \in Seq(Link) /\ tree[p].usable
      BY <1>1, <2>0 DEF IInv, TreeInv, StoreInv, NewWork
    <3>6. b \in Seq(Link) /\ b # genesis /\ Parent(b) = p /\ Last(b) = x
      BY <3>3, <3>5, AppendPath
    <3>7. b \notin DOMAIN tree
      BY <3>4, <3>6 DEF Later
    <3>8. Signed(n, p, b)
      BY <2>0, <2>4, <3>5, <3>6, <3>7 DEF Signed
    <3>9. tree' = [y \in live \cup {b} |->
                     IF y = b THEN Entry(p, Prepare(p, n)) ELSE tree[y]]
      BY <3>1, <3>2, <3>3
    <3>10. /\ DOMAIN tree' = live \cup {b}
           /\ tree'[b] = Entry(p, Prepare(p, n))
           /\ \A y \in live : tree'[y] = tree[y]
      BY <3>7, <3>9
    <3> QED  BY <3>8, <3>10
  <2> QED  BY <2>3, <2>4
<1>2. ASSUME NEW n \in Online, Crash(n)
      PROVE  \E L \in SUBSET DOMAIN tree :
               (\A y \in L : tree'[y] = tree[y]) /\ DOMAIN tree' = L
  <2>1. PICK L \in SUBSET DOMAIN tree : tree' = Restrict(tree, L)
    BY <1>2 DEF Crash
  <2> QED  BY <2>1 DEF Restrict
<1>3. (\E n \in Online : \E b : Release(n, b) \/ Import(n, b)) => tree' = tree
  BY DEF Release, Import
<1>4. Bounded \/ UNCHANGED vars => tree' = tree
  BY DEF Bounded, vars
<1>5. tree' = tree => \E L \in SUBSET DOMAIN tree :
                        (\A y \in L : tree'[y] = tree[y]) /\ DOMAIN tree' = L
  OBVIOUS
<1> QED  BY <1>1, <1>2, <1>3, <1>4, <1>5 DEF Next

\* Crashes are counted up to their bound, and of every block it is known
\* whether apply accepts it.
Tally ==
    /\ crashes \in 0 .. MaxCrashes
    /\ \A b \in DOMAIN tree : tree[b].usable \in BOOLEAN

LEMMA Tallied == Spec => []Tally
<1>1. Init => Tally
  <2> SUFFICES ASSUME Init PROVE Tally
    OBVIOUS
  <2>1. DOMAIN tree = {genesis} /\ tree[genesis].usable = TRUE
    BY DEF Init
  <2>2. crashes \in 0 .. MaxCrashes
    BY NetworkAssumption DEF Init
  <2> QED  BY <2>1, <2>2 DEF Tally
<1>2. ASSUME IInv, Tally, [Next]_vars
      PROVE  \A b \in DOMAIN tree' : tree'[b].usable \in BOOLEAN
  <2>1. PICK L \in SUBSET DOMAIN tree :
          /\ \A y \in L : tree'[y] = tree[y]
          /\ \/ DOMAIN tree' = L
             \/ \E n \in Online : \E p, b :
                   /\ DOMAIN tree' = L \cup {b}
                   /\ tree'[b] = Entry(p, Prepare(p, n))
    BY <1>2, TreeStep
  <2>2. \A p, n : Entry(p, Prepare(p, n)).usable \in BOOLEAN
    BY DEF Entry, ApplyOK
  <2> QED  BY <1>2, <2>1, <2>2 DEF Tally
<1>3. ASSUME Tally, [Next]_vars
      PROVE  crashes' \in 0 .. MaxCrashes
  <2>1. crashes' = crashes \/ (crashes < MaxCrashes /\ crashes' = crashes + 1)
    BY <1>3 DEF Next, NewWork, Release, Import, Crash, Bounded, vars
  <2> QED  BY <1>3, <2>1, NetworkAssumption DEF Tally
<1>4. IInv /\ Tally /\ [Next]_vars => Tally'
  BY <1>2, <1>3 DEF Tally
<1> QED  BY <1>1, <1>4, Invariance, PTL DEF Spec

-----------------------------------------------------------------------------
\* The variables keep their types, and the tree of blocks stays closed under
\* parents although the results of interrupted tasks are dropped from it.
THEOREM TypeCorrect == Spec => []TypeOK
<1>1. IInv /\ Tally => TypeOK
  <2> SUFFICES ASSUME IInv, Tally PROVE TypeOK
    OBVIOUS
  <2>1. \A b \in DOMAIN tree : b # genesis => Parent(b) \in DOMAIN tree
    BY PathParent, OwnAncestor DEF IInv, TreeInv
  <2> QED  BY <2>1 DEF IInv, TreeInv, StoreInv, SealInv, Tally, TypeOK
<1> QED  BY <1>1, Invariance, Tallied, PTL

\* The head of a node is always a heaviest block it holds, whatever the order
\* in which writeBlockWithState meets the blocks and whenever the node crashes.
THEOREM HeadsAreHeaviest == Spec => []HeadIsHeaviest
<1>1. IInv => HeadIsHeaviest
  BY DEF IInv, StoreInv
<1> QED  BY <1>1, Invariance, PTL

\* A running node replaces its head only by a heavier block, or by one of the
\* same weight that is no longer and that it did not hold.
THEOREM HeadsImprove == Spec => HeadImproves
<1> DEFINE Improves ==
      \A n \in Online :
          crashes' = crashes /\ head'[n] # head[n]
             => \/ tree[head'[n]].td > tree[head[n]].td
                \/ /\ tree[head'[n]].td = tree[head[n]].td
                   /\ Number(head'[n]) <= Number(head[n])
                   /\ head'[n] \notin stored[n]
<1>1. ASSUME IInv, NEW n \in Online, NEW b \in DOMAIN tree \ {genesis},
             Parent(b) \in stored[n], b \notin stored[n], tree' = tree,
             WriteBlockWithState(n, b)
      PROVE  Improves
  <2>1. /\ \A m \in Online \ {n} : head'[m] = head[m]
        /\ head'[n] # head[n] =>
             /\ head'[n] = b
             /\ \/ tree[b].td > tree[head[n]].td
                \/ tree[b].td = tree[head[n]].td /\ Number(b) <= Number(head[n])
    BY <1>1, WriteStore
  <2> QED  BY <1>1, <2>1
<1>2. IInv /\ Tally /\ [Next]_vars => [Improves]_vars
  <2> SUFFICES ASSUME IInv, Tally, Next PROVE Improves
    OBVIOUS
  <2>1. CASE \E n \in Online : NewWork(n)
    BY <2>1 DEF NewWork
  <2>2. CASE \E n \in Online : \E b \in sealing[n] : Release(n, b)
    <3>1. PICK n \in Online : \E b \in sealing[n] : Release(n, b)
      BY <2>2
    <3>2. PICK b \in sealing[n] : Release(n, b)
      BY <3>1
    <3>3. Pending(n, b)
      BY DEF IInv, SealInv
    <3> QED  BY <1>1, <3>2, <3>3 DEF Release, Pending
  <2>3. CASE \E n \in Online : \E b \in DOMAIN tree \ {genesis} : Import(n, b)
    BY <1>1, <2>3 DEF Import
  <2>4. CASE \E n \in Online : Crash(n)
    <3>1. crashes' # crashes
      BY <2>4 DEF Crash, Tally
    <3> QED  BY <3>1
  <2>5. CASE Bounded
    BY <2>5 DEF Bounded, vars
  <2> QED  BY <2>1, <2>2, <2>3, <2>4, <2>5 DEF Next
<1> QED  BY <1>2, Invariance, Tallied, PTL DEF Spec, HeadImproves

-----------------------------------------------------------------------------
(***************************************************************************)
(* What is signed is valid.  The task of an earlier head is not checked    *)
(* again when its block is written, so the argument is by the snapshot of  *)
(* the parent, which never changes.                                        *)
(***************************************************************************)

\* No set of exactly two validators can come into force: there Seal signs a
\* block that apply refuses.
NoPair == \A V \in {Genesis} \cup TopSets : Cardinality(V) # 2

\* The snapshot of block b is well formed, of its number and of a set the
\* contracts have selected, and its header is verified.
Valid(b) ==
    /\ WellFormed(tree[b].snap)
    /\ tree[b].snap.number = Number(b)
    /\ tree[b].snap.validators \in {Genesis} \cup TopSets
    /\ tree[b].usable
    /\ b # genesis => Verifies(b)

SnapInv == \A b \in DOMAIN tree : Valid(b)

LEMMA InitSnapInv == ASSUME Init PROVE SnapInv
<1>1. /\ DOMAIN tree = {genesis}
      /\ tree[genesis].snap = newSnapshot(0, Genesis)
      /\ tree[genesis].usable = TRUE
  BY DEF Init
<1>2. Genesis \in (SUBSET Address) \ {{}} /\ Limit(Genesis) \in Nat
  BY NetworkAssumption, LimitType
<1>3. Window(EmptyWindow, 0 - Limit(Genesis), 0)
  BY DEF Window, EmptyWindow, IsInjective
<1>4. WellFormed(newSnapshot(0, Genesis))
  BY <1>2, <1>3 DEF WellFormed, newSnapshot
<1>5. Number(genesis) = 0
  BY EmptySeq DEF Number, genesis
<1> QED  BY <1>1, <1>4, <1>5 DEF SnapInv, Valid, newSnapshot

\* A block that Seal permits on a valid head is valid.
LEMMA SignedIsValid ==
    ASSUME NoPair, IInv, SnapInv, NEW n \in Online, NEW p, NEW b, Signed(n, p, b),
           tree'[p] = tree[p], tree'[b] = Entry(p, Prepare(p, n))
    PROVE  Valid(b)'
<1>1. PICK s, h : s = tree[p].snap /\ h = Prepare(p, n)
  OBVIOUS
<1>2. /\ p \in DOMAIN tree /\ p \in Seq(Link) /\ Parent(b) = p /\ tree[p].usable
      /\ b \in Seq(Link) /\ b # genesis
      /\ Number(b) = Number(p) + 1 /\ Number(p) \in Nat
  BY PathParent DEF Signed, IInv, TreeInv
<1>3. /\ WellFormed(s) /\ s.number = Number(p)
      /\ s.validators \in {Genesis} \cup TopSets
      /\ Cardinality(s.validators) # 2
      /\ SealPermits(s, s.number + 1, n)
  BY <1>1, <1>2 DEF SnapInv, Valid, NoPair, Signed
<1>4. /\ h.number = s.number + 1 /\ h.signer = n
      /\ h.difficulty = CalcDifficulty(s, n)
      /\ IsEpoch(h.number) => h.extra \in {Genesis} \cup TopSets
  <2>1. getTopValidators(p) \in {Genesis} \cup TopSets
    <3>1. p # genesis => Last(p) \in Link
      BY <1>2, PathParent
    <3> QED  BY <3>1 DEF getTopValidators, Link
  <2> QED  BY <1>1, <1>3, <2>1 DEF Prepare
<1>5. ApplyOK(s, h)
  <2>1. n \notin Range(Shifted(s, s.number + 1))
    BY <1>3, PermittedIsApplied
  <2>2. n \in s.validators
    BY <1>3 DEF SealPermits
  <2> QED  BY <1>4, <2>1, <2>2 DEF ApplyOK
<1>6. VerifySeal(s, h)
  BY <1>3, <1>4, <1>5, AppliedIsVerified
<1>7. WellFormed(Apply(s, h)) /\ Apply(s, h).number = s.number + 1
  BY <1>3, <1>4, <1>5, ApplyWellFormed, NetworkAssumption
<1>8. Apply(s, h).validators \in {Genesis} \cup TopSets
  BY <1>3, <1>4 DEF Apply
<1>9. /\ tree'[b].header = h
      /\ tree'[b].usable = ApplyOK(s, h)
      /\ tree'[b].snap = Apply(s, h)
  BY <1>1, <1>5 DEF Entry
<1>10. Verifies(b)'
  BY <1>1, <1>2, <1>6, <1>9 DEF Verifies
<1> QED  BY <1>2, <1>3, <1>5, <1>7, <1>8, <1>9, <1>10 DEF Valid

LEMMA NextSnapInv ==
    ASSUME NoPair, IInv, IInv', SnapInv, [Next]_vars
    PROVE  SnapInv'
<1>1. PICK L \in SUBSET DOMAIN tree :
        /\ \A y \in L : tree'[y] = tree[y]
        /\ \/ DOMAIN tree' = L
           \/ \E n \in Online : \E p, b :
                 /\ Signed(n, p, b)
                 /\ DOMAIN tree' = L \cup {b}
                 /\ tree'[b] = Entry(p, Prepare(p, n))
  BY TreeStep
<1>2. \A c \in DOMAIN tree : /\ c \in Seq(Link)
                             /\ c # genesis => Parent(c) \in DOMAIN tree
  BY PathParent, OwnAncestor DEF IInv, TreeInv
<1>3. \A c \in DOMAIN tree' : /\ c \in Seq(Link)
                              /\ c # genesis => Parent(c) \in DOMAIN tree'
  BY PathParent, OwnAncestor DEF IInv, TreeInv
<1>4. ASSUME NEW c \in L
      PROVE  Valid(c)'
  <2>1. Valid(c) /\ tree'[c] = tree[c]
    BY <1>1 DEF SnapInv
  <2>2. c # genesis => tree'[Parent(c)] = tree[Parent(c)]
    BY <1>1, <1>2, <1>3 DEF Signed
  <2> QED  BY <2>1, <2>2 DEF Valid, Verifies
<1>5. ASSUME NEW n \in Online, NEW p, NEW b, Signed(n, p, b),
             DOMAIN tree' = L \cup {b}, tree'[b] = Entry(p, Prepare(p, n))
      PROVE  Valid(b)'
  <2>1. p \in L
    BY <1>3, <1>5 DEF Signed
  <2> QED  BY <1>1, <1>5, <2>1, SignedIsValid
<1> QED  BY <1>1, <1>4, <1>5 DEF SnapInv

\* A block that a node has signed, even on a head it has since left, passes
\* verifySeal and apply on every node that holds its parent, as long as no set
\* of exactly two validators comes into force.
THEOREM SealedAreValid == NoPair => (Spec => []SealedIsValid)
<1> SUFFICES ASSUME NoPair PROVE Spec => []SealedIsValid
  OBVIOUS
<1>1. Init => SnapInv
  BY InitSnapInv
<1>2. IInv /\ IInv' /\ SnapInv /\ [Next]_vars => SnapInv'
  BY NextSnapInv
<1>3. SnapInv => SealedIsValid
  BY DEF SnapInv, Valid, SealedIsValid
<1> QED  BY <1>1, <1>2, <1>3, Invariance, PTL DEF Spec

=============================================================================
