------------------------ MODULE SnapshotStoreProofs ------------------------
(***************************************************************************)
(* HeldSound and Refines for every instance: any number of callers, any    *)
(* tree of blocks, any epoch, interval and threshold.  The invariant says  *)
(* how the lines of the tree fit together (Lines, Sets, Truths, Forks) and *)
(* where a call stands on the line of its block (Calls); the refinement    *)
(* adds what a snapshot computed from a trusted header lacks (RInv).       *)
(***************************************************************************)
EXTENDS SnapshotStore, SnapshotProofs

\* Blocks are numbered in the order of their arrival.
Ids == \E N \in Nat \ {0} : Block = 0 .. N - 1

\* The line of a block leads from the root to it along the parents.
Lines ==
    \A b \in Block :
        /\ header[b].number \in Nat
        /\ Root <= header[b].number
        /\ header[b].number = Root => b = 0
        /\ DOMAIN header[b].line = Root .. header[b].number
        /\ header[b].line[header[b].number] = b
        /\ \A k \in Root .. header[b].number :
              /\ header[b].line[k] \in Block
              /\ header[header[b].line[k]].number = k
              /\ k > Root => header[header[b].line[k]].parent = header[b].line[k - 1]

\* The set in force after a block is the one the last epoch header announced.
Sets ==
    \A b \in Block :
        /\ header[b].number % Epoch = 0 => header[b].extra = header[b].set
        /\ header[b].number > Root =>
              header[b].set = IF IsEpoch(header[b].number)
                              THEN header[b].extra
                              ELSE header[header[b].parent].set

\* truth is apply folded along the line; a block apply refuses has no
\* descendant with a snapshot.
Truths ==
    /\ DOMAIN truth = Block
    /\ Root = 0 => truth[0] = newSnapshot(0, header[0].extra)
    /\ \A b \in Block :
          /\ header[b].number > Root =>
                truth[b] = Extended(truth[header[b].parent], header[b])
          /\ \A k \in Root .. header[b].number :
                truth[header[b].line[k]] = Invalid => truth[b] = Invalid

\* Forks are short, and the canonical chain is among the longest.
Forks ==
    /\ head \in Block
    /\ \A b, c \in Block : \A k \in Root .. header[b].number :
          k + MaxReorg <= header[b].number /\ k + MaxReorg <= header[c].number
             => header[b].line[k] = header[c].line[k]
    /\ \A c \in Block : header[c].number <= header[head].number + MaxReorg

\* A call stands on the line of its block.
OnLine(c) ==
    /\ c.pc \in {"idle", "walk", "apply", "store", "done"}
    /\ c.target \in Block
    /\ c.cur \in Block
    /\ header[c.cur].number <= header[c.target].number
    /\ header[c.target].line[header[c.cur].number] = c.cur

\* Its snapshot is the one of the block of that number on the line.
Applying(c) ==
    /\ c.pc \in {"apply", "store"} =>
          /\ c.snap.number \in Root .. header[c.target].number
          /\ Sound(header[c.target].line[c.snap.number], c.snap)
    /\ c.pc = "store" => c.snap.number = header[c.target].number

Answered(c) ==
    c.pc = "done" =>
        IF c.snap = Invalid
        THEN trusted = {} => truth[c.target] = Invalid
        ELSE Sound(c.target, c.snap)

Calls ==
    /\ DOMAIN call = Callers
    /\ \A p \in Callers : OnLine(call[p]) /\ Applying(call[p]) /\ Answered(call[p])

Memory == DOMAIN memory \subseteq Block /\ \A b \in DOMAIN memory : Sound(b, memory[b])

Disk == DOMAIN disk \subseteq Block /\ \A b \in DOMAIN disk : Sound(b, disk[b])

IInv == Ids /\ Lines /\ Sets /\ Truths /\ Forks /\ Calls /\ Memory /\ Disk

-----------------------------------------------------------------------------
\* The initial state satisfies the invariant.
LEMMA InitIInv == Init => IInv
<1> SUFFICES ASSUME Init PROVE IInv
  OBVIOUS
<1>1. /\ Block = {0} /\ header[0].number = Root
      /\ header[0].line = [n \in {Root} |-> 0] /\ header[0].extra = header[0].set
  BY DEF Init, Block
<1>2. Root \in Nat /\ Root .. Root = {Root}
  BY StoreAssumption
<1>3. Ids
  BY <1>1 DEF Ids
<1>4. Lines
  <2>1. DOMAIN header[0].line = Root .. Root /\ header[0].line[Root] = 0
    BY <1>1, <1>2
  <2>2. \A k \in Root .. Root : k = Root /\ ~ (k > Root)
    BY <1>2
  <2>3. ASSUME NEW k \in Root .. header[0].number
        PROVE  /\ header[0].line[k] \in Block
               /\ header[header[0].line[k]].number = k
               /\ k > Root => header[header[0].line[k]].parent = header[0].line[k - 1]
    BY <1>1, <2>1, <2>2
  <2>4. /\ header[0].number \in Nat /\ Root <= header[0].number
        /\ DOMAIN header[0].line = Root .. header[0].number
        /\ header[0].line[header[0].number] = 0
    BY <1>1, <1>2, <2>1
  <2>5. \A b \in Block : b = 0
    BY <1>1
  <2> QED
    BY <2>3, <2>4, <2>5 DEF Lines
<1>5. Sets
  BY <1>1, <1>2 DEF Sets
<1>6. Truths
  <2>1. Root = 0 => truth[0] = newSnapshot(0, header[0].extra)
    BY DEF Init, newSnapshot
  <2>2. DOMAIN truth = Block
    BY <1>1 DEF Init
  <2>3. \A k \in Root .. Root : header[0].line[k] = 0
    BY <1>1, <1>2
  <2> QED
    BY <1>1, <1>2, <2>1, <2>2, <2>3 DEF Truths
<1>7. Forks
  BY <1>1, <1>2, StoreAssumption DEF Forks, Init
<1>8. Calls
  BY <1>1, <1>2 DEF Init, Calls, Idle, OnLine, Applying, Answered
<1>9. Memory /\ Disk
  BY DEF Init, Memory, Disk, EmptyWindow
<1> QED
  BY <1>3, <1>4, <1>5, <1>6, <1>7, <1>8, <1>9 DEF IInv

\* Where the tree and the trusted blocks do not change, the parts of the
\* invariant about them do not.
LEMMA TreeStable ==
    ASSUME IInv, UNCHANGED <<header, truth, head>>
    PROVE  Ids' /\ Lines' /\ Sets' /\ Truths' /\ Forks'
BY DEF IInv, Ids, Lines, Sets, Truths, Forks, Block

\* A sound snapshot stays sound while the tree is unchanged and trust can only
\* grow.
LEMMA SoundStable ==
    ASSUME UNCHANGED <<header, truth>>, trusted' = {} => trusted = {},
           NEW b, NEW s, Sound(b, s)
    PROVE  Sound(b, s)'
BY DEF Sound

\* The same of the two stores.
LEMMA StoresStable ==
    ASSUME UNCHANGED <<header, truth>>, trusted' = {} => trusted = {}
    PROVE  /\ Memory /\ UNCHANGED memory => Memory'
           /\ Disk /\ UNCHANGED disk => Disk'
BY SoundStable DEF Memory, Disk, Block, Sound

\* Filing a sound snapshot keeps a store sound.
LEMMA PutSound ==
    ASSUME NEW f, DOMAIN f \subseteq Block, \A b \in DOMAIN f : Sound(b, f[b]),
           NEW t \in Block, NEW s, Sound(t, s)
    PROVE  /\ DOMAIN Put(f, t, s) \subseteq Block
           /\ \A b \in DOMAIN Put(f, t, s) : Sound(b, Put(f, t, s)[b])
BY DEF Put

-----------------------------------------------------------------------------
\* The block a walk may trust is the one it stands at: the canonical block of
\* its number is on the line of the call's block.
LEMMA TrustedIsCurrent ==
    ASSUME IInv, NEW p \in Callers, Trusts(p)
    PROVE  LET n == header[call[p].cur].number
           IN  /\ n \in Nat
               /\ ByNumber(n) = call[p].cur
               /\ n % Epoch = 0
               /\ n = 0 => Root = 0 /\ call[p].cur = 0
<1> DEFINE c == call[p]
           n == header[c.cur].number
           m == header[c.target].number
           H == header[head].number
<1>1. /\ c.target \in Block /\ c.cur \in Block /\ n <= m
      /\ header[c.target].line[n] = c.cur /\ head \in Block
  BY DEF IInv, Calls, OnLine, Forks
<1>2. /\ n \in Nat /\ m \in Nat /\ H \in Nat /\ Root <= n
      /\ DOMAIN header[head].line = Root .. H
      /\ n = Root => c.cur = 0
  BY <1>1 DEF IInv, Lines
<1>3. Root \in Nat /\ n <= H /\ n \in Root .. H
  BY <1>1, <1>2, StoreAssumption DEF Trusts, Known
<1>4. header[ByNumber(n)].number = n /\ ByNumber(n) \in Block
  BY <1>1, <1>3 DEF IInv, Lines, ByNumber
<1>5. n = Root => ByNumber(n) = 0
  BY <1>4 DEF IInv, Lines
<1>6. 0 % Epoch = 0
  BY EpochAssumption
<1>7. n % Epoch = 0
  BY <1>6 DEF Trusts
<1>8. CASE n = 0
  BY <1>2, <1>3, <1>5, <1>7, <1>8
<1>9. CASE n # 0 /\ ~ Known(n - 1)
  <2>1. n = Root
    BY <1>2, <1>3, <1>9 DEF Known
  <2> QED
    BY <1>2, <1>5, <1>7, <1>9, <2>1
<1>10. CASE n # 0 /\ Gathered(p) > FullImmutabilityThreshold
  <2>1. m - n > FullImmutabilityThreshold
    BY <1>10 DEF Gathered
  <2>2. m <= H + MaxReorg
    BY <1>1 DEF IInv, Forks
  <2>3. n + MaxReorg <= m /\ n + MaxReorg <= H /\ n \in Root .. m
    BY <1>2, <1>3, <2>1, <2>2, StoreAssumption, ImmutableAssumption
  <2>4. header[c.target].line[n] = header[head].line[n]
    BY <1>1, <2>3 DEF IInv, Forks
  <2> QED
    BY <1>1, <1>2, <1>7, <1>10, <2>4 DEF ByNumber
<1> QED
  BY <1>8, <1>9, <1>10 DEF Trusts

\* At the root a walk finds something to trust, so it never runs past it.
LEMMA RootTrusted ==
    ASSUME IInv, NEW p \in Callers, header[call[p].cur].number = Root
    PROVE  Trusts(p)
<1>1. head \in Block
  BY DEF IInv, Forks
<1>2. /\ header[head].number \in Nat /\ Root <= header[head].number
      /\ DOMAIN header[head].line = Root .. header[head].number
  BY <1>1 DEF IInv, Lines
<1>3. Known(Root) /\ ~ Known(Root - 1)
  BY <1>2, StoreAssumption DEF Known
<1> QED
  BY <1>3, StoreAssumption DEF Trusts

-----------------------------------------------------------------------------
(* One lemma per action.  Steps that leave the tree alone first. *)

\* A step of one call leaves the others as they are.
LEMMA OneCall ==
    ASSUME IInv, UNCHANGED <<header, truth>>, trusted' = {} => trusted = {},
           NEW p \in Callers, DOMAIN call' = Callers,
           \A q \in Callers \ {p} : call'[q] = call[q],
           OnLine(call[p])' /\ Applying(call[p])' /\ Answered(call[p])'
    PROVE  Calls'
<1>1. ASSUME NEW q \in Callers
      PROVE  OnLine(call[q])' /\ Applying(call[q])' /\ Answered(call[q])'
  <2>1. CASE q = p
    BY <2>1
  <2>2. CASE q # p
    <3>1. call'[q] = call[q]
      BY <2>2
    <3>2. OnLine(call[q]) /\ Applying(call[q]) /\ Answered(call[q])
      BY DEF IInv, Calls
    <3> QED
      BY <3>1, <3>2 DEF OnLine, Applying, Answered, Sound, Block
  <2> QED
    BY <2>1, <2>2
<1> QED
  BY <1>1 DEF Calls

LEMMA BeginStep ==
    ASSUME IInv, NEW p \in Callers, NEW b \in Block, Begin(p, b)
    PROVE  IInv'
<1>1. UNCHANGED <<header, truth, head, memory, disk, trusted>>
  BY DEF Begin
<1>2. Ids' /\ Lines' /\ Sets' /\ Truths' /\ Forks' /\ Memory' /\ Disk'
  BY <1>1, TreeStable, StoresStable DEF IInv
<1>3. /\ header[b].number \in Nat /\ header[b].line[header[b].number] = b
  BY DEF IInv, Lines
<1>4. /\ DOMAIN call' = Callers /\ \A q \in Callers \ {p} : call'[q] = call[q]
      /\ call'[p] = [pc |-> "walk", target |-> b, cur |-> b, snap |-> Invalid]
  BY DEF Begin, IInv, Calls
<1>5. OnLine(call[p])' /\ Applying(call[p])' /\ Answered(call[p])'
  BY <1>1, <1>3, <1>4 DEF OnLine, Applying, Answered, Block
<1>6. Calls'
  BY <1>1, <1>4, <1>5, OneCall
<1> QED
  BY <1>2, <1>6 DEF IInv

\* A walk that ends at cur with a sound snapshot of it.
LEMMA FoundStep ==
    ASSUME IInv, NEW p \in Callers, NEW s, Found(p, s),
           UNCHANGED <<header, truth>>, trusted' = {} => trusted = {},
           Sound(call[p].cur, s)'
    PROVE  Calls'
<1> DEFINE c == call[p]
<1>1. OnLine(c) /\ DOMAIN call = Callers
  BY DEF IInv, Calls
<1>2. /\ DOMAIN call' = Callers /\ \A q \in Callers \ {p} : call'[q] = call[q]
      /\ call'[p].pc = "apply" /\ call'[p].snap = s
      /\ call'[p].target = c.target /\ call'[p].cur = c.cur
  BY <1>1 DEF Found
<1>3. /\ c.target \in Block /\ c.cur \in Block
      /\ header[c.cur].number \in Root .. header[c.target].number
      /\ header[c.target].line[header[c.cur].number] = c.cur
  <2>1. c.target \in Block /\ c.cur \in Block
    BY <1>1 DEF OnLine
  <2>2. /\ header[c.target].number \in Nat /\ header[c.cur].number \in Nat
        /\ Root <= header[c.cur].number /\ Root \in Nat
    BY <2>1, StoreAssumption DEF IInv, Lines
  <2> QED
    BY <1>1, <2>1, <2>2 DEF OnLine
<1>4. Sound(c.cur, s)' /\ s.number = header[c.cur].number
  BY <1>2 DEF Sound
<1>5. OnLine(call[p])' /\ Applying(call[p])' /\ Answered(call[p])'
  BY <1>1, <1>2, <1>3, <1>4 DEF OnLine, Applying, Answered, Block, Sound
<1> QED
  BY <1>2, <1>5, OneCall

LEMMA WalkMemoryStep ==
    ASSUME IInv, NEW p \in Callers, WalkMemory(p) \/ WalkDisk(p)
    PROVE  IInv'
<1>1. UNCHANGED <<header, truth, head, memory, disk, trusted>>
  BY DEF WalkMemory, WalkDisk
<1>2. Ids' /\ Lines' /\ Sets' /\ Truths' /\ Forks' /\ Memory' /\ Disk'
  BY <1>1, TreeStable, StoresStable DEF IInv
<1>3. PICK s : Found(p, s) /\ Sound(call[p].cur, s)
  BY DEF WalkMemory, WalkDisk, OnDisk, IInv, Memory, Disk
<1>4. call'[p].cur = call[p].cur
  BY <1>3 DEF Found, IInv, Calls
<1>5. Sound(call[p].cur, s)'
  BY <1>1, <1>3, <1>4 DEF Sound
<1>6. Calls'
  BY <1>1, <1>3, <1>5, FoundStep
<1> QED
  BY <1>2, <1>6 DEF IInv

LEMMA WalkTrustStep ==
    ASSUME IInv, NEW p \in Callers, WalkTrust(p)
    PROVE  IInv'
<1> DEFINE cur == call[p].cur
           n == header[cur].number
           s == newSnapshot(n, header[cur].extra)
<1>1. UNCHANGED <<header, truth, head, memory>>
  BY DEF WalkTrust
<1>2. /\ n \in Nat /\ ByNumber(n) = cur /\ n % Epoch = 0
      /\ n = 0 => Root = 0 /\ cur = 0
  BY TrustedIsCurrent DEF WalkTrust
<1>3. /\ Found(p, s) /\ disk' = Put(disk, cur, s)
      /\ trusted' = IF n = 0 THEN trusted ELSE trusted \cup {cur}
  BY <1>2 DEF WalkTrust
<1>4. cur \in Block /\ call'[p].cur = cur
  BY <1>3 DEF IInv, Calls, OnLine, Found
<1>5. header[cur].extra = header[cur].set
  BY <1>2, <1>4 DEF IInv, Sets
<1>6. trusted' = {} => trusted = {} /\ n = 0
  BY <1>3
<1>7. n = 0 => s = truth[cur]
  BY <1>2 DEF IInv, Truths
<1>8. Sound(cur, s)'
  BY <1>1, <1>4, <1>5, <1>6, <1>7 DEF Sound, newSnapshot
<1>9. Ids' /\ Lines' /\ Sets' /\ Truths' /\ Forks' /\ Memory'
  BY <1>1, <1>6, TreeStable, StoresStable DEF IInv
<1>10. Calls'
  BY <1>1, <1>3, <1>6, <1>8, <1>4, FoundStep
<1>11. Disk'
  BY <1>1, <1>3, <1>4, <1>6, <1>8 DEF IInv, Disk, Put, Sound, Block
<1> QED
  BY <1>9, <1>10, <1>11 DEF IInv

LEMMA WalkBackStep ==
    ASSUME IInv, NEW p \in Callers, WalkBack(p)
    PROVE  IInv'
<1> DEFINE c == call[p]
           n == header[c.cur].number
           m == header[c.target].number
<1>1. UNCHANGED <<header, truth, head, memory, disk, trusted>>
  BY DEF WalkBack
<1>2. Ids' /\ Lines' /\ Sets' /\ Truths' /\ Forks' /\ Memory' /\ Disk'
  BY <1>1, TreeStable, StoresStable DEF IInv
<1>3. /\ c.pc = "walk" /\ c.target \in Block /\ c.cur \in Block /\ n <= m
      /\ header[c.target].line[n] = c.cur
  BY DEF WalkBack, IInv, Calls, OnLine
<1>4. n \in Nat /\ m \in Nat /\ Root \in Nat /\ Root <= n /\ n # Root
  BY <1>3, RootTrusted, StoreAssumption DEF WalkBack, IInv, Lines
<1>5. n > Root /\ n \in Root .. m /\ n - 1 \in Root .. m
  BY <1>3, <1>4
<1>6. header[c.cur].parent = header[c.target].line[n - 1]
  BY <1>3, <1>5 DEF IInv, Lines
<1>7. /\ header[c.cur].parent \in Block
      /\ header[header[c.cur].parent].number = n - 1
  <2>1. /\ header[c.target].line[n - 1] \in Block
        /\ header[header[c.target].line[n - 1]].number = n - 1
    BY <1>3, <1>5 DEF IInv, Lines
  <2> QED
    BY <1>6, <2>1
<1>8. /\ DOMAIN call' = Callers /\ \A q \in Callers \ {p} : call'[q] = call[q]
      /\ call'[p].pc = "walk" /\ call'[p].target = c.target
      /\ call'[p].cur = header[c.cur].parent
  BY <1>3 DEF WalkBack, IInv, Calls
<1>9. n - 1 <= m
  BY <1>3, <1>4
<1>10. OnLine(call[p])' /\ Applying(call[p])' /\ Answered(call[p])'
  BY <1>1, <1>3, <1>6, <1>7, <1>8, <1>9 DEF OnLine, Applying, Answered, Block
<1>11. Calls'
  BY <1>1, <1>8, <1>10, OneCall
<1> QED
  BY <1>2, <1>11 DEF IInv

\* The next header of a line and what its set and its truth come from.
LEMMA NextOnLine ==
    ASSUME IInv, NEW t \in Block, NEW k \in Root .. header[t].number,
           k < header[t].number
    PROVE  LET a == header[t].line[k]
               b == header[t].line[k + 1]
           IN  /\ a \in Block /\ b \in Block
               /\ header[a].number = k /\ header[b].number = k + 1
               /\ k + 1 \in Root .. header[t].number
               /\ header[b].set = IF IsEpoch(k + 1) THEN header[b].extra
                                  ELSE header[a].set
               /\ truth[b] = Extended(truth[a], header[b])
               /\ truth[b] = Invalid => truth[t] = Invalid
<1> DEFINE a == header[t].line[k]
           b == header[t].line[k + 1]
<1>1. /\ header[t].number \in Nat /\ Root \in Nat /\ k \in Nat
      /\ k + 1 \in Root .. header[t].number /\ k + 1 > Root
      /\ (k + 1) - 1 = k
  BY StoreAssumption DEF IInv, Lines
<1>2. a \in Block /\ header[a].number = k
  BY DEF IInv, Lines
<1>3. b \in Block /\ header[b].number = k + 1
  BY <1>1 DEF IInv, Lines
<1>4. header[b].parent = a
  <2>1. header[b].parent = header[t].line[(k + 1) - 1]
    BY <1>1 DEF IInv, Lines
  <2> QED
    BY <1>1, <2>1
<1>5. header[b].set = IF IsEpoch(k + 1) THEN header[b].extra ELSE header[a].set
  BY <1>1, <1>3, <1>4 DEF IInv, Sets
<1>6. truth[b] = Extended(truth[a], header[b])
  BY <1>1, <1>3, <1>4 DEF IInv, Truths
<1>7. truth[b] = Invalid => truth[t] = Invalid
  BY <1>1 DEF IInv, Truths
<1> QED
  BY <1>1, <1>2, <1>3, <1>5, <1>6, <1>7

\* What the two outcomes of apply leave of a call.
LEMMA Advanced ==
    ASSUME DOMAIN call = Callers, NEW p \in Callers, NEW x,
           call' = [call EXCEPT ![p].snap = x]
    PROVE  /\ call'[p].pc = call[p].pc /\ call'[p].snap = x
           /\ call'[p].target = call[p].target /\ call'[p].cur = call[p].cur
OBVIOUS

LEMMA Refused ==
    ASSUME DOMAIN call = Callers, NEW p \in Callers, NEW x,
           call' = [call EXCEPT ![p].pc = "done", ![p].snap = x]
    PROVE  /\ call'[p].pc = "done" /\ call'[p].snap = x
           /\ call'[p].target = call[p].target /\ call'[p].cur = call[p].cur
OBVIOUS

LEMMA ApplyHeaderStep ==
    ASSUME IInv, NEW p \in Callers, ApplyHeader(p)
    PROVE  IInv'
<1> DEFINE c == call[p]
           s == c.snap
           k == s.number
           a == header[c.target].line[k]
           b == header[c.target].line[k + 1]
<1>1. UNCHANGED <<header, truth, head, memory, disk, trusted>>
  BY DEF ApplyHeader
<1>2. Ids' /\ Lines' /\ Sets' /\ Truths' /\ Forks' /\ Memory' /\ Disk'
  BY <1>1, TreeStable, StoresStable DEF IInv
<1>3. /\ c.pc = "apply" /\ OnLine(c) /\ c.target \in Block
      /\ k \in Root .. header[c.target].number /\ k < header[c.target].number
      /\ Sound(a, s)
  BY DEF ApplyHeader, IInv, Calls, OnLine, Applying
<1>4. /\ b \in Block /\ header[b].number = k + 1
      /\ k + 1 \in Root .. header[c.target].number
      /\ header[b].set = IF IsEpoch(k + 1) THEN header[b].extra ELSE header[a].set
      /\ truth[b] = Extended(truth[a], header[b])
      /\ truth[b] = Invalid => truth[c.target] = Invalid
  BY <1>3, NextOnLine
<1>5. DOMAIN call' = Callers /\ \A q \in Callers \ {p} : call'[q] = call[q]
  BY DEF ApplyHeader, IInv, Calls
<1>6. Root \in Nat /\ k \in Nat
  BY <1>3, StoreAssumption
<1>7. s # Invalid
  BY <1>6 DEF Invalid
<1>8. /\ DOMAIN call = Callers
       /\ call' = IF ApplyOK(s, header[b])
                  THEN [call EXCEPT ![p].snap = Apply(s, header[b])]
                  ELSE [call EXCEPT ![p].pc = "done", ![p].snap = Invalid]
  BY DEF ApplyHeader, IInv, Calls
<1>9. CASE ApplyOK(s, header[b])
  <2>1. /\ call'[p].pc = "apply" /\ call'[p].snap = Apply(s, header[b])
        /\ call'[p].target = c.target /\ call'[p].cur = c.cur
    <3>1. call' = [call EXCEPT ![p].snap = Apply(s, header[b])]
      BY <1>8, <1>9
    <3> QED
      BY <1>3, <1>8, <3>1, Advanced
  <2>2. /\ Apply(s, header[b]).number = k + 1
        /\ Apply(s, header[b]).validators = header[b].set
    BY <1>3, <1>4 DEF Apply, Sound
  <2>3. trusted = {} => Apply(s, header[b]) = truth[b]
    BY <1>3, <1>4, <1>7, <1>9 DEF Sound, Extended
  <2>4. Sound(b, Apply(s, header[b]))
    BY <1>4, <2>2, <2>3 DEF Sound
  <2>5. OnLine(call[p])' /\ Applying(call[p])' /\ Answered(call[p])'
    BY <1>1, <1>3, <1>4, <2>1, <2>2, <2>4 DEF OnLine, Applying, Answered, Block, Sound
  <2> QED
    BY <1>1, <1>2, <1>5, <2>5, OneCall DEF IInv
<1>10. CASE ~ ApplyOK(s, header[b])
  <2>1. /\ call'[p].pc = "done" /\ call'[p].snap = Invalid
        /\ call'[p].target = c.target /\ call'[p].cur = c.cur
    <3>1. call' = [call EXCEPT ![p].pc = "done", ![p].snap = Invalid]
      BY <1>8, <1>10
    <3> QED
      BY <1>8, <3>1, Refused
  <2>2. trusted = {} => truth[c.target] = Invalid
    BY <1>3, <1>4, <1>10 DEF Sound, Extended
  <2>3. OnLine(call[p])' /\ Applying(call[p])' /\ Answered(call[p])'
    BY <1>1, <1>3, <2>1, <2>2 DEF OnLine, Applying, Answered, Block
  <2> QED
    BY <1>1, <1>2, <1>5, <2>3, OneCall DEF IInv
<1> QED
  BY <1>9, <1>10

\* The snapshot of a call that has applied all its headers is its block's.
LEMMA Applied ==
    ASSUME IInv, NEW p \in Callers, call[p].pc \in {"apply", "store"},
           call[p].snap.number = header[call[p].target].number
    PROVE  Sound(call[p].target, call[p].snap) /\ call[p].target \in Block
<1>1. call[p].target \in Block
  BY DEF IInv, Calls, OnLine
<1>2. header[call[p].target].line[header[call[p].target].number] = call[p].target
  BY <1>1 DEF IInv, Lines
<1> QED
  BY <1>1, <1>2 DEF IInv, Calls, Applying

LEMMA AddRecentStep ==
    ASSUME IInv, NEW p \in Callers, AddRecent(p)
    PROVE  IInv'
<1> DEFINE c == call[p]
           m == Put(memory, c.target, c.snap)
<1>1. UNCHANGED <<header, truth, head, disk, trusted>>
  BY DEF AddRecent
<1>2. Ids' /\ Lines' /\ Sets' /\ Truths' /\ Forks' /\ Disk'
  BY <1>1, TreeStable, StoresStable DEF IInv
<1>3. Sound(c.target, c.snap) /\ c.target \in Block
  BY Applied DEF AddRecent
<1>4. DOMAIN m \subseteq Block /\ \A b \in DOMAIN m : Sound(b, m[b])
  BY <1>3, PutSound DEF IInv, Memory
<1>5. /\ DOMAIN memory' \subseteq DOMAIN m
      /\ \A b \in DOMAIN memory' : memory'[b] = m[b]
  <2>1. CASE memory' = m
    BY <2>1
  <2>2. CASE \E b \in DOMAIN memory : memory' = Restrict(m, (DOMAIN m) \ {b})
    BY <2>2 DEF Restrict
  <2> QED
    BY <2>1, <2>2 DEF AddRecent
<1>6. Memory'
  BY <1>1, <1>4, <1>5 DEF Memory, Sound, Block
<1>7. /\ DOMAIN call' = Callers /\ \A q \in Callers \ {p} : call'[q] = call[q]
      /\ call'[p].pc = "store" /\ call'[p].snap = c.snap
      /\ call'[p].target = c.target /\ call'[p].cur = c.cur
  BY DEF AddRecent, IInv, Calls
<1>8. OnLine(c) /\ Applying(c) /\ c.pc = "apply"
      /\ c.snap.number = header[c.target].number
  BY DEF AddRecent, IInv, Calls
<1>9. OnLine(call[p])' /\ Applying(call[p])' /\ Answered(call[p])'
  BY <1>1, <1>7, <1>8 DEF OnLine, Applying, Answered, Block, Sound
<1>10. Calls'
  BY <1>1, <1>7, <1>9, OneCall
<1> QED
  BY <1>2, <1>6, <1>10 DEF IInv

LEMMA StoreStep ==
    ASSUME IInv, NEW p \in Callers, Store(p)
    PROVE  IInv'
<1> DEFINE c == call[p]
<1>1. UNCHANGED <<header, truth, head, memory, trusted>>
  BY DEF Store
<1>2. Ids' /\ Lines' /\ Sets' /\ Truths' /\ Forks' /\ Memory'
  BY <1>1, TreeStable, StoresStable DEF IInv
<1>3. c.pc = "store" /\ OnLine(c) /\ Applying(c)
  BY DEF Store, IInv, Calls
<1>4. Sound(c.target, c.snap) /\ c.target \in Block
  BY <1>3, Applied DEF Applying
<1>5. Disk'
  <2>1. /\ DOMAIN Put(disk, c.target, c.snap) \subseteq Block
        /\ \A b \in DOMAIN Put(disk, c.target, c.snap) :
              Sound(b, Put(disk, c.target, c.snap)[b])
    BY <1>4, PutSound DEF IInv, Disk
  <2>2. disk' = disk \/ disk' = Put(disk, c.target, c.snap)
    BY DEF Store
  <2> QED
    BY <1>1, <2>1, <2>2 DEF IInv, Disk, Sound, Block
<1>6. /\ DOMAIN call' = Callers /\ \A q \in Callers \ {p} : call'[q] = call[q]
      /\ call'[p].pc = "done" /\ call'[p].snap = c.snap
      /\ call'[p].target = c.target /\ call'[p].cur = c.cur
  BY <1>3 DEF Store, IInv, Calls
<1>7. c.snap # Invalid
  <2>1. header[c.target].number \in Nat /\ c.snap.number = header[c.target].number
    BY <1>4 DEF IInv, Lines, Sound
  <2> QED
    BY <2>1 DEF Invalid
<1>8. OnLine(call[p])' /\ Applying(call[p])' /\ Answered(call[p])'
  BY <1>1, <1>3, <1>4, <1>6, <1>7 DEF OnLine, Applying, Answered, Block, Sound
<1>9. Calls'
  BY <1>1, <1>6, <1>8, OneCall
<1> QED
  BY <1>2, <1>5, <1>9 DEF IInv

LEMMA CrashStep ==
    ASSUME IInv, Crash \/ Reinit
    PROVE  IInv'
<1>1. /\ UNCHANGED <<header, truth, head, trusted>>
      /\ memory' = EmptyWindow /\ call' = [p \in Callers |-> Idle]
      /\ disk' \in {disk, EmptyWindow}
  BY DEF Crash, Reinit
<1>2. Ids' /\ Lines' /\ Sets' /\ Truths' /\ Forks'
  BY <1>1, TreeStable
<1>3. Memory' /\ Disk'
  BY <1>1 DEF IInv, Memory, Disk, EmptyWindow, Sound, Block
<1>4. 0 \in Block /\ header[0].line[header[0].number] = 0
      /\ header[0].number \in Nat
  BY DEF IInv, Ids, Lines
<1>5. Calls'
  BY <1>1, <1>4 DEF Calls, Idle, OnLine, Applying, Answered, Block
<1> QED
  BY <1>2, <1>3, <1>5 DEF IInv

-----------------------------------------------------------------------------
(* A new block *)

\* What Import adds to the tree.
NewBlock(p, b, h) ==
    LET parent == call[p].target
    IN  /\ parent \in Block
        /\ b \notin Block
        /\ h.number = header[parent].number + 1
        /\ h.parent = parent
        /\ h.line = Put(header[parent].line, h.number, b)
        /\ h.set = IF IsEpoch(h.number) THEN h.extra ELSE header[parent].set
        /\ header' = Put(header, b, h)
        /\ truth' = Put(truth, b, Extended(truth[parent], h))
        /\ Joins(h.line, h.number)
        /\ head' \in {head, b}
        /\ Leads(head)'
        /\ UNCHANGED <<memory, disk, call, trusted>>

LEMMA ImportIsNew ==
    ASSUME IInv, NEW p \in Callers, NEW v, NEW top, Import(p, v, top)
    PROVE  \E b, h : /\ NewBlock(p, b, h) /\ Ids'
                     /\ VerifySeal(call[p].snap, h)
                     /\ IsEpoch(h.number) => h.extra = top
<1>1. PICK N \in Nat \ {0} : Block = 0 .. N - 1
  BY DEF IInv, Ids
<1>2. Cardinality(Block) = N
  <2>1. Cardinality(0 .. N - 1) = IF 0 > N - 1 THEN 0 ELSE (N - 1) - 0 + 1
    BY FS_Interval
  <2> QED
    BY <1>1, <2>1
<1> DEFINE parent == call[p].target
           n == header[parent].number + 1
           h == [number |-> n, parent |-> parent, signer |-> v,
                 difficulty |-> CalcDifficulty(call[p].snap, v),
                 extra |-> IF IsEpoch(n) THEN top ELSE {},
                 set |-> IF IsEpoch(n) THEN top ELSE header[parent].set,
                 line |-> Put(header[parent].line, n, Cardinality(Block))]
<1>3. /\ header' = Put(header, Cardinality(Block), h)
      /\ truth' = Put(truth, Cardinality(Block), Extended(truth[parent], h))
      /\ Joins(h.line, n) /\ head' \in {head, Cardinality(Block)} /\ Leads(head)'
      /\ UNCHANGED <<memory, disk, call, trusted>>
      /\ VerifySeal(call[p].snap, h)
  BY DEF Import
<1>4. parent \in Block
  BY DEF IInv, Calls, OnLine
<1>5. N \notin Block /\ Block' = 0 .. (N + 1) - 1
  <2>1. Block' = Block \cup {N}
    BY <1>2, <1>3 DEF Block, Put
  <2> QED
    BY <1>1, <2>1
<1>6. Ids'
  BY <1>1, <1>5 DEF Ids
<1> HIDE DEF n
<1>7. /\ h.number = n /\ h.parent = parent
      /\ h.line = Put(header[parent].line, n, N)
      /\ h.set = IF IsEpoch(n) THEN h.extra ELSE header[parent].set
  BY <1>2
<1>8. NewBlock(p, N, h)
  BY <1>2, <1>3, <1>4, <1>5, <1>7 DEF NewBlock, n
<1>9. IsEpoch(h.number) => h.extra = top
  OBVIOUS
<1> QED
  BY <1>3, <1>6, <1>8, <1>9

\* The blocks of before are unchanged, the new one ends a line of its own.
LEMMA NewLines ==
    ASSUME IInv, NEW p \in Callers, NEW b, NEW h, NewBlock(p, b, h)
    PROVE  LET parent == call[p].target
           IN  /\ Block' = Block \cup {b}
               /\ \A c \in Block : header'[c] = header[c] /\ truth'[c] = truth[c]
               /\ header'[b] = h
               /\ truth'[b] = Extended(truth[parent], h)
               /\ h.number \in Nat /\ h.number > Root
               /\ header[parent].number \in Root .. h.number
               /\ DOMAIN h.line = Root .. h.number
               /\ h.line[h.number] = b
               /\ \A k \in Root .. h.number : k # h.number =>
                     /\ k \in Root .. header[parent].number
                     /\ h.line[k] = header[parent].line[k]
                     /\ h.line[k] \in Block
                     /\ header[h.line[k]].number = k
<1> DEFINE parent == call[p].target
           n == header[parent].number
<1>1. parent \in Block /\ b \notin Block /\ h.number = n + 1
  BY DEF NewBlock
<1>2. /\ Block' = Block \cup {b} /\ header'[b] = h
      /\ \A c \in Block : header'[c] = header[c]
  BY <1>1 DEF NewBlock, Block, Put
<1>3. DOMAIN truth = Block
  BY DEF IInv, Truths
<1>4. /\ \A c \in Block : truth'[c] = truth[c]
      /\ truth'[b] = Extended(truth[parent], h)
  BY <1>1, <1>3 DEF NewBlock, Put
<1>5. /\ n \in Nat /\ Root <= n /\ Root \in Nat
      /\ DOMAIN header[parent].line = Root .. n
  BY <1>1, StoreAssumption DEF IInv, Lines
<1>6. h.line = [k \in (DOMAIN header[parent].line) \cup {h.number} |->
                  IF k = h.number THEN b ELSE header[parent].line[k]]
  BY DEF NewBlock, Put
<1>7. (Root .. n) \cup {h.number} = Root .. h.number
  BY <1>1, <1>5
<1>8. DOMAIN h.line = Root .. h.number /\ h.line[h.number] = b
  BY <1>5, <1>6, <1>7
<1>9. ASSUME NEW k \in Root .. h.number, k # h.number
      PROVE  k \in Root .. n /\ h.line[k] = header[parent].line[k]
  BY <1>1, <1>5, <1>6, <1>7, <1>9
<1>10. ASSUME NEW k \in Root .. h.number, k # h.number
       PROVE  h.line[k] \in Block /\ header[h.line[k]].number = k
  BY <1>1, <1>9, <1>10 DEF IInv, Lines
<1>11. h.number \in Nat /\ h.number > Root /\ n \in Root .. h.number
  BY <1>1, <1>5
<1> QED
  BY <1>2, <1>4, <1>8, <1>9, <1>10, <1>11

LEMMA ImportLines ==
    ASSUME IInv, NEW p \in Callers, NEW b, NEW h, NewBlock(p, b, h)
    PROVE  Lines'
<1> DEFINE parent == call[p].target
<1>1. /\ Block' = Block \cup {b} /\ \A c \in Block : header'[c] = header[c]
      /\ header'[b] = h /\ h.number \in Nat /\ h.number > Root
      /\ DOMAIN h.line = Root .. h.number /\ h.line[h.number] = b
      /\ \A k \in Root .. h.number : k # h.number =>
            /\ k \in Root .. header[parent].number
            /\ h.line[k] = header[parent].line[k]
            /\ h.line[k] \in Block
            /\ header[h.line[k]].number = k
  BY NewLines
<1>2. /\ parent \in Block /\ b \notin Block /\ h.parent = parent
      /\ h.number = header[parent].number + 1
  BY DEF NewBlock
<1>3. /\ header[parent].number \in Nat /\ Root \in Nat
      /\ Root <= header[parent].number
      /\ header[parent].line[header[parent].number] = parent
  BY <1>2, StoreAssumption DEF IInv, Lines
<1>4. ASSUME NEW k \in Root .. h.number
      PROVE  /\ h.line[k] \in Block'
             /\ header'[h.line[k]].number = k
             /\ k > Root => header'[h.line[k]].parent = h.line[k - 1]
  <2>1. CASE k = h.number
    <3>1. k - 1 = header[parent].number /\ k - 1 \in Root .. h.number /\ k - 1 # h.number
      BY <1>1, <1>2, <1>3, <2>1
    <3>2. h.line[k - 1] = parent
      BY <1>1, <1>3, <3>1
    <3> QED
      BY <1>1, <1>2, <2>1, <3>2
  <2>2. CASE k # h.number
    <3>1. k \in Root .. header[parent].number /\ h.line[k] = header[parent].line[k]
          /\ h.line[k] \in Block /\ header[h.line[k]].number = k
      BY <1>1, <2>2
    <3>2. ASSUME k > Root PROVE header[h.line[k]].parent = h.line[k - 1]
      <4>1. header[h.line[k]].parent = header[parent].line[k - 1]
        BY <1>2, <3>1, <3>2 DEF IInv, Lines
      <4>2. k - 1 \in Root .. h.number /\ k - 1 # h.number
        BY <1>1, <1>3, <3>2
      <4> QED
        BY <1>1, <4>1, <4>2
    <3> QED
      BY <1>1, <3>1, <3>2
  <2> QED
    BY <2>1, <2>2
<1>5. ASSUME NEW c \in Block, NEW k \in Root .. header[c].number
      PROVE  /\ header[c].line[k] \in Block'
             /\ header'[header[c].line[k]].number = k
             /\ k > Root => header'[header[c].line[k]].parent = header[c].line[k - 1]
  <2>1. /\ header[c].line[k] \in Block
        /\ header[header[c].line[k]].number = k
        /\ k > Root => header[header[c].line[k]].parent = header[c].line[k - 1]
    BY DEF IInv, Lines
  <2> QED
    BY <1>1, <2>1
<1>6. ASSUME NEW c \in Block'
      PROVE  /\ header'[c].number \in Nat
             /\ Root <= header'[c].number
             /\ header'[c].number = Root => c = 0
             /\ DOMAIN header'[c].line = Root .. header'[c].number
             /\ header'[c].line[header'[c].number] = c
             /\ \A k \in Root .. header'[c].number :
                   /\ header'[c].line[k] \in Block'
                   /\ header'[header'[c].line[k]].number = k
                   /\ k > Root =>
                        header'[header'[c].line[k]].parent = header'[c].line[k - 1]
  <2>1. CASE c = b
    BY <1>1, <1>3, <1>4, <2>1
  <2>2. CASE c \in Block
    <3>1. /\ header[c].number \in Nat
          /\ Root <= header[c].number
          /\ header[c].number = Root => c = 0
          /\ DOMAIN header[c].line = Root .. header[c].number
          /\ header[c].line[header[c].number] = c
      BY <2>2 DEF IInv, Lines
    <3> QED
      BY <1>1, <1>5, <2>2, <3>1
  <2> QED
    BY <1>1, <2>1, <2>2
<1> QED
  BY <1>6 DEF Lines

LEMMA ImportSets ==
    ASSUME IInv, NEW p \in Callers, NEW b, NEW h, NewBlock(p, b, h)
    PROVE  Sets' /\ Truths'
<1> DEFINE parent == call[p].target
<1>1. /\ Block' = Block \cup {b}
      /\ \A c \in Block : header'[c] = header[c] /\ truth'[c] = truth[c]
      /\ header'[b] = h /\ h.number \in Nat /\ h.number > Root
      /\ truth'[b] = Extended(truth[parent], h)
      /\ h.line[h.number] = b
      /\ \A k \in Root .. h.number : k # h.number =>
            /\ k \in Root .. header[parent].number
            /\ h.line[k] = header[parent].line[k]
            /\ h.line[k] \in Block
  BY NewLines
<1>2. /\ parent \in Block /\ b \notin Block /\ h.parent = parent
      /\ h.set = IF IsEpoch(h.number) THEN h.extra ELSE header[parent].set
      /\ DOMAIN truth' = (DOMAIN truth) \cup {b}
  BY DEF NewBlock, Put
<1>3. ASSUME NEW c \in Block, header[c].number > Root
      PROVE  header[c].parent \in Block
  <2>1. /\ header[c].number \in Root .. header[c].number
        /\ header[c].number - 1 \in Root .. header[c].number
        /\ header[c].line[header[c].number] = c
    BY <1>3, StoreAssumption DEF IInv, Lines
  <2>2. header[c].parent = header[c].line[header[c].number - 1]
    BY <1>3, <2>1 DEF IInv, Lines
  <2> QED
    BY <2>1, <2>2 DEF IInv, Lines
<1>4. h.number > 0
  BY <1>1, StoreAssumption
<1>5. Sets'
  <2>1. ASSUME NEW c \in Block'
        PROVE  /\ header'[c].number % Epoch = 0 => header'[c].extra = header'[c].set
               /\ header'[c].number > Root =>
                     header'[c].set = IF IsEpoch(header'[c].number)
                                      THEN header'[c].extra
                                      ELSE header'[header'[c].parent].set
    <3>1. CASE c = b
      BY <1>1, <1>2, <1>4, <3>1 DEF IsEpoch
    <3>2. CASE c \in Block
      BY <1>1, <1>3, <3>2 DEF IInv, Sets
    <3> QED
      BY <1>1, <3>1, <3>2
  <2> QED
    BY <2>1 DEF Sets
<1>6. Truths'
  <2>1. DOMAIN truth' = Block'
    BY <1>1, <1>2 DEF IInv, Truths
  <2>2. 0 \in Block
    BY DEF IInv, Ids
  <2>3. Root = 0 => truth'[0] = newSnapshot(0, header'[0].extra)
    BY <1>1, <2>2 DEF IInv, Truths
  <2>4. ASSUME NEW c \in Block', header'[c].number > Root
        PROVE  truth'[c] = Extended(truth'[header'[c].parent], header'[c])
    <3>1. CASE c = b
      BY <1>1, <1>2, <3>1
    <3>2. CASE c \in Block
      BY <1>1, <1>3, <2>4, <3>2 DEF IInv, Truths
    <3> QED
      BY <1>1, <3>1, <3>2
  <2>5. ASSUME NEW c \in Block', NEW k \in Root .. header'[c].number,
               truth'[header'[c].line[k]] = Invalid
        PROVE  truth'[c] = Invalid
    <3>1. CASE c = b /\ k = h.number
      BY <1>1, <2>5, <3>1
    <3>2. CASE c = b /\ k # h.number
      <4>1. /\ k \in Root .. header[parent].number
            /\ truth[header[parent].line[k]] = Invalid
        BY <1>1, <2>5, <3>2
      <4>2. truth[parent] = Invalid
        BY <1>2, <4>1 DEF IInv, Truths
      <4> QED
        BY <1>1, <3>2, <4>2 DEF Extended
    <3>3. CASE c \in Block
      <4>1. header[c].line[k] \in Block /\ k \in Root .. header[c].number
        BY <1>1, <3>3 DEF IInv, Lines
      <4> QED
        BY <1>1, <2>5, <3>3, <4>1 DEF IInv, Truths
    <3> QED
      BY <1>1, <3>1, <3>2, <3>3
  <2> QED
    BY <2>1, <2>3, <2>4, <2>5 DEF Truths
<1> QED
  BY <1>5, <1>6

LEMMA ImportForks ==
    ASSUME IInv, NEW p \in Callers, NEW b, NEW h, NewBlock(p, b, h)
    PROVE  Forks'
<1>1. /\ Block' = Block \cup {b} /\ \A c \in Block : header'[c] = header[c]
      /\ header'[b] = h /\ h.number \in Nat
      /\ DOMAIN h.line = Root .. h.number
  BY NewLines
<1>2. Joins(h.line, h.number) /\ head' \in Block' /\ Leads(head)'
  BY <1>1 DEF NewBlock, IInv, Forks
<1>3. \A c \in Block' : header'[c].number <= header'[head'].number + MaxReorg
  BY <1>2 DEF Leads
<1>4. ASSUME NEW c \in Block, NEW k \in Int,
             k >= Root, k <= h.number, k <= header[c].number,
             k + MaxReorg <= h.number, k + MaxReorg <= header[c].number
      PROVE  h.line[k] = header[c].line[k]
  <2>1. DOMAIN header[c].line = Root .. header[c].number
        /\ header[c].number \in Nat /\ Root \in Nat
    BY StoreAssumption DEF IInv, Lines
  <2>2. k \in (DOMAIN h.line) \cap (DOMAIN header[c].line)
    BY <1>1, <1>4, <2>1
  <2> QED
    BY <1>2, <1>4, <2>2 DEF Joins
<1>5. ASSUME NEW c \in Block', NEW d \in Block', NEW k \in Root .. header'[c].number,
             k + MaxReorg <= header'[c].number, k + MaxReorg <= header'[d].number
      PROVE  header'[c].line[k] = header'[d].line[k]
  <2>1. /\ header'[c].number \in Nat /\ header'[d].number \in Nat
        /\ Root \in Nat /\ MaxReorg \in Nat
    BY <1>1, StoreAssumption DEF IInv, Lines
  <2>2. k \in Int /\ k >= Root /\ k <= header'[c].number /\ k <= header'[d].number
    BY <1>5, <2>1
  <2>3. CASE c \in Block /\ d \in Block
    BY <1>1, <1>5, <2>3 DEF IInv, Forks
  <2>4. CASE c = b /\ d \in Block
    BY <1>1, <1>4, <1>5, <2>2, <2>4
  <2>5. CASE c \in Block /\ d = b
    BY <1>1, <1>4, <1>5, <2>2, <2>5
  <2> QED
    BY <1>1, <2>3, <2>4, <2>5
<1> QED
  BY <1>2, <1>3, <1>5 DEF Forks

\* What the calls and the stores hold stays sound: the blocks they are about are
\* the old ones.
LEMMA ImportHeld ==
    ASSUME IInv, NEW p \in Callers, NEW b, NEW h, NewBlock(p, b, h)
    PROVE  Calls' /\ Memory' /\ Disk'
<1>1. /\ Block \subseteq Block'
      /\ \A c \in Block : header'[c] = header[c] /\ truth'[c] = truth[c]
  BY NewLines
<1>2. UNCHANGED <<memory, disk, call, trusted>>
  BY DEF NewBlock
<1>3. ASSUME NEW c \in Block, NEW s, Sound(c, s)
      PROVE  /\ s.number = header'[c].number
             /\ s.validators = header'[c].set
             /\ trusted' = {} => s = truth'[c]
  BY <1>1, <1>2, <1>3 DEF Sound
<1>4. Memory' /\ Disk'
  BY <1>1, <1>2, <1>3 DEF IInv, Memory, Disk, Sound
<1>5. ASSUME NEW q \in Callers
      PROVE  OnLine(call[q])' /\ Applying(call[q])' /\ Answered(call[q])'
  <2> DEFINE c == call[q]
  <2>1. OnLine(c) /\ Applying(c) /\ Answered(c) /\ call'[q] = c
    BY <1>2 DEF IInv, Calls
  <2>2. c.target \in Block /\ c.cur \in Block
    BY <2>1 DEF OnLine
  <2>3. \A k \in Root .. header[c.target].number : header[c.target].line[k] \in Block
    BY <2>2 DEF IInv, Lines
  <2>4. OnLine(call[q])'
    BY <1>1, <2>1, <2>2 DEF OnLine
  <2>5. Applying(call[q])'
    <3>1. ASSUME c.pc \in {"apply", "store"}
          PROVE  /\ c.snap.number \in Root .. header'[c.target].number
                 /\ Sound(header[c.target].line[c.snap.number], c.snap)
                 /\ header[c.target].line[c.snap.number] \in Block
                 /\ header'[c.target] = header[c.target]
      BY <1>1, <2>1, <2>2, <2>3, <3>1 DEF Applying
    <3>2. ASSUME c.pc \in {"apply", "store"}
          PROVE  LET x == header[c.target].line[c.snap.number]
                 IN  /\ c.snap.number = header'[x].number
                     /\ c.snap.validators = header'[x].set
                     /\ trusted' = {} => c.snap = truth'[x]
      BY <1>3, <3>1, <3>2
    <3>3. c.pc = "store" => c.snap.number = header'[c.target].number
      BY <1>1, <2>1, <2>2 DEF Applying
    <3> QED
      BY <2>1, <3>1, <3>2, <3>3 DEF Applying, Sound
  <2>6. Answered(call[q])'
    BY <1>1, <1>2, <1>3, <2>1, <2>2 DEF Answered, Sound
  <2> QED
    BY <2>4, <2>5, <2>6
<1>6. Calls'
  BY <1>2, <1>5 DEF IInv, Calls
<1> QED
  BY <1>4, <1>6

LEMMA ImportStep ==
    ASSUME IInv, NEW p \in Callers, NEW v, NEW top, Import(p, v, top)
    PROVE  IInv'
<1>1. PICK b, h : NewBlock(p, b, h) /\ Ids'
  BY ImportIsNew
<1> QED
  BY <1>1, ImportLines, ImportSets, ImportForks, ImportHeld DEF IInv

-----------------------------------------------------------------------------
LEMMA NextIInv == IInv /\ [Next]_vars => IInv'
<1> SUFFICES ASSUME IInv, [Next]_vars PROVE IInv'
  OBVIOUS
<1>1. ASSUME NEW p \in Callers, NEW b \in Block, Begin(p, b) PROVE IInv'
  BY <1>1, BeginStep
<1>2. ASSUME NEW p \in Callers, WalkMemory(p) \/ WalkDisk(p) PROVE IInv'
  BY <1>2, WalkMemoryStep
<1>3. ASSUME NEW p \in Callers, WalkTrust(p) PROVE IInv'
  BY <1>3, WalkTrustStep
<1>4. ASSUME NEW p \in Callers, WalkBack(p) PROVE IInv'
  BY <1>4, WalkBackStep
<1>5. ASSUME NEW p \in Callers, ApplyHeader(p) PROVE IInv'
  BY <1>5, ApplyHeaderStep
<1>6. ASSUME NEW p \in Callers, AddRecent(p) PROVE IInv'
  BY <1>6, AddRecentStep
<1>7. ASSUME NEW p \in Callers, Store(p) PROVE IInv'
  BY <1>7, StoreStep
<1>8. ASSUME NEW p \in Callers, NEW v, NEW top, Import(p, v, top) PROVE IInv'
  BY <1>8, ImportStep
<1>9. CASE Crash \/ Reinit
  BY <1>9, CrashStep
<1>10. CASE UNCHANGED vars
  <2>1. UNCHANGED <<header, truth, head, memory, disk, call, trusted>>
    BY <1>10 DEF vars
  <2>2. Ids' /\ Lines' /\ Sets' /\ Truths' /\ Forks' /\ Memory' /\ Disk'
    BY <2>1, TreeStable, StoresStable DEF IInv
  <2>3. Calls'
    BY <2>1 DEF IInv, Calls, OnLine, Applying, Answered, Sound, Block
  <2> QED
    BY <2>2, <2>3 DEF IInv
<1> QED
  BY <1>1, <1>2, <1>3, <1>4, <1>5, <1>6, <1>7, <1>8, <1>9, <1>10 DEF Next

\* Whatever concurrent calls of snapshot, evictions, crashes and reorganisations
\* do, every snapshot in the cache, on disk and in an answer belongs to the block
\* it is filed under, for any tree, epoch, interval and immutability threshold
\* that exceeds the forks and the window.
THEOREM SnapshotsAreSound == Spec => []HeldSound
<1>1. IInv => HeldSound
  BY DEF IInv, HeldSound, Memory, Disk, Calls, Answered
<1> QED
  BY <1>1, InitIInv, NextIInv, PTL DEF Spec

-----------------------------------------------------------------------------
(***************************************************************************)
(* The refinement.  A trusted header at m starts with an empty window, so  *)
(* what is applied on top of it is the true snapshot without the entries   *)
(* up to m, and is whole again when the window has passed m: before the    *)
(* next epoch, hence before any cleanup, and far below the blocks that may *)
(* still be built on.                                                      *)
(***************************************************************************)

\* s is t without the entries of its window up to m.
Above(s, t, m) ==
    /\ s.number = t.number
    /\ s.validators = t.validators
    /\ DOMAIN s.recents = {k \in DOMAIN t.recents : k > m}
    /\ \A k \in DOMAIN s.recents : s.recents[k] = t.recents[k]

Buried(m) == \E c \in Block : m + FullImmutabilityThreshold < header[c].number

\* s was computed for block b from the header trusted at m, whose window has
\* not passed m yet.
Cut(b, s, m) ==
    /\ m \in Nat /\ m % Epoch = 0 /\ Buried(m)
    /\ m <= header[b].number
    /\ header[b].number < m + Limit(header[b].set)
    /\ truth[b] # Invalid => Above(s, truth[b], m)

Fits(b, s) == s = truth[b] \/ \E m : Cut(b, s, m)

\* Some block is highest.
Highest == \E c \in Block : \A d \in Block : header[d].number <= header[c].number

\* True snapshots are well formed, and only a block apply accepts is built on.
TruthForm ==
    \A b \in Block :
        /\ header[b].set \in ValidatorSets
        /\ truth[b] # Invalid => /\ WellFormed(truth[b])
                                 /\ truth[b].number = header[b].number
                                 /\ truth[b].validators = header[b].set
        /\ header[b].number > Root => truth[header[b].parent] # Invalid

FitCall(c) ==
    /\ c.pc \in {"apply", "store"} => Fits(header[c.target].line[c.snap.number], c.snap)
    /\ c.pc = "done" => Fits(c.target, c.snap)

HeldFits ==
    /\ \A p \in Callers : FitCall(call[p])
    /\ \A b \in DOMAIN memory : Fits(b, memory[b])
    /\ \A b \in DOMAIN disk : Fits(b, disk[b])

RInv == Highest /\ TruthForm /\ HeldFits

-----------------------------------------------------------------------------
(* Windows *)

\* Limits of the sets in use.
LEMMA SetLimit ==
    ASSUME NEW V \in ValidatorSets
    PROVE  Limit(V) \in Nat \ {0} /\ Limit(V) <= MaxLimit /\ V \in (SUBSET Address) \ {{}}
BY LimitType, StoreAssumption, ImmutableAssumption

\* The entry a block shifts out is the same one.
LEMMA ShiftedAbove ==
    ASSUME NEW s, NEW t, NEW m \in Nat, WellFormed(t), Above(s, t, m),
           NEW n, n = t.number + 1
    PROVE  /\ \A k : k \in DOMAIN Shifted(s, n) <=> k \in DOMAIN Shifted(t, n) /\ k > m
           /\ \A k \in DOMAIN Shifted(s, n) : Shifted(s, n)[k] = Shifted(t, n)[k]
<1> DEFINE L == Limit(t.validators)
<1>1. s.validators = t.validators
  BY DEF Above
<1>2. CASE n >= L
  <2>1. Shifted(s, n) = Without(s.recents, {n - L})
    BY <1>1, <1>2 DEF Shifted
  <2>2. Shifted(t, n) = Without(t.recents, {n - L})
    BY <1>2 DEF Shifted
  <2>3. /\ DOMAIN Shifted(s, n) = (DOMAIN s.recents) \ {n - L}
        /\ \A k \in DOMAIN Shifted(s, n) : Shifted(s, n)[k] = s.recents[k]
    BY <2>1 DEF Without, Restrict
  <2>4. /\ DOMAIN Shifted(t, n) = (DOMAIN t.recents) \ {n - L}
        /\ \A k \in DOMAIN Shifted(t, n) : Shifted(t, n)[k] = t.recents[k]
    BY <2>2 DEF Without, Restrict
  <2> QED
    BY <2>3, <2>4 DEF Above
<1>3. CASE ~ (n >= L)
  <2>1. Shifted(s, n) = s.recents /\ Shifted(t, n) = t.recents
    BY <1>1, <1>3 DEF Shifted
  <2> QED
    BY <2>1 DEF Above
<1> QED
  BY <1>2, <1>3

\* A window without its old entries refuses no more.
LEMMA AboveApplies ==
    ASSUME NEW s, NEW t, NEW m \in Nat, WellFormed(t), Above(s, t, m),
           NEW h, ApplyOK(t, h)
    PROVE  ApplyOK(s, h)
<1>1. PICK n : n = h.number /\ n = t.number + 1
  BY DEF ApplyOK
<1>2. /\ \A k : k \in DOMAIN Shifted(s, n) <=> k \in DOMAIN Shifted(t, n) /\ k > m
      /\ \A k \in DOMAIN Shifted(s, n) : Shifted(s, n)[k] = Shifted(t, n)[k]
  BY <1>1, ShiftedAbove
<1>3. Range(Shifted(s, n)) \subseteq Range(Shifted(t, n))
  BY <1>2 DEF Range
<1> QED
  BY <1>1, <1>3 DEF ApplyOK, Above

\* Between two epochs it stays the true one without these entries.
LEMMA AboveApply ==
    ASSUME NEW s, NEW t, NEW m \in Nat, WellFormed(t), Above(s, t, m),
           NEW h, h.number = t.number + 1, m < h.number, ~ IsEpoch(h.number)
    PROVE  Above(Apply(s, h), Apply(t, h), m)
<1>n. PICK n : n = h.number /\ n = t.number + 1
  OBVIOUS
<1> DEFINE ss == Shifted(s, n)
           st == Shifted(t, n)
<1>1. /\ \A k : k \in DOMAIN ss <=> k \in DOMAIN st /\ k > m
      /\ \A k \in DOMAIN ss : ss[k] = st[k]
  BY <1>n, ShiftedAbove
<1>2. /\ Apply(s, h).number = n /\ Apply(s, h).validators = s.validators
      /\ Apply(s, h).recents = Entered(ss, n, h.signer)
      /\ Apply(t, h).number = n /\ Apply(t, h).validators = t.validators
      /\ Apply(t, h).recents = Entered(st, n, h.signer)
  BY <1>n DEF Apply
<1>3. s.validators = t.validators
  BY DEF Above
<1> HIDE DEF ss, st
<1>4. /\ DOMAIN Entered(ss, n, h.signer) = (DOMAIN ss) \cup {n}
      /\ DOMAIN Entered(st, n, h.signer) = (DOMAIN st) \cup {n}
      /\ \A k \in (DOMAIN ss) \cup {n} :
            Entered(ss, n, h.signer)[k] = IF k = n THEN h.signer ELSE ss[k]
      /\ \A k \in (DOMAIN st) \cup {n} :
            Entered(st, n, h.signer)[k] = IF k = n THEN h.signer ELSE st[k]
  BY DEF Entered
<1>5. n > m
  BY <1>n
<1>6. DOMAIN Entered(ss, n, h.signer) = {k \in DOMAIN Entered(st, n, h.signer) : k > m}
  BY <1>1, <1>4, <1>5
<1>7. \A k \in DOMAIN Entered(ss, n, h.signer) :
         Entered(ss, n, h.signer)[k] = Entered(st, n, h.signer)[k]
  BY <1>1, <1>4
<1> QED
  BY <1>2, <1>3, <1>6, <1>7 DEF Above

\* Once the window has passed m nothing is missing.
LEMMA AboveHeals ==
    ASSUME NEW s, NEW t, NEW m \in Nat, WellFormed(t), Above(s, t, m),
           NEW h, h.number = t.number + 1, h.number >= m + Limit(t.validators)
    PROVE  ApplyOK(s, h) = ApplyOK(t, h) /\ Apply(s, h) = Apply(t, h)
<1> DEFINE n == h.number
           L == Limit(t.validators)
           ss == Shifted(s, n)
           st == Shifted(t, n)
<1>1. /\ \A k : k \in DOMAIN ss <=> k \in DOMAIN st /\ k > m
      /\ \A k \in DOMAIN ss : ss[k] = st[k]
  BY ShiftedAbove
<1>2. Window(st, n - L, t.number)
  BY ShiftedWindow
<1>3. t.number \in Nat /\ L \in Nat /\ n \in Nat
  BY LimitType DEF WellFormed
<1>4. \A k \in DOMAIN st : k \in Nat /\ n - L < k
  BY <1>2 DEF Window
<1>5. DOMAIN ss = DOMAIN st
  <2>1. n >= m + L
    OBVIOUS
  <2> HIDE DEF n, L, ss, st
  <2>2. \A k \in DOMAIN st : k > m
    BY <1>3, <1>4, <2>1
  <2> QED
    BY <1>1, <2>2
<1>8. n >= L
  BY <1>3
<1>9. ss = Without(s.recents, {n - L}) /\ st = Without(t.recents, {n - L})
  BY <1>8 DEF Shifted, Above
<1>10. ss = [k \in DOMAIN ss |-> ss[k]] /\ st = [k \in DOMAIN st |-> st[k]]
  BY <1>9 DEF Without, Restrict
<1>11. ss = st
  BY <1>1, <1>5, <1>10
<1>12. s.validators = t.validators /\ s.number = t.number
  BY DEF Above
<1> QED
  BY <1>11, <1>12 DEF ApplyOK, Apply

-----------------------------------------------------------------------------
(* The invariant *)

LEMMA InitRInv == ASSUME Root = 0, Init PROVE RInv
<1>1. PICK V \in ValidatorSets :
        /\ header = [b \in {0} |->
              [number |-> Root, parent |-> 0, signer |-> 0, difficulty |-> 0,
               extra |-> V, set |-> V, line |-> [n \in {Root} |-> 0]]]
        /\ truth = [b \in {0} |-> [newSnapshot(Root, V) EXCEPT !.recents = EmptyWindow]]
  BY DEF Init
<1>2. /\ Block = {0} /\ header[0].number = 0 /\ header[0].set = V
      /\ truth[0].number = 0 /\ truth[0].validators = V /\ truth[0].recents = EmptyWindow
  BY <1>1 DEF Block, newSnapshot
<1>3. WellFormed(truth[0])
  <2>1. EmptyWindow \in [DOMAIN EmptyWindow -> Address] /\ DOMAIN EmptyWindow = {}
    BY DEF EmptyWindow
  <2>2. IsInjective(EmptyWindow)
    BY <2>1 DEF IsInjective
  <2> QED
    BY <1>2, <2>1, <2>2, SetLimit DEF WellFormed, Window
<1>4. TruthForm
  BY <1>2, <1>3 DEF TruthForm
<1>5. Highest
  BY <1>2 DEF Highest
<1>6. HeldFits
  BY DEF Init, HeldFits, FitCall, Idle, EmptyWindow
<1> QED
  BY <1>4, <1>5, <1>6 DEF RInv

\* What stays while the tree does.
LEMMA TreeFormStable ==
    ASSUME RInv, UNCHANGED <<header, truth>>
    PROVE  Highest' /\ TruthForm'
BY DEF RInv, Highest, TruthForm, Block

LEMMA FitsStable ==
    ASSUME UNCHANGED <<header, truth>>, NEW b, NEW s, Fits(b, s)
    PROVE  Fits(b, s)'
BY DEF Fits, Cut, Buried, Block

LEMMA StoresFit ==
    ASSUME RInv, UNCHANGED <<header, truth>>
    PROVE  /\ UNCHANGED memory => \A b \in DOMAIN memory' : Fits(b, memory[b])'
           /\ UNCHANGED disk => \A b \in DOMAIN disk' : Fits(b, disk[b])'
BY DEF RInv, HeldFits, Fits, Cut, Buried, Block

LEMMA OneCallFits ==
    ASSUME RInv, UNCHANGED <<header, truth>>, NEW p \in Callers,
           \A q \in Callers \ {p} : call'[q] = call[q],
           FitCall(call[p])'
    PROVE  \A q \in Callers : FitCall(call[q])'
<1>1. ASSUME NEW q \in Callers, q # p PROVE FitCall(call[q])'
  <2>1. call'[q] = call[q] /\ FitCall(call[q])
    BY <1>1 DEF RInv, HeldFits
  <2> QED
    BY <2>1 DEF FitCall, Fits, Cut, Buried, Block
<1> QED
  BY <1>1

\* A header a walk trusts.
LEMMA TrustFits ==
    ASSUME Root = 0, IInv, RInv, NEW p \in Callers, Trusts(p)
    PROVE  Fits(call[p].cur,
                newSnapshot(header[call[p].cur].number, header[call[p].cur].extra))
<1>1. PICK c, n, t : /\ c = call[p].cur /\ n = header[c].number
                     /\ t = call[p].target
  OBVIOUS
<1> DEFINE s == newSnapshot(n, header[c].extra)
<1>2. n \in Nat /\ n % Epoch = 0 /\ (n = 0 => c = 0)
  BY <1>1, TrustedIsCurrent
<1>3. c \in Block /\ t \in Block /\ n <= header[t].number /\ header[t].line[n] = c
  BY <1>1 DEF IInv, Calls, OnLine
<1>4. CASE n = 0
  <2>1. s = truth[c]
    BY <1>2, <1>4 DEF IInv, Truths
  <2> QED
    BY <1>1, <2>1 DEF Fits
<1>5. CASE n # 0
  <2>1. header[t].number \in Nat /\ n \in Root .. header[t].number
    BY <1>2, <1>3 DEF IInv, Lines
  <2>2. n - 1 \in Nat
    BY <1>2, <1>5
  <2>3. Known(n) /\ DOMAIN header[head].line = Root .. header[head].number
        /\ header[head].number \in Nat
    BY <1>1 DEF Trusts, IInv, Forks, Lines
  <2>4. Known(n - 1)
    BY <1>2, <2>2, <2>3 DEF Known
  <2>5. header[t].number - n > FullImmutabilityThreshold
    BY <1>1, <1>5, <2>4 DEF Trusts, Gathered
  <2>6. Buried(n)
    BY <1>2, <1>3, <2>1, <2>5, StoreAssumption DEF Buried
  <2>7. n < header[t].number
    BY <1>2, <2>1, <2>5, StoreAssumption
  <2>8. truth[c] # Invalid
    <3>1. /\ n + 1 \in Root .. header[t].number /\ n + 1 > Root /\ (n + 1) - 1 = n
      BY <1>2, <2>1, <2>7
    <3>2. /\ header[t].line[n + 1] \in Block
          /\ header[header[t].line[n + 1]].number = n + 1
          /\ header[header[t].line[n + 1]].parent = header[t].line[(n + 1) - 1]
      BY <1>3, <3>1 DEF IInv, Lines
    <3>3. header[header[t].line[n + 1]].parent = c
      BY <1>3, <3>1, <3>2
    <3> QED
      BY <3>1, <3>2, <3>3 DEF RInv, TruthForm
  <2>9. /\ WellFormed(truth[c]) /\ truth[c].number = n
        /\ truth[c].validators = header[c].set /\ header[c].set \in ValidatorSets
    BY <1>1, <1>3, <2>8 DEF RInv, TruthForm
  <2>10. header[c].extra = header[c].set
    BY <1>1, <1>2, <1>3 DEF IInv, Sets
  <2>11. \A k \in DOMAIN truth[c].recents : k \in Nat /\ k <= n
    BY <2>9 DEF WellFormed, Window
  <2>12. Above(s, truth[c], n)
    <3>1. DOMAIN s.recents = {}
      BY DEF newSnapshot, EmptyWindow
    <3>2. {k \in DOMAIN truth[c].recents : k > n} = {}
      BY <1>2, <2>11
    <3> QED
      BY <2>9, <2>10, <3>1, <3>2 DEF Above, newSnapshot
  <2>13. n < n + Limit(header[c].set)
    BY <1>2, <2>9, SetLimit
  <2>14. Cut(c, s, n)
    BY <1>1, <1>2, <2>6, <2>12, <2>13 DEF Cut
  <2> QED
    BY <1>1, <2>14 DEF Fits
<1> QED
  BY <1>4, <1>5

\* One more header on a line.
LEMMA ApplyFits ==
    ASSUME MaxLimit <= Epoch, IInv, RInv, NEW t \in Block,
           NEW k \in Root .. header[t].number, k < header[t].number,
           NEW a, NEW b, a = header[t].line[k], b = header[t].line[k + 1],
           NEW s, s.number = k, s # Invalid, Fits(a, s)
    PROVE  /\ ApplyOK(s, header[b]) => Fits(b, Apply(s, header[b]))
           /\ ~ ApplyOK(s, header[b]) => truth[t] = Invalid
<1>1. /\ a \in Block /\ b \in Block
      /\ header[a].number = k /\ header[b].number = k + 1
      /\ header[b].set = IF IsEpoch(k + 1) THEN header[b].extra ELSE header[a].set
      /\ truth[b] = Extended(truth[a], header[b])
      /\ truth[b] = Invalid => truth[t] = Invalid
  BY NextOnLine
<1>2. k \in Nat /\ Root \in Nat /\ k + 1 > Root /\ Epoch \in Nat \ {0} /\ MaxLimit \in Nat
  BY StoreAssumption, EpochAssumption
<1>3. truth[a] # Invalid
  <2>1. k + 1 \in Root .. header[t].number /\ (k + 1) - 1 = k
    BY <1>2 DEF IInv, Lines
  <2>2. header[b].parent = header[t].line[(k + 1) - 1]
    BY <1>2, <2>1 DEF IInv, Lines
  <2>3. header[b].parent = a
    BY <2>1, <2>2
  <2> QED
    BY <1>1, <1>2, <2>3 DEF RInv, TruthForm
<1>4. /\ WellFormed(truth[a]) /\ truth[a].number = k
      /\ truth[a].validators = header[a].set /\ header[a].set \in ValidatorSets
  BY <1>1, <1>3 DEF RInv, TruthForm
<1>5. CASE s = truth[a]
  BY <1>1, <1>3, <1>5 DEF Extended, Fits
<1>6. ASSUME NEW m, Cut(a, s, m)
      PROVE  /\ ApplyOK(s, header[b]) => Fits(b, Apply(s, header[b]))
             /\ ~ ApplyOK(s, header[b]) => truth[t] = Invalid
  <2> DEFINE h == header[b]
             u == truth[a]
             V == header[a].set
  <2>1. /\ m \in Nat /\ m % Epoch = 0 /\ Buried(m) /\ m <= k
        /\ k < m + Limit(V) /\ Above(s, u, m)
    BY <1>1, <1>3, <1>6 DEF Cut
  <2>2. Limit(V) \in Nat \ {0} /\ Limit(V) <= MaxLimit
    BY <1>4, SetLimit
  <2>3. h.number = u.number + 1 /\ h.number = k + 1
    BY <1>1, <1>4
  <2>4. CASE k + 1 >= m + Limit(V)
    <3>1. h.number >= m + Limit(u.validators)
      BY <1>4, <2>3, <2>4
    <3>2. ApplyOK(s, h) = ApplyOK(u, h) /\ Apply(s, h) = Apply(u, h)
      BY <1>4, <2>1, <2>3, <3>1, AboveHeals
    <3> QED
      BY <1>1, <1>3, <3>2 DEF Extended, Fits
  <2>5. CASE k + 1 < m + Limit(V)
    <3>1. ApplyOK(u, h) => ApplyOK(s, h)
      BY <1>4, <2>1, AboveApplies
    <3>2. ~ IsEpoch(k + 1)
      <4>1. m < k + 1 /\ k + 1 < m + Epoch
        BY <1>2, <2>1, <2>2, <2>5
      <4>2. (k + 1) % Epoch # 0
        BY <1>2, <2>1, <4>1, EpochGap
      <4> QED
        BY <4>2 DEF IsEpoch
    <3>3. header[b].set = V
      BY <1>1, <3>2
    <3>4. Above(Apply(s, h), Apply(u, h), m)
      BY <1>2, <1>4, <2>1, <2>3, <3>2, AboveApply
    <3>5. truth[b] # Invalid => truth[b] = Apply(u, h)
      BY <1>1 DEF Extended
    <3>6. m <= k + 1
      BY <1>2, <2>1
    <3>7. Cut(b, Apply(s, h), m)
      BY <1>1, <2>1, <2>5, <3>3, <3>4, <3>5, <3>6 DEF Cut
    <3>8. ~ ApplyOK(s, h) => truth[b] = Invalid
      BY <1>1, <3>1 DEF Extended
    <3> QED
      BY <1>1, <3>7, <3>8 DEF Fits
  <2>6. m + Limit(V) \in Nat /\ k + 1 \in Nat
    BY <1>2, <2>1, <2>2
  <2> QED
    BY <2>4, <2>5, <2>6
<1> QED
  BY <1>5, <1>6 DEF Fits

-----------------------------------------------------------------------------
(* One lemma per kind of step *)

LEMMA BeginFits ==
    ASSUME IInv, RInv, NEW p \in Callers, NEW b \in Block,
           Begin(p, b) \/ WalkBack(p)
    PROVE  RInv'
<1>1. UNCHANGED <<header, truth, memory, disk>>
  BY DEF Begin, WalkBack
<1>2. /\ \A q \in Callers \ {p} : call'[q] = call[q]
      /\ call'[p].pc = "walk"
  <2>1. CASE Begin(p, b)
    BY <2>1 DEF Begin, IInv, Calls
  <2>2. CASE WalkBack(p)
    <3>1. call[p].pc = "walk"
      BY <2>2 DEF WalkBack
    <3> QED
      BY <2>2, <3>1 DEF WalkBack, IInv, Calls
  <2> QED
    BY <2>1, <2>2
<1>3. FitCall(call[p])'
  BY <1>2 DEF FitCall
<1> QED
  BY <1>1, <1>2, <1>3, OneCallFits, StoresFit, TreeFormStable DEF RInv, HeldFits

LEMMA FoundFits ==
    ASSUME IInv, RInv, NEW p \in Callers, NEW s, Found(p, s),
           UNCHANGED <<header, truth>>, Sound(call[p].cur, s)', Fits(call[p].cur, s)
    PROVE  \A q \in Callers : FitCall(call[q])'
<1>1. PICK c : c = call[p].cur
  OBVIOUS
<1>2. /\ \A q \in Callers \ {p} : call'[q] = call[q]
      /\ call'[p].pc = "apply" /\ call'[p].snap = s
      /\ call'[p].target = call[p].target /\ call'[p].cur = c
  BY <1>1 DEF Found, IInv, Calls
<1>3. header[call[p].target].line[header[c].number] = c /\ s.number = header[c].number
  BY <1>1, <1>2 DEF IInv, Calls, OnLine, Sound
<1>4. Fits(c, s)'
  BY <1>1, FitsStable
<1>5. FitCall(call[p])'
  BY <1>2, <1>3, <1>4 DEF FitCall
<1> QED
  BY <1>2, <1>5, OneCallFits

LEMMA WalkMemoryFits ==
    ASSUME IInv, RInv, NEW p \in Callers, WalkMemory(p) \/ WalkDisk(p)
    PROVE  RInv'
<1>1. UNCHANGED <<header, truth, head, memory, disk, trusted>>
  BY DEF WalkMemory, WalkDisk
<1>2. PICK s : /\ Found(p, s) /\ Sound(call[p].cur, s)
               /\ Fits(call[p].cur, s)
  BY DEF WalkMemory, WalkDisk, OnDisk, IInv, Memory, Disk, RInv, HeldFits
<1>3. call'[p].cur = call[p].cur
  BY <1>2 DEF Found, IInv, Calls
<1>4. Sound(call[p].cur, s)'
  BY <1>1, <1>2, <1>3 DEF Sound
<1> QED
  BY <1>1, <1>2, <1>4, FoundFits, StoresFit, TreeFormStable DEF RInv, HeldFits

LEMMA WalkTrustFits ==
    ASSUME Root = 0, IInv, RInv, NEW p \in Callers, WalkTrust(p)
    PROVE  RInv'
<1>1. PICK c, n, s : /\ c = call[p].cur /\ n = header[c].number
                     /\ s = newSnapshot(n, header[c].extra)
  OBVIOUS
<1>2. UNCHANGED <<header, truth, head, memory>>
  BY DEF WalkTrust
<1>3. n \in Nat /\ ByNumber(n) = c /\ n % Epoch = 0
  BY <1>1, TrustedIsCurrent DEF WalkTrust
<1>4. /\ Found(p, s) /\ disk' = Put(disk, c, s)
      /\ trusted' = IF n = 0 THEN trusted ELSE trusted \cup {c}
  BY <1>1, <1>3 DEF WalkTrust
<1>5. Fits(c, s)
  BY <1>1, TrustFits DEF WalkTrust
<1>6. Fits(c, s)'
  BY <1>2, <1>5, FitsStable
<1>7. Calls' /\ call'[p].cur = c
  BY <1>1, <1>4, WalkTrustStep DEF IInv, Calls, Found
<1>8. call'[p].pc = "apply" /\ call'[p].snap = s /\ call'[p].target = call[p].target
  BY <1>4 DEF Found, IInv, Calls
<1>9. header[call[p].target].line[header[c].number] = c /\ s.number = header[c].number
  BY <1>1 DEF IInv, Calls, OnLine, newSnapshot
<1>10. Sound(call[p].cur, s)'
  BY <1>2, <1>7, <1>8, <1>9 DEF Calls, Applying, Sound
<1>11. \A q \in Callers : FitCall(call[q])'
  BY <1>1, <1>2, <1>4, <1>5, <1>10, FoundFits
<1>12. \A b \in DOMAIN disk' : Fits(b, disk[b])'
  <2>1. ASSUME NEW b \in DOMAIN disk', b # c PROVE Fits(b, disk[b])'
    <3>1. b \in DOMAIN disk /\ disk'[b] = disk[b]
      BY <1>4, <2>1 DEF Put
    <3>2. Fits(b, disk[b])
      BY <3>1 DEF RInv, HeldFits
    <3> QED
      BY <1>2, <3>1, <3>2 DEF Fits, Cut, Buried, Block
  <2>2. c \in DOMAIN disk' => disk'[c] = s
    BY <1>4 DEF Put
  <2> QED
    BY <1>6, <2>1, <2>2
<1> QED
  BY <1>2, <1>11, <1>12, StoresFit, TreeFormStable DEF RInv, HeldFits

LEMMA ApplyHeaderFits ==
    ASSUME MaxLimit <= Epoch, IInv, RInv, NEW p \in Callers, ApplyHeader(p)
    PROVE  RInv'
<1>1. UNCHANGED <<header, truth, head, memory, disk, trusted>>
  BY DEF ApplyHeader
<1>2. PICK t, s, k, a, b :
        /\ t = call[p].target /\ s = call[p].snap /\ k = s.number
        /\ a = header[t].line[k] /\ b = header[t].line[k + 1]
  OBVIOUS
<1>3. /\ call[p].pc = "apply" /\ t \in Block
      /\ k \in Root .. header[t].number /\ k < header[t].number
  BY <1>2 DEF ApplyHeader, IInv, Calls, OnLine, Applying
<1>4. Fits(a, s)
  BY <1>2, <1>3 DEF RInv, HeldFits, FitCall
<1>5. s # Invalid
  BY <1>2, <1>3, StoreAssumption DEF Invalid
<1>6. /\ ApplyOK(s, header[b]) => Fits(b, Apply(s, header[b]))
      /\ ~ ApplyOK(s, header[b]) => truth[t] = Invalid
  BY <1>2, <1>3, <1>4, <1>5, ApplyFits
<1>7. /\ DOMAIN call = Callers
      /\ \A q \in Callers \ {p} : call'[q] = call[q]
      /\ call' = IF ApplyOK(s, header[b])
                 THEN [call EXCEPT ![p].snap = Apply(s, header[b])]
                 ELSE [call EXCEPT ![p].pc = "done", ![p].snap = Invalid]
  BY <1>2 DEF ApplyHeader, IInv, Calls
<1>8. FitCall(call[p])'
  <2>1. CASE ApplyOK(s, header[b])
    <3>1. /\ call'[p].pc = "apply" /\ call'[p].snap = Apply(s, header[b])
          /\ call'[p].target = t
      <4>1. call' = [call EXCEPT ![p].snap = Apply(s, header[b])]
        BY <1>7, <2>1
      <4> QED
        BY <1>2, <1>3, <1>7, <4>1, Advanced
    <3>2. header[b].number = k + 1
      BY <1>2, <1>3, NextOnLine
    <3>3. Apply(s, header[b]).number = k + 1
      BY <3>2 DEF Apply
    <3>4. PICK x : x = Apply(s, header[b])
      OBVIOUS
    <3>5. Fits(b, x)'
      BY <1>1, <1>6, <2>1, <3>4, FitsStable
    <3> QED
      BY <1>1, <1>2, <3>1, <3>3, <3>4, <3>5 DEF FitCall
  <2>2. CASE ~ ApplyOK(s, header[b])
    <3>1. call'[p].pc = "done" /\ call'[p].snap = Invalid /\ call'[p].target = t
      BY <1>2, <1>7, <2>2, Refused
    <3> QED
      BY <1>1, <1>6, <2>2, <3>1 DEF FitCall, Fits
  <2> QED
    BY <2>1, <2>2
<1> QED
  BY <1>1, <1>7, <1>8, OneCallFits, StoresFit, TreeFormStable DEF RInv, HeldFits

\* The end of a call.
LEMMA AppliedFits ==
    ASSUME IInv, RInv, NEW p \in Callers, call[p].pc \in {"apply", "store"},
           call[p].snap.number = header[call[p].target].number
    PROVE  Fits(call[p].target, call[p].snap)
<1>1. header[call[p].target].line[header[call[p].target].number] = call[p].target
  BY Applied DEF IInv, Lines
<1> QED
  BY <1>1 DEF RInv, HeldFits, FitCall

LEMMA AddRecentFits ==
    ASSUME IInv, RInv, NEW p \in Callers, AddRecent(p)
    PROVE  RInv'
<1>1. PICK t, s : t = call[p].target /\ s = call[p].snap
  OBVIOUS
<1> DEFINE m == Put(memory, t, s)
<1>2. UNCHANGED <<header, truth, head, disk, trusted>>
  BY DEF AddRecent
<1>3. Fits(t, s)
  BY <1>1, AppliedFits DEF AddRecent
<1>4. /\ DOMAIN memory' \subseteq DOMAIN m
      /\ \A b \in DOMAIN memory' : memory'[b] = m[b]
  <2>1. CASE memory' = m
    BY <2>1
  <2>2. CASE \E b \in DOMAIN memory : memory' = Restrict(m, (DOMAIN m) \ {b})
    BY <2>2 DEF Restrict
  <2> QED
    BY <1>1, <2>1, <2>2 DEF AddRecent
<1>5. \A b \in DOMAIN m : Fits(b, m[b])
  BY <1>3 DEF Put, RInv, HeldFits
<1>6. \A b \in DOMAIN memory' : Fits(b, memory[b])'
  BY <1>2, <1>4, <1>5 DEF Fits, Cut, Buried, Block
<1>7. /\ \A q \in Callers \ {p} : call'[q] = call[q]
      /\ call'[p].pc = "store" /\ call'[p].snap = s /\ call'[p].target = t
      /\ call[p].pc = "apply"
  BY <1>1 DEF AddRecent, IInv, Calls
<1>8. Fits(header[t].line[s.number], s)
  BY <1>1, <1>7 DEF RInv, HeldFits, FitCall
<1>9. FitCall(call[p])'
  BY <1>2, <1>7, <1>8 DEF FitCall, Fits, Cut, Buried, Block
<1> QED
  BY <1>2, <1>6, <1>7, <1>9, OneCallFits, StoresFit, TreeFormStable DEF RInv, HeldFits

LEMMA StoreFits ==
    ASSUME IInv, RInv, NEW p \in Callers, Store(p)
    PROVE  RInv'
<1>1. PICK t, s : t = call[p].target /\ s = call[p].snap
  OBVIOUS
<1>2. UNCHANGED <<header, truth, head, memory, trusted>>
  BY DEF Store
<1>3. call[p].pc = "store" /\ s.number = header[t].number
  BY <1>1 DEF Store, IInv, Calls, Applying
<1>4. Fits(t, s)
  BY <1>1, <1>3, AppliedFits
<1>5. disk' = disk \/ disk' = Put(disk, t, s)
  BY <1>1 DEF Store
<1>6. \A b \in DOMAIN disk' : Fits(b, disk'[b])
  BY <1>4, <1>5 DEF Put, RInv, HeldFits
<1>7. \A b \in DOMAIN disk' : Fits(b, disk[b])'
  BY <1>2, <1>6 DEF Fits, Cut, Buried, Block
<1>8. /\ \A q \in Callers \ {p} : call'[q] = call[q]
      /\ call'[p].pc = "done" /\ call'[p].snap = s /\ call'[p].target = t
  BY <1>1 DEF Store, IInv, Calls
<1>9. FitCall(call[p])'
  BY <1>2, <1>4, <1>8 DEF FitCall, Fits, Cut, Buried, Block
<1> QED
  BY <1>2, <1>7, <1>8, <1>9, OneCallFits, StoresFit, TreeFormStable DEF RInv, HeldFits

LEMMA CrashFits ==
    ASSUME RInv, Crash \/ Reinit
    PROVE  RInv'
<1>1. /\ UNCHANGED <<header, truth, head, trusted>>
      /\ memory' = EmptyWindow /\ call' = [p \in Callers |-> Idle]
      /\ disk' \in {disk, EmptyWindow}
  BY DEF Crash, Reinit
<1>2. \A b \in DOMAIN disk' : Fits(b, disk[b])'
  BY <1>1, StoresFit DEF EmptyWindow
<1>3. \A b \in DOMAIN memory' : Fits(b, memory[b])'
  BY <1>1 DEF EmptyWindow
<1>4. \A p \in Callers : FitCall(call[p])'
  BY <1>1 DEF FitCall, Idle
<1> QED
  BY <1>1, <1>2, <1>3, <1>4, TreeFormStable DEF RInv, HeldFits

\* A block is built on an exact answer: a thinned one is for a block too deep.
LEMMA ImportExact ==
    ASSUME IInv, RInv, NEW p \in Callers, NEW v, NEW top, Import(p, v, top)
    PROVE  call[p].snap = truth[call[p].target]
<1>1. PICK t, s : t = call[p].target /\ s = call[p].snap
  OBVIOUS
<1>2. /\ call[p].pc = "done" /\ t \in Block
      /\ Admitted(header[t].number + 1)
  BY <1>1 DEF Import, IInv, Calls, OnLine
<1>3. Fits(t, s)
  BY <1>1, <1>2 DEF RInv, HeldFits, FitCall
<1>4. ASSUME NEW m, Cut(t, s, m) PROVE FALSE
  <2>1. PICK c \in Block : m + FullImmutabilityThreshold < header[c].number
    BY <1>4 DEF Cut, Buried
  <2>2. header[c].number <= header[t].number + 1 + MaxReorg
    BY <1>2 DEF Admitted
  <2>3. /\ m \in Nat /\ header[t].number < m + Limit(header[t].set)
        /\ header[t].set \in ValidatorSets
    BY <1>2, <1>4 DEF Cut, RInv, TruthForm
  <2>4. Limit(header[t].set) \in Nat /\ Limit(header[t].set) <= MaxLimit
    BY <2>3, SetLimit
  <2>5. header[t].number \in Nat /\ header[c].number \in Nat
    BY <1>2 DEF IInv, Lines
  <2> QED
    BY <2>1, <2>2, <2>3, <2>4, <2>5, StoreAssumption, ImmutableAssumption
<1> QED
  BY <1>1, <1>3, <1>4 DEF Fits

\* A new block leaves what the others fit.
LEMMA FitsGrows ==
    ASSUME IInv, NEW p \in Callers, NEW b, NEW h, NewBlock(p, b, h),
           NEW c \in Block, NEW s, Fits(c, s)
    PROVE  Fits(c, s)'
<1>1. /\ Block \subseteq Block'
      /\ \A d \in Block : header'[d] = header[d] /\ truth'[d] = truth[d]
  BY NewLines
<1>2. ASSUME NEW m, Buried(m) PROVE Buried(m)'
  BY <1>1, <1>2 DEF Buried
<1>3. ASSUME NEW m, Cut(c, s, m) PROVE Cut(c, s, m)'
  BY <1>1, <1>2, <1>3 DEF Cut
<1> QED
  BY <1>1, <1>3 DEF Fits

LEMMA ImportFits ==
    ASSUME IInv, RInv, NEW p \in Callers, NEW v, NEW top \in ValidatorSets,
           Import(p, v, top)
    PROVE  RInv'
<1>1. PICK b, h : /\ NewBlock(p, b, h) /\ Ids'
                  /\ VerifySeal(call[p].snap, h)
                  /\ IsEpoch(h.number) => h.extra = top
  BY ImportIsNew
<1>2. PICK t : t = call[p].target
  OBVIOUS
<1>3. /\ Block' = Block \cup {b}
      /\ \A c \in Block : header'[c] = header[c] /\ truth'[c] = truth[c]
      /\ header'[b] = h /\ truth'[b] = Extended(truth[t], h)
      /\ h.number \in Nat /\ h.number > Root
  BY <1>1, <1>2, NewLines
<1>4. /\ t \in Block /\ b \notin Block /\ h.parent = t
      /\ h.number = header[t].number + 1
      /\ h.set = IF IsEpoch(h.number) THEN h.extra ELSE header[t].set
      /\ UNCHANGED <<memory, disk, call>>
  BY <1>1, <1>2 DEF NewBlock
<1>5. truth[t] # Invalid
  <2>1. call[p].snap # Invalid
    BY DEF Import
  <2> QED
    BY <1>2, <2>1, ImportExact
<1>6. /\ header[t].set \in ValidatorSets /\ WellFormed(truth[t])
      /\ truth[t].number = header[t].number /\ truth[t].validators = header[t].set
  BY <1>4, <1>5 DEF RInv, TruthForm
<1>7. Highest'
  <2>1. PICK c \in Block : \A d \in Block : header[d].number <= header[c].number
    BY DEF RInv, Highest
  <2>2. \A d \in Block : header[d].number \in Nat
    BY DEF IInv, Lines
  <2>3. CASE header[c].number <= h.number
    <3>1. \A d \in Block' : header'[d].number <= header'[b].number
      BY <1>3, <2>1, <2>2, <2>3
    <3> QED
      BY <1>3, <3>1 DEF Highest
  <2>4. CASE ~ (header[c].number <= h.number)
    <3>1. \A d \in Block' : header'[d].number <= header'[c].number
      BY <1>3, <2>1, <2>2, <2>4
    <3> QED
      BY <1>3, <3>1 DEF Highest
  <2> QED
    BY <2>3, <2>4
<1>8. h.set \in ValidatorSets
  BY <1>1, <1>4, <1>6
<1>9. ASSUME truth'[b] # Invalid
      PROVE  /\ WellFormed(truth'[b]) /\ truth'[b].number = h.number
             /\ truth'[b].validators = h.set
  <2>1. ApplyOK(truth[t], h) /\ truth'[b] = Apply(truth[t], h)
    BY <1>3, <1>9 DEF Extended
  <2>2. IsEpoch(h.number) => h.extra \in (SUBSET Address) \ {{}}
    BY <1>1, SetLimit
  <2>3. WellFormed(Apply(truth[t], h))
    BY <1>6, <2>1, <2>2, ApplyWellFormed
  <2>4. /\ Apply(truth[t], h).number = h.number
        /\ Apply(truth[t], h).validators = h.set
    BY <1>4, <1>6 DEF Apply
  <2> QED
    BY <2>1, <2>3, <2>4
<1>10. TruthForm'
  <2>1. ASSUME NEW c \in Block, header[c].number > Root
        PROVE  header[c].parent \in Block /\ truth[header[c].parent] # Invalid
    <3>1. /\ header[c].number \in Root .. header[c].number
          /\ header[c].number - 1 \in Root .. header[c].number
          /\ header[c].line[header[c].number] = c
      BY <2>1, StoreAssumption DEF IInv, Lines
    <3>2. header[c].parent = header[c].line[header[c].number - 1]
      BY <2>1, <3>1 DEF IInv, Lines
    <3>3. header[c].parent \in Block
      BY <3>1, <3>2 DEF IInv, Lines
    <3> QED
      BY <2>1, <3>3 DEF RInv, TruthForm
  <2>2. ASSUME NEW c \in Block'
        PROVE  /\ header'[c].set \in ValidatorSets
               /\ truth'[c] # Invalid => /\ WellFormed(truth'[c])
                                         /\ truth'[c].number = header'[c].number
                                         /\ truth'[c].validators = header'[c].set
               /\ header'[c].number > Root => truth'[header'[c].parent] # Invalid
    <3>1. CASE c = b
      BY <1>3, <1>4, <1>5, <1>8, <1>9, <3>1
    <3>2. CASE c \in Block
      <4>1. /\ header[c].set \in ValidatorSets
            /\ truth[c] # Invalid => /\ WellFormed(truth[c])
                                     /\ truth[c].number = header[c].number
                                     /\ truth[c].validators = header[c].set
        BY <3>2 DEF RInv, TruthForm
      <4> QED
        BY <1>3, <2>1, <3>2, <4>1
    <3> QED
      BY <1>3, <3>1, <3>2
  <2> QED
    BY <2>2 DEF TruthForm, WellFormed, Window
<1>11. ASSUME NEW q \in Callers PROVE FitCall(call[q])'
  <2>1. PICK c : c = call[q]
    OBVIOUS
  <2>2. /\ call'[q] = c /\ c.target \in Block /\ header'[c.target] = header[c.target]
        /\ FitCall(c) /\ Applying(c)
    BY <1>3, <1>4, <2>1 DEF RInv, HeldFits, IInv, Calls, OnLine
  <2>3. ASSUME c.pc \in {"apply", "store"}
        PROVE  Fits(header[c.target].line[c.snap.number], c.snap)'
    <3>1. PICK x, s : x = header[c.target].line[c.snap.number] /\ s = c.snap
      OBVIOUS
    <3>2. x \in Block /\ Fits(x, s)
      BY <2>2, <2>3, <3>1 DEF Applying, FitCall, IInv, Lines
    <3>3. Fits(x, s)'
      BY <1>1, <3>2, FitsGrows
    <3> QED
      BY <2>2, <3>1, <3>3
  <2>4. ASSUME c.pc = "done" PROVE Fits(c.target, c.snap)'
    <3>1. PICK x, s : x = c.target /\ s = c.snap
      OBVIOUS
    <3>2. Fits(x, s)'
      BY <1>1, <2>2, <2>4, <3>1, FitsGrows DEF FitCall
    <3> QED
      BY <3>1, <3>2
  <2> QED
    BY <2>2, <2>3, <2>4 DEF FitCall
<1>12. ASSUME NEW c \in DOMAIN memory PROVE Fits(c, memory[c])'
  <2>1. PICK s : s = memory[c]
    OBVIOUS
  <2>2. c \in Block /\ Fits(c, s) /\ memory'[c] = s
    BY <1>4, <2>1 DEF IInv, Memory, RInv, HeldFits
  <2>3. Fits(c, s)'
    BY <1>1, <2>2, FitsGrows
  <2> QED
    BY <2>2, <2>3
<1>13. ASSUME NEW c \in DOMAIN disk PROVE Fits(c, disk[c])'
  <2>1. PICK s : s = disk[c]
    OBVIOUS
  <2>2. c \in Block /\ Fits(c, s) /\ disk'[c] = s
    BY <1>4, <2>1 DEF IInv, Disk, RInv, HeldFits
  <2>3. Fits(c, s)'
    BY <1>1, <2>2, FitsGrows
  <2> QED
    BY <2>2, <2>3
<1>14. HeldFits'
  BY <1>4, <1>11, <1>12, <1>13 DEF HeldFits
<1> QED
  BY <1>7, <1>10, <1>14 DEF RInv

LEMMA NextRInv ==
    ASSUME Root = 0, MaxLimit <= Epoch, IInv, RInv, [Next]_vars
    PROVE  RInv'
<1>1. ASSUME NEW p \in Callers, NEW b \in Block, Begin(p, b) PROVE RInv'
  BY <1>1, BeginFits
<1>2. ASSUME NEW p \in Callers, WalkMemory(p) \/ WalkDisk(p) PROVE RInv'
  BY <1>2, WalkMemoryFits
<1>3. ASSUME NEW p \in Callers, WalkTrust(p) PROVE RInv'
  BY <1>3, WalkTrustFits
<1>4. ASSUME NEW p \in Callers, WalkBack(p) PROVE RInv'
  <2>1. 0 \in Block
    BY DEF IInv, Ids
  <2> QED
    BY <1>4, <2>1, BeginFits
<1>5. ASSUME NEW p \in Callers, ApplyHeader(p) PROVE RInv'
  BY <1>5, ApplyHeaderFits
<1>6. ASSUME NEW p \in Callers, AddRecent(p) PROVE RInv'
  BY <1>6, AddRecentFits
<1>7. ASSUME NEW p \in Callers, Store(p) PROVE RInv'
  BY <1>7, StoreFits
<1>8. ASSUME NEW p \in Callers, NEW v, NEW top \in ValidatorSets, Import(p, v, top)
      PROVE  RInv'
  BY <1>8, ImportFits
<1>9. CASE Crash \/ Reinit
  BY <1>9, CrashFits
<1>10. CASE UNCHANGED vars
  <2>1. UNCHANGED <<header, truth, memory, disk, call>>
    BY <1>10 DEF vars
  <2>2. \A q \in Callers : FitCall(call[q])'
    BY <2>1 DEF RInv, HeldFits, FitCall, Fits, Cut, Buried, Block
  <2> QED
    BY <2>1, <2>2, StoresFit, TreeFormStable DEF RInv, HeldFits
<1> QED
  BY <1>1, <1>2, <1>3, <1>4, <1>5, <1>6, <1>7, <1>8, <1>9, <1>10 DEF Next

-----------------------------------------------------------------------------
(* The steps of Authorization *)

\* What a caller was told, as Authorization sees it.
Told(c) == IF c.pc = "done" THEN {[block |-> c.target, snap |-> c.snap]} ELSE {}

\* The tip is the number of a highest block.
LEMMA TipIsHighest ==
    ASSUME IInv, RInv
    PROVE  \A c \in Block : header[c].number <= Auth!Tip
<1>1. PICK c \in Block : \A d \in Block : header[d].number <= header[c].number
  BY DEF RInv, Highest
<1>2. \E n \in {header[b].number : b \in DOMAIN header} :
         \A b \in DOMAIN header : header[b].number <= n
  BY <1>1 DEF Block
<1> QED
  BY <1>2 DEF Auth!Tip, Block

\* What fits a block may be answered for it.
LEMMA FitsMayAnswer ==
    ASSUME IInv, RInv, NEW b \in Block, NEW s, Fits(b, s)
    PROVE  Auth!MayAnswer(b, s)
<1>1. CASE s = truth[b]
  BY <1>1 DEF Auth!MayAnswer, Auth!Thinned
<1>2. ASSUME NEW m, Cut(b, s, m) PROVE Auth!MayAnswer(b, s)
  <2>1. PICK c \in Block : m + FullImmutabilityThreshold < header[c].number
    BY <1>2 DEF Cut, Buried
  <2>2. header[c].number <= Auth!Tip
    BY TipIsHighest
  <2>3. m \in Nat /\ header[b].number < m + Limit(header[b].set)
        /\ Limit(header[b].set) \in Nat /\ Limit(header[b].set) <= MaxLimit
    BY <1>2, SetLimit DEF Cut, RInv, TruthForm
  <2>4. header[b].number \in Nat /\ header[c].number \in Nat
    BY DEF IInv, Lines
  <2>5. Auth!Tip \in Nat
    <3>1. Auth!Tip \in {header[d].number : d \in DOMAIN header}
      <4>1. PICK d \in Block : \A e \in Block : header[e].number <= header[d].number
        BY DEF RInv, Highest
      <4>2. \E n \in {header[e].number : e \in DOMAIN header} :
               \A e \in DOMAIN header : header[e].number <= n
        BY <4>1 DEF Block
      <4> QED
        BY <4>2 DEF Auth!Tip
    <3> QED
      BY <3>1 DEF IInv, Lines, Block
  <2>6. ~ (header[b].number + (FullImmutabilityThreshold - MaxLimit) >= Auth!Tip)
    BY <2>1, <2>2, <2>3, <2>4, <2>5, StoreAssumption
  <2>7. Auth!Thinned(s, truth[b])
    <3>1. ASSUME truth[b] # Invalid
          PROVE  /\ s # Invalid /\ s.number = truth[b].number
                 /\ s.validators = truth[b].validators
                 /\ DOMAIN s.recents \subseteq DOMAIN truth[b].recents
                 /\ \A n \in DOMAIN s.recents : s.recents[n] = truth[b].recents[n]
      <4>1. Above(s, truth[b], m) /\ truth[b].number = header[b].number
        BY <1>2, <3>1 DEF Cut, RInv, TruthForm
      <4>2. s # Invalid
        BY <2>4, <4>1 DEF Above, Invalid
      <4> QED
        BY <4>1, <4>2 DEF Above
    <3> QED
      BY <3>1 DEF Auth!Thinned
  <2> QED
    BY <2>6, <2>7 DEF Auth!MayAnswer
<1> QED
  BY <1>1, <1>2 DEF Fits

LEMMA InitMaps == ASSUME Init PROVE Auth!Init
<1>1. DOMAIN header = {0} /\ DOMAIN truth = {0} /\ call = [p \in Callers |-> Idle]
  BY DEF Init
<1>2. [p \in Callers |->
         IF call[p].pc = "done"
         THEN {[block |-> call[p].target, snap |-> call[p].snap]}
         ELSE {}] = [p \in Callers |-> {}]
  BY <1>1 DEF Idle
<1> QED
  BY <1>1, <1>2 DEF Auth!Init

\* Beginning a call and losing them all forget answers; the other steps of a
\* call that leave it unfinished are not seen.
LEMMA ForgetMaps ==
    ASSUME UNCHANGED <<header, truth>>,
           \A q \in Callers : Told(call'[q]) \in {Told(call[q]), {}}
    PROVE  Auth!Forget
BY DEF Auth!Forget, Told

LEMMA AnswerMaps ==
    ASSUME IInv, RInv, IInv', RInv', UNCHANGED <<header, truth>>, NEW p \in Callers,
           \A q \in Callers \ {p} : call'[q] = call[q],
           call'[p].pc = "done"
    PROVE  Auth!Answer(p)
<1>1. PICK t, s : t = call'[p].target /\ s = call'[p].snap
  OBVIOUS
<1>2. t \in Block' /\ Fits(t, s)'
  BY <1>1 DEF IInv, Calls, OnLine, RInv, HeldFits, FitCall
<1>3. t \in Block /\ Fits(t, s)
  BY <1>2 DEF Fits, Cut, Buried, Block
<1>4. Auth!MayAnswer(t, s) /\ t \in DOMAIN header
  BY <1>3, FitsMayAnswer DEF Block
<1> QED
  BY <1>1, <1>4 DEF Auth!Answer

LEMMA ImportMaps ==
    ASSUME IInv, RInv, NEW p \in Callers, NEW v, NEW top, Import(p, v, top)
    PROVE  Auth!Import(p)
<1>1. PICK b, h : /\ NewBlock(p, b, h) /\ Ids'
                  /\ VerifySeal(call[p].snap, h)
                  /\ IsEpoch(h.number) => h.extra = top
  BY ImportIsNew
<1>2. PICK t : t = call[p].target
  OBVIOUS
<1>3. call[p].pc = "done" /\ UNCHANGED call
  BY DEF Import
<1>4. call[p].snap = truth[t]
  BY <1>2, ImportExact
<1>5. /\ t \in Block /\ b \notin Block /\ h.parent = t
      /\ header' = Put(header, b, h)
      /\ truth' = Put(truth, b, Extended(truth[t], h))
  BY <1>1, <1>2 DEF NewBlock
<1>6. /\ DOMAIN header' = (DOMAIN header) \cup {b}
      /\ header'[b] = h /\ \A c \in DOMAIN header : header'[c] = header[c]
  BY <1>5 DEF Put, Block
<1>7. truth' = [c \in DOMAIN header' |->
                  IF c = b THEN Extended(truth[t], header'[b]) ELSE truth[c]]
  <2>1. DOMAIN truth = DOMAIN header
    BY DEF IInv, Truths, Block
  <2> QED
    BY <1>5, <1>6, <2>1 DEF Put
<1>8. b \in (DOMAIN header') \ (DOMAIN header) /\ VerifySeal(truth[t], header'[b])
      /\ header'[b].parent = t
  BY <1>1, <1>4, <1>5, <1>6 DEF Block
<1> DEFINE a == [block |-> t, snap |-> truth[t]]
<1>9. a.block = t /\ Told(call[p]) = {a}
  BY <1>2, <1>3, <1>4 DEF Told
<1> HIDE DEF a
<1> QED
  BY <1>3, <1>6, <1>7, <1>8, <1>9 DEF Auth!Import, Told

LEMMA StepMaps ==
    ASSUME IInv, RInv, IInv', RInv', [Next]_vars
    PROVE  [Auth!Next]_(Auth!vars)
<1> DEFINE Goal == [Auth!Next]_(Auth!vars)
<1>1. ASSUME NEW p \in Callers, UNCHANGED <<header, truth>>,
             \A q \in Callers \ {p} : call'[q] = call[q],
             call[p].pc # "done", call'[p].pc # "done"
      PROVE  Goal
  <2>1. [q \in Callers |->
           IF call[q].pc = "done"
           THEN {[block |-> call[q].target, snap |-> call[q].snap]} ELSE {}]'
        = [q \in Callers |->
             IF call[q].pc = "done"
             THEN {[block |-> call[q].target, snap |-> call[q].snap]} ELSE {}]
    BY <1>1
  <2> QED
    BY <1>1, <2>1 DEF Auth!vars
<1>2. ASSUME NEW p \in Callers, NEW b \in Block, Begin(p, b) PROVE Goal
  <2>1. UNCHANGED <<header, truth>> /\ call'[p].pc = "walk"
        /\ \A q \in Callers \ {p} : call'[q] = call[q]
    BY <1>2 DEF Begin, IInv, Calls
  <2>2. \A q \in Callers : Told(call'[q]) \in {Told(call[q]), {}}
    BY <2>1 DEF Told
  <2> QED
    BY <2>1, <2>2, ForgetMaps DEF Auth!Next
<1>3. ASSUME NEW p \in Callers, NEW s, Found(p, s), call[p].pc = "walk",
             UNCHANGED <<header, truth>>
      PROVE  Goal
  <2>1. call'[p].pc = "apply" /\ \A q \in Callers \ {p} : call'[q] = call[q]
    BY <1>3 DEF Found, IInv, Calls
  <2> QED
    BY <1>1, <1>3, <2>1
<1>4. ASSUME NEW p \in Callers, WalkMemory(p) \/ WalkDisk(p) \/ WalkTrust(p) PROVE Goal
  <2>1. /\ UNCHANGED <<header, truth>> /\ call[p].pc = "walk"
        /\ \E s : Found(p, s)
    BY <1>4 DEF WalkMemory, WalkDisk, WalkTrust
  <2> QED
    BY <1>3, <2>1
<1>5. ASSUME NEW p \in Callers, WalkBack(p) PROVE Goal
  <2>1. call[p].pc = "walk"
    BY <1>5 DEF WalkBack
  <2>2. /\ UNCHANGED <<header, truth>> /\ call'[p].pc = "walk"
        /\ \A q \in Callers \ {p} : call'[q] = call[q]
    BY <1>5, <2>1 DEF WalkBack, IInv, Calls
  <2> QED
    BY <1>1, <2>1, <2>2
<1>6. ASSUME NEW p \in Callers, ApplyHeader(p) PROVE Goal
  <2>1. PICK h, x, y :
           /\ h = header[header[call[p].target].line[call[p].snap.number + 1]]
           /\ x = Apply(call[p].snap, h) /\ y = ApplyOK(call[p].snap, h)
    OBVIOUS
  <2>2. /\ UNCHANGED <<header, truth>> /\ call[p].pc = "apply" /\ DOMAIN call = Callers
        /\ call' = IF y THEN [call EXCEPT ![p].snap = x]
                   ELSE [call EXCEPT ![p].pc = "done", ![p].snap = Invalid]
    BY <1>6, <2>1 DEF ApplyHeader, IInv, Calls
  <2>3. CASE y
    <3>1. call' = [call EXCEPT ![p].snap = x]
      BY <2>2, <2>3
    <3>2. call'[p].pc = "apply" /\ \A q \in Callers \ {p} : call'[q] = call[q]
      BY <2>2, <3>1, Advanced
    <3> QED
      BY <1>1, <2>2, <3>2
  <2>4. CASE ~ y
    <3>1. call' = [call EXCEPT ![p].pc = "done", ![p].snap = Invalid]
      BY <2>2, <2>4
    <3>2. call'[p].pc = "done" /\ \A q \in Callers \ {p} : call'[q] = call[q]
      BY <2>2, <3>1, Refused
    <3> QED
      BY <2>2, <3>2, AnswerMaps DEF Auth!Next
  <2> QED
    BY <2>3, <2>4
<1>7. ASSUME NEW p \in Callers, AddRecent(p) PROVE Goal
  <2>1. /\ UNCHANGED <<header, truth>> /\ call[p].pc = "apply" /\ call'[p].pc = "store"
        /\ \A q \in Callers \ {p} : call'[q] = call[q]
    BY <1>7 DEF AddRecent, IInv, Calls
  <2> QED
    BY <1>1, <2>1
<1>8. ASSUME NEW p \in Callers, Store(p) PROVE Goal
  <2>1. /\ UNCHANGED <<header, truth>> /\ call'[p].pc = "done"
        /\ \A q \in Callers \ {p} : call'[q] = call[q]
    BY <1>8 DEF Store, IInv, Calls
  <2> QED
    BY <2>1, AnswerMaps DEF Auth!Next
<1>9. ASSUME NEW p \in Callers, NEW v, NEW top, Import(p, v, top) PROVE Goal
  BY <1>9, ImportMaps DEF Auth!Next
<1>10. CASE Crash \/ Reinit
  <2>1. UNCHANGED <<header, truth>> /\ call' = [p \in Callers |-> Idle]
    BY <1>10 DEF Crash, Reinit
  <2>2. \A q \in Callers : Told(call'[q]) = {}
    BY <2>1 DEF Told, Idle
  <2> QED
    BY <2>1, <2>2, ForgetMaps DEF Auth!Next
<1>11. CASE UNCHANGED vars
  BY <1>11 DEF vars, Auth!vars
<1> QED
  BY <1>2, <1>4, <1>5, <1>6, <1>7, <1>8, <1>9, <1>10, <1>11 DEF Next

\* Congress.snapshot implements Authorization where the node's headers start at
\* genesis and no window spans two epochs: whatever concurrent calls, evictions,
\* crashes, reorganisations and trusted checkpoints do, an answer for a block that
\* may still be reorganised is exactly apply folded along its line, a deeper one
\* lacks at most entries of the window, and every block that enters the tree is one
\* verifySeal accepts on the true snapshot of its parent.
THEOREM StoreImplements == Root = 0 /\ MaxLimit <= Epoch => (Spec => Refines)
<1> SUFFICES ASSUME Root = 0 /\ MaxLimit <= Epoch PROVE Spec => Refines
  OBVIOUS
<1>1. Init => Auth!Init /\ IInv /\ RInv
  BY InitMaps, InitIInv, InitRInv
<1>2. IInv /\ RInv /\ [Next]_vars => IInv' /\ RInv'
  BY NextIInv, NextRInv
<1>3. IInv /\ RInv /\ IInv' /\ RInv' /\ [Next]_vars => [Auth!Next]_(Auth!vars)
  BY StepMaps
<1> QED
  BY <1>1, <1>2, <1>3, PTL DEF Spec, Refines, Auth!Spec

=============================================================================
