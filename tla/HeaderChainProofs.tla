------------------------- MODULE HeaderChainProofs -------------------------
(***************************************************************************)
(* The invariants of HeaderChain for every set of addresses, every family  *)
(* of validator sets, every epoch length and every chain length.           *)
(***************************************************************************)
EXTENDS HeaderChain, SnapshotProofs

\* The inductive invariant: the snapshot at the tip is well formed, its
\* entries are those of the chain, and the chain has no gap.
IInv ==
    /\ WellFormed(snap)
    /\ snap.number \in Start .. MaxNumber
    /\ snap.validators \in ValidatorSets
    /\ usable \in BOOLEAN
    /\ usable \/ snap.number < MaxNumber
    /\ DOMAIN chain = IF usable THEN Start + 1 .. snap.number
                                ELSE Start + 1 .. snap.number + 1
    /\ \A b \in DOMAIN chain : /\ chain[b].signer \in Address
                               /\ chain[b].set \in ValidatorSets
    /\ \A b \in DOMAIN snap.recents :
          b \in DOMAIN chain /\ snap.recents[b] = chain[b].signer

USE DEF diffInTurn, diffNoTurn

\* The chain of a trusted checkpoint satisfies the invariant.
LEMMA InitIInv == Init => IInv
<1> SUFFICES ASSUME Init PROVE IInv
  OBVIOUS
<1>1. PICK V \in ValidatorSets : snap = newSnapshot(Start, V)
  BY DEF Init
<1>2. V \in (SUBSET Address) \ {{}} /\ Limit(V) \in Nat \ {0}
  BY ValidatorSetsAssumption, LimitType
<1>3. /\ snap.number = Start /\ snap.validators = V
      /\ DOMAIN snap.recents = {}
      /\ snap.recents \in [DOMAIN snap.recents -> Address]
  BY <1>1 DEF newSnapshot, EmptyWindow
<1>4. WellFormed(snap)
  BY <1>2, <1>3, StartAssumption DEF WellFormed, Window, IsInjective
<1>5. DOMAIN chain = {} /\ usable
  BY DEF Init
<1>6. Start + 1 .. Start = {}
  BY StartAssumption
<1> QED  BY <1>3, <1>4, <1>5, <1>6, StartAssumption DEF IInv

\* A block written on the tip keeps the invariant, whether apply accepts it or
\* not.
LEMMA WriteIInv ==
    ASSUME IInv, usable, snap.number < MaxNumber,
           NEW v \in Address, NEW top \in ValidatorSets, NEW h,
           h.number = snap.number + 1, h.signer = v,
           h.extra = IF IsEpoch(snap.number + 1) THEN top ELSE {},
           Write(h)
    PROVE  IInv'
<1> DEFINE n == snap.number + 1
<1>1. /\ snap.number \in Nat /\ n \in Nat /\ n \in Start + 1 .. MaxNumber
      /\ DOMAIN chain = Start + 1 .. snap.number
      /\ WellFormed(snap)
      /\ Start \in Nat /\ MaxNumber \in Nat
  BY StartAssumption DEF IInv, WellFormed
<1>2. /\ DOMAIN chain' = Start + 1 .. n
      /\ chain'[n].signer = v /\ chain'[n].set = snap.validators
      /\ \A b \in DOMAIN chain : b # n /\ chain'[b] = chain[b]
  <2>1. DOMAIN chain' = (DOMAIN chain) \cup {n}
    BY DEF Write
  <2>2. (Start + 1 .. snap.number) \cup {n} = Start + 1 .. n
    BY <1>1
  <2>3. n \notin DOMAIN chain
    BY <1>1
  <2> QED  BY <1>1, <2>1, <2>2, <2>3 DEF Write
<1>3. \A b \in DOMAIN chain' : chain'[b].signer \in Address /\ chain'[b].set \in ValidatorSets
  BY <1>1, <1>2 DEF IInv
<1>4. CASE ApplyOK(snap, h)
  <2>1. usable' = TRUE /\ snap' = Apply(snap, h)
    BY <1>4 DEF Write
  <2>2. IsEpoch(h.number) => h.extra \in (SUBSET Address) \ {{}}
    BY ValidatorSetsAssumption
  <2>3. /\ WellFormed(Apply(snap, h))
        /\ Apply(snap, h).number = n
        /\ \A b \in DOMAIN Apply(snap, h).recents :
              \/ b = h.number /\ Apply(snap, h).recents[b] = h.signer
              \/ b \in DOMAIN snap.recents /\ Apply(snap, h).recents[b] = snap.recents[b]
    BY <1>1, <1>4, <2>2, ApplyWellFormed
  <2>4. Apply(snap, h).validators \in ValidatorSets
    BY DEF Apply, IInv
  <2>5. \A b \in DOMAIN snap'.recents : b \in DOMAIN chain' /\ snap'.recents[b] = chain'[b].signer
    BY <1>1, <1>2, <2>1, <2>3 DEF IInv
  <2> QED  BY <1>1, <1>2, <1>3, <2>1, <2>3, <2>4, <2>5 DEF IInv
<1>5. CASE ~ ApplyOK(snap, h)
  <2>1. usable' = FALSE /\ snap' = snap
    BY <1>5 DEF Write
  <2>2. \A b \in DOMAIN snap.recents : b \in DOMAIN chain' /\ snap.recents[b] = chain'[b].signer
    BY <1>1, <1>2 DEF IInv
  <2> QED  BY <1>1, <1>2, <1>3, <2>1, <2>2 DEF IInv
<1> QED  BY <1>4, <1>5

\* Every step keeps the invariant.
LEMMA NextIInv == IInv /\ [Next]_vars => IInv'
<1> SUFFICES ASSUME IInv, [Next]_vars PROVE IInv'
  OBVIOUS
<1>1. ASSUME NEW v \in Address, NEW top \in ValidatorSets, SealBlock(v, top)
      PROVE  IInv'
  <2> DEFINE h == Prepare(v, top)
  <2>1. /\ h.number = snap.number + 1 /\ h.signer = v
        /\ h.extra = IF IsEpoch(snap.number + 1) THEN top ELSE {}
    BY DEF Prepare
  <2>2. usable /\ snap.number < MaxNumber /\ Write(h)
    BY <1>1 DEF SealBlock
  <2> HIDE DEF h
  <2> QED  BY <2>1, <2>2, WriteIInv
<1>2. ASSUME NEW v \in Address, NEW top \in ValidatorSets,
             NEW d \in {diffInTurn, diffNoTurn}, ImportBlock(v, top, d)
      PROVE  IInv'
  <2> DEFINE h == [Prepare(v, top) EXCEPT !.difficulty = d]
  <2>1. /\ h.number = snap.number + 1 /\ h.signer = v
        /\ h.extra = IF IsEpoch(snap.number + 1) THEN top ELSE {}
    BY DEF Prepare
  <2>2. usable /\ snap.number < MaxNumber /\ Write(h)
    BY <1>2 DEF ImportBlock
  <2> HIDE DEF h
  <2> QED  BY <2>1, <2>2, WriteIInv
<1>3. CASE UNCHANGED vars
  BY <1>3 DEF vars, IInv, WellFormed, Window, IsInjective
<1>4. CASE Bounded \/ Halted
  BY <1>3, <1>4 DEF Bounded, Halted
<1> QED  BY <1>1, <1>2, <1>3, <1>4 DEF Next

\* The invariant holds of every reachable state.
LEMMA Invariance == Spec => []IInv
BY InitIInv, NextIInv, PTL DEF Spec

-----------------------------------------------------------------------------
\* Type correctness: the tip, the window and the chain keep their types through
\* every seal, import and epoch change.
THEOREM TypeCorrect == Spec => []TypeOK
<1>1. IInv => TypeOK
  BY StartAssumption DEF IInv, TypeOK, WellFormed, Window
<1> QED  BY <1>1, Invariance, PTL

\* The window mirrors the chain: Recents holds only blocks of the window of the
\* set in force, with the signers the chain has, and no signer twice, through
\* every cleanup of apply.
THEOREM WindowCorrect == Spec => []RecentsMirrorChain
<1>1. IInv => RecentsMirrorChain
  <2> SUFFICES ASSUME IInv PROVE RecentsMirrorChain
    OBVIOUS
  <2>1. snap.number \in Nat /\ Limit(snap.validators) \in Nat
    BY LimitType DEF IInv, WellFormed
  <2> QED  BY <2>1 DEF IInv, RecentsMirrorChain, WellFormed, Window
<1> QED  BY <1>1, Invariance, PTL

\* What Seal permits and apply would refuse is the second block in a row of one
\* of two validators.
LEMMA PermittedUnlessSecond ==
    ASSUME NEW s, WellFormed(s), NEW v, SealPermits(s, s.number + 1, v),
           ~ SecondInARow(s, v)
    PROVE  v \in s.validators /\ v \notin Range(Shifted(s, s.number + 1))
<1> DEFINE sh == Shifted(s, s.number + 1)
<1>1. v \in s.validators
  BY DEF SealPermits
<1>2. CASE Cardinality(s.validators) # 2
  BY <1>1, <1>2, PermittedIsApplied
<1>3. CASE Cardinality(s.validators) = 2
  <2>1. s.number \in Nat /\ Limit(s.validators) = 2
    BY <1>3 DEF WellFormed, Limit
  <2>2. /\ Window(sh, (s.number + 1) - 2, s.number)
        /\ DOMAIN sh \subseteq DOMAIN s.recents
        /\ \A b \in DOMAIN sh : sh[b] = s.recents[b]
    BY <2>1, ShiftedWindow
  <2> HIDE DEF sh
  <2>3. \A b \in DOMAIN sh : b = s.number
    BY <2>1, <2>2 DEF Window
  <2>4. v \notin Range(sh)
    BY <1>3, <2>2, <2>3 DEF Range, SecondInARow
  <2> QED  BY <1>1, <2>4 DEF sh
<1> QED  BY <1>2, <1>3

\* Seal is sound: a block that Seal permits passes verifySeal on every node and
\* apply accepts it, but for the second block in a row of one of two
\* validators.
THEOREM SealIsSound == Spec => []SealSound
<1>1. IInv => SealSound
  <2> SUFFICES ASSUME IInv, usable, NEW v \in Address, NEW top \in ValidatorSets,
                      SealPermits(snap, snap.number + 1, v), ~ SecondInARow(snap, v)
               PROVE  VerifySeal(snap, Prepare(v, top)) /\ ApplyOK(snap, Prepare(v, top))
    BY DEF SealSound
  <2> DEFINE h == Prepare(v, top)
  <2>1. /\ h.number = snap.number + 1 /\ h.signer = v
        /\ h.difficulty = CalcDifficulty(snap, h.signer)
    BY DEF Prepare
  <2>2. WellFormed(snap)
    BY DEF IInv
  <2>3. v \in snap.validators /\ v \notin Range(Shifted(snap, snap.number + 1))
    BY <2>2, PermittedUnlessSecond
  <2> HIDE DEF h
  <2>4. ApplyOK(snap, h)
    BY <2>1, <2>3 DEF ApplyOK
  <2>5. VerifySeal(snap, h)
    BY <2>1, <2>2, <2>4, AppliedIsVerified
  <2> QED  BY <2>4, <2>5 DEF h
<1> QED  BY <1>1, Invariance, PTL

\* verifySeal is sound: past the first window after genesis an imported header
\* is one apply accepts.
THEOREM ImportIsSound == Spec => []VerifiedApplies
<1>1. IInv => VerifiedApplies
  <2> SUFFICES ASSUME IInv, usable, ~ BeforeWindow(snap),
                      NEW v \in Address, NEW top \in ValidatorSets,
                      VerifySeal(snap, Prepare(v, top))
               PROVE  ApplyOK(snap, Prepare(v, top))
    BY DEF VerifiedApplies
  <2> DEFINE h == Prepare(v, top)
  <2>1. h.number = snap.number + 1
    BY DEF Prepare
  <2>2. WellFormed(snap) /\ h.number >= Limit(snap.validators)
    BY <2>1, LimitType DEF IInv, WellFormed, BeforeWindow
  <2> HIDE DEF h
  <2> QED  BY <2>1, <2>2, VerifiedIsApplied DEF h
<1> QED  BY <1>1, Invariance, PTL

-----------------------------------------------------------------------------
\* A block that apply refuses is the second in a row of one of two validators,
\* or one of the first blocks after genesis.
HaltCause ==
    usable \/ BeforeWindow(snap) \/ SecondInARow(snap, chain[snap.number + 1].signer)

\* What a step does: nothing, or it writes a block.
LEMMA StepWrites ==
    ASSUME Next
    PROVE  \/ UNCHANGED vars
           \/ \E v \in Address, top \in ValidatorSets, d \in {diffInTurn, diffNoTurn} :
                LET h == [Prepare(v, top) EXCEPT !.difficulty = d]
                IN  /\ usable
                    /\ snap.number < MaxNumber
                    /\ Write(h)
                    /\ SealPermits(snap, snap.number + 1, v) \/ VerifySeal(snap, h)
<1>1. ASSUME NEW v \in Address, NEW top \in ValidatorSets, SealBlock(v, top)
      PROVE  \E d \in {diffInTurn, diffNoTurn} :
                LET h == [Prepare(v, top) EXCEPT !.difficulty = d]
                IN  /\ usable
                    /\ snap.number < MaxNumber
                    /\ Write(h)
                    /\ SealPermits(snap, snap.number + 1, v)
  <2> DEFINE d == CalcDifficulty(snap, v)
             h == [Prepare(v, top) EXCEPT !.difficulty = d]
  <2>1. h = Prepare(v, top)
    BY DEF Prepare
  <2>2. d \in {diffInTurn, diffNoTurn}
    BY DEF CalcDifficulty
  <2>3. usable /\ Write(h) /\ snap.number < MaxNumber /\ SealPermits(snap, snap.number + 1, v)
    BY <1>1, <2>1 DEF SealBlock
  <2> QED  BY <2>2, <2>3
<1>2. ASSUME NEW v \in Address, NEW top \in ValidatorSets,
             NEW d \in {diffInTurn, diffNoTurn}, ImportBlock(v, top, d)
      PROVE  LET h == [Prepare(v, top) EXCEPT !.difficulty = d]
             IN  /\ usable
                 /\ snap.number < MaxNumber
                 /\ Write(h)
                 /\ VerifySeal(snap, h)
  BY <1>2 DEF ImportBlock
<1>3. CASE Bounded \/ Halted
  BY <1>3 DEF Bounded, Halted
<1> QED  BY <1>1, <1>2, <1>3 DEF Next

\* A refused block has one of the two causes.
LEMMA WriteCause ==
    ASSUME IInv, NEW v \in Address, NEW h,
           h.number = snap.number + 1, h.signer = v, Write(h),
           SealPermits(snap, snap.number + 1, v) \/ VerifySeal(snap, h)
    PROVE  HaltCause'
<1>1. WellFormed(snap) /\ snap.number \in Nat /\ Limit(snap.validators) \in Nat
  BY LimitType DEF IInv, WellFormed
<1>2. CASE ApplyOK(snap, h)
  BY <1>2 DEF Write, HaltCause
<1>3. CASE ~ ApplyOK(snap, h)
  <2>1. snap' = snap /\ chain'[snap.number + 1].signer = v
    BY <1>3 DEF Write
  <2>2. BeforeWindow(snap) \/ SecondInARow(snap, v)
    <3>1. CASE SealPermits(snap, snap.number + 1, v)
      BY <1>1, <1>3, <3>1, PermittedUnlessSecond DEF ApplyOK
    <3>2. CASE VerifySeal(snap, h)
      <4>1. h.number < Limit(snap.validators)
        BY <1>1, <1>3, <3>2, VerifiedIsApplied
      <4> QED  BY <4>1 DEF BeforeWindow
    <3> QED  BY <3>1, <3>2
  <2> QED  BY <2>1, <2>2 DEF HaltCause, BeforeWindow, SecondInARow
<1> QED  BY <1>2, <1>3

\* No halt but the two: whatever the sequence of validator sets, all but
\* Limit - 1 of the validators may seal the next block, and a chain without a
\* snapshot at its tip is one of two validators, or within its first window.
THEOREM NeverHalts == Spec => []EnoughSealers
<1>1. Init => HaltCause
  BY DEF Init, HaltCause
<1>2. IInv /\ HaltCause /\ [Next]_vars => HaltCause'
  <2> SUFFICES ASSUME IInv, HaltCause, [Next]_vars PROVE HaltCause'
    OBVIOUS
  <2>1. CASE UNCHANGED vars
    BY <2>1 DEF vars, HaltCause, BeforeWindow, SecondInARow
  <2>2. CASE Next /\ ~ UNCHANGED vars
    <3>1. PICK v \in Address, top \in ValidatorSets, d \in {diffInTurn, diffNoTurn} :
             LET h == [Prepare(v, top) EXCEPT !.difficulty = d]
             IN  Write(h) /\ (SealPermits(snap, snap.number + 1, v) \/ VerifySeal(snap, h))
      BY <2>2, StepWrites
    <3> DEFINE h == [Prepare(v, top) EXCEPT !.difficulty = d]
    <3>2. h.number = snap.number + 1 /\ h.signer = v
      BY DEF Prepare
    <3>3. Write(h) /\ (SealPermits(snap, snap.number + 1, v) \/ VerifySeal(snap, h))
      BY <3>1
    <3> HIDE DEF h
    <3> QED  BY <3>2, <3>3, WriteCause
  <2> QED  BY <2>1, <2>2
<1>3. Spec => []HaltCause
  BY <1>1, <1>2, Invariance, PTL DEF Spec
<1>4. IInv /\ HaltCause => EnoughSealers
  BY ManyPermitted DEF IInv, EnoughSealers, HaltCause
<1> QED  BY <1>3, <1>4, Invariance, PTL

-----------------------------------------------------------------------------
(***************************************************************************)
(* Spacing.  The window forgets blocks, so SignersSpaced is not inductive; *)
(* the strengthening says why each forgotten block may be forgotten.       *)
(***************************************************************************)

\* The set that authorises block k of the chain or its next block.
SetAt(c, s, k) == IF k \in DOMAIN c THEN c[k].set ELSE s.validators

\* The signer of block a may sign block m.
Waited(c, s, a, m) ==
    \E k \in a + 1 .. m :
       \/ m - a >= Limit(SetAt(c, s, k))
       \/ m - a > Epoch /\ c[a].signer \notin SetAt(c, s, k)

\* Block a is in the window, or its signer has waited long enough for the next
\* block, or its signer has left the validators at an epoch since.
Accounted(c, s, a) ==
    \/ a \in DOMAIN s.recents
    \/ Waited(c, s, a, s.number + 1)
    \/ /\ c[a].signer \notin s.validators
       /\ \E e \in a .. s.number : IsEpoch(e)

SpacingInv ==
    /\ SignersSpaced
    /\ \A a \in DOMAIN chain : a <= snap.number => Accounted(chain, snap, a)

\* Waiting for block m is waiting for the next one.
LEMMA WaitedLonger ==
    ASSUME NEW c, NEW s, NEW c2, NEW s2, NEW a \in Nat, NEW m \in Nat, a < m,
           c2[a].signer = c[a].signer,
           \A k \in a + 1 .. m : /\ SetAt(c2, s2, k) = SetAt(c, s, k)
                                 /\ Limit(SetAt(c, s, k)) \in Nat,
           Waited(c, s, a, m)
    PROVE  Waited(c2, s2, a, m) /\ Waited(c2, s2, a, m + 1)
<1>1. PICK k \in a + 1 .. m :
         \/ m - a >= Limit(SetAt(c, s, k))
         \/ m - a > Epoch /\ c[a].signer \notin SetAt(c, s, k)
  BY DEF Waited
<1>2. /\ SetAt(c2, s2, k) = SetAt(c, s, k)
      /\ Limit(SetAt(c, s, k)) \in Nat
      /\ k \in a + 1 .. m + 1
  BY <1>1
<1>3. (m + 1) - a = (m - a) + 1 /\ m - a \in Nat
  OBVIOUS
<1>4. \/ /\ m - a >= Limit(SetAt(c2, s2, k))
         /\ (m + 1) - a >= Limit(SetAt(c2, s2, k))
      \/ /\ m - a > Epoch /\ (m + 1) - a > Epoch
         /\ c2[a].signer \notin SetAt(c2, s2, k)
  <2>1. CASE m - a >= Limit(SetAt(c, s, k))
    BY <1>2, <1>3, <2>1
  <2>2. CASE m - a > Epoch /\ c[a].signer \notin SetAt(c, s, k)
    BY <1>2, <1>3, <2>2, EpochAssumption
  <2> QED  BY <1>1, <2>1, <2>2
<1> QED  BY <1>1, <1>2, <1>4 DEF Waited

\* A block that apply refuses changes nothing of this.
LEMMA RefusedSpacing ==
    ASSUME IInv, SpacingInv, usable, NEW h,
           h.number = snap.number + 1, ~ ApplyOK(snap, h), Write(h)
    PROVE  SpacingInv'
<1> DEFINE n == snap.number + 1
<1>1. /\ snap.number \in Nat /\ Start \in Nat /\ n \in Nat
      /\ DOMAIN chain = Start + 1 .. snap.number
  BY StartAssumption DEF IInv, WellFormed
<1>2. /\ snap' = snap
      /\ DOMAIN chain' = (DOMAIN chain) \cup {n}
      /\ chain'[n].set = snap.validators
      /\ \A b \in DOMAIN chain : chain'[b] = chain[b]
  BY <1>1 DEF Write
<1>3. \A b \in DOMAIN chain' : b <= snap.number => b \in DOMAIN chain
  BY <1>1, <1>2
<1>4. \A k : SetAt(chain', snap', k) = SetAt(chain, snap, k)
  BY <1>1, <1>2 DEF SetAt
<1>5. ASSUME NEW a \in DOMAIN chain', NEW b \in DOMAIN chain',
             a < b, b <= snap.number, chain'[a].signer = chain'[b].signer
      PROVE  \E k \in a + 1 .. b :
                \/ b - a >= Limit(chain'[k].set)
                \/ b - a > Epoch /\ chain'[a].signer \notin chain'[k].set
  <2>1. a \in DOMAIN chain /\ b \in DOMAIN chain /\ \A k \in a + 1 .. b : k \in DOMAIN chain
    BY <1>1, <1>2, <1>5
  <2> QED  BY <1>2, <1>5, <2>1 DEF SpacingInv, SignersSpaced
<1>6. ASSUME NEW a \in DOMAIN chain', a <= snap.number
      PROVE  Accounted(chain', snap', a)
  <2>1. a \in DOMAIN chain /\ chain'[a] = chain[a]
    BY <1>2, <1>3, <1>6
  <2>2. Accounted(chain, snap, a)
    BY <1>6, <2>1 DEF SpacingInv
  <2> QED  BY <1>2, <1>4, <2>1, <2>2 DEF Accounted, Waited
<1>7. SignersSpaced'
  BY <1>2, <1>5 DEF SignersSpaced
<1> QED  BY <1>2, <1>6, <1>7 DEF SpacingInv

\* A block that apply accepts keeps the chain spaced and every block of it
\* accounted for.
LEMMA WriteSpacing ==
    ASSUME IInv, IInv', SpacingInv, usable,
           NEW v \in Address, NEW top \in ValidatorSets, NEW h,
           h.number = snap.number + 1, h.signer = v,
           h.extra = IF IsEpoch(snap.number + 1) THEN top ELSE {},
           snap.number < MaxNumber, ApplyOK(snap, h), Write(h)
    PROVE  SpacingInv'
<1> DEFINE n == snap.number + 1
           V == snap.validators
           L == Limit(V)
<1>1. /\ snap.number \in Nat /\ n \in Nat /\ Start \in Nat
      /\ DOMAIN chain = Start + 1 .. snap.number
      /\ WellFormed(snap)
      /\ L \in Nat \ {0}
      /\ 2 * L < Word
  <2>1. V \in ValidatorSets /\ V \in SUBSET Address /\ WellFormed(snap)
    BY DEF IInv, WellFormed
  <2>2. L \in Nat \ {0}
    BY <2>1, LimitType
  <2>3. 2 * L < Word
    BY <2>1, <2>2, WidthAssumption, StartAssumption, WordAssumption
  <2> QED  BY <2>1, <2>2, <2>3, StartAssumption DEF IInv, WellFormed
<1>2. /\ DOMAIN chain' = Start + 1 .. n
      /\ chain'[n].signer = v /\ chain'[n].set = V
      /\ \A b \in DOMAIN chain : b # n /\ b <= snap.number /\ chain'[b] = chain[b]
      /\ n \in DOMAIN chain'
      /\ snap' = Apply(snap, h)
  <2>1. DOMAIN chain' = (DOMAIN chain) \cup {n}
    BY DEF Write
  <2>2. (Start + 1 .. snap.number) \cup {n} = Start + 1 .. n
    BY <1>1, StartAssumption DEF IInv
  <2>3. n \notin DOMAIN chain /\ \A b \in DOMAIN chain : b <= snap.number
    BY <1>1
  <2> QED  BY <1>1, <2>1, <2>2, <2>3 DEF Write
<1>3. /\ snap'.number = n
      /\ snap'.validators = IF IsEpoch(n) THEN top ELSE V
  BY <1>2 DEF Apply
<1>4. \A k \in Start + 1 .. n : /\ SetAt(chain', snap', k) = SetAt(chain, snap, k)
                                /\ SetAt(chain', snap', k) = chain'[k].set
                                /\ Limit(SetAt(chain, snap, k)) \in Nat
  <2>1. \A k : SetAt(chain, snap, k) \in SUBSET Address
    BY ValidatorSetsAssumption DEF SetAt, IInv
  <2>2. \A k : Limit(SetAt(chain, snap, k)) \in Nat
    BY <2>1, LimitType
  <2>3. \A k \in Start + 1 .. n : SetAt(chain', snap', k) = SetAt(chain, snap, k)
    BY <1>1, <1>2 DEF SetAt
  <2>4. \A k \in Start + 1 .. n : SetAt(chain', snap', k) = chain'[k].set
    BY <1>2 DEF SetAt
  <2> QED  BY <2>2, <2>3, <2>4
<1>5. SetAt(chain', snap', n) = V /\ SetAt(chain', snap', n + 1) = snap'.validators
  BY <1>1, <1>2 DEF SetAt
<1>6. ASSUME NEW a \in DOMAIN chain, Waited(chain, snap, a, n)
      PROVE  Waited(chain', snap', a, n) /\ Waited(chain', snap', a, n + 1)
  <2>1. a \in Nat /\ a < n /\ n \in Nat /\ chain'[a].signer = chain[a].signer
    BY <1>1, <1>2
  <2>2. \A k \in a + 1 .. n : k \in Start + 1 .. n
    BY <1>1
  <2>3. \A k \in a + 1 .. n : /\ SetAt(chain', snap', k) = SetAt(chain, snap, k)
                             /\ Limit(SetAt(chain, snap, k)) \in Nat
    BY <1>4, <2>2
  <2> HIDE DEF n
  <2>4. PICK c, s, c2, s2 : c = chain /\ s = snap /\ c2 = chain' /\ s2 = snap'
    OBVIOUS
  <2>5. /\ c2[a].signer = c[a].signer /\ Waited(c, s, a, n)
        /\ \A k \in a + 1 .. n : /\ SetAt(c2, s2, k) = SetAt(c, s, k)
                                /\ Limit(SetAt(c, s, k)) \in Nat
    BY <1>6, <2>1, <2>3, <2>4
  <2>6. Waited(c2, s2, a, n) /\ Waited(c2, s2, a, n + 1)
    BY <2>1, <2>5, WaitedLonger
  <2> QED  BY <2>4, <2>6
<1>7. ASSUME NEW a \in DOMAIN chain, chain[a].signer = v
      PROVE  Waited(chain', snap', a, n)
  <2>1. a \in Nat /\ a <= snap.number /\ a >= Start + 1
    BY <1>1
  <2>2. CASE a \in DOMAIN snap.recents
    <3>1. snap.recents[a] = v
      BY <1>7, <2>2 DEF IInv
    <3>2. a = n - L
      <4>1. /\ \A b \in DOMAIN Shifted(snap, n) : Shifted(snap, n)[b] = snap.recents[b]
            /\ a \in DOMAIN Shifted(snap, n) \/ a = n - L
        BY <1>1, <2>2, ShiftedWindow
      <4> QED  BY <3>1, <4>1 DEF ApplyOK, Range
    <3>3. n - a >= Limit(SetAt(chain', snap', n))
      BY <1>1, <1>5, <3>2
    <3>4. n \in a + 1 .. n
      BY <1>1, <2>1
    <3> QED  BY <3>3, <3>4 DEF Waited
  <2>3. CASE Waited(chain, snap, a, n)
    BY <1>6, <2>3
  <2>4. v \in V
    BY DEF ApplyOK
  <2>5. Accounted(chain, snap, a)
    BY <2>1 DEF SpacingInv
  <2> QED  BY <1>7, <2>2, <2>3, <2>4, <2>5 DEF Accounted
<1>8. SignersSpaced'
  <2> SUFFICES ASSUME NEW a \in DOMAIN chain', NEW b \in DOMAIN chain',
                      a < b, chain'[a].signer = chain'[b].signer
               PROVE  \E k \in a + 1 .. b :
                         \/ b - a >= Limit(chain'[k].set)
                         \/ b - a > Epoch /\ chain'[a].signer \notin chain'[k].set
    BY DEF SignersSpaced
  <2>1. CASE b = n
    <3>1. a \in DOMAIN chain /\ chain[a].signer = v
      BY <1>1, <1>2, <2>1
    <3>2. PICK k \in a + 1 .. n :
             \/ n - a >= Limit(SetAt(chain', snap', k))
             \/ n - a > Epoch /\ chain'[a].signer \notin SetAt(chain', snap', k)
      BY <1>7, <3>1 DEF Waited
    <3>3. k \in Start + 1 .. n
      BY <1>1, <3>1
    <3> QED  BY <1>4, <2>1, <3>2, <3>3
  <2>2. CASE b # n
    <3>1. a \in DOMAIN chain /\ b \in DOMAIN chain
      BY <1>1, <1>2, <2>2
    <3>2. PICK k \in a + 1 .. b :
             \/ b - a >= Limit(chain[k].set)
             \/ b - a > Epoch /\ chain[a].signer \notin chain[k].set
      BY <1>2, <3>1 DEF SpacingInv, SignersSpaced
    <3>3. k \in DOMAIN chain
      BY <1>1, <3>1
    <3> QED  BY <1>2, <3>1, <3>2, <3>3
  <2> QED  BY <2>1, <2>2
<1>9. ASSUME NEW a \in DOMAIN chain'
      PROVE  Accounted(chain', snap', a)
  <2>1. a \in Nat /\ a <= n /\ a >= Start + 1
    BY <1>1, <1>2
  <2>2. ASSUME NEW k \in a + 1 .. n + 1,
               \/ n + 1 - a >= Limit(SetAt(chain', snap', k))
               \/ n + 1 - a > Epoch /\ chain'[a].signer \notin SetAt(chain', snap', k)
        PROVE  Accounted(chain', snap', a)
    <3>1. n + 1 - a = (n + 1) - a /\ n + 1 = snap'.number + 1
      BY <1>1, <1>3, <2>1
    <3>2. Waited(chain', snap', a, snap'.number + 1)
      BY <2>2, <3>1 DEF Waited
    <3> QED  BY <3>2 DEF Accounted
  <2>3. CASE a \in (DOMAIN snap.recents) \cup {n} /\ a \notin DOMAIN snap'.recents
    <3>1. IsEpoch(n) => /\ h.extra \in (SUBSET Address) \ {{}}
                        /\ h.extra = top
      BY ValidatorSetsAssumption
    <3>2. \/ a \in DOMAIN snap.recents /\ a = n - L
          \/ /\ IsEpoch(n)
             /\ \/ n + 1 - a >= Limit(h.extra)
                \/ (IF a = n THEN h.signer ELSE snap.recents[a]) \notin h.extra
      <4>1. /\ a \in (DOMAIN snap.recents) \cup {h.number}
            /\ a \notin DOMAIN Apply(snap, h).recents
        BY <1>2, <2>3
      <4>2. IsEpoch(h.number) => h.extra \in (SUBSET Address) \ {{}}
        BY <3>1
      <4>3. \/ a \in DOMAIN snap.recents /\ a = h.number - Limit(snap.validators)
            \/ /\ IsEpoch(h.number)
               /\ \/ h.number + 1 - a >= Limit(h.extra)
                  \/ (IF a = h.number THEN h.signer ELSE snap.recents[a]) \notin h.extra
        BY <1>1, <4>1, <4>2, ApplyForgets
      <4> QED  BY <4>3
    <3>3. CASE a \in DOMAIN snap.recents /\ a = n - L
      <4>1. n \in a + 1 .. n + 1 /\ n + 1 - a >= Limit(SetAt(chain', snap', n))
        BY <1>1, <1>5, <3>3
      <4> QED  BY <2>2, <4>1
    <3>4. CASE IsEpoch(n) /\ n + 1 - a >= Limit(h.extra)
      <4>1. n + 1 \in a + 1 .. n + 1 /\ n + 1 - a >= Limit(SetAt(chain', snap', n + 1))
        BY <1>1, <1>3, <1>5, <2>1, <3>1, <3>4
      <4> QED  BY <2>2, <4>1
    <3>5. CASE /\ IsEpoch(n)
               /\ (IF a = n THEN h.signer ELSE snap.recents[a]) \notin h.extra
      <4>1. chain'[a].signer = IF a = n THEN h.signer ELSE snap.recents[a]
        BY <1>2, <2>3 DEF IInv
      <4>2. chain'[a].signer \notin snap'.validators
        BY <1>3, <3>1, <3>5, <4>1
      <4>3. n \in a .. snap'.number
        BY <1>1, <1>3, <2>1
      <4> QED  BY <3>5, <4>2, <4>3 DEF Accounted
    <3> QED  BY <3>2, <3>3, <3>4, <3>5
  <2>4. CASE a \in DOMAIN snap'.recents
    BY <2>4 DEF Accounted
  <2>5. CASE a \notin (DOMAIN snap.recents) \cup {n}
    <3>1. a \in DOMAIN chain /\ chain'[a] = chain[a] /\ a <= snap.number
      BY <1>1, <1>2, <2>1, <2>5
    <3>2. CASE Waited(chain, snap, a, n)
      BY <1>3, <1>6, <3>1, <3>2 DEF Accounted
    <3>3. CASE chain[a].signer \notin V /\ \E e \in a .. snap.number : IsEpoch(e)
      <4>1. PICK e \in a .. snap.number : IsEpoch(e)
        BY <3>3
      <4>2. CASE ~ IsEpoch(n)
        <5>1. chain'[a].signer \notin snap'.validators
          BY <1>3, <3>1, <3>3, <4>2
        <5>2. e \in a .. snap'.number
          BY <1>1, <1>3, <2>1
        <5> QED  BY <4>1, <5>1, <5>2 DEF Accounted
      <4>3. CASE IsEpoch(n)
        <5>1. n - e >= Epoch /\ e \in Nat /\ e >= a
          BY <1>1, <2>1, <4>1, <4>3, EpochGap
        <5>2. n + 1 - a > Epoch /\ chain'[a].signer \notin SetAt(chain', snap', n)
          BY <1>1, <1>5, <2>1, <3>1, <3>3, <5>1, EpochAssumption
        <5>3. n \in a + 1 .. n + 1
          BY <1>1, <3>1
        <5> QED  BY <2>2, <5>2, <5>3
      <4> QED  BY <4>2, <4>3
    <3>4. Accounted(chain, snap, a)
      BY <3>1 DEF SpacingInv
    <3> QED  BY <2>5, <3>2, <3>3, <3>4 DEF Accounted
  <2> QED  BY <2>3, <2>4, <2>5
<1> QED  BY <1>8, <1>9 DEF SpacingInv

\* Signers are spaced: over any sequence of validator sets and cleanups, two
\* blocks of one signer that apply accepted are as far apart as the window of
\* some set in force between them, or more than an epoch for a signer that was
\* out of the set in between.
THEOREM SignersStaySpaced == Spec => []SignersSpaced
<1>1. Init => SpacingInv
  <2> SUFFICES ASSUME Init PROVE SpacingInv
    OBVIOUS
  <2>1. DOMAIN chain = {}
    BY DEF Init
  <2> QED  BY <2>1 DEF SpacingInv, SignersSpaced
<1>2. IInv /\ IInv' /\ SpacingInv /\ [Next]_vars => SpacingInv'
  <2> SUFFICES ASSUME IInv, IInv', SpacingInv, [Next]_vars PROVE SpacingInv'
    OBVIOUS
  <2>1. CASE UNCHANGED vars
    BY <2>1 DEF vars, SpacingInv, SignersSpaced, Accounted, Waited, SetAt
  <2>2. CASE Next /\ ~ UNCHANGED vars
    <3>1. PICK v \in Address, top \in ValidatorSets, d \in {diffInTurn, diffNoTurn} :
             LET h == [Prepare(v, top) EXCEPT !.difficulty = d]
             IN  usable /\ snap.number < MaxNumber /\ Write(h)
      BY <2>2, StepWrites
    <3> DEFINE h == [Prepare(v, top) EXCEPT !.difficulty = d]
    <3>2. /\ h.number = snap.number + 1 /\ h.signer = v
          /\ h.extra = IF IsEpoch(snap.number + 1) THEN top ELSE {}
      BY DEF Prepare
    <3>3. usable /\ snap.number < MaxNumber /\ Write(h)
      BY <3>1
    <3> HIDE DEF h
    <3>4. CASE ApplyOK(snap, h)
      BY <3>2, <3>3, <3>4, WriteSpacing
    <3>5. CASE ~ ApplyOK(snap, h)
      BY <3>2, <3>3, <3>5, RefusedSpacing
    <3> QED  BY <3>4, <3>5
  <2> QED  BY <2>1, <2>2
<1>3. SpacingInv => SignersSpaced
  BY DEF SpacingInv
<1> QED  BY <1>1, <1>2, <1>3, Invariance, PTL DEF Spec

=============================================================================
