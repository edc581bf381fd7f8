--------------------------- MODULE SnapshotProofs ---------------------------
(***************************************************************************)
(* Lemmas about the snapshot operators, for every validator set: apply     *)
(* keeps the window well formed through the cleanups of an epoch, a block  *)
(* Seal permits is accepted by verifySeal and apply unless there are       *)
(* exactly two validators, and a majority may always sign.                 *)
(***************************************************************************)
EXTENDS Snapshot, FiniteSetTheorems, TLAPS

\* The window of a validator set is a positive number of blocks, at most one
\* more than half the set.
LEMMA LimitType ==
    ASSUME NEW V \in SUBSET Address
    PROVE  /\ IsFiniteSet(V)
           /\ Cardinality(V) \in Nat
           /\ Limit(V) \in Nat \ {0}
           /\ V # {} => Cardinality(V) >= 1 /\ Limit(V) <= Cardinality(V)
<1>1. IsFiniteSet(V) /\ Cardinality(V) \in Nat
  BY AddressAssumption, FS_Subset, FS_CardinalityType
<1>2. V # {} => Cardinality(V) # 0
  BY <1>1, FS_EmptySet
<1> QED  BY <1>1, <1>2 DEF Limit

\* Deleting entries of a window leaves a window.
LEMMA RestrictWindow ==
    ASSUME NEW r, NEW lo \in Int, NEW hi \in Int, Window(r, lo, hi),
           NEW D \in SUBSET (DOMAIN r),
           NEW lo2 \in Int, \A b \in D : lo2 < b
    PROVE  /\ DOMAIN Restrict(r, D) = D
           /\ \A b \in D : Restrict(r, D)[b] = r[b]
           /\ Window(Restrict(r, D), lo2, hi)
<1>1. /\ DOMAIN Restrict(r, D) = D
      /\ \A b \in D : Restrict(r, D)[b] = r[b]
  BY DEF Restrict
<1>2. Restrict(r, D) \in [D -> Address]
  BY DEF Restrict, Window
<1>3. IsInjective(Restrict(r, D))
  BY <1>1 DEF IsInjective, Window
<1> QED  BY <1>1, <1>2, <1>3 DEF Window

\* The entry that block n shifts out was the only one the larger window of
\* the parent had in excess.
LEMMA ShiftedWindow ==
    ASSUME NEW s, WellFormed(s)
    PROVE  LET n == s.number + 1
           IN  /\ Window(Shifted(s, n), n - Limit(s.validators), s.number)
               /\ DOMAIN Shifted(s, n) \subseteq DOMAIN s.recents
               /\ \A b \in DOMAIN Shifted(s, n) : Shifted(s, n)[b] = s.recents[b]
               /\ \A b \in DOMAIN s.recents :
                     \/ b \in DOMAIN Shifted(s, n)
                     \/ n >= Limit(s.validators) /\ b = n - Limit(s.validators)
<1> DEFINE n == s.number + 1
           L == Limit(s.validators)
           r == s.recents
<1>1. n \in Nat /\ L \in Nat \ {0} /\ s.number \in Nat
  BY LimitType DEF WellFormed
<1>2. Window(r, s.number - L, s.number)
  BY DEF WellFormed
<1>3. CASE n >= L
  <2> DEFINE D == (DOMAIN r) \ {n - L}
  <2>1. Shifted(s, n) = Restrict(r, D)
    BY <1>3 DEF Shifted, Without
  <2>2. \A b \in D : n - L < b
    BY <1>1, <1>2 DEF Window
  <2>3. /\ DOMAIN Restrict(r, D) = D
        /\ \A b \in D : Restrict(r, D)[b] = r[b]
        /\ Window(Restrict(r, D), n - L, s.number)
    <3>1. s.number - L \in Int /\ n - L \in Int /\ s.number \in Int
      BY <1>1
    <3> HIDE DEF n, L, r
    <3> QED  BY <3>1, <1>2, <2>2, RestrictWindow
  <2> QED  BY <2>1, <2>3, <1>3
<1>4. CASE ~ (n >= L)
  <2>1. Shifted(s, n) = r
    BY <1>4 DEF Shifted
  <2>2. Window(r, n - L, s.number)
    BY <1>1, <1>2, <1>4 DEF Window
  <2> QED  BY <2>1, <2>2
<1> QED  BY <1>3, <1>4

\* A signer that is not in the shifted window extends it.
LEMMA EnteredShifted ==
    ASSUME NEW s, WellFormed(s), NEW h, ApplyOK(s, h)
    PROVE  LET n == h.number
               sh == Shifted(s, n)
               e == Entered(sh, n, h.signer)
           IN  /\ Window(e, n - Limit(s.validators), n)
               /\ DOMAIN e = (DOMAIN sh) \cup {n}
               /\ e[n] = h.signer
               /\ \A b \in DOMAIN sh : b # n /\ e[b] = sh[b]
<1> DEFINE n == h.number
           L == Limit(s.validators)
           sh == Shifted(s, n)
           e == Entered(sh, n, h.signer)
<1>1. n = s.number + 1 /\ n \in Nat /\ L \in Nat \ {0} /\ s.number \in Nat
  BY LimitType DEF ApplyOK, WellFormed
<1>2. Window(sh, n - L, s.number)
  BY <1>1, ShiftedWindow
<1>3. h.signer \in Address /\ h.signer \notin Range(sh)
  BY DEF ApplyOK, WellFormed
<1> HIDE DEF n, L, sh
<1>4. n \notin DOMAIN sh
  BY <1>1, <1>2 DEF Window
<1>5. /\ DOMAIN e = (DOMAIN sh) \cup {n}
      /\ e[n] = h.signer
      /\ \A b \in DOMAIN sh : b # n /\ e[b] = sh[b]
  BY <1>4 DEF Entered
<1>6. e \in [DOMAIN e -> Address]
  BY <1>2, <1>3 DEF Entered, Window
<1>7. DOMAIN e \subseteq Nat /\ \A b \in DOMAIN e : n - L < b /\ b <= n
  BY <1>1, <1>2, <1>5 DEF Window
<1>8. IsInjective(e)
  <2>1. \A b \in DOMAIN sh : sh[b] # h.signer
    BY <1>3 DEF Range
  <2> QED  BY <1>2, <1>5, <2>1 DEF IsInjective, Window
<1>9. Window(e, n - L, n)
  BY <1>5, <1>6, <1>7, <1>8 DEF Window
<1> QED  BY <1>5, <1>9 DEF n, sh, L

\* Whatever the change of the validator set, the cleanups keep a part of the
\* window, without the blocks that are too old for the new set.
LEMMA EpochCleanupKeeps ==
    ASSUME NEW r, NEW n, NEW old, NEW new
    PROVE  \E D \in SUBSET ((DOMAIN r) \ Expired(r, n, new)) :
              EpochCleanup(r, n, old, new) = Restrict(r, D)
<1> DEFINE X == (DOMAIN r) \ Expired(r, n, new)
<1>1. \A A : \A B \in SUBSET A : /\ DOMAIN Restrict(r, A) = A
                                 /\ Restrict(Restrict(r, A), B) = Restrict(r, B)
  BY DEF Restrict
<1>2. \E D \in SUBSET X : ExpansionCleanup(r, n, new) = Restrict(r, D)
  <2> DEFINE D == Newest(X, Cardinality(new) - 1)
  <2>1. D \in SUBSET X
    BY DEF Newest
  <2>2. ExpansionCleanup(r, n, new) = Restrict(Restrict(r, X), D)
    BY <1>1 DEF ExpansionCleanup, Without
  <2> HIDE DEF D, X
  <2> QED  BY <1>1, <2>1, <2>2
<1>3. \E D \in SUBSET X : ReductionCleanup(r, n, old, new) = Restrict(r, D)
  BY DEF ReductionCleanup, Without
<1>4. \E D \in SUBSET X : ReplacementCleanup(r, n, old, new) = Restrict(r, D)
  BY DEF ReplacementCleanup, Without
<1>5. ASSUME NEW A \in SUBSET X
      PROVE  \E D \in SUBSET X : EmergencyCleanup(Restrict(r, A), new) = Restrict(r, D)
  <2> DEFINE D == Newest(A, (Cardinality(new) * 2) \div 3)
  <2>1. D \in SUBSET A
    BY DEF Newest
  <2>2. EmergencyCleanup(Restrict(r, A), new) \in {Restrict(r, D), Restrict(r, A)}
    BY <1>1, <2>1 DEF EmergencyCleanup
  <2> HIDE DEF D, X
  <2> QED  BY <2>1, <2>2, <1>5
<1> SUFFICES \E D \in SUBSET X : EpochCleanup(r, n, old, new) = Restrict(r, D)
  OBVIOUS
<1> HIDE DEF X
<1>6. EpochCleanup(r, n, old, new) \in
        {EmergencyCleanup(ExpansionCleanup(r, n, new), new),
         EmergencyCleanup(ReductionCleanup(r, n, old, new), new),
         EmergencyCleanup(ReplacementCleanup(r, n, old, new), new)}
  BY DEF EpochCleanup
<1> QED  BY <1>2, <1>3, <1>4, <1>5, <1>6

-----------------------------------------------------------------------------
\* apply keeps the snapshot well formed, at an epoch too.  The second conjunct
\* says where its entries come from: the parent's window and the new signer.
LEMMA ApplyWellFormed ==
    ASSUME NEW s, WellFormed(s), NEW h, ApplyOK(s, h),
           IsEpoch(h.number) => h.extra \in (SUBSET Address) \ {{}}
    PROVE  /\ WellFormed(Apply(s, h))
           /\ Apply(s, h).number = s.number + 1
           /\ \A b \in DOMAIN Apply(s, h).recents :
                 \/ b = h.number /\ Apply(s, h).recents[b] = h.signer
                 \/ b \in DOMAIN s.recents /\ Apply(s, h).recents[b] = s.recents[b]
<1> DEFINE n == h.number
           V == s.validators
           L == Limit(V)
           sh == Shifted(s, n)
           e == Entered(sh, n, h.signer)
           s2 == Apply(s, h)
<1>1. n = s.number + 1 /\ n \in Nat /\ n > 0 /\ L \in Nat \ {0}
  BY LimitType DEF ApplyOK, WellFormed
<1>2. /\ Window(sh, n - L, n - 1)
      /\ DOMAIN sh \subseteq DOMAIN s.recents
      /\ \A b \in DOMAIN sh : sh[b] = s.recents[b]
  BY <1>1, ShiftedWindow DEF WellFormed
<1>3. /\ Window(e, n - L, n)
      /\ DOMAIN e = (DOMAIN sh) \cup {n}
      /\ e[n] = h.signer
      /\ \A b \in DOMAIN sh : b # n /\ e[b] = sh[b]
  BY EnteredShifted
<1>4. \A b \in DOMAIN e : \/ b = n /\ e[b] = h.signer
                          \/ b \in DOMAIN s.recents /\ e[b] = s.recents[b]
  BY <1>2, <1>3
<1>5. CASE ~ IsEpoch(n)
  <2>1. s2 = [number |-> n, validators |-> V, recents |-> e]
    BY <1>5 DEF Apply
  <2> HIDE DEF n, V, e, s2
  <2> QED  BY <1>1, <1>3, <1>4, <2>1 DEF WellFormed, V, n, s2
<1>6. CASE IsEpoch(n)
  <2> DEFINE new == h.extra
             c == EpochCleanup(e, n, V, new)
  <2>1. s2 = [number |-> n, validators |-> new, recents |-> c]
    BY <1>6 DEF Apply
  <2>2. new \in (SUBSET Address) \ {{}} /\ Limit(new) \in Nat \ {0}
    BY <1>6, LimitType
  <2>3. PICK D \in SUBSET ((DOMAIN e) \ Expired(e, n, new)) : c = Restrict(e, D)
    <3> HIDE DEF e, n, V
    <3> QED  BY EpochCleanupKeeps
  <2>4. \A b \in D : n - Limit(new) < b
    BY <2>2, <2>3, <1>1, <1>3 DEF Expired, Window
  <2>5. /\ DOMAIN c = D
        /\ \A b \in D : c[b] = e[b]
        /\ Window(c, n - Limit(new), n)
    <3>1. D \in SUBSET (DOMAIN e) /\ n - L \in Int /\ n \in Int /\ n - Limit(new) \in Int
      BY <1>1, <2>2, <2>3
    <3> HIDE DEF e, n, L, new, c
    <3> QED  BY <1>3, <2>3, <2>4, <3>1, RestrictWindow
  <2> HIDE DEF n, V, e, s2, c, new
  <2> QED  BY <1>1, <1>4, <2>1, <2>2, <2>3, <2>5 DEF WellFormed, n, s2
<1> QED  BY <1>5, <1>6

\* A header that apply accepts has a signer verifySeal does not take for a
\* recent one.
LEMMA AppliedIsVerified ==
    ASSUME NEW s, WellFormed(s), NEW h, ApplyOK(s, h),
           h.difficulty = CalcDifficulty(s, h.signer)
    PROVE  VerifySeal(s, h)
<1> DEFINE n == h.number
           L == Limit(s.validators)
           sh == Shifted(s, n)
<1>1. n = s.number + 1 /\ n \in Nat /\ L \in Nat \ {0}
  BY LimitType DEF ApplyOK, WellFormed
<1>2. /\ \A b \in DOMAIN sh : sh[b] = s.recents[b]
      /\ \A b \in DOMAIN s.recents : b \in DOMAIN sh \/ (n >= L /\ b = n - L)
  BY <1>1, ShiftedWindow
<1>3. ASSUME NEW seen \in DOMAIN s.recents, s.recents[seen] = h.signer
      PROVE  ~ (seen > USub(n, L))
  <2>1. seen \notin DOMAIN sh
    BY <1>2, <1>3 DEF ApplyOK, Range
  <2>2. n >= L /\ seen = n - L
    BY <1>2, <2>1
  <2> QED  BY <1>1, <2>2 DEF USub
<1>4. h.difficulty = IF InTurn(s, n, h.signer) THEN diffInTurn ELSE diffNoTurn
  BY <1>1 DEF CalcDifficulty
<1> QED  BY <1>3, <1>4 DEF VerifySeal, ApplyOK

\* Once block numbers have passed the window, verifySeal lets through nothing
\* that apply refuses.
LEMMA VerifiedIsApplied ==
    ASSUME NEW s, WellFormed(s), NEW h, h.number = s.number + 1,
           h.number >= Limit(s.validators), VerifySeal(s, h)
    PROVE  ApplyOK(s, h)
<1> DEFINE n == h.number
           L == Limit(s.validators)
           sh == Shifted(s, n)
<1>1. n \in Nat /\ L \in Nat \ {0}
  BY LimitType DEF WellFormed
<1>2. /\ Window(sh, n - L, s.number)
      /\ DOMAIN sh \subseteq DOMAIN s.recents
      /\ \A b \in DOMAIN sh : sh[b] = s.recents[b]
  BY ShiftedWindow
<1>3. ASSUME NEW b \in DOMAIN sh, sh[b] = h.signer
      PROVE  FALSE
  <2>1. ~ (b > USub(n, L))
    BY <1>2, <1>3 DEF VerifySeal
  <2>2. b \in Nat /\ b > n - L
    BY <1>2 DEF Window
  <2> QED  BY <1>1, <2>1, <2>2 DEF USub
<1>4. h.signer \notin Range(sh)
  BY <1>3 DEF Range
<1> QED  BY <1>4 DEF ApplyOK, VerifySeal

-----------------------------------------------------------------------------
\* With as many entries as the window has blocks, the oldest entry is the one
\* the next block shifts out.
LEMMA FullWindow ==
    ASSUME NEW r, NEW n \in Nat, NEW L \in Nat \ {0},
           Window(r, n - L, n), Cardinality(DOMAIN r) >= L
    PROVE  /\ Cardinality(DOMAIN r) = L
           /\ n + 1 - L \in DOMAIN r
<1> DEFINE I == (n + 1 - L) .. n
<1>1. IsFiniteSet(I) /\ Cardinality(I) = L
  <2>1. n + 1 - L \in Int /\ n \in Int
    OBVIOUS
  <2>2. /\ IsFiniteSet(I)
        /\ Cardinality(I) = IF n + 1 - L > n THEN 0 ELSE n - (n + 1 - L) + 1
    BY <2>1, FS_Interval
  <2> QED  BY <2>2
<1>2. DOMAIN r \in SUBSET I
  BY DEF Window
<1>3. /\ IsFiniteSet(DOMAIN r)
      /\ Cardinality(DOMAIN r) <= Cardinality(I)
      /\ Cardinality(I) = Cardinality(DOMAIN r) => I = DOMAIN r
  <2> HIDE DEF I
  <2> QED  BY <1>1, <1>2, FS_Subset
<1>4. Cardinality(DOMAIN r) \in Nat
  BY <1>3, FS_CardinalityType
<1>5. Cardinality(DOMAIN r) = L /\ I = DOMAIN r
  BY <1>1, <1>3, <1>4
<1> QED  BY <1>5

\* What Seal permits, apply accepts, unless there are exactly two validators:
\* with one, or with three and more, the overrides for a suspected deadlock
\* fire only for the signer whose entry the block shifts out anyway.
LEMMA PermittedIsApplied ==
    ASSUME NEW s, WellFormed(s), Cardinality(s.validators) # 2,
           NEW v, SealPermits(s, s.number + 1, v)
    PROVE  v \notin Range(Shifted(s, s.number + 1))
<1> DEFINE n == s.number + 1
           N == Cardinality(s.validators)
           L == Limit(s.validators)
           r == s.recents
           sh == Shifted(s, n)
<1>1. /\ s.number \in Nat /\ n \in Nat /\ L \in Nat \ {0}
      /\ N \in Nat /\ N >= 1 /\ L = (N \div 2) + 1
  BY LimitType DEF WellFormed, Limit
<1>2. /\ Window(r, s.number - L, s.number)
      /\ DOMAIN sh \subseteq DOMAIN r
      /\ \A b \in DOMAIN sh : sh[b] = r[b]
      /\ Window(sh, n - L, s.number)
  BY ShiftedWindow DEF WellFormed
<1>3. SUFFICES ASSUME NEW b \in DOMAIN sh, sh[b] = v
               PROVE  FALSE
  BY DEF Range
<1>4. b \in DOMAIN r /\ r[b] = v /\ b > n - L /\ b \in Nat
  BY <1>2, <1>3 DEF Window
<1>5. \A c \in DOMAIN r : r[c] = v => c = b
  BY <1>2, <1>4 DEF Window, IsInjective
<1>6. ~ LeavesWindow(s, n, b)
  BY <1>1, <1>4 DEF LeavesWindow
<1>7. ASSUME Cardinality(DOMAIN r) >= L, IsOldest(s, v)
      PROVE  FALSE
  <2>1. n - L \in DOMAIN r
    <3> HIDE DEF r, L
    <3> QED  BY <1>1, <1>2, <1>7, FullWindow
  <2>2. b <= n - L
    BY <1>4, <1>5, <1>7, <2>1 DEF IsOldest
  <2> QED  BY <1>1, <1>4, <2>2
<1>8. Cardinality(DOMAIN r) \in Nat
  <2>1. IsFiniteSet(DOMAIN r)
    BY <1>1, <1>2, FS_BoundedSetOfNaturals DEF Window
  <2> QED  BY <2>1, FS_CardinalityType
<1>9. ASSUME DeadlockOverride(s, v)
      PROVE  FALSE
  <2>1. Cardinality(DOMAIN r) >= (N * 3) \div 4 /\ IsOldest(s, v)
    BY <1>9 DEF DeadlockOverride
  <2>2. CASE N >= 3
    <3>1. (N * 3) \div 4 >= L
      BY <1>1, <2>2
    <3>2. (N * 3) \div 4 \in Nat
      BY <1>1
    <3> QED  BY <1>1, <1>7, <1>8, <2>1, <3>1, <3>2
  <2>3. CASE N = 1
    BY <1>1, <1>2, <1>4, <2>3 DEF Window
  <2> QED  BY <1>1, <2>2, <2>3
<1>10. ASSUME CompleteDeadlockOverride(s, n, v)
       PROVE  FALSE
  <2>1. Cardinality(DOMAIN r) >= N
    BY <1>10 DEF CompleteDeadlockOverride
  <2>2. CASE N >= 3
    <3>1. N > L
      BY <1>1, <2>2
    <3>2. Cardinality(DOMAIN r) >= L
      BY <1>1, <1>8, <2>1, <3>1
    <3>3. Cardinality(DOMAIN r) = L
      <4> HIDE DEF r, L
      <4> QED  BY <1>1, <1>2, <3>2, FullWindow
    <3> QED  BY <1>1, <2>1, <3>1, <3>3
  <2>3. CASE N = 1
    BY <1>1, <1>2, <1>4, <2>3 DEF Window
  <2> QED  BY <1>1, <2>2, <2>3
<1>11. v \in Range(r)
  BY <1>4 DEF Range
<1> QED  BY <1>4, <1>5, <1>6, <1>9, <1>10, <1>11 DEF SealPermits

\* Whom apply would accept, Seal permits: no validator waits without need.
LEMMA AppliedIsPermitted ==
    ASSUME NEW s, WellFormed(s), NEW v \in s.validators,
           v \notin Range(Shifted(s, s.number + 1))
    PROVE  SealPermits(s, s.number + 1, v)
<1> DEFINE n == s.number + 1
           L == Limit(s.validators)
           sh == Shifted(s, n)
<1>1. n \in Nat /\ L \in Nat \ {0}
  BY LimitType DEF WellFormed
<1>2. /\ \A b \in DOMAIN sh : sh[b] = s.recents[b]
      /\ \A b \in DOMAIN s.recents : b \in DOMAIN sh \/ (n >= L /\ b = n - L)
  BY ShiftedWindow
<1>3. ASSUME NEW seen \in DOMAIN s.recents, s.recents[seen] = v
      PROVE  LeavesWindow(s, n, seen)
  <2>1. seen \notin DOMAIN sh
    BY <1>2, <1>3 DEF Range
  <2> QED  BY <1>1, <1>2, <2>1 DEF LeavesWindow
<1> QED  BY <1>3 DEF SealPermits, Range

\* All but Limit - 1 validators may seal the next block.
LEMMA ManyPermitted ==
    ASSUME NEW s, WellFormed(s)
    PROVE  Cardinality({v \in s.validators : SealPermits(s, s.number + 1, v)})
             >= Cardinality(s.validators) - Limit(s.validators) + 1
<1> DEFINE n == s.number + 1
           V == s.validators
           L == Limit(V)
           sh == Shifted(s, n)
           R == Range(sh)
           P == {v \in V : SealPermits(s, n, v)}
<1>1. /\ s.number \in Nat /\ L \in Nat \ {0}
      /\ IsFiniteSet(V) /\ Cardinality(V) \in Nat
  BY LimitType DEF WellFormed
<1>2. Window(sh, n - L, s.number)
  BY ShiftedWindow
<1>3. IsFiniteSet(DOMAIN sh) /\ Cardinality(DOMAIN sh) <= L - 1
  <2> DEFINE I == (n - L + 1) .. s.number
  <2>1. IsFiniteSet(I) /\ Cardinality(I) = L - 1
    <3>1. n - L + 1 \in Int /\ s.number \in Int
      BY <1>1
    <3>2. /\ IsFiniteSet(I)
          /\ Cardinality(I) = IF n - L + 1 > s.number THEN 0 ELSE s.number - (n - L + 1) + 1
      BY <3>1, FS_Interval
    <3> QED  BY <1>1, <3>2
  <2>2. DOMAIN sh \in SUBSET I
    BY <1>1, <1>2 DEF Window
  <2> HIDE DEF I, sh, L
  <2> QED  BY <2>1, <2>2, FS_Subset
<1>4. IsFiniteSet(R) /\ Cardinality(R) <= Cardinality(DOMAIN sh)
  <2>1. sh \in Surjection(DOMAIN sh, R)
    BY <1>2 DEF Window, Surjection, Range
  <2> HIDE DEF sh, R
  <2> QED  BY <1>3, <2>1, FS_Surjection
<1>5. /\ IsFiniteSet(V \ R)
      /\ Cardinality(V \ R) = Cardinality(V) - Cardinality(V \cap R)
  BY <1>1, FS_Difference
<1>6. Cardinality(V \cap R) <= Cardinality(R)
  BY <1>4, FS_Intersection
<1>7. V \ R \in SUBSET P
  BY AppliedIsPermitted
<1>8. IsFiniteSet(P) /\ Cardinality(V \ R) <= Cardinality(P)
  <2>1. P \in SUBSET V
    OBVIOUS
  <2>2. IsFiniteSet(P)
    <3> HIDE DEF P, V
    <3> QED  BY <1>1, <2>1, FS_Subset
  <2> HIDE DEF P, V, R
  <2> QED  BY <1>7, <2>2, FS_Subset
<1>9. /\ Cardinality(P) \in Nat /\ Cardinality(R) \in Nat
      /\ Cardinality(V \cap R) \in Nat /\ Cardinality(DOMAIN sh) \in Nat
      /\ Cardinality(V \ R) \in Nat
  BY <1>1, <1>3, <1>4, <1>5, <1>8, FS_Intersection, FS_CardinalityType
<1>10. Cardinality(P) >= Cardinality(V) - L + 1
  <2> HIDE DEF P, V, R, sh, L
  <2> QED  BY <1>1, <1>3, <1>4, <1>5, <1>6, <1>8, <1>9
<1> QED  BY <1>10

-----------------------------------------------------------------------------
\* A window of L blocks has at most L entries.
LEMMA WindowSize ==
    ASSUME NEW r, NEW n \in Nat, NEW L \in Nat \ {0}, Window(r, n - L, n)
    PROVE  /\ IsFiniteSet(DOMAIN r)
           /\ Cardinality(DOMAIN r) \in Nat
           /\ Cardinality(DOMAIN r) <= L
<1> DEFINE I == (n + 1 - L) .. n
<1>1. n + 1 - L \in Int /\ n \in Int
  OBVIOUS
<1>2. /\ IsFiniteSet(I)
      /\ Cardinality(I) = IF n + 1 - L > n THEN 0 ELSE n - (n + 1 - L) + 1
  BY <1>1, FS_Interval
<1>3. Cardinality(I) = L
  BY <1>2
<1>4. DOMAIN r \in SUBSET I
  BY DEF Window
<1> HIDE DEF I
<1> QED  BY <1>2, <1>3, <1>4, FS_Subset, FS_CardinalityType

\* Clearing the oldest entries until k remain leaves a set of at most k alone.
LEMMA NewestKeepsSmall ==
    ASSUME NEW S, IsFiniteSet(S), S \subseteq Nat, NEW k \in Nat, Cardinality(S) <= k
    PROVE  Newest(S, k) = S
<1>1. ASSUME NEW b \in S
      PROVE  Cardinality({c \in S : c > b}) < k
  <2> DEFINE T == {c \in S : c > b}
             U == S \ {b}
  <2>1. IsFiniteSet(U) /\ Cardinality(U) = Cardinality(S) - 1
    BY FS_RemoveElement
  <2>2. T \in SUBSET U
    OBVIOUS
  <2>3. IsFiniteSet(T) /\ Cardinality(T) <= Cardinality(U)
    <3> HIDE DEF T, U
    <3> QED  BY <2>1, <2>2, FS_Subset
  <2>4. Cardinality(T) \in Nat /\ Cardinality(S) \in Nat
    BY <2>3, FS_CardinalityType
  <2> HIDE DEF T, U
  <2>5. Cardinality(T) < k
    BY <2>1, <2>3, <2>4
  <2> QED  BY <2>5 DEF T
<1> QED  BY <1>1 DEF Newest

\* What the cleanups of an epoch may forget: an entry is dropped only when it
\* has left the window of the new set or its signer is not in the new set.
LEMMA CleanupForgets ==
    ASSUME NEW r, NEW n \in Nat,
           NEW old \in (SUBSET Address) \ {{}}, NEW new \in (SUBSET Address) \ {{}},
           Window(r, n - Limit(old), n),
           2 * Limit(old) < Word,
           NEW a \in DOMAIN r, a \notin DOMAIN EpochCleanup(r, n, old, new)
    PROVE  n + 1 - a >= Limit(new) \/ r[a] \notin new
<1> DEFINE N == Cardinality(new)
           M == Cardinality(old)
           L == Limit(new)
           K == Limit(old)
           X == (DOMAIN r) \ Expired(r, n, new)
<1>1. /\ N \in Nat /\ N >= 1 /\ L \in Nat \ {0} /\ L = (N \div 2) + 1
      /\ M \in Nat /\ M >= 1 /\ K \in Nat \ {0} /\ K <= M /\ K = (M \div 2) + 1
  BY LimitType DEF Limit
<1>2. a \in Nat /\ a <= n /\ n - K < a
  BY DEF Window
<1>3. a \in Expired(r, n, new) => n + 1 - a >= L
  BY <1>1, <1>2 DEF Expired
<1>4. \A b \in X : n - L < b
  BY <1>1 DEF Expired, Window
<1>5. \A D : DOMAIN Restrict(r, D) = D
  BY DEF Restrict
<1>6. ASSUME NEW D \in SUBSET X, a \in D,
             a \notin DOMAIN EmergencyCleanup(Restrict(r, D), new)
      PROVE  n + 1 - a >= L
  <2>1. Cardinality(D) >= N
    BY <1>5, <1>6 DEF EmergencyCleanup
  <2>2. Window(Restrict(r, D), n - L, n)
    <3>1. /\ D \in SUBSET (DOMAIN r) /\ \A b \in D : n - L < b
          /\ n - K \in Int /\ n - L \in Int /\ n \in Int
      BY <1>1, <1>4
    <3> HIDE DEF L, K
    <3> QED  BY <3>1, RestrictWindow DEF K
  <2>3. Cardinality(D) \in Nat /\ Cardinality(D) <= L
    <3> HIDE DEF L
    <3> QED  BY <1>1, <1>5, <2>2, WindowSize
  <2>4. (N = 1 /\ L = 1) \/ (N = 2 /\ L = 2)
    <3> HIDE DEF N, L
    <3>1. N <= L
      BY <1>1, <2>1, <2>3
    <3> QED  BY <1>1, <3>1
  <2>5. CASE N = 1 /\ L = 1
    BY <1>2, <2>5
  <2>6. CASE N = 2 /\ L = 2
    <3>1. a \notin Newest(D, 1)
      <4>1. a \notin DOMAIN Restrict(Restrict(r, D), Newest(D, (N * 2) \div 3))
        BY <1>5, <1>6, <2>1 DEF EmergencyCleanup
      <4>2. (N * 2) \div 3 = 1
        BY <2>6
      <4> QED  BY <4>1, <4>2 DEF Restrict
    <3>2. a # n
      <4> SUFFICES ASSUME a = n PROVE FALSE
        OBVIOUS
      <4>1. {c \in D : c > a} = {}
        BY <2>2 DEF Window, Restrict
      <4>2. Cardinality({c \in D : c > a}) < 1
        BY <4>1, FS_EmptySet
      <4> QED  BY <1>6, <3>1, <4>2 DEF Newest
    <3> QED  BY <1>2, <2>6, <3>2
  <2> QED  BY <2>4, <2>5, <2>6
<1>7. CASE N > M
  <2> DEFINE D == Newest(X, N - 1)
  <2>1. EpochCleanup(r, n, old, new) = EmergencyCleanup(ExpansionCleanup(r, n, new), new)
    BY <1>7 DEF EpochCleanup
  <2>2. ExpansionCleanup(r, n, new) = Restrict(r, D)
    BY <1>5 DEF ExpansionCleanup, Without, Restrict, Newest
  <2>3. D = X
    <3>1. IsFiniteSet(DOMAIN r) /\ Cardinality(DOMAIN r) \in Nat /\ Cardinality(DOMAIN r) <= K
      <4> HIDE DEF K
      <4> QED  BY <1>1, WindowSize DEF K
    <3>2. X \in SUBSET (DOMAIN r) /\ X \subseteq Nat
      BY DEF Window
    <3>3. IsFiniteSet(X) /\ Cardinality(X) \in Nat /\ Cardinality(X) <= Cardinality(DOMAIN r)
      <4> HIDE DEF X
      <4> QED  BY <3>1, <3>2, FS_Subset, FS_CardinalityType
    <3>4. N - 1 \in Nat /\ Cardinality(X) <= N - 1
      BY <1>1, <1>7, <3>1, <3>3
    <3> HIDE DEF X, N
    <3> QED  BY <3>2, <3>3, <3>4, NewestKeepsSmall
  <2>4. a \notin X => n + 1 - a >= L
    BY <1>3
  <2> HIDE DEF X, D, L
  <2> QED  BY <1>6, <2>1, <2>2, <2>3, <2>4 DEF L
<1>8. CASE ~ (N > M) /\ N < M
  <2> DEFINE G == {USub(n, K + i) : i \in 0 .. ((M \div 2) - (N \div 2) - 1)}
             D == (DOMAIN r) \ (G \cup Expired(r, n, new))
  <2>1. EpochCleanup(r, n, old, new) = EmergencyCleanup(Restrict(r, D), new)
    BY <1>8 DEF EpochCleanup, ReductionCleanup, Without
  <2>2. a \notin G
    <3> SUFFICES ASSUME NEW i \in 0 .. ((M \div 2) - (N \div 2) - 1), a = USub(n, K + i)
                 PROVE  FALSE
      OBVIOUS
    <3>1. i \in Nat /\ K + i < 2 * K
      BY <1>1
    <3> QED  BY <1>1, <1>2, <3>1, WordAssumption DEF USub
  <2>3. a \notin D => n + 1 - a >= L
    BY <1>3, <2>2
  <2>4. D \in SUBSET X
    OBVIOUS
  <2> HIDE DEF X, D, L
  <2> QED  BY <1>6, <2>1, <2>3, <2>4 DEF L
<1>9. CASE ~ (N > M) /\ ~ (N < M)
  <2> DEFINE G == IF new \subseteq old THEN {} ELSE {b \in DOMAIN r : r[b] \notin new}
             D == (DOMAIN r) \ (G \cup Expired(r, n, new))
  <2>1. EpochCleanup(r, n, old, new) = EmergencyCleanup(Restrict(r, D), new)
    BY <1>9 DEF EpochCleanup, ReplacementCleanup, Without
  <2>2. a \notin D => n + 1 - a >= L \/ r[a] \notin new
    BY <1>3
  <2>3. D \in SUBSET X
    OBVIOUS
  <2> HIDE DEF X, D, L
  <2> QED  BY <1>6, <2>1, <2>2, <2>3 DEF L
<1> QED  BY <1>7, <1>8, <1>9

\* The same for apply: a block of the parent's window, or the block itself, is
\* missing from the new window only when it was shifted out, has left the
\* window of a new set, or has a signer that the new set dropped.
LEMMA ApplyForgets ==
    ASSUME NEW s, WellFormed(s), NEW h, ApplyOK(s, h),
           IsEpoch(h.number) => h.extra \in (SUBSET Address) \ {{}},
           2 * Limit(s.validators) < Word,
           NEW a \in (DOMAIN s.recents) \cup {h.number},
           a \notin DOMAIN Apply(s, h).recents
    PROVE  \/ a \in DOMAIN s.recents /\ a = h.number - Limit(s.validators)
           \/ /\ IsEpoch(h.number)
              /\ \/ h.number + 1 - a >= Limit(h.extra)
                 \/ (IF a = h.number THEN h.signer ELSE s.recents[a]) \notin h.extra
<1> DEFINE n == h.number
           V == s.validators
           L == Limit(V)
           sh == Shifted(s, n)
           e == Entered(sh, n, h.signer)
<1>1. n = s.number + 1 /\ n \in Nat /\ L \in Nat \ {0} /\ s.number \in Nat
  BY LimitType DEF ApplyOK, WellFormed
<1>2. /\ Window(sh, n - L, s.number)
      /\ \A b \in DOMAIN sh : sh[b] = s.recents[b]
      /\ \A b \in DOMAIN s.recents : b \in DOMAIN sh \/ b = n - L
  BY <1>1, ShiftedWindow
<1>3. /\ Window(e, n - L, n)
      /\ DOMAIN e = (DOMAIN sh) \cup {n}
      /\ e[n] = h.signer
      /\ \A b \in DOMAIN sh : b # n /\ e[b] = sh[b]
  BY EnteredShifted
<1>4. CASE a \notin DOMAIN e
  BY <1>2, <1>3, <1>4
<1>5. CASE a \in DOMAIN e
  <2>1. IsEpoch(n) /\ a \notin DOMAIN EpochCleanup(e, n, V, h.extra)
    BY <1>5 DEF Apply
  <2>2. e[a] = IF a = n THEN h.signer ELSE s.recents[a]
    BY <1>2, <1>3, <1>5
  <2>3. V \in (SUBSET Address) \ {{}} /\ h.extra \in (SUBSET Address) \ {{}}
    BY <2>1 DEF WellFormed
  <2>4. n + 1 - a >= Limit(h.extra) \/ e[a] \notin h.extra
    <3>1. Window(e, n - Limit(V), n) /\ 2 * Limit(V) < Word
      BY <1>3, <2>1
    <3> HIDE DEF e, n, V
    <3> QED  BY <1>1, <1>5, <2>1, <2>3, <3>1, CleanupForgets
  <2> QED  BY <2>1, <2>2, <2>4
<1> QED  BY <1>4, <1>5

\* Two epoch blocks are at least an epoch apart.
LEMMA EpochGap ==
    ASSUME NEW e \in Nat, NEW n \in Nat, IsEpoch(e), IsEpoch(n), e < n
    PROVE  n - e >= Epoch
<1>1. /\ e = Epoch * (e \div Epoch) + (e % Epoch) /\ e \div Epoch \in Nat
      /\ n = Epoch * (n \div Epoch) + (n % Epoch) /\ n \div Epoch \in Nat
  BY EpochAssumption
<1> DEFINE p == e \div Epoch
           q == n \div Epoch
<1>2. p \in Nat /\ q \in Nat /\ e = Epoch * p /\ n = Epoch * q
  <2>1. e % Epoch = 0 /\ n % Epoch = 0
    BY DEF IsEpoch
  <2>2. Epoch * p \in Nat /\ Epoch * q \in Nat
    BY <1>1, EpochAssumption
  <2> QED  BY <1>1, <2>1, <2>2
<1> HIDE DEF p, q
<1>3. p < q
  <2> SUFFICES ASSUME q <= p PROVE FALSE
    BY <1>2
  <2>1. Epoch * q <= Epoch * p
    BY <1>2, EpochAssumption
  <2> QED  BY <1>2, <2>1
<1>4. Epoch * (p + 1) <= Epoch * q
  BY <1>2, <1>3, EpochAssumption
<1>5. Epoch * (p + 1) = Epoch * p + Epoch
  BY <1>2, EpochAssumption
<1> QED  BY <1>2, <1>4, <1>5, EpochAssumption

=============================================================================
