----------------------- MODULE SystemContractsProofs -----------------------
(***************************************************************************)
(* The system contracts, for any validators, stakers, amounts, proposals   *)
(* and number of blocks: the highest set is sound, the punish list agrees  *)
(* with the indices recorded in it, a validator that was jailed or has     *)
(* lost its stake comes back only by a vote, the coins of the ledger add   *)
(* up, every stake can be taken back, and the storage has its types.  The  *)
(* second part is about Rewards: the coins change nothing in the contracts *)
(* (so that all of this holds with them), jailed validators earn nothing,  *)
(* and the contract can pay what it owes.                                  *)
(***************************************************************************)
EXTENDS Rewards, SequenceTheorems, FiniteSetTheorems, TLAPS

-----------------------------------------------------------------------------
(***************************************************************************)
(* Sums over finite sets.  SumFunctionOnSet is defined by a recursive      *)
(* function over the subsets of the set; what is proved about it goes by a *)
(* least subset for which it would fail.                                   *)
(***************************************************************************)

\* A set of subsets of a finite set has a minimal one.
LEMMA LeastSubset ==
    ASSUME NEW S, IsFiniteSet(S), NEW T, T \subseteq SUBSET S, T # {}
    PROVE  \E A \in T : \A B \in T : ~ (B \subseteq A /\ B # A)
<1>1. FiniteSubsetsOf(S) = SUBSET S
  BY FS_FiniteSubsetsOfFinite
<1>2. IsWellFoundedOn(StrictSubsetOrdering(S), SUBSET S)
  BY <1>1, FS_StrictSubsetOrderingWellFounded
<1>3. PICK A \in T : \A B \in T : ~ (<<B, A>> \in StrictSubsetOrdering(S))
  BY <1>2, WFMin
<1> QED
  BY <1>3 DEF StrictSubsetOrdering

Pick(s) == CHOOSE x \in s : TRUE

\* The partial sums over the subsets of S, in the order of Pick.
Sums(g, f, S) ==
    g = [s \in SUBSET S |-> IF s = {} THEN 0 ELSE f[Pick(s)] + g[s \ {Pick(s)}]]

LEMMA PickIn == ASSUME NEW s, s # {} PROVE Pick(s) \in s
BY DEF Pick

LEMMA SumsAt ==
    ASSUME NEW g, NEW f, NEW S, Sums(g, f, S), NEW s \in SUBSET S
    PROVE  g[s] = IF s = {} THEN 0 ELSE f[Pick(s)] + g[s \ {Pick(s)}]
BY DEF Sums

LEMMA SumsAgree ==
    ASSUME NEW f, NEW A, NEW B, NEW g, NEW h, Sums(g, f, A), Sums(h, f, B),
           NEW S, IsFiniteSet(S), S \subseteq A, S \subseteq B
    PROVE  g[S] = h[S]
<1> DEFINE T == {s \in SUBSET S : g[s] # h[s]}
<1>1. ASSUME T # {} PROVE FALSE
  <2>1. PICK s \in T : \A r \in T : ~ (r \subseteq s /\ r # s)
    <3> HIDE DEF T
    <3>1. T \subseteq SUBSET S
      BY DEF T
    <3> QED
      BY <1>1, <3>1, LeastSubset
  <2>2. s \in SUBSET A /\ s \in SUBSET B /\ s \in SUBSET S /\ g[s] # h[s]
    OBVIOUS
  <2>3. /\ g[s] = IF s = {} THEN 0 ELSE f[Pick(s)] + g[s \ {Pick(s)}]
        /\ h[s] = IF s = {} THEN 0 ELSE f[Pick(s)] + h[s \ {Pick(s)}]
    BY <2>2, SumsAt
  <2>4. s # {}
    BY <2>2, <2>3
  <2>5. Pick(s) \in s
    BY <2>4, PickIn
  <2>6. s \ {Pick(s)} \notin T
    BY <2>1, <2>5
  <2>7. g[s \ {Pick(s)}] = h[s \ {Pick(s)}]
    BY <2>2, <2>6
  <2> QED
    BY <2>2, <2>3, <2>7
<1> QED
  BY <1>1

LEMMA SumsExist ==
    ASSUME NEW f, NEW S, IsFiniteSet(S)
    PROVE  \E g : Sums(g, f, S)
<1> DEFINE T == {A \in SUBSET S : ~ \E g : Sums(g, f, A)}
           G(A) == CHOOSE g : Sums(g, f, A)
<1>1. ASSUME T # {} PROVE FALSE
  <2>1. PICK A \in T : \A B \in T : ~ (B \subseteq A /\ B # A)
    <3> HIDE DEF T
    <3>1. T \subseteq SUBSET S
      BY DEF T
    <3> QED
      BY <1>1, <3>1, LeastSubset
  <2>2. A \in SUBSET S /\ ~ \E g : Sums(g, f, A)
    OBVIOUS
  <2>3. ASSUME NEW B \in SUBSET A, B # A PROVE Sums(G(B), f, B) /\ IsFiniteSet(B)
    <3>1. B \in SUBSET S /\ B \notin T
      BY <2>1, <2>2, <2>3
    <3>2. \E g : Sums(g, f, B)
      BY <3>1
    <3>3. IsFiniteSet(B)
      BY <3>1, FS_Subset
    <3> QED
      BY <3>2, <3>3
  <2> DEFINE g == [s \in SUBSET A |->
                     IF s # A THEN G(s)[s]
                     ELSE IF A = {} THEN 0
                     ELSE f[Pick(A)] + G(A \ {Pick(A)})[A \ {Pick(A)}]]
  <2> HIDE DEF T, G
  <2>4. ASSUME NEW s \in SUBSET A
        PROVE  g[s] = IF s = {} THEN 0 ELSE f[Pick(s)] + g[s \ {Pick(s)}]
    <3>1. CASE s = {}
      <4>1. s # A => G(s)[s] = 0
        BY <2>3, <3>1, SumsAt
      <4> QED
        BY <3>1, <4>1
    <3>2. CASE s # {} /\ s = A
      <4>1. Pick(s) \in s
        BY <3>2, PickIn
      <4>2. s \ {Pick(s)} \in SUBSET A /\ s \ {Pick(s)} # A
        BY <3>2, <4>1
      <4> QED
        BY <3>2, <4>2
    <3>3. CASE s # {} /\ s # A
      <4>1. Pick(s) \in s
        BY <3>3, PickIn
      <4> DEFINE r == s \ {Pick(s)}
      <4>2. r \in SUBSET A /\ r # A /\ r \subseteq s
        BY <3>3, <4>1
      <4>3. Sums(G(s), f, s) /\ Sums(G(r), f, r) /\ IsFiniteSet(r)
        BY <2>3, <3>3, <4>2
      <4>4. G(s)[r] = G(r)[r]
        <5> HIDE DEF r
        <5> QED
          BY <4>2, <4>3, SumsAgree
      <4>5. G(s)[s] = f[Pick(s)] + G(s)[r]
        BY <3>3, <4>3, SumsAt
      <4> QED
        BY <3>3, <4>2, <4>4, <4>5
    <3> QED
      BY <3>1, <3>2, <3>3
  <2>5. Sums(g, f, A)
    <3>1. DOMAIN g = SUBSET A /\ g = [s \in SUBSET A |-> g[s]]
      OBVIOUS
    <3> HIDE DEF g
    <3> QED
      BY <2>4, <3>1 DEF Sums
  <2> QED
    BY <2>2, <2>5
<1>2. S \in SUBSET S
  OBVIOUS
<1> QED
  BY <1>1, <1>2

\* SumFunctionOnSet adds up along Pick.
LEMMA SumIsSums ==
    ASSUME NEW f, NEW S, IsFiniteSet(S)
    PROVE  \E g : Sums(g, f, S) /\ SumFunctionOnSet(f, S) = g[S]
<1> DEFINE g == CHOOSE h : Sums(h, f, S)
<1>1. Sums(g, f, S)
  BY SumsExist
<1>2. SumFunctionOnSet(f, S) = g[S]
  BY DEF SumFunctionOnSet, FoldFunctionOnSet, MapThenFoldSet, Sums, Pick
<1> QED
  BY <1>1, <1>2


LEMMA SumEmpty == ASSUME NEW f PROVE SumFunctionOnSet(f, {}) = 0
<1>1. IsFiniteSet({})
  BY FS_EmptySet
<1>2. PICK g : Sums(g, f, {}) /\ SumFunctionOnSet(f, {}) = g[{}]
  BY <1>1, SumIsSums
<1> QED  BY <1>2, SumsAt

LEMMA SumPick ==
    ASSUME NEW f, NEW S, IsFiniteSet(S), S # {}
    PROVE  SumFunctionOnSet(f, S)
              = f[Pick(S)] + SumFunctionOnSet(f, S \ {Pick(S)})
<1> DEFINE r == S \ {Pick(S)}
<1>1. PICK g : Sums(g, f, S) /\ SumFunctionOnSet(f, S) = g[S]
  BY SumIsSums
<1>2. IsFiniteSet(r) /\ r \subseteq S
  BY FS_Subset
<1> HIDE DEF r
<1>3. PICK h : Sums(h, f, r) /\ SumFunctionOnSet(f, r) = h[r]
  BY <1>2, SumIsSums
<1>4. g[r] = h[r]
  BY <1>1, <1>2, <1>3, SumsAgree
<1>5. g[S] = f[Pick(S)] + g[r]
  BY <1>1, SumsAt DEF r
<1> QED  BY <1>1, <1>3, <1>4, <1>5 DEF r

\* Any element may be taken out of a sum first.
LEMMA SumRemove ==
    ASSUME NEW f, NEW S, IsFiniteSet(S), NEW y \in S, \A x \in S : f[x] \in Int
    PROVE  /\ SumFunctionOnSet(f, S) \in Int
           /\ SumFunctionOnSet(f, S) = f[y] + SumFunctionOnSet(f, S \ {y})
<1> DEFINE T == {A \in SUBSET S :
                   ~ /\ SumFunctionOnSet(f, A) \in Int
                     /\ \A z \in A : SumFunctionOnSet(f, A)
                                        = f[z] + SumFunctionOnSet(f, A \ {z})}
<1>1. ASSUME T # {} PROVE FALSE
  <2>1. PICK A \in T : \A B \in T : ~ (B \subseteq A /\ B # A)
    <3> HIDE DEF T
    <3>1. T \subseteq SUBSET S
      BY DEF T
    <3> QED  BY <1>1, <3>1, LeastSubset
  <2>2. A \in SUBSET S /\ IsFiniteSet(A)
    BY FS_Subset
  <2>3. A # {}
    BY SumEmpty
  <2>4. PICK p : p = Pick(A)
    OBVIOUS
  <2>5. p \in A /\ SumFunctionOnSet(f, A) = f[p] + SumFunctionOnSet(f, A \ {p})
    BY <2>2, <2>3, <2>4, PickIn, SumPick
  <2>6. ASSUME NEW B \in SUBSET A, B # A
        PROVE  /\ SumFunctionOnSet(f, B) \in Int
               /\ \A z \in B : SumFunctionOnSet(f, B)
                                  = f[z] + SumFunctionOnSet(f, B \ {z})
    <3>1. B \in SUBSET S /\ B \notin T
      BY <2>1, <2>2, <2>6
    <3> QED  BY <3>1
  <2>7. SumFunctionOnSet(f, A) \in Int
    BY <2>2, <2>5, <2>6
  <2>8. ASSUME NEW z \in A
        PROVE  SumFunctionOnSet(f, A) = f[z] + SumFunctionOnSet(f, A \ {z})
    <3>1. CASE z = p
      BY <2>5, <3>1
    <3>2. CASE z # p
      <4>1. PICK C : C = A \ {p, z}
        OBVIOUS
      <4>2. (A \ {p}) \ {z} = C /\ (A \ {z}) \ {p} = C /\ C \in SUBSET A /\ C # A
        BY <2>5, <4>1
      <4>3. SumFunctionOnSet(f, A \ {p}) = f[z] + SumFunctionOnSet(f, C)
        BY <2>5, <2>6, <3>2, <4>2
      <4>4. SumFunctionOnSet(f, A \ {z}) = f[p] + SumFunctionOnSet(f, C)
        <5>1. A \ {z} \in SUBSET A /\ A \ {z} # A /\ p \in A \ {z}
          BY <2>5, <3>2
        <5> QED  BY <2>6, <4>2, <5>1
      <4>5. f[z] \in Int /\ f[p] \in Int /\ SumFunctionOnSet(f, C) \in Int
        BY <2>2, <2>5, <2>6, <4>2
      <4> QED  BY <2>5, <4>3, <4>4, <4>5
    <3> QED  BY <3>1, <3>2
  <2> QED  BY <2>2, <2>7, <2>8
<1>2. S \in SUBSET S
  OBVIOUS
<1> QED  BY <1>1, <1>2

LEMMA SumInt ==
    ASSUME NEW f, NEW S, IsFiniteSet(S), \A x \in S : f[x] \in Int
    PROVE  SumFunctionOnSet(f, S) \in Int
<1>1. CASE S = {}
  BY <1>1, SumEmpty
<1>2. CASE S # {}
  BY <1>2, SumRemove
<1> QED  BY <1>1, <1>2

\* A sum is bounded termwise.
LEMMA SumLeq ==
    ASSUME NEW f, NEW g, NEW S, IsFiniteSet(S),
           \A x \in S : f[x] \in Int /\ g[x] \in Int /\ f[x] <= g[x]
    PROVE  SumFunctionOnSet(f, S) <= SumFunctionOnSet(g, S)
<1> DEFINE T == {A \in SUBSET S :
                   ~ (SumFunctionOnSet(f, A) <= SumFunctionOnSet(g, A))}
<1>1. ASSUME T # {} PROVE FALSE
  <2>1. PICK A \in T : \A B \in T : ~ (B \subseteq A /\ B # A)
    <3> HIDE DEF T
    <3>1. T \subseteq SUBSET S
      BY DEF T
    <3> QED  BY <1>1, <3>1, LeastSubset
  <2>2. A \in SUBSET S /\ IsFiniteSet(A)
    BY FS_Subset
  <2>3. A # {}
    BY SumEmpty
  <2>4. PICK p \in A : TRUE
    BY <2>3
  <2>5. PICK B : B = A \ {p}
    OBVIOUS
  <2>6. B \in SUBSET S /\ B \notin T /\ IsFiniteSet(B)
    BY <2>1, <2>2, <2>4, <2>5, FS_Subset
  <2>7. /\ SumFunctionOnSet(f, A) = f[p] + SumFunctionOnSet(f, B)
        /\ SumFunctionOnSet(g, A) = g[p] + SumFunctionOnSet(g, B)
    BY <2>2, <2>5, SumRemove
  <2>8. SumFunctionOnSet(f, B) \in Int /\ SumFunctionOnSet(g, B) \in Int
    BY <2>6, SumInt
  <2>9. f[p] \in Int /\ g[p] \in Int /\ f[p] <= g[p]
    BY <2>2, <2>4
  <2> QED  BY <2>6, <2>7, <2>8, <2>9
<1>2. S \in SUBSET S
  OBVIOUS
<1> QED  BY <1>1, <1>2

LEMMA SumCong ==
    ASSUME NEW f, NEW g, NEW S, IsFiniteSet(S),
           \A x \in S : f[x] \in Int /\ f[x] = g[x]
    PROVE  SumFunctionOnSet(f, S) = SumFunctionOnSet(g, S)
<1>1. /\ SumFunctionOnSet(f, S) <= SumFunctionOnSet(g, S)
      /\ SumFunctionOnSet(g, S) <= SumFunctionOnSet(f, S)
  BY SumLeq
<1>2. SumFunctionOnSet(f, S) \in Int /\ SumFunctionOnSet(g, S) \in Int
  BY SumInt
<1> QED  BY <1>1, <1>2

\* Two functions that differ in one point.
LEMMA SumPoint ==
    ASSUME NEW f, NEW g, NEW S, IsFiniteSet(S), NEW y \in S,
           \A x \in S : f[x] \in Int /\ g[x] \in Int,
           \A x \in S \ {y} : f[x] = g[x]
    PROVE  SumFunctionOnSet(g, S) = SumFunctionOnSet(f, S) - f[y] + g[y]
<1>1. IsFiniteSet(S \ {y})
  BY FS_Subset
<1>2. SumFunctionOnSet(f, S \ {y}) = SumFunctionOnSet(g, S \ {y})
  BY <1>1, SumCong
<1>3. /\ SumFunctionOnSet(f, S) = f[y] + SumFunctionOnSet(f, S \ {y})
      /\ SumFunctionOnSet(g, S) = g[y] + SumFunctionOnSet(g, S \ {y})
  BY SumRemove
<1>4. SumFunctionOnSet(f, S \ {y}) \in Int
  BY <1>1, SumInt
<1> QED  BY <1>2, <1>3, <1>4

LEMMA SumAdd ==
    ASSUME NEW f, NEW g, NEW h, NEW S, IsFiniteSet(S),
           \A x \in S : f[x] \in Int /\ g[x] \in Int /\ h[x] = f[x] + g[x]
    PROVE  SumFunctionOnSet(h, S) = SumFunctionOnSet(f, S) + SumFunctionOnSet(g, S)
<1> DEFINE T == {A \in SUBSET S :
                   SumFunctionOnSet(h, A) # SumFunctionOnSet(f, A) + SumFunctionOnSet(g, A)}
<1>1. ASSUME T # {} PROVE FALSE
  <2>1. PICK A \in T : \A B \in T : ~ (B \subseteq A /\ B # A)
    <3> HIDE DEF T
    <3>1. T \subseteq SUBSET S
      BY DEF T
    <3> QED  BY <1>1, <3>1, LeastSubset
  <2>2. A \in SUBSET S /\ IsFiniteSet(A)
    BY FS_Subset
  <2>3. A # {}
    <3>1. SumFunctionOnSet(h, {}) = SumFunctionOnSet(f, {}) + SumFunctionOnSet(g, {})
      BY SumEmpty
    <3> QED  BY <3>1
  <2>4. PICK p \in A : TRUE
    BY <2>3
  <2>5. PICK B : B = A \ {p}
    OBVIOUS
  <2>6. B \in SUBSET S /\ B \notin T /\ IsFiniteSet(B)
    BY <2>1, <2>2, <2>4, <2>5, FS_Subset
  <2>7. \A x \in A : f[x] \in Int /\ g[x] \in Int /\ h[x] \in Int
    BY <2>2
  <2>8. /\ SumFunctionOnSet(f, A) = f[p] + SumFunctionOnSet(f, B)
        /\ SumFunctionOnSet(g, A) = g[p] + SumFunctionOnSet(g, B)
        /\ SumFunctionOnSet(h, A) = h[p] + SumFunctionOnSet(h, B)
    BY <2>2, <2>5, <2>7, SumRemove
  <2>9. SumFunctionOnSet(f, B) \in Int /\ SumFunctionOnSet(g, B) \in Int
    BY <2>6, SumInt
  <2>10. f[p] \in Int /\ g[p] \in Int /\ h[p] = f[p] + g[p]
    BY <2>2, <2>4
  <2> QED  BY <2>2, <2>6, <2>8, <2>9, <2>10
<1>2. S \in SUBSET S
  OBVIOUS
<1> QED  BY <1>1, <1>2

LEMMA SumScale ==
    ASSUME NEW f, NEW g, NEW k \in Int, NEW S, IsFiniteSet(S),
           \A x \in S : f[x] \in Int /\ g[x] = k * f[x]
    PROVE  SumFunctionOnSet(g, S) = k * SumFunctionOnSet(f, S)
<1> DEFINE T == {A \in SUBSET S :
                   SumFunctionOnSet(g, A) # k * SumFunctionOnSet(f, A)}
<1>1. ASSUME T # {} PROVE FALSE
  <2>1. PICK A \in T : \A B \in T : ~ (B \subseteq A /\ B # A)
    <3> HIDE DEF T
    <3>1. T \subseteq SUBSET S
      BY DEF T
    <3> QED  BY <1>1, <3>1, LeastSubset
  <2>2. A \in SUBSET S /\ IsFiniteSet(A)
    BY FS_Subset
  <2>3. A # {}
    <3>1. PICK z \in Int : z = 0 /\ k * z = z
      OBVIOUS
    <3>2. SumFunctionOnSet(g, {}) = z /\ SumFunctionOnSet(f, {}) = z
      BY <3>1, SumEmpty
    <3>3. SumFunctionOnSet(g, {}) = k * SumFunctionOnSet(f, {})
      BY <3>1, <3>2
    <3> QED  BY <3>3
  <2>4. PICK p \in A : TRUE
    BY <2>3
  <2>5. PICK B : B = A \ {p}
    OBVIOUS
  <2>6. B \in SUBSET S /\ B \notin T /\ IsFiniteSet(B)
    BY <2>1, <2>2, <2>4, <2>5, FS_Subset
  <2>7. \A x \in A : f[x] \in Int /\ g[x] \in Int
    BY <2>2
  <2>8. /\ SumFunctionOnSet(f, A) = f[p] + SumFunctionOnSet(f, B)
        /\ SumFunctionOnSet(g, A) = g[p] + SumFunctionOnSet(g, B)
    BY <2>2, <2>5, <2>7, SumRemove
  <2>9. PICK a \in Int, b \in Int : a = f[p] /\ b = SumFunctionOnSet(f, B)
    BY <2>6, <2>7, SumInt
  <2>10. g[p] = k * a /\ SumFunctionOnSet(g, B) = k * b
    BY <2>2, <2>6, <2>9
  <2>11. k * (a + b) = k * a + k * b
    OBVIOUS
  <2> QED  BY <2>2, <2>8, <2>9, <2>10, <2>11
<1>2. S \in SUBSET S
  OBVIOUS
<1> QED  BY <1>1, <1>2

\* Sums of natural numbers.
LEMMA SumNat ==
    ASSUME NEW f, NEW S, IsFiniteSet(S), \A x \in S : f[x] \in Nat
    PROVE  /\ SumFunctionOnSet(f, S) \in Nat
           /\ \A y \in S : f[y] <= SumFunctionOnSet(f, S)
<1> DEFINE zero == [x \in S |-> 0]
<1>1. ASSUME NEW A, IsFiniteSet(A), A \subseteq S
      PROVE  SumFunctionOnSet(f, A) \in Nat
  <2>1. \A x \in A : zero[x] = 0 * f[x] /\ f[x] \in Int
    BY <1>1
  <2> HIDE DEF zero
  <2>2. PICK a \in Int : a = SumFunctionOnSet(f, A)
    BY <1>1, SumInt
  <2>3. SumFunctionOnSet(zero, A) = 0 * a
    BY <1>1, <2>1, <2>2, SumScale
  <2>4. 0 * a = 0
    OBVIOUS
  <2>5. \A x \in A : zero[x] \in Int /\ f[x] \in Int /\ zero[x] <= f[x]
    BY <1>1, <2>1
  <2>6. SumFunctionOnSet(zero, A) <= SumFunctionOnSet(f, A)
    BY <1>1, <2>5, SumLeq
  <2> QED  BY <2>2, <2>3, <2>4, <2>6
<1>2. ASSUME NEW y \in S PROVE f[y] <= SumFunctionOnSet(f, S)
  <2>1. SumFunctionOnSet(f, S) = f[y] + SumFunctionOnSet(f, S \ {y})
    BY SumRemove
  <2>2. SumFunctionOnSet(f, S \ {y}) \in Nat
    BY <1>1, FS_Subset
  <2> QED  BY <2>1, <2>2
<1> QED  BY <1>1, <1>2

-----------------------------------------------------------------------------
(***************************************************************************)
(* The highest set.                                                        *)
(***************************************************************************)

\* A sequence of distinct validators that are all staked under st.
StakedList(top, st) ==
    /\ top \in Seq(Vals)
    /\ Len(top) \in 1 .. MaxValidators
    /\ \A i, j \in 1 .. Len(top) : top[i] = top[j] => i = j
    /\ \A i \in 1 .. Len(top) : st[top[i]] = "Staked"

\* The inductive invariant.
TopInv ==
    /\ status \in [Vals -> Status]
    /\ StakedList(highestValidatorsSet, status)

\* A validator that has just become staked may join the highest set, by
\* appending or by eviction: tryAddValidatorToHighestSet keeps it sound.
LEMMA AddKeepsStaked ==
    ASSUME NEW top, NEW st \in [Vals -> Status], StakedList(top, st),
           NEW v \in Vals, NEW amount
    PROVE  StakedList(tryAddValidatorToHighestSet(top, v, amount),
                      [st EXCEPT ![v] = "Staked"])
<1> DEFINE new == [st EXCEPT ![v] = "Staked"]
           low == Lowest(top)
<1>1. StakedList(top, new)
  BY DEF StakedList, Status
<1>2. ASSUME v \notin Range(top), Len(top) < MaxValidators
      PROVE  StakedList(Append(top, v), new)
  <2>1. \A i \in 1 .. Len(top) : top[i] # v
    BY <1>2 DEF Range, StakedList
  <2>2. Append(top, v) \in Seq(Vals) /\ Len(Append(top, v)) = Len(top) + 1
    BY DEF StakedList
  <2>3. \A i \in 1 .. Len(top) + 1 :
           Append(top, v)[i] = IF i = Len(top) + 1 THEN v ELSE top[i]
    BY DEF StakedList
  <2> QED
    BY <1>1, <1>2, <2>1, <2>2, <2>3, ParamsAssumption DEF StakedList, Status
<1>3. ASSUME v \notin Range(top)
      PROVE  StakedList([top EXCEPT ![low] = v], new)
  <2>1. \A i \in 1 .. Len(top) : top[i] # v
    BY <1>3 DEF Range, StakedList
  <2> HIDE DEF low
  <2>2. CASE low \in 1 .. Len(top)
    <3>1. /\ [top EXCEPT ![low] = v] \in Seq(Vals)
          /\ Len([top EXCEPT ![low] = v]) = Len(top)
          /\ \A i \in 1 .. Len(top) :
                [top EXCEPT ![low] = v][i] = IF i = low THEN v ELSE top[i]
      BY <2>2, ExceptSeq DEF StakedList
    <3> QED
      BY <1>1, <2>1, <3>1 DEF StakedList, Status
  <2>3. CASE low \notin 1 .. Len(top)
    <3>1. [top EXCEPT ![low] = v] = top
      BY <2>3 DEF StakedList
    <3> QED
      BY <1>1, <3>1
  <2> QED
    BY <2>2, <2>3
<1> QED
  BY <1>1, <1>2, <1>3 DEF tryAddValidatorToHighestSet

\* A validator that leaves the staked status is taken out of the highest set
\* unless it is the only member, which the callers exclude.
LEMMA RemoveKeepsStaked ==
    ASSUME NEW top, NEW st \in [Vals -> Status], StakedList(top, st),
           NEW v \in Vals, NEW x \in Status,
           Len(top) > 1 \/ v \notin Range(top)
    PROVE  StakedList(tryRemoveValidatorInHighestSet(top, v),
                      [st EXCEPT ![v] = x])
<1>1. CASE v \notin Range(top)
  <2>1. \A i \in 1 .. Len(top) : top[i] # v
    BY <1>1 DEF Range, StakedList
  <2> QED
    BY <1>1, <2>1 DEF StakedList, tryRemoveValidatorInHighestSet
<1>2. CASE v \in Range(top) /\ Len(top) > 1
  <2> DEFINE k == CHOOSE i \in 1 .. Len(top) : top[i] = v
             out == SwapRemove(top, k)
  <2>1. k \in 1 .. Len(top) /\ top[k] = v
    <3>1. \E i \in 1 .. Len(top) : top[i] = v
      BY <1>2 DEF Range, StakedList
    <3> QED
      BY <3>1
  <2>2. tryRemoveValidatorInHighestSet(top, v) = out
    BY <1>2 DEF tryRemoveValidatorInHighestSet
  <2> HIDE DEF k
  <2>3. /\ out \in Seq(Vals)
        /\ Len(out) = Len(top) - 1
        /\ \A i \in 1 .. Len(top) - 1 :
              out[i] = IF i = k THEN top[Len(top)] ELSE top[i]
    BY <1>2, <2>1 DEF StakedList, SwapRemove
  <2> HIDE DEF out
  <2>4. \A i \in 1 .. Len(out) :
           \E m \in 1 .. Len(top) : /\ m # k
                                    /\ out[i] = top[m]
                                    /\ i = k => m = Len(top)
                                    /\ i # k => m = i
    BY <1>2, <2>1, <2>3 DEF StakedList
  <2>5. \A i, j \in 1 .. Len(out) : out[i] = out[j] => i = j
    BY <1>2, <2>1, <2>3 DEF StakedList
  <2>6. \A i \in 1 .. Len(out) : [st EXCEPT ![v] = x][out[i]] = "Staked"
    BY <2>1, <2>3, <2>4 DEF StakedList
  <2> QED
    BY <1>2, <2>2, <2>3, <2>5, <2>6, ParamsAssumption DEF StakedList
<1> QED
  BY <1>1, <1>2

\* Staking, in both of its entries, keeps the highest set sound.
LEMMA StakeKeepsTop ==
    ASSUME TopInv, NEW s, NEW v \in Vals, NEW amount, StakeBody(s, v, amount)
    PROVE  TopInv'
<1>1. /\ status' = [status EXCEPT ![v] = "Staked"]
      /\ highestValidatorsSet' =
            tryAddValidatorToHighestSet(highestValidatorsSet, v,
                                        coins[v] + amount)
  BY DEF StakeBody
<1>2. StakedList(highestValidatorsSet', status')
  BY <1>1, AddKeepsStaked DEF TopInv
<1> QED
  BY <1>1, <1>2 DEF TopInv, Status

\* So does unstaking: the last top validator may not go below the minimum.
LEMMA UnstakeKeepsTop ==
    ASSUME TopInv, NEW s, NEW v \in Vals, NEW block, unstake(s, v, block)
    PROVE  TopInv'
<1> DEFINE left == coins[v] - staked[s][v].coins
<1>1. CASE LosesStake(v, left)
  <2>1. /\ status' = [status EXCEPT ![v] = "Unstaked"]
        /\ highestValidatorsSet' =
              tryRemoveValidatorInHighestSet(highestValidatorsSet, v)
    BY <1>1 DEF unstake
  <2>2. Len(highestValidatorsSet) > 1 \/ v \notin Range(highestValidatorsSet)
    <3>1. ~ EmptiesTop(v, staked[s][v].coins)
      BY DEF unstake
    <3>2. left < MinimalStakingCoin
      BY <1>1 DEF LosesStake
    <3>3. Len(highestValidatorsSet) = 1 => v \notin Range(highestValidatorsSet)
      BY <3>1, <3>2 DEF EmptiesTop, isTopValidator
    <3>4. Len(highestValidatorsSet) # 1 => Len(highestValidatorsSet) > 1
      <4>1. Len(highestValidatorsSet) \in 1 .. MaxValidators
        BY DEF TopInv, StakedList
      <4>2. MaxValidators \in Int
        BY ParamsAssumption
      <4> QED
        BY <4>1, <4>2
    <3> QED
      BY <3>3, <3>4
  <2>3. StakedList(highestValidatorsSet', status')
    BY <2>1, <2>2, RemoveKeepsStaked DEF TopInv, Status
  <2> QED
    BY <2>1, <2>3 DEF TopInv, Status
<1>2. CASE ~ LosesStake(v, left)
  BY <1>2 DEF unstake, TopInv, StakedList
<1> QED
  BY <1>1, <1>2

\* So does jailing, which needs two top validators.
LEMMA JailKeepsTop ==
    ASSUME TopInv, NEW v, removeValidator(v)
    PROVE  TopInv'
<1>1. CASE Len(highestValidatorsSet) > 1 /\ status[v] # "NotExist"
  <2>1. /\ status' = [status EXCEPT ![v] = "Jailed"]
        /\ highestValidatorsSet' =
              tryRemoveValidatorInHighestSet(highestValidatorsSet, v)
    BY <1>1 DEF removeValidator
  <2>2. CASE v \in Vals
    <3>1. StakedList(highestValidatorsSet', status')
      BY <1>1, <2>1, <2>2, RemoveKeepsStaked DEF TopInv, Status
    <3> QED
      BY <2>1, <3>1 DEF TopInv, Status
  <2>3. CASE v \notin Vals
    <3>1. v \notin Range(highestValidatorsSet)
      BY <2>3 DEF Range, TopInv, StakedList
    <3>2. status' = status /\ highestValidatorsSet' = highestValidatorsSet
      BY <2>1, <2>3, <3>1 DEF tryRemoveValidatorInHighestSet, TopInv
    <3> QED
      BY <3>2 DEF TopInv, StakedList
  <2> QED
    BY <2>2, <2>3
<1>2. CASE ~ (Len(highestValidatorsSet) > 1 /\ status[v] # "NotExist")
  BY <1>2 DEF removeValidator, TopInv, StakedList
<1> QED
  BY <1>1, <1>2

\* A reactivated validator is not in the highest set.
LEMMA ReactiveKeepsTop ==
    ASSUME TopInv, NEW v, tryReactive(v), UNCHANGED highestValidatorsSet
    PROVE  TopInv'
<1>1. CASE status[v] \in {"Unstaked", "Jailed"}
  <2>1. status' = [status EXCEPT ![v] = "Created"]
    BY <1>1 DEF tryReactive
  <2>2. \A i \in 1 .. Len(highestValidatorsSet) : highestValidatorsSet[i] # v
    BY <1>1 DEF TopInv, StakedList
  <2>3. \A i \in 1 .. Len(highestValidatorsSet) :
           status'[highestValidatorsSet[i]] = status[highestValidatorsSet[i]]
    BY <2>1, <2>2 DEF TopInv, StakedList
  <2>4. status' \in [Vals -> Status]
    BY <2>1 DEF TopInv, Status
  <2> QED
    BY <2>3, <2>4 DEF TopInv, StakedList
<1>2. CASE status[v] \notin {"Unstaked", "Jailed"}
  BY <1>2 DEF TopInv, StakedList, tryReactive
<1> QED
  BY <1>1, <1>2

\* Initially the genesis validators are the highest set.
LEMMA TopInit == Init => TopInv
<1> SUFFICES ASSUME Init PROVE TopInv
  OBVIOUS
<1>1. status \in [Vals -> Status]
  BY DEF Init, initialize, Status
<1>2. \A i \in 1 .. Len(GenesisVals) :
         GenesisVals[i] \in Vals /\ GenesisVals[i] \in Range(GenesisVals)
  BY GenesisAssumption DEF Range
<1>3. \A i \in 1 .. Len(GenesisVals) : status[GenesisVals[i]] = "Staked"
  BY <1>2 DEF Init, initialize
<1> QED
  BY <1>1, <1>3, GenesisAssumption DEF Init, initialize, TopInv, StakedList

\* Every transaction and every end of a block keeps the highest set sound.
LEMMA TopStep == TopInv /\ [Next]_vars => TopInv'
<1> SUFFICES ASSUME TopInv, [Next]_vars PROVE TopInv'
  OBVIOUS
<1>1. ASSUME NEW s \in Stakers, NEW v \in Vals, NEW a \in Amounts, Stake(s, v, a)
      PROVE  TopInv'
  BY <1>1, StakeKeepsTop DEF Stake, stake
<1>2. ASSUME NEW v \in Vals \cap Stakers, NEW a \in Amounts, CreateValidator(v, a)
      PROVE  TopInv'
  BY <1>2, StakeKeepsTop DEF CreateValidator, createOrEditValidator
<1>3. ASSUME NEW s \in Stakers, NEW v \in Vals, Unstake(s, v)
      PROVE  TopInv'
  BY <1>3, UnstakeKeepsTop DEF Unstake
<1>4. ASSUME NEW s \in Stakers, NEW v \in Vals, WithdrawStaking(s, v)
      PROVE  TopInv'
  BY <1>4 DEF WithdrawStaking, withdrawStaking, TopInv, StakedList
<1>5. ASSUME NEW v \in Vals, NEW id \in Ids, CreateProposal(v, id)
      PROVE  TopInv'
  BY <1>5 DEF CreateProposal, validatorsVars, TopInv, StakedList
<1>6. ASSUME NEW v \in Vals, NEW id \in Ids, NEW auth \in BOOLEAN,
             VoteProposal(v, id, auth)
      PROVE  TopInv'
  <2>1. UNCHANGED highestValidatorsSet
    BY <1>6 DEF VoteProposal
  <2>2. tryReactive(proposals[id].dst) \/ UNCHANGED status
    BY <1>6 DEF VoteProposal
  <2> QED
    BY <2>1, <2>2, ReactiveKeepsTop DEF TopInv, StakedList
<1>7. ASSUME NEW missed \in BOOLEAN, Finalize(missed)
      PROVE  TopInv'
  <2>1. \/ removeValidator(outTurnValidator)
        \/ UNCHANGED <<status, highestValidatorsSet>>
    BY <1>7 DEF Finalize
  <2> QED
    BY <2>1, JailKeepsTop DEF TopInv, StakedList
<1>8. CASE UNCHANGED vars
  BY <1>8 DEF vars, validatorsVars, TopInv, StakedList
<1> QED
  BY <1>1, <1>2, <1>3, <1>4, <1>5, <1>6, <1>7, <1>8 DEF Next, Bounded

\* The highest set the engine takes its signers from is never empty, has no
\* validator twice and holds only staked ones, for any number of validators,
\* stakers and blocks.
THEOREM TopAlwaysSound == Spec => []TopSound
<1>1. TopInv => TopSound
  BY DEF TopInv, StakedList, TopSound
<1> QED
  BY TopInit, TopStep, <1>1, PTL DEF Spec

-----------------------------------------------------------------------------
(***************************************************************************)
(* The punish list.                                                        *)
(***************************************************************************)

\* A counter never reaches the threshold: it is reset there, and drops otherwise.
Record == [missed : 0 .. removeThreshold - 1, index : Nat, exist : BOOLEAN]

\* The records and the list agree.
Listed(P) ==
    /\ P \in [records : [Vals -> Record], list : Seq(Vals)]
    /\ \A v \in Vals : P.records[v].exist =>
          /\ P.records[v].index < Len(P.list)
          /\ P.list[P.records[v].index + 1] = v
    /\ \A i \in 1 .. Len(P.list) :
          P.records[P.list[i]].exist /\ P.records[P.list[i]].index = i - 1

LEMMA ListedParts ==
    ASSUME NEW R \in [Vals -> Record], NEW L \in Seq(Vals),
           \A v \in Vals : R[v].exist => R[v].index < Len(L) /\ L[R[v].index + 1] = v,
           \A i \in 1 .. Len(L) : R[L[i]].exist /\ R[L[i]].index = i - 1
    PROVE  Listed([records |-> R, list |-> L])
BY DEF Listed

\* A change of counters only.
LEMMA SameIndices ==
    ASSUME NEW P, Listed(P), NEW R \in [Vals -> Record],
           \A v \in Vals : /\ R[v].exist = P.records[v].exist
                           /\ R[v].index = P.records[v].index
    PROVE  Listed([records |-> R, list |-> P.list])
<1>1. /\ P.list \in Seq(Vals)
      /\ \A i \in 1 .. Len(P.list) : P.list[i] \in Vals
  BY ElementOfSeq DEF Listed
<1>2. \A v \in Vals : R[v].exist => /\ R[v].index < Len(P.list)
                                    /\ P.list[R[v].index + 1] = v
  BY DEF Listed
<1>3. \A i \in 1 .. Len(P.list) : R[P.list[i]].exist /\ R[P.list[i]].index = i - 1
  BY <1>1 DEF Listed
<1> QED  BY <1>1, <1>2, <1>3, ListedParts

\* A validator without a record is appended with the index of its place.
LEMMA PunishKeepsListed ==
    ASSUME NEW P, Listed(P), NEW v \in Vals
    PROVE  Listed(punish(P, v))
<1> DEFINE r == P.records[v]
           c == IF shouldRemove(P, v) THEN 0 ELSE r.missed + 1
<1>1. /\ P.records \in [Vals -> Record] /\ P.list \in Seq(Vals)
      /\ r \in Record /\ r.index \in Nat /\ Len(P.list) \in Nat
  BY LenProperties DEF Listed, Record
<1>2. c \in 0 .. removeThreshold - 1
  <2>1. PICK m \in 0 .. removeThreshold - 1 : m = r.missed
    BY <1>1 DEF Record
  <2>2. removeThreshold \in Nat \ {0} /\ m \in Nat
    BY PunishAssumption
  <2>3. m + 1 = removeThreshold => (m + 1) % removeThreshold = 0
    BY <2>2
  <2>4. CASE shouldRemove(P, v)
    BY <2>2, <2>4
  <2>5. CASE ~ shouldRemove(P, v)
    <3>1. m + 1 # removeThreshold
      BY <2>1, <2>3, <2>5 DEF shouldRemove
    <3> QED  BY <2>1, <2>2, <2>5, <3>1
  <2> QED  BY <2>4, <2>5
<1>3. CASE r.exist
  <2> DEFINE R == [P.records EXCEPT ![v] = [missed |-> c, index |-> r.index, exist |-> TRUE]]
  <2>1. punish(P, v) = [records |-> R, list |-> P.list]
    BY <1>3 DEF punish
  <2>2. r.exist = TRUE
    BY <1>1, <1>3 DEF Record
  <2> HIDE DEF c
  <2>3. [missed |-> c, index |-> r.index, exist |-> TRUE] \in Record
    BY <1>1, <1>2 DEF Record
  <2>4. R \in [Vals -> Record]
    BY <1>1, <2>3
  <2>5. \A w \in Vals : R[w].exist = P.records[w].exist /\ R[w].index = P.records[w].index
    BY <1>1, <2>2
  <2> HIDE DEF R
  <2> QED  BY <2>1, <2>4, <2>5, SameIndices
<1>4. CASE ~ r.exist
  <2> DEFINE R == [P.records EXCEPT ![v] =
                     [missed |-> c, index |-> Len(P.list), exist |-> TRUE]]
             L == Append(P.list, v)
  <2>1. punish(P, v) = [records |-> R, list |-> L]
    BY <1>4 DEF punish
  <2>2. /\ L \in Seq(Vals) /\ Len(L) = Len(P.list) + 1
        /\ \A i \in 1 .. Len(P.list) : L[i] = P.list[i]
        /\ L[Len(P.list) + 1] = v
    BY <1>1, AppendProperties
  <2> HIDE DEF c, L
  <2>3. [missed |-> c, index |-> Len(P.list), exist |-> TRUE] \in Record
    BY <1>1, <1>2 DEF Record
  <2>4. /\ R \in [Vals -> Record]
        /\ \A w \in Vals : w # v => R[w] = P.records[w]
        /\ R[v].index = Len(P.list) /\ R[v].exist
    BY <1>1, <2>3
  <2> HIDE DEF R
  <2>5. \A i \in 1 .. Len(P.list) : P.list[i] \in Vals /\ P.list[i] # v
    BY <1>1, <1>4, ElementOfSeq DEF Listed
  <2>6. ASSUME NEW w \in Vals, R[w].exist
        PROVE  R[w].index < Len(L) /\ L[R[w].index + 1] = w
    <3>1. CASE w = v
      BY <1>1, <2>2, <2>4, <3>1
    <3>2. CASE w # v
      <4>1. /\ R[w] = P.records[w] /\ P.records[w].index \in Nat
            /\ P.records[w].index < Len(P.list)
            /\ P.list[P.records[w].index + 1] = w
        BY <1>1, <2>4, <2>6, <3>2 DEF Listed, Record
      <4>2. PICK j \in Nat : j = P.records[w].index
        BY <4>1
      <4>3. j + 1 \in 1 .. Len(P.list) /\ j < Len(L)
        BY <1>1, <2>2, <4>1, <4>2
      <4>4. L[j + 1] = w
        BY <2>2, <4>1, <4>2, <4>3
      <4> QED  BY <4>1, <4>2, <4>3, <4>4
    <3> QED  BY <3>1, <3>2
  <2>7. ASSUME NEW i \in 1 .. Len(L)
        PROVE  R[L[i]].exist /\ R[L[i]].index = i - 1
    <3>1. CASE i = Len(P.list) + 1
      BY <1>1, <2>2, <2>4, <3>1
    <3>2. CASE i \in 1 .. Len(P.list)
      BY <2>2, <2>4, <2>5, <3>2 DEF Listed
    <3> QED  BY <1>1, <2>2, <3>1, <3>2
  <2> QED  BY <2>1, <2>2, <2>4, <2>6, <2>7, ListedParts
<1> QED  BY <1>3, <1>4

\* The counters change, the list and the indices do not.
LEMMA DecreaseKeepsListed ==
    ASSUME NEW P, Listed(P)
    PROVE  Listed(decreaseMissedBlocksCounter(P))
<1> DEFINE step == removeThreshold \div decreaseRate
           done == {P.list[i] : i \in {j \in 1 .. Len(P.list) :
                                         j <= MAX_VALIDATORS_PER_TX}}
           R == [v \in DOMAIN P.records |->
                  IF v \in done
                  THEN [P.records[v] EXCEPT !.missed = IF @ > step THEN @ - step ELSE 0]
                  ELSE P.records[v]]
<1>1. /\ P.records \in [Vals -> Record] /\ DOMAIN P.records = Vals
      /\ P \in [records : [Vals -> Record], list : Seq(Vals)]
  BY DEF Listed
<1>2. step \in Nat
  BY PunishAssumption
<1>3. decreaseMissedBlocksCounter(P) = [P EXCEPT !.records = R]
  BY DEF decreaseMissedBlocksCounter
<1> HIDE DEF step, done
<1>4. ASSUME NEW v \in Vals
      PROVE  /\ R[v] \in Record
             /\ R[v].index = P.records[v].index
             /\ R[v].exist = P.records[v].exist
  <2>1. P.records[v] \in Record
    BY <1>1
  <2> DEFINE m == IF P.records[v].missed > step THEN P.records[v].missed - step ELSE 0
  <2>2. m \in 0 .. removeThreshold - 1
    BY <1>2, <2>1, PunishAssumption DEF Record
  <2> HIDE DEF m
  <2>3. /\ [P.records[v] EXCEPT !.missed = m] \in Record
        /\ [P.records[v] EXCEPT !.missed = m].index = P.records[v].index
        /\ [P.records[v] EXCEPT !.missed = m].exist = P.records[v].exist
    BY <2>1, <2>2 DEF Record
  <2> QED  BY <1>1, <2>1, <2>3 DEF m
<1>5. R \in [Vals -> Record]
  BY <1>1, <1>4
<1> HIDE DEF R
<1>6. [P EXCEPT !.records = R] = [records |-> R, list |-> P.list]
  BY <1>1
<1> QED  BY <1>3, <1>4, <1>5, <1>6, SameIndices

\* The last entry takes the place of the one that is deleted, with its index.
LEMMA CleanKeepsListed ==
    ASSUME NEW P, Listed(P), NEW v \in Vals
    PROVE  /\ Listed(cleanPunishRecord(P, v))
           /\ ~ cleanPunishRecord(P, v).records[v].exist
<1>1. /\ P.records \in [Vals -> Record] /\ P.list \in Seq(Vals)
      /\ Len(P.list) \in Nat
      /\ P \in [records : [Vals -> Record], list : Seq(Vals)]
      /\ \A i \in 1 .. Len(P.list) : P.list[i] \in Vals
  BY LenProperties, ElementOfSeq DEF Listed
<1>2. CASE P.records[v].exist
  <2> DEFINE i == P.records[v].index + 1
             n == Len(P.list)
             last == P.list[n]
             M == [P.records EXCEPT ![last].index = i - 1]
             R == [M EXCEPT ![v] = NoRecord]
             L == [j \in 1 .. n - 1 |-> IF j = i THEN last ELSE P.list[j]]
  <2>1. /\ P.records[v].index \in Nat
        /\ P.records[v].index < n /\ n \in Nat /\ n > 0
        /\ P.list[i] = v /\ i \in 1 .. n /\ i - 1 \in Nat
    BY <1>1, <1>2 DEF Listed, Record
  <2>2. cleanPunishRecord(P, v) = [records |-> R, list |-> L]
    BY <1>2, <2>1 DEF cleanPunishRecord
  <2>3. /\ last \in Vals
        /\ P.records[last].exist /\ P.records[last].index = n - 1
        /\ \A j \in 1 .. n : /\ P.list[j] \in Vals
                             /\ P.records[P.list[j]].exist
                             /\ P.records[P.list[j]].index = j - 1
    BY <1>1, <2>1 DEF Listed
  <2>4. \A w \in Vals : P.records[w].exist => /\ P.records[w].index \in Nat
                                              /\ P.records[w].index < n
                                              /\ P.list[P.records[w].index + 1] = w
    BY <1>1 DEF Listed, Record
  <2> HIDE DEF i
  <2>5. /\ M \in [Vals -> Record]
        /\ \A w \in Vals : /\ M[w].exist = P.records[w].exist
                           /\ M[w].index = IF w = last THEN i - 1 ELSE P.records[w].index
    <3>1. P.records[last] \in Record
      BY <1>1, <2>3
    <3> DEFINE x == [P.records[last] EXCEPT !.index = i - 1]
    <3>2. x \in Record /\ x.exist = P.records[last].exist /\ x.index = i - 1
      BY <2>1, <3>1 DEF Record
    <3>3. M = [P.records EXCEPT ![last] = x]
      OBVIOUS
    <3> HIDE DEF x, M, last
    <3>4. M \in [Vals -> Record]
      BY <1>1, <2>3, <3>2, <3>3
    <3>5. \A w \in Vals : M[w] = IF w = last THEN x ELSE P.records[w]
      BY <1>1, <2>3, <3>3
    <3> QED  BY <3>2, <3>4, <3>5
  <2> HIDE DEF M, n
  <2>6. /\ L \in Seq(Vals) /\ Len(L) = n - 1
        /\ \A j \in 1 .. n - 1 : L[j] = IF j = i THEN last ELSE P.list[j]
    <3> HIDE DEF last
    <3> QED  BY <2>1, <2>3
  <2> HIDE DEF L
  <2>7. /\ R \in [Vals -> Record]
        /\ R[v] = NoRecord
        /\ \A w \in Vals : w # v => /\ R[w].exist = P.records[w].exist
                                    /\ R[w].index = IF w = last THEN i - 1
                                                    ELSE P.records[w].index
    <3>1. NoRecord \in Record
      BY PunishAssumption DEF NoRecord, Record
    <3> HIDE DEF last
    <3> QED  BY <2>5, <3>1
  <2> HIDE DEF R
  <2>8. ~ R[v].exist
    BY <2>7 DEF NoRecord
  <2>9. ASSUME NEW w \in Vals, R[w].exist
        PROVE  R[w].index < Len(L) /\ L[R[w].index + 1] = w
    <3>1. w # v /\ P.records[w].exist
      BY <2>7, <2>8, <2>9
    <3>2. PICK k \in Nat : k = P.records[w].index
      BY <2>4, <3>1
    <3>3. k < n /\ P.list[k + 1] = w
      BY <2>4, <3>1, <3>2
    <3>4. CASE w = last
      <4>1. i # n
        BY <2>1, <3>1, <3>4
      <4>2. R[w].index = i - 1
        BY <2>7, <3>1, <3>4
      <4> QED  BY <2>1, <2>6, <3>4, <4>1, <4>2
    <3>5. CASE w # last
      <4>1. k + 1 # n /\ k + 1 # i
        BY <2>1, <3>1, <3>3, <3>5
      <4>2. R[w].index = k
        BY <2>7, <3>1, <3>2, <3>5
      <4>3. k + 1 \in 1 .. n - 1
        BY <2>1, <3>3, <4>1
      <4>4. L[k + 1] = w
        BY <2>6, <3>3, <4>1, <4>3
      <4> QED  BY <2>6, <4>2, <4>3, <4>4
    <3> QED  BY <3>4, <3>5
  <2>10. ASSUME NEW j \in 1 .. Len(L)
         PROVE  R[L[j]].exist /\ R[L[j]].index = j - 1
    <3>1. j \in 1 .. n - 1 /\ j \in 1 .. n /\ j # n
      BY <2>1, <2>6
    <3>2. CASE j = i
      <4>1. L[j] = last
        BY <2>6, <3>1, <3>2
      <4>2. last # v
        <5>1. P.records[v].index = i - 1
          BY <2>1 DEF i
        <5> QED  BY <2>1, <2>3, <3>1, <3>2, <5>1
      <4> QED  BY <2>3, <2>7, <3>2, <4>1, <4>2
    <3>3. CASE j # i
      <4>1. L[j] = P.list[j]
        BY <2>6, <3>1, <3>3
      <4>2. /\ P.list[j] \in Vals /\ P.records[P.list[j]].exist
            /\ P.records[P.list[j]].index = j - 1
        BY <2>3, <3>1
      <4>3. P.list[j] # v
        <5>1. P.records[v].index = i - 1
          BY <2>1 DEF i
        <5> QED  BY <2>1, <3>1, <3>3, <4>2, <5>1
      <4>4. P.list[j] # last
        BY <2>1, <2>3, <3>1, <4>2
      <4> QED  BY <2>7, <4>1, <4>2, <4>3, <4>4
    <3> QED  BY <3>2, <3>3
  <2>11. Listed([records |-> R, list |-> L])
    BY <2>6, <2>7, <2>9, <2>10, ListedParts
  <2> QED  BY <2>2, <2>8, <2>11
<1>3. CASE ~ P.records[v].exist
  <2> DEFINE x == [P.records[v] EXCEPT !.missed = 0]
             R == [P.records EXCEPT ![v] = x]
  <2>1. cleanPunishRecord(P, v) = [P EXCEPT !.records = R]
    BY <1>3 DEF cleanPunishRecord
  <2>2. P.records[v] \in Record
    BY <1>1
  <2>3. x \in Record /\ x.exist = P.records[v].exist /\ x.index = P.records[v].index
    BY <2>2, PunishAssumption DEF Record
  <2> HIDE DEF x
  <2>4. /\ R \in [Vals -> Record]
        /\ \A w \in Vals : R[w] = IF w = v THEN x ELSE P.records[w]
    BY <1>1, <2>3
  <2>5. \A w \in Vals : R[w].exist = P.records[w].exist /\ R[w].index = P.records[w].index
    BY <2>3, <2>4
  <2> HIDE DEF R
  <2>6. [P EXCEPT !.records = R] = [records |-> R, list |-> P.list]
    BY <1>1
  <2>7. Listed([records |-> R, list |-> P.list])
    BY <2>4, <2>5, SameIndices
  <2> QED  BY <1>3, <2>1, <2>5, <2>6, <2>7
<1> QED  BY <1>2, <1>3

-----------------------------------------------------------------------------
(***************************************************************************)
(* The validator whose turn a block is.                                    *)
(***************************************************************************)

\* In a finite set of addresses every rank below its size is taken: ranks are
\* distinct, and there are as many as members.
LEMMA RankTaken ==
    ASSUME NEW S \in SUBSET Nat, IsFiniteSet(S), NEW k \in Nat, k < Cardinality(S)
    PROVE  \E v \in S : Cardinality({w \in S : w < v}) = k
<1> DEFINE Below(v) == {w \in S : w < v}
           T == 0 .. (Cardinality(S) - 1)
           rank == [v \in S |-> Cardinality(Below(v))]
<1>1. Cardinality(S) \in Nat
  BY FS_CardinalityType
<1>2. ASSUME NEW v \in S
      PROVE  /\ IsFiniteSet(Below(v)) /\ Cardinality(Below(v)) \in Nat
             /\ Cardinality(Below(v)) < Cardinality(S)
  <2>1. Below(v) \in SUBSET S /\ v \notin Below(v)
    OBVIOUS
  <2> HIDE DEF Below
  <2>2. IsFiniteSet(Below(v)) /\ Cardinality(Below(v)) <= Cardinality(S)
        /\ (Cardinality(S) = Cardinality(Below(v)) => S = Below(v))
    BY <2>1, FS_Subset
  <2>3. Cardinality(Below(v)) \in Nat
    BY <2>2, FS_CardinalityType
  <2> QED  BY <1>1, <2>1, <2>2, <2>3
<1>3. ASSUME NEW v \in S, NEW w \in S, v < w
      PROVE  Cardinality(Below(v)) # Cardinality(Below(w))
  <2>1. Below(v) \in SUBSET Below(w) /\ v \in Below(w) /\ v \notin Below(v)
    <3>1. \A u \in S : u \in Nat
      OBVIOUS
    <3>2. \A u \in S : u < v => u < w
      BY <1>3, <3>1
    <3>3. ~ (v < v)
      BY <3>1
    <3> QED  BY <1>3, <3>2, <3>3
  <2> HIDE DEF Below
  <2> QED  BY <1>2, <2>1, FS_Subset
<1> HIDE DEF Below
<1>4. rank \in [S -> T]
  BY <1>1, <1>2
<1>5. IsInjective(rank)
  BY <1>3 DEF IsInjective
<1>6. IsFiniteSet(T) /\ Cardinality(T) = Cardinality(S)
  <2>1. 0 \in Int /\ Cardinality(S) - 1 \in Int
    BY <1>1
  <2>2. /\ IsFiniteSet(T)
        /\ Cardinality(T) = IF 0 > Cardinality(S) - 1 THEN 0
                            ELSE Cardinality(S) - 1 - 0 + 1
    BY <2>1, FS_Interval
  <2> QED  BY <1>1, <2>2
<1>7. k \in T
  BY <1>1
<1>8. rank \in Injection(S, T)
  BY <1>4, <1>5 DEF Injection
<1> HIDE DEF rank, T
<1>9. rank \in Surjection(S, T)
  BY <1>6, <1>8, FS_Injection
<1>10. PICK v \in S : rank[v] = k
  BY <1>7, <1>9 DEF Surjection
<1> QED  BY <1>10 DEF rank, Below

\* The members of a sequence are finitely many.
LEMMA FiniteRange ==
    ASSUME NEW seq \in Seq(Vals)
    PROVE  /\ IsFiniteSet(Range(seq)) /\ Range(seq) \subseteq Vals
           /\ Len(seq) > 0 => Range(seq) # {}
<1>1. Len(seq) \in Nat /\ DOMAIN seq = 1 .. Len(seq) /\ seq \in [1 .. Len(seq) -> Vals]
  BY LenProperties
<1>2. IsFiniteSet(1 .. Len(seq))
  BY <1>1, FS_Interval
<1>3. seq \in Surjection(1 .. Len(seq), Range(seq))
  BY <1>1 DEF Surjection, Range
<1>4. IsFiniteSet(Range(seq))
  BY <1>2, <1>3, FS_Surjection
<1>5. Range(seq) \subseteq Vals
  BY <1>1 DEF Range
<1>6. Len(seq) > 0 => seq[1] \in Range(seq)
  BY <1>1 DEF Range
<1> QED  BY <1>4, <1>5, <1>6

\* What the engine and the proposals contribute: the signers are a finite,
\* nonempty set of validators, and a proposal is about a validator.
EngineInv ==
    /\ parentTop \in Seq(Vals) /\ Len(parentTop) > 0
    /\ signers \in SUBSET Vals /\ IsFiniteSet(signers) /\ signers # {}
    /\ number \in Nat /\ number > 0
    /\ IsFiniteSet(currentValidatorSet)

Fields == {"createTime", "dst", "voters", "agree", "reject", "resultExist"}

ProposalInv ==
    /\ DOMAIN proposals = Ids
    /\ \A id \in Ids : Exists(id) => /\ Fields \subseteq DOMAIN proposals[id]
                                     /\ proposals[id].dst \in Vals
                                     /\ proposals[id].agree \in Nat

\* In a nonempty set of validators somebody has the turn.
LEMMA TurnTaken ==
    ASSUME NEW S \in SUBSET Vals, IsFiniteSet(S), S # {}, NEW n \in Nat
    PROVE  TurnOf(n, S) \in S
<1>1. Cardinality(S) \in Nat /\ Cardinality(S) > 0
  BY FS_CardinalityType, FS_EmptySet
<1>2. PICK k \in Nat : k = n % Cardinality(S) /\ k < Cardinality(S)
  BY <1>1
<1>3. S \in SUBSET Nat
  BY SystemAssumption
<1>4. \E v \in S : Cardinality({w \in S : w < v}) = k
  BY <1>2, <1>3, RankTaken
<1> QED  BY <1>2, <1>4 DEF TurnOf

LEMMA OutTurnIsSigner ==
    ASSUME EngineInv
    PROVE  outTurnValidator \in signers
BY TurnTaken DEF EngineInv, outTurnValidator

LEMMA EngineInit == ASSUME Init PROVE EngineInv /\ ProposalInv
<1>1. GenesisVals \in Seq(Vals) /\ Len(GenesisVals) > 0
  BY GenesisAssumption, ParamsAssumption
<1>2. /\ IsFiniteSet(Range(GenesisVals)) /\ Range(GenesisVals) \subseteq Vals
      /\ Range(GenesisVals) # {}
  BY <1>1, FiniteRange
<1>3. EngineInv
  BY <1>1, <1>2 DEF Init, initialize, EngineInv
<1>4. proposals = [id \in Ids |-> NoProposal]
  BY DEF Init, NoProposals
<1>5. ProposalInv
  BY <1>4 DEF ProposalInv, Exists, NoProposal
<1> QED  BY <1>3, <1>5

LEMMA EngineStep ==
    ASSUME TopInv, TopInv', EngineInv, [Next]_vars
    PROVE  EngineInv'
<1>1. ASSUME NEW s, NEW v \in Vals, NEW a, StakeBody(s, v, a), UNCHANGED engineVars
      PROVE  EngineInv'
  <2>1. currentValidatorSet' = currentValidatorSet \cup {v}
    BY <1>1 DEF StakeBody
  <2>2. IsFiniteSet(currentValidatorSet')
    BY <2>1, FS_AddElement DEF EngineInv
  <2> QED  BY <1>1, <2>2 DEF engineVars, EngineInv
<1>2. ASSUME NEW missed \in BOOLEAN, Finalize(missed)
      PROVE  EngineInv'
  <2>1. number' = number + 1 /\ parentTop' = highestValidatorsSet'
    BY <1>2 DEF Finalize
  <2>2. parentTop' \in Seq(Vals) /\ Len(parentTop') > 0
    BY <2>1, ParamsAssumption DEF TopInv, StakedList
  <2>3. \/ signers' = Range(parentTop) /\ currentValidatorSet' = Range(parentTop)
        \/ UNCHANGED <<currentValidatorSet, signers>>
    BY <1>2 DEF Finalize, getTopValidators, updateActiveValidatorSet
  <2>4. /\ IsFiniteSet(Range(parentTop)) /\ Range(parentTop) \in SUBSET Vals
        /\ Range(parentTop) # {}
    BY FiniteRange DEF EngineInv
  <2> QED  BY <2>1, <2>2, <2>3, <2>4 DEF EngineInv
<1>3. ASSUME UNCHANGED <<engineVars, currentValidatorSet>>
      PROVE  EngineInv'
  BY <1>3 DEF engineVars, EngineInv
<1>4. ASSUME NEW s \in Stakers, NEW v \in Vals, NEW a \in Amounts, Stake(s, v, a)
      PROVE  EngineInv'
  BY <1>1, <1>4 DEF Stake, stake
<1>5. ASSUME NEW v \in Vals \cap Stakers, NEW a \in Amounts, CreateValidator(v, a)
      PROVE  EngineInv'
  BY <1>1, <1>5 DEF CreateValidator, createOrEditValidator
<1>6. ASSUME NEW s \in Stakers, NEW v \in Vals, Unstake(s, v) \/ WithdrawStaking(s, v)
      PROVE  EngineInv'
  BY <1>3, <1>6 DEF Unstake, unstake, WithdrawStaking, withdrawStaking
<1>7. ASSUME NEW v \in Vals, NEW id \in Ids, CreateProposal(v, id)
      PROVE  EngineInv'
  BY <1>3, <1>7 DEF CreateProposal, validatorsVars
<1>8. ASSUME NEW v \in Vals, NEW id \in Ids, NEW auth \in BOOLEAN,
             VoteProposal(v, id, auth)
      PROVE  EngineInv'
  BY <1>3, <1>8 DEF VoteProposal
<1>9. CASE UNCHANGED vars
  BY <1>3, <1>9 DEF vars, validatorsVars, engineVars
<1> QED
  BY <1>2, <1>4, <1>5, <1>6, <1>7, <1>8, <1>9 DEF Next, Bounded

\* A vote changes the counts of its proposal, never its destination.
LEMMA VoteCounts ==
    ASSUME ProposalInv, NEW v, NEW id \in Ids, NEW auth \in BOOLEAN,
           VoteProposal(v, id, auth)
    PROVE  /\ Exists(id) /\ ProposalInv'
           /\ proposals'[id].agree = Tally(id, v, auth).agree
<1> DEFINE size == Cardinality(currentValidatorSet)
           p == Tally(id, v, auth)
<1>1. voteProposal(id, v, auth, number, size)
  BY DEF VoteProposal
<1>2. Exists(id)
  BY <1>1 DEF voteProposal, Votable
<1>3. PICK res : proposals' = [proposals EXCEPT ![id] = [p EXCEPT !.resultExist = res]]
  BY <1>1 DEF voteProposal
<1>4. /\ Fields \subseteq DOMAIN proposals[id]
      /\ proposals[id].dst \in Vals /\ proposals[id].agree \in Nat
  BY <1>2 DEF ProposalInv
<1>5. /\ DOMAIN p = DOMAIN proposals[id]
      /\ p.dst = proposals[id].dst /\ p.createTime = proposals[id].createTime
      /\ p.agree \in Nat
  BY <1>4 DEF Tally, Fields
<1> HIDE DEF p
<1>6. PICK q : q = [p EXCEPT !.resultExist = res]
  OBVIOUS
<1>7. /\ DOMAIN q = DOMAIN proposals[id]
      /\ q.dst = proposals[id].dst /\ q.createTime = proposals[id].createTime
      /\ q.agree = p.agree /\ q.agree \in Nat
  BY <1>4, <1>5, <1>6 DEF Fields
<1>8. proposals' = [proposals EXCEPT ![id] = q]
  BY <1>3, <1>6
<1>9. proposals'[id] = q /\ \A x \in Ids \ {id} : proposals'[x] = proposals[x]
  BY <1>8 DEF ProposalInv
<1>10. DOMAIN proposals' = Ids
  BY <1>8 DEF ProposalInv
<1>11. ProposalInv'
  BY <1>4, <1>7, <1>9, <1>10 DEF ProposalInv, Exists
<1> QED  BY <1>2, <1>7, <1>9, <1>11 DEF p

LEMMA ProposalStep ==
    ASSUME ProposalInv, [Next]_vars
    PROVE  ProposalInv'
<1>1. ASSUME UNCHANGED proposals
      PROVE  ProposalInv'
  BY <1>1 DEF ProposalInv, Exists
<1>2. ASSUME NEW v \in Vals, NEW id \in Ids, CreateProposal(v, id)
      PROVE  ProposalInv'
  <2>1. PICK q : q = [createTime |-> number, dst |-> v, voters |-> {},
                      agree |-> 0, reject |-> 0, resultExist |-> FALSE]
    OBVIOUS
  <2>2. proposals' = [proposals EXCEPT ![id] = q]
    BY <1>2, <2>1 DEF CreateProposal, createProposal
  <2>3. DOMAIN q = Fields /\ q.dst = v /\ q.agree = 0
    BY <2>1 DEF Fields
  <2>4. /\ proposals'[id] = q /\ DOMAIN proposals' = Ids
        /\ \A x \in Ids \ {id} : proposals'[x] = proposals[x]
    BY <2>2 DEF ProposalInv
  <2> QED  BY <2>3, <2>4 DEF ProposalInv, Exists
<1>3. ASSUME NEW v \in Vals, NEW id \in Ids, NEW auth \in BOOLEAN,
             VoteProposal(v, id, auth)
      PROVE  ProposalInv'
  BY <1>3, VoteCounts
<1> QED
  BY <1>1, <1>2, <1>3
     DEF Next, Stake, CreateValidator, Unstake, WithdrawStaking, Finalize, Bounded,
         proposalVars, vars

\* Every end of a block and every vote keeps the punish list right.
LEMMA ListedStep ==
    ASSUME EngineInv, ProposalInv, Listed(punishment), [Next]_vars
    PROVE  Listed(punishment')
<1>1. ASSUME NEW missed \in BOOLEAN, Finalize(missed)
      PROVE  Listed(punishment')
  <2>1. outTurnValidator \in Vals
    BY OutTurnIsSigner DEF EngineInv
  <2>2. PICK P : P = IF missed THEN punish(punishment, outTurnValidator) ELSE punishment
    OBVIOUS
  <2>3. Listed(P)
    <3>1. PICK O, v : O = punishment /\ v = outTurnValidator
      OBVIOUS
    <3>2. Listed(O) /\ Listed(punish(O, v))
      BY <2>1, <3>1, PunishKeepsListed
    <3> QED  BY <2>2, <3>1, <3>2
  <2>4. punishment' = P \/ punishment' = decreaseMissedBlocksCounter(P)
    BY <1>1, <2>2 DEF Finalize
  <2> QED  BY <2>3, <2>4, DecreaseKeepsListed
<1>2. ASSUME NEW v \in Vals, NEW id \in Ids, NEW auth \in BOOLEAN,
             VoteProposal(v, id, auth)
      PROVE  Listed(punishment')
  <2>1. proposals[id].dst \in Vals
    BY <1>2, VoteCounts DEF ProposalInv
  <2>2. PICK O, d : O = punishment /\ d = proposals[id].dst
    OBVIOUS
  <2>3. punishment' = O \/ punishment' = cleanPunishRecord(O, d)
    BY <1>2, <2>2 DEF VoteProposal
  <2> QED  BY <2>1, <2>2, <2>3, CleanKeepsListed
<1>3. ASSUME UNCHANGED punishment
      PROVE  Listed(punishment')
  BY <1>3
<1> QED
  BY <1>1, <1>2, <1>3
     DEF Next, Stake, CreateValidator, Unstake, WithdrawStaking, CreateProposal,
         Bounded, vars

AllInv == TopInv /\ EngineInv /\ ProposalInv /\ Listed(punishment)

LEMMA AllInvariance == Spec => []AllInv
<1>1. Init => AllInv
  <2> SUFFICES ASSUME Init PROVE AllInv
    OBVIOUS
  <2>1. PICK N : N = NoPunishment(Vals)
    OBVIOUS
  <2>2. [v \in Vals |-> NoRecord] \in [Vals -> Record] /\ ~ NoRecord.exist
    BY PunishAssumption DEF NoRecord, Record
  <2>3. <<>> \in Seq(Vals) /\ Len(<<>>) = 0
    BY EmptySeq
  <2>4. Listed(N)
    <3>1. PICK R, L : R = [v \in Vals |-> NoRecord] /\ L = <<>>
      OBVIOUS
    <3>2. R \in [Vals -> Record] /\ L \in Seq(Vals) /\ Len(L) = 0
      BY <2>2, <2>3, <3>1
    <3>3. \A v \in Vals : ~ R[v].exist
      BY <2>2, <3>1
    <3>4. 1 .. Len(L) = {}
      BY <3>2
    <3>5. Listed([records |-> R, list |-> L])
      BY <3>2, <3>3, <3>4, ListedParts
    <3> QED  BY <2>1, <3>1, <3>5 DEF NoPunishment
  <2>5. PICK t \in Vals : t = TurnOf(1, Range(GenesisVals))
    <3>1. GenesisVals \in Seq(Vals) /\ Len(GenesisVals) > 0
      BY GenesisAssumption, ParamsAssumption
    <3>2. /\ IsFiniteSet(Range(GenesisVals)) /\ Range(GenesisVals) \subseteq Vals
          /\ Range(GenesisVals) # {}
      BY <3>1, FiniteRange
    <3> QED  BY <3>2, TurnTaken
  <2>6. Listed(punish(N, t))
    BY <2>4, <2>5, PunishKeepsListed
  <2>7. punishment = N \/ punishment = punish(N, t)
    BY <2>1, <2>5 DEF Init
  <2>8. Listed(punishment)
    BY <2>4, <2>6, <2>7
  <2> QED  BY <2>8, TopInit, EngineInit DEF AllInv
<1>2. AllInv /\ [Next]_vars => AllInv'
  <2> SUFFICES ASSUME AllInv, [Next]_vars PROVE AllInv'
    OBVIOUS
  <2>1. TopInv'
    BY TopStep DEF AllInv
  <2>2. EngineInv' /\ ProposalInv' /\ Listed(punishment')
    BY <2>1, EngineStep, ProposalStep, ListedStep DEF AllInv
  <2> QED  BY <2>1, <2>2 DEF AllInv
<1> QED  BY <1>1, <1>2, PTL DEF Spec

\* The punished validators are listed once each, at their recorded index,
\* whatever the order of misses, jailings, epochs and passed votes, for any
\* number of validators: cleanPunishRecord never deletes the wrong one.
THEOREM PunishAlwaysListed == Spec => []PunishListed
<1>1. AllInv => PunishListed
  BY DEF AllInv, Listed, PunishListed
<1> QED  BY <1>1, AllInvariance, PTL

\* A validator that was jailed or has lost its stake comes back only in the
\* step that passes a proposal for it, with votes of more than half as many
\* accounts as there are active validators, and without a punish record.
THEOREM RejoinAlwaysNeedsVote == Spec => RejoinNeedsVote
<1> DEFINE Rejoin ==
      \A v \in Vals :
         /\ status[v] \in {"Unstaked", "Jailed"} /\ status'[v] \in {"Created", "Staked"}
               => \E id \in Ids : /\ Exists(id)
                                  /\ proposals[id].dst = v
                                  /\ ~ proposals[id].resultExist
                                  /\ 2 * proposals'[id].agree
                                        > Cardinality(currentValidatorSet)
         /\ status[v] = "Jailed" /\ status'[v] # "Jailed"
               => ~ punishment'.records[v].exist
<1>1. ASSUME UNCHANGED status
      PROVE  Rejoin
  BY <1>1
<1>2. ASSUME AllInv, NEW s, NEW v \in Vals, NEW a, StakeBody(s, v, a),
             status[v] \notin {"Unstaked", "Jailed"}
      PROVE  Rejoin
  BY <1>2 DEF StakeBody, AllInv, TopInv
<1>3. ASSUME AllInv, NEW s, NEW v \in Vals, NEW block, unstake(s, v, block)
      PROVE  Rejoin
  <2>1. \/ UNCHANGED status
        \/ status[v] # "Jailed" /\ status' = [status EXCEPT ![v] = "Unstaked"]
    BY <1>3 DEF unstake, LosesStake
  <2> QED  BY <1>1, <1>3, <2>1 DEF AllInv, TopInv
<1>4. ASSUME AllInv, NEW missed \in BOOLEAN, Finalize(missed)
      PROVE  Rejoin
  <2>1. UNCHANGED status \/ \E v : status' = [status EXCEPT ![v] = "Jailed"]
    BY <1>4 DEF Finalize, removeValidator
  <2> QED  BY <1>1, <1>4, <2>1 DEF AllInv, TopInv
<1>5. ASSUME AllInv, NEW v \in Vals, NEW id \in Ids, NEW auth \in BOOLEAN,
             VoteProposal(v, id, auth)
      PROVE  Rejoin
  <2> DEFINE size == Cardinality(currentValidatorSet)
  <2>1. CASE ~ Passes(id, v, auth, size)
    BY <1>1, <1>5, <2>1 DEF VoteProposal
  <2>2. CASE Passes(id, v, auth, size)
    <3>1. PICK d : d = proposals[id].dst
      OBVIOUS
    <3>2. Exists(id) /\ d \in Vals /\ proposals[id].agree \in Nat
      BY <1>5, <3>1, VoteCounts DEF AllInv, ProposalInv
    <3>3. ~ proposals[id].resultExist
      BY <2>2 DEF Passes, Open
    <3>4. 2 * proposals'[id].agree > size
      <4>1. /\ proposals'[id].agree = Tally(id, v, auth).agree
            /\ ProposalInv' /\ proposals'[id].agree >= (size \div 2) + 1
        BY <1>5, <2>2, VoteCounts DEF AllInv, Passes, Majority
      <4>2. size \in Nat
        BY <1>5, FS_CardinalityType DEF AllInv, EngineInv
      <4>3. proposals'[id].agree \in Nat
        <5>1. Fields \subseteq DOMAIN proposals[id]
          BY <3>2 , <1>5 DEF AllInv, ProposalInv
        <5> QED  BY <3>2, <4>1, <5>1 DEF Tally, Fields
      <4> HIDE DEF size
      <4> QED  BY <4>1, <4>2, <4>3
    <3>5. /\ status' = IF status[d] \in {"Unstaked", "Jailed"}
                       THEN [status EXCEPT ![d] = "Created"] ELSE status
          /\ status[d] = "Jailed" => punishment' = cleanPunishRecord(punishment, d)
      BY <1>5, <2>2, <3>1 DEF VoteProposal, tryReactive
    <3>6. status[d] = "Jailed" => ~ punishment'.records[d].exist
      <4>1. PICK O : O = punishment
        OBVIOUS
      <4>2. ~ cleanPunishRecord(O, d).records[d].exist
        BY <1>5, <3>2, <4>1, CleanKeepsListed DEF AllInv
      <4> QED  BY <3>5, <4>1, <4>2
    <3>7. \A w \in Vals : w # d => status'[w] = status[w]
      BY <1>5, <3>5 DEF AllInv, TopInv
    <3> QED  BY <3>1, <3>2, <3>3, <3>4, <3>6, <3>7
  <2> QED  BY <2>1, <2>2
<1>6. AllInv /\ [Next]_vars => [Rejoin]_vars
  <2> SUFFICES ASSUME AllInv, Next PROVE Rejoin
    OBVIOUS
  <2> HIDE DEF Rejoin
  <2>1. ASSUME NEW s \in Stakers, NEW v \in Vals, NEW a \in Amounts, Stake(s, v, a)
        PROVE  Rejoin
    BY <1>2, <2>1 DEF Stake, stake
  <2>2. ASSUME NEW v \in Vals \cap Stakers, NEW a \in Amounts, CreateValidator(v, a)
        PROVE  Rejoin
    BY <1>2, <2>2 DEF CreateValidator, createOrEditValidator
  <2>3. ASSUME NEW s \in Stakers, NEW v \in Vals, Unstake(s, v)
        PROVE  Rejoin
    BY <1>3, <2>3 DEF Unstake
  <2>4. ASSUME NEW s \in Stakers, NEW v \in Vals, WithdrawStaking(s, v)
        PROVE  Rejoin
    BY <1>1, <2>4 DEF WithdrawStaking, withdrawStaking
  <2>5. ASSUME NEW v \in Vals, NEW id \in Ids, CreateProposal(v, id)
        PROVE  Rejoin
    BY <1>1, <2>5 DEF CreateProposal, validatorsVars
  <2>6. CASE Bounded
    BY <1>1, <2>6 DEF Bounded, vars, validatorsVars
  <2> QED  BY <1>4, <1>5, <2>1, <2>2, <2>3, <2>4, <2>5, <2>6 DEF Next
<1> QED  BY <1>6, AllInvariance, PTL DEF Spec, RejoinNeedsVote

-----------------------------------------------------------------------------
(***************************************************************************)
(* The staking ledger.                                                     *)
(***************************************************************************)

Info == [coins : Nat, unstakeBlock : Nat, index : Nat, timed : BOOLEAN]

\* What an index says: staker s is at that place of the list L, and is paid.
Placed(L, info, s) ==
    info.index < Len(L) /\ L[info.index + 1] = s /\ info.timed

\* The list L of the stakers of v agrees with the records K.  An account that
\* stakes nothing while its index is 0 is appended again, so the first place
\* may be that of an account with another index, or with none; every other
\* place is right, and so is every index of an account that earns and every
\* index but 0.
Book(L, K, v) ==
    /\ \A k \in 2 .. Len(L) : K[L[k]][v].index = k - 1
    /\ \A s \in Stakers :
          /\ K[s][v].index # 0 => Placed(L, K[s][v], s) /\ K[s][v].unstakeBlock = 0
          /\ K[s][v].coins > 0 /\ K[s][v].unstakeBlock = 0 => Placed(L, K[s][v], s)

Records == [Stakers -> [Vals -> Info]]

\* The coins s has in v that are not being withdrawn.
Active(K, s, v) ==
    IF K[s][v].coins > 0 /\ K[s][v].unstakeBlock = 0 THEN K[s][v].coins ELSE 0

ActiveSum(K, v) == SumFunction([s \in Stakers |-> Active(K, s, v)])

\* K2 is K with another record of s in v, up to the indices.
Recorded(K, K2, s, v) ==
    \A t \in Stakers, w \in Vals : <<t, w>> # <<s, v>> =>
        /\ K2[t][w].coins = K[t][w].coins
        /\ K2[t][w].unstakeBlock = K[t][w].unstakeBlock

LEMMA ActiveSums ==
    ASSUME NEW K \in Records, NEW K2 \in Records, NEW s \in Stakers, NEW v \in Vals,
           Recorded(K, K2, s, v)
    PROVE  /\ \A w \in Vals : ActiveSum(K, w) \in Nat /\ ActiveSum(K2, w) \in Nat
           /\ \A w \in Vals \ {v} : ActiveSum(K2, w) = ActiveSum(K, w)
           /\ ActiveSum(K2, v) = ActiveSum(K, v) - Active(K, s, v) + Active(K2, s, v)
           /\ Active(K, s, v) <= ActiveSum(K, v)
<1> DEFINE F(J, w) == [t \in Stakers |-> Active(J, t, w)]
<1>1. IsFiniteSet(Stakers)
  BY AddressAssumption
<1>2. \A t \in Stakers, w \in Vals :
         /\ Active(K, t, w) \in Nat /\ Active(K2, t, w) \in Nat
         /\ <<t, w>> # <<s, v>> => Active(K2, t, w) = Active(K, t, w)
  BY DEF Active, Records, Info, Recorded
<1>3. \A w : /\ ActiveSum(K, w) = SumFunctionOnSet(F(K, w), Stakers)
             /\ ActiveSum(K2, w) = SumFunctionOnSet(F(K2, w), Stakers)
  BY DEF ActiveSum, SumFunction
<1>4. \A t \in Stakers, w \in Vals :
         F(K, w)[t] = Active(K, t, w) /\ F(K2, w)[t] = Active(K2, t, w)
  OBVIOUS
<1> HIDE DEF F
<1>5. ASSUME NEW w \in Vals
      PROVE  /\ ActiveSum(K, w) \in Nat /\ ActiveSum(K2, w) \in Nat
             /\ w # v => ActiveSum(K2, w) = ActiveSum(K, w)
  <2>1. /\ SumFunctionOnSet(F(K, w), Stakers) \in Nat
        /\ SumFunctionOnSet(F(K2, w), Stakers) \in Nat
    BY <1>1, <1>2, <1>4, SumNat
  <2>2. ASSUME w # v
        PROVE  SumFunctionOnSet(F(K2, w), Stakers) = SumFunctionOnSet(F(K, w), Stakers)
    <3>1. \A t \in Stakers : F(K2, w)[t] \in Int /\ F(K2, w)[t] = F(K, w)[t]
      BY <1>2, <1>4, <2>2
    <3> QED  BY <1>1, <3>1, SumCong
  <2> QED  BY <1>3, <2>1, <2>2
<1>6. ActiveSum(K2, v) = ActiveSum(K, v) - Active(K, s, v) + Active(K2, s, v)
  <2>1. \A t \in Stakers : F(K, v)[t] \in Int /\ F(K2, v)[t] \in Int
    BY <1>2, <1>4
  <2>2. \A t \in Stakers \ {s} : F(K, v)[t] = F(K2, v)[t]
    BY <1>2, <1>4
  <2>3. SumFunctionOnSet(F(K2, v), Stakers)
           = SumFunctionOnSet(F(K, v), Stakers) - F(K, v)[s] + F(K2, v)[s]
    BY <1>1, <2>1, <2>2, SumPoint
  <2> QED  BY <1>3, <1>4, <2>3
<1>7. Active(K, s, v) <= ActiveSum(K, v)
  BY <1>1, <1>2, <1>3, <1>4, SumNat
<1> QED  BY <1>5, <1>6, <1>7

LEMMA CoinSums ==
    ASSUME NEW c \in [Vals -> Nat], NEW d \in [Vals -> Nat], NEW v \in Vals,
           \A w \in Vals \ {v} : d[w] = c[w]
    PROVE  /\ SumFunction(c) \in Nat /\ SumFunction(d) \in Nat
           /\ SumFunction(d) = SumFunction(c) - c[v] + d[v]
           /\ c[v] <= SumFunction(c)
<1>1. SumFunction(c) = SumFunctionOnSet(c, Vals) /\ SumFunction(d) = SumFunctionOnSet(d, Vals)
  BY DEF SumFunction
<1>2. IsFiniteSet(Vals)
  BY AddressAssumption
<1>3. SumFunctionOnSet(c, Vals) \in Nat /\ SumFunctionOnSet(d, Vals) \in Nat
      /\ c[v] <= SumFunctionOnSet(c, Vals)
  BY <1>2, SumNat
<1>4. SumFunctionOnSet(d, Vals) = SumFunctionOnSet(c, Vals) - c[v] + d[v]
  BY <1>2, SumPoint
<1> QED  BY <1>1, <1>3, <1>4

\* A first stake is appended.
LEMMA BookAppend ==
    ASSUME NEW L \in Seq(Stakers), NEW K \in Records, NEW K2 \in Records,
           NEW s \in Stakers, NEW v \in Vals, Book(L, K, v),
           K[s][v].index = 0,
           \A t \in Stakers \ {s} : K2[t][v] = K[t][v],
           K2[s][v].index = Len(L), K2[s][v].timed, K2[s][v].unstakeBlock = 0
    PROVE  Book(Append(L, s), K2, v)
<1> DEFINE M == Append(L, s)
<1>1. /\ Len(M) = Len(L) + 1 /\ Len(L) \in Nat
      /\ M[Len(L) + 1] = s
      /\ \A k \in 1 .. Len(L) : M[k] = L[k] /\ L[k] \in Stakers
  OBVIOUS
<1> HIDE DEF M
<1>2. \A t \in Stakers : /\ K[t][v].index \in Nat /\ K2[t][v].index \in Nat
  BY DEF Records, Info
<1>3. ASSUME NEW k \in 2 .. Len(M) PROVE K2[M[k]][v].index = k - 1
  <2>1. CASE k = Len(L) + 1
    BY <1>1, <2>1
  <2>2. CASE k # Len(L) + 1
    <3>1. k \in 2 .. Len(L) /\ k \in 1 .. Len(L) /\ k - 1 # 0
      BY <1>1, <2>2
    <3>2. K[L[k]][v].index = k - 1
      BY <3>1 DEF Book
    <3>3. M[k] = L[k] /\ L[k] \in Stakers \ {s}
      BY <1>1, <3>1, <3>2
    <3> QED  BY <3>2, <3>3
  <2> QED  BY <2>1, <2>2
<1>4. ASSUME NEW t \in Stakers
      PROVE  /\ K2[t][v].index # 0 => Placed(M, K2[t][v], t) /\ K2[t][v].unstakeBlock = 0
             /\ K2[t][v].coins > 0 /\ K2[t][v].unstakeBlock = 0 => Placed(M, K2[t][v], t)
  <2>1. CASE t = s
    BY <1>1, <2>1 DEF Placed
  <2>2. CASE t # s
    <3>1. PICK i : i = K[t][v] /\ i = K2[t][v] /\ i.index \in Nat
      BY <1>2, <2>2
    <3>2. /\ i.index # 0 => Placed(L, i, t) /\ i.unstakeBlock = 0
          /\ i.coins > 0 /\ i.unstakeBlock = 0 => Placed(L, i, t)
      BY <3>1 DEF Book
    <3>3. ASSUME Placed(L, i, t) PROVE Placed(M, i, t)
      <4>1. i.index + 1 \in 1 .. Len(L) /\ i.index < Len(M) /\ L[i.index + 1] = t /\ i.timed
        BY <1>1, <3>1, <3>3 DEF Placed
      <4>2. M[i.index + 1] = t
        BY <1>1, <4>1
      <4> QED  BY <4>1, <4>2 DEF Placed
    <3> QED  BY <3>1, <3>2, <3>3
  <2> QED  BY <2>1, <2>2
<1> QED  BY <1>3, <1>4 DEF Book, M

\* More coins for an account that has a place.
LEMMA BookMore ==
    ASSUME NEW L \in Seq(Stakers), NEW K \in Records, NEW K2 \in Records,
           NEW s \in Stakers, NEW v \in Vals, Book(L, K, v),
           K[s][v].coins # 0 \/ K[s][v].index # 0, K[s][v].unstakeBlock = 0,
           \A t \in Stakers : /\ K2[t][v].index = K[t][v].index
                              /\ K2[t][v].timed = K[t][v].timed
                              /\ K2[t][v].unstakeBlock = K[t][v].unstakeBlock
                              /\ t # s => K2[t][v].coins = K[t][v].coins
    PROVE  Book(L, K2, v)
<1>1. \A k \in 1 .. Len(L) : L[k] \in Stakers
  OBVIOUS
<1>2. \A k \in 2 .. Len(L) : K2[L[k]][v].index = k - 1
  BY <1>1 DEF Book
<1>3. Placed(L, K[s][v], s)
  BY DEF Book, Records, Info
<1>4. ASSUME NEW t \in Stakers
      PROVE  /\ K2[t][v].index # 0 => Placed(L, K2[t][v], t) /\ K2[t][v].unstakeBlock = 0
             /\ K2[t][v].coins > 0 /\ K2[t][v].unstakeBlock = 0 => Placed(L, K2[t][v], t)
  BY <1>3 DEF Book, Placed
<1> QED  BY <1>2, <1>4 DEF Book

\* An account that earns leaves the list, and the last one takes its place.
LEMMA BookRemove ==
    ASSUME NEW L \in Seq(Stakers), NEW K \in Records, NEW K2 \in Records,
           NEW s \in Stakers, NEW v \in Vals, Book(L, K, v),
           K[s][v].coins > 0, K[s][v].unstakeBlock = 0,
           K2[s][v].index = 0, K2[s][v].unstakeBlock # 0,
           \A t \in Stakers \ {s} :
              /\ K2[t][v].index = IF t = L[Len(L)] THEN K[s][v].index ELSE K[t][v].index
              /\ K2[t][v].timed = K[t][v].timed
              /\ K2[t][v].unstakeBlock = K[t][v].unstakeBlock
              /\ K2[t][v].coins = K[t][v].coins
    PROVE  /\ SwapRemove(L, K[s][v].index + 1) \in Seq(Stakers)
           /\ Book(SwapRemove(L, K[s][v].index + 1), K2, v)
<1> DEFINE i == K[s][v].index
           n == Len(L)
           M == SwapRemove(L, i + 1)
<1>1. i \in Nat /\ i < n /\ L[i + 1] = s /\ n \in Nat
  BY DEF Book, Placed, Records, Info
<1>2. \A k \in 1 .. n : L[k] \in Stakers
  OBVIOUS
<1>3. /\ M \in Seq(Stakers) /\ Len(M) = n - 1
      /\ \A k \in 1 .. n - 1 : M[k] = IF k = i + 1 THEN L[n] ELSE L[k]
  BY <1>1, <1>2 DEF SwapRemove
<1>4. \A t \in Stakers : K[t][v].index \in Nat /\ K2[t][v].index \in Nat
  BY DEF Records, Info
<1>5. \A k \in 2 .. n : K[L[k]][v].index = k - 1
  BY DEF Book
<1>6. \A t \in Stakers :
         (K[t][v].index # 0 \/ (K[t][v].coins > 0 /\ K[t][v].unstakeBlock = 0))
            => K[t][v].index < n /\ L[K[t][v].index + 1] = t /\ K[t][v].timed
  BY DEF Book, Placed
<1> HIDE DEF M, n, i
<1>7. ASSUME NEW k \in 2 .. Len(M) PROVE K2[M[k]][v].index = k - 1
  <2>1. k \in 2 .. n /\ k \in 1 .. n - 1 /\ k < n /\ n \in 2 .. n
    BY <1>1, <1>3
  <2>2. K[L[k]][v].index = k - 1 /\ K[L[n]][v].index = n - 1
    BY <1>5, <2>1
  <2>3. CASE k = i + 1
    <3>1. L[n] # s
      <4>1. K[s][v].index = k - 1
        BY <1>1, <2>3 DEF i
      <4> QED  BY <1>1, <2>1, <2>2, <4>1
    <3>2. M[k] = L[n]
      BY <1>3, <2>1, <2>3
    <3>3. L[n] \in Stakers \ {s}
      BY <1>1, <1>2, <2>1, <3>1
    <3>4. K2[L[n]][v].index = i
      BY <3>3 DEF i, n
    <3> QED  BY <1>1, <2>3, <3>2, <3>4
  <2>4. CASE k # i + 1
    <3>1. M[k] = L[k] /\ L[k] # s /\ L[k] # L[n]
      BY <1>1, <1>3, <2>1, <2>2, <2>4 DEF i
    <3> QED  BY <1>2, <2>1, <2>2, <3>1 DEF i, n
  <2> QED  BY <2>3, <2>4
<1>8. ASSUME NEW t \in Stakers, t # s,
             \/ K2[t][v].index # 0
             \/ K2[t][v].coins > 0 /\ K2[t][v].unstakeBlock = 0
      PROVE  /\ Placed(M, K2[t][v], t)
             /\ K2[t][v].index # 0 => K2[t][v].unstakeBlock = 0
  <2>1. CASE t = L[n]
    <3>1. K2[t][v].index = i
      BY <1>8, <2>1 DEF i, n
    <3>2. n # 1
      BY <1>1, <1>8, <2>1
    <3>3. n \in 2 .. n
      BY <1>1, <3>2
    <3>4. K[t][v].index = n - 1 /\ n - 1 # 0
      BY <1>1, <1>5, <2>1, <3>3
    <3>5. K[t][v].timed /\ K[t][v].unstakeBlock = 0
      BY <3>4 DEF Book, Placed
    <3>6. i < n - 1
      BY <1>1, <1>8, <2>1
    <3>7. M[i + 1] = t
      BY <1>1, <1>3, <2>1, <3>6
    <3> QED  BY <1>1, <1>3, <1>8, <3>1, <3>5, <3>6, <3>7 DEF Placed
  <2>2. CASE t # L[n]
    <3>1. K2[t][v].index = K[t][v].index
      BY <1>8, <2>2 DEF n
    <3>2. PICK j \in Nat : j = K[t][v].index
      BY <1>4
    <3>3. j < n /\ L[j + 1] = t /\ K[t][v].timed
      BY <1>6, <1>8, <3>1, <3>2
    <3>4. j + 1 # n /\ j # i
      BY <1>1, <1>8, <2>2, <3>3
    <3>5. M[j + 1] = t /\ j < Len(M)
      BY <1>1, <1>3, <3>3, <3>4
    <3>6. K2[t][v].index # 0 => K2[t][v].unstakeBlock = 0
      BY <1>8, <3>1 DEF Book
    <3> QED  BY <1>8, <3>1, <3>2, <3>3, <3>5, <3>6 DEF Placed
  <2> QED  BY <2>1, <2>2
<1> QED  BY <1>3, <1>7, <1>8 DEF Book, M, i

\* A withdrawal: what was being withdrawn has no place.
LEMMA BookWithdraw ==
    ASSUME NEW L \in Seq(Stakers), NEW K \in Records, NEW K2 \in Records,
           NEW s \in Stakers, NEW v \in Vals, Book(L, K, v),
           K[s][v].unstakeBlock # 0, K2[s][v].coins = 0,
           \A t \in Stakers : /\ K2[t][v].index = K[t][v].index
                              /\ t # s => K2[t][v] = K[t][v]
    PROVE  Book(L, K2, v)
<1>1. \A k \in 1 .. Len(L) : L[k] \in Stakers
  OBVIOUS
<1>2. \A k \in 2 .. Len(L) : K2[L[k]][v].index = k - 1
  BY <1>1 DEF Book
<1>3. K2[s][v].index = 0
  BY DEF Book
<1>4. ASSUME NEW t \in Stakers
      PROVE  /\ K2[t][v].index # 0 => Placed(L, K2[t][v], t) /\ K2[t][v].unstakeBlock = 0
             /\ K2[t][v].coins > 0 /\ K2[t][v].unstakeBlock = 0 => Placed(L, K2[t][v], t)
  BY <1>3 DEF Book
<1> QED  BY <1>2, <1>4 DEF Book

\* Nothing changes for v.
LEMMA BookSame ==
    ASSUME NEW L \in Seq(Stakers), NEW K, NEW K2, NEW v,
           \A t \in Stakers : K2[t][v] = K[t][v], Book(L, K, v)
    PROVE  Book(L, K2, v)
<1>1. \A k \in 1 .. Len(L) : L[k] \in Stakers
  OBVIOUS
<1> QED  BY <1>1 DEF Book

\* The inductive invariant of the ledger.
LedgerInv ==
    /\ coins \in [Vals -> Nat] /\ totalStake \in Nat
    /\ stakers \in [Vals -> Seq(Stakers)]
    /\ staked \in Records
    /\ \A v \in Vals : Book(stakers[v], staked, v)
    /\ \A v \in Vals : coins[v] = ActiveSum(staked, v)
    /\ totalStake = SumFunction(coins)
    /\ \A s \in Stakers, v \in Vals :
          staked[s][v].unstakeBlock # 0
             => staked[s][v].coins > 0 /\ status[v] # "NotExist"

\* What a change of one record has to keep.
LEMMA LedgerChange ==
    ASSUME LedgerInv, NEW s \in Stakers, NEW v \in Vals, NEW K2, K2 = staked',
           K2 \in Records, Recorded(staked, K2, s, v),
           NEW d, d = coins', d \in [Vals -> Nat],
           \A w \in Vals \ {v} : d[w] = coins[w],
           d[v] = coins[v] - Active(staked, s, v) + Active(K2, s, v),
           totalStake' = totalStake - Active(staked, s, v) + Active(K2, s, v),
           stakers' \in [Vals -> Seq(Stakers)],
           \A w \in Vals \ {v} : /\ stakers'[w] = stakers[w]
                                 /\ \A t \in Stakers : K2[t][w] = staked[t][w],
           Book(stakers'[v], K2, v),
           \A w \in Vals : status[w] # "NotExist" => status'[w] # "NotExist",
           K2[s][v].unstakeBlock # 0 => K2[s][v].coins > 0 /\ status'[v] # "NotExist"
    PROVE  LedgerInv'
<1>1. PICK K, c : K = staked /\ c = coins
  OBVIOUS
<1>2. K \in Records /\ c \in [Vals -> Nat] /\ Recorded(K, K2, s, v)
  BY <1>1 DEF LedgerInv
<1>3. /\ \A w \in Vals : ActiveSum(K, w) \in Nat /\ ActiveSum(K2, w) \in Nat
      /\ \A w \in Vals \ {v} : ActiveSum(K2, w) = ActiveSum(K, w)
      /\ ActiveSum(K2, v) = ActiveSum(K, v) - Active(K, s, v) + Active(K2, s, v)
  BY <1>2, ActiveSums
<1>4. /\ SumFunction(c) \in Nat /\ SumFunction(d) \in Nat
      /\ SumFunction(d) = SumFunction(c) - c[v] + d[v]
  <2>1. \A w \in Vals \ {v} : d[w] = c[w]
    BY <1>1
  <2> QED  BY <1>2, <2>1, CoinSums
<1>5. \A w \in Vals : d[w] = ActiveSum(K2, w)
  BY <1>1, <1>3 DEF LedgerInv
<1>6. totalStake' = SumFunction(d)
  <2>1. PICK a \in Nat, b \in Nat : a = Active(K, s, v) /\ b = Active(K2, s, v)
    BY <1>2 DEF Active, Records, Info
  <2>2. c[v] \in Nat /\ d[v] = c[v] - a + b
    BY <1>1, <1>2, <2>1
  <2>3. totalStake' = SumFunction(c) - a + b
    BY <1>1, <2>1 DEF LedgerInv
  <2> QED  BY <1>4, <2>2, <2>3
<1>7. ASSUME NEW w \in Vals PROVE Book(stakers'[w], K2, w)
  <2>1. CASE w = v
    BY <2>1
  <2>2. CASE w # v
    <3>1. PICK L : L = stakers[w] /\ L \in Seq(Stakers) /\ L = stakers'[w]
      BY <2>2 DEF LedgerInv
    <3>2. Book(L, K, w) /\ \A t \in Stakers : K2[t][w] = K[t][w]
      BY <1>1, <2>2, <3>1 DEF LedgerInv
    <3> QED  BY <3>1, <3>2, BookSame
  <2> QED  BY <2>1, <2>2
<1>8. ASSUME NEW t \in Stakers, NEW w \in Vals, K2[t][w].unstakeBlock # 0
      PROVE  K2[t][w].coins > 0 /\ status'[w] # "NotExist"
  <2>1. CASE <<t, w>> = <<s, v>>
    BY <1>8, <2>1
  <2>2. CASE <<t, w>> # <<s, v>>
    <3>1. /\ K2[t][w].coins = K[t][w].coins
          /\ K2[t][w].unstakeBlock = K[t][w].unstakeBlock
      BY <1>2, <2>2 DEF Recorded
    <3> QED  BY <1>1, <1>8, <3>1 DEF LedgerInv
  <2> QED  BY <2>1, <2>2
<1>9. totalStake' \in Nat
  BY <1>4, <1>6
<1> QED  BY <1>5, <1>6, <1>7, <1>8, <1>9 DEF LedgerInv

\* What a stake writes: one record.
LEMMA StakeRecords ==
    ASSUME NEW J \in Records, J = staked, NEW L \in Seq(Stakers), NEW s \in Stakers,
           NEW v \in Vals, L = stakers[v], NEW a \in Nat, StakeBody(s, v, a)
    PROVE  \E K2 \in Records, r \in Info :
              LET first == J[s][v].coins = 0 /\ J[s][v].index = 0
              IN  /\ K2 = staked' /\ K2[s][v] = r /\ r.coins = J[s][v].coins + a
                  /\ r.unstakeBlock = 0 /\ r.index = IF first THEN Len(L) ELSE J[s][v].index
                  /\ r.timed = (J[s][v].timed \/ first)
                  /\ \A t \in Stakers, w \in Vals :
                        <<t, w>> # <<s, v>> => K2[t][w] = J[t][w]
<1>1. PICK K \in Records : K = J
  OBVIOUS
<1> DEFINE info == staked[s][v]
           first == info.coins = 0 /\ info.index = 0
<1>3. K[s][v] \in Info /\ K[s][v].unstakeBlock = 0 /\ info = K[s][v] /\ Len(L) \in Nat
  BY <1>1 DEF Records, StakeBody
<1>4. PICK r \in Info :
         /\ r = [info EXCEPT !.coins = @ + a,
                             !.index = IF first THEN Len(stakers[v]) ELSE @,
                             !.timed = @ \/ first]
         /\ r.coins = K[s][v].coins + a
         /\ r.unstakeBlock = 0
         /\ r.index = IF first THEN Len(L) ELSE K[s][v].index
         /\ r.timed = (K[s][v].timed \/ first)
  <2>1. PICK b \in BOOLEAN : b = (K[s][v].timed \/ first)
    BY <1>3 DEF Info
  <2>2. PICK j \in Nat : j = IF first THEN Len(L) ELSE K[s][v].index
    BY <1>3 DEF Info
  <2>3. PICK n \in Nat : n = K[s][v].coins + a
    BY <1>3 DEF Info
  <2>4. [info EXCEPT !.coins = @ + a,
                     !.index = IF first THEN Len(stakers[v]) ELSE @,
                     !.timed = @ \/ first]
           = [K[s][v] EXCEPT !.coins = n, !.index = j, !.timed = b]
    BY <1>3, <2>1, <2>2, <2>3
  <2> HIDE DEF first, info
  <2>5. PICK q : q = [K[s][v] EXCEPT !.coins = n, !.index = j, !.timed = b]
    OBVIOUS
  <2>6. q \in Info
    BY <1>3, <2>5 DEF Info
  <2>7. q.coins = n /\ q.unstakeBlock = 0 /\ q.index = j /\ q.timed = b
    BY <1>3, <2>5 DEF Info
  <2> QED  BY <2>1, <2>2, <2>3, <2>4, <2>5, <2>6, <2>7
<1>5. PICK K2 : K2 = staked' /\ K2 = [K EXCEPT ![s][v] = r]
  BY <1>1, <1>4 DEF StakeBody
<1>6. /\ K2 \in Records /\ K2[s][v] = r
      /\ \A t \in Stakers, w \in Vals : <<t, w>> # <<s, v>> => K2[t][w] = K[t][w]
  BY <1>4, <1>5 DEF Records
<1>7. K2 \in Records
  BY <1>6
<1> WITNESS K2 \in Records, r \in Info
<1> QED  BY <1>1, <1>3, <1>4, <1>5, <1>6

LEMMA StakeKeepsLedger ==
    ASSUME LedgerInv, TopInv, NEW s \in Stakers, NEW v \in Vals, NEW a \in Nat,
           StakeBody(s, v, a)
    PROVE  LedgerInv'
<1> DEFINE info == staked[s][v]
           first == info.coins = 0 /\ info.index = 0
<1>1. PICK K, L, c : K = staked /\ L = stakers[v] /\ c = coins
  OBVIOUS
<1>2. K \in Records /\ L \in Seq(Stakers) /\ c \in [Vals -> Nat] /\ Book(L, K, v)
  BY <1>1 DEF LedgerInv
<1>3. K[s][v] \in Info /\ K[s][v].unstakeBlock = 0 /\ info = K[s][v] /\ Len(L) \in Nat
  BY <1>1, <1>2 DEF Records, StakeBody
<1>4. PICK K2 \in Records, r \in Info :
         /\ K2 = staked' /\ K2[s][v] = r /\ r.coins = K[s][v].coins + a
         /\ r.unstakeBlock = 0 /\ r.index = IF first THEN Len(L) ELSE K[s][v].index
         /\ r.timed = (K[s][v].timed \/ first)
         /\ \A t \in Stakers, w \in Vals : <<t, w>> # <<s, v>> => K2[t][w] = K[t][w]
  BY <1>1, <1>2, <1>3, StakeRecords
<1>5. K2 = staked'
  BY <1>4
<1>6. /\ K2 \in Records /\ K2[s][v] = r
      /\ \A t \in Stakers, w \in Vals : <<t, w>> # <<s, v>> => K2[t][w] = K[t][w]
  BY <1>4
<1>7. PICK d : d = coins' /\ d = [c EXCEPT ![v] = @ + a]
  BY <1>1 DEF StakeBody
<1>8. /\ d \in [Vals -> Nat] /\ d[v] = c[v] + a
      /\ \A w \in Vals \ {v} : d[w] = c[w]
  BY <1>2, <1>7
<1>9. Active(K, s, v) = K[s][v].coins /\ Active(K2, s, v) = K[s][v].coins + a
      /\ K[s][v].coins \in Nat
  <2>1. K[s][v].coins \in Nat
    BY <1>3 DEF Info
  <2> QED  BY <1>3, <1>4, <1>6, <2>1 DEF Active
<1>10. c[v] \in Nat /\ totalStake \in Nat /\ totalStake' = totalStake + a
  BY <1>1, <1>2 DEF StakeBody, LedgerInv
<1>11. /\ d[v] = c[v] - Active(K, s, v) + Active(K2, s, v)
       /\ totalStake' = totalStake - Active(K, s, v) + Active(K2, s, v)
  BY <1>8, <1>9, <1>10
<1>12. /\ stakers' \in [Vals -> Seq(Stakers)]
       /\ \A w \in Vals \ {v} : stakers'[w] = stakers[w]
       /\ stakers'[v] = IF first THEN Append(L, s) ELSE L
  <2>1. stakers' = IF first THEN [stakers EXCEPT ![v] = Append(@, s)] ELSE stakers
    BY DEF StakeBody
  <2>2. Append(L, s) \in Seq(Stakers)
    BY <1>2
  <2>3. stakers \in [Vals -> Seq(Stakers)]
    BY DEF LedgerInv
  <2> HIDE DEF first
  <2> QED  BY <1>1, <2>1, <2>2, <2>3
<1>13. Book(stakers'[v], K2, v)
  <2>1. CASE first
    <3>1. K2[s][v].index = Len(L) /\ K2[s][v].timed /\ K2[s][v].unstakeBlock = 0
      BY <1>4, <1>6, <2>1
    <3>2. K[s][v].index = 0 /\ \A t \in Stakers \ {s} : K2[t][v] = K[t][v]
      BY <1>3, <1>6, <2>1
    <3>3. Book(Append(L, s), K2, v)
      BY <1>2, <1>6, <3>1, <3>2, BookAppend
    <3> QED  BY <1>12, <2>1, <3>3
  <2>2. CASE ~ first
    <3>1. K[s][v].coins # 0 \/ K[s][v].index # 0
      BY <1>3, <2>2
    <3>2. \A t \in Stakers : /\ K2[t][v].index = K[t][v].index
                             /\ K2[t][v].timed = K[t][v].timed
                             /\ K2[t][v].unstakeBlock = K[t][v].unstakeBlock
                             /\ t # s => K2[t][v].coins = K[t][v].coins
      <4>1. r.timed = K[s][v].timed /\ r.index = K[s][v].index
        BY <1>3, <1>4, <2>2 DEF Info
      <4> QED  BY <1>3, <1>4, <1>6, <4>1
    <3>3. Book(L, K2, v)
      BY <1>2, <1>3, <1>6, <3>1, <3>2, BookMore
    <3> QED  BY <1>12, <2>2, <3>3
  <2> QED  BY <2>1, <2>2
<1>14. \A w \in Vals : status[w] # "NotExist" => status'[w] # "NotExist"
  BY DEF StakeBody, TopInv
<1>15. Recorded(K, K2, s, v)
  BY <1>6 DEF Recorded
<1>16. K2[s][v].unstakeBlock = 0
  BY <1>4, <1>6
<1> HIDE DEF info, first
<1>17. /\ Recorded(staked, K2, s, v)
       /\ \A w \in Vals \ {v} : d[w] = coins[w]
       /\ d[v] = coins[v] - Active(staked, s, v) + Active(K2, s, v)
       /\ totalStake' = totalStake - Active(staked, s, v) + Active(K2, s, v)
       /\ \A w \in Vals \ {v} : /\ stakers'[w] = stakers[w]
                                /\ \A t \in Stakers : K2[t][w] = staked[t][w]
  BY <1>1, <1>6, <1>8, <1>11, <1>12, <1>15
<1> QED
  BY <1>5, <1>6, <1>7, <1>8, <1>12, <1>13, <1>14, <1>16, <1>17, LedgerChange

\* What an unstake writes: one record, and the index of the last staker.
LEMMA UnstakeRecords ==
    ASSUME NEW J \in Records, J = staked, NEW L \in Seq(Stakers), NEW s \in Stakers,
           NEW v \in Vals, L = stakers[v], NEW block \in Nat \ {0}, unstake(s, v, block)
    PROVE  \E K2 \in Records :
              /\ K2 = staked'
              /\ K2[s][v].coins = J[s][v].coins /\ K2[s][v].unstakeBlock = block
              /\ K2[s][v].index = 0
              /\ \A t \in Stakers \ {s} :
                    /\ K2[t][v].index = IF t = L[Len(L)] THEN J[s][v].index
                                                       ELSE J[t][v].index
                    /\ K2[t][v].timed = J[t][v].timed
                    /\ K2[t][v].unstakeBlock = J[t][v].unstakeBlock
                    /\ K2[t][v].coins = J[t][v].coins
              /\ \A t \in Stakers, w \in Vals \ {v} : K2[t][w] = J[t][w]
<1>1. PICK K \in Records : K = J
  OBVIOUS
<1>3. PICK i \in Info : i = K[s][v]
  BY DEF Records
<1>4. i.index < Len(L) /\ i.index \in Nat
  BY <1>1, <1>3 DEF unstake, Info
<1>5. PICK l \in Stakers : l = L[Len(L)]
  BY <1>4
<1>6. PICK r : r = [i EXCEPT !.unstakeBlock = block, !.index = 0, !.timed = FALSE]
  OBVIOUS
<1>7. r \in Info /\ r.unstakeBlock = block /\ r.index = 0 /\ r.coins = i.coins
  BY <1>6 DEF Info
<1>8. PICK K1 : K1 = [K EXCEPT ![l][v].index = i.index]
  OBVIOUS
<1>9. /\ K1 \in Records
      /\ \A t \in Stakers, w \in Vals :
            /\ K1[t][w].coins = K[t][w].coins
            /\ K1[t][w].unstakeBlock = K[t][w].unstakeBlock
            /\ K1[t][w].timed = K[t][w].timed
            /\ w # v => K1[t][w] = K[t][w]
            /\ K1[t][v].index = IF t = l THEN i.index ELSE K[t][v].index
  <2>1. PICK j \in Nat : j = i.index
    BY <1>4
  <2>2. PICK o \in Info : o = K[l][v]
    BY DEF Records
  <2>3. PICK q : q = [o EXCEPT !.index = j]
    OBVIOUS
  <2>4. /\ q \in Info /\ q.index = j /\ q.coins = o.coins
        /\ q.unstakeBlock = o.unstakeBlock /\ q.timed = o.timed
    BY <2>3 DEF Info
  <2>5. K1 = [K EXCEPT ![l][v] = q]
    BY <1>8, <2>1, <2>2, <2>3 DEF Records
  <2>6. /\ K1 \in Records /\ K1[l][v] = q
        /\ \A t \in Stakers, w \in Vals : <<t, w>> # <<l, v>> => K1[t][w] = K[t][w]
    BY <2>4, <2>5 DEF Records
  <2> QED  BY <2>1, <2>2, <2>4, <2>6
<1>10. PICK K2 : K2 = staked' /\ K2 = [K1 EXCEPT ![s][v] = r]
  BY <1>1, <1>3, <1>5, <1>6, <1>8 DEF unstake, Reindex
<1>11. /\ K2 \in Records /\ K2[s][v] = r
       /\ \A t \in Stakers, w \in Vals : <<t, w>> # <<s, v>> => K2[t][w] = K1[t][w]
  BY <1>7, <1>9, <1>10 DEF Records
<1>12. K2 \in Records
  BY <1>11
<1> WITNESS K2 \in Records
<1> QED  BY <1>1, <1>3, <1>5, <1>7, <1>9, <1>10, <1>11

LEMMA UnstakeKeepsLedger ==
    ASSUME LedgerInv, TopInv, NEW s \in Stakers, NEW v \in Vals,
           NEW block \in Nat \ {0}, unstake(s, v, block)
    PROVE  LedgerInv'
<1>1. PICK K, L, c : K = staked /\ L = stakers[v] /\ c = coins
  OBVIOUS
<1>2. K \in Records /\ L \in Seq(Stakers) /\ c \in [Vals -> Nat] /\ Book(L, K, v)
  BY <1>1 DEF LedgerInv
<1>3. PICK i \in Info : i = K[s][v]
  BY <1>2 DEF Records
<1>4. /\ i.unstakeBlock = 0 /\ i.coins > 0 /\ i.index < Len(L) /\ c[v] - i.coins >= 0
      /\ totalStake >= i.coins /\ i.coins \in Nat /\ i.index \in Nat
  BY <1>1, <1>3 DEF unstake, Info
<1>11. PICK K2 \in Records :
         /\ K2 = staked'
         /\ K2[s][v].coins = K[s][v].coins /\ K2[s][v].unstakeBlock = block
         /\ K2[s][v].index = 0
         /\ \A t \in Stakers \ {s} :
               /\ K2[t][v].index = IF t = L[Len(L)] THEN K[s][v].index
                                                  ELSE K[t][v].index
               /\ K2[t][v].timed = K[t][v].timed
               /\ K2[t][v].unstakeBlock = K[t][v].unstakeBlock
               /\ K2[t][v].coins = K[t][v].coins
         /\ \A t \in Stakers, w \in Vals \ {v} : K2[t][w] = K[t][w]
  BY <1>1, <1>2, UnstakeRecords
<1>12. PICK d : d = coins' /\ d = [c EXCEPT ![v] = c[v] - i.coins]
  BY <1>1, <1>3 DEF unstake
<1>13. /\ d \in [Vals -> Nat] /\ d[v] = c[v] - i.coins
       /\ \A w \in Vals \ {v} : d[w] = c[w]
  BY <1>2, <1>4, <1>12
<1>14. Active(K, s, v) = i.coins /\ Active(K2, s, v) = 0
  BY <1>3, <1>4, <1>11 DEF Active
<1>15. c[v] \in Nat /\ totalStake \in Nat /\ totalStake' = totalStake - i.coins
  BY <1>1, <1>2, <1>3 DEF unstake, LedgerInv
<1>16. /\ d[v] = c[v] - Active(K, s, v) + Active(K2, s, v)
       /\ totalStake' = totalStake - Active(K, s, v) + Active(K2, s, v)
  BY <1>4, <1>13, <1>14, <1>15
<1>17. \A t \in Stakers \ {s} :
         /\ K2[t][v].index = IF t = L[Len(L)] THEN K[s][v].index ELSE K[t][v].index
         /\ K2[t][v].timed = K[t][v].timed
         /\ K2[t][v].unstakeBlock = K[t][v].unstakeBlock
         /\ K2[t][v].coins = K[t][v].coins
  BY <1>11
<1>18. K2[s][v].index = 0 /\ K2[s][v].unstakeBlock # 0 /\ K2[s][v].coins > 0
  BY <1>3, <1>4, <1>11
<1>19. /\ SwapRemove(L, K[s][v].index + 1) \in Seq(Stakers)
       /\ Book(SwapRemove(L, K[s][v].index + 1), K2, v)
  BY <1>2, <1>3, <1>4, <1>11, <1>17, <1>18, BookRemove
<1>20. /\ stakers' \in [Vals -> Seq(Stakers)]
       /\ \A w \in Vals \ {v} : stakers'[w] = stakers[w]
       /\ stakers'[v] = SwapRemove(L, K[s][v].index + 1)
  <2>1. stakers' = [stakers EXCEPT ![v] = SwapRemove(L, K[s][v].index + 1)]
    BY <1>1 DEF unstake
  <2>2. stakers \in [Vals -> Seq(Stakers)]
    BY DEF LedgerInv
  <2> QED  BY <1>19, <2>1, <2>2
<1>21. \A w \in Vals : status[w] # "NotExist" => status'[w] # "NotExist"
  BY DEF unstake, TopInv
<1>22. status'[v] # "NotExist"
  BY <1>21 DEF unstake
<1>23. /\ Recorded(staked, K2, s, v)
       /\ \A w \in Vals \ {v} : d[w] = coins[w]
       /\ d[v] = coins[v] - Active(staked, s, v) + Active(K2, s, v)
       /\ totalStake' = totalStake - Active(staked, s, v) + Active(K2, s, v)
       /\ \A w \in Vals \ {v} : /\ stakers'[w] = stakers[w]
                                /\ \A t \in Stakers : K2[t][w] = staked[t][w]
  BY <1>1, <1>11, <1>13, <1>16, <1>20 DEF Recorded
<1>24. Book(stakers'[v], K2, v)
  BY <1>19, <1>20
<1>25. /\ K2 = staked' /\ d = coins' /\ d \in [Vals -> Nat]
       /\ stakers' \in [Vals -> Seq(Stakers)]
       /\ K2[s][v].unstakeBlock # 0 => K2[s][v].coins > 0 /\ status'[v] # "NotExist"
  BY <1>11, <1>12, <1>13, <1>18, <1>20, <1>22
<1> QED  BY <1>21, <1>23, <1>24, <1>25, LedgerChange

\* What a withdrawal writes: one record.
LEMMA WithdrawRecords ==
    ASSUME NEW J \in Records, J = staked, NEW s \in Stakers, NEW v \in Vals,
           NEW block, withdrawStaking(s, v, block)
    PROVE  \E K2 \in Records, r \in Info :
              /\ K2 = staked' /\ K2[s][v] = r
              /\ r.unstakeBlock = 0 /\ r.index = J[s][v].index /\ r.coins = 0
              /\ \A t \in Stakers, w \in Vals : <<t, w>> # <<s, v>> => K2[t][w] = J[t][w]
<1>1. PICK K \in Records : K = J
  OBVIOUS
<1>3. PICK i \in Info : i = K[s][v]
  BY DEF Records
<1>5. PICK K2 : /\ K2 = staked'
                /\ K2 = [K EXCEPT ![s][v].coins = 0, ![s][v].unstakeBlock = 0]
  BY <1>1 DEF withdrawStaking
<1>6. PICK r : r = [i EXCEPT !.coins = 0, !.unstakeBlock = 0]
  OBVIOUS
<1>7. r \in Info /\ r.unstakeBlock = 0 /\ r.index = i.index /\ r.coins = 0
  BY <1>6 DEF Info
<1>8. K2 = [K EXCEPT ![s][v] = r]
  <2>1. PICK M : M = [K EXCEPT ![s][v].coins = 0]
    OBVIOUS
  <2>2. PICK q \in Info : q = [i EXCEPT !.coins = 0]
    BY DEF Info
  <2>3. M = [K EXCEPT ![s][v] = q]
    BY <1>3, <2>1, <2>2
  <2>4. M \in Records /\ M[s][v] = q
    BY <2>2, <2>3 DEF Records
  <2>5. K2 = [M EXCEPT ![s][v].unstakeBlock = 0]
    BY <1>5, <2>1
  <2>6. r = [q EXCEPT !.unstakeBlock = 0]
    BY <1>6, <2>2
  <2>7. K2 = [M EXCEPT ![s][v] = r]
    BY <2>4, <2>5, <2>6
  <2> QED  BY <2>3, <2>7 DEF Records
<1>9. /\ K2 \in Records /\ K2[s][v] = r
      /\ \A t \in Stakers, w \in Vals : <<t, w>> # <<s, v>> => K2[t][w] = K[t][w]
  BY <1>7, <1>8 DEF Records
<1>10. K2 \in Records
  BY <1>9
<1>11. r \in Info
  BY <1>7
<1> WITNESS K2 \in Records, r \in Info
<1> QED  BY <1>1, <1>3, <1>5, <1>7, <1>9

LEMMA WithdrawKeepsLedger ==
    ASSUME LedgerInv, NEW s \in Stakers, NEW v \in Vals,
           NEW block, withdrawStaking(s, v, block)
    PROVE  LedgerInv'
<1>1. PICK K, L : K = staked /\ L = stakers[v]
  OBVIOUS
<1>2. K \in Records /\ L \in Seq(Stakers) /\ Book(L, K, v)
  BY <1>1 DEF LedgerInv
<1>3. PICK i \in Info : i = K[s][v]
  BY <1>2 DEF Records
<1>4. i.unstakeBlock # 0
  BY <1>1, <1>3 DEF withdrawStaking
<1>5. PICK K2 \in Records, r \in Info :
         /\ K2 = staked' /\ K2[s][v] = r
         /\ r.unstakeBlock = 0 /\ r.index = K[s][v].index /\ r.coins = 0
         /\ \A t \in Stakers, w \in Vals : <<t, w>> # <<s, v>> => K2[t][w] = K[t][w]
  BY <1>1, <1>2, WithdrawRecords
<1>7. r.unstakeBlock = 0 /\ r.index = i.index /\ r.coins = 0
  BY <1>3, <1>5
<1>9. /\ K2 \in Records /\ K2[s][v] = r
      /\ \A t \in Stakers, w \in Vals : <<t, w>> # <<s, v>> => K2[t][w] = K[t][w]
  BY <1>5
<1>10. Active(K, s, v) = 0 /\ Active(K2, s, v) = 0
  BY <1>3, <1>4, <1>7, <1>9 DEF Active
<1>11. Book(L, K2, v)
  <2>1. /\ K[s][v].unstakeBlock # 0 /\ K2[s][v].coins = 0
        /\ \A t \in Stakers : /\ K2[t][v].index = K[t][v].index
                              /\ t # s => K2[t][v] = K[t][v]
    BY <1>3, <1>4, <1>7, <1>9
  <2> QED  BY <1>2, <1>9, <2>1, BookWithdraw
<1>12. UNCHANGED <<coins, stakers, totalStake, status>>
  BY DEF withdrawStaking
<1>13. PICK d : d = coins'
  OBVIOUS
<1>14. /\ Recorded(staked, K2, s, v)
       /\ d \in [Vals -> Nat]
       /\ \A w \in Vals \ {v} : d[w] = coins[w]
       /\ d[v] = coins[v] - Active(staked, s, v) + Active(K2, s, v)
       /\ totalStake' = totalStake - Active(staked, s, v) + Active(K2, s, v)
       /\ stakers' \in [Vals -> Seq(Stakers)]
       /\ \A w \in Vals \ {v} : /\ stakers'[w] = stakers[w]
                                /\ \A t \in Stakers : K2[t][w] = staked[t][w]
       /\ Book(stakers'[v], K2, v)
       /\ K2[s][v].unstakeBlock = 0
       /\ \A w \in Vals : status[w] # "NotExist" => status'[w] # "NotExist"
  <2>1. /\ Recorded(staked, K2, s, v)
        /\ \A w \in Vals \ {v}, t \in Stakers : K2[t][w] = staked[t][w]
    BY <1>1, <1>9 DEF Recorded
  <2>2. d = coins /\ coins[v] \in Nat /\ totalStake \in Nat /\ totalStake' = totalStake
    BY <1>12, <1>13 DEF LedgerInv
  <2>3. /\ d[v] = coins[v] - Active(staked, s, v) + Active(K2, s, v)
        /\ totalStake' = totalStake - Active(staked, s, v) + Active(K2, s, v)
    BY <1>1, <1>10, <2>2
  <2> QED  BY <1>1, <1>7, <1>9, <1>11, <1>12, <2>1, <2>2, <2>3 DEF LedgerInv
<1> QED
  BY <1>5, <1>9, <1>13, <1>14, LedgerChange

\* Steps that change no stake.
LEMMA LedgerSame ==
    ASSUME LedgerInv, UNCHANGED <<coins, stakers, staked, totalStake>>,
           \A w \in Vals : status[w] # "NotExist" => status'[w] # "NotExist"
    PROVE  LedgerInv'
BY DEF LedgerInv, Book, ActiveSum, Active

LEMMA LedgerInit == ASSUME Init PROVE LedgerInv
<1>1. /\ coins = [v \in Vals |-> 0] /\ totalStake = 0
      /\ stakers = [v \in Vals |-> <<>>]
      /\ staked = [s \in Stakers |-> [v \in Vals |-> NoStake]]
  BY DEF Init, initialize
<1>2. NoStake \in Info /\ <<>> \in Seq(Stakers)
  BY DEF NoStake, Info
<1>3. PICK K, c : K = staked /\ c = coins
  OBVIOUS
<1>4. K \in Records /\ \A s \in Stakers, v \in Vals : K[s][v] = NoStake
  BY <1>1, <1>2, <1>3 DEF Records
<1>5. \A v \in Vals : Book(<<>>, K, v)
  BY <1>4 DEF Book, NoStake
<1>6. IsFiniteSet(Stakers) /\ IsFiniteSet(Vals)
  BY AddressAssumption
<1>7. ASSUME NEW S, IsFiniteSet(S), NEW f, \A x \in S : f[x] = 0
      PROVE  SumFunctionOnSet(f, S) = 0
  <2>1. \A x \in S : f[x] \in Int /\ f[x] = 0 * f[x]
    BY <1>7
  <2>2. PICK a \in Int : a = SumFunctionOnSet(f, S)
    BY <1>7, <2>1, SumInt
  <2>3. a = 0 * a
    BY <1>7, <2>1, <2>2, SumScale
  <2> QED  BY <2>2, <2>3
<1>8. ASSUME NEW v \in Vals PROVE ActiveSum(K, v) = 0
  <2> DEFINE f == [s \in Stakers |-> Active(K, s, v)]
  <2>1. \A s \in Stakers : f[s] = 0
    BY <1>4 DEF Active, NoStake
  <2>2. ActiveSum(K, v) = SumFunctionOnSet(f, Stakers)
    BY DEF ActiveSum, SumFunction
  <2> HIDE DEF f
  <2> QED  BY <1>6, <1>7, <2>1, <2>2
<1>9. SumFunction(c) = 0
  <2>1. SumFunction(c) = SumFunctionOnSet(c, Vals) /\ \A v \in Vals : c[v] = 0
    BY <1>1, <1>3 DEF SumFunction
  <2> QED  BY <1>6, <1>7, <2>1
<1>10. \A s \in Stakers, v \in Vals : K[s][v].unstakeBlock = 0
  BY <1>4 DEF NoStake
<1>11. /\ coins \in [Vals -> Nat] /\ totalStake \in Nat
       /\ stakers \in [Vals -> Seq(Stakers)] /\ \A v \in Vals : stakers[v] = <<>>
       /\ \A v \in Vals : coins[v] = 0
  BY <1>1, <1>2
<1> QED  BY <1>1, <1>3, <1>4, <1>5, <1>8, <1>9, <1>10, <1>11 DEF LedgerInv

LEMMA LedgerStep ==
    ASSUME TopInv, EngineInv, LedgerInv, [Next]_vars
    PROVE  LedgerInv'
<1>1. ASSUME NEW s \in Stakers, NEW v \in Vals, NEW a \in Amounts, Stake(s, v, a)
      PROVE  LedgerInv'
  BY <1>1, StakeKeepsLedger, SystemAssumption DEF Stake, stake
<1>2. ASSUME NEW v \in Vals \cap Stakers, NEW a \in Amounts, CreateValidator(v, a)
      PROVE  LedgerInv'
  BY <1>2, StakeKeepsLedger, SystemAssumption DEF CreateValidator, createOrEditValidator
<1>3. ASSUME NEW s \in Stakers, NEW v \in Vals, Unstake(s, v)
      PROVE  LedgerInv'
  BY <1>3, UnstakeKeepsLedger DEF Unstake, EngineInv
<1>4. ASSUME NEW s \in Stakers, NEW v \in Vals, WithdrawStaking(s, v)
      PROVE  LedgerInv'
  BY <1>4, WithdrawKeepsLedger DEF WithdrawStaking
<1>5. ASSUME NEW v \in Vals, NEW id \in Ids, CreateProposal(v, id)
      PROVE  LedgerInv'
  BY <1>5, LedgerSame DEF CreateProposal, validatorsVars
<1>6. ASSUME NEW v \in Vals, NEW id \in Ids, NEW auth \in BOOLEAN,
             VoteProposal(v, id, auth)
      PROVE  LedgerInv'
  <2>1. tryReactive(proposals[id].dst) \/ UNCHANGED status
    BY <1>6 DEF VoteProposal
  <2>2. \A w \in Vals : status[w] # "NotExist" => status'[w] # "NotExist"
    BY <2>1 DEF tryReactive, TopInv
  <2> QED  BY <1>6, <2>2, LedgerSame DEF VoteProposal
<1>7. ASSUME NEW missed \in BOOLEAN, Finalize(missed)
      PROVE  LedgerInv'
  <2>1. removeValidator(outTurnValidator) \/ UNCHANGED status
    BY <1>7 DEF Finalize
  <2>2. \A w \in Vals : status[w] # "NotExist" => status'[w] # "NotExist"
    BY <2>1 DEF removeValidator, TopInv
  <2> QED  BY <1>7, <2>2, LedgerSame DEF Finalize
<1>8. CASE UNCHANGED vars
  BY <1>8, LedgerSame DEF vars, validatorsVars
<1> QED
  BY <1>1, <1>2, <1>3, <1>4, <1>5, <1>6, <1>7, <1>8 DEF Next, Bounded

LEMMA LedgerInvariance == Spec => []LedgerInv
<1>1. Init => LedgerInv
  BY LedgerInit
<1>2. AllInv /\ LedgerInv /\ [Next]_vars => LedgerInv'
  BY LedgerStep DEF AllInv
<1> QED  BY <1>1, <1>2, AllInvariance, PTL DEF Spec

\* Whatever is staked, unstaked and withdrawn, by any number of accounts and in
\* any order, the coins of a validator are the stakes for it that are not being
\* withdrawn, and totalStake is their sum.
THEOREM StakeAlwaysConserved == Spec => []StakeConserved
<1>1. LedgerInv => StakeConserved
  <2> SUFFICES ASSUME LedgerInv PROVE StakeConserved
    OBVIOUS
  <2>1. ASSUME NEW v \in Vals
        PROVE  coins[v] = SumFunction([s \in Stakers |->
                             IF Earning(s, v) THEN staked[s][v].coins ELSE 0])
    BY DEF LedgerInv, ActiveSum, Active, Earning
  <2> QED  BY <2>1 DEF LedgerInv, StakeConserved
<1> QED  BY <1>1, LedgerInvariance, PTL

\* Every stake can be taken back at any time: the swap and pop of the stakers
\* list, repeated and mixed with zero stakes, never loses the place of an
\* account that earns, and no subtraction of its unstake underflows.
THEOREM StakesAlwaysReturnable == Spec => []StakesReturnable
<1>1. LedgerInv => StakesReturnable
  <2> SUFFICES ASSUME LedgerInv, NEW s \in Stakers, NEW v \in Vals
               PROVE  LET info == staked[s][v]
                      IN  /\ Earning(s, v) => /\ info.index < Len(stakers[v])
                                              /\ stakers[v][info.index + 1] = s
                                              /\ info.timed
                                              /\ coins[v] >= info.coins
                                              /\ totalStake >= info.coins
                          /\ info.unstakeBlock # 0 => info.coins > 0 /\ status[v] # "NotExist"
    BY DEF StakesReturnable
  <2>1. PICK K, c : K = staked /\ c = coins
    OBVIOUS
  <2>2. K \in Records /\ c \in [Vals -> Nat] /\ Recorded(K, K, s, v)
    BY <2>1 DEF LedgerInv, Recorded
  <2>3. ActiveSum(K, v) \in Nat /\ Active(K, s, v) <= ActiveSum(K, v)
    BY <2>2, ActiveSums
  <2>4. SumFunction(c) \in Nat /\ c[v] <= SumFunction(c)
    BY <2>2, CoinSums
  <2>5. Earning(s, v) => Active(K, s, v) = staked[s][v].coins
    BY <2>1 DEF Earning, Active
  <2>6. coins[v] = ActiveSum(K, v) /\ totalStake = SumFunction(c)
    BY <2>1 DEF LedgerInv
  <2>7. staked[s][v].coins \in Nat
    BY <2>1, <2>2 DEF Records, Info
  <2>8. Earning(s, v) => coins[v] >= staked[s][v].coins /\ totalStake >= staked[s][v].coins
    BY <2>1, <2>3, <2>4, <2>5, <2>6, <2>7
  <2>9. Earning(s, v) => /\ staked[s][v].index < Len(stakers[v])
                         /\ stakers[v][staked[s][v].index + 1] = s
                         /\ staked[s][v].timed
    BY DEF LedgerInv, Book, Placed, Earning
  <2> QED  BY <2>8, <2>9 DEF LedgerInv
<1> QED  BY <1>1, LedgerInvariance, PTL

-----------------------------------------------------------------------------
(***************************************************************************)
(* The type invariant.                                                     *)
(***************************************************************************)

\* What else TypeOK says.
StorageInv ==
    /\ currentValidatorSet \subseteq Vals
    /\ lastProposalActive \in [Vals -> BOOLEAN]
    /\ number \in 2 .. MaxNumber

LEMMA StorageStep ==
    ASSUME AllInv, StorageInv, [Next]_vars
    PROVE  StorageInv'
<1>1. ASSUME NEW s, NEW v \in Vals, NEW a, StakeBody(s, v, a),
             UNCHANGED <<proposalVars, engineVars>>
      PROVE  StorageInv'
  BY <1>1 DEF StakeBody, proposalVars, engineVars, StorageInv
<1>2. ASSUME NEW missed \in BOOLEAN, Finalize(missed)
      PROVE  StorageInv'
  <2>1. Range(parentTop) \subseteq Vals
    BY FiniteRange DEF AllInv, EngineInv
  <2>2. currentValidatorSet' = Range(parentTop) \/ UNCHANGED currentValidatorSet
    BY <1>2 DEF Finalize, getTopValidators, updateActiveValidatorSet
  <2>3. number' = number + 1 /\ number < MaxNumber /\ UNCHANGED lastProposalActive
    BY <1>2 DEF Finalize, proposalVars
  <2>4. number' \in 2 .. MaxNumber
    BY <2>3, SystemAssumption DEF StorageInv
  <2>5. currentValidatorSet' \subseteq Vals
    BY <2>1, <2>2 DEF StorageInv
  <2> QED  BY <2>3, <2>4, <2>5 DEF StorageInv
<1>3. ASSUME UNCHANGED <<proposalVars, engineVars, currentValidatorSet>>
      PROVE  StorageInv'
  BY <1>3 DEF proposalVars, engineVars, StorageInv
<1>4. ASSUME NEW s \in Stakers, NEW v \in Vals, NEW a \in Amounts, Stake(s, v, a)
      PROVE  StorageInv'
  BY <1>1, <1>4 DEF Stake, stake
<1>5. ASSUME NEW v \in Vals \cap Stakers, NEW a \in Amounts, CreateValidator(v, a)
      PROVE  StorageInv'
  BY <1>1, <1>5 DEF CreateValidator, createOrEditValidator
<1>6. ASSUME NEW s \in Stakers, NEW v \in Vals, Unstake(s, v) \/ WithdrawStaking(s, v)
      PROVE  StorageInv'
  BY <1>3, <1>6 DEF Unstake, unstake, WithdrawStaking, withdrawStaking
<1>7. ASSUME NEW v \in Vals, NEW id \in Ids, CreateProposal(v, id)
      PROVE  StorageInv'
  BY <1>7 DEF CreateProposal, createProposal, validatorsVars, engineVars, StorageInv
<1>8. ASSUME NEW v \in Vals, NEW id \in Ids, NEW auth \in BOOLEAN,
             VoteProposal(v, id, auth)
      PROVE  StorageInv'
  <2>1. PICK d, p : lastProposalActive' = IF p THEN [lastProposalActive EXCEPT ![d] = FALSE]
                                               ELSE lastProposalActive
    BY <1>8 DEF VoteProposal, voteProposal
  <2>2. lastProposalActive' \in [Vals -> BOOLEAN]
    BY <2>1 DEF StorageInv
  <2> QED  BY <1>8, <2>2 DEF VoteProposal, engineVars, StorageInv
<1>9. CASE UNCHANGED vars
  BY <1>9 DEF vars, validatorsVars, proposalVars, engineVars, StorageInv
<1> QED
  BY <1>2, <1>4, <1>5, <1>6, <1>7, <1>8, <1>9 DEF Next, Bounded

LEMMA StorageInit == ASSUME Init PROVE StorageInv
<1>1. GenesisVals \in Seq(Vals)
  BY GenesisAssumption
<1>2. Range(GenesisVals) \subseteq Vals
  BY <1>1, FiniteRange
<1> QED
  BY <1>2, SystemAssumption DEF Init, initialize, NoProposals, StorageInv

LEMMA StorageInvariance == Spec => []StorageInv
<1>1. Init => StorageInv
  BY StorageInit
<1>2. AllInv /\ StorageInv /\ [Next]_vars => StorageInv'
  BY StorageStep
<1> QED  BY <1>1, <1>2, AllInvariance, PTL DEF Spec

\* The storage of every contract keeps its declared type, and a missed-block
\* counter never reaches the threshold at which it is reset, whatever the
\* rounding of the epoch's decrease.
THEOREM TypeCorrect == Spec => []TypeOK
<1>1. AllInv /\ LedgerInv /\ StorageInv => TypeOK
  <2> SUFFICES ASSUME AllInv, LedgerInv, StorageInv PROVE TypeOK
    OBVIOUS
  <2>1. ValidatorsTypeOK
    BY DEF AllInv, TopInv, StakedList, LedgerInv, Records, Info, StorageInv, ValidatorsTypeOK
  <2>2. /\ punishment.records \in [Vals -> Record]
        /\ punishment.list \in Seq(Vals)
    BY DEF AllInv, Listed
  <2> QED
    BY <2>1, <2>2 DEF AllInv, EngineInv, StorageInv, Record, TypeOK
<1> QED  BY <1>1, AllInvariance, LedgerInvariance, StorageInvariance, PTL

-----------------------------------------------------------------------------
(***************************************************************************)
(* Rewards.  JailedEarnsNothing needs only that the two maps it reads are  *)
(* total.  StakersPart and Solvent rest on CoinInv, which counts what is   *)
(* due to stakers before it is rounded: rewards in whole coins do not add  *)
(* up from one step to the next.                                           *)
(***************************************************************************)

Total == DOMAIN status = Vals /\ DOMAIN hbIncoming = Vals

\* Sharing leaves those alone that are not eligible.
LEMMA SharedOut ==
    ASSUME NEW income, NEW S, NEW total, NEW last, NEW v \in Vals, v \notin S
    PROVE  addProfitsToActiveValidatorsByStakePercentExcept(income, S, total, last)[v]
              = income[v]
BY DEF addProfitsToActiveValidatorsByStakePercentExcept

\* A confiscation leaves the income of an ineligible validator alone or takes it.
LEMMA Confiscated ==
    ASSUME NEW p \in Vals, NEW last, NEW v \in Vals,
           status[v] = "Jailed" \/ v = p
    PROVE  tryRemoveValidatorIncoming(p, last)[v] \in {hbIncoming[v], 0}
<1> DEFINE S == Eligible(status, p)
           shared == addProfitsToActiveValidatorsByStakePercentExcept(
                        hbIncoming, S, hbIncoming[p], last)
<1>1. v \notin S
  BY DEF Eligible
<1>2. shared[v] = hbIncoming[v] /\ DOMAIN shared = Vals
  BY <1>1, SharedOut DEF addProfitsToActiveValidatorsByStakePercentExcept
<1> HIDE DEF shared
<1>3. [shared EXCEPT ![p] = 0][v] \in {hbIncoming[v], 0}
  BY <1>2
<1> QED
  BY <1>3 DEF tryRemoveValidatorIncoming, shared

\* Only the validator that missed its turn changes its status at a block's end.
LEMMA JailedAtEnd ==
    ASSUME Total, NEW missed \in BOOLEAN, Finalize(missed), NEW v \in Vals,
           status'[v] = "Jailed"
    PROVE  \/ status[v] = "Jailed"
           \/ missed /\ v = outTurnValidator /\ shouldRemove(punishment, v)
BY DEF Finalize, removeValidator, Total

\* The end of a block gives a jailed validator nothing.
LEMMA FinalizePays ==
    ASSUME Total, NEW missed \in BOOLEAN, NEW miner, NEW fee, NEW v \in Vals,
           CoinFinalize(missed, miner, fee), status'[v] = "Jailed"
    PROVE  hbIncoming'[v] \in {hbIncoming[v], 0}
<1> DEFINE p == outTurnValidator
<1>1. Finalize(missed)
  BY DEF CoinFinalize
<1>2. PICK first, last :
        trySendBlockReward(miner, fee,
            IF missed /\ takesIncome(p) THEN tryRemoveValidatorIncoming(p, first)
                                       ELSE hbIncoming,
            last)
  BY DEF CoinFinalize
<1> DEFINE income == IF missed /\ takesIncome(p)
                     THEN tryRemoveValidatorIncoming(p, first) ELSE hbIncoming
<1>3. income[v] \in {hbIncoming[v], 0}
  <2>1. CASE missed /\ takesIncome(p)
    <3>1. status[v] = "Jailed" \/ v = p
      BY <1>1, JailedAtEnd
    <3>2. CASE p \in Vals
      BY <2>1, <3>1, <3>2, Confiscated
    <3>3. CASE p \notin Vals
      <4>1. status[v] = "Jailed"
        BY <3>1, <3>3
      <4>2. v \notin Eligible(status, p)
        BY <4>1 DEF Eligible
      <4>3. tryRemoveValidatorIncoming(p, first)[v] = hbIncoming[v]
        BY <3>3, <4>2, SharedOut
           DEF tryRemoveValidatorIncoming, addProfitsToActiveValidatorsByStakePercentExcept
      <4> QED
        BY <2>1, <4>3
    <3> QED
      BY <3>2, <3>3
  <2>2. CASE ~ (missed /\ takesIncome(p))
    BY <2>2
  <2> QED
    BY <2>1, <2>2
<1> HIDE DEF income
<1>4. trySendBlockReward(miner, fee, income, last)
  BY <1>2 DEF income
<1>5. v \notin Eligible(status', 0)
  BY DEF Eligible
<1>6. CASE hbIncoming' = income
  BY <1>3, <1>6
<1>7. CASE distributeBlockReward(miner, fee, income, last)
  <2>1. PICK total : hbIncoming' =
           addProfitsToActiveValidatorsByStakePercentExcept(
              income, Eligible(status', 0), total, last)
    BY <1>7 DEF distributeBlockReward
  <2> QED
    BY <1>3, <1>5, <2>1, SharedOut
<1> QED
  BY <1>4, <1>6, <1>7 DEF trySendBlockReward

\* No other step raises an income.
LEMMA OthersPay ==
    ASSUME Total, CoinNext,
           \A missed \in BOOLEAN, m \in signers, f \in Fees : ~ CoinFinalize(missed, m, f)
    PROVE  \/ UNCHANGED hbIncoming
           \/ \E v \in Vals : hbIncoming' = [hbIncoming EXCEPT ![v] = 0]
BY DEF CoinNext, CoinStake, CoinCreateValidator, EditValidator, CoinUnstake,
       CoinWithdrawStaking, withdrawStakingReward, withdrawProfits, Receive, coinVars

LEMMA TotalStep == ASSUME Total, [CoinNext]_allVars PROVE Total'
<1>1. CASE CoinNext
  <2>1. DOMAIN status' = Vals
    <3>1. ASSUME NEW s \in Stakers, NEW v \in Vals, NEW a \in Amounts,
                 CoinStake(s, v, a)
          PROVE  DOMAIN status' = Vals
      BY <3>1 DEF Total, CoinStake, Stake, stake, StakeBody
    <3>2. ASSUME NEW v \in Vals \cap Stakers, NEW f \in FeeAddrs, NEW a \in Amounts,
                 CoinCreateValidator(v, f, a)
          PROVE  DOMAIN status' = Vals
      BY <3>2 DEF Total, CoinCreateValidator, CreateValidator,
                  createOrEditValidator, StakeBody
    <3>3. ASSUME NEW s \in Stakers, NEW v \in Vals, CoinUnstake(s, v)
          PROVE  DOMAIN status' = Vals
      BY <3>3 DEF Total, CoinUnstake, Unstake, unstake
    <3>4. ASSUME NEW v \in Vals, NEW id \in Ids, NEW auth \in BOOLEAN,
                 VoteProposal(v, id, auth)
          PROVE  DOMAIN status' = Vals
      BY <3>4 DEF Total, VoteProposal, tryReactive
    <3>5. ASSUME NEW missed \in BOOLEAN, Finalize(missed)
          PROVE  DOMAIN status' = Vals
      BY <3>5 DEF Total, Finalize, removeValidator
    <3>6. CASE UNCHANGED status
      BY <3>6 DEF Total
    <3> QED
      BY <1>1, <3>1, <3>2, <3>3, <3>4, <3>5, <3>6
         DEF CoinNext, EditValidator, CoinWithdrawStaking, WithdrawStaking,
             withdrawStaking, withdrawStakingReward, withdrawProfits, Receive,
             CreateProposal, CoinFinalize, Bounded, vars, validatorsVars
  <2>2. DOMAIN hbIncoming' = Vals
    <3>1. CASE \E missed \in BOOLEAN, m \in signers, f \in Fees :
                  CoinFinalize(missed, m, f)
      BY <3>1 DEF CoinFinalize, trySendBlockReward, distributeBlockReward, Total,
                  tryRemoveValidatorIncoming,
                  addProfitsToActiveValidatorsByStakePercentExcept
    <3>2. CASE ~ \E missed \in BOOLEAN, m \in signers, f \in Fees :
                  CoinFinalize(missed, m, f)
      BY <1>1, <3>2, OthersPay DEF Total
    <3> QED
      BY <3>1, <3>2
  <2> QED
    BY <2>1, <2>2 DEF Total
<1>2. CASE UNCHANGED allVars
  BY <1>2 DEF Total, allVars, vars, validatorsVars, coinVars
<1> QED
  BY <1>1, <1>2

\* No step of any number of validators, stakers and blocks gives profits to a
\* jailed validator: not the block that jails it, not the income taken from
\* another one, not the reward fund.
THEOREM JailedNeverEarns == CoinSpec => JailedEarnsNothing
<1>1. CoinInit => Total
  BY DEF CoinInit, Init, initialize, Total
<1>2. Total /\ [CoinNext]_allVars => Total'
  BY TotalStep
<1>3. ASSUME Total, [CoinNext]_allVars, NEW v \in Vals, status'[v] = "Jailed"
      PROVE  hbIncoming'[v] \in {hbIncoming[v], 0}
  <2>1. CASE \E missed \in BOOLEAN, m \in signers, f \in Fees :
                CoinFinalize(missed, m, f)
    BY <1>3, <2>1, FinalizePays
  <2>2. CASE CoinNext /\ ~ \E missed \in BOOLEAN, m \in signers, f \in Fees :
                               CoinFinalize(missed, m, f)
    BY <1>3, <2>2, OthersPay DEF Total
  <2>3. CASE UNCHANGED allVars
    BY <2>3 DEF allVars, coinVars
  <2> QED
    BY <1>3, <2>1, <2>2, <2>3
<1>4. Total /\ [CoinNext]_allVars
        => [\A v \in Vals : status'[v] = "Jailed"
               => hbIncoming'[v] \in {hbIncoming[v], 0}]_allVars
  BY <1>3
<1> QED
  BY <1>1, <1>2, <1>4, PTL DEF CoinSpec, JailedEarnsNothing

-----------------------------------------------------------------------------
(***************************************************************************)
(* Products and quotients, and more on sums.                               *)
(***************************************************************************)

LEMMA DivNat == ASSUME NEW a \in Nat, NEW b \in Nat \ {0} PROVE a \div b \in Nat
OBVIOUS

LEMMA DivLeq == ASSUME NEW a \in Nat, NEW b \in Nat \ {0} PROVE b * (a \div b) <= a
OBVIOUS

LEMMA TimesLeq ==
    ASSUME NEW a \in Nat, NEW b \in Int, NEW c \in Int, b <= c
    PROVE  a * b <= a * c
OBVIOUS

LEMMA TimesCancel ==
    ASSUME NEW a \in Nat \ {0}, NEW b \in Int, NEW c \in Int, a * b <= a * c
    PROVE  b <= c
OBVIOUS

LEMMA TimesNat == ASSUME NEW a \in Nat, NEW b \in Nat PROVE a * b \in Nat
OBVIOUS

LEMMA TimesPlus ==
    ASSUME NEW a \in Int, NEW b \in Int, NEW c \in Int
    PROVE  /\ a * (b + c) = a * b + a * c
           /\ a * (b - c) = a * b - a * c
           /\ a * b = b * a
           /\ a * b \in Int
OBVIOUS

\* Terms outside of B that are zero may be left out.
LEMMA SumSupport ==
    ASSUME NEW f, NEW A, IsFiniteSet(A), NEW B, B \subseteq A,
           \A x \in A : f[x] \in Int, \A x \in A \ B : f[x] = 0
    PROVE  SumFunctionOnSet(f, A) = SumFunctionOnSet(f, B)
<1> DEFINE T == {C \in SUBSET A :
                   B \subseteq C /\ SumFunctionOnSet(f, C) # SumFunctionOnSet(f, B)}
<1>1. ASSUME T # {} PROVE FALSE
  <2>1. PICK C \in T : \A D \in T : ~ (D \subseteq C /\ D # C)
    <3> HIDE DEF T
    <3>1. T \subseteq SUBSET A
      BY DEF T
    <3> QED  BY <1>1, <3>1, LeastSubset
  <2>2. C \in SUBSET A /\ B \subseteq C /\ IsFiniteSet(C)
        /\ SumFunctionOnSet(f, C) # SumFunctionOnSet(f, B)
    BY FS_Subset
  <2>3. PICK p \in C : p \notin B
    BY <2>2
  <2>4. PICK D : D = C \ {p}
    OBVIOUS
  <2>5. D \in SUBSET A /\ B \subseteq D /\ D \notin T /\ IsFiniteSet(D)
    BY <2>1, <2>2, <2>3, <2>4, FS_Subset
  <2>6. SumFunctionOnSet(f, C) = f[p] + SumFunctionOnSet(f, D)
    BY <2>2, <2>4, SumRemove
  <2>7. f[p] = 0 /\ SumFunctionOnSet(f, D) \in Int
    BY <2>2, <2>3, <2>5, SumInt
  <2> QED  BY <2>2, <2>5, <2>6, <2>7
<1>2. A \in SUBSET A
  OBVIOUS
<1> QED  BY <1>1, <1>2

\* Terms bounded by a proportion bound the sum by the proportion.
LEMMA SumProportion ==
    ASSUME NEW f, NEW g, NEW S, IsFiniteSet(S), NEW a \in Int, NEW b \in Int,
           \A x \in S : f[x] \in Int /\ g[x] \in Int /\ a * f[x] <= b * g[x]
    PROVE  a * SumFunctionOnSet(f, S) <= b * SumFunctionOnSet(g, S)
<1> DEFINE F == [x \in S |-> a * f[x]]
           G == [x \in S |-> b * g[x]]
<1>1. \A x \in S : /\ f[x] \in Int /\ F[x] = a * f[x]
                   /\ g[x] \in Int /\ G[x] = b * g[x]
  OBVIOUS
<1>2. \A x \in S : F[x] \in Int /\ G[x] \in Int /\ F[x] <= G[x]
  <2> SUFFICES ASSUME NEW x \in S PROVE F[x] \in Int /\ G[x] \in Int /\ F[x] <= G[x]
    OBVIOUS
  <2>1. a * f[x] \in Int /\ b * g[x] \in Int
    BY TimesPlus
  <2> QED  BY <1>1, <2>1
<1> HIDE DEF F, G
<1>3. SumFunctionOnSet(F, S) <= SumFunctionOnSet(G, S)
  BY <1>2, SumLeq
<1>4. /\ SumFunctionOnSet(F, S) = a * SumFunctionOnSet(f, S)
      /\ SumFunctionOnSet(G, S) = b * SumFunctionOnSet(g, S)
  BY <1>1, SumScale
<1> QED  BY <1>3, <1>4

LEMMA SumOnes ==
    ASSUME NEW f, NEW S, IsFiniteSet(S), \A x \in S : f[x] = 1
    PROVE  SumFunctionOnSet(f, S) = Cardinality(S)
<1> DEFINE T == {A \in SUBSET S : SumFunctionOnSet(f, A) # Cardinality(A)}
<1>1. ASSUME T # {} PROVE FALSE
  <2>1. PICK A \in T : \A B \in T : ~ (B \subseteq A /\ B # A)
    <3> HIDE DEF T
    <3>1. T \subseteq SUBSET S
      BY DEF T
    <3> QED  BY <1>1, <3>1, LeastSubset
  <2>2. A \in SUBSET S /\ IsFiniteSet(A) /\ SumFunctionOnSet(f, A) # Cardinality(A)
    BY FS_Subset
  <2>3. A # {}
    BY <2>2, SumEmpty, FS_EmptySet
  <2>4. PICK p \in A : TRUE
    BY <2>3
  <2>5. PICK B : B = A \ {p}
    OBVIOUS
  <2>6. B \in SUBSET S /\ B \notin T /\ IsFiniteSet(B)
    BY <2>1, <2>2, <2>4, <2>5, FS_Subset
  <2>7. SumFunctionOnSet(f, A) = f[p] + SumFunctionOnSet(f, B)
    BY <2>2, <2>5, SumRemove
  <2>8. Cardinality(B) = Cardinality(A) - 1 /\ Cardinality(A) \in Nat
    BY <2>2, <2>4, <2>5, FS_RemoveElement, FS_CardinalityType
  <2>9. SumFunctionOnSet(f, B) = Cardinality(B) /\ f[p] = 1
    BY <2>2, <2>4, <2>6
  <2> QED  BY <2>2, <2>7, <2>8, <2>9
<1>2. S \in SUBSET S
  OBVIOUS
<1> QED  BY <1>1, <1>2

-----------------------------------------------------------------------------
(***************************************************************************)
(* Sums over all stakers of all validators.                                *)
(***************************************************************************)

Column(F, v) == SumFunctionOnSet([s \in Stakers |-> F[s][v]], Stakers)
TableSum(F) == SumFunctionOnSet([v \in Vals |-> Column(F, v)], Vals)

Table == [Stakers -> [Vals -> Int]]

LEMMA ColumnInt ==
    ASSUME NEW F \in Table, NEW v \in Vals
    PROVE  /\ Column(F, v) \in Int
           /\ (\A s \in Stakers : F[s][v] \in Nat) => Column(F, v) \in Nat
<1> DEFINE f == [s \in Stakers |-> F[s][v]]
<1>1. \A s \in Stakers : f[s] = F[s][v] /\ f[s] \in Int
  BY DEF Table
<1>2. Column(F, v) = SumFunctionOnSet(f, Stakers) /\ IsFiniteSet(Stakers)
  BY AddressAssumption DEF Column
<1> HIDE DEF f
<1>3. Column(F, v) \in Int
  BY <1>1, <1>2, SumInt
<1>4. ASSUME \A s \in Stakers : F[s][v] \in Nat PROVE Column(F, v) \in Nat
  BY <1>1, <1>2, <1>4, SumNat
<1> QED  BY <1>3, <1>4

LEMMA ColumnLeq ==
    ASSUME NEW F \in Table, NEW G \in Table, NEW v \in Vals,
           \A s \in Stakers : F[s][v] <= G[s][v]
    PROVE  Column(F, v) <= Column(G, v)
<1> DEFINE f == [s \in Stakers |-> F[s][v]]
           g == [s \in Stakers |-> G[s][v]]
<1>1. \A s \in Stakers : f[s] \in Int /\ g[s] \in Int /\ f[s] <= g[s]
  BY DEF Table
<1>2. /\ Column(F, v) = SumFunctionOnSet(f, Stakers) /\ IsFiniteSet(Stakers)
      /\ Column(G, v) = SumFunctionOnSet(g, Stakers)
  BY AddressAssumption DEF Column
<1> HIDE DEF f, g
<1> QED  BY <1>1, <1>2, SumLeq

LEMMA ColumnSame ==
    ASSUME NEW F \in Table, NEW G \in Table, NEW v \in Vals,
           \A s \in Stakers : F[s][v] = G[s][v]
    PROVE  Column(F, v) = Column(G, v)
<1>1. \A s \in Stakers : F[s][v] \in Int /\ F[s][v] <= G[s][v] /\ G[s][v] <= F[s][v]
  BY DEF Table
<1>2. Column(F, v) <= Column(G, v) /\ Column(G, v) <= Column(F, v)
  BY <1>1, ColumnLeq
<1> QED  BY <1>2, ColumnInt

\* One entry of a column changes.
LEMMA ColumnPoint ==
    ASSUME NEW F \in Table, NEW G \in Table, NEW v \in Vals, NEW s \in Stakers,
           \A t \in Stakers \ {s} : F[t][v] = G[t][v]
    PROVE  Column(G, v) = Column(F, v) - F[s][v] + G[s][v]
<1> DEFINE f == [t \in Stakers |-> F[t][v]]
           g == [t \in Stakers |-> G[t][v]]
<1>1. /\ \A t \in Stakers : f[t] \in Int /\ g[t] \in Int
      /\ \A t \in Stakers \ {s} : f[t] = g[t]
      /\ f[s] = F[s][v] /\ g[s] = G[s][v]
  BY DEF Table
<1>2. /\ Column(F, v) = SumFunctionOnSet(f, Stakers) /\ IsFiniteSet(Stakers)
      /\ Column(G, v) = SumFunctionOnSet(g, Stakers)
  BY AddressAssumption DEF Column
<1> HIDE DEF f, g
<1>3. SumFunctionOnSet(g, Stakers) = SumFunctionOnSet(f, Stakers) - f[s] + g[s]
  BY <1>1, <1>2, SumPoint
<1> QED  BY <1>1, <1>2, <1>3

LEMMA TableSumIs ==
    ASSUME NEW F \in Table
    PROVE  \E f : /\ f \in [Vals -> Int] /\ IsFiniteSet(Vals)
                  /\ TableSum(F) = SumFunctionOnSet(f, Vals) /\ TableSum(F) \in Int
                  /\ \A v \in Vals : f[v] = Column(F, v)
<1> DEFINE f == [v \in Vals |-> Column(F, v)]
<1>1. f \in [Vals -> Int] /\ \A v \in Vals : f[v] = Column(F, v)
  BY ColumnInt
<1>2. TableSum(F) = SumFunctionOnSet(f, Vals) /\ IsFiniteSet(Vals)
  BY AddressAssumption DEF TableSum
<1> HIDE DEF f
<1>3. TableSum(F) \in Int
  BY <1>1, <1>2, SumInt
<1> QED  BY <1>1, <1>2, <1>3

\* Two tables that differ in one column.
LEMMA TableColumn ==
    ASSUME NEW F \in Table, NEW G \in Table, NEW v \in Vals,
           \A s \in Stakers, w \in Vals \ {v} : F[s][w] = G[s][w]
    PROVE  TableSum(G) = TableSum(F) - Column(F, v) + Column(G, v)
<1>1. PICK f \in [Vals -> Int] : /\ TableSum(F) = SumFunctionOnSet(f, Vals)
                                 /\ \A w \in Vals : f[w] = Column(F, w)
  BY TableSumIs
<1>2. PICK g \in [Vals -> Int] : /\ TableSum(G) = SumFunctionOnSet(g, Vals)
                                 /\ \A w \in Vals : g[w] = Column(G, w)
  BY TableSumIs
<1>3. \A w \in Vals \ {v} : f[w] = g[w]
  BY <1>1, <1>2, ColumnSame
<1>4. SumFunctionOnSet(g, Vals) = SumFunctionOnSet(f, Vals) - f[v] + g[v]
  BY <1>3, SumPoint, AddressAssumption
<1> QED  BY <1>1, <1>2, <1>4

\* Two tables that differ in one entry.
LEMMA TablePoint ==
    ASSUME NEW F \in Table, NEW G \in Table, NEW s \in Stakers, NEW v \in Vals,
           \A t \in Stakers, w \in Vals : <<t, w>> # <<s, v>> => F[t][w] = G[t][w]
    PROVE  TableSum(G) = TableSum(F) - F[s][v] + G[s][v]
<1>1. Column(G, v) = Column(F, v) - F[s][v] + G[s][v]
  BY ColumnPoint
<1>2. TableSum(G) = TableSum(F) - Column(F, v) + Column(G, v)
  BY TableColumn
<1>3. TableSum(F) \in Int /\ Column(F, v) \in Int /\ F[s][v] \in Int /\ G[s][v] \in Int
  BY TableSumIs, ColumnInt DEF Table
<1> QED  BY <1>1, <1>2, <1>3

-----------------------------------------------------------------------------
(***************************************************************************)
(* The coins on top of the contracts.                                      *)
(***************************************************************************)

\* Every step of the coins is a step of the contracts or leaves them alone.
LEMMA CoinStepIsStep == ASSUME [CoinNext]_allVars PROVE [Next]_vars
<1>1. CASE CoinNext
  BY <1>1 DEF CoinNext, CoinStake, CoinCreateValidator, EditValidator, CoinUnstake,
         CoinWithdrawStaking, withdrawStakingReward, withdrawProfits, Receive,
         CoinFinalize, Next
<1>2. CASE UNCHANGED allVars
  BY <1>2 DEF allVars
<1> QED  BY <1>1, <1>2

\* The coins are added to the contracts and change nothing in them: whatever is
\* proved of the contracts holds of every behaviour with coins.
THEOREM CoinsRefineContracts == CoinSpec => Spec
<1>1. CoinInit => Init
  BY DEF CoinInit
<1>2. [CoinNext]_allVars => [Next]_vars
  BY CoinStepIsStep
<1> QED  BY <1>1, <1>2, PTL DEF CoinSpec, Spec

-----------------------------------------------------------------------------
(***************************************************************************)
(* Profits.                                                                *)
(***************************************************************************)

\* The shares are natural numbers and the others' come to no more than the total.
LEMMA SharesFit ==
    ASSUME coins \in [Vals -> Nat], NEW S, S \subseteq Vals, NEW total \in Nat,
           NEW last \in S
    PROVE  /\ \A w \in S : Share(S, total, w) \in Nat
           /\ OthersShare(S, total, last) \in Nat
           /\ OthersShare(S, total, last) <= total
<1> DEFINE R == S \ {last}
           sh == [w \in R |-> Share(S, total, w)]
           C == TotalCoins(S)
           n == Cardinality(S)
<1>1. IsFiniteSet(S) /\ IsFiniteSet(R) /\ R \subseteq S
  BY AddressAssumption, FS_Subset
<1>2. n \in Nat \ {0}
  BY <1>1, FS_CardinalityType, FS_EmptySet
<1>3. C \in Nat /\ C = SumFunctionOnSet(coins, S)
      /\ SumFunctionOnSet(coins, R) \in Nat /\ SumFunctionOnSet(coins, R) <= C
  <2>1. C = SumFunctionOnSet(coins, S)
    BY DEF TotalCoins
  <2>2. SumFunctionOnSet(coins, S) \in Nat /\ SumFunctionOnSet(coins, R) \in Nat
    BY <1>1, SumNat
  <2>3. SumFunctionOnSet(coins, S) = coins[last] + SumFunctionOnSet(coins, R)
    BY <1>1, SumRemove
  <2>4. coins[last] \in Nat
    OBVIOUS
  <2> QED  BY <2>1, <2>2, <2>3, <2>4
<1>4. OthersShare(S, total, last) = SumFunctionOnSet(sh, R)
  BY DEF OthersShare, SumFunction
<1>5. \A w \in R : sh[w] = Share(S, total, w)
  OBVIOUS
<1> HIDE DEF sh, C, n, R
<1>6. CASE C = 0
  <2>1. \A w \in S : Share(S, total, w) = total \div n
    BY <1>6 DEF Share, C, n
  <2>2. PICK k \in Nat : k = total \div n /\ n * k <= total
    BY <1>2, DivNat, DivLeq
  <2> DEFINE one == [w \in S |-> 1]
  <2>3. \A w \in S : one[w] = 1
    OBVIOUS
  <2> HIDE DEF one
  <2>4. SumFunctionOnSet(one, R) = Cardinality(R) /\ Cardinality(R) = n - 1
    <3>1. Cardinality(R) = n - 1
      BY <1>1, FS_RemoveElement DEF n, R
    <3>2. \A w \in R : one[w] = 1
      BY <1>1, <2>3
    <3> QED  BY <1>1, <3>1, <3>2, SumOnes
  <2>5. \A w \in R : sh[w] = k /\ k = k * one[w] /\ one[w] \in Int
    BY <1>1, <1>5, <2>1, <2>2, <2>3
  <2>6. SumFunctionOnSet(sh, R) = k * (n - 1)
    <3>1. \A w \in R : one[w] \in Int /\ sh[w] = k * one[w]
      BY <2>5
    <3> QED  BY <1>1, <2>4, <3>1, SumScale
  <2>7. k * (n - 1) \in Nat /\ k * (n - 1) <= total
    <3>1. n - 1 \in Nat
      BY <1>2
    <3>2. k * (n - 1) = k * n - k * 1 /\ k * n = n * k /\ k * 1 = k
      BY <1>2, TimesPlus
    <3>3. k * (n - 1) \in Nat
      BY <3>1, TimesNat
    <3>4. n * k \in Int
      BY <1>2, TimesPlus
    <3> QED  BY <2>2, <3>2, <3>3, <3>4
  <2> QED  BY <1>4, <2>1, <2>2, <2>6, <2>7
<1>7. CASE C # 0
  <2>1. ASSUME NEW w \in S
        PROVE  /\ Share(S, total, w) \in Nat
               /\ C * Share(S, total, w) <= total * coins[w]
    <3>1. PICK x \in Nat : x = total * coins[w]
      BY TimesNat
    <3>2. Share(S, total, w) = x \div C
      BY <1>7, <3>1 DEF Share, C
    <3>3. C \in Nat \ {0}
      BY <1>3, <1>7
    <3> QED  BY <3>1, <3>2, <3>3, DivNat, DivLeq
  <2>2. \A w \in R : sh[w] \in Nat /\ coins[w] \in Int /\ C * sh[w] <= total * coins[w]
    BY <1>1, <1>5, <2>1
  <2>3. C * SumFunctionOnSet(sh, R) <= total * SumFunctionOnSet(coins, R)
    <3>1. \A w \in R : sh[w] \in Int /\ coins[w] \in Int /\ C * sh[w] <= total * coins[w]
      BY <2>2
    <3>2. C \in Int /\ total \in Int
      BY <1>3
    <3> QED  BY <1>1, <3>1, <3>2, SumProportion
  <2>4. SumFunctionOnSet(sh, R) \in Nat
    BY <1>1, <2>2, SumNat
  <2>5. SumFunctionOnSet(sh, R) <= total
    <3>1. PICK x \in Nat, y \in Nat : x = SumFunctionOnSet(sh, R)
                                      /\ y = SumFunctionOnSet(coins, R)
      BY <1>3, <2>4
    <3>2. total * y <= total * C
      BY <1>3, <3>1, TimesLeq
    <3>3. total * C = C * total /\ C * x <= total * y /\ C * x \in Int /\ total * y \in Int
          /\ C * total \in Int
      BY <1>3, <2>3, <3>1, TimesPlus
    <3>4. C * x <= C * total
      BY <3>2, <3>3
    <3>5. x <= total
      BY <1>3, <1>7, <3>4, TimesCancel
    <3> QED  BY <3>1, <3>5
  <2> QED  BY <1>4, <2>1, <2>4, <2>5
<1> QED  BY <1>6, <1>7

\* Sharing a total out adds exactly the total, or nothing if nobody is eligible.
LEMMA SharedSum ==
    ASSUME coins \in [Vals -> Nat], NEW income \in [Vals -> Nat], NEW S,
           S \subseteq Vals, NEW total \in Nat, NEW last \in Lasts(S), NEW new,
           new = addProfitsToActiveValidatorsByStakePercentExcept(income, S, total, last)
    PROVE  /\ new \in [Vals -> Nat]
           /\ SumFunction(new) = SumFunction(income) + IF S = {} THEN 0 ELSE total
<1>1. IsFiniteSet(Vals)
  BY AddressAssumption
<1>2. new = [v \in Vals |->
               IF v \notin S THEN income[v]
               ELSE IF v # last THEN income[v] + Share(S, total, v)
               ELSE income[v] + (total - OthersShare(S, total, v))]
  BY DEF addProfitsToActiveValidatorsByStakePercentExcept
<1>3. CASE S = {}
  <2>1. new = income
    BY <1>2, <1>3
  <2>2. SumFunction(income) \in Nat
    BY <1>1, SumNat DEF SumFunction
  <2> QED  BY <1>3, <2>1, <2>2
<1>4. CASE S # {}
  <2>1. last \in S
    BY <1>4 DEF Lasts
  <2>2. /\ \A w \in S : Share(S, total, w) \in Nat
        /\ OthersShare(S, total, last) \in Nat
        /\ OthersShare(S, total, last) <= total
    BY <2>1, SharesFit
  <2> DEFINE inc == [v \in Vals |-> IF v \notin S THEN 0
                                    ELSE IF v # last THEN Share(S, total, v)
                                    ELSE total - OthersShare(S, total, last)]
             R == S \ {last}
             sh == [w \in R |-> Share(S, total, w)]
  <2>3. \A v \in Vals : /\ inc[v] \in Nat
                        /\ v \notin S => inc[v] = 0
                        /\ v \in R => inc[v] = Share(S, total, v)
    BY <2>2
  <2>4. inc[last] = total - OthersShare(S, total, last)
    BY <2>1
  <2>5. new \in [Vals -> Nat] /\ \A v \in Vals : new[v] = income[v] + inc[v]
    BY <1>2, <2>2
  <2>6. OthersShare(S, total, last) = SumFunctionOnSet(sh, R)
    BY DEF OthersShare, SumFunction
  <2>7. \A w \in R : sh[w] = Share(S, total, w)
    OBVIOUS
  <2>8. IsFiniteSet(S) /\ IsFiniteSet(R) /\ R \subseteq Vals
    BY <1>1, FS_Subset
  <2>9. R = S \ {last}
    OBVIOUS
  <2> HIDE DEF inc, sh, R
  <2>10. SumFunctionOnSet(inc, Vals) = SumFunctionOnSet(inc, S)
    <3>1. \A v \in Vals : inc[v] \in Int
      BY <2>3
    <3>2. \A v \in Vals \ S : inc[v] = 0
      BY <2>3
    <3> QED  BY <1>1, <3>1, <3>2, SumSupport
  <2>11. SumFunctionOnSet(inc, S) = inc[last] + SumFunctionOnSet(inc, R)
    <3>1. \A v \in S : inc[v] \in Int
      BY <2>3
    <3> QED  BY <2>1, <2>8, <2>9, <3>1, SumRemove
  <2>12. SumFunctionOnSet(inc, R) = SumFunctionOnSet(sh, R)
    <3>1. \A v \in R : inc[v] \in Int /\ inc[v] = sh[v]
      BY <2>3, <2>7, <2>8
    <3> QED  BY <2>8, <3>1, SumCong
  <2>13. SumFunctionOnSet(inc, Vals) = total
    BY <2>2, <2>4, <2>6, <2>10, <2>11, <2>12
  <2>14. SumFunctionOnSet(new, Vals)
            = SumFunctionOnSet(income, Vals) + SumFunctionOnSet(inc, Vals)
    <3>1. \A v \in Vals : income[v] \in Int /\ inc[v] \in Int /\ new[v] = income[v] + inc[v]
      BY <2>3, <2>5
    <3> QED  BY <1>1, <3>1, SumAdd
  <2>15. /\ SumFunction(new) = SumFunctionOnSet(new, Vals)
         /\ SumFunction(income) = SumFunctionOnSet(income, Vals)
    BY <2>5 DEF SumFunction
  <2> QED  BY <1>4, <2>5, <2>13, <2>14, <2>15
<1> QED  BY <1>3, <1>4

\* A confiscation creates no profits.
LEMMA ConfiscatedSum ==
    ASSUME coins \in [Vals -> Nat], hbIncoming \in [Vals -> Nat],
           currentValidatorSet \subseteq Vals, NEW v \in Vals,
           NEW last \in Lasts(Eligible(status, v)), NEW income,
           income = tryRemoveValidatorIncoming(v, last)
    PROVE  /\ income \in [Vals -> Nat]
           /\ SumFunction(income) <= SumFunction(hbIncoming)
<1>1. PICK S : S = Eligible(status, v) /\ S \subseteq Vals /\ v \notin S
  BY DEF Eligible
<1>2. PICK total \in Nat : total = hbIncoming[v]
  OBVIOUS
<1>3. PICK new : new = addProfitsToActiveValidatorsByStakePercentExcept(
                          hbIncoming, S, total, last)
  OBVIOUS
<1>4. PICK h \in [Vals -> Nat] : h = hbIncoming
  OBVIOUS
<1>5. /\ new \in [Vals -> Nat]
      /\ SumFunction(new) = SumFunction(h) + IF S = {} THEN 0 ELSE total
  BY <1>1, <1>2, <1>3, <1>4, SharedSum
<1>6. new[v] = h[v]
  BY <1>1, <1>3, <1>4, SharedOut
<1>7. income = h \/ income = [new EXCEPT ![v] = 0]
  BY <1>1, <1>2, <1>3, <1>4 DEF tryRemoveValidatorIncoming
<1>8. SumFunction(h) \in Nat
  BY <1>4, CoinSums
<1>9. CASE income = h
  BY <1>4, <1>8, <1>9
<1>10. CASE income = [new EXCEPT ![v] = 0]
  <2>1. income \in [Vals -> Nat] /\ income[v] = 0
        /\ \A w \in Vals \ {v} : income[w] = new[w]
    BY <1>5, <1>10
  <2>2. SumFunction(income) = SumFunction(new) - new[v] + income[v]
    BY <1>5, <2>1, CoinSums
  <2> QED  BY <1>2, <1>4, <1>5, <1>6, <1>8, <2>1, <2>2
<1> QED  BY <1>7, <1>9, <1>10

-----------------------------------------------------------------------------
(***************************************************************************)
(* What is due to stakers.                                                 *)
(***************************************************************************)

\* The operators of Rewards with the state as a parameter: K for staked, T for
\* stakeTime, P for reflectionPercentSum, l for lastRewardTime.
Gain(T, P, l, s, v) == P[v][l[v]] - P[v][T[s][v]]

\* What is due to a staker, in units: not rounded, so that it adds up.
Due(K, T, P, l) ==
    [s \in Stakers |-> [v \in Vals |->
        IF T[s][v] > 0 THEN K[s][v].coins * Gain(T, P, l, s, v) ELSE 0]]

\* A staker with a stake time has a stake that is not being withdrawn, and is
\* owed no negative amount.
Timed(K, T, P, l) ==
    /\ T \in [Stakers -> [Vals -> 0 .. MaxNumber]]
    /\ l \in [Vals -> 0 .. MaxNumber]
    /\ P \in [Vals -> [0 .. MaxNumber -> Nat]]
    /\ \A s \in Stakers, v \in Vals : T[s][v] > 0 =>
          /\ K[s][v].unstakeBlock = 0
          /\ l[v] > 0
          /\ Gain(T, P, l, s, v) >= 0

\* The parts of the fees set aside for the stakers, and z units credited for the
\* time before a stake, cover what is due to them.
Covered(K, T, P, l, p, z) ==
    p \in Int /\ z \in Int /\ TableSum(Due(K, T, P, l)) <= p * Unit + z

\* T2 is T with t as the stake time of s in v.
Changed(T, T2, s, v, t) == T2 = [T EXCEPT ![s][v] = t]

LEMMA ChangedAt ==
    ASSUME NEW T \in [Stakers -> [Vals -> 0 .. MaxNumber]], NEW s \in Stakers,
           NEW v \in Vals, NEW t \in 0 .. MaxNumber, NEW T2, Changed(T, T2, s, v, t)
    PROVE  /\ T2 \in [Stakers -> [Vals -> 0 .. MaxNumber]] /\ T2[s][v] = t
           /\ \A x \in Stakers, w \in Vals : <<x, w>> # <<s, v>> => T2[x][w] = T[x][w]
BY DEF Changed

\* The types of the entries.
LEMMA Rows ==
    ASSUME NEW K \in Records, NEW T, NEW P, NEW l, Timed(K, T, P, l),
           NEW s \in Stakers, NEW v \in Vals
    PROVE  /\ K[s][v] \in Info /\ K[s][v].coins \in Nat /\ K[s][v].unstakeBlock \in Nat
           /\ K[s][v].index \in Nat
           /\ T[s][v] \in 0 .. MaxNumber /\ l[v] \in 0 .. MaxNumber
           /\ P[v] \in [0 .. MaxNumber -> Nat]
           /\ \A i \in 0 .. MaxNumber : P[v][i] \in Nat
           /\ T[s][v] \in Nat /\ l[v] \in Nat
           /\ Gain(T, P, l, s, v) \in Int
<1>1. /\ T[s][v] \in 0 .. MaxNumber /\ l[v] \in 0 .. MaxNumber
      /\ P[v] \in [0 .. MaxNumber -> Nat]
  BY DEF Timed
<1>2. P[v][l[v]] \in Nat /\ P[v][T[s][v]] \in Nat
  BY <1>1
<1>3. Gain(T, P, l, s, v) \in Int
  BY <1>2 DEF Gain
<1>4. K[s][v] \in Info
  BY DEF Records
<1> QED  BY <1>1, <1>3, <1>4, SystemAssumption DEF Info

\* What is due is never negative.
LEMMA DueTable ==
    ASSUME NEW K \in Records, NEW T, NEW P, NEW l, Timed(K, T, P, l)
    PROVE  /\ Due(K, T, P, l) \in Table
           /\ \A s \in Stakers, v \in Vals :
                 /\ Due(K, T, P, l)[s][v] \in Nat
                 /\ Due(K, T, P, l)[s][v] =
                       IF T[s][v] > 0 THEN K[s][v].coins * Gain(T, P, l, s, v) ELSE 0
<1>1. ASSUME NEW s \in Stakers, NEW v \in Vals
      PROVE  (IF T[s][v] > 0 THEN K[s][v].coins * Gain(T, P, l, s, v) ELSE 0) \in Nat
  <2>1. K[s][v].coins \in Nat /\ Gain(T, P, l, s, v) \in Int
    BY Rows
  <2>2. CASE T[s][v] > 0
    <3>1. Gain(T, P, l, s, v) \in Nat
      BY <2>1, <2>2 DEF Timed
    <3> QED  BY <2>1, <2>2, <3>1, TimesNat
  <2>3. CASE ~ (T[s][v] > 0)
    BY <2>3
  <2> QED  BY <2>2, <2>3
<1> DEFINE D(s, v) == IF T[s][v] > 0 THEN K[s][v].coins * Gain(T, P, l, s, v) ELSE 0
<1>2. \A s \in Stakers, v \in Vals : D(s, v) \in Nat
  BY <1>1
<1>3. Due(K, T, P, l) = [s \in Stakers |-> [v \in Vals |-> D(s, v)]]
  BY DEF Due
<1>4. \A s \in Stakers, v \in Vals : Due(K, T, P, l)[s][v] = D(s, v)
  <2> HIDE DEF D
  <2> QED  BY <1>3
<1>5. Due(K, T, P, l) \in Table
  <2> HIDE DEF D
  <2> QED  BY <1>2, <1>3 DEF Table
<1> QED  BY <1>2, <1>4, <1>5

\* A step changes what is due to one staker.
LEMMA DuePoint ==
    ASSUME NEW K \in Records, NEW T, NEW P, NEW l, Timed(K, T, P, l),
           NEW K2 \in Records, NEW T2, NEW l2, Timed(K2, T2, P, l2),
           NEW s \in Stakers, NEW v \in Vals, Recorded(K, K2, s, v),
           \A t \in Stakers, w \in Vals : <<t, w>> # <<s, v>> =>
               /\ T2[t][w] = T[t][w]
               /\ T[t][w] > 0 => l2[w] = l[w]
    PROVE  TableSum(Due(K2, T2, P, l2))
              = TableSum(Due(K, T, P, l)) - Due(K, T, P, l)[s][v] + Due(K2, T2, P, l2)[s][v]
<1>1. PICK F, G : F = Due(K, T, P, l) /\ G = Due(K2, T2, P, l2)
  OBVIOUS
<1>2. F \in Table /\ G \in Table
  BY <1>1, DueTable
<1>3. ASSUME NEW t \in Stakers, NEW w \in Vals, <<t, w>> # <<s, v>>
      PROVE  F[t][w] = G[t][w]
  <2>1. /\ F[t][w] = IF T[t][w] > 0 THEN K[t][w].coins * Gain(T, P, l, t, w) ELSE 0
        /\ G[t][w] = IF T2[t][w] > 0 THEN K2[t][w].coins * Gain(T2, P, l2, t, w) ELSE 0
    BY <1>1, DueTable
  <2>2. T2[t][w] = T[t][w] /\ K2[t][w].coins = K[t][w].coins
        /\ (T[t][w] > 0 => l2[w] = l[w])
    BY <1>3 DEF Recorded
  <2>3. T[t][w] > 0 => Gain(T2, P, l2, t, w) = Gain(T, P, l, t, w)
    BY <2>2 DEF Gain
  <2> QED  BY <2>1, <2>2, <2>3
<1>4. TableSum(G) = TableSum(F) - F[s][v] + G[s][v]
  BY <1>2, <1>3, TablePoint
<1> QED  BY <1>1, <1>4

\* A payment: what is paid was due, and nothing more is due afterwards; the
\* rounding stays with the contract.
LEMMA PayKeeps ==
    ASSUME NEW K \in Records, NEW T, NEW P, NEW l, Timed(K, T, P, l),
           NEW p, NEW z, Covered(K, T, P, l, p, z),
           NEW s \in Stakers, NEW v \in Vals, T[s][v] > 0,
           NEW r, r = (K[s][v].coins * Gain(T, P, l, s, v)) \div Unit,
           NEW K2 \in Records, Recorded(K, K2, s, v),
           NEW t, \/ t = 0
                  \/ /\ t = IF Gain(T, P, l, s, v) > 0 THEN l[v] ELSE T[s][v]
                     /\ K2[s][v].unstakeBlock = 0,
           NEW T2, Changed(T, T2, s, v, t)
    PROVE  /\ r \in Nat
           /\ Timed(K2, T2, P, l)
           /\ Covered(K2, T2, P, l, p - r, z)
<1>1. /\ T[s][v] \in 0 .. MaxNumber /\ l[v] \in 0 .. MaxNumber /\ l[v] > 0
      /\ Gain(T, P, l, s, v) \in Nat /\ K[s][v].coins \in Nat
      /\ P[v][l[v]] \in Nat /\ P[v][T[s][v]] \in Nat
  <2>1. Gain(T, P, l, s, v) >= 0 /\ l[v] > 0
    BY DEF Timed
  <2> QED  BY <2>1, Rows
<1>2. t \in 0 .. MaxNumber
  BY <1>1, SystemAssumption
<1>3. /\ T2 \in [Stakers -> [Vals -> 0 .. MaxNumber]] /\ T2[s][v] = t
      /\ \A x \in Stakers, w \in Vals : <<x, w>> # <<s, v>> => T2[x][w] = T[x][w]
  <2>1. T \in [Stakers -> [Vals -> 0 .. MaxNumber]]
    BY DEF Timed
  <2> QED  BY <1>2, <2>1, ChangedAt
<1>4. t > 0 => Gain(T2, P, l, s, v) = 0
  <2>1. Gain(T2, P, l, s, v) = P[v][l[v]] - P[v][t]
    BY <1>3 DEF Gain
  <2>2. Gain(T, P, l, s, v) = P[v][l[v]] - P[v][T[s][v]]
    BY DEF Gain
  <2> QED  BY <1>1, <2>1, <2>2
<1>5. Timed(K2, T2, P, l)
  <2>1. ASSUME NEW x \in Stakers, NEW w \in Vals, T2[x][w] > 0
        PROVE  K2[x][w].unstakeBlock = 0 /\ l[w] > 0 /\ Gain(T2, P, l, x, w) >= 0
    <3>1. CASE <<x, w>> = <<s, v>>
      <4>1. x = s /\ w = v /\ t > 0
        BY <1>3, <2>1, <3>1
      <4>2. K2[s][v].unstakeBlock = 0
        BY <4>1
      <4> QED  BY <1>1, <1>4, <4>1, <4>2
    <3>2. CASE <<x, w>> # <<s, v>>
      <4>1. T2[x][w] = T[x][w] /\ K2[x][w].unstakeBlock = K[x][w].unstakeBlock
        BY <1>3, <3>2 DEF Recorded
      <4>2. Gain(T2, P, l, x, w) = Gain(T, P, l, x, w)
        BY <4>1 DEF Gain
      <4> QED  BY <2>1, <4>1, <4>2 DEF Timed
    <3> QED  BY <3>1, <3>2
  <2> QED  BY <1>3, <2>1 DEF Timed
<1>6. PICK a, b, d, e : /\ a = TableSum(Due(K, T, P, l)) /\ b = TableSum(Due(K2, T2, P, l))
                        /\ d = Due(K, T, P, l)[s][v] /\ e = Due(K2, T2, P, l)[s][v]
  OBVIOUS
<1>7. b = a - d + e
  <2>1. \A x \in Stakers, w \in Vals : <<x, w>> # <<s, v>> =>
           T2[x][w] = T[x][w] /\ (T[x][w] > 0 => l[w] = l[w])
    BY <1>3
  <2>2. TableSum(Due(K2, T2, P, l))
           = TableSum(Due(K, T, P, l)) - Due(K, T, P, l)[s][v] + Due(K2, T2, P, l)[s][v]
    BY <1>5, <2>1, DuePoint
  <2> QED  BY <1>6, <2>2
<1>8. d \in Nat /\ d = K[s][v].coins * Gain(T, P, l, s, v)
  BY <1>6, DueTable
<1>9. e = 0
  <2>1. e = IF T2[s][v] > 0 THEN K2[s][v].coins * Gain(T2, P, l, s, v) ELSE 0
    <3>1. \A x \in Stakers, w \in Vals :
             Due(K2, T2, P, l)[x][w] =
                IF T2[x][w] > 0 THEN K2[x][w].coins * Gain(T2, P, l, x, w) ELSE 0
      BY <1>5, DueTable
    <3> QED  BY <1>6, <3>1
  <2>2. K2[s][v].coins \in Nat
    BY <1>5, Rows
  <2>3. K2[s][v].coins * 0 = 0
    BY <2>2
  <2> QED  BY <1>3, <1>4, <2>1, <2>3
<1>10. r \in Nat /\ Unit * r <= d
  BY <1>8, RewardsAssumption, DivNat, DivLeq
<1>11. a \in Int /\ p \in Int /\ z \in Int /\ a <= p * Unit + z
  <2>1. Due(K, T, P, l) \in Table
    BY DueTable
  <2>2. a \in Int
    BY <1>6, <2>1, TableSumIs
  <2> QED  BY <1>6, <2>2 DEF Covered
<1>12. b <= (p - r) * Unit + z
  <2>1. (p - r) * Unit = p * Unit - Unit * r /\ p * Unit \in Int /\ Unit * r \in Int
    <3>1. Unit * (p - r) = Unit * p - Unit * r /\ Unit * p = p * Unit
          /\ Unit * (p - r) = (p - r) * Unit /\ Unit * p \in Int /\ Unit * r \in Int
      BY <1>10, <1>11, RewardsAssumption, TimesPlus
    <3> QED  BY <3>1
  <2> QED  BY <1>7, <1>8, <1>9, <1>10, <1>11, <2>1
<1> QED  BY <1>5, <1>6, <1>10, <1>11, <1>12 DEF Covered

\* A first stake is due nothing: it is paid from the last block of its validator
\* on, and from this one if it has had none, when nobody else can be timed.
LEMMA FirstKeeps ==
    ASSUME NEW K \in Records, NEW T, NEW P, NEW l, Timed(K, T, P, l),
           NEW p, NEW z, Covered(K, T, P, l, p, z), NEW n \in 1 .. MaxNumber,
           NEW s \in Stakers, NEW v \in Vals,
           NEW K2 \in Records, Recorded(K, K2, s, v), K2[s][v].unstakeBlock = 0,
           NEW t, (l[v] = 0 /\ t = n) \/ (l[v] # 0 /\ t = l[v]),
           NEW T2, Changed(T, T2, s, v, t),
           NEW l2 \in [Vals -> 0 .. MaxNumber], l2[v] = t,
           \A w \in Vals \ {v} : l2[w] = l[w]
    PROVE  Timed(K2, T2, P, l2) /\ Covered(K2, T2, P, l2, p, z)
<1>1. /\ T \in [Stakers -> [Vals -> 0 .. MaxNumber]]
      /\ l \in [Vals -> 0 .. MaxNumber] /\ P \in [Vals -> [0 .. MaxNumber -> Nat]]
      /\ l[v] \in 0 .. MaxNumber
  BY DEF Timed
<1>2. t \in 0 .. MaxNumber /\ t > 0
  BY <1>1, SystemAssumption
<1>3. /\ T2 \in [Stakers -> [Vals -> 0 .. MaxNumber]] /\ T2[s][v] = t
      /\ \A x \in Stakers, w \in Vals : <<x, w>> # <<s, v>> => T2[x][w] = T[x][w]
  <2>1. T \in [Stakers -> [Vals -> 0 .. MaxNumber]] /\ t \in 0 .. MaxNumber
    BY <1>1, <1>2
  <2> QED  BY <2>1, ChangedAt
<1>4. Gain(T2, P, l2, s, v) = 0
  <2>1. P[v][t] \in Nat
    BY <1>1, <1>2
  <2> QED  BY <1>3, <2>1 DEF Gain
<1>5. \A x \in Stakers, w \in Vals : T[x][w] > 0 => l2[w] = l[w]
  <2> SUFFICES ASSUME NEW x \in Stakers, NEW w \in Vals, T[x][w] > 0
               PROVE  l2[w] = l[w]
    OBVIOUS
  <2>1. l[w] > 0
    BY DEF Timed
  <2> QED  BY <1>1, <2>1
<1>6. Timed(K2, T2, P, l2)
  <2>1. ASSUME NEW x \in Stakers, NEW w \in Vals, T2[x][w] > 0
        PROVE  K2[x][w].unstakeBlock = 0 /\ l2[w] > 0 /\ Gain(T2, P, l2, x, w) >= 0
    <3>1. CASE <<x, w>> = <<s, v>>
      <4>1. x = s /\ w = v
        BY <3>1
      <4> QED  BY <1>2, <1>4, <4>1
    <3>2. CASE <<x, w>> # <<s, v>>
      <4>1. T2[x][w] = T[x][w] /\ K2[x][w].unstakeBlock = K[x][w].unstakeBlock
        BY <1>3, <3>2 DEF Recorded
      <4>2. l2[w] = l[w]
        BY <1>5, <2>1, <4>1
      <4>3. Gain(T2, P, l2, x, w) = Gain(T, P, l, x, w)
        BY <4>1, <4>2 DEF Gain
      <4> QED  BY <2>1, <4>1, <4>2, <4>3 DEF Timed
    <3> QED  BY <3>1, <3>2
  <2> QED  BY <1>1, <1>3, <2>1 DEF Timed
<1>7. PICK a, b, d, e : /\ a = TableSum(Due(K, T, P, l)) /\ b = TableSum(Due(K2, T2, P, l2))
                        /\ d = Due(K, T, P, l)[s][v] /\ e = Due(K2, T2, P, l2)[s][v]
  OBVIOUS
<1>8. b = a - d + e
  <2>1. \A x \in Stakers, w \in Vals : <<x, w>> # <<s, v>> =>
           T2[x][w] = T[x][w] /\ (T[x][w] > 0 => l2[w] = l[w])
    BY <1>3, <1>5
  <2>2. TableSum(Due(K2, T2, P, l2))
           = TableSum(Due(K, T, P, l)) - Due(K, T, P, l)[s][v] + Due(K2, T2, P, l2)[s][v]
    BY <1>6, <2>1, DuePoint
  <2> QED  BY <1>7, <2>2
<1>9. d \in Nat
  BY <1>7, DueTable
<1>10. e = 0
  <2>1. e = IF T2[s][v] > 0 THEN K2[s][v].coins * Gain(T2, P, l2, s, v) ELSE 0
    <3>1. \A x \in Stakers, w \in Vals :
             Due(K2, T2, P, l2)[x][w] =
                IF T2[x][w] > 0 THEN K2[x][w].coins * Gain(T2, P, l2, x, w) ELSE 0
      BY <1>6, DueTable
    <3> QED  BY <1>7, <3>1
  <2>2. K2[s][v].coins \in Nat
    BY <1>6, Rows
  <2>3. K2[s][v].coins * 0 = 0
    BY <2>2
  <2> QED  BY <1>4, <2>1, <2>3
<1>11. a \in Int /\ p \in Int /\ z \in Int /\ p * Unit \in Int /\ a <= p * Unit + z
  <2>1. Due(K, T, P, l) \in Table
    BY DueTable
  <2>2. a \in Int
    BY <1>7, <2>1, TableSumIs
  <2> QED  BY <1>7, <2>2, RewardsAssumption, TimesPlus DEF Covered
<1>12. b <= p * Unit + z
  BY <1>8, <1>9, <1>10, <1>11
<1> QED  BY <1>6, <1>7, <1>11, <1>12 DEF Covered

\* What a stake of a is credited with at once.
Credit(T, P, l, s, v, a) == IF T[s][v] > 0 THEN a * Gain(T, P, l, s, v) ELSE 0

\* A stake of a staker without coins whose time does not change is credited for
\* the time before it.
LEMMA CreditKeeps ==
    ASSUME NEW K \in Records, NEW T, NEW P, NEW l, Timed(K, T, P, l),
           NEW p, NEW z, Covered(K, T, P, l, p, z),
           NEW s \in Stakers, NEW v \in Vals, NEW a \in Nat,
           K[s][v].coins = 0, NEW K2 \in Records, Recorded(K, K2, s, v),
           K2[s][v].coins = a, K2[s][v].unstakeBlock = 0
    PROVE  Timed(K2, T, P, l) /\ Covered(K2, T, P, l, p, z + Credit(T, P, l, s, v, a))
<1>1. Timed(K2, T, P, l)
  <2>1. ASSUME NEW x \in Stakers, NEW w \in Vals, T[x][w] > 0
        PROVE  K2[x][w].unstakeBlock = 0 /\ l[w] > 0 /\ Gain(T, P, l, x, w) >= 0
    <3>1. K2[x][w].unstakeBlock = 0
      <4>1. CASE <<x, w>> = <<s, v>>
        BY <4>1
      <4>2. CASE <<x, w>> # <<s, v>>
        BY <2>1, <4>2 DEF Recorded, Timed
      <4> QED  BY <4>1, <4>2
    <3> QED  BY <2>1, <3>1 DEF Timed
  <2> QED  BY <2>1 DEF Timed
<1>2. PICK A, B, d, e : /\ A = TableSum(Due(K, T, P, l)) /\ B = TableSum(Due(K2, T, P, l))
                        /\ d = Due(K, T, P, l)[s][v] /\ e = Due(K2, T, P, l)[s][v]
  OBVIOUS
<1>3. B = A - d + e
  <2>1. TableSum(Due(K2, T, P, l))
           = TableSum(Due(K, T, P, l)) - Due(K, T, P, l)[s][v] + Due(K2, T, P, l)[s][v]
    BY <1>1, DuePoint
  <2> QED  BY <1>2, <2>1
<1>4. d = 0
  <2>1. d = IF T[s][v] > 0 THEN K[s][v].coins * Gain(T, P, l, s, v) ELSE 0
    BY <1>2, DueTable
  <2>2. PICK g \in Int : g = Gain(T, P, l, s, v)
    BY Rows
  <2>3. 0 * g = 0
    OBVIOUS
  <2> QED  BY <2>1, <2>2, <2>3
<1>5. e = Credit(T, P, l, s, v, a) /\ e \in Int
  <2>1. /\ Due(K2, T, P, l)[s][v] \in Nat
        /\ Due(K2, T, P, l)[s][v]
              = IF T[s][v] > 0 THEN K2[s][v].coins * Gain(T, P, l, s, v) ELSE 0
    BY <1>1, DueTable
  <2> QED  BY <1>2, <2>1 DEF Credit
<1>6. A \in Int
  <2>1. Due(K, T, P, l) \in Table
    BY DueTable
  <2> QED  BY <1>2, <2>1, TableSumIs
<1>7. p \in Int /\ z \in Int /\ A <= p * Unit + z /\ p * Unit \in Int
  BY <1>2, RewardsAssumption, TimesPlus DEF Covered
<1>8. B <= p * Unit + (z + e) /\ z + e \in Int
  BY <1>3, <1>4, <1>5, <1>6, <1>7
<1>9. Covered(K2, T, P, l, p, z + e)
  BY <1>2, <1>7, <1>8 DEF Covered
<1> QED  BY <1>1, <1>5, <1>9

\* A withdrawal of a stake changes nothing that is due.
LEMMA WithdrawKeepsDue ==
    ASSUME NEW K \in Records, NEW T, NEW P, NEW l, Timed(K, T, P, l),
           NEW p, NEW z, Covered(K, T, P, l, p, z), NEW s \in Stakers, NEW v \in Vals,
           K[s][v].unstakeBlock # 0, NEW K2 \in Records, Recorded(K, K2, s, v)
    PROVE  Timed(K2, T, P, l) /\ Covered(K2, T, P, l, p, z)
<1>1. ~ (T[s][v] > 0)
  BY DEF Timed
<1>2. Timed(K2, T, P, l)
  <2>1. ASSUME NEW x \in Stakers, NEW w \in Vals, T[x][w] > 0
        PROVE  K2[x][w].unstakeBlock = 0 /\ l[w] > 0 /\ Gain(T, P, l, x, w) >= 0
    <3>1. <<x, w>> # <<s, v>>
      BY <1>1, <2>1
    <3>2. K2[x][w].unstakeBlock = K[x][w].unstakeBlock
      BY <3>1 DEF Recorded
    <3> QED  BY <2>1, <3>2 DEF Timed
  <2> QED  BY <2>1 DEF Timed
<1>3. TableSum(Due(K2, T, P, l))
         = TableSum(Due(K, T, P, l)) - Due(K, T, P, l)[s][v] + Due(K2, T, P, l)[s][v]
  BY <1>2, DuePoint
<1>4. Due(K, T, P, l)[s][v] = 0 /\ Due(K, T, P, l) \in Table
  BY <1>1, DueTable
<1>5. Due(K2, T, P, l)[s][v] = 0
  BY <1>1, <1>2, DueTable
<1>6. TableSum(Due(K, T, P, l)) \in Int
  BY <1>4, TableSumIs
<1> QED  BY <1>2, <1>3, <1>4, <1>5, <1>6 DEF Covered

\* The sum of m at time n is its last one raised by d.
Raised(P, P2, l, l2, m, n, d) ==
    /\ l2 = [l EXCEPT ![m] = n]
    /\ P2 = [P EXCEPT ![m][n] = P[m][l[m]] + d]

\* A reward raises the sum of one validator by d per active coin: nothing more
\* than the part set aside for its stakers becomes due.  A staker whose stake
\* time is the time of the reward gets nothing of it.
LEMMA RewardKeeps ==
    ASSUME NEW K \in Records, NEW T, NEW P, NEW l, Timed(K, T, P, l),
           NEW p, NEW z, Covered(K, T, P, l, p, z), NEW m \in Vals, NEW n \in 1 .. MaxNumber,
           NEW d \in Nat, NEW q \in Nat, d * ActiveSum(K, m) <= q * Unit,
           NEW l2, NEW P2, Raised(P, P2, l, l2, m, n, d)
    PROVE  Timed(K, T, P2, l2) /\ Covered(K, T, P2, l2, p + q, z)
<1>1. /\ T \in [Stakers -> [Vals -> 0 .. MaxNumber]]
      /\ l \in [Vals -> 0 .. MaxNumber] /\ P \in [Vals -> [0 .. MaxNumber -> Nat]]
  BY DEF Timed
<1>2. PICK h \in Nat : h = P[m][l[m]] /\ n \in 0 .. MaxNumber /\ n > 0 /\ h + d \in Nat
  BY <1>1, SystemAssumption
<1>3. /\ l2 \in [Vals -> 0 .. MaxNumber] /\ l2[m] = n
      /\ \A w \in Vals \ {m} : l2[w] = l[w]
  BY <1>1, <1>2 DEF Raised
<1>4. /\ P2 \in [Vals -> [0 .. MaxNumber -> Nat]] /\ P2[m][n] = h + d
      /\ \A w \in Vals \ {m} : P2[w] = P[w]
      /\ \A i \in 0 .. MaxNumber : i # n => P2[m][i] = P[m][i]
  BY <1>1, <1>2 DEF Raised
<1>5. ASSUME NEW x \in Stakers
      PROVE  /\ Gain(T, P2, l2, x, m) \in Int /\ Gain(T, P, l, x, m) \in Int
             /\ Gain(T, P2, l2, x, m) \in {0, Gain(T, P, l, x, m) + d}
  <2>1. T[x][m] \in 0 .. MaxNumber /\ P[m][T[x][m]] \in Nat
    BY <1>1
  <2>2. Gain(T, P2, l2, x, m) = (h + d) - P2[m][T[x][m]]
    BY <1>3, <1>4 DEF Gain
  <2>3. Gain(T, P, l, x, m) = h - P[m][T[x][m]]
    BY <1>2 DEF Gain
  <2>4. CASE T[x][m] = n
    BY <1>2, <1>4, <2>1, <2>2, <2>3, <2>4
  <2>5. CASE T[x][m] # n
    <3>1. P2[m][T[x][m]] = P[m][T[x][m]]
      BY <1>4, <2>1, <2>5
    <3> QED  BY <1>2, <2>1, <2>2, <2>3, <3>1
  <2> QED  BY <2>4, <2>5
<1>6. ASSUME NEW x \in Stakers, NEW w \in Vals \ {m}
      PROVE  Gain(T, P2, l2, x, w) = Gain(T, P, l, x, w)
  BY <1>3, <1>4 DEF Gain
<1>7. Timed(K, T, P2, l2)
  <2>1. ASSUME NEW x \in Stakers, NEW w \in Vals, T[x][w] > 0
        PROVE  K[x][w].unstakeBlock = 0 /\ l2[w] > 0 /\ Gain(T, P2, l2, x, w) >= 0
    <3>1. K[x][w].unstakeBlock = 0 /\ l[w] > 0 /\ Gain(T, P, l, x, w) >= 0
      BY <2>1 DEF Timed
    <3>2. CASE w = m
      <4>1. Gain(T, P2, l2, x, m) >= 0
        BY <1>5, <3>1, <3>2
      <4> QED  BY <1>2, <1>3, <3>1, <3>2, <4>1
    <3>3. CASE w # m
      BY <1>3, <1>6, <3>1, <3>3
    <3> QED  BY <3>2, <3>3
  <2> QED  BY <1>1, <1>3, <1>4, <2>1 DEF Timed
<1>8. PICK F, G : F = Due(K, T, P, l) /\ G = Due(K, T, P2, l2)
  OBVIOUS
<1>9. /\ F \in Table /\ G \in Table
      /\ \A x \in Stakers, w \in Vals :
            /\ F[x][w] \in Nat /\ G[x][w] \in Nat
            /\ F[x][w] = IF T[x][w] > 0 THEN K[x][w].coins * Gain(T, P, l, x, w) ELSE 0
            /\ G[x][w] = IF T[x][w] > 0 THEN K[x][w].coins * Gain(T, P2, l2, x, w) ELSE 0
  <2>1. /\ F \in Table
        /\ \A x \in Stakers, w \in Vals :
              /\ F[x][w] \in Nat
              /\ F[x][w] = IF T[x][w] > 0 THEN K[x][w].coins * Gain(T, P, l, x, w) ELSE 0
    BY <1>8, DueTable
  <2>2. /\ Due(K, T, P2, l2) \in Table
        /\ \A x \in Stakers, w \in Vals :
              /\ Due(K, T, P2, l2)[x][w] \in Nat
              /\ Due(K, T, P2, l2)[x][w]
                    = IF T[x][w] > 0 THEN K[x][w].coins * Gain(T, P2, l2, x, w) ELSE 0
    BY <1>7, DueTable
  <2> QED  BY <1>8, <2>1, <2>2
<1>10. TableSum(G) = TableSum(F) - Column(F, m) + Column(G, m)
  <2>1. \A x \in Stakers, w \in Vals \ {m} : F[x][w] = G[x][w]
    BY <1>6, <1>9
  <2> QED  BY <1>9, <2>1, TableColumn
<1>11. ASSUME NEW x \in Stakers
       PROVE  G[x][m] <= F[x][m] + d * Active(K, x, m)
  <2>1. PICK c \in Nat : c = K[x][m].coins
    BY Rows
  <2>2. CASE T[x][m] > 0
    <3>1. K[x][m].unstakeBlock = 0 /\ Gain(T, P, l, x, m) >= 0
      BY <2>2 DEF Timed
    <3>2. Active(K, x, m) = c
      BY <2>1, <3>1 DEF Active
    <3>3. PICK g \in Nat : g = Gain(T, P, l, x, m)
      BY <1>5, <3>1
    <3>4. F[x][m] = c * g /\ (G[x][m] = c * 0 \/ G[x][m] = c * (g + d))
      BY <1>5, <1>9, <2>1, <2>2, <3>3
    <3>5. c * (g + d) = c * g + c * d /\ c * d = d * c /\ c * d \in Nat /\ c * g \in Nat
          /\ c * 0 = 0
      BY TimesPlus, TimesNat
    <3> QED  BY <3>2, <3>4, <3>5
  <2>3. CASE ~ (T[x][m] > 0)
    <3>1. F[x][m] = 0 /\ G[x][m] = 0
      BY <1>9, <2>3
    <3>2. PICK y \in Nat : y = Active(K, x, m)
      BY <2>1 DEF Active
    <3> QED  BY <3>1, <3>2, TimesNat
  <2> QED  BY <2>2, <2>3
<1>12. Column(G, m) <= Column(F, m) + d * ActiveSum(K, m)
       /\ Column(G, m) \in Int /\ Column(F, m) \in Int /\ ActiveSum(K, m) \in Int
  <2> DEFINE act == [x \in Stakers |-> Active(K, x, m)]
             inc == [x \in Stakers |-> d * act[x]]
             f == [x \in Stakers |-> F[x][m]]
             g == [x \in Stakers |-> G[x][m]]
             sum == [x \in Stakers |-> f[x] + inc[x]]
  <2>1. \A x \in Stakers : act[x] = Active(K, x, m) /\ Active(K, x, m) \in Nat
    <3>1. \A x \in Stakers : K[x][m].coins \in Nat
      BY Rows
    <3> QED  BY <3>1 DEF Active
  <2>2. \A x \in Stakers : inc[x] = d * act[x] /\ act[x] \in Int /\ inc[x] \in Int
    BY <2>1, TimesPlus
  <2>3. \A x \in Stakers : f[x] = F[x][m] /\ g[x] = G[x][m] /\ f[x] \in Int /\ g[x] \in Int
    BY <1>9
  <2>4. \A x \in Stakers : /\ sum[x] = f[x] + inc[x] /\ f[x] \in Int /\ inc[x] \in Int
                           /\ sum[x] \in Int
    BY <2>2, <2>3
  <2>5. \A x \in Stakers : g[x] \in Int /\ sum[x] \in Int /\ g[x] <= sum[x]
    <3> HIDE DEF act, inc, f, g, sum
    <3> QED  BY <1>11, <2>1, <2>2, <2>3, <2>4
  <2>6. Column(F, m) = SumFunctionOnSet(f, Stakers) /\ Column(G, m) = SumFunctionOnSet(g, Stakers)
    BY DEF Column
  <2>7. ActiveSum(K, m) = SumFunctionOnSet(act, Stakers)
    BY DEF ActiveSum, SumFunction
  <2> HIDE DEF act, inc, f, g, sum
  <2>8. IsFiniteSet(Stakers)
    BY AddressAssumption
  <2>9. SumFunctionOnSet(g, Stakers) <= SumFunctionOnSet(sum, Stakers)
    BY <2>5, <2>8, SumLeq
  <2>10. SumFunctionOnSet(sum, Stakers)
            = SumFunctionOnSet(f, Stakers) + SumFunctionOnSet(inc, Stakers)
    BY <2>4, <2>8, SumAdd
  <2>11. SumFunctionOnSet(inc, Stakers) = d * SumFunctionOnSet(act, Stakers)
    BY <2>2, <2>8, SumScale
  <2>12. SumFunctionOnSet(act, Stakers) \in Int
    BY <2>2, <2>8, SumInt
  <2>13. Column(G, m) \in Int /\ Column(F, m) \in Int
    BY <1>9, ColumnInt
  <2> QED  BY <2>6, <2>7, <2>9, <2>10, <2>11, <2>12, <2>13
<1>13. TableSum(F) \in Int /\ TableSum(F) <= p * Unit + z /\ p \in Int /\ z \in Int
  BY <1>8, <1>9, TableSumIs DEF Covered
<1>14. p * Unit + q * Unit = (p + q) * Unit /\ p * Unit \in Int /\ q * Unit \in Int
       /\ d * ActiveSum(K, m) \in Int
  <2>1. Unit * (p + q) = Unit * p + Unit * q /\ Unit * p = p * Unit /\ Unit * q = q * Unit
        /\ Unit * (p + q) = (p + q) * Unit /\ Unit * p \in Int /\ Unit * q \in Int
    BY <1>13, RewardsAssumption, TimesPlus
  <2> QED  BY <1>12, <2>1, TimesPlus
<1>15. TableSum(G) <= (p + q) * Unit + z
  BY <1>10, <1>12, <1>13, <1>14
<1> QED  BY <1>7, <1>8, <1>13, <1>15 DEF Covered

-----------------------------------------------------------------------------
(***************************************************************************)
(* The contract's account.                                                 *)
(***************************************************************************)

\* Held with the records as a parameter.
HeldOf(K) ==
    SumFunction([v \in Vals |-> SumFunction([s \in Stakers |-> K[s][v].coins])])

CoinTable(K) == [s \in Stakers |-> [v \in Vals |-> K[s][v].coins]]

LEMMA ZeroSum ==
    ASSUME NEW f, NEW S, IsFiniteSet(S), \A x \in S : f[x] = 0
    PROVE  SumFunctionOnSet(f, S) = 0
<1>1. SumFunctionOnSet(f, S) = SumFunctionOnSet(f, {})
  BY SumSupport
<1> QED  BY <1>1, SumEmpty

\* A table of zeros.
LEMMA ZeroTable ==
    ASSUME NEW F \in Table, \A s \in Stakers, v \in Vals : F[s][v] = 0
    PROVE  TableSum(F) = 0
<1>1. PICK f \in [Vals -> Int] : /\ TableSum(F) = SumFunctionOnSet(f, Vals)
                                 /\ \A v \in Vals : f[v] = Column(F, v)
  BY TableSumIs
<1>2. ASSUME NEW v \in Vals PROVE Column(F, v) = 0
  <2> DEFINE g == [s \in Stakers |-> F[s][v]]
  <2>1. \A s \in Stakers : g[s] = 0
    OBVIOUS
  <2>2. Column(F, v) = SumFunctionOnSet(g, Stakers)
    BY DEF Column
  <2> HIDE DEF g
  <2> QED  BY <2>1, <2>2, AddressAssumption, ZeroSum
<1>3. \A v \in Vals : f[v] = 0
  BY <1>1, <1>2
<1> QED  BY <1>1, <1>3, AddressAssumption, ZeroSum

\* Held as the sum of a table.
LEMMA HeldIs ==
    ASSUME NEW K \in Records
    PROVE  /\ HeldOf(K) = TableSum(CoinTable(K))
           /\ CoinTable(K) \in Table
           /\ \A s \in Stakers, v \in Vals :
                 CoinTable(K)[s][v] = K[s][v].coins /\ K[s][v].coins \in Nat
<1>1. \A s \in Stakers, v \in Vals : K[s][v].coins \in Nat
  BY DEF Records, Info
<1>2. PICK F : F = CoinTable(K)
  OBVIOUS
<1>3. /\ F \in Table
      /\ \A s \in Stakers, v \in Vals : F[s][v] = K[s][v].coins
  BY <1>1, <1>2 DEF CoinTable, Table
<1>4. ASSUME NEW v \in Vals
      PROVE  SumFunction([s \in Stakers |-> K[s][v].coins]) = Column(F, v)
  <2>1. [s \in Stakers |-> K[s][v].coins] = [s \in Stakers |-> F[s][v]]
    BY <1>3
  <2> QED  BY <2>1 DEF SumFunction, Column
<1>5. [v \in Vals |-> SumFunction([s \in Stakers |-> K[s][v].coins])]
         = [v \in Vals |-> Column(F, v)]
  BY <1>4
<1>6. HeldOf(K) = SumFunctionOnSet([v \in Vals |-> Column(F, v)], Vals)
  BY <1>5 DEF HeldOf, SumFunction
<1> QED  BY <1>1, <1>2, <1>3, <1>6 DEF TableSum

\* A step changes what is held for one staker.
LEMMA HeldPoint ==
    ASSUME NEW K \in Records, NEW K2 \in Records, NEW s \in Stakers, NEW v \in Vals,
           Recorded(K, K2, s, v)
    PROVE  /\ HeldOf(K) \in Int /\ HeldOf(K2) \in Int
           /\ HeldOf(K2) = HeldOf(K) - K[s][v].coins + K2[s][v].coins
<1>1. PICK F, G : F = CoinTable(K) /\ G = CoinTable(K2)
  OBVIOUS
<1>2. /\ F \in Table /\ G \in Table
      /\ HeldOf(K) = TableSum(F) /\ HeldOf(K2) = TableSum(G)
      /\ \A t \in Stakers, w \in Vals : F[t][w] = K[t][w].coins /\ G[t][w] = K2[t][w].coins
  BY <1>1, HeldIs
<1>3. \A t \in Stakers, w \in Vals : <<t, w>> # <<s, v>> => F[t][w] = G[t][w]
  BY <1>2 DEF Recorded
<1>4. TableSum(G) = TableSum(F) - F[s][v] + G[s][v]
  BY <1>2, <1>3, TablePoint
<1>5. TableSum(F) \in Int /\ TableSum(G) \in Int
  BY <1>2, TableSumIs
<1> QED  BY <1>2, <1>4, <1>5

\* The account covers the stakes, the profits, the fund and the stakers' parts.
Funded(K, h, f, p, b) ==
    /\ b \in Int /\ f \in Nat /\ p \in Int /\ h \in [Vals -> Nat]
    /\ b >= HeldOf(K) + SumFunction(h) + f + p

CoinInv ==
    /\ Timed(staked, stakeTime, reflectionPercentSum, lastRewardTime)
    /\ Covered(staked, stakeTime, reflectionPercentSum, lastRewardTime, pool,
               backdated)
    /\ Funded(staked, hbIncoming, rewardFund, pool, balance)

\* What the stakers can withdraw is within what is due to them.
LEMMA CoinInvMeans ==
    ASSUME CoinInv, LedgerInv
    PROVE  StakersPart /\ Solvent
<1>1. PICK K, T, P, l, p, b, z :
         /\ K = staked /\ T = stakeTime /\ P = reflectionPercentSum
         /\ l = lastRewardTime /\ p = pool /\ b = balance /\ z = backdated
  OBVIOUS
<1>2. /\ K \in Records /\ Timed(K, T, P, l) /\ Covered(K, T, P, l, p, z)
      /\ Funded(K, hbIncoming, rewardFund, p, b)
  BY <1>1 DEF CoinInv, LedgerInv
<1>3. PICK F : F = Due(K, T, P, l)
  OBVIOUS
<1>4. /\ F \in Table
      /\ \A s \in Stakers, v \in Vals :
            /\ F[s][v] \in Nat
            /\ F[s][v] = IF T[s][v] > 0 THEN K[s][v].coins * Gain(T, P, l, s, v) ELSE 0
  BY <1>2, <1>3, DueTable
<1> DEFINE can(s, v) == IF T[s][v] > 0 THEN (K[s][v].coins * Gain(T, P, l, s, v)) \div Unit
                                       ELSE 0
<1>5. ASSUME NEW s \in Stakers, NEW v \in Vals
      PROVE  can(s, v) \in Nat /\ Unit * can(s, v) <= F[s][v]
  <2>1. CASE T[s][v] > 0
    <3>1. PICK d \in Nat : d = F[s][v] /\ d = K[s][v].coins * Gain(T, P, l, s, v)
      BY <1>4, <2>1
    <3> QED  BY <2>1, <3>1, RewardsAssumption, DivNat, DivLeq
  <2>2. CASE ~ (T[s][v] > 0)
    <3>1. can(s, v) = 0 /\ F[s][v] = 0
      BY <1>4, <2>2
    <3> QED  BY <3>1, RewardsAssumption
  <2> QED  BY <2>1, <2>2
<1>6. \A s \in Stakers, v \in Vals :
         (IF stakeTime[s][v] > 0 THEN viewStakeReward(s, v) ELSE 0) = can(s, v)
  BY <1>1 DEF viewStakeReward, validPercent, Gain
<1> HIDE DEF can
<1> DEFINE row(v) == [s \in Stakers |-> can(s, v)]
           owed == [v \in Vals |-> SumFunctionOnSet(row(v), Stakers)]
<1>7. ASSUME NEW v \in Vals
      PROVE  /\ OwedFor(v) = SumFunctionOnSet(row(v), Stakers)
             /\ OwedFor(v) \in Int /\ Column(F, v) \in Int
             /\ Unit * OwedFor(v) <= 1 * Column(F, v)
  <2>1. OwedFor(v) = SumFunctionOnSet(row(v), Stakers)
    <3>1. [s \in Stakers |-> IF stakeTime[s][v] > 0 THEN viewStakeReward(s, v) ELSE 0] = row(v)
      BY <1>6
    <3> QED  BY <3>1 DEF OwedFor, SumFunction
  <2> DEFINE g == [s \in Stakers |-> F[s][v]]
  <2>2. Column(F, v) = SumFunctionOnSet(g, Stakers)
    BY DEF Column
  <2>3. PICK r : r = row(v)
    OBVIOUS
  <2>4. \A s \in Stakers : /\ r[s] \in Int /\ g[s] \in Int
                           /\ Unit * r[s] <= 1 * g[s]
    BY <1>4, <1>5, <2>3
  <2>5. IsFiniteSet(Stakers) /\ Unit \in Int
    BY AddressAssumption, RewardsAssumption
  <2> HIDE DEF g
  <2>6. Unit * SumFunctionOnSet(r, Stakers) <= 1 * SumFunctionOnSet(g, Stakers)
    BY <2>4, <2>5, SumProportion
  <2>7. SumFunctionOnSet(r, Stakers) \in Int
    BY <2>4, <2>5, SumInt
  <2>8. Column(F, v) \in Int
    BY <1>4, ColumnInt
  <2> QED  BY <2>1, <2>2, <2>3, <2>6, <2>7, <2>8
<1>8. PICK o, f : /\ o = [v \in Vals |-> OwedFor(v)]
                  /\ f = [v \in Vals |-> Column(F, v)]
  OBVIOUS
<1>9. \A v \in Vals : o[v] = OwedFor(v) /\ f[v] = Column(F, v)
  BY <1>8
<1>10. Owed = SumFunctionOnSet(o, Vals) /\ TableSum(F) = SumFunctionOnSet(f, Vals)
  BY <1>8 DEF Owed, SumFunction, TableSum
<1>11. \A v \in Vals : o[v] \in Int /\ f[v] \in Int /\ Unit * o[v] <= 1 * f[v]
  BY <1>7, <1>9
<1>12. IsFiniteSet(Vals) /\ Unit \in Int
  BY AddressAssumption, RewardsAssumption
<1>13. Unit * SumFunctionOnSet(o, Vals) <= 1 * SumFunctionOnSet(f, Vals)
  BY <1>11, <1>12, SumProportion
<1>14. Owed \in Int /\ TableSum(F) \in Int
  BY <1>10, <1>11, <1>12, SumInt
<1>15. TableSum(F) <= p * Unit + z /\ p \in Int /\ z \in Int
  BY <1>2, <1>3 DEF Covered
<1>16. Owed * Unit <= p * Unit + z /\ Owed * Unit \in Int /\ p * Unit \in Int
  <2>1. Unit * Owed = Owed * Unit /\ p * Unit \in Int /\ Unit * Owed \in Int
    BY <1>12, <1>14, <1>15, TimesPlus
  <2> QED  BY <1>10, <1>13, <1>14, <1>15, <2>1
<1>17. StakersPart
  BY <1>1, <1>16 DEF StakersPart
<1>18. Solvent
  <2>1. Held = HeldOf(K) /\ Profits = SumFunction(hbIncoming)
    BY <1>1 DEF Held, HeldFor, HeldOf, Profits
  <2>2. HeldOf(K) \in Int
    BY <1>2, HeldIs, TableSumIs
  <2>3. SumFunction(hbIncoming) \in Nat
    <3>1. PICK h \in [Vals -> Nat] : h = hbIncoming
      BY <1>2 DEF Funded
    <3>2. SumFunction(h) \in Nat
      BY <3>1, AddressAssumption, SumNat DEF SumFunction
    <3> QED  BY <3>1, <3>2
  <2>4. b >= HeldOf(K) + SumFunction(hbIncoming) + rewardFund + p
        /\ b \in Int /\ rewardFund \in Nat
    BY <1>2 DEF Funded
  <2>5. PICK c \in Int : c = HeldOf(K) + SumFunction(hbIncoming) + rewardFund
    BY <2>2, <2>3, <2>4
  <2>6. c * Unit <= (b - p) * Unit /\ c * Unit \in Int
    <3>1. c <= b - p /\ b - p \in Int
      BY <1>15, <2>2, <2>3, <2>4, <2>5
    <3>2. Unit * c <= Unit * (b - p)
      BY <3>1, RewardsAssumption, TimesLeq
    <3> QED  BY <1>12, <3>1, <3>2, TimesPlus
  <2>7. (b - p) * Unit = b * Unit - p * Unit /\ b * Unit \in Int
    <3>1. /\ Unit * (b - p) = Unit * b - Unit * p /\ Unit * b = b * Unit
          /\ Unit * p = p * Unit /\ Unit * b \in Int
      BY <1>12, <1>15, <2>4, TimesPlus
    <3>2. Unit * (b - p) = (b - p) * Unit
      <4>1. b - p \in Int
        BY <1>15, <2>4
      <4> QED  BY <1>12, <4>1, TimesPlus
    <3> QED  BY <3>1, <3>2
  <2>8. (c + Owed) * Unit = c * Unit + Owed * Unit
    <3>1. /\ Unit * (c + Owed) = Unit * c + Unit * Owed /\ Unit * c = c * Unit
          /\ Unit * Owed = Owed * Unit
      BY <1>12, <1>14, TimesPlus
    <3>2. Unit * (c + Owed) = (c + Owed) * Unit
      <4>1. c + Owed \in Int
        BY <1>14
      <4> QED  BY <1>12, <4>1, TimesPlus
    <3> QED  BY <3>1, <3>2
  <2>9. (c + Owed) * Unit <= b * Unit + z
    BY <1>15, <1>16, <2>6, <2>7, <2>8
  <2> QED  BY <1>1, <2>1, <2>5, <2>9 DEF Solvent
<1> QED  BY <1>17, <1>18

-----------------------------------------------------------------------------
(***************************************************************************)
(* Every step keeps CoinInv.                                               *)
(***************************************************************************)

LEMMA CoinInvInit == ASSUME CoinInit PROVE CoinInv
<1>1. PICK K, T, P, l, h : /\ K = staked /\ T = stakeTime /\ P = reflectionPercentSum
                           /\ l = lastRewardTime /\ h = hbIncoming
  OBVIOUS
<1>2. /\ T = [s \in Stakers |-> [v \in Vals |-> 0]]
      /\ l = [v \in Vals |-> IF v \in Range(GenesisVals) THEN 1 ELSE 0]
      /\ P = [v \in Vals |-> [t \in 0 .. MaxNumber |-> 0]]
      /\ h = [v \in Vals |-> 0]
      /\ K = [s \in Stakers |-> [v \in Vals |-> NoStake]]
  BY <1>1 DEF CoinInit, Init, initialize
<1>3. NoStake \in Info /\ NoStake.coins = 0 /\ NoStake.index = 0
  BY DEF NoStake, Info
<1>4. K \in Records /\ \A s \in Stakers, v \in Vals : K[s][v].coins = 0 /\ K[s][v].index = 0
  BY <1>2, <1>3 DEF Records
<1>5. 0 \in 0 .. MaxNumber /\ 1 \in 0 .. MaxNumber
  BY SystemAssumption
<1>6. Timed(K, T, P, l)
  <2>1. T \in [Stakers -> [Vals -> 0 .. MaxNumber]]
    BY <1>2, <1>5
  <2>2. l \in [Vals -> 0 .. MaxNumber]
    BY <1>2, <1>5
  <2>3. P \in [Vals -> [0 .. MaxNumber -> Nat]]
    BY <1>2
  <2>4. \A s \in Stakers, v \in Vals : ~ (T[s][v] > 0)
    BY <1>2
  <2> QED  BY <2>1, <2>2, <2>3, <2>4 DEF Timed
<1>7. TableSum(Due(K, T, P, l)) = 0
  <2>1. Due(K, T, P, l) \in Table
    BY <1>4, <1>6, DueTable
  <2>2. \A s \in Stakers, v \in Vals : Due(K, T, P, l)[s][v] = 0
    <3>1. \A s \in Stakers, v \in Vals : ~ (T[s][v] > 0)
      BY <1>2
    <3>2. \A s \in Stakers, v \in Vals :
             Due(K, T, P, l)[s][v] =
                IF T[s][v] > 0 THEN K[s][v].coins * Gain(T, P, l, s, v) ELSE 0
      BY <1>4, <1>6, DueTable
    <3> QED  BY <3>1, <3>2
  <2> QED  BY <2>1, <2>2, ZeroTable
<1>8. HeldOf(K) = 0
  BY <1>4, HeldIs, ZeroTable
<1>9. h \in [Vals -> Nat] /\ SumFunction(h) = 0
  <2>1. h \in [Vals -> Nat] /\ \A v \in Vals : h[v] = 0
    BY <1>2
  <2>2. SumFunctionOnSet(h, Vals) = 0
    BY <2>1, AddressAssumption, ZeroSum
  <2> QED  BY <2>1, <2>2 DEF SumFunction
<1>10. pool = 0 /\ balance = 0 /\ rewardFund = 0 /\ backdated = 0
  BY DEF CoinInit
<1>11. Covered(K, T, P, l, pool, backdated)
  BY <1>7, <1>10, RewardsAssumption DEF Covered
<1>12. Funded(K, h, rewardFund, pool, balance)
  BY <1>8, <1>9, <1>10 DEF Funded
<1> QED  BY <1>1, <1>6, <1>11, <1>12 DEF CoinInv

\* withdrawStakingReward of s in v, with the state as a parameter.
LEMMA PaysMeans ==
    ASSUME NEW s, NEW v, NEW before, Pays(s, v, before),
           NEW K, NEW T, NEW P, NEW l, K = staked, T = stakeTime,
           P = reflectionPercentSum, l = lastRewardTime
    PROVE  /\ T[s][v] > 0
           /\ \E r : /\ r = (K[s][v].coins * Gain(T, P, l, s, v)) \div Unit
                     /\ balance' = before - r /\ pool' = pool - r
           /\ PaidUpTo(s, v) = IF Gain(T, P, l, s, v) > 0 THEN l[v] ELSE T[s][v]
BY DEF Pays, viewStakeReward, validPercent, PaidUpTo, Gain

\* A stake or the creation of a validator: what was due is paid first, and a new
\* staker is due nothing.
LEMMA StakeCoins ==
    ASSUME CoinInv, LedgerInv, StorageInv,
           NEW s \in Stakers, NEW v \in Vals, NEW a \in Amounts,
           StakeBody(s, v, a), StakeReward(s, v, a),
           UNCHANGED <<hbIncoming, reflectionPercentSum, rewardFund>>
    PROVE  CoinInv'
<1>1. PICK K, T, P, l, p, b, h, f, z, L :
         /\ K = staked /\ T = stakeTime /\ P = reflectionPercentSum
         /\ l = lastRewardTime /\ p = pool /\ b = balance /\ h = hbIncoming
         /\ f = rewardFund /\ z = backdated /\ L = stakers[v]
  OBVIOUS
<1>2. /\ K \in Records /\ Timed(K, T, P, l) /\ Covered(K, T, P, l, p, z)
      /\ Funded(K, h, f, p, b) /\ L \in Seq(Stakers)
  BY <1>1 DEF CoinInv, LedgerInv
<1>3. a \in Nat
  BY SystemAssumption
<1>4. PICK K2 \in Records, r \in Info :
         /\ K2 = staked' /\ K2[s][v] = r /\ r.coins = K[s][v].coins + a
         /\ r.unstakeBlock = 0
         /\ \A t \in Stakers, w \in Vals : <<t, w>> # <<s, v>> => K2[t][w] = K[t][w]
  BY <1>1, <1>2, <1>3, StakeRecords
<1>5. PICK c \in Nat : c = K[s][v].coins
  BY <1>2, HeldIs
<1>6. Recorded(K, K2, s, v) /\ K2[s][v].coins = c + a /\ K2[s][v].unstakeBlock = 0
  BY <1>4, <1>5 DEF Recorded
<1>8. HeldOf(K) \in Int /\ HeldOf(K2) = HeldOf(K) + a
  <2>1. /\ HeldOf(K) \in Int
        /\ HeldOf(K2) = HeldOf(K) - K[s][v].coins + K2[s][v].coins
    BY <1>2, <1>6, HeldPoint
  <2> QED  BY <1>3, <1>5, <1>6, <2>1
<1>9. SumFunction(h) \in Nat
  <2>1. h \in [Vals -> Nat]
    BY <1>2 DEF Funded
  <2> QED  BY <2>1, CoinSums
<1>10. PICK T2, l2, p2, b2, z2 : /\ T2 = stakeTime' /\ l2 = lastRewardTime'
                                 /\ p2 = pool' /\ b2 = balance' /\ z2 = backdated'
  OBVIOUS
<1>11. p \in Int /\ b \in Int /\ f \in Nat
  BY <1>2 DEF Funded
<1>12. CASE c = 0 /\ K[s][v].index = 0
  <2>1. c = 0 /\ K[s][v].index = 0
    BY <1>12
  <2>2. /\ b2 = b + a /\ p2 = p /\ z2 = z
        /\ stakeTime' = [stakeTime EXCEPT ![s][v] = FirstStakeTime(v)]
        /\ lastRewardTime' = [lastRewardTime EXCEPT ![v] = IF @ = 0 THEN number ELSE @]
    BY <1>1, <1>5, <1>10, <2>1 DEF StakeReward
  <2>3. l \in [Vals -> 0 .. MaxNumber] /\ number \in 1 .. MaxNumber
    BY <1>2, SystemAssumption DEF Timed, StorageInv
  <2>4. PICK n \in 1 .. MaxNumber : n = number
    BY <2>3
  <2>5. PICK t : t = IF l[v] = 0 THEN n ELSE l[v]
    OBVIOUS
  <2>6. t \in 0 .. MaxNumber /\ ((l[v] = 0 /\ t = n) \/ (l[v] # 0 /\ t = l[v]))
    <3>1. l[v] \in 0 .. MaxNumber
      BY <2>3
    <3>2. n \in 0 .. MaxNumber
      BY SystemAssumption
    <3>3. CASE l[v] = 0
      <4>1. t = n
        BY <2>5, <3>3
      <4> QED  BY <3>2, <3>3, <4>1
    <3>4. CASE l[v] # 0
      <4>1. t = l[v]
        BY <2>5, <3>4
      <4> QED  BY <3>1, <3>4, <4>1
    <3> QED  BY <3>3, <3>4
  <2>7. Changed(T, T2, s, v, t)
    BY <1>1, <1>10, <2>2, <2>4, <2>5 DEF FirstStakeTime, Changed
  <2>8. l2 = [l EXCEPT ![v] = t]
    BY <1>1, <1>10, <2>2, <2>3, <2>4, <2>5
  <2>9. l2 \in [Vals -> 0 .. MaxNumber] /\ l2[v] = t /\ \A w \in Vals \ {v} : l2[w] = l[w]
    BY <2>3, <2>6, <2>8
  <2>10. Timed(K2, T2, P, l2) /\ Covered(K2, T2, P, l2, p, z)
    <3>1. (l[v] = 0 /\ t = n) \/ (l[v] # 0 /\ t = l[v])
      BY <2>6
    <3>2. Timed(K, T, P, l) /\ Covered(K, T, P, l, p, z) /\ K \in Records
      BY <1>2
    <3> QED  BY <1>6, <2>7, <2>9, <3>1, <3>2, FirstKeeps
  <2>11. Funded(K2, h, f, p, b2)
    <3>1. h \in [Vals -> Nat] /\ b >= HeldOf(K) + SumFunction(h) + f + p
      BY <1>2 DEF Funded
    <3>2. b2 \in Int /\ b2 >= HeldOf(K2) + SumFunction(h) + f + p
      BY <1>3, <1>8, <1>9, <1>11, <2>2, <3>1
    <3> QED  BY <1>11, <3>1, <3>2 DEF Funded
  <2> QED  BY <1>1, <1>4, <1>10, <2>2, <2>10, <2>11 DEF CoinInv
<1>13. CASE c = 0 /\ K[s][v].index # 0
  <2>1. /\ b2 = b + a /\ p2 = p /\ z2 = z + Credit(T, P, l, s, v, a)
        /\ T2 = T /\ l2 = l
    BY <1>1, <1>5, <1>10, <1>13 DEF StakeReward, EarnedBefore, validPercent, Credit, Gain
  <2>2. Timed(K2, T, P, l) /\ Covered(K2, T, P, l, p, z + Credit(T, P, l, s, v, a))
    <3>1. K[s][v].coins = 0 /\ K2[s][v].coins = a
      BY <1>3, <1>5, <1>6, <1>13
    <3>2. Timed(K, T, P, l) /\ Covered(K, T, P, l, p, z) /\ K \in Records
      BY <1>2
    <3>3. Recorded(K, K2, s, v) /\ K2[s][v].unstakeBlock = 0
      BY <1>6
    <3> QED  BY <1>3, <3>1, <3>2, <3>3, CreditKeeps
  <2>3. Funded(K2, h, f, p, b2)
    <3>1. h \in [Vals -> Nat] /\ b >= HeldOf(K) + SumFunction(h) + f + p
      BY <1>2 DEF Funded
    <3>2. b2 \in Int /\ b2 >= HeldOf(K2) + SumFunction(h) + f + p
      BY <1>3, <1>8, <1>9, <1>11, <2>1, <3>1
    <3> QED  BY <1>11, <3>1, <3>2 DEF Funded
  <2>4. Timed(K2, T2, P, l2) /\ Covered(K2, T2, P, l2, p2, z2)
    BY <2>1, <2>2
  <2> QED  BY <1>1, <1>4, <1>10, <2>1, <2>3, <2>4 DEF CoinInv
<1>14. CASE c # 0
  <2>1. /\ Pays(s, v, balance + a)
        /\ stakeTime' = [stakeTime EXCEPT ![s][v] = PaidUpTo(s, v)]
        /\ UNCHANGED <<lastRewardTime, backdated>>
    BY <1>1, <1>5, <1>14 DEF StakeReward
  <2>2. PICK t : t = PaidUpTo(s, v)
    OBVIOUS
  <2>3. /\ T[s][v] > 0
        /\ \E x : /\ x = (K[s][v].coins * Gain(T, P, l, s, v)) \div Unit
                  /\ balance' = (balance + a) - x /\ pool' = pool - x
        /\ PaidUpTo(s, v) = IF Gain(T, P, l, s, v) > 0 THEN l[v] ELSE T[s][v]
    BY <1>1, <2>1, PaysMeans
  <2>4. PICK x : /\ x = (K[s][v].coins * Gain(T, P, l, s, v)) \div Unit
                 /\ b2 = (b + a) - x /\ p2 = p - x
    BY <1>1, <1>10, <2>3
  <2>5. t = 0 \/ (t = (IF Gain(T, P, l, s, v) > 0 THEN l[v] ELSE T[s][v])
                  /\ K2[s][v].unstakeBlock = 0)
    BY <1>6, <2>2, <2>3
  <2>6. Changed(T, T2, s, v, t)
    BY <1>1, <1>10, <2>1, <2>2 DEF Changed
  <2>7. x \in Nat /\ Timed(K2, T2, P, l) /\ Covered(K2, T2, P, l, p - x, z)
    BY <1>2, <1>6, <2>3, <2>4, <2>5, <2>6, PayKeeps
  <2>8. Funded(K2, h, f, p2, b2)
    <3>1. h \in [Vals -> Nat] /\ b >= HeldOf(K) + SumFunction(h) + f + p
      BY <1>2 DEF Funded
    <3>2. b2 \in Int /\ p2 \in Int
      BY <1>3, <1>11, <2>4, <2>7
    <3>3. b2 >= HeldOf(K2) + SumFunction(h) + f + p2
      BY <1>3, <1>8, <1>9, <1>11, <2>4, <2>7, <3>1
    <3> QED  BY <1>11, <3>1, <3>2, <3>3 DEF Funded
  <2>9. p2 = p - x /\ l2 = l /\ z2 = z
    BY <1>1, <1>10, <2>1, <2>4
  <2>10. Covered(K2, T2, P, l2, p2, z) /\ Timed(K2, T2, P, l2)
    BY <2>7, <2>9
  <2> QED  BY <1>1, <1>4, <1>10, <2>8, <2>9, <2>10 DEF CoinInv
<1> QED  BY <1>12, <1>13, <1>14

\* withdrawStakingReward alone, and after profits were paid.
LEMMA RewardCoins ==
    ASSUME CoinInv, LedgerInv, NEW s \in Stakers, NEW v \in Vals,
           NEW g \in Nat, Pays(s, v, balance - g),
           stakeTime' = [stakeTime EXCEPT ![s][v] = PaidUpTo(s, v)],
           UNCHANGED <<staked, lastRewardTime, reflectionPercentSum, rewardFund,
                       backdated>>,
           NEW h2 \in [Vals -> Nat], h2 = hbIncoming',
           SumFunction(hbIncoming) = SumFunction(h2) + g
    PROVE  CoinInv'
<1>1. PICK K, T, P, l, p, b, h, f, z :
         /\ K = staked /\ T = stakeTime /\ P = reflectionPercentSum
         /\ l = lastRewardTime /\ p = pool /\ b = balance /\ h = hbIncoming
         /\ f = rewardFund /\ z = backdated
  OBVIOUS
<1>2. /\ K \in Records /\ Timed(K, T, P, l) /\ Covered(K, T, P, l, p, z)
      /\ Funded(K, h, f, p, b)
  BY <1>1 DEF CoinInv, LedgerInv
<1>3. PICK T2, p2, b2, t : T2 = stakeTime' /\ p2 = pool' /\ b2 = balance'
                           /\ t = PaidUpTo(s, v)
  OBVIOUS
<1>4. /\ T[s][v] > 0
      /\ \E x : /\ x = (K[s][v].coins * Gain(T, P, l, s, v)) \div Unit
                /\ balance' = (balance - g) - x /\ pool' = pool - x
      /\ PaidUpTo(s, v) = IF Gain(T, P, l, s, v) > 0 THEN l[v] ELSE T[s][v]
  BY <1>1, PaysMeans
<1>5. PICK x : /\ x = (K[s][v].coins * Gain(T, P, l, s, v)) \div Unit
               /\ b2 = (b - g) - x /\ p2 = p - x
  BY <1>1, <1>3, <1>4
<1>6. Recorded(K, K, s, v) /\ K[s][v].unstakeBlock = 0
  BY <1>2, <1>4 DEF Recorded, Timed
<1>7. t = 0 \/ (t = (IF Gain(T, P, l, s, v) > 0 THEN l[v] ELSE T[s][v])
                /\ K[s][v].unstakeBlock = 0)
  BY <1>3, <1>4, <1>6
<1>8. Changed(T, T2, s, v, t)
  BY <1>1, <1>3 DEF Changed
<1>9. x \in Nat /\ Timed(K, T2, P, l) /\ Covered(K, T2, P, l, p - x, z)
  BY <1>2, <1>4, <1>5, <1>6, <1>7, <1>8, PayKeeps
<1>10. Funded(K, h2, f, p2, b2)
  <2>1. SumFunction(h2) \in Nat
    BY CoinSums
  <2>2. HeldOf(K) \in Int
    BY <1>2, <1>6, HeldPoint
  <2>3. SumFunction(h) = SumFunction(h2) + g
    BY <1>1
  <2>4. p \in Int /\ b \in Int /\ f \in Nat /\ b >= HeldOf(K) + SumFunction(h) + f + p
    BY <1>2 DEF Funded
  <2> QED  BY <1>5, <1>9, <2>1, <2>2, <2>3, <2>4 DEF Funded
<1>11. Covered(K, T2, P, l, p2, z)
  BY <1>5, <1>9
<1> QED  BY <1>1, <1>2, <1>3, <1>9, <1>10, <1>11 DEF CoinInv

\* An unstake: the reward is paid, the coins stay held.
LEMMA UnstakeCoins ==
    ASSUME CoinInv, LedgerInv, NEW s \in Stakers, NEW v \in Vals,
           NEW block \in Nat \ {0}, unstake(s, v, block), Pays(s, v, balance),
           stakeTime' = [stakeTime EXCEPT ![s][v] = 0],
           UNCHANGED <<hbIncoming, lastRewardTime, reflectionPercentSum, rewardFund,
                       backdated>>
    PROVE  CoinInv'
<1>1. PICK K, T, P, l, p, b, h, f, z, L :
         /\ K = staked /\ T = stakeTime /\ P = reflectionPercentSum
         /\ l = lastRewardTime /\ p = pool /\ b = balance /\ h = hbIncoming
         /\ f = rewardFund /\ z = backdated /\ L = stakers[v]
  OBVIOUS
<1>2. /\ K \in Records /\ Timed(K, T, P, l) /\ Covered(K, T, P, l, p, z)
      /\ Funded(K, h, f, p, b) /\ L \in Seq(Stakers) /\ Book(L, K, v)
  BY <1>1 DEF CoinInv, LedgerInv
<1>3. PICK K2 \in Records :
         /\ K2 = staked'
         /\ K2[s][v].coins = K[s][v].coins /\ K2[s][v].unstakeBlock = block
         /\ K2[s][v].index = 0
         /\ \A t \in Stakers \ {s} :
               /\ K2[t][v].index = IF t = L[Len(L)] THEN K[s][v].index
                                                  ELSE K[t][v].index
               /\ K2[t][v].unstakeBlock = K[t][v].unstakeBlock
               /\ K2[t][v].coins = K[t][v].coins
         /\ \A t \in Stakers, w \in Vals \ {v} : K2[t][w] = K[t][w]
  BY <1>1, <1>2, UnstakeRecords
<1>4. Recorded(K, K2, s, v)
  BY <1>3 DEF Recorded
<1>6. HeldOf(K) \in Int /\ HeldOf(K2) = HeldOf(K)
  <2>1. /\ HeldOf(K) \in Int
        /\ HeldOf(K2) = HeldOf(K) - K[s][v].coins + K2[s][v].coins
    BY <1>2, <1>4, HeldPoint
  <2>2. PICK c \in Nat : c = K[s][v].coins
    BY <1>2, HeldIs
  <2> QED  BY <1>3, <2>1, <2>2
<1>7. PICK T2, p2, b2 : T2 = stakeTime' /\ p2 = pool' /\ b2 = balance'
  OBVIOUS
<1>8. /\ T[s][v] > 0
      /\ \E x : /\ x = (K[s][v].coins * Gain(T, P, l, s, v)) \div Unit
                /\ balance' = balance - x /\ pool' = pool - x
  BY <1>1, PaysMeans
<1>9. PICK x : /\ x = (K[s][v].coins * Gain(T, P, l, s, v)) \div Unit
               /\ b2 = b - x /\ p2 = p - x
  BY <1>1, <1>7, <1>8
<1>10. PICK t : t = 0
  OBVIOUS
<1>11. Changed(T, T2, s, v, t)
  BY <1>1, <1>7, <1>10 DEF Changed
<1>12. x \in Nat /\ Timed(K2, T2, P, l) /\ Covered(K2, T2, P, l, p - x, z)
  <2>1. t = 0 \/ (t = (IF Gain(T, P, l, s, v) > 0 THEN l[v] ELSE T[s][v])
                  /\ K2[s][v].unstakeBlock = 0)
    BY <1>10
  <2> QED  BY <1>2, <1>4, <1>8, <1>9, <1>11, <2>1, PayKeeps
<1>13. Covered(K2, T2, P, l, p2, z)
  BY <1>9, <1>12
<1>14. Funded(K2, h, f, p2, b2)
  <2>1. SumFunction(h) \in Nat
    BY <1>2, CoinSums DEF Funded
  <2>2. p \in Int /\ b \in Int /\ f \in Nat /\ h \in [Vals -> Nat]
        /\ b >= HeldOf(K) + SumFunction(h) + f + p
    BY <1>2 DEF Funded
  <2> QED  BY <1>6, <1>9, <1>12, <2>1, <2>2 DEF Funded
<1> QED  BY <1>1, <1>3, <1>7, <1>12, <1>13, <1>14 DEF CoinInv

\* A withdrawal: held coins leave the account.
LEMMA WithdrawCoins ==
    ASSUME CoinInv, LedgerInv, NEW s \in Stakers, NEW v \in Vals, NEW block,
           withdrawStaking(s, v, block), balance' = balance - staked[s][v].coins,
           UNCHANGED <<hbIncoming, stakeTime, lastRewardTime, reflectionPercentSum,
                       rewardFund, pool, backdated>>
    PROVE  CoinInv'
<1>1. PICK K, T, P, l, p, b, h, f, z, L :
         /\ K = staked /\ T = stakeTime /\ P = reflectionPercentSum
         /\ l = lastRewardTime /\ p = pool /\ b = balance /\ h = hbIncoming
         /\ f = rewardFund /\ z = backdated /\ L = stakers[v]
  OBVIOUS
<1>2. /\ K \in Records /\ Timed(K, T, P, l) /\ Covered(K, T, P, l, p, z)
      /\ Funded(K, h, f, p, b) /\ Book(L, K, v)
  BY <1>1 DEF CoinInv, LedgerInv
<1>3. PICK K2 \in Records, r \in Info :
         /\ K2 = staked' /\ K2[s][v] = r
         /\ r.unstakeBlock = 0 /\ r.index = K[s][v].index /\ r.coins = 0
         /\ \A t \in Stakers, w \in Vals : <<t, w>> # <<s, v>> => K2[t][w] = K[t][w]
  BY <1>1, <1>2, WithdrawRecords
<1>4. Recorded(K, K2, s, v) /\ K[s][v].unstakeBlock # 0
  BY <1>1, <1>3 DEF Recorded, withdrawStaking
<1>6. PICK c \in Nat : c = K[s][v].coins
  BY <1>2, HeldIs
<1>7. HeldOf(K) \in Int /\ HeldOf(K2) = HeldOf(K) - c
  <2>1. /\ HeldOf(K) \in Int
        /\ HeldOf(K2) = HeldOf(K) - K[s][v].coins + K2[s][v].coins
    BY <1>2, <1>4, HeldPoint
  <2> QED  BY <1>3, <1>6, <2>1
<1>8. Timed(K2, T, P, l) /\ Covered(K2, T, P, l, p, z)
  BY <1>2, <1>4, WithdrawKeepsDue
<1>9. PICK b2 : b2 = balance' /\ b2 = b - c
  BY <1>1, <1>6
<1>10. Funded(K2, h, f, p, b2)
  <2>1. SumFunction(h) \in Nat
    BY <1>2, CoinSums DEF Funded
  <2>2. p \in Int /\ b \in Int /\ f \in Nat /\ h \in [Vals -> Nat]
        /\ b >= HeldOf(K) + SumFunction(h) + f + p
    BY <1>2 DEF Funded
  <2> QED  BY <1>7, <1>9, <2>1, <2>2 DEF Funded
<1> QED  BY <1>1, <1>3, <1>8, <1>9, <1>10 DEF CoinInv

\* The parts of a fee do not exceed it.
LEMMA FeeSplit ==
    ASSUME NEW fee \in Nat, NEW part, NEW owner,
           part = (fee * validatorPartPercent) \div Whole,
           owner = (fee * creatorPartPercent) \div Whole
    PROVE  part \in Nat /\ owner \in Nat /\ fee - part - owner \in Nat
<1>1. PICK x \in Nat, y \in Nat : x = validatorPartPercent /\ y = creatorPartPercent
                                  /\ x + y <= Whole
  BY RewardsAssumption
<1>2. PICK i \in Nat, j \in Nat : i = fee * x /\ j = fee * y
  BY TimesNat
<1>3. part \in Nat /\ Whole * part <= i /\ owner \in Nat /\ Whole * owner <= j
  BY <1>1, <1>2, RewardsAssumption, DivNat, DivLeq
<1>4. Whole * (part + owner) <= Whole * fee
  <2>1. Whole \in Int
    BY RewardsAssumption
  <2>2. Whole * (part + owner) = Whole * part + Whole * owner
        /\ Whole * part \in Int /\ Whole * owner \in Int
    BY <1>3, <2>1, TimesPlus
  <2>3. fee * (x + y) = i + j
    BY <1>2, TimesPlus
  <2>4. fee * (x + y) <= fee * Whole /\ fee * Whole = Whole * fee /\ fee * Whole \in Int
    BY <1>1, <2>1, TimesLeq, TimesPlus
  <2> QED  BY <1>2, <1>3, <2>2, <2>3, <2>4
<1>5. part + owner <= fee
  BY <1>3, <1>4, RewardsAssumption, TimesCancel
<1> QED  BY <1>3, <1>5

\* distributeBlockReward: the fee less the owner's part is split into the profits
\* and what becomes due, and the extra reward is taken from the fund.
LEMMA DistributeCoins ==
    ASSUME CoinInv, LedgerInv, StorageInv, number < MaxNumber,
           NEW m \in Vals, NEW fee \in Nat, NEW income \in [Vals -> Nat],
           SumFunction(income) <= SumFunction(hbIncoming),
           NEW last \in Lasts(Eligible(status', 0)),
           distributeBlockReward(m, fee, income, last),
           UNCHANGED <<staked, stakeTime, backdated>>
    PROVE  CoinInv'
<1>1. PICK K, T, P, l, p, b, h, f, z, c, n :
         /\ K = staked /\ T = stakeTime /\ P = reflectionPercentSum
         /\ l = lastRewardTime /\ p = pool /\ b = balance /\ h = hbIncoming
         /\ f = rewardFund /\ z = backdated /\ c = coins[m] /\ n = number
  OBVIOUS
<1>2. /\ K \in Records /\ Timed(K, T, P, l) /\ Covered(K, T, P, l, p, z)
      /\ Funded(K, h, f, p, b)
      /\ coins \in [Vals -> Nat] /\ c \in Nat /\ c = ActiveSum(K, m)
  BY <1>1 DEF CoinInv, LedgerInv
<1>3. PICK part, owner : /\ part = (fee * validatorPartPercent) \div Whole
                         /\ owner = (fee * creatorPartPercent) \div Whole
  OBVIOUS
<1>4. PICK rest \in Nat : /\ rest = fee - part - owner
                          /\ part \in Nat /\ owner \in Nat
  BY <1>3, FeeSplit
<1>5. PICK extra : extra = IF /\ rewardFund >= extraRewardsPerBlock
                              /\ balance + fee - owner > extraRewardsPerBlock
                           THEN extraRewardsPerBlock ELSE 0
  OBVIOUS
<1>6. p \in Int /\ b \in Int /\ f \in Nat /\ h \in [Vals -> Nat]
      /\ b >= HeldOf(K) + SumFunction(h) + f + p
  BY <1>2 DEF Funded
<1>7. extra \in Nat /\ f - extra \in Nat
  BY <1>1, <1>5, <1>6, RewardsAssumption
<1>8. PICK q \in Nat, o \in Nat : /\ q = IF c > 0 THEN rest ELSE 0
                                  /\ o = IF c > 0 THEN 0 ELSE rest
                                  /\ q + o = rest
  BY <1>2
<1>9. PICK total \in Nat : total = part + extra + o
  BY <1>4, <1>7, <1>8
<1>10. PICK x : x = P[m][l[m]]
  OBVIOUS
<1>11. x \in Nat
  BY <1>2, <1>10 DEF Timed
<1>12. PICK d \in Nat : /\ d * c <= q * Unit
                        /\ d = IF c > 0 THEN (rest * Unit) \div c ELSE 0
  <2>1. CASE c > 0
    <3>1. PICK y \in Nat : y = rest * Unit
      BY RewardsAssumption, TimesNat
    <3>2. PICK e \in Nat : e = y \div c /\ c * e <= y
      BY <1>2, <2>1, DivNat, DivLeq
    <3>3. e * c = c * e
      BY <1>2, TimesPlus
    <3> QED  BY <1>8, <2>1, <3>1, <3>2, <3>3
  <2>2. CASE ~ (c > 0)
    <3>1. 0 * c = 0 /\ 0 * Unit = 0 /\ q = 0
      BY <1>2, <1>8, <2>2, RewardsAssumption
    <3> QED  BY <2>2, <3>1
  <2> QED  BY <2>1, <2>2
<1>13. PICK l2, P2, p2, b2, h2, f2 :
         /\ l2 = lastRewardTime' /\ P2 = reflectionPercentSum' /\ p2 = pool'
         /\ b2 = balance' /\ h2 = hbIncoming' /\ f2 = rewardFund'
  OBVIOUS
<1>14. PICK S : S = Eligible(status', 0) /\ S \subseteq Vals
  BY DEF Eligible, StorageInv
<1>15. /\ b2 = b + fee - owner
       /\ l2 = [l EXCEPT ![m] = n]
       /\ P2 = [P EXCEPT ![m][n] = IF c > 0 THEN x + (rest * Unit) \div c ELSE x]
       /\ p2 = p + q
       /\ f2 = f - extra
       /\ h2 = addProfitsToActiveValidatorsByStakePercentExcept(
                   income, S, part + extra + (IF c > 0 THEN 0 ELSE rest), last)
  BY <1>1, <1>3, <1>4, <1>5, <1>8, <1>10, <1>13, <1>14
  DEF distributeBlockReward, FundLeft
<1>16. h2 = addProfitsToActiveValidatorsByStakePercentExcept(income, S, total, last)
  BY <1>8, <1>9, <1>15
<1>17. /\ h2 \in [Vals -> Nat]
       /\ SumFunction(h2) = SumFunction(income) + IF S = {} THEN 0 ELSE total
  <2>1. last \in Lasts(S)
    BY <1>14
  <2> QED  BY <1>2, <1>14, <1>16, <2>1, SharedSum
<1>18. SumFunction(income) \in Nat /\ SumFunction(h) \in Nat /\ HeldOf(K) \in Int
       /\ SumFunction(income) <= SumFunction(h)
  <2>1. HeldOf(K) \in Int
    BY <1>2, HeldIs, TableSumIs
  <2> QED  BY <1>1, <1>6, <2>1, CoinSums
<1>19. Funded(K, h2, f2, p2, b2)
  <2>1. SumFunction(h2) \in Int /\ SumFunction(h2) <= SumFunction(h) + part + extra + o
    BY <1>4, <1>7, <1>8, <1>9, <1>17, <1>18
  <2>2. b2 \in Int /\ p2 \in Int /\ f2 \in Nat
    BY <1>4, <1>6, <1>7, <1>15
  <2>3. b2 >= HeldOf(K) + SumFunction(h2) + f2 + p2
    BY <1>4, <1>6, <1>7, <1>8, <1>15, <1>18, <2>1
  <2> QED  BY <1>17, <2>2, <2>3 DEF Funded
<1>20. Raised(P, P2, l, l2, m, n, d)
  <2>1. (IF c > 0 THEN x + (rest * Unit) \div c ELSE x) = x + d
    <3>1. CASE c > 0
      BY <1>12, <3>1
    <3>2. CASE ~ (c > 0)
      BY <1>11, <1>12, <3>2
    <3> QED  BY <3>1, <3>2
  <2> QED  BY <1>10, <1>15, <2>1 DEF Raised
<1>21. n \in 1 .. MaxNumber
  BY <1>1, SystemAssumption DEF StorageInv
<1>22. Timed(K, T, P2, l2) /\ Covered(K, T, P2, l2, p + q, z)
  <2>1. d * ActiveSum(K, m) <= q * Unit
    BY <1>2, <1>12
  <2> QED  BY <1>2, <1>20, <1>21, <2>1, RewardKeeps
<1>23. Covered(K, T, P2, l2, p2, z)
  BY <1>15, <1>22
<1> QED  BY <1>1, <1>2, <1>13, <1>19, <1>22, <1>23 DEF CoinInv

\* The end of a block, whether or not the fee arrives.
LEMMA FinalizeCoins ==
    ASSUME CoinInv, LedgerInv, StorageInv, AllInv,
           NEW missed \in BOOLEAN, NEW m \in signers, NEW fee \in Fees,
           CoinFinalize(missed, m, fee)
    PROVE  CoinInv'
<1>1. PICK v : v = outTurnValidator
  OBVIOUS
<1>2. v \in Vals /\ m \in Vals /\ fee \in Nat
  BY <1>1, OutTurnIsSigner, RewardsAssumption DEF AllInv, EngineInv
<1>3. PICK first \in Lasts(Eligible(status, v)), last \in Lasts(Eligible(status', 0)) :
         trySendBlockReward(m, fee,
             IF missed /\ takesIncome(v) THEN tryRemoveValidatorIncoming(v, first)
                                         ELSE hbIncoming,
             last)
  BY <1>1 DEF CoinFinalize
<1>4. PICK income : income = IF missed /\ takesIncome(v)
                             THEN tryRemoveValidatorIncoming(v, first) ELSE hbIncoming
  OBVIOUS
<1>5. trySendBlockReward(m, fee, income, last)
  BY <1>3, <1>4
<1>6. number < MaxNumber /\ UNCHANGED <<staked, stakeTime, backdated>>
  BY DEF CoinFinalize, Finalize
<1>7. hbIncoming \in [Vals -> Nat] /\ coins \in [Vals -> Nat] /\ currentValidatorSet \subseteq Vals
  BY DEF CoinInv, Funded, LedgerInv, StorageInv
<1>8. income \in [Vals -> Nat] /\ SumFunction(income) <= SumFunction(hbIncoming)
  <2>1. CASE missed /\ takesIncome(v)
    <3>1. income = tryRemoveValidatorIncoming(v, first)
      BY <1>4, <2>1
    <3> QED  BY <1>2, <1>7, <3>1, ConfiscatedSum
  <2>2. CASE ~ (missed /\ takesIncome(v))
    <3>1. income = hbIncoming
      BY <1>4, <2>2
    <3>2. SumFunction(income) \in Nat
      BY <1>2, <1>7, <3>1, CoinSums
    <3> QED  BY <1>7, <3>1, <3>2
  <2> QED  BY <2>1, <2>2
<1>9. CASE fee > 0 /\ Cardinality(currentValidatorSet) <= MAX_REWARD_VALIDATORS
  <2>1. distributeBlockReward(m, fee, income, last)
    BY <1>5, <1>9 DEF trySendBlockReward
  <2> QED  BY <1>2, <1>6, <1>8, <2>1, DistributeCoins
<1>10. CASE ~ (fee > 0 /\ Cardinality(currentValidatorSet) <= MAX_REWARD_VALIDATORS)
  <2>1. /\ hbIncoming' = income
        /\ UNCHANGED <<balance, lastRewardTime, reflectionPercentSum, pool, rewardFund>>
    BY <1>5, <1>10 DEF trySendBlockReward
  <2>2. PICK K, p, b, h, f : /\ K = staked /\ p = pool /\ b = balance /\ h = hbIncoming
                             /\ f = rewardFund
    OBVIOUS
  <2>3. Funded(K, h, f, p, b) /\ K \in Records
    BY <2>2 DEF CoinInv, LedgerInv
  <2>4. HeldOf(K) \in Int
    BY <2>3, HeldIs, TableSumIs
  <2>5. SumFunction(income) \in Nat /\ SumFunction(h) \in Nat
        /\ SumFunction(income) <= SumFunction(h)
    BY <1>2, <1>7, <1>8, <2>2, CoinSums
  <2>6. Funded(K, income, f, p, b)
    BY <1>8, <2>3, <2>4, <2>5 DEF Funded
  <2> QED  BY <1>6, <2>1, <2>2, <2>6 DEF CoinInv
<1> QED  BY <1>9, <1>10

\* A value that arrives without a call, and any step that moves no coins.
LEMMA ReceivedCoins ==
    ASSUME CoinInv, LedgerInv, NEW g \in Nat, NEW e \in {0, g},
           balance' = balance + g, rewardFund' = rewardFund + e,
           UNCHANGED <<staked, hbIncoming, stakeTime, lastRewardTime,
                       reflectionPercentSum, pool, backdated>>
    PROVE  CoinInv'
<1>1. PICK K, p, b, h, f : /\ K = staked /\ p = pool /\ b = balance /\ h = hbIncoming
                           /\ f = rewardFund
  OBVIOUS
<1>2. Funded(K, h, f, p, b) /\ K \in Records
  BY <1>1 DEF CoinInv, LedgerInv
<1>3. HeldOf(K) \in Int
  BY <1>2, HeldIs, TableSumIs
<1>4. SumFunction(h) \in Nat
  <2>1. SumFunctionOnSet(h, Vals) \in Nat
    BY <1>2, AddressAssumption, SumNat DEF Funded
  <2> QED  BY <1>2, <2>1 DEF Funded, SumFunction
<1>5. Funded(K, h, f + e, p, b + g)
  BY <1>2, <1>3, <1>4 DEF Funded
<1> QED  BY <1>1, <1>5 DEF CoinInv

LEMMA CoinInvStep ==
    ASSUME CoinInv, LedgerInv, StorageInv, AllInv,
           [CoinNext]_allVars
    PROVE  CoinInv'
<1>1. ASSUME NEW s \in Stakers, NEW v \in Vals, NEW a \in Amounts, CoinStake(s, v, a)
      PROVE  CoinInv'
  <2>1. StakeBody(s, v, a) /\ StakeReward(s, v, a)
        /\ UNCHANGED <<hbIncoming, reflectionPercentSum, rewardFund>>
    BY <1>1 DEF CoinStake, Stake, stake
  <2> QED  BY <2>1, StakeCoins
<1>2. ASSUME NEW v \in Vals \cap Stakers, NEW f \in FeeAddrs, NEW a \in Amounts,
             CoinCreateValidator(v, f, a)
      PROVE  CoinInv'
  <2>1. StakeBody(v, v, a) /\ StakeReward(v, v, a)
        /\ UNCHANGED <<hbIncoming, reflectionPercentSum, rewardFund>>
    BY <1>2 DEF CoinCreateValidator, CreateValidator, createOrEditValidator
  <2>2. v \in Vals /\ v \in Stakers
    OBVIOUS
  <2> QED  BY <2>1, <2>2, StakeCoins
<1>3. ASSUME NEW v \in Vals, NEW f \in FeeAddrs, NEW g \in Gifts \cup {0},
             EditValidator(v, f, g)
      PROVE  CoinInv'
  <2>1. g \in Nat /\ 0 \in {0, g} /\ rewardFund \in Nat
    BY RewardsAssumption DEF CoinInv, Funded
  <2>2. balance' = balance + g /\ rewardFund' = rewardFund + 0
        /\ UNCHANGED <<staked, hbIncoming, stakeTime, lastRewardTime,
                       reflectionPercentSum, pool, backdated>>
    BY <1>3, <2>1 DEF EditValidator, vars, validatorsVars
  <2> QED  BY <2>1, <2>2, ReceivedCoins
<1>4. ASSUME NEW s \in Stakers, NEW v \in Vals, CoinUnstake(s, v)
      PROVE  CoinInv'
  <2>1. PICK n \in Nat \ {0} : n = number
    BY DEF AllInv, EngineInv
  <2>2. unstake(s, v, n)
    BY <1>4, <2>1 DEF CoinUnstake, Unstake
  <2>3. Pays(s, v, balance) /\ stakeTime' = [stakeTime EXCEPT ![s][v] = 0]
        /\ UNCHANGED <<hbIncoming, lastRewardTime, reflectionPercentSum, rewardFund,
                       backdated>>
    BY <1>4 DEF CoinUnstake
  <2> QED  BY <2>2, <2>3, UnstakeCoins
<1>5. ASSUME NEW s \in Stakers, NEW v \in Vals, CoinWithdrawStaking(s, v)
      PROVE  CoinInv'
  <2>1. withdrawStaking(s, v, number) /\ balance' = balance - staked[s][v].coins
        /\ UNCHANGED <<hbIncoming, stakeTime, lastRewardTime, reflectionPercentSum,
                       rewardFund, pool, backdated>>
    BY <1>5 DEF CoinWithdrawStaking, WithdrawStaking
  <2> QED  BY <2>1, WithdrawCoins
<1>6. ASSUME NEW s \in Stakers, NEW v \in Vals, withdrawStakingReward(s, v)
      PROVE  CoinInv'
  <2>1. hbIncoming \in [Vals -> Nat] /\ balance \in Int
    BY DEF CoinInv, Funded
  <2>2. PICK h \in [Vals -> Nat] : h = hbIncoming
    BY <2>1
  <2>3. SumFunction(h) = SumFunction(h) + 0
    BY CoinSums
  <2>4. balance = balance - 0
    BY <2>1
  <2>5. Pays(s, v, balance - 0)
    BY <1>6, <2>4 DEF withdrawStakingReward
  <2>6. stakeTime' = [stakeTime EXCEPT ![s][v] = PaidUpTo(s, v)]
        /\ UNCHANGED <<staked, lastRewardTime, reflectionPercentSum, rewardFund,
                       backdated>>
        /\ h = hbIncoming'
    BY <1>6, <2>2 DEF withdrawStakingReward, vars, validatorsVars
  <2>7. SumFunction(hbIncoming) = SumFunction(h) + 0
    BY <2>2, <2>3
  <2> QED  BY <2>5, <2>6, <2>7, RewardCoins
<1>7. ASSUME NEW v \in Vals, withdrawProfits(v)
      PROVE  CoinInv'
  <2>1. PICK s \in Stakers : s = feeAddr[v]
    BY <1>7 DEF withdrawProfits
  <2>2. PICK h \in [Vals -> Nat] : h = hbIncoming
    BY DEF CoinInv, Funded
  <2>3. PICK g \in Nat : g = h[v]
    OBVIOUS
  <2>4. PICK h2 : h2 = hbIncoming' /\ h2 = [h EXCEPT ![v] = 0]
    BY <1>7, <2>2 DEF withdrawProfits
  <2>5. h2 \in [Vals -> Nat] /\ h2[v] = 0 /\ \A w \in Vals \ {v} : h2[w] = h[w]
    BY <2>4
  <2>6. SumFunction(h) \in Nat /\ SumFunction(h2) \in Nat
        /\ SumFunction(h2) = SumFunction(h) - h[v] + h2[v]
    BY <2>5, CoinSums
  <2>7. SumFunction(hbIncoming) = SumFunction(h2) + g
    BY <2>2, <2>3, <2>5, <2>6
  <2>8. Pays(s, v, balance - g)
        /\ stakeTime' = [stakeTime EXCEPT ![s][v] = PaidUpTo(s, v)]
        /\ UNCHANGED <<staked, lastRewardTime, reflectionPercentSum, rewardFund,
                       backdated>>
    BY <1>7, <2>1, <2>2, <2>3 DEF withdrawProfits, vars, validatorsVars
  <2> QED  BY <2>4, <2>5, <2>7, <2>8, RewardCoins
<1>8. ASSUME NEW g \in Gifts, Receive(g)
      PROVE  CoinInv'
  <2>1. g \in Nat
    BY RewardsAssumption
  <2>2. balance' = balance + g /\ rewardFund' = rewardFund + g
        /\ UNCHANGED <<staked, hbIncoming, stakeTime, lastRewardTime,
                       reflectionPercentSum, pool, backdated>>
    BY <1>8 DEF Receive, vars, validatorsVars
  <2> QED  BY <2>1, <2>2, ReceivedCoins
<1>9. ASSUME UNCHANGED <<staked, coinVars>>
      PROVE  CoinInv'
  BY <1>9 DEF coinVars, CoinInv
<1>10. ASSUME NEW v \in Vals, NEW id \in Ids, CreateProposal(v, id), UNCHANGED coinVars
       PROVE  CoinInv'
  BY <1>9, <1>10 DEF CreateProposal, validatorsVars
<1>11. ASSUME NEW v \in Vals, NEW id \in Ids, NEW auth \in BOOLEAN,
              VoteProposal(v, id, auth), UNCHANGED coinVars
       PROVE  CoinInv'
  BY <1>9, <1>11 DEF VoteProposal
<1>12. ASSUME NEW missed \in BOOLEAN, NEW m \in signers, NEW f \in Fees,
              CoinFinalize(missed, m, f)
       PROVE  CoinInv'
  BY <1>12, FinalizeCoins
<1>13. ASSUME UNCHANGED <<vars, coinVars>>
       PROVE  CoinInv'
  BY <1>9, <1>13 DEF vars, validatorsVars
<1> QED
  BY <1>1, <1>2, <1>3, <1>4, <1>5, <1>6, <1>7, <1>8, <1>10, <1>11, <1>12, <1>13
  DEF CoinNext, Bounded, allVars

LEMMA CoinInvariance == CoinSpec => [](CoinInv /\ LedgerInv)
<1>1. CoinInit => CoinInv
  BY CoinInvInit
<1>2. CoinInv /\ LedgerInv /\ StorageInv /\ AllInv /\ [CoinNext]_allVars => CoinInv'
  BY CoinInvStep
<1>3. CoinSpec => [](LedgerInv /\ StorageInv /\ AllInv)
  BY CoinsRefineContracts, LedgerInvariance, StorageInvariance, AllInvariance, PTL
<1> QED  BY <1>1, <1>2, <1>3, PTL DEF CoinSpec

\* The stakers together can never withdraw more than the stakers' parts of the
\* fees and what stakes after a stake of zero were credited with for the time
\* before them, whatever is rounded, staked again, withdrawn or confiscated, and
\* whenever a stake begins.
THEOREM StakersPartHolds == CoinSpec => []StakersPart
<1>1. CoinInv /\ LedgerInv => StakersPart
  BY CoinInvMeans
<1> QED  BY <1>1, CoinInvariance, PTL

\* The contract can always pay everybody at once, all stakes, all profits, all
\* rewards and its fund, but for what stakes after a stake of zero were credited
\* with for the time before them.
THEOREM AlwaysSolvent == CoinSpec => []Solvent
<1>1. CoinInv /\ LedgerInv => Solvent
  BY CoinInvMeans
<1> QED  BY <1>1, CoinInvariance, PTL

=============================================================================
