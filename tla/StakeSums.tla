------------------------------ MODULE StakeSums ------------------------------
(***************************************************************************)
(* Sums of stake over finite sets of validators, and what a proof needs to *)
(* know of them.  The models sum with MapThenSumSet of the community       *)
(* modules, which takes the elements in the order of a CHOOSE; the lemmas  *)
(* show that the order does not matter.                                    *)
(*                                                                         *)
(* Induction is stated over a set of good sets, not over a predicate, so   *)
(* that it can be applied to any property.                                 *)
(***************************************************************************)
EXTENDS Integers, FiniteSets, FiniteSetsExt, FiniteSetTheorems, WellFoundedInduction, TLAPS

\* A leaf goes to the SMT solver unless it names another prover.
USE SMTT(60), Z3T(60)

\* The sum of the amounts f over S.
SumOver(f, S) == MapThenSumSet(LAMBDA x : f[x], S)

Pick(s) == CHOOSE x \in s : TRUE

\* g is the fold behind SumOver(f, S).
Folds(f, S, g) ==
    g = [s \in SUBSET S |-> IF s = {} THEN 0 ELSE f[Pick(s)] + g[s \ {Pick(s)}]]

-----------------------------------------------------------------------------
\* A family of sets that has T whenever it has every smaller part of T has every part of a
\* finite set.
LEMMA SubsetInduction ==
    ASSUME NEW S, IsFiniteSet(S), NEW G,
           \A T \in SUBSET S : (\A U \in SUBSET T : U # T => U \in G) => T \in G
    PROVE  \A T \in SUBSET S : T \in G
<1> DEFINE B == {T \in SUBSET S : T \notin G}
<1>1. SUFFICES ASSUME B # {}
               PROVE  FALSE
  OBVIOUS
<1>2. IsWellFoundedOn(StrictSubsetOrdering(S), SUBSET S)
  BY FS_StrictSubsetOrderingWellFounded, FS_FiniteSubsetsOfFinite, ZenonT(60)
<1>a. B \subseteq SUBSET S
  OBVIOUS
<1> HIDE DEF B
<1>3. PICK T \in B : \A U \in B : ~(<<U, T>> \in StrictSubsetOrdering(S))
  BY <1>1, <1>2, <1>a, WFMin
<1>4. \A U \in SUBSET T : U # T => U \in G
  <2>1. SUFFICES ASSUME NEW U \in SUBSET T, U # T, U \notin G
                 PROVE  FALSE
    OBVIOUS
  <2>2. U \in B /\ T \in SUBSET S
    BY <1>a, <2>1 DEF B
  <2>3. <<U, T>> \in StrictSubsetOrdering(S)
    BY <2>1, <2>2 DEF StrictSubsetOrdering
  <2> QED
    BY <1>3, <2>2, <2>3
<1> QED
  BY <1>4 DEF B

\* A set with 0 that is closed under successor has every natural number.
LEMMA SetInduction ==
    ASSUME NEW G, 0 \in G, \A n \in Nat : n \in G => n + 1 \in G
    PROVE  \A n \in Nat : n \in G
<1> DEFINE B == {n \in Nat : n \notin G}
<1>1. SUFFICES ASSUME B # {}
               PROVE  FALSE
  OBVIOUS
<1>a. B \subseteq Nat
  OBVIOUS
<1> HIDE DEF B
<1>2. PICK n \in B : \A m \in B : ~(<<m, n>> \in OpToRel(<, Nat))
  BY <1>1, <1>a, WFMin, NatLessThanWellFounded, ZenonT(60)
<1>3. \A m \in B : ~(m < n)
  BY <1>a, <1>2, ZenonT(60) DEF OpToRel
<1>4. n \in Nat /\ n # 0 /\ n - 1 \in Nat
  BY <1>a DEF B
<1>5. n - 1 \notin B
  BY <1>3, <1>4
<1> QED
  BY <1>4, <1>5 DEF B

-----------------------------------------------------------------------------
LEMMA PickIn == ASSUME NEW s, s # {} PROVE Pick(s) \in s
  BY DEF Pick

\* What the fold gives for one part.
LEMMA FoldsAt ==
    ASSUME NEW f, NEW S, NEW g, Folds(f, S, g), NEW s \in SUBSET S
    PROVE  g[s] = IF s = {} THEN 0 ELSE f[Pick(s)] + g[s \ {Pick(s)}]
<1>1. g = [t \in SUBSET S |-> IF t = {} THEN 0 ELSE f[Pick(t)] + g[t \ {Pick(t)}]]
  BY ZenonT(60) DEF Folds
<1>2. [t \in SUBSET S |-> IF t = {} THEN 0 ELSE f[Pick(t)] + g[t \ {Pick(t)}]][s]
        = IF s = {} THEN 0 ELSE f[Pick(s)] + g[s \ {Pick(s)}]
  OBVIOUS
<1> QED
  BY <1>1, <1>2, ZenonT(60)

\* Two folds agree where both are defined.
LEMMA FoldsAgree ==
    ASSUME NEW f, NEW S, NEW U, NEW g, NEW h, Folds(f, S, g), Folds(f, U, h),
           NEW T \in SUBSET (S \cap U), IsFiniteSet(T)
    PROVE  g[T] = h[T]
<1> DEFINE G == {s \in SUBSET T : g[s] = h[s]}
<1>1. ASSUME NEW s \in SUBSET T, \A u \in SUBSET s : u # s => u \in G
      PROVE  s \in G
  <2>1. s \in SUBSET S /\ s \in SUBSET U
    OBVIOUS
  <2>2. g[s] = IF s = {} THEN 0 ELSE f[Pick(s)] + g[s \ {Pick(s)}]
    BY <2>1, FoldsAt
  <2>3. h[s] = IF s = {} THEN 0 ELSE f[Pick(s)] + h[s \ {Pick(s)}]
    BY <2>1, FoldsAt
  <2>4. CASE s = {}
    BY <2>2, <2>3, <2>4
  <2>5. CASE s # {}
    <3>1. s \ {Pick(s)} \in SUBSET s /\ s \ {Pick(s)} # s
      BY <2>5, PickIn
    <3>2. g[s \ {Pick(s)}] = h[s \ {Pick(s)}]
      BY <1>1, <3>1
    <3> QED
      BY <2>2, <2>3, <2>5, <3>2
  <2> QED
    BY <2>4, <2>5
<1> HIDE DEF G
<1>2. T \in G
  BY <1>1, SubsetInduction
<1> QED
  BY <1>2 DEF G

\* The fold exists.
LEMMA FoldsExist ==
    ASSUME NEW S, IsFiniteSet(S), NEW f, \A x \in S : f[x] \in Nat
    PROVE  \E g \in [SUBSET S -> Nat] : Folds(f, S, g)
<1> DEFINE G == {T \in SUBSET S : \E g \in [SUBSET T -> Nat] : Folds(f, T, g)}
<1>1. ASSUME NEW T \in SUBSET S, \A U \in SUBSET T : U # T => U \in G
      PROVE  T \in G
  <2> DEFINE H == [u \in SUBSET T |-> CHOOSE g \in [SUBSET u -> Nat] : Folds(f, u, g)]
  <2> DEFINE k == [s \in SUBSET T |->
                     IF s = {} THEN 0 ELSE f[Pick(s)] + H[s \ {Pick(s)}][s \ {Pick(s)}]]
  <2>1. \A u \in SUBSET T : u # T => H[u] \in [SUBSET u -> Nat] /\ Folds(f, u, H[u])
    BY <1>1, ZenonT(60)
  <2> HIDE DEF H, G
  <2>2. \A s \in SUBSET T : s # {} => /\ s \ {Pick(s)} \in SUBSET T
                                      /\ s \ {Pick(s)} # T
                                      /\ Pick(s) \in S
    BY PickIn
  <2>3. k \in [SUBSET T -> Nat]
    <3>1. ASSUME NEW s \in SUBSET T, s # {}
          PROVE  f[Pick(s)] \in Nat /\ H[s \ {Pick(s)}][s \ {Pick(s)}] \in Nat
      <4> DEFINE w == s \ {Pick(s)}
      <4>1. w \in SUBSET T /\ w # T /\ Pick(s) \in S
        BY <2>2, <3>1
      <4>2. H[w] \in [SUBSET w -> Nat] /\ w \in SUBSET w
        BY <2>1, <4>1, ZenonT(60)
      <4> QED
        BY <4>1, <4>2, ZenonT(60)
    <3>2. ASSUME NEW s \in SUBSET T
          PROVE  (IF s = {} THEN 0 ELSE f[Pick(s)] + H[s \ {Pick(s)}][s \ {Pick(s)}]) \in Nat
      <4>1. CASE s = {}
        BY <4>1
      <4>2. CASE s # {}
        BY <3>1, <4>2
      <4> QED
        BY <4>1, <4>2
    <3> QED
      BY <3>2, ZenonT(60)
  <2>4. \A u \in SUBSET T : u # T => k[u] = H[u][u]
    <3>1. SUFFICES ASSUME NEW u \in SUBSET T, u # T
                   PROVE  k[u] = H[u][u]
      BY ZenonT(60)
    <3>2. H[u][u] = IF u = {} THEN 0 ELSE f[Pick(u)] + H[u][u \ {Pick(u)}]
      <4>1. Folds(f, u, H[u]) /\ u \in SUBSET u
        BY <2>1, <3>1, ZenonT(60)
      <4> QED
        BY <4>1, FoldsAt
    <3>3. CASE u = {}
      BY <3>2, <3>3
    <3>4. CASE u # {}
      <4> DEFINE w == u \ {Pick(u)}
      <4>1. w \in SUBSET T /\ w # T
        BY <2>2, <3>4
      <4>2. IsFiniteSet(w)
        BY FS_Subset, <4>1
      <4>3. H[u][w] = H[w][w]
        <5>1. Folds(f, u, H[u]) /\ Folds(f, w, H[w])
          BY <2>1, <3>1, <4>1, ZenonT(60)
        <5>2. w \in SUBSET (u \cap w)
          OBVIOUS
        <5> HIDE DEF w
        <5> QED
          BY <4>2, <5>1, <5>2, FoldsAgree
      <4>4. k[u] = f[Pick(u)] + H[w][w]
        BY <3>4
      <4> QED
        BY <3>2, <3>4, <4>3, <4>4
    <3> QED
      BY <3>3, <3>4
  <2>5. Folds(f, T, k)
    <3>1. \A s \in SUBSET T :
             k[s] = IF s = {} THEN 0 ELSE f[Pick(s)] + k[s \ {Pick(s)}]
      BY <2>2, <2>4, ZenonT(60)
    <3>2. k = [s \in SUBSET T |-> k[s]]
      BY <2>3
    <3> HIDE DEF k
    <3> QED
      BY <3>1, <3>2, ZenonT(60) DEF Folds
  <2> QED
    BY <2>3, <2>5, ZenonT(60) DEF G
<1> HIDE DEF G
<1>2. S \in G
  BY <1>1, SubsetInduction
<1> QED
  BY <1>2, ZenonT(60) DEF G

\* SumOver is the fold's last value.
LEMMA SumFolds ==
    ASSUME NEW S, IsFiniteSet(S), NEW f, \A x \in S : f[x] \in Nat
    PROVE  \E g \in [SUBSET S -> Nat] : Folds(f, S, g) /\ SumOver(f, S) = g[S]
<1> DEFINE F == CHOOSE g : Folds(f, S, g)
<1>1. SumOver(f, S) = F[S]
  BY DEF SumOver, MapThenSumSet, MapThenFoldSet, Folds, Pick
<1>2. PICK g \in [SUBSET S -> Nat] : Folds(f, S, g)
  BY FoldsExist, ZenonT(60)
<1>3. Folds(f, S, F)
  BY <1>2
<1>4. F = g
  <2>1. \A s \in SUBSET S : F[s] = g[s]
    <3>1. \A s \in SUBSET S : s \in SUBSET (S \cap S) /\ IsFiniteSet(s)
      BY FS_Subset
    <3> HIDE DEF F
    <3> QED
      BY <1>2, <1>3, <3>1, FoldsAgree
  <2>2. F = [s \in SUBSET S |-> F[s]] /\ g = [s \in SUBSET S |-> g[s]]
    <3> HIDE DEF F
    <3> QED
      BY <1>2, <1>3 DEF Folds
  <2> HIDE DEF F
  <2> QED
    BY <2>1, <2>2, ZenonT(60)
<1> HIDE DEF F
<1> QED
  BY <1>1, <1>2, <1>3, <1>4

\* So is the last value of any other function that folds like it.
LEMMA SumAnyFold ==
    ASSUME NEW S, IsFiniteSet(S), NEW f, \A x \in S : f[x] \in Nat, NEW F, Folds(f, S, F)
    PROVE  F[S] = SumOver(f, S)
<1>1. PICK g \in [SUBSET S -> Nat] : Folds(f, S, g) /\ SumOver(f, S) = g[S]
  BY SumFolds, ZenonT(60)
<1>2. S \in SUBSET (S \cap S)
  OBVIOUS
<1> QED
  BY <1>1, <1>2, FoldsAgree

-----------------------------------------------------------------------------
LEMMA SumEmpty == ASSUME NEW f PROVE SumOver(f, {}) = 0
<1>1. IsFiniteSet({}) /\ \A x \in {} : f[x] \in Nat
  BY FS_EmptySet
<1>2. PICK g \in [SUBSET {} -> Nat] : Folds(f, {}, g) /\ SumOver(f, {}) = g[{}]
  BY <1>1, SumFolds, ZenonT(60)
<1>3. {} \in SUBSET {}
  OBVIOUS
<1> QED
  BY <1>2, <1>3, FoldsAt, ZenonT(60)

LEMMA SumType ==
    ASSUME NEW S, IsFiniteSet(S), NEW f, \A x \in S : f[x] \in Nat
    PROVE  SumOver(f, S) \in Nat
<1>1. PICK g \in [SUBSET S -> Nat] : Folds(f, S, g) /\ SumOver(f, S) = g[S]
  BY SumFolds, ZenonT(60)
<1> QED
  BY <1>1

\* The fold takes one element off,
LEMMA SumPick ==
    ASSUME NEW S, IsFiniteSet(S), NEW f, \A x \in S : f[x] \in Nat, S # {}
    PROVE  SumOver(f, S) = f[Pick(S)] + SumOver(f, S \ {Pick(S)})
<1> DEFINE U == S \ {Pick(S)}
<1>1. IsFiniteSet(U) /\ \A x \in U : f[x] \in Nat
  BY FS_Subset
<1>2. PICK g \in [SUBSET S -> Nat] : Folds(f, S, g) /\ SumOver(f, S) = g[S]
  BY SumFolds, ZenonT(60)
<1>3. PICK h \in [SUBSET U -> Nat] : Folds(f, U, h) /\ SumOver(f, U) = h[U]
  <2> HIDE DEF U
  <2> QED
    BY <1>1, SumFolds, ZenonT(60)
<1>4. g[S] = f[Pick(S)] + g[U]
  <2>1. S \in SUBSET S
    OBVIOUS
  <2> QED
    BY <1>2, <2>1, FoldsAt
<1>5. U \in SUBSET (S \cap U)
  OBVIOUS
<1> HIDE DEF U
<1>6. g[U] = h[U]
  BY <1>1, <1>2, <1>3, <1>5, FoldsAgree
<1> QED
  BY <1>2, <1>3, <1>4, <1>6 DEF U

\* and it could as well have been any other.
LEMMA SumRemove ==
    ASSUME NEW S, IsFiniteSet(S), NEW f, \A x \in S : f[x] \in Nat, NEW y \in S
    PROVE  SumOver(f, S) = f[y] + SumOver(f, S \ {y})
<1> DEFINE G == {T \in SUBSET S : \A z \in T : SumOver(f, T) = f[z] + SumOver(f, T \ {z})}
<1>0. \A T \in SUBSET S : /\ IsFiniteSet(T)
                          /\ \A x \in T : f[x] \in Nat
                          /\ SumOver(f, T) \in Nat
  <2>1. ASSUME NEW T \in SUBSET S
        PROVE  IsFiniteSet(T) /\ \A x \in T : f[x] \in Nat
    BY FS_Subset
  <2> QED
    BY <2>1, SumType
<1>1. ASSUME NEW T \in SUBSET S, \A U \in SUBSET T : U # T => U \in G
      PROVE  T \in G
  <2>1. SUFFICES ASSUME NEW z \in T
                 PROVE  SumOver(f, T) = f[z] + SumOver(f, T \ {z})
    OBVIOUS
  <2> DEFINE p == Pick(T)
  <2>2. p \in T
    BY PickIn
  <2>3. SumOver(f, T) = f[p] + SumOver(f, T \ {p})
    BY <1>0, SumPick, ZenonT(60)
  <2> HIDE DEF p
  <2>4. CASE z = p
    BY <2>3, <2>4
  <2>5. CASE z # p
    <3>1. T \ {p} \in G /\ T \ {z} \in G
      BY <1>1, <2>2
    <3>2. z \in T \ {p} /\ p \in T \ {z} /\ (T \ {p}) \ {z} = (T \ {z}) \ {p}
      BY <2>2, <2>5
    <3>3. SumOver(f, T \ {p}) = f[z] + SumOver(f, (T \ {p}) \ {z})
      BY <3>1, <3>2
    <3>4. SumOver(f, T \ {z}) = f[p] + SumOver(f, (T \ {p}) \ {z})
      BY <3>1, <3>2
    <3>5. f[z] \in Nat /\ f[p] \in Nat /\ SumOver(f, (T \ {p}) \ {z}) \in Nat
      BY <1>0, <2>2
    <3> QED
      BY <2>3, <3>3, <3>4, <3>5
  <2> QED
    BY <2>4, <2>5
<1> HIDE DEF G
<1>2. S \in G
  BY <1>1, SubsetInduction
<1> QED
  BY <1>2 DEF G

LEMMA SumAdd ==
    ASSUME NEW S, IsFiniteSet(S), NEW f, \A x \in S : f[x] \in Nat, NEW y, y \notin S,
           f[y] \in Nat
    PROVE  SumOver(f, S \cup {y}) = f[y] + SumOver(f, S)
<1> DEFINE T == S \cup {y}
<1>1. IsFiniteSet(T) /\ (\A x \in T : f[x] \in Nat) /\ y \in T /\ T \ {y} = S
  BY FS_AddElement
<1> HIDE DEF T
<1>2. SumOver(f, T) = f[y] + SumOver(f, T \ {y})
  BY <1>1, SumRemove
<1> QED
  BY <1>1, <1>2 DEF T

\* The parts of a set add up to it.
LEMMA SumSplit ==
    ASSUME NEW A, NEW B, IsFiniteSet(A), IsFiniteSet(B), A \cap B = {}, NEW f,
           \A x \in A \cup B : f[x] \in Nat
    PROVE  SumOver(f, A \cup B) = SumOver(f, A) + SumOver(f, B)
<1> DEFINE G == {T \in SUBSET A : SumOver(f, T \cup B) = SumOver(f, T) + SumOver(f, B)}
<1>0. \A T \in SUBSET A : /\ IsFiniteSet(T) /\ IsFiniteSet(T \cup B)
                          /\ SumOver(f, T) \in Nat
  <2>1. ASSUME NEW T \in SUBSET A
        PROVE  IsFiniteSet(T) /\ (\A x \in T : f[x] \in Nat)
    BY FS_Subset
  <2>2. \A T \in SUBSET A : IsFiniteSet(T \cup B)
    BY <2>1, FS_Union, ZenonT(60)
  <2> QED
    BY <2>1, <2>2, SumType
<1>a. SumOver(f, B) \in Nat
  BY SumType
<1>1. ASSUME NEW T \in SUBSET A, \A U \in SUBSET T : U # T => U \in G
      PROVE  T \in G
  <2>1. CASE T = {}
    <3>1. SumOver(f, {}) = 0 /\ {} \cup B = B
      BY SumEmpty
    <3> QED
      BY <1>a, <2>1, <3>1
  <2>2. CASE T # {}
    <3>1. PICK z \in T : TRUE
      BY <2>2
    <3> DEFINE U == T \ {z}
    <3>2. U \in G /\ U \in SUBSET A
      BY <1>1, <3>1
    <3>3. SumOver(f, T) = f[z] + SumOver(f, U)
      <4>1. \A x \in T : f[x] \in Nat
        OBVIOUS
      <4> QED
        BY <1>0, <4>1, SumRemove, ZenonT(60)
    <3>4. SumOver(f, T \cup B) = f[z] + SumOver(f, U \cup B)
      <4>1. (T \cup B) \ {z} = U \cup B /\ z \in T \cup B
        OBVIOUS
      <4>2. IsFiniteSet(T \cup B) /\ \A x \in T \cup B : f[x] \in Nat
        BY <1>0
      <4>3. SumOver(f, T \cup B) = f[z] + SumOver(f, (T \cup B) \ {z})
        BY <4>1, <4>2, SumRemove
      <4> QED
        BY <4>1, <4>3, ZenonT(60)
    <3>5. SumOver(f, U \cup B) = SumOver(f, U) + SumOver(f, B)
      BY <3>2
    <3>6. f[z] \in Nat /\ SumOver(f, U) \in Nat
      BY <1>0, <3>2
    <3> HIDE DEF U
    <3> QED
      BY <1>a, <3>3, <3>4, <3>5, <3>6
  <2> QED
    BY <2>1, <2>2
<1> HIDE DEF G
<1>2. A \in G
  BY <1>1, SubsetInduction, ZenonT(60)
<1> QED
  BY <1>2 DEF G

LEMMA SumSubset ==
    ASSUME NEW B, IsFiniteSet(B), NEW A \in SUBSET B, NEW f, \A x \in B : f[x] \in Nat
    PROVE  SumOver(f, A) <= SumOver(f, B)
<1>1. IsFiniteSet(A) /\ IsFiniteSet(B \ A) /\ A \cap (B \ A) = {} /\ A \cup (B \ A) = B
  BY FS_Subset
<1>2. SumOver(f, A \cup (B \ A)) = SumOver(f, A) + SumOver(f, B \ A)
  BY <1>1, SumSplit
<1>3. SumOver(f, A) \in Nat /\ SumOver(f, B \ A) \in Nat
  BY <1>1, SumType
<1>4. SumOver(f, B) = SumOver(f, A) + SumOver(f, B \ A)
  BY <1>1, <1>2
<1> QED
  BY <1>3, <1>4

\* Larger amounts have the larger sum.
LEMMA SumMonotone ==
    ASSUME NEW S, IsFiniteSet(S), NEW f, NEW g,
           \A x \in S : f[x] \in Nat /\ g[x] \in Nat /\ f[x] <= g[x]
    PROVE  SumOver(f, S) <= SumOver(g, S)
<1> DEFINE G == {T \in SUBSET S : SumOver(f, T) <= SumOver(g, T)}
<1>0. \A T \in SUBSET S : /\ IsFiniteSet(T) /\ (\A x \in T : f[x] \in Nat /\ g[x] \in Nat)
                          /\ SumOver(f, T) \in Nat /\ SumOver(g, T) \in Nat
  <2>1. ASSUME NEW T \in SUBSET S
        PROVE  IsFiniteSet(T) /\ (\A x \in T : f[x] \in Nat /\ g[x] \in Nat)
    BY FS_Subset
  <2> QED
    BY <2>1, SumType
<1>1. ASSUME NEW T \in SUBSET S, \A U \in SUBSET T : U # T => U \in G
      PROVE  T \in G
  <2>1. CASE T = {}
    <3>1. SumOver(f, {}) = 0 /\ SumOver(g, {}) = 0
      BY SumEmpty
    <3> QED
      BY <2>1, <3>1
  <2>2. CASE T # {}
    <3>1. PICK z \in T : TRUE
      BY <2>2
    <3> DEFINE U == T \ {z}
    <3>2. U \in G /\ U \in SUBSET S
      BY <1>1, <3>1
    <3>3. SumOver(f, T) = f[z] + SumOver(f, U) /\ SumOver(g, T) = g[z] + SumOver(g, U)
      BY <1>0, SumRemove
    <3>4. /\ f[z] \in Nat /\ g[z] \in Nat /\ f[z] <= g[z]
          /\ SumOver(f, U) \in Nat /\ SumOver(g, U) \in Nat
          /\ SumOver(f, U) <= SumOver(g, U)
      BY <1>0, <3>2
    <3> HIDE DEF U
    <3> QED
      BY <3>3, <3>4
  <2> QED
    BY <2>1, <2>2
<1> HIDE DEF G
<1>2. S \in G
  BY <1>1, SubsetInduction
<1> QED
  BY <1>2 DEF G

LEMMA SumEqual ==
    ASSUME NEW S, IsFiniteSet(S), NEW f, NEW g, \A x \in S : f[x] \in Nat /\ f[x] = g[x]
    PROVE  SumOver(f, S) = SumOver(g, S)
<1>1. SumOver(f, S) <= SumOver(g, S) /\ SumOver(g, S) <= SumOver(f, S)
  <2>1. \A x \in S : f[x] \in Nat /\ g[x] \in Nat /\ f[x] <= g[x] /\ g[x] <= f[x]
    OBVIOUS
  <2> QED
    BY <2>1, SumMonotone
<1>2. SumOver(f, S) \in Nat /\ SumOver(g, S) \in Nat
  <2>1. \A x \in S : g[x] \in Nat
    OBVIOUS
  <2> QED
    BY <2>1, SumType
<1> QED
  BY <1>1, <1>2

\* Changing one amount changes the sum by as much.
LEMMA SumChange ==
    ASSUME NEW S, IsFiniteSet(S), NEW f, NEW g, NEW y \in S,
           \A x \in S : f[x] \in Nat /\ g[x] \in Nat,
           \A x \in S \ {y} : f[x] = g[x]
    PROVE  SumOver(f, S) + g[y] = SumOver(g, S) + f[y]
<1>1. IsFiniteSet(S \ {y})
  BY FS_Subset
<1>2. SumOver(f, S \ {y}) = SumOver(g, S \ {y}) /\ SumOver(f, S \ {y}) \in Nat
  BY <1>1, SumEqual, SumType
<1>3. SumOver(f, S) = f[y] + SumOver(f, S \ {y}) /\ SumOver(g, S) = g[y] + SumOver(g, S \ {y})
  BY SumRemove
<1> QED
  BY <1>2, <1>3

\* Sums add up pointwise.
LEMMA SumPlus ==
    ASSUME NEW S, IsFiniteSet(S), NEW f, NEW g, NEW h,
           \A x \in S : f[x] \in Nat /\ g[x] \in Nat /\ h[x] = f[x] + g[x]
    PROVE  SumOver(h, S) = SumOver(f, S) + SumOver(g, S)
<1> DEFINE G == {T \in SUBSET S : SumOver(h, T) = SumOver(f, T) + SumOver(g, T)}
<1>0. \A T \in SUBSET S : /\ IsFiniteSet(T)
                          /\ \A x \in T : f[x] \in Nat /\ g[x] \in Nat /\ h[x] \in Nat
                          /\ SumOver(f, T) \in Nat /\ SumOver(g, T) \in Nat
  <2>1. ASSUME NEW T \in SUBSET S
        PROVE  IsFiniteSet(T) /\ (\A x \in T : f[x] \in Nat /\ g[x] \in Nat /\ h[x] \in Nat)
    BY FS_Subset
  <2> QED
    BY <2>1, SumType, ZenonT(60)
<1>1. ASSUME NEW T \in SUBSET S, \A U \in SUBSET T : U # T => U \in G
      PROVE  T \in G
  <2>1. CASE T = {}
    <3>1. SumOver(f, {}) = 0 /\ SumOver(g, {}) = 0 /\ SumOver(h, {}) = 0
      BY SumEmpty
    <3> QED
      BY <2>1, <3>1
  <2>2. CASE T # {}
    <3>1. PICK z \in T : TRUE
      BY <2>2
    <3> DEFINE U == T \ {z}
    <3>2. U \in G /\ U \in SUBSET S
      BY <1>1, <3>1
    <3>3. /\ SumOver(f, T) = f[z] + SumOver(f, U) /\ SumOver(g, T) = g[z] + SumOver(g, U)
          /\ SumOver(h, T) = h[z] + SumOver(h, U)
      BY <1>0, SumRemove, ZenonT(60)
    <3>4. /\ f[z] \in Nat /\ g[z] \in Nat /\ h[z] = f[z] + g[z]
          /\ SumOver(f, U) \in Nat /\ SumOver(g, U) \in Nat
          /\ SumOver(h, U) = SumOver(f, U) + SumOver(g, U)
      BY <1>0, <3>2
    <3> HIDE DEF U
    <3> QED
      BY <3>3, <3>4
  <2> QED
    BY <2>1, <2>2
<1> HIDE DEF G
<1>2. S \in G
  BY <1>1, SubsetInduction, ZenonT(60)
<1> QED
  BY <1>2 DEF G

LEMMA SumZero ==
    ASSUME NEW S, IsFiniteSet(S), NEW f, \A x \in S : f[x] = 0
    PROVE  SumOver(f, S) = 0
<1>1. \A x \in S : f[x] \in Nat /\ f[x] = f[x] + f[x]
  OBVIOUS
<1>2. SumOver(f, S) \in Nat /\ SumOver(f, S) = SumOver(f, S) + SumOver(f, S)
  BY <1>1, SumPlus, SumType
<1>3. \A n \in Nat : n = n + n => n = 0
  OBVIOUS
<1> QED
  BY <1>2, <1>3, ZenonT(60)

\* One amount is raised.
LEMMA SumRaise ==
    ASSUME NEW S, IsFiniteSet(S), NEW f, NEW g, NEW y \in S, NEW d \in Nat,
           \A x \in S : f[x] \in Nat, \A x \in S \ {y} : g[x] = f[x], g[y] = f[y] + d
    PROVE  SumOver(g, S) = SumOver(f, S) + d /\ SumOver(f, S) \in Nat
<1>1. f[y] \in Nat /\ \A x \in S : f[x] \in Nat /\ g[x] \in Nat
  OBVIOUS
<1>2. SumOver(f, S) + g[y] = SumOver(g, S) + f[y]
  BY <1>1, SumChange
<1>3. SumOver(f, S) \in Nat /\ SumOver(g, S) \in Nat
  BY <1>1, SumType
<1> DEFINE a == SumOver(f, S)
           b == SumOver(g, S)
<1>4. a \in Nat /\ b \in Nat /\ a + g[y] = b + f[y]
  BY <1>2, <1>3
<1> HIDE DEF a, b
<1>5. b = a + d
  BY <1>1, <1>4
<1> QED
  BY <1>4, <1>5 DEF a, b
=============================================================================
