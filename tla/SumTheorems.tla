---------------------------- MODULE SumTheorems -----------------------------
(***************************************************************************)
(* Sums of natural numbers over finite sets: SumFunctionOnSet, which folds *)
(* a set in whatever order, is the number of pairs of an index and a       *)
(* number below its value, and what is known of finite sets carries over.  *)
(***************************************************************************)
EXTENDS Integers, Functions, FiniteSetTheorems, WellFoundedInduction, TLAPS

Pick(s) == CHOOSE x \in s : TRUE

IsSum(g, f, S) ==
  g = [s \in SUBSET S |-> IF s = {} THEN 0 ELSE f[Pick(s)] + g[s \ {Pick(s)}]]

Pairs(f, s) == {p \in s \X Nat : p[2] < f[p[1]]}

LEMMA SumUnfolds ==
  ASSUME NEW f, NEW S
  PROVE  SumFunctionOnSet(f, S) = (CHOOSE g : IsSum(g, f, S))[S]
  BY DEF SumFunctionOnSet, FoldFunctionOnSet, MapThenFoldSet, IsSum, Pick

(* The pairs of one index more.                                            *)
LEMMA PairsOfOne ==
  ASSUME NEW f, NEW x, f[x] \in Nat
  PROVE  /\ IsFiniteSet({x} \X (0 .. f[x] - 1))
         /\ Cardinality({x} \X (0 .. f[x] - 1)) = f[x]
<1> DEFINE A == {x}
           B == 0 .. f[x] - 1
<1>1. IsFiniteSet(A) /\ Cardinality(A) = 1
  BY FS_Singleton
<1>2. IsFiniteSet(B) /\ Cardinality(B) = f[x]
  BY FS_Interval
<1>3. IsFiniteSet(A \X B) /\ Cardinality(A \X B) = f[x]
  <2> HIDE DEF A, B
  <2>1. IsFiniteSet(A \X B) /\ Cardinality(A \X B) = Cardinality(A) * Cardinality(B)
    BY <1>1, <1>2, FS_Product, Zenon
  <2> QED
    BY <1>1, <1>2, <2>1
<1> QED
  BY <1>3

LEMMA PairsSplit ==
  ASSUME NEW f, NEW s, NEW x \in s, f[x] \in Nat
  PROVE  /\ Pairs(f, s) = Pairs(f, s \ {x}) \cup ({x} \X (0 .. f[x] - 1))
         /\ Pairs(f, s \ {x}) \cap ({x} \X (0 .. f[x] - 1)) = {}
<1>1. {x} \X (0 .. f[x] - 1) = {p \in {x} \X Nat : p[2] < f[p[1]]}
  OBVIOUS
<1>2. s \X Nat = ((s \ {x}) \X Nat) \cup ({x} \X Nat)
  OBVIOUS
<1>3. ((s \ {x}) \X Nat) \cap ({x} \X Nat) = {}
  OBVIOUS
<1> DEFINE B == {x} \X (0 .. f[x] - 1)
<1>4. ASSUME NEW p
      PROVE  /\ p \in Pairs(f, s) <=> p \in s \X Nat /\ p[2] < f[p[1]]
             /\ p \in Pairs(f, s \ {x}) <=> p \in (s \ {x}) \X Nat /\ p[2] < f[p[1]]
             /\ p \in B <=> p \in {x} \X Nat /\ p[2] < f[p[1]]
  BY <1>1, Zenon DEF Pairs
<1> HIDE DEF B
<1>5. ASSUME NEW p
      PROVE  /\ p \in Pairs(f, s) <=> p \in Pairs(f, s \ {x}) \/ p \in B
             /\ ~ (p \in Pairs(f, s \ {x}) /\ p \in B)
  BY <1>2, <1>3, <1>4, Zenon
<1>6. Pairs(f, s) = Pairs(f, s \ {x}) \cup B /\ Pairs(f, s \ {x}) \cap B = {}
  BY <1>5, Zenon
<1> QED
  BY <1>6 DEF B

(* Finitely many naturals have finitely many pairs.                        *)
LEMMA PairsFinite ==
  ASSUME NEW f, NEW s, IsFiniteSet(s), \A i \in s : f[i] \in Nat
  PROVE  IsFiniteSet(Pairs(f, s))
<1> DEFINE one == [i \in s |-> {i} \X (0 .. f[i] - 1)]
           images == {one[i] : i \in s}
<1>1. one \in Surjection(s, images)
  BY DEF Surjection
<1>2. IsFiniteSet(images)
  BY <1>1, FS_Surjection
<1>3. \A T \in images : IsFiniteSet(T)
  BY PairsOfOne
<1>4. IsFiniteSet(UNION images)
  BY <1>2, <1>3, FS_UNION
<1>5. Pairs(f, s) \subseteq UNION images
  <2> SUFFICES ASSUME NEW p \in Pairs(f, s) PROVE \E i \in s : p \in one[i]
    OBVIOUS
  <2>1. p[1] \in s /\ p[2] \in Nat /\ p[2] < f[p[1]] /\ p = <<p[1], p[2]>>
    BY DEF Pairs
  <2>2. p[2] \in 0 .. f[p[1]] - 1
    BY <2>1
  <2>3. p \in one[p[1]]
    BY <2>1, <2>2
  <2> QED
    BY <2>1, <2>3
<1> QED
  BY <1>4, <1>5, FS_Subset

LEMMA PairsCount ==
  ASSUME NEW f, NEW s, IsFiniteSet(s), \A i \in s : f[i] \in Nat, NEW x \in s
  PROVE  Cardinality(Pairs(f, s)) = f[x] + Cardinality(Pairs(f, s \ {x}))
<1> DEFINE A == Pairs(f, s \ {x})
           B == {x} \X (0 .. f[x] - 1)
<1>1. Pairs(f, s) = A \cup B /\ A \cap B = {}
  BY PairsSplit
<1>2. IsFiniteSet(B) /\ Cardinality(B) = f[x]
  BY PairsOfOne
<1>3. IsFiniteSet(A) /\ Cardinality(A) \in Nat
  BY PairsFinite, FS_RemoveElement, FS_CardinalityType
<1> HIDE DEF A, B
<1>4. Cardinality(A \cup B) = Cardinality(A) + Cardinality(B) - Cardinality(A \cap B)
  BY <1>2, <1>3, FS_Union
<1>5. Cardinality(A \cap B) = 0
  BY <1>1, FS_EmptySet
<1>6. Cardinality(Pairs(f, s)) = f[x] + Cardinality(A)
  BY <1>1, <1>2, <1>3, <1>4, <1>5
<1> QED
  BY <1>6 DEF A

-----------------------------------------------------------------------------
(* There is a sum, and no other.                                           *)
LEMMA SumExists ==
  ASSUME NEW f, NEW S, IsFiniteSet(S), \A i \in S : f[i] \in Nat
  PROVE  IsSum([s \in SUBSET S |-> Cardinality(Pairs(f, s))], f, S)
<1> DEFINE g == [s \in SUBSET S |-> Cardinality(Pairs(f, s))]
<1>1. ASSUME NEW s \in SUBSET S
      PROVE  g[s] = IF s = {} THEN 0 ELSE f[Pick(s)] + g[s \ {Pick(s)}]
  <2>1. CASE s = {}
    <3>1. Pairs(f, s) = {}
      BY <2>1 DEF Pairs
    <3> QED
      BY <2>1, <3>1, FS_EmptySet
  <2>2. CASE s # {}
    <3>1. Pick(s) \in s
      BY <2>2 DEF Pick
    <3>2. IsFiniteSet(s)
      BY FS_Subset
    <3> QED
      BY <2>2, <3>1, <3>2, PairsCount
  <2> QED
    BY <2>1, <2>2
<1> QED
  BY <1>1 DEF IsSum

LEMMA SumUnique ==
  ASSUME NEW f, NEW S, IsFiniteSet(S), NEW g, NEW h, IsSum(g, f, S), IsSum(h, f, S)
  PROVE  g[S] = h[S]
<1> DEFINE Differ == {s \in SUBSET S : g[s] # h[s]}
<1>1. ASSUME Differ # {} PROVE FALSE
  <2>1. IsWellFoundedOn(StrictSubsetOrdering(S), FiniteSubsetsOf(S))
    BY FS_StrictSubsetOrderingWellFounded
  <2>2. Differ \subseteq FiniteSubsetsOf(S)
    BY FS_Subset DEF FiniteSubsetsOf
  <2>3. PICK s \in Differ : \A t \in Differ : <<t, s>> \notin StrictSubsetOrdering(S)
    BY <1>1, <2>1, <2>2, WFMin
  <2>4. s # {} /\ s \in SUBSET S
    BY DEF IsSum
  <2>5. Pick(s) \in s
    BY <2>4 DEF Pick
  <2>6. <<s \ {Pick(s)}, s>> \in StrictSubsetOrdering(S)
    BY <2>4, <2>5 DEF StrictSubsetOrdering
  <2>7. g[s \ {Pick(s)}] = h[s \ {Pick(s)}]
    BY <2>3, <2>4, <2>6
  <2> QED
    BY <2>4, <2>7 DEF IsSum
<1> QED
  BY <1>1

(* The sum as a number of pairs, and what follows from it: SumFunctionOnSet *)
(* adds up the results of a run in whatever order it picks them.           *)
THEOREM SumIsCount ==
  ASSUME NEW f, NEW S, IsFiniteSet(S), \A i \in S : f[i] \in Nat
  PROVE  SumFunctionOnSet(f, S) = Cardinality(Pairs(f, S))
<1> DEFINE g == CHOOSE g : IsSum(g, f, S)
           h == [s \in SUBSET S |-> Cardinality(Pairs(f, s))]
<1>1. IsSum(h, f, S)
  BY SumExists
<1>2. IsSum(g, f, S)
  BY <1>1
<1> HIDE DEF g
<1>3. g[S] = h[S]
  BY <1>1, <1>2, SumUnique
<1> QED
  BY <1>3, SumUnfolds DEF g

(* A run without targets has counted nothing.                              *)
THEOREM SumOfNone ==
  ASSUME NEW f
  PROVE  SumFunctionOnSet(f, {}) = 0
<1>1. Pairs(f, {}) = {}
  BY DEF Pairs
<1> QED
  BY <1>1, SumIsCount, FS_EmptySet

(* Awaiting one more future adds its count and nothing else.               *)
THEOREM SumOfOneMore ==
  ASSUME NEW f, NEW S, IsFiniteSet(S), \A i \in S : f[i] \in Nat,
         NEW x, x \notin S, f[x] \in Nat
  PROVE  SumFunctionOnSet(f, S \cup {x}) = SumFunctionOnSet(f, S) + f[x]
<1> DEFINE T == S \cup {x}
<1>1. IsFiniteSet(T) /\ T \ {x} = S /\ \A i \in T : f[i] \in Nat
  BY FS_AddElement
<1> HIDE DEF T
<1>2. x \in T
  BY DEF T
<1>3. Cardinality(Pairs(f, T)) = f[x] + Cardinality(Pairs(f, S))
  BY <1>1, <1>2, PairsCount
<1>4. Cardinality(Pairs(f, S)) \in Nat
  BY PairsFinite, FS_CardinalityType
<1> QED
  BY <1>1, <1>3, <1>4, SumIsCount DEF T

(* The total of a run's counts is a count.                                 *)
THEOREM SumIsNat ==
  ASSUME NEW f, NEW S, IsFiniteSet(S), \A i \in S : f[i] \in Nat
  PROVE  SumFunctionOnSet(f, S) \in Nat
  BY SumIsCount, PairsFinite, FS_CardinalityType

(* Only the values at the indices count.                                   *)
THEOREM SumOfSame ==
  ASSUME NEW f, NEW g, NEW S, IsFiniteSet(S),
         \A i \in S : f[i] \in Nat /\ g[i] = f[i]
  PROVE  SumFunctionOnSet(f, S) = SumFunctionOnSet(g, S)
<1>1. \A p \in S \X Nat : f[p[1]] = g[p[1]]
  OBVIOUS
<1>2. Pairs(f, S) = Pairs(g, S)
  BY <1>1 DEF Pairs
<1> QED
  BY <1>2, SumIsCount
=============================================================================
