-------------------------- MODULE FlattenTheorems ---------------------------
(***************************************************************************)
(* Flattened sequences: FlattenSeq of a sequence of sequences is a         *)
(* sequence of their elements, of all of them, and repeats none if they    *)
(* repeat none and have none in common.                                    *)
(***************************************************************************)
EXTENDS Integers, SequencesExt, SequenceTheorems, WellFoundedInduction, TLAPS

(* The first n of the sequences, in one.                                   *)
IsFlat(g, seqs, n) ==
  g = [i \in 1..n |-> IF i = 1 THEN seqs[i] ELSE g[i - 1] \o seqs[i]]

LEMMA FlattenUnfolds ==
  ASSUME NEW seqs, Len(seqs) # 0
  PROVE  FlattenSeq(seqs) = (CHOOSE g : IsFlat(g, seqs, Len(seqs)))[Len(seqs)]
  BY DEF FlattenSeq, IsFlat

LEMMA LeastNat ==
  ASSUME NEW T, T \subseteq Nat, T # {}
  PROVE  \E n \in T : \A m \in T : n <= m
<1> DEFINE R == OpToRel(<, Nat)
<1>1. IsWellFoundedOn(R, Nat)
  BY NatLessThanWellFounded
<1>2. \A m, n \in Nat : m < n => <<m, n>> \in R
  BY DEF OpToRel
<1> HIDE DEF R
<1>3. PICK n \in T : \A m \in T : <<m, n>> \notin R
  BY <1>1, WFMin
<1>4. \A m \in T : n <= m
  <2>1. SUFFICES ASSUME NEW m \in T, m < n PROVE FALSE
    OBVIOUS
  <2>2. m \in Nat /\ n \in Nat
    OBVIOUS
  <2>3. <<m, n>> \in R
    BY <1>2, <2>1, <2>2
  <2> QED
    BY <1>3, <2>3
<1> QED
  BY <1>4

(* Induction up to L, on a set instead of a predicate.                     *)
LEMMA UpTo ==
  ASSUME NEW Good, NEW L \in Nat, 1 \in Good,
         \A n \in 1..L : n # 1 /\ n - 1 \in Good => n \in Good
  PROVE  1..L \subseteq Good
<1> DEFINE Bad == (1..L) \ Good
<1>1. ASSUME Bad # {} PROVE FALSE
  <2>1. Bad \subseteq Nat
    OBVIOUS
  <2> HIDE DEF Bad
  <2>2. PICK n \in Bad : \A m \in Bad : n <= m
    BY <1>1, <2>1, LeastNat
  <2>3. n \in 1..L /\ n \notin Good /\ n # 1
    BY DEF Bad
  <2>4. n - 1 \notin Bad /\ n - 1 \in 1..L
    BY <2>2, <2>3
  <2> QED
    BY <2>3, <2>4 DEF Bad
<1> QED
  BY <1>1

LEMMA FlatExists ==
  ASSUME NEW seqs, NEW L \in Nat
  PROVE  \E g : IsFlat(g, seqs, L)
<1> DEFINE Bad == {n \in Nat : ~ \E g : IsFlat(g, seqs, n)}
<1>1. ASSUME Bad # {} PROVE FALSE
  <2>1. PICK n \in Bad : \A m \in Bad : n <= m
    BY <1>1, LeastNat
  <2>2. CASE n = 0
    <3>1. IsFlat([i \in 1..0 |-> seqs[i]], seqs, 0)
      BY DEF IsFlat
    <3> QED
      BY <2>1, <2>2, <3>1
  <2>3. CASE n # 0
    <3>1. n \in Nat /\ n - 1 \in Nat /\ n - 1 \notin Bad
      BY <2>1, <2>3
    <3>2. PICK g : IsFlat(g, seqs, n - 1)
      BY <3>1
    <3> DEFINE h == [i \in 1..n |-> IF i = 1 THEN seqs[i] ELSE g[i - 1] \o seqs[i]]
    <3>3. \A i \in 1 .. n - 1 : g[i] = IF i = 1 THEN seqs[i] ELSE g[i - 1] \o seqs[i]
      BY <3>2 DEF IsFlat
    <3>4. \A i \in 1..n : i # 1 => i - 1 \in 1 .. n - 1 /\ i - 1 \in 1..n
      BY <3>1
    <3>5. \A i \in 1..n : i # 1 => h[i - 1] = g[i - 1]
      BY <3>3, <3>4
    <3>6. \A i \in 1..n : h[i] = IF i = 1 THEN seqs[i] ELSE h[i - 1] \o seqs[i]
      BY <3>5
    <3>7. h = [i \in 1..n |-> IF i = 1 THEN seqs[i] ELSE h[i - 1] \o seqs[i]]
      BY <3>5
    <3> HIDE DEF h
    <3>8. IsFlat(h, seqs, n)
      BY <3>7 DEF IsFlat
    <3> QED
      BY <2>1, <3>8
  <2> QED
    BY <2>2, <2>3
<1> QED
  BY <1>1

-----------------------------------------------------------------------------
(* Two sequences in one.                                                   *)
LEMMA ConcatSet ==
  ASSUME NEW S, NEW s \in Seq(S), NEW t \in Seq(S)
  PROVE  s \o t \in Seq(S) /\ ToSet(s \o t) = ToSet(s) \cup ToSet(t)
<1>1. /\ s \o t \in Seq(S) /\ Len(s \o t) = Len(s) + Len(t)
      /\ \A i \in 1 .. Len(s) + Len(t) :
           (s \o t)[i] = IF i <= Len(s) THEN s[i] ELSE t[i - Len(s)]
  BY ConcatProperties
<1>2. /\ Len(s) \in Nat /\ DOMAIN s = 1..Len(s)
      /\ Len(t) \in Nat /\ DOMAIN t = 1..Len(t)
      /\ DOMAIN (s \o t) = 1 .. Len(s) + Len(t)
  BY <1>1, LenProperties
<1> DEFINE u == s \o t
<1> HIDE DEF u
<1>3. ASSUME NEW i \in DOMAIN u PROVE u[i] \in ToSet(s) \cup ToSet(t)
  <2>1. CASE i <= Len(s)
    BY <1>1, <1>2, <2>1 DEF u, ToSet
  <2>2. CASE i > Len(s)
    <3>1. i - Len(s) \in DOMAIN t /\ u[i] = t[i - Len(s)]
      BY <1>1, <1>2, <2>2 DEF u
    <3> QED
      BY <3>1 DEF ToSet
  <2> QED
    BY <1>2, <2>1, <2>2 DEF u
<1>4. ASSUME NEW i \in DOMAIN s PROVE s[i] \in ToSet(u)
  <2>1. i \in DOMAIN u /\ u[i] = s[i]
    BY <1>1, <1>2 DEF u
  <2> QED
    BY <2>1 DEF ToSet
<1>5. ASSUME NEW i \in DOMAIN t PROVE t[i] \in ToSet(u)
  <2>1. Len(s) + i \in DOMAIN u /\ u[Len(s) + i] = t[i]
    BY <1>1, <1>2 DEF u
  <2> QED
    BY <2>1 DEF ToSet
<1>6. ToSet(u) = ToSet(s) \cup ToSet(t)
  BY <1>3, <1>4, <1>5 DEF ToSet
<1> QED
  BY <1>1, <1>6 DEF u

LEMMA ConcatInjective ==
  ASSUME NEW S, NEW s \in Seq(S), NEW t \in Seq(S),
         IsInjective(s), IsInjective(t), ToSet(s) \cap ToSet(t) = {}
  PROVE  IsInjective(s \o t)
<1>1. /\ s \o t \in Seq(S) /\ Len(s \o t) = Len(s) + Len(t)
      /\ \A i \in 1 .. Len(s) + Len(t) :
           (s \o t)[i] = IF i <= Len(s) THEN s[i] ELSE t[i - Len(s)]
  BY ConcatProperties
<1>2. /\ Len(s) \in Nat /\ DOMAIN s = 1..Len(s)
      /\ Len(t) \in Nat /\ DOMAIN t = 1..Len(t)
      /\ DOMAIN (s \o t) = 1 .. Len(s) + Len(t)
  BY <1>1, LenProperties
<1> DEFINE u == s \o t
<1> HIDE DEF u
<1>3. \A i \in DOMAIN u :
        \/ i <= Len(s) /\ i \in DOMAIN s /\ u[i] = s[i]
        \/ i > Len(s) /\ i - Len(s) \in DOMAIN t /\ u[i] = t[i - Len(s)]
  BY <1>1, <1>2 DEF u
<1>4. \A i \in DOMAIN s, j \in DOMAIN t : s[i] # t[j]
  BY DEF ToSet
<1>5. ASSUME NEW i \in DOMAIN u, NEW j \in DOMAIN u, u[i] = u[j] PROVE i = j
  <2>1. i \in Int /\ j \in Int
    BY <1>2 DEF u
  <2>2. CASE i <= Len(s) /\ j <= Len(s)
    BY <1>2, <1>3, <1>5, <2>1, <2>2 DEF IsInjective
  <2>3. CASE i > Len(s) /\ j > Len(s)
    <3>1. i - Len(s) = j - Len(s)
      BY <1>2, <1>3, <1>5, <2>1, <2>3 DEF IsInjective
    <3> QED
      BY <1>2, <2>1, <3>1
  <2>4. CASE i <= Len(s) /\ j > Len(s)
    BY <1>2, <1>3, <1>4, <1>5, <2>1, <2>4
  <2>5. CASE i > Len(s) /\ j <= Len(s)
    BY <1>2, <1>3, <1>4, <1>5, <2>1, <2>5
  <2> QED
    BY <1>2, <2>1, <2>2, <2>3, <2>4, <2>5
<1> QED
  BY <1>5 DEF IsInjective, u

-----------------------------------------------------------------------------
LEMMA FlattenIsFlat ==
  ASSUME NEW seqs, Len(seqs) \in Nat \ {0}
  PROVE  \E g : IsFlat(g, seqs, Len(seqs)) /\ FlattenSeq(seqs) = g[Len(seqs)]
<1> DEFINE g == CHOOSE g : IsFlat(g, seqs, Len(seqs))
<1>1. IsFlat(g, seqs, Len(seqs))
  BY FlatExists
<1>2. FlattenSeq(seqs) = g[Len(seqs)]
  BY FlattenUnfolds
<1> QED
  BY <1>1, <1>2

Elements(seqs, n) == UNION {ToSet(seqs[i]) : i \in 1..n}

(* How the flattened sequence grows.                                       *)
Grows(g, seqs, L) ==
  \A n \in 1..L :
    /\ n = 1 => g[n] = seqs[n] /\ Elements(seqs, n) = ToSet(seqs[n])
    /\ n # 1 => /\ n - 1 \in 1..L /\ g[n] = g[n - 1] \o seqs[n]
                /\ Elements(seqs, n) = Elements(seqs, n - 1) \cup ToSet(seqs[n])

LEMMA FlatGrows ==
  ASSUME NEW g, NEW seqs, NEW L \in Nat, IsFlat(g, seqs, L)
  PROVE  Grows(g, seqs, L)
<1> SUFFICES ASSUME NEW n \in 1..L
             PROVE  /\ n = 1 => g[n] = seqs[n] /\ Elements(seqs, n) = ToSet(seqs[n])
                    /\ n # 1 => /\ n - 1 \in 1..L /\ g[n] = g[n - 1] \o seqs[n]
                                /\ Elements(seqs, n) = Elements(seqs, n - 1) \cup ToSet(seqs[n])
  BY DEF Grows
<1>1. g[n] = IF n = 1 THEN seqs[n] ELSE g[n - 1] \o seqs[n]
  BY DEF IsFlat
<1>2. CASE n = 1
  <2>1. 1..n = {n}
    BY <1>2
  <2> QED
    BY <1>1, <1>2, <2>1 DEF Elements
<1>3. CASE n # 1
  <2>1. 1..n = (1 .. n - 1) \cup {n} /\ n - 1 \in 1..L
    BY <1>3
  <2> QED
    BY <1>1, <1>3, <2>1 DEF Elements
<1> QED
  BY <1>2, <1>3

LEMMA FlatSet ==
  ASSUME NEW S, NEW seqs, NEW L \in Nat, \A i \in 1..L : seqs[i] \in Seq(S),
         NEW g, IsFlat(g, seqs, L), NEW k \in 1..L
  PROVE  g[k] \in Seq(S) /\ ToSet(g[k]) = Elements(seqs, k)
<1>0. Grows(g, seqs, L)
  BY FlatGrows
<1> DEFINE Good == {n \in Nat : n \in 1..L => g[n] \in Seq(S) /\ ToSet(g[n]) = Elements(seqs, n)}
<1>1. 1 \in Good
  BY <1>0 DEF Grows
<1>2. ASSUME NEW n \in 1..L, n # 1, n - 1 \in Good PROVE n \in Good
  <2>1. /\ n - 1 \in 1..L /\ g[n] = g[n - 1] \o seqs[n]
        /\ Elements(seqs, n) = Elements(seqs, n - 1) \cup ToSet(seqs[n])
    BY <1>0, <1>2 DEF Grows
  <2>2. g[n - 1] \in Seq(S) /\ ToSet(g[n - 1]) = Elements(seqs, n - 1) /\ seqs[n] \in Seq(S)
    BY <1>2, <2>1
  <2>3. g[n] \in Seq(S) /\ ToSet(g[n]) = ToSet(g[n - 1]) \cup ToSet(seqs[n])
    BY <2>1, <2>2, ConcatSet
  <2>4. g[n] \in Seq(S) /\ ToSet(g[n]) = Elements(seqs, n)
    BY <2>1, <2>2, <2>3
  <2> QED
    BY <2>4
<1> HIDE DEF Good
<1>3. 1..L \subseteq Good
  BY <1>1, <1>2, UpTo
<1> QED
  BY <1>3 DEF Good

(* Every two of the sequences have no element in common.                   *)
Apart(seqs, L) ==
  \A i, j \in 1..L : i # j => ToSet(seqs[i]) \cap ToSet(seqs[j]) = {}

LEMMA ApartFromEarlier ==
  ASSUME NEW seqs, NEW L \in Nat, Apart(seqs, L), NEW n \in 1..L
  PROVE  Elements(seqs, n - 1) \cap ToSet(seqs[n]) = {}
<1>1. \A i \in 1 .. n - 1 : i \in 1..L /\ i # n
  OBVIOUS
<1>2. \A i \in 1 .. n - 1 : ToSet(seqs[i]) \cap ToSet(seqs[n]) = {}
  BY <1>1 DEF Apart
<1> QED
  BY <1>2 DEF Elements

LEMMA FlatInjective ==
  ASSUME NEW S, NEW seqs, NEW L \in Nat, \A i \in 1..L : seqs[i] \in Seq(S),
         \A i \in 1..L : IsInjective(seqs[i]), Apart(seqs, L),
         NEW g, IsFlat(g, seqs, L), NEW k \in 1..L
  PROVE  IsInjective(g[k])
<1>0. Grows(g, seqs, L)
  BY FlatGrows
<1> DEFINE Good == {n \in Nat : n \in 1..L => IsInjective(g[n])}
<1>1. 1 \in Good
  BY <1>0 DEF Grows
<1>2. ASSUME NEW n \in 1..L, n # 1, n - 1 \in Good PROVE n \in Good
  <2>1. n - 1 \in 1..L /\ g[n] = g[n - 1] \o seqs[n]
    BY <1>0, <1>2 DEF Grows
  <2>2. g[n - 1] \in Seq(S) /\ ToSet(g[n - 1]) = Elements(seqs, n - 1)
    BY <2>1, FlatSet
  <2>3. IsInjective(g[n - 1]) /\ IsInjective(seqs[n]) /\ seqs[n] \in Seq(S)
    BY <1>2, <2>1
  <2>4. ToSet(g[n - 1]) \cap ToSet(seqs[n]) = {}
    BY <2>2, ApartFromEarlier
  <2>5. IsInjective(g[n])
    BY <2>1, <2>2, <2>3, <2>4, ConcatInjective
  <2> QED
    BY <2>5
<1> HIDE DEF Good
<1>3. 1..L \subseteq Good
  BY <1>1, <1>2, UpTo
<1> QED
  BY <1>3 DEF Good

-----------------------------------------------------------------------------
(* TargetsFor strings the targets of its types together: nothing is lost   *)
(* on the way and nothing is added.                                        *)
THEOREM FlattenKeepsElements ==
  ASSUME NEW S, NEW seqs \in Seq(Seq(S))
  PROVE  /\ FlattenSeq(seqs) \in Seq(S)
         /\ ToSet(FlattenSeq(seqs)) = UNION {ToSet(seqs[i]) : i \in DOMAIN seqs}
<1>1. /\ Len(seqs) \in Nat /\ DOMAIN seqs = 1..Len(seqs)
      /\ \A i \in 1..Len(seqs) : seqs[i] \in Seq(S)
  BY LenProperties
<1>2. CASE Len(seqs) = 0
  <2>1. FlattenSeq(seqs) = seqs
    BY <1>2 DEF FlattenSeq
  <2>2. DOMAIN seqs = {} /\ seqs = <<>>
    BY <1>1, <1>2, EmptySeq
  <2> QED
    BY <2>1, <2>2, EmptySeq DEF ToSet
<1>3. CASE Len(seqs) # 0
  <2>1. PICK g : IsFlat(g, seqs, Len(seqs)) /\ FlattenSeq(seqs) = g[Len(seqs)]
    BY <1>1, <1>3, FlattenIsFlat
  <2>2. g[Len(seqs)] \in Seq(S) /\ ToSet(g[Len(seqs)]) = Elements(seqs, Len(seqs))
    BY <1>1, <1>3, <2>1, FlatSet
  <2> QED
    BY <1>1, <2>1, <2>2 DEF Elements
<1> QED
  BY <1>2, <1>3

(* No unit is written twice by sequences of targets that are about         *)
(* different units each and have none in common.                           *)
THEOREM FlattenInjective ==
  ASSUME NEW S, NEW seqs \in Seq(Seq(S)),
         \A i \in DOMAIN seqs : IsInjective(seqs[i]),
         \A i, j \in DOMAIN seqs : i # j => ToSet(seqs[i]) \cap ToSet(seqs[j]) = {}
  PROVE  IsInjective(FlattenSeq(seqs))
<1>1. /\ Len(seqs) \in Nat /\ DOMAIN seqs = 1..Len(seqs)
      /\ \A i \in 1..Len(seqs) : seqs[i] \in Seq(S)
  BY LenProperties
<1>4. Apart(seqs, Len(seqs)) /\ \A i \in 1..Len(seqs) : IsInjective(seqs[i])
  BY <1>1, Zenon DEF Apart
<1>2. CASE Len(seqs) = 0
  BY <1>1, <1>2 DEF FlattenSeq, IsInjective
<1>3. CASE Len(seqs) # 0
  <2>1. PICK g : IsFlat(g, seqs, Len(seqs)) /\ FlattenSeq(seqs) = g[Len(seqs)]
    BY <1>1, <1>3, FlattenIsFlat
  <2>2. Len(seqs) \in 1..Len(seqs)
    BY <1>1, <1>3
  <2>3. IsInjective(g[Len(seqs)])
    BY <1>1, <1>4, <2>1, <2>2, FlatInjective
  <2> QED
    BY <2>1, <2>3
<1> QED
  BY <1>2, <1>3
=============================================================================
