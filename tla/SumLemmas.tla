----------------------------- MODULE SumLemmas -----------------------------
(***************************************************************************)
(* What the recursive definitions of the models compute, for every input:  *)
(* sums over finite sets (MapThenSumSet), partial sums over a sequence, and *)
(* the concatenation of sequences (FlattenSeq).  Each of these is a         *)
(* recursive function, in TLA+ the CHOICE of a function that satisfies an   *)
(* equation; the lemmas show that there is one.  Induction is by a least    *)
(* number: of the sizes, or positions, at which a statement fails, none is  *)
(* the least.                                                              *)
(***************************************************************************)
EXTENDS Integers, FiniteSetsExt, SequencesExt, FiniteSetTheorems,
        SequenceTheorems, WellFoundedInduction, TLAPS

\* A set of natural numbers that is not empty has a least element.
LEMMA LeastNumber ==
    ASSUME NEW T \in SUBSET Nat, T # {}
    PROVE  \E m \in T : \A n \in T : m <= n
  <1> DEFINE R == OpToRel(<, Nat)
  <1>1. IsWellFoundedOn(R, Nat)
    BY NatLessThanWellFounded
  <1>2. \A m, n \in Nat : <<n, m>> \in R <=> n < m
    BY DEF OpToRel
  <1> HIDE DEF R
  <1>3. PICK m \in T : \A n \in T : ~(<<n, m>> \in R)
    BY <1>1, WFMin
  <1>4. ASSUME NEW n \in T PROVE m <= n
    <2>1. m \in Nat /\ n \in Nat
      OBVIOUS
    <2>2. ~(n < m)
      BY <1>2, <1>3, <2>1
    <2> QED BY <2>1, <2>2
  <1> QED BY <1>4

\* Induction: a set that holds 0, and with a number the next, holds all.
LEMMA Induction ==
    ASSUME NEW G, 0 \in G, \A n \in Nat : n \in G => n + 1 \in G
    PROVE  \A n \in Nat : n \in G
  <1> SUFFICES ASSUME NEW k \in Nat, k \notin G PROVE FALSE
    OBVIOUS
  <1> DEFINE T == {n \in Nat : n \notin G}
  <1>1. PICK m \in T : \A n \in T : m <= n
    <2>1. T \in SUBSET Nat /\ T # {}
      OBVIOUS
    <2> HIDE DEF T
    <2> QED BY <2>1, LeastNumber
  <1>2. m \in Nat \ {0}
    OBVIOUS
  <1>3. m - 1 \in Nat /\ m - 1 \in G
    BY <1>1, <1>2
  <1>4. (m - 1) + 1 = m
    BY <1>2
  <1> QED BY <1>3, <1>4

-----------------------------------------------------------------------------
(* Sums over a finite set.                                                 *)

SumOf(f, S) == MapThenSumSet(LAMBDA x : f[x], S)

Picked(s) == CHOOSE x \in s : TRUE

\* g sums f over each subset of S, taking out one element after the other.
SumsUp(g, f, S) == g = [s \in SUBSET S |-> IF s = {} THEN 0
                                           ELSE f[Picked(s)] + g[s \ {Picked(s)}]]

\* MapThenSumSet is such a function, at S.
LEMMA SumIsChosen ==
    ASSUME NEW f, NEW S
    PROVE  SumOf(f, S) = (CHOOSE g : SumsUp(g, f, S))[S]
  BY DEF SumOf, MapThenSumSet, MapThenFoldSet, SumsUp, Picked

\* An element taken out of a finite set leaves a smaller one.
LEMMA PickedRest ==
    ASSUME NEW s, IsFiniteSet(s), s # {}
    PROVE  /\ Picked(s) \in s
           /\ IsFiniteSet(s \ {Picked(s)})
           /\ Cardinality(s) \in Nat \ {0}
           /\ Cardinality(s \ {Picked(s)}) = Cardinality(s) - 1
  <1>1. Picked(s) \in s
    BY DEF Picked
  <1>2. Cardinality(s) \in Nat
    BY FS_CardinalityType
  <1>3. Cardinality(s) # 0
    BY FS_EmptySet
  <1> QED BY <1>1, <1>2, <1>3, FS_RemoveElement

\* SumsUp for the subsets of at most n elements.
SumsUpTo(g, f, S, n) ==
    /\ g = [s \in SUBSET S |-> g[s]]
    /\ \A s \in SUBSET S : Cardinality(s) <= n =>
           g[s] = IF s = {} THEN 0 ELSE f[Picked(s)] + g[s \ {Picked(s)}]

\* There is a function that sums up the subsets of a finite set.
LEMMA SumExists ==
    ASSUME NEW f, NEW S, IsFiniteSet(S)
    PROVE  \E g : SumsUp(g, f, S)
  <1> DEFINE G == {n \in Nat : \E g : SumsUpTo(g, f, S, n)}
  <1>1. \A s \in SUBSET S : IsFiniteSet(s) /\ Cardinality(s) \in Nat
                              /\ Cardinality(s) <= Cardinality(S)
    BY FS_Subset, FS_CardinalityType
  <1>2. \A s \in SUBSET S : s # {} =>
            /\ s \ {Picked(s)} \in SUBSET S
            /\ Cardinality(s) \in Nat \ {0}
            /\ Cardinality(s \ {Picked(s)}) = Cardinality(s) - 1
    BY <1>1, PickedRest
  <1>3. 0 \in G
    <2> DEFINE g == [s \in SUBSET S |-> 0]
    <2>1. \A s \in SUBSET S : Cardinality(s) <= 0 => s = {}
      <3> SUFFICES ASSUME NEW s \in SUBSET S, Cardinality(s) <= 0, s # {} PROVE FALSE
        OBVIOUS
      <3>1. Cardinality(s) \in Nat \ {0}
        BY <1>2
      <3> QED BY <3>1
    <2>2. \A s \in SUBSET S : g[s] = 0
      OBVIOUS
    <2>3. g = [s \in SUBSET S |-> g[s]]
      OBVIOUS
    <2> HIDE DEF g
    <2>4. SumsUpTo(g, f, S, 0)
      BY <2>1, <2>2, <2>3 DEF SumsUpTo
    <2> QED BY <2>4
  <1>4. ASSUME NEW n \in Nat, n \in G PROVE n + 1 \in G
    <2>1. PICK g : SumsUpTo(g, f, S, n)
      BY <1>4
    <2> DEFINE h == [s \in SUBSET S |->
                        IF s = {} THEN 0
                        ELSE IF Cardinality(s) = n + 1
                             THEN f[Picked(s)] + g[s \ {Picked(s)}] ELSE g[s]]
    <2>2. \A s \in SUBSET S :
              /\ s = {} => h[s] = 0
              /\ s # {} /\ Cardinality(s) = n + 1 => h[s] = f[Picked(s)] + g[s \ {Picked(s)}]
              /\ s # {} /\ Cardinality(s) # n + 1 => h[s] = g[s]
      OBVIOUS
    <2>3. h = [s \in SUBSET S |-> h[s]]
      OBVIOUS
    <2> HIDE DEF h
    <2>4. \A s \in SUBSET S : Cardinality(s) <= n => h[s] = g[s]
      <3> TAKE s \in SUBSET S
      <3> HAVE Cardinality(s) <= n
      <3>1. CASE s = {}
        BY <2>1, <2>2, <3>1 DEF SumsUpTo
      <3>2. CASE s # {}
        <4>1. Cardinality(s) \in Nat
          BY <1>1
        <4>2. Cardinality(s) # n + 1
          BY <4>1
        <4> QED BY <2>2, <3>2, <4>2
      <3> QED BY <3>1, <3>2
    <2>5. \A s \in SUBSET S : Cardinality(s) <= n + 1 =>
              h[s] = IF s = {} THEN 0 ELSE f[Picked(s)] + h[s \ {Picked(s)}]
      <3> TAKE s \in SUBSET S
      <3> HAVE Cardinality(s) <= n + 1
      <3>1. CASE s = {}
        BY <2>2, <3>1
      <3>2. CASE s # {}
        <4>1. h[s \ {Picked(s)}] = g[s \ {Picked(s)}]
          BY <1>2, <2>4, <3>2
        <4>2. CASE Cardinality(s) = n + 1
          BY <2>2, <3>2, <4>1, <4>2
        <4>3. CASE Cardinality(s) # n + 1
          <5>1. Cardinality(s) <= n
            BY <1>1, <4>3
          <5>2. g[s] = f[Picked(s)] + g[s \ {Picked(s)}]
            BY <2>1, <3>2, <5>1 DEF SumsUpTo
          <5> QED BY <2>2, <3>2, <4>1, <4>3, <5>2
        <4> QED BY <4>2, <4>3
      <3> QED BY <3>1, <3>2
    <2>6. SumsUpTo(h, f, S, n + 1)
      BY <2>3, <2>5 DEF SumsUpTo
    <2> QED BY <2>6
  <1>5. \A n \in Nat : n \in G
    <2> HIDE DEF G
    <2> QED BY <1>3, <1>4, Induction
  <1>6. PICK g : SumsUpTo(g, f, S, Cardinality(S))
    BY <1>1, <1>5
  <1>7. SumsUp(g, f, S)
    BY <1>1, <1>6 DEF SumsUp, SumsUpTo
  <1> QED BY <1>7

\* Two such functions agree where both are defined.
LEMMA SumsAgree ==
    ASSUME NEW f, NEW S, IsFiniteSet(S), NEW R \in SUBSET S,
           NEW g, SumsUp(g, f, S), NEW h, SumsUp(h, f, R)
    PROVE  \A s \in SUBSET R : g[s] = h[s]
  <1> DEFINE G == {n \in Nat : \A s \in SUBSET R : Cardinality(s) <= n => g[s] = h[s]}
  <1>1. \A s \in SUBSET R : s \in SUBSET S /\ IsFiniteSet(s) /\ Cardinality(s) \in Nat
    <2> SUFFICES ASSUME NEW s \in SUBSET R PROVE IsFiniteSet(s) /\ Cardinality(s) \in Nat
      OBVIOUS
    <2>1. s \in SUBSET S
      OBVIOUS
    <2> QED BY <2>1, FS_Subset, FS_CardinalityType
  <1>2. \A s \in SUBSET R : s = {} => g[s] = 0 /\ h[s] = 0
    BY DEF SumsUp
  <1>3. \A s \in SUBSET R : s # {} =>
            /\ g[s] = f[Picked(s)] + g[s \ {Picked(s)}]
            /\ h[s] = f[Picked(s)] + h[s \ {Picked(s)}]
    BY DEF SumsUp
  <1>4. \A s \in SUBSET R : s # {} =>
            /\ s \ {Picked(s)} \in SUBSET R
            /\ Cardinality(s) \in Nat \ {0}
            /\ Cardinality(s \ {Picked(s)}) = Cardinality(s) - 1
    BY <1>1, PickedRest
  <1>5. 0 \in G
    <2> SUFFICES ASSUME NEW s \in SUBSET R, Cardinality(s) <= 0 PROVE g[s] = h[s]
      OBVIOUS
    <2>1. s # {} => Cardinality(s) \in Nat \ {0}
      BY <1>4
    <2>2. s = {}
      BY <2>1
    <2> QED BY <1>2, <2>2
  <1>6. ASSUME NEW n \in Nat, n \in G PROVE n + 1 \in G
    <2> SUFFICES ASSUME NEW s \in SUBSET R, Cardinality(s) <= n + 1, s # {}
                 PROVE  g[s] = h[s]
      BY <1>2
    <2>1. Cardinality(s \ {Picked(s)}) <= n /\ s \ {Picked(s)} \in SUBSET R
      BY <1>4
    <2>2. g[s \ {Picked(s)}] = h[s \ {Picked(s)}]
      BY <1>6, <2>1
    <2> QED BY <1>3, <2>2
  <1>7. \A n \in Nat : n \in G
    <2> HIDE DEF G
    <2> QED BY <1>5, <1>6, Induction
  <1> SUFFICES ASSUME NEW s \in SUBSET R PROVE g[s] = h[s]
    OBVIOUS
  <1>8. Cardinality(s) \in Nat /\ Cardinality(s) <= Cardinality(s)
    BY <1>1
  <1> QED BY <1>7, <1>8

\* MapThenSumSet satisfies the equation of its definition.
LEMMA SumStep ==
    ASSUME NEW f, NEW S, IsFiniteSet(S)
    PROVE  SumOf(f, S) = IF S = {} THEN 0 ELSE f[Picked(S)] + SumOf(f, S \ {Picked(S)})
  <1>1. PICK g : SumsUp(g, f, S) /\ SumOf(f, S) = g[S]
    BY SumExists, SumIsChosen
  <1>2. CASE S = {}
    BY <1>1, <1>2 DEF SumsUp
  <1>3. CASE S # {}
    <2> DEFINE R == S \ {Picked(S)}
    <2>1. IsFiniteSet(R) /\ R \in SUBSET S
      BY <1>3, PickedRest
    <2> HIDE DEF R
    <2>2. PICK h : SumsUp(h, f, R) /\ SumOf(f, R) = h[R]
      BY <2>1, SumExists, SumIsChosen
    <2>3. g[R] = h[R]
      BY <1>1, <2>1, <2>2, SumsAgree
    <2>4. g[S] = f[Picked(S)] + g[R]
      BY <1>1, <1>3 DEF SumsUp, R
    <2> QED BY <1>1, <1>3, <2>2, <2>3, <2>4 DEF R
  <1> QED BY <1>2, <1>3

\* A sum of natural numbers is one.
LEMMA SumNat ==
    ASSUME NEW S, IsFiniteSet(S), NEW f, \A x \in S : f[x] \in Nat
    PROVE  SumOf(f, S) \in Nat
  <1> DEFINE G == {n \in Nat : \A s \in SUBSET S : Cardinality(s) = n => SumOf(f, s) \in Nat}
  <1>1. \A s \in SUBSET S : IsFiniteSet(s) /\ Cardinality(s) \in Nat
    BY FS_Subset, FS_CardinalityType
  <1>2. 0 \in G
    <2> SUFFICES ASSUME NEW s \in SUBSET S, Cardinality(s) = 0 PROVE SumOf(f, s) \in Nat
      OBVIOUS
    <2>1. IsFiniteSet(s) /\ s = {}
      BY <1>1, FS_EmptySet
    <2>2. SumOf(f, s) = 0
      BY <2>1, SumStep
    <2> QED BY <2>2
  <1>3. ASSUME NEW n \in Nat, n \in G PROVE n + 1 \in G
    <2> SUFFICES ASSUME NEW s \in SUBSET S, Cardinality(s) = n + 1 PROVE SumOf(f, s) \in Nat
      OBVIOUS
    <2>1. IsFiniteSet(s) /\ s # {}
      BY <1>1, FS_EmptySet
    <2>2. Picked(s) \in s /\ Cardinality(s \ {Picked(s)}) = n
      BY <2>1, PickedRest
    <2>3. SumOf(f, s \ {Picked(s)}) \in Nat
      BY <1>3, <2>2
    <2>4. f[Picked(s)] \in Nat
      BY <2>2
    <2>5. SumOf(f, s) = f[Picked(s)] + SumOf(f, s \ {Picked(s)})
      BY <2>1, SumStep
    <2> QED BY <2>3, <2>4, <2>5
  <1>4. \A n \in Nat : n \in G
    <2> HIDE DEF G
    <2> QED BY <1>2, <1>3, Induction
  <1> QED BY <1>1, <1>4

\* A sum does not depend on which element is taken out first.
LEMMA SumRemove ==
    ASSUME NEW S, IsFiniteSet(S), NEW f, \A x \in S : f[x] \in Nat, NEW e \in S
    PROVE  SumOf(f, S) = f[e] + SumOf(f, S \ {e})
  <1> DEFINE G == {n \in Nat : \A s \in SUBSET S : Cardinality(s) = n =>
                                  \A x \in s : SumOf(f, s) = f[x] + SumOf(f, s \ {x})}
  <1>1. \A s \in SUBSET S : IsFiniteSet(s) /\ Cardinality(s) \in Nat
    BY FS_Subset, FS_CardinalityType
  <1>2. 0 \in G
    BY <1>1, FS_EmptySet
  <1>3. ASSUME NEW n \in Nat, n \in G PROVE n + 1 \in G
    <2> SUFFICES ASSUME NEW s \in SUBSET S, Cardinality(s) = n + 1, NEW x \in s
                 PROVE  SumOf(f, s) = f[x] + SumOf(f, s \ {x})
      OBVIOUS
    <2> DEFINE c == Picked(s)
               r == s \ {c}
               q == s \ {x}
    <2>1. IsFiniteSet(s) /\ s # {} /\ c \in s
      BY <1>1, PickedRest
    <2>2. SumOf(f, s) = f[c] + SumOf(f, r)
      BY <2>1, SumStep
    <2>3. CASE x = c
      BY <2>2, <2>3
    <2>4. CASE x # c
      <3>1. x \in r /\ c \in q /\ r \in SUBSET S /\ q \in SUBSET S /\ r \ {x} = q \ {c}
        BY <2>1, <2>4
      <3>2. Cardinality(r) = n /\ Cardinality(q) = n
        <4>1. Cardinality(r) = Cardinality(s) - 1
          BY <2>1, FS_RemoveElement
        <4>2. Cardinality(q) = Cardinality(s) - 1
          BY <2>1, FS_RemoveElement
        <4> QED BY <4>1, <4>2
      <3>3. SumOf(f, r) = f[x] + SumOf(f, r \ {x})
        BY <1>3, <3>1, <3>2
      <3>4. SumOf(f, q) = f[c] + SumOf(f, r \ {x})
        BY <1>3, <3>1, <3>2
      <3>5. IsFiniteSet(r \ {x}) /\ r \ {x} \in SUBSET S
        BY <1>1
      <3>6. SumOf(f, r \ {x}) \in Nat /\ f[x] \in Nat /\ f[c] \in Nat
        BY <2>1, <3>5, SumNat
      <3> HIDE DEF c, r, q
      <3>7. SumOf(f, s) = f[x] + SumOf(f, q)
        BY <2>2, <3>3, <3>4, <3>6
      <3> QED BY <3>7 DEF q
    <2> QED BY <2>3, <2>4
  <1>4. \A n \in Nat : n \in G
    <2> HIDE DEF G
    <2> QED BY <1>2, <1>3, Induction
  <1>5. S \in SUBSET S /\ Cardinality(S) \in Nat
    BY <1>1
  <1> QED BY <1>4, <1>5

\* The sum over two disjoint sets is that over the one and that over the other.
LEMMA SumUnion ==
    ASSUME NEW R, IsFiniteSet(R), NEW S, IsFiniteSet(S), R \cap S = {},
           NEW f, \A x \in R \cup S : f[x] \in Nat
    PROVE  SumOf(f, R \cup S) = SumOf(f, R) + SumOf(f, S)
  <1> DEFINE G == {n \in Nat : \A s \in SUBSET S : Cardinality(s) = n =>
                                  SumOf(f, R \cup s) = SumOf(f, R) + SumOf(f, s)}
  <1>1. \A s \in SUBSET S : IsFiniteSet(s) /\ Cardinality(s) \in Nat /\ IsFiniteSet(R \cup s)
    BY FS_Subset, FS_CardinalityType, FS_Union
  <1>2. \A s \in SUBSET S : SumOf(f, s) \in Nat /\ SumOf(f, R) \in Nat
    BY <1>1, SumNat
  <1>3. 0 \in G
    <2> SUFFICES ASSUME NEW s \in SUBSET S, Cardinality(s) = 0
                 PROVE  SumOf(f, R \cup s) = SumOf(f, R) + SumOf(f, s)
      OBVIOUS
    <2>1. s = {} /\ R \cup s = R /\ SumOf(f, s) = 0
      BY <1>1, FS_EmptySet, SumStep
    <2> QED BY <1>2, <2>1
  <1>4. ASSUME NEW n \in Nat, n \in G PROVE n + 1 \in G
    <2> SUFFICES ASSUME NEW s \in SUBSET S, Cardinality(s) = n + 1
                 PROVE  SumOf(f, R \cup s) = SumOf(f, R) + SumOf(f, s)
      OBVIOUS
    <2>0. IsFiniteSet(s) /\ s # {}
      <3>1. IsFiniteSet(s)
        BY <1>1
      <3> QED BY <3>1, FS_EmptySet
    <2>1. PICK e \in s : TRUE
      BY <2>0
    <2> DEFINE r == s \ {e}
               u == R \cup s
    <2>2. r \in SUBSET S /\ e \in u /\ u \ {e} = R \cup r
      OBVIOUS
    <2>3. Cardinality(r) = n
      <3>1. Cardinality(r) = Cardinality(s) - 1
        BY <2>0, <2>1, FS_RemoveElement
      <3> QED BY <3>1
    <2>4. SumOf(f, R \cup r) = SumOf(f, R) + SumOf(f, r)
      BY <1>4, <2>2, <2>3
    <2>5. SumOf(f, s) = f[e] + SumOf(f, r)
      BY <2>0, <2>1, SumRemove
    <2>6. SumOf(f, u) = f[e] + SumOf(f, R \cup r)
      <3>1. IsFiniteSet(u) /\ \A x \in u : f[x] \in Nat
        BY <1>1
      <3> HIDE DEF u
      <3>2. SumOf(f, u) = f[e] + SumOf(f, u \ {e})
        BY <2>2, <3>1, SumRemove
      <3> QED BY <2>2, <3>2
    <2>7. f[e] \in Nat /\ SumOf(f, R) \in Nat /\ SumOf(f, r) \in Nat
      BY <1>2, <2>1, <2>2
    <2> HIDE DEF r, u
    <2>8. SumOf(f, u) = SumOf(f, R) + SumOf(f, s)
      BY <2>4, <2>5, <2>6, <2>7
    <2> QED BY <2>8 DEF u
  <1>5. \A n \in Nat : n \in G
    <2> HIDE DEF G
    <2> QED BY <1>3, <1>4, Induction
  <1>6. S \in SUBSET S /\ Cardinality(S) \in Nat
    BY <1>1
  <1> QED BY <1>5, <1>6

\* What is left of a sum without some of its terms.
LEMMA SumDifference ==
    ASSUME NEW S, IsFiniteSet(S), NEW R \in SUBSET S, NEW f, \A x \in S : f[x] \in Nat
    PROVE  /\ SumOf(f, S) \in Nat /\ SumOf(f, R) \in Nat
           /\ SumOf(f, S \ R) = SumOf(f, S) - SumOf(f, R)
           /\ SumOf(f, R) <= SumOf(f, S)
  <1>1. IsFiniteSet(R) /\ IsFiniteSet(S \ R)
    BY FS_Subset
  <1>2. SumOf(f, S) = SumOf(f, R) + SumOf(f, S \ R)
    <2>1. R \cap (S \ R) = {} /\ R \cup (S \ R) = S
      OBVIOUS
    <2>2. \A x \in R \cup (S \ R) : f[x] \in Nat
      OBVIOUS
    <2>3. SumOf(f, R \cup (S \ R)) = SumOf(f, R) + SumOf(f, S \ R)
      BY <1>1, <2>1, <2>2, SumUnion
    <2> QED BY <2>1, <2>3
  <1>3. SumOf(f, R) \in Nat /\ SumOf(f, S \ R) \in Nat /\ SumOf(f, S) \in Nat
    BY <1>1, SumNat
  <1> QED BY <1>2, <1>3

-----------------------------------------------------------------------------
(* Partial sums.                                                           *)

\* f[n] is the sum of the first n terms of d.
RunsOver(f, N, d) == f = [n \in 0..N |-> IF n = 0 THEN 0 ELSE f[n - 1] + d[n]]

\* The equation of partial sums has one solution.
LEMMA OneRun ==
    ASSUME NEW N \in Nat, NEW d, NEW f, RunsOver(f, N, d), NEW g, RunsOver(g, N, d)
    PROVE  f = g
  <1> DEFINE G == {n \in Nat : n <= N => f[n] = g[n]}
  <1>1. \A n \in 0..N : /\ f[n] = IF n = 0 THEN 0 ELSE f[n - 1] + d[n]
                        /\ g[n] = IF n = 0 THEN 0 ELSE g[n - 1] + d[n]
    BY DEF RunsOver
  <1>2. 0 \in G
    BY <1>1
  <1>3. ASSUME NEW n \in Nat, n \in G PROVE n + 1 \in G
    <2> SUFFICES ASSUME n + 1 <= N PROVE f[n + 1] = g[n + 1]
      OBVIOUS
    <2>1. n + 1 \in 0..N /\ (n + 1) - 1 = n /\ f[n] = g[n]
      BY <1>3
    <2> QED BY <1>1, <2>1
  <1>4. \A n \in Nat : n \in G
    <2> HIDE DEF G
    <2> QED BY <1>2, <1>3, Induction
  <1>5. \A n \in 0..N : f[n] = g[n]
    BY <1>4
  <1> QED BY <1>5 DEF RunsOver

-----------------------------------------------------------------------------
(* The concatenation of a sequence of sequences.                           *)

\* f[i] is the concatenation of the first i sequences of s.
JoinedBy(f, s) == f = [i \in 1..Len(s) |-> IF i = 1 THEN s[i] ELSE f[i - 1] \o s[i]]

\* FlattenSeq is such a function, at the last sequence.
LEMMA FlattenIsChosen ==
    ASSUME NEW s
    PROVE  FlattenSeq(s) = IF Len(s) = 0 THEN s ELSE (CHOOSE f : JoinedBy(f, s))[Len(s)]
  BY DEF FlattenSeq, JoinedBy

\* The same for i up to n.
JoinsUpTo(f, s, n) ==
    /\ f = [i \in 1..Len(s) |-> f[i]]
    /\ \A i \in 1..n : f[i] = IF i = 1 THEN s[i] ELSE f[i - 1] \o s[i]

\* There is a function that joins any sequence.
LEMMA JoinExists ==
    ASSUME NEW X, NEW s \in Seq(X)
    PROVE  \E f : JoinedBy(f, s)
  <1> DEFINE G == {n \in Nat : n <= Len(s) => \E f : JoinsUpTo(f, s, n)}
  <1>0. Len(s) \in Nat
    OBVIOUS
  <1>1. 0 \in G
    <2> DEFINE f == [i \in 1..Len(s) |-> i]
    <2>1. f = [i \in 1..Len(s) |-> f[i]]
      OBVIOUS
    <2> HIDE DEF f
    <2>2. JoinsUpTo(f, s, 0)
      BY <2>1 DEF JoinsUpTo
    <2> QED BY <2>2
  <1>2. ASSUME NEW n \in Nat, n \in G PROVE n + 1 \in G
    <2> SUFFICES ASSUME n + 1 <= Len(s) PROVE \E f : JoinsUpTo(f, s, n + 1)
      OBVIOUS
    <2>1. PICK f : JoinsUpTo(f, s, n)
      BY <1>2, <1>0
    <2> DEFINE e == IF n + 1 = 1 THEN s[n + 1] ELSE f[n] \o s[n + 1]
    <2> HIDE DEF e
    <2> DEFINE g == [i \in 1..Len(s) |-> IF i = n + 1 THEN e ELSE f[i]]
    <2>2. g = [i \in 1..Len(s) |-> g[i]]
      OBVIOUS
    <2>3. (\A i \in 1..n : g[i] = f[i]) /\ g[n + 1] = e
      BY <1>0
    <2> HIDE DEF g
    <2>4. ASSUME NEW i \in 1..(n + 1)
          PROVE  g[i] = IF i = 1 THEN s[i] ELSE g[i - 1] \o s[i]
      <3>1. CASE i = n + 1
        <4>1. i # 1 => i - 1 = n /\ n \in 1..n
          BY <3>1
        <4> QED BY <2>3, <3>1, <4>1 DEF e
      <3>2. CASE i # n + 1
        <4>1. i \in 1..n /\ (i # 1 => i - 1 \in 1..n)
          BY <3>2
        <4> QED BY <2>1, <2>3, <4>1 DEF JoinsUpTo
      <3> QED BY <3>1, <3>2
    <2>5. JoinsUpTo(g, s, n + 1)
      BY <2>2, <2>4 DEF JoinsUpTo
    <2> QED BY <2>5
  <1>3. \A n \in Nat : n \in G
    <2> HIDE DEF G
    <2> QED BY <1>1, <1>2, Induction
  <1>4. PICK f : JoinsUpTo(f, s, Len(s))
    BY <1>0, <1>3
  <1>5. JoinedBy(f, s)
    BY <1>4 DEF JoinsUpTo, JoinedBy
  <1> QED BY <1>5

\* Where the first sequences are the same, so is what they are joined to.
LEMMA JoinsAgree ==
    ASSUME NEW X, NEW s \in Seq(X), NEW t \in Seq(X), Len(s) <= Len(t),
           \A i \in 1..Len(s) : s[i] = t[i],
           NEW f, JoinedBy(f, s), NEW g, JoinedBy(g, t)
    PROVE  \A i \in 1..Len(s) : f[i] = g[i]
  <1> DEFINE G == {n \in Nat : \A i \in 1..Len(s) : i <= n => f[i] = g[i]}
  <1>0. Len(s) \in Nat /\ Len(t) \in Nat
    OBVIOUS
  <1>1. \A i \in 1..Len(s) :
            /\ f[i] = IF i = 1 THEN s[i] ELSE f[i - 1] \o s[i]
            /\ g[i] = IF i = 1 THEN s[i] ELSE g[i - 1] \o s[i]
    <2> TAKE i \in 1..Len(s)
    <2>1. i \in 1..Len(t) /\ s[i] = t[i]
      BY <1>0
    <2> QED BY <2>1 DEF JoinedBy
  <1>2. 0 \in G
    OBVIOUS
  <1>3. ASSUME NEW n \in Nat, n \in G PROVE n + 1 \in G
    <2> SUFFICES ASSUME NEW i \in 1..Len(s), i <= n + 1 PROVE f[i] = g[i]
      OBVIOUS
    <2>1. i # 1 => i - 1 \in 1..Len(s) /\ i - 1 <= n
      BY <1>0
    <2>2. i # 1 => f[i - 1] = g[i - 1]
      BY <1>3, <2>1
    <2> QED BY <1>1, <2>2
  <1>4. \A n \in Nat : n \in G
    <2> HIDE DEF G
    <2> QED BY <1>2, <1>3, Induction
  <1> QED BY <1>0, <1>4

\* FlattenSeq, one sequence at a time.
LEMMA FlattenStep ==
    ASSUME NEW X, NEW s \in Seq(X), NEW e \in X
    PROVE  FlattenSeq(Append(s, e)) = IF s = << >> THEN e ELSE FlattenSeq(s) \o e
  <1> DEFINE t == Append(s, e)
  <1>1. t \in Seq(X) /\ Len(s) \in Nat /\ Len(t) = Len(s) + 1
    OBVIOUS
  <1>2. t[Len(t)] = e /\ \A i \in 1..Len(s) : s[i] = t[i]
    OBVIOUS
  <1> HIDE DEF t
  <1>3. PICK g : JoinedBy(g, t) /\ FlattenSeq(t) = g[Len(t)]
    BY <1>1, JoinExists, FlattenIsChosen
  <1>4. g[Len(t)] = IF Len(t) = 1 THEN e ELSE g[Len(s)] \o e
    <2>1. Len(t) \in 1..Len(t) /\ Len(t) - 1 = Len(s)
      BY <1>1
    <2> QED BY <1>2, <1>3, <2>1 DEF JoinedBy
  <1>5. CASE s = << >>
    BY <1>1, <1>3, <1>4, <1>5 DEF t
  <1>6. CASE s # << >>
    <2>1. Len(s) \in Nat \ {0}
      BY <1>6
    <2>2. PICK f : JoinedBy(f, s) /\ FlattenSeq(s) = f[Len(s)]
      BY <2>1, JoinExists, FlattenIsChosen
    <2>3. Len(s) <= Len(t) /\ Len(t) # 1
      BY <1>1, <2>1
    <2>4. f[Len(s)] = g[Len(s)]
      <3>1. \A i \in 1..Len(s) : f[i] = g[i]
        BY <1>1, <1>2, <1>3, <2>2, <2>3, JoinsAgree
      <3> QED BY <2>1, <3>1
    <2> QED BY <1>3, <1>4, <1>6, <2>2, <2>3, <2>4 DEF t
  <1> QED BY <1>5, <1>6

\* Place n of the concatenation F of s is place col[n] of its sequence row[n];
\* each place of each sequence comes once, in order.
Listed(F, s, row, col) ==
    /\ \A n \in 1..Len(F) : /\ row[n] \in 1..Len(s)
                            /\ col[n] \in 1..Len(s[row[n]])
                            /\ F[n] = s[row[n]][col[n]]
    /\ \A k \in 1..Len(s) : \A j \in 1..Len(s[k]) :
           \E n \in 1..Len(F) : row[n] = k /\ col[n] = j
    /\ \A m, n \in 1..Len(F) : m < n =>
           row[m] < row[n] \/ (row[m] = row[n] /\ col[m] < col[n])

\* One more sequence adds its places at the end.
LEMMA ListedStep ==
    ASSUME NEW X, NEW s \in Seq(Seq(X)), NEW e \in Seq(X), NEW F \in Seq(X),
           NEW row, NEW col, Listed(F, s, row, col)
    PROVE  \E r, c : Listed(F \o e, Append(s, e), r, c)
  <1> DEFINE L == Len(F)
             N == Len(s)
             E == F \o e
             t == Append(s, e)
             r == [n \in 1..Len(E) |-> IF n <= L THEN row[n] ELSE N + 1]
             c == [n \in 1..Len(E) |-> IF n <= L THEN col[n] ELSE n - L]
  <1>1. /\ L \in Nat /\ N \in Nat /\ Len(e) \in Nat
        /\ Len(E) = L + Len(e) /\ Len(t) = N + 1
    OBVIOUS
  <1>2. /\ \A n \in 1..L : E[n] = F[n]
        /\ \A j \in 1..Len(e) : E[L + j] = e[j]
    OBVIOUS
  <1>3. (\A k \in 1..N : t[k] = s[k]) /\ t[N + 1] = e
    OBVIOUS
  <1>4. /\ \A n \in 1..L : r[n] = row[n] /\ c[n] = col[n]
        /\ \A n \in 1..Len(E) : n > L => r[n] = N + 1 /\ c[n] = n - L
    BY <1>1
  <1> HIDE DEF L, N, E, t, r, c
  <1>5. /\ \A n \in 1..L : /\ row[n] \in 1..N
                           /\ col[n] \in 1..Len(s[row[n]])
                           /\ F[n] = s[row[n]][col[n]]
        /\ \A k \in 1..N : \A j \in 1..Len(s[k]) : \E n \in 1..L : row[n] = k /\ col[n] = j
        /\ \A m, n \in 1..L : m < n => row[m] < row[n] \/ (row[m] = row[n] /\ col[m] < col[n])
    BY DEF Listed, L, N
  <1>6. ASSUME NEW n \in 1..Len(E)
        PROVE  r[n] \in 1..Len(t) /\ c[n] \in 1..Len(t[r[n]]) /\ E[n] = t[r[n]][c[n]]
    <2>1. CASE n <= L
      <3>1. n \in 1..L
        BY <1>1, <2>1
      <3>2. row[n] \in 1..N /\ t[row[n]] = s[row[n]]
        BY <1>3, <1>5, <3>1
      <3>3. row[n] \in 1..Len(t)
        BY <1>1, <3>2
      <3>4. r[n] = row[n] /\ c[n] = col[n] /\ E[n] = F[n]
        BY <1>2, <1>4, <3>1
      <3>5. col[n] \in 1..Len(s[row[n]]) /\ F[n] = s[row[n]][col[n]]
        BY <1>5, <3>1
      <3> QED BY <3>2, <3>3, <3>4, <3>5
    <2>2. CASE ~(n <= L)
      <3>1. n - L \in 1..Len(e) /\ L + (n - L) = n /\ n > L
        BY <1>1, <2>2
      <3>2. N + 1 \in 1..Len(t)
        BY <1>1
      <3> QED BY <1>2, <1>3, <1>4, <3>1, <3>2
    <2> QED BY <2>1, <2>2
  <1>7. ASSUME NEW k \in 1..Len(t), NEW j \in 1..Len(t[k])
        PROVE  \E n \in 1..Len(E) : r[n] = k /\ c[n] = j
    <2>1. CASE k = N + 1
      <3>1. j \in 1..Len(e) /\ L + j \in 1..Len(E) /\ L + j > L /\ (L + j) - L = j
        BY <1>1, <1>3, <2>1
      <3> QED BY <1>4, <2>1, <3>1
    <2>2. CASE k # N + 1
      <3>1. k \in 1..N
        BY <1>1, <2>2
      <3>2. j \in 1..Len(s[k])
        BY <1>3, <3>1
      <3>3. PICK n \in 1..L : row[n] = k /\ col[n] = j
        BY <1>5, <3>1, <3>2
      <3>4. n \in 1..Len(E)
        BY <1>1
      <3> QED BY <1>4, <3>3, <3>4
    <2> QED BY <2>1, <2>2
  <1>8. ASSUME NEW m \in 1..Len(E), NEW n \in 1..Len(E), m < n
        PROVE  r[m] < r[n] \/ (r[m] = r[n] /\ c[m] < c[n])
    <2>1. CASE n <= L
      <3>1. m \in 1..L /\ n \in 1..L
        BY <1>1, <1>8, <2>1
      <3> QED BY <1>4, <1>5, <1>8, <3>1
    <2>2. CASE m <= L /\ n > L
      <3>1. m \in 1..L
        BY <1>1, <2>2
      <3>2. row[m] \in 1..N
        BY <1>5, <3>1
      <3>3. row[m] < N + 1
        BY <1>1, <3>2
      <3> QED BY <1>4, <2>2, <3>1, <3>3
    <2>3. CASE m > L
      <3>1. n > L /\ m - L < n - L
        BY <1>1, <1>8, <2>3
      <3> QED BY <1>4, <2>3, <3>1
    <2> QED BY <1>1, <2>1, <2>2, <2>3
  <1>9. Listed(E, t, r, c)
    BY <1>6, <1>7, <1>8 DEF Listed
  <1> QED BY <1>9 DEF E, t

\* The two cases an induction over sequences begins with.
LEMMA NoLength == \A X : \A q \in Seq(X) : Len(q) = 0 => q = << >>
  OBVIOUS

LEMMA FlattenEmpty == FlattenSeq(<< >>) = << >>
  <1>1. Len(<< >>) = 0
    OBVIOUS
  <1> QED BY <1>1, FlattenIsChosen

\* FlattenSeq, one sequence at a time, from the empty one on.
LEMMA FlattenAppend ==
    ASSUME NEW X, NEW s \in Seq(Seq(X)), NEW e \in Seq(X)
    PROVE  FlattenSeq(Append(s, e)) = FlattenSeq(s) \o e
  <1>1. CASE s = << >>
    <2>1. FlattenSeq(s) = << >> /\ << >> \o e = e
      BY <1>1, FlattenEmpty
    <2> QED BY <1>1, <2>1, FlattenStep
  <1>2. CASE s # << >>
    BY <1>2, FlattenStep
  <1> QED BY <1>1, <1>2

\* What FlattenSeq returns.
LEMMA FlattenListed ==
    ASSUME NEW X, NEW s \in Seq(Seq(X))
    PROVE  /\ FlattenSeq(s) \in Seq(X)
           /\ \E row, col : Listed(FlattenSeq(s), s, row, col)
  <1> DEFINE Good(q) == /\ FlattenSeq(q) \in Seq(X)
                        /\ \E row, col : Listed(FlattenSeq(q), q, row, col)
             G == {n \in Nat : \A q \in Seq(Seq(X)) : Len(q) = n => Good(q)}
  <1>1. 0 \in G
    <2> SUFFICES ASSUME NEW q \in Seq(Seq(X)), Len(q) = 0 PROVE Good(q)
      OBVIOUS
    <2>1. q = << >>
      BY NoLength
    <2>2. Listed(<< >>, << >>, 0, 0)
      BY DEF Listed
    <2>3. << >> \in Seq(X)
      OBVIOUS
    <2> QED BY <2>1, <2>2, <2>3, FlattenEmpty
  <1>2. ASSUME NEW n \in Nat, n \in G PROVE n + 1 \in G
    <2> SUFFICES ASSUME NEW q \in Seq(Seq(X)), Len(q) = n + 1 PROVE Good(q)
      OBVIOUS
    <2> DEFINE p == SubSeq(q, 1, n)
               e == q[n + 1]
    <2>1. p \in Seq(Seq(X)) /\ Len(p) = n /\ e \in Seq(X) /\ q = Append(p, e)
      OBVIOUS
    <2>2. Good(p)
      BY <1>2, <2>1
    <2> HIDE DEF p, e
    <2>3. FlattenSeq(q) = FlattenSeq(p) \o e
      BY <2>1, FlattenAppend
    <2>4. FlattenSeq(p) \o e \in Seq(X)
      BY <2>1, <2>2
    <2>5. \E row, col : Listed(FlattenSeq(p) \o e, q, row, col)
      BY <2>1, <2>2, ListedStep
    <2> QED BY <2>3, <2>4, <2>5
  <1>3. \A n \in Nat : n \in G
    <2> HIDE DEF G
    <2> QED BY <1>1, <1>2, Induction
  <1> QED BY <1>3

\* The places of a longer sequence of sequences begin with those of a shorter.
LEMMA FlattenPrefix ==
    ASSUME NEW X, NEW s \in Seq(Seq(X)), NEW t \in Seq(Seq(X))
    PROVE  FlattenSeq(s \o t) = FlattenSeq(s) \o FlattenSeq(t)
  <1> DEFINE G == {n \in Nat : \A q \in Seq(Seq(X)) : Len(q) = n =>
                       FlattenSeq(s \o q) = FlattenSeq(s) \o FlattenSeq(q)}
  <1>1. 0 \in G
    <2> SUFFICES ASSUME NEW q \in Seq(Seq(X)), Len(q) = 0
                 PROVE  FlattenSeq(s \o q) = FlattenSeq(s) \o FlattenSeq(q)
      OBVIOUS
    <2>1. q = << >>
      BY NoLength
    <2>2. FlattenSeq(s) \in Seq(X)
      BY FlattenListed
    <2>3. s \o << >> = s /\ FlattenSeq(s) \o << >> = FlattenSeq(s)
      BY <2>2
    <2> QED BY <2>1, <2>3, FlattenEmpty
  <1>2. ASSUME NEW n \in Nat, n \in G PROVE n + 1 \in G
    <2> SUFFICES ASSUME NEW q \in Seq(Seq(X)), Len(q) = n + 1
                 PROVE  FlattenSeq(s \o q) = FlattenSeq(s) \o FlattenSeq(q)
      OBVIOUS
    <2> DEFINE p == SubSeq(q, 1, n)
               e == q[n + 1]
    <2>1. p \in Seq(Seq(X)) /\ Len(p) = n /\ e \in Seq(X) /\ q = Append(p, e)
      OBVIOUS
    <2>2. FlattenSeq(s \o p) = FlattenSeq(s) \o FlattenSeq(p)
      BY <1>2, <2>1
    <2> HIDE DEF p, e
    <2>3. s \o p \in Seq(Seq(X)) /\ s \o q = Append(s \o p, e)
      BY <2>1
    <2>4. FlattenSeq(s \o q) = (FlattenSeq(s) \o FlattenSeq(p)) \o e
      BY <2>1, <2>2, <2>3, FlattenAppend
    <2>5. FlattenSeq(q) = FlattenSeq(p) \o e
      BY <2>1, FlattenAppend
    <2>6. FlattenSeq(s) \in Seq(X) /\ FlattenSeq(p) \in Seq(X)
      BY <2>1, FlattenListed
    <2>7. (FlattenSeq(s) \o FlattenSeq(p)) \o e = FlattenSeq(s) \o (FlattenSeq(p) \o e)
      BY <2>1, <2>6, ConcatAssociative
    <2> QED BY <2>4, <2>5, <2>7
  <1>3. \A n \in Nat : n \in G
    <2> HIDE DEF G
    <2> QED BY <1>1, <1>2, Induction
  <1>4. Len(t) \in Nat
    OBVIOUS
  <1> QED BY <1>3, <1>4
=============================================================================
