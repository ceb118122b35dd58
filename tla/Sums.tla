-------------------------------- MODULE Sums --------------------------------
(***************************************************************************)
(* Facts about SumFunctionOnSet, of which the library states none: what a  *)
(* sum of natural numbers over a finite set is, and how it changes with    *)
(* one of them.  Each is by induction, in the form that the provers can    *)
(* use: a set of numbers that is not empty has a least one.                *)
(***************************************************************************)
EXTENDS Integers, FiniteSetTheorems, TLAPS

LEMMA LeastNumber ==
    ASSUME NEW T \in SUBSET Nat, T # {}
    PROVE  \E x \in T : \A y \in T : x <= y
  <1> DEFINE R == OpToRel(<, Nat)
  <1>1. IsWellFoundedOn(R, Nat)
    BY NatLessThanWellFounded, Zenon
  <1>2. PICK x \in T : \A y \in T : ~(<<y, x>> \in R)
    <2> HIDE DEF R
    <2>1. T \subseteq Nat OBVIOUS
    <2>2. QED BY ONLY <1>1, <2>1, T # {}, WFMin, Zenon
  <1>3. \A y \in T : ~(y < x)
    BY <1>2 DEF OpToRel
  <1>4. QED BY <1>3

(* Induction, for a set instead of a predicate.                            *)
LEMMA InductiveSet ==
    ASSUME NEW T, 0 \in T, \A n \in Nat : n \in T => n + 1 \in T
    PROVE  Nat \subseteq T
  <1>1. SUFFICES ASSUME Nat \ T # {} PROVE FALSE
    OBVIOUS
  <1>2. PICK x \in Nat \ T : \A y \in Nat \ T : x <= y
    <2>1. Nat \ T \in SUBSET Nat OBVIOUS
    <2>2. QED BY ONLY <1>1, <2>1, LeastNumber
  <1>3. x # 0 /\ x - 1 \in Nat
    BY <1>2
  <1>4. x - 1 \in T
    BY <1>2, <1>3
  <1>5. (x - 1) + 1 \in T
    BY <1>3, <1>4
  <1>6. QED BY <1>2, <1>5

-----------------------------------------------------------------------------
(* The recursive function that a sum is defined by.                        *)

Pick(s) == CHOOSE x \in s : TRUE
SumStep(g, f, s) == IF s = {} THEN 0 ELSE f[Pick(s)] + g[s \ {Pick(s)}]
Sums(f, S) == CHOOSE g : g = [s \in SUBSET S |-> SumStep(g, f, s)]

LEMMA SumIsSums ==
    ASSUME NEW f, NEW S
    PROVE  SumFunctionOnSet(f, S) = Sums(f, S)[S]
  BY DEF SumFunctionOnSet, FoldFunctionOnSet, MapThenFoldSet, Sums, SumStep, Pick

(* The subsets of no more than n elements.                                 *)
UpTo(S, n) == {s \in SUBSET S : Cardinality(s) <= n}

LEMMA PickFacts ==
    ASSUME NEW s, s # {}
    PROVE  Pick(s) \in s
  BY DEF Pick

LEMMA SubsetFacts ==
    ASSUME NEW S, IsFiniteSet(S), NEW s \in SUBSET S
    PROVE  /\ IsFiniteSet(s) /\ Cardinality(s) \in Nat /\ Cardinality(s) <= Cardinality(S)
           /\ Cardinality(s) = 0 <=> s = {}
           /\ \A x \in s : /\ s \ {x} \in SUBSET S
                           /\ Cardinality(s \ {x}) = Cardinality(s) - 1
                           /\ Cardinality(s) - 1 \in Nat
  <1>1. IsFiniteSet(s) /\ Cardinality(s) <= Cardinality(S)
    BY FS_Subset
  <1>2. Cardinality(s) \in Nat
    BY <1>1, FS_CardinalityType
  <1>3. Cardinality(s) = 0 <=> s = {}
    BY <1>1, FS_EmptySet
  <1>4. ASSUME NEW x \in s
        PROVE  Cardinality(s \ {x}) = Cardinality(s) - 1 /\ Cardinality(s) - 1 \in Nat
    <2>1. Cardinality(s \ {x}) = Cardinality(s) - 1
      BY <1>1, FS_RemoveElement
    <2>2. Cardinality(s) # 0
      BY <1>3
    <2>3. QED BY <1>2, <2>1, <2>2
  <1>5. QED BY <1>1, <1>2, <1>3, <1>4

(* It exists, for the functions on the subsets of ever more elements do.   *)
LEMMA SumsRecursion ==
    ASSUME NEW f, NEW S, IsFiniteSet(S)
    PROVE  \A s \in SUBSET S : Sums(f, S)[s] = SumStep(Sums(f, S), f, s)
  <1> DEFINE Defined(g, n) == g = [s \in UpTo(S, n) |-> SumStep(g, f, s)]
             T == {n \in Nat : \E g : Defined(g, n)}
  <1>1. 0 \in T
    <2> DEFINE g == [s \in UpTo(S, 0) |-> 0]
    <2>1. UpTo(S, 0) = {{}}
      <3>1. ASSUME NEW s \in UpTo(S, 0) PROVE s = {}
        BY SubsetFacts DEF UpTo
      <3>2. {} \in UpTo(S, 0)
        BY SubsetFacts DEF UpTo
      <3>3. QED BY <3>1, <3>2
    <2>2. Defined(g, 0)
      BY <2>1 DEF SumStep
    <2>3. QED BY <2>2
  <1>2. ASSUME NEW n \in Nat, n \in T PROVE n + 1 \in T
    <2>1. PICK g : Defined(g, n)
      BY <1>2
    <2> DEFINE h == [s \in UpTo(S, n + 1) |-> SumStep(g, f, s)]
    <2>2. ASSUME NEW s \in UpTo(S, n + 1) PROVE SumStep(h, f, s) = SumStep(g, f, s)
      <3>1. CASE s = {}
        BY <3>1 DEF SumStep
      <3>2. CASE s # {}
        <4> DEFINE t == s \ {Pick(s)}
        <4>1. t \in UpTo(S, n) /\ t \in UpTo(S, n + 1)
          BY <3>2, PickFacts, SubsetFacts DEF UpTo
        <4>2. h[t] = SumStep(g, f, t)
          BY <4>1
        <4>3. g[t] = SumStep(g, f, t)
          BY <2>1, <4>1
        <4>4. h[t] = g[t]
          BY <4>2, <4>3
        <4> HIDE DEF h
        <4>5. QED BY <3>2, <4>4 DEF SumStep
      <3>3. QED BY <3>1, <3>2
    <2>3. Defined(h, n + 1)
      BY <2>2
    <2>4. \E k : Defined(k, n + 1)
      BY <2>3
    <2>5. QED BY <2>4
  <1> HIDE DEF T
  <1>3. Cardinality(S) \in T
    BY <1>1, <1>2, InductiveSet, FS_CardinalityType
  <1>4. PICK g : Defined(g, Cardinality(S))
    BY <1>3 DEF T
  <1>5. UpTo(S, Cardinality(S)) = SUBSET S
    BY SubsetFacts DEF UpTo
  <1>6. g = [s \in SUBSET S |-> SumStep(g, f, s)]
    BY <1>4, <1>5
  <1>7. Sums(f, S) = [s \in SUBSET S |-> SumStep(Sums(f, S), f, s)]
    BY <1>6 DEF Sums
  <1>8. QED BY ONLY <1>7

(* A sum does not depend on which of the numbers is taken first.           *)
LEMMA SumsFacts ==
    ASSUME NEW f, NEW S, IsFiniteSet(S), \A x \in S : f[x] \in Nat
    PROVE  \A s \in SUBSET S :
              /\ Sums(f, S)[s] \in Nat
              /\ s = {} => Sums(f, S)[s] = 0
              /\ \A x \in s : Sums(f, S)[s] = f[x] + Sums(f, S)[s \ {x}]
  <1> DEFINE g == Sums(f, S)
             Fact(s) == /\ g[s] \in Nat
                        /\ s = {} => g[s] = 0
                        /\ \A x \in s : g[s] = f[x] + g[s \ {x}]
             T == {n \in Nat : \A s \in UpTo(S, n) : Fact(s)}
  <1>1. \A s \in SUBSET S : g[s] = SumStep(g, f, s)
    BY ONLY IsFiniteSet(S), SumsRecursion
  <1> HIDE DEF g
  <1>2. ASSUME NEW s \in UpTo(S, 0) PROVE Fact(s)
    <2>1. s = {} /\ s \in SUBSET S
      BY SubsetFacts DEF UpTo
    <2>2. g[s] = 0
      BY <1>1, <2>1 DEF SumStep
    <2>3. QED BY <2>1, <2>2
  <1>3. ASSUME NEW n \in Nat, n \in T PROVE n + 1 \in T
    <2>1. SUFFICES ASSUME NEW s \in UpTo(S, n + 1) PROVE Fact(s)
      OBVIOUS
    <2>2. CASE s = {}
      <3>1. s \in UpTo(S, 0)
        BY <2>2, SubsetFacts DEF UpTo
      <3>2. QED BY <1>2, <3>1
    <2>3. CASE s # {}
      <3> DEFINE y == Pick(s)
      <3>1. y \in s /\ s \in SUBSET S
        BY <2>3, PickFacts DEF UpTo
      <3> HIDE DEF y
      <3>2. g[s] = f[y] + g[s \ {y}]
        BY <1>1, <2>3, <3>1 DEF SumStep, y
      <3>3. \A x \in s : s \ {x} \in UpTo(S, n)
        BY <3>1, SubsetFacts DEF UpTo
      <3>4. \A x \in s : Fact(s \ {x})
        BY <1>3, <3>3
      <3>5. ASSUME NEW x \in s PROVE g[s] = f[x] + g[s \ {x}]
        <4>1. CASE x = y
          BY <3>2, <4>1
        <4>2. CASE x # y
          <5>1. x \in s \ {y} /\ y \in s \ {x}
            BY <3>1, <4>2
          <5>2. (s \ {y}) \ {x} = (s \ {x}) \ {y}
            OBVIOUS
          <5>3. g[s \ {y}] = f[x] + g[(s \ {x}) \ {y}]
            BY <3>1, <3>4, <5>1, <5>2
          <5>4. g[s \ {x}] = f[y] + g[(s \ {x}) \ {y}]
            BY <3>4, <5>1
          <5>5. g[(s \ {x}) \ {y}] \in Nat
            <6>1. s \ {x} \in SUBSET S /\ s \ {x} \in UpTo(S, n)
              BY <3>1, <3>3
            <6>2. (s \ {x}) \ {y} \in UpTo(S, n)
              BY <5>1, <6>1, SubsetFacts DEF UpTo
            <6>3. QED BY <1>3, <6>2
          <5>6. f[x] \in Nat /\ f[y] \in Nat
            BY <3>1
          <5>7. QED BY <3>2, <5>3, <5>4, <5>5, <5>6
        <4>3. QED BY <4>1, <4>2
      <3>6. g[s] \in Nat
        BY <3>1, <3>2, <3>4
      <3>7. QED BY <2>3, <3>5, <3>6
    <2>4. QED BY <2>2, <2>3
  <1>4. 0 \in T
    BY <1>2
  <1> HIDE DEF T
  <1>5. Cardinality(S) \in T
    BY <1>3, <1>4, InductiveSet, FS_CardinalityType
  <1>6. UpTo(S, Cardinality(S)) = SUBSET S
    BY SubsetFacts DEF UpTo
  <1>7. \A s \in SUBSET S : Fact(s)
    BY <1>5, <1>6 DEF T
  <1>8. QED BY <1>7 DEF g

(* Nor on the set that the functions of the definition are defined on, nor *)
(* on numbers that are not in the sum.                                     *)
LEMMA SumsAgree ==
    ASSUME NEW f, NEW h, NEW S, NEW R, IsFiniteSet(S), R \in SUBSET S,
           \A x \in S : f[x] \in Nat, \A x \in R : h[x] = f[x]
    PROVE  Sums(f, S)[R] = Sums(h, R)[R]
  <1> DEFINE T == {n \in Nat : \A s \in UpTo(R, n) : Sums(f, S)[s] = Sums(h, R)[s]}
  <1>1. IsFiniteSet(R) /\ \A x \in R : h[x] \in Nat /\ x \in S
    BY SubsetFacts
  <1>2. \A s \in SUBSET R : s \in SUBSET S
    OBVIOUS
  <1>3. ASSUME NEW s \in UpTo(R, 0) PROVE Sums(f, S)[s] = Sums(h, R)[s]
    <2>1. s = {} /\ s \in SUBSET R
      BY <1>1, SubsetFacts DEF UpTo
    <2>2. QED BY <1>1, <1>2, <2>1, SumsFacts
  <1>4. ASSUME NEW n \in Nat, n \in T PROVE n + 1 \in T
    <2>1. SUFFICES ASSUME NEW s \in UpTo(R, n + 1) PROVE Sums(f, S)[s] = Sums(h, R)[s]
      OBVIOUS
    <2>2. s \in SUBSET R
      BY DEF UpTo
    <2>3. CASE s = {}
      BY <1>1, <1>2, <2>2, <2>3, SumsFacts
    <2>4. CASE s # {}
      <3>1. PICK x : x \in s
        BY <2>4
      <3>2. s \ {x} \in UpTo(R, n)
        BY <1>1, <2>2, <3>1, SubsetFacts DEF UpTo
      <3>3. Sums(f, S)[s \ {x}] = Sums(h, R)[s \ {x}]
        BY <1>4, <3>2
      <3>4. Sums(f, S)[s] = f[x] + Sums(f, S)[s \ {x}]
        BY <1>2, <2>2, <3>1, SumsFacts
      <3>5. Sums(h, R)[s] = h[x] + Sums(h, R)[s \ {x}]
        BY <1>1, <2>2, <3>1, SumsFacts
      <3>6. h[x] = f[x]
        BY <2>2, <3>1
      <3>7. QED BY <3>3, <3>4, <3>5, <3>6
    <2>5. QED BY <2>3, <2>4
  <1>5. 0 \in T
    BY <1>3
  <1> HIDE DEF T
  <1>6. Cardinality(R) \in T
    BY <1>1, <1>4, <1>5, InductiveSet, FS_CardinalityType
  <1>7. R \in UpTo(R, Cardinality(R))
    BY <1>1, SubsetFacts DEF UpTo
  <1>8. QED BY <1>6, <1>7 DEF T

-----------------------------------------------------------------------------
(* The facts that the proofs cite.                                         *)

(* A sum of numbers is one.                                                *)
LEMMA SumType ==
    ASSUME NEW f, NEW S, IsFiniteSet(S), \A x \in S : f[x] \in Nat
    PROVE  SumFunctionOnSet(f, S) \in Nat
  BY SumIsSums, SumsFacts

LEMMA SumOfNone == ASSUME NEW f PROVE SumFunctionOnSet(f, {}) = 0
  <1>1. IsFiniteSet({})
    BY FS_EmptySet
  <1>2. QED BY <1>1, SumIsSums, SumsFacts

(* It is any one of them and the sum of the others.                        *)
LEMMA SumWithout ==
    ASSUME NEW f, NEW S, IsFiniteSet(S), \A x \in S : f[x] \in Nat, NEW x \in S
    PROVE  SumFunctionOnSet(f, S) = f[x] + SumFunctionOnSet(f, S \ {x})
  <1>1. Sums(f, S)[S] = f[x] + Sums(f, S)[S \ {x}]
    BY SumsFacts
  <1>2. Sums(f, S)[S \ {x}] = Sums(f, S \ {x})[S \ {x}]
    BY SumsAgree
  <1>3. QED BY <1>1, <1>2, SumIsSums

(* And it is that of these numbers only.                                   *)
LEMMA SumOfSame ==
    ASSUME NEW f, NEW h, NEW S, IsFiniteSet(S), \A x \in S : f[x] \in Nat /\ h[x] = f[x]
    PROVE  SumFunctionOnSet(f, S) = SumFunctionOnSet(h, S)
  <1>1. Sums(f, S)[S] = Sums(h, S)[S]
    BY SumsAgree
  <1>2. QED BY <1>1, SumIsSums

(* With one of the numbers another.                                        *)
LEMMA SumWithAnother ==
    ASSUME NEW S, IsFiniteSet(S), NEW f \in [S -> Nat], NEW h \in [S -> Nat], NEW x \in S,
           \A y \in S \ {x} : h[y] = f[y]
    PROVE  /\ SumFunction(f) \in Nat /\ SumFunction(h) \in Nat
           /\ SumFunction(h) = SumFunction(f) - f[x] + h[x]
           /\ f[x] <= SumFunction(f)
  <1>1. SumFunction(f) = SumFunctionOnSet(f, S) /\ SumFunction(h) = SumFunctionOnSet(h, S)
    BY DEF SumFunction
  <1>2. IsFiniteSet(S \ {x}) /\ \A y \in S : f[y] \in Nat /\ h[y] \in Nat
    BY FS_RemoveElement
  <1>3. SumFunctionOnSet(f, S) = f[x] + SumFunctionOnSet(f, S \ {x})
    BY <1>2, SumWithout
  <1>4. SumFunctionOnSet(h, S) = h[x] + SumFunctionOnSet(h, S \ {x})
    BY <1>2, SumWithout
  <1>5. SumFunctionOnSet(f, S \ {x}) = SumFunctionOnSet(h, S \ {x})
    BY <1>2, SumOfSame
  <1>6. SumFunctionOnSet(f, S \ {x}) \in Nat
    BY <1>2, SumType
  <1>7. f[x] \in Nat /\ h[x] \in Nat
    OBVIOUS
  <1>8. QED BY <1>1, <1>3, <1>4, <1>5, <1>6, <1>7

LEMMA SumFunctionType ==
    ASSUME NEW S, IsFiniteSet(S), NEW f \in [S -> Nat]
    PROVE  SumFunction(f) \in Nat
  <1>1. SumFunction(f) = SumFunctionOnSet(f, S)
    BY DEF SumFunction
  <1>2. \A x \in S : f[x] \in Nat
    OBVIOUS
  <1>3. QED BY <1>1, <1>2, SumType

(* A sum of zeros.                                                         *)
LEMMA SumOfZeros ==
    ASSUME NEW S, IsFiniteSet(S), NEW f, \A x \in S : f[x] = 0
    PROVE  SumFunctionOnSet(f, S) = 0
  <1> DEFINE T == {n \in Nat : \A s \in UpTo(S, n) : SumFunctionOnSet(f, s) = 0}
  <1>1. ASSUME NEW s \in UpTo(S, 0) PROVE SumFunctionOnSet(f, s) = 0
    <2>1. s = {}
      BY SubsetFacts DEF UpTo
    <2>2. QED BY <2>1, SumOfNone
  <1>2. ASSUME NEW n \in Nat, n \in T PROVE n + 1 \in T
    <2>1. SUFFICES ASSUME NEW s \in UpTo(S, n + 1), s # {} PROVE SumFunctionOnSet(f, s) = 0
      BY SumOfNone
    <2>2. PICK x : x \in s
      BY <2>1
    <2>3. s \in SUBSET S /\ IsFiniteSet(s) /\ s \ {x} \in UpTo(S, n)
      BY <2>2, SubsetFacts DEF UpTo
    <2>4. SumFunctionOnSet(f, s \ {x}) = 0
      BY <1>2, <2>3
    <2>5. SumFunctionOnSet(f, s) = f[x] + SumFunctionOnSet(f, s \ {x})
      BY <2>2, <2>3, SumWithout
    <2>6. QED BY <2>2, <2>3, <2>4, <2>5
  <1>3. 0 \in T
    BY <1>1
  <1> HIDE DEF T
  <1>4. Cardinality(S) \in T
    BY <1>2, <1>3, InductiveSet, FS_CardinalityType
  <1>5. S \in UpTo(S, Cardinality(S))
    BY SubsetFacts DEF UpTo
  <1>6. QED BY <1>4, <1>5 DEF T

(* A set with one more element, which it may have had before.              *)
LEMMA OneMore ==
    ASSUME NEW S, IsFiniteSet(S), NEW x
    PROVE  /\ IsFiniteSet(S \cup {x})
           /\ Cardinality(S) \in Nat /\ Cardinality(S \cup {x}) \in Nat
           /\ Cardinality(S \cup {x}) <= Cardinality(S) + 1
           /\ x \notin S => Cardinality(S \cup {x}) = Cardinality(S) + 1
  <1>1. IsFiniteSet(S \cup {x}) /\ Cardinality(S) \in Nat /\ Cardinality(S \cup {x}) \in Nat
    BY FS_AddElement, FS_CardinalityType
  <1>2. Cardinality(S \cup {x}) = IF x \in S THEN Cardinality(S) ELSE Cardinality(S) + 1
    BY FS_AddElement
  <1>3. QED BY <1>1, <1>2

(* A set with fewer elements.                                              *)
LEMMA Fewer ==
    ASSUME NEW S, IsFiniteSet(S), NEW R, R \subseteq S
    PROVE  /\ IsFiniteSet(R) /\ Cardinality(S) \in Nat /\ Cardinality(R) \in Nat
           /\ Cardinality(R) <= Cardinality(S)
           /\ R # S => Cardinality(R) < Cardinality(S)
  BY FS_Subset, FS_CardinalityType

(* Elements that move from one set to another.                             *)
LEMMA MovedElements ==
    ASSUME NEW S, IsFiniteSet(S), NEW T, IsFiniteSet(T), NEW M, M \subseteq S
    PROVE  /\ IsFiniteSet(S \ M) /\ IsFiniteSet(T \cup M)
           /\ Cardinality(S \ M) \in Nat /\ Cardinality(T \cup M) \in Nat
           /\ Cardinality(S) \in Nat /\ Cardinality(T) \in Nat
           /\ Cardinality(S \ M) <= Cardinality(S)
           /\ Cardinality(T \cup M) + Cardinality(S \ M) <= Cardinality(T) + Cardinality(S)
  <1>1. IsFiniteSet(M) /\ IsFiniteSet(S \ M) /\ Cardinality(S \ M) <= Cardinality(S)
    BY FS_Subset
  <1>2. /\ IsFiniteSet(T \cup M)
        /\ Cardinality(T \cup M) = Cardinality(T) + Cardinality(M) - Cardinality(T \cap M)
    BY <1>1, FS_Union
  <1>3. IsFiniteSet(T \cap M)
    BY <1>1, FS_Subset
  <1>4. Cardinality(S) = Cardinality(S \ M) + Cardinality(M)
    <2>1. Cardinality((S \ M) \cup M)
          = Cardinality(S \ M) + Cardinality(M) - Cardinality((S \ M) \cap M)
      BY <1>1, FS_Union
    <2>2. (S \ M) \cup M = S /\ (S \ M) \cap M = {}
      OBVIOUS
    <2>3. Cardinality({}) = 0
      BY FS_EmptySet
    <2>4. Cardinality(S \ M) \in Nat /\ Cardinality(M) \in Nat
      BY <1>1, FS_CardinalityType
    <2>5. Cardinality(S) = Cardinality(S \ M) + Cardinality(M) - Cardinality({})
      BY <2>1, <2>2, Zenon
    <2> QED
      BY <2>3, <2>4, <2>5
  <1>5. /\ Cardinality(S) \in Nat /\ Cardinality(T) \in Nat /\ Cardinality(M) \in Nat
        /\ Cardinality(S \ M) \in Nat /\ Cardinality(T \cup M) \in Nat
        /\ Cardinality(T \cap M) \in Nat
    BY <1>1, <1>2, <1>3, FS_CardinalityType
  <1> QED
    BY <1>1, <1>2, <1>4, <1>5

(* The sum of two sets that have nothing in common.                        *)
LEMMA SumOfDisjoint ==
    ASSUME NEW S, IsFiniteSet(S), NEW R, IsFiniteSet(R), S \cap R = {},
           NEW f, \A x \in S \cup R : f[x] \in Nat
    PROVE  SumFunctionOnSet(f, S \cup R) = SumFunctionOnSet(f, S) + SumFunctionOnSet(f, R)
  <1> DEFINE Fact(s) == SumFunctionOnSet(f, S \cup s) = SumFunctionOnSet(f, S) + SumFunctionOnSet(f, s)
             T == {n \in Nat : \A s \in UpTo(R, n) : Fact(s)}
  <1>1. SumFunctionOnSet(f, S) \in Nat
    BY SumType
  <1>2. Fact({})
    <2>1. S \cup {} = S
      OBVIOUS
    <2>2. QED BY <1>1, <2>1, SumOfNone
  <1>3. ASSUME NEW s \in UpTo(R, 0) PROVE Fact(s)
    <2>1. s = {}
      BY SubsetFacts DEF UpTo
    <2>2. QED BY <1>2, <2>1
  <1>4. ASSUME NEW n \in Nat, n \in T PROVE n + 1 \in T
    <2>1. SUFFICES ASSUME NEW s \in UpTo(R, n + 1), s # {} PROVE Fact(s)
      <3> HIDE DEF Fact
      <3>1. QED BY <1>2
    <2>2. PICK x \in s : TRUE
      BY <2>1
    <2> DEFINE t == s \ {x}
    <2>3. /\ t \in UpTo(R, n) /\ s \in SUBSET R /\ IsFiniteSet(s) /\ x \in R /\ x \notin S
      BY <2>2, SubsetFacts DEF UpTo
    <2>4. IsFiniteSet(t) /\ IsFiniteSet(S \cup s) /\ \A y \in s : f[y] \in Nat
      BY <2>3, FS_Subset, FS_Union
    <2>5. (S \cup s) \ {x} = S \cup t
      BY <2>2, <2>3
    <2>6. SumFunctionOnSet(f, s) = f[x] + SumFunctionOnSet(f, t)
      BY <2>2, <2>3, <2>4, SumWithout
    <2>7. SumFunctionOnSet(f, S \cup s) = f[x] + SumFunctionOnSet(f, (S \cup s) \ {x})
      <3>1. x \in S \cup s /\ \A y \in S \cup s : f[y] \in Nat
        BY <2>2, <2>4
      <3>2. QED BY <2>4, <3>1, SumWithout
    <2>8. Fact(t)
      BY <1>4, <2>3
    <2>9. SumFunctionOnSet(f, t) \in Nat /\ f[x] \in Nat
      <3>1. \A y \in t : f[y] \in Nat
        BY <2>4
      <3>2. QED BY <2>2, <2>4, <3>1, SumType
    <2> HIDE DEF t
    <2>10. SumFunctionOnSet(f, S \cup s) = f[x] + SumFunctionOnSet(f, S \cup t)
      BY ONLY <2>5, <2>7, Zenon
    <2>11. QED BY ONLY <1>1, <2>6, <2>8, <2>9, <2>10
  <1>5. 0 \in T
    BY <1>3
  <1> HIDE DEF T
  <1>6. Cardinality(R) \in T
    BY <1>4, <1>5, InductiveSet, FS_CardinalityType
  <1>7. R \in UpTo(R, Cardinality(R))
    BY SubsetFacts DEF UpTo
  <1>8. QED BY <1>6, <1>7 DEF T

(* A sum by parts: those with the same key.                                *)
KeyIn(S, key, R) == {i \in S : key[i] \in R}
SumsByKey(h, R, f, S, key) == \A r \in R : h[r] = SumFunctionOnSet(f, KeyIn(S, key, {r}))
LEMMA SumOfParts ==
    ASSUME NEW S, IsFiniteSet(S), NEW f, \A i \in S : f[i] \in Nat,
           NEW R, IsFiniteSet(R), NEW key, NEW h, SumsByKey(h, R, f, S, key)
    PROVE  SumFunctionOnSet(h, R) = SumFunctionOnSet(f, KeyIn(S, key, R))
  <1> DEFINE With(s) == KeyIn(S, key, s)
             Part(r) == KeyIn(S, key, {r})
             Fact(s) == SumFunctionOnSet(h, s) = SumFunctionOnSet(f, With(s))
             T == {n \in Nat : \A s \in UpTo(R, n) : Fact(s)}
  <1>1. \A s : /\ IsFiniteSet(With(s)) /\ \A i \in With(s) : f[i] \in Nat
               /\ IsFiniteSet(Part(s)) /\ \A i \in Part(s) : f[i] \in Nat
    BY FS_Subset DEF KeyIn
  <1>2. \A r \in R : h[r] = SumFunctionOnSet(f, Part(r)) /\ h[r] \in Nat
    <2>1. \A r \in R : h[r] = SumFunctionOnSet(f, Part(r))
      BY DEF SumsByKey
    <2> HIDE DEF Part
    <2>2. \A r : SumFunctionOnSet(f, Part(r)) \in Nat
      BY <1>1, SumType
    <2>3. QED BY <2>1, <2>2
  <1>3. Fact({})
    <2>1. With({}) = {}
      BY DEF KeyIn
    <2>2. QED BY <2>1, SumOfNone
  <1>4. ASSUME NEW s \in UpTo(R, 0) PROVE Fact(s)
    <2>1. s = {}
      BY SubsetFacts DEF UpTo
    <2>2. QED BY <1>3, <2>1
  <1>5. ASSUME NEW n \in Nat, n \in T PROVE n + 1 \in T
    <2>1. SUFFICES ASSUME NEW s \in UpTo(R, n + 1), s # {}
                   PROVE  Fact(s)
      <3> HIDE DEF Fact
      <3>1. QED BY <1>3
    <2>2. PICK x \in s : TRUE
      BY <2>1
    <2> DEFINE t == s \ {x}
    <2>3. /\ t \in UpTo(R, n) /\ s \in SUBSET R /\ IsFiniteSet(s) /\ x \in R
      BY <2>2, SubsetFacts DEF UpTo
    <2>4. \A y \in s : h[y] \in Nat
      BY <1>2, <2>3
    <2>5. SumFunctionOnSet(h, s) = h[x] + SumFunctionOnSet(h, t)
      BY <2>2, <2>3, <2>4, SumWithout
    <2>6. SumFunctionOnSet(h, t) = SumFunctionOnSet(f, With(t))
      BY <1>5, <2>3
    <2>7. With(s) = Part(x) \cup With(t) /\ Part(x) \cap With(t) = {}
      BY <2>2 DEF KeyIn
    <2> HIDE DEF With, Part, t
    <2>8. SumFunctionOnSet(f, Part(x) \cup With(t))
            = SumFunctionOnSet(f, Part(x)) + SumFunctionOnSet(f, With(t))
      <3>1. \A i \in Part(x) \cup With(t) : f[i] \in Nat
        BY <1>1
      <3>2. QED BY ONLY <1>1, <2>7, <3>1, SumOfDisjoint
    <2>9. QED BY <1>2, <2>3, <2>5, <2>6, <2>7, <2>8
  <1>6. 0 \in T
    BY <1>4
  <1> HIDE DEF T
  <1>7. Cardinality(R) \in T
    BY <1>5, <1>6, InductiveSet, FS_CardinalityType
  <1>8. R \in UpTo(R, Cardinality(R))
    BY SubsetFacts DEF UpTo
  <1>9. QED BY <1>7, <1>8 DEF T
=============================================================================
