----------------------------- MODULE DataLemmas -----------------------------
(***************************************************************************)
(* Facts about naturals and finite sets that several proofs need.  The     *)
(* library's induction theorems range over operators; here induction is    *)
(* over the members of a set, which comes to the same for a property that  *)
(* can be written as a set.                                                *)
(***************************************************************************)
EXTENDS Integers, FiniteSets, FiniteSetsExt, FiniteSetTheorems, WellFoundedInduction, TLAPS

\* The order of the naturals is a well-founded relation.
LEMMA LessThanIsARelation ==
    \E R : IsWellFoundedOn(R, Nat) /\ \A x, y \in Nat : x < y => <<x, y>> \in R
<1>1. IsWellFoundedOn(OpToRel(<, Nat), Nat)
  BY NatLessThanWellFounded
<1>2. \A x, y \in Nat : x < y => <<x, y>> \in OpToRel(<, Nat)
  BY DEF OpToRel
<1> QED BY <1>1, <1>2, Zenon

\* Every nonempty set of naturals has a least member.
LEMMA HasLeast == \A S \in SUBSET Nat : S # {} => \E x \in S : \A y \in S : x <= y
<1> SUFFICES ASSUME NEW S \in SUBSET Nat, S # {} PROVE \E x \in S : \A y \in S : x <= y
  OBVIOUS
<1>1. PICK R : IsWellFoundedOn(R, Nat) /\ \A x, y \in Nat : x < y => <<x, y>> \in R
  BY LessThanIsARelation
<1>2. PICK x \in S : \A y \in S : ~ (<<y, x>> \in R)
  <2>1. IsWellFoundedOn(R, Nat) /\ S \subseteq Nat /\ S # {}
    BY <1>1
  <2> QED BY <2>1, WFMin, Zenon
<1>3. \A y \in S : ~(y < x)
  BY <1>1, <1>2
<1> QED BY <1>3

\* A bounded one has a greatest.
LEMMA HasGreatest ==
    \A n \in Nat : \A S \in SUBSET (0..n) : S # {} => \E x \in S : \A y \in S : x >= y
<1> SUFFICES ASSUME NEW n \in Nat, NEW S \in SUBSET (0..n), S # {}
             PROVE  \E x \in S : \A y \in S : x >= y
  OBVIOUS
<1> DEFINE T == {n - x : x \in S}
<1>0. \A x \in S : x \in Nat /\ n - x \in Nat
  OBVIOUS
<1>1. T \in SUBSET Nat /\ T # {}
  BY <1>0
<1>2. PICK t \in T : \A u \in T : t <= u
  BY <1>1, HasLeast
<1> QED BY <1>2

\* Max finds it.
LEMMA HasMax ==
    \A n \in Nat : \A S \in SUBSET (0..n) : S # {} => Max(S) \in S /\ \A y \in S : y <= Max(S)
<1> SUFFICES ASSUME NEW n \in Nat, NEW S \in SUBSET (0..n), S # {}
             PROVE  Max(S) \in S /\ \A y \in S : Max(S) >= y
  OBVIOUS
<1>1. \E x \in S : \A y \in S : x >= y
  BY HasGreatest
<1> QED BY <1>1 DEF Max

\* Induction: a set with 0 that is closed under successors has all naturals.
LEMMA SetInduction ==
    ASSUME NEW S, 0 \in S, \A n \in Nat : n \in S => n + 1 \in S
    PROVE  \A n \in Nat : n \in S
<1> SUFFICES ASSUME Nat \ S # {} PROVE FALSE
  OBVIOUS
<1>1. PICK n \in Nat \ S : \A m \in Nat \ S : n <= m
  <2>1. Nat \ S \in SUBSET Nat
    OBVIOUS
  <2> QED BY <2>1, HasLeast
<1>2. n - 1 \in Nat /\ n - 1 \in S
  BY <1>1
<1>3. (n - 1) + 1 \in S
  BY <1>2
<1> QED BY <1>1, <1>2, <1>3
-----------------------------------------------------------------------------
(* Folds over a finite set, which the community modules define by          *)
(* recursion over its subsets: take out one element, fold the rest, apply  *)
(* the operator.                                                           *)

\* A fold over S with values in Typ: Take[s] is the element taken out of s, and Op the
\* operator, as a function of the element and the value so far.
Foldable(S, Typ, base, Take, Op) ==
    /\ IsFiniteSet(S)
    /\ base \in Typ
    /\ \A s \in SUBSET S : s # {} => Take[s] \in s
    /\ \A x \in S : \A v \in Typ : Op[<<x, v>>] \in Typ

IsFold(g, S, base, Take, Op) ==
    \A s \in SUBSET S : g[s] = IF s = {} THEN base ELSE Op[<<Take[s], g[s \ {Take[s]}]>>]

\* The recursion has a solution.
LEMMA FoldExists ==
    \A S, Typ, base, Take, Op :
        Foldable(S, Typ, base, Take, Op) => \E g \in [SUBSET S -> Typ] : IsFold(g, S, base, Take, Op)
<1> SUFFICES ASSUME NEW S, NEW Typ, NEW base, NEW Take, NEW Op, Foldable(S, Typ, base, Take, Op)
             PROVE  \E g \in [SUBSET S -> Typ] : IsFold(g, S, base, Take, Op)
  OBVIOUS
<1>0. /\ IsFiniteSet(S) /\ base \in Typ
      /\ \A s \in SUBSET S : s # {} => Take[s] \in s
      /\ \A x \in S : \A v \in Typ : Op[<<x, v>>] \in Typ
  BY DEF Foldable
<1> DEFINE Rest(s) == s \ {Take[s]}
           Step(g, s) == IF s = {} THEN base ELSE Op[<<Take[s], g[Rest(s)]>>]
           UpTo(n) == {s \in SUBSET S : Cardinality(s) <= n}
           Good == {n \in Nat : \E g \in [UpTo(n) -> Typ] : \A s \in UpTo(n) : g[s] = Step(g, s)}
<1> HIDE DEF Rest, Step, UpTo, Good
<1>1. ASSUME NEW s \in SUBSET S
      PROVE  IsFiniteSet(s) /\ Cardinality(s) \in Nat /\ (Cardinality(s) = 0 <=> s = {})
  BY <1>0, FS_Subset, FS_CardinalityType, FS_EmptySet
<1>2. ASSUME NEW s \in SUBSET S, s # {}
      PROVE  Rest(s) \in SUBSET S /\ Cardinality(Rest(s)) = Cardinality(s) - 1
  BY <1>0, <1>1, <1>2, FS_RemoveElement DEF Rest
<1>3. \A n \in Nat : \A s : s \in UpTo(n) <=> s \in SUBSET S /\ Cardinality(s) <= n
  BY DEF UpTo
<1>4. 0 \in Good
  <2>1. \A s \in UpTo(0) : s = {}
    BY <1>1, <1>3
  <2> DEFINE g == [s \in UpTo(0) |-> base]
  <2>2. g \in [UpTo(0) -> Typ] /\ \A s \in UpTo(0) : g[s] = Step(g, s)
    BY <1>0, <2>1 DEF Step
  <2> HIDE DEF g
  <2> QED BY <2>2 DEF Good
<1>5. ASSUME NEW n \in Nat, n \in Good PROVE n + 1 \in Good
  <2>1. PICK g \in [UpTo(n) -> Typ] : \A s \in UpTo(n) : g[s] = Step(g, s)
    BY <1>5 DEF Good
  <2>2. ASSUME NEW s \in UpTo(n + 1), s # {} PROVE Rest(s) \in UpTo(n)
    <3>1. s \in SUBSET S /\ Cardinality(s) <= n + 1
      BY <1>3
    <3> QED BY <1>1, <1>2, <1>3, <2>2, <3>1
  <2>3. UpTo(n) \subseteq UpTo(n + 1)
    <3> SUFFICES ASSUME NEW s \in UpTo(n) PROVE s \in UpTo(n + 1)
      OBVIOUS
    <3>1. s \in SUBSET S /\ Cardinality(s) <= n
      BY <1>3
    <3> QED BY <1>1, <1>3, <3>1
  <2> DEFINE h == [s \in UpTo(n + 1) |-> Step(g, s)]
  <2>4. ASSUME NEW s \in UpTo(n + 1) PROVE Step(g, s) \in Typ
    <3>1. CASE s = {}
      BY <1>0, <3>1 DEF Step
    <3>2. CASE s # {}
      <4>1. Take[s] \in S
        BY <1>0, <1>3, <3>2
      <4>2. g[Rest(s)] \in Typ
        BY <2>1, <2>2, <3>2
      <4> QED BY <1>0, <3>2, <4>1, <4>2 DEF Step
    <3> QED BY <3>1, <3>2
  <2>5. h \in [UpTo(n + 1) -> Typ] /\ \A s \in UpTo(n + 1) : h[s] = Step(g, s)
    BY <2>4
  <2> HIDE DEF h
  <2>6. ASSUME NEW s \in UpTo(n + 1) PROVE h[s] = Step(h, s)
    <3>1. CASE s = {}
      BY <2>5, <3>1 DEF Step
    <3>2. CASE s # {}
      <4>1. h[Rest(s)] = g[Rest(s)]
        BY <2>1, <2>2, <2>3, <2>5, <3>2
      <4> QED BY <2>5, <3>2, <4>1 DEF Step
    <3> QED BY <3>1, <3>2
  <2> QED BY <2>5, <2>6 DEF Good
<1>6. \A n \in Nat : n \in Good
  BY <1>4, <1>5, SetInduction
<1>7. Cardinality(S) \in Nat /\ UpTo(Cardinality(S)) = SUBSET S
  BY <1>0, FS_Subset, FS_CardinalityType DEF UpTo
<1>8. PICK g \in [UpTo(Cardinality(S)) -> Typ] : \A s \in UpTo(Cardinality(S)) : g[s] = Step(g, s)
  BY <1>6, <1>7 DEF Good
<1>9. g \in [SUBSET S -> Typ] /\ \A s \in SUBSET S : g[s] = Step(g, s)
  BY <1>7, <1>8
<1> QED BY <1>9 DEF Step, Rest, IsFold

\* What the recursion yields has the type of the base and of the operator's results.
LEMMA FoldTyped ==
    ASSUME NEW S, IsFiniteSet(S), NEW Typ, NEW g, g[{}] \in Typ,
           \A s \in SUBSET S : s # {} => \E x \in s : g[s \ {x}] \in Typ => g[s] \in Typ
    PROVE  \A s \in SUBSET S : g[s] \in Typ
<1> DEFINE Good == {n \in Nat : \A s \in SUBSET S : Cardinality(s) = n => g[s] \in Typ}
<1> HIDE DEF Good
<1>1. ASSUME NEW s \in SUBSET S
      PROVE  IsFiniteSet(s) /\ Cardinality(s) \in Nat /\ (Cardinality(s) = 0 <=> s = {})
  BY FS_Subset, FS_CardinalityType, FS_EmptySet
<1>2. 0 \in Good
  BY <1>1 DEF Good
<1>3. ASSUME NEW n \in Nat, n \in Good PROVE n + 1 \in Good
  <2>1. SUFFICES ASSUME NEW s \in SUBSET S, Cardinality(s) = n + 1 PROVE g[s] \in Typ
    BY DEF Good
  <2>2. s # {}
    BY <1>1, <2>1
  <2>3. PICK x \in s : g[s \ {x}] \in Typ => g[s] \in Typ
    BY <2>2
  <2>4. s \ {x} \in SUBSET S /\ Cardinality(s \ {x}) = n
    <3>1. IsFiniteSet(s)
      BY <1>1
    <3>2. Cardinality(s \ {x}) = Cardinality(s) - 1
      BY <3>1, FS_RemoveElement
    <3> QED BY <2>1, <3>2
  <2> QED BY <1>3, <2>3, <2>4 DEF Good
<1>4. \A n \in Nat : n \in Good
  BY <1>2, <1>3, SetInduction
<1> SUFFICES ASSUME NEW s \in SUBSET S PROVE g[s] \in Typ
  OBVIOUS
<1>5. Cardinality(s) \in Good
  BY <1>1, <1>4
<1> QED BY <1>5 DEF Good

-----------------------------------------------------------------------------
(* Sums over a finite set, as FoldSet takes them: of weights w, a function *)
(* into the naturals, in an order that nobody knows.                       *)

SumStep(S, w, g) ==
    [s \in SUBSET S |-> IF s = {} THEN 0 ELSE g[s \ {CHOOSE x \in s : TRUE}] + w[CHOOSE x \in s : TRUE]]
Sum(S, w) == (CHOOSE g : g = SumStep(S, w, g))[S]

\* The recursion has a solution, its value on a subset is that subset's own sum, and any
\* other solution gives the same sum.
LEMMA SumRecursion ==
    ASSUME NEW S, IsFiniteSet(S), NEW w, \A x \in S : w[x] \in Nat
    PROVE  /\ \E g \in [SUBSET S -> Nat] : g = SumStep(S, w, g) /\ \A T \in SUBSET S : g[T] = Sum(T, w)
           /\ \A h : h = SumStep(S, w, h) => h[S] = Sum(S, w)
<1> DEFINE Take == [s \in SUBSET S |-> CHOOSE x \in s : TRUE]
           Op == [xv \in S \X Nat |-> xv[2] + w[xv[1]]]
           Sol(T) == CHOOSE h : h = SumStep(T, w, h)
<1>1. ASSUME NEW T \in SUBSET S PROVE \E h \in [SUBSET T -> Nat] : h = SumStep(T, w, h)
  <2> DEFINE Tk == [s \in SUBSET T |-> CHOOSE x \in s : TRUE]
             O == [xv \in T \X Nat |-> xv[2] + w[xv[1]]]
  <2>1. /\ \A s \in SUBSET T : Tk[s] = CHOOSE x \in s : TRUE
        /\ \A s \in SUBSET T : s # {} => Tk[s] \in s
    OBVIOUS
  <2>2. \A x \in T : \A v \in Nat : O[<<x, v>>] = v + w[x] /\ O[<<x, v>>] \in Nat
    OBVIOUS
  <2>3. IsFiniteSet(T)
    BY FS_Subset
  <2> HIDE DEF Tk, O
  <2>4. Foldable(T, Nat, 0, Tk, O)
    BY <2>1, <2>2, <2>3 DEF Foldable
  <2>5. PICK h \in [SUBSET T -> Nat] : IsFold(h, T, 0, Tk, O)
    BY <2>4, FoldExists
  <2>6. ASSUME NEW s \in SUBSET T, s # {}
        PROVE  h[s] = h[s \ {CHOOSE x \in s : TRUE}] + w[CHOOSE x \in s : TRUE]
    <3>1. Tk[s] \in T /\ h[s \ {Tk[s]}] \in Nat
      BY <2>1, <2>5, <2>6
    <3>2. h[s] = O[<<Tk[s], h[s \ {Tk[s]}]>>]
      BY <2>5, <2>6 DEF IsFold
    <3> QED BY <2>1, <2>2, <3>1, <3>2
  <2>7. h[{}] = 0
    BY <2>5 DEF IsFold
  <2>8. \A s \in SUBSET T : h[s] = IF s = {} THEN 0 ELSE h[s \ {CHOOSE x \in s : TRUE}] + w[CHOOSE x \in s : TRUE]
    BY <2>6, <2>7
  <2> QED BY <2>5, <2>8 DEF SumStep
<1>2. ASSUME NEW T \in SUBSET S PROVE Sol(T) = SumStep(T, w, Sol(T)) /\ Sum(T, w) = Sol(T)[T]
  BY <1>1 DEF Sum
<1> HIDE DEF Sol
\* Two solutions agree where both are defined: the pair of their values stays on the diagonal.
<1>3. ASSUME NEW T \in SUBSET S, NEW g, g = SumStep(S, w, g), NEW h, h = SumStep(T, w, h)
      PROVE  \A s \in SUBSET T : g[s] = h[s]
  <2> DEFINE p == [s \in SUBSET T |-> <<g[s], h[s]>>]
             Diag == {v \in {p[s] : s \in SUBSET T} : v[1] = v[2]}
  <2>0. IsFiniteSet(T)
    BY FS_Subset
  <2>1. g[{}] = 0 /\ h[{}] = 0
    BY <1>3 DEF SumStep
  <2>2. p[{}] \in Diag
    BY <2>1
  <2>3. ASSUME NEW s \in SUBSET T, s # {}
        PROVE  \E x \in s : p[s \ {x}] \in Diag => p[s] \in Diag
    <3> DEFINE y == CHOOSE x \in s : TRUE
    <3>1. y \in s
      BY <2>3
    <3> HIDE DEF y
    <3>2. s \in SUBSET S
      OBVIOUS
    <3>3. g[s] = g[s \ {y}] + w[y]
      BY <1>3, <2>3, <3>2 DEF SumStep, y
    <3>4. h[s] = h[s \ {y}] + w[y]
      BY <1>3, <2>3 DEF SumStep, y
    <3>5. p[s \ {y}] \in Diag => g[s \ {y}] = h[s \ {y}]
      OBVIOUS
    <3>6. p[s] = <<g[s], h[s]>>
      OBVIOUS
    <3>7. g[s] = h[s] => p[s] \in Diag
      BY <3>6
    <3> HIDE DEF p, Diag
    <3> QED BY <3>1, <3>3, <3>4, <3>5, <3>7
  <2> HIDE DEF p, Diag
  <2>4. \A s \in SUBSET T : p[s] \in Diag
    BY <2>0, <2>2, <2>3, FoldTyped
  <2> QED BY <2>4 DEF p, Diag
<1>4. PICK g \in [SUBSET S -> Nat] : g = SumStep(S, w, g)
  BY <1>1
<1>5. ASSUME NEW T \in SUBSET S PROVE g[T] = Sum(T, w)
  BY <1>2, <1>3, <1>4
<1>6. ASSUME NEW h, h = SumStep(S, w, h) PROVE h[S] = g[S]
  BY <1>3, <1>4, <1>6
<1> QED BY <1>4, <1>5, <1>6

\* A sum is a natural number.
LEMMA SumType ==
    ASSUME NEW S, IsFiniteSet(S), NEW w, \A x \in S : w[x] \in Nat
    PROVE  Sum(S, w) \in Nat /\ Sum({}, w) = 0
<1>1. PICK g \in [SUBSET S -> Nat] : g = SumStep(S, w, g) /\ \A T \in SUBSET S : g[T] = Sum(T, w)
  BY SumRecursion
<1>2. g[{}] = 0
  BY <1>1 DEF SumStep
<1> QED BY <1>1, <1>2

\* Any element may be taken out.
LEMMA SumRemove ==
    ASSUME NEW S, IsFiniteSet(S), NEW w, \A x \in S : w[x] \in Nat, NEW e \in S
    PROVE  Sum(S, w) = Sum(S \ {e}, w) + w[e]
<1>1. PICK g \in [SUBSET S -> Nat] : g = SumStep(S, w, g) /\ \A T \in SUBSET S : g[T] = Sum(T, w)
  BY SumRecursion
<1> DEFINE Good == {n \in Nat : \A s \in SUBSET S : Cardinality(s) = n => \A x \in s : g[s] = g[s \ {x}] + w[x]}
<1> HIDE DEF Good
<1>2. ASSUME NEW s \in SUBSET S
      PROVE  /\ IsFiniteSet(s) /\ Cardinality(s) \in Nat /\ (Cardinality(s) = 0 <=> s = {})
             /\ \A x \in s : Cardinality(s \ {x}) = Cardinality(s) - 1
  BY FS_Subset, FS_CardinalityType, FS_EmptySet, FS_RemoveElement
<1>3. 0 \in Good
  BY <1>2 DEF Good
<1>4. ASSUME NEW n \in Nat, n \in Good PROVE n + 1 \in Good
  <2> SUFFICES ASSUME NEW s \in SUBSET S, Cardinality(s) = n + 1, NEW x \in s
               PROVE  g[s] = g[s \ {x}] + w[x]
    BY DEF Good
  <2> DEFINE y == CHOOSE z \in s : TRUE
  <2>1. y \in s
    OBVIOUS
  <2>2. g[s] = g[s \ {y}] + w[y]
    BY <1>1 DEF SumStep
  <2> HIDE DEF y
  <2>3. CASE x = y
    BY <2>2, <2>3
  <2>4. CASE x # y
    <3>1. /\ s \ {y} \in SUBSET S /\ Cardinality(s \ {y}) = n /\ x \in s \ {y}
          /\ s \ {x} \in SUBSET S /\ Cardinality(s \ {x}) = n /\ y \in s \ {x}
      BY <1>2, <2>1, <2>4
    <3>2. g[s \ {y}] = g[(s \ {y}) \ {x}] + w[x] /\ g[s \ {x}] = g[(s \ {x}) \ {y}] + w[y]
      BY <1>4, <3>1 DEF Good
    <3>3. (s \ {y}) \ {x} = (s \ {x}) \ {y}
      OBVIOUS
    <3> DEFINE a == g[(s \ {x}) \ {y}]
    <3>4. a \in Nat /\ w[x] \in Nat /\ w[y] \in Nat
      BY <1>1, <2>1
    <3>5. g[s \ {y}] = a + w[x] /\ g[s \ {x}] = a + w[y]
      BY <3>2, <3>3
    <3> HIDE DEF a
    <3> QED BY <2>2, <3>4, <3>5
  <2> QED BY <2>3, <2>4
<1>5. \A n \in Nat : n \in Good
  BY <1>3, <1>4, SetInduction
<1>6. S \in SUBSET S /\ Cardinality(S) \in Nat
  BY <1>2
<1>7. g[S] = g[S \ {e}] + w[e]
  BY <1>5, <1>6 DEF Good
<1> QED BY <1>1, <1>7
=============================================================================
