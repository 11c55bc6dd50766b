----------------------------- MODULE Induction ------------------------------
(***************************************************************************)
(* Induction over numbers, finite sets and sequences, stated for a set     *)
(* instead of a predicate, and what it shows of sums and of folds: the     *)
(* community modules define them by recursion, an element a step.          *)
(***************************************************************************)
EXTENDS Integers, FiniteSets, Sequences, FiniteSetsExt, FiniteSetTheorems, SequenceTheorems, WellFoundedInduction, TLAPS

\* A set of numbers that has zero, and the successor of each of its elements,
\* has them all.
LEMMA NatInduct ==
  ASSUME NEW T, T \subseteq Nat, 0 \in T, \A n \in T : n + 1 \in T
  PROVE  T = Nat
  <1>1. SUFFICES ASSUME Nat \ T # {} PROVE FALSE
    OBVIOUS
  <1> DEFINE R == {ss \in Nat \X Nat : ss[1] < ss[2]}
  <1>2. IsWellFoundedOn(R, Nat) /\ Nat \ T \subseteq Nat
    BY NatLessThanWellFounded DEF OpToRel
  <1> HIDE DEF R
  <1>3. PICK x \in Nat \ T : \A y \in Nat \ T : ~(<<y, x>> \in R)
    BY <1>1, <1>2, WFMin
  <1>4. \A y \in Nat \ T : ~(y < x)
    BY <1>3 DEF R
  <1>5. x # 0 /\ x - 1 \in Nat /\ x - 1 < x
    BY <1>3
  <1>6. x - 1 \in T
    BY <1>4, <1>5
  <1>7. (x - 1) + 1 \in T
    BY <1>6
  <1> QED
    BY <1>3, <1>5, <1>7

\* Some numbers have a least one.
LEMMA NatLeast ==
  ASSUME NEW B, B \subseteq Nat, B # {}
  PROVE  \E x \in B : \A y \in B : x <= y
  <1> DEFINE T == {n \in Nat : \A m \in 0..n : m \notin B}
  <1>1. SUFFICES ASSUME \A x \in B : \E y \in B : y < x PROVE FALSE
    OBVIOUS
  <1>2. 0 \in T
    BY <1>1
  <1>3. ASSUME NEW n \in T PROVE n + 1 \in T
    <2>1. n \in Nat /\ \A m \in 0..n : m \notin B
      OBVIOUS
    <2>2. n + 1 \notin B
      BY <1>1, <2>1
    <2> QED
      BY <2>1, <2>2
  <1>4. T = Nat
    <2>1. T \subseteq Nat
      OBVIOUS
    <2> HIDE DEF T
    <2> QED
      BY ONLY <1>2, <1>3, <2>1, NatInduct
  <1>5. PICK b \in B : TRUE
    OBVIOUS
  <1>6. b \in Nat /\ b \in 0..b
    BY <1>5
  <1> QED
    BY <1>4, <1>5, <1>6

\* Among some subsets of a finite set there is one with none of the others below it.
LEMMA FiniteMinimal ==
  ASSUME NEW S, IsFiniteSet(S), NEW B, B \subseteq SUBSET S, B # {}
  PROVE  \E x \in B : \A e \in x : x \ {e} \notin B
  <1>1. IsWellFoundedOn(StrictSubsetOrdering(S), SUBSET S)
    BY FS_StrictSubsetOrderingWellFounded, FS_FiniteSubsetsOfFinite
  <1>2. PICK x \in B : \A y \in B : ~(<<y, x>> \in StrictSubsetOrdering(S))
    BY ONLY <1>1, B \subseteq SUBSET S, B # {}, WFMin
  <1>3. ASSUME NEW e \in x PROVE <<x \ {e}, x>> \in StrictSubsetOrdering(S)
    BY <1>2, <1>3 DEF StrictSubsetOrdering
  <1> QED
    BY <1>2, <1>3

\* Sets of subsets of a finite set that have the empty one, and each with one
\* more element, have them all.
LEMMA FiniteInduct ==
  ASSUME NEW S, IsFiniteSet(S), NEW T, {} \in T,
         \A A \in SUBSET S, x \in S : A \in T /\ x \notin A => A \cup {x} \in T
  PROVE  SUBSET S \subseteq T
  <1>1. SUFFICES ASSUME (SUBSET S) \ T # {} PROVE FALSE
    OBVIOUS
  <1>2. PICK x \in (SUBSET S) \ T : \A e \in x : x \ {e} \notin (SUBSET S) \ T
    BY <1>1, FiniteMinimal
  <1>3. PICK e \in x : TRUE
    BY <1>2
  <1>4. x \ {e} \in T /\ x \ {e} \in SUBSET S /\ e \in S /\ e \notin x \ {e}
    BY <1>2, <1>3
  <1>5. (x \ {e}) \cup {e} \in T
    BY ONLY <1>4, \A A \in SUBSET S, y \in S : A \in T /\ y \notin A => A \cup {y} \in T
  <1>6. (x \ {e}) \cup {e} = x
    BY <1>3
  <1> QED
    BY <1>2, <1>5, <1>6

\* A function has finitely many values over a finite set.
LEMMA FiniteImage ==
  ASSUME NEW S, IsFiniteSet(S), NEW f
  PROVE  IsFiniteSet({f[x] : x \in S})
  <1> DEFINE T == {f[x] : x \in S}
             h == [x \in S |-> f[x]]
  <1>1. h \in Surjection(S, T)
    BY DEF Surjection
  <1> HIDE DEF h, T
  <1>2. IsFiniteSet(T)
    BY <1>1, FS_Surjection
  <1> QED
    BY <1>2 DEF T

\* Some elements of a finite set have a largest one, by numbers given to them.
LEMMA FiniteLargest ==
  ASSUME NEW S, IsFiniteSet(S), NEW f \in [S -> Int], NEW A \in SUBSET S, A # {}
  PROVE  \E x \in A : \A y \in A : f[y] <= f[x]
  <1> DEFINE T == {B \in SUBSET S : B = {} \/ \E x \in B : \A y \in B : f[y] <= f[x]}
  <1>1. {} \in T
    OBVIOUS
  <1>2. ASSUME NEW B \in SUBSET S, NEW e \in S, B \in T, e \notin B
        PROVE  B \cup {e} \in T
    <2>1. CASE B = {}
      BY <2>1
    <2>2. CASE B # {}
      <3>1. PICK x \in B : \A y \in B : f[y] <= f[x]
        BY <1>2, <2>2
      <3>2. f[e] \in Int /\ f[x] \in Int /\ \A y \in B : f[y] \in Int
        OBVIOUS
      <3>3. CASE f[e] <= f[x]
        BY <3>1, <3>2, <3>3
      <3>4. CASE f[x] < f[e]
        <4>1. \A y \in B \cup {e} : f[y] <= f[e]
          BY <3>1, <3>2, <3>4
        <4> QED
          BY <4>1
      <3> QED
        BY <3>2, <3>3, <3>4
    <2> QED
      BY <2>1, <2>2
  <1>3. SUBSET S \subseteq T
    <2> HIDE DEF T
    <2>1. \A B \in SUBSET S, e \in S : B \in T /\ e \notin B => B \cup {e} \in T
      BY <1>2
    <2> QED
      BY ONLY <1>1, <2>1, IsFiniteSet(S), FiniteInduct
  <1> QED
    BY <1>3

\* g is computed from base by step, which takes away an element at a time.
Recurses(g, S, base, step, pick) ==
  \A A \in SUBSET S : g[A] = IF A = {} THEN base ELSE step[<<g[A \ {pick[A]}], pick[A]>>]

\* A recursion over the parts of a finite set that takes away an element a
\* step has a solution.
LEMMA FiniteRecursion ==
  ASSUME NEW S, IsFiniteSet(S), NEW V, NEW base \in V, NEW step \in [V \X S -> V],
         NEW pick, \A A \in SUBSET S : A # {} => pick[A] \in A
  PROVE  \E g \in [SUBSET S -> V] : Recurses(g, S, base, step, pick)
  <1> DEFINE next(g) == [A \in SUBSET S |-> IF A = {} THEN base ELSE step[<<g[A \ {pick[A]}], pick[A]>>]]
             solves(g, n) == \A A \in SUBSET S : Cardinality(A) <= n => g[A] = next(g)[A]
             T == {n \in Nat : \E g \in [SUBSET S -> V] : solves(g, n)}
  <1>1. ASSUME NEW A \in SUBSET S
        PROVE  /\ IsFiniteSet(A) /\ Cardinality(A) \in Nat
               /\ Cardinality(A) = 0 <=> A = {}
               /\ A # {} => A \ {pick[A]} \in SUBSET S /\ Cardinality(A \ {pick[A]}) = Cardinality(A) - 1
    <2>1. IsFiniteSet(A)
      BY FS_Subset
    <2>2. A # {} => pick[A] \in A
      OBVIOUS
    <2> QED
      BY ONLY <2>1, <2>2, A \in SUBSET S, FS_CardinalityType, FS_EmptySet, FS_RemoveElement
  <1>2. ASSUME NEW g \in [SUBSET S -> V] PROVE next(g) \in [SUBSET S -> V]
    <2>1. ASSUME NEW A \in SUBSET S, A # {} PROVE step[<<g[A \ {pick[A]}], pick[A]>>] \in V
      <3>1. A \ {pick[A]} \in SUBSET S /\ pick[A] \in S
        BY <2>1
      <3> QED
        BY <3>1
    <2> QED
      BY <2>1
  <1>3. 0 \in T
    <2> DEFINE g == [A \in SUBSET S |-> base]
    <2>1. g \in [SUBSET S -> V]
      OBVIOUS
    <2>2. ASSUME NEW A \in SUBSET S, Cardinality(A) <= 0 PROVE g[A] = next(g)[A]
      <3>1. A = {}
        <4>1. Cardinality(A) \in Nat /\ (Cardinality(A) = 0 <=> A = {})
          BY <1>1
        <4> QED
          BY ONLY <2>2, <4>1
      <3> QED
        BY <3>1
    <2> QED
      BY <2>1, <2>2
  <1>4. ASSUME NEW n \in T PROVE n + 1 \in T
    <2>1. PICK g \in [SUBSET S -> V] : solves(g, n)
      BY <1>4
    <2> DEFINE h == next(g)
    <2>2. ASSUME NEW A \in SUBSET S, Cardinality(A) <= n + 1 PROVE h[A] = next(h)[A]
      <3>1. CASE A = {}
        BY <3>1
      <3>2. CASE A # {}
        <4> DEFINE B == A \ {pick[A]}
        <4>1. B \in SUBSET S /\ Cardinality(B) <= n
          <5>1. Cardinality(A) \in Nat /\ B \in SUBSET S /\ Cardinality(B) = Cardinality(A) - 1
            BY <1>1, <3>2
          <5>2. n \in Nat
            BY <1>4
          <5> HIDE DEF B
          <5> QED
            BY ONLY <2>2, <5>1, <5>2
        <4>2. g[B] = h[B]
          BY <2>1, <4>1
        <4>3. h[A] = step[<<g[B], pick[A]>>] /\ next(h)[A] = step[<<h[B], pick[A]>>]
          BY <3>2
        <4> QED
          BY ONLY <4>2, <4>3
      <3> QED
        BY <3>1, <3>2
    <2>3. h \in [SUBSET S -> V]
      BY <1>2
    <2> HIDE DEF h, next
    <2>4. solves(h, n + 1)
      BY <2>2
    <2> QED
      BY <1>4, <2>3, <2>4
  <1>5. T = Nat
    <2>1. T \subseteq Nat
      OBVIOUS
    <2> HIDE DEF T
    <2> QED
      BY ONLY <1>3, <1>4, <2>1, NatInduct
  <1>6. PICK g \in [SUBSET S -> V] : solves(g, Cardinality(S))
    BY <1>1, <1>5
  <1>7. ASSUME NEW A \in SUBSET S PROVE g[A] = next(g)[A]
    <2>1. Cardinality(A) <= Cardinality(S)
      BY FS_Subset
    <2> QED
      BY <1>6, <2>1
  <1> QED
    BY <1>7 DEF Recurses

-----------------------------------------------------------------------------
\* g gives the sum of f over each part of S, in whatever order it is taken.
IsSum(g, f, S) ==
  /\ g \in [SUBSET S -> Nat]
  /\ g[{}] = 0
  /\ \A s \in SUBSET S : \A x \in s : g[s] = f[x] + g[s \ {x}]

\* h adds the values of f in the order in which CHOOSE takes the elements.
SumsUp(h, f, S) ==
  h = [s \in SUBSET S |-> IF s = {} THEN 0 ELSE f[CHOOSE x \in s : TRUE] + h[s \ {CHOOSE x \in s : TRUE}]]

\* There are sums over a finite set.
LEMMA SumExists ==
  ASSUME NEW S, IsFiniteSet(S), NEW f \in [S -> Nat]
  PROVE  \E g : IsSum(g, f, S)
  <1> DEFINE T == {A \in SUBSET S : \E g : IsSum(g, f, A)}
  <1>1. {} \in T
    <2>1. IsSum([s \in SUBSET {} |-> 0], f, {})
      BY DEF IsSum
    <2> QED
      BY <2>1
  <1>2. ASSUME NEW A \in SUBSET S, NEW x \in S, A \in T, x \notin A
        PROVE  A \cup {x} \in T
    <2>1. PICK g : IsSum(g, f, A)
      BY <1>2
    <2> DEFINE B == A \cup {x}
               h == [s \in SUBSET B |-> IF x \in s THEN f[x] + g[s \ {x}] ELSE g[s]]
    <2>2. g \in [SUBSET A -> Nat] /\ g[{}] = 0 /\ \A s \in SUBSET A : \A y \in s : g[s] = f[y] + g[s \ {y}]
      BY <2>1 DEF IsSum
    <2>3. ASSUME NEW s \in SUBSET B, x \in s PROVE s \ {x} \in SUBSET A /\ h[s] = f[x] + g[s \ {x}]
      BY <2>3
    <2>4. ASSUME NEW s \in SUBSET B, x \notin s PROVE s \in SUBSET A /\ h[s] = g[s]
      BY <2>4
    <2>5. h \in [SUBSET B -> Nat]
      <3>1. ASSUME NEW s \in SUBSET B PROVE (IF x \in s THEN f[x] + g[s \ {x}] ELSE g[s]) \in Nat
        <4>1. CASE x \in s
          <5>1. f[x] \in Nat /\ g[s \ {x}] \in Nat
            BY <2>2, <2>3, <4>1
          <5> QED
            BY <4>1, <5>1
        <4>2. CASE x \notin s
          BY <2>2, <2>4, <4>2
        <4> QED
          BY <4>1, <4>2
      <3> QED
        BY <3>1
    <2>6. h[{}] = 0
      BY <2>2, <2>4
    <2> HIDE DEF h
    <2>7. ASSUME NEW s \in SUBSET B, NEW y \in s PROVE h[s] = f[y] + h[s \ {y}]
      <3>1. CASE x \notin s
        <4>1. h[s] = g[s] /\ s \in SUBSET A
          BY <2>4, <3>1
        <4>2. h[s \ {y}] = g[s \ {y}]
          BY <2>4, <3>1
        <4> QED
          BY <2>2, <4>1, <4>2
      <3>2. CASE y = x
        <4>1. h[s] = f[x] + g[s \ {x}]
          BY <2>3, <3>2
        <4>2. h[s \ {x}] = g[s \ {x}]
          BY <2>4
        <4> QED
          BY <3>2, <4>1, <4>2
      <3>3. CASE x \in s /\ y # x
        <4>1. h[s] = f[x] + g[s \ {x}] /\ s \ {x} \in SUBSET A
          BY <2>3, <3>3
        <4>2. g[s \ {x}] = f[y] + g[(s \ {x}) \ {y}]
          BY <2>2, <3>3, <4>1
        <4>3. h[s \ {y}] = f[x] + g[(s \ {y}) \ {x}]
          BY <2>3, <3>3
        <4>4. (s \ {y}) \ {x} = (s \ {x}) \ {y} /\ (s \ {x}) \ {y} \in SUBSET A
          BY <4>1
        <4> DEFINE rest == g[(s \ {x}) \ {y}]
        <4>5. f[x] \in Nat /\ f[y] \in Nat /\ rest \in Nat
          <5>1. x \in S /\ y \in S
            BY <2>7
          <5> QED
            BY <2>2, <4>4, <5>1
        <4>6. g[s \ {x}] = f[y] + rest /\ h[s \ {y}] = f[x] + rest
          BY <4>2, <4>3, <4>4
        <4> HIDE DEF rest
        <4> QED
          BY ONLY <4>1, <4>5, <4>6
      <3> QED
        BY <3>1, <3>2, <3>3
    <2>8. IsSum(h, f, B)
      BY <2>5, <2>6, <2>7 DEF IsSum
    <2> QED
      BY <2>8
  <1>3. S \in T
    <2> HIDE DEF T
    <2>1. \A A \in SUBSET S, x \in S : A \in T /\ x \notin A => A \cup {x} \in T
      BY <1>2
    <2>2. SUBSET S \subseteq T
      BY ONLY <1>1, <2>1, IsFiniteSet(S), FiniteInduct
    <2> QED
      BY <2>2
  <1> QED
    BY <1>3

\* The sum does not depend on the order.
LEMMA SumUnique ==
  ASSUME NEW S, IsFiniteSet(S), NEW f \in [S -> Nat], NEW g, IsSum(g, f, S),
         NEW A \in SUBSET S, NEW h, SumsUp(h, f, A)
  PROVE  h[A] = g[A]
  <1>1. IsFiniteSet(A)
    BY FS_Subset
  <1>2. ASSUME NEW s \in SUBSET A
        PROVE  h[s] = IF s = {} THEN 0 ELSE f[CHOOSE x \in s : TRUE] + h[s \ {CHOOSE x \in s : TRUE}]
    BY DEF SumsUp
  <1> DEFINE B == {s \in SUBSET A : h[s] # g[s]}
  <1>3. SUFFICES ASSUME B # {} PROVE FALSE
    OBVIOUS
  <1>4. PICK s \in B : \A e \in s : s \ {e} \notin B
    BY <1>1, <1>3, FiniteMinimal
  <1>5. s \in SUBSET A /\ s \in SUBSET S /\ h[s] # g[s]
    BY <1>4
  <1>6. g[{}] = 0 /\ \A t \in SUBSET S : \A x \in t : g[t] = f[x] + g[t \ {x}]
    BY DEF IsSum
  <1>7. s # {}
    BY <1>2, <1>5, <1>6
  <1> DEFINE c == CHOOSE x \in s : TRUE
  <1>8. c \in s
    BY <1>7
  <1>9. h[s] = f[c] + h[s \ {c}]
    BY <1>2, <1>5, <1>7
  <1> HIDE DEF c
  <1>10. s \ {c} \in SUBSET A /\ s \ {c} \notin B
    BY <1>4, <1>5, <1>8
  <1>11. h[s \ {c}] = g[s \ {c}]
    BY <1>10
  <1>12. g[s] = f[c] + g[s \ {c}]
    BY <1>5, <1>6, <1>8
  <1> QED
    BY <1>5, <1>9, <1>11, <1>12

\* The sum over a part is not larger.
LEMMA SumMonotone ==
  ASSUME NEW S, IsFiniteSet(S), NEW f \in [S -> Nat], NEW g, IsSum(g, f, S),
         NEW B \in SUBSET S, NEW A \in SUBSET B
  PROVE  g[A] <= g[B]
  <1> DEFINE T == {s \in SUBSET B : g[A] > g[s] /\ A \subseteq s}
  <1>1. SUFFICES ASSUME T # {} PROVE FALSE
    <2>1. A \in SUBSET S /\ B \in SUBSET S /\ g[A] \in Nat /\ g[B] \in Nat
      BY DEF IsSum
    <2> QED
      BY <2>1
  <1>2. PICK s \in T : \A e \in s : s \ {e} \notin T
    <2>1. IsFiniteSet(B) /\ T \subseteq SUBSET B
      BY FS_Subset
    <2> HIDE DEF T
    <2> QED
      BY ONLY <1>1, <2>1, FiniteMinimal
  <1>3. s \in SUBSET S /\ A \subseteq s /\ g[A] > g[s] /\ s \subseteq B
    BY <1>2
  <1>4. g[A] \in Nat /\ g[s] \in Nat
    BY <1>3 DEF IsSum
  <1>5. s # A
    BY <1>3, <1>4
  <1>6. PICK e \in s : e \notin A
    BY <1>3, <1>5
  <1>7. s \ {e} \in SUBSET S /\ s \ {e} \notin T /\ A \subseteq s \ {e} /\ s \ {e} \subseteq B
    BY <1>2, <1>3, <1>6
  <1>8. g[s \ {e}] \in Nat /\ f[e] \in Nat /\ g[s] = f[e] + g[s \ {e}]
    BY <1>3, <1>6, <1>7 DEF IsSum
  <1>9. ~(g[A] > g[s \ {e}])
    BY <1>7
  <1> QED
    BY <1>3, <1>4, <1>8, <1>9
-----------------------------------------------------------------------------
(***************************************************************************)
(* Folds of sequences, and induction over them.                            *)
(***************************************************************************)
\* The results of a fold, after each of the first n elements.
Along(f, base, step, s, n) == f = [i \in 0..n |-> IF i = 0 THEN base ELSE step[<<f[i - 1], s[i]>>]]

\* f goes along the first n elements in such steps.
Steps(f, base, step, s, n) == f[0] = base /\ \A i \in 1..n : f[i] = step[<<f[i - 1], s[i]>>]

\* The fold of s, as a function of its steps.
Folded(base, step, s) == (CHOOSE f : Along(f, base, step, s, Len(s)))[Len(s)]

\* The first n results of a fold exist.
LEMMA FoldGoes ==
  ASSUME NEW base, NEW step, NEW s, NEW n \in Nat
  PROVE  \E f : Along(f, base, step, s, n)
<1> DEFINE goes(f, k) == f = [i \in 0..k |-> IF i = 0 THEN base ELSE step[<<f[i - 1], s[i]>>]]
           T == {k \in Nat : \E f : goes(f, k)}
<1>1. 0 \in T
  <2>1. goes([i \in 0..0 |-> base], 0)
    OBVIOUS
  <2> QED
    BY <2>1
<1>2. ASSUME NEW k \in T PROVE k + 1 \in T
  <2>1. PICK f : goes(f, k)
    BY <1>2
  <2>2. k \in Nat
    BY <1>2
  <2> DEFINE h == [i \in 0..(k + 1) |-> IF i <= k THEN f[i] ELSE step[<<f[k], s[k + 1]>>]]
  <2>3. ASSUME NEW i \in 0..(k + 1) PROVE h[i] = IF i = 0 THEN base ELSE step[<<h[i - 1], s[i]>>]
    <3>1. CASE i <= k
      <4>1. h[i] = f[i] /\ i \in 0..k /\ (i # 0 => h[i - 1] = f[i - 1])
        BY <2>2, <3>1
      <4>2. f[i] = IF i = 0 THEN base ELSE step[<<f[i - 1], s[i]>>]
        BY <2>1, <4>1
      <4> HIDE DEF h
      <4> QED
        BY <4>1, <4>2
    <3>2. CASE i = k + 1
      <4>1. h[i] = step[<<f[k], s[k + 1]>>] /\ h[k] = f[k] /\ i # 0 /\ i - 1 = k
        BY <2>2, <3>2
      <4> HIDE DEF h
      <4> QED
        BY <3>2, <4>1
    <3> QED
      BY <2>2, <3>1, <3>2
  <2>4. h = [i \in 0..(k + 1) |-> h[i]]
    OBVIOUS
  <2> HIDE DEF h
  <2>5. goes(h, k + 1)
    BY <2>3, <2>4
  <2> QED
    BY <2>2, <2>5
<1>3. T = Nat
  <2>1. T \subseteq Nat
    OBVIOUS
  <2> HIDE DEF T
  <2> QED
    BY ONLY <1>1, <1>2, <2>1, NatInduct
<1> QED
  BY <1>3 DEF Along

\* A fold has a result after each element.
LEMMA FoldExists ==
  ASSUME NEW X, NEW s \in Seq(X), NEW base, NEW step
  PROVE  Along(CHOOSE f : Along(f, base, step, s, Len(s)), base, step, s, Len(s))
<1>1. Len(s) \in Nat
  OBVIOUS
<1>2. \E f : Along(f, base, step, s, Len(s))
  BY <1>1, FoldGoes
<1> QED
  BY <1>2

\* The result of a fold is determined by its steps.
LEMMA FoldUnique ==
  ASSUME NEW base, NEW step, NEW s, NEW n \in Nat,
         NEW f, Steps(f, base, step, s, n), NEW g, Steps(g, base, step, s, n)
  PROVE  f[n] = g[n]
<1> USE DEF Steps
<1> DEFINE T == {k \in Nat : k <= n => f[k] = g[k]}
<1>1. 0 \in T
  OBVIOUS
<1>2. ASSUME NEW k \in T PROVE k + 1 \in T
  <2>1. SUFFICES ASSUME k + 1 <= n PROVE f[k + 1] = g[k + 1]
    OBVIOUS
  <2>2. k + 1 \in 1..n /\ (k + 1) - 1 = k /\ f[k] = g[k]
    BY <1>2, <2>1
  <2> QED
    BY <2>2
<1>3. T = Nat
  <2>1. T \subseteq Nat
    OBVIOUS
  <2> HIDE DEF T
  <2> QED
    BY ONLY <1>1, <1>2, <2>1, NatInduct
<1> QED
  BY <1>3

\* The fold of no elements.
LEMMA FoldedEmpty ==
  ASSUME NEW base, NEW step
  PROVE  Folded(base, step, <<>>) = base
<1>1. <<>> \in Seq({}) /\ Len(<<>>) = 0
  OBVIOUS
<1>2. Along(CHOOSE f : Along(f, base, step, <<>>, 0), base, step, <<>>, 0)
  BY <1>1, FoldExists
<1> QED
  BY <1>1, <1>2 DEF Folded, Along

\* The fold of one more element.
LEMMA FoldedAppend ==
  ASSUME NEW X, NEW s \in Seq(X), NEW c \in X, NEW base, NEW step
  PROVE  Folded(base, step, Append(s, c)) = step[<<Folded(base, step, s), c>>]
<1> DEFINE t == Append(s, c)
           f == CHOOSE f : Along(f, base, step, s, Len(s))
           g == CHOOSE g : Along(g, base, step, t, Len(t))
           n == Len(s)
<1>1. t \in Seq(X) /\ Len(t) = n + 1 /\ n \in Nat /\ t[n + 1] = c /\ \A i \in 1..n : t[i] = s[i]
  OBVIOUS
<1>2. Along(f, base, step, s, Len(s)) /\ Along(g, base, step, t, Len(t))
  BY <1>1, FoldExists
<1> HIDE DEF f, g
<1>3. f[0] = base /\ \A i \in 1..n : f[i] = step[<<f[i - 1], s[i]>>]
  BY <1>1, <1>2 DEF Along
<1> HIDE DEF t
<1>4. g[0] = base /\ \A i \in 1..(n + 1) : g[i] = step[<<g[i - 1], t[i]>>]
  BY <1>1, <1>2 DEF Along
<1>5. \A i \in 1..n : g[i] = step[<<g[i - 1], s[i]>>]
  BY <1>1, <1>4
<1>6. n \in Nat
  BY <1>1
<1>7. f[n] = g[n]
  <2> HIDE DEF n
  <2> QED
    <3>1. Steps(f, base, step, s, n) /\ Steps(g, base, step, s, n)
      BY <1>3, <1>4, <1>5 DEF Steps
    <3> QED
      BY ONLY <1>6, <3>1, FoldUnique
<1>8. g[n + 1] = step[<<g[n], t[n + 1]>>]
  BY <1>1, <1>4
<1> QED
  BY <1>1, <1>7, <1>8 DEF Folded, f, g, t

\* Sequences that have the empty one, and each with one more element, are all.
LEMMA SeqInduct ==
  ASSUME NEW X, NEW T, <<>> \in T, \A s \in Seq(X), c \in X : s \in T => Append(s, c) \in T
  PROVE  Seq(X) \subseteq T
<1> DEFINE U == {n \in Nat : \A s \in Seq(X) : Len(s) = n => s \in T}
<1>1. 0 \in U
  OBVIOUS
<1>2. ASSUME NEW n \in U PROVE n + 1 \in U
  <2>1. SUFFICES ASSUME NEW s \in Seq(X), Len(s) = n + 1 PROVE s \in T
    OBVIOUS
  <2>2. s # <<>>
    BY <1>2, <2>1
  <2>3. PICK t \in Seq(X), c \in X : s = Append(t, c)
    BY <2>2, SequenceEmptyOrAppend
  <2>4. Len(t) = n
    BY <1>2, <2>1, <2>3
  <2> QED
    BY <1>2, <2>3, <2>4
<1>3. U = Nat
  <2>1. U \subseteq Nat
    OBVIOUS
  <2> HIDE DEF U
  <2> QED
    BY ONLY <1>1, <1>2, <2>1, NatInduct
<1>4. ASSUME NEW s \in Seq(X) PROVE s \in T
  <2>1. Len(s) \in U
    BY <1>3
  <2> QED
    BY <2>1
<1> QED
  BY <1>4

\* The largest of a part of the places of a sequence.
LEMMA LastPlace ==
  ASSUME NEW n \in Nat, NEW A \in SUBSET (1..n), A # {}
  PROVE  Max(A) \in A /\ \A i \in A : i <= Max(A)
<1>1. IsFiniteSet(1..n)
  BY FS_Interval
<1> DEFINE f == [i \in 1..n |-> i]
<1>2. f \in [1..n -> Int]
  OBVIOUS
<1> HIDE DEF f
<1>3. PICK x \in A : \A y \in A : f[y] <= f[x]
  BY <1>1, <1>2, FiniteLargest
<1>4. \A y \in A : y <= x
  BY <1>3 DEF f
<1> QED
  BY <1>4 DEF Max

\* The first of a part of the places of a sequence.
LEMMA FirstPlace ==
  ASSUME NEW A \in SUBSET Nat, A # {}
  PROVE  Min(A) \in A /\ \A i \in A : Min(A) <= i
<1>1. PICK x \in A : \A y \in A : x <= y
  BY NatLeast
<1> QED
  BY <1>1 DEF Min

\* The steps of a fold of elements of X with results in V.
Stepping(V, X) == [V \X X -> V]

\* g folds by sets of places, the last one first.
BySets(g, base, step, s) ==
  \A A \in SUBSET DOMAIN s : g[A] = IF A = {} THEN base ELSE step[<<g[A \ {Max(A)}], s[Max(A)]>>]

\* h does, as far as its values are in V.
BySetsIn(h, V, base, step, s) ==
  /\ h[{}] = base
  /\ \A A \in SUBSET DOMAIN s :
       A # {} /\ h[A \ {Max(A)}] \in V => h[A] = step[<<h[A \ {Max(A)}], s[Max(A)]>>]

\* There is such a fold.
LEMMA FoldBySets ==
  ASSUME NEW X, NEW s \in Seq(X), NEW V, NEW base \in V, NEW step \in Stepping(V, X)
  PROVE  \E g \in [SUBSET DOMAIN s -> V] : BySets(g, base, step, s)
<1> DEFINE S == DOMAIN s
           pick == [A \in SUBSET S |-> Max(A)]
           at == [w \in V \X S |-> step[<<w[1], s[w[2]]>>]]
<1> USE DEF Stepping
<1>1. IsFiniteSet(S)
  BY FS_Interval
<1>2. S = 1..Len(s) /\ Len(s) \in Nat
  OBVIOUS
<1>3. \A A \in SUBSET S : A # {} => pick[A] \in A /\ pick[A] = Max(A)
  BY <1>2, LastPlace
<1>4. at \in [V \X S -> V]
  <2>1. ASSUME NEW w \in V \X S PROVE step[<<w[1], s[w[2]]>>] \in V
    <3>1. <<w[1], s[w[2]]>> \in V \X X
      OBVIOUS
    <3> QED
      BY <3>1
  <2> QED
    BY <2>1
<1>5. \A v \in V, i \in S : at[<<v, i>>] = step[<<v, s[i]>>]
  OBVIOUS
<1> HIDE DEF S, pick, at
<1>6. PICK g \in [SUBSET S -> V] : Recurses(g, S, base, at, pick)
  BY <1>1, <1>3, <1>4, FiniteRecursion
<1>7. ASSUME NEW A \in SUBSET S PROVE g[A] = IF A = {} THEN base ELSE step[<<g[A \ {Max(A)}], s[Max(A)]>>]
  <2>1. CASE A = {}
    BY <1>6, <2>1 DEF Recurses
  <2>2. CASE A # {}
    <3>1. g[A] = at[<<g[A \ {Max(A)}], Max(A)>>] /\ Max(A) \in S
      BY <1>3, <1>6, <2>2 DEF Recurses
    <3>2. g[A \ {Max(A)}] \in V
      BY <1>6
    <3> QED
      BY <1>5, <2>2, <3>1, <3>2
  <2> QED
    BY <2>1, <2>2
<1> QED
  BY <1>6, <1>7 DEF S, BySets

\* Any such fold is the fold.
LEMMA FoldOfSets ==
  ASSUME NEW X, NEW s \in Seq(X), NEW V, NEW base \in V, NEW step \in Stepping(V, X),
         NEW h, BySetsIn(h, V, base, step, s)
  PROVE  h[DOMAIN s] = Folded(base, step, s)
<1> USE DEF BySetsIn, Stepping
<1> DEFINE n == Len(s)
           f == CHOOSE f : Along(f, base, step, s, Len(s))
           g == [i \in 0..n |-> h[1..i]]
<1>1. n \in Nat /\ DOMAIN s = 1..n
  OBVIOUS
<1>2. ASSUME NEW i \in 1..n
      PROVE  1..i \in SUBSET DOMAIN s /\ 1..i # {} /\ Max(1..i) = i /\ (1..i) \ {i} = 1..(i - 1)
  <2>1. 1..i \in SUBSET (1..n) /\ 1..i # {}
    <3>1. i \in Nat /\ i <= n /\ 1 <= i /\ n \in Nat
      BY <1>1
    <3> HIDE DEF n
    <3>2. i \in 1..i /\ \A j \in 1..i : j \in 1..n
      BY ONLY <3>1
    <3> QED
      BY <3>2
  <2>2. Max(1..i) \in 1..i /\ \A j \in 1..i : j <= Max(1..i)
    BY <1>1, <2>1, LastPlace
  <2>3. i \in 1..i
    OBVIOUS
  <2>4. Max(1..i) = i
    BY <2>2, <2>3
  <2> QED
    BY <1>1, <2>1, <2>4
<1> DEFINE T == {i \in Nat : i <= n => h[1..i] \in V}
<1>3. 0 \in T
  <2>1. 1..0 = {}
    OBVIOUS
  <2> QED
    BY <2>1
<1>4. ASSUME NEW i \in T PROVE i + 1 \in T
  <2>1. SUFFICES ASSUME i + 1 <= n PROVE h[1..(i + 1)] \in V
    OBVIOUS
  <2>2. i \in Nat /\ h[1..i] \in V /\ i + 1 \in 1..n /\ (i + 1) - 1 = i
    BY <1>4, <2>1
  <2>3. h[1..(i + 1)] = step[<<h[1..i], s[i + 1]>>]
    BY <1>2, <2>2
  <2>4. <<h[1..i], s[i + 1]>> \in V \X X
    BY <2>2
  <2> QED
    BY <2>3, <2>4
<1>5. T = Nat
  <2>1. T \subseteq Nat
    OBVIOUS
  <2> HIDE DEF T
  <2> QED
    BY ONLY <1>3, <1>4, <2>1, NatInduct
<1>6. ASSUME NEW i \in 1..n PROVE g[i] = step[<<g[i - 1], s[i]>>]
  <2>1. g[i] = h[1..i] /\ g[i - 1] = h[1..(i - 1)] /\ i - 1 \in T
    BY <1>1, <1>5
  <2>2. h[1..(i - 1)] \in V
    BY <2>1
  <2>3. h[1..i] = step[<<h[1..(i - 1)], s[i]>>]
    BY <1>2, <2>2
  <2> QED
    BY ONLY <2>1, <2>3
<1>7. g[0] = base
  <2>1. 1..0 = {} /\ g[0] = h[1..0]
    BY <1>1
  <2> QED
    BY ONLY <2>1, h[{}] = base
<1>8. f[0] = base /\ \A i \in 1..n : f[i] = step[<<f[i - 1], s[i]>>]
  <2>1. Along(f, base, step, s, n)
    BY FoldExists
  <2>2. n \in Nat
    BY <1>1
  <2> HIDE DEF f, n
  <2> QED
    BY ONLY <2>1, <2>2 DEF Along
<1>9. g[n] = h[DOMAIN s] /\ n \in Nat
  BY <1>1
<1> HIDE DEF g, f, n
<1>10. f[n] = g[n]
  <2>1. Steps(f, base, step, s, n) /\ Steps(g, base, step, s, n)
    BY <1>6, <1>7, <1>8 DEF Steps
  <2> QED
    BY ONLY <1>9, <2>1, FoldUnique
<1> QED
  BY <1>9, <1>10 DEF Folded, f, n
=============================================================================
