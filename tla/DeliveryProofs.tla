--------------------------- MODULE DeliveryProofs ---------------------------
(***************************************************************************)
(* Proofs about Delivery, for any requests: the decoder walks an export in *)
(* order and loses, repeats and invents nothing, the texts and numbers of  *)
(* an event are those that were sent, and when the records say when they   *)
(* are from, the time of arrival does not reach the key of an event.       *)
(***************************************************************************)
EXTENDS Delivery, Induction

-----------------------------------------------------------------------------
(***************************************************************************)
(* Sequences that list a set of places, and their concatenation.           *)
(***************************************************************************)
Triple == Int \X Int \X Int

\* s has the values of the places in S, in their order: the n-th is of at[n].
Lists(s, at, S, val) ==
  /\ at \in [DOMAIN s -> S]
  /\ \A p \in S : \E n \in DOMAIN s : at[n] = p
  /\ \A m, n \in DOMAIN s : m < n => Before(at[m], at[n])
  /\ \A n \in DOMAIN s : s[n] = val[at[n]]

\* Two lists one after the other are a list.
LEMMA ListsJoin ==
  ASSUME NEW X, NEW s \in Seq(X), NEW t \in Seq(X), NEW A, NEW B, NEW val,
         NEW a, Lists(s, a, A, val), NEW b, Lists(t, b, B, val),
         \A p \in A, q \in B : Before(p, q)
  PROVE  \E c : Lists(s \o t, c, A \cup B, val)
<1> DEFINE m == Len(s)
           l == Len(t)
           c == [n \in 1..(m + l) |-> IF n <= m THEN a[n] ELSE b[n - m]]
<1>1. /\ m \in Nat /\ l \in Nat /\ DOMAIN s = 1..m /\ DOMAIN t = 1..l
      /\ DOMAIN (s \o t) = 1..(m + l)
      /\ \A n \in 1..(m + l) : (s \o t)[n] = IF n <= m THEN s[n] ELSE t[n - m]
  OBVIOUS
<1>2. /\ \A n \in 1..m : a[n] \in A /\ s[n] = val[a[n]]
      /\ \A n \in 1..l : b[n] \in B /\ t[n] = val[b[n]]
      /\ \A i, j \in 1..m : i < j => Before(a[i], a[j])
      /\ \A i, j \in 1..l : i < j => Before(b[i], b[j])
      /\ \A p \in A : \E n \in 1..m : a[n] = p
      /\ \A p \in B : \E n \in 1..l : b[n] = p
  BY <1>1 DEF Lists
<1> HIDE DEF m, l
<1>3. ASSUME NEW n \in 1..(m + l)
      PROVE  \/ n \in 1..m /\ c[n] = a[n]
             \/ n \notin 1..m /\ n - m \in 1..l /\ c[n] = b[n - m]
  BY <1>1
<1>4. \A n \in 1..m : n \in 1..(m + l) /\ c[n] = a[n]
  BY <1>1
<1>5. \A n \in 1..l : n + m \in 1..(m + l) /\ c[n + m] = b[n]
  <2> SUFFICES ASSUME NEW n \in 1..l PROVE n + m \in 1..(m + l) /\ c[n + m] = b[n]
    OBVIOUS
  <2>1. n + m \in 1..(m + l) /\ ~(n + m <= m) /\ (n + m) - m = n
    BY <1>1
  <2> QED
    BY <2>1
<1>6. c = [n \in 1..(m + l) |-> c[n]]
  OBVIOUS
<1> HIDE DEF c
<1>7. c \in [1..(m + l) -> A \cup B]
  BY <1>2, <1>3, <1>6
<1>8. \A p \in A \cup B : \E n \in 1..(m + l) : c[n] = p
  BY <1>2, <1>4, <1>5
<1>9. ASSUME NEW i \in 1..(m + l), NEW j \in 1..(m + l), i < j
      PROVE  Before(c[i], c[j])
  <2>1. CASE j \in 1..m
    <3>1. i \in 1..m
      BY <1>1, <1>9, <2>1
    <3> QED
      BY <1>2, <1>4, <1>9, <2>1, <3>1
  <2>2. CASE i \in 1..m /\ j \notin 1..m
    <3>1. c[i] \in A /\ c[j] \in B
      BY <1>2, <1>3, <2>2
    <3> QED
      BY <3>1
  <2>3. CASE i \notin 1..m
    <3>1. j \notin 1..m
      BY <1>1, <1>9, <2>3
    <3>2. i - m \in 1..l /\ j - m \in 1..l /\ i - m < j - m /\ c[i] = b[i - m] /\ c[j] = b[j - m]
      BY <1>1, <1>3, <1>9, <2>3, <3>1
    <3> QED
      BY <1>2, <3>2
  <2> QED
    BY <2>1, <2>2, <2>3
<1>10. ASSUME NEW n \in 1..(m + l) PROVE (s \o t)[n] = val[c[n]]
  BY <1>1, <1>2, <1>3
<1> DEFINE u == s \o t
<1>11. DOMAIN u = 1..(m + l) /\ \A n \in 1..(m + l) : u[n] = val[c[n]]
  BY <1>1, <1>10
<1> HIDE DEF u
<1>12. Lists(u, c, A \cup B, val)
  BY <1>7, <1>8, <1>9, <1>11, Zenon DEF Lists
<1> QED
  BY <1>12 DEF u

\* What FlattenSeq has put together after each of its sequences.
LEMMA FlattenSteps ==
  ASSUME NEW X, NEW ss \in Seq(Seq(X)), Len(ss) # 0
  PROVE  \E f : /\ f \in [1..Len(ss) -> Seq(X)]
                /\ FlattenSeq(ss) = f[Len(ss)]
                /\ f[1] = ss[1]
                /\ \A i \in 2..Len(ss) : f[i] = f[i - 1] \o ss[i]
<1> DEFINE n == Len(ss)
           goes(f) == f = [i \in 1..n |-> IF i = 1 THEN ss[i] ELSE f[i - 1] \o ss[i]]
           step == [w \in Seq(X) \X Seq(X) |-> w[1] \o w[2]]
           g == CHOOSE f : goes(f)
<1>1. n \in Nat \ {0} /\ \A i \in 1..n : ss[i] \in Seq(X)
  OBVIOUS
<1>2. FlattenSeq(ss) = g[n]
  BY DEF FlattenSeq
<1>3. \A u, v \in Seq(X) : step[<<u, v>>] = u \o v
  OBVIOUS
<1>4. \A u, v \in Seq(X) : u \o v \in Seq(X)
  OBVIOUS
<1>5. <<>> \in Seq(X) /\ \A u \in Seq(X) : <<>> \o u = u
  OBVIOUS
<1> HIDE DEF n, step
<1>6. PICK h : Along(h, <<>>, step, ss, n)
  BY <1>1, FoldGoes
<1>7. h[0] = <<>> /\ \A i \in 1..n : h[i] = step[<<h[i - 1], ss[i]>>]
  BY <1>1, <1>6 DEF Along
<1> DEFINE T == {i \in Nat : i <= n => h[i] \in Seq(X)}
<1>8. 0 \in T
  BY <1>5, <1>7
<1>9. ASSUME NEW i \in T PROVE i + 1 \in T
  <2>1. SUFFICES ASSUME i + 1 <= n PROVE h[i + 1] \in Seq(X)
    OBVIOUS
  <2>2. i \in Nat /\ i <= n /\ i + 1 \in 1..n /\ (i + 1) - 1 = i
    BY <1>1, <2>1
  <2>3. h[i] \in Seq(X) /\ ss[i + 1] \in Seq(X) /\ h[i + 1] = step[<<h[i], ss[i + 1]>>]
    BY <1>1, <1>7, <2>2
  <2>4. h[i + 1] = h[i] \o ss[i + 1]
    BY <1>3, <2>3, Zenon
  <2> QED
    BY <1>4, <2>3, <2>4, Zenon
<1>10. T = Nat
  <2>1. T \subseteq Nat
    OBVIOUS
  <2> HIDE DEF T
  <2> QED
    BY ONLY <1>8, <1>9, <2>1, NatInduct
<1>11. \A i \in 0..n : h[i] \in Seq(X)
  BY <1>1, <1>10
<1> HIDE DEF T
<1>12. ASSUME NEW i \in 1..n
       PROVE  h[i] = IF i = 1 THEN ss[i] ELSE h[i - 1] \o ss[i]
  <2>1. i - 1 \in 0..n
    BY <1>1
  <2>2. h[i - 1] \in Seq(X) /\ ss[i] \in Seq(X) /\ h[i] = step[<<h[i - 1], ss[i]>>]
    BY <1>1, <1>7, <1>11, <2>1
  <2>3. h[i] = h[i - 1] \o ss[i]
    BY <1>3, <2>2, Zenon
  <2>4. CASE i = 1
    <3>1. h[i - 1] = <<>>
      BY <1>7, <2>4
    <3> QED
      BY <1>5, <2>2, <2>3, <2>4, <3>1, Zenon
  <2> QED
    BY <2>3, <2>4
<1> DEFINE k == [i \in 1..n |-> h[i]]
<1>13. goes(k)
  <2>1. ASSUME NEW i \in 1..n
        PROVE  k[i] = IF i = 1 THEN ss[i] ELSE k[i - 1] \o ss[i]
    <3>1. CASE i = 1
      BY <1>12, <3>1
    <3>2. CASE i # 1
      <4>1. i - 1 \in 1..n
        BY <1>1, <3>2
      <4> QED
        BY <1>12, <3>2, <4>1
    <3> QED
      BY <3>1, <3>2
  <2>2. k = [i \in 1..n |-> k[i]]
    OBVIOUS
  <2> HIDE DEF k
  <2> QED
    BY <2>1, <2>2
<1>14. goes(g)
  <2> HIDE DEF k, goes
  <2> QED
    BY <1>13
<1> HIDE DEF g
<1>15. /\ g = [i \in 1..n |-> g[i]]
       /\ \A i \in 1..n : g[i] = IF i = 1 THEN ss[i] ELSE g[i - 1] \o ss[i]
  BY <1>14
<1> DEFINE U == {i \in Nat : i \in 1..n => g[i] = h[i]}
<1>16. 0 \in U
  OBVIOUS
<1>17. ASSUME NEW i \in U PROVE i + 1 \in U
  <2>1. SUFFICES ASSUME i + 1 \in 1..n PROVE g[i + 1] = h[i + 1]
    OBVIOUS
  <2>2. i \in Nat /\ (i + 1) - 1 = i /\ (i + 1 # 1 => i \in 1..n)
    BY <1>1, <2>1
  <2>3. /\ g[i + 1] = IF i + 1 = 1 THEN ss[i + 1] ELSE g[i] \o ss[i + 1]
        /\ h[i + 1] = IF i + 1 = 1 THEN ss[i + 1] ELSE h[i] \o ss[i + 1]
    BY <1>12, <1>15, <2>1, <2>2
  <2> QED
    BY <2>2, <2>3
<1>18. U = Nat
  <2>1. U \subseteq Nat
    OBVIOUS
  <2> HIDE DEF U
  <2> QED
    BY ONLY <1>16, <1>17, <2>1, NatInduct
<1>19. \A i \in 1..n : g[i] = h[i]
  BY <1>18
<1>20. g \in [1..n -> Seq(X)]
  BY <1>11, <1>15, <1>19
<1>21. 1 \in 1..n /\ \A i \in 2..n : i \in 1..n /\ i # 1
  BY <1>1
<1> QED
  BY <1>2, <1>15, <1>20, <1>21 DEF n

\* Lists of the places row by row, one after the other, are a list of all.
LEMMA FlattenLists ==
  ASSUME NEW X, NEW ss \in Seq(Seq(X)), NEW S, NEW val, NEW row \in [S -> DOMAIN ss],
         \A p, q \in S : row[p] < row[q] => Before(p, q),
         \A i \in DOMAIN ss : \E at : Lists(ss[i], at, {p \in S : row[p] = i}, val)
  PROVE  FlattenSeq(ss) \in Seq(X) /\ \E at : Lists(FlattenSeq(ss), at, S, val)
<1> DEFINE n == Len(ss)
           upTo(k) == {p \in S : row[p] <= k}
           only(k) == {p \in S : row[p] = k}
<1>1. n \in Nat /\ DOMAIN ss = 1..n /\ \A i \in 1..n : ss[i] \in Seq(X)
  OBVIOUS
<1>0. \A i \in 1..n : \E at : Lists(ss[i], at, only(i), val)
  BY <1>1
<1>2. CASE n = 0
  <2>1. S = {}
    BY <1>1, <1>2
  <2>2. FlattenSeq(ss) = ss /\ ss = <<>>
    BY <1>1, <1>2 DEF FlattenSeq
  <2>3. <<>> \in Seq(X) /\ DOMAIN <<>> = {}
    OBVIOUS
  <2> DEFINE none == [i \in {} |-> 0]
  <2>4. Lists(<<>>, none, S, val)
    BY <2>1, <2>3 DEF Lists
  <2> QED
    BY <2>2, <2>3, <2>4
<1>3. CASE n # 0
  <2> HIDE DEF n
  <2>1. PICK f : /\ f \in [1..n -> Seq(X)]
                 /\ FlattenSeq(ss) = f[n]
                 /\ f[1] = ss[1]
                 /\ \A i \in 2..n : f[i] = f[i - 1] \o ss[i]
    BY <1>3, FlattenSteps DEF n
  <2> HIDE DEF upTo, only
  <2> DEFINE T == {k \in Nat : k \in 1..n => \E at : Lists(f[k], at, upTo(k), val)}
  <2>2. 0 \in T
    OBVIOUS
  <2>3. ASSUME NEW k \in T PROVE k + 1 \in T
    <3>1. SUFFICES ASSUME k + 1 \in 1..n PROVE \E at : Lists(f[k + 1], at, upTo(k + 1), val)
      OBVIOUS
    <3>2. k \in Nat
      OBVIOUS
    <3>3. PICK b : Lists(ss[k + 1], b, only(k + 1), val)
      BY <1>0, <3>1
    <3>4. CASE k = 0
      <4>1. upTo(1) = only(1)
        BY <1>1 DEF upTo, only
      <4>2. k + 1 = 1
        BY <3>4
      <4>3. Lists(f[k + 1], b, upTo(k + 1), val)
        BY <2>1, <3>3, <4>1, <4>2, Zenon
      <4> QED
        BY <4>3
    <3>5. CASE k # 0
      <4>1. k \in 1..n /\ k + 1 \in 2..n /\ (k + 1) - 1 = k
        BY <1>1, <3>1, <3>2, <3>5
      <4>2. PICK a : Lists(f[k], a, upTo(k), val)
        BY <4>1
      <4>3. \A p \in upTo(k), q \in only(k + 1) : Before(p, q)
        <5> SUFFICES ASSUME NEW p \in upTo(k), NEW q \in only(k + 1) PROVE Before(p, q)
          OBVIOUS
        <5>1. p \in S /\ q \in S /\ row[p] < row[q]
          BY <1>1, <3>2 DEF upTo, only
        <5> QED
          BY <5>1
      <4>4. upTo(k) \cup only(k + 1) = upTo(k + 1)
        BY <1>1, <3>2 DEF upTo, only
      <4>5. f[k] \in Seq(X) /\ ss[k + 1] \in Seq(X) /\ f[k + 1] = f[k] \o ss[k + 1]
        <5>1. k + 1 \in 1..n
          BY <3>1
        <5>2. f[k + 1] = f[(k + 1) - 1] \o ss[k + 1]
          BY <2>1, <4>1, Zenon
        <5> HIDE DEF T
        <5> QED
          BY <1>1, <2>1, <4>1, <5>1, <5>2, Zenon
      <4>6. \E c : Lists(f[k] \o ss[k + 1], c, upTo(k) \cup only(k + 1), val)
        BY <3>3, <4>2, <4>3, <4>5, ListsJoin
      <4> QED
        BY <4>4, <4>5, <4>6, Zenon
    <3> QED
      BY <3>4, <3>5
  <2>4. T = Nat
    <3>1. T \subseteq Nat
      OBVIOUS
    <3> HIDE DEF T
    <3> QED
      BY ONLY <2>2, <2>3, <3>1, NatInduct
  <2>5. n \in 1..n /\ n \in T
    <3> HIDE DEF T
    <3> QED
      BY <1>1, <1>3, <2>4
  <2>6. upTo(n) = S
    BY <1>1 DEF upTo
  <2>7. \E at : Lists(f[n], at, upTo(n), val)
    BY <2>5
  <2>8. f[n] \in Seq(X)
    BY <2>1, <2>5
  <2> QED
    BY <2>1, <2>6, <2>7, <2>8, Zenon
<1> QED
  BY <1>2, <1>3

\* The places of a list are as many as its values, and the n-th of them is
\* the one with n - 1 before it.
LEMMA ListCounts ==
  ASSUME NEW X, NEW s \in Seq(X), NEW S, S \subseteq Triple, NEW val, NEW at, Lists(s, at, S, val)
  PROVE  /\ Cardinality(S) = Len(s)
         /\ \A n \in DOMAIN s : (CHOOSE p \in S : Cardinality({q \in S : Before(q, p)}) = n - 1) = at[n]
<1> DEFINE l == Len(s)
<1>1. l \in Nat /\ DOMAIN s = 1..l
  OBVIOUS
<1> HIDE DEF l
<1>2. at \in [1..l -> S] /\ \A p \in S : \E n \in 1..l : at[n] = p
  BY <1>1 DEF Lists
<1>3. \A m, n \in 1..l : m < n => Before(at[m], at[n])
  BY <1>1 DEF Lists
<1>4. \A m \in 1..l : at[m] \in S /\ at[m] \in Triple
  BY <1>2
<1>5. ASSUME NEW p \in Triple, NEW q \in Triple PROVE ~(Before(p, q) /\ (Before(q, p) \/ p = q))
  BY DEF Before, Triple
<1>6. ASSUME NEW m \in 1..l, NEW n \in 1..l
      PROVE  (Before(at[m], at[n]) <=> m < n) /\ (at[m] = at[n] => m = n)
  <2>1. m < n \/ n < m \/ m = n
    OBVIOUS
  <2> QED
    BY <1>3, <1>4, <1>5, <2>1
<1>7. ASSUME NEW n \in 0..l, NEW A, A = {at[m] : m \in 1..n} PROVE Cardinality(A) = n
  <2> DEFINE f == [m \in 1..n |-> at[m]]
  <2>1. n \in Nat /\ \A m \in 1..n : m \in 1..l
    BY <1>1
  <2>2. f \in [1..n -> A] /\ \A a \in A : \E m \in 1..n : f[m] = a
    BY <1>7
  <2>4. \A i, j \in 1..n : f[i] = f[j] => i = j
    BY <1>6, <2>1
  <2>5. ExistsBijection(1..n, A)
    <3> HIDE DEF f
    <3> QED
      BY <2>2, <2>4 DEF ExistsBijection, Bijection, Injection, Surjection, IsInjective
  <2>3. IsFiniteSet(1..n) /\ Cardinality(1..n) = n
    BY <2>1, FS_Interval
  <2> QED
    BY <2>3, <2>5, FS_Bijection
<1>8. ASSUME NEW n \in 1..l PROVE Cardinality({q \in S : Before(q, at[n])}) = n - 1
  <2> DEFINE A == {q \in S : Before(q, at[n])}
  <2>1. n - 1 \in 0..l /\ \A m \in 1..l : m < n <=> m \in 1..(n - 1)
    BY <1>1
  <2>2. \A m \in 1..(n - 1) : m \in 1..l
    BY <1>1
  <2>3. A = {at[m] : m \in 1..(n - 1)}
    BY <1>2, <1>4, <1>6, <2>1, <2>2
  <2> HIDE DEF A
  <2> QED
    BY <1>7, <2>1, <2>3 DEF A
<1>9. Cardinality(S) = l
  <2>1. l \in 0..l /\ S = {at[m] : m \in 1..l}
    BY <1>1, <1>2
  <2> QED
    BY <1>7, <2>1
<1>10. ASSUME NEW n \in 1..l
       PROVE  (CHOOSE p \in S : Cardinality({q \in S : Before(q, p)}) = n - 1) = at[n]
  <2> DEFINE places(p) == Cardinality({q \in S : Before(q, p)}) = n - 1
  <2>1. at[n] \in S /\ places(at[n])
    BY <1>4, <1>8
  <2>2. ASSUME NEW p \in S, places(p) PROVE p = at[n]
    <3>1. PICK m \in 1..l : at[m] = p
      BY <1>2
    <3>2. m - 1 = n - 1
      BY <1>8, <2>2, <3>1
    <3> QED
      BY <1>1, <3>1, <3>2
  <2> HIDE DEF places
  <2>3. (CHOOSE p \in S : places(p)) = at[n]
    BY <2>1, <2>2
  <2> QED
    BY <2>3 DEF places
<1> QED
  BY <1>1, <1>9, <1>10 DEF l

-----------------------------------------------------------------------------
(***************************************************************************)
(* The attributes of a record.                                             *)
(***************************************************************************)
\* The positions of key k.
KeyAt(kvs, k) == {i \in DOMAIN kvs : kvs[i].key = k}

\* A sequence has its positions from 1 on, and the last of some is one of them.
LEMMA SequenceIs ==
  ASSUME NEW s, IsSequence(s)
  PROVE  /\ s \in Seq(Range(s)) /\ Len(s) \in Nat /\ DOMAIN s = 1..Len(s)
         /\ \A A \in SUBSET DOMAIN s : A # {} => Max(A) \in A /\ \A i \in A : i <= Max(A)
<1>1. s \in Seq(Range(s))
  BY DEF IsSequence
<1> HIDE DEF Range
<1>2. Len(s) \in Nat /\ DOMAIN s = 1..Len(s)
  BY <1>1
<1> QED
  BY <1>1, <1>2, LastPlace

\* A map of attributes has the last value of each key.
LEMMA LastPrevails ==
  ASSUME NEW kvs, IsSequence(kvs), NEW k
  PROVE  /\ k \in DOMAIN attrsToMap(kvs) <=> KeyAt(kvs, k) # {}
         /\ KeyAt(kvs, k) # {} => attrsToMap(kvs)[k] = anyValue(kvs[Max(KeyAt(kvs, k))].value)
<1> DEFINE A == KeyAt(kvs, k)
           keys == {kvs[i].key : i \in DOMAIN kvs}
           isLast(i) == kvs[i].key = k /\ \A j \in DOMAIN kvs : kvs[j].key = k => j <= i
           value == anyValue(kvs[CHOOSE i \in DOMAIN kvs : isLast(i)].value)
<1>1. DOMAIN attrsToMap(kvs) = keys /\ (k \in keys => attrsToMap(kvs)[k] = value)
  BY DEF attrsToMap
<1>2. k \in keys <=> A # {}
  BY DEF KeyAt
<1>3. ASSUME A # {} PROVE (CHOOSE i \in DOMAIN kvs : isLast(i)) = Max(A)
  <2>1. Max(A) \in A /\ \A i \in A : i <= Max(A)
    <3>1. A \in SUBSET DOMAIN kvs
      BY DEF KeyAt
    <3> HIDE DEF A
    <3> QED
      BY <1>3, <3>1, SequenceIs
  <2>2. Max(A) \in DOMAIN kvs /\ isLast(Max(A))
    BY <2>1 DEF KeyAt
  <2>3. ASSUME NEW i \in DOMAIN kvs, isLast(i) PROVE i = Max(A)
    <3>1. i \in A /\ i <= Max(A) /\ Max(A) <= i
      BY <2>1, <2>2, <2>3 DEF KeyAt
    <3>2. i \in Nat /\ Max(A) \in Nat
      BY <2>2, SequenceIs
    <3> QED
      BY <3>1, <3>2
  <2> HIDE DEF A, isLast
  <2> QED
    BY <2>2, <2>3
<1> HIDE DEF keys, isLast
<1> QED
  BY <1>1, <1>2, <1>3

\* The attributes of a record prevail over those of its resource, as if they
\* were stated after them.
LEMMA OwnPrevail ==
  ASSUME NEW a, IsSequence(a), NEW b, IsSequence(b), NEW k, NEW kvs, kvs = a \o b
  PROVE  Get(Attributes(a, b), k) = IF KeyAt(kvs, k) = {} THEN Nil ELSE anyValue(kvs[Max(KeyAt(kvs, k))].value)
<1> DEFINE A == KeyAt(a, k)
           B == KeyAt(b, k)
           C == KeyAt(kvs, k)
           m == Len(a)
           l == Len(b)
<1>1. m \in Nat /\ l \in Nat /\ DOMAIN a = 1..m /\ DOMAIN b = 1..l
  BY SequenceIs
<1>2. DOMAIN kvs = 1..(m + l) /\ \A i \in 1..(m + l) : kvs[i] = IF i <= m THEN a[i] ELSE b[i - m]
  <2>1. a \in Seq(Range(a) \cup Range(b)) /\ b \in Seq(Range(a) \cup Range(b))
    BY SequenceIs
  <2> QED
    BY <2>1
<1>3. /\ k \in DOMAIN attrsToMap(a) <=> A # {}
      /\ k \in DOMAIN attrsToMap(b) <=> B # {}
      /\ A # {} => attrsToMap(a)[k] = anyValue(a[Max(A)].value)
      /\ B # {} => attrsToMap(b)[k] = anyValue(b[Max(B)].value)
  BY LastPrevails
<1>4. Get(Attributes(a, b), k) = IF B # {} THEN anyValue(b[Max(B)].value)
                                 ELSE IF A # {} THEN anyValue(a[Max(A)].value) ELSE Nil
  BY <1>3 DEF Get, Attributes
<1>5. /\ \A i \in C : (i <= m /\ i \in A) \/ (i > m /\ i - m \in B)
      /\ \A i \in A : i \in C /\ i <= m
      /\ \A i \in B : i + m \in C /\ (i + m) - m = i /\ i >= 1
  <2> HIDE DEF m, l
  <2>1. ASSUME NEW i \in C PROVE (i <= m /\ i \in A) \/ (i > m /\ i - m \in B)
    <3>1. i \in 1..(m + l) /\ kvs[i].key = k
      BY <1>2 DEF KeyAt
    <3>2. CASE i <= m
      BY <1>1, <1>2, <3>1, <3>2 DEF KeyAt
    <3>3. CASE i > m
      BY <1>1, <1>2, <3>1, <3>3 DEF KeyAt
    <3> QED
      BY <1>1, <3>1, <3>2, <3>3
  <2>2. ASSUME NEW i \in A PROVE i \in C /\ i <= m
    BY <1>1, <1>2 DEF KeyAt
  <2>3. ASSUME NEW i \in B PROVE i + m \in C /\ (i + m) - m = i /\ i >= 1
    <3>1. i \in 1..l /\ b[i].key = k
      BY <1>1 DEF KeyAt
    <3>2. i + m \in 1..(m + l) /\ ~(i + m <= m) /\ (i + m) - m = i
      BY <1>1, <3>1
    <3>3. kvs[i + m].key = k
      BY <1>2, <3>1, <3>2
    <3>4. i + m \in C
      BY <1>2, <3>2, <3>3 DEF KeyAt
    <3> QED
      BY <1>1, <3>1, <3>2, <3>4
  <2> QED
    BY <2>1, <2>2, <2>3
<1>6. A \in SUBSET (1..m) /\ B \in SUBSET (1..l) /\ C \in SUBSET (1..(m + l))
  BY <1>1, <1>2 DEF KeyAt
<1> HIDE DEF A, B, C, m, l
<1>7. /\ A # {} => Max(A) \in A /\ \A i \in A : i <= Max(A)
      /\ B # {} => Max(B) \in B /\ \A i \in B : i <= Max(B)
      /\ C # {} => Max(C) \in C /\ \A i \in C : i <= Max(C)
  <2>1. m + l \in Nat
    BY <1>1
  <2> QED
    BY <1>1, <1>6, <2>1, LastPlace
<1> DEFINE x == Max(A)
           y == Max(B)
           z == Max(C)
<1>8. /\ A # {} => x \in A /\ \A i \in A : i <= x
      /\ B # {} => y \in B /\ \A i \in B : i <= y
      /\ C # {} => z \in C /\ \A i \in C : i <= z
  BY <1>7
<1>9. (\A i \in A : i \in Nat) /\ (\A i \in B : i \in Nat) /\ \A i \in C : i \in 1..(m + l)
  BY <1>6
<1> HIDE DEF x, y, z
<1>10. CASE B # {}
  <2>1. y \in B /\ y + m \in C /\ y \in Nat /\ y >= 1 /\ (y + m) - m = y
    BY <1>5, <1>8, <1>9, <1>10
  <2>2. z \in C /\ z \in 1..(m + l) /\ y + m <= z
    BY <1>8, <1>9, <2>1
  <2>3. z > m
    BY <1>1, <2>1, <2>2
  <2>4. z - m \in B
    BY <1>1, <1>5, <2>2, <2>3
  <2>5. z - m <= y
    BY <1>8, <1>10, <2>4
  <2>6. z - m = y
    BY <1>1, <2>1, <2>2, <2>5
  <2>7. kvs[z] = b[y] /\ C # {}
    BY <1>1, <1>2, <2>2, <2>3, <2>6
  <2> QED
    BY <1>4, <1>10, <2>7 DEF C, z, y
<1>11. CASE B = {} /\ A # {}
  <2>1. x \in A /\ x \in C /\ x \in Nat
    BY <1>5, <1>8, <1>9, <1>11
  <2>2. z \in C /\ x <= z /\ z \in 1..(m + l)
    BY <1>8, <1>9, <2>1
  <2>3. z \in A /\ z <= m
    BY <1>5, <1>11, <2>2
  <2>4. z <= x
    BY <1>8, <1>11, <2>3
  <2>5. z = x
    BY <2>1, <2>2, <2>4
  <2>6. kvs[z] = a[x] /\ C # {}
    BY <1>2, <2>2, <2>3, <2>5
  <2> QED
    BY <1>4, <1>11, <2>6 DEF C, z, x
<1>12. CASE B = {} /\ A = {}
  <2>1. C = {}
    BY <1>5, <1>12
  <2> QED
    BY <1>4, <1>12, <2>1 DEF C
<1> QED
  BY <1>10, <1>11, <1>12

-----------------------------------------------------------------------------
(***************************************************************************)
(* The records of a request, place by place.                               *)
(***************************************************************************)
\* What Records has of a place.
Found(r, p) == [attrs |-> AttributesAt(r, p), record |-> RecordAt(r, p)]
FoundAt(r) == [p \in Places(r) |-> Found(r, p)]
AllFound(r) == {Found(r, p) : p \in Places(r)}

InScope(r, i, j) == {<<i, j, k>> : k \in DOMAIN r[i].scopeLogs[j]}
InResource(r, i) == UNION {InScope(r, i, j) : j \in DOMAIN r[i].scopeLogs}

\* A tuple has its components.
LEMMA TripleIs ==
  ASSUME NEW i, NEW j, NEW k
  PROVE  LET p == <<i, j, k>> IN p[1] = i /\ p[2] = j /\ p[3] = k
OBVIOUS

\* Places are triples of numbers, those of a scope and of a resource are some
\* of them, and so are those of the metered records.
LEMMA PlaceIs ==
  ASSUME NEW r, IsRequest(r)
  PROVE  /\ Places(r) \subseteq Triple
         /\ \A i \in DOMAIN r : InResource(r, i) = {p \in Places(r) : p[1] = i}
         /\ \A i \in DOMAIN r : \A j \in DOMAIN r[i].scopeLogs :
              InScope(r, i, j) = {p \in InResource(r, i) : p[2] = j}
         /\ \A p \in Places(r) : p[1] \in DOMAIN r /\ p[2] \in DOMAIN r[p[1]].scopeLogs
         /\ \A p \in Places(r) : p[3] \in DOMAIN r[p[1]].scopeLogs[p[2]]
<1>1. ASSUME NEW p \in Places(r)
      PROVE  \E i \in DOMAIN r : \E j \in DOMAIN r[i].scopeLogs : \E k \in DOMAIN r[i].scopeLogs[j] : p = <<i, j, k>>
  BY DEF Places
<1>2. ASSUME NEW i \in DOMAIN r, NEW j \in DOMAIN r[i].scopeLogs, NEW k \in DOMAIN r[i].scopeLogs[j]
      PROVE  <<i, j, k>> \in Places(r) /\ <<i, j, k>> \in InScope(r, i, j) /\ <<i, j, k>> \in InResource(r, i)
  BY DEF Places, InScope, InResource
<1>3. ASSUME NEW i \in DOMAIN r, NEW p \in InResource(r, i)
      PROVE  \E j \in DOMAIN r[i].scopeLogs : \E k \in DOMAIN r[i].scopeLogs[j] : p = <<i, j, k>>
  BY DEF InResource, InScope
<1>4. ASSUME NEW i \in DOMAIN r, NEW j \in DOMAIN r[i].scopeLogs, NEW p \in InScope(r, i, j)
      PROVE  \E k \in DOMAIN r[i].scopeLogs[j] : p = <<i, j, k>>
  BY DEF InScope
<1>5. ASSUME NEW i \in DOMAIN r, NEW j \in DOMAIN r[i].scopeLogs, NEW k \in DOMAIN r[i].scopeLogs[j]
      PROVE  <<i, j, k>> \in Triple
  <2>1. IsSequence(r) /\ IsSequence(r[i].scopeLogs) /\ IsSequence(r[i].scopeLogs[j])
    BY DEF IsRequest
  <2>2. i \in Int /\ j \in Int /\ k \in Int
    BY <2>1, SequenceIs
  <2> QED
    BY <2>2 DEF Triple
<1>6. Places(r) \subseteq Triple
  <2> SUFFICES ASSUME NEW p \in Places(r) PROVE p \in Triple
    OBVIOUS
  <2> QED
    BY <1>1, <1>5
<1>7. ASSUME NEW p \in Places(r)
      PROVE  p[1] \in DOMAIN r /\ p[2] \in DOMAIN r[p[1]].scopeLogs /\ p[3] \in DOMAIN r[p[1]].scopeLogs[p[2]]
  <2>1. PICK i \in DOMAIN r :
           \E j \in DOMAIN r[i].scopeLogs : \E k \in DOMAIN r[i].scopeLogs[j] : p = <<i, j, k>>
    BY <1>1
  <2>2. PICK j \in DOMAIN r[i].scopeLogs : \E k \in DOMAIN r[i].scopeLogs[j] : p = <<i, j, k>>
    BY <2>1
  <2> QED
    BY <2>2, TripleIs
<1>8. ASSUME NEW i \in DOMAIN r PROVE InResource(r, i) = {p \in Places(r) : p[1] = i}
  <2>1. ASSUME NEW p \in InResource(r, i) PROVE p \in Places(r) /\ p[1] = i
    BY <1>2, <1>3, TripleIs
  <2>2. ASSUME NEW p \in Places(r), p[1] = i PROVE p \in InResource(r, i)
    BY <1>1, <1>2, <2>2, TripleIs
  <2> QED
    BY <2>1, <2>2
<1>9. ASSUME NEW i \in DOMAIN r, NEW j \in DOMAIN r[i].scopeLogs
      PROVE  InScope(r, i, j) = {p \in InResource(r, i) : p[2] = j}
  <2>1. ASSUME NEW p \in InScope(r, i, j) PROVE p \in InResource(r, i) /\ p[2] = j
    BY <1>2, <1>4, TripleIs
  <2>2. ASSUME NEW p \in InResource(r, i), p[2] = j PROVE p \in InScope(r, i, j)
    BY <1>2, <1>3, <2>2, TripleIs
  <2> QED
    BY <2>1, <2>2
<1> QED
  BY <1>6, <1>7, <1>8, <1>9

\* The records of a scope are listed.
LEMMA ScopeListed ==
  ASSUME NEW r, IsRequest(r), NEW i \in DOMAIN r, NEW j \in DOMAIN r[i].scopeLogs
  PROVE  /\ ScopeRecords(r[i], r[i].scopeLogs[j]) \in Seq(AllFound(r))
         /\ \E at : Lists(ScopeRecords(r[i], r[i].scopeLogs[j]), at, InScope(r, i, j), FoundAt(r))
<1> DEFINE scope == r[i].scopeLogs[j]
           s == ScopeRecords(r[i], scope)
           at == [k \in DOMAIN scope |-> <<i, j, k>>]
<1>1. IsSequence(scope) /\ IsSequence(r[i].scopeLogs) /\ IsSequence(r)
  BY DEF IsRequest
<1>2. Len(scope) \in Nat /\ DOMAIN scope = 1..Len(scope) /\ i \in Int /\ j \in Int
  BY <1>1, SequenceIs
<1>3. ASSUME NEW k \in DOMAIN scope
      PROVE  <<i, j, k>> \in Places(r) /\ <<i, j, k>> \in InScope(r, i, j)
  BY DEF Places, InScope
<1>4. DOMAIN s = DOMAIN scope
  BY DEF ScopeRecords
<1>5. ASSUME NEW k \in DOMAIN scope PROVE s[k] = Found(r, <<i, j, k>>)
  BY TripleIs DEF ScopeRecords, Found, AttributesAt, RecordAt
<1>6. s = [k \in 1..Len(scope) |-> s[k]]
  BY <1>2 DEF ScopeRecords
<1>7. \A k \in DOMAIN scope : at[k] = <<i, j, k>>
  OBVIOUS
<1>8. at = [k \in DOMAIN scope |-> at[k]]
  OBVIOUS
<1> HIDE DEF s, at
<1>9. s \in Seq(AllFound(r))
  <2>1. \A k \in 1..Len(scope) : s[k] \in AllFound(r)
    BY <1>2, <1>3, <1>5 DEF AllFound
  <2> HIDE DEF scope
  <2>2. s \in [1..Len(scope) -> AllFound(r)]
    BY <1>6, <2>1
  <2> QED
    BY <1>2, <2>2
<1>10. at \in [DOMAIN s -> InScope(r, i, j)]
  BY <1>3, <1>4, <1>7, <1>8
<1>11. \A p \in InScope(r, i, j) : \E k \in DOMAIN s : at[k] = p
  BY <1>4, <1>7 DEF InScope
<1>12. ASSUME NEW k \in DOMAIN s, NEW l \in DOMAIN s, k < l PROVE Before(at[k], at[l])
  <2>1. Before(<<i, j, k>>, <<i, j, l>>)
    BY <1>2, <1>4, <1>12 DEF Before
  <2> QED
    BY <1>4, <1>7, <2>1
<1>13. ASSUME NEW k \in DOMAIN s PROVE s[k] = FoundAt(r)[at[k]]
  BY <1>3, <1>4, <1>5, <1>7 DEF FoundAt
<1>14. Lists(s, at, InScope(r, i, j), FoundAt(r))
  BY <1>10, <1>11, <1>12, <1>13 DEF Lists
<1> QED
  BY <1>9, <1>14 DEF s

\* So are those of a resource.
LEMMA ResourceListed ==
  ASSUME NEW r, IsRequest(r), NEW i \in DOMAIN r
  PROVE  /\ ResourceRecords(r[i]) \in Seq(AllFound(r))
         /\ \E at : Lists(ResourceRecords(r[i]), at, InResource(r, i), FoundAt(r))
<1> DEFINE scopes == r[i].scopeLogs
           ss == [j \in DOMAIN scopes |-> ScopeRecords(r[i], scopes[j])]
           row == [p \in InResource(r, i) |-> p[2]]
           X == AllFound(r)
<1>1. IsSequence(scopes) /\ IsSequence(r)
  BY DEF IsRequest
<1>2. Len(scopes) \in Nat /\ DOMAIN scopes = 1..Len(scopes)
  BY <1>1, SequenceIs
<1>3. ResourceRecords(r[i]) = FlattenSeq(ss)
  BY DEF ResourceRecords
<1>4. \A j \in DOMAIN scopes : ss[j] = ScopeRecords(r[i], scopes[j])
  OBVIOUS
<1>5. ss = [j \in 1..Len(scopes) |-> ss[j]] /\ DOMAIN ss = DOMAIN scopes
  BY <1>2
<1>6. \A p \in InResource(r, i) : row[p] = p[2]
  OBVIOUS
<1>7. row = [p \in InResource(r, i) |-> row[p]]
  OBVIOUS
<1>8. \A p \in InResource(r, i) : p \in Triple /\ p \in Places(r) /\ p[1] = i /\ p[2] \in DOMAIN scopes
  BY PlaceIs
<1> HIDE DEF ss, row
<1>9. ss \in Seq(Seq(X))
  <2>1. \A j \in 1..Len(scopes) : ss[j] \in Seq(X)
    BY <1>2, <1>4, ScopeListed
  <2> HIDE DEF X, scopes
  <2>2. ss \in [1..Len(scopes) -> Seq(X)]
    BY <1>5, <2>1
  <2> QED
    BY <1>2, <2>2
<1>10. row \in [InResource(r, i) -> DOMAIN ss]
  BY <1>5, <1>6, <1>7, <1>8
<1>11. ASSUME NEW p \in InResource(r, i), NEW q \in InResource(r, i), row[p] < row[q]
       PROVE  Before(p, q)
  <2>1. p[1] = q[1] /\ p[2] < q[2]
    BY <1>6, <1>8, <1>11
  <2> QED
    BY <2>1 DEF Before
<1>12. ASSUME NEW j \in DOMAIN ss
       PROVE  \E at : Lists(ss[j], at, {p \in InResource(r, i) : row[p] = j}, FoundAt(r))
  <2>1. j \in DOMAIN scopes
    BY <1>5
  <2>2. {p \in InResource(r, i) : row[p] = j} = InScope(r, i, j)
    <3>1. {p \in InResource(r, i) : row[p] = j} = {p \in InResource(r, i) : p[2] = j}
      BY <1>6
    <3> QED
      BY <2>1, <3>1, PlaceIs
  <2>3. \E at : Lists(ScopeRecords(r[i], scopes[j]), at, InScope(r, i, j), FoundAt(r))
    BY <2>1, ScopeListed
  <2> QED
    BY <1>4, <2>1, <2>2, <2>3, Zenon
<1> HIDE DEF X, scopes
<1>13. FlattenSeq(ss) \in Seq(X) /\ \E at : Lists(FlattenSeq(ss), at, InResource(r, i), FoundAt(r))
  BY <1>9, <1>10, <1>11, <1>12, FlattenLists
<1> QED
  BY <1>3, <1>13 DEF X

\* And those of a request.
LEMMA RecordsListed ==
  ASSUME NEW r, IsRequest(r)
  PROVE  /\ Records(r) \in Seq(AllFound(r))
         /\ \E at : Lists(Records(r), at, Places(r), FoundAt(r))
<1> DEFINE ss == [i \in DOMAIN r |-> ResourceRecords(r[i])]
           row == [p \in Places(r) |-> p[1]]
           X == AllFound(r)
<1>1. Len(r) \in Nat /\ DOMAIN r = 1..Len(r)
  BY SequenceIs DEF IsRequest
<1>2. Records(r) = FlattenSeq(ss)
  BY DEF Records
<1>3. \A i \in DOMAIN r : ss[i] = ResourceRecords(r[i])
  OBVIOUS
<1>4. ss = [i \in 1..Len(r) |-> ss[i]] /\ DOMAIN ss = DOMAIN r
  BY <1>1
<1>5. \A p \in Places(r) : row[p] = p[1]
  OBVIOUS
<1>6. row = [p \in Places(r) |-> row[p]]
  OBVIOUS
<1>7. \A p \in Places(r) : p \in Triple /\ p[1] \in DOMAIN r
  BY PlaceIs
<1> HIDE DEF ss, row
<1>8. ss \in Seq(Seq(X))
  <2>1. \A i \in 1..Len(r) : ss[i] \in Seq(X)
    BY <1>1, <1>3, ResourceListed
  <2> HIDE DEF X
  <2>2. ss \in [1..Len(r) -> Seq(X)]
    BY <1>4, <2>1
  <2> QED
    BY <1>1, <2>2
<1>9. row \in [Places(r) -> DOMAIN ss]
  BY <1>4, <1>5, <1>6, <1>7
<1>10. ASSUME NEW p \in Places(r), NEW q \in Places(r), row[p] < row[q] PROVE Before(p, q)
  BY <1>5, <1>10 DEF Before
<1>11. ASSUME NEW i \in DOMAIN ss
       PROVE  \E at : Lists(ss[i], at, {p \in Places(r) : row[p] = i}, FoundAt(r))
  <2>1. i \in DOMAIN r
    BY <1>4
  <2>2. {p \in Places(r) : row[p] = i} = InResource(r, i)
    <3>1. {p \in Places(r) : row[p] = i} = {p \in Places(r) : p[1] = i}
      BY <1>5
    <3> QED
      BY <2>1, <3>1, PlaceIs
  <2>3. \E at : Lists(ResourceRecords(r[i]), at, InResource(r, i), FoundAt(r))
    BY <2>1, ResourceListed
  <2> QED
    BY <1>3, <2>1, <2>2, <2>3, Zenon
<1> HIDE DEF X
<1>12. FlattenSeq(ss) \in Seq(X) /\ \E at : Lists(FlattenSeq(ss), at, Places(r), FoundAt(r))
  BY <1>8, <1>9, <1>10, <1>11, FlattenLists
<1> QED
  BY <1>2, <1>12 DEF X

-----------------------------------------------------------------------------
(***************************************************************************)
(* The metered records, and the events that are made of them.              *)
(***************************************************************************)
\* The attributes of a place are those stated there.
LEMMA StatedPrevail ==
  ASSUME NEW r, IsRequest(r), NEW p \in Places(r), NEW k
  PROVE  Get(AttributesAt(r, p), k) =
           IF Stated(r, p, k) = {} THEN Nil ELSE anyValue(Pairs(r, p)[Max(Stated(r, p, k))].value)
<1> DEFINE a == r[p[1]].attributes
           b == RecordAt(r, p).attributes
           kvs == Pairs(r, p)
<1>1. IsSequence(a) /\ IsSequence(b)
  BY PlaceIs DEF IsRequest, IsAttributes, RecordAt
<1>2. kvs = a \o b
  BY DEF Pairs
<1>3. AttributesAt(r, p) = Attributes(a, b)
  BY DEF AttributesAt
<1>4. Stated(r, p, k) = KeyAt(kvs, k)
  BY DEF Stated, KeyAt
<1> HIDE DEF a, b, kvs
<1>5. Get(Attributes(a, b), k) = IF KeyAt(kvs, k) = {} THEN Nil ELSE anyValue(kvs[Max(KeyAt(kvs, k))].value)
  BY <1>1, <1>2, OwnPrevail
<1> QED
  BY <1>3, <1>4, <1>5, Zenon DEF kvs

\* Texts are read as they are stated.
LEMMA TextIs ==
  ASSUME NEW r, IsRequest(r), NEW p \in Places(r), NEW k
  PROVE  asString(Get(AttributesAt(r, p), k)) = Text(r, p, k)
<1>1. asString(Nil) = ""
  BY DEF asString, Nil
<1>2. CASE Stated(r, p, k) = {}
  BY <1>1, <1>2, StatedPrevail DEF Text
<1>3. CASE Stated(r, p, k) # {}
  BY <1>3, StatedPrevail DEF Text
<1> QED
  BY <1>2, <1>3

\* So is the name of an event.
LEMMA NameIs ==
  ASSUME NEW r, IsRequest(r), NEW p \in Places(r)
  PROVE  EventName(AttributesAt(r, p), RecordAt(r, p)) = Named(r, p)
<1>1. asString(Get(AttributesAt(r, p), "event.name")) = Text(r, p, "event.name")
  BY TextIs
<1> QED
  BY <1>1, Zenon DEF EventName, Named

\* What a filter keeps of a list is a list.
LEMMA FilterLists ==
  ASSUME NEW X, NEW s \in Seq(X), NEW S, S \subseteq Triple, NEW val, NEW at, Lists(s, at, S, val),
         NEW K, K \subseteq S, NEW ss \in [DOMAIN s -> Seq(X)],
         \A n \in DOMAIN s : at[n] \in K => DOMAIN ss[n] = {1} /\ ss[n][1] = s[n],
         \A n \in DOMAIN s : at[n] \notin K => DOMAIN ss[n] = {}
  PROVE  FlattenSeq(ss) \in Seq(X) /\ \E a : Lists(FlattenSeq(ss), a, K, val)
<1>1. /\ at \in [DOMAIN s -> S]
      /\ \A p \in S : \E n \in DOMAIN s : at[n] = p
      /\ \A m, n \in DOMAIN s : m < n => Before(at[m], at[n])
      /\ \A n \in DOMAIN s : s[n] = val[at[n]]
  BY DEF Lists
<1>2. Len(s) \in Nat /\ DOMAIN s = 1..Len(s) /\ \A n \in DOMAIN s : s[n] \in X
  OBVIOUS
<1> DEFINE row == [p \in K |-> CHOOSE n \in DOMAIN s : at[n] = p]
<1>3. \A p \in K : row[p] \in DOMAIN s /\ at[row[p]] = p
  BY <1>1
<1>4. row = [p \in K |-> row[p]]
  OBVIOUS
<1> HIDE DEF row
<1>5. row \in [K -> DOMAIN ss]
  BY <1>3, <1>4
<1>6. \A p, q \in K : row[p] < row[q] => Before(p, q)
  BY <1>1, <1>3
<1>7. ASSUME NEW m \in DOMAIN s, NEW n \in DOMAIN s, at[m] = at[n] PROVE m = n
  <2>1. m \in Int /\ n \in Int
    BY <1>2
  <2>2. at[m] \in Triple /\ at[n] \in Triple
    BY <1>1
  <2>3. ~Before(at[m], at[n]) /\ ~Before(at[n], at[m])
    BY <1>7, <2>2 DEF Before, Triple
  <2>4. ~(m < n) /\ ~(n < m)
    BY <1>1, <2>3
  <2> QED
    BY <2>1, <2>4
<1>10. ss \in Seq(Seq(X)) /\ DOMAIN ss = DOMAIN s
  BY <1>2
<1>11. ASSUME NEW n \in DOMAIN ss
       PROVE  \E a : Lists(ss[n], a, {p \in K : row[p] = n}, val)
  <2> DEFINE A == {p \in K : row[p] = n}
  <2>1. CASE at[n] \in K
    <3>1. A = {at[n]}
      <4>1. n \in DOMAIN s /\ row[at[n]] = n
        BY <1>3, <1>7, <1>10, <2>1
      <4> QED
        BY <1>3, <2>1, <4>1
    <3>2. DOMAIN ss[n] = {1} /\ ss[n][1] = s[n]
      BY <1>10, <2>1
    <3> DEFINE a == [m \in {1} |-> at[n]]
    <3>3. a \in [{1} -> {at[n]}] /\ a[1] = at[n] /\ (\A l, m \in {1} : ~(l < m))
      OBVIOUS
    <3>4. s[n] = val[at[n]] /\ s[n] \in X
      BY <1>1, <1>2, <1>10
    <3> HIDE DEF a, A
    <3>5. DOMAIN ss[n] = {1} /\ ss[n][1] = val[at[n]]
      BY <3>2, <3>4
    <3>6. Lists(ss[n], a, A, val)
      BY <3>1, <3>3, <3>5 DEF Lists
    <3> QED
      BY <3>6 DEF A
  <2>2. CASE at[n] \notin K
    <3>1. A = {}
      BY <1>3, <1>10, <2>2
    <3>2. DOMAIN ss[n] = {}
      BY <1>10, <2>2
    <3> DEFINE a == [m \in {} |-> 0]
    <3>3. a \in [{} -> {}]
      OBVIOUS
    <3> HIDE DEF a, A
    <3>4. Lists(ss[n], a, A, val)
      BY <3>1, <3>2, <3>3 DEF Lists
    <3> QED
      BY <3>4 DEF A
  <2> QED
    BY <2>1, <2>2
<1> QED
  BY <1>5, <1>6, <1>10, <1>11, FlattenLists

\* The metered records are listed: none is missed, none repeated, none moved.
LEMMA MeteredListed ==
  ASSUME NEW r, IsRequest(r)
  PROVE  /\ MeteredRecords(r) \in Seq(AllFound(r))
         /\ \E at : Lists(MeteredRecords(r), at, MeteredPlaces(r), FoundAt(r))
<1> DEFINE all == Records(r)
           X == AllFound(r)
           K == MeteredPlaces(r)
           ss == [n \in DOMAIN all |-> IF EventName(all[n].attrs, all[n].record) \in Metered THEN <<all[n]>> ELSE <<>>]
<1>1. all \in Seq(X)
  BY RecordsListed
<1>2. PICK at : Lists(all, at, Places(r), FoundAt(r))
  BY RecordsListed
<1>3. K \subseteq Places(r) /\ Places(r) \subseteq Triple
  BY PlaceIs DEF MeteredPlaces
<1>4. ss \in [DOMAIN all -> Seq(X)]
  <2>1. \A n \in DOMAIN all : all[n] \in X
    BY <1>1
  <2> HIDE DEF all, X
  <2>2. \A x \in X : <<x>> \in Seq(X)
    OBVIOUS
  <2>3. \A n \in DOMAIN all : <<all[n]>> \in Seq(X) /\ <<>> \in Seq(X)
    BY <2>1, <2>2
  <2> QED
    BY <2>3
<1>5. MeteredRecords(r) = FlattenSeq(ss)
  BY DEF MeteredRecords
<1>6. ASSUME NEW n \in DOMAIN all
      PROVE  ss[n] = IF at[n] \in K THEN <<all[n]>> ELSE <<>>
  <2>1. at[n] \in Places(r) /\ all[n] = FoundAt(r)[at[n]]
    BY <1>2 DEF Lists
  <2>2. all[n].attrs = AttributesAt(r, at[n]) /\ all[n].record = RecordAt(r, at[n])
    BY <2>1 DEF FoundAt, Found
  <2>3. EventName(all[n].attrs, all[n].record) = Named(r, at[n])
    BY <2>1, <2>2, NameIs
  <2>4. at[n] \in K <=> Named(r, at[n]) \in Metered
    BY <2>1 DEF MeteredPlaces
  <2>5. ss[n] = IF EventName(all[n].attrs, all[n].record) \in Metered THEN <<all[n]>> ELSE <<>>
    BY Zenon
  <2> HIDE DEF ss, all, K
  <2> QED
    BY <2>3, <2>4, <2>5, Zenon
<1> HIDE DEF ss, all, X, K
<1>7. FlattenSeq(ss) \in Seq(X) /\ \E a : Lists(FlattenSeq(ss), a, K, FoundAt(r))
  <2> DEFINE S == Places(r)
             val == FoundAt(r)
  <2>1. S \subseteq Triple /\ K \subseteq S /\ Lists(all, at, S, val)
    BY <1>2, <1>3
  <2> HIDE DEF S, val
  <2>2. /\ \A n \in DOMAIN all : at[n] \in K => DOMAIN ss[n] = {1} /\ ss[n][1] = all[n]
        /\ \A n \in DOMAIN all : at[n] \notin K => DOMAIN ss[n] = {}
    <3>1. DOMAIN <<>> = {} /\ \A x \in X : DOMAIN <<x>> = {1} /\ <<x>>[1] = x
      OBVIOUS
    <3>2. \A n \in DOMAIN all : all[n] \in X
      BY <1>1
    <3>3. ASSUME NEW n \in DOMAIN all, at[n] \in K PROVE DOMAIN ss[n] = {1} /\ ss[n][1] = all[n]
      <4>1. ss[n] = <<all[n]>> /\ all[n] \in X
        BY <1>6, <3>2, <3>3
      <4> QED
        BY <3>1, <4>1, Zenon
    <3>4. ASSUME NEW n \in DOMAIN all, at[n] \notin K PROVE DOMAIN ss[n] = {}
      <4>1. ss[n] = <<>>
        BY <1>6, <3>4
      <4> QED
        BY <3>1, <4>1, Zenon
    <3> QED
      BY <3>3, <3>4
  <2>3. FlattenSeq(ss) \in Seq(X) /\ \E a : Lists(FlattenSeq(ss), a, K, val)
    BY <1>1, <1>4, <2>1, <2>2, FilterLists
  <2> QED
    BY <2>3 DEF val
<1> QED
  BY <1>5, <1>7 DEF X, K

\* The n-th event is made of the n-th metered place.
LEMMA DecodeIs ==
  ASSUME NEW r, IsRequest(r), NEW t
  PROVE  /\ Decode(r, t) = [n \in 1..Len(MeteredRecords(r)) |-> Decode(r, t)[n]]
         /\ Len(MeteredRecords(r)) \in Nat
         /\ Cardinality(MeteredPlaces(r)) = Len(MeteredRecords(r))
         /\ \A n \in 1..Len(MeteredRecords(r)) :
              /\ PlaceOf(r, n) \in MeteredPlaces(r)
              /\ Decode(r, t)[n] = Event(AttributesAt(r, PlaceOf(r, n)), RecordAt(r, PlaceOf(r, n)), t)
<1> DEFINE ms == MeteredRecords(r)
           S == MeteredPlaces(r)
<1>1. ms \in Seq(AllFound(r))
  BY MeteredListed
<1>2. PICK at : Lists(ms, at, S, FoundAt(r))
  BY MeteredListed
<1>3. S \subseteq Places(r) /\ S \subseteq Triple
  BY PlaceIs DEF MeteredPlaces
<1>4. Len(ms) \in Nat /\ DOMAIN ms = 1..Len(ms)
  BY <1>1
<1>5. Decode(r, t) = [n \in DOMAIN ms |-> Event(ms[n].attrs, ms[n].record, t)]
  BY DEF Decode
<1> HIDE DEF ms
<1>6. /\ Cardinality(S) = Len(ms)
      /\ \A n \in DOMAIN ms : PlaceOf(r, n) = at[n]
  <2> HIDE DEF S
  <2>1. /\ Cardinality(S) = Len(ms)
        /\ \A n \in DOMAIN ms : (CHOOSE p \in S : Cardinality({q \in S : Before(q, p)}) = n - 1) = at[n]
    BY <1>1, <1>2, <1>3, ListCounts
  <2> QED
    BY <2>1, Zenon DEF PlaceOf, S
<1>7. ASSUME NEW n \in DOMAIN ms
      PROVE  /\ PlaceOf(r, n) \in S
             /\ Event(ms[n].attrs, ms[n].record, t) = Event(AttributesAt(r, PlaceOf(r, n)), RecordAt(r, PlaceOf(r, n)), t)
  <2>1. at[n] \in S /\ ms[n] = FoundAt(r)[at[n]]
    BY <1>2 DEF Lists
  <2>2. ms[n].attrs = AttributesAt(r, at[n]) /\ ms[n].record = RecordAt(r, at[n])
    BY <1>3, <2>1 DEF FoundAt, Found
  <2> QED
    BY <1>6, <2>1, <2>2, Zenon
<1>8. ASSUME NEW n \in DOMAIN ms
      PROVE  Decode(r, t)[n] = Event(ms[n].attrs, ms[n].record, t)
  BY <1>5, Zenon
<1>9. Decode(r, t) = [n \in DOMAIN ms |-> Decode(r, t)[n]]
  BY <1>5
<1> QED
  BY <1>4, <1>6, <1>7, <1>8, <1>9, Zenon DEF ms

-----------------------------------------------------------------------------
(***************************************************************************)
(* The fields of an event.                                                 *)
(***************************************************************************)
\* Each field of an event is what its column of Decode says.
LEMMA EventIs ==
  ASSUME NEW attrs, NEW record, NEW t
  PROVE  /\ \A f \in DOMAIN StringField : Event(attrs, record, t)[f] = asString(Get(attrs, StringField[f]))
         /\ \A f \in DOMAIN IntField : Event(attrs, record, t)[f] = asInt64(Get(attrs, IntField[f]))
         /\ Event(attrs, record, t).EventName = EventName(attrs, record)
         /\ Event(attrs, record, t).CostUSDMicros = costMicros(attrs)
<1> DEFINE texts == DOMAIN StringField
           ints == DOMAIN IntField
           e == [f \in Field |->
                   CASE f \in texts -> asString(Get(attrs, StringField[f]))
                     [] f \in ints -> asInt64(Get(attrs, IntField[f]))
                     [] f = "EventName" -> EventName(attrs, record)
                     [] f = "EventTime" -> eventTime(attrs, record, t)
                     [] f = "CostUSDMicros" -> costMicros(attrs)]
<1>1. /\ \A f \in texts : f \notin ints /\ f \notin {"EventName", "EventTime", "CostUSDMicros", "EventKey"}
      /\ \A f \in ints : f \notin {"EventName", "EventTime", "CostUSDMicros", "EventKey"}
  BY DEF StringField, IntField
<1>2. Field = texts \cup ints \cup {"EventName", "EventTime", "CostUSDMicros"}
  BY DEF Field
<1>3. Event(attrs, record, t) = [f \in Field \cup {"EventKey"} |-> IF f = "EventKey" THEN makeEventKey(e) ELSE e[f]]
  BY DEF Event
<1> HIDE DEF texts, ints
<1>4. \A f \in texts : f \in Field /\ e[f] = asString(Get(attrs, StringField[f]))
  BY <1>1, <1>2
<1>5. \A f \in ints : f \in Field /\ e[f] = asInt64(Get(attrs, IntField[f]))
  BY <1>1, <1>2
<1>6. e["EventName"] = EventName(attrs, record) /\ e["CostUSDMicros"] = costMicros(attrs)
  BY <1>1, <1>2
<1> HIDE DEF e
<1>7. \A f \in Field : f # "EventKey" => Event(attrs, record, t)[f] = e[f]
  BY <1>3
<1> QED
  BY <1>1, <1>2, <1>4, <1>5, <1>6, <1>7 DEF texts, ints

\* The key of an event has no more of the time of arrival than its time has.
LEMMA EventStays ==
  ASSUME NEW attrs, NEW record, NEW t, NEW u, StatedTimes(attrs, record) # <<>>
  PROVE  Event(attrs, record, t) = Event(attrs, record, u)
<1> DEFINE e(x) == [f \in Field |->
                      CASE f \in DOMAIN StringField -> asString(Get(attrs, StringField[f]))
                        [] f \in DOMAIN IntField -> asInt64(Get(attrs, IntField[f]))
                        [] f = "EventName" -> EventName(attrs, record)
                        [] f = "EventTime" -> x
                        [] f = "CostUSDMicros" -> costMicros(attrs)]
           event(x) == [f \in Field \cup {"EventKey"} |-> IF f = "EventKey" THEN makeEventKey(e(x)) ELSE e(x)[f]]
<1>1. eventTime(attrs, record, t) = eventTime(attrs, record, u)
  BY Zenon DEF eventTime
<1>2. /\ Event(attrs, record, t) = event(eventTime(attrs, record, t))
      /\ Event(attrs, record, u) = event(eventTime(attrs, record, u))
  BY DEF Event
<1> HIDE DEF event
<1> QED
  BY <1>1, <1>2, Zenon

\* A value with one of these fields alone is read by it.
LEMMA OneField ==
  ASSUME NEW v, NEW f \in {"stringValue", "intValue", "doubleValue"}, DOMAIN v = {f},
         f = "intValue" => v[f].json = "string" \/ (v[f].json = "integer" /\ InRange(v[f].num))
  PROVE  anyValue(v) = Typed(f, v[f])
<1> DEFINE fields == {i \in DOMAIN Precedence : Usable(v, Precedence[i])}
<1>1. anyValue(v) = IF fields = {} THEN Nil ELSE Typed(Precedence[Min(fields)], v[Precedence[Min(fields)]])
  BY DEF anyValue
<1>2. DOMAIN Precedence = 1..7
  BY DEF Precedence
<1>3. \E n \in 1..7 : Precedence[n] = f /\ \A i \in 1..7 : Precedence[i] = f => i = n
  BY DEF Precedence
<1>4. PICK n \in 1..7 : Precedence[n] = f /\ \A i \in 1..7 : Precedence[i] = f => i = n
  BY <1>3
<1>5. \A i \in 1..7 : Usable(v, Precedence[i]) <=> i = n
  BY <1>4 DEF Usable
<1>6. fields = {n}
  BY <1>2, <1>5
<1> HIDE DEF fields
<1>7. Min(fields) = n
  <2>1. fields \in SUBSET Nat /\ fields # {}
    BY <1>6
  <2>2. Min(fields) \in fields
    BY <2>1, FirstPlace
  <2> QED
    BY <1>6, <2>2
<1> QED
  BY <1>1, <1>4, <1>6, <1>7

\* An integer of 64 bits is read as it is, in every encoding.
LEMMA WholeIs ==
  ASSUME NEW v, NEW f, DOMAIN v = {f}, v[f].num \in Int, NEW k \in Whole(f, v[f]), InRange(k)
  PROVE  k \in Int /\ asInt64(anyValue(v)) = k
<1> DEFINE j == v[f]
           text == {Numeral[s] : s \in DOMAIN Numeral \cap {j.text}}
<1> USE DEF Str, Num
<1>1. \/ (f = "stringValue" \/ (f = "intValue" /\ j.json = "string")) /\ k \in text
      \/ f = "intValue" /\ j.json = "integer" /\ k = j.num
      \/ f = "doubleValue" /\ j.num % Unit = 0 /\ k = j.num \div Unit
  BY DEF Whole
<1>2. anyValue(v) = Typed(f, j)
  BY <1>1, OneField
<1>3. ASSUME k \in text
      PROVE  k \in Int /\ IsInt64(j.text) /\ Numeral[j.text] = k /\ ParseInt(j.text) = k
  <2>1. j.text \in DOMAIN Numeral /\ Numeral[j.text] = k
    BY <1>3
  <2>2. k \in Int
    BY <2>1, NumeralAssumption
  <2>3. Clamp(k) = k
    BY <2>2, WidthAssumption DEF Clamp, InRange
  <2> QED
    BY <2>1, <2>2, <2>3 DEF IsInt64, ParseInt
<1> HIDE DEF text, j
<1>4. CASE f = "stringValue" /\ k \in text
  <2>1. Typed(f, j) = Str(j.text)
    BY <1>4 DEF Typed
  <2>2. asInt64(Str(j.text)) = ParseInt(j.text)
    BY DEF asInt64
  <2> QED
    BY <1>2, <1>3, <1>4, <2>1, <2>2
<1>5. CASE f = "intValue" /\ j.json = "string" /\ k \in text
  <2>1. Typed(f, j) = Num("int64", k)
    BY <1>3, <1>5 DEF Typed
  <2>2. asInt64(Num("int64", k)) = k
    BY DEF asInt64
  <2> QED
    BY <1>2, <1>3, <1>5, <2>1, <2>2
<1>6. CASE f = "intValue" /\ j.json = "integer" /\ k = j.num
  <2>1. Typed(f, j) = Num("int64", k)
    BY <1>6 DEF Typed
  <2>2. asInt64(Num("int64", k)) = k
    BY DEF asInt64
  <2> QED
    BY <1>2, <1>6, <2>1, <2>2 DEF j
<1>7. CASE f = "doubleValue" /\ j.num % Unit = 0 /\ k = j.num \div Unit
  <2>1. Typed(f, j) = Num("float64", j.num)
    BY <1>7 DEF Typed
  <2>2. asInt64(Num("float64", j.num)) = Truncate(j.num, Unit)
    BY DEF asInt64
  <2>3. j.num \in Int
    BY DEF j
  <2>4. ASSUME NEW n \in Int, n % Unit = 0, InRange(n \div Unit)
        PROVE  Truncate(n, Unit) = n \div Unit /\ n \div Unit \in Int
    <3>1. n \div Unit \in Int /\ n = (n \div Unit) * Unit
      BY <2>4 DEF Unit
    <3>2. ASSUME n < 0 PROVE (-n) \div Unit = -(n \div Unit)
      BY <3>1, <3>2 DEF Unit
    <3>3. (IF n >= 0 THEN n \div Unit ELSE -((-n) \div Unit)) = n \div Unit
      BY <3>1, <3>2
    <3>4. ~(n \div Unit > MaxInt64) /\ Clamp(n \div Unit) = n \div Unit
      BY <2>4, <3>1, WidthAssumption DEF InRange, Clamp
    <3> QED
      BY <3>1, <3>3, <3>4, Zenon DEF Truncate
  <2> QED
    BY <1>2, <1>7, <2>1, <2>2, <2>3, <2>4
<1> QED
  BY <1>1, <1>4, <1>5, <1>6, <1>7

\* The one value stated with a key is the one that is read.
LEMMA SoleIs ==
  ASSUME NEW r, IsRequest(r), NEW p \in Places(r), NEW k, NEW w \in Sole(r, p, k)
  PROVE  \E v : /\ DOMAIN v = {w[1]} /\ w[2] = v[w[1]] /\ v[w[1]].num \in Int
                /\ Get(AttributesAt(r, p), k) = anyValue(v)
<1> DEFINE kvs == Pairs(r, p)
           a == r[p[1]].attributes
           b == RecordAt(r, p).attributes
           A == Stated(r, p, k)
<1>1. PICK i \in A : \E f \in DOMAIN kvs[i].value :
                        w = <<f, kvs[i].value[f]>> /\ DOMAIN kvs[i].value = {f} /\ A = {i}
  BY DEF Sole
<1>2. PICK f \in DOMAIN kvs[i].value : w = <<f, kvs[i].value[f]>> /\ DOMAIN kvs[i].value = {f} /\ A = {i}
  BY <1>1
<1>3. IsAttributes(a) /\ IsAttributes(b)
  BY PlaceIs DEF IsRequest, RecordAt
<1>4. i \in DOMAIN kvs /\ kvs = a \o b
  BY DEF Stated, Pairs
<1> HIDE DEF a, b
<1>5. \A n \in DOMAIN kvs : (\E m \in DOMAIN a : kvs[n] = a[m]) \/ (\E m \in DOMAIN b : kvs[n] = b[m])
  <2>1. IsSequence(a) /\ IsSequence(b)
    BY <1>3 DEF IsAttributes
  <2>2. a \in Seq(Range(a) \cup Range(b)) /\ b \in Seq(Range(a) \cup Range(b))
    BY <2>1, SequenceIs
  <2> HIDE DEF kvs
  <2> QED
    BY <1>4, <2>2
<1>6. kvs[i].value[f].num \in Int
  <2> HIDE DEF kvs, A
  <2> QED
    BY <1>3, <1>4, <1>5 DEF IsAttributes
<1>7. Max(A) = i
  <2>1. i \in Nat /\ A \in SUBSET (1..i)
    <3>1. IsSequence(a) /\ IsSequence(b)
      BY <1>3 DEF IsAttributes
    <3>2. a \in Seq(Range(a) \cup Range(b)) /\ b \in Seq(Range(a) \cup Range(b))
      BY <3>1, SequenceIs
    <3>3. i \in Nat /\ i >= 1
      <4> HIDE DEF kvs, A
      <4> QED
        BY <1>4, <3>2
    <3> QED
      BY <1>2, <3>3
  <2>2. A # {}
    BY <1>2
  <2>3. Max(A) \in A
    BY <2>1, <2>2, LastPlace
  <2> QED
    BY <1>2, <2>3
<1>8. Get(AttributesAt(r, p), k) = anyValue(kvs[i].value)
  BY <1>2, <1>7, StatedPrevail
<1>9. w[1] = f /\ w[2] = kvs[i].value[f]
  BY <1>2
<1> HIDE DEF kvs, A
<1> QED
  BY <1>2, <1>6, <1>8, <1>9

\* An amount is read to the nearest micro-dollar, if that fits.
LEMMA AmountIs ==
  ASSUME NEW v, NEW f, DOMAIN v = {f}, v[f].num \in Int, NEW u \in Amount(f, v[f]), u >= 0,
         NEW attrs, Get(attrs, "cost_usd_micros") = Nil, Get(attrs, "cost_usd") = anyValue(v)
  PROVE  costMicros(attrs) \in Micros(u)
<1> DEFINE j == v[f]
<1> USE DEF Str, Num
<1>1. \/ f = "stringValue" /\ j.text \in DOMAIN Decimal /\ u = Decimal[j.text]
      \/ f = "doubleValue" /\ u = j.num
  BY DEF Amount
<1>2. u \in Int
  BY <1>1, DecimalAssumption
<1>3. anyValue(v) = Typed(f, j)
  BY <1>1, OneField
<1> HIDE DEF j
<1>4. asInt64(Nil) = 0
  BY DEF asInt64, Nil
<1>5. ToMicros(u) \in Micros(u)
  <2>1. u + MicrosPerUnit \div 2 >= 0 /\ (u + MicrosPerUnit \div 2) \div MicrosPerUnit = Nearest(u) /\ Nearest(u) \in Nat
    BY <1>2 DEF Nearest, MicrosPerUnit
  <2> DEFINE m == u + MicrosPerUnit \div 2
             whole == IF m >= 0 THEN m \div MicrosPerUnit ELSE -((-m) \div MicrosPerUnit)
  <2>4. whole = Nearest(u)
    BY <2>1
  <2>5. ToMicros(u) = IF whole > MaxInt64 THEN TooLarge ELSE Clamp(whole)
    BY Zenon DEF ToMicros, Truncate
  <2> HIDE DEF whole
  <2>2. CASE InRange(Nearest(u))
    BY <2>1, <2>2, <2>4, <2>5, WidthAssumption DEF Micros, InRange, Clamp
  <2>3. CASE ~InRange(Nearest(u))
    <3>1. Nearest(u) > MaxInt64
      BY <2>1, <2>3, WidthAssumption DEF InRange
    <3>2. ToMicros(u) = TooLarge
      BY <2>4, <2>5, <3>1
    <3> QED
      BY <2>3, <3>2, WidthAssumption DEF Micros
  <2> QED
    BY <2>2, <2>3
<1>6. CASE f = "stringValue" /\ j.text \in DOMAIN Decimal /\ u = Decimal[j.text]
  <2>1. Typed(f, j) = Str(j.text) /\ ParseFloat(j.text) = u
    BY <1>6 DEF Typed, ParseFloat
  <2>2. Get(attrs, "cost_usd").type = "string" /\ Get(attrs, "cost_usd").text = j.text
    BY <1>3, <2>1
  <2>3. costMicros(attrs) = ToMicros(ParseFloat(j.text))
    BY <1>4, <2>2 DEF costMicros
  <2> QED
    BY <1>5, <2>1, <2>3
<1>7. CASE f = "doubleValue" /\ u = j.num
  <2>1. Typed(f, j) = Num("float64", u)
    BY <1>7 DEF Typed
  <2>2. Get(attrs, "cost_usd").type = "float64" /\ Get(attrs, "cost_usd").num = u
    <3>1. ASSUME NEW x PROVE Num("float64", x).type = "float64" /\ Num("float64", x).num = x
      OBVIOUS
    <3> QED
      BY <1>3, <2>1, <3>1, Zenon
  <2>3. costMicros(attrs) = ToMicros(u)
    BY <1>4, <2>2 DEF costMicros
  <2> QED
    BY <1>5, <2>3
<1> QED
  BY <1>1, <1>6, <1>7

-----------------------------------------------------------------------------
\* The events are those of the request, as they were decoded on its arrival.
DInv == request \in Request /\ events = Decode(request, receivedAt)

\* DInv is an inductive invariant of a delivery.
LEMMA DInvariance == Spec => []DInv
<1>1. Init => DInv
  BY DEF Init, DInv
<1>2. DInv /\ [Next]_vars => DInv'
  BY DEF DInv, Next, Deliver, vars
<1> QED
  BY <1>1, <1>2, PTL DEF Spec

\* What DInv says of an event.
LEMMA EventAt ==
  ASSUME DInv, NEW n \in DOMAIN events
  PROVE  /\ IsRequest(request)
         /\ PlaceOf(request, n) \in Places(request)
         /\ events[n] = Event(AttributesAt(request, PlaceOf(request, n)), RecordAt(request, PlaceOf(request, n)),
                             receivedAt)
<1>1. IsRequest(request) /\ events = Decode(request, receivedAt)
  BY RequestAssumption DEF DInv
<1>2. n \in 1..Len(MeteredRecords(request))
  BY <1>1, DecodeIs
<1>3. /\ PlaceOf(request, n) \in MeteredPlaces(request)
      /\ Decode(request, receivedAt)[n] =
           Event(AttributesAt(request, PlaceOf(request, n)), RecordAt(request, PlaceOf(request, n)), receivedAt)
  BY <1>1, <1>2, DecodeIs
<1> QED
  BY <1>1, <1>3 DEF MeteredPlaces

\* Decode returns one event per metered record, in the order of the request
\* and none else, with the texts that are stated for it (otlp.go:91-147).
THEOREM DecoderIsFaithful == Spec => []DecodeIsFaithful
<1>1. DInv => DecodeIsFaithful
  <2> SUFFICES ASSUME DInv PROVE DecodeIsFaithful
    OBVIOUS
  <2>1. Len(events) = Cardinality(MeteredPlaces(request))
    <3>1. IsRequest(request) /\ events = Decode(request, receivedAt)
      BY RequestAssumption DEF DInv
    <3> DEFINE d == Decode(request, receivedAt)
               l == Len(MeteredRecords(request))
    <3>2. d = [n \in 1..l |-> d[n]] /\ l \in Nat /\ Cardinality(MeteredPlaces(request)) = l
      BY <3>1, DecodeIs
    <3> HIDE DEF d, l
    <3>3. Len(d) = l
      BY <3>2
    <3> QED
      BY <3>1, <3>2, <3>3 DEF d
  <2>2. ASSUME NEW n \in DOMAIN events
        PROVE  /\ events[n].EventName = Named(request, PlaceOf(request, n))
               /\ \A f \in DOMAIN StringField : events[n][f] = Text(request, PlaceOf(request, n), StringField[f])
    <3> DEFINE p == PlaceOf(request, n)
    <3>1. /\ IsRequest(request) /\ p \in Places(request)
          /\ events[n] = Event(AttributesAt(request, p), RecordAt(request, p), receivedAt)
      BY EventAt
    <3> HIDE DEF p
    <3>2. events[n].EventName = Named(request, p)
      BY <3>1, EventIs, NameIs
    <3>3. \A f \in DOMAIN StringField : events[n][f] = Text(request, p, StringField[f])
      BY <3>1, EventIs, TextIs
    <3> QED
      BY <3>2, <3>3 DEF p
  <2> QED
    BY <2>1, <2>2 DEF DecodeIsFaithful
<1> QED
  BY <1>1, DInvariance, PTL

\* Counts and costs are the numbers that were sent, in every encoding, when
\* they fit 64 bits; a cost that does not is an end of the range, for each of
\* the two conversions a processor may have (otlp.go:184-244).
THEOREM DecoderIsExact == Spec => []NumbersAreExact
<1>1. DInv => NumbersAreExact
  <2> SUFFICES ASSUME DInv, NEW n \in DOMAIN events
               PROVE  LET p == PlaceOf(request, n) IN
                      /\ \A f \in DOMAIN IntField : \A w \in Sole(request, p, IntField[f]) :
                           \A k \in Whole(w[1], w[2]) : InRange(k) => events[n][f] = k
                      /\ \A w \in Sole(request, p, "cost_usd_micros") :
                           \A k \in Whole(w[1], w[2]) : k > 0 /\ InRange(k) => events[n].CostUSDMicros = k
                      /\ Stated(request, p, "cost_usd_micros") = {} =>
                           \A w \in Sole(request, p, "cost_usd") :
                             \A u \in Amount(w[1], w[2]) : u >= 0 => events[n].CostUSDMicros \in Micros(u)
    BY DEF NumbersAreExact
  <2> DEFINE p == PlaceOf(request, n)
             attrs == AttributesAt(request, p)
  <2>1. /\ IsRequest(request) /\ p \in Places(request)
        /\ events[n] = Event(attrs, RecordAt(request, p), receivedAt)
    BY EventAt
  <2> HIDE DEF p, attrs
  <2>2. /\ \A f \in DOMAIN IntField : events[n][f] = asInt64(Get(attrs, IntField[f]))
        /\ events[n].CostUSDMicros = costMicros(attrs)
    BY <2>1, EventIs
  <2>3. ASSUME NEW key, NEW w \in Sole(request, p, key), NEW k \in Whole(w[1], w[2]), InRange(k)
        PROVE  k \in Int /\ asInt64(Get(attrs, key)) = k
    <3>1. PICK v : /\ DOMAIN v = {w[1]} /\ w[2] = v[w[1]] /\ v[w[1]].num \in Int
                   /\ Get(attrs, key) = anyValue(v)
      BY <2>1, SoleIs DEF attrs
    <3> QED
      BY <2>3, <3>1, WholeIs
  <2>4. \A f \in DOMAIN IntField : \A w \in Sole(request, p, IntField[f]) :
          \A k \in Whole(w[1], w[2]) : InRange(k) => events[n][f] = k
    BY <2>2, <2>3
  <2>5. ASSUME NEW w \in Sole(request, p, "cost_usd_micros"), NEW k \in Whole(w[1], w[2]), k > 0, InRange(k)
        PROVE  events[n].CostUSDMicros = k
    <3>1. k \in Int /\ asInt64(Get(attrs, "cost_usd_micros")) = k
      BY <2>3, <2>5
    <3>2. k # 0
      BY <2>5, <3>1
    <3>3. costMicros(attrs) = k
      BY <3>1, <3>2 DEF costMicros
    <3> QED
      BY <2>2, <3>3
  <2>6. ASSUME Stated(request, p, "cost_usd_micros") = {}, NEW w \in Sole(request, p, "cost_usd"),
               NEW u \in Amount(w[1], w[2]), u >= 0
        PROVE  events[n].CostUSDMicros \in Micros(u)
    <3>1. Get(attrs, "cost_usd_micros") = Nil
      BY <2>1, <2>6, StatedPrevail DEF attrs
    <3>2. PICK v : /\ DOMAIN v = {w[1]} /\ w[2] = v[w[1]] /\ v[w[1]].num \in Int
                   /\ Get(attrs, "cost_usd") = anyValue(v)
      BY <2>1, SoleIs DEF attrs
    <3>3. costMicros(attrs) \in Micros(u)
      BY <2>6, <3>1, <3>2, AmountIs
    <3> QED
      BY <2>2, <3>3
  <2> QED
    BY <2>4, <2>5, <2>6 DEF p
<1> QED
  BY <1>1, DInvariance, PTL

\* Where every metered record states a time, another delivery yields the same
\* keys (otlp.go:247-263,278-289).
THEOREM KeysStay == Spec => KeysAreStable
<1> DEFINE timed == \A p \in MeteredPlaces(request) : StatedTimes(AttributesAt(request, p), RecordAt(request, p)) # <<>>
           stable == timed => \A n \in DOMAIN events : events'[n].EventKey = events[n].EventKey
<1>1. DInv /\ [Next]_vars => [stable]_vars
  <2> SUFFICES ASSUME DInv, Next, timed, NEW n \in DOMAIN events
               PROVE  events'[n].EventKey = events[n].EventKey
    OBVIOUS
  <2>1. /\ IsRequest(request) /\ events = Decode(request, receivedAt)
        /\ events' = Decode(request, receivedAt')
    BY RequestAssumption DEF DInv, Next, Deliver
  <2> DEFINE r == request
             p == PlaceOf(r, n)
  <2>2. n \in 1..Len(MeteredRecords(r))
    BY <2>1, DecodeIs
  <2>3. /\ p \in MeteredPlaces(r)
        /\ events[n] = Event(AttributesAt(r, p), RecordAt(r, p), receivedAt)
        /\ events'[n] = Event(AttributesAt(r, p), RecordAt(r, p), receivedAt')
    BY <2>1, <2>2, DecodeIs
  <2>4. StatedTimes(AttributesAt(r, p), RecordAt(r, p)) # <<>>
    BY <2>3
  <2> QED
    BY <2>3, <2>4, EventStays
<1> QED
  BY <1>1, DInvariance, PTL DEF Spec, KeysAreStable
=============================================================================
