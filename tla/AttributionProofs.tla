-------------------------- MODULE AttributionProofs -------------------------
(***************************************************************************)
(* Whose usage it is, for any terminals, logins, panes, configurations and *)
(* names: a start belongs to the owner of the device that it came from or  *)
(* to nobody, its attributes reach the collector as they were resolved,    *)
(* and equal tokens match.                                                 *)
(***************************************************************************)
EXTENDS Attribution, Induction, TLAPS

-----------------------------------------------------------------------------
(***************************************************************************)
(* Texts and their parts.                                                  *)
(***************************************************************************)
\* A text is a sequence of words.
LEMMA Texts ==
  /\ <<>> \in Text
  /\ \A v \in Text, c \in STRING : Append(v, c) \in Text
<1>1. ASSUME NEW X PROVE <<>> \in Seq(X) /\ \A v \in Seq(X), c \in X : Append(v, c) \in Seq(X)
  OBVIOUS
<1> QED
  BY <1>1, Zenon DEF Text

\* A text has a length, and a word at each place.
LEMMA TextFacts ==
  ASSUME NEW v \in Text
  PROVE  /\ v \in Seq(STRING) /\ Len(v) \in Nat /\ DOMAIN v = 1..Len(v)
         /\ \A i \in 1..Len(v) : v[i] \in STRING
<1>1. ASSUME NEW X PROVE \A s \in Seq(X) : Len(s) \in Nat /\ DOMAIN s = 1..Len(s) /\ \A i \in 1..Len(s) : s[i] \in X
  OBVIOUS
<1> QED
  BY <1>1, Zenon DEF Text

\* One or more parts.
Parts == Seq(Text) \ {<<>>}

\* Split at a character, as a step of a fold.
SplitStep == [w \in Parts \X STRING |-> More(w[1], w[2])]

\* There are parts after each character.
LEMMA MoreParts ==
  ASSUME NEW parts \in Parts, NEW c \in STRING
  PROVE  /\ More(parts, c) \in Parts
         /\ SplitStep[<<parts, c>>] = More(parts, c)
<1>1. parts \in Seq(Text) /\ Len(parts) \in 1..Len(parts) /\ parts[Len(parts)] \in Text /\ <<>> \in Text
  BY DEF Parts, Text
<1>2. Append(parts, <<>>) \in Parts
  BY <1>1 DEF Parts
<1>3. Append(parts[Len(parts)], c) \in Text
  BY <1>1, Texts
<1>4. [parts EXCEPT ![Len(parts)] = Append(parts[Len(parts)], c)] \in Parts
  <2> DEFINE p == Append(parts[Len(parts)], c)
             q == [parts EXCEPT ![Len(parts)] = p]
  <2> HIDE DEF p
  <2>1. q \in Seq(Text) /\ Len(q) = Len(parts)
    <3>1. p \in Text
      BY <1>3 DEF p
    <3> QED
      BY ONLY <1>1, <3>1, ExceptSeq
  <2> QED
    BY <1>1, <2>1, EmptySeq DEF Parts, p
<1> QED
  BY <1>2, <1>4 DEF More, SplitStep

\* Split goes along the characters.
LEMMA SplitFolds ==
  ASSUME NEW v \in Text
  PROVE  Split(v) = Folded(<<<<>>>>, SplitStep, v)
<1>1. SplitStep \in Stepping(Parts, STRING)
  BY MoreParts DEF SplitStep, Stepping
<1>2. <<<<>>>> \in Parts
  BY DEF Parts, Text
<1>3. v \in Seq(STRING)
  BY DEF Text
<1> DEFINE D == DOMAIN v
<1>4. PICK g \in [SUBSET D -> Parts] : BySets(g, <<<<>>>>, SplitStep, v)
  BY ONLY <1>1, <1>2, <1>3, FoldBySets
<1>5. \A A \in SUBSET D : A # {} => Max(A) \in D /\ v[Max(A)] \in STRING
  <2>1. D = 1..Len(v) /\ Len(v) \in Nat
    BY <1>3
  <2>2. ASSUME NEW A \in SUBSET D, A # {} PROVE Max(A) \in A
    BY <2>1, <2>2, LastPlace
  <2> QED
    BY <1>3, <2>1, <2>2
<1> DEFINE solves(h) == h = [A \in SUBSET D |-> IF A = {} THEN <<<<>>>> ELSE More(h[A \ {Max(A)}], v[Max(A)])]
           h == CHOOSE h : solves(h)
<1>6. solves(g)
  <2>1. ASSUME NEW A \in SUBSET D, A # {} PROVE g[A] = More(g[A \ {Max(A)}], v[Max(A)])
    <3>1. g[A \ {Max(A)}] \in Parts /\ v[Max(A)] \in STRING
      BY <1>4, <1>5, <2>1
    <3> QED
      BY <1>4, <2>1, <3>1, MoreParts DEF BySets
  <2>2. g = [A \in SUBSET D |-> g[A]] /\ g[{}] = <<<<>>>>
    BY <1>4 DEF BySets
  <2> HIDE DEF D
  <2> QED
    BY <2>1, <2>2
<1>7. solves(h)
  <2> HIDE DEF solves
  <2> QED
    BY <1>6
<1>8. \A A \in SUBSET D : h[A] = IF A = {} THEN <<<<>>>> ELSE More(h[A \ {Max(A)}], v[Max(A)])
  <2> HIDE DEF h, D
  <2> QED
    BY <1>7
<1>9. h[D] = Folded(<<<<>>>>, SplitStep, v)
  <2>1. h[{}] = <<<<>>>>
    BY <1>8
  <2>2. ASSUME NEW A \in SUBSET D, A # {}, h[A \ {Max(A)}] \in Parts
        PROVE  h[A] = SplitStep[<<h[A \ {Max(A)}], v[Max(A)]>>]
    BY <1>5, <1>8, <2>2, MoreParts
  <2> HIDE DEF h
  <2>3. BySetsIn(h, Parts, <<<<>>>>, SplitStep, v)
    BY <2>1, <2>2 DEF BySetsIn
  <2> QED
    BY ONLY <1>1, <1>2, <1>3, <2>3, FoldOfSets
<1> QED
  BY <1>9 DEF Split, FoldLeft, MapThenFoldSet

\* Split, a character at a time.
LEMMA SplitLaws ==
  /\ Split(<<>>) = <<<<>>>>
  /\ \A v \in Text : Split(v) \in Parts
  /\ \A v \in Text, c \in STRING : Split(Append(v, c)) = More(Split(v), c)
<1>1. <<>> \in Text
  BY DEF Text
<1>2. Split(<<>>) = <<<<>>>>
  BY <1>1, SplitFolds, FoldedEmpty
<1> DEFINE T == {v \in Text : Split(v) \in Parts}
<1>3. ASSUME NEW v \in Text, NEW c \in STRING
      PROVE  Append(v, c) \in Text /\ Split(Append(v, c)) = SplitStep[<<Split(v), c>>]
  <2>1. v \in Seq(STRING) /\ Append(v, c) \in Text
    BY Texts DEF Text
  <2> QED
    BY <2>1, SplitFolds, FoldedAppend
<1>4. <<>> \in T
  <2>1. <<<<>>>> \in Seq(Text) /\ <<<<>>>> # <<>>
    BY <1>1
  <2> QED
    BY <1>1, <1>2, <2>1 DEF Parts
<1>5. ASSUME NEW v \in Text, NEW c \in STRING, v \in T PROVE Append(v, c) \in T
  BY <1>3, <1>5, MoreParts
<1>6. Text \subseteq T
  <2> HIDE DEF T
  <2>1. \A v \in Seq(STRING), c \in STRING : v \in T => Append(v, c) \in T
    BY <1>5 DEF Text
  <2> QED
    BY ONLY <1>4, <2>1, SeqInduct DEF Text
<1> QED
  BY <1>2, <1>3, <1>6, MoreParts

\* The places of the first and the last word that is no blank.
LEMMA Blanks ==
  ASSUME NEW v \in Text, NEW A, A = {i \in DOMAIN v : v[i] # " "}, A # {}
  PROVE  /\ Min(A) \in A /\ Max(A) \in A /\ \A i \in A : Min(A) <= i /\ i <= Max(A)
         /\ A \subseteq 1..Len(v) /\ Len(v) \in Nat /\ Min(A) \in Int /\ Max(A) \in Int
<1>1. v \in Seq(STRING) /\ Len(v) \in Nat /\ DOMAIN v = 1..Len(v)
  BY TextFacts
<1>2. A \in SUBSET (1..Len(v)) /\ A \in SUBSET Nat
  <2>1. A \subseteq DOMAIN v
    OBVIOUS
  <2> QED
    BY ONLY <1>1, <2>1
<1>3. Min(A) \in A /\ \A i \in A : Min(A) <= i
  BY ONLY <1>2, A # {}, FirstPlace
<1>4. Max(A) \in A /\ \A i \in A : i <= Max(A)
  BY ONLY <1>1, <1>2, A # {}, LastPlace
<1> QED
  <2>1. \A i \in A : i \in Int
    BY ONLY <1>2
  <2> QED
    BY ONLY <1>1, <1>2, <1>3, <1>4, <2>1, Zenon

\* What is left of a text without the blanks around it.
LEMMA Trimmed ==
  ASSUME NEW v \in Text
  PROVE  /\ TrimSpace(v) \in Text
         /\ ToSet(TrimSpace(v)) \subseteq ToSet(v)
         /\ TrimSpace(v) # <<>> => TrimSpace(v)[1] # " " /\ TrimSpace(v)[Len(TrimSpace(v))] # " "
<1> DEFINE A == {i \in DOMAIN v : v[i] # " "}
<1>1. v \in Seq(STRING) /\ Len(v) \in Nat /\ DOMAIN v = 1..Len(v)
  BY TextFacts
<1>2. CASE A = {}
  <2>1. TrimSpace(v) = <<>>
    BY <1>2 DEF TrimSpace
  <2> QED
    BY <2>1, Texts DEF ToSet
<1>3. CASE A # {}
  <2> DEFINE m == Min(A)
             n == Max(A)
             t == SubSeq(v, m, n)
  <2>1. m \in A /\ n \in A /\ m <= n /\ A \subseteq 1..Len(v) /\ m \in Int /\ n \in Int
    BY <1>3, Blanks
  <2>2. v[m] # " " /\ v[n] # " "
    BY <2>1
  <2>3. TrimSpace(v) = t
    BY <1>3 DEF TrimSpace
  <2> HIDE DEF m, n, A
  <2>4. \A i \in m..n : i \in 1..Len(v)
    BY ONLY <1>1, <2>1
  <2>5. t \in Seq(STRING) /\ Len(t) = n - m + 1 /\ \A i \in 1..(n - m + 1) : t[i] = v[m + i - 1]
    <3>1. \A i \in m..n : v[i] \in STRING
      BY <1>1, <2>4
    <3> QED
      BY ONLY <2>1, <3>1, SubSeqProperties
  <2> HIDE DEF t
  <2>6. t[1] = v[m] /\ t[n - m + 1] = v[n]
    BY <2>1, <2>5
  <2>7. ASSUME NEW i \in DOMAIN t PROVE t[i] \in ToSet(v)
    <3>1. i \in 1..(n - m + 1) /\ t[i] = v[m + i - 1] /\ m + i - 1 \in m..n
      BY <2>1, <2>5
    <3>2. m + i - 1 \in DOMAIN v
      BY <1>1, <2>4, <3>1
    <3> QED
      BY <3>1, <3>2 DEF ToSet
  <2>8. ToSet(t) \subseteq ToSet(v)
    BY <2>7 DEF ToSet
  <2> QED
    BY <2>2, <2>3, <2>5, <2>6, <2>8 DEF Text
<1> QED
  BY <1>2, <1>3

\* Where there are no blanks around it, nothing is taken off.
LEMMA TrimsNothing ==
  ASSUME NEW v \in Text, v # <<>> => v[1] # " " /\ v[Len(v)] # " "
  PROVE  TrimSpace(v) = v
<1> DEFINE A == {i \in DOMAIN v : v[i] # " "}
<1>1. v \in Seq(STRING) /\ Len(v) \in Nat /\ DOMAIN v = 1..Len(v)
  BY TextFacts
<1>2. CASE v = <<>>
  <2>1. A = {}
    BY <1>2
  <2> QED
    BY <1>2, <2>1 DEF TrimSpace
<1>3. CASE v # <<>>
  <2>0. Len(v) \in 1..Len(v) /\ 1 \in 1..Len(v)
    BY ONLY <1>1, <1>3, EmptySeq
  <2>1. 1 \in A /\ Len(v) \in A
    BY <1>1, <1>3, <2>0
  <2>2. /\ Min(A) \in A /\ Max(A) \in A /\ \A i \in A : Min(A) <= i /\ i <= Max(A)
        /\ A \subseteq 1..Len(v) /\ Min(A) \in Int /\ Max(A) \in Int
    BY <2>1, Blanks
  <2>3. TrimSpace(v) = SubSeq(v, Min(A), Max(A))
    BY <2>1 DEF TrimSpace
  <2> HIDE DEF A
  <2>4. Min(A) = 1 /\ Max(A) = Len(v)
    <3>1. Min(A) \in 1..Len(v) /\ Max(A) \in 1..Len(v) /\ Min(A) <= 1 /\ Len(v) <= Max(A)
      BY <2>1, <2>2
    <3> QED
      BY ONLY <1>1, <3>1
  <2> QED
    BY <1>1, <2>3, <2>4, SubSeqFull
<1> QED
  BY <1>2, <1>3

\* Once is enough.
LEMMA TrimsOnce ==
  ASSUME NEW v \in Text
  PROVE  TrimSpace(TrimSpace(v)) = TrimSpace(v)
BY Trimmed, TrimsNothing

\* Join goes along the parts.
JoinStep == [w \in Text \X Text |-> Joined(w[1], w[2])]

\* Parts are joined to a text.
LEMMA JoinedTexts ==
  ASSUME NEW done \in Text, NEW p \in Text
  PROVE  Joined(done, p) \in Text /\ JoinStep[<<done, p>>] = Joined(done, p)
<1>1. ASSUME NEW X, NEW s \in Seq(X), NEW c \in X, NEW t \in Seq(X) PROVE s \o <<c>> \o t \in Seq(X)
  OBVIOUS
<1>2. done \o <<",">> \o p \in Text
  <2>1. "," \in STRING
    BY TextAssumption
  <2> QED
    BY ONLY <1>1, <2>1, done \in Text, p \in Text, Zenon DEF Text
<1> QED
  BY <1>2 DEF Joined, JoinStep

\* Join is a fold of its steps.
LEMMA JoinFolds ==
  ASSUME NEW parts \in Seq(Text)
  PROVE  Join(parts) = Folded(<<>>, JoinStep, parts)
<1>1. JoinStep \in Stepping(Text, Text)
  BY JoinedTexts DEF JoinStep, Stepping
<1>2. <<>> \in Text
  BY Texts
<1> DEFINE D == DOMAIN parts
<1>3. PICK g \in [SUBSET D -> Text] : BySets(g, <<>>, JoinStep, parts)
  BY ONLY <1>1, <1>2, parts \in Seq(Text), FoldBySets
<1>4. \A A \in SUBSET D : A # {} => parts[Max(A)] \in Text
  <2>1. D = 1..Len(parts) /\ Len(parts) \in Nat
    BY DEF Text
  <2>2. ASSUME NEW A \in SUBSET D, A # {} PROVE Max(A) \in A
    BY <2>1, <2>2, LastPlace
  <2> QED
    BY <2>1, <2>2, ElementOfSeq
<1> DEFINE solves(h) == h = [A \in SUBSET D |-> IF A = {} THEN <<>> ELSE Joined(h[A \ {Max(A)}], parts[Max(A)])]
           h == CHOOSE h : solves(h)
<1>5. solves(g)
  <2>1. ASSUME NEW A \in SUBSET D, A # {} PROVE g[A] = Joined(g[A \ {Max(A)}], parts[Max(A)])
    <3>1. g[A \ {Max(A)}] \in Text /\ parts[Max(A)] \in Text
      BY <1>3, <1>4, <2>1
    <3> QED
      BY <1>3, <2>1, <3>1, JoinedTexts DEF BySets
  <2>2. g = [A \in SUBSET D |-> g[A]] /\ g[{}] = <<>>
    BY <1>3 DEF BySets
  <2> HIDE DEF D
  <2> QED
    BY <2>1, <2>2
<1>6. solves(h)
  <2> HIDE DEF solves
  <2> QED
    BY <1>5
<1>7. \A A \in SUBSET D : h[A] = IF A = {} THEN <<>> ELSE Joined(h[A \ {Max(A)}], parts[Max(A)])
  <2> HIDE DEF h, D
  <2> QED
    BY <1>6
<1>8. h[D] = Folded(<<>>, JoinStep, parts)
  <2>1. h[{}] = <<>>
    BY <1>7
  <2>2. ASSUME NEW A \in SUBSET D, A # {}, h[A \ {Max(A)}] \in Text
        PROVE  h[A] = JoinStep[<<h[A \ {Max(A)}], parts[Max(A)]>>]
    BY <1>4, <1>7, <2>2, JoinedTexts
  <2> HIDE DEF h
  <2>3. BySetsIn(h, Text, <<>>, JoinStep, parts)
    BY <2>1, <2>2 DEF BySetsIn
  <2> QED
    BY ONLY <1>1, <1>2, <2>3, parts \in Seq(Text), FoldOfSets
<1> QED
  BY <1>8 DEF Join, FoldLeft, MapThenFoldSet

\* Join, a part at a time.
LEMMA JoinLaws ==
  /\ Join(<<>>) = <<>>
  /\ \A parts \in Seq(Text) : Join(parts) \in Text
  /\ \A parts \in Seq(Text), p \in Text : Join(Append(parts, p)) = Joined(Join(parts), p)
<1>1. <<>> \in Seq(Text) /\ \A parts \in Seq(Text), p \in Text : Append(parts, p) \in Seq(Text)
  BY AppendProperties
<1>2. Join(<<>>) = <<>>
  BY <1>1, JoinFolds, FoldedEmpty
<1>3. ASSUME NEW parts \in Seq(Text), NEW p \in Text
      PROVE  Join(Append(parts, p)) = JoinStep[<<Join(parts), p>>]
  <2>1. Join(parts) = Folded(<<>>, JoinStep, parts) /\ Join(Append(parts, p)) = Folded(<<>>, JoinStep, Append(parts, p))
    BY <1>1, JoinFolds
  <2>2. Folded(<<>>, JoinStep, Append(parts, p)) = JoinStep[<<Folded(<<>>, JoinStep, parts), p>>]
    BY FoldedAppend
  <2> QED
    BY <2>1, <2>2
<1> DEFINE T == {parts \in Seq(Text) : Join(parts) \in Text}
<1>4. <<>> \in T
  BY <1>1, <1>2, Texts
<1>5. ASSUME NEW parts \in Seq(Text), NEW p \in Text, parts \in T PROVE Append(parts, p) \in T
  <2>1. Join(parts) \in Text
    BY <1>5
  <2>2. Join(Append(parts, p)) \in Text
    BY <1>3, <2>1, JoinedTexts
  <2> QED
    BY <1>1, <2>2
<1>6. Seq(Text) \subseteq T
  <2> HIDE DEF T
  <2> QED
    BY ONLY <1>4, <1>5, SeqInduct
<1> QED
  BY <1>2, <1>3, <1>6, JoinedTexts

\* Selecting the user's own attributes goes along the parts, too.
KeepStep == [w \in Seq(Text) \X Text |-> Keep(w[1], w[2])]

\* What is kept are texts.
LEMMA KeepTexts ==
  ASSUME NEW kept \in Seq(Text), NEW q \in Text
  PROVE  Keep(kept, q) \in Seq(Text) /\ KeepStep[<<kept, q>>] = Keep(kept, q)
<1>1. Append(kept, TrimSpace(q)) \in Seq(Text)
  BY Trimmed, AppendProperties
<1> QED
  BY <1>1 DEF Keep, KeepStep

\* Keep is a fold of its steps.
LEMMA KeepFolds ==
  ASSUME NEW parts \in Seq(Text)
  PROVE  FoldLeft(Keep, <<>>, parts) = Folded(<<>>, KeepStep, parts)
<1> DEFINE V == Seq(Text)
<1>1. KeepStep \in Stepping(V, Text)
  BY KeepTexts DEF KeepStep, Stepping
<1>2. <<>> \in V
  OBVIOUS
<1> DEFINE D == DOMAIN parts
<1>3. PICK g \in [SUBSET D -> V] : BySets(g, <<>>, KeepStep, parts)
  BY ONLY <1>1, <1>2, parts \in Seq(Text), FoldBySets
<1>4. \A A \in SUBSET D : A # {} => parts[Max(A)] \in Text
  <2>1. D = 1..Len(parts) /\ Len(parts) \in Nat
    BY DEF Text
  <2>2. ASSUME NEW A \in SUBSET D, A # {} PROVE Max(A) \in A
    BY <2>1, <2>2, LastPlace
  <2> QED
    BY <2>1, <2>2, ElementOfSeq
<1> DEFINE solves(h) == h = [A \in SUBSET D |-> IF A = {} THEN <<>> ELSE Keep(h[A \ {Max(A)}], parts[Max(A)])]
           h == CHOOSE h : solves(h)
<1>5. solves(g)
  <2>1. ASSUME NEW A \in SUBSET D, A # {} PROVE g[A] = Keep(g[A \ {Max(A)}], parts[Max(A)])
    <3>1. g[A \ {Max(A)}] \in Seq(Text) /\ parts[Max(A)] \in Text
      BY <1>3, <1>4, <2>1
    <3> QED
      BY <1>3, <2>1, <3>1, KeepTexts DEF BySets
  <2>2. g = [A \in SUBSET D |-> g[A]] /\ g[{}] = <<>>
    BY <1>3 DEF BySets
  <2> HIDE DEF D
  <2> QED
    BY <2>1, <2>2
<1>6. solves(h)
  <2> HIDE DEF solves
  <2> QED
    BY <1>5
<1>7. \A A \in SUBSET D : h[A] = IF A = {} THEN <<>> ELSE Keep(h[A \ {Max(A)}], parts[Max(A)])
  <2> HIDE DEF h, D
  <2> QED
    BY <1>6
<1>8. h[D] = Folded(<<>>, KeepStep, parts)
  <2>1. h[{}] = <<>>
    BY <1>7
  <2>2. ASSUME NEW A \in SUBSET D, A # {}, h[A \ {Max(A)}] \in V
        PROVE  h[A] = KeepStep[<<h[A \ {Max(A)}], parts[Max(A)]>>]
    BY <1>4, <1>7, <2>2, KeepTexts
  <2> HIDE DEF h, V
  <2>3. BySetsIn(h, V, <<>>, KeepStep, parts)
    BY <2>1, <2>2 DEF BySetsIn
  <2> QED
    BY ONLY <1>1, <1>2, <2>3, parts \in Seq(Text), FoldOfSets
<1> QED
  BY <1>8 DEF FoldLeft, MapThenFoldSet

\* What is kept of some parts.
KeptOf(parts) == FoldLeft(Keep, <<>>, parts)

\* A part that Keep keeps: it has a name that is none of the meter's.
Ours(p) == p # <<>> /\ p[1] \notin MeterKey


\* Keep, a part at a time.
LEMMA KeepLaws ==
  /\ KeptOf(<<>>) = <<>>
  /\ \A parts \in Seq(Text) : KeptOf(parts) \in Seq(Text)
  /\ \A parts \in Seq(Text), p \in Text : KeptOf(Append(parts, p)) = Keep(KeptOf(parts), p)
<1>1. <<>> \in Seq(Text) /\ \A parts \in Seq(Text), p \in Text : Append(parts, p) \in Seq(Text)
  BY AppendProperties
<1>2. KeptOf(<<>>) = <<>>
  BY <1>1, KeepFolds, FoldedEmpty DEF KeptOf
<1>3. ASSUME NEW parts \in Seq(Text), NEW p \in Text
      PROVE  KeptOf(Append(parts, p)) = KeepStep[<<KeptOf(parts), p>>]
  <2>1. KeptOf(parts) = Folded(<<>>, KeepStep, parts) /\ KeptOf(Append(parts, p)) = Folded(<<>>, KeepStep, Append(parts, p))
    BY <1>1, KeepFolds DEF KeptOf
  <2>2. Folded(<<>>, KeepStep, Append(parts, p)) = KeepStep[<<Folded(<<>>, KeepStep, parts), p>>]
    BY FoldedAppend
  <2> QED
    BY <2>1, <2>2
<1> DEFINE T == {parts \in Seq(Text) : KeptOf(parts) \in Seq(Text)}
<1>4. <<>> \in T
  BY <1>1, <1>2
<1>5. ASSUME NEW parts \in Seq(Text), NEW p \in Text, parts \in T PROVE Append(parts, p) \in T
  <2>1. KeptOf(parts) \in Seq(Text)
    BY <1>5
  <2>2. KeptOf(Append(parts, p)) \in Seq(Text)
    BY <1>3, <2>1, KeepTexts
  <2> QED
    BY <1>1, <2>2
<1>6. Seq(Text) \subseteq T
  <2> HIDE DEF T
  <2> QED
    BY ONLY <1>4, <1>5, SeqInduct
<1> QED
  BY <1>2, <1>3, <1>6, KeepTexts

\* The elements of a sequence that is one element longer, or two put together.
LEMMA Elements ==
  ASSUME NEW X, NEW s \in Seq(X)
  PROVE  /\ ToSet(<<>>) = {} /\ ToSet(s) \subseteq X
         /\ \A x \in X : ToSet(Append(s, x)) = ToSet(s) \cup {x}
         /\ \A t \in Seq(X) : ToSet(s \o t) = ToSet(s) \cup ToSet(t)
<1>1. ToSet(<<>>) = {} /\ ToSet(s) \subseteq X
  BY DEF ToSet
<1>2. ASSUME NEW x \in X PROVE ToSet(Append(s, x)) = ToSet(s) \cup {x}
  BY AppendProperties DEF ToSet
<1>3. ASSUME NEW t \in Seq(X) PROVE ToSet(s \o t) = ToSet(s) \cup ToSet(t)
  <2>1. /\ s \o t \in Seq(X) /\ Len(s \o t) = Len(s) + Len(t) /\ Len(s) \in Nat /\ Len(t) \in Nat
        /\ \A i \in 1..Len(s) + Len(t) : (s \o t)[i] = IF i <= Len(s) THEN s[i] ELSE t[i - Len(s)]
    BY ConcatProperties
  <2>2. /\ DOMAIN (s \o t) = 1..Len(s) + Len(t) /\ DOMAIN s = 1..Len(s) /\ DOMAIN t = 1..Len(t)
    BY <2>1
  <2>3. ASSUME NEW i \in DOMAIN s PROVE s[i] \in ToSet(s \o t)
    BY <2>1, <2>2 DEF ToSet
  <2>4. ASSUME NEW i \in DOMAIN t PROVE t[i] \in ToSet(s \o t)
    <3>1. i + Len(s) \in DOMAIN (s \o t) /\ (s \o t)[i + Len(s)] = t[i]
      BY <2>1, <2>2
    <3> QED
      BY <3>1 DEF ToSet
  <2>5. ASSUME NEW i \in DOMAIN (s \o t) PROVE (s \o t)[i] \in ToSet(s) \cup ToSet(t)
    BY <2>1, <2>2 DEF ToSet
  <2> QED
    BY <2>3, <2>4, <2>5 DEF ToSet
<1> QED
  BY <1>1, <1>2, <1>3

\* What is kept are the user's own parts, without the blanks around them.
LEMMA KeepsOwn ==
  ASSUME NEW parts \in Seq(Text)
  PROVE  ToSet(KeptOf(parts)) = {p \in {TrimSpace(q) : q \in ToSet(parts)} : Ours(p)}
<1> DEFINE own(ps) == {p \in {TrimSpace(q) : q \in ToSet(ps)} : Ours(p)}
           T == {ps \in Seq(Text) : ToSet(KeptOf(ps)) = own(ps)}
<1>1. <<>> \in T
  BY KeepLaws DEF ToSet
<1>2. ASSUME NEW ps \in Seq(Text), NEW q \in Text, ps \in T PROVE Append(ps, q) \in T
  <2>1. ToSet(Append(ps, q)) = ToSet(ps) \cup {q} /\ Append(ps, q) \in Seq(Text)
    BY Elements, AppendProperties
  <2>2. own(Append(ps, q)) = own(ps) \cup {p \in {TrimSpace(q)} : Ours(p)}
    BY <2>1
  <2>3. KeptOf(Append(ps, q)) = Keep(KeptOf(ps), q) /\ KeptOf(ps) \in Seq(Text) /\ TrimSpace(q) \in Text
    BY KeepLaws, Trimmed
  <2>4. ToSet(KeptOf(ps)) = own(ps)
    BY <1>2
  <2> HIDE DEF own
  <2>5. ToSet(Keep(KeptOf(ps), q)) = ToSet(KeptOf(ps)) \cup {p \in {TrimSpace(q)} : Ours(p)}
    <3>1. CASE Ours(TrimSpace(q))
      <4>1. Keep(KeptOf(ps), q) = Append(KeptOf(ps), TrimSpace(q))
        BY <3>1 DEF Keep, Ours
      <4>2. ToSet(Append(KeptOf(ps), TrimSpace(q))) = ToSet(KeptOf(ps)) \cup {TrimSpace(q)}
        BY <2>3, Elements
      <4> QED
        BY <3>1, <4>1, <4>2
    <3>2. CASE ~Ours(TrimSpace(q))
      <4>1. Keep(KeptOf(ps), q) = KeptOf(ps)
        BY <3>2 DEF Keep, Ours
      <4> QED
        BY <3>2, <4>1
    <3> QED
      BY <3>1, <3>2
  <2> QED
    BY <2>1, <2>2, <2>3, <2>4, <2>5
<1>3. Seq(Text) \subseteq T
  <2> HIDE DEF T
  <2> QED
    BY ONLY <1>1, <1>2, SeqInduct
<1> QED
  BY <1>3

\* Sequences of one element, and of two.
LEMMA Tuples ==
  ASSUME NEW X, NEW a \in X, NEW b \in X
  PROVE  /\ <<a>> \in Seq(X) /\ ToSet(<<a>>) = {a}
         /\ <<a, b>> \in Seq(X) /\ ToSet(<<a, b>>) = {a, b}
<1>1. DOMAIN <<a>> = {1} /\ DOMAIN <<a, b>> = {1, 2}
  OBVIOUS
<1>2. ToSet(<<a>>) = {<<a>>[i] : i \in {1}}
  BY <1>1 DEF ToSet
<1>3. ToSet(<<a, b>>) = {<<a, b>>[i] : i \in {1, 2}}
  BY <1>1 DEF ToSet
<1> QED
  BY <1>2, <1>3

\* Two and one are three.
LEMMA Triple ==
  ASSUME NEW a, NEW b, NEW c
  PROVE  <<a, b>> \o <<c>> = <<a, b, c>>
<1> DEFINE X == {a, b, c}
<1>1. <<a, b>> \in Seq(X) /\ <<c>> \in Seq(X) /\ <<a, b, c>> \in Seq(X)
  OBVIOUS
<1>2. Len(<<a, b>>) = 2 /\ Len(<<c>>) = 1 /\ Len(<<a, b, c>>) = 3
  OBVIOUS
<1>3. /\ <<a, b>> \o <<c>> \in Seq(X) /\ Len(<<a, b>> \o <<c>>) = 3
      /\ \A i \in 1..3 : (<<a, b>> \o <<c>>)[i] = IF i <= 2 THEN <<a, b>>[i] ELSE <<c>>[i - 2]
  BY <1>1, <1>2, ConcatProperties
<1>4. \A i \in 1..3 : (<<a, b>> \o <<c>>)[i] = <<a, b, c>>[i]
  <2>1. 1..3 = {1, 2, 3}
    OBVIOUS
  <2> QED
    BY <1>3, <2>1
<1> QED
  BY ONLY <1>1, <1>2, <1>3, <1>4, SeqEqual

\* The words of texts.
LEMMA Words ==
  ASSUME NEW v \in Text
  PROVE  /\ ToSet(v) \subseteq STRING
         /\ \A c \in STRING : ToSet(Append(v, c)) = ToSet(v) \cup {c}
         /\ \A w \in Text : v \o w \in Text /\ ToSet(v \o w) = ToSet(v) \cup ToSet(w)
         /\ \A w \in Text, c \in STRING : v \o Append(w, c) = Append(v \o w, c)
<1>1. ASSUME NEW X, NEW s \in Seq(X)
      PROVE  ToSet(s) \subseteq X /\ \A x \in X : ToSet(Append(s, x)) = ToSet(s) \cup {x}
  BY Elements
<1>2. ASSUME NEW X, NEW s \in Seq(X), NEW t \in Seq(X)
      PROVE  s \o t \in Seq(X) /\ ToSet(s \o t) = ToSet(s) \cup ToSet(t)
  BY Elements, ConcatProperties
<1>3. v \in Seq(STRING)
  BY TextFacts
<1>4. ToSet(v) \subseteq STRING /\ \A c \in STRING : ToSet(Append(v, c)) = ToSet(v) \cup {c}
  BY ONLY <1>1, <1>3, Zenon
<1>5. \A w \in Text : v \o w \in Text /\ ToSet(v \o w) = ToSet(v) \cup ToSet(w)
  BY ONLY <1>2, <1>3, Zenon DEF Text
<1> DEFINE grows(X) == \A s \in Seq(X), t \in Seq(X), x \in X : s \o Append(t, x) = Append(s \o t, x)
<1>6. ASSUME NEW X PROVE grows(X)
  OBVIOUS
<1>7. grows(STRING)
  <2> HIDE DEF grows
  <2> QED
    BY ONLY <1>6, Zenon
<1>8. \A w \in Seq(STRING), c \in STRING : v \o Append(w, c) = Append(v \o w, c)
  BY ONLY <1>3, <1>7, Zenon
<1> QED
  BY ONLY <1>4, <1>5, <1>8, Zenon DEF Text

\* A text that is a single part.
NoComma(v) == "," \notin ToSet(v)

\* Without a comma there is one part, and none has a comma.
LEMMA PartsHaveNoComma ==
  ASSUME NEW v \in Text
  PROVE  \A p \in ToSet(Split(v)) : p \in Text /\ NoComma(p)
<1> DEFINE T == {w \in Text : \A p \in ToSet(Split(w)) : NoComma(p)}
<1>1. <<>> \in T
  <2>1. Split(<<>>) = Append(<<>>, <<>>) /\ <<>> \in Text
    BY Texts, SplitLaws
  <2>2. ToSet(Split(<<>>)) = {<<>>} /\ ToSet(<<>>) = {}
    BY <2>1 DEF ToSet
  <2> QED
    BY <2>1, <2>2 DEF NoComma
<1>2. ASSUME NEW w \in Text, NEW c \in STRING, w \in T PROVE Append(w, c) \in T
  <2> DEFINE P == Split(w)
             n == Len(P)
  <2>1. P \in Seq(Text) /\ P # <<>> /\ n \in Nat /\ DOMAIN P = 1..n /\ \A i \in 1..n : P[i] \in Text /\ NoComma(P[i])
    <3>1. P \in Seq(Text) /\ P # <<>>
      BY SplitLaws DEF Parts
    <3>2. n \in Nat /\ DOMAIN P = 1..n /\ \A i \in 1..n : P[i] \in Text
      BY <3>1
    <3>3. \A i \in 1..n : P[i] \in ToSet(P)
      BY <3>2 DEF ToSet
    <3> QED
      BY <1>2, <3>1, <3>2, <3>3
  <2>2. Split(Append(w, c)) = More(P, c) /\ Append(w, c) \in Text
    BY SplitLaws, Texts
  <2> HIDE DEF P
  <2>3. ASSUME NEW p \in ToSet(More(P, c)) PROVE NoComma(p)
    <3>1. CASE c = ","
      <4>1. More(P, c) = Append(P, <<>>) /\ <<>> \in Text
        BY <3>1, Texts DEF More
      <4>2. ToSet(More(P, c)) = ToSet(P) \cup {<<>>}
        BY <2>1, <4>1, Elements
      <4> QED
        <5>1. CASE p = <<>>
          BY <5>1 DEF ToSet, NoComma
        <5>2. CASE p \in ToSet(P)
          BY <2>1, <5>2 DEF ToSet
        <5> QED
          BY <2>3, <4>2, <5>1, <5>2
    <3>2. CASE c # ","
      <4>1. More(P, c) = [P EXCEPT ![n] = Append(P[n], c)]
        BY <3>2 DEF More
      <4>2. PICK i \in 1..n : p = IF i = n THEN Append(P[n], c) ELSE P[i]
        BY <2>1, <2>3, <4>1 DEF ToSet
      <4>3. CASE i = n
        <5>1. ToSet(Append(P[n], c)) = ToSet(P[n]) \cup {c}
          BY <2>1, <4>3, Words
        <5> QED
          BY <2>1, <3>2, <4>2, <4>3, <5>1 DEF NoComma
      <4>4. CASE i # n
        BY <2>1, <4>2, <4>4
      <4> QED
        BY <4>3, <4>4
    <3> QED
      BY <3>1, <3>2
  <2> QED
    BY <2>2, <2>3
<1>3. Text \subseteq T
  <2> HIDE DEF T
  <2>1. \A w \in Seq(STRING), c \in STRING : w \in T => Append(w, c) \in T
    BY <1>2 DEF Text
  <2> QED
    BY ONLY <1>1, <2>1, SeqInduct DEF Text
<1>4. ToSet(Split(v)) \subseteq Text
  BY SplitLaws, Elements DEF Parts
<1> QED
  BY <1>3, <1>4

\* Parts with b at the end of the last one.
Longer(parts, b) == [parts EXCEPT ![Len(parts)] = parts[Len(parts)] \o b]

\* A text without a comma belongs to the last part.
LEMMA SplitLast ==
  ASSUME NEW a \in Text, NEW b \in Text, NoComma(b)
  PROVE  Split(a \o b) = Longer(Split(a), b)
<1> DEFINE P == Split(a)
           n == Len(P)
           T == {w \in Text : NoComma(w) => Split(a \o w) = Longer(P, w)}
<1>1. P \in Seq(Text) /\ P # <<>> /\ n \in Nat /\ n \in 1..n /\ DOMAIN P = 1..n /\ P[n] \in Seq(STRING)
  <2>1. P \in Seq(Text) /\ P # <<>>
    BY SplitLaws DEF Parts
  <2>2. n \in Nat /\ n \in 1..n /\ DOMAIN P = 1..n
    BY <2>1
  <2>3. P[n] \in Text
    BY <2>1, <2>2, ElementOfSeq
  <2> QED
    BY <2>1, <2>2, <2>3 DEF Text
<1>2. <<>> \in T
  <2>1. a \o <<>> = a
    BY ConcatEmptySeq DEF Text
  <2>2. P[n] \o <<>> = P[n]
    BY <1>1, ConcatEmptySeq
  <2> HIDE DEF P
  <2>3. Longer(P, <<>>) = P
    BY <1>1, <2>2 DEF Longer
  <2> QED
    BY <2>1, <2>3, Texts DEF P
<1>3. ASSUME NEW w \in Text, NEW c \in STRING, w \in T PROVE Append(w, c) \in T
  <2>1. Append(w, c) \in Text
    BY Texts
  <2> SUFFICES ASSUME NoComma(Append(w, c)) PROVE Split(a \o Append(w, c)) = Longer(P, Append(w, c))
    BY <2>1
  <2>2. ToSet(Append(w, c)) = ToSet(w) \cup {c}
    BY Words
  <2>3. NoComma(w) /\ c # ","
    BY <2>2 DEF NoComma
  <2>4. Split(a \o w) = Longer(P, w)
    BY <1>3, <2>3
  <2>5. a \o w \in Text /\ a \o Append(w, c) = Append(a \o w, c) /\ P[n] \o Append(w, c) = Append(P[n] \o w, c)
    BY <1>1, Words DEF Text
  <2>6. Split(a \o Append(w, c)) = More(Longer(P, w), c)
    BY <2>4, <2>5, SplitLaws
  <2> HIDE DEF P
  <2>7. Longer(P, w) = [P EXCEPT ![n] = P[n] \o w] /\ Len(Longer(P, w)) = n
    <3>1. P[n] \o w \in Text
      BY <1>1, Words DEF Text
    <3> QED
      BY <1>1, <3>1, ExceptSeq DEF Longer
  <2>8. Longer(P, w)[n] = P[n] \o w /\ DOMAIN Longer(P, w) = DOMAIN P
    BY <1>1, <2>7
  <2>9. More(Longer(P, w), c) = [P EXCEPT ![n] = Append(P[n] \o w, c)]
    BY <1>1, <2>3, <2>7, <2>8 DEF More
  <2> QED
    BY <2>5, <2>6, <2>9 DEF Longer
<1>4. Text \subseteq T
  <2> HIDE DEF T
  <2>1. \A w \in Seq(STRING), c \in STRING : w \in T => Append(w, c) \in T
    BY <1>3 DEF Text
  <2> QED
    BY ONLY <1>2, <2>1, SeqInduct DEF Text
<1> QED
  BY <1>4

\* Parts that can be put together and taken apart again.
Clean(p) == p # <<>> /\ NoComma(p)

\* Split takes apart what Join has put together.
LEMMA SplitJoin ==
  ASSUME NEW parts \in Seq(Text), \A p \in ToSet(parts) : Clean(p), parts # <<>>
  PROVE  Split(Join(parts)) = parts
<1> DEFINE clean(ps) == \A p \in ToSet(ps) : Clean(p)
           T == {ps \in Seq(Text) : clean(ps) /\ ps # <<>> => Join(ps) # <<>> /\ Split(Join(ps)) = ps}
<1>1. <<>> \in T
  OBVIOUS
<1>2. ASSUME NEW ps \in Seq(Text), NEW p \in Text, ps \in T PROVE Append(ps, p) \in T
  <2>1. Append(ps, p) \in Seq(Text) /\ ToSet(Append(ps, p)) = ToSet(ps) \cup {p}
    BY Elements, AppendProperties
  <2> SUFFICES ASSUME clean(Append(ps, p))
               PROVE  Join(Append(ps, p)) # <<>> /\ Split(Join(Append(ps, p))) = Append(ps, p)
    BY <2>1
  <2>2. Clean(p) /\ clean(ps)
    BY <2>1
  <2>3. Join(Append(ps, p)) = Joined(Join(ps), p) /\ Join(ps) \in Text
    BY JoinLaws
  <2>4. p \in Seq(STRING)
    BY TextFacts
  <2>5. CASE ps = <<>>
    <3>1. Join(Append(ps, p)) = p
      BY <2>3, <2>5, JoinLaws DEF Joined
    <3>2. <<>> \o p = p
      BY <2>4, ConcatEmptySeq
    <3>3. Split(p) = Longer(<<<<>>>>, p)
      BY <2>2, <3>2, SplitLast, SplitLaws, Texts DEF Clean
    <3>4. Longer(<<<<>>>>, p) = <<p>>
      BY <3>2 DEF Longer
    <3> QED
      BY <2>2, <2>5, <3>1, <3>3, <3>4 DEF Clean
  <2>6. CASE ps # <<>>
    <3> DEFINE a == Append(Join(ps), ",")
    <3>1. Join(ps) # <<>> /\ Split(Join(ps)) = ps
      BY <1>2, <2>2, <2>6
    <3>2. Join(Append(ps, p)) = a \o p
      <4>0. ASSUME NEW X, NEW s \in Seq(X), NEW c \in X PROVE s \o <<c>> = Append(s, c)
        OBVIOUS
      <4>1. Join(ps) \o <<",">> = a
        <5>1. Join(ps) \in Seq(STRING) /\ "," \in STRING
          BY <2>3, TextFacts, TextAssumption
        <5> QED
          BY ONLY <4>0, <5>1, Zenon
      <4> QED
        BY <2>3, <3>1, <4>1 DEF Joined
    <3>3. a \in Text /\ Split(a) = Append(ps, <<>>)
      <4>1. "," \in STRING
        BY TextAssumption
      <4>2. Split(a) = More(ps, ",")
        BY <2>3, <3>1, <4>1, SplitLaws
      <4> QED
        BY <2>3, <4>1, <4>2, Texts DEF More
    <3>4. Split(a \o p) = Longer(Append(ps, <<>>), p)
      BY <2>2, <3>3, SplitLast DEF Clean
    <3>5. Longer(Append(ps, <<>>), p) = Append(ps, p)
      <4>1. <<>> \o p = p
        BY <2>4, ConcatEmptySeq
      <4>2. Append(ps, <<>>) \in Seq(Text) /\ Len(Append(ps, <<>>)) = Len(ps) + 1 /\ Append(ps, <<>>)[Len(ps) + 1] = <<>>
        BY Texts
      <4>3. Longer(Append(ps, <<>>), p) = [Append(ps, <<>>) EXCEPT ![Len(ps) + 1] = p]
        BY <4>1, <4>2 DEF Longer
      <4>4. [Append(ps, <<>>) EXCEPT ![Len(ps) + 1] = p] = Append(ps, p)
        <5>1. ASSUME NEW X, NEW s \in Seq(X), NEW c \in X, NEW d \in X
              PROVE  [Append(s, c) EXCEPT ![Len(s) + 1] = d] = Append(s, d)
          <6> DEFINE l == [Append(s, c) EXCEPT ![Len(s) + 1] = d]
                     r == Append(s, d)
          <6>1. l \in Seq(X) /\ r \in Seq(X) /\ Len(l) = Len(s) + 1 /\ Len(r) = Len(s) + 1
            OBVIOUS
          <6>2. \A i \in 1..Len(s) + 1 : l[i] = r[i]
            <7> DEFINE q == Append(s, c)
            <7>1. /\ q \in Seq(X) /\ Len(q) = Len(s) + 1 /\ \A i \in 1..Len(s) : q[i] = s[i]
                  /\ \A i \in 1..Len(s) : r[i] = s[i]
                  /\ r[Len(s) + 1] = d
              BY AppendProperties
            <7>2. Len(s) \in Nat /\ Len(s) + 1 \in 1..Len(q)
              BY <7>1
            <7> HIDE DEF q, r
            <7>3. \A i \in 1..Len(q) : [q EXCEPT ![Len(s) + 1] = d][i] = IF i = Len(s) + 1 THEN d ELSE q[i]
              BY ONLY <7>1, <7>2, d \in X, ExceptSeq
            <7>4. \A i \in 1..Len(s) + 1 : i = Len(s) + 1 \/ i \in 1..Len(s)
              BY <7>2
            <7>5. \A i \in 1..Len(s) + 1 : [q EXCEPT ![Len(s) + 1] = d][i] = r[i]
              BY ONLY <7>1, <7>3, <7>4
            <7> QED
              BY <7>5 DEF q
          <6> HIDE DEF l, r
          <6>3. l = r
            BY <6>1, <6>2, SeqEqual
          <6> QED
            BY <6>3 DEF l, r
        <5>2. <<>> \in Text
          BY Texts
        <5> QED
          BY <5>1, <5>2
      <4> QED
        BY <4>3, <4>4
    <3>6. a \o p # <<>>
      <4>1. ToSet(a \o p) = ToSet(a) \cup ToSet(p) /\ "," \in STRING /\ ToSet(a) = ToSet(Join(ps)) \cup {","}
        BY <2>3, <3>3, TextAssumption, Words
      <4>2. ToSet(a \o p) # ToSet(<<>>)
        <5>1. ToSet(<<>>) = {}
          BY DEF ToSet
        <5> QED
          BY <4>1, <5>1
      <4> QED
        BY <4>2, Zenon
    <3> QED
      BY <3>2, <3>4, <3>5, <3>6
  <2> QED
    BY <2>5, <2>6
<1>3. Seq(Text) \subseteq T
  <2> HIDE DEF T
  <2> QED
    BY ONLY <1>1, <1>2, SeqInduct
<1> QED
  BY <1>3

-----------------------------------------------------------------------------
(***************************************************************************)
(* What the exporter reads.                                                *)
(***************************************************************************)
Codes == {HexOf[c] : c \in DOMAIN HexOf}

\* An escaped text has none of the characters that are escaped, and is the
\* text again when it is read.
LEMMA Escaped ==
  ASSUME NEW v \in Text, NoCode(v)
  PROVE  /\ otelEscape(v) \in Text /\ Len(otelEscape(v)) = Len(v)
         /\ \A i \in 1..Len(v) : otelEscape(v)[i] \notin DOMAIN HexOf /\ Plain(otelEscape(v)[i]) = v[i]
<1> DEFINE e == otelEscape(v)
           n == Len(v)
<1>1. n \in Nat /\ DOMAIN v = 1..n /\ \A i \in 1..n : v[i] \in STRING /\ v[i] \notin Codes
  BY TextFacts DEF NoCode, Codes, ToSet
<1>2. /\ Codes \subseteq STRING /\ Codes \cap DOMAIN HexOf = {}
      /\ \A c, d \in DOMAIN HexOf : HexOf[c] = HexOf[d] => c = d
  BY EscapeAssumption DEF Codes
<1>3. e = [i \in 1..n |-> IF v[i] \in DOMAIN HexOf THEN HexOf[v[i]] ELSE v[i]]
  BY <1>1 DEF otelEscape
<1> HIDE DEF e
<1>4. e \in Text /\ Len(e) = n
  <2>1. \A i \in 1..n : e[i] \in STRING
    BY <1>1, <1>2, <1>3 DEF Codes
  <2>2. ASSUME NEW X, NEW f, f = [i \in 1..n |-> f[i]], \A i \in 1..n : f[i] \in X PROVE f \in Seq(X) /\ Len(f) = n
    BY <1>1, <2>2
  <2>3. e = [i \in 1..n |-> e[i]]
    BY <1>3
  <2> QED
    BY ONLY <2>1, <2>2, <2>3, Zenon DEF Text
<1>5. ASSUME NEW i \in 1..n PROVE e[i] \notin DOMAIN HexOf /\ Plain(e[i]) = v[i]
  <2>1. CASE v[i] \in DOMAIN HexOf
    <3>1. e[i] = HexOf[v[i]] /\ HexOf[v[i]] \in Codes
      BY <1>3, <2>1 DEF Codes
    <3>2. Plain(HexOf[v[i]]) = v[i]
      <4>1. \E h \in DOMAIN HexOf : HexOf[h] = HexOf[v[i]]
        BY <2>1
      <4>2. (CHOOSE h \in DOMAIN HexOf : HexOf[h] = HexOf[v[i]]) = v[i]
        BY <1>2, <2>1
      <4> QED
        BY <4>1, <4>2 DEF Plain
    <3> QED
      BY <1>2, <3>1, <3>2
  <2>2. CASE v[i] \notin DOMAIN HexOf
    <3>1. e[i] = v[i]
      BY <1>3, <2>2
    <3>2. ~\E h \in DOMAIN HexOf : HexOf[h] = v[i]
      BY <1>1 DEF Codes
    <3> QED
      BY <2>2, <3>1, <3>2 DEF Plain
  <2> QED
    BY <2>1, <2>2
<1> QED
  BY <1>4, <1>5 DEF e

\* A key of the meter's and an escaped value.
Entry(key, v) == <<key, "=">> \o otelEscape(v)

\* A value as it is read, code by code.
Read(e) == [i \in 1..Len(e) |-> Plain(e[i])]

\* p is read as the key and the value e.
Reads(p, key, e) ==
  /\ p \in Text /\ Len(p) = Len(e) + 2 /\ DOMAIN p = 1..Len(e) + 2
  /\ p[1] = key /\ p[2] = "=" /\ \A i \in 1..Len(e) : p[i + 2] = e[i]
  /\ "=" \in ToSet(p) /\ Pair(p) = <<<<key>>, Read(e)>>

\* What follows the first "=" is the value.
LEMMA PairOf ==
  ASSUME NEW key \in STRING, key # "=", NEW e \in Text
  PROVE  Reads(<<key, "=">> \o e, key, e)
<1> DEFINE n == Len(e)
           p == <<key, "=">> \o e
<1>1. key \in STRING /\ "=" \in STRING /\ key # "="
  BY TextAssumption
<1>3. e \in Seq(STRING) /\ DOMAIN e = 1..n /\ n \in Nat
  BY TextFacts
<1>5. <<key, "=">> \in Text
  <2>1. ASSUME NEW X, NEW a \in X, NEW b \in X PROVE <<a, b>> \in Seq(X)
    OBVIOUS
  <2> QED
    BY ONLY <1>1, <2>1, Zenon DEF Text
<1>6. p \in Text
  BY <1>5, Words
<1>7. Len(p) = n + 2 /\ p[1] = key /\ p[2] = "=" /\ \A i \in 1..n : p[i + 2] = e[i]
  BY <1>3
<1>8. p \in Seq(STRING) /\ DOMAIN p = 1..n + 2
  BY <1>6, <1>7, TextFacts
<1>9. "=" \in ToSet(p)
  <2>1. 2 \in DOMAIN p
    BY <1>3, <1>8
  <2> QED
    BY <1>7, <2>1 DEF ToSet
<1> HIDE DEF n, p
<1>12. Cut(p) = 2
  <2> DEFINE A == {i \in DOMAIN p : p[i] = "="}
  <2>1. A \in SUBSET Nat /\ 2 \in A /\ 1 \notin A /\ 0 \notin A
    <3>1. DOMAIN p \in SUBSET Nat /\ 2 \in DOMAIN p /\ 0 \notin DOMAIN p
      BY <1>3, <1>8
    <3>2. A \subseteq DOMAIN p
      OBVIOUS
    <3> QED
      BY <1>1, <1>7, <3>1, <3>2
  <2>2. Min(A) \in A /\ Min(A) <= 2
    <3> HIDE DEF A
    <3>1. Min(A) \in A /\ \A i \in A : Min(A) <= i
      BY ONLY <2>1, FirstPlace
    <3> QED
      BY <2>1, <3>1
  <2>3. Min(A) = 2
    <3> HIDE DEF A
    <3>1. Min(A) \in Nat /\ Min(A) # 1 /\ Min(A) # 0
      BY <2>1, <2>2
    <3> QED
      BY <2>2, <3>1
  <2> QED
    BY <2>3 DEF Cut
<1>13. SubSeq(p, 1, Cut(p) - 1) = <<key>>
  <2>1. ASSUME NEW X, NEW s \in Seq(X), Len(s) >= 1 PROVE SubSeq(s, 1, 1) = <<s[1]>>
    <3>1. \A i \in 1..1 : s[i] \in X
      BY <2>1
    <3>2. SubSeq(s, 1, 1) \in Seq(X) /\ Len(SubSeq(s, 1, 1)) = 1 /\ SubSeq(s, 1, 1)[1] = s[1]
      <4>1. /\ SubSeq(s, 1, 1) \in Seq(X) /\ Len(SubSeq(s, 1, 1)) = 1
            /\ \A i \in 1..1 : SubSeq(s, 1, 1)[i] = s[1 + i - 1]
        BY <3>1, SubSeqProperties
      <4> QED
        BY <4>1
    <3>3. ASSUME NEW u \in Seq(X), Len(u) = 1 PROVE u = <<u[1]>>
      <4>1. <<u[1]>> \in Seq(X) /\ Len(<<u[1]>>) = 1 /\ <<u[1]>>[1] = u[1]
        <5>0. Len(u) = 1 /\ 1 \in 1..1
          BY <3>3
        <5>1. u[1] \in X
          BY ONLY <5>0, u \in Seq(X), ElementOfSeq
        <5>2. ASSUME NEW x \in X PROVE <<x>> \in Seq(X) /\ Len(<<x>>) = 1 /\ <<x>>[1] = x
          OBVIOUS
        <5> QED
          BY ONLY <5>1, <5>2, Zenon
      <4>2. Len(u) = Len(<<u[1]>>) /\ \A i \in 1..Len(u) : u[i] = <<u[1]>>[i]
        BY <3>3, <4>1
      <4> QED
        BY ONLY <4>1, <4>2, u \in Seq(X), SeqEqual
    <3> QED
      BY ONLY <3>2, <3>3, Zenon
  <2>2. Len(p) >= 1
    BY <1>3, <1>7
  <2>3. SubSeq(p, 1, 1) = <<p[1]>>
    BY ONLY <1>8, <2>1, <2>2, Zenon
  <2> QED
    BY <1>7, <1>12, <2>3
<1>14. [i \in 1..(Len(p) - Cut(p)) |-> Plain(p[Cut(p) + i])] = Read(e)
  <2>1. Len(p) - Cut(p) = n
    BY <1>3, <1>7, <1>12
  <2>2. ASSUME NEW i \in 1..n PROVE p[2 + i] = e[i]
    BY <1>7, i + 2 = 2 + i
  <2> QED
    BY ONLY <1>12, <2>1, <2>2 DEF Read, n
<1>15. Pair(p) = <<<<key>>, Read(e)>>
  BY ONLY <1>13, <1>14 DEF Pair
<1>16. Reads(p, key, e)
  BY ONLY <1>6, <1>7, <1>8, <1>9, <1>15 DEF Reads, n
<1> QED
  BY <1>16 DEF p

\* An attribute of the meter's is a part of its own, and is read as it was meant.
LEMMA Entries ==
  ASSUME NEW key \in MeterKey, NEW v \in Text, NoCode(v)
  PROVE  /\ Entry(key, v) \in Text /\ Clean(Entry(key, v)) /\ TrimSpace(Entry(key, v)) = Entry(key, v)
         /\ "=" \in ToSet(Entry(key, v))
         /\ Pair(Entry(key, v)) = <<<<key>>, v>>
<1> DEFINE e == otelEscape(v)
           p == Entry(key, v)
           n == Len(v)
<1>1. key \in STRING /\ "=" \in STRING /\ key # "=" /\ key # " " /\ key # ","
  BY TextAssumption
<1>2. {",", "=", " "} \subseteq DOMAIN HexOf
  BY EscapeAssumption
<1>3. e \in Text /\ Len(e) = n /\ n \in Nat /\ \A i \in 1..n : e[i] \notin DOMAIN HexOf /\ Plain(e[i]) = v[i]
  BY Escaped, TextFacts
<1>6. /\ p \in Text /\ Len(p) = n + 2 /\ DOMAIN p = 1..n + 2
      /\ p[1] = key /\ p[2] = "=" /\ \A i \in 1..n : p[i + 2] = e[i]
      /\ Pair(p) = <<<<key>>, Read(e)>>
  <2> HIDE DEF e
  <2>1. p = <<key, "=">> \o e
    BY DEF e, Entry
  <2> HIDE DEF p
  <2>2. Reads(p, key, e)
    BY ONLY <1>1, <1>3, <2>1, PairOf, Zenon
  <2> QED
    BY ONLY <1>3, <2>2 DEF Reads
<1>7. Len(p) = n + 2 /\ p[1] = key /\ p[2] = "=" /\ \A i \in 1..n : p[i + 2] = e[i]
  BY <1>6
<1>8. DOMAIN p = 1..n + 2
  BY <1>6
<1> HIDE DEF e, p
<1>9. \A i \in 3..n + 2 : p[i] \notin DOMAIN HexOf
  <2>1. ASSUME NEW i \in 3..n + 2 PROVE i - 2 \in 1..n /\ p[i] = e[i - 2]
    BY <1>3, <1>7
  <2> QED
    BY <1>3, <2>1
<1>10. NoComma(p) /\ p # <<>> /\ "=" \in ToSet(p)
  <2>1. \A i \in DOMAIN p : p[i] # ","
    <3>1. ASSUME NEW i \in 1..n + 2 PROVE i = 1 \/ i = 2 \/ i \in 3..n + 2
      BY <1>3
    <3> QED
      BY <1>1, <1>2, <1>7, <1>8, <1>9, <3>1
  <2>2. 2 \in DOMAIN p /\ DOMAIN p = 1..n + 2
    BY <1>3, <1>8
  <2>3. "," \notin ToSet(p) /\ p[2] \in ToSet(p)
    BY <2>1, <2>2 DEF ToSet
  <2>4. p # <<>>
    BY <1>3, <1>7
  <2> QED
    BY <1>7, <2>3, <2>4 DEF NoComma
<1>11. TrimSpace(p) = p
  <2>1. n + 2 = 2 \/ n + 2 \in 3..n + 2
    BY <1>3
  <2>2. p[1] # " " /\ p[n + 2] # " "
    BY <1>1, <1>2, <1>7, <1>9, <2>1
  <2> QED
    BY <1>6, <1>7, <2>2, TrimsNothing
<1>12. Read(e) = v
  <2>1. v = [i \in 1..n |-> v[i]]
    <3>1. ASSUME NEW X, NEW s \in Seq(X) PROVE s = [i \in 1..Len(s) |-> s[i]]
      OBVIOUS
    <3>2. v \in Seq(STRING)
      BY TextFacts
    <3> QED
      BY ONLY <3>1, <3>2, Zenon
  <2> QED
    BY ONLY <1>3, <2>1 DEF Read
<1> QED
  BY <1>6, <1>10, <1>11, <1>12 DEF p, Clean

\* A part is the user's own if its key is.
LEMMA OwnKeys ==
  ASSUME NEW p \in Text, "=" \in ToSet(p)
  PROVE  Pair(p)[1] = <<>> \/ Pair(p)[1][1] \notin MeterKey <=> Ours(p)
<1> DEFINE A == {i \in DOMAIN p : p[i] = "="}
           c == Cut(p)
           k == SubSeq(p, 1, c - 1)
<1>1. p \in Seq(STRING) /\ Len(p) \in Nat /\ DOMAIN p = 1..Len(p) /\ \A i \in 1..Len(p) : p[i] \in STRING
  BY TextFacts
<1>2. c \in A /\ c \in 1..Len(p) /\ p[c] = "="
  <2>1. A # {}
    BY DEF ToSet
  <2>2. A \in SUBSET DOMAIN p /\ DOMAIN p \in SUBSET Nat
    BY <1>1
  <2>3. Min(A) \in A
    <3> HIDE DEF A
    <3> QED
      BY ONLY <2>1, <2>2, FirstPlace
  <2> QED
    BY <1>1, <2>3 DEF Cut
<1>3. Pair(p)[1] = k
  BY DEF Pair
<1>4. p # <<>>
  BY <1>1, <1>2
<1> HIDE DEF c
<1>5. CASE c = 1
  <2>1. k = <<>>
    BY <1>5, SubSeqEmpty
  <2>2. "=" \notin MeterKey
    BY TextAssumption
  <2> QED
    BY <1>2, <1>3, <1>4, <1>5, <2>1, <2>2 DEF Ours
<1>6. CASE c # 1
  <2>1. c - 1 \in Int /\ 1 <= c - 1 /\ 1 \in 1..(c - 1 - 1 + 1) /\ \A i \in 1..c - 1 : p[i] \in STRING
    BY <1>1, <1>2, <1>6
  <2>2. Len(k) = c - 1 - 1 + 1 /\ k[1] = p[1 + 1 - 1]
    BY ONLY <2>1, SubSeqProperties
  <2> HIDE DEF k
  <2>3. k # <<>> /\ k[1] = p[1]
    <3>1. 1 + 1 - 1 = 1 /\ c - 1 - 1 + 1 # 0
      BY <2>1
    <3> QED
      BY <2>2, <3>1
  <2> QED
    BY <1>3, <1>4, <2>3 DEF Ours
<1> QED
  BY <1>5, <1>6

\* What is recorded of the identity.
OwnPairs(id) ==
  {<<<<"meter.person">>, id.person>>, <<<<"meter.device">>, id.device>>}
    \cup IF id.source = "" THEN {} ELSE {<<<<"meter.source_ip">>, <<id.source>>>>}

\* An identity of texts that have no codes in them.
Writable(id) ==
  /\ id.person \in Text /\ NoCode(id.person) /\ id.device \in Text /\ NoCode(id.device)
  /\ id.source \in DOMAIN Whois \cup {""}

\* The meter's own attributes are parts of their own.
LEMMA OwnEntries ==
  ASSUME NEW id, Writable(id)
  PROVE  /\ Own(id) \in Seq(Text) /\ Own(id) # <<>>
         /\ \A p \in ToSet(Own(id)) : p \in Text /\ Clean(p) /\ TrimSpace(p) = p /\ "=" \in ToSet(p)
         /\ {Pair(p) : p \in ToSet(Own(id))} = OwnPairs(id)
<1> DEFINE a == Entry("meter.person", id.person)
           b == Entry("meter.device", id.device)
           c == Entry("meter.source_ip", <<id.source>>)
           good(p) == p \in Text /\ Clean(p) /\ TrimSpace(p) = p /\ "=" \in ToSet(p)
<1>1. good(a) /\ Pair(a) = <<<<"meter.person">>, id.person>>
  BY Entries, TextAssumption DEF Writable
<1>2. good(b) /\ Pair(b) = <<<<"meter.device">>, id.device>>
  BY Entries, TextAssumption DEF Writable
<1>3. ASSUME id.source # ""
      PROVE  /\ good(c) /\ Pair(c) = <<<<"meter.source_ip">>, <<id.source>>>>
             /\ c = <<"meter.source_ip", "=", id.source>>
  <2>1. id.source \in STRING /\ id.source \notin Codes /\ id.source \notin DOMAIN HexOf
    BY <1>3, EscapeAssumption DEF Writable, Codes
  <2>2. <<id.source>> \in Text
    <3>1. ASSUME NEW X, NEW x \in X PROVE <<x>> \in Seq(X)
      OBVIOUS
    <3> QED
      BY ONLY <2>1, <3>1, Zenon DEF Text
  <2>3. NoCode(<<id.source>>)
    BY <2>1 DEF NoCode, Codes, ToSet
  <2>4. otelEscape(<<id.source>>) = <<id.source>>
    BY <2>1 DEF otelEscape
  <2>5. c = <<"meter.source_ip", "=", id.source>>
    <3>1. <<"meter.source_ip", "=">> \o <<id.source>> = <<"meter.source_ip", "=", id.source>>
      BY Triple
    <3> QED
      BY <2>4, <3>1, Zenon DEF Entry
  <2> QED
    BY <2>2, <2>3, <2>5, Entries, TextAssumption
<1>4. Own(id) = <<a, b>> \o IF id.source = "" THEN <<>> ELSE <<c>>
  BY <1>3 DEF Own, Entry
<1> HIDE DEF a, b, c
<1>5. CASE id.source = ""
  <2>1. Own(id) = <<a, b>>
    <3>1. <<a, b>> \o <<>> = <<a, b>>
      OBVIOUS
    <3> QED
      BY <1>4, <1>5, <3>1
  <2>2. Own(id) \in Seq(Text) /\ Own(id) # <<>> /\ ToSet(Own(id)) = {a, b}
    BY <1>1, <1>2, <2>1 DEF ToSet
  <2> QED
    BY <1>1, <1>2, <1>5, <2>2 DEF OwnPairs
<1>6. CASE id.source # ""
  <2>1. Own(id) = <<a, b>> \o <<c>>
    BY <1>4, <1>6
  <2>2. Own(id) \in Seq(Text) /\ Own(id) # <<>> /\ ToSet(Own(id)) = {a, b, c}
    <3>1. <<a, b>> \in Seq(Text) /\ ToSet(<<a, b>>) = {a, b} /\ <<c>> \in Seq(Text) /\ ToSet(<<c>>) = {c}
      BY <1>1, <1>2, <1>3, <1>6, Tuples
    <3>2. Own(id) \in Seq(Text) /\ ToSet(Own(id)) = {a, b} \cup {c}
      <4> HIDE DEF good
      <4>1. <<a, b>> \o <<c>> \in Seq(Text) /\ ToSet(<<a, b>> \o <<c>>) = ToSet(<<a, b>>) \cup ToSet(<<c>>)
        <5>1. ASSUME NEW s \in Seq(Text), NEW t \in Seq(Text)
              PROVE  s \o t \in Seq(Text) /\ ToSet(s \o t) = ToSet(s) \cup ToSet(t)
          BY Elements, ConcatProperties
        <5> QED
          BY ONLY <3>1, <5>1, Zenon
      <4> QED
        BY <2>1, <3>1, <4>1, Zenon
    <3>3. ToSet(<<>>) = {}
      BY DEF ToSet
    <3> QED
      BY <3>2, <3>3
  <2> QED
    BY <1>1, <1>2, <1>3, <1>6, <2>2 DEF OwnPairs
<1> QED
  BY <1>5, <1>6

\* The attributes that the exporter reads are the identity and the user's own
\* attributes, whatever the user has set.
LEMMA RoundTrip ==
  ASSUME NEW id, Writable(id), NEW existing \in Text
  PROVE  Attributes(ResourceAttributes(id, existing)) =
           {a \in Attributes(existing) : a[1] = <<>> \/ a[1][1] \notin MeterKey} \cup OwnPairs(id)
<1> DEFINE K == Kept(existing)
           W == Own(id)
           S == Split(existing)
           readable(Q) == {q \in {TrimSpace(q) : q \in Q} : "=" \in ToSet(q)}
<1>1. S \in Seq(Text) /\ \A q \in ToSet(S) : q \in Text /\ NoComma(q)
  BY SplitLaws, PartsHaveNoComma DEF Parts
<1>2. K \in Seq(Text) /\ ToSet(K) = {p \in {TrimSpace(q) : q \in ToSet(S)} : Ours(p)}
  <2> HIDE DEF S
  <2>1. KeptOf(S) \in Seq(Text) /\ ToSet(KeptOf(S)) = {p \in {TrimSpace(q) : q \in ToSet(S)} : Ours(p)}
    BY <1>1, KeepLaws, KeepsOwn
  <2> QED
    BY <2>1 DEF Kept, KeptOf, S
<1>3. ASSUME NEW p \in ToSet(K) PROVE p \in Text /\ Clean(p) /\ TrimSpace(p) = p
  <2>1. PICK q \in ToSet(S) : p = TrimSpace(q) /\ Ours(p)
    BY <1>2, <1>3
  <2>2. TrimSpace(q) \in Text /\ ToSet(TrimSpace(q)) \subseteq ToSet(q) /\ TrimSpace(TrimSpace(q)) = TrimSpace(q)
    BY <1>1, Trimmed, TrimsOnce
  <2> QED
    BY <1>1, <2>1, <2>2 DEF Clean, NoComma, Ours
<1>4. /\ W \in Seq(Text) /\ W # <<>>
      /\ \A p \in ToSet(W) : p \in Text /\ Clean(p) /\ TrimSpace(p) = p /\ "=" \in ToSet(p)
      /\ {Pair(p) : p \in ToSet(W)} = OwnPairs(id)
  BY OwnEntries
<1>5. K \o W \in Seq(Text) /\ ToSet(K \o W) = ToSet(K) \cup ToSet(W) /\ K \o W # <<>>
  <2> HIDE DEF K, W
  <2>1. K \o W \in Seq(Text) /\ ToSet(K \o W) = ToSet(K) \cup ToSet(W)
    BY <1>2, <1>4, Elements, ConcatProperties
  <2>2. Len(K \o W) = Len(K) + Len(W) /\ Len(K) \in Nat /\ Len(W) \in Nat /\ Len(W) # 0
    BY <1>2, <1>4, EmptySeq, ConcatProperties, LenProperties
  <2>3. K \o W # <<>>
    BY <2>2
  <2> QED
    BY <2>1, <2>3
<1>6. Split(ResourceAttributes(id, existing)) = K \o W
  <2>1. \A p \in ToSet(K \o W) : Clean(p)
    BY <1>3, <1>4, <1>5
  <2>2. ResourceAttributes(id, existing) = Join(K \o W)
    BY DEF ResourceAttributes
  <2> HIDE DEF K, W
  <2> QED
    BY ONLY <1>5, <2>1, <2>2, SplitJoin
<1>7. readable(ToSet(K \o W)) = {p \in ToSet(K) : "=" \in ToSet(p)} \cup ToSet(W)
  <2> HIDE DEF K, W
  <2> QED
    BY <1>3, <1>4, <1>5
<1>8. Attributes(ResourceAttributes(id, existing)) = {Pair(p) : p \in readable(ToSet(K \o W))}
  BY <1>6 DEF Attributes
<1>9. {Pair(p) : p \in readable(ToSet(K \o W))} = {Pair(p) : p \in {p \in ToSet(K) : "=" \in ToSet(p)}} \cup OwnPairs(id)
  <2> HIDE DEF K, W, readable
  <2> QED
    BY <1>4, <1>7
<1>10. {p \in ToSet(K) : "=" \in ToSet(p)} = {p \in readable(ToSet(S)) : Ours(p)}
  BY <1>2
<1>11. ASSUME NEW p \in readable(ToSet(S))
       PROVE  Pair(p)[1] = <<>> \/ Pair(p)[1][1] \notin MeterKey <=> Ours(p)
  <2>1. p \in Text
    <3>1. PICK q \in ToSet(S) : p = TrimSpace(q)
      BY <1>11
    <3> QED
      BY <1>1, <3>1, Trimmed
  <2> QED
    BY <1>11, <2>1, OwnKeys
<1>12. Attributes(existing) = {Pair(p) : p \in readable(ToSet(S))}
  BY DEF Attributes
<1> HIDE DEF readable, K, W, S
<1>13. {Pair(p) : p \in {p \in readable(ToSet(S)) : Ours(p)}}
         = {a \in Attributes(existing) : a[1] = <<>> \/ a[1][1] \notin MeterKey}
  BY <1>11, <1>12
<1> QED
  BY <1>8, <1>9, <1>10, <1>13

-----------------------------------------------------------------------------
(***************************************************************************)
(* Types.                                                                  *)
(***************************************************************************)
\* The stages of a resolution.
Stage == {"load", "SSH_CONNECTION", "SSH_CLIENT", "env", "local", "whois"}

\* The devices that a start may know under the file of a launcher.
Maps(file) == {<<>>} \cup IF file = NoFile THEN {} ELSE LoadDevices(file.devices)

\* The starts that can be made with files fs.
Starts(fs) ==
  [pc : Stage, by : Terminal, inTmux : BOOLEAN, env : Env, existing : OwnAttributes,
   devices : Maps(fs.launcher), source : DOMAIN Whois \cup {""}, from : Env,
   moved : BOOLEAN, silent : BOOLEAN]

\* Only a start with a source asks whose it is; past the first stage the
\* configuration is a good one.
Going(r, fs) ==
  /\ r \in Starts(fs)
  /\ r.pc = "whois" <=> r.source # ""
  /\ r.pc # "load" => LoadLauncher(fs.launcher) /\ r.devices \in LoadDevices(fs.launcher.devices)

\* What a start has come to.
Came(r, id, asked, fs) ==
  \/ r.pc = "local" /\ id = LocalIdentity(fs.launcher) /\ asked = FALSE
  \/ r.pc = "whois" /\ id = DeviceIdentity(r.devices, r.source) /\ asked = TRUE
  \/ r.pc = "whois" /\ id = Fallback(r.source) /\ asked = FALSE

\* The collector takes what the launcher sends.
Accepts(fs) ==
  /\ LoadServer(fs.server) /\ TrimRight(fs.launcher.endpoint, "/") = CollectorURL
  /\ authorized(Header(fs.launcher.token), fs.server.token)

\* A start that is over has come to its identity from a start that was going on.
Over(r, fs) ==
  /\ r.pc = "done" /\ Going(r.start, fs) /\ Came(r.start, r.id, r.asked, fs)
  /\ r.sent = ResourceAttributes(r.id, r.start.existing)
  /\ r.accepted = Accepts(fs)

\* There is no start, one going on, or one that is over.
RunInv == run = None \/ Going(run, files) \/ Over(run, files)

\* The variables of the host and of tmux.
HostInv ==
  /\ files \in Setup /\ alive \in BOOLEAN
  /\ DOMAIN login \subseteq Terminal /\ \A t \in DOMAIN login : login[t] \in Env
  /\ global \in Env /\ latest \in Env /\ panes \subseteq Env
  /\ session \in [EnvVar -> Addr \cup {"", "unset", "-"}]
  /\ attached \subseteq DOMAIN login

\* An address gives an IP that tailscale can be asked about, or none.
LEMMA Sources ==
  ASSUME NEW v
  PROVE  sourceIPFromSSH(v) \in DOMAIN Whois \cup {""}
BY EnvAssumption DEF sourceIPFromSSH

\* So do the variables of an environment, the first one that has an address.
LEMMA FirstSource ==
  ASSUME NEW env
  PROVE  /\ sourceIPFromVars(env) \in DOMAIN Whois \cup {""}
         /\ sourceIPFromSSH(env["SSH_CONNECTION"]) # "" =>
              sourceIPFromVars(env) = sourceIPFromSSH(env["SSH_CONNECTION"])
<1> DEFINE order == <<"SSH_CONNECTION", "SSH_CLIENT", "MOSH_IP">>
           I == {i \in 1..Len(order) : sourceIPFromSSH(env[order[i]]) # ""}
           n == SelectInSeq(order, LAMBDA v : sourceIPFromSSH(env[v]) # "")
<1>1. n = IF I # {} THEN Min(I) ELSE 0
  BY DEF SelectInSeq
<1>2. I \in SUBSET Nat /\ 0 \notin I /\ Len(order) = 3 /\ order[1] = "SSH_CONNECTION"
  <2>1. Len(order) = 3 /\ order[1] = "SSH_CONNECTION"
    OBVIOUS
  <2>2. I \subseteq 1..Len(order)
    OBVIOUS
  <2> HIDE DEF I, order
  <2> QED
    BY <2>1, <2>2
<1>3. I # {} => Min(I) \in I /\ \A i \in I : Min(I) <= i
  <2> HIDE DEF I
  <2> QED
    BY ONLY <1>2, FirstPlace
<1>4. sourceIPFromVars(env) = IF n = 0 THEN "" ELSE sourceIPFromSSH(env[order[n]])
  BY DEF sourceIPFromVars
<1>5. sourceIPFromVars(env) \in DOMAIN Whois \cup {""}
  <2> HIDE DEF n, order, I
  <2> QED
    BY <1>4, Sources
<1>6. ASSUME sourceIPFromSSH(env["SSH_CONNECTION"]) # ""
      PROVE  sourceIPFromVars(env) = sourceIPFromSSH(env["SSH_CONNECTION"])
  <2>1. 1 \in I
    <3> HIDE DEF n, order
    <3>1. 1 \in 1..Len(order) /\ env[order[1]] = env["SSH_CONNECTION"]
      <4> HIDE DEF I
      <4> QED
        BY <1>2
    <3> QED
      BY <1>6, <3>1
  <2>2. n = 1
    <3>1. Min(I) \in I /\ Min(I) <= 1
      BY <1>3, <2>1
    <3>2. Min(I) \in Nat /\ Min(I) # 0
      BY <1>2, <3>1
    <3> HIDE DEF n, I
    <3> QED
      BY <1>1, <2>1, <3>1, <3>2
  <2> HIDE DEF n, order, I
  <2> QED
    BY <1>2, <1>4, <2>2
<1> QED
  BY <1>5, <1>6

\* The environments of logins, sessions and panes are environments.
LEMMA HostStep ==
  HostInv /\ [Next]_vars => HostInv'
<1> SUFFICES ASSUME HostInv, [Next]_vars PROVE HostInv'
  OBVIOUS
<1> USE DEF HostInv
<1>1. ASSUME NEW t \in Terminal, NEW env \in Origin, Login(t, env) PROVE HostInv'
  <2>1. login' = [u \in DOMAIN login \cup {t} |-> IF u = t THEN env ELSE login[u]]
    BY <1>1 DEF Login
  <2>2. env \in Env
    BY EnvAssumption
  <2>3. DOMAIN login' = {t} \cup DOMAIN login /\ \A u \in DOMAIN login' : login'[u] \in Env
    BY <2>1, <2>2
  <2> QED
    BY <1>1, <2>3 DEF Login, tmuxVars
<1>2. ASSUME NEW t \in Terminal, Logout(t) PROVE HostInv'
  BY <1>2 DEF Logout
<1>3. ASSUME NEW t \in Terminal, NewSession(t) PROVE HostInv'
  <2>1. login[t] \in Env
    BY <1>3 DEF NewSession
  <2>2. session' \in [EnvVar -> Addr \cup {"", "unset", "-"}]
    BY <1>3, <2>1 DEF NewSession, Updated, Env
  <2>3. PaneEnv(global', session') \in Env
    BY <1>3, <2>1, <2>2 DEF NewSession, PaneEnv, Env
  <2> QED
    BY <1>3, <2>1, <2>2, <2>3 DEF NewSession
<1>4. ASSUME NEW t \in Terminal, Attach(t) PROVE HostInv'
  <2>1. login[t] \in Env
    BY <1>4 DEF Attach
  <2>2. session' \in [EnvVar -> Addr \cup {"", "unset", "-"}]
    BY <1>4, <2>1 DEF Attach, Updated, Env
  <2> QED
    BY <1>4, <2>1, <2>2 DEF Attach
<1>5. ASSUME NEW t \in Terminal, Detach(t) PROVE HostInv'
  BY <1>5 DEF Detach
<1>6. ASSUME NEW t \in Terminal, NewPane(t) PROVE HostInv'
  <2>1. PaneEnv(global, session) \in Env
    BY DEF PaneEnv, Env
  <2> QED
    BY <1>6, <2>1 DEF NewPane
<1>7. CASE UNCHANGED hostVars
  BY <1>7 DEF hostVars, tmuxVars
<1>8. CASE UNCHANGED vars
  BY <1>7, <1>8 DEF vars
<1>9. ASSUME NEW t \in Terminal, NEW inTmux \in BOOLEAN, NEW env \in Env, NEW existing \in OwnAttributes,
             Start(t, inTmux, env, existing)
      PROVE  HostInv'
  BY <1>7, <1>9 DEF Start
<1>10. CASE Load \/ AskTmux \/ TmuxFails \/ ReadEnv \/ Forget
  BY <1>7, <1>10 DEF Load, AskTmux, TmuxFails, ReadEnv, Forget
<1>11. CASE ResolveLocal \/ ResolveDevice \/ WhoisFails
  BY <1>7, <1>11 DEF ResolveLocal, ResolveDevice, WhoisFails, Execute
<1> QED
  BY <1>1, <1>2, <1>3, <1>4, <1>5, <1>6, <1>8, <1>9, <1>10, <1>11 DEF Next

\* The configuration files stay as they are.
LEMMA FilesStay ==
  [Next]_vars => files' = files
BY DEF Next, vars, hostVars, tmuxVars, Login, Logout, NewSession, Attach, Detach, NewPane, Start, Load, AskTmux,
       TmuxFails, ReadEnv, ResolveLocal, ResolveDevice, WhoisFails, Execute, Forget

\* A start goes on from one stage to the next.
LEMMA GoesOn ==
  ASSUME NEW r, NEW fs, Going(r, fs), r.pc # "load",
         NEW l \in Stage \ {"load", "whois"}, NEW ip \in DOMAIN Whois \cup {""}
  PROVE  Going([r EXCEPT !.source = ip, !.pc = IF ip # "" THEN "whois" ELSE l], fs)
BY DEF Going, Starts, Stage

\* Each stage of a start leads to another one, or to its end.
LEMMA RunStep ==
  HostInv /\ RunInv /\ [Next]_vars => RunInv'
<1> SUFFICES ASSUME HostInv, RunInv, [Next]_vars PROVE RunInv'
  OBVIOUS
<1>1. files' = files
  BY FilesStay
<1>2. CASE UNCHANGED run
  BY <1>1, <1>2 DEF RunInv
<1>3. ASSUME NEW t \in Terminal, Attach(t), run.pc # "done" PROVE RunInv'
  <2>1. CASE run.pc = "idle"
    BY <1>2, <1>3, <2>1 DEF Attach
  <2>2. CASE run.pc # "idle"
    <3>1. Going(run, files)
      BY <1>3, <2>2 DEF RunInv, None, Over
    <3>2. run' = [run EXCEPT !.moved = TRUE]
      BY <1>3, <2>2 DEF Attach
    <3>3. Going(run', files)
      BY <3>1, <3>2 DEF Going, Starts
    <3> QED
      BY <1>1, <3>3 DEF RunInv
  <2> QED
    BY <2>1, <2>2
<1>4. ASSUME NEW t \in Terminal, NEW inTmux \in BOOLEAN, NEW env \in Env, NEW existing \in OwnAttributes,
             Start(t, inTmux, env, existing)
      PROVE  RunInv'
  <2>1. (IF inTmux THEN latest ELSE login[t]) \in Env
    BY <1>4 DEF Start, HostInv
  <2>2. run' \in Starts(files)
    BY <1>4, <2>1 DEF Start, Starts, Stage, Maps
  <2>3. run'.pc = "load" /\ run'.source = ""
    BY <1>4 DEF Start
  <2> QED
    BY <1>1, <2>2, <2>3 DEF RunInv, Going
<1>5. CASE Load
  <2>1. Going(run, files)
    <3>1. run.pc = "load"
      BY <1>5 DEF Load
    <3> QED
      BY <3>1 DEF RunInv, None, Over
  <2>2. CASE run' = None
    BY <2>2 DEF RunInv
  <2>3. CASE run' # None
    <3>1. PICK m \in LoadDevices(files.launcher.devices) :
            run' = [run EXCEPT !.devices = m, !.pc = IF run.inTmux THEN "SSH_CONNECTION" ELSE "env"]
      BY <1>5, <2>3 DEF Load
    <3>2. LoadLauncher(files.launcher) /\ m \in Maps(files.launcher)
      BY <1>5, <2>3 DEF Load, LoadLauncher, Maps
    <3>3. Going(run', files)
      BY <1>5, <2>1, <3>1, <3>2 DEF Load, Going, Starts, Stage
    <3> QED
      BY <1>1, <3>3 DEF RunInv
  <2> QED
    BY <2>2, <2>3
<1>6. CASE AskTmux
  <2>1. Going(run, files) /\ run.pc # "load" /\ After(run.pc) \in Stage \ {"load", "whois"}
    BY <1>6 DEF AskTmux, RunInv, None, Over, After, Stage
  <2>2. run' = [run EXCEPT !.source = sourceIPFromSSH(session[run.pc]),
                           !.pc = IF sourceIPFromSSH(session[run.pc]) # "" THEN "whois" ELSE After(run.pc)]
    BY <1>6 DEF AskTmux, Source
  <2>3. Going(run', files)
    BY <2>1, <2>2, GoesOn, Sources
  <2> QED
    BY <1>1, <2>3 DEF RunInv
<1>7. CASE TmuxFails
  <2>1. Going(run, files) /\ run.pc # "load" /\ After(run.pc) \in Stage \ {"load", "whois"} /\ run.pc # "whois"
    BY <1>7 DEF TmuxFails, RunInv, None, Over, After, Stage
  <2>2. Going(run', files)
    BY <1>7, <2>1 DEF TmuxFails, Going, Starts
  <2> QED
    BY <1>1, <2>2 DEF RunInv
<1>8. CASE ReadEnv
  <2>1. Going(run, files) /\ run.pc # "load" /\ "local" \in Stage \ {"load", "whois"}
    BY <1>8 DEF ReadEnv, RunInv, None, Over, Stage
  <2>2. run' = [run EXCEPT !.source = sourceIPFromVars(run.env),
                           !.pc = IF sourceIPFromVars(run.env) # "" THEN "whois" ELSE "local"]
    BY <1>8 DEF ReadEnv, Source
  <2>3. Going(run', files)
    BY <2>1, <2>2, GoesOn, FirstSource
  <2> QED
    BY <1>1, <2>3 DEF RunInv
<1>9. ASSUME NEW id, NEW asked \in BOOLEAN, Execute(id, asked), Going(run, files), Came(run, id, asked, files)
      PROVE  RunInv'
  <2>1. /\ run'.start = run /\ run'.id = id /\ run'.asked = asked /\ run'.pc = "done"
        /\ run'.sent = ResourceAttributes(id, run.existing)
    BY <1>9 DEF Execute
  <2>2. run'.accepted = Accepts(files)
    <3>1. ASSUME NEW r, NEW a, NEW b, NEW c, NEW d, NEW g, NEW h,
                 r = [start |-> a, sent |-> b, accepted |-> c, id |-> d, asked |-> g, pc |-> h]
          PROVE  r.accepted = c
      BY <3>1
    <3> QED
      BY ONLY <1>9, <3>1, Zenon DEF Execute, Accepts
  <2>3. Over(run', files)
    BY <1>9, <2>1, <2>2 DEF Over
  <2> QED
    BY <1>1, <2>3 DEF RunInv
<1>10. CASE ResolveLocal
  <2>1. Going(run, files) /\ Came(run, LocalIdentity(files.launcher), FALSE, files)
    BY <1>10 DEF ResolveLocal, RunInv, None, Over, Came
  <2> QED
    BY <1>9, <1>10, <2>1 DEF ResolveLocal
<1>11. CASE ResolveDevice
  <2>1. Going(run, files) /\ Came(run, DeviceIdentity(run.devices, run.source), TRUE, files)
    BY <1>11 DEF ResolveDevice, RunInv, None, Over, Came
  <2> QED
    BY <1>9, <1>11, <2>1 DEF ResolveDevice
<1>12. CASE WhoisFails
  <2>1. Going(run, files) /\ Came(run, Fallback(run.source), FALSE, files)
    BY <1>12 DEF WhoisFails, RunInv, None, Over, Came
  <2> QED
    BY <1>9, <1>12, <2>1 DEF WhoisFails
<1>13. CASE Forget
  BY <1>13 DEF Forget, RunInv
<1>14. ASSUME NEW t \in Terminal, (\E env \in Origin : Login(t, env)) \/ Logout(t) \/ NewSession(t) \/ Detach(t) \/ NewPane(t)
       PROVE  RunInv'
  BY <1>2, <1>14 DEF Login, Logout, NewSession, Detach, NewPane
<1>15. CASE UNCHANGED vars
  BY <1>2, <1>15 DEF vars
<1> QED
  BY <1>3, <1>4, <1>5, <1>6, <1>7, <1>8, <1>10, <1>11, <1>12, <1>13, <1>14, <1>15 DEF Next

\* No one has logged in.
LEMMA HostInit ==
  Init => HostInv /\ RunInv
<1> SUFFICES ASSUME Init PROVE HostInv /\ RunInv
  OBVIOUS
<1>1. NoEnv \in Env
  BY DEF NoEnv, Env
<1>2. NoEnv \in [EnvVar -> Addr \cup {"", "unset", "-"}]
  BY DEF NoEnv
<1>3. DOMAIN login = {}
  BY DEF Init
<1> QED
  BY <1>1, <1>2, <1>3 DEF Init, HostInv, RunInv

\* The types hold in each state.
LEMMA Typed ==
  HostInv /\ RunInv => ATypeOK
<1> SUFFICES ASSUME HostInv, RunInv PROVE ATypeOK
  OBVIOUS
<1>1. /\ run.pc \in {"idle", "load", "env", "local", "whois", "done"} \cup EnvVar
      /\ run.pc = "whois" => run.source \in DOMAIN Whois
  <2>1. CASE run = None
    BY <2>1 DEF None
  <2>2. CASE Going(run, files)
    <3>1. run.pc \in Stage /\ run.source \in DOMAIN Whois \cup {""}
      BY <2>2 DEF Going, Starts
    <3> QED
      BY <2>2, <3>1 DEF Going, Stage, EnvVar
  <2>3. CASE Over(run, files)
    BY <2>3 DEF Over
  <2> QED
    BY <2>1, <2>2, <2>3 DEF RunInv
<1> QED
  BY <1>1 DEF HostInv, ATypeOK

\* Every variable has its type: no source is taken for an address that is
\* none, and each variable of the session is set, removed or never heard of
\* (Resolve, sourceIPFromSSH, update-environment).
THEOREM AttributionTypes ==
  Spec => []ATypeOK
<1>1. Init => HostInv /\ RunInv
  BY HostInit
<1>2. HostInv /\ RunInv /\ [Next]_vars => (HostInv /\ RunInv)'
  BY HostStep, RunStep
<1>3. HostInv /\ RunInv => ATypeOK
  BY Typed
<1> QED
  BY <1>1, <1>2, <1>3, PTL DEF Spec

-----------------------------------------------------------------------------
(***************************************************************************)
(* The tokens.                                                             *)
(***************************************************************************)
\* u is s with a and b in front of it.
Headed(X, a, b, s, u) ==
  /\ u \in Seq(X) /\ u[1] = a /\ (s # <<>> => u[Len(u)] = s[Len(s)])
  /\ IsPrefix(<<a, b>>, u) /\ SubSeq(u, 3, Len(u)) = s

\* Two elements in front of a sequence can be told from it, and cut off again.
LEMMA CutOff ==
  ASSUME NEW X, NEW a \in X, NEW b \in X, NEW token \in Seq(X)
  PROVE  Headed(X, a, b, token, <<a, b>> \o token)
<1> DEFINE n == Len(token)
           h == <<a, b>> \o token
<1>1. n \in Nat /\ DOMAIN token = 1..n
  OBVIOUS
<1>2. h \in Seq(X) /\ Len(h) = n + 2 /\ h[1] = a /\ h[2] = b /\ \A i \in 1..n : h[i + 2] = token[i]
  <2>1. <<a, b>> \in Seq(X) /\ Len(<<a, b>>) = 2 /\ <<a, b>>[1] = a /\ <<a, b>>[2] = b
    OBVIOUS
  <2>2. /\ h \in Seq(X) /\ Len(h) = 2 + n
        /\ \A i \in 1..2 + n : h[i] = IF i <= 2 THEN <<a, b>>[i] ELSE token[i - 2]
    BY <2>1, ConcatProperties
  <2> HIDE DEF n
  <2>3. ASSUME NEW i \in 1..n PROVE h[i + 2] = token[i]
    <3>1. i + 2 \in 1..2 + n /\ ~(i + 2 <= 2) /\ i + 2 - 2 = i
      BY <1>1
    <3> QED
      BY ONLY <2>2, <3>1
  <2>4. 1 \in 1..2 + n /\ 2 \in 1..2 + n
    BY <1>1
  <2> QED
    BY <1>1, <2>1, <2>2, <2>3, <2>4
<1> HIDE DEF n, h
<1>3. \A i \in 1..n + 2 : h[i] \in X
  BY ONLY <1>2, ElementOfSeq
<1>4. IsPrefix(<<a, b>>, h)
  <2>1. \A i \in 1..2 : h[i] \in X
    BY <1>1, <1>3
  <2>2. /\ SubSeq(h, 1, 2) \in Seq(X) /\ Len(SubSeq(h, 1, 2)) = 2
        /\ \A i \in 1..2 : SubSeq(h, 1, 2)[i] = h[1 + i - 1]
    BY ONLY <2>1, SubSeqProperties
  <2>3. <<a, b>> \in Seq(X) /\ Len(<<a, b>>) = 2 /\ <<a, b>>[1] = a /\ <<a, b>>[2] = b
    OBVIOUS
  <2>4. \A i \in 1..2 : SubSeq(h, 1, 2)[i] = <<a, b>>[i]
    <3>1. \A i \in 1..2 : 1 + i - 1 = i /\ (i = 1 \/ i = 2)
      OBVIOUS
    <3> QED
      BY ONLY <1>2, <2>2, <2>3, <3>1
  <2>5. SubSeq(h, 1, 2) = <<a, b>>
    BY ONLY <2>2, <2>3, <2>4, SeqEqual
  <2>6. SubSeq(<<a, b>>, 1, 2) = <<a, b>>
    BY <2>3, SubSeqFull
  <2>7. 2 <= Len(h)
    BY <1>1, <1>2
  <2> QED
    BY ONLY <2>3, <2>5, <2>6, <2>7 DEF IsPrefix
<1>5. SubSeq(h, 3, Len(h)) = token
  <2> DEFINE e == Len(h)
  <2>1. 3 \in Int /\ e \in Int /\ \A i \in 3..e : h[i] \in X
    BY <1>1, <1>2, <1>3
  <2>2. e - 3 + 1 = n /\ (IF 3 <= e THEN e - 3 + 1 ELSE 0) = n /\ \A i \in 1..n : 3 + i - 1 = i + 2
    BY <1>1, <1>2
  <2> HIDE DEF e
  <2>3. /\ SubSeq(h, 3, e) \in Seq(X) /\ Len(SubSeq(h, 3, e)) = IF 3 <= e THEN e - 3 + 1 ELSE 0
        /\ \A i \in 1..e - 3 + 1 : SubSeq(h, 3, e)[i] = h[3 + i - 1]
    BY ONLY <2>1, SubSeqProperties
  <2>5. Len(SubSeq(h, 3, e)) = n /\ \A i \in 1..n : SubSeq(h, 3, e)[i] = token[i]
    BY ONLY <1>2, <2>2, <2>3
  <2>6. n = Len(token)
    BY DEF n
  <2>7. SubSeq(h, 3, e) = token
    BY ONLY <2>3, <2>5, <2>6, token \in Seq(X), SeqEqual
  <2> QED
    BY <2>7 DEF e
<1>6. token # <<>> => h[Len(h)] = token[n]
  <2>1. token # <<>> => n \in 1..n
    BY <1>1, EmptySeq DEF n
  <2> QED
    BY <1>1, <1>2, <2>1
<1>7. Headed(X, a, b, token, h)
  BY <1>2, <1>4, <1>5, <1>6 DEF n, Headed
<1> QED
  BY <1>7 DEF h

\* A character without a code is read as itself.
LEMMA PlainIsPlain ==
  ASSUME NEW c, c \notin Codes
  PROVE  Plain(c) = c
<1>1. ~\E h \in DOMAIN HexOf : HexOf[h] = c
  BY DEF Codes
<1> QED
  BY ONLY <1>1, Zenon DEF Plain

\* A text without a comma is its own first part.
LEMMA OnePart ==
  ASSUME NEW v \in Text, NoComma(v)
  PROVE  Split(v)[1] = v
<1>1. <<>> \in Text /\ Split(<<>>) = Append(<<>>, <<>>)
  BY Texts, SplitLaws
<1>2. <<>> \o v = v
  <2>1. ASSUME NEW X, NEW s \in Seq(X) PROVE <<>> \o s = s
    OBVIOUS
  <2> QED
    BY ONLY <2>1, TextFacts, v \in Text, Zenon
<1>3. Split(v) = Longer(Split(<<>>), v)
  BY ONLY <1>1, <1>2, SplitLast, v \in Text, NoComma(v), Zenon
<1>4. Append(<<>>, <<>>) = <<<<>>>> /\ Len(<<<<>>>>) = 1 /\ <<<<>>>>[1] = <<>>
  OBVIOUS
<1>5. Longer(<<<<>>>>, v)[1] = <<>> \o v
  BY <1>4 DEF Longer
<1> QED
  BY ONLY <1>1, <1>2, <1>3, <1>4, <1>5, Zenon

\* A token without commas, codes and blanks around it is what the collector
\* finds in the header.
LEMMA TokenArrives ==
  ASSUME NEW token \in Text, token # <<>>, TrimSpace(token) = token, NoComma(token), NoCode(token), NEW other
  PROVE  authorized(Header(token), other) <=> token = other
<1> DEFINE h == <<"Bearer", " ">> \o token
           line == <<"Authorization", "=">> \o h
           n == Len(h)
<1>1. token \in Seq(STRING) /\ token[Len(token)] # " "
  BY TextFacts, Trimmed
<1>2. /\ "Bearer" \in STRING /\ " " \in STRING /\ "Authorization" \in STRING /\ "Authorization" # "="
      /\ "Bearer" # " " /\ "Bearer" # "," /\ "Authorization" # " " /\ "Authorization" # ","
  BY TextAssumption
<1>3. /\ h \in Seq(STRING) /\ h[1] = "Bearer" /\ (token # <<>> => h[Len(h)] = token[Len(token)])
      /\ IsPrefix(<<"Bearer", " ">>, h) /\ SubSeq(h, 3, Len(h)) = token
  <2>1. Headed(STRING, "Bearer", " ", token, h)
    BY ONLY <1>1, <1>2, CutOff, Zenon
  <2> QED
    BY ONLY <2>1, Zenon DEF Headed
<1>4. h \in Text
  BY <1>3, Zenon DEF Text
<1>5. ToSet(h) = {"Bearer", " "} \cup ToSet(token)
  <2>1. ASSUME NEW X, NEW a \in X, NEW b \in X PROVE <<a, b>> \in Seq(X) /\ ToSet(<<a, b>>) = {a, b}
    BY DEF ToSet
  <2>2. <<"Bearer", " ">> \in Text /\ ToSet(<<"Bearer", " ">>) = {"Bearer", " "}
    BY ONLY <1>2, <2>1, Zenon DEF Text
  <2> QED
    BY ONLY <2>2, Words, token \in Text, Zenon
<1>6. \A i \in 1..n : Plain(h[i]) = h[i]
  <2>1. ToSet(h) \cap Codes = {}
    <3>1. " " \notin Codes /\ "Bearer" \notin Codes
      BY EscapeAssumption DEF Codes
    <3>2. ToSet(token) \cap Codes = {}
      BY DEF NoCode, Codes
    <3> QED
      BY ONLY <1>5, <3>1, <3>2
  <2>2. \A i \in 1..n : h[i] \in ToSet(h)
    <3>1. DOMAIN h = 1..n
      BY <1>4, TextFacts
    <3> QED
      BY ONLY <3>1 DEF ToSet
  <2> QED
    BY ONLY <2>1, <2>2, PlainIsPlain
<1>7. n \in Nat /\ n # 0 /\ h = [i \in 1..n |-> h[i]]
  <2>1. ASSUME NEW X, NEW s \in Seq(X) PROVE Len(s) \in Nat /\ s = [i \in 1..Len(s) |-> s[i]]
    OBVIOUS
  <2>2. n \in Nat /\ h = [i \in 1..n |-> h[i]]
    BY ONLY <1>3, <2>1, Zenon
  <2>3. ASSUME NEW X, NEW a, NEW b, NEW s \in Seq(X) PROVE Len(<<a, b>> \o s) # 0
    OBVIOUS
  <2> QED
    BY ONLY <1>1, <2>2, <2>3, Zenon
<1> HIDE DEF h
<1>8. /\ line \in Text /\ Len(line) = n + 2 /\ line[1] = "Authorization"
      /\ (\A i \in 1..n : line[i + 2] = h[i])
      /\ Pair(line) = <<<<"Authorization">>, Read(h)>>
  <2>1. line = <<"Authorization", "=">> \o h
    OBVIOUS
  <2> HIDE DEF line
  <2>2. Reads(line, "Authorization", h)
    BY ONLY <1>2, <1>4, <2>1, PairOf, Zenon
  <2> QED
    BY ONLY <2>2, Zenon DEF Reads, n
<1>9. ToSet(line) = {"Authorization", "="} \cup ToSet(h)
  <2>1. ASSUME NEW X, NEW a \in X, NEW b \in X PROVE <<a, b>> \in Seq(X) /\ ToSet(<<a, b>>) = {a, b}
    BY DEF ToSet
  <2>2. "=" \in STRING
    BY TextAssumption
  <2>3. <<"Authorization", "=">> \in Text /\ ToSet(<<"Authorization", "=">>) = {"Authorization", "="}
    BY ONLY <1>2, <2>1, <2>2, Zenon DEF Text
  <2> QED
    BY ONLY <1>4, <2>3, Words, Zenon
<1> HIDE DEF line
<1>10. NoComma(line)
  BY <1>2, <1>5, <1>9 DEF NoComma
<1>11. TrimSpace(line) = line
  <2>1. line[Len(line)] # " "
    <3>1. n \in 1..n
      BY <1>7
    <3> QED
      BY <1>1, <1>3, <1>8, <3>1 DEF n
  <2> QED
    BY ONLY <1>2, <1>8, <2>1, TrimsNothing, Zenon
<1>12. Read(h) = h
  BY ONLY <1>6, <1>7 DEF Read, n
<1>13. TrimSpace(h) = h
  BY ONLY <1>1, <1>2, <1>3, <1>4, token # <<>>, TrimsNothing, Zenon
<1>14. Header(token) = h
  <2>1. Split(line)[1] = line
    BY <1>8, <1>10, OnePart
  <2>2. Pair(line)[2] = h
    BY <1>8, <1>12
  <2>3. Header(token) = TrimSpace(Pair(TrimSpace(Split(line)[1]))[2])
    BY DEF Header, line, h
  <2> QED
    BY ONLY <1>11, <1>13, <2>1, <2>2, <2>3, Zenon
<1> QED
  BY ONLY <1>3, <1>14, TrimSpace(token) = token, Zenon DEF authorized

\* A start that has ended has been one.
LEMMA Ended ==
  RunInv /\ run.pc = "done" => Over(run, files)
<1>1. run.pc = "done" => run # None
  BY DEF None
<1>2. Going(run, files) => run.pc \in Stage
  BY DEF Going, Starts
<1> QED
  BY <1>1, <1>2 DEF RunInv, Stage

\* Whoever has got to the end had a good configuration.
LEMMA Configured ==
  ASSUME NEW r, NEW fs, Over(r, fs)
  PROVE  LoadLauncher(fs.launcher) /\ r.start.devices \in LoadDevices(fs.launcher.devices)
BY DEF Over, Came, Going

\* Where the launchers are pointed at the collector, it accepts those that
\* have its token and no other, as long as their token has no comma, no code
\* and no blanks around it (main.go:109, LoadLauncher, LoadServer, authorized).
THEOREM SameTokenMatches ==
  ASSUME Pointed
  PROVE  Spec => []TokensMatch
<1> DEFINE token == files.launcher.token
           same == run.accepted <=> LoadServer(files.server) /\ files.server.token = token
<1>1. ASSUME HostInv, RunInv, run.pc = "done", "," \notin ToSet(token) /\ NoCode(token) /\ token = TrimSpace(token)
      PROVE  same
  <2>1. Over(run, files)
    BY <1>1, Ended
  <2>2. files.launcher # NoFile /\ token # <<>>
    BY <2>1, Configured DEF LoadLauncher
  <2>3. files \in Setup /\ token \in Text
    BY <1>1, <2>2, TextAssumption DEF HostInv
  <2>4. authorized(Header(token), files.server.token) <=> token = files.server.token
    <3> HIDE DEF token
    <3> QED
      BY <1>1, <2>2, <2>3, TokenArrives DEF NoComma
  <2>5. TrimRight(files.launcher.endpoint, "/") = CollectorURL
    BY <2>2, <2>3 DEF Pointed
  <2>6. run.accepted = Accepts(files)
    BY <2>1 DEF Over
  <2> QED
    BY ONLY <2>4, <2>5, <2>6, Zenon DEF Accepts
<1>2. HostInv /\ RunInv => TokensMatch
  BY ONLY <1>1, Zenon DEF TokensMatch
<1>3. Init => HostInv /\ RunInv
  BY HostInit
<1>4. HostInv /\ RunInv /\ [Next]_vars => (HostInv /\ RunInv)'
  BY HostStep, RunStep
<1> QED
  BY <1>2, <1>3, <1>4, PTL DEF Spec

-----------------------------------------------------------------------------
(***************************************************************************)
(* The attributes.                                                         *)
(***************************************************************************)
\* Texts without their ends.
LEMMA PartOf ==
  ASSUME NEW v \in Text, NEW m \in Int, NEW n \in Int, m >= 1, n <= Len(v)
  PROVE  SubSeq(v, m, n) \in Text
<1>1. \A i \in m..n : v[i] \in STRING
  BY TextFacts
<1>2. SubSeq(v, m, n) \in Seq(STRING)
  BY ONLY <1>1, m \in Int, n \in Int, SubSeqProperties
<1> QED
  BY <1>2, Zenon DEF Text

\* A device has a name that is a text, in small letters, too.
LEMMA Normalized ==
  ASSUME NEW s \in Text
  PROVE  normalizeDevice(s) \in Text
<1> DEFINE r == IF s # <<>> /\ Last(s) = "." THEN Front(s) ELSE s
           t == TrimSpace(r)
           low == [i \in DOMAIN t |-> Lower(t[i])]
           dots == {i \in DOMAIN low : low[i] = "."}
<1>1. r \in Text
  <2>1. Front(s) \in Text
    BY TextFacts, PartOf DEF Front
  <2> QED
    BY <2>1
<1>2. t \in Text
  BY <1>1, Trimmed
<1>3. Len(t) \in Nat /\ DOMAIN t = 1..Len(t) /\ \A i \in 1..Len(t) : t[i] \in STRING
  BY <1>2, TextFacts
<1> HIDE DEF t, r
<1>4. \A i \in DOMAIN t : Lower(t[i]) \in STRING
  BY <1>3, TextAssumption DEF Lower
<1>5. low \in Text /\ Len(low) = Len(t)
  <2>1. ASSUME NEW X, NEW f, NEW n \in Nat, f = [i \in 1..n |-> f[i]], \A i \in 1..n : f[i] \in X
        PROVE  f \in Seq(X) /\ Len(f) = n
    BY <2>1
  <2>2. low = [i \in 1..Len(t) |-> low[i]] /\ \A i \in 1..Len(t) : low[i] \in STRING
    BY <1>3, <1>4
  <2> HIDE DEF low
  <2> QED
    BY ONLY <1>3, <2>1, <2>2, Zenon DEF Text
<1>6. DOMAIN low = 1..Len(t)
  BY <1>3
<1> HIDE DEF low
<1>7. dots # {} => Min(dots) \in 1..Len(t)
  <2>1. dots \subseteq 1..Len(t) /\ 1..Len(t) \subseteq Nat
    BY <1>6
  <2> HIDE DEF dots
  <2> QED
    BY <2>1, FirstPlace
<1>8. dots # {} => SubSeq(low, 1, Min(dots) - 1) \in Text
  <2> SUFFICES ASSUME dots # {} PROVE SubSeq(low, 1, Min(dots) - 1) \in Text
    OBVIOUS
  <2> DEFINE k == Min(dots) - 1
  <2>1. k \in Int /\ k <= Len(low)
    BY <1>3, <1>5, <1>7
  <2> HIDE DEF k
  <2>2. SubSeq(low, 1, k) \in Text
    BY <1>5, <2>1, PartOf
  <2> QED
    BY <2>2 DEF k
<1>9. normalizeDevice(s) = IF dots # {} /\ Min(dots) > 1 THEN SubSeq(low, 1, Min(dots) - 1) ELSE low
  BY DEF normalizeDevice, low, t, r
<1> HIDE DEF dots
<1> QED
  BY <1>5, <1>8, <1>9

\* The names that tailscale knows are texts.
LEMMA FirstNames ==
  ASSUME NEW ip \in DOMAIN Whois
  PROVE  firstName(Whois[ip]) \in Text
<1> DEFINE node == Whois[ip]
           order == <<"ComputedName", "Name", "HostName", "Hostname", "DNSName", "Hostinfo">>
           I == {i \in 1..Len(order) : order[i] \in DOMAIN node /\ TrimSpace(node[order[i]]) # <<>>}
           n == SelectInSeq(order, LAMBDA f : f \in DOMAIN node /\ TrimSpace(node[f]) # <<>>)
<1>1. n = IF I # {} THEN Min(I) ELSE 0
  BY DEF SelectInSeq
<1>2. I \in SUBSET Nat /\ 0 \notin I
  <2>1. I \subseteq 1..Len(order) /\ Len(order) = 6
    OBVIOUS
  <2> HIDE DEF I, n, order
  <2> QED
    BY <2>1
<1>3. I # {} => Min(I) \in I
  <2> HIDE DEF I, n
  <2> QED
    BY <1>2, FirstPlace
<1>4. firstName(node) = IF n = 0 THEN <<>> ELSE node[order[n]]
  BY DEF firstName
<1>5. node \in [DOMAIN node -> Text] /\ <<>> \in Text
  BY TextAssumption, Texts
<1>6. CASE I = {}
  <2>1. n = 0
    BY <1>1, <1>6, Zenon
  <2> HIDE DEF I, n, order
  <2> QED
    BY <1>4, <1>5, <2>1
<1>7. CASE I # {}
  <2> HIDE DEF n
  <2>1. n \in I /\ n # 0
    <3> HIDE DEF I, order, node
    <3> QED
      BY <1>1, <1>2, <1>3, <1>7
  <2>2. order[n] \in DOMAIN node
    <3> HIDE DEF order, node
    <3> QED
      BY <2>1
  <2> HIDE DEF I, order
  <2>3. firstName(node) = node[order[n]]
    BY <1>4, <2>1
  <2> QED
    BY <1>5, <2>2, <2>3
<1> QED
  BY <1>6, <1>7

\* Taking blanks off makes no codes, and the program's own words are none.
LEMMA PlainNames ==
  /\ \A v \in Text : NoCode(v) => TrimSpace(v) \in Text /\ NoCode(TrimSpace(v))
  /\ \A v \in {Unknown, Local, Unresolved} : v \in Text /\ NoCode(v)
<1>1. ASSUME NEW v \in Text, NoCode(v) PROVE TrimSpace(v) \in Text /\ NoCode(TrimSpace(v))
  BY <1>1, Trimmed DEF NoCode
<1>2. \A w \in {"unknown", "local", "unresolved"} : ToSet(<<w>>) = {w} /\ w \notin Codes
  <2>1. Codes \cap {"unknown", "local", "unresolved", "Bearer"} = {}
    BY EscapeAssumption, Zenon DEF Codes
  <2> QED
    BY ONLY <2>1, Tuples
<1>3. NoCode(Unknown) /\ NoCode(Local) /\ NoCode(Unresolved)
  BY <1>2 DEF NoCode, Codes, Unknown, Local, Unresolved
<1> QED
  BY <1>1, <1>3, TextAssumption

\* The identity of a start can be written as attributes.
LEMMA WritesIdentity ==
  ASSUME NamesArePlain, NEW r, NEW fs \in Setup, Over(r, fs)
  PROVE  Writable(r.id)
<1>1. /\ LoadLauncher(fs.launcher) /\ fs.launcher # NoFile
      /\ r.start.devices \in LoadDevices(fs.launcher.devices)
      /\ r.start.source \in DOMAIN Whois \cup {""} /\ (r.start.pc = "whois" => r.start.source \in DOMAIN Whois)
  BY Configured DEF Over, Going, Starts, LoadLauncher
<1>2. fs.launcher.local \in Text /\ NoCode(fs.launcher.local) /\ \A d \in fs.launcher.devices : d[2] \in Text /\ NoCode(d[2])
  BY <1>1, TextAssumption DEF NamesArePlain
<1>3. \A v \in {Unknown, Local, Unresolved} : v \in Text /\ NoCode(v)
  BY PlainNames
<1>4. CASE r.id = LocalIdentity(fs.launcher)
  <2>1. TrimSpace(fs.launcher.local) \in Text /\ NoCode(TrimSpace(fs.launcher.local))
    BY <1>2, PlainNames
  <2>2. r.id.person \in {TrimSpace(fs.launcher.local), Unknown} /\ r.id.device = Local /\ r.id.source = ""
    <3>1. /\ LocalIdentity(fs.launcher).person \in {TrimSpace(fs.launcher.local), Unknown}
          /\ LocalIdentity(fs.launcher).device = Local /\ LocalIdentity(fs.launcher).source = ""
      BY DEF LocalIdentity
    <3> QED
      BY ONLY <1>4, <3>1, Zenon
  <2> QED
    BY <1>3, <2>1, <2>2 DEF Writable
<1>5. ASSUME r.start.pc = "whois", r.id = Fallback(r.start.source) PROVE Writable(r.id)
  <2>1. /\ Fallback(r.start.source).person = Unknown /\ Fallback(r.start.source).device = Unresolved
        /\ Fallback(r.start.source).source = r.start.source
    BY DEF Fallback
  <2>2. r.id.person = Unknown /\ r.id.device = Unresolved /\ r.id.source = r.start.source
    BY ONLY <1>5, <2>1, Zenon
  <2> QED
    BY <1>1, <1>3, <2>2 DEF Writable
<1>6. CASE r.start.pc = "whois" /\ r.id = DeviceIdentity(r.start.devices, r.start.source)
  <2> DEFINE ip == r.start.source
             name == normalizeDevice(firstName(Whois[ip]))
             devices == r.start.devices
  <2>1. ip \in DOMAIN Whois
    BY <1>1, <1>6
  <2>2. name \in Text /\ NoCode(name)
    BY <2>1, FirstNames, Normalized DEF NamesArePlain
  <2>3. ASSUME name \in DOMAIN devices PROVE devices[name] \in Text /\ NoCode(devices[name])
    <3>1. PICK d \in fs.launcher.devices : devices[name] = TrimSpace(d[2])
      BY <1>1, <2>3 DEF LoadDevices
    <3> QED
      BY <1>2, <3>1, PlainNames
  <2>4. CASE name = <<>>
    BY <1>5, <1>6, <2>4 DEF DeviceIdentity
  <2>5. CASE name # <<>>
    <3>1. /\ r.id.person = IF name \in DOMAIN devices THEN devices[name] ELSE Unknown
          /\ r.id.device = name /\ r.id.source = ip
      BY <1>6, <2>5 DEF DeviceIdentity
    <3> HIDE DEF name, devices
    <3> QED
      BY <1>3, <2>1, <2>2, <2>3, <3>1 DEF Writable
  <2> QED
    BY <2>4, <2>5
<1> QED
  BY <1>4, <1>5, <1>6 DEF Over, Came

\* What the events carry, in any state.
LEMMA Survives ==
  ASSUME NamesArePlain
  PROVE  HostInv /\ RunInv => AttributesSurvive
<1> SUFFICES ASSUME HostInv, RunInv, run.pc = "done"
             PROVE  Attributes(run.sent) =
                      {a \in Attributes(run.start.existing) : a[1] = <<>> \/ a[1][1] \notin MeterKey} \cup OwnPairs(run.id)
  BY Zenon DEF AttributesSurvive, OwnPairs
<1>1. Over(run, files)
  BY Ended
<1>2. Writable(run.id)
  BY <1>1, WritesIdentity DEF HostInv
<1>3. run.start.existing \in Text
  BY <1>1, TextAssumption DEF Over, Going, Starts
<1>4. run.sent = ResourceAttributes(run.id, run.start.existing)
  BY <1>1 DEF Over
<1> QED
  BY <1>2, <1>3, <1>4, RoundTrip

\* However attributes are nested and written, the events carry the identity
\* that was resolved and each attribute of the user's own whose name does not
\* begin with "meter.", no more and no less, if no name of a person or a device
\* has the code of an escaped character in it (ResourceAttributes, otelEscape).
THEOREM IdentityArrives ==
  ASSUME NamesArePlain
  PROVE  Spec => []AttributesSurvive
<1>1. Init => HostInv /\ RunInv
  BY HostInit
<1>2. HostInv /\ RunInv /\ [Next]_vars => (HostInv /\ RunInv)'
  BY HostStep, RunStep
<1>3. HostInv /\ RunInv => AttributesSurvive
  BY Survives
<1> QED
  BY <1>1, <1>2, <1>3, PTL DEF Spec

-----------------------------------------------------------------------------
(***************************************************************************)
(* Whose start it is.                                                      *)
(***************************************************************************)
\* The IP of the login that a start should be charged to.
Due(r) == sourceIPFromSSH(r.from["SSH_CONNECTION"])

\* A start over SSH that nobody has disturbed finds that IP, on its way
\* through the session or its environment.
OnPath(r) ==
  Due(r) # "" /\ ~r.moved /\ ~r.silent =>
    \/ r.pc = "load"
    \/ r.pc = "SSH_CONNECTION" /\ r.inTmux
    \/ r.pc = "env" /\ ~r.inTmux
    \/ r.pc = "whois" /\ r.source = Due(r)

\* A start in the session belongs to the client that attached last, as long as
\* no other has; a start elsewhere to its own login.
Bound(r) ==
  /\ r.inTmux /\ ~r.moved => alive /\ r.from = latest
  /\ ~r.inTmux => r.env = r.from
  /\ OnPath(r)

\* The session knows the connection of the client that attached last.
Charged ==
  /\ alive => session["SSH_CONNECTION"] = IF latest["SSH_CONNECTION"] = "" THEN "-" ELSE latest["SSH_CONNECTION"]
  /\ attached # {} => alive
  /\ Going(run, files) => Bound(run)
  /\ run.pc = "done" => OnPath(run.start)

\* The connection of the session stays that of the client that attached last,
\* and a start that nobody disturbs stays on its path.
LEMMA ChargedStep ==
  ASSUME ConnectionIsUpdated
  PROVE  HostInv /\ RunInv /\ Charged /\ [Next]_vars => Charged'
<1> SUFFICES ASSUME HostInv, RunInv, Charged, [Next]_vars PROVE Charged'
  OBVIOUS
<1> DEFINE key == "SSH_CONNECTION"
           known == /\ alive => session[key] = IF latest[key] = "" THEN "-" ELSE latest[key]
                    /\ attached # {} => alive
           going == /\ Going(run, files) => Bound(run)
                    /\ run.pc = "done" => OnPath(run.start)
<1>1. files' = files /\ known /\ going
  BY FilesStay DEF Charged
<1>2. known' /\ going' => Charged'
  BY DEF Charged
<1>3. ASSUME NEW old, NEW env PROVE Updated(old, env)[key] = IF env[key] = "" THEN "-" ELSE env[key]
  BY DEF ConnectionIsUpdated, Updated, EnvVar
<1> HIDE DEF known, going
<1>4. ASSUME UNCHANGED <<alive, latest, run>> PROVE going'
  BY <1>1, <1>4 DEF going, Bound, OnPath, Due
<1>5. ASSUME UNCHANGED <<alive, session, latest>>, attached' \subseteq attached PROVE known'
  BY <1>1, <1>5 DEF known
<1>6. ASSUME NEW t \in Terminal, NEW env \in Origin, Login(t, env) PROVE Charged'
  BY <1>2, <1>4, <1>5, <1>6 DEF Login, tmuxVars
<1>7. ASSUME NEW t \in Terminal, Logout(t) PROVE Charged'
  BY <1>2, <1>4, <1>5, <1>7 DEF Logout
<1>8. ASSUME NEW t \in Terminal, Detach(t) PROVE Charged'
  BY <1>2, <1>4, <1>5, <1>8 DEF Detach
<1>9. ASSUME NEW t \in Terminal, NewPane(t) PROVE Charged'
  BY <1>2, <1>4, <1>5, <1>9 DEF NewPane
<1>10. ASSUME NEW t \in Terminal, NewSession(t) PROVE Charged'
  <2>1. known'
    BY <1>3, <1>10 DEF NewSession, known
  <2>2. run' = run /\ ~alive
    BY <1>10 DEF NewSession
  <2>3. going'
    BY <1>1, <2>2 DEF going, Bound, OnPath, Due
  <2> QED
    BY <1>2, <2>1, <2>3
<1>11. ASSUME NEW t \in Terminal, Attach(t), run.pc # "done" PROVE Charged'
  <2>1. known'
    BY <1>3, <1>11 DEF Attach, known
  <2>2. CASE run.pc = "idle"
    <3>1. run' = run
      BY <1>11, <2>2 DEF Attach
    <3>2. ~Going(run, files)
      BY <2>2 DEF Going, Starts, Stage
    <3>3. going'
      BY <1>1, <2>2, <3>1, <3>2 DEF going
    <3> QED
      BY <1>2, <2>1, <3>3
  <2>3. CASE run.pc # "idle"
    <3>1. Going(run, files)
      BY <1>11, <2>3 DEF RunInv, None, Over
    <3>2. run' = [run EXCEPT !.moved = TRUE]
      BY <1>11, <2>3 DEF Attach
    <3>3. run'.moved = TRUE /\ run'.inTmux = run.inTmux /\ run'.env = run.env /\ run'.from = run.from /\ run'.pc = run.pc
      BY <3>1, <3>2 DEF Going, Starts
    <3>4. ~run.inTmux => run.env = run.from
      BY <1>1, <3>1 DEF going, Bound
    <3>5. Bound(run)'
      BY <3>3, <3>4 DEF Bound, OnPath
    <3>6. going'
      BY <1>11, <3>3, <3>5 DEF going
    <3> QED
      BY <1>2, <2>1, <3>6
  <2> QED
    BY <2>2, <2>3
<1>12. ASSUME UNCHANGED hostVars, going' PROVE Charged'
  BY <1>2, <1>5, <1>12 DEF hostVars, tmuxVars
<1>13. ASSUME NEW t \in Terminal, NEW inTmux \in BOOLEAN, NEW env \in Env, NEW existing \in OwnAttributes,
              Start(t, inTmux, env, existing)
       PROVE  Charged'
  <2>1. /\ run'.pc = "load" /\ run'.inTmux = inTmux /\ run'.env = env
        /\ run'.from = (IF inTmux THEN latest ELSE login[t])
        /\ IF inTmux THEN t \in attached ELSE env = login[t]
    BY <1>13 DEF Start
  <2>2. UNCHANGED hostVars
    BY <1>13 DEF Start
  <2>3. inTmux => alive
    BY <1>1, <2>1 DEF known
  <2>4. Bound(run)'
    BY <2>1, <2>2, <2>3 DEF Bound, OnPath, hostVars, tmuxVars
  <2>5. going'
    BY <2>1, <2>4 DEF going
  <2> QED
    BY <1>12, <2>2, <2>5
<1>14. ASSUME Going(run, files), UNCHANGED hostVars, run'.pc # "done",
              run'.inTmux = run.inTmux, run'.from = run.from, run'.env = run.env, run'.moved = run.moved, OnPath(run')
       PROVE  Charged'
  <2>1. Bound(run)
    BY <1>1, <1>14 DEF going
  <2>2. alive' = alive /\ latest' = latest
    BY <1>14 DEF hostVars, tmuxVars
  <2>3. Bound(run)'
    BY <1>14, <2>1, <2>2 DEF Bound, OnPath, Due
  <2>4. going'
    BY <1>14, <2>3 DEF going
  <2> QED
    BY <1>12, <1>14, <2>4
<1>15. ASSUME Going(run, files), UNCHANGED hostVars, NEW l \in Stage, NEW ip,
              run' = [run EXCEPT !.source = ip, !.pc = l]
       PROVE  /\ run'.pc = l /\ run'.source = ip /\ run'.inTmux = run.inTmux /\ run'.from = run.from
              /\ run'.env = run.env /\ run'.moved = run.moved /\ run'.silent = run.silent /\ l # "done"
  BY <1>15 DEF Going, Starts, Stage
<1>16. CASE Load
  <2>1. Going(run, files) /\ run.pc = "load" /\ UNCHANGED hostVars
    <3>1. run.pc = "load"
      BY <1>16 DEF Load
    <3>2. UNCHANGED hostVars
      BY <1>16, Zenon DEF Load
    <3>3. Going(run, files)
      BY <3>1 DEF RunInv, None, Over
    <3> QED
      BY <3>1, <3>2, <3>3
  <2>2. CASE run' = None
    <3>1. run'.pc = "idle" /\ ~Going(run', files')
      BY <2>2 DEF None, Going, Starts, Stage
    <3>2. going'
      BY <3>1 DEF going
    <3> QED
      BY <1>12, <2>1, <3>2
  <2>3. CASE run' # None
    <3>1. PICK m : run' = [run EXCEPT !.devices = m, !.pc = IF run.inTmux THEN "SSH_CONNECTION" ELSE "env"]
      BY <1>16, <2>3 DEF Load
    <3>2. /\ run'.pc = (IF run.inTmux THEN "SSH_CONNECTION" ELSE "env") /\ run'.inTmux = run.inTmux
          /\ run'.from = run.from /\ run'.env = run.env /\ run'.moved = run.moved /\ run'.silent = run.silent
      BY <2>1, <3>1 DEF Going, Starts
    <3>3. OnPath(run')
      BY <3>2 DEF OnPath
    <3>4. run'.pc # "done"
      BY <3>2
    <3> QED
      BY <1>14, <2>1, <3>2, <3>3, <3>4
  <2> QED
    BY <2>2, <2>3
<1>17. CASE AskTmux
  <2> DEFINE ip == sourceIPFromSSH(session[run.pc])
             l == IF ip # "" THEN "whois" ELSE After(run.pc)
  <2>1. Going(run, files) /\ run.pc \in {"SSH_CONNECTION", "SSH_CLIENT"} /\ UNCHANGED hostVars
    BY <1>17 DEF AskTmux, RunInv, None, Over
  <2>2. run' = [run EXCEPT !.source = ip, !.pc = l] /\ l \in Stage
    BY <1>17, <2>1 DEF AskTmux, Source, After, Stage
  <2>3. /\ run'.pc = l /\ run'.source = ip /\ run'.inTmux = run.inTmux /\ run'.from = run.from
        /\ run'.env = run.env /\ run'.moved = run.moved /\ run'.silent = run.silent /\ l # "done"
    <3> HIDE DEF ip, l
    <3> QED
      BY <1>15, <2>1, <2>2
  <2>4. Bound(run)
    BY <1>1, <2>1 DEF going
  <2>5. ASSUME Due(run) # "", ~run.moved, ~run.silent PROVE ip = Due(run) /\ l = "whois"
    <3>1. run.pc = "SSH_CONNECTION" /\ run.inTmux
      BY <2>1, <2>4, <2>5 DEF Bound, OnPath
    <3>2. alive /\ run.from = latest
      BY <2>4, <2>5, <3>1 DEF Bound
    <3>3. latest[key] # ""
      BY <2>5, <3>2, EnvAssumption DEF Due, sourceIPFromSSH
    <3>4. session[key] = latest[key]
      BY <1>1, <3>2, <3>3 DEF known
    <3> QED
      BY <2>5, <3>1, <3>2, <3>4 DEF Due
  <2> HIDE DEF ip, l
  <2>6. OnPath(run')
    BY <2>3, <2>5 DEF OnPath, Due
  <2> QED
    BY <1>14, <2>1, <2>3, <2>6
<1>18. CASE TmuxFails
  <2>1. Going(run, files) /\ run.pc \in {"SSH_CONNECTION", "SSH_CLIENT"} /\ UNCHANGED hostVars
    BY <1>18 DEF TmuxFails, RunInv, None, Over
  <2>2. run' = [run EXCEPT !.pc = After(run.pc), !.silent = TRUE]
    BY <1>18 DEF TmuxFails
  <2>3. /\ run'.inTmux = run.inTmux /\ run'.from = run.from /\ run'.env = run.env /\ run'.moved = run.moved
        /\ run'.silent = TRUE /\ run'.pc = After(run.pc)
    BY <2>1, <2>2 DEF Going, Starts
  <2>4. run'.pc # "done" /\ OnPath(run')
    BY <2>1, <2>3 DEF OnPath, After
  <2> QED
    BY <1>14, <2>1, <2>3, <2>4
<1>19. CASE ReadEnv
  <2> DEFINE ip == sourceIPFromVars(run.env)
             l == IF ip # "" THEN "whois" ELSE "local"
  <2>1. Going(run, files) /\ run.pc = "env" /\ UNCHANGED hostVars
    BY <1>19 DEF ReadEnv, RunInv, None, Over
  <2>2. run' = [run EXCEPT !.source = ip, !.pc = l] /\ l \in Stage
    BY <1>19, <2>1 DEF ReadEnv, Source, Stage
  <2>3. /\ run'.pc = l /\ run'.source = ip /\ run'.inTmux = run.inTmux /\ run'.from = run.from
        /\ run'.env = run.env /\ run'.moved = run.moved /\ run'.silent = run.silent /\ l # "done"
    <3> HIDE DEF ip, l
    <3> QED
      BY <1>15, <2>1, <2>2
  <2>4. Bound(run)
    BY <1>1, <2>1 DEF going
  <2>5. ASSUME Due(run) # "", ~run.moved, ~run.silent PROVE ip = Due(run) /\ l = "whois"
    <3>1. ~run.inTmux
      BY <2>1, <2>4, <2>5 DEF Bound, OnPath
    <3>2. run.env = run.from
      BY <2>4, <3>1 DEF Bound
    <3> QED
      BY <2>5, <3>2, FirstSource DEF Due
  <2> HIDE DEF ip, l
  <2>6. OnPath(run')
    BY <2>3, <2>5 DEF OnPath, Due
  <2> QED
    BY <1>14, <2>1, <2>3, <2>6
<1>20. CASE ResolveLocal \/ ResolveDevice \/ WhoisFails
  <2>1. run.pc \in {"local", "whois"} /\ UNCHANGED hostVars /\ run'.start = run /\ run'.pc = "done"
    BY <1>20 DEF ResolveLocal, ResolveDevice, WhoisFails, Execute
  <2>2. Going(run, files)
    BY <2>1 DEF RunInv, None, Over
  <2>4. OnPath(run'.start)
    BY <1>1, <2>1, <2>2 DEF going, Bound
  <2>5. ~Going(run', files')
    BY <2>1 DEF Going, Starts, Stage
  <2>6. going'
    BY <2>4, <2>5 DEF going, OnPath, Due
  <2> QED
    BY <1>12, <2>1, <2>6
<1>21. CASE Forget
  <2>1. run'.pc = "idle" /\ UNCHANGED hostVars
    BY <1>21 DEF Forget, None
  <2>2. ~Going(run', files')
    BY <2>1 DEF Going, Starts, Stage
  <2>3. going'
    BY <2>1, <2>2 DEF going
  <2> QED
    BY <1>12, <2>1, <2>3
<1>22. CASE UNCHANGED vars
  BY <1>4, <1>12, <1>22 DEF vars, hostVars, tmuxVars
<1> QED
  BY <1>6, <1>7, <1>8, <1>9, <1>10, <1>11, <1>13, <1>16, <1>17, <1>18, <1>19, <1>20, <1>21, <1>22 DEF Next

\* At the beginning there is no session and no start.
LEMMA ChargedInit ==
  Init => Charged
<1> SUFFICES ASSUME Init PROVE Charged
  OBVIOUS
<1>1. run.pc = "idle"
  BY DEF Init, None
<1>2. ~Going(run, files)
  BY <1>1 DEF Going, Starts, Stage
<1>3. alive = FALSE /\ attached = {}
  BY DEF Init
<1> QED
  BY <1>1, <1>2, <1>3 DEF Charged

\* What is recorded of the person is the person.
LEMMA PersonRecorded ==
  ASSUME AttributesSurvive, run.pc = "done"
  PROVE  Recorded("meter.person") = {run.id.person}
<1> DEFINE own == {a \in Attributes(run.start.existing) : a[1] = <<>> \/ a[1][1] \notin MeterKey}
<1>1. Attributes(run.sent) = own \cup OwnPairs(run.id)
  BY Zenon DEF AttributesSurvive, OwnPairs
<1>2. \A a \in own : a[1] # <<"meter.person">>
  <2>1. <<"meter.person">> # <<>> /\ <<"meter.person">>[1] = "meter.person" /\ "meter.person" \in MeterKey
    BY TextAssumption
  <2> QED
    BY ONLY <2>1, Zenon
<1>3. \A a \in OwnPairs(run.id) : a[1] = <<"meter.person">> <=> a = <<<<"meter.person">>, run.id.person>>
  <2>1. <<"meter.device">> # <<"meter.person">> /\ <<"meter.source_ip">> # <<"meter.person">>
    <3>1. ASSUME NEW x, NEW y, <<x>> = <<y>> PROVE x = y
      BY <3>1
    <3>2. "meter.device" # "meter.person" /\ "meter.source_ip" # "meter.person"
      OBVIOUS
    <3> QED
      BY <3>1, <3>2, Zenon
  <2>2. ASSUME NEW x, NEW y PROVE <<x, y>>[1] = x
    OBVIOUS
  <2> QED
    BY ONLY <2>1, <2>2, Zenon DEF OwnPairs
<1>4. <<<<"meter.person">>, run.id.person>> \in OwnPairs(run.id)
  BY DEF OwnPairs
<1> HIDE DEF own
<1>5. {b \in Attributes(run.sent) : b[1] = <<"meter.person">>} = {<<<<"meter.person">>, run.id.person>>}
  BY <1>1, <1>2, <1>3, <1>4
<1>6. ASSUME NEW x, NEW y PROVE {a[2] : a \in {<<x, y>>}} = {y}
  OBVIOUS
<1>7. Recorded("meter.person") = {a[2] : a \in {<<<<"meter.person">>, run.id.person>>}}
  BY ONLY <1>5, Zenon DEF Recorded
<1> QED
  BY ONLY <1>6, <1>7, Zenon

\* A device is known by its first name, or by none.
LEMMA KnownByFirstName ==
  ASSUME NEW ip \in DOMAIN Whois
  PROVE  \/ KnownAs(Whois[ip]) = {firstName(Whois[ip])}
         \/ KnownAs(Whois[ip]) = {} /\ firstName(Whois[ip]) = <<>>
<1> DEFINE node == Whois[ip]
           I == Given(node)
           n == SelectInSeq(NodeName, LAMBDA f : f \in DOMAIN node /\ TrimSpace(node[f]) # <<>>)
<1>1. n = IF I # {} THEN Min(I) ELSE 0
  <2>1. Len(NodeName) = 6
    BY DEF NodeName
  <2> QED
    BY <2>1 DEF SelectInSeq, Given
<1>2. I \in SUBSET Nat /\ 0 \notin I
  BY DEF Given
<1>3. firstName(node) = IF n = 0 THEN <<>> ELSE node[NodeName[n]]
  BY DEF firstName, NodeName
<1> HIDE DEF n
<1>4. CASE I = {}
  <2>1. n = 0
    BY <1>1, <1>4, Zenon
  <2> QED
    BY <1>3, <1>4, <2>1 DEF KnownAs
<1>5. CASE I # {}
  <2> HIDE DEF I
  <2>1. n \in I /\ n # 0 /\ \A j \in I : n <= j
    BY <1>1, <1>2, <1>5, FirstPlace
  <2>2. {i \in I : \A j \in I : i <= j} = {n}
    <3>1. ASSUME NEW i \in I, \A j \in I : i <= j PROVE i = n
      <4>1. i <= n /\ n <= i /\ i \in Nat /\ n \in Nat
        BY <1>2, <2>1, <3>1
      <4> QED
        BY ONLY <4>1
    <3> QED
      BY ONLY <2>1, <3>1, Zenon
  <2>3. KnownAs(node) = {node[NodeName[i]] : i \in {n}}
    BY <2>2, Zenon DEF KnownAs, I
  <2> QED
    BY <1>3, <2>1, <2>3
<1> QED
  BY <1>4, <1>5

\* No name stays none.
LEMMA NormalizedNothing == normalizeDevice(<<>>) = <<>>
<1>1. TrimSpace(<<>>) = <<>>
  BY DEF TrimSpace
<1>2. [i \in DOMAIN <<>> |-> Lower(<<>>[i])] = <<>>
  OBVIOUS
<1> DEFINE low == [i \in DOMAIN <<>> |-> Lower(<<>>[i])]
           dots == {i \in DOMAIN low : low[i] = "."}
<1>3. dots = {}
  BY <1>2
<1>4. normalizeDevice(<<>>) = IF dots # {} /\ Min(dots) > 1 THEN SubSeq(low, 1, Min(dots) - 1) ELSE low
  BY <1>1 DEF normalizeDevice
<1> QED
  BY <1>2, <1>3, <1>4

\* The device of a source belongs to its owner, or to nobody, if no two names
\* of the configuration are one.
LEMMA OwnersName ==
  ASSUME NEW fs \in Setup, LoadLauncher(fs.launcher), NEW devices \in LoadDevices(fs.launcher.devices),
         NEW ip \in DOMAIN Whois, ~TwoNames(fs.launcher.devices)
  PROVE  DeviceIdentity(devices, ip).person = Owner[ip]
<1> DEFINE name == normalizeDevice(firstName(Whois[ip]))
           named == {d \in fs.launcher.devices : name # <<>> /\ normalizeDevice(d[1]) = name}
<1>1. \/ named = {} /\ Owner[ip] = Unknown
      \/ \E d \in named : Owner[ip] = TrimSpace(d[2])
  <2> DEFINE known == {d \in fs.launcher.devices :
                         \E v \in KnownAs(Whois[ip]) : normalizeDevice(v) # <<>> /\ normalizeDevice(d[1]) = normalizeDevice(v)}
  <2>1. known = named
    BY KnownByFirstName, NormalizedNothing
  <2>2. \/ known = {} /\ Owner[ip] = Unknown
        \/ \E d \in known : Owner[ip] = TrimSpace(d[2])
    BY OwnerAssumption DEF LoadLauncher
  <2> HIDE DEF known, named
  <2> QED
    BY <2>1, <2>2
<1>2. \A k \in DOMAIN devices : \E d \in fs.launcher.devices : normalizeDevice(d[1]) = k /\ devices[k] = TrimSpace(d[2])
  BY DEF LoadDevices
<1>3. DOMAIN devices = {normalizeDevice(d[1]) : d \in fs.launcher.devices}
  BY DEF LoadDevices
<1> HIDE DEF name
<1>4. DeviceIdentity(devices, ip).person =
        IF name = <<>> THEN Unknown ELSE IF name \in DOMAIN devices THEN devices[name] ELSE Unknown
  BY DEF DeviceIdentity, Fallback, name
<1>5. CASE named = {}
  BY <1>1, <1>3, <1>4, <1>5
<1>6. CASE named # {}
  <2>1. PICK d \in named : Owner[ip] = TrimSpace(d[2])
    BY <1>1, <1>6
  <2>2. name # <<>> /\ name \in DOMAIN devices
    BY <1>3, <2>1
  <2>3. PICK e \in fs.launcher.devices : normalizeDevice(e[1]) = name /\ devices[name] = TrimSpace(e[2])
    BY <1>2, <2>2
  <2>4. d = e
    BY <2>1, <2>3 DEF TwoNames
  <2> QED
    BY <1>4, <2>1, <2>2, <2>3, <2>4
<1> QED
  BY <1>5, <1>6

\* Whose an undisturbed start is.
LEMMA Belongs ==
  ASSUME NamesArePlain
  PROVE  HostInv /\ RunInv /\ Charged => NeverSomeoneElse
<1> DEFINE ip == Due(run.start)
<1> SUFFICES ASSUME HostInv, RunInv, Charged, Undisturbed, ip # ""
             PROVE  /\ run.id.source = ip
                    /\ \/ TwoNames(files.launcher.devices) /\ run.asked
                       \/ Recorded("meter.person") = {IF run.asked THEN Owner[ip] ELSE Unknown}
  BY DEF NeverSomeoneElse, Due
<1>1. run.pc = "done" /\ ~run.start.moved /\ ~run.start.silent
  BY DEF Undisturbed
<1>2. Over(run, files)
  BY <1>1, Ended
<1>3. OnPath(run.start)
  BY <1>1 DEF Charged
<1>4. run.start.pc = "whois" /\ run.start.source = ip
  BY <1>1, <1>2, <1>3 DEF OnPath, Over, Came
<1>5. ip \in DOMAIN Whois
  BY <1>2, <1>4 DEF Over, Going, Starts
<1>6. Recorded("meter.person") = {run.id.person}
  BY <1>1, Survives, PersonRecorded
<1>7. CASE run.id = DeviceIdentity(run.start.devices, run.start.source) /\ run.asked = TRUE
  <2>0. run.id = DeviceIdentity(run.start.devices, ip)
    BY <1>4, <1>7
  <2>1. run.id.source = ip
    <3>1. DeviceIdentity(run.start.devices, ip).source = ip
      BY DEF DeviceIdentity, Fallback
    <3> QED
      BY <2>0, <3>1, Zenon
  <2>2. ~TwoNames(files.launcher.devices) => run.id.person = Owner[ip]
    <3> SUFFICES ASSUME ~TwoNames(files.launcher.devices) PROVE run.id.person = Owner[ip]
      OBVIOUS
    <3>1. LoadLauncher(files.launcher) /\ run.start.devices \in LoadDevices(files.launcher.devices) /\ files \in Setup
      BY <1>2, Configured DEF HostInv
    <3>2. DeviceIdentity(run.start.devices, ip).person = Owner[ip]
      BY <1>5, <3>1, OwnersName
    <3> QED
      BY <2>0, <3>2, Zenon
  <2> QED
    BY <1>6, <1>7, <2>1, <2>2
<1>8. CASE run.id = Fallback(run.start.source) /\ run.asked = FALSE
  <2>1. Fallback(ip).source = ip /\ Fallback(ip).person = Unknown
    BY DEF Fallback
  <2>2. run.id.source = ip /\ run.id.person = Unknown
    BY ONLY <1>4, <1>8, <2>1, Zenon
  <2> QED
    BY <1>6, <1>8, <2>2
<1> QED
  BY <1>2, <1>4, <1>7, <1>8 DEF Over, Came

\* A start over SSH that nobody disturbed is recorded for the owner of the
\* device that the login came from, in a tmux session the login that attached
\* last, or for nobody; for nobody only if tailscale did not answer or the
\* device has no owner; for somebody else only if the configuration has two
\* names for the device (Resolve, sourceIPFromEnvironment, LoadLauncher,
\* ResourceAttributes).
THEOREM RightPerson ==
  ASSUME ConnectionIsUpdated, NamesArePlain
  PROVE  Spec => []NeverSomeoneElse
<1>1. Init => HostInv /\ RunInv /\ Charged
  BY HostInit, ChargedInit
<1>2. HostInv /\ RunInv /\ Charged /\ [Next]_vars => (HostInv /\ RunInv /\ Charged)'
  BY HostStep, RunStep, ChargedStep
<1>3. HostInv /\ RunInv /\ Charged => NeverSomeoneElse
  BY Belongs
<1> QED
  BY <1>1, <1>2, <1>3, PTL DEF Spec
=============================================================================
