---------------------------- MODULE LaunchProofs ----------------------------
(***************************************************************************)
(* Proofs about Launch, for any files, links and versions, any updater and *)
(* any arguments.                                                          *)
(***************************************************************************)
EXTENDS Launch, SequencesExt, Induction, TLAPS

-----------------------------------------------------------------------------
\* The arguments of the wrapper, as parseLaunchArgs gets through them.
AfterConfig == <<Flag("fallback-bin"), Word(wanted), Flag("--")>> \o user
AfterFallback == <<Flag("--")>> \o user

\* What parsing does with an option and its value at the front of a sequence.
LEMMA TakeTwo ==
  ASSUME NEW S, NEW a \in S, NEW b \in S, NEW c \in S, NEW d \in S, NEW e \in S,
         NEW s \in Seq(S)
  PROVE  /\ Tail(Tail(<<a, b, c, d, e>> \o s)) = <<c, d, e>> \o s
         /\ Head(<<a, b, c, d, e>> \o s) = a
         /\ Len(<<a, b, c, d, e>> \o s) >= 2
<1>1. Tail(<<a, b, c, d, e>> \o s) = <<b, c, d, e>> \o s
  OBVIOUS
<1>2. Tail(<<b, c, d, e>> \o s) = <<c, d, e>> \o s
  OBVIOUS
<1>3. Head(<<a, b, c, d, e>> \o s) = a /\ Len(<<a, b, c, d, e>> \o s) >= 2
  OBVIOUS
<1> QED
  BY <1>1, <1>2, <1>3

\* The same with one option more behind it.
LEMMA TakeLastTwo ==
  ASSUME NEW S, NEW a \in S, NEW b \in S, NEW c \in S, NEW s \in Seq(S)
  PROVE  /\ Tail(Tail(<<a, b, c>> \o s)) = <<c>> \o s
         /\ Head(<<a, b, c>> \o s) = a /\ (<<a, b, c>> \o s)[2] = b
         /\ Len(<<a, b, c>> \o s) >= 2
<1>1. Tail(<<a, b, c>> \o s) = <<b, c>> \o s
  OBVIOUS
<1>2. Tail(<<b, c>> \o s) = <<c>> \o s
  OBVIOUS
<1>3. Head(<<a, b, c>> \o s) = a /\ (<<a, b, c>> \o s)[2] = b /\ Len(<<a, b, c>> \o s) >= 2
  OBVIOUS
<1> QED
  BY <1>1, <1>2, <1>3

\* The "--" is taken off.
LEMMA TakeOne ==
  ASSUME NEW S, NEW a \in S, NEW s \in Seq(S)
  PROVE  Tail(<<a>> \o s) = s /\ Head(<<a>> \o s) = a /\ <<a>> \o s # <<>>
OBVIOUS

\* Neither sequence is empty.
LEMMA NotEmpty ==
  ASSUME NEW S, NEW a \in S, NEW b \in S, NEW c \in S, NEW d \in S, NEW e \in S,
         NEW s \in Seq(S)
  PROVE  <<a, b, c, d, e>> \o s # <<>> /\ <<a, b, c>> \o s # <<>>
OBVIOUS

\* The options of the wrapper are taken off one by one.
LEMMA Unwrap ==
  ASSUME user \in Seq(Arg), wanted \in Path \cup {""}
  PROVE  /\ Tail(Tail(WrapperArgs)) = AfterConfig
         /\ Tail(Tail(AfterConfig)) = AfterFallback
         /\ Tail(AfterFallback) = user
         /\ Head(WrapperArgs).opt = "config" /\ Len(WrapperArgs) >= 2
         /\ Head(AfterConfig).opt = "fallback-bin" /\ Len(AfterConfig) >= 2 /\ AfterConfig[2] = Word(wanted)
         /\ Head(AfterFallback).opt = "--"
         /\ WrapperArgs # <<>> /\ AfterConfig # <<>> /\ AfterFallback # <<>>
<1>1. /\ Flag("config") \in Arg /\ Flag("fallback-bin") \in Arg /\ Flag("--") \in Arg
      /\ Word(DefaultConfig) \in Arg /\ Word(wanted) \in Arg
  BY ArgAssumption DEF Flag, Word, Arg, Option
<1>2. Flag("config").opt = "config" /\ Flag("fallback-bin").opt = "fallback-bin" /\ Flag("--").opt = "--"
  BY DEF Flag
<1>3. /\ Tail(Tail(WrapperArgs)) = AfterConfig
      /\ Head(WrapperArgs) = Flag("config") /\ Len(WrapperArgs) >= 2
  BY <1>1, TakeTwo DEF WrapperArgs, AfterConfig
<1>4. /\ Tail(Tail(AfterConfig)) = AfterFallback
      /\ Head(AfterConfig) = Flag("fallback-bin") /\ Len(AfterConfig) >= 2 /\ AfterConfig[2] = Word(wanted)
  <2> DEFINE a == Flag("fallback-bin")
             b == Word(wanted)
             c == Flag("--")
  <2>1. AfterConfig = <<a, b, c>> \o user /\ AfterFallback = <<c>> \o user
    BY DEF AfterConfig, AfterFallback
  <2>2. a \in Arg /\ b \in Arg /\ c \in Arg
    BY <1>1
  <2> HIDE DEF a, b, c
  <2>3. /\ Tail(Tail(<<a, b, c>> \o user)) = <<c>> \o user
        /\ Head(<<a, b, c>> \o user) = a /\ (<<a, b, c>> \o user)[2] = b
        /\ Len(<<a, b, c>> \o user) >= 2
    BY ONLY <2>2, user \in Seq(Arg), TakeLastTwo
  <2> QED
    BY <2>1, <2>3 DEF a, b
<1>5. Tail(AfterFallback) = user /\ Head(AfterFallback) = Flag("--") /\ AfterFallback # <<>>
  BY <1>1, TakeOne DEF AfterFallback
<1>6. WrapperArgs # <<>> /\ AfterConfig # <<>>
  <2>1. WrapperArgs # <<>>
    BY <1>1, NotEmpty DEF WrapperArgs
  <2>2. AfterConfig # <<>>
    BY <1>1, NotEmpty DEF AfterConfig
  <2> QED
    BY <2>1, <2>2
<1> QED
  BY <1>2, <1>3, <1>4, <1>5, <1>6

\* The strengthening of ArgsUntouched: how much of the wrapper's arguments is
\* left while the launcher parses, and that nothing is left of them afterwards.
ArgsInv ==
  /\ user \in Seq(Arg) /\ wanted \in Path \cup {""}
  /\ mode \in {"shell", "launch", "execClaude"}
  /\ pc = "parse" => args \in {WrapperArgs, AfterConfig, AfterFallback}
  /\ pc \in {"load", "scan", "running"} => args = user
  /\ pc \in {"try", "resolve", "exec"} /\ mode # "shell" => args = user

\* Parsing stops at the "--" of the wrapper, with the user's arguments left.
LEMMA ParseKeeps ==
  ASSUME ArgsInv, Parse
  PROVE  ArgsInv'
<1>0. pc = "parse" /\ UNCHANGED <<user, wanted, mode>>
  BY DEF Parse
<1>1. /\ WrapperArgs' = WrapperArgs /\ AfterConfig' = AfterConfig /\ AfterFallback' = AfterFallback
  BY <1>0 DEF WrapperArgs, AfterConfig, AfterFallback, Word
<1> USE DEF ArgsInv
<1>2. CASE args = WrapperArgs
  <2>1. args' = AfterConfig /\ pc' = "parse"
    BY <1>0, <1>2, Unwrap DEF Parse
  <2> QED
    BY <1>0, <1>1, <2>1
<1>3. CASE args = AfterConfig
  <2>1. args' = AfterFallback /\ pc' = "parse"
    BY <1>0, <1>3, Unwrap DEF Parse
  <2> QED
    BY <1>0, <1>1, <2>1
<1>4. CASE args = AfterFallback
  <2>1. args' = user /\ pc' = "load"
    BY <1>0, <1>4, Unwrap DEF Parse
  <2> QED
    BY <1>0, <2>1
<1> QED
  BY <1>0, <1>2, <1>3, <1>4

\* Every step keeps ArgsInv.
LEMMA ArgsKept ==
  ASSUME ArgsInv, [Next]_vars
  PROVE  ArgsInv'
<1>1. CASE Choose
  <2>1. wanted' \in Path \cup {""}
    BY <1>1, PathAssumption DEF Choose, Newest, Versions
  <2> QED
    BY <1>1, <2>1 DEF Choose, ArgsInv
<1>2. CASE Try \/ Resolve
  <2>1. pc \in {"try", "resolve"} /\ pc' \in {"try", "resolve", "exec"} /\ UNCHANGED <<user, wanted, args, mode>>
        /\ (pc = "resolve" => pc' = "exec")
    BY <1>2 DEF Try, Resolve, argVars
  <2> QED
    BY <2>1 DEF ArgsInv
<1>3. CASE NoneLeft
  BY <1>3 DEF NoneLeft, GiveUp, ArgsInv, argVars
<1>4. CASE Exec
  <2>1. CASE mode = "shell" /\ target = Meter
    BY <1>4, <2>1 DEF Exec, ArgsInv, WrapperArgs, Word
  <2>2. CASE ~(mode = "shell" /\ target = Meter) /\ real[target] = Links[Wrapper]
    BY <1>4, <2>2 DEF Exec, ArgsInv
  <2>3. CASE ~(mode = "shell" /\ target = Meter) /\ real[target] # Links[Wrapper]
    BY <1>4, <2>3 DEF Exec, ArgsInv
  <2> QED
    BY <2>1, <2>2, <2>3
<1>5. CASE ExecFails
  BY <1>5 DEF ExecFails, GiveUp, ArgsInv, argVars
<1>6. CASE Parse
  BY <1>6, ParseKeeps
<1>7. CASE Load
  BY <1>7 DEF Load, ArgsInv
<1>8. CASE Scan
  BY <1>8 DEF Scan, ArgsInv, argVars
<1>9. CASE Update \/ UNCHANGED vars
  <2>1. UNCHANGED <<pc, argVars, mode>>
    BY <1>9 DEF Update, Install, Complete, Delete, Change, Relink, Changed, vars
  <2> QED
    BY <2>1 DEF ArgsInv, argVars, WrapperArgs, AfterConfig, AfterFallback, Word
<1> QED
  BY <1>1, <1>2, <1>3, <1>4, <1>5, <1>6, <1>7, <1>8, <1>9 DEF Next, Start

\* When Claude is started through the wrapper it gets exactly what the user
\* typed, whatever options of the launcher are among it.
THEOREM ArgsReachClaude ==
  ASSUME DirectStarts = {}
  PROVE  Spec => []ArgsUntouched
<1>1. Init => ArgsInv
  BY ArgAssumption DEF Init, ArgsInv
<1>2. ArgsInv /\ [Next]_vars => ArgsInv'
  BY ArgsKept
<1>3. ArgsInv => ArgsUntouched
  BY DEF ArgsInv, ArgsUntouched
<1> QED
  BY <1>1, <1>2, <1>3, PTL DEF Spec

-----------------------------------------------------------------------------
(***************************************************************************)
(* Sequences.                                                              *)
(***************************************************************************)
\* The elements of a sequence are the first one and the others.
LEMMA ElementsOfTail ==
  ASSUME NEW S, NEW s \in Seq(S), s # <<>>
  PROVE  /\ ToSet(s) = {Head(s)} \cup ToSet(Tail(s))
         /\ Head(s) \in S /\ Tail(s) \in Seq(S) /\ Len(s) >= 1 /\ s[1] = Head(s)
         /\ Len(Tail(s)) = Len(s) - 1 /\ \A i \in 1..Len(Tail(s)) : Tail(s)[i] = s[i + 1]
<1>1. /\ Head(s) \in S /\ Tail(s) \in Seq(S) /\ Len(s) \in Nat /\ Len(s) >= 1 /\ s[1] = Head(s)
      /\ Len(Tail(s)) = Len(s) - 1 /\ \A i \in 1..Len(Tail(s)) : Tail(s)[i] = s[i + 1]
  OBVIOUS
<1>2. DOMAIN s = 1..Len(s) /\ DOMAIN Tail(s) = 1..Len(Tail(s))
  BY <1>1
<1>3. ASSUME NEW i \in 1..Len(s) PROVE s[i] = Head(s) \/ s[i] \in ToSet(Tail(s))
  <2>1. CASE i = 1
    BY <1>1, <2>1
  <2>2. CASE i # 1
    <3>1. i - 1 \in 1..Len(Tail(s)) /\ (i - 1) + 1 = i
      BY <1>1, <2>2
    <3>2. Tail(s)[i - 1] = s[i]
      BY <1>1, <3>1
    <3> QED
      BY <1>2, <3>1, <3>2 DEF ToSet
  <2> QED
    BY <2>1, <2>2
<1>4. ASSUME NEW i \in 1..Len(Tail(s)) PROVE Tail(s)[i] \in ToSet(s)
  <2>1. i + 1 \in 1..Len(s)
    BY <1>1
  <2> QED
    BY <1>1, <1>2, <2>1 DEF ToSet
<1>5. Head(s) \in ToSet(s)
  <2>1. 1 \in 1..Len(s)
    BY <1>1
  <2> QED
    BY <1>1, <1>2, <2>1 DEF ToSet
<1>6. ToSet(s) \subseteq {Head(s)} \cup ToSet(Tail(s))
  BY <1>2, <1>3 DEF ToSet
<1>7. {Head(s)} \cup ToSet(Tail(s)) \subseteq ToSet(s)
  BY <1>2, <1>4, <1>5 DEF ToSet
<1> QED
  BY <1>1, <1>6, <1>7

\* The elements of two sequences one after the other.
LEMMA ElementsOfBoth ==
  ASSUME NEW S, NEW s \in Seq(S), NEW t \in Seq(S)
  PROVE  /\ ToSet(s \o t) = ToSet(s) \cup ToSet(t)
         /\ s \o t \in Seq(S) /\ Len(s \o t) = Len(s) + Len(t)
         /\ \A i \in 1..Len(s) : (s \o t)[i] = s[i]
         /\ \A i \in 1..Len(t) : (s \o t)[Len(s) + i] = t[i]
<1>1. /\ s \o t \in Seq(S) /\ Len(s \o t) = Len(s) + Len(t) /\ Len(s) \in Nat /\ Len(t) \in Nat
      /\ \A i \in 1..Len(s) : (s \o t)[i] = s[i]
      /\ \A i \in 1..Len(t) : (s \o t)[Len(s) + i] = t[i]
  OBVIOUS
<1>2. DOMAIN s = 1..Len(s) /\ DOMAIN t = 1..Len(t) /\ DOMAIN (s \o t) = 1..(Len(s) + Len(t))
  BY <1>1
<1>3. ASSUME NEW i \in 1..(Len(s) + Len(t)) PROVE (s \o t)[i] \in ToSet(s) \cup ToSet(t)
  <2>1. CASE i <= Len(s)
    <3>1. i \in 1..Len(s)
      BY <1>1, <2>1
    <3> QED
      BY <1>1, <1>2, <3>1 DEF ToSet
  <2>2. CASE i > Len(s)
    <3>1. i - Len(s) \in 1..Len(t) /\ Len(s) + (i - Len(s)) = i
      BY <1>1, <2>2
    <3>2. (s \o t)[i] = t[i - Len(s)]
      BY <1>1, <3>1
    <3> QED
      BY <1>2, <3>1, <3>2 DEF ToSet
  <2> QED
    BY <1>1, <2>1, <2>2
<1>4. ASSUME NEW i \in 1..Len(s) PROVE s[i] \in ToSet(s \o t)
  <2>1. i \in 1..(Len(s) + Len(t)) /\ (s \o t)[i] = s[i]
    BY <1>1
  <2> QED
    BY <1>2, <2>1 DEF ToSet
<1>5. ASSUME NEW i \in 1..Len(t) PROVE t[i] \in ToSet(s \o t)
  <2>1. Len(s) + i \in 1..(Len(s) + Len(t)) /\ (s \o t)[Len(s) + i] = t[i]
    BY <1>1
  <2> QED
    BY <1>2, <2>1 DEF ToSet
<1>6. ToSet(s \o t) \subseteq ToSet(s) \cup ToSet(t)
  BY <1>2, <1>3 DEF ToSet
<1>7. ToSet(s) \cup ToSet(t) \subseteq ToSet(s \o t)
  BY <1>2, <1>4, <1>5 DEF ToSet
<1> QED
  BY <1>1, <1>6, <1>7

\* What stands at a place is an element.
LEMMA ElementIn ==
  ASSUME NEW S, NEW s \in Seq(S), NEW i \in 1..Len(s)
  PROVE  s[i] \in ToSet(s)
BY DEF ToSet

\* An element stands somewhere.
LEMMA PlaceOf ==
  ASSUME NEW S, NEW s \in Seq(S), NEW x \in ToSet(s)
  PROVE  \E i \in 1..Len(s) : s[i] = x
BY DEF ToSet

-----------------------------------------------------------------------------
(***************************************************************************)
(* The order of the versions.                                              *)
(***************************************************************************)
\* What the names are made of.
LEMMA Names ==
  ASSUME NEW p \in Path
  PROVE  /\ Parts[p] \in Seq(Nat) /\ Len(Parts[p]) \in Nat /\ \A n \in Nat : n >= 1 => Part(p, n) \in Int
         /\ TextRank[p] \in Int /\ VersionRank[p] \in Int
<1>1. Parts[p] \in Seq(Nat) /\ TextRank[p] \in Int /\ VersionRank[p] \in Int
  BY NameAssumption
<1>2. Len(Parts[p]) \in Nat /\ \A n \in Nat : n >= 1 => Part(p, n) \in Int
  BY <1>1 DEF Part
<1> QED
  BY <1>1, <1>2

\* The comparator finds the newer of two numbered names, and compares others
\* as texts (versionCandidates).
LEMMA Comparator ==
  ASSUME NEW p \in Path, NEW q \in Path
  PROVE  /\ p \in Numbered /\ q \in Numbered =>
              /\ less(p, q) => VersionRank[q] <= VersionRank[p]
              /\ ~less(p, q) => VersionRank[p] <= VersionRank[q]
         /\ ~(p \in Numbered /\ q \in Numbered) => (less(p, q) <=> TextRank[p] > TextRank[q])
<1> DEFINE len == Len(Parts[p]) + Len(Parts[q])
           differ == {n \in 1..len : Part(p, n) # Part(q, n)}
<1>0. /\ Len(Parts[p]) \in Nat /\ Len(Parts[q]) \in Nat /\ VersionRank[p] \in Int /\ VersionRank[q] \in Int
      /\ \A n \in Nat : n >= 1 => Part(p, n) \in Int /\ Part(q, n) \in Int
  BY Names
<1>1. ~(p \in Numbered /\ q \in Numbered) => (less(p, q) <=> TextRank[p] > TextRank[q])
  BY DEF less
<1>2. len \in Nat /\ len = Len(Parts[q]) + Len(Parts[p]) /\ differ \subseteq Nat /\ \A n \in 1..len : n \in Nat /\ n >= 1
  <2>1. len \in Nat /\ len = Len(Parts[q]) + Len(Parts[p])
    <3>1. Len(Parts[p]) \in Nat /\ Len(Parts[q]) \in Nat
      BY <1>0
    <3>2. \A x \in Nat, y \in Nat : x + y \in Nat /\ x + y = y + x
      OBVIOUS
    <3> QED
      BY ONLY <3>1, <3>2
  <2>2. \A n \in 1..len : n \in Nat /\ n >= 1
    <3> HIDE DEF len
    <3> QED
      BY ONLY <2>1
  <2>3. differ \subseteq Nat
    <3> HIDE DEF len
    <3> QED
      BY ONLY <2>2
  <2> QED
    BY ONLY <2>1, <2>2, <2>3
<1>3. /\ Older(p, q) <=> \E n \in 1..len : Part(p, n) < Part(q, n) /\ \A m \in 1..(n - 1) : Part(p, m) = Part(q, m)
      /\ Older(q, p) <=> \E n \in 1..len : Part(q, n) < Part(p, n) /\ \A m \in 1..(n - 1) : Part(q, m) = Part(p, m)
  BY ONLY <1>2 DEF Older
<1>4. p \in Numbered /\ q \in Numbered =>
        /\ VersionRank[p] < VersionRank[q] <=> Older(p, q)
        /\ VersionRank[q] < VersionRank[p] <=> Older(q, p)
  BY NameAssumption
<1>5. less(p, q) <=> IF {p, q} \subseteq Numbered /\ differ # {}
                     THEN LET n == CHOOSE n \in differ : \A m \in differ : n <= m
                          IN  Part(p, n) > Part(q, n)
                     ELSE TextRank[p] > TextRank[q]
  BY DEF less
<1>6. \A n \in 1..len : n \in differ <=> Part(p, n) # Part(q, n)
  OBVIOUS
<1>7. differ \subseteq 1..len
  OBVIOUS
<1> HIDE DEF len, differ
<1>8. ASSUME p \in Numbered, q \in Numbered, differ = {}
      PROVE  VersionRank[p] = VersionRank[q]
  <2>1. \A n \in 1..len : Part(p, n) = Part(q, n) /\ Part(p, n) \in Int
    BY ONLY <1>0, <1>2, <1>6, <1>8
  <2>2. ~Older(p, q) /\ ~Older(q, p)
    BY ONLY <1>3, <2>1
  <2> QED
    BY ONLY <1>0, <1>4, <1>8, <2>2
<1>9. ASSUME p \in Numbered, q \in Numbered, differ # {}
      PROVE  /\ less(p, q) => VersionRank[q] <= VersionRank[p]
             /\ ~less(p, q) => VersionRank[p] <= VersionRank[q]
  <2>1. \E n \in differ : \A m \in differ : n <= m
    BY ONLY <1>2, <1>9, NatLeast
  <2> DEFINE n == CHOOSE n \in differ : \A m \in differ : n <= m
  <2>2. n \in differ /\ \A m \in differ : n <= m
    BY ONLY <2>1
  <2>3. less(p, q) <=> Part(p, n) > Part(q, n)
    BY ONLY <1>5, <1>9
  <2> HIDE DEF n
  <2>4. n \in 1..len /\ n \in Nat /\ n >= 1 /\ Part(p, n) # Part(q, n)
    BY ONLY <1>2, <1>6, <1>7, <2>2
  <2>5. Part(p, n) \in Int /\ Part(q, n) \in Int
    BY ONLY <1>0, <2>4
  <2>6. ASSUME NEW m \in 1..(n - 1) PROVE Part(p, m) = Part(q, m)
    <3>0. m \in 1..(n - 1)
      BY <2>6
    <3>1. m \in 1..len /\ ~(n <= m)
      <4>1. len \in Nat /\ n \in 1..len
        BY ONLY <1>2, <2>4
      <4> QED
        BY ONLY <3>0, <4>1
    <3> QED
      BY ONLY <1>6, <2>2, <3>1
  <2>7. CASE Part(p, n) > Part(q, n)
    <3>1. Older(q, p)
      BY ONLY <1>3, <2>4, <2>5, <2>6, <2>7
    <3> QED
      BY ONLY <1>0, <1>4, <1>9, <2>3, <2>7, <3>1
  <2>8. CASE Part(p, n) < Part(q, n)
    <3>1. Older(p, q)
      BY ONLY <1>3, <2>4, <2>6, <2>8
    <3> QED
      BY ONLY <1>0, <1>4, <1>9, <2>3, <2>5, <2>8, <3>1
  <2> QED
    BY ONLY <2>4, <2>5, <2>7, <2>8
<1> QED
  BY ONLY <1>0, <1>1, <1>8, <1>9

\* The numbered names stand from the newest to the oldest.
NewestFirst(s) ==
  \A i \in 1..Len(s), j \in 1..Len(s) :
    i < j /\ s[i] \in Numbered /\ s[j] \in Numbered => VersionRank[s[j]] <= VersionRank[s[i]]

\* s with p inserted behind place k.
PutAt(s, p, k) == SubSeq(s, 1, k) \o <<p>> \o SubSeq(s, k + 1, Len(s))

\* Where the insertion sort puts a name.
LEMMA InsertPlace ==
  ASSUME NEW s \in Seq(Path), NEW p \in Path
  PROVE  \E k \in 0..Len(s) :
           /\ Insert(s, p) = PutAt(s, p, k)
           /\ k > 0 => ~less(p, s[k])
           /\ \A i \in (k + 1)..Len(s) : less(p, s[i])
<1> DEFINE Stops(k) == /\ k > 0 => ~less(p, s[k])
                       /\ \A i \in (k + 1)..Len(s) : less(p, s[i])
           K == {k \in 0..Len(s) : \A i \in (k + 1)..Len(s) : less(p, s[i])}
           m == CHOOSE k \in 0..Len(s) : Stops(k)
<1>1. Len(s) \in Nat
  OBVIOUS
<1>2. Len(s) \in K /\ K \subseteq Nat
  BY ONLY <1>1
<1>3. \E k \in K : \A n \in K : k <= n
  <2> HIDE DEF K
  <2> QED
    BY ONLY <1>2, NatLeast
<1>4. PICK k \in K : \A n \in K : k <= n
  BY ONLY <1>3
<1>5. k \in 0..Len(s) /\ \A i \in (k + 1)..Len(s) : less(p, s[i])
  BY ONLY <1>4
<1>6. ASSUME k > 0, less(p, s[k]) PROVE FALSE
  <2>1. k - 1 \in 0..Len(s) /\ ~(k <= k - 1)
    BY ONLY <1>1, <1>5, <1>6
  <2>2. \A i \in ((k - 1) + 1)..Len(s) : i = k \/ i \in (k + 1)..Len(s)
    BY ONLY <1>1, <1>5
  <2>3. \A i \in ((k - 1) + 1)..Len(s) : less(p, s[i])
    BY ONLY <1>5, <1>6, <2>2
  <2> QED
    BY ONLY <1>4, <2>1, <2>3
<1>7. \E n \in 0..Len(s) : Stops(n)
  BY ONLY <1>5, <1>6
<1>8. m \in 0..Len(s) /\ Stops(m)
  <2> HIDE DEF Stops
  <2> QED
    BY ONLY <1>7
<1>9. Insert(s, p) = PutAt(s, p, m)
  BY ONLY DEF Insert, PutAt
<1> HIDE DEF m
<1> QED
  BY ONLY <1>8, <1>9

\* t is s with p inserted behind place k.
Shifted(t, s, p, k) ==
  /\ Len(t) = Len(s) + 1 /\ t[k + 1] = p
  /\ \A i \in 1..k : t[i] = s[i]
  /\ \A i \in (k + 2)..(Len(s) + 1) : t[i] = s[i - 1]

\* What the sequence is after an insertion.
LEMMA Inserted ==
  ASSUME NEW S, NEW s \in Seq(S), NEW p \in S, NEW k \in 0..Len(s)
  PROVE  PutAt(s, p, k) \in Seq(S) /\ Shifted(PutAt(s, p, k), s, p, k)
<1> DEFINE a == SubSeq(s, 1, k)
           b == SubSeq(s, k + 1, Len(s))
<1>1. Len(s) \in Nat /\ k \in Nat /\ k <= Len(s)
  OBVIOUS
<1>2. a \in Seq(S) /\ Len(a) = k /\ \A i \in 1..k : a[i] = s[i]
  BY <1>1
<1>3. b \in Seq(S) /\ Len(b) = Len(s) - k /\ \A i \in 1..(Len(s) - k) : b[i] = s[k + i]
  BY <1>1
<1> HIDE DEF a, b
<1>4. <<p>> \in Seq(S) /\ Len(<<p>>) = 1 /\ <<p>>[1] = p
  OBVIOUS
<1>5. /\ a \o <<p>> \in Seq(S) /\ Len(a \o <<p>>) = k + 1 /\ (a \o <<p>>)[k + 1] = p
      /\ \A i \in 1..k : (a \o <<p>>)[i] = s[i]
  <2>1. /\ a \o <<p>> \in Seq(S) /\ Len(a \o <<p>>) = Len(a) + Len(<<p>>)
        /\ \A i \in 1..Len(a) : (a \o <<p>>)[i] = a[i]
        /\ \A i \in 1..Len(<<p>>) : (a \o <<p>>)[Len(a) + i] = <<p>>[i]
    BY ONLY <1>2, <1>4, ElementsOfBoth
  <2>2. (a \o <<p>>)[Len(a) + 1] = <<p>>[1]
    BY <1>4, <2>1
  <2> QED
    BY ONLY <1>1, <1>2, <1>4, <2>1, <2>2
<1> DEFINE c == a \o <<p>>
<1> HIDE DEF c
<1>6. /\ c \o b \in Seq(S) /\ Len(c \o b) = Len(c) + Len(b)
      /\ \A i \in 1..Len(c) : (c \o b)[i] = c[i]
      /\ \A i \in 1..Len(b) : (c \o b)[Len(c) + i] = b[i]
  <2>1. c \in Seq(S) /\ b \in Seq(S)
    BY <1>3, <1>5 DEF c
  <2> QED
    BY ONLY <2>1, ElementsOfBoth
<1>7. Len(c) = k + 1 /\ c[k + 1] = p /\ \A i \in 1..k : c[i] = s[i]
  BY <1>5 DEF c
<1>8. Len(c \o b) = Len(s) + 1
  BY ONLY <1>1, <1>3, <1>6, <1>7
<1>9. (c \o b)[k + 1] = p
  BY ONLY <1>1, <1>6, <1>7
<1>10. \A i \in 1..k : (c \o b)[i] = s[i]
  BY ONLY <1>1, <1>6, <1>7
<1>11. ASSUME NEW i \in (k + 2)..(Len(s) + 1) PROVE (c \o b)[i] = s[i - 1]
  <2> DEFINE j == i - (k + 1)
  <2>0. i \in (k + 2)..(Len(s) + 1)
    BY <1>11
  <2>1. j \in 1..(Len(s) - k) /\ (k + 1) + j = i /\ k + j = i - 1
    BY ONLY <1>1, <2>0
  <2> HIDE DEF j
  <2>2. (c \o b)[Len(c) + j] = b[j]
    BY ONLY <1>3, <1>6, <2>1
  <2>3. b[j] = s[k + j]
    BY ONLY <1>3, <2>1
  <2> QED
    BY ONLY <1>7, <2>1, <2>2, <2>3
<1>12. PutAt(s, p, k) = c \o b
  BY DEF c, a, b, PutAt
<1> QED
  BY ONLY <1>6, <1>8, <1>9, <1>10, <1>11, <1>12 DEF Shifted

\* Insertion keeps the order if the name comes last as a text: it passes every
\* name that is no number, and stops only at a newer version (sort.Slice on
\* what os.ReadDir has sorted).
LEMMA InsertKeepsOrder ==
  ASSUME NEW s \in Seq(Path), NEW p \in Path, NewestFirst(s),
         \A i \in 1..Len(s) : TextRank[s[i]] < TextRank[p]
  PROVE  Insert(s, p) \in Seq(Path) /\ NewestFirst(Insert(s, p)) /\ ToSet(Insert(s, p)) = ToSet(s) \cup {p}
<1>1. PICK k \in 0..Len(s) :
        /\ Insert(s, p) = PutAt(s, p, k)
        /\ k > 0 => ~less(p, s[k])
        /\ \A i \in (k + 1)..Len(s) : less(p, s[i])
  BY InsertPlace
<1> DEFINE t == Insert(s, p)
<1>2. /\ t \in Seq(Path) /\ Len(t) = Len(s) + 1 /\ t[k + 1] = p
      /\ \A i \in 1..k : t[i] = s[i]
      /\ \A i \in (k + 2)..(Len(s) + 1) : t[i] = s[i - 1]
  <2>1. t = PutAt(s, p, k)
    BY <1>1
  <2> HIDE DEF t
  <2>2. t \in Seq(Path) /\ Shifted(t, s, p, k)
    BY ONLY <2>1, s \in Seq(Path), p \in Path, k \in 0..Len(s), Inserted
  <2> QED
    BY ONLY <2>2 DEF Shifted
<1> HIDE DEF t
<1>3. Len(s) \in Nat /\ k \in Nat /\ k <= Len(s)
  OBVIOUS
<1>4. \A i \in 1..Len(s) : s[i] \in Path /\ TextRank[s[i]] \in Int /\ VersionRank[s[i]] \in Int
  BY NameAssumption
<1>5. TextRank[p] \in Int /\ VersionRank[p] \in Int
  BY NameAssumption
<1>6. ASSUME NEW i \in 1..k, p \in Numbered, s[i] \in Numbered PROVE VersionRank[p] <= VersionRank[s[i]]
  <2>1. k \in 1..Len(s) /\ i \in 1..Len(s) /\ k > 0
    BY <1>3, <1>6
  <2>2. s[k] \in Path /\ ~less(p, s[k]) /\ TextRank[s[k]] < TextRank[p] /\ TextRank[s[k]] \in Int
    BY <1>1, <1>4, <2>1
  <2>3. s[k] \in Numbered
    <3>1. ~(TextRank[p] > TextRank[s[k]]) => FALSE
      BY ONLY <1>5, <2>2
    <3> QED
      BY <2>2, <3>1, Comparator
  <2>4. VersionRank[p] <= VersionRank[s[k]]
    BY <1>6, <2>2, <2>3, Comparator
  <2>5. i < k \/ i = k
    BY <1>3, <1>6
  <2>6. i = k \/ VersionRank[s[k]] <= VersionRank[s[i]]
    BY <1>6, <2>1, <2>3, <2>5 DEF NewestFirst
  <2>7. VersionRank[s[k]] \in Int /\ VersionRank[s[i]] \in Int
    BY <1>4, <2>1
  <2> QED
    BY ONLY <1>5, <2>4, <2>6, <2>7
<1>7. ASSUME NEW i \in (k + 1)..Len(s), p \in Numbered, s[i] \in Numbered PROVE VersionRank[s[i]] <= VersionRank[p]
  <2>1. i \in 1..Len(s)
    BY <1>3, <1>7
  <2>2. less(p, s[i]) /\ s[i] \in Path
    BY <1>1, <1>4, <1>7, <2>1
  <2> QED
    BY <1>7, <2>2, Comparator
<1>8. NewestFirst(t)
  <2>1. SUFFICES ASSUME NEW i \in 1..Len(t), NEW j \in 1..Len(t), i < j, t[i] \in Numbered, t[j] \in Numbered
                 PROVE  VersionRank[t[j]] <= VersionRank[t[i]]
    BY DEF NewestFirst
  <2>2. /\ i \in 1..k \/ i = k + 1 \/ i \in (k + 2)..(Len(s) + 1)
        /\ j \in 1..k \/ j = k + 1 \/ j \in (k + 2)..(Len(s) + 1)
    BY ONLY <1>2, <1>3, <2>1
  <2>3. CASE j \in 1..k
    <3>1. i \in 1..k /\ i \in 1..Len(s) /\ j \in 1..Len(s)
      BY ONLY <1>3, <2>1, <2>3
    <3>2. t[i] = s[i] /\ t[j] = s[j]
      BY <1>2, <2>3, <3>1
    <3> QED
      BY <2>1, <3>1, <3>2 DEF NewestFirst
  <2>4. CASE j = k + 1
    <3>1. i \in 1..k
      BY ONLY <1>3, <2>1, <2>4
    <3> QED
      BY <1>2, <1>6, <2>1, <2>4, <3>1
  <2>5. CASE j \in (k + 2)..(Len(s) + 1)
    <3>1. t[j] = s[j - 1] /\ j - 1 \in (k + 1)..Len(s) /\ j - 1 \in 1..Len(s)
      <4>1. j - 1 \in (k + 1)..Len(s) /\ j - 1 \in 1..Len(s)
        BY ONLY <1>3, <2>5
      <4> QED
        BY <1>2, <2>5, <4>1
    <3>2. CASE i \in 1..k
      <4>1. t[i] = s[i] /\ i \in 1..Len(s) /\ i < j - 1
        <5>1. i \in 1..Len(s) /\ i < j - 1
          BY ONLY <1>3, <2>5, <3>2
        <5> QED
          BY <1>2, <3>2, <5>1
      <4> QED
        BY <2>1, <3>1, <4>1 DEF NewestFirst
    <3>3. CASE i = k + 1
      BY <1>2, <1>7, <2>1, <3>1, <3>3
    <3>4. CASE i \in (k + 2)..(Len(s) + 1)
      <4>1. t[i] = s[i - 1]
        BY <1>2, <3>4
      <4>2. i - 1 \in 1..Len(s) /\ i - 1 < j - 1
        BY ONLY <1>3, <2>1, <2>5, <3>4
      <4> QED
        BY <2>1, <3>1, <4>1, <4>2 DEF NewestFirst
    <3> QED
      BY <2>2, <3>2, <3>3, <3>4
  <2> QED
    BY <2>2, <2>3, <2>4, <2>5
<1>9. ToSet(t) = ToSet(s) \cup {p}
  <2>1. DOMAIN t = 1..(Len(s) + 1) /\ DOMAIN s = 1..Len(s)
    BY <1>2
  <2>2. ASSUME NEW i \in 1..(Len(s) + 1) PROVE t[i] \in ToSet(s) \cup {p}
    <3>1. i \in 1..k \/ i = k + 1 \/ i \in (k + 2)..(Len(s) + 1)
      BY ONLY <1>3, <2>2
    <3>2. (i \in 1..k => i \in 1..Len(s)) /\ (i \in (k + 2)..(Len(s) + 1) => i - 1 \in 1..Len(s))
      BY ONLY <1>3
    <3> QED
      BY <1>2, <2>1, <3>1, <3>2 DEF ToSet
  <2>3. ASSUME NEW i \in 1..Len(s) PROVE s[i] \in ToSet(t)
    <3>1. i \in 1..k \/ i + 1 \in (k + 2)..(Len(s) + 1)
      BY ONLY <1>3, <2>3
    <3>2. (i + 1) - 1 = i /\ i \in 1..(Len(s) + 1) /\ i + 1 \in 1..(Len(s) + 1)
      BY ONLY <1>3, <2>3
    <3>3. s[i] = t[i] \/ s[i] = t[i + 1]
      BY <1>2, <3>1, <3>2
    <3> QED
      BY <2>1, <3>2, <3>3 DEF ToSet
  <2>4. p \in ToSet(t)
    <3>1. k + 1 \in 1..(Len(s) + 1)
      BY ONLY <1>3
    <3> QED
      BY <1>2, <2>1, <3>1 DEF ToSet
  <2> QED
    BY <2>1, <2>2, <2>3, <2>4 DEF ToSet
<1> QED
  BY <1>2, <1>8, <1>9 DEF t

\* A directory listing has a last name.
LEMMA LastOfNames ==
  ASSUME NEW names \in SUBSET Path, names # {}
  PROVE  LastName(names) \in names /\ \A q \in names : TextRank[q] <= TextRank[LastName(names)]
<1>1. \E p \in names : \A q \in names : TextRank[q] <= TextRank[p]
  BY PathAssumption, NameAssumption, FiniteLargest
<1> QED
  BY <1>1 DEF LastName

\* h is the recursive function of versionCandidates.
Sorts(h, found) ==
  h = [names \in SUBSET found |->
         IF names = {} THEN <<>> ELSE Insert(h[names \ {LastName(names)}], LastName(names))]

\* There is such a function.
LEMMA SortExists ==
  ASSUME NEW found \in SUBSET Path
  PROVE  \E h : Sorts(h, found)
<1> DEFINE V == Seq(Path)
           step == [w \in V \X found |-> Insert(w[1], w[2])]
           pick == [A \in SUBSET found |-> LastName(A)]
           base == <<>>
<1>1. IsFiniteSet(found)
  BY PathAssumption, FS_Subset
<1>2. \A A \in SUBSET found : A # {} => pick[A] \in A /\ pick[A] = LastName(A)
  BY LastOfNames
<1>3. step \in [V \X found -> V]
  <2>1. ASSUME NEW s \in Seq(Path), NEW p \in Path PROVE Insert(s, p) \in Seq(Path)
    BY InsertPlace, Inserted
  <2>2. \A w \in V \X found : w[1] \in Seq(Path) /\ w[2] \in Path
    OBVIOUS
  <2>3. \A w \in V \X found : Insert(w[1], w[2]) \in V
    BY <2>1, <2>2
  <2> HIDE DEF V
  <2> QED
    BY ONLY <2>3
<1>4. base \in V
  OBVIOUS
<1>5. \A v \in V, x \in found : step[<<v, x>>] = Insert(v, x)
  <2> HIDE DEF V
  <2> QED
    OBVIOUS
<1>b. base = <<>>
  OBVIOUS
<1> HIDE DEF V, step, pick, base
<1>6. PICK g \in [SUBSET found -> V] :
        \A A \in SUBSET found : g[A] = IF A = {} THEN base ELSE step[<<g[A \ {pick[A]}], pick[A]>>]
  <2>1. \A A \in SUBSET found : A # {} => pick[A] \in A
    BY ONLY <1>2
  <2>2. \E g \in [SUBSET found -> V] : Recurses(g, found, base, step, pick)
    BY ONLY <1>1, <1>3, <1>4, <2>1, FiniteRecursion
  <2> QED
    BY ONLY <2>2 DEF Recurses
<1>7. ASSUME NEW A \in SUBSET found
      PROVE  g[A] = IF A = {} THEN <<>> ELSE Insert(g[A \ {LastName(A)}], LastName(A))
  <2>1. CASE A = {}
    BY <1>6, <1>b, <2>1
  <2>2. CASE A # {}
    <3>1. pick[A] \in found /\ pick[A] = LastName(A) /\ A \ {pick[A]} \in SUBSET found
      BY <1>2, <2>2
    <3>2. g[A \ {pick[A]}] \in V
      BY <1>6, <3>1
    <3>3. g[A] = step[<<g[A \ {pick[A]}], pick[A]>>]
      BY <1>6, <2>2
    <3>4. step[<<g[A \ {pick[A]}], pick[A]>>] = Insert(g[A \ {pick[A]}], pick[A])
      BY ONLY <1>5, <3>1, <3>2
    <3> QED
      BY ONLY <2>2, <3>1, <3>3, <3>4
  <2> QED
    BY <2>1, <2>2
<1>8. Sorts(g, found)
  <2>1. g = [A \in SUBSET found |-> g[A]]
    BY <1>6
  <2> QED
    BY <1>7, <2>1 DEF Sorts
<1> QED
  BY <1>8

\* It sorts: nothing is lost, and newer versions come first.
LEMMA SortSorts ==
  ASSUME NEW found \in SUBSET Path, NEW h, Sorts(h, found),
         \A p, q \in found : p # q => TextRank[p] # TextRank[q]
  PROVE  h[found] \in Seq(Path) /\ ToSet(h[found]) = found /\ NewestFirst(h[found])
<1> DEFINE Good(A) == h[A] \in Seq(Path) /\ ToSet(h[A]) = A /\ NewestFirst(h[A])
           B == {A \in SUBSET found : ~Good(A)}
<1>1. SUFFICES ASSUME B # {} PROVE FALSE
  OBVIOUS
<1>2. IsFiniteSet(found) /\ B \subseteq SUBSET found
  BY PathAssumption, FS_Subset
<1>3. PICK x \in B : \A e \in x : x \ {e} \notin B
  <2> HIDE DEF B
  <2> QED
    BY ONLY <1>1, <1>2, FiniteMinimal
<1>4. x \in SUBSET found /\ ~Good(x)
  BY <1>3
<1>5. h[x] = IF x = {} THEN <<>> ELSE Insert(h[x \ {LastName(x)}], LastName(x))
  BY <1>4 DEF Sorts
<1>6. CASE x = {}
  <2>1. h[x] = <<>>
    BY <1>5, <1>6
  <2>2. <<>> \in Seq(Path) /\ ToSet(<<>>) = {} /\ NewestFirst(<<>>)
    BY DEF ToSet, NewestFirst
  <2> QED
    BY <1>4, <1>6, <2>1, <2>2
<1>7. CASE x # {}
  <2> DEFINE e == LastName(x)
             y == x \ {e}
  <2>1. e \in x /\ \A q \in x : TextRank[q] <= TextRank[e]
    BY <1>4, <1>7, LastOfNames
  <2>2. Good(y)
    BY <1>3, <1>4, <2>1
  <2>3. h[x] = Insert(h[y], e)
    BY <1>5, <1>7
  <2> HIDE DEF e
  <2>4. ASSUME NEW i \in 1..Len(h[y]) PROVE TextRank[h[y][i]] < TextRank[e]
    <3>1. h[y][i] \in y
      <4>1. h[y] \in Seq(Path) /\ ToSet(h[y]) = y
        BY <2>2
      <4> HIDE DEF y
      <4> QED
        BY ONLY <4>1, i \in 1..Len(h[y]) DEF ToSet
    <3>2. h[y][i] \in Path /\ e \in Path /\ TextRank[h[y][i]] <= TextRank[e] /\ TextRank[h[y][i]] # TextRank[e]
      BY <1>4, <2>1, <3>1
    <3>3. TextRank[h[y][i]] \in Int /\ TextRank[e] \in Int
      BY <3>2, Names
    <3> QED
      BY ONLY <3>2, <3>3
  <2>5. e \in Path /\ y \cup {e} = x
    BY <1>4, <2>1
  <2>6. h[y] \in Seq(Path) /\ ToSet(h[y]) = y /\ NewestFirst(h[y])
    BY <2>2
  <2> HIDE DEF y
  <2>7. /\ Insert(h[y], e) \in Seq(Path) /\ NewestFirst(Insert(h[y], e))
        /\ ToSet(Insert(h[y], e)) = ToSet(h[y]) \cup {e}
    BY ONLY <2>4, <2>5, <2>6, InsertKeepsOrder
  <2> QED
    BY <1>4, <2>3, <2>5, <2>6, <2>7
<1> QED
  BY <1>6, <1>7

\* The versions of a directory as Resolve finds them: all that are valid, the
\* newest first.
LEMMA VersionList ==
  ASSUME NEW dir, dir # NoDir
  PROVE  /\ versionCandidates(dir) \in Seq(Path) /\ NewestFirst(versionCandidates(dir))
         /\ ToSet(versionCandidates(dir)) = {p \in Path : VersionsOf[p] = dir /\ valid(p)}
<1> DEFINE found == {p \in Path : VersionsOf[p] = dir /\ valid(p)}
           h == CHOOSE h : Sorts(h, found)
<1>1. found \in SUBSET Path
  OBVIOUS
<1>2. \A p, q \in found : p # q => TextRank[p] # TextRank[q]
  BY NameAssumption
<1>3. versionCandidates(dir) = h[found]
  BY DEF versionCandidates, Sorts
<1>4. Sorts(h, found)
  <2> HIDE DEF found
  <2> QED
    BY <1>1, SortExists
<1>5. found = {p \in Path : VersionsOf[p] = dir /\ valid(p)}
  OBVIOUS
<1> HIDE DEF found, h
<1>6. h[found] \in Seq(Path) /\ ToSet(h[found]) = found /\ NewestFirst(h[found])
  BY ONLY <1>1, <1>2, <1>4, SortSorts
<1> QED
  BY ONLY <1>3, <1>5, <1>6

\* Four elements in a row.
LEMMA FourOf ==
  ASSUME NEW S, NEW a \in S, NEW b \in S, NEW c \in S, NEW d \in S
  PROVE  /\ <<a, b, c, d>> \in Seq(S) /\ <<a, b, c, d>> # <<>> /\ Head(<<a, b, c, d>>) = a
         /\ ToSet(<<a, b, c, d>>) = {a, b, c, d}
<1>1. <<a, b, c, d>> \in Seq(S) /\ <<a, b, c, d>> # <<>> /\ Head(<<a, b, c, d>>) = a
  OBVIOUS
<1>2. /\ DOMAIN <<a, b, c, d>> = 1..4 /\ <<a, b, c, d>>[1] = a /\ <<a, b, c, d>>[2] = b
      /\ <<a, b, c, d>>[3] = c /\ <<a, b, c, d>>[4] = d
  OBVIOUS
<1>3. 1..4 = {1, 2, 3, 4}
  OBVIOUS
<1>4. ToSet(<<a, b, c, d>>) = {a, b, c, d}
  BY ONLY <1>2, <1>3 DEF ToSet
<1> QED
  BY <1>1, <1>4

\* Five elements in a row.
LEMMA FiveOf ==
  ASSUME NEW S, NEW a \in S, NEW b \in S, NEW c \in S, NEW d \in S, NEW e \in S
  PROVE  <<a, b, c, d, e>> \in Seq(S)
OBVIOUS

\* What is left without the first two.
LEMMA WithoutTwo ==
  ASSUME NEW S, NEW s \in Seq(S), Len(s) >= 2
  PROVE  Tail(Tail(s)) \in Seq(S) /\ s[2] \in S
<1>1. Tail(s) \in Seq(S) /\ Len(Tail(s)) = Len(s) - 1 /\ s # <<>> /\ Len(s) \in Nat
  OBVIOUS
<1>2. s[2] \in S
  OBVIOUS
<1>3. Tail(s) # <<>>
  <2> DEFINE t == Tail(s)
  <2>1. t \in Seq(S) /\ Len(t) >= 1
    BY <1>1
  <2> HIDE DEF t
  <2>2. t # <<>>
    BY ONLY <2>1
  <2> QED
    BY <2>2 DEF t
<1> QED
  BY <1>1, <1>2, <1>3

\* A sequence over a part.
LEMMA SeqOfPart ==
  ASSUME NEW S, NEW A \in SUBSET S, NEW s \in Seq(A)
  PROVE  s \in Seq(S)
OBVIOUS

-----------------------------------------------------------------------------
(***************************************************************************)
(* Types.                                                                  *)
(***************************************************************************)
\* A version appears or goes.
VersionStep ==
  /\ UNCHANGED <<real, moves>>
  /\ \E p \in Versions, state \in FileState :
       /\ fs' = [fs EXCEPT ![p] = state]
       /\ steady' = (IF state = "exec" THEN steady ELSE {q \in steady : real[q] # p})

\* A link is moved.
LinkStep ==
  /\ fs' = fs /\ moves' = moves + 1
  /\ \E p \in Movable, q \in Goal : real' = [real EXCEPT ![p] = q] /\ steady' = steady \ {p}

\* The steps of updater and repair change files and no process.
LEMMA UpdateOnlyFiles ==
  ASSUME Update
  PROVE  /\ UNCHANGED <<pc, user, wanted, args, cfgPath, fallback, mode, cands, seen, target, ran, reentries>>
         /\ steady' \subseteq steady /\ changes' = changes + 1 /\ changes < MaxChanges
         /\ VersionStep \/ LinkStep
<1>1. CASE \E p \in Versions : Install(p) \/ Complete(p) \/ Delete(p)
  <2>1. PICK p \in Versions, state \in FileState : Change(p, state)
    BY <1>1 DEF Install, Complete, Delete, FileState
  <2> QED
    BY <2>1 DEF Change, Changed, argVars, listVars, VersionStep
<1>2. CASE \E p \in Movable, q \in Goal : Relink(p, q)
  BY <1>2 DEF Relink, Changed, argVars, listVars, LinkStep
<1> QED
  BY <1>1, <1>2 DEF Update

\* The arguments of the wrapper are arguments.
LEMMA WrapperArgsType ==
  ASSUME user \in Seq(Arg), wanted \in Path \cup {""}
  PROVE  WrapperArgs \in Seq(Arg)
<1>1. /\ Flag("config") \in Arg /\ Flag("fallback-bin") \in Arg /\ Flag("--") \in Arg
      /\ Word(DefaultConfig) \in Arg /\ Word(wanted) \in Arg
  BY ArgAssumption DEF Flag, Word, Arg, Option
<1>2. <<Flag("config"), Word(DefaultConfig), Flag("fallback-bin"), Word(wanted), Flag("--")>> \in Seq(Arg)
  BY <1>1, FiveOf
<1> QED
  BY <1>2, ElementsOfBoth DEF WrapperArgs

\* Which paths are texts.
LEMMA TextsOf ==
  /\ Path \subseteq Text /\ "" \in Text /\ DefaultConfig \in Text /\ "" \notin Path
  /\ Wrapper \in Path /\ Meter \in Path /\ RealCopy \in Path /\ Recovered \in Path
  /\ Links \in [Path -> Path]
BY PathAssumption, LinkAssumption, ArgAssumption DEF FixedPath

\* The candidates from one directory.
LEMMA FromDirIs ==
  ASSUME NEW c
  PROVE  /\ FromDir(c) \in Seq(Text) /\ NewestFirst(FromDir(c))
         /\ ToSet(FromDir(c)) = {p \in Path : VersionsOf[p] # NoDir /\ VersionsOf[p] = versionDir(c) /\ valid(p)}
<1>1. CASE versionDir(c) = NoDir
  <2>1. FromDir(c) = <<>>
    BY <1>1 DEF FromDir
  <2>2. <<>> \in Seq(Text) /\ NewestFirst(<<>>) /\ ToSet(<<>>) = {}
    BY DEF NewestFirst, ToSet
  <2> QED
    BY <1>1, <2>1, <2>2
<1>2. CASE versionDir(c) # NoDir
  <2> DEFINE dir == versionDir(c)
  <2>1. FromDir(c) = versionCandidates(dir)
    BY <1>2 DEF FromDir
  <2> HIDE DEF dir
  <2>2. /\ versionCandidates(dir) \in Seq(Path) /\ NewestFirst(versionCandidates(dir))
        /\ ToSet(versionCandidates(dir)) = {p \in Path : VersionsOf[p] = dir /\ valid(p)}
    BY <1>2, VersionList DEF dir
  <2>3. versionCandidates(dir) \in Seq(Text)
    BY <2>2, TextsOf, SeqOfPart
  <2> QED
    BY <1>2, <2>1, <2>2, <2>3 DEF dir
<1> QED
  BY <1>1, <1>2

\* All the candidates.
LEMMA CandidatesAre ==
  ASSUME NEW c \in Text, NEW o \in Text
  PROVE  /\ Candidates(c, o) \in Seq(Text)
         /\ ToSet(Candidates(c, o)) = ToSet(FromDir(c)) \cup ToSet(FromDir(o)) \cup {c, o, RealCopy, Recovered}
<1> DEFINE last == <<c, o, RealCopy, Recovered>>
<1>1. last \in Seq(Text) /\ ToSet(last) = {c, o, RealCopy, Recovered}
  <2>1. RealCopy \in Text /\ Recovered \in Text
    BY TextsOf
  <2> QED
    BY ONLY <2>1, c \in Text, o \in Text, FourOf
<1> DEFINE both == FromDir(c) \o FromDir(o)
<1>2. Candidates(c, o) = both \o last
  BY DEF Candidates
<1> HIDE DEF last
<1>3. FromDir(c) \in Seq(Text) /\ FromDir(o) \in Seq(Text)
  BY FromDirIs
<1>4. both \in Seq(Text) /\ ToSet(both) = ToSet(FromDir(c)) \cup ToSet(FromDir(o))
  BY ONLY <1>3, ElementsOfBoth
<1> HIDE DEF both
<1>5. Candidates(c, o) \in Seq(Text) /\ ToSet(Candidates(c, o)) = ToSet(both) \cup ToSet(last)
  BY ONLY <1>1, <1>2, <1>4, ElementsOfBoth
<1> QED
  BY ONLY <1>1, <1>4, <1>5

\* The candidates of the wrapper.
LEMMA WrapperCandidates ==
  ASSUME NEW w \in Text
  PROVE  /\ <<Meter, w, Recovered, RealCopy>> \in Seq(Text) /\ <<Meter, w, Recovered, RealCopy>> # <<>>
         /\ Head(<<Meter, w, Recovered, RealCopy>>) = Meter
         /\ ToSet(<<Meter, w, Recovered, RealCopy>>) = {Meter, w, Recovered, RealCopy}
<1>1. Meter \in Text /\ w \in Text /\ Recovered \in Text /\ RealCopy \in Text
  BY TextsOf
<1> QED
  BY ONLY <1>1, FourOf

\* An argument has a text and a value.
LEMMA ArgFields ==
  ASSUME NEW a \in Arg
  PROVE  a.text \in Text /\ a.value \in Text
BY DEF Arg

\* One turn of parseLaunchArgs keeps the types.
LEMMA ParseTypes ==
  ASSUME args \in Seq(Arg), cfgPath \in Text, fallback \in Text, Parse
  PROVE  /\ args' \in Seq(Arg) /\ cfgPath' \in Text /\ fallback' \in Text /\ pc' \in {"parse", "load"}
         /\ UNCHANGED <<fileVars, user, wanted, mode, cands, seen, target, ran, reentries>>
<1>0. pc = "parse" /\ UNCHANGED <<fileVars, user, wanted, mode, cands, seen, target, ran, reentries>>
  BY DEF Parse, listVars
<1>1. CASE args = <<>>
  <2>1. UNCHANGED <<args, cfgPath, fallback>> /\ pc' = "load"
    BY <1>1 DEF Parse
  <2> QED
    BY <1>0, <2>1
<1>2. CASE args # <<>>
  <2>1. Tail(args) \in Seq(Arg) /\ Head(args) \in Arg
    BY <1>2
  <2>2. Len(args) >= 2 => Tail(Tail(args)) \in Seq(Arg) /\ args[2] \in Arg
    BY WithoutTwo
  <2>3. Head(args).value \in Text /\ (Len(args) >= 2 => args[2].text \in Text)
    BY <2>1, <2>2, ArgFields
  <2>4. \/ args' = Tail(args)
        \/ Len(args) >= 2 /\ args' = Tail(Tail(args))
        \/ args' = args
    BY DEF Parse
  <2>5. \/ cfgPath' = cfgPath \/ cfgPath' = Head(args).value
        \/ Len(args) >= 2 /\ cfgPath' = args[2].text
    BY <1>2 DEF Parse
  <2>6. \/ fallback' = fallback \/ fallback' = Head(args).value
        \/ Len(args) >= 2 /\ fallback' = args[2].text
    BY <1>2 DEF Parse
  <2>7. pc' \in {"parse", "load"}
    BY <1>0 DEF Parse
  <2> QED
    BY <1>0, <2>1, <2>2, <2>3, <2>4, <2>5, <2>6, <2>7
<1> QED
  BY <1>1, <1>2

\* Who executes, and from when on.
ModeInv ==
  /\ pc \in {"parse", "load"} => mode = "shell"
  /\ pc = "scan" => mode # "shell"
  /\ mode = "launch" => cfgPath \in DOMAIN ClaudeBinary

\* A candidate is tried.
Trying == {"try", "resolve", "exec"}

\* What has been passed over was not there all the time, or is not allowed.
SeenInv ==
  pc \in Trying => \A p \in seen : p \in steady => real[p] \in Denied

\* What is executed is the first candidate, or what its links lead to.
HeadInv ==
  pc = "exec" =>
    /\ cands # <<>> /\ Head(cands) \in Path /\ (mode = "shell" => target = Head(cands))
    /\ Head(cands) \notin Movable => target \notin Movable /\ Links[target] = Links[Head(cands)]

\* The binary that the wrapper wanted reaches the launcher as its fallback.
FallbackInv ==
  /\ pc = "parse" => \/ wanted = "" \/ args \in {WrapperArgs, AfterConfig}
                     \/ args = AfterFallback /\ fallback = wanted
  /\ pc = "load" \/ mode # "shell" => wanted \in {"", fallback}

\* Whoever falls back to the wanted binary and the two copies has passed over
\* them, or still has them before it.
WantedInv ==
  pc \in Trying /\ mode # "launch" =>
    \A p \in {wanted, RealCopy, Recovered} : p \in Path => p \in ToSet(cands) \cup seen

\* The versions that StartsNewest compares.
Lasting == steady \cap Versions \cap Numbered

\* Each version that was there all the time comes before the older ones.
NewerBefore(s) ==
  \A i \in 1..Len(s), q \in Lasting :
    s[i] \in Numbered /\ VersionsOf[s[i]] = VersionsOf[q] =>
      VersionRank[q] <= VersionRank[s[i]] \/ \E j \in 1..(i - 1) : s[j] = q

ListInv == pc \in Trying /\ mode # "shell" => NewerBefore(cands)

\* The wrapper has chosen the newest version of its directory.
ChoiceInv ==
  /\ wanted \in Numbered => \A q \in Lasting :
       VersionsOf[q] = VersionsOf[wanted] => VersionRank[q] <= VersionRank[wanted]
  /\ pc \in Trying /\ mode = "shell" => ToSet(cands) \subseteq {Meter, wanted, Recovered, RealCopy}

\* What Resolve may consider for the two binaries.
Tried(configured, other) ==
  {configured, other, RealCopy, Recovered} \cup
    {p \in Path : VersionsOf[p] # NoDir /\ VersionsOf[p] \in {versionDir(configured), versionDir(other)}}

\* Before the first change every test is still true when the file is executed,
\* so that the launcher goes on to execClaude only if nothing can be executed.
MeterInv ==
  changes = 0 =>
    /\ \A p \in Path : /\ fs[p] # "busy" /\ (fs[p] = "exec" => real[p] = p)
                       /\ fs[real[p]] = "exec" => p \in steady
    /\ pc = "resolve" => fs[real[Head(cands)]] = "exec"
    /\ pc = "exec" => fs[real[target]] = "exec"
    /\ fs[Meter] = "exec" =>
         /\ pc \in Trying /\ mode = "shell" => cands # <<>> /\ Head(cands) = Meter
         /\ pc \in Trying /\ mode = "launch" =>
              \A p \in Tried(ClaudeBinary[cfgPath], fallback) : p \in ToSet(cands) \/ ~valid(p)
         /\ mode = "execClaude" /\ cfgPath \in DOMAIN ClaudeBinary =>
              /\ pc \in {"scan", "try", "failed"}
              /\ \A p \in Tried(ClaudeBinary[cfgPath], fallback) : ~valid(p)
              /\ pc = "try" => \A p \in ToSet(cands) : ~valid(p)
         /\ pc = "running" /\ cfgPath \in DOMAIN ClaudeBinary => ran.metered

\* Trying a candidate.
LEMMA TryTypes ==
  ASSUME cands \in Seq(Text), seen \subseteq Text, Try
  PROVE  /\ pc = "try" /\ cands # <<>> /\ Head(cands) \in Text
         /\ UNCHANGED <<fileVars, user, wanted, args, cfgPath, fallback, mode, ran, reentries>>
         /\ \/ /\ Usable(Head(cands)) /\ Head(cands) \in Path /\ UNCHANGED <<cands, seen>>
               /\ \/ mode = "shell" /\ pc' = "exec" /\ target' = Head(cands)
                  \/ mode # "shell" /\ pc' = "resolve" /\ target' = target
            \/ /\ ~Usable(Head(cands)) /\ UNCHANGED <<target, pc>>
               /\ cands' = Tail(cands) /\ seen' = seen \cup {Head(cands)}
               /\ cands' \in Seq(Text) /\ seen' \subseteq Text /\ ToSet(cands) = ToSet(cands') \cup {Head(cands)}
<1>1. pc = "try" /\ cands # <<>> /\ UNCHANGED <<fileVars, user, wanted, args, cfgPath, fallback, mode, ran, reentries>>
  BY DEF Try, argVars
<1>2. Head(cands) \in Text /\ Tail(cands) \in Seq(Text) /\ ToSet(cands) = {Head(cands)} \cup ToSet(Tail(cands))
  BY <1>1, ElementsOfTail
<1>3. CASE Usable(Head(cands))
  <2>1. Head(cands) \in Path
    BY <1>3 DEF Usable, valid, Executable
  <2>2. /\ UNCHANGED <<cands, seen>>
        /\ \/ mode = "shell" /\ pc' = "exec" /\ target' = Head(cands)
           \/ mode # "shell" /\ pc' = "resolve" /\ target' = target
    BY <1>3 DEF Try, listVars
  <2> QED
    BY <1>1, <1>2, <1>3, <2>1, <2>2
<1>4. CASE ~Usable(Head(cands))
  <2>1. UNCHANGED <<target, pc>> /\ cands' = Tail(cands) /\ seen' = seen \cup {Head(cands)}
    BY <1>4 DEF Try
  <2> QED
    BY <1>1, <1>2, <1>4, <2>1
<1> QED
  BY <1>3, <1>4

\* Replacing the image.
LEMMA ExecIs ==
  ASSUME Exec
  PROVE  /\ pc = "exec" /\ fs[real[target]] = "exec"
         /\ UNCHANGED <<fileVars, user, wanted, mode, cands, seen, target>>
         /\ \/ /\ mode = "shell" /\ target = Meter
               /\ pc' = "parse" /\ args' = WrapperArgs /\ cfgPath' = DefaultConfig /\ fallback' = ""
               /\ UNCHANGED <<ran, reentries>>
            \/ /\ ~(mode = "shell" /\ target = Meter) /\ pc' = "choose" /\ real[target] = Links[Wrapper]
               /\ reentries' = IF mode = "shell" \/ reentries > MaxChanges THEN reentries ELSE reentries + 1
               /\ UNCHANGED <<args, cfgPath, fallback, ran>>
            \/ /\ ~(mode = "shell" /\ target = Meter) /\ pc' = "running"
               /\ ran' = [path |-> real[target], metered |-> mode = "launch"]
               /\ args' = IF mode = "shell" THEN user ELSE args
               /\ UNCHANGED <<cfgPath, fallback, reentries>>
<1>1. pc = "exec" /\ fs[real[target]] = "exec" /\ UNCHANGED <<fileVars, user, wanted, mode, cands, seen, target>>
  BY DEF Exec, listVars
<1>2. CASE mode = "shell" /\ target = Meter
  BY <1>1, <1>2 DEF Exec
<1>3. CASE ~(mode = "shell" /\ target = Meter) /\ real[target] = Links[Wrapper]
  BY <1>1, <1>3 DEF Exec
<1>4. CASE ~(mode = "shell" /\ target = Meter) /\ real[target] # Links[Wrapper]
  BY <1>1, <1>4 DEF Exec
<1> QED
  BY <1>2, <1>3, <1>4

\* What links lead to is reached at once.
LEMMA LinksLeadTo ==
  ASSUME TypeOK, NEW p \in Path
  PROVE  real[p] \in Path /\ real[real[p]] = real[p] /\ real[p] \notin Movable
<1>1. real \in [Path -> Path] /\ \A r \in Path : IF r \in Movable THEN real[r] \in Goal ELSE real[r] = Links[r]
  BY DEF TypeOK
<1>2. real[p] \in Path
  BY <1>1
<1>3. CASE p \notin Movable
  BY <1>1, <1>2, <1>3, LinkAssumption
<1>4. CASE p \in Movable /\ real[p] \in Versions
  <2>1. real[p] \notin Movable /\ Links[real[p]] = real[p]
    BY <1>4, LinkAssumption DEF Versions
  <2> QED
    BY <1>1, <1>2, <2>1
<1>5. CASE p \in Movable /\ real[p] = Links[Wrapper]
  <2>1. Wrapper \in Path
    BY TextsOf
  <2>2. real[p] \notin Movable /\ Links[real[p]] = real[p]
    BY <1>5, <2>1, LinkAssumption
  <2> QED
    BY <1>1, <1>2, <2>2
<1> QED
  BY <1>1, <1>3, <1>4, <1>5 DEF Goal

\* Resolving again.
LEMMA ResolveIs ==
  ASSUME TypeOK, Resolve
  PROVE  /\ pc = "resolve" /\ pc' = "exec" /\ mode # "shell" /\ cands # <<>> /\ Head(cands) \in Path
         /\ target' \in Path /\ real[target'] = real[Head(cands)]
         /\ Head(cands) \notin Movable => target' \notin Movable /\ Links[target'] = Links[Head(cands)]
         /\ UNCHANGED <<fileVars, user, wanted, args, cfgPath, fallback, mode, cands, seen, ran, reentries>>
<1>1. /\ pc = "resolve" /\ pc' = "exec"
      /\ UNCHANGED <<fileVars, user, wanted, args, cfgPath, fallback, mode, cands, seen, ran, reentries>>
      /\ target' \in {Head(cands), real[Head(cands)]}
  BY DEF Resolve, argVars, listVars
<1>2. mode # "shell" /\ cands # <<>> /\ Head(cands) \in Path
  BY <1>1 DEF TypeOK
<1>3. target' \in Path /\ real[target'] = real[Head(cands)]
  BY <1>1, <1>2, LinksLeadTo
<1>4. ASSUME Head(cands) \notin Movable PROVE target' \notin Movable /\ Links[target'] = Links[Head(cands)]
  <2>1. target' \in {Head(cands), Links[Head(cands)]}
    BY <1>1, <1>2, <1>4 DEF TypeOK
  <2> QED
    BY <1>2, <1>4, <2>1, LinkAssumption
<1> QED
  BY <1>1, <1>2, <1>3, <1>4

\* Files and what was there all the time.
LEMMA UpdateTypes ==
  ASSUME TypeOK, Update
  PROVE  /\ fs' \in [Path -> FileState] /\ steady' \subseteq {p \in Path : fs'[real'[p]] = "exec"}
         /\ real' \in [Path -> Path] /\ \A p \in Path : IF p \in Movable THEN real'[p] \in Goal ELSE real'[p] = Links[p]
         /\ changes' \in 0..MaxChanges /\ changes' # 0 /\ moves' \in 0..changes'
         /\ \A p \in steady' : real'[p] = real[p]
<1>0. /\ fs \in [Path -> FileState] /\ steady \subseteq {q \in Path : fs[real[q]] = "exec"} /\ real \in [Path -> Path]
      /\ \A q \in Path : IF q \in Movable THEN real[q] \in Goal ELSE real[q] = Links[q]
  BY DEF TypeOK
<1>1. /\ changes' \in 0..MaxChanges /\ changes' # 0 /\ moves \in 0..changes' /\ moves + 1 \in 0..changes'
  <2>1. changes \in 0..MaxChanges /\ MaxChanges \in Nat /\ changes' = changes + 1 /\ changes < MaxChanges /\ moves \in 0..changes
    BY UpdateOnlyFiles, ArgAssumption DEF TypeOK
  <2> QED
    BY ONLY <2>1
<1>2. CASE VersionStep
  <2>1. PICK p \in Versions, state \in FileState :
          /\ fs' = [fs EXCEPT ![p] = state]
          /\ steady' = (IF state = "exec" THEN steady ELSE {q \in steady : real[q] # p})
    BY <1>2 DEF VersionStep
  <2>2. real' = real /\ moves' = moves /\ p \in Path
    BY <1>2 DEF VersionStep, Versions
  <2>3. fs' \in [Path -> FileState] /\ fs'[p] = state /\ \A q \in Path : q # p => fs'[q] = fs[q]
    BY <1>0, <2>1, <2>2
  <2>4. ASSUME NEW q \in steady' PROVE q \in Path /\ fs'[real[q]] = "exec"
    <3>1. q \in steady /\ q \in Path /\ fs[real[q]] = "exec" /\ (state = "exec" \/ real[q] # p) /\ real[q] \in Path
      BY <1>0, <2>1, <2>4
    <3> QED
      BY <2>3, <3>1
  <2> QED
    BY <1>0, <1>1, <2>2, <2>3, <2>4
<1>3. CASE LinkStep
  <2>1. PICK p \in Movable, q \in Goal : real' = [real EXCEPT ![p] = q] /\ steady' = steady \ {p}
    BY <1>3 DEF LinkStep
  <2>2. fs' = fs /\ moves' = moves + 1
    BY <1>3 DEF LinkStep
  <2>3. p \in Path /\ q \in Path
    BY LinkAssumption, TextsOf DEF Goal, Versions
  <2>4. real' \in [Path -> Path] /\ real'[p] = q /\ \A r \in Path : r # p => real'[r] = real[r]
    BY <1>0, <2>1, <2>3
  <2>5. \A r \in Path : IF r \in Movable THEN real'[r] \in Goal ELSE real'[r] = Links[r]
    BY <1>0, <2>4
  <2>6. \A r \in steady' : r \in Path /\ real'[r] = real[r] /\ fs[real[r]] = "exec"
    BY <1>0, <2>1, <2>4
  <2> QED
    BY <1>0, <1>1, <2>2, <2>4, <2>5, <2>6
<1> QED
  BY <1>2, <1>3, UpdateOnlyFiles

\* The parts of TypeOK that are about the process.
LEMMA TypeParts ==
  ASSUME TypeOK
  PROVE  /\ fs \in [Path -> FileState] /\ steady \subseteq {p \in Path : fs[real[p]] = "exec"}
         /\ real \in [Path -> Path] /\ \A p \in Path \ Movable : real[p] = Links[p]
         /\ user \in Seq(Arg) /\ args \in Seq(Arg) /\ wanted \in Path \cup {""} /\ wanted \in Text
         /\ cfgPath \in Text /\ fallback \in Text
         /\ mode \in {"shell", "launch", "execClaude"} /\ cands \in Seq(Text) /\ seen \subseteq Text
         /\ (pc = "exec" => target \in Path)
<1>1. user \in Seq(Arg)
  <2>1. user \in UserArgs \/ \E d \in DirectStarts : user = d[2]
    BY DEF TypeOK
  <2> QED
    BY <2>1, ArgAssumption
<1>2. wanted \in Text
  BY TextsOf DEF TypeOK
<1>3. pc = "exec" => target \in Path
  BY DEF TypeOK
<1> QED
  BY <1>1, <1>2, <1>3 DEF TypeOK

\* Every step keeps the types.
LEMMA TypesKept ==
  ASSUME TypeOK, ModeInv, [Next]_vars
  PROVE  TypeOK'
<1> USE TypeParts, TextsOf
<1>1. CASE Choose
  <2>1. wanted' \in Path \cup {""}
    BY <1>1, PathAssumption DEF Choose, Newest, Versions
  <2>2. cands' \in Seq(Text)
    BY <1>1, <2>1, WrapperCandidates DEF Choose
  <2>3. /\ UNCHANGED <<fileVars, user, args, cfgPath, fallback, target, ran, reentries>>
        /\ pc' = "try" /\ mode' = "shell" /\ seen' = {}
    BY <1>1 DEF Choose
  <2> QED
    BY <2>1, <2>2, <2>3 DEF TypeOK, fileVars
<1>2. CASE Try
  <2>1. UNCHANGED <<fileVars, user, wanted, args, cfgPath, fallback, mode, ran, reentries>> /\ pc = "try"
    BY <1>2, TryTypes
  <2>2. /\ cands' \in Seq(Text) /\ seen' \subseteq Text
        /\ \/ target' \in Path /\ pc' = "exec"
           \/ target' = target /\ pc' = "try"
           \/ target' = target /\ pc' = "resolve" /\ mode # "shell" /\ cands' # <<>> /\ Head(cands') \in Path
    BY <1>2, TryTypes
  <2> QED
    BY <2>1, <2>2 DEF TypeOK, fileVars
<1>3. CASE NoneLeft \/ ExecFails
  <2>1. UNCHANGED <<fileVars, user, wanted, args, cfgPath, fallback, cands, seen, target, ran, reentries>>
    BY <1>3 DEF NoneLeft, ExecFails, argVars, listVars
  <2>2. pc' \in {"scan", "failed"} /\ mode' \in {"shell", "launch", "execClaude"}
    BY <1>3 DEF NoneLeft, ExecFails, GiveUp
  <2> QED
    BY <2>1, <2>2 DEF TypeOK, fileVars
<1>4. CASE Exec
  <2>1. pc = "exec"
    BY <1>4 DEF Exec
  <2>2. target \in Path /\ real[target] \in Path
    BY <2>1
  <2>3. UNCHANGED <<fileVars, user, wanted, mode, cands, seen, target>>
    BY <1>4, <2>2, ExecIs
  <2>4. WrapperArgs \in Seq(Arg)
    BY WrapperArgsType
  <2>5. /\ pc' \in {"parse", "choose", "running"} /\ args' \in Seq(Arg) /\ cfgPath' \in Text /\ fallback' \in Text
        /\ ran' = ran \/ ran' = [path |-> real[target], metered |-> mode = "launch"]
    BY <1>4, <2>2, <2>4, ExecIs
  <2>7. reentries' \in Nat
    <3>1. reentries \in Nat
      BY DEF TypeOK
    <3>2. reentries' \in {reentries, reentries + 1}
      BY <1>4, ExecIs
    <3> QED
      BY ONLY <3>1, <3>2
  <2>6. ran' \in [path : Path \cup {""}, metered : BOOLEAN]
    <3>1. ran \in [path : Path \cup {""}, metered : BOOLEAN]
      BY DEF TypeOK
    <3>2. (mode = "launch") \in BOOLEAN
      OBVIOUS
    <3>3. [path |-> real[target], metered |-> mode = "launch"] \in [path : Path \cup {""}, metered : BOOLEAN]
      BY ONLY <2>2, <3>2
    <3> QED
      BY ONLY <2>5, <3>1, <3>3
  <2> QED
    BY <2>3, <2>5, <2>6, <2>7 DEF TypeOK, fileVars
<1>5. CASE Parse
  <2>1. /\ args' \in Seq(Arg) /\ cfgPath' \in Text /\ fallback' \in Text /\ pc' \in {"parse", "load"}
        /\ UNCHANGED <<fileVars, user, wanted, mode, cands, seen, target, ran, reentries>>
    BY <1>5, ParseTypes
  <2> QED
    BY <2>1 DEF TypeOK, fileVars
<1>6. CASE Load
  <2>1. fallback' \in Text
    BY <1>6, PathAssumption DEF Load
  <2>2. /\ UNCHANGED <<fileVars, user, wanted, args, cfgPath, cands, seen, target, ran, reentries>>
        /\ pc' = "scan" /\ mode' \in {"launch", "execClaude"}
    BY <1>6 DEF Load, listVars
  <2> QED
    BY <2>1, <2>2 DEF TypeOK, fileVars
<1>7. CASE Scan
  <2>1. mode = "launch" => ClaudeBinary[cfgPath] \in Text
    BY PathAssumption DEF ModeInv
  <2>2. cands' \in Seq(Text)
    BY <1>7, <2>1, CandidatesAre DEF Scan
  <2>3. /\ UNCHANGED <<fileVars, user, wanted, args, cfgPath, fallback, mode, target, ran, reentries>>
        /\ pc' = "try" /\ seen' = {}
    BY <1>7 DEF Scan, argVars
  <2> QED
    BY <2>2, <2>3 DEF TypeOK, fileVars
<1>10. CASE Resolve
  <2>1. /\ UNCHANGED <<fileVars, user, wanted, args, cfgPath, fallback, mode, cands, seen, ran, reentries>>
        /\ pc' = "exec" /\ target' \in Path
    BY <1>10, ResolveIs
  <2> QED
    BY <2>1 DEF TypeOK, fileVars
<1>8. CASE Update
  <2>1. UNCHANGED <<pc, user, wanted, args, cfgPath, fallback, mode, cands, seen, target, ran, reentries>>
    BY <1>8, UpdateOnlyFiles
  <2>2. /\ fs' \in [Path -> FileState] /\ steady' \subseteq {p \in Path : fs'[real'[p]] = "exec"}
        /\ real' \in [Path -> Path] /\ \A p \in Path : IF p \in Movable THEN real'[p] \in Goal ELSE real'[p] = Links[p]
        /\ changes' \in 0..MaxChanges /\ moves' \in 0..changes'
    BY <1>8, UpdateTypes
  <2> QED
    BY <2>1, <2>2 DEF TypeOK, fileVars
<1>9. CASE UNCHANGED vars
  BY <1>9 DEF TypeOK, vars, fileVars, argVars, listVars
<1> QED
  BY <1>1, <1>2, <1>3, <1>4, <1>5, <1>6, <1>7, <1>8, <1>9, <1>10 DEF Next, Start

\* Every step keeps to the order of the three that execute.
LEMMA ModeKept ==
  ASSUME TypeOK, ModeInv, [Next]_vars
  PROVE  ModeInv'
<1>1. CASE Choose
  BY <1>1 DEF Choose, ModeInv
<1>2. CASE Try
  <2>1. UNCHANGED <<mode, cfgPath>> /\ pc' \in {"try", "resolve", "exec"}
    BY <1>2, TypeParts, TryTypes
  <2> QED
    BY <2>1 DEF ModeInv
<1>3. CASE NoneLeft \/ ExecFails
  <2>1. /\ UNCHANGED cfgPath
        /\ \/ pc' = "scan" /\ mode' = "execClaude"
           \/ pc' = "failed" /\ mode' = mode
    BY <1>3 DEF NoneLeft, ExecFails, GiveUp, argVars
  <2> QED
    BY <2>1 DEF ModeInv
<1>4. CASE Exec
  <2>1. target \in Path
    BY <1>4, TypeParts DEF Exec
  <2>2. /\ mode' = mode
        /\ \/ mode = "shell" /\ pc' = "parse"
           \/ pc' \in {"choose", "running"} /\ cfgPath' = cfgPath
    BY <1>4, <2>1, ExecIs
  <2> QED
    BY <2>2 DEF ModeInv
<1>5. CASE Parse
  <2>1. pc = "parse" /\ mode' = mode
    BY <1>5 DEF Parse
  <2>2. mode = "shell"
    BY <2>1 DEF ModeInv
  <2>3. pc' \in {"parse", "load"}
    BY <1>5, TypeParts, ParseTypes
  <2> QED
    BY <2>1, <2>2, <2>3 DEF ModeInv
<1>6. CASE Load
  BY <1>6 DEF Load, ModeInv
<1>7. CASE Scan
  BY <1>7 DEF Scan, ModeInv, argVars
<1>8. CASE Update \/ UNCHANGED vars
  <2>1. UNCHANGED <<pc, mode, cfgPath>>
    BY <1>8, UpdateOnlyFiles DEF vars, argVars
  <2> QED
    BY <2>1 DEF ModeInv
<1>9. CASE Resolve
  <2>1. UNCHANGED <<mode, cfgPath>> /\ pc' = "exec" /\ pc = "resolve"
    BY <1>9, ResolveIs
  <2> QED
    BY <2>1 DEF ModeInv
<1> QED
  BY <1>1, <1>2, <1>3, <1>4, <1>5, <1>6, <1>7, <1>8, <1>9 DEF Next, Start

\* No file that was there all the time and is allowed is passed over.
LEMMA SeenKept ==
  ASSUME TypeOK, ModeInv, SeenInv, [Next]_vars
  PROVE  SeenInv'
<1>0. Denied' = Denied
  BY DEF Denied, Blocked
<1>1. CASE Choose \/ Scan
  BY <1>1 DEF Choose, Scan, SeenInv
<1>2. CASE Try
  <2>1. pc = "try" /\ steady' = steady /\ real' = real
    BY <1>2, TypeParts, TryTypes DEF fileVars
  <2>2. CASE seen' = seen
    BY <1>0, <2>1, <2>2 DEF SeenInv, Trying
  <2>3. CASE ~Usable(Head(cands)) /\ seen' = seen \cup {Head(cands)}
    <3> DEFINE c == Head(cands)
    <3>1. c \in seen \/ (c \in steady => real[c] \in Denied)
      <4>1. c \in steady => c \in Path /\ fs[real[c]] = "exec"
        BY TypeParts
      <4> QED
        BY <2>3, <4>1 DEF Usable, valid, Executable
    <3> HIDE DEF c
    <3>2. seen' = seen \cup {c}
      BY <2>3 DEF c
    <3> QED
      BY <1>0, <2>1, <3>1, <3>2 DEF SeenInv, Trying
  <2> QED
    BY <1>2, <2>2, <2>3, TypeParts, TryTypes
<1>3. CASE NoneLeft \/ ExecFails
  BY <1>3 DEF NoneLeft, ExecFails, GiveUp, SeenInv, Trying
<1>4. CASE Exec
  <2>1. target \in Path
    BY <1>4, TypeParts DEF Exec
  <2>2. pc' \in {"parse", "choose", "running"}
    BY <1>4, <2>1, ExecIs
  <2> QED
    BY <2>2 DEF SeenInv, Trying
<1>5. CASE Parse
  <2>1. pc' \in {"parse", "load"}
    BY <1>5, TypeParts, ParseTypes
  <2> QED
    BY <2>1 DEF SeenInv, Trying
<1>6. CASE Load
  BY <1>6 DEF Load, SeenInv, Trying
<1>7. CASE Update \/ UNCHANGED vars
  <2>1. UNCHANGED <<pc, seen>> /\ steady' \subseteq steady
    BY <1>7, UpdateOnlyFiles DEF vars, fileVars, listVars
  <2>2. \A p \in steady' : real'[p] = real[p]
    BY <1>7, UpdateTypes DEF vars, fileVars
  <2> QED
    BY <1>0, <2>1, <2>2 DEF SeenInv
<1>8. CASE Resolve
  <2>1. pc = "resolve" /\ UNCHANGED <<steady, seen, real>>
    BY <1>8, ResolveIs DEF fileVars
  <2> QED
    BY <1>0, <2>1 DEF SeenInv, Trying
<1> QED
  BY <1>1, <1>2, <1>3, <1>4, <1>5, <1>6, <1>7, <1>8 DEF Next, Start

\* What is executed stays the first candidate.
LEMMA HeadKept ==
  ASSUME TypeOK, ModeInv, HeadInv, [Next]_vars
  PROVE  HeadInv'
<1>1. CASE Choose \/ Scan \/ NoneLeft \/ ExecFails \/ Load
  BY <1>1 DEF Choose, Scan, NoneLeft, ExecFails, GiveUp, Load, HeadInv
<1>2. CASE Try
  <2>1. /\ pc = "try" /\ cands # <<>>
        /\ \/ pc' = "exec" /\ mode' = mode /\ target' = Head(cands) /\ cands' = cands /\ Head(cands) \in Path
           \/ pc' \in {"try", "resolve"}
    BY <1>2, TypeParts, TryTypes
  <2> QED
    BY <2>1 DEF HeadInv
<1>3. CASE Exec
  <2>1. target \in Path
    BY <1>3, TypeParts DEF Exec
  <2>2. pc' \in {"parse", "choose", "running"}
    BY <1>3, <2>1, ExecIs
  <2> QED
    BY <2>2 DEF HeadInv
<1>4. CASE Parse
  <2>1. pc' \in {"parse", "load"}
    BY <1>4, TypeParts, ParseTypes
  <2> QED
    BY <2>1 DEF HeadInv
<1>5. CASE Update \/ UNCHANGED vars
  <2>1. UNCHANGED <<pc, mode, cands, target>>
    BY <1>5, UpdateOnlyFiles DEF vars, listVars
  <2> QED
    BY <2>1 DEF HeadInv
<1>6. CASE Resolve
  BY <1>6, ResolveIs DEF HeadInv
<1> QED
  BY <1>1, <1>2, <1>3, <1>4, <1>5, <1>6 DEF Next, Start

\* Parsing finds the wanted binary among the arguments of the wrapper.
LEMMA FallbackParsed ==
  ASSUME TypeOK, FallbackInv, Parse
  PROVE  FallbackInv'
<1>0. pc = "parse" /\ UNCHANGED <<user, wanted, mode>>
  BY DEF Parse
<1>1. pc' \in {"parse", "load"}
  BY TypeParts, ParseTypes
<1>2. WrapperArgs' = WrapperArgs /\ AfterConfig' = AfterConfig /\ AfterFallback' = AfterFallback
  BY <1>0 DEF WrapperArgs, AfterConfig, AfterFallback, Word
<1>3. user \in Seq(Arg) /\ wanted \in Path \cup {""}
  BY TypeParts
<1>m. mode # "shell" => wanted \in {"", fallback}
  BY DEF FallbackInv
<1>4. CASE wanted = ""
  BY <1>0, <1>4 DEF FallbackInv
<1>5. CASE args = WrapperArgs /\ wanted # ""
  <2>1. args' = AfterConfig /\ pc' = "parse" /\ fallback' = fallback
    BY <1>0, <1>3, <1>5, Unwrap DEF Parse
  <2> QED
    BY <1>0, <1>2, <1>m, <2>1 DEF FallbackInv
<1>6. CASE args = AfterConfig /\ wanted # ""
  <2>1. args[2] = Word(wanted)
    BY <1>3, <1>6, Unwrap
  <2>2. args' = AfterFallback /\ pc' = "parse" /\ fallback' = args[2].text
    BY <1>0, <1>3, <1>6, Unwrap DEF Parse
  <2>3. fallback' = wanted
    <3>1. Word(wanted).text = wanted
      BY DEF Word
    <3> QED
      BY ONLY <2>1, <2>2, <3>1
  <2> QED
    BY <1>0, <1>2, <2>2, <2>3 DEF FallbackInv
<1>7. CASE args = AfterFallback /\ fallback = wanted
  <2>1. pc' = "load" /\ fallback' = fallback
    BY <1>0, <1>3, <1>7, Unwrap DEF Parse
  <2> QED
    BY <1>0, <1>7, <2>1 DEF FallbackInv
<1> QED
  BY <1>0, <1>4, <1>5, <1>6, <1>7 DEF FallbackInv

\* The wanted binary reaches the launcher.
LEMMA FallbackKept ==
  ASSUME TypeOK, ModeInv, FallbackInv, [Next]_vars
  PROVE  FallbackInv'
<1>1. CASE Choose
  BY <1>1 DEF Choose, FallbackInv
<1>2. CASE Try
  <2>1. pc = "try" /\ UNCHANGED <<wanted, fallback, mode>> /\ pc' \in {"try", "resolve", "exec"}
    BY <1>2, TypeParts, TryTypes
  <2> QED
    BY <2>1 DEF FallbackInv
<1>3. CASE NoneLeft \/ ExecFails
  <2>1. /\ UNCHANGED <<wanted, fallback>> /\ pc' \in {"scan", "failed"}
        /\ mode' # "shell" => mode # "shell"
    BY <1>3 DEF NoneLeft, ExecFails, GiveUp, argVars
  <2> QED
    BY <2>1 DEF FallbackInv
<1>4. CASE Exec
  <2>1. target \in Path
    BY <1>4, TypeParts DEF Exec
  <2>2. /\ UNCHANGED <<user, wanted, mode>>
        /\ \/ mode = "shell" /\ pc' = "parse" /\ args' = WrapperArgs
           \/ pc' \in {"choose", "running"} /\ fallback' = fallback
    BY <1>4, <2>1, ExecIs
  <2>3. WrapperArgs' = WrapperArgs
    BY <2>2 DEF WrapperArgs, Word
  <2> QED
    BY <2>2, <2>3 DEF FallbackInv
<1>5. CASE Parse
  BY <1>5, FallbackParsed
<1>6. CASE Load
  <2>1. wanted \in {"", fallback} /\ wanted' = wanted /\ pc' = "scan"
    BY <1>6 DEF Load, FallbackInv
  <2>2. fallback' = IF fallback = "" THEN EnvFallback ELSE fallback
    BY <1>6 DEF Load
  <2> QED
    BY <2>1, <2>2 DEF FallbackInv
<1>7. CASE Scan
  <2>1. pc = "scan" /\ UNCHANGED <<wanted, fallback, mode>> /\ pc' = "try"
    BY <1>7 DEF Scan, argVars
  <2> QED
    BY <2>1 DEF FallbackInv
<1>8. CASE Update \/ UNCHANGED vars
  <2>1. UNCHANGED <<pc, user, wanted, args, fallback, mode>>
    BY <1>8, UpdateOnlyFiles DEF vars, argVars
  <2> QED
    BY <2>1 DEF FallbackInv, WrapperArgs, AfterConfig, AfterFallback, Word
<1>9. CASE Resolve
  <2>1. pc' = "exec" /\ UNCHANGED <<wanted, fallback, mode>>
    BY <1>9, ResolveIs
  <2> QED
    BY <2>1 DEF FallbackInv
<1> QED
  BY <1>1, <1>2, <1>3, <1>4, <1>5, <1>6, <1>7, <1>8, <1>9 DEF Next, Start

\* The wanted binary and the copies stay in the lists of those who fall back.
LEMMA WantedKept ==
  ASSUME TypeOK, ModeInv, FallbackInv, WantedInv, [Next]_vars
  PROVE  WantedInv'
<1>1. CASE Choose
  <2>1. wanted' \in Path \cup {""}
    BY <1>1, PathAssumption DEF Choose, Newest, Versions
  <2>2. wanted' \in Text
    BY <2>1, TextsOf
  <2>3. ToSet(cands') = {Meter, wanted', Recovered, RealCopy}
    BY <1>1, <2>2, WrapperCandidates DEF Choose
  <2>4. \A p \in {wanted', RealCopy, Recovered} : p \in ToSet(cands') \cup seen'
    BY <2>3
  <2> QED
    BY <2>4 DEF WantedInv, Trying
<1>2. CASE Try
  <2>1. /\ pc = "try" /\ UNCHANGED <<wanted, mode>>
        /\ \/ cands' = cands /\ seen' = seen
           \/ seen' = seen \cup {Head(cands)} /\ ToSet(cands) = ToSet(cands') \cup {Head(cands)}
    BY <1>2, TypeParts, TryTypes
  <2>2. ToSet(cands') \cup seen' = ToSet(cands) \cup seen
    BY <2>1
  <2> QED
    BY <2>1, <2>2 DEF WantedInv, Trying
<1>3. CASE NoneLeft \/ ExecFails
  BY <1>3 DEF NoneLeft, ExecFails, GiveUp, WantedInv, Trying
<1>4. CASE Exec
  <2>1. target \in Path
    BY <1>4, TypeParts DEF Exec
  <2>2. pc' \in {"parse", "choose", "running"}
    BY <1>4, <2>1, ExecIs
  <2> QED
    BY <2>2 DEF WantedInv, Trying
<1>5. CASE Parse
  <2>1. pc' \in {"parse", "load"}
    BY <1>5, TypeParts, ParseTypes
  <2> QED
    BY <2>1 DEF WantedInv, Trying
<1>6. CASE Load
  BY <1>6 DEF Load, WantedInv, Trying
<1>7. CASE Scan
  <2>1. mode # "shell" /\ UNCHANGED <<wanted, mode>>
    BY <1>7 DEF Scan, ModeInv, argVars
  <2>2. CASE mode = "launch"
    BY <2>1, <2>2 DEF WantedInv, Trying
  <2>3. CASE mode # "launch"
    <3>1. cands' = Candidates("", fallback) /\ fallback \in Text /\ "" \in Text
      BY <1>7, <2>3, TypeParts, TextsOf DEF Scan
    <3>2. {fallback, RealCopy, Recovered} \subseteq ToSet(cands')
      BY <3>1, CandidatesAre
    <3>3. wanted \in {"", fallback} /\ "" \notin Path
      BY <2>1, TextsOf DEF FallbackInv
    <3>4. \A p \in {wanted, RealCopy, Recovered} : p \in Path => p \in ToSet(cands')
      BY <3>2, <3>3
    <3> QED
      BY <2>1, <3>4 DEF WantedInv, Trying
  <2> QED
    BY <2>2, <2>3
<1>8. CASE Update \/ UNCHANGED vars
  <2>1. UNCHANGED <<pc, wanted, mode, cands, seen>>
    BY <1>8, UpdateOnlyFiles DEF vars, argVars, listVars
  <2> QED
    BY <2>1 DEF WantedInv, Trying
<1>9. CASE Resolve
  <2>1. pc = "resolve" /\ UNCHANGED <<wanted, mode, cands, seen>>
    BY <1>9, ResolveIs
  <2> QED
    BY <2>1 DEF WantedInv, Trying
<1> QED
  BY <1>1, <1>2, <1>3, <1>4, <1>5, <1>6, <1>7, <1>8, <1>9 DEF Next, Start

\* The strengthening of ReentryCostsMove: a candidate that has passed the test
\* leads back only if a link was moved since.
PaidInv ==
  /\ reentries + (IF pc = "exec" /\ mode # "shell" /\ real[target] \in Denied THEN 1 ELSE 0) <= moves
  /\ pc = "resolve" /\ real[Head(cands)] \in Denied => reentries + 1 <= moves

\* A link that is moved pays for one more time.
LEMMA PaidByMove ==
  ASSUME TypeOK, PaidInv, Update
  PROVE  PaidInv'
<1>0. /\ UNCHANGED <<pc, mode, cands, target, reentries>> /\ Denied' = Denied /\ reentries \in Nat /\ moves \in Nat
      /\ VersionStep \/ LinkStep
  <2>1. changes \in 0..MaxChanges /\ moves \in 0..changes /\ reentries \in Nat
    BY DEF TypeOK
  <2>2. moves \in Nat
    BY ONLY <2>1
  <2> QED
    BY <2>1, <2>2, UpdateOnlyFiles DEF Denied, Blocked
<1>1. CASE VersionStep
  <2>1. UNCHANGED <<real, moves>>
    BY <1>1 DEF VersionStep
  <2> QED
    BY <1>0, <2>1 DEF PaidInv
<1>2. CASE LinkStep
  <2>1. moves' = moves + 1
    BY <1>2 DEF LinkStep
  <2>2. reentries <= moves
    BY <1>0 DEF PaidInv
  <2>3. reentries' + 1 <= moves' /\ reentries' + 0 <= moves'
    BY <1>0, <2>1, <2>2
  <2> QED
    BY <2>3 DEF PaidInv
<1> QED
  BY <1>0, <1>1, <1>2

\* Every step keeps PaidInv.
LEMMA PaidKept ==
  ASSUME TypeOK, PaidInv, [Next]_vars
  PROVE  PaidInv'
<1>0. Denied' = Denied /\ reentries \in Nat /\ moves \in Nat
  <2>1. changes \in 0..MaxChanges /\ moves \in 0..changes /\ reentries \in Nat
    BY DEF TypeOK
  <2>2. moves \in Nat
    BY ONLY <2>1
  <2> QED
    BY <2>1, <2>2 DEF Denied, Blocked
<1>1. reentries <= moves
  BY <1>0 DEF PaidInv
<1>2. ASSUME UNCHANGED <<moves, reentries>>, pc' \notin {"resolve", "exec"} PROVE PaidInv'
  BY <1>0, <1>1, <1>2 DEF PaidInv
<1>3. CASE Choose \/ NoneLeft \/ ExecFails \/ Load \/ Scan
  <2>1. UNCHANGED <<fileVars, reentries>> /\ pc' \notin {"resolve", "exec"}
    BY <1>3 DEF Choose, NoneLeft, ExecFails, GiveUp, Load, Scan
  <2> QED
    BY <1>2, <2>1 DEF fileVars
<1>4. CASE Try
  <2>1. UNCHANGED <<moves, reentries, real, mode>>
    BY <1>4, TypeParts, TryTypes DEF fileVars
  <2>2. \/ pc' = "try"
        \/ mode = "shell" /\ pc' = "exec"
        \/ mode # "shell" /\ pc' = "resolve" /\ Usable(Head(cands)) /\ cands' = cands
    BY <1>4, TypeParts, TryTypes
  <2>3. CASE pc' = "try"
    BY <1>2, <2>1, <2>3
  <2>4. CASE mode = "shell" /\ pc' = "exec"
    BY <1>0, <1>1, <2>1, <2>4 DEF PaidInv
  <2>5. CASE mode # "shell" /\ pc' = "resolve" /\ Usable(Head(cands)) /\ cands' = cands
    <3>1. real[Head(cands)] \notin Denied
      BY <2>5 DEF Usable, valid
    <3> QED
      BY <1>0, <1>1, <2>1, <2>5, <3>1 DEF PaidInv
  <2> QED
    BY <2>2, <2>3, <2>4, <2>5
<1>5. CASE Resolve
  <2>1. /\ pc = "resolve" /\ pc' = "exec" /\ real[target'] = real[Head(cands)]
        /\ UNCHANGED <<moves, reentries, real>>
    BY <1>5, ResolveIs DEF fileVars
  <2> QED
    BY <1>0, <1>1, <2>1 DEF PaidInv
<1>6. CASE Exec
  <2>1. /\ pc = "exec" /\ moves' = moves /\ pc' \in {"parse", "choose", "running"}
        /\ \/ reentries' = reentries
           \/ mode # "shell" /\ real[target] = Links[Wrapper] /\ reentries' \in {reentries, reentries + 1}
    BY <1>6, ExecIs DEF fileVars
  <2>2. Links[Wrapper] \in Denied
    BY DEF Denied, Blocked
  <2>3. reentries' <= moves'
    BY <1>0, <1>1, <2>1, <2>2 DEF PaidInv
  <2>4. reentries' \in Nat
    BY <1>0, <2>1
  <2> QED
    BY <2>1, <2>3, <2>4 DEF PaidInv
<1>7. CASE Parse
  <2>1. UNCHANGED <<moves, reentries>> /\ pc' \in {"parse", "load"}
    BY <1>7 DEF Parse, fileVars
  <2> QED
    BY <1>2, <2>1
<1>8. CASE Update
  BY <1>8, PaidByMove
<1>9. CASE UNCHANGED vars
  BY <1>0, <1>9 DEF PaidInv, vars, fileVars, listVars
<1> QED
  BY <1>3, <1>4, <1>5, <1>6, <1>7, <1>8, <1>9 DEF Next, Start

\* The inductive invariant of a start.
LInv == TypeOK /\ PaidInv /\ ModeInv /\ SeenInv /\ HeadInv /\ FallbackInv /\ WantedInv

\* A start begins with it.
LEMMA LInvInit == Init => LInv
<1> SUFFICES ASSUME Init PROVE LInv
  OBVIOUS
<1> USE ArgAssumption, TextsOf
<1>1. TypeOK
  <2>1. args \in Seq(Arg) /\ user \in UserArgs \cup {d[2] : d \in DirectStarts} /\ pc \in {"choose", "parse"}
    <3>1. CASE pc = "choose" /\ user \in UserArgs /\ args = <<>>
      <4>1. <<>> \in Seq(Arg)
        BY ONLY TRUE
      <4> QED
        BY <3>1, <4>1
    <3>2. CASE \E d \in DirectStarts : pc = "parse" /\ args = d[1] \o d[2] /\ user = d[2]
      <4>1. PICK d \in DirectStarts : pc = "parse" /\ args = d[1] \o d[2] /\ user = d[2]
        BY <3>2
      <4>2. d[1] \in Seq(Arg) /\ d[2] \in Seq(Arg)
        OBVIOUS
      <4>3. d[1] \o d[2] \in Seq(Arg)
        BY ONLY <4>2, ElementsOfBoth
      <4> QED
        BY <4>1, <4>3
    <3> QED
      BY <3>1, <3>2 DEF Init
  <2>2. fs \in [Path -> FileState] /\ steady \subseteq {p \in Path : fs[real[p]] = "exec"}
    BY DEF Init, FileState
  <2>3. changes \in 0..MaxChanges /\ moves \in 0..changes /\ reentries \in Nat
    <3>1. changes = 0 /\ moves = 0 /\ reentries = 0 /\ MaxChanges \in Nat
      BY DEF Init
    <3> QED
      BY ONLY <3>1
  <2>7. real \in [Path -> Path] /\ \A p \in Path : IF p \in Movable THEN real[p] \in Goal ELSE real[p] = Links[p]
    <3>1. PICK to \in [Movable -> Goal] : real = [p \in Path |-> IF p \in Movable THEN to[p] ELSE Links[p]]
      BY DEF Init
    <3>2. Goal \subseteq Path
      BY DEF Goal, Versions
    <3> QED
      BY <3>1, <3>2
  <2>4. wanted = "" /\ cfgPath = DefaultConfig /\ fallback = "" /\ mode = "shell" /\ target = "" /\ seen = {}
    BY DEF Init
  <2>5. cands \in Seq(Text)
    <3>1. <<>> \in Seq(Text)
      BY ONLY TRUE
    <3> QED
      BY <3>1 DEF Init
  <2>6. ran \in [path : Path \cup {""}, metered : BOOLEAN]
    BY DEF Init, NotRun
  <2> QED
    BY <2>1, <2>2, <2>3, <2>4, <2>5, <2>6, <2>7 DEF TypeOK
<1>4. PaidInv
  <2>1. pc \notin {"resolve", "exec"} /\ reentries = 0 /\ moves = 0
    BY DEF Init
  <2>2. ~(pc = "exec" /\ mode # "shell" /\ real[target] \in Denied)
    BY <2>1
  <2>3. 0 + 0 <= 0
    BY ONLY TRUE
  <2> QED
    BY <2>1, <2>2, <2>3 DEF PaidInv
<1>2. ModeInv /\ SeenInv /\ HeadInv /\ WantedInv
  BY DEF Init, ModeInv, SeenInv, HeadInv, WantedInv, Trying
<1>3. FallbackInv
  BY DEF Init, FallbackInv
<1> QED
  BY <1>1, <1>2, <1>3, <1>4 DEF LInv

\* Every step keeps it.
LEMMA LInvKept ==
  ASSUME LInv, [Next]_vars
  PROVE  LInv'
BY PaidKept, TypesKept, ModeKept, SeenKept, HeadKept, FallbackKept, WantedKept DEF LInv

\* Every start keeps the types, and the invariant that the results below need.
THEOREM StartTypes == Spec => []TypeOK
<1>1. LInv => TypeOK
  BY DEF LInv
<1> QED
  BY LInvInit, LInvKept, <1>1, PTL DEF Spec

\* The launcher executes the wrapper only when a link was moved between its
\* test and its second look, and each move lets it do so once: whatever moves
\* the links, and however often the two have executed each other.
THEOREM ReentriesArePaid == Spec => []ReentryCostsMove
<1>1. LInv => ReentryCostsMove
  BY DEF LInv, PaidInv, ReentryCostsMove
<1> QED
  BY LInvInit, LInvKept, <1>1, PTL DEF Spec

\* Metering never prevents Claude from starting: who gives up has passed over
\* the wanted binary and both copies, and each of them was missing for a
\* moment, or is the wrapper or the meter itself.  For any links, any updater
\* and any arguments.
THEOREM MeteringPreventsNothing == Spec => MeterNeverPrevents
<1>1. ASSUME LInv, Next, pc # "failed", pc' = "failed",
             ~(pc = "exec" /\ mode # "launch" /\ fs[real[target]] # "exec"),
             NEW p \in {wanted, RealCopy, Recovered}, p \in steady
      PROVE  real[p] \in Denied
  <2> USE DEF LInv
  <2>1. CASE NoneLeft
    <3>1. pc = "try" /\ cands = <<>> /\ mode # "launch"
      BY <1>1, <2>1 DEF NoneLeft, GiveUp
    <3>2. ToSet(cands) = {}
      BY <3>1 DEF ToSet
    <3>3. p \in seen
      <4>1. p \in Path
        BY <1>1, TypeParts
      <4> QED
        BY <1>1, <3>1, <3>2, <4>1 DEF WantedInv, Trying
    <3> QED
      BY <1>1, <3>1, <3>3 DEF SeenInv, Trying
  <2>2. CASE ExecFails
    BY <1>1, <2>2 DEF ExecFails, GiveUp
  <2>3. CASE Try
    <3>1. pc' \in {"try", "resolve", "exec"}
      BY <1>1, <2>3, TypeParts, TryTypes
    <3> QED
      BY <1>1, <3>1
  <2>4. CASE Exec
    <3>1. target \in Path
      BY <1>1, <2>4, TypeParts DEF Exec
    <3>2. pc' \in {"parse", "choose", "running"}
      BY <1>1, <2>4, <3>1, ExecIs
    <3> QED
      BY <1>1, <3>2
  <2>5. CASE Parse
    <3>1. pc' \in {"parse", "load"}
      BY <1>1, <2>5, TypeParts, ParseTypes
    <3> QED
      BY <1>1, <3>1
  <2>6. CASE Choose \/ Load \/ Scan \/ Resolve
    BY <1>1, <2>6 DEF Choose, Load, Scan, Resolve
  <2>7. CASE Update
    BY <1>1, <2>7, UpdateOnlyFiles
  <2> QED
    BY <1>1, <2>1, <2>2, <2>3, <2>4, <2>5, <2>6, <2>7 DEF Next, Start
<1> DEFINE GivesUp == pc # "failed" /\ pc' = "failed" /\ ~(pc = "exec" /\ mode # "launch" /\ fs[real[target]] # "exec")
<1>2. LInv /\ [Next]_vars =>
        [ GivesUp => \A p \in {wanted, RealCopy, Recovered} : p \in steady => real[p] \in Denied ]_vars
  BY <1>1
<1> QED
  BY LInvInit, LInvKept, <1>2, PTL DEF Spec, MeterNeverPrevents

-----------------------------------------------------------------------------
(***************************************************************************)
(* The newest version.                                                     *)
(***************************************************************************)
\* No path leads to a version through a link, but those that are moved: the
\* installer resolves the binary before it is saved (readlink -f,
\* install-launcher.sh), and versions are files.
Resolved == \A p \in Path \ Movable : VersionsOf[Links[p]] # NoDir => Links[p] = p

\* The saved binary, if it is a version, is one of the saved directory: the
\* installer writes both together (install-launcher.sh).
SavedTogether ==
  SavedReal \in Path => VersionsOf[SavedReal] \in {NoDir, SavedDir}

\* A version that was there all the time can be executed.
LEMMA LastingValid ==
  ASSUME TypeOK, Resolved, NEW q \in Lasting
  PROVE  /\ q \in Path /\ q \in Numbered /\ q \in steady /\ real[q] = q /\ VersionsOf[q] # NoDir
         /\ fs[q] = "exec" /\ q \notin Denied /\ valid(q)
<1>1. /\ q \in Path /\ q \in Numbered /\ q \in steady /\ real[q] = q /\ VersionsOf[q] # NoDir
      /\ fs[q] = "exec"
  <2>1. q \in Path /\ q \in Numbered /\ q \in steady /\ Links[q] = q /\ VersionsOf[q] # NoDir
    BY DEF Lasting, Versions
  <2>2. q \notin Movable
    BY <2>1, LinkAssumption
  <2> QED
    BY <2>1, <2>2, TypeParts
<1>2. VersionsOf[Wrapper] = NoDir /\ VersionsOf[Meter] = NoDir
      /\ Wrapper \in Path \ Movable /\ Meter \in Path \ Movable
  BY PathAssumption, LinkAssumption DEF FixedPath
<1>3. q \notin Denied
  BY <1>1, <1>2 DEF Denied, Blocked, Resolved
<1> QED
  BY <1>1, <1>3 DEF valid, Executable

\* Two lists one after the other.
LEMMA NewerInBoth ==
  ASSUME NEW s \in Seq(Text), NEW t \in Seq(Text), NewerBefore(s),
         \A i \in 1..Len(t), q \in Lasting :
           t[i] \in Numbered /\ VersionsOf[t[i]] = VersionsOf[q] =>
             \/ VersionRank[q] <= VersionRank[t[i]]
             \/ q \in ToSet(s)
             \/ \E j \in 1..(i - 1) : t[j] = q
  PROVE  NewerBefore(s \o t)
<1> DEFINE u == s \o t
<1>1. /\ Len(u) = Len(s) + Len(t) /\ \A i \in 1..Len(s) : u[i] = s[i]
      /\ \A i \in 1..Len(t) : u[Len(s) + i] = t[i]
  BY ElementsOfBoth
<1>2. Len(s) \in Nat /\ Len(t) \in Nat
  OBVIOUS
<1> HIDE DEF u
<1>3. SUFFICES ASSUME NEW i \in 1..Len(u), NEW q \in Lasting,
                      u[i] \in Numbered, VersionsOf[u[i]] = VersionsOf[q],
                      ~(VersionRank[q] <= VersionRank[u[i]])
               PROVE  \E j \in 1..(i - 1) : u[j] = q
  BY DEF NewerBefore, u
<1>4. CASE i <= Len(s)
  <2>1. i \in 1..Len(s) /\ u[i] = s[i]
    BY <1>1, <1>2, <1>4
  <2>2. PICK j \in 1..(i - 1) : s[j] = q
    BY <1>3, <2>1 DEF NewerBefore
  <2>3. j \in 1..Len(s)
    BY ONLY <1>2, <2>1, j \in 1..(i - 1)
  <2> QED
    BY <1>1, <2>2, <2>3
<1>5. CASE i > Len(s)
  <2> DEFINE k == i - Len(s)
  <2>1. k \in 1..Len(t) /\ Len(s) + k = i /\ i \in Nat
    BY <1>1, <1>2, <1>5
  <2> HIDE DEF k
  <2>2. u[i] = t[k]
    BY <1>1, <2>1
  <2>3. q \in ToSet(s) \/ \E j \in 1..(k - 1) : t[j] = q
    BY <1>3, <2>1, <2>2
  <2>4. CASE q \in ToSet(s)
    <3>1. PICK j \in 1..Len(s) : s[j] = q
      BY <2>4, PlaceOf
    <3>2. j \in 1..(i - 1)
      BY ONLY <1>2, <2>1, j \in 1..Len(s)
    <3> QED
      BY <1>1, <3>1, <3>2
  <2>5. CASE \E j \in 1..(k - 1) : t[j] = q
    <3>1. PICK j \in 1..(k - 1) : t[j] = q
      BY <2>5
    <3>2. j \in 1..Len(t) /\ Len(s) + j \in 1..(i - 1)
      BY ONLY <1>2, <2>1, j \in 1..(k - 1)
    <3> QED
      BY <1>1, <3>1, <3>2
  <2> QED
    BY <2>3, <2>4, <2>5
<1> QED
  BY <1>2, <1>4, <1>5

\* A directory is listed from its newest version on, and completely.
LEMMA NewerInDir ==
  ASSUME TypeOK, Resolved, NEW c
  PROVE  /\ NewerBefore(FromDir(c))
         /\ \A q \in Lasting : VersionsOf[q] = versionDir(c) => q \in ToSet(FromDir(c))
<1> DEFINE s == FromDir(c)
<1>1. /\ s \in Seq(Text) /\ NewestFirst(s)
      /\ ToSet(s) = {p \in Path : VersionsOf[p] # NoDir /\ VersionsOf[p] = versionDir(c) /\ valid(p)}
  BY FromDirIs
<1> HIDE DEF s
<1>2. \A q \in Lasting : VersionsOf[q] = versionDir(c) => q \in ToSet(s)
  BY <1>1, LastingValid
<1>3. ASSUME NEW i \in 1..Len(s), NEW q \in Lasting, s[i] \in Numbered, VersionsOf[s[i]] = VersionsOf[q],
             ~(VersionRank[q] <= VersionRank[s[i]])
      PROVE  \E j \in 1..(i - 1) : s[j] = q
  <2>1. s[i] \in ToSet(s)
    BY <1>1, ElementIn
  <2>2. q \in ToSet(s) /\ q \in Numbered
    BY <1>1, <1>2, <1>3, <2>1, LastingValid
  <2>3. PICK j \in 1..Len(s) : s[j] = q
    BY <1>1, <2>2, PlaceOf
  <2>4. VersionRank[s[i]] \in Int /\ Len(s) \in Nat
    BY <1>1, <1>3, Names DEF Numbered
  <2>5. i # j
    BY <1>3, <2>3, <2>4
  <2>6. ~(i < j)
    BY <1>1, <1>3, <2>2, <2>3 DEF NewestFirst
  <2>7. j \in 1..(i - 1)
    BY ONLY <2>4, <2>5, <2>6, i \in 1..Len(s), j \in 1..Len(s)
  <2> QED
    BY <2>3, <2>7
<1>4. NewerBefore(s)
  BY <1>3 DEF NewerBefore
<1> QED
  BY <1>2, <1>4 DEF s

\* So are the candidates.
LEMMA NewerCandidates ==
  ASSUME TypeOK, Resolved, NEW c \in Text, NEW o \in Text
  PROVE  NewerBefore(Candidates(c, o))
<1> DEFINE s == FromDir(c)
           t == FromDir(o)
           last == <<c, o, RealCopy, Recovered>>
<1>1. s \in Seq(Text) /\ t \in Seq(Text)
  BY FromDirIs
<1>2. last \in Seq(Text) /\ ToSet(last) = {c, o, RealCopy, Recovered}
  <2>1. RealCopy \in Text /\ Recovered \in Text
    BY TextsOf
  <2> QED
    BY ONLY <2>1, c \in Text, o \in Text, FourOf
<1>3. NewerBefore(s) /\ NewerBefore(t)
  BY NewerInDir
<1>4. \A q \in Lasting : /\ VersionsOf[q] = versionDir(c) => q \in ToSet(s)
                         /\ VersionsOf[q] = versionDir(o) => q \in ToSet(t)
  BY NewerInDir
<1>5. Candidates(c, o) = (s \o t) \o last
  BY DEF Candidates
<1> HIDE DEF s, t, last
<1>6. s \o t \in Seq(Text) /\ ToSet(s \o t) = ToSet(s) \cup ToSet(t)
  BY <1>1, ElementsOfBoth
<1>7. NewerBefore(s \o t)
  <2>1. \A i \in 1..Len(t), q \in Lasting :
          t[i] \in Numbered /\ VersionsOf[t[i]] = VersionsOf[q] =>
            \/ VersionRank[q] <= VersionRank[t[i]]
            \/ q \in ToSet(s)
            \/ \E j \in 1..(i - 1) : t[j] = q
    BY <1>3 DEF NewerBefore
  <2> QED
    BY <1>1, <1>3, <2>1, NewerInBoth
<1>8. ASSUME NEW i \in 1..Len(last), NEW q \in Lasting, last[i] \in Numbered, VersionsOf[last[i]] = VersionsOf[q]
      PROVE  q \in ToSet(s \o t)
  <2>1. last[i] \in {c, o, RealCopy, Recovered} /\ last[i] \in Path
    <3>1. last[i] \in ToSet(last)
      BY ONLY <1>2, i \in 1..Len(last), ElementIn
    <3> QED
      BY <1>2, <1>8, <3>1 DEF Numbered
  <2>2. VersionsOf[q] # NoDir
    BY LastingValid
  <2>3. VersionsOf[RealCopy] = NoDir /\ VersionsOf[Recovered] = NoDir
    BY PathAssumption DEF FixedPath
  <2>4. last[i] = c \/ last[i] = o
    BY <1>8, <2>1, <2>2, <2>3
  <2>5. VersionsOf[q] = versionDir(c) \/ VersionsOf[q] = versionDir(o)
    BY <1>8, <2>1, <2>4 DEF versionDir
  <2> QED
    BY <1>4, <1>6, <2>5
<1> DEFINE both == s \o t
<1>9. both \in Seq(Text) /\ NewerBefore(both)
  BY <1>6, <1>7
<1>10. \A i \in 1..Len(last), q \in Lasting :
         last[i] \in Numbered /\ VersionsOf[last[i]] = VersionsOf[q] => q \in ToSet(both)
  BY <1>8
<1>11. Candidates(c, o) = both \o last
  BY <1>5
<1> HIDE DEF both
<1> QED
  BY <1>2, <1>9, <1>10, <1>11, NewerInBoth

\* A list without its first element, which cannot be used.
LEMMA NewerWithoutHead ==
  ASSUME TypeOK, Resolved, SeenInv, pc = "try", mode # "shell", cands # <<>>,
         ~Usable(Head(cands)), NewerBefore(cands)
  PROVE  NewerBefore(Tail(cands))
<1> DEFINE t == Tail(cands)
<1>1. /\ cands \in Seq(Text) /\ cands[1] = Head(cands) /\ Len(cands) \in Nat /\ Len(cands) >= 1
      /\ Len(t) = Len(cands) - 1 /\ \A i \in 1..Len(t) : t[i] = cands[i + 1]
  <2>1. cands \in Seq(Text)
    BY TypeParts
  <2> QED
    BY ONLY <2>1, cands # <<>>, ElementsOfTail
<1> HIDE DEF t
<1>2. ASSUME NEW q \in Lasting PROVE cands[1] # q
  <2>1. q \in Path /\ q \in steady /\ real[q] = q /\ q \notin Denied /\ valid(q)
    BY LastingValid
  <2>2. q \notin seen
    BY <2>1 DEF SeenInv, Trying
  <2>3. Usable(q)
    BY <2>1, <2>2 DEF Usable
  <2> QED
    BY <1>1, <2>3
<1>3. SUFFICES ASSUME NEW i \in 1..Len(t), NEW q \in Lasting, t[i] \in Numbered, VersionsOf[t[i]] = VersionsOf[q],
                      ~(VersionRank[q] <= VersionRank[t[i]])
               PROVE  \E j \in 1..(i - 1) : t[j] = q
  BY DEF NewerBefore, t
<1>4. i + 1 \in 1..Len(cands) /\ t[i] = cands[i + 1] /\ (i + 1) - 1 = i /\ i \in Nat
  BY <1>1
<1>5. PICK j \in 1..((i + 1) - 1) : cands[j] = q
  BY <1>3, <1>4 DEF NewerBefore
<1>6. j # 1
  BY <1>2, <1>5
<1>7. j - 1 \in 1..(i - 1) /\ j - 1 \in 1..Len(t) /\ (j - 1) + 1 = j
  BY ONLY <1>1, <1>4, <1>6, i \in 1..Len(t), j \in 1..((i + 1) - 1)
<1>8. t[j - 1] = q
  BY <1>1, <1>5, <1>7
<1> QED
  BY <1>7, <1>8

\* The candidates of the launcher stay in that order.
LEMMA ListKept ==
  ASSUME Resolved, TypeOK, ModeInv, SeenInv, ListInv, [Next]_vars
  PROVE  ListInv'
<1>1. CASE Choose \/ NoneLeft \/ ExecFails \/ Load
  BY <1>1 DEF Choose, NoneLeft, ExecFails, GiveUp, Load, ListInv, Trying
<1>2. CASE Try
  <2>1. pc = "try" /\ cands # <<>> /\ mode' = mode /\ steady' = steady
    BY <1>2, TypeParts, TryTypes DEF fileVars
  <2>2. CASE mode = "shell"
    BY <2>1, <2>2 DEF ListInv, Trying
  <2>3. CASE mode # "shell"
    <3>1. NewerBefore(cands)
      BY <2>1, <2>3 DEF ListInv, Trying
    <3>2. \/ cands' = cands
          \/ ~Usable(Head(cands)) /\ cands' = Tail(cands)
      BY <1>2, TypeParts, TryTypes
    <3>3. \A s : NewerBefore(s) => \A i \in 1..Len(s), q \in Lasting :
            s[i] \in Numbered /\ VersionsOf[s[i]] = VersionsOf[q] =>
              VersionRank[q] <= VersionRank[s[i]] \/ \E j \in 1..(i - 1) : s[j] = q
      BY DEF NewerBefore
    <3>4. NewerBefore(cands') /\ Lasting' = Lasting
      BY <2>1, <2>3, <3>1, <3>2, NewerWithoutHead DEF Lasting
    <3>5. NewerBefore(cands)'
      BY <3>3, <3>4 DEF NewerBefore
    <3> QED
      BY <3>5 DEF ListInv, Trying
  <2> QED
    BY <2>2, <2>3
<1>3. CASE Exec
  <2>1. target \in Path
    BY <1>3, TypeParts DEF Exec
  <2>2. pc' \in {"parse", "choose", "running"}
    BY <1>3, <2>1, ExecIs
  <2> QED
    BY <2>2 DEF ListInv, Trying
<1>4. CASE Parse
  <2>1. pc' \in {"parse", "load"}
    BY <1>4, TypeParts, ParseTypes
  <2> QED
    BY <2>1 DEF ListInv, Trying
<1>5. CASE Scan
  <2>1. steady' = steady /\ Lasting' = Lasting
    BY <1>5 DEF Scan, fileVars, Lasting
  <2>2. PICK c \in Text : cands' = Candidates(c, fallback)
    <3>1. mode = "launch" => ClaudeBinary[cfgPath] \in Text
      BY PathAssumption, TextsOf DEF ModeInv
    <3> QED
      BY <1>5, <3>1, TextsOf DEF Scan
  <2>3. NewerBefore(cands')
    BY <2>2, TypeParts, NewerCandidates
  <2>4. NewerBefore(cands)'
    BY <2>1, <2>3 DEF NewerBefore
  <2> QED
    BY <2>4 DEF ListInv, Trying
<1>6. CASE Update \/ UNCHANGED vars
  <2>1. UNCHANGED <<pc, mode, cands>> /\ steady' \subseteq steady
    BY <1>6, UpdateOnlyFiles DEF vars, fileVars, listVars
  <2>2. Lasting' \subseteq Lasting
    BY <2>1 DEF Lasting
  <2>3. NewerBefore(cands) => NewerBefore(cands)'
    BY <2>1, <2>2 DEF NewerBefore
  <2> QED
    BY <2>1, <2>3 DEF ListInv, Trying
<1>7. CASE Resolve
  <2>1. pc = "resolve" /\ UNCHANGED <<mode, cands, steady>>
    BY <1>7, ResolveIs DEF fileVars
  <2>2. NewerBefore(cands) => NewerBefore(cands)'
    BY <2>1 DEF NewerBefore, Lasting
  <2> QED
    BY <2>1, <2>2 DEF ListInv, Trying
<1> QED
  BY <1>1, <1>2, <1>3, <1>4, <1>5, <1>6, <1>7 DEF Next, Start

\* find | sort -V | tail -1 chooses the newest version.
LEMMA ChoiceMade ==
  ASSUME TypeOK, SavedTogether, Choose
  PROVE  ChoiceInv'
<1>1. /\ wanted' \in Path \cup {""} /\ wanted' \in Text /\ steady' = steady
      /\ cands' = <<Meter, wanted', Recovered, RealCopy>>
  BY PathAssumption, TextsOf DEF Choose, Newest, Versions, fileVars
<1>2. ToSet(cands') = {Meter, wanted', Recovered, RealCopy}
  BY <1>1, WrapperCandidates
<1>3. ASSUME NEW q \in Lasting, wanted' \in Numbered, VersionsOf[q] = VersionsOf[wanted']
      PROVE  VersionRank[q] <= VersionRank[wanted']
  <2>0. q \in Path /\ q \in steady /\ Links[q] = q /\ VersionsOf[q] # NoDir /\ q \in Versions
    BY DEF Lasting, Versions
  <2>1. q \in Versions /\ real[q] = q /\ fs[q] = "exec" /\ VersionsOf[q] # NoDir /\ q \in Path
    <3>1. q \notin Movable
      BY <2>0, LinkAssumption
    <3> QED
      BY <2>0, <3>1, TypeParts
  <2>2. VersionsOf[q] = SavedDir => q \in Newest
    BY <2>1 DEF Newest, Executable
  <2>3. CASE Newest = {} /\ wanted' = SavedReal
    <3>1. SavedReal \in Path /\ VersionsOf[q] = SavedDir
      BY <1>3, <2>1, <2>3 DEF SavedTogether, Numbered
    <3> QED
      BY <2>2, <2>3, <3>1
  <2>4. CASE wanted' \in Newest /\ \A r \in Newest : VersionRank[r] <= VersionRank[wanted']
    <3>1. VersionsOf[wanted'] = SavedDir
      BY <2>4 DEF Newest
    <3> QED
      BY <1>3, <2>2, <2>4, <3>1
  <2> QED
    BY <2>3, <2>4 DEF Choose
<1>4. Lasting' = Lasting
  BY <1>1 DEF Lasting
<1> QED
  BY <1>2, <1>3, <1>4 DEF ChoiceInv

\* It stays the newest of those that are there all the time.
LEMMA ChoiceKept ==
  ASSUME TypeOK, ModeInv, SavedTogether, ChoiceInv, [Next]_vars
  PROVE  ChoiceInv'
<1>1. CASE Choose
  BY <1>1, ChoiceMade
<1>2. CASE Try
  <2>1. /\ pc = "try" /\ UNCHANGED <<wanted, mode>> /\ steady' = steady
        /\ cands' = cands \/ ToSet(cands) = ToSet(cands') \cup {Head(cands)}
    BY <1>2, TypeParts, TryTypes DEF fileVars
  <2>2. Lasting' = Lasting /\ ToSet(cands') \subseteq ToSet(cands)
    BY <2>1 DEF Lasting
  <2> QED
    BY <2>1, <2>2 DEF ChoiceInv, Trying
<1>3. CASE NoneLeft \/ ExecFails \/ Load
  <2>1. UNCHANGED <<wanted, steady>> /\ pc' \in {"scan", "failed"}
    BY <1>3 DEF NoneLeft, ExecFails, GiveUp, Load, argVars, fileVars
  <2> QED
    BY <2>1 DEF ChoiceInv, Lasting, Trying
<1>4. CASE Exec
  <2>1. target \in Path
    BY <1>4, TypeParts DEF Exec
  <2>2. UNCHANGED <<wanted, steady>> /\ pc' \in {"parse", "choose", "running"}
    BY <1>4, <2>1, ExecIs DEF fileVars
  <2> QED
    BY <2>2 DEF ChoiceInv, Lasting, Trying
<1>5. CASE Parse
  <2>1. UNCHANGED <<wanted, steady>> /\ pc' \in {"parse", "load"}
    BY <1>5, TypeParts, ParseTypes DEF fileVars
  <2> QED
    BY <2>1 DEF ChoiceInv, Lasting, Trying
<1>6. CASE Scan
  <2>1. UNCHANGED <<wanted, steady, mode>> /\ mode # "shell"
    BY <1>6 DEF Scan, ModeInv, argVars, fileVars
  <2> QED
    BY <2>1 DEF ChoiceInv, Lasting, Trying
<1>7. CASE Update \/ UNCHANGED vars
  <2>1. UNCHANGED <<pc, mode, wanted, cands>> /\ steady' \subseteq steady
    BY <1>7, UpdateOnlyFiles DEF vars, fileVars, argVars, listVars
  <2>2. Lasting' \subseteq Lasting
    BY <2>1 DEF Lasting
  <2> QED
    BY <2>1, <2>2 DEF ChoiceInv, Trying
<1>8. CASE Resolve
  <2>1. pc = "resolve" /\ UNCHANGED <<wanted, steady, mode, cands>>
    BY <1>8, ResolveIs DEF fileVars
  <2> QED
    BY <2>1 DEF ChoiceInv, Lasting, Trying
<1> QED
  BY <1>1, <1>2, <1>3, <1>4, <1>5, <1>6, <1>7, <1>8 DEF Next, Start

\* What runs is the newest.
LEMMA NewestKept ==
  ASSUME Resolved, TypeOK, ModeInv, HeadInv, ListInv, ChoiceInv, StartsNewest, [Next]_vars
  PROVE  StartsNewest'
<1>1. CASE Exec
  <2> DEFINE c == Head(cands)
  <2>0. /\ pc = "exec" /\ target \in Path /\ cands # <<>> /\ c \in Path /\ cands \in Seq(Text)
        /\ mode = "shell" => target = c
        /\ c \notin Movable => target \notin Movable /\ Links[target] = Links[c]
    BY <1>1, TypeParts DEF Exec, HeadInv
  <2>1. pc' = "running" =>
          /\ ran'.path = real[target] /\ ~(mode = "shell" /\ target = Meter)
          /\ steady' = steady /\ cands' = cands
    <3>1. /\ steady' = steady /\ cands' = cands
          /\ pc' = "running" => /\ ran' = [path |-> real[target], metered |-> mode = "launch"]
                                /\ ~(mode = "shell" /\ target = Meter)
      BY <1>1, <2>0, ExecIs DEF fileVars
    <3>2. [path |-> real[target], metered |-> mode = "launch"].path = real[target]
      OBVIOUS
    <3> QED
      BY ONLY <3>1, <3>2
  <2>2. SUFFICES ASSUME pc' = "running", ran'.path \in Versions \cap Numbered, c \notin Movable, NEW q \in Lasting,
                        VersionsOf[q] = VersionsOf[ran'.path]
                 PROVE  VersionRank[q] <= VersionRank[ran'.path]
    BY <2>1 DEF StartsNewest, Lasting
  <2>3. ran'.path = c /\ c \in Numbered /\ VersionsOf[c] # NoDir
    <3>1. ran'.path = Links[c]
      BY <2>0, <2>1, <2>2, TypeParts
    <3> QED
      BY <2>0, <2>2, <3>1 DEF Resolved, Versions
  <2>4. cands[1] = c /\ 1 \in 1..Len(cands) /\ c \in ToSet(cands)
    <3>1. cands[1] = Head(cands) /\ Len(cands) >= 1 /\ Len(cands) \in Nat /\ ToSet(cands) = {Head(cands)} \cup ToSet(Tail(cands))
      BY <2>0, ElementsOfTail
    <3> QED
      BY <2>0, <3>1
  <2>5. CASE mode = "shell"
    <3>1. c \in {Meter, wanted, Recovered, RealCopy}
      BY <2>0, <2>4, <2>5 DEF ChoiceInv, Trying
    <3>2. c = wanted
      BY <2>3, <3>1, PathAssumption DEF FixedPath
    <3> QED
      BY <2>2, <2>3, <3>2 DEF ChoiceInv, Trying
  <2>6. CASE mode # "shell"
    <3>1. NewerBefore(cands)
      BY <2>0, <2>6 DEF ListInv, Trying
    <3>2. VersionRank[q] <= VersionRank[c] \/ \E j \in 1..(1 - 1) : cands[j] = q
      BY <2>2, <2>3, <2>4, <3>1 DEF NewerBefore
    <3> QED
      BY <2>3, <3>2
  <2> QED
    BY <2>5, <2>6
<1>2. CASE Choose \/ Resolve \/ NoneLeft \/ ExecFails \/ Load \/ Scan
  BY <1>2 DEF Choose, Resolve, NoneLeft, ExecFails, GiveUp, Load, Scan, StartsNewest
<1>3. CASE Try
  <2>1. pc' \in {"try", "resolve", "exec"}
    BY <1>3, TypeParts, TryTypes
  <2> QED
    BY <2>1 DEF StartsNewest
<1>4. CASE Parse
  <2>1. pc' \in {"parse", "load"}
    BY <1>4, TypeParts, ParseTypes
  <2> QED
    BY <2>1 DEF StartsNewest
<1>5. CASE Update \/ UNCHANGED vars
  <2>1. UNCHANGED <<pc, ran, cands>> /\ steady' \subseteq steady
    BY <1>5, UpdateOnlyFiles DEF vars, fileVars, listVars
  <2> QED
    BY <2>1 DEF StartsNewest
<1> QED
  BY <1>1, <1>2, <1>3, <1>4, <1>5 DEF Next, Start

\* The newest version is started, whatever the updater does meanwhile: for any
\* number of directories and any arguments.  A directory may hold any number of
\* versions if all their names are numbers, and up to 12 if some are not
\* (SortAssumption: beyond that sort.Slice is no insertion sort).
THEOREM NewestStarts ==
  ASSUME Resolved, SavedTogether
  PROVE  Spec => []StartsNewest
<1> DEFINE I == LInv /\ ListInv /\ ChoiceInv /\ StartsNewest
<1>1. Init => I
  <2>1. Init => ListInv /\ StartsNewest
    BY DEF Init, ListInv, StartsNewest, Trying
  <2>2. Init => ChoiceInv
    BY TextsOf DEF Init, ChoiceInv, Numbered, Trying
  <2> QED
    BY <2>1, <2>2, LInvInit
<1>2. I /\ [Next]_vars => I'
  BY LInvKept, ListKept, ChoiceKept, NewestKept DEF LInv
<1>3. I => StartsNewest
  OBVIOUS
<1> QED
  BY <1>1, <1>2, <1>3, PTL DEF Spec

-----------------------------------------------------------------------------
(***************************************************************************)
(* Metering.                                                               *)
(***************************************************************************)
\* Before the first change a candidate that is passed over is not valid.
LEMMA PassedOver ==
  ASSUME TypeOK, SeenInv, MeterInv, changes = 0, pc = "try", mode # "shell", ~Usable(Head(cands))
  PROVE  ~valid(Head(cands))
<1> DEFINE c == Head(cands)
<1>1. c \in seen \/ ~valid(c)
  BY DEF Usable
<1>2. ASSUME c \in seen, valid(c) PROVE FALSE
  <2>1. c \in Path /\ fs[real[c]] \in {"exec", "busy"} /\ real[c] \notin Denied /\ real[c] \in Path
    BY <1>2, TypeParts DEF valid, Executable
  <2>2. c \in steady
    BY <2>1 DEF MeterInv
  <2> QED
    BY <1>2, <2>1, <2>2 DEF SeenInv, Trying
<1> QED
  BY <1>1, <1>2

\* What Resolve considers, and that execClaude considers nothing else.
LEMMA CandidatesTried ==
  ASSUME NEW c \in Text, NEW o \in Text
  PROVE  /\ \A p \in Tried(c, o) : p \in ToSet(Candidates(c, o)) \/ ~valid(p)
         /\ \A p \in ToSet(Candidates("", o)) : p \in Tried(c, o) \/ ~valid(p)
<1>1. /\ ToSet(FromDir(c)) = {p \in Path : VersionsOf[p] # NoDir /\ VersionsOf[p] = versionDir(c) /\ valid(p)}
      /\ ToSet(FromDir(o)) = {p \in Path : VersionsOf[p] # NoDir /\ VersionsOf[p] = versionDir(o) /\ valid(p)}
      /\ ToSet(FromDir("")) = {p \in Path : VersionsOf[p] # NoDir /\ VersionsOf[p] = versionDir("") /\ valid(p)}
  BY FromDirIs
<1>2. versionDir("") = NoDir /\ ~valid("")
  BY TextsOf DEF versionDir, valid, Executable
<1>3. ToSet(Candidates(c, o)) = ToSet(FromDir(c)) \cup ToSet(FromDir(o)) \cup {c, o, RealCopy, Recovered}
  BY CandidatesAre
<1>4. ToSet(Candidates("", o)) = ToSet(FromDir("")) \cup ToSet(FromDir(o)) \cup {"", o, RealCopy, Recovered}
  BY CandidatesAre, TextsOf
<1>5. \A p \in Tried(c, o) : p \in ToSet(Candidates(c, o)) \/ ~valid(p)
  BY <1>1, <1>3 DEF Tried
<1>6. \A p \in ToSet(Candidates("", o)) : p \in Tried(c, o) \/ ~valid(p)
  BY <1>1, <1>2, <1>4 DEF Tried
<1> QED
  BY <1>5, <1>6

\* Nothing that MeterInv says of the files changes while the files do not.
LEMMA SameFiles ==
  ASSUME UNCHANGED fileVars
  PROVE  /\ fs' = fs /\ real' = real /\ steady' = steady /\ changes' = changes
         /\ \A p : valid(p)' <=> valid(p)
BY DEF fileVars, valid, Executable

\* The first part of MeterInv.
FilesInv ==
  \A p \in Path : /\ fs[p] # "busy" /\ (fs[p] = "exec" => real[p] = p)
                  /\ fs[real[p]] = "exec" => p \in steady

\* The wrapper tries the meter first, and finds it.
LEMMA TryMeets ==
  ASSUME TypeOK, ModeInv, SeenInv, MeterInv, Try
  PROVE  MeterInv'
<1>0. pc = "try" /\ cands # <<>> /\ UNCHANGED <<cfgPath, fallback, mode>> /\ UNCHANGED fileVars
  BY TypeParts, TryTypes
<1>1. SUFFICES ASSUME changes = 0 PROVE MeterInv'
  BY <1>0, SameFiles DEF MeterInv, Trying
<1>2. FilesInv /\ FilesInv'
  BY <1>0, <1>1, SameFiles DEF MeterInv, FilesInv, Trying
<1>3. \A p : valid(p)' <=> valid(p)
  BY <1>0, SameFiles
<1>4. Tried(ClaudeBinary[cfgPath], fallback)' = Tried(ClaudeBinary[cfgPath], fallback)
  BY <1>0 DEF Tried, versionDir
<1>5. CASE Usable(Head(cands))
  <2>1. /\ Head(cands) \in Path /\ UNCHANGED <<cands, seen>>
        /\ (pc' = "exec" /\ target' = Head(cands)) \/ pc' = "resolve"
    BY <1>5, TypeParts, TryTypes
  <2>2. Executable(Head(cands))
    BY <1>5 DEF Usable, valid
  <2>3. /\ fs'[real'[Head(cands)]] = "exec" /\ Head(cands') = Head(cands)
        /\ pc' = "exec" => fs'[real'[target']] = "exec"
    <3>1. real[Head(cands)] \in Path
      BY <2>1, TypeParts
    <3>2. fs[real[Head(cands)]] = "exec"
      BY <1>2, <2>2, <3>1 DEF Executable, FilesInv
    <3> QED
      BY <1>0, <2>1, <3>2, SameFiles
  <2>4. ASSUME fs[Meter] = "exec", mode = "execClaude", cfgPath \in DOMAIN ClaudeBinary PROVE FALSE
    <3>1. ~valid(Head(cands))
      <4>1. Head(cands) \in ToSet(cands)
        BY <1>0, TypeParts, ElementsOfTail
      <4> QED
        BY <1>0, <1>1, <2>4, <4>1 DEF MeterInv, Trying
    <3> QED
      BY <1>5, <2>4, <3>1 DEF Usable
  <2>5. fs' = fs /\ cfgPath' = cfgPath /\ mode' = mode
    BY <1>0, SameFiles
  <2>6. fs[Meter] = "exec" =>
         /\ mode = "shell" => cands # <<>> /\ Head(cands) = Meter
         /\ mode = "launch" =>
              \A p \in Tried(ClaudeBinary[cfgPath], fallback) : p \in ToSet(cands) \/ ~valid(p)
    BY <1>0, <1>1 DEF MeterInv, Trying
  <2> QED
    BY <1>2, <1>3, <1>4, <2>1, <2>3, <2>4, <2>5, <2>6 DEF MeterInv, FilesInv, Trying
<1>6. CASE ~Usable(Head(cands))
  <2>1. /\ pc' = "try" /\ ToSet(cands) = ToSet(cands') \cup {Head(cands)}
    BY <1>0, <1>6, TypeParts, TryTypes
  <2>2. fs' = fs /\ cfgPath' = cfgPath /\ mode' = mode
    BY <1>0, SameFiles
  <2>3. fs[Meter] = "exec" => mode # "shell"
    <3>1. SUFFICES ASSUME fs[Meter] = "exec", mode = "shell" PROVE FALSE
      OBVIOUS
    <3>2. Head(cands) = Meter
      BY <1>0, <1>1, <3>1 DEF MeterInv, Trying
    <3>3. real[Meter] = Meter
      BY <1>2, <3>1, TextsOf DEF FilesInv
    <3> QED
      BY <1>6, <3>1, <3>2, <3>3, TextsOf DEF Usable, Executable
  <2>4. ASSUME fs[Meter] = "exec", mode = "launch",
               NEW p \in Tried(ClaudeBinary[cfgPath], fallback)
        PROVE  p \in ToSet(cands') \/ ~valid(p)
    <3>1. p \in ToSet(cands) \/ ~valid(p)
      BY <1>0, <1>1, <2>4 DEF MeterInv, Trying
    <3>2. ~valid(Head(cands))
      BY <1>0, <1>1, <1>6, <2>4, PassedOver
    <3> QED
      BY <2>1, <3>1, <3>2
  <2>5. fs[Meter] = "exec" /\ mode = "execClaude" /\ cfgPath \in DOMAIN ClaudeBinary =>
          /\ \A p \in Tried(ClaudeBinary[cfgPath], fallback) : ~valid(p)
          /\ \A p \in ToSet(cands') : ~valid(p)
    BY <1>0, <1>1, <2>1 DEF MeterInv, Trying
  <2> QED
    BY <1>2, <1>3, <1>4, <2>1, <2>2, <2>3, <2>4, <2>5 DEF MeterInv, FilesInv, Trying
<1> QED
  BY <1>5, <1>6

\* Replacing the image: the wrapper executes the meter, and execClaude nothing.
LEMMA ExecMeets ==
  ASSUME TypeOK, ModeInv, HeadInv, MeterInv, Exec
  PROVE  MeterInv'
<1>0. pc = "exec" /\ target \in Path /\ (mode = "shell" => target = Head(cands)) /\ UNCHANGED fileVars /\ mode' = mode
  <2>1. pc = "exec"
    BY DEF Exec
  <2>2. target \in Path
    BY <2>1, TypeParts
  <2> QED
    BY <2>1, <2>2, ExecIs DEF HeadInv
<1>1. SUFFICES ASSUME changes = 0 PROVE MeterInv'
  BY <1>0, SameFiles DEF MeterInv, Trying
<1>2. FilesInv /\ FilesInv'
  BY <1>0, <1>1, SameFiles DEF MeterInv, FilesInv, Trying
<1>3. fs' = fs /\ mode \in {"shell", "launch", "execClaude"}
  BY <1>0, SameFiles, TypeParts
<1>4. CASE (mode = "shell" /\ pc' = "parse") \/ (pc' = "choose" /\ cfgPath' = cfgPath)
  BY <1>0, <1>1, <1>2, <1>3, <1>4 DEF MeterInv, FilesInv, Trying
<1>5. CASE /\ ~(mode = "shell" /\ target = Meter) /\ pc' = "running" /\ cfgPath' = cfgPath
           /\ ran' = [path |-> real[target], metered |-> mode = "launch"]
  <2>1. ASSUME fs[Meter] = "exec", cfgPath \in DOMAIN ClaudeBinary PROVE mode = "launch"
    <3>1. mode # "shell"
      BY <1>0, <1>1, <1>5, <2>1 DEF MeterInv, Trying
    <3>2. mode # "execClaude"
      BY <1>0, <1>1, <2>1 DEF MeterInv, Trying
    <3> QED
      BY <1>3, <3>1, <3>2
  <2>2. mode = "launch" => ran'.metered
    <3>1. ran'.metered = (mode = "launch")
      BY ONLY <1>5
    <3> QED
      BY ONLY <3>1
  <2>3. fs[Meter] = "exec" /\ cfgPath \in DOMAIN ClaudeBinary => ran'.metered /\ mode # "execClaude"
    BY <2>1, <2>2
  <2> QED
    BY <1>0, <1>2, <1>3, <1>5, <2>3 DEF MeterInv, FilesInv, Trying
<1>6. \/ mode = "shell" /\ pc' = "parse"
      \/ pc' = "choose" /\ cfgPath' = cfgPath
      \/ /\ ~(mode = "shell" /\ target = Meter) /\ pc' = "running" /\ cfgPath' = cfgPath
         /\ ran' = [path |-> real[target], metered |-> mode = "launch"]
  BY <1>0, ExecIs
<1> QED
  BY <1>4, <1>5, <1>6

\* Resolve collects what it considers.
LEMMA ScanMeets ==
  ASSUME TypeOK, ModeInv, MeterInv, Scan
  PROVE  MeterInv'
<1>0. /\ pc = "scan" /\ mode # "shell" /\ pc' = "try" /\ UNCHANGED fileVars /\ UNCHANGED <<mode, cfgPath, fallback>>
      /\ cands' = IF mode = "launch" THEN Candidates(ClaudeBinary[cfgPath], fallback) ELSE Candidates("", fallback)
  BY DEF Scan, ModeInv, argVars
<1>1. SUFFICES ASSUME changes = 0 PROVE MeterInv'
  BY <1>0, SameFiles DEF MeterInv, Trying
<1>2. FilesInv /\ FilesInv'
  BY <1>0, <1>1, SameFiles DEF MeterInv, FilesInv, Trying
<1>3. fs' = fs /\ \A p : valid(p)' <=> valid(p)
  BY <1>0, SameFiles
<1>4. Tried(ClaudeBinary[cfgPath], fallback)' = Tried(ClaudeBinary[cfgPath], fallback)
  BY <1>0 DEF Tried, versionDir
<1>5. cfgPath \in DOMAIN ClaudeBinary =>
        /\ \A p \in Tried(ClaudeBinary[cfgPath], fallback) :
             p \in ToSet(Candidates(ClaudeBinary[cfgPath], fallback)) \/ ~valid(p)
        /\ \A p \in ToSet(Candidates("", fallback)) : p \in Tried(ClaudeBinary[cfgPath], fallback) \/ ~valid(p)
  <2>1. cfgPath \in DOMAIN ClaudeBinary => ClaudeBinary[cfgPath] \in Text
    BY PathAssumption, TextsOf
  <2>2. fallback \in Text
    BY TypeParts
  <2> QED
    BY <2>1, <2>2, CandidatesTried
<1>6. mode = "launch" =>
        \A p \in Tried(ClaudeBinary[cfgPath], fallback) : p \in ToSet(cands') \/ ~valid(p)
  BY <1>0, <1>5 DEF ModeInv
<1>7. ASSUME fs[Meter] = "exec", mode = "execClaude", cfgPath \in DOMAIN ClaudeBinary
      PROVE  /\ \A p \in Tried(ClaudeBinary[cfgPath], fallback) : ~valid(p)
             /\ \A p \in ToSet(cands') : ~valid(p)
  <2>1. \A p \in Tried(ClaudeBinary[cfgPath], fallback) : ~valid(p)
    BY <1>1, <1>7 DEF MeterInv, Trying
  <2>2. cands' = Candidates("", fallback)
    BY <1>0, <1>7
  <2> QED
    BY <1>5, <1>7, <2>1, <2>2
<1> QED
  BY <1>0, <1>2, <1>3, <1>4, <1>6, <1>7 DEF MeterInv, FilesInv, Trying

\* When nothing is left to the launcher, nothing that it considers is valid.
LEMMA NoneLeftMeets ==
  ASSUME TypeOK, ModeInv, MeterInv, NoneLeft
  PROVE  MeterInv'
<1>0. /\ pc = "try" /\ cands = <<>> /\ UNCHANGED fileVars /\ UNCHANGED <<cfgPath, fallback>>
      /\ \/ mode = "launch" /\ pc' = "scan" /\ mode' = "execClaude"
         \/ mode # "launch" /\ pc' = "failed" /\ mode' = mode
  BY DEF NoneLeft, GiveUp, argVars
<1>1. SUFFICES ASSUME changes = 0 PROVE MeterInv'
  BY <1>0, SameFiles DEF MeterInv, Trying
<1>2. FilesInv /\ FilesInv'
  BY <1>0, <1>1, SameFiles DEF MeterInv, FilesInv, Trying
<1>3. fs' = fs /\ \A p : valid(p)' <=> valid(p)
  BY <1>0, SameFiles
<1>4. Tried(ClaudeBinary[cfgPath], fallback)' = Tried(ClaudeBinary[cfgPath], fallback)
  BY <1>0 DEF Tried, versionDir
<1>5. ToSet(cands) = {}
  BY <1>0 DEF ToSet
<1>6. ASSUME fs[Meter] = "exec", mode # "shell", cfgPath \in DOMAIN ClaudeBinary,
             NEW p \in Tried(ClaudeBinary[cfgPath], fallback)
      PROVE  ~valid(p)
  <2>1. mode \in {"launch", "execClaude"}
    BY <1>6, TypeParts
  <2> QED
    BY <1>0, <1>1, <1>5, <1>6, <2>1 DEF MeterInv, Trying
<1>7. mode' = "execClaude" => mode # "shell"
  BY <1>0
<1> QED
  BY <1>0, <1>2, <1>3, <1>4, <1>6, <1>7 DEF MeterInv, FilesInv, Trying

\* Every step keeps MeterInv.
LEMMA MeterKept ==
  ASSUME TypeOK, ModeInv, SeenInv, HeadInv, MeterInv, [Next]_vars
  PROVE  MeterInv'
<1>1. CASE Choose
  <2>1. /\ wanted' \in Text /\ UNCHANGED fileVars /\ mode' = "shell" /\ pc' = "try"
        /\ cands' = <<Meter, wanted', Recovered, RealCopy>>
    BY <1>1, PathAssumption, TextsOf DEF Choose, Newest, Versions
  <2>2. cands' # <<>> /\ Head(cands') = Meter
    BY <2>1, WrapperCandidates
  <2>3. FilesInv => FilesInv'
    BY <2>1, SameFiles DEF FilesInv
  <2> QED
    BY <2>1, <2>2, <2>3, SameFiles DEF MeterInv, FilesInv, Trying
<1>2. CASE Try
  BY <1>2, TryMeets
<1>3. CASE NoneLeft
  BY <1>3, NoneLeftMeets
<1>4. CASE Exec
  BY <1>4, ExecMeets
<1>5. CASE ExecFails
  <2>1. changes # 0 /\ changes' = changes
    BY <1>5 DEF ExecFails, MeterInv, fileVars
  <2> QED
    BY <2>1 DEF MeterInv, Trying
<1>6. CASE Parse
  <2>1. /\ pc' \in {"parse", "load"} /\ UNCHANGED fileVars /\ mode' = mode /\ pc = "parse"
    BY <1>6, TypeParts, ParseTypes DEF Parse
  <2>2. mode' = "shell"
    BY <2>1 DEF ModeInv
  <2>3. FilesInv => FilesInv'
    BY <2>1, SameFiles DEF FilesInv
  <2> QED
    BY <2>1, <2>2, <2>3, SameFiles DEF MeterInv, FilesInv, Trying
<1>7. CASE Load
  <2>1. /\ pc' = "scan" /\ UNCHANGED fileVars /\ cfgPath' = cfgPath
        /\ cfgPath \in DOMAIN ClaudeBinary => mode' = "launch"
    BY <1>7 DEF Load
  <2>2. FilesInv => FilesInv'
    BY <2>1, SameFiles DEF FilesInv
  <2> QED
    BY <2>1, <2>2, SameFiles DEF MeterInv, FilesInv, Trying
<1>8. CASE Scan
  BY <1>8, ScanMeets
<1>9. CASE Update
  BY <1>9, UpdateTypes DEF MeterInv, Trying
<1>11. CASE Resolve
  <2>1. /\ pc = "resolve" /\ pc' = "exec" /\ target' \in Path /\ real[target'] = real[Head(cands)]
        /\ UNCHANGED fileVars /\ UNCHANGED <<mode, cands, ran, cfgPath, fallback>>
    BY <1>11, ResolveIs
  <2>2. \A p : valid(p)' <=> valid(p)
    BY <2>1, SameFiles
  <2>3. Tried(ClaudeBinary[cfgPath], fallback)' = Tried(ClaudeBinary[cfgPath], fallback)
    BY <2>1 DEF Tried, versionDir
  <2> QED
    BY <2>1, <2>2, <2>3, SameFiles DEF MeterInv, Trying
<1>10. CASE UNCHANGED vars
  <2>1. UNCHANGED fileVars /\ UNCHANGED <<pc, mode, cands, target, ran, cfgPath, fallback>>
    BY <1>10 DEF vars, argVars, listVars
  <2>2. \A p : valid(p)' <=> valid(p)
    BY <2>1, SameFiles
  <2>3. Tried(ClaudeBinary[cfgPath], fallback)' = Tried(ClaudeBinary[cfgPath], fallback)
    BY <2>1 DEF Tried, versionDir
  <2> QED
    BY <2>1, <2>2, <2>3, SameFiles DEF MeterInv, Trying
<1> QED
  BY <1>1, <1>2, <1>3, <1>4, <1>5, <1>6, <1>7, <1>8, <1>9, <1>10, <1>11 DEF Next, Start

\* A start goes unmetered only if the meter or its configuration is missing, or
\* if the updater got in between: the wrapper tries the meter first, and
\* execClaude considers nothing that the launcher has not.
THEOREM MetersUnlessBroken == Spec => []MeteredUnlessBroken
<1> DEFINE I == LInv /\ MeterInv
<1>1. Init => I
  <2>1. Init => MeterInv
    BY DEF Init, MeterInv, Trying
  <2> QED
    BY <2>1, LInvInit
<1>2. I /\ [Next]_vars => I'
  BY LInvKept, MeterKept DEF LInv
<1>3. I => MeteredUnlessBroken
  BY DEF MeterInv, MeteredUnlessBroken
<1> QED
  BY <1>1, <1>2, <1>3, PTL DEF Spec
=============================================================================
