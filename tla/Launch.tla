------------------------------- MODULE Launch -------------------------------
(***************************************************************************)
(* One start of Claude Code: the shell wrapper /usr/local/bin/claude, the  *)
(* launcher it executes (cmd/claude-meter, launch) and the resolver that   *)
(* finds the real binary (internal/claude), while Claude's own updater     *)
(* adds and removes versions, and the updater and the repair move links.   *)
(*                                                                         *)
(* A file is "absent" (or not executable), "exec", or "busy": it has the   *)
(* execute bits but cannot be executed, because it is still being written. *)
(* A path is found to be executable in one step and executed in a later    *)
(* one.  Paths are texts; "" is the empty one.                             *)
(***************************************************************************)
EXTENDS Integers, Sequences, FiniteSets

CONSTANTS
  Path,          \* the paths that matter
  Links,         \* path |-> filepath.EvalSymlinks of it, if nobody moves it
  Movable,       \* links that are moved: ~/.local/bin/claude
  VersionsOf,    \* path |-> its directory if that is named "versions", or NoDir
  NoDir,
  TextRank,      \* path |-> rank of its name among texts
  VersionRank,   \* path |-> rank of its name for sort -V; the same for 2.1 and 2.1.0
  Parts,         \* path |-> numbers of a name like 2.1.9; <<>> for other names
  Wrapper,       \* /usr/local/bin/claude
  Meter,         \* /usr/local/lib/claude-meter/claude-meter
  RealCopy,      \* /usr/local/lib/claude-meter/claude-real
  Recovered,     \* /usr/local/lib/claude-meter/claude-recovered
  SavedReal,     \* content of /etc/claude-meter/real-claude
  SavedDir,      \* content of /etc/claude-meter/versions-dir, or NoDir
  EnvFallback,   \* CLAUDE_METER_FALLBACK_BINARY
  DefaultConfig, \* /etc/claude-meter/launcher.json
  ClaudeBinary,  \* configuration files that LoadLauncher accepts |-> their claude_binary
  Text,          \* texts that are arguments, or part of one
  UserArgs,      \* what users type after "claude"
  DirectStarts,  \* direct calls of the launcher: its own arguments, and Claude's
  InPlace,       \* the updater writes a new version in its final place
  MaxChanges     \* bound on what updater and repair do during a start

\* An argument: the option it is, if the launcher knows it, its text, and
\* what follows its "=".
Option == {"config", "config=", "fallback-bin", "fallback-bin=", "--"}
Arg == [opt : Option \cup {"word"}, text : Text, value : Text]

FixedPath == {Wrapper, Meter, RealCopy, Recovered}

ASSUME PathAssumption ==
  /\ IsFiniteSet(Path) /\ "" \notin Path /\ FixedPath \subseteq Path
  /\ VersionsOf \in [Path -> {VersionsOf[p] : p \in Path}]
  /\ \A p \in FixedPath : VersionsOf[p] = NoDir
  /\ SavedReal \in Path \cup {""} /\ EnvFallback \in Path \cup {""}
  /\ \A c \in DOMAIN ClaudeBinary : ClaudeBinary[c] \in Path

\* No other link leads through one that is moved.
ASSUME LinkAssumption ==
  /\ Links \in [Path -> Path] /\ \A p \in Path : Links[Links[p]] = Links[p] /\ Links[p] \notin Movable
  /\ Movable \subseteq Path \ FixedPath /\ \A p \in Movable : VersionsOf[p] = NoDir

\* The n-th number of a name; those that are left out are 0.
Part(p, n) == IF n <= Len(Parts[p]) THEN Parts[p][n] ELSE 0

Numbered == {p \in Path : Parts[p] # <<>>}

\* p is an older version than q: its first number that differs is smaller.
Older(p, q) ==
  \E n \in 1..(Len(Parts[p]) + Len(Parts[q])) :
    Part(p, n) < Part(q, n) /\ \A m \in 1..(n - 1) : Part(p, m) = Part(q, m)

ASSUME NameAssumption ==
  /\ Parts \in [Path -> Seq(Nat)] /\ TextRank \in [Path -> Int] /\ VersionRank \in [Path -> Int]
  /\ \A p, q \in Path : p # q /\ VersionsOf[p] = VersionsOf[q] /\ VersionsOf[p] # NoDir => TextRank[p] # TextRank[q]
  /\ \A p, q \in Numbered : VersionRank[p] < VersionRank[q] <=> Older(p, q)

\* sort.Slice inserts only up to 12 elements; beyond that its order is known
\* only where less is transitive, and it is among numbers.
ASSUME SortAssumption ==
  \A d \in {VersionsOf[p] : p \in Path} \ {NoDir} :
    LET names == {p \in Path : VersionsOf[p] = d} IN Cardinality(names) <= 12 \/ names \subseteq Numbered

ASSUME ArgAssumption ==
  /\ Option \cup Path \cup {"", DefaultConfig} \subseteq Text
  /\ \A a \in UserArgs : a \in Seq(Arg)
  /\ \A d \in DirectStarts : d[1] \in Seq(Arg) /\ d[2] \in Seq(Arg)
  /\ InPlace \in BOOLEAN /\ MaxChanges \in Nat

VARIABLES
  fs,           \* the file behind each real path
  real,         \* path |-> what its links lead to
  steady,       \* paths that could be executed, and were not moved, ever since the start
  changes,      \* what updater and repair have done since the start
  moves,        \* the links moved among it
  pc,
  user,         \* the arguments of this start
  wanted,       \* REAL_CLAUDE of the wrapper
  args,         \* arguments not yet parsed, or those meant for Claude
  cfgPath,
  fallback,     \* fallbackBin
  mode,         \* who is to execute: "shell", "launch", "execClaude"
  cands,        \* candidates not yet tried
  seen,         \* those before them
  target,       \* the one about to be executed
  ran,          \* what runs as Claude: its path, and whether it is metered
  reentries     \* how often the launcher has executed the wrapper, up to MaxChanges + 1

fileVars == <<fs, real, steady, changes, moves>>
argVars == <<user, wanted, args, cfgPath, fallback>>
listVars == <<cands, seen>>
vars == <<fileVars, pc, argVars, mode, listVars, target, ran, reentries>>

FileState == {"absent", "exec", "busy"}
NotRun == [path |-> "", metered |-> FALSE]

\* Versions are files; links are moved to them or to the wrapper.
Versions == {p \in Path : VersionsOf[p] # NoDir /\ Links[p] = p}
Goal == Versions \cup {Links[Wrapper]}

TypeOK ==
  /\ fs \in [Path -> FileState]
  /\ real \in [Path -> Path] /\ \A p \in Path : IF p \in Movable THEN real[p] \in Goal ELSE real[p] = Links[p]
  /\ steady \subseteq {p \in Path : fs[real[p]] = "exec"}
  /\ changes \in 0..MaxChanges /\ moves \in 0..changes /\ reentries \in Nat
  /\ pc \in {"choose", "try", "resolve", "exec", "parse", "load", "scan", "running", "failed"}
  /\ user \in UserArgs \cup {d[2] : d \in DirectStarts}
  /\ args \in Seq(Arg)
  /\ wanted \in Path \cup {""} /\ cfgPath \in Text /\ fallback \in Text
  /\ mode \in {"shell", "launch", "execClaude"}
  /\ cands \in Seq(Text) /\ seen \subseteq Text
  /\ target \in Path \cup {""} /\ (pc = "exec" => target # "")
  /\ pc = "resolve" => mode # "shell" /\ cands # <<>> /\ Head(cands) \in Path
  /\ ran \in [path : Path \cup {""}, metered : BOOLEAN]

Init ==
  /\ fs \in [Path -> {"absent", "exec"}]
  /\ fs[Wrapper] = "exec"
  /\ \A p \in Path : p \in Movable \/ Links[p] # p => fs[p] = "absent"
  /\ \E to \in [Movable -> Goal] : real = [p \in Path |-> IF p \in Movable THEN to[p] ELSE Links[p]]
  /\ steady = {p \in Path : fs[real[p]] = "exec"}
  /\ changes = 0 /\ moves = 0 /\ reentries = 0
  /\ \/ pc = "choose" /\ user \in UserArgs /\ args = <<>>
     \/ /\ pc = "parse" /\ fs[Meter] = "exec"
        /\ \E d \in DirectStarts : args = d[1] \o d[2] /\ user = d[2]
  /\ wanted = "" /\ cfgPath = DefaultConfig /\ fallback = ""
  /\ mode = "shell" /\ cands = <<>> /\ seen = {} /\ target = "" /\ ran = NotRun

-----------------------------------------------------------------------------
(***************************************************************************)
(* The resolver.                                                           *)
(***************************************************************************)
Executable(p) == p \in Path /\ fs[real[p]] \in {"exec", "busy"}

Blocked == {Wrapper, Meter}
Denied == Blocked \cup {Links[b] : b \in Blocked}

\* Mutant: only the path as it is written is compared.
validUnresolved(p) == Executable(p) /\ p \notin Blocked

\* Mutant: a blank path is not turned down.
validBlank(p) == p = "" \/ (Executable(p) /\ real[p] \notin Denied)

valid(p) == Executable(p) /\ real[p] \notin Denied

\* Mutant: names are compared as texts.
lessAsText(p, q) == TextRank[p] > TextRank[q]

\* The comparator of versionCandidates: whether p comes before q.
less(p, q) ==
  LET differ == {n \in 1..(Len(Parts[p]) + Len(Parts[q])) : Part(p, n) # Part(q, n)}
  IN  IF {p, q} \subseteq Numbered /\ differ # {}
      THEN LET n == CHOOSE n \in differ : \A m \in differ : n <= m
           IN  Part(p, n) > Part(q, n)
      ELSE TextRank[p] > TextRank[q]

\* p moves to the left while it comes before its neighbour.
Insert(sorted, p) ==
  LET k == CHOOSE k \in 0..Len(sorted) :
             /\ k > 0 => ~less(p, sorted[k])
             /\ \A i \in (k + 1)..Len(sorted) : less(p, sorted[i])
  IN  SubSeq(sorted, 1, k) \o <<p>> \o SubSeq(sorted, k + 1, Len(sorted))

\* The last in the order of the names.
LastName(names) == CHOOSE p \in names : \A q \in names : TextRank[q] <= TextRank[p]

\* os.ReadDir lists a directory in the order of the names; sort.Slice is an
\* insertion sort for up to 12 elements.
versionCandidates(dir) ==
  LET found == {p \in Path : VersionsOf[p] = dir /\ valid(p)}
      sorted[names \in SUBSET found] ==
        IF names = {} THEN <<>> ELSE Insert(sorted[names \ {LastName(names)}], LastName(names))
  IN  sorted[found]

versionDir(p) == IF p \in Path THEN VersionsOf[p] ELSE NoDir

FromDir(p) == IF versionDir(p) = NoDir THEN <<>> ELSE versionCandidates(versionDir(p))

\* The candidates of Resolve, in order.  The directories are read in one step.
Candidates(configured, other) ==
  FromDir(configured) \o FromDir(other) \o <<configured, other, RealCopy, Recovered>>

-----------------------------------------------------------------------------
(***************************************************************************)
(* The wrapper.                                                            *)
(***************************************************************************)
Newest ==
  {p \in Versions : VersionsOf[p] = SavedDir /\ Executable(p)}

\* REAL_CLAUDE: the last of find | sort -V, or the saved path.
Choose ==
  /\ pc = "choose"
  /\ \/ Newest = {} /\ wanted' = SavedReal
     \/ wanted' \in {p \in Newest : \A q \in Newest : VersionRank[q] <= VersionRank[p]}
  /\ mode' = "shell"
  /\ cands' = <<Meter, wanted', Recovered, RealCopy>> /\ seen' = {}
  /\ pc' = "try"
  /\ UNCHANGED <<fileVars, user, args, cfgPath, fallback, target, ran, reentries>>

Word(t) == [opt |-> "word", text |-> t, value |-> ""]
Flag(f) == [opt |-> f, text |-> f, value |-> ""]
WrapperArgs ==
  <<Flag("config"), Word(DefaultConfig), Flag("fallback-bin"), Word(wanted), Flag("--")>> \o user

-----------------------------------------------------------------------------
(***************************************************************************)
(* Trying candidates: the -x tests of the wrapper, and the loop of Resolve.*)
(***************************************************************************)
\* Resolve lists a path only once (addCandidate).
Usable(p) == IF mode = "shell" THEN Executable(p) ELSE p \notin seen /\ valid(p)

Try ==
  /\ pc = "try" /\ cands # <<>>
  /\ IF ~Usable(Head(cands))
     THEN cands' = Tail(cands) /\ seen' = seen \cup {Head(cands)} /\ UNCHANGED <<target, pc>>
     ELSE IF mode = "shell"
     THEN target' = Head(cands) /\ pc' = "exec" /\ UNCHANGED listVars
     ELSE pc' = "resolve" /\ UNCHANGED <<listVars, target>>
  /\ UNCHANGED <<fileVars, argVars, mode, ran, reentries>>

\* The launcher resolves the links of the candidate once more, to execute what
\* they lead to now; if that is gone, the candidate as it is.
Resolve ==
  /\ pc = "resolve"
  /\ target' = IF fs[real[Head(cands)]] = "absent" THEN Head(cands) ELSE real[Head(cands)]
  /\ pc' = "exec"
  /\ UNCHANGED <<fileVars, argVars, mode, listVars, ran, reentries>>

\* Mutant: launch reports the error of Resolve instead of falling back.
GiveUpAtOnce == pc' = "failed" /\ mode' = mode

\* launch falls back to execClaude; the wrapper and execClaude give up.
GiveUp ==
  IF mode = "launch"
  THEN pc' = "scan" /\ mode' = "execClaude"
  ELSE pc' = "failed" /\ mode' = mode

NoneLeft ==
  /\ pc = "try" /\ cands = <<>>
  /\ GiveUp
  /\ UNCHANGED <<fileVars, argVars, listVars, target, ran, reentries>>

\* The image is replaced: by Claude, by the launcher, or by the wrapper itself.
\* The wrapper gets args, which are the user's by then (ArgsUntouched).
Exec ==
  /\ pc = "exec" /\ fs[real[target]] = "exec"
  /\ CASE mode = "shell" /\ target = Meter ->
            /\ pc' = "parse" /\ args' = WrapperArgs
            /\ cfgPath' = DefaultConfig /\ fallback' = ""
            /\ UNCHANGED <<ran, reentries>>
       [] ~(mode = "shell" /\ target = Meter) /\ real[target] = Links[Wrapper] ->
            /\ pc' = "choose"
            /\ reentries' = IF mode = "shell" \/ reentries > MaxChanges THEN reentries ELSE reentries + 1
            /\ UNCHANGED <<args, cfgPath, fallback, ran>>
       [] OTHER ->
            /\ pc' = "running"
            /\ ran' = [path |-> real[target], metered |-> mode = "launch"]
            /\ args' = IF mode = "shell" THEN user ELSE args
            /\ UNCHANGED <<cfgPath, fallback, reentries>>
  /\ UNCHANGED <<fileVars, user, wanted, mode, listVars, target>>

\* ENOENT, ENOEXEC, ETXTBSY.
ExecFails ==
  /\ pc = "exec" /\ fs[real[target]] # "exec"
  /\ GiveUp
  /\ UNCHANGED <<fileVars, argVars, listVars, target, ran, reentries>>

-----------------------------------------------------------------------------
(***************************************************************************)
(* The launcher.                                                           *)
(***************************************************************************)
\* Mutant: "--" is skipped and parsing goes on.
ParseThrough ==
  /\ pc = "parse"
  /\ LET opt == IF args = <<>> THEN "" ELSE Head(args).opt IN
     CASE opt = "--" -> args' = Tail(args) /\ UNCHANGED <<cfgPath, fallback, pc>>
       [] opt = "config" /\ Len(args) >= 2 ->
            cfgPath' = args[2].text /\ args' = Tail(Tail(args)) /\ UNCHANGED <<fallback, pc>>
       [] opt = "fallback-bin" /\ Len(args) >= 2 ->
            fallback' = args[2].text /\ args' = Tail(Tail(args)) /\ UNCHANGED <<cfgPath, pc>>
       [] OTHER -> pc' = "load" /\ UNCHANGED <<args, cfgPath, fallback>>
  /\ UNCHANGED <<fileVars, user, wanted, mode, listVars, target, ran, reentries>>

\* One turn of parseLaunchArgs' loop.
Parse ==
  /\ pc = "parse"
  /\ LET opt == IF args = <<>> THEN "" ELSE Head(args).opt IN
     CASE opt = "--" -> args' = Tail(args) /\ pc' = "load" /\ UNCHANGED <<cfgPath, fallback>>
       [] opt = "config" /\ Len(args) >= 2 ->
            cfgPath' = args[2].text /\ args' = Tail(Tail(args)) /\ UNCHANGED <<fallback, pc>>
       [] opt = "config=" ->
            cfgPath' = Head(args).value /\ args' = Tail(args) /\ UNCHANGED <<fallback, pc>>
       [] opt = "fallback-bin" /\ Len(args) >= 2 ->
            fallback' = args[2].text /\ args' = Tail(Tail(args)) /\ UNCHANGED <<cfgPath, pc>>
       [] opt = "fallback-bin=" ->
            fallback' = Head(args).value /\ args' = Tail(args) /\ UNCHANGED <<cfgPath, pc>>
       [] OTHER -> pc' = "load" /\ UNCHANGED <<args, cfgPath, fallback>>
  /\ UNCHANGED <<fileVars, user, wanted, mode, listVars, target, ran, reentries>>

\* Mutant: the fallback is preferred to metering.
LoadPrefersFallback ==
  /\ pc = "load"
  /\ mode' = IF cfgPath \in DOMAIN ClaudeBinary /\ fallback = "" THEN "launch" ELSE "execClaude"
  /\ pc' = "scan"
  /\ UNCHANGED <<fileVars, argVars, listVars, target, ran, reentries>>

\* The fallback of the environment, and LoadLauncher.  The identity that
\* follows never stops a start: its errors end as "unknown".
Load ==
  /\ pc = "load"
  /\ fallback' = IF fallback = "" THEN EnvFallback ELSE fallback
  /\ mode' = IF cfgPath \in DOMAIN ClaudeBinary THEN "launch" ELSE "execClaude"
  /\ pc' = "scan"
  /\ UNCHANGED <<fileVars, user, wanted, args, cfgPath, listVars, target, ran, reentries>>

\* Resolve collects its candidates.
Scan ==
  /\ pc = "scan"
  /\ cands' = IF mode = "launch" THEN Candidates(ClaudeBinary[cfgPath], fallback)
              ELSE Candidates("", fallback)
  /\ seen' = {}
  /\ pc' = "try"
  /\ UNCHANGED <<fileVars, argVars, mode, target, ran, reentries>>

Start == Choose \/ Try \/ Resolve \/ NoneLeft \/ Exec \/ ExecFails \/ Parse \/ Load \/ Scan

-----------------------------------------------------------------------------
(***************************************************************************)
(* Claude's updater, and the links that it and the repair move.            *)
(***************************************************************************)
\* A start is over when Claude runs or nothing can be executed.
Over == pc \in {"running", "failed"}

\* What changes after it matters to the next start only.
Changed ==
  /\ ~Over /\ changes < MaxChanges /\ changes' = changes + 1
  /\ UNCHANGED <<pc, argVars, mode, listVars, target, ran, reentries>>

Change(p, state) ==
  /\ Changed
  /\ fs' = [fs EXCEPT ![p] = state]
  /\ steady' = IF state = "exec" THEN steady ELSE {q \in steady : real[q] # p}
  /\ UNCHANGED <<real, moves>>

Install(p) == fs[p] = "absent" /\ Change(p, IF InPlace THEN "busy" ELSE "exec")
Complete(p) == fs[p] = "busy" /\ Change(p, "exec")

\* A version goes when a later one is there.
Later(q, p) == VersionsOf[q] = VersionsOf[p] /\ VersionRank[q] > VersionRank[p]
Delete(p) ==
  /\ fs[p] = "exec" /\ \E q \in Versions : Later(q, p) /\ fs[q] = "exec"
  /\ Change(p, "absent")

\* ln to a temporary name and mv -Tf: to the wrapper, or to a version.
Relink(p, q) ==
  /\ real[p] # q /\ (q \in Versions => fs[q] # "absent") /\ Changed
  /\ real' = [real EXCEPT ![p] = q] /\ moves' = moves + 1
  /\ steady' = steady \ {p} /\ UNCHANGED fs

Update == (\E p \in Versions : Install(p) \/ Complete(p) \/ Delete(p)) \/ \E p \in Movable, q \in Goal : Relink(p, q)

Next == Start \/ Update

\* The wrapper and the launcher are ordinary processes: they run until Claude
\* runs or the start has failed.  (Start is enabled until then, so this is
\* weak fairness of Start with its ENABLED spelled out.)
Fairness == []<>Over \/ []<><<Start>>_vars

Spec == Init /\ [][Next]_vars
FairSpec == Spec /\ Fairness

-----------------------------------------------------------------------------
(***************************************************************************)
(* Properties                                                              *)
(***************************************************************************)
\* "Metering must never prevent Claude Code from starting" (README.md:54): a
\* start fails only if neither the binary that the wrapper would have executed
\* without the launcher nor one of the two copies was there all the time; or if
\* a file that the wrapper or execClaude found to be executable is removed, or
\* still being written, when it is executed (main.go:165-181).
MeterNeverPrevents ==
  [][ pc # "failed" /\ pc' = "failed" /\ ~(pc = "exec" /\ mode # "launch" /\ fs[real[target]] # "exec") =>
        \A p \in {wanted, RealCopy, Recovered} : p \in steady => real[p] \in Denied ]_vars

\* The launcher "avoids resolving back into its own wrapper" (README.md:103;
\* resolve.go:132-139).  It tests a candidate and then resolves its links again
\* (resolve.go:33-34), so it does execute the wrapper when a link is moved in
\* between: once for each link that is moved, and never otherwise.
ReentryCostsMove ==
  reentries + (IF pc = "exec" /\ mode # "shell" /\ real[target] \in Denied THEN 1 ELSE 0) <= moves

\* The launcher "prefers the newest valid executable in the versions
\* directory" (README.md:103), whatever the updater does in the meantime: no
\* version that was there all the time is newer than the one that runs, unless
\* a link that others move has led to it.  Names with a part that is no number
\* are compared as texts (resolve.go:99) and left out.
StartsNewest ==
  LET numbered == Versions \cap Numbered IN
  pc = "running" /\ ran.path \in numbered /\ Head(cands) \notin Movable =>
    \A q \in steady \cap numbered :
      VersionsOf[q] = VersionsOf[ran.path] => VersionRank[q] <= VersionRank[ran.path]

\* "Claude command-line flags are passed through untouched" (README.md:94),
\* also those the launcher would understand (main.go:127-163).
ArgsUntouched == pc = "running" => args = user

\* A start goes unmetered only if the meter or its configuration is missing,
\* or updater or repair got in between (main.go:93-124).
MeteredUnlessBroken ==
  pc = "running" /\ changes = 0 /\ fs[Meter] = "exec" /\ cfgPath \in DOMAIN ClaudeBinary
    => ran.metered

\* Every start ends: the wrapper and the launcher do not execute each other
\* for ever.
StartEnds == <>Over
=============================================================================
