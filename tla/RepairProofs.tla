---------------------------- MODULE RepairProofs ----------------------------
(***************************************************************************)
(* The installation and the repair of the launcher, for any layouts of     *)
(* Claude, any versions and any numbers of installations, updates and      *)
(* killed runs: whatever is executed, recorded or replaced in between, a   *)
(* Claude starts, and what is recorded as the real Claude is one.          *)
(***************************************************************************)
EXTENDS Repair, Induction, TLAPS

-----------------------------------------------------------------------------
(***************************************************************************)
(* The inductive invariant.                                                *)
(***************************************************************************)
Kept == Elsewhere \cup {RealCopy}
Versioned == ToSet(Versions)
Contents == {"claude", "wrapper", "partial"}
Stage == {"copy", "record", "dir", "shim", "json", "truncate", "write", "chmod", "remove", "link", "units"}
Files == {"real", "dir"}

Installing == [pc : Stage, cur : {Shim, Wrapper}, real : Path \cup {Broken}, curReal : Path]
Reading == [pc : {"link", "copy", "again", "replace"}, shim : {Shim}]
Copying == [pc : {"copying"}, shim : {Shim}, found : Contents]
Opening == [pc : {"open", "rename"}, shim : {Shim}, found : Path, file : Files]
Filling == [pc : {"fill"}, shim : {Shim}, found : Path, file : Files, at : {"tmp", "final", "gone"}]
Starting == {Idle, [pc |-> "start"]}
Repairing == Starting \cup Reading \cup Copying \cup Opening \cup Filling
Configuration ==
  [real : Path \cup {NoPath, Broken}, dir : {NoPath, Dir}, shim : {Shim, NoPath}, binary : Path \cup {NoPath, Broken},
   units : BOOLEAN]

\* Every variable has its type, with the variables of the scripts that run.
TypeInv ==
  /\ fs \in [Path -> Node] /\ conf \in Configuration
  /\ inst \in {Idle} \cup Installing
  /\ rep \in [Run -> Repairing]
  /\ tmp \in [Files -> Path \cup {NoPath, Broken, Missing, Dir}]
  /\ tmp["real"] \in Path \cup {NoPath, Broken, Missing} /\ tmp["dir"] \in {NoPath, Dir, Missing}
  /\ installs \in 0..MaxInstalls /\ updates \in 0..MaxUpdates /\ kills \in 0..MaxKills
  /\ happened \subseteq {"torn", "overwritten", "regular", "emptied"}

\* Links are at the shim and at the wrapper's place, and none leads into the
\* meter's directory; what is copied is a file, what is linked is the shim.
LinkInv ==
  /\ \A p \in Path : fs[p].kind = "link" => p \in {Shim, Wrapper} /\ fs[p].to \notin {RealCopy, Recovered}
  /\ fs[Wrapper].kind = "link" => fs[Wrapper].to \in Elsewhere
  /\ inst.pc = "copy" => (inst.real = Wrapper => fs[Wrapper].kind = "file")
  /\ inst.pc = "link" => inst.cur = Shim

\* Before the first installation nothing has run.
UntouchedInv ==
  installs = 0 =>
    /\ \A p \in Path : fs[p].kind = "file" => fs[p] = File("claude")
    /\ conf = [real |-> NoPath, dir |-> NoPath, shim |-> NoPath, binary |-> NoPath, units |-> FALSE]
    /\ inst = Idle /\ rep = [r \in Run |-> Idle]

\* An installation overwrites what a link at the wrapper's place leads to.
LinkMeansOverwritten == fs[Wrapper].kind = "link" /\ installs # 0 => "overwritten" \in happened

Spoilt(p) == fs[p] \in {File("wrapper"), File("partial")}

\* Where there may be something else than a Claude.
SpoiltInv ==
  \A p \in Path : Spoilt(p) =>
    \/ p = Wrapper
    \/ fs[Wrapper] = Link(p)
    \/ p = RealCopy /\ {"torn", "emptied"} \cap happened # {}
    \/ p = Recovered /\ "regular" \in happened

\* A wrapper is written by an installation that has recorded what it replaces.
RecordedInv ==
  {"torn", "emptied"} \cap happened = {} =>
    /\ Spoilt(Wrapper) => conf.real # NoPath
    /\ inst.pc \in Stage \ {"copy", "record"} => conf.real # NoPath

\* The repair looks after the shim.
Watched == conf.units \/ \E r \in Run : rep[r].pc # "idle"

\* Unless the updater puts one there, no file is at a shim that is watched.
ShimInv ==
  "regular" \notin happened =>
    /\ Watched => fs[Shim].kind # "file"
    /\ inst.pc \in Stage /\ inst.cur = Shim /\ fs[Shim].kind = "file" =>
         inst.curReal = Shim /\ inst.pc \notin {"link", "units"}

\* Where Claude is installed.
Installed == Elsewhere \cup Versioned

\* What a repair then finds at the shim, and writes to the temporary file, is
\* an installation of Claude.
FoundInv ==
  "regular" \notin happened =>
    /\ \A r \in Run :
         /\ rep[r].pc \notin {"copy", "copying"}
         /\ rep[r].pc \in {"open", "fill", "rename"} /\ fs[Wrapper].kind # "link" => rep[r].found \in Installed
    /\ fs[Wrapper].kind # "link" => tmp["real"] \in Installed \cup {NoPath, Broken, Missing}

\* What is recorded is another path than those of the shim and the wrapper.
RealInv ==
  happened = {} =>
    /\ installs # 0 => fs[Shim].kind # "file"
    /\ conf.real \in Elsewhere \cup Versioned \cup {RealCopy, NoPath, Broken}
    /\ inst.pc = "copy" => inst.real \in Elsewhere \cup Versioned \cup {Wrapper}
    /\ inst.pc \in Stage \ {"copy"} => inst.real \in Elsewhere \cup Versioned \cup {RealCopy, Broken}

Quiet == {"overwritten", "torn", "emptied"} \cap happened = {}

\* A Claude that stays one.
Lasting(p) ==
  \/ p \in Versioned /\ Present # {}
  \/ p \in Kept /\ fs[p] = File("claude")

\* The binary of launcher.json is recorded before anything is replaced.
BinaryInv ==
  Quiet =>
    /\ conf.binary # NoPath => Lasting(conf.binary)
    /\ conf.binary = NoPath =>
         /\ ~conf.units /\ rep = [r \in Run |-> Idle] /\ ~Spoilt(Wrapper)
         /\ inst.pc \notin {"truncate", "write", "chmod", "remove", "link", "units"}
         /\ conf.real # NoPath => Lasting(conf.real)
         /\ inst.pc = "copy" => inst.real = Wrapper \/ Lasting(inst.real)
         /\ inst.pc \in {"record", "dir", "shim", "json"} => Lasting(inst.real)

\* Something can be executed at the shim or at the wrapper's place; at the
\* latter once there is a repair.
StandInv ==
  Quiet =>
    /\ Executable(Shim) \/ Executable(Wrapper)
    /\ Watched \/ inst.pc \in {"remove", "link", "units"} => fs[Wrapper].kind = "file"

IInv ==
  /\ TypeInv /\ LinkInv /\ UntouchedInv /\ LinkMeansOverwritten /\ SpoiltInv /\ RecordedInv /\ ShimInv
  /\ FoundInv /\ RealInv /\ BinaryInv /\ StandInv
-----------------------------------------------------------------------------
(***************************************************************************)
(* What the sets are made of.                                              *)
(***************************************************************************)
\* The paths are distinct.
LEMMA PathFacts ==
  /\ Shim \in Path /\ Wrapper \in Path /\ RealCopy \in Path /\ Recovered \in Path
  /\ Elsewhere \subseteq Path /\ Versioned \subseteq Path
  /\ NoPath \notin Path /\ Broken \notin Path /\ Missing \notin Path
  /\ NoPath # Broken /\ NoPath # Missing /\ Broken # Missing
  /\ Shim # Wrapper /\ Shim # RealCopy /\ Shim # Recovered
  /\ Wrapper # RealCopy /\ Wrapper # Recovered /\ RealCopy # Recovered
  /\ {Shim, Wrapper, RealCopy, Recovered} \cap (Elsewhere \cup Versioned) = {}
  /\ Elsewhere \cap Versioned = {}
  /\ \A p \in Path : p \in {Shim, Wrapper, RealCopy, Recovered} \/ p \in Elsewhere \/ p \in Versioned
<1>1. NoPath # Broken /\ NoPath # Missing /\ Broken # Missing
  BY DEF NoPath, Broken, Missing
<1> QED BY <1>1, PathAssumption DEF Path, OwnPath, Versioned

\* What is at a path is nothing, a file or a link.
LEMMA NodeFacts ==
  /\ Absent \in Node /\ Absent.kind = "none"
  /\ \A c \in Contents : File(c) \in Node /\ File(c).kind = "file" /\ File(c).to = c
  /\ \A p \in Path : Link(p) \in Node /\ Link(p).kind = "link" /\ Link(p).to = p
  /\ \A n \in Node :
       \/ n = Absent
       \/ n.kind = "file" /\ n.to \in Contents /\ n = File(n.to)
       \/ n.kind = "link" /\ n.to \in Path /\ n = Link(n.to)
<1>1. Absent \in Node /\ Absent.kind = "none"
  BY DEF Node, Absent
<1>2. \A c \in Contents : File(c) \in Node /\ File(c).kind = "file" /\ File(c).to = c
  BY DEF Node, File, Contents
<1>3. \A p \in Path : Link(p) \in Node /\ Link(p).kind = "link" /\ Link(p).to = p
  BY DEF Node, Link
<1>4. ASSUME NEW n \in Node
      PROVE  \/ n = Absent
             \/ n.kind = "file" /\ n.to \in Contents /\ n = File(n.to)
             \/ n.kind = "link" /\ n.to \in Path /\ n = Link(n.to)
  <2>1. n = Absent \/ (\E c \in Contents : n = File(c)) \/ (\E p \in Path : n = Link(p))
    BY DEF Node, Contents
  <2> QED BY <2>1, <1>2, <1>3
<1> QED BY <1>1, <1>2, <1>3, <1>4

\* The fields of an installation that runs, and the next command of it.
LEMMA InstFacts ==
  /\ Idle.pc = "idle"
  /\ \A i \in Installing :
       i.pc \in Stage /\ i.pc # "idle" /\ i.cur \in {Shim, Wrapper} /\ i.real \in Path \cup {Broken} /\ i.curReal \in Path
BY DEF Idle, Installing, Stage

\* The fields of a repair.
LEMMA RepFacts ==
  /\ Idle \in Repairing /\ [pc |-> "start"] \in Repairing
  /\ \A l \in {"link", "copy", "again", "replace"} : [pc |-> l, shim |-> Shim] \in Repairing
  /\ \A c \in Contents : [pc |-> "copying", shim |-> Shim, found |-> c] \in Repairing
  /\ \A l \in {"open", "rename"}, p \in Path, file \in Files :
       [pc |-> l, shim |-> Shim, found |-> p, file |-> file] \in Repairing
  /\ \A p \in Path, file \in Files, at \in {"tmp", "final", "gone"} :
       [pc |-> "fill", shim |-> Shim, found |-> p, file |-> file, at |-> at] \in Repairing
  /\ \A x \in Repairing :
       /\ x.pc \in {"link", "copy", "copying", "open", "fill", "rename", "again", "replace"} => x.shim = Shim
       /\ x.pc = "copying" => x.found \in Contents
       /\ x.pc \in {"open", "fill", "rename"} => x.found \in Path /\ x.file \in Files
       /\ x.pc \in {"idle", "start", "link", "copy", "copying", "open", "fill", "rename", "again", "replace"}
<1>1. Idle \in Repairing /\ [pc |-> "start"] \in Repairing
  BY DEF Repairing, Starting
<1>2. ASSUME NEW x \in Repairing
      PROVE  /\ x.pc \in {"link", "copy", "copying", "open", "fill", "rename", "again", "replace"} => x.shim = Shim
             /\ x.pc = "copying" => x.found \in Contents
             /\ x.pc \in {"open", "fill", "rename"} => x.found \in Path /\ x.file \in Files
             /\ x.pc \in {"idle", "start", "link", "copy", "copying", "open", "fill", "rename", "again", "replace"}
  BY DEF Repairing, Starting, Idle, Reading, Copying, Opening, Filling
<1>3. \A l \in {"link", "copy", "again", "replace"} : [pc |-> l, shim |-> Shim] \in Repairing
  BY DEF Repairing, Reading
<1>4. \A c \in Contents : [pc |-> "copying", shim |-> Shim, found |-> c] \in Repairing
  BY DEF Repairing, Copying
<1>5. \A l \in {"open", "rename"}, p \in Path, file \in Files :
         [pc |-> l, shim |-> Shim, found |-> p, file |-> file] \in Repairing
  BY DEF Repairing, Opening
<1>6. \A p \in Path, file \in Files, at \in {"tmp", "final", "gone"} :
         [pc |-> "fill", shim |-> Shim, found |-> p, file |-> file, at |-> at] \in Repairing
  BY DEF Repairing, Filling
<1> QED BY <1>1, <1>2, <1>3, <1>4, <1>5, <1>6

-----------------------------------------------------------------------------
(***************************************************************************)
(* What the steps do.                                                      *)
(***************************************************************************)
\* Node n comes to path p.
Sets(p, n) == p \in Path /\ fs' \in [Path -> Node] /\ fs'[p] = n /\ \A q \in Path \ {p} : fs'[q] = fs[q]

\* The installer goes on to l.
Onward(l, real) ==
  /\ inst' \in Installing /\ inst'.pc = l /\ inst'.real = real
  /\ inst'.cur = inst.cur /\ inst'.curReal = inst.curReal

\* Run r of the repair is at x.
Moves(r, x) == rep' \in [Run -> Repairing] /\ rep'[r] = x /\ \A q \in Run \ {r} : rep'[q] = rep[q]

\* A command of the installer does not change its variables.
LEMMA ToMoves ==
  ASSUME inst \in Installing, NEW l \in Stage, To(l)
  PROVE  Onward(l, inst.real)
BY DEF To, Installing, Onward

\* One run moves, the other does not.
LEMMA RepMoves ==
  ASSUME rep \in [Run -> Repairing], NEW r \in Run, NEW x \in Repairing, rep' = [rep EXCEPT ![r] = x]
  PROVE  Moves(r, x)
BY DEF Moves

\* The same for a step to one of the last stages.
LEMMA GoMoves ==
  ASSUME rep \in [Run -> Repairing], NEW r \in Run, NEW l \in {"again", "replace"}, rep[r].shim = Shim, Go(r, l)
  PROVE  \E x \in Repairing : x.pc = l /\ Moves(r, x)
<1> DEFINE x == [pc |-> l, shim |-> Shim]
<1>1. x \in Repairing /\ x.pc = l
  BY RepFacts
<1>2. rep' = [rep EXCEPT ![r] = x]
  BY DEF Go, Becomes
<1> HIDE DEF x
<1> QED BY <1>1, <1>2, RepMoves

\* What is derived from the files.
LEMMA StillFiles ==
  ASSUME fs' = fs
  PROVE  /\ Present' = Present
         /\ \A p : /\ Spoilt(p)' = Spoilt(p) /\ Lasting(p)' = Lasting(p)
                   /\ Content(p)' = Content(p) /\ Executable(p)' = Executable(p) /\ Real(p)' = Real(p)
BY DEF Present, Spoilt, Lasting, Content, Executable, Real, Hop, FollowIn

\* Every file can be executed.
LEMMA FileStands ==
  ASSUME TypeInv, NEW p \in Path, fs[p].kind = "file"
  PROVE  Real(p) = p /\ Content(p) = fs[p].to /\ Content(p) \in Contents /\ Executable(p)
<1>1. Real(p) = p
  BY DEF Real, Hop, FollowIn
<1>2. fs[p] \in Node /\ fs[p].to \in Contents
  BY NodeFacts DEF TypeInv
<1>3. Content(p) = fs[p].to
  BY <1>1 DEF Content
<1> QED BY <1>1, <1>2, <1>3 DEF Executable, Contents

\* What can be executed leads to a file.
LEMMA ExecutableFile ==
  ASSUME TypeInv, NEW p, Executable(p)
  PROVE  p \in Path /\ Real(p) \in Path /\ fs[Real(p)].kind = "file" /\ Content(p) = fs[Real(p)].to /\ Content(p) \in Contents
<1>1. p \in Path /\ fs[Real(p)].kind = "file" /\ Content(p) = fs[Real(p)].to
  BY DEF Executable, Content
<1>2. \A q \in Path : Hop(q) \in Path
  BY NodeFacts DEF Hop, FollowIn, TypeInv
<1>3. Real(p) \in Path
  BY <1>1, <1>2 DEF Real
<1> QED BY <1>1, <1>3, NodeFacts DEF TypeInv

-----------------------------------------------------------------------------
(***************************************************************************)
(* What every step of a kind leaves as it is.                              *)
(***************************************************************************)
\* A repair that runs has been installed, and with it what it replaced.
LEMMA RepairsAreInstalled ==
  ASSUME IInv, Watched
  PROVE  /\ installs # 0
         /\ Quiet => conf.binary # NoPath /\ fs[Wrapper].kind = "file"
         /\ "regular" \notin happened => fs[Shim].kind # "file"
<1>1. installs # 0
  BY DEF IInv, UntouchedInv, Watched, Idle
<1>2. Quiet => conf.binary # NoPath
  BY DEF IInv, BinaryInv, Watched, Idle
<1> QED BY <1>1, <1>2 DEF IInv, StandInv, ShimInv

\* A step of the repair, or of systemd, that writes nothing.
LEMMA RepairFrame ==
  ASSUME IInv, Watched, UNCHANGED <<fs, conf, inst, installs, happened>>
  PROVE  /\ LinkInv' /\ UntouchedInv' /\ LinkMeansOverwritten' /\ SpoiltInv' /\ RecordedInv'
         /\ ShimInv' /\ RealInv' /\ BinaryInv' /\ StandInv'
<1>1. LinkInv' /\ LinkMeansOverwritten' /\ RecordedInv' /\ RealInv'
  BY DEF IInv, LinkInv, LinkMeansOverwritten, RecordedInv, Spoilt, RealInv
<1>2. UntouchedInv'
  BY RepairsAreInstalled DEF UntouchedInv
<1>3. SpoiltInv'
  BY StillFiles DEF IInv, SpoiltInv
<1>4. ShimInv'
  BY RepairsAreInstalled DEF IInv, ShimInv
<1>5. BinaryInv'
  BY RepairsAreInstalled, StillFiles DEF IInv, BinaryInv, Quiet
<1>6. StandInv'
  BY RepairsAreInstalled, StillFiles DEF IInv, StandInv, Quiet
<1> QED BY <1>1, <1>2, <1>3, <1>4, <1>5, <1>6

\* An installation that runs has begun.
LEMMA InstallsBegun ==
  ASSUME IInv, inst.pc \in Stage
  PROVE  inst \in Installing /\ installs # 0
BY DEF IInv, TypeInv, UntouchedInv, Idle, Stage

\* A command of the installer that writes to /etc/claude-meter, or nothing,
\* and the installer's end.
LEMMA InstallerFrame ==
  ASSUME IInv, inst \in Installing, UNCHANGED <<fs, tmp, rep, installs, happened>>, conf'.units = conf.units,
         inst' = Idle \/ \E l \in Stage \ {"copy", "link"}, p \in Path \cup {Broken} : Onward(l, p)
  PROVE  /\ LinkInv' /\ UntouchedInv' /\ LinkMeansOverwritten' /\ SpoiltInv' /\ FoundInv'
         /\ inst'.pc # "units" => ShimInv'
         /\ inst'.pc \notin {"remove", "units"} => StandInv'
<1>1. installs # 0
  BY InstallsBegun, InstFacts
<1>2. inst'.pc \notin {"copy", "link"} /\ (inst'.pc \in Stage => inst'.cur = inst.cur /\ inst'.curReal = inst.curReal)
  BY DEF Onward, Idle, Stage
<1>3. LinkInv' /\ UntouchedInv' /\ LinkMeansOverwritten'
  BY <1>1, <1>2 DEF IInv, LinkInv, UntouchedInv, LinkMeansOverwritten
<1>4. SpoiltInv'
  BY StillFiles DEF IInv, SpoiltInv
<1>5. FoundInv'
  BY DEF IInv, FoundInv
<1>6. Watched' = Watched
  BY DEF Watched
<1>7. inst'.pc # "units" => ShimInv'
  BY <1>2, <1>6, InstFacts DEF IInv, ShimInv
<1>8. inst'.pc \notin {"remove", "units"} => StandInv'
  BY <1>2, <1>6, StillFiles DEF IInv, StandInv, Quiet
<1> QED BY <1>3, <1>4, <1>5, <1>7, <1>8

\* An installation that ends inside of a write.
LEMMA TornKeeps ==
  ASSUME IInv, inst \in Installing, Torn, conf' \in Configuration, conf'.units = conf.units
  PROVE  IInv'
<1>1. installs # 0
  BY InstallsBegun, InstFacts
<1>2. TypeInv'
  BY DEF IInv, TypeInv, Torn, bounds
<1>3. UNCHANGED <<fs, tmp, rep, installs>> /\ inst' = Idle /\ happened' = happened \cup {"torn"}
  BY DEF Torn, bounds
<1>4. LinkInv' /\ UntouchedInv' /\ LinkMeansOverwritten'
  BY <1>1, <1>3, InstFacts DEF IInv, LinkInv, UntouchedInv, LinkMeansOverwritten
<1>5. SpoiltInv'
  BY <1>3, StillFiles DEF IInv, SpoiltInv
<1>6. Watched' = Watched
  BY <1>3 DEF Watched
<1>7. ShimInv' /\ FoundInv'
  BY <1>3, <1>6, InstFacts DEF IInv, ShimInv, FoundInv, Stage
<1>8. RecordedInv' /\ RealInv' /\ BinaryInv' /\ StandInv'
  BY <1>3 DEF RecordedInv, RealInv, BinaryInv, StandInv, Quiet
<1> QED BY <1>2, <1>4, <1>5, <1>7, <1>8 DEF IInv

-----------------------------------------------------------------------------
(***************************************************************************)
(* The steps of the repair that write nothing.                             *)
(***************************************************************************)
\* systemd starts the service.
LEMMA TimerKeeps == IInv /\ Timer => IInv'
<1> SUFFICES ASSUME IInv, Timer PROVE IInv'
  OBVIOUS
<1>1. Watched /\ UNCHANGED <<fs, conf, inst, installs, happened>> /\ UNCHANGED <<tmp, updates, kills>>
  BY DEF Timer, Watched, Others, NoFile, bounds
<1>2. Moves("service", [pc |-> "start"])
  BY RepMoves, RepFacts DEF IInv, TypeInv, Timer, Becomes, Run
<1>3. TypeInv'
  BY <1>1, <1>2 DEF IInv, TypeInv, Moves
<1>4. FoundInv'
  BY <1>1, <1>2 DEF IInv, FoundInv, Moves, Run
<1> QED BY <1>1, <1>3, <1>4, RepairFrame DEF IInv

\* What the shim of a repair that runs is, and the types of the runs.
LEMMA Repairs ==
  ASSUME IInv, NEW r \in Run, rep[r].pc # "idle"
  PROVE  rep \in [Run -> Repairing] /\ rep[r] \in Repairing /\ Watched
BY DEF IInv, TypeInv, Watched

\* The first tests; a file at the shim is one that the updater has put there.
LEMMA TestKeeps == \A r \in Run : IInv /\ Test(r) => IInv'
<1> SUFFICES ASSUME NEW r \in Run, IInv, Test(r) PROVE IInv'
  OBVIOUS
<1>1. rep \in [Run -> Repairing] /\ Watched
  BY Repairs DEF Test, In
<1>2. UNCHANGED <<fs, conf, inst, installs, happened>> /\ UNCHANGED <<tmp, updates, kills>>
  BY DEF Test, Others, NoFile, bounds
<1>3. \E x \in Repairing : /\ Moves(r, x)
                           /\ \/ x.pc \in {"idle", "link", "again"}
                              \/ x.pc = "copy" /\ fs[Shim].kind = "file"
  <2>1. CASE conf.shim = NoPath \/ ~Executable(Wrapper)
    <3>1. rep' = [rep EXCEPT ![r] = Idle]
      BY <2>1 DEF Test, Exit, Becomes
    <3>2. Moves(r, Idle)
      BY <1>1, <3>1, RepMoves, RepFacts
    <3> QED BY <3>2, RepFacts, InstFacts
  <2>2. CASE ~(conf.shim = NoPath \/ ~Executable(Wrapper))
    <3>1. conf.shim = Shim /\ fs[Shim] \in Node
      BY <2>2, PathFacts DEF IInv, TypeInv, Configuration
    <3>2. PICK l \in {"link", "copy", "again"} : /\ rep' = [rep EXCEPT ![r] = [pc |-> l, shim |-> Shim]]
                                                 /\ l = "copy" => fs[Shim].kind = "file"
      BY <2>2, <3>1, NodeFacts DEF Test, Becomes
    <3> DEFINE x == [pc |-> l, shim |-> Shim]
    <3>3. x \in Repairing /\ x.pc = l
      BY RepFacts
    <3>4. Moves(r, x)
      BY <1>1, <3>2, <3>3, RepMoves
    <3> HIDE DEF x
    <3> QED BY <3>2, <3>3, <3>4
  <2> QED BY <2>1, <2>2
<1>4. TypeInv'
  BY <1>2, <1>3 DEF IInv, TypeInv, Moves
<1>5. FoundInv'
  BY <1>1, <1>2, <1>3, RepairsAreInstalled DEF IInv, FoundInv, Moves
<1> QED BY <1>1, <1>2, <1>4, <1>5, RepairFrame DEF IInv

\* Without a file of the updater's, a shim that can be executed leads to the
\* wrapper or to an installation of Claude.
LEMMA ShimLeads ==
  ASSUME IInv, fs[Shim].kind # "file", fs[Wrapper].kind # "link", Executable(Shim)
  PROVE  Real(Shim) = Wrapper \/ Real(Shim) \in Elsewhere \cup Versioned
<1>1. fs[Real(Shim)].kind = "file" /\ fs \in [Path -> Node]
  BY ExecutableFile DEF IInv, TypeInv
<1>2. fs[Shim].kind = "link"
  BY <1>1 DEF Real, Hop, FollowIn
<1>3. PICK t \in Path : fs[Shim].to = t /\ t \notin {RealCopy, Recovered}
  BY <1>1, <1>2, PathFacts, NodeFacts DEF IInv, LinkInv
<1>4. Real(Shim) = Hop(t)
  BY <1>2, <1>3 DEF Real, Hop, FollowIn
<1>5. t # Shim
  BY <1>1, <1>2, <1>3, <1>4 DEF Hop, FollowIn
<1>6. fs[t].kind # "link"
  BY <1>5, PathFacts DEF IInv, LinkInv
<1>7. Real(Shim) = t
  BY <1>4, <1>6 DEF Hop, FollowIn
<1> QED BY <1>3, <1>5, <1>7, PathFacts

\* A link is read.
LEMMA ReadLinkKeeps == \A r \in Run : IInv /\ ReadLink(r) => IInv'
<1> SUFFICES ASSUME NEW r \in Run, IInv, ReadLink(r) PROVE IInv'
  OBVIOUS
<1>1. rep \in [Run -> Repairing] /\ Watched /\ rep[r].pc = "link" /\ rep[r].shim = Shim
  BY Repairs, RepFacts DEF ReadLink, In
<1>2. UNCHANGED <<fs, conf, inst, installs, happened>> /\ UNCHANGED <<tmp, updates, kills>>
  BY DEF ReadLink, Others, NoFile, bounds
<1>3. \E x \in Repairing : /\ Moves(r, x)
                           /\ \/ x.pc = "again"
                              \/ x.pc = "open" /\ x.found = Real(Shim) /\ Executable(Shim) /\ Real(Shim) # Wrapper
  <2>1. CASE Executable(Shim) /\ Real(Shim) # Wrapper
    <3> DEFINE x == [pc |-> "open", shim |-> Shim, found |-> Real(Shim), file |-> "real"]
    <3>1. rep' = [rep EXCEPT ![r] = x]
      BY <1>1, <2>1 DEF ReadLink, WritesReal, Becomes
    <3>2. Real(Shim) \in Path
      BY <2>1, ExecutableFile DEF IInv
    <3>3. x \in Repairing /\ x.pc = "open" /\ x.found = Real(Shim)
      BY <3>2, RepFacts DEF Files
    <3> HIDE DEF x
    <3> QED BY <1>1, <2>1, <3>1, <3>3, RepMoves
  <2>2. CASE ~(Executable(Shim) /\ Real(Shim) # Wrapper)
    <3>1. Go(r, "again")
      BY <1>1, <2>2 DEF ReadLink
    <3> QED BY <1>1, <3>1, GoMoves
  <2> QED BY <2>1, <2>2
<1>4. TypeInv'
  BY <1>2, <1>3 DEF IInv, TypeInv, Moves
<1>5. FoundInv'
  BY <1>1, <1>2, <1>3, RepairsAreInstalled, ShimLeads DEF IInv, FoundInv, Installed, Moves
<1> QED BY <1>1, <1>2, <1>4, <1>5, RepairFrame DEF IInv

\* The last test.
LEMMA TestAgainKeeps == \A r \in Run : IInv /\ TestAgain(r) => IInv'
<1> SUFFICES ASSUME NEW r \in Run, IInv, TestAgain(r) PROVE IInv'
  OBVIOUS
<1>1. rep \in [Run -> Repairing] /\ Watched /\ rep[r].pc = "again" /\ rep[r].shim = Shim
  BY Repairs, RepFacts DEF TestAgain, In
<1>2. UNCHANGED <<fs, conf, inst, installs, happened>> /\ UNCHANGED <<tmp, updates, kills>>
  BY DEF TestAgain, Others, NoFile, bounds
<1>3. \E x \in Repairing : Moves(r, x) /\ x.pc \in {"idle", "replace"}
  <2>1. CASE Exit(r)
    BY <1>1, <2>1, RepMoves, RepFacts, InstFacts DEF Exit, Becomes
  <2>2. CASE Go(r, "replace")
    BY <1>1, <2>2, GoMoves
  <2> QED BY <2>1, <2>2 DEF TestAgain
<1>4. TypeInv'
  BY <1>2, <1>3 DEF IInv, TypeInv, Moves
<1>5. FoundInv'
  BY <1>2, <1>3 DEF IInv, FoundInv, Moves
<1> QED BY <1>1, <1>2, <1>4, <1>5, RepairFrame DEF IInv

-----------------------------------------------------------------------------
(***************************************************************************)
(* The steps of the repair that write.                                     *)
(***************************************************************************)
\* What lasts is not touched by a change of another file.
LEMMA LastingStays ==
  ASSUME NEW p, NEW n, Sets(p, n), p \notin Versioned, p \in Kept => n = File("claude"), NEW q, Lasting(q)
  PROVE  Lasting(q)'
<1>1. \A v \in Versioned : fs'[v] = fs[v]
  BY PathFacts DEF Sets
<1>2. Present' = Present
  BY <1>1 DEF Present, Versioned
<1>3. q \in Kept => q \in Path
  BY PathFacts DEF Kept
<1> QED BY <1>2, <1>3 DEF Lasting, Sets

\* A file can be executed after the step as well.
LEMMA FileStandsNext ==
  ASSUME fs' \in [Path -> Node], NEW p \in Path, fs'[p].kind = "file"
  PROVE  Executable(p)'
<1>1. Real(p)' = p
  BY DEF Real, Hop, FollowIn
<1>2. fs'[p].to \in Contents
  BY NodeFacts
<1> QED BY <1>1, <1>2 DEF Executable, Content, Contents

\* A step that puts a file at Recovered.
LEMMA RecoveredFrame ==
  ASSUME IInv, Watched, "regular" \in happened, NEW c \in Contents, Sets(Recovered, File(c)),
         UNCHANGED <<conf, inst, installs, happened>>
  PROVE  /\ LinkInv' /\ UntouchedInv' /\ LinkMeansOverwritten' /\ SpoiltInv' /\ RecordedInv'
         /\ ShimInv' /\ FoundInv' /\ RealInv' /\ BinaryInv' /\ StandInv'
<1>1. fs'[Recovered].kind = "file" /\ fs'[Wrapper] = fs[Wrapper]
  BY PathFacts, NodeFacts DEF Sets
<1>2. LinkInv' /\ UntouchedInv' /\ LinkMeansOverwritten'
  BY <1>1, PathFacts, RepairsAreInstalled DEF IInv, LinkInv, UntouchedInv, LinkMeansOverwritten, Sets
<1>3. SpoiltInv'
  BY <1>1, PathFacts DEF IInv, SpoiltInv, Spoilt, Sets
<1>4. RecordedInv'
  BY <1>1 DEF IInv, RecordedInv, Spoilt
<1>5. ShimInv' /\ FoundInv' /\ RealInv'
  BY DEF ShimInv, FoundInv, RealInv
<1>6. BinaryInv'
  BY LastingStays, RepairsAreInstalled, PathFacts DEF IInv, BinaryInv, Quiet, Kept
<1>7. StandInv'
  BY <1>1, FileStandsNext, RepairsAreInstalled, PathFacts DEF StandInv, Quiet, Sets
<1> QED BY <1>2, <1>3, <1>4, <1>5, <1>6, <1>7

\* cp -f begins.
LEMMA CopyBeginsKeeps == \A r \in Run : IInv /\ CopyBegins(r) => IInv'
<1> SUFFICES ASSUME NEW r \in Run, IInv, CopyBegins(r) PROVE IInv'
  OBVIOUS
<1>1. rep \in [Run -> Repairing] /\ Watched /\ rep[r].pc = "copy" /\ rep[r].shim = Shim
  BY Repairs, RepFacts DEF CopyBegins, In
<1>2. UNCHANGED <<conf, inst, installs, happened>> /\ UNCHANGED <<tmp, updates, kills>>
  BY DEF CopyBegins, Others, bounds
<1>3. CASE Executable(Shim)
  <2>1. "regular" \in happened
    BY <1>1 DEF IInv, FoundInv
  <2>2. Sets(Recovered, File("partial"))
    BY <1>1, <1>3, PathFacts, NodeFacts DEF CopyBegins, Sets, IInv, TypeInv, Contents
  <2>3. rep' = [rep EXCEPT ![r] = [pc |-> "copying", shim |-> Shim, found |-> Content(Shim)]] /\ Content(Shim) \in Contents
    BY <1>1, <1>3, ExecutableFile DEF CopyBegins, Becomes, IInv
  <2>4. rep' \in [Run -> Repairing]
    BY <1>1, <2>3, RepFacts
  <2>5. TypeInv'
    BY <1>2, <2>2, <2>4 DEF IInv, TypeInv, Sets
  <2> QED BY <1>1, <1>2, <2>1, <2>2, <2>5, RecoveredFrame DEF IInv, Contents
<1>4. CASE ~Executable(Shim)
  <2>1. Moves(r, Idle) /\ fs' = fs
    BY <1>1, <1>4, RepMoves, RepFacts DEF CopyBegins, Exit, Becomes
  <2>2. TypeInv'
    BY <1>2, <2>1 DEF IInv, TypeInv, Moves
  <2>3. FoundInv'
    BY <1>2, <2>1, InstFacts DEF IInv, FoundInv, Moves
  <2> QED BY <1>1, <1>2, <2>1, <2>2, <2>3, RepairFrame DEF IInv
<1> QED BY <1>3, <1>4

\* cp -f ends.
LEMMA CopyEndsKeeps == \A r \in Run : IInv /\ CopyEnds(r) => IInv'
<1> SUFFICES ASSUME NEW r \in Run, IInv, CopyEnds(r) PROVE IInv'
  OBVIOUS
<1>1. /\ rep \in [Run -> Repairing] /\ Watched
      /\ rep[r].pc = "copying" /\ rep[r].shim = Shim /\ rep[r].found \in Contents
  BY Repairs, RepFacts DEF CopyEnds, In
<1>2. UNCHANGED <<conf, inst, installs, happened>> /\ UNCHANGED <<tmp, updates, kills>>
  BY DEF CopyEnds, Others, bounds
<1>3. "regular" \in happened
  BY <1>1 DEF IInv, FoundInv
<1>4. Sets(Recovered, File(rep[r].found))
  BY <1>1, PathFacts, NodeFacts DEF CopyEnds, Sets, IInv, TypeInv
<1>5. rep' \in [Run -> Repairing]
  <2>1. rep' = [rep EXCEPT ![r] = [pc |-> "open", shim |-> Shim, found |-> Recovered, file |-> "real"]]
    BY <1>1 DEF CopyEnds, WritesReal, Becomes
  <2> QED BY <1>1, <2>1, PathFacts, RepFacts DEF Files
<1>6. TypeInv'
  BY <1>2, <1>4, <1>5 DEF IInv, TypeInv, Sets
<1> QED BY <1>1, <1>2, <1>3, <1>4, <1>6, RecoveredFrame DEF IInv

(***************************************************************************)
(* write_real, whose temporary files both runs write to.                   *)
(***************************************************************************)
\* A run of write_real.
Recording(r) == rep[r].pc \in {"open", "fill", "rename"}

\* The variables of a run of write_real.
LEMMA Records ==
  ASSUME IInv, NEW r \in Run, Recording(r)
  PROVE  /\ rep \in [Run -> Repairing] /\ Watched
         /\ rep[r].shim = Shim /\ rep[r].found \in Path /\ rep[r].file \in Files
BY Repairs, RepFacts DEF Recording

\* Where the other run is after a step: it may write to another file by now.
Carried(q) ==
  /\ rep'[q] \in Repairing /\ rep'[q].pc = rep[q].pc
  /\ rep[q].pc \in {"open", "fill", "rename"} => rep'[q].found = rep[q].found

\* A step of a run of write_real changes real-claude, if at all, to what has
\* been found, by it or by the other run, or to something that is no path.
LEMMA RecordsFound ==
  ASSUME IInv, Watched, conf' \in Configuration, conf'.binary = conf.binary, conf'.units = conf.units,
         UNCHANGED <<fs, inst, installs>>, happened \subseteq happened',
         happened' \subseteq happened \cup {"emptied"},
         conf'.real = NoPath => conf.real = NoPath \/ "emptied" \in happened',
         \/ conf'.real = conf.real
         \/ conf'.real \in {NoPath, Broken}
         \/ "regular" \notin happened /\ fs[Wrapper].kind # "link" => conf'.real \in Installed
  PROVE  /\ LinkInv' /\ UntouchedInv' /\ LinkMeansOverwritten' /\ SpoiltInv' /\ RecordedInv'
         /\ ShimInv' /\ RealInv' /\ BinaryInv' /\ StandInv'
<1>1. installs # 0
  BY RepairsAreInstalled
<1>2. LinkInv' /\ UntouchedInv' /\ LinkMeansOverwritten'
  BY <1>1 DEF IInv, LinkInv, UntouchedInv, LinkMeansOverwritten
<1>3. SpoiltInv'
  BY StillFiles DEF IInv, SpoiltInv
<1>4. RecordedInv'
  BY StillFiles DEF IInv, RecordedInv
<1>5. ShimInv'
  BY RepairsAreInstalled DEF IInv, ShimInv
<1>6. RealInv'
  <2>1. happened' = {} => happened = {} /\ fs[Wrapper].kind # "link"
    BY <1>1 DEF IInv, LinkMeansOverwritten
  <2>2. happened' = {} => conf'.real \in Elsewhere \cup Versioned \cup {RealCopy, NoPath, Broken}
    BY <2>1 DEF IInv, RealInv, Installed
  <2> QED BY <2>1, <2>2 DEF IInv, RealInv
<1>7. Quiet' => Quiet
  BY DEF Quiet
<1>8. BinaryInv'
  BY <1>7, RepairsAreInstalled, StillFiles DEF IInv, BinaryInv
<1>9. StandInv'
  BY <1>7, RepairsAreInstalled, StillFiles DEF IInv, StandInv
<1> QED BY <1>2, <1>3, <1>4, <1>5, <1>6, <1>8, <1>9

\* The temporary file is empty.
LEMMA OpenKeeps == \A r \in Run : IInv /\ Open(r) => IInv'
<1> SUFFICES ASSUME NEW r \in Run, IInv, Open(r) PROVE IInv'
  OBVIOUS
<1>1. /\ rep[r].pc = "open" /\ rep \in [Run -> Repairing] /\ Watched
      /\ rep[r].shim = Shim /\ rep[r].found \in Path /\ rep[r].file \in Files
  BY Records DEF Open, In, Recording
<1>2. UNCHANGED <<fs, conf, inst, installs, happened>> /\ UNCHANGED <<updates, kills>>
  BY DEF Open, Others, bounds
<1>3. \E x \in Repairing : Moves(r, x) /\ x.pc = "fill" /\ x.found = rep[r].found
  <2> DEFINE x == [pc |-> "fill", shim |-> Shim, found |-> rep[r].found, file |-> rep[r].file, at |-> "tmp"]
  <2>1. x \in Repairing /\ x.pc = "fill" /\ x.found = rep[r].found
    BY <1>1, RepFacts
  <2>2. rep' = [rep EXCEPT ![r] = x]
    BY <1>1 DEF Open, Becomes
  <2> HIDE DEF x
  <2> QED BY <1>1, <2>1, <2>2, RepMoves
<1>4. tmp' = [tmp EXCEPT ![rep[r].file] = NoPath]
  BY DEF Open
<1>5. TypeInv'
  BY <1>1, <1>2, <1>3, <1>4 DEF IInv, TypeInv, Moves, Files
<1>6. FoundInv'
  BY <1>1, <1>2, <1>3, <1>4 DEF IInv, TypeInv, FoundInv, Moves, Files
<1> QED BY <1>1, <1>2, <1>5, <1>6, RepairFrame DEF IInv

\* What is written over another text is the text, or no path.
LEMMA OverFacts ==
  ASSUME NEW old, NEW new
  PROVE  /\ \A t \in Over(old, new) : t \in {new, Broken}
         /\ old \in {NoPath, new, Missing} => Over(old, new) = {new}
BY PathFacts DEF Over

\* The text is written, to the temporary file or to the one it has become.
LEMMA FillKeeps == \A r \in Run : IInv /\ Fill(r) => IInv'
<1> SUFFICES ASSUME NEW r \in Run, IInv, Fill(r) PROVE IInv'
  OBVIOUS
<1>1. /\ rep[r].pc = "fill" /\ rep \in [Run -> Repairing] /\ Watched
      /\ rep[r].shim = Shim /\ rep[r].found \in Path /\ rep[r].file \in Files
  BY Records DEF Fill, In, Recording
<1>2. UNCHANGED <<fs, inst, installs, happened>> /\ UNCHANGED <<updates, kills>>
  BY DEF Fill, Others, bounds
<1>3. \E x \in Repairing : Moves(r, x) /\ x.pc = "rename" /\ x.found = rep[r].found
  <2> DEFINE x == [pc |-> "rename", shim |-> Shim, found |-> rep[r].found, file |-> rep[r].file]
  <2>1. x \in Repairing /\ x.pc = "rename" /\ x.found = rep[r].found
    BY <1>1, RepFacts
  <2>2. rep' = [rep EXCEPT ![r] = x]
    BY <1>1 DEF Fill, Becomes
  <2> HIDE DEF x
  <2> QED BY <1>1, <2>1, <2>2, RepMoves
<1> DEFINE f == rep[r].file
           text == Text(rep[r])
<1>4. \/ f = "real" /\ text = rep[r].found
      \/ f = "dir" /\ text = Dir
  BY <1>1 DEF Text, Files
<1>5. "regular" \notin happened /\ fs[Wrapper].kind # "link" => rep[r].found \in Installed
  BY <1>1 DEF IInv, FoundInv
<1>6. \/ conf' = conf /\ \E t \in Over(tmp[f], text) : tmp' = [tmp EXCEPT ![f] = t]
      \/ tmp' = tmp /\ \E t \in Over(Stored(f), text) : conf' = Store(f, t)
      \/ tmp' = tmp /\ conf' = conf
  BY DEF Fill
<1> HIDE DEF f, text
<1>7. CASE conf' = conf /\ \E t \in Over(tmp[f], text) : tmp' = [tmp EXCEPT ![f] = t]
  <2>1. PICK t \in Over(tmp[f], text) : tmp' = [tmp EXCEPT ![f] = t]
    BY <1>7
  <2>2. t \in {text, Broken} /\ (f = "dir" => t = Dir)
    BY <1>4, <2>1, OverFacts DEF IInv, TypeInv
  <2>3. TypeInv'
    BY <1>1, <1>2, <1>3, <1>4, <1>7, <2>1, <2>2 DEF IInv, TypeInv, Moves, Files
  <2>4. FoundInv'
    BY <1>1, <1>2, <1>3, <1>4, <1>5, <2>1, <2>2 DEF IInv, TypeInv, FoundInv, Moves, Files
  <2> QED BY <1>1, <1>2, <1>7, <2>3, <2>4, RepairFrame DEF IInv
<1>8. CASE tmp' = tmp /\ \E t \in Over(Stored(f), text) : conf' = Store(f, t)
  <2>1. PICK t \in Over(Stored(f), text) : conf' = Store(f, t)
    BY <1>8
  <2>2. t \in {text, Broken}
    BY <2>1, OverFacts
  <2>3. f = "dir" => t = Dir
    BY <1>4, <2>1, OverFacts DEF Stored, IInv, TypeInv, Configuration
  <2>4. /\ conf' \in Configuration /\ conf'.binary = conf.binary /\ conf'.units = conf.units
        /\ f = "real" => conf'.real = t
        /\ f = "dir" => conf'.real = conf.real
    BY <1>1, <1>4, <2>1, <2>2, <2>3 DEF Store, IInv, TypeInv, Configuration
  <2>5. TypeInv'
    BY <1>1, <1>2, <1>3, <1>8, <2>4 DEF IInv, TypeInv, Moves
  <2>6. FoundInv'
    BY <1>1, <1>2, <1>3, <1>5, <1>8 DEF IInv, FoundInv, Moves
  <2>7. f = "real" => t # NoPath
    BY <1>1, <1>4, <2>2, PathFacts
  <2>8. /\ conf'.real = NoPath => conf.real = NoPath
        /\ \/ conf'.real = conf.real
           \/ conf'.real \in {NoPath, Broken}
           \/ "regular" \notin happened /\ fs[Wrapper].kind # "link" => conf'.real \in Installed
    BY <1>4, <1>5, <2>2, <2>4, <2>7
  <2> QED BY <1>1, <1>2, <2>4, <2>5, <2>6, <2>8, RecordsFound DEF IInv
<1>9. CASE tmp' = tmp /\ conf' = conf
  <2>1. TypeInv' /\ FoundInv'
    BY <1>1, <1>2, <1>3, <1>5, <1>9 DEF IInv, TypeInv, FoundInv, Moves
  <2> QED BY <1>1, <1>2, <1>9, <2>1, RepairFrame DEF IInv
<1> QED BY <1>6, <1>7, <1>8, <1>9

\* What a run has opened moves with its name.
LEMMA MovedFacts ==
  ASSUME NEW x \in Repairing, NEW file
  PROVE  /\ Moved(x, file) \in Repairing /\ Moved(x, file).pc = x.pc
         /\ x.pc \in {"open", "fill", "rename"} => Moved(x, file).found = x.found
<1>1. CASE x.pc = "fill" /\ x.file = file
  <2>1. x \in Filling
    BY <1>1 DEF Repairing, Starting, Idle, Reading, Copying, Opening
  <2>2. Moved(x, file) \in Filling /\ Moved(x, file).found = x.found /\ Moved(x, file).pc = "fill"
    BY <1>1, <2>1 DEF Moved, Filling
  <2> QED BY <1>1, <2>2 DEF Repairing
<1>2. CASE ~(x.pc = "fill" /\ x.file = file)
  BY <1>2 DEF Moved
<1> QED BY <1>1, <1>2

\* The temporary file takes the place of the other one, if it is there.
LEMMA RenameKeeps == \A r \in Run : IInv /\ Rename(r) => IInv'
<1> SUFFICES ASSUME NEW r \in Run, IInv, Rename(r) PROVE IInv'
  OBVIOUS
<1>1. /\ rep[r].pc = "rename" /\ rep \in [Run -> Repairing] /\ Watched
      /\ rep[r].shim = Shim /\ rep[r].found \in Path /\ rep[r].file \in Files
  BY Records DEF Rename, In, Recording
<1>2. UNCHANGED <<fs, inst, installs>> /\ UNCHANGED <<updates, kills>>
  BY DEF Rename, bounds
<1> DEFINE f == rep[r].file
<1>3. CASE tmp[f] = Missing
  <2>1. UNCHANGED <<conf, tmp, happened>> /\ rep' = [rep EXCEPT ![r] = Idle]
    BY <1>3 DEF Rename, Exit, Becomes
  <2>2. Moves(r, Idle)
    BY <1>1, <2>1, RepMoves, RepFacts
  <2>3. TypeInv' /\ FoundInv'
    BY <1>2, <2>1, <2>2, InstFacts DEF IInv, TypeInv, FoundInv, Moves
  <2> QED BY <1>1, <1>2, <2>1, <2>3, RepairFrame DEF IInv
<1>4. CASE tmp[f] # Missing
  <2> DEFINE next == IF f = "real" /\ InVersions(rep[r].found) THEN [rep[r] EXCEPT !.pc = "open", !.file = "dir"]
                     ELSE [pc |-> "again", shim |-> Shim]
  <2>1. /\ conf' = Store(f, tmp[f]) /\ tmp' = [tmp EXCEPT ![f] = Missing]
        /\ rep' = [q \in Run |-> IF q = r THEN next ELSE Moved(rep[q], f)]
        /\ happened' = happened \cup IF f = "real" /\ tmp[f] = NoPath THEN {"emptied"} ELSE {}
    BY <1>1, <1>4 DEF Rename
  <2>2. next \in Repairing /\ next.pc \in {"open", "again"} /\ (next.pc = "open" => next.found = rep[r].found)
    <3>1. CASE f = "real" /\ InVersions(rep[r].found)
      <4>1. rep[r] \in Opening
        BY <1>1 DEF Repairing, Starting, Idle, Reading, Copying, Filling
      <4>2. next \in Opening /\ next.pc = "open" /\ next.found = rep[r].found
        BY <3>1, <4>1 DEF Opening, Files
      <4> QED BY <4>2 DEF Repairing
    <3>2. CASE ~(f = "real" /\ InVersions(rep[r].found))
      BY <3>2, RepFacts
    <3> QED BY <3>1, <3>2
  <2> HIDE DEF next
  <2>3. \A q \in Run \ {r} : Carried(q)
    BY <1>1, <2>1, MovedFacts DEF Carried
  <2>4. rep' \in [Run -> Repairing] /\ rep'[r] = next
    BY <1>1, <2>1, <2>2, MovedFacts
  <2>5. tmp["real"] \in Path \cup {NoPath, Broken, Missing} /\ tmp["dir"] \in {NoPath, Dir, Missing}
    BY DEF IInv, TypeInv
  <2>6. /\ conf' \in Configuration /\ conf'.binary = conf.binary /\ conf'.units = conf.units
        /\ f = "real" => conf'.real = tmp["real"]
        /\ f = "dir" => conf'.real = conf.real
    BY <1>1, <1>4, <2>1, <2>5 DEF Store, IInv, TypeInv, Configuration, Files
  <2>7. /\ tmp' \in [Files -> Path \cup {NoPath, Broken, Missing, Dir}]
        /\ tmp'["real"] \in {tmp["real"], Missing} /\ tmp'["dir"] \in {tmp["dir"], Missing}
    BY <1>1, <2>1 DEF IInv, TypeInv, Files
  <2>8. happened \subseteq happened' /\ happened' \subseteq happened \cup {"emptied"}
    BY <2>1
  <2>9. TypeInv'
    BY <1>2, <2>4, <2>5, <2>6, <2>7, <2>8 DEF IInv, TypeInv
  <2>10. FoundInv'
    <3> SUFFICES ASSUME "regular" \notin happened
                 PROVE  /\ \A q \in Run : /\ rep'[q].pc \notin {"copy", "copying"}
                                          /\ rep'[q].pc \in {"open", "fill", "rename"} /\ fs[Wrapper].kind # "link" =>
                                               rep'[q].found \in Installed
                        /\ fs[Wrapper].kind # "link" => tmp'["real"] \in Installed \cup {NoPath, Broken, Missing}
      BY <1>2, <2>8 DEF FoundInv, Installed
    <3>1. fs[Wrapper].kind # "link" => tmp'["real"] \in Installed \cup {NoPath, Broken, Missing}
      BY <2>7 DEF IInv, FoundInv
    <3>2. /\ rep'[r].pc \notin {"copy", "copying"}
          /\ rep'[r].pc \in {"open", "fill", "rename"} /\ fs[Wrapper].kind # "link" => rep'[r].found \in Installed
      BY <1>1, <2>2, <2>4 DEF IInv, FoundInv
    <3>3. \A q \in Run \ {r} :
             /\ rep'[q].pc \notin {"copy", "copying"}
             /\ rep'[q].pc \in {"open", "fill", "rename"} /\ fs[Wrapper].kind # "link" => rep'[q].found \in Installed
      BY <2>3 DEF IInv, FoundInv, Carried
    <3> QED BY <3>1, <3>2, <3>3
  <2>11. /\ conf'.real = NoPath => conf.real = NoPath \/ "emptied" \in happened'
         /\ \/ conf'.real = conf.real
            \/ conf'.real \in {NoPath, Broken}
            \/ "regular" \notin happened /\ fs[Wrapper].kind # "link" => conf'.real \in Installed
    <3>1. CASE f = "real"
      <4>1. "regular" \notin happened /\ fs[Wrapper].kind # "link" => tmp["real"] \in Installed \cup {NoPath, Broken}
        BY <1>4, <3>1 DEF IInv, FoundInv
      <4>2. conf'.real = NoPath => "emptied" \in happened'
        BY <2>1, <2>6, <3>1
      <4> QED BY <2>6, <3>1, <4>1, <4>2
    <3>2. CASE f = "dir"
      BY <2>6, <3>2
    <3> QED BY <1>1, <3>1, <3>2 DEF Files
  <2> QED BY <1>1, <1>2, <2>6, <2>8, <2>9, <2>10, <2>11, RecordsFound DEF IInv
<1> QED BY <1>3, <1>4

\* A run that is killed.
LEMMA RepairKilledKeeps == \A r \in Run : IInv /\ RepairKilled(r) => IInv'
<1> SUFFICES ASSUME NEW r \in Run, IInv, RepairKilled(r) PROVE IInv'
  OBVIOUS
<1>1. rep \in [Run -> Repairing] /\ rep[r] \in Repairing /\ Watched
  BY Repairs DEF RepairKilled, In
<1>2. UNCHANGED <<fs, conf, inst, installs, happened>> /\ UNCHANGED <<tmp, updates>> /\ kills' \in 0..MaxKills
  BY BoundAssumption DEF RepairKilled, NoFile, IInv, TypeInv
<1>3. Moves(r, Idle)
  BY <1>1, RepMoves, RepFacts DEF RepairKilled, Exit, Becomes
<1>4. TypeInv' /\ FoundInv'
  BY <1>2, <1>3, InstFacts DEF IInv, TypeInv, FoundInv, Moves
<1> QED BY <1>1, <1>2, <1>4, RepairFrame DEF IInv

\* A link to the wrapper comes to the shim.
LEMMA LinkFrame ==
  ASSUME IInv, installs # 0, Sets(Shim, WrapperLink), fs[Wrapper].kind = "file" \/ ~Quiet,
         UNCHANGED <<conf, installs, happened>>,
         inst' = inst \/ (inst.pc = "link" /\ Onward("units", inst.real)),
         conf.binary # NoPath \/ ~Quiet
  PROVE  /\ LinkInv' /\ UntouchedInv' /\ LinkMeansOverwritten' /\ SpoiltInv' /\ RecordedInv'
         /\ ShimInv' /\ RealInv' /\ BinaryInv' /\ StandInv'
<1>1. fs'[Shim].kind = "link" /\ fs'[Shim].to = Wrapper /\ fs'[Wrapper] = fs[Wrapper] /\ ~Spoilt(Shim)'
  <2>1. fs'[Shim] = Link(Wrapper) /\ fs'[Wrapper] = fs[Wrapper]
    BY PathFacts DEF Sets, WrapperLink
  <2> QED BY <2>1, PathFacts, NodeFacts DEF Spoilt, Contents
<1>2. LinkInv' /\ UntouchedInv' /\ LinkMeansOverwritten'
  BY <1>1, PathFacts DEF IInv, LinkInv, UntouchedInv, LinkMeansOverwritten, Sets, Onward
<1>3. SpoiltInv'
  BY <1>1 DEF IInv, SpoiltInv, Spoilt, Sets
<1>4. RecordedInv'
  BY <1>1 DEF IInv, RecordedInv, Spoilt, Onward, Stage
<1>5. ShimInv'
  BY <1>1 DEF ShimInv
<1>6. RealInv'
  BY <1>1 DEF IInv, RealInv, Onward, Stage
<1>7. BinaryInv'
  BY LastingStays, PathFacts DEF IInv, BinaryInv, Quiet, Kept
<1>8. StandInv'
  BY <1>1, FileStandsNext, PathFacts DEF StandInv, Quiet, Sets
<1> QED BY <1>2, <1>3, <1>4, <1>5, <1>6, <1>7, <1>8

\* mv -Tf.
LEMMA ReplaceKeeps == \A r \in Run : IInv /\ Replace(r) => IInv'
<1> SUFFICES ASSUME NEW r \in Run, IInv, Replace(r) PROVE IInv'
  OBVIOUS
<1>1. rep \in [Run -> Repairing] /\ Watched /\ rep[r].shim = Shim
  BY Repairs, RepFacts DEF Replace, In
<1>2. UNCHANGED <<conf, inst, installs, happened>> /\ UNCHANGED <<tmp, updates, kills>>
  BY DEF Replace, Others, bounds
<1>3. Sets(Shim, WrapperLink)
  BY <1>1, PathFacts, NodeFacts DEF Replace, Sets, WrapperLink, IInv, TypeInv
<1>4. Moves(r, Idle)
  BY <1>1, RepMoves, RepFacts DEF Replace, Exit, Becomes
<1>5. TypeInv'
  BY <1>2, <1>3, <1>4 DEF IInv, TypeInv, Moves, Sets
<1>6. FoundInv'
  BY <1>2, <1>3, <1>4, PathFacts, InstFacts DEF IInv, FoundInv, Moves, Sets
<1> QED BY <1>1, <1>2, <1>3, <1>5, <1>6, RepairsAreInstalled, LinkFrame DEF IInv

-----------------------------------------------------------------------------
(***************************************************************************)
(* The installer.                                                          *)
(***************************************************************************)
\* What an installation may find: at the shim a link, or Claude itself, which
\* it overwrites.
LEMMA Requested ==
  ASSUME IInv, OnPath # NoPath, {"overwritten", "torn", "emptied"} \cap (happened \cup IF Overwrites THEN {"overwritten"} ELSE {}) = {}
  PROVE  /\ fs[Wrapper].kind # "link" /\ (OnPath = Shim => fs[Shim].kind # "file")
         /\ Real(OnPath) = Wrapper \/ Lasting(Real(OnPath))
         /\ Real(OnPath) = Wrapper \/ Real(OnPath) \in Elsewhere \cup Versioned
<1>1. ~Overwrites /\ Quiet
  BY DEF Quiet
<1>2. fs[Wrapper].kind # "link" /\ (OnPath = Shim => fs[Shim].kind # "file")
  BY <1>1 DEF Overwrites
<1>3. Executable(OnPath) /\ OnPath \in {Shim, Wrapper}
  BY DEF OnPath
<1>4. Real(OnPath) \in Path /\ fs[Real(OnPath)].kind = "file"
  BY <1>3, ExecutableFile DEF IInv
<1>5. CASE OnPath = Wrapper
  <2>1. Real(Wrapper) = Wrapper
    BY <1>2 DEF Real, Hop, FollowIn
  <2> QED BY <1>2, <1>5, <2>1
<1>6. CASE OnPath = Shim
  <2>1. Real(Shim) = Wrapper \/ Real(Shim) \in Elsewhere \cup Versioned
    BY <1>2, <1>3, <1>6, ShimLeads
  <2>2. CASE Real(Shim) \in Versioned
    BY <1>2, <1>4, <1>6, <2>2 DEF Lasting, Present, Versioned
  <2>3. CASE Real(Shim) \in Elsewhere
    <3>1. ~Spoilt(Real(Shim))
      <4>1. fs[Wrapper] # Link(Real(Shim))
        BY <1>2, <1>4, <1>6, NodeFacts
      <4> QED BY <1>4, <1>6, <2>3, <4>1, PathFacts DEF IInv, SpoiltInv
    <3>2. fs[Real(Shim)] = File("claude")
      BY <1>4, <1>6, <3>1, NodeFacts DEF Spoilt, IInv, TypeInv, Contents
    <3> QED BY <1>2, <1>6, <2>3, <3>2 DEF Lasting, Kept
  <2> QED BY <1>2, <1>6, <2>1, <2>2, <2>3
<1> QED BY <1>3, <1>5, <1>6

\* An installation begins.
LEMMA BeginKeeps == IInv /\ Begin => IInv'
<1> SUFFICES ASSUME IInv, Begin PROVE IInv'
  OBVIOUS
<1>1. /\ OnPath \in {Shim, Wrapper} /\ Executable(OnPath) /\ Real(OnPath) \in Path
      /\ fs[Real(OnPath)].kind = "file" /\ OnPath # NoPath
  BY ExecutableFile DEF Begin, OnPath, IInv
<1>2. /\ inst' \in Installing /\ inst'.pc = "copy" /\ inst'.cur = OnPath
      /\ inst'.real = Real(OnPath) /\ inst'.curReal = Real(OnPath)
  BY <1>1 DEF Begin, Installing, Stage
<1>3. UNCHANGED <<fs, conf, rep>> /\ UNCHANGED <<tmp, updates, kills>> /\ installs' = installs + 1 /\ inst.pc = "idle"
  BY DEF Begin, At
<1>4. happened' = happened \cup IF Overwrites THEN {"overwritten"} ELSE {}
  BY DEF Begin
<1>5. installs \in Nat /\ installs' \in 1..MaxInstalls
  BY <1>3, BoundAssumption DEF Begin, IInv, TypeInv
<1>6. TypeInv'
  BY <1>2, <1>3, <1>4, <1>5 DEF IInv, TypeInv
<1>7. LinkInv'
  BY <1>1, <1>2, <1>3 DEF IInv, LinkInv
<1>8. UntouchedInv'
  BY <1>5 DEF UntouchedInv
<1>9. LinkMeansOverwritten'
  BY <1>3, <1>4 DEF LinkMeansOverwritten, Overwrites
<1>10. SpoiltInv'
  BY <1>3, <1>4, StillFiles DEF IInv, SpoiltInv
<1>11. RecordedInv'
  BY <1>2, <1>3, <1>4, StillFiles DEF IInv, RecordedInv
<1>12. ShimInv'
  <2>1. OnPath = Shim /\ fs[Shim].kind = "file" => Real(OnPath) = Shim
    BY DEF Real, Hop, FollowIn
  <2>2. Watched' = Watched
    BY <1>3 DEF Watched
  <2> QED BY <1>2, <1>3, <1>4, <2>1, <2>2 DEF IInv, ShimInv
<1>13. FoundInv'
  BY <1>3, <1>4 DEF IInv, FoundInv
<1>14. RealInv'
  <2>1. ASSUME happened' = {}
        PROVE  fs[Shim].kind # "file" /\ Real(OnPath) \in Elsewhere \cup Versioned \cup {Wrapper} /\ happened = {}
    <3>1. fs[Shim].kind = "file" => OnPath = Shim
      BY FileStands, PathFacts DEF OnPath, IInv
    <3> QED BY <1>1, <1>4, <2>1, <3>1, Requested
  <2> QED BY <1>2, <1>3, <2>1 DEF IInv, RealInv
<1>15. BinaryInv'
  <2>1. Quiet' => Quiet /\ (Real(OnPath) = Wrapper \/ Lasting(Real(OnPath)))
    BY <1>1, <1>4, Requested DEF Quiet
  <2> QED BY <1>2, <1>3, <2>1, StillFiles DEF IInv, BinaryInv
<1>16. StandInv'
  <2>1. Quiet' => Quiet
    BY <1>4 DEF Quiet
  <2>2. Watched' = Watched
    BY <1>3 DEF Watched
  <2> QED BY <1>2, <1>3, <2>1, <2>2, StillFiles DEF IInv, StandInv
<1> QED BY <1>6, <1>7, <1>8, <1>9, <1>10, <1>11, <1>12, <1>13, <1>14, <1>15, <1>16 DEF IInv

\* While nothing is torn and nothing recorded, Claude itself is at the
\* wrapper's place, if there is a file.
LEMMA NotYetWritten ==
  ASSUME IInv, {"torn", "emptied"} \cap happened = {}, conf.real = NoPath, fs[Wrapper].kind = "file"
  PROVE  fs[Wrapper] = File("claude")
BY PathFacts, NodeFacts DEF IInv, TypeInv, RecordedInv, Spoilt, Contents

\* Claude is copied from the wrapper's place, or what has been recorded is taken.
LEMMA CopyKeeps == IInv /\ Copy => IInv'
<1> SUFFICES ASSUME IInv, Copy PROVE IInv'
  OBVIOUS
<1>1. inst \in Installing /\ installs # 0 /\ inst.pc = "copy" /\ inst.real \in Path \cup {Broken}
  BY InstallsBegun, InstFacts DEF Copy, At, Stage
<1>2. UNCHANGED <<conf, rep, installs, happened>> /\ UNCHANGED <<tmp, updates, kills>>
  BY DEF Copy, Rest, bounds
<1>3. CASE ~(inst.real = Wrapper /\ conf.real = NoPath)
  <2>1. PICK p \in Path \cup {Broken} : /\ Onward("record", p)
                                       /\ \/ p = inst.real /\ inst.real # Wrapper
                                          \/ p = conf.real /\ inst.real = Wrapper /\ conf.real # NoPath
    <3>1. CASE inst.real # Wrapper
      BY <1>1, <3>1, ToMoves DEF Copy, Stage
    <3>2. CASE inst.real = Wrapper /\ conf.real # NoPath
      <4>1. inst' = [inst EXCEPT !.real = conf.real, !.pc = "record"] /\ conf.real \in Path \cup {Broken}
        BY <3>2 DEF Copy, IInv, TypeInv, Configuration
      <4>2. Onward("record", conf.real)
        BY <1>1, <4>1 DEF Installing, Stage, Onward
      <4> QED BY <3>2, <4>1, <4>2
    <3> QED BY <1>3, <3>1, <3>2
  <2>2. fs' = fs
    BY <1>3 DEF Copy
  <2>3. TypeInv'
    BY <1>2, <2>1, <2>2 DEF IInv, TypeInv, Onward
  <2>4. /\ LinkInv' /\ UntouchedInv' /\ LinkMeansOverwritten' /\ SpoiltInv' /\ FoundInv' /\ ShimInv' /\ StandInv'
    BY <1>1, <1>2, <2>1, <2>2, InstallerFrame DEF Onward, Stage
  <2>5. RecordedInv'
    BY <1>2, <2>1, <2>2, StillFiles DEF IInv, RecordedInv, Onward
  <2>6. RealInv'
    BY <1>1, <1>2, <2>1, <2>2 DEF IInv, RealInv, Onward
  <2>7. BinaryInv'
    BY <1>1, <1>2, <2>1, <2>2, StillFiles DEF IInv, BinaryInv, Quiet, Onward
  <2> QED BY <2>3, <2>4, <2>5, <2>6, <2>7 DEF IInv
<1>4. CASE inst.real = Wrapper /\ conf.real = NoPath
  <2>1. fs[Wrapper].kind = "file" /\ ({"torn", "emptied"} \cap happened = {} => fs[Wrapper] = File("claude"))
    BY <1>1, <1>4, NotYetWritten DEF IInv, LinkInv
  <2>2. Sets(RealCopy, fs[Wrapper])
    BY <1>4, PathFacts DEF Copy, Sets, IInv, TypeInv
  <2>3. Onward("record", RealCopy)
    <3>1. inst' = [inst EXCEPT !.real = RealCopy, !.pc = "record"]
      BY <1>4 DEF Copy
    <3> QED BY <1>1, <3>1, PathFacts DEF Installing, Stage, Onward
  <2>4. TypeInv'
    BY <1>2, <2>2, <2>3 DEF IInv, TypeInv, Sets, Onward
  <2>5. fs'[Wrapper] = fs[Wrapper] /\ fs'[Shim] = fs[Shim]
    BY <2>2, PathFacts DEF Sets
  <2>6. LinkInv' /\ UntouchedInv' /\ LinkMeansOverwritten'
    BY <1>1, <1>2, <2>1, <2>2, <2>3, <2>5 DEF IInv, LinkInv, UntouchedInv, LinkMeansOverwritten, Sets, Onward
  <2>7. SpoiltInv'
    <3>1. {"torn", "emptied"} \cap happened # {} \/ ~Spoilt(RealCopy)'
      BY <2>1, <2>2, NodeFacts DEF Sets, Spoilt, Contents
    <3> QED BY <1>2, <2>2, <2>5, <3>1 DEF IInv, SpoiltInv, Spoilt, Sets
  <2>8. RecordedInv'
    BY <1>2, <2>3, <2>5 DEF IInv, RecordedInv, Spoilt, Onward
  <2>9. Watched' = Watched
    BY <1>2 DEF Watched
  <2>10. ShimInv' /\ FoundInv'
    BY <1>1, <1>2, <2>3, <2>5, <2>9 DEF IInv, ShimInv, FoundInv, Onward, Stage
  <2>11. RealInv'
    BY <1>2, <2>3, <2>5 DEF IInv, RealInv, Onward
  <2>12. BinaryInv'
    <3>1. {"torn", "emptied"} \cap happened = {} => Lasting(RealCopy)'
      BY <2>1, <2>2 DEF Lasting, Kept, Sets
    <3>2. ASSUME NEW q, Lasting(q), {"torn", "emptied"} \cap happened = {} PROVE Lasting(q)'
      BY <2>1, <2>2, <3>2, LastingStays, PathFacts
    <3> QED BY <1>1, <1>2, <2>3, <2>5, <3>1, <3>2 DEF IInv, BinaryInv, Quiet, Onward, Spoilt
  <2>13. StandInv'
    BY <1>2, <2>1, <2>2, <2>3, <2>5, <2>9, FileStandsNext, PathFacts DEF IInv, StandInv, Quiet, Sets, Onward
  <2> QED BY <2>4, <2>6, <2>7, <2>8, <2>10, <2>11, <2>12, <2>13 DEF IInv
<1> QED BY <1>3, <1>4

\* real-claude.
LEMMA RecordRealKeeps == IInv /\ RecordReal => IInv'
<1> SUFFICES ASSUME IInv, RecordReal PROVE IInv'
  OBVIOUS
<1>1. inst \in Installing /\ inst.pc = "record" /\ inst.real \in Path \cup {Broken}
  BY InstallsBegun, InstFacts DEF RecordReal, At, Stage
<1>2. CASE conf' = [conf EXCEPT !.real = inst.real] /\ To("dir") /\ UNCHANGED fs /\ Rest
  <2>1. UNCHANGED <<rep, installs, happened>> /\ UNCHANGED <<tmp, updates, kills>>
    BY <1>2 DEF Rest, bounds
  <2>2. /\ conf' \in Configuration /\ conf'.real = inst.real
        /\ conf'.binary = conf.binary /\ conf'.units = conf.units
    BY <1>1, <1>2 DEF IInv, TypeInv, Configuration
  <2>3. Onward("dir", inst.real)
    BY <1>1, <1>2, ToMoves DEF Stage
  <2>4. TypeInv'
    BY <1>2, <2>1, <2>2, <2>3 DEF IInv, TypeInv, Onward
  <2>5. LinkInv' /\ UntouchedInv' /\ LinkMeansOverwritten' /\ SpoiltInv' /\ FoundInv' /\ ShimInv' /\ StandInv'
    BY <1>1, <1>2, <2>1, <2>2, <2>3, InstallerFrame DEF Onward, Stage
  <2>6. RecordedInv'
    <3>1. conf'.real # NoPath
      BY <1>1, <2>2, PathFacts
    <3> QED BY <3>1 DEF RecordedInv
  <2>7. RealInv'
    BY <1>1, <1>2, <2>1, <2>2, <2>3 DEF IInv, RealInv, Onward, Stage
  <2>8. BinaryInv'
    BY <1>1, <1>2, <2>1, <2>2, <2>3, StillFiles DEF IInv, BinaryInv, Quiet, Onward
  <2> QED BY <2>4, <2>5, <2>6, <2>7, <2>8 DEF IInv
<1>3. CASE conf' = [conf EXCEPT !.real = NoPath] /\ Torn
  <2>1. conf' \in Configuration /\ conf'.units = conf.units
    BY <1>3 DEF IInv, TypeInv, Configuration
  <2> QED BY <1>1, <1>3, <2>1, TornKeeps
<1> QED BY <1>2, <1>3 DEF RecordReal

\* A command that records something that the invariant does not speak of.
LEMMA RecordFrame ==
  ASSUME IInv, inst \in Installing, NEW l, Onward(l, inst.real),
         (inst.pc \in {"dir", "shim"} /\ l \in {"shim", "json"}) \/ (inst.pc \in {"truncate", "write"} /\ l \in {"write", "chmod"}),
         conf' \in Configuration, UNCHANGED <<conf.real, conf.binary, conf.units>>,
         UNCHANGED <<fs, rep, installs, happened>>, UNCHANGED <<tmp, updates, kills>>
  PROVE  IInv'
<1>1. TypeInv'
  BY DEF IInv, TypeInv, Onward
<1>2. LinkInv' /\ UntouchedInv' /\ LinkMeansOverwritten' /\ SpoiltInv' /\ FoundInv' /\ ShimInv' /\ StandInv'
  BY InstallerFrame, InstFacts DEF Onward, Stage
<1>3. RecordedInv'
  BY StillFiles DEF IInv, RecordedInv, Onward, Stage
<1>4. RealInv'
  BY DEF IInv, RealInv, Onward, Stage
<1>5. BinaryInv'
  BY StillFiles DEF IInv, BinaryInv, Quiet, Onward
<1> QED BY <1>1, <1>2, <1>3, <1>4, <1>5 DEF IInv

\* versions-dir.
LEMMA RecordDirKeeps == IInv /\ RecordDir => IInv'
<1> SUFFICES ASSUME IInv, RecordDir PROVE IInv'
  OBVIOUS
<1>1. inst \in Installing /\ inst.pc = "dir"
  BY InstallsBegun DEF RecordDir, At, Stage
<1>2. conf' \in Configuration /\ UNCHANGED <<conf.real, conf.binary, conf.units>>
  <2>1. PICK b \in {NoPath, Dir} : conf' = [conf EXCEPT !.dir = b]
    BY DEF RecordDir, IInv, TypeInv, Configuration, InVersions
  <2> QED BY <2>1 DEF IInv, TypeInv, Configuration
<1>3. CASE To("shim") /\ UNCHANGED fs /\ Rest
  <2>1. Onward("shim", inst.real)
    BY <1>1, <1>3, ToMoves DEF Stage
  <2> QED BY <1>1, <1>2, <1>3, <2>1, RecordFrame DEF Rest, bounds
<1>4. CASE Torn
  BY <1>1, <1>2, <1>4, TornKeeps
<1> QED BY <1>3, <1>4 DEF RecordDir

\* claude-shim.
LEMMA RecordShimKeeps == IInv /\ RecordShim => IInv'
<1> SUFFICES ASSUME IInv, RecordShim PROVE IInv'
  OBVIOUS
<1>1. inst \in Installing /\ inst.pc = "shim" /\ inst.cur \in {Shim, Wrapper}
  BY InstallsBegun, InstFacts DEF RecordShim, At, Stage
<1>2. conf' \in Configuration /\ UNCHANGED <<conf.real, conf.binary, conf.units>>
  <2>1. PICK s \in {Shim, NoPath} : conf' = [conf EXCEPT !.shim = s]
    BY <1>1 DEF RecordShim, IInv, TypeInv, Configuration
  <2> QED BY <2>1 DEF IInv, TypeInv, Configuration
<1>3. CASE To("json") /\ UNCHANGED fs /\ Rest
  <2>1. Onward("json", inst.real)
    BY <1>1, <1>3, ToMoves DEF Stage
  <2> QED BY <1>1, <1>2, <1>3, <2>1, RecordFrame DEF Rest, bounds
<1>4. CASE Torn
  BY <1>1, <1>2, <1>4, TornKeeps
<1> QED BY <1>3, <1>4 DEF RecordShim

\* launcher.json.
LEMMA RecordBinaryKeeps == IInv /\ RecordBinary => IInv'
<1> SUFFICES ASSUME IInv, RecordBinary PROVE IInv'
  OBVIOUS
<1>1. inst \in Installing /\ inst.pc = "json" /\ inst.real \in Path \cup {Broken}
  BY InstallsBegun, InstFacts DEF RecordBinary, At, Stage
<1>2. CASE /\ conf' = IF conf.binary = NoPath THEN [conf EXCEPT !.binary = inst.real] ELSE conf
           /\ To("truncate") /\ UNCHANGED fs /\ Rest
  <2>1. UNCHANGED <<rep, installs, happened>> /\ UNCHANGED <<tmp, updates, kills>>
    BY <1>2 DEF Rest, bounds
  <2>2. /\ conf' \in Configuration /\ conf'.real = conf.real /\ conf'.units = conf.units
        /\ conf'.binary = IF conf.binary = NoPath THEN inst.real ELSE conf.binary
    BY <1>1, <1>2 DEF IInv, TypeInv, Configuration
  <2>3. Onward("truncate", inst.real)
    BY <1>1, <1>2, ToMoves DEF Stage
  <2>4. TypeInv'
    BY <1>2, <2>1, <2>2, <2>3 DEF IInv, TypeInv, Onward
  <2>5. LinkInv' /\ UntouchedInv' /\ LinkMeansOverwritten' /\ SpoiltInv' /\ FoundInv' /\ ShimInv' /\ StandInv'
    BY <1>1, <1>2, <2>1, <2>2, <2>3, InstallerFrame DEF Onward, Stage
  <2>6. RecordedInv'
    BY <1>1, <1>2, <2>1, <2>2, StillFiles DEF IInv, RecordedInv, Stage
  <2>7. RealInv'
    BY <1>1, <1>2, <2>1, <2>2, <2>3 DEF IInv, RealInv, Onward, Stage
  <2>8. BinaryInv'
    <3>1. conf'.binary # NoPath
      BY <1>1, <2>2, PathFacts
    <3>2. Quiet => Lasting(conf'.binary)
      BY <1>1, <2>2 DEF IInv, BinaryInv
    <3> QED BY <1>2, <2>1, <3>1, <3>2, StillFiles DEF BinaryInv, Quiet
  <2> QED BY <2>4, <2>5, <2>6, <2>7, <2>8 DEF IInv
<1>3. CASE conf' = [conf EXCEPT !.binary = Broken] /\ Torn
  <2>1. conf' \in Configuration /\ conf'.units = conf.units
    BY <1>3 DEF IInv, TypeInv, Configuration
  <2> QED BY <1>1, <1>3, <2>1, TornKeeps
<1> QED BY <1>2, <1>3 DEF RecordBinary

\* The wrapper, or a part of it, comes to where its path leads.
LEMMA WriteFrame ==
  ASSUME IInv, inst \in Installing, inst.pc \in {"truncate", "write", "chmod"}, NEW c \in {"partial", "wrapper"},
         fs' = [fs EXCEPT ![Real(Wrapper)] = File(c)], NEW l \in {"write", "chmod", "remove"}, Onward(l, inst.real),
         UNCHANGED <<conf, rep, installs, happened>>, UNCHANGED <<tmp, updates, kills>>
  PROVE  IInv'
<1>1. installs # 0
  BY InstallsBegun, InstFacts
<1>2. PICK w \in Path : /\ w = Real(Wrapper)
                        /\ \/ w = Wrapper /\ fs[Wrapper].kind # "link"
                           \/ w \in Elsewhere /\ fs[Wrapper] = Link(w)
  <2>1. CASE fs[Wrapper].kind # "link"
    BY <2>1, PathFacts DEF Real, Hop, FollowIn
  <2>2. CASE fs[Wrapper].kind = "link"
    <3>1. PICK t \in Elsewhere : fs[Wrapper].to = t
      BY <2>2 DEF IInv, LinkInv
    <3>2. fs[Wrapper] = Link(t) /\ fs[t].kind # "link" /\ t \in Path
      BY <2>2, <3>1, PathFacts, NodeFacts DEF IInv, LinkInv, TypeInv
    <3>3. Real(Wrapper) = t
      BY <2>2, <3>1, <3>2 DEF Real, Hop, FollowIn
    <3> QED BY <3>1, <3>2, <3>3
  <2> QED BY <2>1, <2>2
<1>3. Sets(w, File(c)) /\ File(c).kind = "file"
  BY <1>2, NodeFacts DEF Sets, IInv, TypeInv, Contents
<1>4. TypeInv'
  BY <1>3 DEF IInv, TypeInv, Sets, Onward
<1>5. fs'[Shim] = fs[Shim] /\ (w = Wrapper => fs'[Wrapper] = File(c)) /\ (w # Wrapper => fs'[Wrapper] = fs[Wrapper])
  BY <1>2, <1>3, PathFacts DEF Sets
<1>6. w = Wrapper \/ "overwritten" \in happened
  <2>1. w # Wrapper => fs[Wrapper].kind = "link"
    BY <1>2, NodeFacts
  <2> QED BY <1>1, <2>1 DEF IInv, LinkMeansOverwritten
<1>7. LinkInv' /\ UntouchedInv' /\ LinkMeansOverwritten'
  BY <1>1, <1>2, <1>3, <1>5 DEF IInv, LinkInv, UntouchedInv, LinkMeansOverwritten, Sets, Onward
<1>8. SpoiltInv'
  <2>1. CASE w = Wrapper
    <3>1. \A p \in Path : fs[Wrapper] # Link(p)
      BY <1>2, <2>1, PathFacts, NodeFacts
    <3> QED BY <1>3, <2>1, <3>1 DEF IInv, SpoiltInv, Spoilt, Sets
  <2>2. CASE w # Wrapper
    BY <1>2, <1>3, <1>5, <2>2 DEF IInv, SpoiltInv, Spoilt, Sets
  <2> QED BY <2>1, <2>2
<1>9. RecordedInv'
  BY DEF IInv, RecordedInv, Stage
<1>10. Watched' = Watched
  BY DEF Watched
<1>11. ShimInv'
  BY <1>5, <1>10, InstFacts DEF IInv, ShimInv, Onward
<1>12. FoundInv'
  <2>1. fs'[Wrapper].kind # "link" => fs[Wrapper].kind # "link"
    BY <1>2, <1>5, PathFacts
  <2> QED BY <2>1 DEF IInv, FoundInv
<1>13. RealInv'
  BY <1>5 DEF IInv, RealInv, Onward, Stage
<1>14. BinaryInv'
  <2>1. Quiet => w = Wrapper
    BY <1>6 DEF Quiet
  <2>2. ASSUME NEW q, Lasting(q), Quiet PROVE Lasting(q)'
    BY <1>3, <2>1, <2>2, LastingStays, PathFacts DEF Kept
  <2> QED BY <2>2 DEF IInv, BinaryInv, Quiet
<1>15. StandInv'
  <2>1. Quiet' => w = Wrapper
    BY <1>6 DEF Quiet
  <2> QED BY <1>3, <1>5, <2>1, FileStandsNext, PathFacts DEF StandInv, Sets
<1> QED BY <1>4, <1>7, <1>8, <1>9, <1>11, <1>12, <1>13, <1>14, <1>15 DEF IInv

\* cat >: the file is emptied, or written; one that is new is not executable yet.
LEMMA PutsKeeps ==
  ASSUME IInv, inst \in Installing, inst.pc \in {"truncate", "write"}, NEW c \in {"partial", "wrapper"}, Puts(c),
         NEW l \in {"write", "chmod"}, Onward(l, inst.real),
         UNCHANGED <<conf, rep, installs, happened>>, UNCHANGED <<tmp, updates, kills>>
  PROVE  IInv'
<1>1. CASE fs[Real(Wrapper)] = Absent
  <2>1. fs' = fs /\ conf' \in Configuration
    BY <1>1 DEF Puts, IInv, TypeInv
  <2> QED BY <2>1, RecordFrame
<1>2. CASE fs[Real(Wrapper)] # Absent
  BY <1>2, WriteFrame DEF Puts
<1> QED BY <1>1, <1>2

\* The file is emptied.
LEMMA TruncateKeeps == IInv /\ Truncate => IInv'
<1> SUFFICES ASSUME IInv, Truncate PROVE IInv'
  OBVIOUS
<1>1. inst \in Installing /\ inst.pc = "truncate"
  BY InstallsBegun DEF Truncate, At, Stage
<1>2. Onward("write", inst.real)
  BY <1>1, ToMoves DEF Truncate, Stage
<1> QED BY <1>1, <1>2, PutsKeeps DEF Truncate, Rest, bounds

\* The file is written.
LEMMA WriteKeeps == IInv /\ Write => IInv'
<1> SUFFICES ASSUME IInv, Write PROVE IInv'
  OBVIOUS
<1>1. inst \in Installing /\ inst.pc = "write"
  BY InstallsBegun DEF Write, At, Stage
<1>2. Onward("chmod", inst.real)
  BY <1>1, ToMoves DEF Write, Stage
<1> QED BY <1>1, <1>2, PutsKeeps DEF Write, Rest, bounds

\* The file is executable from now on.
LEMMA ChmodKeeps == IInv /\ Chmod => IInv'
<1> SUFFICES ASSUME IInv, Chmod PROVE IInv'
  OBVIOUS
<1>1. inst \in Installing /\ inst.pc = "chmod"
  BY InstallsBegun DEF Chmod, At, Stage
<1>2. Onward("remove", inst.real)
  BY <1>1, ToMoves DEF Chmod, Stage
<1> QED BY <1>1, <1>2, WriteFrame DEF Chmod, Rest, bounds

\* rm -f of the shim; a file that has not been there from the beginning stays.
LEMMA RemoveShimKeeps == IInv /\ RemoveShim => IInv'
<1> SUFFICES ASSUME IInv, RemoveShim PROVE IInv'
  OBVIOUS
<1>1. inst \in Installing /\ installs # 0 /\ inst.pc = "remove" /\ inst.cur \in {Shim, Wrapper} /\ inst.real \in Path \cup {Broken}
  BY InstallsBegun, InstFacts DEF RemoveShim, At, Stage
<1>2. UNCHANGED <<conf, rep, installs, happened>> /\ UNCHANGED <<tmp, updates, kills>>
  BY DEF RemoveShim, Rest, bounds
<1>3. Quiet => fs[Wrapper].kind = "file" /\ conf.binary # NoPath
  BY <1>1 DEF IInv, StandInv, BinaryInv
<1>4. Watched' = Watched
  BY <1>2 DEF Watched
<1>5. CASE inst.cur # Wrapper /\ inst.curReal = Real(inst.cur)
  <2>1. Sets(Shim, Absent)
    BY <1>1, <1>5, PathFacts, NodeFacts DEF RemoveShim, Sets, IInv, TypeInv
  <2>2. Onward("link", inst.real)
    BY <1>1, <1>5, ToMoves DEF RemoveShim, Stage
  <2>3. TypeInv'
    BY <1>2, <2>1, <2>2 DEF IInv, TypeInv, Sets, Onward
  <2>4. fs'[Wrapper] = fs[Wrapper] /\ fs'[Shim].kind = "none" /\ ~Spoilt(Shim)'
    BY <2>1, PathFacts, NodeFacts DEF Sets, Spoilt, Contents
  <2>5. LinkInv' /\ UntouchedInv' /\ LinkMeansOverwritten'
    BY <1>1, <1>2, <1>5, <2>1, <2>2, <2>4 DEF IInv, LinkInv, UntouchedInv, LinkMeansOverwritten, Sets, Onward
  <2>6. SpoiltInv'
    BY <1>2, <2>1, <2>4 DEF IInv, SpoiltInv, Spoilt, Sets
  <2>7. RecordedInv'
    BY <1>1, <1>2, <2>4 DEF IInv, RecordedInv, Spoilt, Stage
  <2>8. ShimInv'
    BY <2>4 DEF ShimInv
  <2>9. FoundInv' /\ RealInv'
    BY <1>1, <1>2, <2>2, <2>4 DEF IInv, FoundInv, RealInv, Onward, Stage
  <2>10. BinaryInv'
    BY <1>2, <1>3, <2>1, LastingStays, PathFacts DEF IInv, BinaryInv, Quiet, Kept
  <2>11. StandInv'
    BY <1>2, <1>3, <2>1, <2>4, FileStandsNext, PathFacts DEF StandInv, Quiet, Sets
  <2> QED BY <2>3, <2>5, <2>6, <2>7, <2>8, <2>9, <2>10, <2>11 DEF IInv
<1>6. CASE ~(inst.cur # Wrapper /\ inst.curReal = Real(inst.cur))
  <2>1. fs' = fs /\ Onward("units", inst.real)
    BY <1>1, <1>6, ToMoves DEF RemoveShim, Stage
  <2>2. TypeInv'
    BY <1>2, <2>1 DEF IInv, TypeInv, Onward
  <2>3. LinkInv' /\ UntouchedInv' /\ LinkMeansOverwritten' /\ SpoiltInv' /\ FoundInv'
    BY <1>1, <1>2, <2>1, InstallerFrame DEF Stage
  <2>4. RecordedInv' /\ RealInv' /\ BinaryInv'
    BY <1>1, <1>2, <1>3, <2>1, StillFiles DEF IInv, RecordedInv, RealInv, BinaryInv, Quiet, Onward, Stage
  <2>5. ShimInv'
    <3>1. inst.cur = Shim /\ fs[Shim].kind = "file" => Real(inst.cur) = Shim
      BY DEF Real, Hop, FollowIn
    <3>2. inst.cur = Shim => inst.curReal # Real(inst.cur)
      BY <1>6, PathFacts
    <3> QED BY <1>1, <1>2, <1>4, <2>1, <3>1, <3>2 DEF IInv, ShimInv, Onward, Stage
  <2>6. StandInv'
    BY <1>2, <1>3, <2>1, StillFiles DEF IInv, StandInv, Quiet
  <2> QED BY <2>2, <2>3, <2>4, <2>5, <2>6 DEF IInv
<1> QED BY <1>5, <1>6

\* The installer ends without a write.
LEMMA EndKeeps ==
  ASSUME IInv, inst \in Installing, inst' = Idle, UNCHANGED <<fs, conf, rep, installs, happened>>,
         UNCHANGED <<tmp, updates, kills>>
  PROVE  IInv'
<1>1. TypeInv'
  BY DEF IInv, TypeInv
<1>2. LinkInv' /\ UntouchedInv' /\ LinkMeansOverwritten' /\ SpoiltInv' /\ FoundInv' /\ ShimInv' /\ StandInv'
  BY InstallerFrame, InstFacts
<1>3. RecordedInv' /\ RealInv'
  BY InstFacts DEF IInv, RecordedInv, RealInv, Spoilt, Stage
<1>4. BinaryInv'
  BY StillFiles, InstFacts DEF IInv, BinaryInv, Quiet
<1> QED BY <1>1, <1>2, <1>3, <1>4 DEF IInv

\* ln -s, which fails if there is something.
LEMMA LinkShimKeeps == IInv /\ LinkShim => IInv'
<1> SUFFICES ASSUME IInv, LinkShim PROVE IInv'
  OBVIOUS
<1>1. inst \in Installing /\ installs # 0 /\ inst.pc = "link" /\ inst.cur \in {Shim, Wrapper} /\ inst.real \in Path \cup {Broken}
  BY InstallsBegun, InstFacts DEF LinkShim, At, Stage
<1>2. UNCHANGED <<conf, rep, installs, happened>> /\ UNCHANGED <<tmp, updates, kills>>
  BY DEF LinkShim, Rest, bounds
<1>3. Quiet => fs[Wrapper].kind = "file" /\ conf.binary # NoPath
  BY <1>1 DEF IInv, StandInv, BinaryInv
<1>4. inst.cur = Shim
  BY <1>1 DEF IInv, LinkInv
<1>5. CASE fs[inst.cur] = Absent
  <2>1. Sets(Shim, WrapperLink)
    BY <1>4, <1>5, PathFacts, NodeFacts DEF LinkShim, Sets, WrapperLink, IInv, TypeInv
  <2>2. Onward("units", inst.real)
    BY <1>1, <1>5, ToMoves DEF LinkShim, Stage
  <2>3. TypeInv'
    BY <1>2, <2>1, <2>2 DEF IInv, TypeInv, Sets, Onward
  <2>4. FoundInv'
    BY <1>2, <2>1, PathFacts DEF IInv, FoundInv, Sets
  <2> QED BY <1>1, <1>2, <1>3, <2>1, <2>2, <2>3, <2>4, LinkFrame DEF IInv
<1>6. CASE fs[inst.cur] # Absent
  <2>1. fs' = fs /\ inst' = Idle
    BY <1>6 DEF LinkShim
  <2> QED BY <1>1, <1>2, <2>1, EndKeeps
<1> QED BY <1>5, <1>6

\* The installer is killed between two commands.
LEMMA InstallerKilledKeeps == IInv /\ InstallerKilled => IInv'
<1> SUFFICES ASSUME IInv, InstallerKilled PROVE IInv'
  OBVIOUS
<1>1. inst \in Installing
  BY InstFacts DEF IInv, TypeInv, InstallerKilled, At
<1> QED BY <1>1, EndKeeps DEF InstallerKilled, Rest, bounds

\* The units are enabled and the repair is called.
LEMMA EnableKeeps == IInv /\ Enable => IInv'
<1> SUFFICES ASSUME IInv, Enable PROVE IInv'
  OBVIOUS
<1>1. inst \in Installing /\ installs # 0 /\ inst.pc = "units" /\ inst.cur \in {Shim, Wrapper}
  BY InstallsBegun, InstFacts DEF Enable, At, Stage
<1>2. UNCHANGED <<fs, installs, happened>> /\ UNCHANGED <<tmp, updates, kills>> /\ inst' = Idle
  BY DEF Enable, bounds
<1>3. CASE inst.cur # Wrapper
  <2>1. inst.cur = Shim
    BY <1>1, <1>3
  <2>2. conf' \in Configuration /\ conf'.real = conf.real /\ conf'.binary = conf.binary
    BY <1>3 DEF Enable, IInv, TypeInv, Configuration
  <2>3. \/ rep' = rep
        \/ Moves("direct", [pc |-> "start"])
    BY <1>3, RepMoves, RepFacts DEF Enable, IInv, TypeInv, Run
  <2>4. TypeInv'
    BY <1>2, <2>2, <2>3 DEF IInv, TypeInv, Moves
  <2>5. LinkInv' /\ UntouchedInv' /\ LinkMeansOverwritten'
    BY <1>1, <1>2, InstFacts DEF IInv, LinkInv, UntouchedInv, LinkMeansOverwritten
  <2>6. SpoiltInv'
    BY <1>2, StillFiles DEF IInv, SpoiltInv
  <2>7. RecordedInv' /\ RealInv'
    BY <1>2, <2>2, InstFacts DEF IInv, RecordedInv, RealInv, Spoilt, Stage
  <2>8. ShimInv'
    BY <1>1, <1>2, <2>1, InstFacts DEF IInv, ShimInv, Stage
  <2>9. FoundInv'
    BY <1>2, <2>3 DEF IInv, FoundInv, Moves, Run
  <2>10. BinaryInv'
    BY <1>1, <1>2, <2>2, StillFiles DEF IInv, BinaryInv, Quiet
  <2>11. StandInv'
    BY <1>1, <1>2, StillFiles DEF IInv, StandInv, Quiet
  <2> QED BY <2>4, <2>5, <2>6, <2>7, <2>8, <2>9, <2>10, <2>11 DEF IInv
<1>4. CASE inst.cur = Wrapper
  BY <1>1, <1>2, <1>4, EndKeeps DEF Enable
<1> QED BY <1>3, <1>4

-----------------------------------------------------------------------------
(***************************************************************************)
(* Claude's updater.                                                       *)
(***************************************************************************)
\* A present version is the newest one.
LEMMA NewestPresent ==
  ASSUME NEW S, S \subseteq Versioned, S # {}
  PROVE  Newest(S) \in S
<1> DEFINE I == {i \in DOMAIN Versions : Versions[i] \in S}
<1>1. Versions \in Seq(STRING)
  BY PathAssumption
<1>2. I \subseteq Nat /\ I \subseteq 1..Len(Versions) /\ Len(Versions) \in Nat
  BY <1>1
<1>3. I # {}
  <2>1. PICK v \in S : TRUE
    OBVIOUS
  <2>2. PICK i \in DOMAIN Versions : Versions[i] = v
    BY <2>1 DEF Versioned, ToSet
  <2> QED BY <2>1, <2>2
<1>4. \E m \in I : \A j \in I : j <= m
  <2>1. IsFiniteSet(I)
    BY <1>2, FS_Interval, FS_Subset
  <2> DEFINE f == [i \in I |-> i]
  <2>2. f \in [I -> Int]
    BY <1>2
  <2>3. \E m \in I : \A j \in I : f[j] <= f[m]
    BY <1>3, <2>1, <2>2, FiniteLargest
  <2> QED BY <2>3
<1>5. Max(I) \in I
  BY <1>4 DEF Max
<1> QED BY <1>5 DEF Newest

\* A step of the updater changes a version or the shim.
LEMMA UpdaterCases ==
  ASSUME IInv, Updater
  PROVE  /\ UNCHANGED <<conf, tmp, inst, rep, installs, kills>> /\ updates' \in 0..MaxUpdates
         /\ happened \subseteq happened' /\ happened' \subseteq happened \cup {"regular"}
         /\ \/ \E v \in Versioned : Present # {} /\ fs[v] = Absent /\ Sets(v, File("claude")) /\ happened' = happened
            \/ \E v \in Versioned : fs[v].kind = "file" /\ Sets(Shim, Link(v)) /\ happened' = happened
            \/ \E v \in Versioned : /\ Present # {} /\ Newest(Present) # v /\ fs[v].kind = "file" /\ Real(Shim) # v
                                    /\ Sets(v, Absent) /\ happened' = happened
            \/ "regular" \in happened' /\ Sets(Shim, File("claude"))
<1>1. \A p, n : Update(p, n) => /\ UNCHANGED <<conf, tmp, inst, rep, installs, kills>> /\ updates' \in 0..MaxUpdates
                                /\ p \in Path /\ n \in Node => Sets(p, n)
  BY BoundAssumption DEF Update, IInv, TypeInv, Sets
<1>2. File("claude") \in Node /\ Absent \in Node /\ \A v \in Versioned : v \in Path /\ Link(v) \in Node
  BY PathFacts, NodeFacts DEF Contents
<1> QED BY <1>1, <1>2, PathFacts DEF Updater, Versioned

\* A version comes or goes, which is not the last one.
LEMMA VersionKeeps ==
  ASSUME IInv, NEW v \in Versioned, UNCHANGED <<conf, tmp, inst, rep, installs, kills, happened>>, updates' \in 0..MaxUpdates,
         \/ fs[v] = Absent /\ Sets(v, File("claude"))
         \/ Present # {} /\ Newest(Present) # v /\ fs[v].kind = "file" /\ Real(Shim) # v /\ Sets(v, Absent)
  PROVE  IInv'
<1>1. fs'[Shim] = fs[Shim] /\ fs'[Wrapper] = fs[Wrapper] /\ fs' \in [Path -> Node]
  BY PathFacts DEF Sets
<1>2. fs'[v].kind # "link" /\ ~Spoilt(v)' /\ (fs'[v].kind = "file" => fs'[v] = File("claude"))
  BY NodeFacts DEF Sets, Spoilt, Contents
<1>3. TypeInv'
  BY <1>1 DEF IInv, TypeInv
<1>4. LinkInv' /\ UntouchedInv' /\ LinkMeansOverwritten'
  BY <1>1, <1>2 DEF IInv, LinkInv, UntouchedInv, LinkMeansOverwritten, Sets
<1>5. SpoiltInv'
  BY <1>1, <1>2 DEF IInv, SpoiltInv, Spoilt, Sets
<1>6. RecordedInv' /\ RealInv' /\ FoundInv'
  BY <1>1 DEF IInv, RecordedInv, RealInv, FoundInv, Spoilt
<1>7. Watched' = Watched
  BY DEF Watched
<1>8. ShimInv'
  BY <1>1, <1>7 DEF IInv, ShimInv
<1>9. ASSUME NEW q, Lasting(q) PROVE Lasting(q)'
  <2>1. Present # {} => Present' # {}
    <3>1. CASE fs[v] = Absent /\ Sets(v, File("claude"))
      BY <3>1, PathFacts, NodeFacts DEF Present, Versioned, Sets, Contents
    <3>2. CASE Present # {} /\ Newest(Present) # v /\ Sets(v, Absent)
      <4>1. Newest(Present) \in Present
        BY <3>2, NewestPresent DEF Present, Versioned
      <4> QED BY <3>2, <4>1, PathFacts DEF Present, Versioned, Sets
    <3> QED BY <3>1, <3>2
  <2>2. v \notin Kept
    BY PathFacts DEF Kept
  <2> QED BY <1>9, <2>1, <2>2, PathFacts DEF Lasting, Sets, Kept
<1>10. BinaryInv'
  BY <1>1, <1>9 DEF IInv, BinaryInv, Quiet, Spoilt
<1>11. StandInv'
  <2>1. \A p \in {Shim, Wrapper} : Executable(p) => Executable(p)'
    <3> SUFFICES ASSUME NEW p \in {Shim, Wrapper}, Executable(p) PROVE Executable(p)'
      OBVIOUS
    <3>1. Real(p) \in Path /\ fs[Real(p)].kind = "file" /\ p \in Path
      BY ExecutableFile, PathFacts DEF IInv
    <3>2. Hop(p) \in Path
      BY <3>1, NodeFacts DEF Hop, FollowIn, IInv, TypeInv
    <3>3. Real(p) # v
      <4>1. CASE p = Wrapper
        <5>1. Hop(Wrapper) \in Elsewhere \cup {Wrapper}
          BY DEF Hop, FollowIn, IInv, LinkInv
        <5>2. Hop(Hop(Wrapper)) \in Elsewhere \cup {Wrapper}
          BY <5>1, PathFacts DEF Hop, FollowIn, IInv, LinkInv
        <5> QED BY <4>1, <5>2, PathFacts DEF Real
      <4>2. CASE p = Shim
        BY <3>1, <4>2, NodeFacts
      <4> QED BY <4>1, <4>2
    <3>4. Hop(p) # v
      BY <3>3, PathFacts DEF Real, Hop, FollowIn, IInv, LinkInv
    <3>5. p # v
      BY PathFacts
    <3>6. Real(p)' = Real(p)
      BY <3>1, <3>2, <3>4, <3>5 DEF Real, Hop, FollowIn, Sets
    <3>7. fs'[Real(p)] = fs[Real(p)]
      BY <3>1, <3>3 DEF Sets
    <3> QED BY <3>6, <3>7 DEF Executable, Content
  <2> QED BY <1>1, <1>7, <2>1 DEF IInv, StandInv, Quiet
<1> QED BY <1>3, <1>4, <1>5, <1>6, <1>8, <1>10, <1>11 DEF IInv

\* The shim leads to a version, or is a file.
LEMMA ShimKeeps ==
  ASSUME IInv, UNCHANGED <<conf, tmp, inst, rep, installs, kills>>, updates' \in 0..MaxUpdates,
         happened \subseteq happened', happened' \subseteq happened \cup {"regular"},
         \/ \E v \in Versioned : fs[v].kind = "file" /\ Sets(Shim, Link(v))
         \/ "regular" \in happened' /\ Sets(Shim, File("claude"))
  PROVE  IInv'
<1>1. PICK n \in Node : /\ Sets(Shim, n)
                        /\ \/ \E v \in Versioned : fs[v].kind = "file" /\ n = Link(v)
                           \/ "regular" \in happened' /\ n = File("claude")
  BY PathFacts, NodeFacts DEF Contents
<1>2. /\ fs'[Shim] = n /\ fs'[Wrapper] = fs[Wrapper] /\ fs' \in [Path -> Node]
      /\ ~Spoilt(Shim)' /\ (n.kind = "file" => n = File("claude") /\ "regular" \in happened')
      /\ n.kind = "link" => n.to \in Versioned
  BY <1>1, PathFacts, NodeFacts DEF Sets, Spoilt, Contents
<1>3. TypeInv'
  BY <1>2 DEF IInv, TypeInv
<1>4. LinkInv' /\ UntouchedInv' /\ LinkMeansOverwritten'
  BY <1>1, <1>2, PathFacts DEF IInv, LinkInv, UntouchedInv, LinkMeansOverwritten, Sets
<1>5. SpoiltInv'
  BY <1>1, <1>2 DEF IInv, SpoiltInv, Spoilt, Sets
<1>6. RecordedInv' /\ RealInv' /\ FoundInv'
  BY <1>2 DEF IInv, RecordedInv, RealInv, FoundInv, Spoilt
<1>7. Watched' = Watched
  BY DEF Watched
<1>8. ShimInv'
  BY <1>2, <1>7 DEF IInv, ShimInv
<1>9. BinaryInv'
  BY <1>1, <1>2, LastingStays, PathFacts DEF IInv, BinaryInv, Quiet, Spoilt, Kept
<1>10. Executable(Shim)'
  <2>1. CASE n = File("claude")
    BY <1>2, <2>1, FileStandsNext, PathFacts, NodeFacts DEF Contents
  <2>2. ASSUME NEW v \in Versioned, fs[v].kind = "file", n = Link(v) PROVE Executable(Shim)'
    <3>1. fs'[v].kind = "file" /\ fs'[v].to \in Contents
      BY <1>1, <1>2, <2>2, PathFacts, NodeFacts DEF Sets
    <3>2. fs'[Shim].kind = "link" /\ fs'[Shim].to = v
      BY <1>2, <2>2, PathFacts, NodeFacts
    <3>3. Real(Shim)' = v
      BY <3>1, <3>2 DEF Real, Hop, FollowIn
    <3> QED BY <3>1, <3>3, PathFacts DEF Executable, Content, Contents
  <2> QED BY <1>1, <2>1, <2>2
<1>11. StandInv'
  BY <1>2, <1>7, <1>10 DEF IInv, StandInv, Quiet
<1> QED BY <1>3, <1>4, <1>5, <1>6, <1>8, <1>9, <1>11 DEF IInv

\* The updater.
LEMMA UpdaterKeeps == IInv /\ Updater => IInv'
BY UpdaterCases, VersionKeeps, ShimKeeps

-----------------------------------------------------------------------------
(***************************************************************************)
(* The invariant and what follows from it.                                 *)
(***************************************************************************)
\* Before the first installation there is a Claude on the PATH, and nothing else.
LEMMA InitEstablishes == Init => IInv
<1> SUFFICES ASSUME Init PROVE IInv
  OBVIOUS
<1>1. /\ fs \in [Path -> Node]
      /\ \A p \in Path : fs[p].kind = "file" => fs[p] = File("claude")
      /\ \A p \in Path : fs[p].kind = "link" => p \in {Shim, Wrapper} /\ fs[p].to \notin {RealCopy, Recovered}
      /\ fs[Wrapper].kind = "link" => fs[Wrapper].to \in Elsewhere
      /\ \E p \in {Shim, Wrapper} : fs[FollowIn(fs, FollowIn(fs, p))].kind = "file"
  BY WorldAssumption DEF Init
<1>2. /\ tmp = [file \in Files |-> Missing]
      /\ inst = Idle /\ rep = [r \in Run |-> Idle] /\ installs = 0 /\ updates = 0 /\ kills = 0 /\ happened = {}
      /\ conf = [real |-> NoPath, dir |-> NoPath, shim |-> NoPath, binary |-> NoPath, units |-> FALSE]
  BY DEF Init, Files
<1>3. TypeInv
  <2>1. conf \in Configuration /\ inst \in {Idle} \cup Installing /\ rep \in [Run -> Repairing]
    BY <1>2, RepFacts DEF Configuration
  <2>2. /\ tmp \in [Files -> Path \cup {NoPath, Broken, Missing, Dir}]
        /\ tmp["real"] = Missing /\ tmp["dir"] = Missing
    BY <1>2 DEF Files
  <2> QED BY <1>1, <1>2, <2>1, <2>2, BoundAssumption DEF TypeInv
<1>4. LinkInv /\ UntouchedInv /\ LinkMeansOverwritten
  BY <1>1, <1>2, InstFacts DEF LinkInv, UntouchedInv, LinkMeansOverwritten
<1>5. \A p \in Path : ~Spoilt(p)
  BY <1>1, NodeFacts DEF Spoilt, Contents
<1>6. SpoiltInv /\ RecordedInv
  BY <1>2, <1>5, InstFacts, PathFacts DEF SpoiltInv, RecordedInv, Stage
<1>7. ~Watched /\ inst.pc \notin Stage /\ \A r \in Run : rep[r].pc = "idle"
  BY <1>2, InstFacts DEF Watched, Stage
<1>8. ShimInv /\ FoundInv
  BY <1>2, <1>7 DEF ShimInv, FoundInv, Files
<1>9. RealInv /\ BinaryInv
  BY <1>2, <1>5, <1>7, PathFacts DEF RealInv, BinaryInv, Stage
<1>10. StandInv
  <2>1. PICK p \in {Shim, Wrapper} : fs[Real(p)].kind = "file"
    BY <1>1 DEF Real, Hop
  <2>2. Real(p) \in Path /\ fs[Real(p)] = File("claude")
    <3>1. \A q \in Path : Hop(q) \in Path
      BY <1>1, NodeFacts DEF Hop, FollowIn
    <3>2. Real(p) \in Path
      BY <3>1, PathFacts DEF Real
    <3> QED BY <1>1, <2>1, <3>2
  <2>3. Executable(p)
    BY <2>1, <2>2, PathFacts, NodeFacts DEF Executable, Content, Contents
  <2> QED BY <1>7, <2>3 DEF StandInv, Stage
<1> QED BY <1>3, <1>4, <1>6, <1>8, <1>9, <1>10 DEF IInv

\* Every step keeps the invariant.
LEMMA NextKeeps == IInv /\ [Next]_vars => IInv'
<1> SUFFICES ASSUME IInv, [Next]_vars PROVE IInv'
  OBVIOUS
<1>1. CASE Installer
  BY <1>1, BeginKeeps, CopyKeeps, RecordRealKeeps, RecordDirKeeps, RecordShimKeeps, RecordBinaryKeeps, TruncateKeeps,
     WriteKeeps, ChmodKeeps, RemoveShimKeeps, LinkShimKeeps, EnableKeeps, InstallerKilledKeeps DEF Installer
<1>2. CASE Timer
  BY <1>2, TimerKeeps
<1>3. CASE Updater
  BY <1>3, UpdaterKeeps
<1>4. ASSUME NEW r \in Run, RepairStep(r) PROVE IInv'
  BY <1>4, TestKeeps, ReadLinkKeeps, CopyBeginsKeeps, CopyEndsKeeps, OpenKeeps, FillKeeps, RenameKeeps, TestAgainKeeps,
     ReplaceKeeps DEF RepairStep
<1>5. ASSUME NEW r \in Run, RepairKilled(r) PROVE IInv'
  BY <1>5, RepairKilledKeeps
<1>6. CASE UNCHANGED vars
  <2>1. UNCHANGED <<fs, conf, tmp, inst, rep, installs, updates, kills, happened>>
    BY <1>6 DEF vars, bounds
  <2>2. TypeInv' /\ LinkInv' /\ UntouchedInv' /\ LinkMeansOverwritten'
    BY <2>1 DEF IInv, TypeInv, LinkInv, UntouchedInv, LinkMeansOverwritten
  <2>3. SpoiltInv' /\ RecordedInv' /\ FoundInv' /\ RealInv'
    BY <2>1, StillFiles DEF IInv, SpoiltInv, RecordedInv, FoundInv, RealInv
  <2>4. Watched' = Watched
    BY <2>1 DEF Watched
  <2>5. ShimInv' /\ BinaryInv' /\ StandInv'
    BY <2>1, <2>4, StillFiles DEF IInv, ShimInv, BinaryInv, StandInv, Quiet
  <2> QED BY <2>2, <2>3, <2>5 DEF IInv
<1> QED BY <1>1, <1>2, <1>3, <1>4, <1>5, <1>6 DEF Next

\* IInv holds in every behaviour of the scripts and the updater, for any
\* layouts, versions and numbers of installations, repairs and updates
\* (install-launcher.sh, repair-launcher.sh).
THEOREM RepairInvariance == Spec => []IInv
BY InitEstablishes, NextKeeps, PTL DEF Spec

\* Every variable keeps its type; in particular the shim that is recorded is
\* never the wrapper (install-launcher.sh:32-37).
THEOREM RepairTypes == Spec => []ITypeOK
<1>1. IInv => ITypeOK
  <2> SUFFICES ASSUME IInv PROVE ITypeOK
    OBVIOUS
  <2>1. inst.pc \in {"idle"} \cup Stage
    BY InstFacts DEF IInv, TypeInv
  <2>2. \A r \in Run : rep[r].pc \in {"idle", "start", "link", "copy", "copying", "open", "fill", "rename", "again", "replace"}
    BY RepFacts DEF IInv, TypeInv
  <2> QED BY <2>1, <2>2 DEF ITypeOK, IInv, TypeInv, Configuration, Stage
<1> QED BY <1>1, RepairInvariance, PTL

\* Unless there is a link at its place, the wrapper is nowhere else but in what
\* the meter itself has saved.
LEMMA Unspoilt ==
  ASSUME IInv, fs[Wrapper].kind # "link", NEW p \in Elsewhere \cup Versioned \cup {RealCopy},
         p = RealCopy => {"torn", "emptied"} \cap happened = {}, fs[p].kind = "file"
  PROVE  fs[p] = File("claude") /\ Content(p) = "claude"
<1>1. p \in Path /\ p \notin {Shim, Wrapper, Recovered}
  BY PathFacts
<1>2. fs[Wrapper] # Link(p)
  BY <1>1, NodeFacts
<1>3. ~Spoilt(p)
  BY <1>1, <1>2, PathFacts DEF IInv, SpoiltInv
<1>4. fs[p] = File("claude") /\ fs[p].to = "claude"
  BY <1>1, <1>3, NodeFacts DEF Spoilt, IInv, TypeInv, Contents
<1> QED BY <1>1, <1>4, FileStands DEF IInv

\* What is no link leads to itself.
LEMMA NoLinkContent ==
  ASSUME NEW p \in Path, fs[p].kind # "link"
  PROVE  Content(p) = IF fs[p].kind = "file" THEN fs[p].to ELSE ""
BY DEF Content, Real, Hop, FollowIn

\* What is recorded as the real Claude never leads to the wrapper, whatever two
\* repairs do to the temporary files that they share, as long as the shim is a
\* link whenever it is looked at and none of them puts an empty file in place
\* (install-launcher.sh:16-25, repair-launcher.sh:9-19).
THEOREM RealIsClaude == Spec => []RealIsNotWrapper
<1>1. ASSUME IInv, happened = {} PROVE Content(conf.real) # "wrapper"
  <2>1. conf.real \in Elsewhere \cup Versioned \cup {RealCopy, NoPath, Broken}
    BY <1>1 DEF IInv, RealInv
  <2>2. CASE conf.real \in {NoPath, Broken}
    BY <2>2, PathFacts DEF Content
  <2>3. CASE conf.real \notin {NoPath, Broken}
    <3>1. fs[Wrapper].kind # "link"
      BY <1>1, <2>3 DEF IInv, UntouchedInv, LinkMeansOverwritten
    <3>2. conf.real \in Path /\ fs[conf.real].kind # "link"
      BY <1>1, <2>1, <2>3, PathFacts DEF IInv, LinkInv
    <3> QED BY <1>1, <2>1, <2>3, <3>1, <3>2, Unspoilt, NoLinkContent
  <2> QED BY <2>2, <2>3
<1>2. IInv => RealIsNotWrapper
  BY <1>1 DEF RealIsNotWrapper
<1> QED BY <1>2, RepairInvariance, PTL

\* Of the repair, only these steps write real-claude.
LEMMA RealIsWritten ==
  ASSUME NEW r \in Run, RepairStep(r), conf'.real # conf.real
  PROVE  Fill(r) \/ Rename(r)
BY DEF RepairStep, Test, ReadLink, CopyBegins, CopyEnds, Open, TestAgain, Replace, NoFile

\* What the repair records is a Claude, whoever else repairs, installs or
\* updates (repair-launcher.sh:21-29).
THEOREM RepairIsSound == Spec => RepairRecordsClaude
<1>1. ASSUME IInv, NEW r \in Run, RepairStep(r), conf'.real # conf.real, "regular" \notin happened,
             fs[Wrapper].kind # "link"
      PROVE  Content(conf'.real) # "wrapper"
  <2>1. conf'.real \in Installed \cup {NoPath, Broken}
    <3>1. CASE Fill(r)
      <4>1. rep[r].pc = "fill" /\ rep[r].found \in Installed
        BY <1>1, <3>1 DEF Fill, In, IInv, FoundInv
      <4>2. PICK t \in Over(Stored(rep[r].file), Text(rep[r])) : conf' = Store(rep[r].file, t)
        BY <1>1, <3>1 DEF Fill
      <4>3. rep[r].file = "real"
        BY <1>1, <4>2 DEF Store, IInv, TypeInv, Configuration
      <4>4. t \in {rep[r].found, Broken}
        BY <4>2, <4>3, OverFacts DEF Text
      <4>5. conf'.real = t
        BY <4>2, <4>3 DEF Store, IInv, TypeInv, Configuration
      <4> QED BY <4>1, <4>4, <4>5
    <3>2. CASE Rename(r)
      <4>1. tmp[rep[r].file] # Missing /\ conf' = Store(rep[r].file, tmp[rep[r].file])
        BY <1>1, <3>2 DEF Rename
      <4>2. rep[r].file = "real"
        BY <1>1, <4>1 DEF Store, IInv, TypeInv, Configuration
      <4>3. conf'.real = tmp["real"] /\ tmp["real"] # Missing
        BY <1>1, <4>1, <4>2 DEF Store, IInv, TypeInv, Configuration
      <4> QED BY <1>1, <4>3 DEF IInv, FoundInv
    <3> QED BY <1>1, <3>1, <3>2, RealIsWritten
  <2>2. CASE conf'.real \in {NoPath, Broken}
    BY <2>2, PathFacts DEF Content
  <2>3. CASE conf'.real \in Installed
    <3>1. conf'.real \in Path /\ fs[conf'.real].kind # "link"
      BY <1>1, <2>3, PathFacts DEF IInv, LinkInv, Installed
    <3> QED BY <1>1, <2>3, <3>1, PathFacts, Unspoilt, NoLinkContent DEF Installed
  <2> QED BY <2>1, <2>2, <2>3
<1>2. IInv /\ [Next]_vars =>
        [(\E r \in Run : RepairStep(r)) /\ conf'.real # conf.real =>
            "regular" \in happened \/ fs[Wrapper].kind = "link" \/ Content(conf'.real) # "wrapper"]_vars
  BY <1>1
<1> QED BY <1>2, RepairInvariance, PTL DEF Spec, RepairRecordsClaude

\* While a Claude lasts that has been recorded, the first candidate is one.
LEMMA ChosenIsClaude ==
  ASSUME IInv, Quiet, fs[Wrapper].kind = "file", conf.binary # NoPath
  PROVE  Content(Chosen) = "claude"
<1>1. Lasting(conf.binary)
  BY DEF IInv, BinaryInv
<1>2. Real(Wrapper) = Wrapper /\ {"torn", "emptied"} \cap happened = {}
  BY DEF Real, Hop, FollowIn, Quiet
<1>3. \A p \in Elsewhere \cup Versioned \cup {RealCopy} : fs[p].kind = "file" => Valid(p) /\ Content(p) = "claude"
  <2> SUFFICES ASSUME NEW p \in Elsewhere \cup Versioned \cup {RealCopy}, fs[p].kind = "file"
               PROVE  Valid(p) /\ Content(p) = "claude"
    OBVIOUS
  <2>1. Content(p) = "claude"
    BY <1>2, Unspoilt
  <2>2. Executable(p) /\ Real(p) = p /\ p # Wrapper
    BY FileStands, PathFacts DEF IInv
  <2> QED BY <1>2, <2>1, <2>2 DEF Valid
<1> DEFINE versions == {v \in Present : Valid(v)}
           others == <<conf.binary, Fallback, RealCopy, Recovered>>
           valid == {i \in DOMAIN others : Valid(others[i])}
<1>4. versions = Present
  BY <1>3 DEF Present, Versioned
<1>5. CASE (InVersions(conf.binary) \/ InVersions(Fallback)) /\ versions # {}
  <2>1. Newest(versions) \in Present
    BY <1>4, <1>5, NewestPresent DEF Present, Versioned
  <2>2. Content(Newest(versions)) = "claude"
    BY <1>3, <2>1 DEF Present, Versioned
  <2>3. Chosen = Newest(versions)
    BY <1>5 DEF Chosen
  <2> QED BY <2>2, <2>3
<1>6. CASE ~((InVersions(conf.binary) \/ InVersions(Fallback)) /\ versions # {})
  <2>1. conf.binary \in Kept /\ fs[conf.binary] = File("claude")
    BY <1>1, <1>4, <1>6 DEF Lasting, InVersions, Versioned
  <2>2. Valid(conf.binary) /\ Content(conf.binary) = "claude"
    BY <1>3, <2>1, NodeFacts DEF Kept, Contents
  <2>3. DOMAIN others = 1..4 /\ others[1] = conf.binary
    OBVIOUS
  <2>4. 1 \in valid /\ \A i \in valid : 1 <= i
    BY <2>2, <2>3
  <2>5. Min(valid) = 1
    BY <2>3, <2>4 DEF Min
  <2>6. Chosen = others[1]
    BY <1>6, <2>4, <2>5 DEF Chosen
  <2> QED BY <2>2, <2>3, <2>6
<1> QED BY <1>5, <1>6

\* Claude starts, through installations that end between any two commands,
\* repairs that are killed, and updates of every kind, unless an installation
\* has met a layout that it overwrites or has ended inside of a write, or a
\* repair has put an empty file in place (README.md:54).
THEOREM ClaudeAlwaysStarts == Spec => []ClaudeStartsOtherwise
<1>1. ASSUME IInv, Quiet PROVE ClaudeStarts
  <2>1. OnPath \in {Shim, Wrapper} /\ Executable(OnPath)
    BY <1>1 DEF IInv, StandInv, OnPath
  <2>2. /\ OnPath \in Path /\ Real(OnPath) \in Path /\ fs[Real(OnPath)].kind = "file"
        /\ Content(OnPath) = fs[Real(OnPath)].to /\ Content(OnPath) \in Contents
    BY <1>1, <2>1, ExecutableFile DEF IInv
  <2>3. ASSUME Content(OnPath) = "wrapper" PROVE Content(Chosen) = "claude"
    <3>1. Spoilt(Real(OnPath))
      <4>1. fs[Real(OnPath)] \in Node
        BY <1>1, <2>2 DEF IInv, TypeInv
      <4>2. fs[Real(OnPath)] = File(fs[Real(OnPath)].to)
        BY <2>2, <4>1, NodeFacts
      <4> QED BY <2>2, <2>3, <4>2 DEF Spoilt
    <3>2. installs # 0
      BY <1>1, <2>2, <2>3, NodeFacts DEF IInv, UntouchedInv, Contents
    <3>3. fs[Wrapper].kind # "link"
      BY <1>1, <3>2 DEF IInv, LinkMeansOverwritten, Quiet
    <3>4. Real(OnPath) \notin {RealCopy, Recovered}
      <4>1. Hop(OnPath) \notin {RealCopy, Recovered}
        BY <1>1, <2>1, PathFacts DEF Hop, FollowIn, IInv, LinkInv
      <4>2. Hop(OnPath) \in Path
        BY <1>1, <2>2, NodeFacts DEF Hop, FollowIn, IInv, TypeInv
      <4> QED BY <1>1, <4>1, <4>2 DEF Real, Hop, FollowIn, IInv, LinkInv
    <3>5. Real(OnPath) = Wrapper
      BY <1>1, <2>2, <3>1, <3>3, <3>4, NodeFacts DEF IInv, SpoiltInv
    <3>6. conf.binary # NoPath
      BY <1>1, <3>1, <3>5 DEF IInv, BinaryInv
    <3> QED BY <1>1, <2>2, <3>5, <3>6, ChosenIsClaude
  <2>4. OnPath # NoPath
    BY <2>2, PathFacts
  <2> QED BY <2>2, <2>3, <2>4 DEF ClaudeStarts, Starts, Contents
<1>2. IInv => ClaudeStartsOtherwise
  BY <1>1 DEF ClaudeStartsOtherwise, Quiet
<1> QED BY <1>2, RepairInvariance, PTL
=============================================================================
