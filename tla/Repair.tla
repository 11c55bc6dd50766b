------------------------------- MODULE Repair -------------------------------
(***************************************************************************)
(* The installation of the launcher (scripts/install-launcher.sh), the     *)
(* repair service that it sets up (scripts/repair-launcher.sh), and        *)
(* Claude's own updater, on the files that decide what "claude" starts.    *)
(*                                                                         *)
(* A step is one command of a script.  set -e ends a script at a command   *)
(* that fails; a script may also be killed between any two commands.  The  *)
(* repair may run twice at a time: the installer calls it, and the timer   *)
(* that it has just enabled starts the service.  Both runs write the same  *)
(* temporary files.  A file without its execute bits counts as absent.     *)
(***************************************************************************)
EXTENDS Integers, Sequences, FiniteSets, FiniteSetsExt, SequencesExt

CONSTANTS
  Shim,          \* where the user's own installation puts "claude"
  Wrapper,       \* /usr/local/bin/claude, later on the PATH
  RealCopy,      \* /usr/local/lib/claude-meter/claude-real
  Recovered,     \* /usr/local/lib/claude-meter/claude-recovered
  Versions,      \* the paths in Claude's versions directory, oldest first
  Elsewhere,     \* other paths of a Claude
  World,         \* what is at each path before the first installation
  MaxInstalls,   \* bound on installations
  MaxUpdates,    \* bound on the updater's steps
  MaxKills       \* bound on the repairs that are killed

OwnPath == {Shim, Wrapper, RealCopy, Recovered}
Path == OwnPath \cup Elsewhere \cup ToSet(Versions)
\* An empty file, or none; a text that is no path; no temporary file.
NoPath == "none"
Broken == "broken"
Missing == "missing"
Absent == [kind |-> "none", to |-> ""]
File(content) == [kind |-> "file", to |-> content]
Link(p) == [kind |-> "link", to |-> p]
Node == {Absent} \cup {File(c) : c \in {"claude", "wrapper", "partial"}} \cup {Link(p) : p \in Path}

\* One symbolic link, in the files f.
FollowIn(f, p) == IF f[p].kind = "link" THEN f[p].to ELSE p

ASSUME PathAssumption ==
  /\ Versions \in Seq(STRING) /\ {NoPath, Broken, Missing} \cap Path = {}
  /\ Shim \notin {Wrapper, RealCopy, Recovered} /\ Wrapper \notin {RealCopy, Recovered} /\ RealCopy # Recovered
  /\ OwnPath \cap Elsewhere = {} /\ OwnPath \cap ToSet(Versions) = {} /\ Elsewhere \cap ToSet(Versions) = {}

\* Before the first installation every file is a Claude, one of them is on the
\* PATH, at the shim or at the wrapper's place there may be a link, from the
\* latter to another installation, and the meter's directory is empty.
ASSUME WorldAssumption ==
  /\ World \subseteq [Path -> Node]
  /\ \A f \in World :
       /\ f[RealCopy] = Absent /\ f[Recovered] = Absent
       /\ \A p \in Path : f[p].kind = "file" => f[p] = File("claude")
       /\ \A p \in Path : f[p].kind = "link" => p \in {Shim, Wrapper} /\ f[p].to \notin {RealCopy, Recovered}
       /\ f[Wrapper].kind = "link" => f[Wrapper].to \in Elsewhere
       /\ \E p \in {Shim, Wrapper} : f[FollowIn(f, FollowIn(f, p))].kind = "file"
ASSUME BoundAssumption ==
  MaxInstalls \in Nat /\ MaxUpdates \in Nat /\ MaxKills \in Nat

VARIABLES
  fs,        \* what is at each path
  conf,      \* /etc/claude-meter: real-claude, versions-dir, claude-shim, launcher.json; the units
  tmp,       \* real-claude.tmp and versions-dir.tmp
  inst,      \* the installer: where it is and its variables
  rep,       \* the two runs of the repair
  installs, updates, kills,
  happened   \* which of "torn", "overwritten", "regular" and "emptied" has happened, for the properties

Run == {"service", "direct"}
Idle == [pc |-> "idle"]
bounds == <<installs, updates, kills>>
vars == <<fs, conf, tmp, inst, rep, bounds, happened>>

-----------------------------------------------------------------------------
(***************************************************************************)
(* Files.                                                                  *)
(***************************************************************************)
Hop(p) == FollowIn(fs, p)

\* readlink -f; no chain of links is longer than two.
Real(p) == Hop(Hop(p))

Content(p) == IF p \notin Path THEN "" ELSE IF fs[Real(p)].kind = "file" THEN fs[Real(p)].to ELSE ""
Executable(p) == Content(p) # ""
InVersions(p) == p \in ToSet(Versions)
Dir == "versions"
WrapperLink == Link(Wrapper)

\* command -v claude
OnPath == IF Executable(Shim) THEN Shim ELSE IF Executable(Wrapper) THEN Wrapper ELSE NoPath

\* Whom the wrapper, then the launcher, would execute (see Launch).
Present == {v \in ToSet(Versions) : fs[v].kind = "file"}
Newest(vs) == Versions[Max({i \in DOMAIN Versions : Versions[i] \in vs})]
Fallback == IF conf.dir # NoPath /\ Present # {} THEN Newest(Present) ELSE conf.real
Valid(p) == Executable(p) /\ Real(p) # Real(Wrapper)

\* The first candidate that is valid.
Chosen ==
  LET versions == {v \in Present : Valid(v)}
      others == <<conf.binary, Fallback, RealCopy, Recovered>>
      valid == {i \in DOMAIN others : Valid(others[i])}
  IN  IF (InVersions(conf.binary) \/ InVersions(Fallback)) /\ versions # {} THEN Newest(versions)
      ELSE IF valid # {} THEN others[Min(valid)] ELSE NoPath

\* A start of p ends in a Claude.
Starts(p) ==
  \/ Content(p) = "claude"
  \/ Content(p) = "wrapper" /\ Content(Chosen) = "claude"

-----------------------------------------------------------------------------
(***************************************************************************)
(* install-launcher.sh                                                     *)
(***************************************************************************)
At(l) == inst.pc = l
To(l) == inst' = [inst EXCEPT !.pc = l]
Rest == UNCHANGED <<tmp, rep, bounds, happened>>

\* The installer is killed inside of a command that writes.
Torn == inst' = Idle /\ happened' = happened \cup {"torn"} /\ UNCHANGED <<fs, tmp, rep, bounds>>

\* What is found is Claude itself where a link to it is expected, or a link
\* where Claude itself is expected.
Overwrites == (OnPath = Shim /\ fs[Shim].kind = "file") \/ fs[Wrapper].kind = "link"

\* REQUESTED_CLAUDE is what is on the PATH.
Begin ==
  /\ At("idle") /\ OnPath # NoPath /\ installs < MaxInstalls
  /\ inst' = [pc |-> "copy", cur |-> OnPath, real |-> Real(OnPath), curReal |-> Real(OnPath)]
  /\ installs' = installs + 1
  /\ happened' = happened \cup IF Overwrites THEN {"overwritten"} ELSE {}
  /\ UNCHANGED <<fs, conf, tmp, rep, updates, kills>>

\* Mutant: a path that is recorded already is not looked at.
CopyAlways ==
  /\ At("copy")
  /\ IF inst.real # Wrapper THEN To("record") /\ UNCHANGED fs
     ELSE /\ fs' = [fs EXCEPT ![RealCopy] = fs[Wrapper]]
          /\ inst' = [inst EXCEPT !.real = RealCopy, !.pc = "record"]
  /\ UNCHANGED conf /\ Rest

\* Where the wrapper is to go there is the wrapper, or Claude itself.
Copy ==
  /\ At("copy")
  /\ CASE inst.real # Wrapper -> To("record") /\ UNCHANGED fs
       [] inst.real = Wrapper /\ conf.real # NoPath ->
            inst' = [inst EXCEPT !.real = conf.real, !.pc = "record"] /\ UNCHANGED fs
       [] inst.real = Wrapper /\ conf.real = NoPath ->
            /\ fs' = [fs EXCEPT ![RealCopy] = fs[Wrapper]]
            /\ inst' = [inst EXCEPT !.real = RealCopy, !.pc = "record"]
  /\ UNCHANGED conf /\ Rest

\* printf > real-claude; the file is empty for a moment.
RecordReal ==
  /\ At("record")
  /\ \/ conf' = [conf EXCEPT !.real = inst.real] /\ To("dir") /\ UNCHANGED fs /\ Rest
     \/ conf' = [conf EXCEPT !.real = NoPath] /\ Torn

RecordDir ==
  /\ At("dir")
  /\ \/ conf' = (IF InVersions(inst.real) THEN [conf EXCEPT !.dir = Dir] ELSE conf) /\ To("shim") /\ UNCHANGED fs /\ Rest
     \/ InVersions(inst.real) /\ conf' = [conf EXCEPT !.dir = NoPath] /\ Torn

\* Mutant: the wrapper, too, is taken for a shim.
RecordShimAlways ==
  /\ At("shim")
  /\ conf' = [conf EXCEPT !.shim = inst.cur]
  /\ To("json")
  /\ UNCHANGED fs /\ Rest

\* The shim to repair later is what was asked for, unless that is the wrapper.
RecordShim ==
  /\ At("shim")
  /\ \/ /\ conf' = IF inst.cur # Wrapper THEN [conf EXCEPT !.shim = inst.cur] ELSE conf
        /\ To("json") /\ UNCHANGED fs /\ Rest
     \/ inst.cur # Wrapper /\ conf' = [conf EXCEPT !.shim = NoPath] /\ Torn

\* launcher.json is written once, even if it has come out empty.
RecordBinary ==
  /\ At("json")
  /\ \/ /\ conf' = IF conf.binary = NoPath THEN [conf EXCEPT !.binary = inst.real] ELSE conf
        /\ To("truncate") /\ UNCHANGED fs /\ Rest
     \/ conf.binary = NoPath /\ conf' = [conf EXCEPT !.binary = Broken] /\ Torn

\* What the file that the wrapper's path leads to contains; a new one is not
\* executable yet.
Puts(content) ==
  fs' = IF fs[Real(Wrapper)] = Absent THEN fs ELSE [fs EXCEPT ![Real(Wrapper)] = File(content)]

\* cat > /usr/local/bin/claude: it is emptied ...
Truncate == At("truncate") /\ Puts("partial") /\ To("write") /\ UNCHANGED conf /\ Rest

\* ... written ...
Write == At("write") /\ Puts("wrapper") /\ To("chmod") /\ UNCHANGED conf /\ Rest

\* ... and made executable.
Chmod ==
  /\ At("chmod")
  /\ fs' = [fs EXCEPT ![Real(Wrapper)] = File("wrapper")] /\ To("remove")
  /\ UNCHANGED conf /\ Rest

\* rm -f of the shim, if it is what was asked for.
RemoveShim ==
  /\ At("remove")
  /\ IF inst.cur # Wrapper /\ inst.curReal = Real(inst.cur)
     THEN fs' = [fs EXCEPT ![inst.cur] = Absent] /\ To("link")
     ELSE UNCHANGED fs /\ To("units")
  /\ UNCHANGED conf /\ Rest

\* ln -s, which fails when the updater was faster.
LinkShim ==
  /\ At("link")
  /\ IF fs[inst.cur] = Absent
     THEN fs' = [fs EXCEPT ![inst.cur] = WrapperLink] /\ To("units")
     ELSE UNCHANGED fs /\ inst' = Idle
  /\ UNCHANGED conf /\ Rest

\* The units are written and enabled, and the repair is called.
Enable ==
  /\ At("units")
  /\ inst' = Idle
  /\ IF inst.cur # Wrapper
     THEN /\ conf' = [conf EXCEPT !.units = TRUE]
          /\ rep' = IF rep["direct"].pc = "idle" THEN [rep EXCEPT !["direct"] = [pc |-> "start"]] ELSE rep
     ELSE UNCHANGED <<conf, rep>>
  /\ UNCHANGED <<fs, tmp, bounds, happened>>

InstallerKilled == ~At("idle") /\ inst' = Idle /\ UNCHANGED <<fs, conf>> /\ Rest

Installer ==
  Begin \/ Copy \/ RecordReal \/ RecordDir \/ RecordShim \/ RecordBinary \/ Truncate \/ Write \/ Chmod
    \/ RemoveShim \/ LinkShim \/ Enable \/ InstallerKilled

-----------------------------------------------------------------------------
(***************************************************************************)
(* repair-launcher.sh                                                      *)
(***************************************************************************)
In(r, l) == rep[r].pc = l
Becomes(r, x) == rep' = [rep EXCEPT ![r] = x]
Exit(r) == Becomes(r, Idle)
Go(r, l) == Becomes(r, [pc |-> l, shim |-> rep[r].shim])
Others == UNCHANGED <<inst, bounds, happened>>
NoFile == UNCHANGED <<fs, conf, tmp>>

\* The timer or the path unit starts the service, which is never started twice.
Timer ==
  /\ conf.units /\ In("service", "idle")
  /\ Becomes("service", [pc |-> "start"])
  /\ NoFile /\ Others

\* Mutant: a regular file is left alone.
TestLinkOnly(r) ==
  /\ In(r, "start")
  /\ IF conf.shim = NoPath \/ ~Executable(Wrapper) \/ fs[conf.shim].kind = "file" THEN Exit(r)
     ELSE Becomes(r, [pc |-> IF fs[conf.shim].kind = "link" THEN "link" ELSE "again", shim |-> conf.shim])
  /\ NoFile /\ Others

\* The tests of the first lines, and what is at the shim.
Test(r) ==
  /\ In(r, "start")
  /\ IF conf.shim = NoPath \/ ~Executable(Wrapper) THEN Exit(r)
     ELSE LET next == CASE fs[conf.shim].kind = "link" -> "link"
                        [] fs[conf.shim].kind = "file" -> "copy"
                        [] fs[conf.shim].kind = "none" -> "again"
          IN  Becomes(r, [pc |-> next, shim |-> conf.shim])
  /\ NoFile /\ Others

\* write_real is to write what was found.
WritesReal(r, found) == Becomes(r, [pc |-> "open", shim |-> rep[r].shim, found |-> found, file |-> "real"])

\* Mutant: a link to the wrapper is recorded as well.
ReadLinkAny(r) ==
  /\ In(r, "link")
  /\ IF Executable(rep[r].shim) THEN WritesReal(r, Real(rep[r].shim)) ELSE Go(r, "again")
  /\ NoFile /\ Others

\* A link that leads to a Claude.
ReadLink(r) ==
  /\ In(r, "link")
  /\ IF Executable(rep[r].shim) /\ Real(rep[r].shim) # Wrapper
     THEN WritesReal(r, Real(rep[r].shim))
     ELSE Go(r, "again")
  /\ NoFile /\ Others

\* cp -f of what the shim leads to by now, in two parts.
CopyBegins(r) ==
  /\ In(r, "copy")
  /\ IF Executable(rep[r].shim)
     THEN fs' = [fs EXCEPT ![Recovered] = File("partial")]
          /\ Becomes(r, [pc |-> "copying", shim |-> rep[r].shim, found |-> Content(rep[r].shim)])
     ELSE UNCHANGED fs /\ Exit(r)
  /\ UNCHANGED <<conf, tmp>> /\ Others

CopyEnds(r) ==
  /\ In(r, "copying")
  /\ fs' = [fs EXCEPT ![Recovered] = File(rep[r].found)]
  /\ WritesReal(r, Recovered)
  /\ UNCHANGED <<conf, tmp>> /\ Others

(***************************************************************************)
(* write_real: real-claude, then versions-dir if there is one, each by a   *)
(* temporary file.  Its name is the same for both runs, so each may write  *)
(* to the file that the other has opened, or has put in place by now.      *)
(***************************************************************************)
Text(x) == IF x.file = "real" THEN x.found ELSE Dir
Store(file, text) == IF file = "real" THEN [conf EXCEPT !.real = text] ELSE [conf EXCEPT !.dir = text]
Stored(file) == IF file = "real" THEN conf.real ELSE conf.dir

\* The redirection of printf, which empties a file that is there.
Open(r) ==
  /\ In(r, "open")
  /\ tmp' = [tmp EXCEPT ![rep[r].file] = NoPath]
  /\ Becomes(r, [pc |-> "fill", shim |-> rep[r].shim, found |-> rep[r].found, file |-> rep[r].file, at |-> "tmp"])
  /\ UNCHANGED <<fs, conf>> /\ Others

\* A text written over another one: the end of the longer one is left.
Over(old, new) == IF old \in (Path \cup {Broken}) \ {new} THEN {new, Broken} ELSE {new}

\* printf writes to what it has opened, wherever that is now.
Fill(r) ==
  /\ In(r, "fill")
  /\ LET x == rep[r] IN
     /\ \/ /\ x.at = "tmp" /\ UNCHANGED conf
           /\ \E t \in Over(tmp[x.file], Text(x)) : tmp' = [tmp EXCEPT ![x.file] = t]
        \/ /\ x.at = "final" /\ UNCHANGED tmp
           /\ \E t \in Over(Stored(x.file), Text(x)) : conf' = Store(x.file, t)
        \/ x.at = "gone" /\ UNCHANGED <<conf, tmp>>
     /\ Becomes(r, [pc |-> "rename", shim |-> x.shim, found |-> x.found, file |-> x.file])
  /\ UNCHANGED fs /\ Others

\* What the other run has opened moves with its name.
Moved(x, file) ==
  IF x.pc = "fill" /\ x.file = file THEN [x EXCEPT !.at = IF @ = "tmp" THEN "final" ELSE "gone"] ELSE x

\* chmod and mv -f, which fail if the other run was faster.
Rename(r) ==
  /\ In(r, "rename")
  /\ LET x == rep[r]
         next == IF x.file = "real" /\ InVersions(x.found) THEN [x EXCEPT !.pc = "open", !.file = "dir"]
                 ELSE [pc |-> "again", shim |-> x.shim]
     IN  IF tmp[x.file] = Missing THEN Exit(r) /\ UNCHANGED <<conf, tmp, happened>>
         ELSE /\ conf' = Store(x.file, tmp[x.file]) /\ tmp' = [tmp EXCEPT ![x.file] = Missing]
              /\ rep' = [q \in Run |-> IF q = r THEN next ELSE Moved(rep[q], x.file)]
              /\ happened' = happened \cup IF x.file = "real" /\ tmp[x.file] = NoPath THEN {"emptied"} ELSE {}
  /\ UNCHANGED <<fs, inst, bounds>>

\* Is the shim all right by now?
TestAgain(r) ==
  /\ In(r, "again")
  /\ IF fs[rep[r].shim].kind = "link" /\ Real(rep[r].shim) = Wrapper THEN Exit(r) ELSE Go(r, "replace")
  /\ NoFile /\ Others

\* ln -s to a temporary name, mv -Tf.
Replace(r) ==
  /\ In(r, "replace")
  /\ fs' = [fs EXCEPT ![rep[r].shim] = WrapperLink]
  /\ Exit(r)
  /\ UNCHANGED <<conf, tmp>> /\ Others

RepairKilled(r) ==
  /\ ~In(r, "idle") /\ Exit(r) /\ kills < MaxKills /\ kills' = kills + 1
  /\ NoFile /\ UNCHANGED <<inst, installs, updates, happened>>

RepairStep(r) ==
  Test(r) \/ ReadLink(r) \/ CopyBegins(r) \/ CopyEnds(r) \/ Open(r) \/ Fill(r) \/ Rename(r) \/ TestAgain(r)
    \/ Replace(r)

-----------------------------------------------------------------------------
(***************************************************************************)
(* Claude's updater.                                                       *)
(***************************************************************************)
Update(p, node) ==
  /\ updates < MaxUpdates /\ updates' = updates + 1
  /\ fs' = [fs EXCEPT ![p] = node]
  /\ UNCHANGED <<conf, tmp, inst, rep, installs, kills>>

\* A native installation has versions: one comes, the shim leads to it, an older one goes.
Updater ==
  \/ /\ Present # {}
     /\ \E v \in ToSet(Versions) :
          \/ fs[v] = Absent /\ Update(v, File("claude"))
          \/ fs[v].kind = "file" /\ fs[Shim] # Link(v) /\ Update(Shim, Link(v))
          \/ /\ Newest(Present) # v /\ fs[v].kind = "file" /\ Real(Shim) # v
             /\ Update(v, Absent)
     /\ UNCHANGED happened
  \/ /\ fs[Shim] # Absent /\ Update(Shim, File("claude"))
     /\ happened' = happened \cup {"regular"}

-----------------------------------------------------------------------------
Init ==
  /\ fs \in World
  /\ conf = [real |-> NoPath, dir |-> NoPath, shim |-> NoPath, binary |-> NoPath, units |-> FALSE]
  /\ tmp = [file \in {"real", "dir"} |-> Missing]
  /\ inst = Idle /\ rep = [r \in Run |-> Idle]
  /\ installs = 0 /\ updates = 0 /\ kills = 0 /\ happened = {}

Next ==
  \/ Installer \/ Timer \/ Updater
  \/ \E r \in Run : RepairStep(r) \/ RepairKilled(r)

Spec == Init /\ [][Next]_vars

\* systemd starts the service again and again, and the scripts run.
FairSpec == Spec /\ WF_vars(Timer) /\ \A r \in Run : WF_vars(RepairStep(r))

-----------------------------------------------------------------------------
\* Every variable has its type.
ITypeOK ==
  /\ fs \in [Path -> Node]
  /\ conf.real \in Path \cup {NoPath, Broken} /\ conf.binary \in Path \cup {NoPath, Broken}
  /\ conf.shim \in {Shim, NoPath} /\ conf.dir \in {NoPath, Dir} /\ conf.units \in BOOLEAN
  /\ inst.pc \in {"idle", "copy", "record", "dir", "shim", "json", "truncate", "write", "chmod", "remove", "link",
                 "units"}
  /\ \A r \in Run : rep[r].pc \in {"idle", "start", "link", "copy", "copying", "open", "fill", "rename", "again", "replace"}
  /\ tmp["real"] \in Path \cup {NoPath, Broken, Missing} /\ tmp["dir"] \in {NoPath, Dir, Missing}
  /\ installs \in 0..MaxInstalls /\ updates \in 0..MaxUpdates /\ kills \in 0..MaxKills
  /\ happened \subseteq {"torn", "overwritten", "regular", "emptied"}

\* "Metering must never prevent Claude Code from starting" (README.md:54):
\* what is on the PATH starts a Claude, except while the wrapper is being written.
ClaudeStarts == Content(OnPath) = "partial" \/ (OnPath # NoPath /\ Starts(OnPath))

\* This is so through installations that end between any two commands, repairs
\* that are killed, and updates of every kind, unless an installation has met
\* a layout that it overwrites, or has ended inside of a write, or a repair has
\* put an empty file in place (install-launcher.sh, repair-launcher.sh).
ClaudeStartsOtherwise == {"overwritten", "torn", "emptied"} \cap happened = {} => ClaudeStarts

\* "The installer keeps the original real-Claude path" (README.md:194): what is
\* recorded as the real Claude never leads to the wrapper, whatever the two
\* runs do to each other's files, as long as the shim is a link whenever the
\* installer and the repair look at it, and unless one of them puts the other's
\* file in place while it is empty: an installation then finds the wrapper and
\* nothing recorded (repair-launcher.sh:10-12, install-launcher.sh:16-21).
RealIsNotWrapper == happened = {} => Content(conf.real) # "wrapper"

\* The repair "records the new real target" (README.md:105): what it records is
\* not by then the wrapper, whoever else repairs, installs or updates, as long
\* as the updater puts links in place, and unless npm's link was at the
\* wrapper's place: the shim then leads past the wrapper to what was Claude.
RepairRecordsClaude ==
  [][(\E r \in Run : RepairStep(r)) /\ conf'.real # conf.real =>
        "regular" \in happened \/ fs[Wrapper].kind = "link" \/ Content(conf'.real) # "wrapper"]_vars

\* "If Claude's updater replaces the user-local claude shim, the repair unit
\* ... restores the metered shim" (README.md:105), whenever it does, also when
\* a repair was killed, and only not if an installation that ended in the
\* middle of a write has left no record of the shim (repair-launcher.sh).
ShimRestored == [](conf.units => <>(fs[Shim] = WrapperLink \/ conf.shim = NoPath))
=============================================================================
