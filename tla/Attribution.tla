----------------------------- MODULE Attribution ----------------------------
(***************************************************************************)
(* Whose usage it is.  People log in to the shared host from their devices *)
(* or at its console and start Claude there, directly or in a tmux session *)
(* that outlives their logins.  At each start the launcher loads its       *)
(* configuration (internal/config), finds out where the start comes from   *)
(* and which device that is (internal/identity), and hands the answer to   *)
(* Claude in OTEL_RESOURCE_ATTRIBUTES; the collector gets it back with     *)
(* Claude's events, if it accepts the token.                               *)
(*                                                                         *)
(* A text is a sequence of words and separators; an escaped separator is a *)
(* separator of its own.  sshd, tmux, tailscale and the OpenTelemetry      *)
(* exporter inside Claude are external: their part is what the code        *)
(* expects of them.                                                        *)
(***************************************************************************)
EXTENDS Integers, Sequences, FiniteSets, FiniteSetsExt, SequencesExt, TLC

CONSTANTS
  Terminal,       \* where people sit
  Origin,         \* the environments that a login may come with
  Addr,           \* first fields of SSH_CONNECTION, SSH_CLIENT and MOSH_IP
  ParseIP,        \* address |-> net.ParseIP of it, or ""
  Whois,          \* IP |-> names of the node that tailscale knows, by field
  Owner,          \* IP |-> the person the configuration is meant to name
  LowerOf,        \* capitalised word |-> small one
  HexOf,          \* character |-> its %XX
  MeterKey,       \* the words that begin with "meter."
  Setup,          \* the configuration files of launcher and collector
  NoFile,
  CollectorURL,
  OwnAttributes,  \* values of OTEL_RESOURCE_ATTRIBUTES that a start may find
  UpdateEnv,      \* tmux: update-environment
  MaxPanes        \* bound on the panes of the session

EnvVar == {"SSH_CONNECTION", "SSH_CLIENT", "MOSH_IP"}
Env == [EnvVar -> Addr \cup {""}]
Unknown == <<"unknown">>
Local == <<"local">>
Unresolved == <<"unresolved">>
Text == Seq(STRING)

ASSUME EnvAssumption ==
  /\ Origin \subseteq Env /\ UpdateEnv \subseteq EnvVar /\ MaxPanes \in Nat
  /\ DOMAIN ParseIP = Addr /\ \A a \in Addr : ParseIP[a] # "" => ParseIP[a] \in DOMAIN Whois
  /\ "" \notin Addr /\ "-" \notin Addr /\ "unset" \notin Addr

\* Files, names and attributes are texts, and so are the program's own words.
ASSUME TextAssumption ==
  /\ MeterKey \cup {"", " ", ",", "=", "Bearer", "Authorization"} \subseteq STRING
  /\ {"meter.person", "meter.device", "meter.source_ip"} \subseteq MeterKey /\ {"", " ", ",", "="} \cap MeterKey = {}
  /\ {Unknown, Local, Unresolved} \subseteq Text
  /\ OwnAttributes \subseteq Text /\ CollectorURL \in Text
  /\ \A ip \in DOMAIN Whois : Whois[ip] \in [DOMAIN Whois[ip] -> Text]
  /\ LowerOf \in [DOMAIN LowerOf -> STRING]
  /\ \A f \in Setup :
       /\ f.launcher # NoFile => /\ {f.launcher.endpoint, f.launcher.token, f.launcher.local} \subseteq Text
                                 /\ f.launcher.devices \subseteq Text \X Text
       /\ f.server # NoFile => f.server.token \in Text

\* Each character that is escaped has a code of its own; addresses and the
\* program's own words have none of these characters (otelEscape).
ASSUME EscapeAssumption ==
  LET codes == {HexOf[c] : c \in DOMAIN HexOf} IN
  /\ {",", "=", " "} \subseteq DOMAIN HexOf /\ codes \subseteq STRING /\ codes \cap DOMAIN HexOf = {}
  /\ \A c, d \in DOMAIN HexOf : HexOf[c] = HexOf[d] => c = d
  /\ DOMAIN Whois \subseteq STRING /\ (codes \cup DOMAIN HexOf) \cap DOMAIN Whois = {}
  /\ codes \cap {"unknown", "local", "unresolved", "Bearer"} = {}

VARIABLES
  files,      \* the configuration files in use
  login,      \* terminal |-> the environment of its login shell, or NoEnv
  alive,      \* the tmux session exists
  global,     \* its global environment
  session,    \* its session environment: an address, "unset", or "-" for removed
  panes,      \* the environments its shells were started with
  attached,   \* terminals attached to it
  latest,     \* the environment of the client that attached last
  run         \* the start being made, or the one that has just ended

tmuxVars == <<alive, global, session, panes, attached, latest>>
hostVars == <<files, login, tmuxVars>>
vars == <<hostVars, run>>

NoEnv == [v \in EnvVar |-> ""]
None == [pc |-> "idle"]

-----------------------------------------------------------------------------
(***************************************************************************)
(* Texts.                                                                  *)
(***************************************************************************)
TrimSpace(v) ==
  LET word == {i \in DOMAIN v : v[i] # " "}
  IN  IF word = {} THEN <<>> ELSE SubSeq(v, Min(word), Max(word))

TrimRight(v, c) ==
  LET other == {i \in DOMAIN v : v[i] # c} IN IF other = {} THEN <<>> ELSE SubSeq(v, 1, Max(other))

Lower(c) == IF c \in DOMAIN LowerOf THEN LowerOf[c] ELSE c

\* The first label, in small letters.
normalizeDevice(s) ==
  LET t == TrimSpace(IF s # <<>> /\ Last(s) = "." THEN Front(s) ELSE s)
      low == [i \in DOMAIN t |-> Lower(t[i])]
      dots == {i \in DOMAIN low : low[i] = "."}
  IN  IF dots # {} /\ Min(dots) > 1 THEN SubSeq(low, 1, Min(dots) - 1) ELSE low

-----------------------------------------------------------------------------
(***************************************************************************)
(* The configuration.                                                      *)
(***************************************************************************)
\* The maps that the loop over the devices may end with: of the names that
\* normalise alike, the last one of an order that Go leaves open prevails.
LoadDevices(devices) ==
  LET key(d) == normalizeDevice(d[1])
  IN  {m \in [{key(d) : d \in devices} -> {TrimSpace(d[2]) : d \in devices}] :
         \A k \in DOMAIN m : \E d \in devices : key(d) = k /\ m[k] = TrimSpace(d[2])}

\* Whether LoadLauncher accepts the file, which here is what the environment
\* leaves of it.  Its claude_binary is required like the token.
LoadLauncher(file) ==
  /\ file # NoFile
  /\ TrimRight(file.endpoint, "/") # <<>> /\ file.token # <<>>
  /\ \A d \in file.devices : normalizeDevice(d[1]) # <<>> /\ TrimSpace(d[2]) # <<>>

LoadServer(file) == file # NoFile /\ TrimSpace(file.token) # <<>>

-----------------------------------------------------------------------------
(***************************************************************************)
(* The identity.                                                           *)
(***************************************************************************)
\* Mutant: any text is taken for an address.
sourceIPFromSSHRaw(v) == v

sourceIPFromSSH(v) == IF v \in Addr THEN ParseIP[v] ELSE ""

\* Mutant: the name that the device gives itself comes first.
firstNameOwn(node) ==
  LET order == SelectSeq(<<"HostName", "ComputedName", "Name">>,
                         LAMBDA f : f \in DOMAIN node /\ TrimSpace(node[f]) # <<>>)
  IN  IF order = <<>> THEN <<>> ELSE node[order[1]]

\* The name of the device; Hostinfo stands for the names in that record.
firstName(node) ==
  LET order == <<"ComputedName", "Name", "HostName", "Hostname", "DNSName", "Hostinfo">>
      n == SelectInSeq(order, LAMBDA f : f \in DOMAIN node /\ TrimSpace(node[f]) # <<>>)
  IN  IF n = 0 THEN <<>> ELSE node[order[n]]

\* A start without a remote source.
LocalIdentity(cfg) ==
  [person |-> IF TrimSpace(cfg.local) # <<>> THEN TrimSpace(cfg.local) ELSE Unknown, device |-> Local, source |-> ""]

\* The source is known, the device is not.
Fallback(ip) == [person |-> Unknown, device |-> Unresolved, source |-> ip]

DeviceIdentity(devices, ip) ==
  LET name == normalizeDevice(firstName(Whois[ip])) IN
  IF name = <<>> THEN Fallback(ip)
  ELSE [person |-> IF name \in DOMAIN devices THEN devices[name] ELSE Unknown, device |-> name, source |-> ip]

\* Mutant: nothing is escaped.
otelEscapeNothing(v) == v

otelEscape(v) == [i \in DOMAIN v |-> IF v[i] \in DOMAIN HexOf THEN HexOf[v[i]] ELSE v[i]]

\* c ends the last part, or belongs to it.
More(parts, c) ==
  IF c = "," THEN Append(parts, <<>>) ELSE [parts EXCEPT ![Len(parts)] = Append(@, c)]

\* strings.Split at the commas.
Split(v) == FoldLeft(More, <<<<>>>>, v)

\* Parts that are not empty, with commas in between.
Joined(done, p) == IF done = <<>> THEN p ELSE done \o <<",">> \o p
Join(parts) == FoldLeft(Joined, <<>>, parts)

\* Mutant: the attributes of an outer Claude are kept.
KeepAll(kept, q) == IF TrimSpace(q) # <<>> THEN Append(kept, TrimSpace(q)) ELSE kept

\* What the user has set is kept, except what begins with "meter.".
Keep(kept, q) ==
  LET p == TrimSpace(q) IN IF p # <<>> /\ p[1] \notin MeterKey THEN Append(kept, p) ELSE kept

Kept(existing) == FoldLeft(Keep, <<>>, Split(existing))

\* The meter's; the node ID is like the source.
Own(id) ==
  <<<<"meter.person", "=">> \o otelEscape(id.person), <<"meter.device", "=">> \o otelEscape(id.device)>>
    \o IF id.source = "" THEN <<>> ELSE <<<<"meter.source_ip", "=", id.source>>>>

ResourceAttributes(id, existing) == Join(Kept(existing) \o Own(id))

\* What the exporter reads from the variable: pairs of a key and a value.
Plain(c) == IF \E h \in DOMAIN HexOf : HexOf[h] = c THEN CHOOSE h \in DOMAIN HexOf : HexOf[h] = c ELSE c
Cut(p) == Min({i \in DOMAIN p : p[i] = "="})
Pair(p) == <<SubSeq(p, 1, Cut(p) - 1), [i \in 1..(Len(p) - Cut(p)) |-> Plain(p[Cut(p) + i])]>>
Attributes(v) == {Pair(p) : p \in {q \in {TrimSpace(q) : q \in ToSet(Split(v))} : "=" \in ToSet(q)}}

\* What it sends as Authorization, the first entry of
\* OTEL_EXPORTER_OTLP_LOGS_HEADERS, a text of the same kind in which the token
\* is not escaped.
Header(token) == TrimSpace(Pair(TrimSpace(Split(<<"Authorization", "=">> \o (<<"Bearer", " ">> \o token))[1]))[2])

\* Mutant: the scheme is not cut off.
authorizedWhole(header, token) == TrimSpace(header) = token

authorized(header, token) ==
  TrimSpace(IF IsPrefix(<<"Bearer", " ">>, header) THEN SubSeq(header, 3, Len(header)) ELSE header) = token

-----------------------------------------------------------------------------
(***************************************************************************)
(* Logins and tmux.                                                        *)
(***************************************************************************)
Login(t, env) ==
  /\ t \notin DOMAIN login
  /\ login' = [u \in DOMAIN login \cup {t} |-> IF u = t THEN env ELSE login[u]]
  /\ UNCHANGED <<files, tmuxVars, run>>

\* The shell ends; a client in it is detached.
Logout(t) ==
  /\ t \in DOMAIN login /\ (run.pc # "idle" => run.by # t)
  /\ login' = [u \in DOMAIN login \ {t} |-> login[u]]
  /\ attached' = attached \ {t}
  /\ UNCHANGED <<files, alive, global, session, panes, latest, run>>

\* The variables of update-environment are set, or marked as removed.
Updated(old, env) ==
  [v \in EnvVar |-> IF v \notin UpdateEnv THEN old[v] ELSE IF env[v] = "" THEN "-" ELSE env[v]]

\* The environment of a new pane.
PaneEnv(g, s) == [v \in EnvVar |-> CASE s[v] = "unset" -> g[v] [] s[v] = "-" -> "" [] OTHER -> s[v]]

NewSession(t) ==
  LET env == login[t]
      fresh == Updated([v \in EnvVar |-> "unset"], env) IN
  /\ t \in DOMAIN login /\ ~alive
  /\ alive' = TRUE /\ global' = env /\ session' = fresh
  /\ panes' = {PaneEnv(env, fresh)}
  /\ attached' = {t} /\ latest' = env
  /\ UNCHANGED <<files, login, run>>

\* A start that is being made notices: the source may be the one before or after.
Attach(t) ==
  /\ t \in DOMAIN login \ attached /\ alive
  /\ session' = Updated(session, login[t])
  /\ attached' = attached \cup {t} /\ latest' = login[t]
  /\ run' = IF run.pc # "idle" THEN [run EXCEPT !.moved = TRUE] ELSE run
  /\ UNCHANGED <<files, login, alive, global, panes>>

Detach(t) ==
  /\ t \in attached /\ (run.pc # "idle" => run.by # t)
  /\ attached' = attached \ {t}
  /\ UNCHANGED <<files, login, alive, global, session, panes, latest, run>>

NewPane(t) ==
  /\ t \in attached
  /\ panes' = panes \cup {PaneEnv(global, session)} /\ Cardinality(panes') <= MaxPanes
  /\ UNCHANGED <<files, login, alive, global, session, attached, latest, run>>

-----------------------------------------------------------------------------
(***************************************************************************)
(* A start.                                                                *)
(***************************************************************************)
\* At terminal t, in its login shell or in a pane; from: the environment of
\* the login it should be charged to.
Start(t, inTmux, env, existing) ==
  /\ run.pc = "idle"
  /\ IF inTmux THEN t \in attached /\ env \in panes ELSE t \in DOMAIN login \ attached /\ env = login[t]
  /\ run' = [pc |-> "load", by |-> t, inTmux |-> inTmux, env |-> env, existing |-> existing, devices |-> <<>>,
             source |-> "", from |-> IF inTmux THEN latest ELSE login[t],
             moved |-> FALSE, silent |-> FALSE]
  /\ UNCHANGED hostVars

Goto(l) == run' = [run EXCEPT !.pc = l]

\* Without a configuration Claude is started with the environment it has.
Load ==
  /\ run.pc = "load"
  /\ IF LoadLauncher(files.launcher)
     THEN \E m \in LoadDevices(files.launcher.devices) :
            run' = [run EXCEPT !.devices = m, !.pc = IF run.inTmux THEN "SSH_CONNECTION" ELSE "env"]
     ELSE run' = None
  /\ UNCHANGED hostVars

\* Where sourceIPFromTMUX goes on.
After(key) == IF key = "SSH_CONNECTION" THEN "SSH_CLIENT" ELSE "env"

Source(ip, l) == run' = [run EXCEPT !.source = ip, !.pc = IF ip # "" THEN "whois" ELSE l]

\* tmux show-environment; a variable that is not in the session, or removed
\* from it, is passed over.
AskTmux ==
  /\ run.pc \in {"SSH_CONNECTION", "SSH_CLIENT"}
  /\ Source(sourceIPFromSSH(session[run.pc]), After(run.pc))
  /\ UNCHANGED hostVars

\* tmux fails, or the 500 ms of both questions are over.
TmuxFails ==
  /\ run.pc \in {"SSH_CONNECTION", "SSH_CLIENT"}
  /\ run' = [run EXCEPT !.pc = After(run.pc), !.silent = TRUE]
  /\ UNCHANGED hostVars

\* The first address among the variables of an environment.
sourceIPFromVars(env) ==
  LET order == <<"SSH_CONNECTION", "SSH_CLIENT", "MOSH_IP">>
      n == SelectInSeq(order, LAMBDA v : sourceIPFromSSH(env[v]) # "")
  IN  IF n = 0 THEN "" ELSE sourceIPFromSSH(env[order[n]])

\* Mutant: what tmux said is not used.
ReadEnvFirst ==
  /\ run.pc \in {"env", "SSH_CONNECTION", "SSH_CLIENT"}
  /\ Source(sourceIPFromVars(run.env), "local")
  /\ UNCHANGED hostVars

\* The environment of the process.
ReadEnv ==
  /\ run.pc = "env"
  /\ Source(sourceIPFromVars(run.env), "local")
  /\ UNCHANGED hostVars

\* Claude is executed with the attributes of id, and its events arrive.
Execute(id, asked) ==
  LET sent == ResourceAttributes(id, run.existing)
      accepted == /\ LoadServer(files.server) /\ TrimRight(files.launcher.endpoint, "/") = CollectorURL
                  /\ authorized(Header(files.launcher.token), files.server.token) IN
  /\ run' = [start |-> run, sent |-> sent, accepted |-> accepted, id |-> id, asked |-> asked, pc |-> "done"]
  /\ UNCHANGED hostVars

ResolveLocal == run.pc = "local" /\ Execute(LocalIdentity(files.launcher), FALSE)

ResolveDevice == run.pc = "whois" /\ Execute(DeviceIdentity(run.devices, run.source), TRUE)

\* tailscale fails, or takes longer than 1.5 s.
WhoisFails == run.pc = "whois" /\ Execute(Fallback(run.source), FALSE)

\* The start that has ended is forgotten.  What happens to the logins while
\* it is not matters to nobody.
Forget == run.pc = "done" /\ run' = None /\ UNCHANGED hostVars

-----------------------------------------------------------------------------
Init ==
  /\ files \in Setup
  /\ login = <<>> /\ alive = FALSE /\ global = NoEnv /\ session = NoEnv /\ panes = {} /\ attached = {}
  /\ latest = NoEnv /\ run = None

Next ==
  \/ /\ run.pc # "done"
     /\ \E t \in Terminal :
          (\E env \in Origin : Login(t, env)) \/ Logout(t) \/ NewSession(t) \/ Attach(t) \/ Detach(t) \/ NewPane(t)
  \/ \E t \in Terminal, inTmux \in BOOLEAN, env \in Env, existing \in OwnAttributes :
       Start(t, inTmux, env, existing)
  \/ Load \/ AskTmux \/ TmuxFails \/ ReadEnv \/ ResolveLocal \/ ResolveDevice \/ WhoisFails \/ Forget

Spec == Init /\ [][Next]_vars

-----------------------------------------------------------------------------
(***************************************************************************)
(* What the properties suppose of a host and its configuration.            *)
(***************************************************************************)
\* Two names of a configuration are one to LoadLauncher.
TwoNames(devices) == \E d, e \in devices : d # e /\ normalizeDevice(d[1]) = normalizeDevice(e[1])

\* A device is known by the first of its names that is not blank.
NodeName == <<"ComputedName", "Name", "HostName", "Hostname", "DNSName", "Hostinfo">>
Given(node) == {i \in 1..6 : NodeName[i] \in DOMAIN node /\ TrimSpace(node[NodeName[i]]) # <<>>}
KnownAs(node) == {node[NodeName[i]] : i \in {i \in Given(node) : \A j \in Given(node) : i <= j}}

\* Owner is what a configuration without two names for a device says.
ASSUME OwnerAssumption ==
  \A f \in Setup, ip \in DOMAIN Whois :
    LET named == {d \in f.launcher.devices :
                    \E v \in KnownAs(Whois[ip]) : normalizeDevice(v) # <<>> /\ normalizeDevice(d[1]) = normalizeDevice(v)}
    IN  f.launcher # NoFile =>
          \/ TwoNames(f.launcher.devices)
          \/ named = {} /\ Owner[ip] = Unknown
          \/ \E d \in named : Owner[ip] = TrimSpace(d[2])

\* The launchers send to the collector.
Pointed == \A f \in Setup : f.launcher # NoFile => TrimRight(f.launcher.endpoint, "/") = CollectorURL

\* A text that has none of the codes in it, which are not escaped themselves.
NoCode(v) == ToSet(v) \cap {HexOf[c] : c \in DOMAIN HexOf} = {}

\* The names that the meter sends have none.
NamesArePlain ==
  /\ \A f \in Setup : f.launcher # NoFile => NoCode(f.launcher.local) /\ \A d \in f.launcher.devices : NoCode(d[2])
  /\ \A ip \in DOMAIN Whois : NoCode(normalizeDevice(firstName(Whois[ip])))

\* A client that attaches brings its connection into the session.
ConnectionIsUpdated == "SSH_CONNECTION" \in UpdateEnv

-----------------------------------------------------------------------------
\* Every variable has its type.
ATypeOK ==
  /\ files \in Setup /\ alive \in BOOLEAN
  /\ DOMAIN login \subseteq Terminal /\ \A t \in DOMAIN login : login[t] \in Env
  /\ global \in Env /\ latest \in Env /\ panes \subseteq Env
  /\ session \in [EnvVar -> Addr \cup {"", "unset", "-"}]
  /\ attached \subseteq DOMAIN login
  /\ run.pc \in {"idle", "load", "env", "local", "whois", "done"} \cup EnvVar
  /\ run.pc = "whois" => run.source \in DOMAIN Whois

\* A start that nobody disturbed: no client attached meanwhile, tmux answered.
Undisturbed == run.pc = "done" /\ ~run.start.moved /\ ~run.start.silent

\* What the collector reads of an attribute.
Recorded(key) == {a[2] : a \in {b \in Attributes(run.sent) : b[1] = <<key>>}}

\* A start over SSH, from an address without a zone, is recorded for the owner
\* of the device that the login came from, in a tmux session the login that
\* attached last, or for nobody; for nobody only if tailscale did not answer or
\* the device has no owner; for somebody else only if the configuration has
\* two names for the device (Resolve, sourceIPFromEnvironment, LoadLauncher,
\* ResourceAttributes).
NeverSomeoneElse ==
  LET ip == sourceIPFromSSH(run.start.from["SSH_CONNECTION"]) IN
  Undisturbed => (ip # "" =>
    /\ run.id.source = ip
    /\ \/ TwoNames(files.launcher.devices) /\ run.asked
       \/ Recorded("meter.person") = {IF run.asked THEN Owner[ip] ELSE Unknown})

\* "When there is no remote connection metadata, such as a hypervisor web
\* console" (README.md:76), a start is the local person's (Resolve).
LocalIsLocal ==
  Undisturbed => (run.start.from = NoEnv => run.id = LocalIdentity(files.launcher))

\* However attributes are nested and written, the events carry the identity
\* that was resolved, and each attribute of the user's own whose name does not
\* begin with "meter.", no more and no less (ResourceAttributes, otelEscape).
AttributesSurvive ==
  run.pc = "done" =>
    LET own == {a \in Attributes(run.start.existing) : a[1] = <<>> \/ a[1][1] \notin MeterKey}
    IN  Attributes(run.sent) =
          own \cup {<<<<"meter.person">>, run.id.person>>, <<<<"meter.device">>, run.id.device>>}
              \cup IF run.id.source = "" THEN {} ELSE {<<<<"meter.source_ip">>, <<run.id.source>>>>}

\* A collector accepts the launchers that were given its token, and no other,
\* whatever is in the token besides commas, blanks around it and codes of
\* characters, which the exporter reads as its own (main.go:109, authorized).
TokensMatch ==
  run.pc = "done" =>
    LET token == files.launcher.token IN
    "," \notin ToSet(token) /\ NoCode(token) /\ token = TrimSpace(token) =>
      (run.accepted <=> LoadServer(files.server) /\ files.server.token = token)
=============================================================================
