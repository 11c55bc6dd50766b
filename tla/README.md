# claude-meter in TLA+

claude-meter charges Claude Code usage to people. A launcher starts Claude Code
with OpenTelemetry switched on and the person's name in the resource attributes;
Claude Code exports its log events over OTLP/HTTP to a collector; the collector
decodes them, keeps one row per usage event in SQLite, and serves reports. This
directory holds TLA+ specifications of that program, TLC configurations that
check them on small instances, and TLAPS proofs of what matters most for every
instance.

Two sentences of the program's README carry most of the weight here: duplicate
deliveries are "deduplicated with a deterministic event key" (README.md:222), and
`retention_days: 0` keeps history forever. Around them stand the hard parts: one
SQLite connection shared by every goroutine, exporters that retry, handlers
nobody waits for at shutdown, and a process that can die at any step.

    tlc -workers 2 -config Store_safety.cfg MCStore     # the configuration of run store_safety
    tlapm StoreProofs.tla

## 1. Inventory of the system

### SQLite store (`internal/store`) - modelled: `Store`, `UsageLog`, `Reports`
*State*: the table `usage_events` with `event_key UNIQUE`; one connection
(`db.ptr`, opened FULLMUTEX) with its open transaction, its `sqlite3_changes`
counter and its prepared statements; `Store.mu`.
*Operations*: `Open` (pragmas, migrate), `Insert`, `Prune`, `Totals`, `ByPerson`,
`ByAccount`, `History`, `Ping`, `Close`.
*Interaction*: called by every HTTP handler, by the pruner, and by `main` at
start and end.
*Hard*: `Insert` keeps the mutex from `BEGIN IMMEDIATE` to `COMMIT`/`ROLLBACK`, but
`query()` (query.go:134) gives it back as soon as the statement is prepared. The
report is stepped later without it, on the connection in which an `Insert` may have
an open transaction: reports read uncommitted rows. Any SQLite call may
fail; the rollback is in a `defer`; `changes()` is read after the step. Times are stored as
texts whose order differs from that of the times within a second.
*Correct when*: no transaction outlives its call; a batch is stored whole or not
at all; one row per key; the returned count is exact; rows leave by retention
only; every call returns.

### OTLP decoder (`internal/otel`) - modelled: `Otlp`, `Delivery`
*State*: none. `Decode` maps request bytes and the time of arrival to events.
*Hard*: the encodings of numbers in OTLP/JSON, attributes stated twice or in
resource and record, the order of fallbacks for the event's time, and the
deterministic key that deduplication rests on.
*Correct when*: one event per metered record with the last stated value, numbers
as sent, and a key that does not depend on when the request arrived.

### HTTP collector (`internal/server`) - modelled: `Collector`, `Reports`
*State*: none of its own besides the configuration; per request a goroutine.
*Operations*: `ingestLogs` (authorize, read at most 5 MiB, decode, insert, answer),
`dashboard`, `summaryAPI`, `historyAPI`, `health`, `RunPruner`.
*Hard*: an answer lost after the commit; an abandoned handler that goes on and
commits next to the retry; four separate queries behind one dashboard page.
*Correct when*: what was answered 200 is kept; a request is stored whole; a request
delivered several times counts once; a persistent exporter gets through; a page counts what was
stored all the time and nothing that never was.

### Collector process (`cmd/claude-meter serve`, `deploy/systemd`) - modelled in part
Start, signal, `httpSrv.Close` (does not wait for handlers), the deferred
`Store.Close`, exit, restart by systemd (`Restart=always`). In `Store` and `Collector`.

### OTLP exporters - external, modelled as clients in `Collector`
They live inside Claude Code. `main.go` configures them by environment variables
only. The model assumes no more than OTLP/HTTP does: a client sends, waits, may
time out, may send the same request again, may give up.

### Wrapper, launcher and resolver - modelled in part: `Launch`
The *wrapper* `/usr/local/bin/claude` (written by `scripts/install-launcher.sh`) picks the newest
version in the recorded directory and executes the meter with it as the fallback, or the
binary itself if there is no meter. The *launcher* (`main.go`: launch, parseLaunchArgs,
execClaude) takes its own options off, loads the configuration, resolves the binary and executes
it with metering switched on; whatever fails, `execClaude` resolves the fallback and executes
it without. The *resolver* (`internal/claude`) tries the versions next to the configured
and the fallback binary, newest first, then these two, then the saved copies, and refuses
whatever leads back to the wrapper or the meter.
*State*: the files, which Claude's own updater changes at any time; the stage of a start.
*Hard*: files are tested in one step and executed in a later one; links lead back to the wrapper; the
comparator mixes numbers and texts; the user's arguments may look like the launcher's.
*Correct when*: a start fails only without a binary (README.md:54); it runs the newest version
(README.md:103), with the user's arguments (README.md:94); wrapper and launcher never
execute each other for ever.

### Configuration and identity (`internal/config`, `internal/identity`) - modelled: `Attribution`
*State*: the two configuration files; outside of the program the logins, the environments of
their shells, and tmux with its global and session environment, its panes and its clients.
*Operations*: `LoadLauncher`, `LoadServer`, `normalizeDevice`; `Resolve` (tmux, then the process's
environment, then whois), `ResourceAttributes`; the collector's `authorized` at the other end.
*Hard*: a pane outlives the login that opened it; two questions to tmux with a client attaching in
between; variables that tmux reports as removed; device names cut to their first label; attributes
inherited from an outer Claude; names with the separators of the variable they are written to.
*Correct when*: a start is charged to the owner of the device it came from or to nobody.

### Installation and repair (`scripts/`) - modelled in part: `Repair`
*State*: what is at the paths that decide what "claude" starts; `/etc/claude-meter/*`; the units.
*Operations*: `install-launcher.sh`, `repair-launcher.sh` (by hand, timer and path unit), Claude's own updater.
`install-server.sh` copies files and is not modelled.
*Hard*: a script may end at any command, also inside of a write; two repairs and the updater at a time;
the installer meets several layouts of Claude.
*Correct when*: what is on the PATH starts a Claude; what is recorded as the real Claude is one;
a replaced shim is restored.

### Dashboard front end (`internal/web`) - not modelled
Presentation: the template, the style and `app.js`. What the page links to and promises (`index.html:108`, "Latest 100
events", `index.html:147`) is compared with the reports in `Reports`.

Every hazard found is listed with its line in `PROJECT.json` under `hazards`, with the
properties that cover it or the reason none does yet.

## 2. Modules

| Module | What it is |
|---|---|
| `UsageLog` | Abstract promise of the store: whole batches, unique keys, expiry of the oldest rows only. |
| `Store` | The store with its goroutines, lock, transaction, statements, failures and process life. |
| `Otlp` | The decoder as constant operators. |
| `Delivery` | One request delivered again and again to the decoder; the reference reading of the format. |
| `Collector` | Exporters + `ingestLogs` + decoder + store + process. EXTENDS `Store` and `Otlp`. |
| `Launch` | Wrapper, launcher and resolver during one start, next to Claude's updater. |
| `Reports` | The pages and the API: ranges, filters, aggregates, the history, while rows are stored and pruned. |
| `Attribution` | Logins, tmux, configuration, identity and attributes: whose usage a start is. |
| `Repair` | The installer, two runs of the repair and Claude's updater, command by command. |
| `StoreProofs` | Inductive invariant of `Store`, its safety properties, refinement of `UsageLog`. |
| `CollectorProofs` | `Collector` behaves as `Store`; acknowledged requests are kept; rows come from requests with the token; a request is stored whole or not at all, and counts once. |
| `DeliveryProofs` | The decoder against its reference reading, for any requests: the records in their order, texts, numbers, keys. |
| `LaunchProofs` | All safety properties of `Launch`: what may make a start fail, the newest version, metering, no way back, the arguments. |
| `ReportsProofs` | Inductive invariants of `Reports`: every answer of the reports, and the pruning. |
| `RepairProofs` | Inductive invariant of `Repair`: what is on the PATH starts a Claude, what is recorded as the real one is one. |
| `AttributionProofs` | Types, tokens and attributes of `Attribution`, and whom a start belongs to. |
| `Induction` | Induction over numbers, finite sets and sequences, recursion, sums, folds and extrema, for the proofs. |
| `MCStore`, `MCDelivery`, `MCCollector`, `MCLaunch`, `MCReports`, `MCAttribution`, `MCRepair` | Instances for TLC. |

### Store
`disk` is what is committed and survives the process; `view` is what any statement of the
connection reads. They differ only inside a transaction. `inTx`, `changes`, `stmts`
(handlers with a live statement) and `open` complete the connection. `mu` is the
holder of `Store.mu`; `pc[g]` is where goroutine g is.

| Code | Actions |
|---|---|
| `Insert` entry: empty batch, done context | `InsertCall` |
| `mu.Lock`, `BEGIN IMMEDIATE` | `Begin`, `BeginFails` |
| `prepare` | `Prepare`, `PrepareFails` |
| loop: context check, bind, step | `InsertRow`, `InsertRowFails` |
| `inserted += changes()`, reset | `Count` |
| `COMMIT` and the defers | `Commit`, `CommitFails` |
| the defers on an error | `Undo` |
| `query()` | `QueryCall`, `QueryPrepare`, `QueryPrepareFails` |
| stepping a report | `TotalsStep`, `PageStep`, `PageDone`, `StepFails` |
| `Prune` | `PruneCall`, `Prune`, `PruneFails` |
| `main`: signal, `Store.Close`, exit or crash, restart | `Shutdown`, `CloseStore`, `Exit`, `Open` |
| environment | `Cancel`, `Return`, `Tick` |

A step of the model is as fine as the code's interleaving: one row of a batch, one row
of `History`, the read of `changes()` apart from the step before it. `Begin` is one
step with the lock because nobody can act between the two. A failing SQLite statement
in a transaction may have rolled it back by itself (I/O errors and a full disk do) or not;
both outcomes are there. `Prune` computes its cutoff before it asks for the mutex. `Exit` is
possible in every state: the deferred end of `main` and a crash at any step.
Times are integers here; their texts are the matter of `Reports`.

### Otlp and Delivery
A request is a sequence of resources with attributes and scopes of records. A JSON scalar
is a record of its kind, text and number, so that every encoding the decoder tells apart is
there. Conversions of text to numbers and back (`ParseInt`, `ParseFloat`, `FormatFloat`,
time parsing) are constants: functions from the texts of an instance to numbers. Amounts are
counted in units of a tenth of a micro-dollar, so that rounding is visible. `MaxInt64` is
small in the instance, so that the range check can fail, and so that a float may lie outside of the range: what its conversion yields then, Go leaves to the
processor (`TooLarge` is either end of the range). SHA-256 and the join with `|` are
taken to be injective: the key is the tuple of what is hashed. `Delivery` states what a reader
of OTLP would expect without the decoder's maps - by places of records and the last attribute
with a key - and compares it with `Decode`. Amounts are exact decimals here; what the
product of two doubles loses is not in the model.

### Collector
Each exporter holds one request. `conn[h]` is the exporter served by handler h, `gone` the
handlers whose client no longer waits, `exp` the exporters' states. `Reject`, `Ingest`, `Respond`
and `ReadFails` are the paths of `ingestLogs`; `Work` and `Fail` are the steps of `Insert`,
the latter charged to the fault budget. `Timeout`, `Notice`, `GiveUp`, `Stop` and `End` are
the network and the process. A handler abandoned by its client runs on. The reports take no
part here: in `Store` they are shown to leave the table and the mutex alone.

### Launch
`pc` is the stage of the start, `mode` the code that is about to execute something: the wrapper
("shell"), `launch`, or `execClaude`, which resolves again and executes without metering.

| Code | Actions |
|---|---|
| wrapper: `REAL_CLAUDE` | `Choose` |
| `-x` tests of the wrapper, loop of `Resolve` | `Try`, `NoneLeft` |
| `EvalSymlinks` of the candidate that is valid | `Resolve` |
| `exec`, `syscall.Exec` | `Exec`, `ExecFails` |
| `parseLaunchArgs`, one turn of its loop | `Parse` |
| `launch` up to the identity | `Load` |
| `Resolve`: collecting the candidates | `Scan` |
| Claude's updater (external) | `Install`, `Complete`, `Delete` |
| updater and repair (external): `mv -Tf` of the shim | `Relink` |

A file is absent, plain, executable, or "busy": it has the execute bits but execve fails on it, as it does
on a file that is still being written. The updater may act between any two steps.
`steady` remembers which files could be executed all the time; the properties speak
of these only. `cands` are the candidates that are left and `seen` those that were passed over: the program keeps one
list without duplicates, the model skips a path that it has seen. Paths are texts without blanks; the numbers in a name, its rank among texts
and its rank for `sort -V` are constants of the instance, as are links except those that somebody moves (`Movable`, the shim in `~/.local/bin`):
updater and repair may move these between any two steps, also between the test of a candidate and the second look at its links, after which the launcher
executes what it finds. `reentries` counts how often that was the wrapper, `moves` the links moved. The reading of a directory is one
step, and so is the wrapper's search. `versionCandidates` sorts by insertion, which is what Go's `sort.Slice` does with up to
twelve elements; with more of them the order is the same for names that are versions, whereas names of both kinds are not ordered by the
comparator in a way that determines it. `SortAssumption` therefore allows names that are no numbers in a directory of at most twelve entries only. An argument is the option it is to the launcher, its text, and what follows
its "="; both spellings of an option (one dash, two) are one. What the identity is, and the environment that
`setEnv` builds, is left to `Attribution`; here a start is metered or it is not.

### Reports
`view` is the table as the connection reads it, `dirty` the part of it that is not committed (see `Store`).
`at` is the report a handler is about to read, `query` its range, person and limit, `answer` what it has so far.
`steady` and `ever` remember which rows were in view all the time, and at some time, since the request arrived.

| Code | Actions and operators |
|---|---|
| `dashboard`, `summaryAPI`, `historyAPI` up to their first query | `Request`, `normalizeRange`, `rangeStart`, `Limit` |
| `whereClause` | `whereClause`, `TextLess` |
| `Totals`, `ByPerson`, `ByAccount` | `ReadTotals`, `ReadPeople`, `ReadAccounts`, `Aggregate` |
| `History`, a row a step | `HistoryStep`, `HistoryDone` |
| a query that fails, a client that leaves | `QueryFails` |
| `Insert`, as far as reports see it | `Insert`, `Commit`, `Rollback` |
| `Prune` with the width of `time.Duration` | `Prune`, `Cutoff`, `Wrap` |

A time is a number of ticks, `Base * Base` of them in a second, so that a fraction has two digits and a trailing zero may be
dropped. A grouped report reads all of its rows in its first step, History moves down the index of the
times row by row. History lists each row once in the model; in the program a row that is pruned and
delivered again exactly where the cursor stands could be listed twice. Cost stands for every summed column.

### Attribution
`login`, `alive`, `global`, `session`, `panes`, `attached` are sshd's and tmux's; `latest` is the environment of the client
that attached last, which is who the start belongs to. `run` is one start.

| Code | Actions and operators |
|---|---|
| `LoadLauncher`, `LoadServer`, `normalizeDevice` | `Load`, `LoadDevices`, `LoadServer`, `normalizeDevice` |
| `sourceIPFromTMUX`, a question at a time | `AskTmux`, `TmuxFails` |
| `sourceIPFromEnvironment` | `ReadEnv` |
| `Resolve`: local, whois, fallback | `ResolveLocal`, `ResolveDevice`, `WhoisFails` |
| `ResourceAttributes`, `setEnv`, `authorized` | `Execute`, `ResourceAttributes`, `otelEscape`, `Header`, `authorized` |
| sshd, tmux (external) | `Login`, `Logout`, `NewSession`, `Attach`, `Detach`, `NewPane` |

A text is a sequence of words and separators; the exporter's decoding is external and inverts the percent signs. It does so with both variables that the
launcher writes: the attributes, which `otelEscape` prepares for it, and the headers (main.go:109), which nothing prepares, so that a token with a comma or a code arrives as
another (`Header`). `MeterKey` are the names that begin with "meter.", all of which `ResourceAttributes` takes off, the user's own `meter.team` too. What
`strings.Split` and `strings.Join` do to the attributes is a fold (`Split`, `Joined`), and so is the loop that leaves the meter's keys out (`Kept`).
A configuration file stands for what the `CLAUDE_METER_*` variables leave of it. `LoadDevices` yields every map that the loop
over a Go map may end with. `claude_binary` is required like the token, and the node ID is written like the source.
`otelEscape` leaves a percent sign alone: a name that has one of the codes in it ("100%20") reaches the collector decoded. Such names do
not occur in the instance, and `NamesArePlain` excludes them from the theorem.
`KnownAs` says by which of its names a device is known, without `firstName`; `Owner` is what the configuration says of that name.
`MCHypotheses` has TLC evaluate all that the theorems suppose of the instance besides the assumptions, as `MCStamped` does for `Collector`.

### Repair
`fs` is what is at each path: nothing, a file that is a Claude, the wrapper or half-written, or a link. `conf` is
`/etc/claude-meter` and whether the units are enabled. `inst` is the installer with its variables, `rep` the two runs of
the repair: the service, which systemd starts only once at a time, and the direct call at the end of the installer.

| Code | Actions |
|---|---|
| install-launcher.sh: what is on the PATH | `Begin` |
| the copy, the files in `/etc/claude-meter` | `Copy`, `RecordReal`, `RecordDir`, `RecordShim`, `RecordBinary` |
| `cat >/usr/local/bin/claude`, `chmod` | `Truncate`, `Write`, `Chmod` |
| `rm -f`, `ln -s`, the units and the repair | `RemoveShim`, `LinkShim`, `Enable` |
| repair-launcher.sh: the tests | `Test`, `ReadLink`, `TestAgain` |
| `cp -f` | `CopyBegins`, `CopyEnds` |
| `write_real`: redirection, `printf`, `mv -f`, for each of its two files | `Open`, `Fill`, `Rename` |
| `ln -s`, `mv -Tf` | `Replace` |
| ends of scripts | `InstallerKilled`, `Torn`, `RepairKilled` |
| systemd, the updater (external) | `Timer`, `Updater` |

`tmp` is `real-claude.tmp` and `versions-dir.tmp`, whose names both runs of the repair use: a redirection empties what the other run has written, a rename takes along
the file that the other has open, which then writes into the record itself (`Moved`, `at`), and a `chmod` or `mv` that finds nothing ends its run. A text written over
a longer one leaves the end of that (`Broken`: the resulting text is taken to be no path, and to lie in no versions directory).

`happened` remembers which of four disturbances there have been: an installation that ended inside of a write ("torn"),
an installation that met a layout it overwrites ("overwritten"), an updater that put a regular file at the shim ("regular"), and a repair that put
`real-claude.tmp` in place while it was empty ("emptied"). The properties name the ones that they do not survive. Whom the wrapper would execute is taken from `Launch` in short. The link to the meter is not modelled,
nor is the second argument of the installer; when Claude has no versions directory, `launcher.json` keeps the binary
of the first installation, and it goes first as long as it exists. `Chosen` is the first valid candidate of the launcher.
The layouts that an instance may start from (`WorldAssumption`): every file is a Claude, one of them is on the PATH, there are links only at the shim
and at the wrapper's place, the latter only to an installation elsewhere, and the meter's own directory is empty.

## 3. Runs

| Run | Shows | States (distinct) |
|---|---|---|
| `store_safety` / MCStore | `NoOrphanTransaction`, `DirtyRowsAreInFlight`, `KeysAreUnique`, `NoUseAfterClose`, `InsertedIsExact`, `ImplementsUsageLog` | 2.09 M |
| `store_liveness` / MCStore | `CallsReturn`: every call returns | 185 k |
| `delivery_decode` / MCDelivery | `DecodeIsFaithful`, `NumbersAreExact`, `KeysAreStable` over 4104 requests | 12 312 |
| `collector_safety` / MCCollector | `AckedIsStored`, `WholeRequests`, `NoDoubleCount` | 856 k |
| `collector_liveness` / MCCollector | `EventuallyAcked`: a persistent exporter is answered 200 in the end; `HistoryIsPermanent`: with retention 0 nothing ever removes a committed row | 78 k |
| `collector_unstamped` / MCCollector | violation of `NoDoubleCount` for a record that states no time | 10 k at the violation |
| `launch_starts` / MCLaunch | `MeterNeverPrevents`, `ReentryCostsMove`, `StartsNewest`, `ArgsUntouched`, `MeteredUnlessBroken`, `StartEnds`: no start goes round for ever | 504 k |
| `reports_safety` / MCReports | `TotalsToTheSecond`, `ListsAreComplete`, `PersonPageAgrees`, `HistoryToTheSecond`, `PruneToTheSecond` | 786 k |
| `attribution_safety` / MCAttribution | `NeverSomeoneElse`, `AttributesSurvive`, `TokensMatch` | 550 k |
| `attribution_console` / MCAttribution | violation of `LocalIsLocal` in a pane that was opened over SSH | 17 k at the violation |
| `repair_installs` / MCRepair | `ClaudeStartsOtherwise`, `RealIsNotWrapper`, `RepairRecordsClaude`, `ShimRestored`: a replaced shim is restored in the end | 717 k |
| `repair_npm` / MCRepair | violation of `ClaudeStarts` by installing over an npm layout | 14 at the violation |

*Bounds.* Two handlers are enough for every interleaving of `Insert` with `Insert`, with a
report and with the pruner; more handlers only queue at the same mutex, and the proofs cover
any number. Three rows, two of which share a key, give an ignored insert, a batch that
repeats itself, two batches that overlap, and an empty batch. The clock runs to 2 with retention 1, so
that the first rows expire and the last do not. `PageLimit` 2 lets `History` stop at its limit
and before it. In `Collector` e1 and e2 deliver overlapping requests, e3 has a wrong token;
`MaxFaults` 2 allows a fault and another during the recovery from it (for instance: the
answer is lost, and the process dies while the retry is in its transaction). Unbounded counters
do not occur: `next` and `inserted` are bounded by the batch. Handlers are symmetric in the
safety runs; no symmetry is used with liveness.
`Launch` starts from every combination of absent, plain and executable files. Three versions
(2.1.9, 2.1.10, 2.1.11) are enough for texts and numbers to disagree and for a version between the chosen
and the newest; three changes delete a candidate, delete the one tried next and install another,
write, complete and delete one, or move the shim away from the wrapper, back to it after the test, and away again. One configuration names a version, another the shim,
which at first leads to the wrapper or to any version.
The user's arguments include "--", each option of the launcher with a value and an option without one.

`Reports` has a row on each side of the start of the range, by less and by more than a second, one of another kind
and one without a person; batches overlap. Four ticks make a second and two seconds a day, so that 24 h, 7 d and 30 d differ.
The limits lie below, at and above those of the code. Two clock values let a range start between two rows after the request.
`Attribution`: two terminals, so that one is attached while another attaches; two panes, opened before and after it;
two devices that call themselves alike and whose tailnet names differ; a start inherits an outer identity or nothing.
`Repair`: four layouts of Claude (a native installation, Claude itself at the wrapper's place, Claude itself at the shim, and npm's link at the wrapper's place next to an installation of the user's own); two installations, so that one finds what another has left; one step of the updater and one killed repair, each
at any point of two repairs that run at a time.

*Deadlock* is checked in the store, reports and attribution runs. It is off in the `Delivery` runs, where the exporter
stops at `MaxTime`, and in the `Collector` runs, where all exporters can be finished, the clock at
its bound and the fault budget used up, in the `Launch` run, where a start ends, and in the `Repair` runs, where installations, updates and kills are bounded.

*Fairness.* `store_liveness`: a goroutine that can take a step takes it (weak
fairness of `Proceed`), and a goroutine that waits for the mutex gets it in the end (strong fairness of
`Acquire`): Go's `sync.Mutex` turns to FIFO hand-over when a waiter has waited for 1 ms. The
liveness of `Collector` adds that `main` finishes its shutdown, that systemd starts the service again
(`Restart=always` in the unit) and that an exporter which is ready gets a goroutine (net/http starts one
per connection; `Handler` is only a bound of the model). Nothing is assumed about failures except
that there are finitely many.
`launch_starts`: the shell and the launcher are running processes, so a step that is possible is taken; the
updater owes nothing. `repair_installs`: the timer in the unit file starts the service again and again, and a script that
runs goes on; there are at most `MaxKills` killed repairs. Installer and updater owe nothing, so the shim is restored also when the installer
never ends. A fair behaviour may crash at any point; nothing forces it to.

Each property of a passing run has a mutant in `PROJECT.json`: a plausible bug in the code
it speaks of (no UNIQUE constraint, ROLLBACK forgotten, mutex not released, `changes()` replaced
by a constant, pruning without the retention test or without the mutex, resource attributes that override the
record's, arrival time in the key, an error answered with 200, a token that is not compared, a comparator
of texts, links that are not resolved before they are refused, parsing that goes on behind "--", a list that
fails quietly, a filter that is left out, tmux not asked, a regular file left alone by the repair, ...) under
which TLC finds the property violated.

## 4. What the runs found

Three promises fail, each in a run of its own:

1. **An event without a time is counted twice** (`collector_unstamped`). `eventTime`
   (otlp.go:262) falls back to the time of arrival, and `makeEventKey` (otlp.go:285) puts it
   into the key. When the answer is lost and the exporter retries, the second delivery has
   another key. README.md:222 promises deduplication of deliveries without a condition.
   `KeysAreStable` shows that a stated time is all it takes.
2. **The console is charged to a device** (`attribution_console`). Somebody opens a tmux pane over SSH; later somebody attaches from the
   console. tmux says that `SSH_CONNECTION` is removed, `sourceIPFromTMUX` passes on, and the environment of the process
   (tailscale.go:69), which the pane was started with, still has it. README.md:76 charges such starts to the local person.
3. **Installing over npm's layout leaves no Claude** (`repair_npm`). `cat >/usr/local/bin/claude` (install-launcher.sh:44) follows
   the link that npm has put there and writes the wrapper over Claude itself, whose path has just been recorded as the real Claude.

Other promises hold with an exception, and the properties name it:

| Property | Exception | Where |
|---|---|---|
| `NumbersAreExact` | a cost that comes as an OTLP `intValue` is recorded as 0; one beyond the range of int64 is recorded as an end of the range, on amd64 the negative one | otlp.go:237, :239, :242 |
| `MeterNeverPrevents` | a file that the wrapper or `execClaude` found to be executable is gone, still being written or corrupt when it is executed: nobody tries the next candidate, although there may be one that works. Otherwise a start fails only if neither the binary that the wrapper wanted nor one of the two copies was there all the time | main.go:165 |
| `StartsNewest` | names that are no versions: 2.1.5-beta is preferred to 2.1.10; a version to which a link has been moved in between | resolve.go:99, :34 |
| `ReentryCostsMove` | README.md:103 says that the launcher "avoids resolving back into its own wrapper": it does execute it if the shim is moved to the wrapper after the test, once for each such move | resolve.go:34 |
| `PersonPageAgrees` | events without a person are listed as `unknown`, and the page of that name leaves them out | query.go:24, types.go:67, index.html:108 |
| `HistoryToTheSecond` | "Latest 100 events" is not exact within a second: 12:00:00Z comes after 12:00:00.1Z | query.go:75 |
| `PruneToTheSecond` | `PruneIsSound` assumes that the retention fits `time.Duration`; above 106751 days the cutoff wraps | query.go:100 |
| `NeverSomeoneElse` | two configured names with the same first label, of which either may prevail; an SSH address with a zone, which is taken for no address at all | config.go:71, tailscale.go:109 |
| `TokensMatch` | a token with blanks around it matches nothing; the headers variable carries a token with a comma only up to that, and one with the code of a character decoded | server.go:192, main.go:109 |
| `AttributesSurvive` | any attribute of the user's whose name begins with "meter." is taken off, not only the meter's own four | tailscale.go:175 |
| `ClaudeStartsOtherwise` | besides npm's layout, a regular file on the PATH is removed although it is Claude; an installation that ended inside of a write, or a repair that put an empty record in place, may lead the next one to save the wrapper as Claude | install-launcher.sh:73, :24, repair-launcher.sh:10 |
| `RealIsNotWrapper`, `RepairRecordsClaude` | the repair tests the shim and copies or resolves it in later commands; the service and the installer's own run are not kept apart, so that with a regular file at the shim one of them may record as Claude what the other has replaced by the wrapper | repair-launcher.sh:27 |
| `RealIsNotWrapper` | README.md:194 says that the installer keeps the original path of Claude. Both runs of the repair write `real-claude.tmp` and rename it: `mv` may put it in place just after the other's redirection has emptied it, and `real-claude` is empty until the other has written, or for good if that is killed. An installation that looks at it meanwhile finds the wrapper on the PATH and nothing recorded, saves the wrapper as `claude-real` and records that. With `happened \subseteq {"emptied"}` in place of `happened = {}` TLC finds this, with nobody killed | repair-launcher.sh:10, install-launcher.sh:18 |
| `RepairRecordsClaude` | npm's link at the wrapper's place and the user's own shim: installed once, the wrapper is in npm's file; when the updater links the shim to `/usr/local/bin/claude`, `readlink -f` is not that path, and the repair records npm's file, that is the wrapper. An attempt at the proof found it | repair-launcher.sh:23 |
| `ShimRestored` | an installation that ended while it wrote `claude-shim` leaves the repair without a shim for ever | install-launcher.sh:35 |

## 5. Proofs

Assumptions on the constants (each evaluated by TLC on every run of its module):
`RoutineAssumption` (the pruner is not a handler, `Free` is neither), `RowAssumption` (times are
integers), `BatchAssumption` (batches are sequences of rows), `BoundAssumption`; for the
collector `ExportAssumption`, `DecodedAssumption` (what decoding yields is a batch) and
`KeyTimeAssumption` (equal keys have equal times, as `makeEventKey` hashes the time); for the launcher
`PathAssumption` (there are finitely many paths, links and saved paths are paths, none of them empty, and the meter's own paths are in no versions
directory), `LinkAssumption` (no fixed link leads through one that is moved, and these are neither versions nor the meter's own paths), `SortAssumption` (at most twelve entries in a
directory with names that are no numbers), `NameAssumption` (names within a directory differ; for names that are versions `sort -V` orders by their numbers) and `ArgAssumption`
(arguments are arguments);
for the decoder `NumeralAssumption`, `DecimalAssumption` and `InstantAssumption` (what the library reads in a text is a number), `WidthAssumption`
(`MaxInt64` is a natural number, `TooLarge` one of the two ends of the range) and `RequestAssumption` (the arrays of a request are sequences and the scalars of its attributes carry numbers: the types
that `json.Unmarshal` fills; whatever else a request has is left open);
for the reports `TimeAssumption`, `LimitAssumption` (the default limit lies within the maximum) and `EventAssumption` (batches are finite and of
events, whose times and costs are natural numbers); for the repair `PathAssumption` (its paths are distinct), `WorldAssumption` (the layouts before
the first installation, section 2) and `BoundAssumption`; for the attribution `EnvAssumption` (addresses and variables), `TextAssumption` (names, tokens and
attributes are texts), `EscapeAssumption` (the code of a character is one word, and determines the character; the program's own words and addresses have none) and `OwnerAssumption` (the owner of a device is who the configuration
names for it, unless two of its names are one). Hypotheses that a theorem has beyond these are named with it.

`Induction` has what the other proofs share: a set of numbers with zero and successors is all of them, some numbers have
a least one, finite sets can be built up an element at a time, recursion over them has a solution, their sums do not depend on the order;
sequences can be built up an element at a time, and `FoldLeft` takes one step for each. The library's theorems of this kind
take an operator as a parameter, which the provers cannot instantiate; these take a set or a function instead and
rest on `WFMin`.

`StoreProofs`, for any handlers, rows, batches, retention and clock bound:

- `Invariance`: `Spec => []IInv`. None of the safety properties is inductive. That a
  batch is committed whole needs to know at every step of the loop which rows were stepped
  (`LoopInv`), that the rows beyond the committed ones are theirs and that their keys are all
  there (`DirtyInv`); that in turn needs the transaction to belong to the holder of the mutex
  (`LockInv`, `TxInv`); that Close cannot pull the connection from under an Insert needs `StmtInv`;
  the exact count needs the cardinalities of both tables along the loop (`CountInv`); expiry of
  the right rows needs that the cutoff computed before the lock is still in the past when
  the DELETE runs (`PruneInv`). One lemma per action; `StillTxKeeps` does the part that is common
  to all steps that leave tables and mutex alone.
- `TypeCorrectness`, `NoOrphan`, `DirtyReadsAreBounded`, `KeyUniqueness`, `ClosedIsQuiet`: consequences of `IInv`.
- `InsertCount` and `Permanence`: action properties from the same invariant.
- `Refinement`: `Spec => ImplementsUsageLog`; `Commit` is `Record`, `Prune` is `Expire` (no transaction
  is open then, since the mutex is free), `Tick` is `Tick`, and the rest leaves `disk` alone.

`CollectorProofs`, for any exporters, requests, decoder and fault bound:

- `Composition`: `CSpec => Spec`. Every step of the composition is a step of the store or leaves
  it alone, so all of the above holds of the collector.
- `AckedIsKept`: `CSpec => []AckedIsStored`. `CInv` adds `ServeInv`, which follows a request through its
  handler: what `Insert` works on is what the request decodes to, and when it has succeeded the
  rows are kept. `KeptIsStable` shows that a kept row stays kept under every step of the store: the pruner
  removes by the time of the row, and equal keys have equal times.
- `CTypeCorrectness`.
- `CountedOnce`: `CSpec => []NoDoubleCount`, if the events of each request state their times (`StatesTimes`). The time of arrival reaches an event by `eventTime` only, so such a
  request decodes to the same events whenever it arrives (`SameEvents`). Without the hypothesis it is false: section 4.
- `RequestsAreWhole`: `CSpec => []WholeRequests`. `WInv` adds to `CInv` that whoever is in `Insert` serves an exporter
  that has shown the token (`BearerInv`), since only `Ingest` enters it. What the connection sees grows by `InsertRow` only
  (`ViewStep`), by a row of such a request; the committed table grows by `Commit` only, when the loop has stepped every row of the batch and
  its keys are all there (`DirtyInv`).

`DeliveryProofs`, for any requests, however nested, and any conversions of the library:

- The invariant is small (`DInv`: the events are those of the request, as of its last arrival); the work is in what `Decode` computes, which
  nests two concatenations and a filter. `Lists` relates a sequence to the set of places it has the values of: each place once, in the order of the request
  (`Before`). A list follows a list (`ListsJoin`), a concatenation row by row is a list of all the places if rows come in order (`FlattenLists`, an induction over
  what `FlattenSeq` has put together, `FlattenSteps`), and so is what a filter keeps (`FilterLists`). Applied to scopes, resources, the request and the
  metered records (`ScopeListed`, `ResourceListed`, `RecordsListed`, `MeteredListed`), and since the n-th of a list is the one place with n - 1 before it
  (`ListCounts`), the n-th event is made of the n-th metered place (`DecodeIs`).
- `DecoderIsFaithful`: `Spec => []DecodeIsFaithful`, with `OwnPrevail`: two maps laid over each other read as the last statement in the resource's attributes followed by the
  record's own.
- `DecoderIsExact`: `Spec => []NumbersAreExact`, by the encodings (`WholeIs`, `AmountIs`), for whatever width, with every rounding of a non-negative amount and with both
  conversions of a float beyond the range.
- `KeysStay`: `Spec => KeysAreStable`. The time of arrival enters an event by `eventTime` only (`EventStays`), and a metered record is at a metered place.

`LaunchProofs`, for any files, links, versions and arguments:

- `ReentriesArePaid`: `Spec => []ReentryCostsMove`. A candidate that was valid leads to the wrapper at its second look only if its link has been moved since;
  `PaidInv` adds that such a candidate has a move of its own, beyond those that earlier executions of the wrapper have used up.
- `ArgsReachClaude`: `Spec => []ArgsUntouched`, assuming that the launcher is called by the wrapper
  (`DirectStarts = {}`). `ArgsInv` says what is left of the wrapper's five arguments before the user's at each
  turn of the parser; the lemma `Unwrap` takes them off, and `ParseKeeps` shows that
  the "--" of the wrapper is reached before anything of the user's is looked at.
- `StartTypes`: `Spec => []TypeOK`, from `LInv`, which all of the following share.
- `MeteringPreventsNothing`: `Spec => MeterNeverPrevents`. Who gives up has passed over every candidate. `LInv` says that what was passed over
  could not be executed all the time (`SeenInv`), and that the binary which the wrapper wanted and the two copies are among what was passed over and
  what is left, for the wrapper and for `execClaude` (`WantedInv`, `FallbackInv`).
- `NewestStarts`: `Spec => []StartsNewest`, assuming that no fixed link leads to a version through a link (`Resolved`: the installer saves what `readlink -f`
  returns) and that a saved version is one of the saved directory (`SavedTogether`: the installer writes both). The comparator is a strict order of the names that are
  versions (`Comparator`), so an insertion keeps every two of them in order, whatever other names lie between them (`InsertKeepsOrder`, `SortSorts`, `VersionList`). `ListInv`: what is left
  of the candidates is so ordered, and a version that was there all the time and was passed over is not newer than what is left; `ChoiceInv` says the same of the wrapper's choice.
- `MetersUnlessBroken`: `Spec => []MeteredUnlessBroken`; `MeterInv` says that as long as the updater has done nothing every test is still true at the execution,
  and that the launcher leaves metering only when nothing that it may consider can be executed; the fallback then has nothing to execute either.

`ReportsProofs`, for any events, batches, ranges, limits, digits and days:

- `ReportInvariance`: `Spec => []RInv`. `HistoryToTheSecond` speaks of finished answers and is not inductive. `RInv` adds what is true of a history
  that is being read: what is listed was in view (`ListedInv`), it is in descending order of its texts (`OrderInv`), each row that was
  in view all the time is listed or still lies ahead of the cursor (`AheadInv`), and at the end nothing lies ahead or the limit is reached (`DoneInv`).
  The step from texts to seconds is the lemma that a smaller text does not lie in a later second.
- `ReportTypes`, `HistoryIsSound`: consequences of `RInv`.
- `ColumnsInvariance`: `Spec => [](RInv /\ ColumnsInv)`. A report that has been read adds up the rows that were in view at that moment; those there all the time
  are among them, and they are among those that were ever there. As the two sets move apart by later steps, the bounds stay true (`SumMonotone`).
- `TotalsAreExact`, `ListsAreExact`, `PersonPageIsTheList`: `TotalsToTheSecond`, `ListsAreComplete` and `PersonPageAgrees` follow.
  The sums are those of FiniteSetsExt, computed in whatever order (`SumUnique`).
- `PruneIsSound`: `Spec => PruneToTheSecond`, assuming that the retention fits `MaxInt64`; `WrapFits` shows that nothing wraps then.

`RepairProofs`, for any versions, other installations, layouts and bounds:

- `RepairInvariance`: `Spec => []IInv`. None of the properties is inductive, since they speak of what is recorded and the steps of four actors write it from
  what they have read earlier. The parts of `IInv`: which paths may be links and to what (`LinkInv`); what nobody touches before the first installation (`UntouchedInv`); a link at the wrapper's place means that
  an installation overwrites (`LinkMeansOverwritten`); which files may hold a wrapper or half of one, and after which disturbance (`SpoiltInv`); that a wrapper is written only after a real Claude has been recorded, which
  is at another path than the shim's and the wrapper's (`RecordedInv`, `RealInv`); that what a repair finds at the shim, unless the updater puts a file there, is an installation of Claude, and so is what the shared temporary file holds
  unless it is empty, mixed or gone (`ShimInv`, `FoundInv`); that
  the binary in `launcher.json` is a Claude that stays one, or one of the versions, of which the updater leaves the newest (`BinaryInv`); and that after every command the shim or the wrapper's place can be executed (`StandInv`).
- `RepairTypes`: `Spec => []ITypeOK`; `RealIsClaude`: `Spec => []RealIsNotWrapper`; `RepairIsSound`: `Spec => RepairRecordsClaude`.
- `ClaudeAlwaysStarts`: `Spec => []ClaudeStartsOtherwise`. That a Claude exists is what lasts (`Lasting`); that the launcher's choice among its candidates falls on one is the lemma
  `ChosenIsClaude`.

`AttributionProofs`, for any terminals, logins, panes, configurations, names and attributes:

- `AttributionTypes`: `Spec => []ATypeOK`, from `HostInv` (what sshd and tmux keep) and `RunInv`, which says of a start where it is, of a finished one
  from which start it came, how its identity was resolved (`Came`) and what was sent.
- `SameTokenMatches`: `Spec => []TokensMatch`, assuming that the launchers send to the collector (`Pointed`). A token without a comma, a code and blanks around it comes out of the
  headers variable as it went in, for a text of any length, and the collector compares the whole of it: equal tokens match and others do not.
- `IdentityArrives`: `Spec => []AttributesSurvive`, assuming `NamesArePlain`. The heart of it is about texts: splitting and joining are folds, an element a step
  (`SplitLaws`, `JoinLaws`, `KeepLaws`), and splitting what was joined gives the parts back if none of them has a comma (`SplitJoin`); an escaped name has neither comma nor
  "=" and is decoded to itself (`Escaped`); so the pairs of the text that is sent are those of the user's own parts and the meter's (`Entries`, `OwnEntries`, `RoundTrip`).
- `RightPerson`: `Spec => []NeverSomeoneElse`, assuming `ConnectionIsUpdated` (tmux's own default) and `NamesArePlain`. The property looks at a finished start only. `Charged` adds that the
  session's connection is that of the client that attached last, also when that client has none and tmux marks the variable as removed, and that a start which nobody disturbs keeps asking for
  this connection (`Bound`, `OnPath`): in tmux the session's, outside of it the process's own. `OwnersName` shows that the loaded map gives a device the owner that the configuration names,
  whatever order the loop over the file's map takes, if no two of its names are one; `PersonRecorded` brings it through the attributes.

Only model-checked: the liveness properties (`CallsReturn`, `EventuallyAcked`, `StartEnds`, `ShimRestored`: fairness and ENABLED are beyond the prover). TLC refutes `LocalIsLocal`, `ClaudeStarts`,
and `NoDoubleCount` for events without a time (section 4).

## 6. Not modelled

- Loss of power. The store runs with `synchronous=NORMAL`: after it the last commits may be
  missing although they were acknowledged. A crash of the process keeps them, and that is what `Exit` models.
- The dashboard's look: template, style, `app.js`. Its four queries are not one snapshot, by design of the code;
  `DirtyRowsAreInFlight` bounds what each read sees, `TotalsToTheSecond` and `ListsAreComplete` what a page may say.
- Several records of one resource with equal content and time share a key, so they count once. That
  is in the model (the key is the tuple of contents) and no property forbids it.
- The rounding of floating point: `int64(f*1_000_000 + 0.5)` is computed exactly in the model, so that `NumbersAreExact` says nothing about a
  product of doubles that falls just short of a half. NaN and infinities, which `ParseFloat` reads in a text, are not among its amounts.
- Headers beyond commas and codes: some exporters also split at ";" or refuse such a token.
- Sums that overflow an int64, at which SQLite fails the query: 2^63 micro-dollars do not occur.
- When pruning happens: the ticker starts anew with each restart, so a collector that is restarted daily never
  prunes. `Prune` is an action without fairness.
- `claude-meter identify`, which prints what `Resolve` returns; `install-server.sh`; the flags of `serve`.
- A meter binary that has its execute bits and cannot be executed: `exec` ends the wrapper, and no later line is reached.

## 7. What could follow

1. A larger `Repair`: with two steps of the updater or three installations it has several million states, too many for the liveness.
2. `Reports` computes the cutoff of a pruning in the step of its DELETE, `Store` in a step of its own, where the delay is covered (`PruneInv`); the text order of a delayed
   cutoff could be added to `Reports`.
