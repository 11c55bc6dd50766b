------------------------------- MODULE Store --------------------------------
(***************************************************************************)
(* The SQLite store of the collector (internal/store).                     *)
(*                                                                         *)
(* One connection is shared by every goroutine of the process: the HTTP    *)
(* handlers, the pruner and main.  Store.mu is held by Insert from BEGIN   *)
(* IMMEDIATE to COMMIT or ROLLBACK, by Prune around its DELETE, by Close,  *)
(* and by query() only while a statement is prepared: a report steps its   *)
(* statement WITHOUT the mutex, on the connection on which an Insert may   *)
(* have an open transaction.  So the model keeps two tables: "disk", what  *)
(* is committed and survives the process, and "view", what any statement   *)
(* of the connection reads.                                                *)
(*                                                                         *)
(* Every call of SQLite can fail; a failing INSERT may or may not have     *)
(* rolled the transaction back by itself.                                  *)
(***************************************************************************)
EXTENDS Integers, Sequences, FiniteSets

CONSTANTS
  Handler,      \* goroutines that serve an HTTP request
  Pruner,       \* the goroutine of RunPruner
  Free,         \* the value of mu when nobody holds it
  Row,          \* rows of usage_events: records with an EventKey and an EventTime
  Batch,        \* the event lists that Insert may be called with
  Retention,    \* Prune's retentionDays
  PageLimit,    \* History's limit, after it is forced into 1..1000
  MaxTime       \* bound on the clock

ASSUME RoutineAssumption == Pruner \notin Handler /\ Free \notin Handler \cup {Pruner}
ASSUME RowAssumption == \A r \in Row : r.EventTime \in Int
ASSUME BatchAssumption == Batch \subseteq Seq(Row)
ASSUME BoundAssumption == Retention \in Int /\ PageLimit \in Nat \ {0} /\ MaxTime \in Nat

VARIABLES
  \* the database and the connection
  disk,         \* committed rows
  view,         \* rows as the connection sees them
  inTx,         \* a transaction is open on the connection
  changes,      \* sqlite3_changes() of the connection
  stmts,        \* handlers whose prepared statement is not finalized
  open,         \* db.ptr is not nil
  \* the Go side
  mu,           \* holder of Store.mu
  life,         \* the process: "up", "closing", "closed", "down"
  pc,           \* where each goroutine is
  cancelled,    \* handlers whose request context is done
  batch,        \* the events argument of the handler's Insert
  next,         \* index of the event Insert is at
  inserted,     \* Insert's running count
  seen,         \* rows a report has read
  cutoff,       \* Prune's cutoff
  now           \* time.Now()

dbVars == <<disk, view, inTx, changes, stmts, open>>
callVars == <<batch, next, inserted, seen>>
vars == <<dbVars, mu, life, pc, cancelled, callVars, cutoff, now>>

Routine == Handler \cup {Pruner}

InsertPC == {"lock", "prepare", "row", "count", "commit", "undo"}
QueryPC == {"askTotals", "askPage", "totals", "page"}
HandlerPC == {"idle", "ok", "err"} \cup InsertPC \cup QueryPC

TypeOK ==
  /\ disk \in SUBSET Row /\ view \in SUBSET Row
  /\ inTx \in BOOLEAN /\ open \in BOOLEAN
  /\ changes \in Nat
  /\ stmts \in SUBSET Handler
  /\ mu \in Handler \cup {Free}
  /\ life \in {"up", "closing", "closed", "down"}
  /\ pc \in [Routine -> HandlerPC \cup {"prune"}]
  /\ \A h \in Handler : pc[h] \in HandlerPC
  /\ pc[Pruner] \in {"idle", "prune"}
  /\ cancelled \in SUBSET Handler
  /\ batch \in [Handler -> Seq(Row)]
  /\ next \in [Handler -> Nat \ {0}]
  /\ inserted \in [Handler -> Nat]
  /\ seen \in [Handler -> SUBSET Row]
  /\ cutoff \in Int
  /\ now \in 0..MaxTime

NoCalls ==
  /\ pc' = [g \in Routine |-> "idle"]
  /\ cancelled' = {}
  /\ batch' = [h \in Handler |-> <<>>]
  /\ next' = [h \in Handler |-> 1]
  /\ inserted' = [h \in Handler |-> 0]
  /\ seen' = [h \in Handler |-> {}]
  /\ cutoff' = 0

Init ==
  /\ disk = {} /\ view = {} /\ inTx = FALSE /\ changes = 0 /\ stmts = {}
  /\ open = TRUE /\ mu = Free /\ life = "up"
  /\ pc = [g \in Routine |-> "idle"]
  /\ cancelled = {}
  /\ batch = [h \in Handler |-> <<>>]
  /\ next = [h \in Handler |-> 1]
  /\ inserted = [h \in Handler |-> 0]
  /\ seen = [h \in Handler |-> {}]
  /\ cutoff = 0
  /\ now = 0

Goto(g, l) == pc' = [pc EXCEPT ![g] = l]

-----------------------------------------------------------------------------
(***************************************************************************)
(* SQLite, as the code uses it.  A write changes what the connection sees; *)
(* outside a transaction it is committed at once.                          *)
(***************************************************************************)
SqlWrite(t) ==
  /\ view' = t
  /\ disk' = IF inTx THEN disk ELSE t

SqlRollback ==
  /\ view' = disk
  /\ inTx' = FALSE
  /\ UNCHANGED disk

\* INSERT OR IGNORE on the UNIQUE column event_key.
HasKey(t, r) == \E s \in t : s.EventKey = r.EventKey

\* Mutant: no UNIQUE constraint.
InsertDuplicate(t, r) == t \cup {r}

InsertOrIgnore(t, r) == IF HasKey(t, r) THEN t ELSE t \cup {r}

-----------------------------------------------------------------------------
(***************************************************************************)
(* Insert                                                                  *)
(***************************************************************************)
\* Mutant: the loop starts one too early.
InsertCallFromZero(h, b) ==
  /\ pc[h] = "idle" /\ life # "down"
  /\ batch' = [batch EXCEPT ![h] = b]
  /\ next' = [next EXCEPT ![h] = 0]
  /\ inserted' = [inserted EXCEPT ![h] = 0]
  /\ Goto(h, IF b = <<>> THEN "ok" ELSE IF h \in cancelled THEN "err" ELSE "lock")
  /\ UNCHANGED <<dbVars, mu, life, cancelled, seen, cutoff, now>>

\* The call: an empty batch and a context that is already done return early.
InsertCall(h, b) ==
  /\ pc[h] = "idle" /\ life # "down"
  /\ batch' = [batch EXCEPT ![h] = b]
  /\ next' = [next EXCEPT ![h] = 1]
  /\ inserted' = [inserted EXCEPT ![h] = 0]
  /\ Goto(h, IF b = <<>> THEN "ok" ELSE IF h \in cancelled THEN "err" ELSE "lock")
  /\ UNCHANGED <<dbVars, mu, life, cancelled, seen, cutoff, now>>

\* mu.Lock and BEGIN IMMEDIATE.  SQLite refuses to nest a transaction.
Begin(h) ==
  /\ pc[h] = "lock" /\ mu = Free
  /\ open /\ ~inTx
  /\ mu' = h /\ inTx' = TRUE
  /\ Goto(h, "prepare")
  /\ UNCHANGED <<disk, view, changes, stmts, open, life, cancelled, callVars, cutoff, now>>

\* BEGIN fails (busy for 5 s, I/O, closed or nested): unlock and return.
BeginFails(h) ==
  /\ pc[h] = "lock" /\ mu = Free
  /\ Goto(h, "err")
  /\ UNCHANGED <<dbVars, mu, life, cancelled, callVars, cutoff, now>>

Prepare(h) ==
  /\ pc[h] = "prepare"
  /\ stmts' = stmts \cup {h}
  /\ Goto(h, "row")
  /\ UNCHANGED <<disk, view, inTx, changes, open, mu, life, cancelled, callVars, cutoff, now>>

PrepareFails(h) ==
  /\ pc[h] = "prepare"
  /\ Goto(h, "undo")
  /\ UNCHANGED <<dbVars, mu, life, cancelled, callVars, cutoff, now>>

\* One turn of the loop: the context is checked, then the row is bound and stepped.
InsertRow(h) ==
  LET r == batch[h][next[h]] IN
  /\ pc[h] = "row" /\ next[h] <= Len(batch[h])
  /\ h \notin cancelled
  /\ SqlWrite(InsertOrIgnore(view, r))
  /\ changes' = IF HasKey(view, r) THEN 0 ELSE 1
  /\ Goto(h, "count")
  /\ UNCHANGED <<inTx, stmts, open, mu, life, cancelled, callVars, cutoff, now>>

\* Mutant: a row that fails is skipped and the rest of the batch committed.
InsertRowSkips(h) ==
  /\ pc[h] = "row" /\ next[h] <= Len(batch[h])
  /\ Goto(h, "commit")
  /\ UNCHANGED <<dbVars, mu, life, cancelled, callVars, cutoff, now>>

\* The context is done, or bind or step failed; SQLite may have rolled back.
InsertRowFails(h) ==
  /\ pc[h] = "row" /\ next[h] <= Len(batch[h])
  /\ Goto(h, "undo")
  /\ SqlRollback \/ UNCHANGED <<disk, view, inTx>>
  /\ UNCHANGED <<changes, stmts, open, mu, life, cancelled, callVars, cutoff, now>>

\* Mutant: every event counts, duplicates included.
CountAll(h) ==
  /\ pc[h] = "count"
  /\ inserted' = [inserted EXCEPT ![h] = @ + 1]
  /\ next' = [next EXCEPT ![h] = @ + 1]
  /\ Goto(h, IF next[h] = Len(batch[h]) THEN "commit" ELSE "row")
  /\ UNCHANGED <<dbVars, mu, life, cancelled, batch, seen, cutoff, now>>

\* inserted += changes(), reset, next event.
Count(h) ==
  /\ pc[h] = "count"
  /\ inserted' = [inserted EXCEPT ![h] = @ + changes]
  /\ next' = [next EXCEPT ![h] = @ + 1]
  /\ Goto(h, IF next[h] = Len(batch[h]) THEN "commit" ELSE "row")
  /\ UNCHANGED <<dbVars, mu, life, cancelled, batch, seen, cutoff, now>>

\* COMMIT, then the deferred statement close and unlock.
Commit(h) ==
  /\ pc[h] = "commit" /\ inTx
  /\ disk' = view /\ inTx' = FALSE
  /\ stmts' = stmts \ {h}
  /\ mu' = Free
  /\ Goto(h, "ok")
  /\ UNCHANGED <<view, changes, open, life, cancelled, callVars, cutoff, now>>

\* COMMIT returns an error; SQLite may have rolled back.
CommitFails(h) ==
  /\ pc[h] = "commit"
  /\ Goto(h, "undo")
  /\ SqlRollback \/ UNCHANGED <<disk, view, inTx>>
  /\ UNCHANGED <<changes, stmts, open, mu, life, cancelled, callVars, cutoff, now>>

\* Mutant: the deferred function forgets ROLLBACK.
UndoWithoutRollback(h) ==
  /\ pc[h] = "undo"
  /\ stmts' = stmts \ {h}
  /\ mu' = Free
  /\ Goto(h, "err")
  /\ UNCHANGED <<disk, view, inTx, changes, open, life, cancelled, callVars, cutoff, now>>

\* Mutant: mu is not unlocked on an error.
UndoWithoutUnlock(h) ==
  /\ pc[h] = "undo"
  /\ SqlRollback
  /\ stmts' = stmts \ {h}
  /\ Goto(h, "err")
  /\ UNCHANGED <<changes, open, mu, life, cancelled, callVars, cutoff, now>>

\* The deferred calls of an Insert that did not commit: the statement is
\* finalized, ROLLBACK (its error ignored), unlock.
Undo(h) ==
  /\ pc[h] = "undo"
  /\ SqlRollback
  /\ stmts' = stmts \ {h}
  /\ mu' = Free
  /\ Goto(h, "err")
  /\ UNCHANGED <<changes, open, life, cancelled, callVars, cutoff, now>>

-----------------------------------------------------------------------------
(***************************************************************************)
(* The reports.  query() takes the mutex to prepare and bind; the result   *)
(* is read later, without it.  Totals, ByPerson, ByAccount and Ping read   *)
(* all they need in their first step; History reads a row per step, newest *)
(* first, from whatever the connection sees at that step.                  *)
(***************************************************************************)
QueryCall(h) ==
  /\ pc[h] = "idle" /\ life # "down"
  /\ seen' = [seen EXCEPT ![h] = {}]
  /\ \E l \in {"askTotals", "askPage"} : Goto(h, IF h \in cancelled THEN "err" ELSE l)
  /\ UNCHANGED <<dbVars, mu, life, cancelled, batch, next, inserted, cutoff, now>>

QueryPrepare(h) ==
  /\ pc[h] \in {"askTotals", "askPage"} /\ mu = Free /\ open
  /\ stmts' = stmts \cup {h}
  /\ Goto(h, IF pc[h] = "askTotals" THEN "totals" ELSE "page")
  /\ UNCHANGED <<disk, view, inTx, changes, open, mu, life, cancelled, callVars, cutoff, now>>

QueryPrepareFails(h) ==
  /\ pc[h] \in {"askTotals", "askPage"} /\ mu = Free
  /\ Goto(h, "err")
  /\ UNCHANGED <<dbVars, mu, life, cancelled, callVars, cutoff, now>>

\* The query returns l and its deferred stmt.close runs.
QueryReturn(h, l) ==
  /\ stmts' = stmts \ {h}
  /\ Goto(h, l)
  /\ UNCHANGED <<disk, view, inTx, changes, open, mu, life, cancelled, batch, next, inserted, cutoff, now>>

TotalsStep(h) ==
  /\ pc[h] = "totals"
  /\ seen' = [seen EXCEPT ![h] = view]
  /\ QueryReturn(h, "ok")

\* What the cursor of History finds next.
Ahead(h) == {r \in view \ seen[h] : \A s \in seen[h] : r.EventTime <= s.EventTime}

PageStep(h) ==
  /\ pc[h] = "page" /\ Cardinality(seen[h]) < PageLimit
  /\ \E r \in Ahead(h) :
       /\ \A s \in Ahead(h) : s.EventTime <= r.EventTime
       /\ seen' = [seen EXCEPT ![h] = @ \cup {r}]
  /\ UNCHANGED <<dbVars, mu, life, pc, cancelled, batch, next, inserted, cutoff, now>>

PageDone(h) ==
  /\ pc[h] = "page"
  /\ Cardinality(seen[h]) = PageLimit \/ Ahead(h) = {}
  /\ UNCHANGED seen
  /\ QueryReturn(h, "ok")

StepFails(h) ==
  /\ pc[h] \in {"totals", "page"}
  /\ UNCHANGED seen
  /\ QueryReturn(h, "err")

-----------------------------------------------------------------------------
(***************************************************************************)
(* The pruner.  The cutoff is computed before the mutex is requested.      *)
(***************************************************************************)
\* Mutant: retentionDays is not tested.
PruneCallAlways ==
  /\ pc[Pruner] = "idle" /\ life # "down"
  /\ cutoff' = now - Retention
  /\ Goto(Pruner, "prune")
  /\ UNCHANGED <<dbVars, mu, life, cancelled, callVars, now>>

PruneCall ==
  /\ Retention > 0
  /\ pc[Pruner] = "idle" /\ life # "down"
  /\ cutoff' = now - Retention
  /\ Goto(Pruner, "prune")
  /\ UNCHANGED <<dbVars, mu, life, cancelled, callVars, now>>

\* Mutant: mu is not taken.
PruneUnlocked ==
  LET keep == {r \in view : ~(r.EventTime < cutoff)} IN
  /\ pc[Pruner] = "prune" /\ open
  /\ SqlWrite(keep)
  /\ changes' = Cardinality(view \ keep)
  /\ Goto(Pruner, "idle") /\ cutoff' = 0
  /\ UNCHANGED <<inTx, stmts, open, mu, life, cancelled, callVars, now>>

Prune ==
  LET keep == {r \in view : ~(r.EventTime < cutoff)} IN
  /\ pc[Pruner] = "prune" /\ mu = Free /\ open
  /\ SqlWrite(keep)
  /\ changes' = Cardinality(view \ keep)
  /\ Goto(Pruner, "idle") /\ cutoff' = 0
  /\ UNCHANGED <<inTx, stmts, open, mu, life, cancelled, callVars, now>>

PruneFails ==
  /\ pc[Pruner] = "prune" /\ mu = Free
  /\ Goto(Pruner, "idle") /\ cutoff' = 0
  /\ UNCHANGED <<dbVars, mu, life, cancelled, callVars, now>>

-----------------------------------------------------------------------------
(***************************************************************************)
(* The process.                                                            *)
(***************************************************************************)
\* A signal: main closes the listener and the connections and does not wait
\* for the handlers.
Shutdown ==
  /\ life = "up" /\ life' = "closing"
  /\ UNCHANGED <<dbVars, mu, pc, cancelled, callVars, cutoff, now>>

\* Mutant: the connection is torn down under its statements.
CloseRegardless ==
  /\ life = "closing" /\ mu = Free
  /\ open' = FALSE
  /\ life' = "closed"
  /\ UNCHANGED <<disk, view, inTx, changes, stmts, mu, pc, cancelled, callVars, cutoff, now>>

\* The deferred Store.Close: sqlite3_close refuses while a statement is alive.
CloseStore ==
  /\ life = "closing" /\ mu = Free
  /\ open' = (stmts # {})
  /\ life' = "closed"
  /\ UNCHANGED <<disk, view, inTx, changes, stmts, mu, pc, cancelled, callVars, cutoff, now>>

\* main returns, or the process dies at any point: only "disk" is left.
Exit ==
  /\ life # "down" /\ life' = "down"
  /\ SqlRollback
  /\ changes' = 0 /\ stmts' = {} /\ open' = FALSE /\ mu' = Free
  /\ NoCalls
  /\ UNCHANGED now

\* systemd starts the service again; migrate keeps an existing table.
Open ==
  /\ life = "down" /\ life' = "up"
  /\ open' = TRUE
  /\ UNCHANGED <<disk, view, inTx, changes, stmts, mu, pc, cancelled, callVars, cutoff, now>>

-----------------------------------------------------------------------------
(***************************************************************************)
(* The environment of the store.                                           *)
(***************************************************************************)
\* The peer goes away; its request's context is done from now on.
Cancel(h) ==
  /\ life # "down" /\ h \notin cancelled
  /\ cancelled' = cancelled \cup {h}
  /\ UNCHANGED <<dbVars, mu, life, pc, callVars, cutoff, now>>

\* The handler is done with the result, or with a request it turned down
\* without the store; the goroutine's next request is new.
Return(h) ==
  /\ pc[h] \in {"idle", "ok", "err"}
  /\ Goto(h, "idle")
  /\ cancelled' = cancelled \ {h}
  /\ batch' = [batch EXCEPT ![h] = <<>>]
  /\ next' = [next EXCEPT ![h] = 1]
  /\ inserted' = [inserted EXCEPT ![h] = 0]
  /\ seen' = [seen EXCEPT ![h] = {}]
  /\ UNCHANGED <<dbVars, mu, life, cutoff, now>>

Tick ==
  /\ now < MaxTime
  /\ now' = now + 1
  /\ UNCHANGED <<dbVars, mu, life, pc, cancelled, callVars, cutoff>>

-----------------------------------------------------------------------------
\* Steps that wait for the mutex, and steps that do not.
Acquire(h) == Begin(h) \/ BeginFails(h) \/ QueryPrepare(h) \/ QueryPrepareFails(h)

Proceed(h) ==
  \/ Prepare(h) \/ PrepareFails(h)
  \/ InsertRow(h) \/ InsertRowFails(h) \/ Count(h)
  \/ Commit(h) \/ CommitFails(h) \/ Undo(h)
  \/ TotalsStep(h) \/ PageStep(h) \/ PageDone(h) \/ StepFails(h)

Call(h) == QueryCall(h) \/ \E b \in Batch : InsertCall(h, b)

Lifecycle == Shutdown \/ CloseStore \/ Exit \/ Open

Next ==
  \/ \E h \in Handler : Acquire(h) \/ Proceed(h) \/ Call(h) \/ Cancel(h) \/ Return(h)
  \/ PruneCall \/ Prune \/ PruneFails
  \/ Lifecycle
  \/ Tick

Spec == Init /\ [][Next]_vars

(***************************************************************************)
(* A runnable goroutine runs, and a goroutine that keeps asking for mu     *)
(* gets it: sync.Mutex hands the lock to a waiter of more than 1 ms.       *)
(***************************************************************************)
Fairness ==
  /\ \A h \in Handler : WF_vars(Proceed(h)) /\ SF_vars(Acquire(h))
  /\ SF_vars(Prune \/ PruneFails)

FairSpec == Spec /\ Fairness

-----------------------------------------------------------------------------
(***************************************************************************)
(* Properties                                                              *)
(***************************************************************************)
InFlight == IF mu = Free THEN {} ELSE {batch[mu][i] : i \in DOMAIN batch[mu]}

\* No transaction outlives the Insert that opened it (store.go:94-98): when
\* mu is free the connection is in autocommit mode and sees exactly what is
\* committed.  Otherwise every later BEGIN IMMEDIATE would fail.
NoOrphanTransaction == mu = Free => ~inTx /\ view = disk

\* What a report can see beyond committed rows is bounded (query.go:134-151
\* steps without mu): only rows of the batch whose Insert holds mu, and no
\* committed row is hidden from it.
DirtyRowsAreInFlight == disk \subseteq view /\ view \ disk \subseteq InFlight

\* The UNIQUE constraint and INSERT OR IGNORE (store.go:45,99): one row per
\* event key, in the table and in every uncommitted state of it.
KeysAreUnique == \A r, s \in view \cup disk : r.EventKey = s.EventKey => r = s

\* Store.Close during shutdown (store.go:35-39, main.go:66,84): handlers are
\* not waited for, yet none of them ever steps a statement of a closed
\* connection.
NoUseAfterClose == ~open => stmts = {} /\ ~inTx

\* The count Insert returns (store.go:130) is the number of rows the table
\* gained by its commit, duplicates left out.
InsertedIsExact ==
  [][\A h \in Handler : Commit(h) =>
        Cardinality(disk') = Cardinality(disk) + inserted[h]]_vars

\* With retention_days: 0 the history is permanent: no step, no crash and no
\* restart removes a committed row (server.go:201, query.go:97).
HistoryIsPermanent == [][Retention <= 0 => disk \subseteq disk']_vars

\* Every call of the store returns, whoever else uses it and whatever fails
\* (or the process has ended).
CallsReturn ==
  \A g \in Routine : pc[g] \notin {"idle", "ok", "err"} ~> pc[g] \in {"idle", "ok", "err"}

\* The store implements the abstract usage log: batches are recorded whole
\* or not at all, and only expired rows disappear.
Log == INSTANCE UsageLog WITH rows <- disk
ImplementsUsageLog == Log!USpec
=============================================================================
