---------------------------- MODULE StoreProofs -----------------------------
(***************************************************************************)
(* Proofs about Store, for any set of handlers, any rows and batches, any  *)
(* retention and any bound on the clock.                                   *)
(*                                                                         *)
(* The invariant IInv says which goroutine owns the transaction, how far   *)
(* its batch has got and what the connection sees beyond the disk because  *)
(* of it.  The safety properties, the count that Insert returns and the    *)
(* refinement of UsageLog all follow from it.                              *)
(***************************************************************************)
EXTENDS Store, FiniteSetTheorems, TLAPS

\* Insert's program points at which it holds mu, and those at which it has
\* not failed yet.
TxPC == {"prepare", "row", "count", "commit", "undo"}
LivePC == TxPC \ {"undo"}

\* The events of the batch whose INSERT has been stepped.
Stepped(h) == IF pc[h] = "count" THEN 1..next[h] ELSE 1..(next[h] - 1)
SteppedRows(h) == {batch[h][i] : i \in Stepped(h)}

KeySet(S) == {r.EventKey : r \in S}

LockInv == \A h \in Handler : mu = h <=> pc[h] \in TxPC

TxInv ==
  /\ ~inTx => view = disk
  /\ \A h \in Handler : pc[h] \in LivePC => inTx
  /\ mu = Free => ~inTx

StmtInv ==
  /\ \A h \in stmts : pc[h] \in {"row", "count", "commit", "undo", "totals", "page"}
  /\ ~open => stmts = {} /\ ~inTx

\* The loop of Insert: where it is in the batch.
LoopInv ==
  \A h \in Handler :
    /\ pc[h] \in InsertPC => batch[h] \in Batch /\ batch[h] # <<>>
    /\ pc[h] \in {"lock", "prepare"} => next[h] = 1 /\ inserted[h] = 0
    /\ pc[h] \in {"row", "count"} => next[h] <= Len(batch[h])
    /\ pc[h] = "commit" => next[h] = Len(batch[h]) + 1

\* What the open transaction has added to the committed table.
DirtyInv ==
  /\ disk \subseteq view
  /\ \A h \in Handler : pc[h] = "undo" => view \ disk \subseteq {batch[h][i] : i \in DOMAIN batch[h]}
  /\ \A h \in Handler : pc[h] \in LivePC =>
       /\ view \ disk \subseteq SteppedRows(h)
       /\ KeySet(view) = KeySet(disk) \cup KeySet(SteppedRows(h))

CountInv ==
  /\ IsFiniteSet(view) /\ IsFiniteSet(disk)
  /\ \A h \in Handler : pc[h] \in LivePC =>
       Cardinality(view) =
         Cardinality(disk) + inserted[h] + (IF pc[h] = "count" THEN changes ELSE 0)

UniqueInv == \A r, s \in view : r.EventKey = s.EventKey => r = s

PruneInv == pc[Pruner] = "prune" => Retention > 0 /\ cutoff <= now - Retention

IInv ==
  /\ TypeOK
  /\ LockInv
  /\ TxInv
  /\ StmtInv
  /\ LoopInv
  /\ DirtyInv
  /\ CountInv
  /\ UniqueInv
  /\ PruneInv

-----------------------------------------------------------------------------
(***************************************************************************)
(* A step that leaves the table, the transaction and mu alone, and every   *)
(* Insert that holds mu where it is, keeps what IInv says of the           *)
(* transaction.                                                            *)
(***************************************************************************)
StillTx ==
  /\ UNCHANGED <<disk, view, inTx, mu>>
  /\ \A h \in Handler : pc[h] \in TxPC \/ pc'[h] \in TxPC =>
       /\ pc'[h] = pc[h]
       /\ batch'[h] = batch[h] /\ next'[h] = next[h] /\ inserted'[h] = inserted[h]
       /\ changes' = changes

\* What a step of the kind StillTx keeps.
LEMMA StillTxKeeps ==
  ASSUME IInv, StillTx
  PROVE  LockInv' /\ TxInv' /\ DirtyInv' /\ CountInv' /\ UniqueInv'
<1> USE DEF IInv, StillTx, TxPC, LivePC
<1>1. LockInv'
  BY DEF LockInv
<1>2. TxInv'
  BY DEF TxInv
<1>3. DirtyInv'
  <2>1. ASSUME NEW h \in Handler, pc'[h] \in LivePC
        PROVE  SteppedRows(h)' = SteppedRows(h)
    BY <2>1 DEF SteppedRows, Stepped
  <2>2. ASSUME NEW h \in Handler, pc'[h] = "undo"
        PROVE  {batch[h][i] : i \in DOMAIN batch[h]}' = {batch[h][i] : i \in DOMAIN batch[h]}
    BY <2>2
  <2> QED
    BY <2>1, <2>2 DEF DirtyInv, KeySet
<1>4. CountInv'
  BY DEF CountInv
<1>5. UniqueInv'
  BY DEF UniqueInv
<1> QED
  BY <1>1, <1>2, <1>3, <1>4, <1>5

\* A call of Insert that has not asked for mu yet.
LEMMA InsertCallKeeps ==
  ASSUME IInv, NEW h \in Handler, NEW b \in Batch, InsertCall(h, b)
  PROVE  IInv'
<1> USE RoutineAssumption DEF IInv, InsertCall, Goto, dbVars, callVars,
          TypeOK, Routine, HandlerPC, InsertPC, QueryPC, TxPC
<1>1. TypeOK'
  BY BatchAssumption
<1>2. StillTx
  BY DEF LockInv, StillTx
<1>3. StmtInv'
  BY DEF StmtInv, TxInv, LockInv
<1>4. LoopInv'
  BY DEF LoopInv
<1>5. PruneInv'
  BY BoundAssumption DEF PruneInv
<1> QED
  BY <1>1, <1>2, <1>3, <1>4, <1>5, StillTxKeeps

\* BEGIN IMMEDIATE fails: nothing was opened.
LEMMA BeginFailsKeeps ==
  ASSUME IInv, NEW h \in Handler, BeginFails(h)
  PROVE  IInv'
<1> USE RoutineAssumption DEF IInv, BeginFails, Goto, dbVars, callVars,
          TypeOK, Routine, HandlerPC, InsertPC, QueryPC, TxPC
<1>1. TypeOK'
  OBVIOUS
<1>2. StillTx
  BY DEF LockInv, StillTx
<1>3. StmtInv'
  BY DEF StmtInv, TxInv, LockInv
<1>4. LoopInv'
  BY DEF LoopInv
<1>5. PruneInv'
  BY BoundAssumption DEF PruneInv
<1> QED
  BY <1>1, <1>2, <1>3, <1>4, <1>5, StillTxKeeps

\* A report is called.
LEMMA QueryCallKeeps ==
  ASSUME IInv, NEW h \in Handler, QueryCall(h)
  PROVE  IInv'
<1> USE RoutineAssumption DEF IInv, QueryCall, Goto, dbVars, callVars,
          TypeOK, Routine, HandlerPC, InsertPC, QueryPC, TxPC
<1>1. TypeOK'
  OBVIOUS
<1>2. StillTx
  BY DEF LockInv, StillTx
<1>3. StmtInv'
  BY DEF StmtInv, TxInv, LockInv
<1>4. LoopInv'
  BY DEF LoopInv
<1>5. PruneInv'
  BY BoundAssumption DEF PruneInv
<1> QED
  BY <1>1, <1>2, <1>3, <1>4, <1>5, StillTxKeeps

\* A report prepares its statement under mu, on an open connection.
LEMMA QueryPrepareKeeps ==
  ASSUME IInv, NEW h \in Handler, QueryPrepare(h)
  PROVE  IInv'
<1> USE RoutineAssumption DEF IInv, QueryPrepare, Goto, dbVars, callVars,
          TypeOK, Routine, HandlerPC, InsertPC, QueryPC, TxPC
<1>1. TypeOK'
  OBVIOUS
<1>2. StillTx
  BY DEF LockInv, StillTx
<1>3. StmtInv'
  BY DEF StmtInv, TxInv, LockInv
<1>4. LoopInv'
  BY DEF LoopInv
<1>5. PruneInv'
  BY BoundAssumption DEF PruneInv
<1> QED
  BY <1>1, <1>2, <1>3, <1>4, <1>5, StillTxKeeps

\* A report fails to prepare.
LEMMA QueryPrepareFailsKeeps ==
  ASSUME IInv, NEW h \in Handler, QueryPrepareFails(h)
  PROVE  IInv'
<1> USE RoutineAssumption DEF IInv, QueryPrepareFails, Goto, dbVars, callVars,
          TypeOK, Routine, HandlerPC, InsertPC, QueryPC, TxPC
<1>1. TypeOK'
  OBVIOUS
<1>2. StillTx
  BY DEF LockInv, StillTx
<1>3. StmtInv'
  BY DEF StmtInv, TxInv, LockInv
<1>4. LoopInv'
  BY DEF LoopInv
<1>5. PruneInv'
  BY BoundAssumption DEF PruneInv
<1> QED
  BY <1>1, <1>2, <1>3, <1>4, <1>5, StillTxKeeps

\* A report reads everything in one step and finalizes its statement.
LEMMA TotalsStepKeeps ==
  ASSUME IInv, NEW h \in Handler, TotalsStep(h)
  PROVE  IInv'
<1> USE RoutineAssumption DEF IInv, TotalsStep, Goto, dbVars, callVars, QueryReturn,
          TypeOK, Routine, HandlerPC, InsertPC, QueryPC, TxPC
<1>1. TypeOK'
  OBVIOUS
<1>2. StillTx
  BY DEF LockInv, StillTx
<1>3. StmtInv'
  BY DEF StmtInv, TxInv, LockInv
<1>4. LoopInv'
  BY DEF LoopInv
<1>5. PruneInv'
  BY BoundAssumption DEF PruneInv
<1> QED
  BY <1>1, <1>2, <1>3, <1>4, <1>5, StillTxKeeps

\* History reads a row.
LEMMA PageStepKeeps ==
  ASSUME IInv, NEW h \in Handler, PageStep(h)
  PROVE  IInv'
<1> USE RoutineAssumption DEF IInv, PageStep, Goto, dbVars, callVars,
          TypeOK, Routine, HandlerPC, InsertPC, QueryPC, TxPC
<1>1. TypeOK'
  BY DEF Ahead
<1>2. StillTx
  BY DEF LockInv, StillTx
<1>3. StmtInv'
  BY DEF StmtInv, TxInv, LockInv
<1>4. LoopInv'
  BY DEF LoopInv
<1>5. PruneInv'
  BY BoundAssumption DEF PruneInv
<1> QED
  BY <1>1, <1>2, <1>3, <1>4, <1>5, StillTxKeeps

\* History finalizes its statement.
LEMMA PageDoneKeeps ==
  ASSUME IInv, NEW h \in Handler, PageDone(h)
  PROVE  IInv'
<1> USE RoutineAssumption DEF IInv, PageDone, Goto, dbVars, callVars, QueryReturn,
          TypeOK, Routine, HandlerPC, InsertPC, QueryPC, TxPC
<1>1. TypeOK'
  OBVIOUS
<1>2. StillTx
  BY DEF LockInv, StillTx
<1>3. StmtInv'
  BY DEF StmtInv, TxInv, LockInv
<1>4. LoopInv'
  BY DEF LoopInv
<1>5. PruneInv'
  BY BoundAssumption DEF PruneInv
<1> QED
  BY <1>1, <1>2, <1>3, <1>4, <1>5, StillTxKeeps

\* A report fails and finalizes its statement.
LEMMA StepFailsKeeps ==
  ASSUME IInv, NEW h \in Handler, StepFails(h)
  PROVE  IInv'
<1> USE RoutineAssumption DEF IInv, StepFails, Goto, dbVars, callVars, QueryReturn,
          TypeOK, Routine, HandlerPC, InsertPC, QueryPC, TxPC
<1>1. TypeOK'
  OBVIOUS
<1>2. StillTx
  BY DEF LockInv, StillTx
<1>3. StmtInv'
  BY DEF StmtInv, TxInv, LockInv
<1>4. LoopInv'
  BY DEF LoopInv
<1>5. PruneInv'
  BY BoundAssumption DEF PruneInv
<1> QED
  BY <1>1, <1>2, <1>3, <1>4, <1>5, StillTxKeeps

\* A request's context is done.
LEMMA CancelKeeps ==
  ASSUME IInv, NEW h \in Handler, Cancel(h)
  PROVE  IInv'
<1> USE RoutineAssumption DEF IInv, Cancel, Goto, dbVars, callVars,
          TypeOK, Routine, HandlerPC, InsertPC, QueryPC, TxPC
<1>1. TypeOK'
  OBVIOUS
<1>2. StillTx
  BY DEF LockInv, StillTx
<1>3. StmtInv'
  BY DEF StmtInv, TxInv, LockInv
<1>4. LoopInv'
  BY DEF LoopInv
<1>5. PruneInv'
  BY BoundAssumption DEF PruneInv
<1> QED
  BY <1>1, <1>2, <1>3, <1>4, <1>5, StillTxKeeps

\* A handler returns.
LEMMA ReturnKeeps ==
  ASSUME IInv, NEW h \in Handler, Return(h)
  PROVE  IInv'
<1> USE RoutineAssumption DEF IInv, Return, Goto, dbVars, callVars,
          TypeOK, Routine, HandlerPC, InsertPC, QueryPC, TxPC
<1>1. TypeOK'
  OBVIOUS
<1>2. StillTx
  BY DEF LockInv, StillTx
<1>3. StmtInv'
  BY DEF StmtInv, TxInv, LockInv
<1>4. LoopInv'
  BY DEF LoopInv
<1>5. PruneInv'
  BY BoundAssumption DEF PruneInv
<1> QED
  BY <1>1, <1>2, <1>3, <1>4, <1>5, StillTxKeeps

\* The pruner computes its cutoff, only with a retention period.
LEMMA PruneCallKeeps ==
  ASSUME IInv, PruneCall
  PROVE  IInv'
<1> USE RoutineAssumption DEF IInv, PruneCall, Goto, dbVars, callVars,
          TypeOK, Routine, HandlerPC, InsertPC, QueryPC, TxPC
<1>1. TypeOK'
  OBVIOUS
<1>2. StillTx
  BY DEF LockInv, StillTx
<1>3. StmtInv'
  BY DEF StmtInv, TxInv, LockInv
<1>4. LoopInv'
  BY DEF LoopInv
<1>5. PruneInv'
  BY BoundAssumption DEF PruneInv
<1> QED
  BY <1>1, <1>2, <1>3, <1>4, <1>5, StillTxKeeps

\* The DELETE fails.
LEMMA PruneFailsKeeps ==
  ASSUME IInv, PruneFails
  PROVE  IInv'
<1> USE RoutineAssumption DEF IInv, PruneFails, Goto, dbVars, callVars,
          TypeOK, Routine, HandlerPC, InsertPC, QueryPC, TxPC
<1>1. TypeOK'
  OBVIOUS
<1>2. StillTx
  BY DEF LockInv, StillTx
<1>3. StmtInv'
  BY DEF StmtInv, TxInv, LockInv
<1>4. LoopInv'
  BY DEF LoopInv
<1>5. PruneInv'
  BY BoundAssumption DEF PruneInv
<1> QED
  BY <1>1, <1>2, <1>3, <1>4, <1>5, StillTxKeeps

\* main is told to stop.
LEMMA ShutdownKeeps ==
  ASSUME IInv, Shutdown
  PROVE  IInv'
<1> USE RoutineAssumption DEF IInv, Shutdown, Goto, dbVars, callVars,
          TypeOK, Routine, HandlerPC, InsertPC, QueryPC, TxPC
<1>1. TypeOK'
  OBVIOUS
<1>2. StillTx
  BY DEF LockInv, StillTx
<1>3. StmtInv'
  BY DEF StmtInv, TxInv, LockInv
<1>4. LoopInv'
  BY DEF LoopInv
<1>5. PruneInv'
  BY BoundAssumption DEF PruneInv
<1> QED
  BY <1>1, <1>2, <1>3, <1>4, <1>5, StillTxKeeps

\* The connection closes only if no statement is left; mu is free, so no transaction is.
LEMMA CloseStoreKeeps ==
  ASSUME IInv, CloseStore
  PROVE  IInv'
<1> USE RoutineAssumption DEF IInv, CloseStore, Goto, dbVars, callVars,
          TypeOK, Routine, HandlerPC, InsertPC, QueryPC, TxPC
<1>1. TypeOK'
  OBVIOUS
<1>2. StillTx
  BY DEF LockInv, StillTx
<1>3. StmtInv'
  BY DEF StmtInv, TxInv, LockInv
<1>4. LoopInv'
  BY DEF LoopInv
<1>5. PruneInv'
  BY BoundAssumption DEF PruneInv
<1> QED
  BY <1>1, <1>2, <1>3, <1>4, <1>5, StillTxKeeps

\* The service starts again.
LEMMA OpenKeeps ==
  ASSUME IInv, Open
  PROVE  IInv'
<1> USE RoutineAssumption DEF IInv, Open, Goto, dbVars, callVars,
          TypeOK, Routine, HandlerPC, InsertPC, QueryPC, TxPC
<1>1. TypeOK'
  OBVIOUS
<1>2. StillTx
  BY DEF LockInv, StillTx
<1>3. StmtInv'
  BY DEF StmtInv, TxInv, LockInv
<1>4. LoopInv'
  BY DEF LoopInv
<1>5. PruneInv'
  BY BoundAssumption DEF PruneInv
<1> QED
  BY <1>1, <1>2, <1>3, <1>4, <1>5, StillTxKeeps

\* The clock advances, the cutoff only gets safer.
LEMMA TickKeeps ==
  ASSUME IInv, Tick
  PROVE  IInv'
<1> USE RoutineAssumption DEF IInv, Tick, Goto, dbVars, callVars,
          TypeOK, Routine, HandlerPC, InsertPC, QueryPC, TxPC
<1>1. TypeOK'
  BY BoundAssumption
<1>2. StillTx
  BY DEF LockInv, StillTx
<1>3. StmtInv'
  BY DEF StmtInv, TxInv, LockInv
<1>4. LoopInv'
  BY DEF LoopInv
<1>5. PruneInv'
  BY BoundAssumption DEF PruneInv
<1> QED
  BY <1>1, <1>2, <1>3, <1>4, <1>5, StillTxKeeps

-----------------------------------------------------------------------------
\* The transaction is opened: the view is the committed table.
LEMMA BeginKeeps ==
  ASSUME IInv, NEW h \in Handler, Begin(h)
  PROVE  IInv'
<1> USE RoutineAssumption DEF IInv, Begin, Goto, dbVars, callVars,
          TypeOK, Routine, HandlerPC, InsertPC, QueryPC, TxPC, LivePC
<1>1. TypeOK'
  OBVIOUS
<1>2. LockInv'
  BY DEF LockInv
<1>3. TxInv'
  BY DEF LockInv, TxInv, DirtyInv
<1>4. StmtInv'
  BY DEF LockInv, TxInv, StmtInv
<1>5. LoopInv'
  BY DEF LockInv, LoopInv
<1>6. DirtyInv'
  BY DEF LockInv, TxInv, LoopInv, DirtyInv, SteppedRows, Stepped, KeySet
<1>7. CountInv'
  <2>1. view = disk /\ inserted[h] = 0 /\ IsFiniteSet(disk)
    BY DEF TxInv, LoopInv, CountInv
  <2>2. Cardinality(disk) = Cardinality(disk) + 0
    BY <2>1, FS_CardinalityType
  <2>3. \A g \in Handler : pc'[g] \in TxPC => g = h
    BY DEF LockInv
  <2> QED
    BY <2>1, <2>2, <2>3 DEF CountInv
<1>8. UniqueInv'
  BY DEF UniqueInv, DirtyInv
<1>9. PruneInv'
  BY DEF PruneInv
<1> QED
  BY <1>1, <1>2, <1>3, <1>4, <1>5, <1>6, <1>7, <1>8, <1>9

\* The INSERT is prepared inside the transaction.
LEMMA PrepareKeeps ==
  ASSUME IInv, NEW h \in Handler, Prepare(h)
  PROVE  IInv'
<1> USE RoutineAssumption DEF IInv, Prepare, Goto, dbVars, callVars,
          TypeOK, Routine, HandlerPC, InsertPC, QueryPC, TxPC, LivePC
<1>1. TypeOK'
  OBVIOUS
<1>2. LockInv'
  BY DEF LockInv
<1>3. TxInv'
  BY DEF LockInv, TxInv, DirtyInv
<1>4. StmtInv'
  BY DEF LockInv, TxInv, StmtInv
<1>5. LoopInv'
  BY DEF LockInv, LoopInv
<1>6. DirtyInv'
  BY DEF LockInv, TxInv, LoopInv, DirtyInv, SteppedRows, Stepped, KeySet
<1>7. CountInv'
  BY DEF LockInv, TxInv, LoopInv, CountInv, DirtyInv
<1>8. UniqueInv'
  BY DEF UniqueInv, DirtyInv
<1>9. PruneInv'
  BY DEF PruneInv
<1> QED
  BY <1>1, <1>2, <1>3, <1>4, <1>5, <1>6, <1>7, <1>8, <1>9

\* Preparing fails before any row was stepped.
LEMMA PrepareFailsKeeps ==
  ASSUME IInv, NEW h \in Handler, PrepareFails(h)
  PROVE  IInv'
<1> USE RoutineAssumption DEF IInv, PrepareFails, Goto, dbVars, callVars,
          TypeOK, Routine, HandlerPC, InsertPC, QueryPC, TxPC, LivePC
<1>1. TypeOK'
  OBVIOUS
<1>2. LockInv'
  BY DEF LockInv
<1>3. TxInv'
  BY DEF LockInv, TxInv, DirtyInv
<1>4. StmtInv'
  BY DEF LockInv, TxInv, StmtInv
<1>5. LoopInv'
  BY DEF LockInv, LoopInv
<1>6. DirtyInv'
  <2>1. SteppedRows(h) = {}
    BY DEF SteppedRows, Stepped, LoopInv
  <2>2. view = disk
    BY <2>1 DEF DirtyInv
  <2>3. \A g \in Handler : pc'[g] \in TxPC => g = h
    BY DEF LockInv
  <2> QED
    BY <2>2, <2>3 DEF DirtyInv
<1>7. CountInv'
  BY DEF LockInv, TxInv, LoopInv, CountInv, DirtyInv
<1>8. UniqueInv'
  BY DEF UniqueInv, DirtyInv
<1>9. PruneInv'
  BY DEF PruneInv
<1> QED
  BY <1>1, <1>2, <1>3, <1>4, <1>5, <1>6, <1>7, <1>8, <1>9

\* The row joins the view, unless its key is there; changes() says which.
LEMMA InsertRowKeeps ==
  ASSUME IInv, NEW h \in Handler, InsertRow(h)
  PROVE  IInv'
<1> USE RoutineAssumption DEF IInv, InsertRow, Goto, dbVars, callVars, SqlWrite,
          TypeOK, Routine, HandlerPC, InsertPC, QueryPC, TxPC, LivePC
<1>1. TypeOK'
  <2>1. batch[h][next[h]] \in Row
    BY BatchAssumption DEF LoopInv
  <2> QED
    BY <2>1 DEF InsertOrIgnore
<1>2. LockInv'
  BY DEF LockInv
<1>3. TxInv'
  BY DEF LockInv, TxInv, DirtyInv
<1>4. StmtInv'
  BY DEF LockInv, TxInv, StmtInv
<1>5. LoopInv'
  BY DEF LockInv, LoopInv
<1>6. DirtyInv'
  <2> DEFINE r == batch[h][next[h]]
  <2>1. /\ mu = h /\ inTx /\ disk' = disk
        /\ view' = InsertOrIgnore(view, r)
        /\ \A g \in Handler : pc'[g] \in TxPC => g = h
    BY DEF LockInv, TxInv
  <2>2. SteppedRows(h)' = SteppedRows(h) \cup {r}
    BY DEF SteppedRows, Stepped, LoopInv
  <2>3. /\ view \ disk \subseteq SteppedRows(h)
        /\ KeySet(view) = KeySet(disk) \cup KeySet(SteppedRows(h))
        /\ disk \subseteq view
    BY DEF DirtyInv
  <2>4. KeySet(view') = KeySet(view) \cup {r.EventKey}
    BY <2>1 DEF KeySet, InsertOrIgnore, HasKey
  <2>5. KeySet(SteppedRows(h)') = KeySet(SteppedRows(h)) \cup {r.EventKey}
    BY <2>2 DEF KeySet
  <2>6. view' \ disk' \subseteq SteppedRows(h)' /\ disk' \subseteq view'
    BY <2>1, <2>2, <2>3 DEF InsertOrIgnore
  <2>7. KeySet(disk') = KeySet(disk)
    BY <2>1 DEF KeySet
  <2>8. KeySet(view') = KeySet(disk') \cup KeySet(SteppedRows(h)')
    BY <2>3, <2>4, <2>5, <2>7
  <2>9. pc'[h] = "count"
    OBVIOUS
  <2> QED
    BY <2>1, <2>6, <2>8, <2>9 DEF DirtyInv, KeySet
<1>7. CountInv'
  <2> DEFINE r == batch[h][next[h]]
  <2>1. /\ inTx /\ disk' = disk
        /\ \A g \in Handler : pc'[g] \in TxPC => g = h
    BY DEF LockInv, TxInv
  <2>2. IsFiniteSet(view) /\ Cardinality(view) = Cardinality(disk) + inserted[h]
    <3>1. IsFiniteSet(view) /\ IsFiniteSet(disk)
      BY DEF CountInv
    <3>2. Cardinality(disk) \in Nat
      BY <3>1, FS_CardinalityType
    <3>3. Cardinality(view) = Cardinality(disk) + inserted[h] + 0
      BY DEF CountInv
    <3> QED
      BY <3>1, <3>2, <3>3
  <2>3. /\ IsFiniteSet(view')
        /\ Cardinality(view') = Cardinality(view) + changes'
    <3>1. CASE HasKey(view, r)
      BY <3>1, <2>2, FS_CardinalityType DEF InsertOrIgnore
    <3>2. CASE ~HasKey(view, r)
      <4>1. r \notin view /\ view' = view \cup {r} /\ changes' = 1
        BY <3>2 DEF HasKey, InsertOrIgnore
      <4>2. IsFiniteSet(view \cup {r}) /\ Cardinality(view \cup {r}) = Cardinality(view) + 1
        BY <4>1, <2>2, FS_AddElement, Zenon
      <4> QED
        BY <4>1, <4>2
    <3> QED
      BY <3>1, <3>2
  <2> QED
    BY <2>1, <2>2, <2>3, FS_CardinalityType DEF CountInv
<1>8. UniqueInv'
  BY DEF UniqueInv, InsertOrIgnore, HasKey
<1>9. PruneInv'
  BY DEF PruneInv
<1> QED
  BY <1>1, <1>2, <1>3, <1>4, <1>5, <1>6, <1>7, <1>8, <1>9

\* The loop is left, with or without a rollback by SQLite.
LEMMA InsertRowFailsKeeps ==
  ASSUME IInv, NEW h \in Handler, InsertRowFails(h)
  PROVE  IInv'
<1> USE RoutineAssumption DEF IInv, InsertRowFails, Goto, dbVars, callVars, SqlRollback,
          TypeOK, Routine, HandlerPC, InsertPC, QueryPC, TxPC, LivePC
<1>1. TypeOK'
  OBVIOUS
<1>2. LockInv'
  BY DEF LockInv
<1>3. TxInv'
  BY DEF LockInv, TxInv, DirtyInv
<1>4. StmtInv'
  BY DEF LockInv, TxInv, StmtInv
<1>5. LoopInv'
  BY DEF LockInv, LoopInv
<1>6. DirtyInv'
  BY DEF LockInv, TxInv, LoopInv, DirtyInv, SteppedRows, Stepped, KeySet
<1>7. CountInv'
  BY DEF LockInv, TxInv, LoopInv, CountInv, DirtyInv
<1>8. UniqueInv'
  BY DEF UniqueInv, DirtyInv
<1>9. PruneInv'
  BY DEF PruneInv
<1> QED
  BY <1>1, <1>2, <1>3, <1>4, <1>5, <1>6, <1>7, <1>8, <1>9

\* The count takes in what the last step added.
LEMMA CountKeeps ==
  ASSUME IInv, NEW h \in Handler, Count(h)
  PROVE  IInv'
<1> USE RoutineAssumption DEF IInv, Count, Goto, dbVars, callVars,
          TypeOK, Routine, HandlerPC, InsertPC, QueryPC, TxPC, LivePC
<1>1. TypeOK'
  OBVIOUS
<1>2. LockInv'
  BY DEF LockInv
<1>3. TxInv'
  BY DEF LockInv, TxInv, DirtyInv
<1>4. StmtInv'
  BY DEF LockInv, TxInv, StmtInv
<1>5. LoopInv'
  BY DEF LockInv, LoopInv
<1>6. DirtyInv'
  <2>1. SteppedRows(h)' = SteppedRows(h)
    BY DEF SteppedRows, Stepped, LoopInv
  <2>2. \A g \in Handler : pc'[g] \in TxPC => g = h
    BY DEF LockInv
  <2>3. KeySet(SteppedRows(h))' = KeySet(SteppedRows(h))
    BY <2>1 DEF KeySet
  <2>4. KeySet(view)' = KeySet(view) /\ KeySet(disk)' = KeySet(disk)
    BY DEF KeySet
  <2>5. pc[h] \in LivePC
    OBVIOUS
  <2> QED
    BY <2>1, <2>2, <2>3, <2>4, <2>5 DEF DirtyInv
<1>7. CountInv'
  <2>1. \A g \in Handler : pc'[g] \in TxPC => g = h
    BY DEF LockInv
  <2>2. Cardinality(disk) \in Nat
    BY FS_CardinalityType DEF CountInv
  <2> QED
    BY <2>1, <2>2 DEF CountInv
<1>8. UniqueInv'
  BY DEF UniqueInv, DirtyInv
<1>9. PruneInv'
  BY DEF PruneInv
<1> QED
  BY <1>1, <1>2, <1>3, <1>4, <1>5, <1>6, <1>7, <1>8, <1>9

\* The view becomes the committed table and mu is released.
LEMMA CommitKeeps ==
  ASSUME IInv, NEW h \in Handler, Commit(h)
  PROVE  IInv'
<1> USE RoutineAssumption DEF IInv, Commit, Goto, dbVars, callVars,
          TypeOK, Routine, HandlerPC, InsertPC, QueryPC, TxPC, LivePC
<1>1. TypeOK'
  OBVIOUS
<1>2. LockInv'
  BY DEF LockInv
<1>3. TxInv'
  BY DEF LockInv, TxInv, DirtyInv
<1>4. StmtInv'
  BY DEF LockInv, TxInv, StmtInv
<1>5. LoopInv'
  BY DEF LockInv, LoopInv
<1>6. DirtyInv'
  BY DEF LockInv, TxInv, LoopInv, DirtyInv, SteppedRows, Stepped, KeySet
<1>7. CountInv'
  BY DEF LockInv, TxInv, LoopInv, CountInv, DirtyInv
<1>8. UniqueInv'
  BY DEF UniqueInv, DirtyInv
<1>9. PruneInv'
  BY DEF PruneInv
<1> QED
  BY <1>1, <1>2, <1>3, <1>4, <1>5, <1>6, <1>7, <1>8, <1>9

\* COMMIT fails, with or without a rollback by SQLite.
LEMMA CommitFailsKeeps ==
  ASSUME IInv, NEW h \in Handler, CommitFails(h)
  PROVE  IInv'
<1> USE RoutineAssumption DEF IInv, CommitFails, Goto, dbVars, callVars, SqlRollback,
          TypeOK, Routine, HandlerPC, InsertPC, QueryPC, TxPC, LivePC
<1>1. TypeOK'
  OBVIOUS
<1>2. LockInv'
  BY DEF LockInv
<1>3. TxInv'
  BY DEF LockInv, TxInv, DirtyInv
<1>4. StmtInv'
  BY DEF LockInv, TxInv, StmtInv
<1>5. LoopInv'
  BY DEF LockInv, LoopInv
<1>6. DirtyInv'
  <2>1. SteppedRows(h) \subseteq {batch[h][i] : i \in DOMAIN batch[h]}
    BY DEF SteppedRows, Stepped, LoopInv
  <2>2. \A g \in Handler : pc'[g] \in TxPC => g = h
    BY DEF LockInv
  <2> QED
    BY <2>1, <2>2 DEF DirtyInv
<1>7. CountInv'
  BY DEF LockInv, TxInv, LoopInv, CountInv, DirtyInv
<1>8. UniqueInv'
  BY DEF UniqueInv, DirtyInv
<1>9. PruneInv'
  BY DEF PruneInv
<1> QED
  BY <1>1, <1>2, <1>3, <1>4, <1>5, <1>6, <1>7, <1>8, <1>9

\* ROLLBACK restores the committed table before mu is released.
LEMMA UndoKeeps ==
  ASSUME IInv, NEW h \in Handler, Undo(h)
  PROVE  IInv'
<1> USE RoutineAssumption DEF IInv, Undo, Goto, dbVars, callVars, SqlRollback,
          TypeOK, Routine, HandlerPC, InsertPC, QueryPC, TxPC, LivePC
<1>1. TypeOK'
  OBVIOUS
<1>2. LockInv'
  BY DEF LockInv
<1>3. TxInv'
  BY DEF LockInv, TxInv, DirtyInv
<1>4. StmtInv'
  BY DEF LockInv, TxInv, StmtInv
<1>5. LoopInv'
  BY DEF LockInv, LoopInv
<1>6. DirtyInv'
  BY DEF LockInv, TxInv, LoopInv, DirtyInv, SteppedRows, Stepped, KeySet
<1>7. CountInv'
  BY DEF LockInv, TxInv, LoopInv, CountInv, DirtyInv
<1>8. UniqueInv'
  BY DEF UniqueInv, DirtyInv
<1>9. PruneInv'
  BY DEF PruneInv
<1> QED
  BY <1>1, <1>2, <1>3, <1>4, <1>5, <1>6, <1>7, <1>8, <1>9

\* The pruner has mu: it deletes from the committed table directly.
LEMMA PruneKeeps ==
  ASSUME IInv, Prune
  PROVE  IInv'
<1> USE RoutineAssumption DEF IInv, Prune, Goto, dbVars, callVars, SqlWrite,
          TypeOK, Routine, HandlerPC, InsertPC, QueryPC, TxPC, LivePC
<1>1. TypeOK'
  <2>1. IsFiniteSet(view \ {r \in view : ~(r.EventTime < cutoff)})
    BY FS_Difference DEF CountInv
  <2> QED
    BY <2>1, FS_CardinalityType
<1>2. LockInv'
  BY DEF LockInv
<1>3. TxInv'
  BY DEF LockInv, TxInv, DirtyInv
<1>4. StmtInv'
  BY DEF LockInv, TxInv, StmtInv
<1>5. LoopInv'
  BY DEF LockInv, LoopInv
<1>6. DirtyInv'
  BY DEF DirtyInv, LockInv, TxInv
<1>7. CountInv'
  <2>1. IsFiniteSet(view') /\ view' = disk'
    BY FS_Subset DEF CountInv, TxInv
  <2> QED
    BY <2>1 DEF CountInv, LockInv
<1>8. UniqueInv'
  BY DEF UniqueInv
<1>9. PruneInv'
  BY DEF PruneInv
<1> QED
  BY <1>1, <1>2, <1>3, <1>4, <1>5, <1>6, <1>7, <1>8, <1>9

\* The process is gone, and with it all but the committed table.
LEMMA ExitKeeps ==
  ASSUME IInv, Exit
  PROVE  IInv'
<1> USE RoutineAssumption DEF IInv, Exit, Goto, dbVars, callVars, SqlRollback, NoCalls,
          TypeOK, Routine, HandlerPC, InsertPC, QueryPC, TxPC, LivePC
<1>1. TypeOK'
  <2>1. /\ pc' \in [Routine -> HandlerPC \cup {"prune"}]
        /\ \A h \in Handler : pc'[h] \in HandlerPC
        /\ pc'[Pruner] \in {"idle", "prune"}
    OBVIOUS
  <2>2. /\ batch' \in [Handler -> Seq(Row)]
        /\ next' \in [Handler -> Nat \ {0}]
    OBVIOUS
  <2>3. /\ inserted' \in [Handler -> Nat]
        /\ seen' \in [Handler -> SUBSET Row]
    OBVIOUS
  <2>4. cutoff' \in Int /\ now' \in 0..MaxTime /\ changes' \in Nat /\ cancelled' \in SUBSET Handler
    OBVIOUS
  <2>5. /\ disk' \in SUBSET Row /\ view' \in SUBSET Row
        /\ inTx' \in BOOLEAN /\ open' \in BOOLEAN
        /\ stmts' \in SUBSET Handler
        /\ mu' \in Handler \cup {Free}
        /\ life' \in {"up", "closing", "closed", "down"}
    OBVIOUS
  <2> QED
    BY <2>1, <2>2, <2>3, <2>4, <2>5
<1>2. LockInv'
  BY DEF LockInv
<1>3. TxInv'
  BY DEF LockInv, TxInv, DirtyInv
<1>4. StmtInv'
  BY DEF LockInv, TxInv, StmtInv
<1>5. LoopInv'
  BY DEF LockInv, LoopInv
<1>6. DirtyInv'
  BY DEF LockInv, TxInv, LoopInv, DirtyInv, SteppedRows, Stepped, KeySet
<1>7. CountInv'
  BY DEF LockInv, TxInv, LoopInv, CountInv, DirtyInv
<1>8. UniqueInv'
  BY DEF UniqueInv, DirtyInv
<1>9. PruneInv'
  BY DEF PruneInv
<1> QED
  BY <1>1, <1>2, <1>3, <1>4, <1>5, <1>6, <1>7, <1>8, <1>9

-----------------------------------------------------------------------------
\* A step that changes nothing.
LEMMA StutterKeeps ==
  ASSUME IInv, UNCHANGED vars
  PROVE  IInv'
<1> USE DEF IInv, vars, dbVars, callVars
<1>1. StillTx
  BY DEF StillTx
<1>2. TypeOK' /\ StmtInv' /\ LoopInv' /\ PruneInv'
  BY DEF TypeOK, StmtInv, LoopInv, PruneInv
<1> QED
  BY <1>1, <1>2, StillTxKeeps

\* IInv holds of an empty store.
LEMMA InitIInv == Init => IInv
<1> SUFFICES ASSUME Init PROVE IInv
  OBVIOUS
<1> USE RoutineAssumption, BoundAssumption DEF Init, Routine, HandlerPC, InsertPC, QueryPC, TxPC, LivePC
<1>1. TypeOK
  <2>1. /\ pc \in [Routine -> HandlerPC \cup {"prune"}]
        /\ \A h \in Handler : pc[h] \in HandlerPC
        /\ pc[Pruner] \in {"idle", "prune"}
    OBVIOUS
  <2>2. /\ batch \in [Handler -> Seq(Row)]
        /\ next \in [Handler -> Nat \ {0}]
    OBVIOUS
  <2>3. /\ inserted \in [Handler -> Nat]
        /\ seen \in [Handler -> SUBSET Row]
    OBVIOUS
  <2>4. /\ disk \in SUBSET Row /\ view \in SUBSET Row
        /\ stmts \in SUBSET Handler /\ cancelled \in SUBSET Handler
        /\ mu \in Handler \cup {Free}
        /\ life \in {"up", "closing", "closed", "down"}
    OBVIOUS
  <2>5. inTx \in BOOLEAN /\ open \in BOOLEAN
    OBVIOUS
  <2>6. changes \in Nat /\ cutoff \in Int /\ now \in 0..MaxTime
    OBVIOUS
  <2> QED
    BY <2>1, <2>2, <2>3, <2>4, <2>5, <2>6 DEF TypeOK
<1>2. LockInv /\ TxInv /\ StmtInv /\ LoopInv /\ UniqueInv /\ PruneInv
  BY DEF LockInv, TxInv, StmtInv, LoopInv, UniqueInv, PruneInv
<1>3. DirtyInv
  BY DEF DirtyInv
<1>4. CountInv
  BY FS_EmptySet DEF CountInv
<1> QED
  BY <1>1, <1>2, <1>3, <1>4 DEF IInv

\* Every step keeps IInv.
LEMMA NextKeeps == IInv /\ [Next]_vars => IInv'
<1> SUFFICES ASSUME IInv, [Next]_vars PROVE IInv'
  OBVIOUS
<1>1. ASSUME NEW h \in Handler, Acquire(h) PROVE IInv'
  BY <1>1, BeginKeeps, BeginFailsKeeps, QueryPrepareKeeps, QueryPrepareFailsKeeps DEF Acquire
<1>2. ASSUME NEW h \in Handler, Proceed(h) PROVE IInv'
  BY <1>2, PrepareKeeps, PrepareFailsKeeps, InsertRowKeeps, InsertRowFailsKeeps, CountKeeps,
     CommitKeeps, CommitFailsKeeps, UndoKeeps, TotalsStepKeeps, PageStepKeeps, PageDoneKeeps,
     StepFailsKeeps DEF Proceed
<1>3. ASSUME NEW h \in Handler, Call(h) PROVE IInv'
  BY <1>3, QueryCallKeeps, InsertCallKeeps DEF Call
<1>4. ASSUME NEW h \in Handler, Cancel(h) \/ Return(h) PROVE IInv'
  BY <1>4, CancelKeeps, ReturnKeeps
<1>5. CASE PruneCall \/ Prune \/ PruneFails
  BY <1>5, PruneCallKeeps, PruneKeeps, PruneFailsKeeps
<1>6. CASE Lifecycle
  BY <1>6, ShutdownKeeps, CloseStoreKeeps, ExitKeeps, OpenKeeps DEF Lifecycle
<1>7. CASE Tick
  BY <1>7, TickKeeps
<1>8. CASE UNCHANGED vars
  BY <1>8, StutterKeeps
<1> QED
  BY <1>1, <1>2, <1>3, <1>4, <1>5, <1>6, <1>7, <1>8 DEF Next

\* IInv is an inductive invariant of the store.
THEOREM Invariance == Spec => []IInv
  BY InitIInv, NextKeeps, PTL DEF Spec

-----------------------------------------------------------------------------
\* Every variable keeps its type.
THEOREM TypeCorrectness == Spec => []TypeOK
<1>1. IInv => TypeOK
  BY DEF IInv
<1> QED
  BY <1>1, Invariance, PTL

\* Whoever gets mu finds the connection in autocommit mode, without an
\* uncommitted row of an Insert that failed.
THEOREM NoOrphan == Spec => []NoOrphanTransaction
<1>1. IInv => NoOrphanTransaction
  BY DEF IInv, TxInv, NoOrphanTransaction
<1> QED
  BY <1>1, Invariance, PTL

\* A report that runs without mu reads every committed row, and beyond those
\* only rows of the batch of the one Insert that holds mu.
THEOREM DirtyReadsAreBounded == Spec => []DirtyRowsAreInFlight
<1>1. IInv => DirtyRowsAreInFlight
  <2> SUFFICES ASSUME IInv PROVE DirtyRowsAreInFlight
    OBVIOUS
  <2>1. disk \subseteq view
    BY DEF IInv, DirtyInv
  <2>2. CASE mu = Free
    BY <2>2 DEF IInv, TxInv, DirtyRowsAreInFlight
  <2>3. CASE mu \in Handler
    <3>1. InFlight = {batch[mu][i] : i \in DOMAIN batch[mu]}
      BY <2>3, RoutineAssumption DEF InFlight
    <3>2. pc[mu] \in TxPC
      BY <2>3 DEF IInv, LockInv
    <3>3. CASE pc[mu] = "undo"
      BY <2>1, <2>3, <3>1, <3>3 DEF IInv, DirtyInv, DirtyRowsAreInFlight
    <3>4. CASE pc[mu] \in LivePC
      <4>1. view \ disk \subseteq SteppedRows(mu)
        BY <2>3, <3>4 DEF IInv, DirtyInv
      <4>2. Stepped(mu) \subseteq DOMAIN batch[mu]
        BY <2>3, <3>4 DEF IInv, TypeOK, LoopInv, Stepped, LivePC, TxPC, InsertPC
      <4> QED
        BY <2>1, <3>1, <4>1, <4>2 DEF SteppedRows, DirtyRowsAreInFlight
    <3> QED
      BY <3>2, <3>3, <3>4 DEF LivePC
  <2> QED
    BY <2>2, <2>3 DEF IInv, TypeOK
<1> QED
  BY <1>1, Invariance, PTL

\* One row per event key, on the disk and in every uncommitted table.
THEOREM KeyUniqueness == Spec => []KeysAreUnique
<1>1. IInv => KeysAreUnique
  BY DEF IInv, UniqueInv, DirtyInv, KeysAreUnique
<1> QED
  BY <1>1, Invariance, PTL

\* When the connection is closed no statement and no transaction is left on it.
THEOREM ClosedIsQuiet == Spec => []NoUseAfterClose
<1>1. IInv => NoUseAfterClose
  BY DEF IInv, StmtInv, NoUseAfterClose
<1> QED
  BY <1>1, Invariance, PTL

\* The number an Insert returns is the number of rows its commit added.
THEOREM InsertCount == Spec => InsertedIsExact
<1>1. IInv /\ [Next]_vars =>
        [\A h \in Handler : Commit(h) => Cardinality(disk') = Cardinality(disk) + inserted[h]]_vars
  <2> SUFFICES ASSUME IInv, NEW h \in Handler, Commit(h)
               PROVE  Cardinality(disk') = Cardinality(disk) + inserted[h]
    OBVIOUS
  <2>1. Cardinality(view) = Cardinality(disk) + inserted[h] + 0
    BY DEF IInv, CountInv, Commit, LivePC, TxPC
  <2>2. Cardinality(disk) \in Nat /\ inserted[h] \in Nat
    BY FS_CardinalityType DEF IInv, CountInv, TypeOK
  <2> QED
    BY <2>1, <2>2 DEF Commit
<1> QED
  BY <1>1, Invariance, PTL DEF Spec, InsertedIsExact

-----------------------------------------------------------------------------
\* The committed table changes by a commit or by the pruner, and by nothing else.
LEMMA DiskStep ==
  ASSUME IInv, [Next]_vars
  PROVE  \/ disk' = disk /\ now' = now
         \/ \E h \in Handler : Commit(h)
         \/ Prune
         \/ disk' = disk /\ Tick
<1> USE DEF dbVars, callVars
<1>1. ASSUME NEW h \in Handler, Acquire(h) PROVE disk' = disk /\ now' = now
  BY <1>1 DEF Acquire, Begin, BeginFails, QueryPrepare, QueryPrepareFails
<1>2. ASSUME NEW h \in Handler, Proceed(h) PROVE Commit(h) \/ (disk' = disk /\ now' = now)
  <2>1. CASE InsertRow(h)
    BY <2>1 DEF InsertRow, SqlWrite, IInv, TxInv, LivePC, TxPC
  <2>2. CASE InsertRowFails(h) \/ CommitFails(h) \/ Undo(h)
    BY <2>2 DEF InsertRowFails, CommitFails, Undo, SqlRollback
  <2>3. CASE Prepare(h) \/ PrepareFails(h) \/ Count(h)
    BY <2>3 DEF Prepare, PrepareFails, Count
  <2>4. CASE TotalsStep(h) \/ PageStep(h) \/ PageDone(h) \/ StepFails(h)
    BY <2>4 DEF TotalsStep, PageStep, PageDone, StepFails, QueryReturn
  <2> QED
    BY <1>2, <2>1, <2>2, <2>3, <2>4 DEF Proceed
<1>3. ASSUME NEW h \in Handler, Call(h) \/ Cancel(h) \/ Return(h)
      PROVE  disk' = disk /\ now' = now
  BY <1>3 DEF Call, InsertCall, QueryCall, Cancel, Return
<1>4. CASE PruneCall \/ PruneFails
  BY <1>4 DEF PruneCall, PruneFails
<1>5. CASE Lifecycle
  BY <1>5 DEF Lifecycle, Shutdown, CloseStore, Exit, Open, SqlRollback
<1>6. CASE Tick
  BY <1>6 DEF Tick
<1>7. CASE UNCHANGED vars
  BY <1>7 DEF vars
<1> QED
  BY <1>1, <1>2, <1>3, <1>4, <1>5, <1>6, <1>7 DEF Next

\* With retention_days at 0 no step removes a committed row.
THEOREM Permanence == Spec => HistoryIsPermanent
<1>1. IInv /\ [Next]_vars => [Retention <= 0 => disk \subseteq disk']_vars
  <2> SUFFICES ASSUME IInv, [Next]_vars, Retention <= 0
               PROVE  disk \subseteq disk'
    OBVIOUS
  <2>1. ASSUME NEW h \in Handler, Commit(h) PROVE disk \subseteq disk'
    BY <2>1 DEF Commit, IInv, DirtyInv
  <2>2. ~Prune
    BY BoundAssumption DEF Prune, IInv, PruneInv
  <2> QED
    BY <2>1, <2>2, DiskStep
<1> QED
  BY <1>1, Invariance, PTL DEF Spec, HistoryIsPermanent

-----------------------------------------------------------------------------
\* A commit is the recording of a whole batch.
LEMMA CommitRecords ==
  ASSUME IInv, NEW h \in Handler, Commit(h)
  PROVE  Log!Record
<1> DEFINE b == batch[h]
<1>1. b \in Batch /\ b \in Seq(Row) /\ next[h] = Len(b) + 1
  BY BatchAssumption DEF Commit, IInv, LoopInv, InsertPC
<1>2. SteppedRows(h) = Log!RowsOf(b)
  BY <1>1 DEF SteppedRows, Stepped, Log!RowsOf, Commit
<1>3. /\ disk \subseteq view
      /\ view \ disk \subseteq Log!RowsOf(b)
      /\ Log!KeysOf(view) = Log!KeysOf(disk) \cup Log!KeysOf(Log!RowsOf(b))
  BY <1>2 DEF Commit, IInv, DirtyInv, LivePC, TxPC, KeySet, Log!KeysOf
<1>4. Log!KeysUnique(view)
  BY DEF IInv, UniqueInv, Log!KeysUnique
<1>5. disk' = view /\ now' = now
  BY DEF Commit
<1> QED
  BY <1>1, <1>3, <1>4, <1>5 DEF Log!Record, Log!Records

\* The pruner's DELETE is an expiry: the cutoff was computed earlier, so it is
\* not later than the clock allows.
LEMMA PruneExpires ==
  ASSUME IInv, Prune
  PROVE  Log!Expire
<1>1. /\ Retention > 0
      /\ cutoff <= now - Retention
      /\ disk' = {r \in disk : ~(r.EventTime < cutoff)}
      /\ now' = now
  BY DEF Prune, SqlWrite, IInv, PruneInv, TxInv
<1>2. /\ disk \subseteq Row /\ cutoff \in Int /\ now \in Int /\ Retention \in Int
  BY BoundAssumption DEF IInv, TypeOK
<1> QED
  BY <1>1, <1>2, RowAssumption DEF Log!Expire, Log!Expires

\* The store implements the usage log: an Insert records its whole batch in
\* one step or nothing of it, and rows leave the log by expiry only.
THEOREM Refinement == Spec => ImplementsUsageLog
<1>1. Init => Log!UInit
  BY DEF Init, Log!UInit
<1>2. IInv /\ [Next]_vars => [Log!UNext]_(Log!usageVars)
  <2> SUFFICES ASSUME IInv, [Next]_vars PROVE [Log!UNext]_(Log!usageVars)
    OBVIOUS
  <2>1. CASE disk' = disk /\ now' = now
    BY <2>1 DEF Log!usageVars
  <2>2. ASSUME NEW h \in Handler, Commit(h) PROVE Log!UNext
    BY <2>2, CommitRecords DEF Log!UNext
  <2>3. CASE Prune
    BY <2>3, PruneExpires DEF Log!UNext
  <2>4. CASE disk' = disk /\ Tick
    BY <2>4 DEF Tick, Log!UNext, Log!Tick
  <2> QED
    BY <2>1, <2>2, <2>3, <2>4, DiskStep
<1> QED
  BY <1>1, <1>2, Invariance, PTL DEF Spec, ImplementsUsageLog, Log!USpec
=============================================================================
