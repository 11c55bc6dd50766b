-------------------------- MODULE CollectorProofs ---------------------------
(***************************************************************************)
(* Proofs about Collector, for any exporters, requests, tokens and         *)
(* handlers: the composition only ever takes steps of the store, a request *)
(* that was answered 200 is kept, the rows of the table come from requests *)
(* with the token, and a request is in the committed table whole or not at *)
(* all, and counts once.                                                   *)
(***************************************************************************)
EXTENDS Collector, StoreProofs

\* What a handler inserts is the request of its exporter, and what it is
\* about to answer 200 for is kept.
ServeInv ==
  \A h \in Handler : conn[h] # None =>
    /\ conn[h] \in Export
    /\ pc[h] \in InsertPC => \E t \in 0..now : batch[h] = Rows(conn[h], t)
    /\ pc[h] = "ok" => KeptWhole(conn[h])

CInv ==
  /\ IInv
  /\ CTypeOK
  /\ ServeInv
  /\ AckedIsStored

-----------------------------------------------------------------------------
\* Every step of the composition is a step of the store or leaves it alone.
LEMMA StepMaps ==
  ASSUME IInv, [CNext]_cvars
  PROVE  [Next]_vars
<1>1. ASSUME NEW e \in Export, Timeout(e) \/ GiveUp(e) \/ \E h \in Handler : Send(e, h)
      PROVE  UNCHANGED vars
  BY <1>1 DEF Timeout, GiveUp, Send
<1>2. ASSUME NEW h \in Handler, Reject(h) \/ Respond(h) \/ ReadFails(h)
      PROVE  Return(h)
  BY <1>2 DEF Reject, Respond, ReadFails, Answer
<1>3. ASSUME NEW h \in Handler, Ingest(h)
      PROVE  \E b \in Batch : InsertCall(h, b)
  BY <1>3, DecodedAssumption DEF Ingest, Acceptable, Accepted, IInv, TypeOK
<1>4. ASSUME NEW h \in Handler, Work(h) \/ Fail(h)
      PROVE  Acquire(h) \/ Proceed(h)
  BY <1>4 DEF Work, Fail, Failure, Acquire, Proceed
<1>5. ASSUME NEW h \in Handler, Notice(h)
      PROVE  Cancel(h)
  BY <1>5 DEF Notice
<1>6. CASE Stop \/ End
  BY <1>6 DEF Stop, End, Next, Lifecycle
<1>7. CASE Manage
  BY <1>7 DEF Manage, Next, Lifecycle
<1>8. CASE UNCHANGED cvars
  BY <1>8 DEF cvars
<1> QED
  BY <1>1, <1>2, <1>3, <1>4, <1>5, <1>6, <1>7, <1>8 DEF CNext, Serve, Next, Call

\* The composition implements the store: what is proved of Spec holds of it.
THEOREM Composition == CSpec => Spec
<1>1. CInit => Init
  BY DEF CInit
<1>2. IInv /\ [CNext]_cvars => [Next]_vars
  BY StepMaps
<1> QED
  BY <1>1, <1>2, InitIInv, NextKeeps, PTL DEF CSpec, Spec

-----------------------------------------------------------------------------
\* A row that is kept stays kept: commits only add rows, the pruner removes
\* what has expired, and what has expired stays expired.
LEMMA KeptIsStable ==
  ASSUME IInv, [Next]_vars, NEW r \in Row, Kept(r)
  PROVE  Kept(r)'
<1> USE DEF Kept, KeysIn
<1>1. CASE disk' = disk /\ now' = now
  BY <1>1
<1>2. ASSUME NEW h \in Handler, Commit(h)
      PROVE  Kept(r)'
  <2>1. disk \subseteq disk' /\ now' = now
    BY <1>2 DEF Commit, IInv, DirtyInv
  <2> QED
    BY <2>1
<1>3. CASE Prune
  <2>1. /\ Retention > 0 /\ cutoff <= now - Retention /\ now' = now
        /\ disk' = {s \in disk : ~(s.EventTime < cutoff)}
    BY <1>3 DEF Prune, SqlWrite, IInv, PruneInv, TxInv
  <2>2. disk \subseteq Row /\ cutoff \in Int /\ now \in Int /\ Retention \in Int
    BY BoundAssumption DEF IInv, TypeOK
  <2>3. CASE r.EventKey \in KeysIn(disk)
    <3>1. PICK s \in disk : s.EventKey = r.EventKey
      BY <2>3
    <3>2. s.EventTime = r.EventTime /\ s.EventTime \in Int
      BY <2>2, <3>1, KeyTimeAssumption, RowAssumption
    <3>3. CASE s.EventTime < cutoff
      BY <2>1, <2>2, <3>2, <3>3
    <3>4. CASE ~(s.EventTime < cutoff)
      BY <2>1, <3>1, <3>4
    <3> QED
      BY <3>3, <3>4
  <2> QED
    BY <2>1, <2>3
<1>4. CASE disk' = disk /\ Tick
  <2>1. now' = now + 1 /\ now \in Int /\ Retention \in Int /\ r.EventTime \in Int
    BY <1>4, BoundAssumption, RowAssumption DEF Tick, IInv, TypeOK
  <2> QED
    BY <1>4, <2>1
<1> QED
  BY <1>1, <1>2, <1>3, <1>4, DiskStep

\* Time only passes.
LEMMA TimePasses ==
  ASSUME IInv, [Next]_vars
  PROVE  now \in 0..MaxTime /\ now' \in Int /\ now <= now'
<1>1. now \in 0..MaxTime
  BY DEF IInv, TypeOK
<1>2. now' = now \/ now' = now + 1
  BY DiskStep DEF Commit, Prune, Tick
<1> QED
  BY <1>1, <1>2, BoundAssumption

\* So does a request.
LEMMA KeptWholeIsStable ==
  ASSUME IInv, [Next]_vars, NEW e \in Export, KeptWhole(e)
  PROVE  KeptWhole(e)'
<1>1. PICK t \in 0..now : \A i \in DOMAIN Rows(e, t) : Kept(Rows(e, t)[i])
  BY DEF KeptWhole
<1>2. now \in 0..MaxTime /\ t \in 0..now'
  BY TimePasses, BoundAssumption
<1>3. Rows(e, t) \in Seq(Row)
  BY <1>2, DecodedAssumption, BatchAssumption, BoundAssumption
<1>4. ASSUME NEW i \in DOMAIN Rows(e, t)
      PROVE  Kept(Rows(e, t)[i])'
  BY <1>1, <1>3, <1>4, KeptIsStable
<1> QED
  BY <1>2, <1>4 DEF KeptWhole

-----------------------------------------------------------------------------
\* ServeInv for one handler.
Served(h) ==
  conn[h] # None =>
    /\ conn[h] \in Export
    /\ pc[h] \in InsertPC => \E t \in 0..now : batch[h] = Rows(conn[h], t)
    /\ pc[h] = "ok" => KeptWhole(conn[h])

\* A handler that keeps its request and its batch, and does not come to "ok".
LEMMA ServedIsStable ==
  ASSUME CInv, [CNext]_cvars, NEW h \in Handler,
         conn'[h] = conn[h], batch'[h] = batch[h],
         pc'[h] = pc[h] \/ (pc[h] \in InsertPC /\ pc'[h] # "ok")
  PROVE  Served(h)'
<1>1. [Next]_vars
  BY StepMaps DEF CInv
<1>2. now \in 0..MaxTime /\ now' \in Int /\ now <= now'
  BY <1>1, TimePasses DEF CInv
<1>3. CASE conn[h] = None
  BY <1>3 DEF Served
<1>4. CASE conn[h] # None
  <2>1. conn[h] \in Export
    BY <1>4 DEF CInv, ServeInv
  <2>2. ASSUME pc'[h] \in InsertPC
        PROVE  \E t \in 0..now' : batch'[h] = Rows(conn[h], t)
    <3>1. pc[h] \in InsertPC
      BY <2>2
    <3>2. PICK t \in 0..now : batch[h] = Rows(conn[h], t)
      BY <1>4, <3>1 DEF CInv, ServeInv
    <3> QED
      BY <1>2, <3>2
  <2>3. ASSUME pc'[h] = "ok"
        PROVE  KeptWhole(conn[h])'
    <3>1. KeptWhole(conn[h])
      BY <1>4, <2>3 DEF CInv, ServeInv, InsertPC
    <3>2. ASSUME NEW e \in Export, KeptWhole(e)
          PROVE  KeptWhole(e)'
      BY <1>1, <3>2, KeptWholeIsStable DEF CInv
    <3>3. \A e \in Export : KeptWhole(e) => KeptWhole(e)'
      BY <3>2
    <3> QED
      BY <2>1, <3>1, <3>3
  <2> QED
    BY <2>1, <2>2, <2>3 DEF Served
<1> QED
  BY <1>3, <1>4

\* Decode at the arrival: a request without usage events is kept at once.
LEMMA IngestServes ==
  ASSUME CInv, NEW h \in Handler, Ingest(h)
  PROVE  Served(h)'
<1>1. /\ conn' = conn /\ now' = now /\ conn[h] \in Export
      /\ batch'[h] = Rows(conn[h], now)
      /\ pc'[h] = "ok" => Rows(conn[h], now) = <<>>
  BY DEF Ingest, InsertCall, Goto, netVars, Acceptable, Accepted, CInv, IInv, TypeOK, Routine
<1>2. now \in 0..now'
  BY <1>1 DEF CInv, IInv, TypeOK
<1>3. Rows(conn[h], now) = <<>> => KeptWhole(conn[h])'
  BY <1>1, <1>2 DEF KeptWhole
<1> QED
  BY <1>1, <1>2, <1>3 DEF Served

\* A commit stores the whole request.
LEMMA CommitServes ==
  ASSUME CInv, NEW h \in Handler, Commit(h), conn' = conn
  PROVE  Served(h)'
<1>1. CASE conn[h] = None
  BY <1>1 DEF Served
<1>2. CASE conn[h] # None
  <2>1. /\ conn[h] \in Export /\ pc[h] = "commit" /\ pc'[h] = "ok"
        /\ now' = now /\ disk' = view
    BY <1>2 DEF Commit, Goto, CInv, ServeInv, IInv, TypeOK, Routine
  <2>2. PICK t \in 0..now : batch[h] = Rows(conn[h], t)
    BY <1>2, <2>1 DEF CInv, ServeInv, InsertPC
  <2>3. batch[h] \in Seq(Row) /\ next[h] = Len(batch[h]) + 1
    BY <2>1 DEF CInv, IInv, TypeOK, LoopInv
  <2>4. ASSUME NEW i \in DOMAIN batch[h]
        PROVE  batch[h][i].EventKey \in KeysIn(view)
    <3>1. batch[h][i] \in SteppedRows(h)
      BY <2>1, <2>3, <2>4 DEF SteppedRows, Stepped
    <3>2. KeySet(view) = KeySet(disk) \cup KeySet(SteppedRows(h))
      BY <2>1 DEF CInv, IInv, DirtyInv, LivePC, TxPC
    <3> QED
      BY <3>1, <3>2 DEF KeySet, KeysIn
  <2>5. KeptWhole(conn[h])'
    BY <2>1, <2>2, <2>4 DEF KeptWhole, Kept, KeysIn
  <2> QED
    BY <2>1, <2>5 DEF Served, InsertPC
<1> QED
  BY <1>1, <1>2

\* Every step keeps what ServeInv says of each handler.
LEMMA ServeKeeps ==
  ASSUME CInv, [CNext]_cvars
  PROVE  ServeInv'
<1>1. SUFFICES ASSUME NEW g \in Handler PROVE Served(g)'
  BY DEF ServeInv, Served
<1> USE DEF netVars, vars, dbVars, callVars
<1>2. pc \in [Routine -> HandlerPC \cup {"prune"}] /\ Handler \subseteq Routine /\ Pruner \notin Handler
  BY RoutineAssumption DEF CInv, IInv, TypeOK, Routine
<1>3. ASSUME UNCHANGED <<conn, pc, batch>> PROVE Served(g)'
  BY <1>3, ServedIsStable
<1>4. ASSUME NEW e \in Export, Timeout(e) \/ GiveUp(e) PROVE Served(g)'
  BY <1>4, <1>3 DEF Timeout, GiveUp
<1>5. ASSUME NEW e \in Export, NEW h \in Handler, Send(e, h) PROVE Served(g)'
  <2>1. CASE g = h
    BY <1>5, <2>1 DEF Send, Served, InsertPC, CInv, CTypeOK
  <2>2. CASE g # h
    BY <1>5, <2>2, ServedIsStable DEF Send, CInv, CTypeOK
  <2> QED
    BY <2>1, <2>2
<1>6. ASSUME NEW h \in Handler, Reject(h) \/ Respond(h) \/ ReadFails(h) PROVE Served(g)'
  <2>1. Answer(h, {"dropped"}) \/ Answer(h, {"acked"}) \/ Answer(h, AfterLoss(conn[h])) \/ Answer(h, {})
    BY <1>6 DEF Reject, Respond, ReadFails
  <2>2. conn' = [conn EXCEPT ![h] = None] /\ Return(h)
    BY <2>1 DEF Answer
  <2>3. CASE g = h
    BY <2>2, <2>3 DEF Served, CInv, CTypeOK
  <2>4. CASE g # h
    <3>1. conn'[g] = conn[g] /\ pc'[g] = pc[g] /\ batch'[g] = batch[g]
      BY <1>2, <2>2, <2>4 DEF Return, Goto, CInv, CTypeOK, IInv, TypeOK
    <3> QED
      BY <3>1, ServedIsStable
  <2> QED
    BY <2>3, <2>4
<1>7. ASSUME NEW h \in Handler, Ingest(h) PROVE Served(g)'
  <2>1. CASE g = h
    BY <1>7, <2>1, IngestServes
  <2>2. CASE g # h
    <3>1. conn'[g] = conn[g] /\ pc'[g] = pc[g] /\ batch'[g] = batch[g]
      BY <1>2, <1>7, <2>2 DEF Ingest, InsertCall, Goto, CInv, IInv, TypeOK
    <3> QED
      BY <3>1, ServedIsStable
  <2> QED
    BY <2>1, <2>2
<1>8. ASSUME NEW h \in Handler, Work(h) \/ Fail(h) PROVE Served(g)'
  <2>1. conn' = conn
    BY <1>8 DEF Work, Fail
  <2>2. CASE Commit(h)
    <3>1. CASE g = h
      BY <2>1, <2>2, <3>1, CommitServes
    <3>2. CASE g # h
      <4>1. pc'[g] = pc[g] /\ batch'[g] = batch[g]
        BY <1>2, <2>2, <3>2 DEF Commit, Goto
      <4> QED
        BY <2>1, <4>1, ServedIsStable
    <3> QED
      BY <3>1, <3>2
  <2>3. CASE ~Commit(h)
    <3>1. \/ Begin(h) \/ Prepare(h) \/ InsertRow(h) \/ Count(h) \/ Undo(h)
          \/ BeginFails(h) \/ PrepareFails(h) \/ InsertRowFails(h) \/ CommitFails(h)
      BY <1>8, <2>3 DEF Work, Fail, Failure
    <3>2. /\ batch' = batch
          /\ pc[h] \in InsertPC
          /\ \E l \in InsertPC \cup {"err"} : pc' = [pc EXCEPT ![h] = l]
      BY <3>1 DEF Begin, Prepare, InsertRow, Count, Undo, BeginFails, PrepareFails, InsertRowFails,
                  CommitFails, Goto, InsertPC
    <3>3. pc'[g] = pc[g] \/ (pc[g] \in InsertPC /\ pc'[g] # "ok")
      BY <1>2, <3>2 DEF InsertPC
    <3> QED
      BY <2>1, <3>2, <3>3, ServedIsStable
  <2> QED
    BY <2>2, <2>3
<1>9. ASSUME NEW h \in Handler, Notice(h) PROVE Served(g)'
  BY <1>9, <1>3 DEF Notice, Cancel
<1>10. CASE Stop
  BY <1>10, <1>3 DEF Stop, Shutdown
<1>11. CASE End
  BY <1>11 DEF End, Served
<1>12. CASE Manage
  <2>1. conn'[g] = conn[g] /\ pc'[g] = pc[g] /\ batch'[g] = batch[g]
    BY <1>2, <1>12 DEF Manage, CloseStore, Open, PruneCall, Prune, PruneFails, Tick, Goto
  <2> QED
    BY <2>1, ServedIsStable
<1>13. CASE UNCHANGED cvars
  BY <1>13, <1>3 DEF cvars
<1> QED
  BY <1>4, <1>5, <1>6, <1>7, <1>8, <1>9, <1>10, <1>11, <1>12, <1>13 DEF CNext, Serve

\* An exporter comes to "acked" by an answer of a handler at "ok" only.
LEMMA AckKeeps ==
  ASSUME CInv, [CNext]_cvars
  PROVE  AckedIsStored'
<1>1. [Next]_vars
  BY StepMaps DEF CInv
<1>2. SUFFICES ASSUME NEW e \in Export, exp'[e] = "acked"
               PROVE  KeptWhole(e)'
  BY DEF AckedIsStored
<1>3. SUFFICES KeptWhole(e)
  BY <1>1, KeptWholeIsStable DEF CInv
<1>4. CASE exp[e] = "acked"
  BY <1>4 DEF CInv, AckedIsStored
<1>5. CASE exp[e] # "acked"
  <2> USE DEF CInv, CTypeOK
  <2>1. ASSUME NEW d \in Export, Timeout(d) \/ GiveUp(d) \/ \E h \in Handler : Send(d, h)
        PROVE  FALSE
    BY <1>2, <1>5, <2>1 DEF Timeout, GiveUp, Send, AfterLoss
  <2>2. ASSUME NEW h \in Handler, Reject(h) \/ ReadFails(h)
        PROVE  FALSE
    BY <1>2, <1>5, <2>2 DEF Reject, ReadFails, Answer
  <2>3. ASSUME NEW h \in Handler, Respond(h)
        PROVE  KeptWhole(e)
    <3>1. CASE pc[h] = "ok"
      <4>1. conn[h] = e
        BY <1>2, <1>5, <2>3, <3>1 DEF Respond, Answer
      <4> QED
        BY <2>3, <3>1, <4>1 DEF Respond, ServeInv
    <3>2. CASE pc[h] = "err"
      BY <1>2, <1>5, <2>3, <3>2 DEF Respond, Answer, AfterLoss
    <3> QED
      BY <2>3, <3>1, <3>2 DEF Respond
  <2>4. ASSUME NEW h \in Handler, Ingest(h) \/ Work(h) \/ Fail(h) \/ Notice(h)
        PROVE  FALSE
    BY <1>2, <1>5, <2>4 DEF Ingest, Work, Fail, Notice, netVars
  <2>5. CASE Stop \/ End
    BY <1>2, <1>5, <2>5 DEF Stop, End, Disconnect, AfterLoss
  <2>6. CASE Manage \/ UNCHANGED cvars
    BY <1>2, <1>5, <2>6 DEF Manage, cvars, netVars
  <2> QED
    BY <2>1, <2>2, <2>3, <2>4, <2>5, <2>6 DEF CNext, Serve
<1> QED
  BY <1>4, <1>5

\* Every step keeps the types of the composition.
LEMMA CTypeKeeps ==
  ASSUME CInv, [CNext]_cvars
  PROVE  CTypeOK'
<1>1. TypeOK'
  <2>1. [Next]_vars
    BY StepMaps DEF CInv
  <2> QED
    BY <2>1, NextKeeps DEF CInv, IInv
<1> SUFFICES /\ conn' \in [Handler -> Export \cup {None}]
             /\ gone' \subseteq {h \in Handler : conn'[h] # None}
             /\ exp' \in [Export -> ExportState]
             /\ faults' \in 0..MaxFaults
  BY <1>1 DEF CTypeOK
<1> USE ExportAssumption DEF CInv, CTypeOK, ExportState, AfterLoss, Fault, netVars
<1>2. ASSUME NEW e \in Export, Timeout(e)
      PROVE  /\ conn' \in [Handler -> Export \cup {None}]
             /\ gone' \subseteq {h \in Handler : conn'[h] # None}
             /\ exp' \in [Export -> {"ready", "waiting", "acked", "dropped"}]
             /\ faults' \in 0..MaxFaults
  BY <1>2 DEF Timeout
<1>3. ASSUME NEW e \in Export, GiveUp(e) \/ \E h \in Handler : Send(e, h)
      PROVE  /\ conn' \in [Handler -> Export \cup {None}]
             /\ gone' \subseteq {h \in Handler : conn'[h] # None}
             /\ exp' \in [Export -> {"ready", "waiting", "acked", "dropped"}]
             /\ faults' \in 0..MaxFaults
  BY <1>3 DEF GiveUp, Send
<1>4. ASSUME NEW h \in Handler, NEW S \in SUBSET {"ready", "acked", "dropped"}, Answer(h, S)
      PROVE  /\ conn' \in [Handler -> Export \cup {None}]
             /\ gone' \subseteq {g \in Handler : conn'[g] # None}
             /\ exp' \in [Export -> {"ready", "waiting", "acked", "dropped"}]
             /\ faults' \in 0..MaxFaults
  BY <1>4 DEF Answer
<1>5. ASSUME NEW h \in Handler, Reject(h) \/ Respond(h) \/ ReadFails(h)
      PROVE  \E S \in SUBSET {"ready", "acked", "dropped"} : Answer(h, S)
  BY <1>5 DEF Reject, Respond, ReadFails
<1>6. ASSUME NEW h \in Handler, Ingest(h) \/ Work(h) \/ Fail(h) \/ Notice(h)
      PROVE  UNCHANGED <<conn, gone, exp>> /\ faults' \in 0..MaxFaults
  BY <1>6 DEF Ingest, Work, Fail, Notice
<1>7. CASE Stop \/ End
  <2>1. exp' \in [Export -> {"ready", "waiting", "acked", "dropped"}]
    BY <1>7 DEF Stop, End, Disconnect
  <2>2. /\ conn' \in [Handler -> Export \cup {None}]
        /\ gone' \subseteq {h \in Handler : conn'[h] # None}
    BY <1>7 DEF Stop, End
  <2>3. faults' \in 0..MaxFaults
    BY <1>7 DEF Stop, End
  <2> QED
    BY <2>1, <2>2, <2>3
<1>8. CASE Manage \/ UNCHANGED cvars
  BY <1>8 DEF Manage, cvars
<1> QED
  BY <1>2, <1>3, <1>4, <1>5, <1>6, <1>7, <1>8 DEF CNext, Serve

\* CInv holds initially.
LEMMA CInitInv == CInit => CInv
<1> SUFFICES ASSUME CInit PROVE CInv
  OBVIOUS
<1>1. IInv
  BY InitIInv DEF CInit
<1>2. CTypeOK /\ ServeInv /\ AckedIsStored
  BY <1>1, ExportAssumption DEF CInit, CTypeOK, IInv, ServeInv, AckedIsStored, ExportState
<1> QED
  BY <1>1, <1>2 DEF CInv

\* CInv is an inductive invariant of the collector.
THEOREM CInvariance == CSpec => []CInv
<1>1. CInv /\ [CNext]_cvars => CInv'
  <2> SUFFICES ASSUME CInv, [CNext]_cvars PROVE CInv'
    OBVIOUS
  <2>1. IInv'
    BY StepMaps, NextKeeps DEF CInv
  <2> QED
    BY <2>1, CTypeKeeps, ServeKeeps, AckKeeps DEF CInv
<1> QED
  BY <1>1, CInitInv, PTL DEF CSpec

\* The types of the composition.
THEOREM CTypeCorrectness == CSpec => []CTypeOK
<1>1. CInv => CTypeOK
  BY DEF CInv
<1> QED
  BY <1>1, CInvariance, PTL

\* A request that was answered 200 is in the committed table from then on,
\* through timeouts, retries, failures, crashes and restarts, except for the
\* rows whose retention period is over.
THEOREM AckedIsKept == CSpec => []AckedIsStored
<1>1. CInv => AckedIsStored
  BY DEF CInv
<1> QED
  BY <1>1, CInvariance, PTL

-----------------------------------------------------------------------------
\* An event of a request with the configured token.
FromBearer(r) ==
  \E e \in Export, t \in 0..now :
    Bearer[e] = IngestToken /\ \E i \in DOMAIN Rows(e, t) : r = Rows(e, t)[i]

\* An event of a request that is kept whole.
FromWhole(r) ==
  \E e \in Export, t \in 0..now :
    /\ \E i \in DOMAIN Rows(e, t) : r = Rows(e, t)[i]
    /\ \A i \in DOMAIN Rows(e, t) : Kept(Rows(e, t)[i])

\* Who is in Insert has shown the token.
BearerInv ==
  \A h \in Handler : pc[h] \in InsertPC => conn[h] # None /\ Bearer[conn[h]] = IngestToken

WInv ==
  /\ CInv
  /\ BearerInv
  /\ \A r \in view : FromBearer(r)
  /\ \A r \in disk : FromWhole(r)

-----------------------------------------------------------------------------
\* BearerInv for one handler.
Shown(h) == pc[h] \in InsertPC => conn[h] # None /\ Bearer[conn[h]] = IngestToken

\* Insert is entered from Ingest only, which has compared the token, and the
\* request of a handler does not change before the handler returns.
LEMMA BearerKeeps ==
  ASSUME CInv, BearerInv, [CNext]_cvars
  PROVE  BearerInv'
<1>1. SUFFICES ASSUME NEW g \in Handler PROVE Shown(g)'
  BY DEF BearerInv, Shown
<1>2. Shown(g)
  BY DEF BearerInv, Shown
<1>3. pc \in [Routine -> HandlerPC \cup {"prune"}] /\ Handler \subseteq Routine /\ Pruner \notin Handler
  BY RoutineAssumption DEF CInv, IInv, TypeOK, Routine
<1>4. conn \in [Handler -> Export \cup {None}]
  BY DEF CInv, CTypeOK
<1>5. ASSUME conn'[g] = conn[g], pc'[g] \in InsertPC => pc[g] \in InsertPC
      PROVE  Shown(g)'
  BY <1>2, <1>5 DEF Shown
<1>6. ASSUME NEW e \in Export, Timeout(e) \/ GiveUp(e)
      PROVE  Shown(g)'
  BY <1>5, <1>6 DEF Timeout, GiveUp, vars
<1>7. ASSUME NEW e \in Export, NEW h \in Handler, Send(e, h)
      PROVE  Shown(g)'
  <2>1. pc' = pc /\ pc[h] = "idle" /\ conn' = [conn EXCEPT ![h] = e]
    BY <1>7 DEF Send, vars
  <2>2. CASE g = h
    BY <2>1, <2>2 DEF Shown, InsertPC
  <2>3. CASE g # h
    BY <1>4, <1>5, <2>1, <2>3
  <2> QED
    BY <2>2, <2>3
<1>8. ASSUME NEW h \in Handler, Reject(h) \/ Respond(h) \/ ReadFails(h)
      PROVE  Shown(g)'
  <2>1. conn' = [conn EXCEPT ![h] = None] /\ pc' = [pc EXCEPT ![h] = "idle"]
    BY <1>8 DEF Reject, Respond, ReadFails, Answer, Return, Goto
  <2>2. CASE g = h
    BY <1>3, <2>1, <2>2 DEF Shown, InsertPC
  <2>3. CASE g # h
    BY <1>3, <1>4, <1>5, <2>1, <2>3
  <2> QED
    BY <2>2, <2>3
<1>9. ASSUME NEW h \in Handler, Ingest(h)
      PROVE  Shown(g)'
  <2>1. /\ conn' = conn /\ conn[h] # None /\ Bearer[conn[h]] = IngestToken
        /\ \E l \in {"ok", "err", "lock"} : pc' = [pc EXCEPT ![h] = l]
    BY <1>9 DEF Ingest, Acceptable, Accepted, authorized, InsertCall, Goto, netVars
  <2>2. CASE g = h
    BY <2>1, <2>2 DEF Shown
  <2>3. CASE g # h
    BY <1>3, <1>5, <2>1, <2>3
  <2> QED
    BY <2>2, <2>3
<1>10. ASSUME NEW h \in Handler, Work(h) \/ Fail(h)
       PROVE  Shown(g)'
  <2>1. conn' = conn
    BY <1>10 DEF Work, Fail, netVars
  <2>2. \/ Begin(h) \/ Prepare(h) \/ InsertRow(h) \/ Count(h) \/ Undo(h) \/ Commit(h)
        \/ BeginFails(h) \/ PrepareFails(h) \/ InsertRowFails(h) \/ CommitFails(h)
    BY <1>10 DEF Work, Fail, Failure
  <2>3. pc[h] \in InsertPC /\ \E l \in InsertPC \cup {"ok", "err"} : pc' = [pc EXCEPT ![h] = l]
    BY <2>2 DEF Begin, Prepare, InsertRow, Count, Undo, Commit, BeginFails, PrepareFails, InsertRowFails,
                CommitFails, Goto, InsertPC
  <2>4. pc'[g] = pc[g] \/ pc[g] \in InsertPC
    BY <1>3, <2>3
  <2> QED
    BY <1>5, <2>1, <2>4
<1>11. ASSUME NEW h \in Handler, Notice(h)
       PROVE  Shown(g)'
  BY <1>5, <1>11 DEF Notice, Cancel, netVars
<1>12. CASE Stop
  BY <1>5, <1>12 DEF Stop, Shutdown
<1>13. CASE End
  BY <1>3, <1>13 DEF End, Exit, NoCalls, Shown, InsertPC
<1>14. CASE Manage
  <2>1. conn'[g] = conn[g] /\ pc'[g] = pc[g]
    BY <1>3, <1>14 DEF Manage, CloseStore, Open, PruneCall, Prune, PruneFails, Tick, Goto, netVars
  <2> QED
    BY <1>5, <2>1
<1>15. CASE UNCHANGED cvars
  BY <1>5, <1>15 DEF cvars, vars, netVars
<1> QED
  BY <1>6, <1>7, <1>8, <1>9, <1>10, <1>11, <1>12, <1>13, <1>14, <1>15 DEF CNext, Serve

-----------------------------------------------------------------------------
\* What the connection sees grows by InsertRow only.
LEMMA ViewStep ==
  ASSUME IInv, [Next]_vars
  PROVE  view' \subseteq view \/ \E h \in Handler : InsertRow(h)
<1> USE DEF dbVars
<1>1. disk \subseteq view
  BY DEF IInv, DirtyInv
<1>2. ASSUME NEW h \in Handler, Acquire(h) PROVE view' = view
  BY <1>2 DEF Acquire, Begin, BeginFails, QueryPrepare, QueryPrepareFails
<1>3. ASSUME NEW h \in Handler, Proceed(h) PROVE InsertRow(h) \/ view' \subseteq view
  <2>1. CASE InsertRowFails(h) \/ CommitFails(h) \/ Undo(h)
    BY <1>1, <2>1 DEF InsertRowFails, CommitFails, Undo, SqlRollback
  <2>2. CASE Prepare(h) \/ PrepareFails(h) \/ Count(h) \/ Commit(h)
    BY <2>2 DEF Prepare, PrepareFails, Count, Commit
  <2>3. CASE TotalsStep(h) \/ PageStep(h) \/ PageDone(h) \/ StepFails(h)
    BY <2>3 DEF TotalsStep, PageStep, PageDone, StepFails, QueryReturn
  <2> QED
    BY <1>3, <2>1, <2>2, <2>3 DEF Proceed
<1>4. ASSUME NEW h \in Handler, Call(h) \/ Cancel(h) \/ Return(h) PROVE view' = view
  BY <1>4 DEF Call, InsertCall, QueryCall, Cancel, Return
<1>5. CASE PruneCall \/ PruneFails \/ Prune
  BY <1>5 DEF PruneCall, PruneFails, Prune, SqlWrite
<1>6. CASE Lifecycle \/ Tick \/ UNCHANGED vars
  BY <1>1, <1>6 DEF Lifecycle, Shutdown, CloseStore, Exit, Open, SqlRollback, Tick, vars
<1> QED
  BY <1>2, <1>3, <1>4, <1>5, <1>6 DEF Next

\* What was an event of such a request remains one: time only passes, and what
\* is kept stays kept.
LEMMA OriginIsStable ==
  ASSUME IInv, [Next]_vars, NEW r
  PROVE  (FromBearer(r) => FromBearer(r)') /\ (FromWhole(r) => FromWhole(r)')
<1>1. \A t \in 0..now : t \in 0..now' /\ t \in 0..MaxTime
  BY TimePasses, BoundAssumption
<1>2. FromBearer(r) => FromBearer(r)'
  BY <1>1 DEF FromBearer
<1>3. ASSUME FromWhole(r) PROVE FromWhole(r)'
  <2>1. PICK e \in Export, t \in 0..now :
           /\ \E i \in DOMAIN Rows(e, t) : r = Rows(e, t)[i]
           /\ \A i \in DOMAIN Rows(e, t) : Kept(Rows(e, t)[i])
    BY <1>3 DEF FromWhole
  <2>2. Rows(e, t) \in Seq(Row)
    BY <1>1, DecodedAssumption, BatchAssumption
  <2>3. ASSUME NEW i \in DOMAIN Rows(e, t)
        PROVE  Kept(Rows(e, t)[i])'
    BY <2>1, <2>2, <2>3, KeptIsStable
  <2> QED
    BY <1>1, <2>1, <2>3 DEF FromWhole
<1> QED
  BY <1>2, <1>3

\* A row that is added is the next one of the batch of its Insert.
LEMMA ViewKeeps ==
  ASSUME WInv, [Next]_vars, NEW r \in view'
  PROVE  FromBearer(r)'
<1> USE DEF WInv, CInv
<1>1. CASE r \in view
  BY <1>1, OriginIsStable
<1>2. CASE r \notin view
  <2>1. PICK h \in Handler : InsertRow(h)
    BY <1>2, ViewStep
  <2>2. /\ pc[h] = "row" /\ r = batch[h][next[h]]
        /\ next[h] \in Nat \ {0} /\ batch[h] \in Seq(Row) /\ next[h] <= Len(batch[h])
    BY <1>2, <2>1 DEF InsertRow, SqlWrite, InsertOrIgnore, IInv, TypeOK
  <2>3. conn[h] # None /\ Bearer[conn[h]] = IngestToken /\ pc[h] \in InsertPC
    BY <2>2 DEF BearerInv, InsertPC
  <2>4. conn[h] \in Export /\ \E t \in 0..now : batch[h] = Rows(conn[h], t)
    BY <2>3 DEF ServeInv
  <2>5. FromBearer(r)
    BY <2>2, <2>3, <2>4 DEF FromBearer
  <2> QED
    BY <2>5, OriginIsStable
<1> QED
  BY <1>1, <1>2

\* A commit stores the rows of one request, all of them.
LEMMA DiskKeeps ==
  ASSUME WInv, [Next]_vars, NEW r \in disk'
  PROVE  FromWhole(r)'
<1> USE DEF WInv, CInv
<1>1. CASE r \in disk
  BY <1>1, OriginIsStable
<1>2. CASE r \notin disk
  <2>1. PICK h \in Handler : Commit(h)
    <3>1. Prune => disk' \subseteq disk
      BY DEF Prune, SqlWrite, IInv, TxInv
    <3> QED
      BY <1>2, <3>1, DiskStep
  <2>2. pc[h] = "commit" /\ disk' = view /\ now' = now
    BY <2>1 DEF Commit
  <2>3. conn[h] \in Export /\ \E t \in 0..now : batch[h] = Rows(conn[h], t)
    BY <2>2 DEF BearerInv, ServeInv, InsertPC
  <2>4. PICK e \in Export, t \in 0..now : batch[h] = Rows(e, t)
    BY <2>3
  <2>5. batch[h] \in Seq(Row) /\ next[h] = Len(batch[h]) + 1
    BY <2>2 DEF IInv, TypeOK, LoopInv
  <2>6. /\ view \ disk \subseteq SteppedRows(h)
        /\ KeySet(view) = KeySet(disk) \cup KeySet(SteppedRows(h))
    BY <2>2 DEF IInv, DirtyInv, LivePC, TxPC
  <2>7. \E i \in DOMAIN batch[h] : r = batch[h][i]
    BY <1>2, <2>2, <2>5, <2>6 DEF SteppedRows, Stepped
  <2>8. ASSUME NEW i \in DOMAIN Rows(e, t)
        PROVE  Kept(Rows(e, t)[i])'
    <3>1. Rows(e, t)[i] \in SteppedRows(h)
      BY <2>2, <2>4, <2>5, <2>8 DEF SteppedRows, Stepped
    <3>2. Rows(e, t)[i].EventKey \in KeysIn(view)
      BY <2>6, <3>1 DEF KeySet, KeysIn
    <3> QED
      BY <2>2, <3>2 DEF KeysIn, Kept
  <2> QED
    BY <2>2, <2>4, <2>7, <2>8 DEF FromWhole
<1> QED
  BY <1>1, <1>2

-----------------------------------------------------------------------------
\* WInv is an inductive invariant of the collector.
THEOREM WInvariance == CSpec => []WInv
<1>1. CInit => WInv
  <2> SUFFICES ASSUME CInit PROVE WInv
    OBVIOUS
  <2>1. Init
    BY DEF CInit
  <2>2. BearerInv
    BY <2>1 DEF Init, BearerInv, InsertPC, Routine
  <2> QED
    BY <2>1, <2>2, CInitInv DEF WInv, Init
<1>2. WInv /\ [CNext]_cvars => WInv'
  <2> SUFFICES ASSUME WInv, [CNext]_cvars PROVE WInv'
    OBVIOUS
  <2>1. CInv /\ BearerInv /\ IInv
    BY DEF WInv, CInv
  <2>2. [Next]_vars
    BY <2>1, StepMaps
  <2>3. CInv'
    <3>1. IInv'
      BY <2>1, <2>2, NextKeeps
    <3> QED
      BY <2>1, <3>1, CTypeKeeps, ServeKeeps, AckKeeps DEF CInv
  <2> QED
    BY <2>1, <2>2, <2>3, BearerKeeps, ViewKeeps, DiskKeeps DEF WInv
<1> QED
  BY <1>1, <1>2, PTL DEF CSpec

\* The table has rows of requests with the configured token only, and a
\* request is in the committed table whole or not at all, apart from expired
\* rows: through failing Inserts, crashes, retries and prunings.
THEOREM RequestsAreWhole == CSpec => []WholeRequests
<1>1. WInv => WholeRequests
  BY DEF WInv, WholeRequests, FromBearer, FromWhole
<1> QED
  BY <1>1, WInvariance, PTL

-----------------------------------------------------------------------------
\* The key of an event has no more of the time of arrival than its time has.
LEMMA EventStays ==
  ASSUME NEW attrs, NEW record, NEW t, NEW u, StatedTimes(attrs, record) # <<>>
  PROVE  Event(attrs, record, t) = Event(attrs, record, u)
<1> DEFINE e(x) == [f \in Field |->
                      CASE f \in DOMAIN StringField -> asString(Get(attrs, StringField[f]))
                        [] f \in DOMAIN IntField -> asInt64(Get(attrs, IntField[f]))
                        [] f = "EventName" -> EventName(attrs, record)
                        [] f = "EventTime" -> x
                        [] f = "CostUSDMicros" -> costMicros(attrs)]
           event(x) == [f \in Field \cup {"EventKey"} |-> IF f = "EventKey" THEN makeEventKey(e(x)) ELSE e(x)[f]]
<1>1. eventTime(attrs, record, t) = eventTime(attrs, record, u)
  BY Zenon DEF eventTime
<1>2. /\ Event(attrs, record, t) = event(eventTime(attrs, record, t))
      /\ Event(attrs, record, u) = event(eventTime(attrs, record, u))
  BY DEF Event
<1> HIDE DEF event
<1> QED
  BY <1>1, <1>2, Zenon

\* So the events of a request are the same whenever it arrives, if they state
\* their times.
LEMMA SameEvents ==
  ASSUME NEW r, StatesTimes(r), NEW t, NEW u
  PROVE  Decode(r, t) = Decode(r, u)
<1> DEFINE ms == MeteredRecords(r)
<1>1. ASSUME NEW i \in DOMAIN ms
      PROVE  Event(ms[i].attrs, ms[i].record, t) = Event(ms[i].attrs, ms[i].record, u)
  BY EventStays DEF StatesTimes
<1> HIDE DEF ms
<1>2. [i \in DOMAIN ms |-> Event(ms[i].attrs, ms[i].record, t)] = [i \in DOMAIN ms |-> Event(ms[i].attrs, ms[i].record, u)]
  BY <1>1
<1> QED
  BY <1>2, Zenon DEF Decode, ms

\* So a request is the same rows whenever it arrives.
LEMMA SameRows ==
  ASSUME NEW e \in Export, StatesTimes(Request[e]), NEW t \in 0..MaxTime, NEW u \in 0..MaxTime
  PROVE  Rows(e, t) = Rows(e, u)
<1>1. Decode(Request[e], t) = Decode(Request[e], u)
  BY SameEvents
<1> DEFINE rows(s) == [i \in DOMAIN Decode(Request[e], s) |-> Stored(Decode(Request[e], s)[i])]
<1>2. \A s \in 0..MaxTime : Rows(e, s) = rows(s)
  BY DEF Rows, Decoded
<1>3. rows(t) = rows(u)
  BY <1>1, Zenon
<1> QED
  BY <1>2, <1>3, Zenon

\* However often a request is delivered and whenever it arrives, each of its
\* events is stored once, if its events state their times (makeEventKey,
\* eventTime).
THEOREM CountedOnce ==
  ASSUME \A e \in Export : StatesTimes(Request[e])
  PROVE  CSpec => []NoDoubleCount
<1>1. CTypeOK => NoDoubleCount
  <2> SUFFICES ASSUME CTypeOK, NEW e \in Export
               PROVE  Cardinality({r \in disk : \E t \in 0..now : \E i \in DOMAIN Rows(e, t) : r = Rows(e, t)[i]})
                        <= Len(Rows(e, now))
    BY DEF NoDoubleCount
  <2> DEFINE b == Rows(e, now)
             stored == {r \in disk : \E t \in 0..now : \E i \in DOMAIN Rows(e, t) : r = Rows(e, t)[i]}
             f == [i \in 1..Len(b) |-> b[i]]
             rows == {f[i] : i \in 1..Len(b)}
  <2>1. now \in 0..MaxTime /\ 0..now \subseteq 0..MaxTime
    BY BoundAssumption DEF CTypeOK, TypeOK
  <2>2. \A t \in 0..now : Rows(e, t) = b
    BY <2>1, SameRows
  <2>3. Len(b) \in Nat /\ DOMAIN b = 1..Len(b)
    BY <2>1, DecodedAssumption, BatchAssumption
  <2> HIDE DEF b
  <2>4. stored \subseteq rows
    BY <2>2, <2>3
  <2>5. f \in Surjection(1..Len(b), rows)
    BY DEF Surjection
  <2>6. IsFiniteSet(1..Len(b)) /\ Cardinality(1..Len(b)) = Len(b)
    BY <2>3, FS_Interval
  <2> HIDE DEF rows, f
  <2>7. IsFiniteSet(rows) /\ Cardinality(rows) <= Len(b)
    BY <2>5, <2>6, FS_Surjection
  <2> HIDE DEF stored
  <2>8. /\ Cardinality(stored) <= Cardinality(rows)
        /\ Cardinality(stored) \in Nat /\ Cardinality(rows) \in Nat
    BY <2>4, <2>7, FS_Subset, FS_CardinalityType
  <2>9. Cardinality(stored) <= Len(b)
    BY <2>3, <2>7, <2>8
  <2> QED
    BY <2>9 DEF b, stored
<1> QED
  BY <1>1, CTypeCorrectness, PTL
=============================================================================
