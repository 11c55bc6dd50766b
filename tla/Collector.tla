----------------------------- MODULE Collector ------------------------------
(***************************************************************************)
(* The collector as its clients see it: exporters inside Claude Code POST  *)
(* their usage events to /v1/logs (internal/server, ingestLogs), which     *)
(* authorizes, decodes (Otlp) and inserts (Store).  An exporter keeps its  *)
(* request until it is answered; when it times out, when the connection    *)
(* breaks or when the collector stops, it may send the same request again. *)
(* The handler it abandoned runs on and may still commit.                  *)
(*                                                                         *)
(* Exporters are outside the repository; an exporter of Persistent always  *)
(* sends again, another one may also give up.                              *)
(***************************************************************************)
EXTENDS Store, Otlp

CONSTANTS
  Export,       \* exporters, each with one request to deliver
  Persistent,   \* those that retry for ever
  None,         \* no exporter
  Request,      \* exporter |-> its request
  Bearer,       \* exporter |-> its Authorization header, trimmed
  Oversized,    \* exporters whose request is longer than 5 MiB
  IngestToken,  \* the configured token
  MaxFaults     \* bound on the number of failures

ASSUME ExportAssumption == None \notin Export /\ Persistent \subseteq Export /\ MaxFaults \in Nat

VARIABLES
  conn,         \* the exporter whose request a handler serves
  gone,         \* handlers whose exporter has stopped waiting
  exp,          \* state of each exporter
  faults        \* failures so far

netVars == <<conn, gone, exp>>
cvars == <<vars, netVars, faults>>

ExportState == {"ready", "waiting", "acked", "dropped"}

CTypeOK ==
  /\ TypeOK
  /\ conn \in [Handler -> Export \cup {None}]
  /\ gone \subseteq {h \in Handler : conn[h] # None}
  /\ exp \in [Export -> ExportState]
  /\ faults \in 0..MaxFaults

CInit ==
  /\ Init
  /\ conn = [h \in Handler |-> None]
  /\ gone = {}
  /\ exp = [e \in Export |-> "ready"]
  /\ faults = 0

Fault == faults < MaxFaults /\ faults' = faults + 1

\* The events of each request by the time of its arrival, each as the store
\* tells rows apart.
Stored(e) == [EventKey |-> e.EventKey, EventTime |-> e.EventTime]
Decoded ==
  [e \in Export |-> [t \in 0..MaxTime |->
     [i \in DOMAIN Decode(Request[e], t) |-> Stored(Decode(Request[e], t)[i])]]]
Rows(e, t) == Decoded[e][t]

\* What becomes of an exporter that gets no answer or a server error.
AfterLoss(e) == IF e \in Persistent THEN {"ready"} ELSE {"ready", "dropped"}

\* Every call of Insert is made with such a batch.
ASSUME DecodedAssumption == \A e \in Export, t \in 0..MaxTime : Rows(e, t) \in Batch

\* The key of an event has its time in it (makeEventKey).
ASSUME KeyTimeAssumption == \A r, s \in Row : r.EventKey = s.EventKey => r.EventTime = s.EventTime

-----------------------------------------------------------------------------
(***************************************************************************)
(* ingestLogs                                                              *)
(***************************************************************************)
\* Mutant: the token is not compared.
authorizedAny(e) == TRUE

authorized(e) == Bearer[e] = IngestToken
Accepted == {e \in Export : authorized(e) /\ e \notin Oversized /\ Decodes(Request[e])}
Acceptable(e) == e \in Accepted

\* A connection is accepted; net/http starts a goroutine for it.
Send(e, h) ==
  /\ life = "up"
  /\ exp[e] = "ready" /\ conn[h] = None /\ pc[h] = "idle"
  /\ conn' = [conn EXCEPT ![h] = e]
  /\ exp' = [exp EXCEPT ![e] = "waiting"]
  /\ UNCHANGED <<vars, gone, faults>>

\* The handler returns; its exporter moves on to one of outcomes if it still waits.
Answer(h, outcomes) ==
  /\ Return(h)
  /\ conn' = [conn EXCEPT ![h] = None]
  /\ gone' = gone \ {h}
  /\ IF h \in gone
     THEN UNCHANGED exp
     ELSE \E s \in outcomes : exp' = [exp EXCEPT ![conn[h]] = s]
  /\ UNCHANGED faults

\* 401, or 400: the exporter does not repeat such a request.
Reject(h) ==
  /\ conn[h] # None /\ pc[h] = "idle"
  /\ ~Acceptable(conn[h])
  /\ Answer(h, {"dropped"})

\* The body is decoded at the time of its arrival and handed to Insert.
Ingest(h) ==
  /\ conn[h] # None /\ Acceptable(conn[h])
  /\ InsertCall(h, Rows(conn[h], now))
  /\ UNCHANGED <<netVars, faults>>

\* Reading the body of an exporter that is gone fails: 400 to nobody.
ReadFails(h) ==
  /\ h \in gone /\ pc[h] = "idle"
  /\ Answer(h, {})

\* Mutant: an error of Insert is not reported.
RespondOk(h) ==
  /\ conn[h] # None
  /\ pc[h] \in {"ok", "err"} /\ Answer(h, {"acked"})

\* 200, or 500 for any error of Insert.
Respond(h) ==
  /\ conn[h] # None
  /\ \/ pc[h] = "ok" /\ Answer(h, {"acked"})
     \/ pc[h] = "err" /\ Answer(h, AfterLoss(conn[h]))

-----------------------------------------------------------------------------
(***************************************************************************)
(* Insert, with its failures counted.  An Insert must fail when its        *)
(* context is done, or the connection is closed or left in a transaction;  *)
(* other failures are faults.                                              *)
(***************************************************************************)
Failure(h) == BeginFails(h) \/ PrepareFails(h) \/ InsertRowFails(h) \/ CommitFails(h)

MustFail(h) ==
  \/ pc[h] = "lock" /\ (~open \/ inTx)
  \/ pc[h] = "row" /\ h \in cancelled

Work(h) ==
  /\ \/ Begin(h) \/ Prepare(h) \/ InsertRow(h) \/ Count(h) \/ Commit(h) \/ Undo(h)
     \/ MustFail(h) /\ Failure(h)
  /\ UNCHANGED <<netVars, faults>>

Fail(h) == Failure(h) /\ Fault /\ UNCHANGED netVars

-----------------------------------------------------------------------------
(***************************************************************************)
(* The network, the process and the clock.                                 *)
(***************************************************************************)
\* The exporter's timeout passes, or its connection breaks.
Timeout(e) ==
  /\ exp[e] = "waiting"
  /\ gone' = gone \cup {h \in Handler : conn[h] = e}
  /\ \E s \in AfterLoss(e) : exp' = [exp EXCEPT ![e] = s]
  /\ Fault
  /\ UNCHANGED <<vars, conn>>

\* net/http notices, and cancels the context of the request.
Notice(h) ==
  /\ h \in gone /\ Cancel(h)
  /\ UNCHANGED <<netVars, faults>>

GiveUp(e) ==
  /\ exp[e] = "ready" /\ e \notin Persistent
  /\ exp' = [exp EXCEPT ![e] = "dropped"]
  /\ UNCHANGED <<vars, conn, gone, faults>>

\* Every exporter that waits loses its connection.
Disconnect ==
  exp' \in {f \in [Export -> ExportState] :
              \A e \in Export :
                IF exp[e] = "waiting" THEN f[e] \in AfterLoss(e) ELSE f[e] = exp[e]}

\* Mutant: every handler is taken for one in use.
StopAll ==
  /\ Shutdown /\ Disconnect
  /\ gone' = Handler
  /\ Fault
  /\ UNCHANGED conn

\* httpSrv.Close; the handlers run on.
Stop ==
  /\ Shutdown /\ Disconnect
  /\ gone' = {h \in Handler : conn[h] # None}
  /\ Fault
  /\ UNCHANGED conn

\* The process ends, by itself after Store.Close or by a crash at any time.
End ==
  /\ Exit /\ Disconnect
  /\ conn' = [h \in Handler |-> None]
  /\ gone' = {}
  /\ IF life = "closed" THEN UNCHANGED faults ELSE Fault

Manage == (CloseStore \/ Open \/ PruneCall \/ Prune \/ PruneFails \/ Tick) /\ UNCHANGED <<netVars, faults>>

-----------------------------------------------------------------------------
Serve(h) == Reject(h) \/ Ingest(h) \/ Respond(h)

CNext ==
  \/ \E e \in Export : Timeout(e) \/ GiveUp(e) \/ \E h \in Handler : Send(e, h)
  \/ \E h \in Handler : Serve(h) \/ ReadFails(h) \/ Work(h) \/ Fail(h) \/ Notice(h)
  \/ Stop \/ End \/ Manage

CSpec == CInit /\ [][CNext]_cvars

(***************************************************************************)
(* Goroutines run, the mutex is handed to a waiter in the end, main        *)
(* finishes, systemd restarts the service (Restart=always), and exporters  *)
(* find a goroutine to serve them: net/http starts one for each of them,   *)
(* Handler only bounds their number.                                       *)
(***************************************************************************)
CFairness ==
  /\ \A h \in Handler : WF_cvars(Serve(h)) /\ SF_cvars(Work(h))
  /\ \A e \in Export : SF_cvars(\E h \in Handler : Send(e, h))
  /\ WF_cvars(life = "closed" /\ End)
  /\ WF_cvars(CloseStore /\ UNCHANGED <<netVars, faults>>)
  /\ WF_cvars(Open /\ UNCHANGED <<netVars, faults>>)

FairCSpec == CSpec /\ CFairness

-----------------------------------------------------------------------------
(***************************************************************************)
(* Properties                                                              *)
(***************************************************************************)
KeysIn(t) == {r.EventKey : r \in t}

\* Row r is in the committed table, or past the retention period.
Kept(r) == r.EventKey \in KeysIn(disk) \/ (Retention > 0 /\ r.EventTime < now - Retention)

\* The request of e, as decoded at some time up to now, is kept whole.
KeptWhole(e) == \E t \in 0..now : \A i \in DOMAIN Rows(e, t) : Kept(Rows(e, t)[i])

\* A request that was answered 200 (server.go:90-99) is in the committed
\* table, whole, whatever became of the process since; only rows past the
\* retention period may be missing.
AckedIsStored == \A e \in Export : exp[e] = "acked" => KeptWhole(e)

\* Rows come from requests with the configured token only (server.go:74-89),
\* and a request is in the committed table whole or not at all, apart from
\* expired rows.
WholeRequests ==
  /\ \A r \in view : \E e \in Export, t \in 0..now :
       Bearer[e] = IngestToken /\ \E i \in DOMAIN Rows(e, t) : r = Rows(e, t)[i]
  /\ \A r \in disk : \E e \in Export, t \in 0..now :
       /\ \E i \in DOMAIN Rows(e, t) : r = Rows(e, t)[i]
       /\ \A i \in DOMAIN Rows(e, t) : Kept(Rows(e, t)[i])

\* Every usage event of a request states its time.
StatesTimes(r) ==
  \A i \in DOMAIN MeteredRecords(r) :
    StatedTimes(MeteredRecords(r)[i].attrs, MeteredRecords(r)[i].record) # <<>>

\* However often a request is delivered, each of its events is stored once:
\* "Duplicate OTLP deliveries are deduplicated with a deterministic event
\* key" (README.md:222).
NoDoubleCount ==
  \A e \in Export :
    Cardinality({r \in disk : \E t \in 0..now : \E i \in DOMAIN Rows(e, t) : r = Rows(e, t)[i]})
      <= Len(Rows(e, now))

\* An acceptable request of an exporter that does not give up is delivered in
\* the end, through timeouts, failures of the database and restarts.
EventuallyAcked == \A e \in Persistent : Acceptable(e) => <>(exp[e] = "acked")
=============================================================================
