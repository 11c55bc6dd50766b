------------------------------ MODULE Reports -------------------------------
(***************************************************************************)
(* The reports of the collector: what the pages and the API                *)
(* (internal/server) ask of the store (internal/store/query.go), while     *)
(* requests are stored and expired events are pruned.                      *)
(*                                                                         *)
(* Times are integers: ticks, Base * Base of them in a second, so that a   *)
(* fraction has two digits.  The table holds them as RFC 3339 texts, which *)
(* leave trailing zeros out, and it is texts that SQLite compares.         *)
(*                                                                         *)
(* How an Insert gets its rows into the table is the matter of Store; here *)
(* they are in the table at once, uncommitted until the Insert ends.       *)
(***************************************************************************)
EXTENDS Integers, Sequences, FiniteSets, FiniteSetsExt, SequencesExt

CONSTANTS
  Event,         \* rows that may be stored
  Batches,       \* the sets of rows that are inserted together
  Base,          \* digits are below Base
  DaySeconds,    \* seconds of a day
  Clock,         \* the instants at which something happens
  RangeText,     \* values of the parameter "range"
  PersonText,    \* values of the parameter "person", trimmed
  LimitValue,    \* values of the parameter "limit"; 0 is no number
  DefaultLimit,  \* 100
  MaxLimit,      \* 1000
  RetentionDays,
  MaxInt64       \* of time.Duration

Second == Base * Base
Day == DaySeconds * Second

ASSUME TimeAssumption ==
  Base \in Nat \ {0} /\ DaySeconds \in Nat \ {0} /\ Clock \subseteq Nat /\ RetentionDays \in Int /\ MaxInt64 \in Nat
ASSUME LimitAssumption == MaxLimit \in Nat /\ DefaultLimit \in 1..MaxLimit /\ LimitValue \subseteq Int
ASSUME EventAssumption ==
  /\ \A r \in Event : r.time \in Nat /\ r.cost \in Nat
  /\ \A batch \in Batches : batch \subseteq Event /\ IsFiniteSet(batch)

VARIABLES
  view,      \* rows of the table as the connection reads them
  dirty,     \* those of them that are not committed
  now,       \* time.Now()
  at,        \* what the handler is about to read: "idle", or a report
  page,      \* "dashboard", "summary" or "history"
  query,     \* its since and person, and the limit of its history
  answer,    \* its reports so far
  status,    \* how it was answered: 0, 200 or 500
  \* Recorded for the properties:
  steady,    \* rows that have been in view since the request arrived
  ever       \* rows that were in view at some time since it arrived

tableVars == <<view, dirty>>
pageVars == <<at, page, query, answer, status>>
vars == <<tableVars, now, pageVars, steady, ever>>

-----------------------------------------------------------------------------
(***************************************************************************)
(* Times and their texts.                                                  *)
(***************************************************************************)
Sec(t) == t \div Second
Digits(t) == <<(t % Second) \div Base, t % Base>>

\* The text ends in "Z", which SQLite places after every digit and after the
\* point: beyond the last digit that is not zero stands Base.
Fraction(t) ==
  IF t % Second = 0 THEN <<Base, Base>> ELSE IF t % Base = 0 THEN <<Digits(t)[1], Base>> ELSE Digits(t)

\* The texts of two times compared.
TextLess(t, u) ==
  \/ Sec(t) < Sec(u)
  \/ /\ Sec(t) = Sec(u)
     /\ \/ Fraction(t)[1] < Fraction(u)[1]
        \/ Fraction(t)[1] = Fraction(u)[1] /\ Fraction(t)[2] < Fraction(u)[2]

normalizeRange(v) == IF v \in {"24h", "7d", "30d", "all"} THEN v ELSE "7d"

\* No time, or one.
rangeStart(rng, t) ==
  CASE rng = "24h" -> <<t - Day>>
    [] rng = "7d" -> <<t - 7 * Day>>
    [] rng = "30d" -> <<t - 30 * Day>>
    [] OTHER -> <<>>

\* An int64 overflows silently.
Wrap(n) == ((n + MaxInt64 + 1) % (2 * MaxInt64 + 2)) - MaxInt64 - 1

-----------------------------------------------------------------------------
(***************************************************************************)
(* The queries.                                                            *)
(***************************************************************************)
\* Mutant: any person.
whereClauseAnyone(since, person, requestsOnly) ==
  {r \in view : /\ requestsOnly => r.name = "api_request"
                /\ since # <<>> => ~TextLess(r.time, since[1])}

\* The rows that a WHERE clause selects.
whereClause(since, person, requestsOnly) ==
  {r \in view : /\ requestsOnly => r.name = "api_request"
                /\ since # <<>> => ~TextLess(r.time, since[1])
                /\ person # "" => r.person = person}

\* The columns of a report.  Cost stands for each of the sums.
Aggregate(rows) ==
  [requests |-> Cardinality(rows),
   sessions |-> Cardinality({r.session : r \in rows} \ {""}),
   cost |-> MapThenSumSet(LAMBDA r : r.cost, rows)]

\* Mutant: events that are no requests count.
TotalsOfEvents(since, person) == Aggregate(whereClause(since, person, FALSE))

Totals(since, person) == Aggregate(whereClause(since, person, TRUE))

\* COALESCE(NULLIF(person_id, ''), 'unknown')
Label(person) == IF person = "" THEN "unknown" ELSE person

\* One row for each person_id, respectively account_uuid, in an order that is
\* left open.
ByPerson(since) ==
  LET rows == whereClause(since, "", TRUE)
  IN  {[id |-> p, label |-> Label(p), totals |-> Aggregate({r \in rows : r.person = p})] : p \in {r.person : r \in rows}}

ByAccount(since, person) ==
  LET rows == whereClause(since, person, TRUE)
  IN  {[id |-> a, totals |-> Aggregate({r \in rows : r.account = a})] : a \in {r.account : r \in rows}}

\* Mutant: the limit of the request is taken as it is.
LimitUncapped(n) == IF n < 1 THEN DefaultLimit ELSE n

Limit(n) == IF n < 1 THEN DefaultLimit ELSE IF n > MaxLimit THEN MaxLimit ELSE n

-----------------------------------------------------------------------------
(***************************************************************************)
(* The handlers.  Each report is read at another time.  The first three    *)
(* group their rows, so that their first step reads all of them; History   *)
(* reads a row a step.                                                     *)
(***************************************************************************)
Nothing == Aggregate({})
NoAnswer == [totals |-> Nothing, people |-> {}, accounts |-> {}, history |-> <<>>]

\* A request; since is computed from the time of its arrival.
Request(p, rng, person, n) ==
  /\ at = "idle"
  /\ page' = p
  /\ query' = [since |-> rangeStart(normalizeRange(rng), now), person |-> person,
               limit |-> Limit(IF p = "history" THEN n ELSE DefaultLimit)]
  /\ at' = IF p = "history" THEN "history" ELSE "totals"
  /\ answer' = NoAnswer /\ status' = 0
  /\ steady' = view /\ ever' = view
  /\ UNCHANGED <<tableVars, now>>

Finish(code) == at' = "idle" /\ status' = code

ReadTotals ==
  /\ at = "totals"
  /\ answer' = [answer EXCEPT !.totals = Totals(query.since, query.person)]
  /\ at' = "people"
  /\ UNCHANGED <<tableVars, now, page, query, status, steady, ever>>

ReadPeople ==
  /\ at = "people"
  /\ answer' = [answer EXCEPT !.people = ByPerson(query.since)]
  /\ at' = "accounts"
  /\ UNCHANGED <<tableVars, now, page, query, status, steady, ever>>

\* The last report of the summary.
ReadAccounts ==
  /\ at = "accounts"
  /\ answer' = [answer EXCEPT !.accounts = ByAccount(query.since, query.person)]
  /\ IF page = "summary" THEN Finish(200) ELSE at' = "history" /\ UNCHANGED status
  /\ UNCHANGED <<tableVars, now, page, query, steady, ever>>

\* Mutant: ORDER BY without DESC.
AheadOldest ==
  LET listed == ToSet(answer.history)
  IN  {r \in whereClause(query.since, query.person, FALSE) \ listed : \A s \in listed : ~TextLess(r.time, s.time)}

\* What the cursor of History, which moves down the index of the times, may
\* find next.
Ahead ==
  LET listed == ToSet(answer.history)
  IN  {r \in whereClause(query.since, query.person, FALSE) \ listed : \A s \in listed : ~TextLess(s.time, r.time)}

\* Mutant: ORDER BY without DESC.
HistoryStepOldest ==
  /\ at = "history" /\ Len(answer.history) < query.limit
  /\ \E r \in AheadOldest :
       /\ \A s \in AheadOldest : ~TextLess(s.time, r.time)
       /\ answer' = [answer EXCEPT !.history = Append(@, r)]
  /\ UNCHANGED <<tableVars, now, at, page, query, status, steady, ever>>

HistoryStep ==
  /\ at = "history" /\ Len(answer.history) < query.limit
  /\ \E r \in Ahead :
       /\ \A s \in Ahead : ~TextLess(r.time, s.time)
       /\ answer' = [answer EXCEPT !.history = Append(@, r)]
  /\ UNCHANGED <<tableVars, now, at, page, query, status, steady, ever>>

HistoryDone ==
  /\ at = "history"
  /\ Len(answer.history) = query.limit \/ Ahead = {}
  /\ Finish(200)
  /\ UNCHANGED <<tableVars, now, page, query, answer, steady, ever>>

\* Mutant: the dashboard, too, goes on without the report that failed.
QueryFailsQuietly ==
  /\ at # "idle"
  /\ IF at \in {"people", "accounts"}
     THEN IF at = "people" THEN at' = "accounts" /\ UNCHANGED status ELSE Finish(200)
     ELSE Finish(500)
  /\ UNCHANGED <<tableVars, now, page, query, answer, steady, ever>>

\* A query fails, or the context of the request is done: 500, except that the
\* summary goes on without a list that it could not read.
QueryFails ==
  /\ at # "idle"
  /\ IF page = "summary" /\ at \in {"people", "accounts"}
     THEN IF at = "people" THEN at' = "accounts" /\ UNCHANGED status ELSE Finish(200)
     ELSE Finish(500)
  /\ UNCHANGED <<tableVars, now, page, query, answer, steady, ever>>

Report == ReadTotals \/ ReadPeople \/ ReadAccounts \/ HistoryStep \/ HistoryDone \/ QueryFails

-----------------------------------------------------------------------------
(***************************************************************************)
(* The table.                                                              *)
(***************************************************************************)
Table(rows) ==
  /\ view' = rows
  /\ steady' = steady \cap rows /\ ever' = ever \cup rows
  /\ UNCHANGED <<now, pageVars>>

\* Rows whose key is in the table are ignored.
Insert(batch) ==
  /\ dirty = {}
  /\ dirty' = {r \in batch : \A s \in view : s.key # r.key}
  /\ Table(view \cup dirty')

Commit == dirty # {} /\ dirty' = {} /\ Table(view)

Rollback == dirty # {} /\ dirty' = {} /\ Table(view \ dirty)

\* Mutant: a day is missing.
CutoffEarly == now - Wrap((RetentionDays - 1) * Day)

\* The product of the days and the nanoseconds of a day is an int64.
Cutoff == now - Wrap(RetentionDays * Day)

\* The mutex keeps Prune out of an open transaction.
Prune ==
  /\ RetentionDays > 0 /\ dirty = {}
  /\ Table({r \in view : ~TextLess(r.time, Cutoff)})
  /\ UNCHANGED dirty

Tick == \E t \in Clock : t > now /\ now' = t /\ UNCHANGED <<tableVars, pageVars, steady, ever>>

-----------------------------------------------------------------------------
Init ==
  /\ view = {} /\ dirty = {}
  /\ now \in Clock /\ \A t \in Clock : now <= t
  /\ at = "idle" /\ page = "dashboard" /\ status = 0
  /\ query = [since |-> <<>>, person |-> "", limit |-> DefaultLimit]
  /\ answer = NoAnswer
  /\ steady = {} /\ ever = {}

Next ==
  \/ \E p \in {"dashboard", "summary"}, rng \in RangeText, person \in PersonText : Request(p, rng, person, 0)
  \/ \E rng \in RangeText, person \in PersonText, n \in LimitValue : Request("history", rng, person, n)
  \/ Report
  \/ \E batch \in Batches : Insert(batch)
  \/ Commit \/ Rollback \/ Prune \/ Tick

Spec == Init /\ [][Next]_vars

-----------------------------------------------------------------------------
(***************************************************************************)
(* Properties.  The rows of a request are meant to be those from "since"   *)
(* on.  Texts follow the order of times from one second to the next, not   *)
(* within a second: a row is surely, or possibly, in a report.             *)
(***************************************************************************)
\* Every variable has its type.
RTypeOK ==
  /\ view \subseteq Event /\ dirty \subseteq view
  /\ steady \subseteq view /\ view \subseteq ever /\ ever \subseteq Event
  /\ now \in Clock
  /\ at \in {"idle", "totals", "people", "accounts", "history"}
  /\ page \in {"dashboard", "summary", "history"}
  /\ query.person \in PersonText \cup {""} /\ query.limit \in 1..MaxLimit
  /\ ToSet(answer.history) \subseteq Event
  /\ status \in {0, 200, 500}

Surely(rows, person) ==
  {r \in rows : (person # "" => r.person = person) /\ (query.since # <<>> => Sec(r.time) > Sec(query.since[1]))}

Possibly(rows, person) ==
  {r \in rows : (person # "" => r.person = person) /\ (query.since # <<>> => Sec(r.time) >= Sec(query.since[1]))}

Requests(rows) == {r \in rows : r.name = "api_request"}

\* The columns of a report are those of at least the first rows and at most the second.
Between(columns, low, high) ==
  \A c \in DOMAIN Nothing : Aggregate(low)[c] <= columns[c] /\ columns[c] <= Aggregate(high)[c]

\* The columns of a list for one person, or account.
Columns(list, id) == IF \E e \in list : e.id = id THEN (CHOOSE e \in list : e.id = id).totals ELSE Nothing

Answered(p) == at = "idle" /\ page = p /\ status = 200

\* However the table changes while the four queries of the dashboard are
\* answered, its totals count every request of the range and the person that
\* was stored all the time, and none that never was: exact up to the second
\* at which the range starts (dashboard, Totals, whereClause, rangeStart).
TotalsToTheSecond ==
  Answered("dashboard") =>
    Between(answer.totals, Surely(Requests(steady), query.person), Possibly(Requests(ever), query.person))

\* The same of each row of the two lists of the dashboard: no person and no
\* account is missing or counted twice, also when a query has failed
\* (dashboard, ByPerson, ByAccount).
ListsAreComplete ==
  Answered("dashboard") =>
    \A r \in ever :
      /\ LET of(rows) == {s \in Requests(rows) : s.person = r.person}
         IN  Between(Columns(answer.people, r.person), Surely(of(steady), ""), Possibly(of(ever), ""))
      /\ LET of(rows) == {s \in Requests(rows) : s.account = r.account}
         IN  Between(Columns(answer.accounts, r.account),
                     Surely(of(steady), query.person), Possibly(of(ever), query.person))

\* A person's name in the list leads to a page whose totals are those of the
\* list, as long as the table does not change; except for "unknown", the label
\* of events without a person, of which whereClause knows nothing (ByPerson).
PersonPageAgrees ==
  Answered("dashboard") /\ query.person \notin {"", "unknown"} /\ steady = ever =>
    answer.totals.requests = MapThenSumSet(LAMBDA e : e.totals.requests, {e \in answer.people : e.label = query.person})

\* The history is newest first, not longer than its limit, and lists every
\* event that was stored all the time unless as many listed ones are as young:
\* up to the order within a second (History, one row a step).
HistoryToTheSecond ==
  Answered("history") \/ Answered("dashboard") =>
    LET rows == answer.history IN
    /\ ToSet(rows) \subseteq Possibly(ever, query.person)
    /\ \A i \in 1..Len(rows), j \in 1..Len(rows) : i < j => rows[i] # rows[j] /\ Sec(rows[j].time) <= Sec(rows[i].time)
    /\ \A r \in Surely(steady, query.person) \ ToSet(rows) :
         Len(rows) = query.limit /\ \A s \in ToSet(rows) : Sec(r.time) <= Sec(s.time)

\* A row is removed only when it is older than the retention period, up to a
\* second, and what is older by a second does not survive a pruning (Prune).
PruneToTheSecond ==
  [][Prune =>
       \A r \in view :
         LET age == Sec(now - RetentionDays * Day) - Sec(r.time)
         IN  (r \notin view' => age >= 0) /\ (r \in view' => age <= 0)]_vars
=============================================================================
