---------------------------- MODULE ReportsProofs ----------------------------
(***************************************************************************)
(* Proofs about Reports, for any events, batches, clock, parameters and    *)
(* limits: what a page's history lists, what its totals and lists count,   *)
(* and what pruning removes.                                               *)
(***************************************************************************)
EXTENDS Reports, Induction, TLAPS

-----------------------------------------------------------------------------
(***************************************************************************)
(* Times and texts.                                                        *)
(***************************************************************************)
\* A second has at least one tick.
LEMMA SecondType == Second \in Nat /\ Second > 0
  BY TimeAssumption DEF Second

\* The seconds of an integral time are an integer.
LEMMA SecType == ASSUME NEW t \in Int PROVE Sec(t) \in Int
  BY SecondType DEF Sec

\* Texts follow the order of the seconds (TextLess).
LEMMA TextOrder ==
  ASSUME NEW t \in Int, NEW u \in Int
  PROVE  /\ TextLess(t, u) => Sec(t) <= Sec(u)
         /\ ~TextLess(t, u) => Sec(t) >= Sec(u)
  <1>1. Sec(t) \in Int /\ Sec(u) \in Int
    BY SecType
  <1>2. TextLess(t, u) => Sec(t) <= Sec(u)
    BY <1>1 DEF TextLess
  <1>3. ~TextLess(t, u) => ~(Sec(t) < Sec(u))
    BY DEF TextLess
  <1> QED
    BY ONLY <1>1, <1>2, <1>3

\* A day has an integral number of ticks.
LEMMA DayType == Day \in Nat
  BY SecondType, TimeAssumption DEF Day

\* What fits into an int64 is not changed by it (Wrap).
LEMMA WrapFits ==
  ASSUME NEW n \in Nat, n <= MaxInt64
  PROVE  Wrap(n) = n
  <1>1. MaxInt64 \in Nat
    BY TimeAssumption
  <1> DEFINE m == 2 * MaxInt64 + 2
             x == n + MaxInt64 + 1
  <1>2. m \in Nat /\ m > 0 /\ x \in Nat /\ x < m
    BY <1>1
  <1>3. ASSUME NEW a \in Nat, NEW b \in Nat, a < b PROVE a % b = a
    BY <1>3
  <1>4. x % m = x
    BY ONLY <1>2, <1>3
  <1> QED
    BY <1>1, <1>4 DEF Wrap

\* The start of a range is no time, or an integral one (rangeStart).
LEMMA RangeType ==
  ASSUME NEW rng, NEW t \in Int
  PROVE  rangeStart(rng, t) # <<>> => rangeStart(rng, t)[1] \in Int
  <1>1. t - Day \in Int /\ t - 7 * Day \in Int /\ t - 30 * Day \in Int
    BY DayType
  <1> QED
    BY <1>1 DEF rangeStart

\* A limit is between one and the largest (Limit).
LEMMA LimitType == ASSUME NEW n \in Int PROVE Limit(n) \in 1..MaxLimit
  <1>1. MaxLimit \in Nat /\ DefaultLimit \in 1..MaxLimit
    BY LimitAssumption
  <1> QED
    BY <1>1 DEF Limit

-----------------------------------------------------------------------------
(***************************************************************************)
(* The inductive invariant.                                                *)
(***************************************************************************)
ReportName == {"idle", "totals", "people", "accounts", "history"}

\* The rows of the table, and those recorded since the request arrived.
RowsInv ==
  /\ view \subseteq Event /\ dirty \subseteq view
  /\ steady \subseteq view /\ view \subseteq ever /\ ever \subseteq Event

\* The request and its answer.
PageTyped(a, p, q, w, s) ==
  /\ a \in ReportName
  /\ p \in {"dashboard", "summary", "history"}
  /\ q.person \in PersonText \cup {""} /\ q.limit \in 1..MaxLimit
  /\ q.since # <<>> => q.since[1] \in Int
  /\ "history" \in DOMAIN w /\ w.history \in Seq(Event)
  /\ s \in {0, 200, 500}
PageInv == PageTyped(at, page, query, answer, status)

\* What RTypeOK says, and what the steps need beyond it.
TypeInv == now \in Clock /\ RowsInv /\ PageInv

\* Every listed row was in the table at some time and is of the range.
ListedInv == ToSet(answer.history) \subseteq Possibly(ever, query.person)

\* The cursor never moves up.
OrderInv ==
  \A i \in 1..Len(answer.history), j \in 1..Len(answer.history) :
    i < j => answer.history[i] # answer.history[j] /\ ~TextLess(answer.history[i].time, answer.history[j].time)

\* What the cursor has not found yet lies ahead of it.
AheadInv ==
  \A r \in Surely(steady, query.person) \ ToSet(answer.history), s \in ToSet(answer.history) :
    ~TextLess(s.time, r.time)

\* A list that ended early has found everything.
DoneInv ==
  at = "idle" /\ status = 200 /\ page # "summary" =>
    \A r \in Surely(steady, query.person) \ ToSet(answer.history) : Len(answer.history) = query.limit

RInv == TypeInv /\ ListedInv /\ OrderInv /\ AheadInv /\ DoneInv

-----------------------------------------------------------------------------
\* The time of an event is an integer.
LEMMA EventTime == ASSUME NEW r \in Event PROVE r.time \in Int
  BY EventAssumption

\* Appending adds the new element to the elements.
LEMMA ElementsOfAppend ==
  ASSUME NEW S, NEW q \in Seq(S), NEW x \in S
  PROVE  ToSet(Append(q, x)) = ToSet(q) \cup {x}
  <1>1. /\ DOMAIN Append(q, x) = 1..(Len(q) + 1) /\ DOMAIN q = 1..Len(q) /\ Len(q) \in Nat
        /\ \A i \in 1..Len(q) : Append(q, x)[i] = q[i]
        /\ Append(q, x)[Len(q) + 1] = x
    OBVIOUS
  <1>2. ToSet(Append(q, x)) \subseteq ToSet(q) \cup {x}
    <2>1. SUFFICES ASSUME NEW i \in 1..(Len(q) + 1) PROVE Append(q, x)[i] \in ToSet(q) \cup {x}
      BY <1>1 DEF ToSet
    <2>2. i \in 1..Len(q) \/ i = Len(q) + 1
      BY <1>1
    <2> QED
      BY <1>1, <2>2 DEF ToSet
  <1>3. ToSet(q) \cup {x} \subseteq ToSet(Append(q, x))
    <2>1. ASSUME NEW i \in 1..Len(q) PROVE q[i] \in ToSet(Append(q, x))
      BY <1>1 DEF ToSet
    <2>2. x \in ToSet(Append(q, x))
      <3>1. Len(q) + 1 \in 1..(Len(q) + 1)
        BY <1>1
      <3> QED
        BY <1>1, <3>1 DEF ToSet
    <2> QED
      BY <1>1, <2>1, <2>2 DEF ToSet
  <1> QED
    BY <1>2, <1>3

-----------------------------------------------------------------------------
(***************************************************************************)
(* Every step keeps the invariant.                                         *)
(***************************************************************************)
\* The table changes: rows that stay are fewer, rows that were there are more.
LEMMA TableKeeps ==
  ASSUME RInv, NEW rows, rows \subseteq Event, dirty' \subseteq rows, Table(rows)
  PROVE  RInv'
  <1> USE DEF RInv
  <1>1. /\ view' = rows /\ steady' = steady \cap rows /\ ever' = ever \cup rows /\ now' = now
        /\ at' = at /\ page' = page /\ query' = query /\ answer' = answer /\ status' = status
    BY DEF Table, pageVars
  <1>2. Surely(steady, query.person)' \subseteq Surely(steady, query.person)
    BY <1>1 DEF Surely
  <1>3. Possibly(ever, query.person) \subseteq Possibly(ever, query.person)'
    BY <1>1 DEF Possibly
  <1>4. TypeInv'
    <2>1. RowsInv'
      BY <1>1 DEF RowsInv, TypeInv
    <2>2. PageInv'
      BY <1>1 DEF PageInv, TypeInv
    <2> QED
      BY <1>1, <2>1, <2>2 DEF TypeInv
  <1>5. ListedInv'
    BY <1>1, <1>3 DEF ListedInv
  <1>6. OrderInv'
    BY <1>1 DEF OrderInv
  <1>7. AheadInv'
    BY <1>1, <1>2 DEF AheadInv
  <1>8. DoneInv'
    BY <1>1, <1>2 DEF DoneInv
  <1> QED
    BY <1>4, <1>5, <1>6, <1>7, <1>8

\* Nothing but the reports, the progress and the answer code changes, the
\* history is as it was, and if the answer is complete it was so, or is not
\* one with a history.
LEMMA StillKeeps ==
  ASSUME RInv, TypeInv', UNCHANGED <<page, query, steady, ever>>, answer'.history = answer.history,
         at' = "idle" /\ status' = 200 /\ page # "summary" => at = "idle" /\ status = 200
  PROVE  RInv'
  <1> USE DEF RInv
  <1>1. ListedInv'
    BY DEF ListedInv, Possibly
  <1>2. OrderInv'
    BY DEF OrderInv
  <1>3. AheadInv'
    BY DEF AheadInv, Surely
  <1>4. DoneInv'
    BY DEF DoneInv, Surely
  <1> QED
    BY <1>1, <1>2, <1>3, <1>4

\* What the table surely has is what History may find, as long as it is not
\* listed: it lies ahead of the cursor.
LEMMA SurelyAhead ==
  ASSUME RInv, NEW r \in Surely(steady, query.person) \ ToSet(answer.history)
  PROVE  r \in Ahead
  <1>1. r \in view /\ r \in Event
    <2>1. r \in steady
      BY DEF Surely
    <2> QED
      BY <2>1 DEF RInv, TypeInv, RowsInv
  <1>2. query.since # <<>> => ~TextLess(r.time, query.since[1])
    <2>1. SUFFICES ASSUME query.since # <<>> PROVE ~TextLess(r.time, query.since[1])
      OBVIOUS
    <2>2. r.time \in Int /\ query.since[1] \in Int
      BY <1>1, <2>1, EventTime DEF RInv, TypeInv, PageInv, PageTyped
    <2>3. Sec(r.time) > Sec(query.since[1])
      BY <2>1 DEF Surely
    <2>4. Sec(r.time) \in Int /\ Sec(query.since[1]) \in Int
      BY <2>2, SecType
    <2>5. TextLess(r.time, query.since[1]) => Sec(r.time) <= Sec(query.since[1])
      BY <2>2, TextOrder
    <2> QED
      BY ONLY <2>3, <2>4, <2>5
  <1>3. query.person # "" => r.person = query.person
    BY DEF Surely
  <1>4. r \in whereClause(query.since, query.person, FALSE)
    BY <1>1, <1>2, <1>3 DEF whereClause
  <1>5. \A s \in ToSet(answer.history) : ~TextLess(s.time, r.time)
    BY DEF RInv, AheadInv
  <1> QED
    BY <1>4, <1>5 DEF Ahead

\* What History may find is of the range, and has been in the table.
LEMMA AheadPossibly ==
  ASSUME RInv, NEW r \in Ahead
  PROVE  r \in Event /\ r \in Possibly(ever, query.person) /\ r \notin ToSet(answer.history)
  <1>1. r \in view /\ r \in ever /\ r \in Event
    BY DEF Ahead, whereClause, RInv, TypeInv, RowsInv
  <1>2. query.since # <<>> => Sec(r.time) >= Sec(query.since[1])
    <2>1. SUFFICES ASSUME query.since # <<>> PROVE Sec(r.time) >= Sec(query.since[1])
      OBVIOUS
    <2>2. r.time \in Int /\ query.since[1] \in Int
      BY <1>1, <2>1, EventTime DEF RInv, TypeInv, PageInv, PageTyped
    <2>3. ~TextLess(r.time, query.since[1])
      BY <2>1 DEF Ahead, whereClause
    <2> QED
      BY <2>2, <2>3, TextOrder
  <1>3. query.person # "" => r.person = query.person
    BY DEF Ahead, whereClause
  <1> QED
    BY <1>1, <1>2, <1>3 DEF Possibly, Ahead

\* A request starts with an empty answer.
LEMMA RequestKeeps ==
  ASSUME RInv, NEW p \in {"dashboard", "summary", "history"}, NEW rng, NEW person \in PersonText, NEW n \in Int,
         Request(p, rng, person, n)
  PROVE  RInv'
  <1>1. /\ page' = p /\ at' \in {"totals", "history"} /\ answer' = NoAnswer /\ status' = 0
        /\ steady' = view /\ ever' = view /\ view' = view /\ dirty' = dirty /\ now' = now
    BY DEF Request, tableVars
  <1>2. answer'.history = <<>> /\ "history" \in DOMAIN answer'
    BY <1>1 DEF NoAnswer
  <1>3. query'.person = person /\ query'.limit \in 1..MaxLimit /\ (query'.since # <<>> => query'.since[1] \in Int)
    <2>1. now \in Int /\ DefaultLimit \in Int
      BY TimeAssumption, LimitAssumption DEF RInv, TypeInv
    <2>2. query'.person = person /\ query'.since = rangeStart(normalizeRange(rng), now)
      BY DEF Request
    <2>3. query'.limit = Limit(n) \/ query'.limit = Limit(DefaultLimit)
      BY DEF Request
    <2>4. query'.limit \in 1..MaxLimit
      BY <2>1, <2>3, LimitType
    <2> QED
      BY <2>1, <2>2, <2>4, RangeType
  <1>4. TypeInv'
    <2>1. RowsInv'
      BY <1>1 DEF RowsInv, RInv, TypeInv
    <2>2. page' \in {"dashboard", "summary", "history"} /\ at' \in ReportName /\ status' \in {0, 200, 500}
      BY <1>1 DEF ReportName
    <2>3. answer'.history \in Seq(Event)
      BY <1>2
    <2>4. PageInv'
      BY <1>2, <1>3, <2>2, <2>3 DEF PageInv, PageTyped
    <2> QED
      BY <1>1, <2>1, <2>4 DEF TypeInv, RInv
  <1>5. ToSet(answer'.history) = {} /\ Len(answer'.history) = 0
    BY <1>2 DEF ToSet
  <1>6. ListedInv'
    BY <1>5 DEF ListedInv
  <1>7. OrderInv'
    BY <1>5 DEF OrderInv
  <1>8. AheadInv'
    BY <1>5 DEF AheadInv
  <1>9. DoneInv'
    BY <1>1 DEF DoneInv
  <1> QED
    BY <1>4, <1>6, <1>7, <1>8, <1>9 DEF RInv

\* Where the type of the answer follows from what a report may do.
LEMMA TypeStays ==
  ASSUME TypeInv, UNCHANGED <<view, dirty, steady, ever, now, page, query>>,
         at' \in ReportName, status' \in {0, 200, 500}, "history" \in DOMAIN answer', answer'.history \in Seq(Event)
  PROVE  TypeInv'
  <1>1. RowsInv'
    BY DEF RowsInv, TypeInv
  <1>2. page' = page /\ query' = query /\ PageInv
    BY DEF TypeInv
  <1>3. page' \in {"dashboard", "summary", "history"} /\ query'.person \in PersonText \cup {""} /\ query'.limit \in 1..MaxLimit
    <2>1. page \in {"dashboard", "summary", "history"} /\ query.person \in PersonText \cup {""} /\ query.limit \in 1..MaxLimit
      BY ONLY <1>2 DEF PageInv, PageTyped
    <2> QED
      BY ONLY <1>2, <2>1
  <1>4. query'.since # <<>> => query'.since[1] \in Int
    BY <1>2 DEF PageInv, PageTyped
  <1>5. PageInv'
    BY <1>3, <1>4 DEF PageInv, PageTyped
  <1> QED
    BY <1>1, <1>5 DEF TypeInv

\* The reports before the history.
LEMMA ReadKeeps ==
  ASSUME RInv, ReadTotals \/ ReadPeople \/ ReadAccounts
  PROVE  RInv'
  <1>1. "history" \in DOMAIN answer /\ answer.history \in Seq(Event) /\ status \in {0, 200, 500}
    BY DEF RInv, TypeInv, PageInv, PageTyped
  <1>2. UNCHANGED <<view, dirty, steady, ever, now, page, query>>
    BY DEF ReadTotals, ReadPeople, ReadAccounts, tableVars
  <1>3. answer'.history = answer.history /\ "history" \in DOMAIN answer'
    <2>1. CASE ReadTotals
      BY <1>1, <2>1 DEF ReadTotals
    <2>2. CASE ReadPeople
      BY <1>1, <2>2 DEF ReadPeople
    <2>3. CASE ReadAccounts
      BY <1>1, <2>3 DEF ReadAccounts
    <2> QED
      BY <2>1, <2>2, <2>3
  <1>4. at' \in ReportName /\ status' \in {0, 200, 500} /\ (at' = "idle" => page = "summary")
    BY <1>1 DEF ReadTotals, ReadPeople, ReadAccounts, Finish, ReportName
  <1>5. TypeInv'
    BY <1>1, <1>2, <1>3, <1>4, TypeStays DEF RInv
  <1> QED
    BY <1>2, <1>3, <1>4, <1>5, StillKeeps

\* A failure ends the request with 500, or is one of the summary.
LEMMA QueryFailsKeeps ==
  ASSUME RInv, QueryFails
  PROVE  RInv'
  <1>1. "history" \in DOMAIN answer /\ answer.history \in Seq(Event) /\ status \in {0, 200, 500}
    BY DEF RInv, TypeInv, PageInv, PageTyped
  <1>2. UNCHANGED <<view, dirty, steady, ever, now, page, query, answer>>
    BY DEF QueryFails, tableVars
  <1>3. at' \in ReportName /\ status' \in {0, 200, 500} /\ (at' = "idle" /\ status' = 200 => page = "summary")
    BY <1>1 DEF QueryFails, Finish, ReportName
  <1>4. TypeInv'
    BY <1>1, <1>2, <1>3, TypeStays DEF RInv
  <1> QED
    BY <1>2, <1>3, <1>4, StillKeeps

\* History finds a row: the latest of those that it may find.
LEMMA HistoryStepKeeps ==
  ASSUME RInv, HistoryStep
  PROVE  RInv'
  <1> DEFINE h == answer.history
  <1>1. PICK r \in Ahead : /\ \A s \in Ahead : ~TextLess(r.time, s.time)
                           /\ answer' = [answer EXCEPT !.history = Append(@, r)]
    BY DEF HistoryStep
  <1>2. UNCHANGED <<view, dirty, steady, ever, now, page, query, at, status>>
    BY DEF HistoryStep, tableVars
  <1>3. "history" \in DOMAIN answer /\ h \in Seq(Event) /\ status \in {0, 200, 500} /\ at \in ReportName
    BY DEF RInv, TypeInv, PageInv, PageTyped
  <1>4. r \in Event /\ r \in Possibly(ever, query.person) /\ r \notin ToSet(h)
    BY AheadPossibly
  <1>5. answer'.history = Append(h, r) /\ "history" \in DOMAIN answer'
    BY <1>1, <1>3
  <1>6. Append(h, r) \in Seq(Event) /\ ToSet(Append(h, r)) = ToSet(h) \cup {r}
    BY <1>3, <1>4, ElementsOfAppend
  <1>7. TypeInv'
    BY <1>2, <1>3, <1>5, <1>6, TypeStays DEF RInv
  <1>8. ListedInv'
    <2>1. Possibly(ever, query.person)' = Possibly(ever, query.person)
      BY <1>2 DEF Possibly
    <2> QED
      BY <1>4, <1>5, <1>6, <2>1 DEF RInv, ListedInv
  <1>9. OrderInv'
    <2>1. SUFFICES ASSUME NEW i \in 1..Len(Append(h, r)), NEW j \in 1..Len(Append(h, r)), i < j
                   PROVE  Append(h, r)[i] # Append(h, r)[j] /\ ~TextLess(Append(h, r)[i].time, Append(h, r)[j].time)
      BY <1>5 DEF OrderInv
    <2>2. i \in 1..Len(h) /\ Append(h, r)[i] = h[i] /\ (j \in 1..Len(h) \/ j = Len(h) + 1)
      BY <1>3, <1>4, <2>1
    <2>3. CASE j \in 1..Len(h)
      <3>1. Append(h, r)[j] = h[j]
        BY <1>3, <1>4, <2>3
      <3> QED
        BY <2>1, <2>2, <2>3, <3>1 DEF RInv, OrderInv
    <2>4. CASE j = Len(h) + 1
      <3>1. Append(h, r)[j] = r
        BY <1>3, <1>4, <2>4
      <3>2. h[i] \in ToSet(h)
        BY <1>3, <2>2 DEF ToSet
      <3>3. ~TextLess(h[i].time, r.time)
        BY <1>1, <3>2 DEF Ahead
      <3> QED
        BY <1>4, <2>2, <3>1, <3>2, <3>3
    <2> QED
      BY <2>2, <2>3, <2>4
  <1>10. AheadInv'
    <2>1. Surely(steady, query.person)' = Surely(steady, query.person)
      BY <1>2 DEF Surely
    <2>2. SUFFICES ASSUME NEW q \in Surely(steady, query.person), q \notin ToSet(h), NEW s \in ToSet(h) \cup {r}
                   PROVE  ~TextLess(s.time, q.time)
      BY <1>5, <1>6, <2>1 DEF AheadInv
    <2>3. CASE s = r
      BY <1>1, <2>2, <2>3, SurelyAhead
    <2>4. CASE s \in ToSet(h)
      BY <2>2, <2>4 DEF RInv, AheadInv
    <2> QED
      BY <2>3, <2>4
  <1>11. DoneInv'
    BY <1>2 DEF DoneInv, HistoryStep
  <1> QED
    BY <1>7, <1>8, <1>9, <1>10, <1>11 DEF RInv

\* History ends at its limit, or when there is nothing ahead of the cursor.
LEMMA HistoryDoneKeeps ==
  ASSUME RInv, HistoryDone
  PROVE  RInv'
  <1>1. "history" \in DOMAIN answer /\ answer.history \in Seq(Event)
    BY DEF RInv, TypeInv, PageInv, PageTyped
  <1>2. UNCHANGED <<view, dirty, steady, ever, now, page, query, answer>> /\ at' = "idle" /\ status' = 200
    BY DEF HistoryDone, tableVars, Finish
  <1>3. TypeInv'
    BY <1>1, <1>2, TypeStays DEF RInv, ReportName
  <1>4. ListedInv' /\ OrderInv' /\ AheadInv'
    BY <1>2 DEF RInv, ListedInv, OrderInv, AheadInv, Possibly, Surely
  <1>5. DoneInv'
    <2>1. Surely(steady, query.person)' = Surely(steady, query.person)
      BY <1>2 DEF Surely
    <2>2. ASSUME NEW r \in Surely(steady, query.person) \ ToSet(answer.history)
          PROVE  Len(answer.history) = query.limit
      <3>1. Ahead # {}
        BY SurelyAhead
      <3> QED
        BY <3>1 DEF HistoryDone
    <2> QED
      BY <1>2, <2>1, <2>2 DEF DoneInv
  <1> QED
    BY <1>3, <1>4, <1>5 DEF RInv

\* The writers: an Insert, its end, and the pruner.
LEMMA WriteKeeps ==
  ASSUME RInv, (\E batch \in Batches : Insert(batch)) \/ Commit \/ Rollback \/ Prune
  PROVE  RInv'
  <1>1. view \subseteq Event /\ dirty \subseteq view
    BY DEF RInv, TypeInv, RowsInv
  <1>2. ASSUME NEW batch \in Batches, Insert(batch) PROVE RInv'
    <2>1. dirty' \subseteq Event
      BY <1>2, EventAssumption DEF Insert
    <2> QED
      BY <1>1, <1>2, <2>1, TableKeeps DEF Insert
  <1>3. ASSUME Commit PROVE RInv'
    BY <1>1, <1>3, TableKeeps DEF Commit
  <1>4. ASSUME Rollback PROVE RInv'
    <2>1. Table(view \ dirty) /\ dirty' = {} /\ view \ dirty \subseteq Event
      BY <1>1, <1>4 DEF Rollback
    <2> QED
      BY <2>1, TableKeeps
  <1>5. ASSUME Prune PROVE RInv'
    <2> DEFINE rows == {r \in view : ~TextLess(r.time, Cutoff)}
    <2>1. Table(rows) /\ dirty' = {} /\ rows \subseteq Event
      BY <1>1, <1>5 DEF Prune
    <2> QED
      BY <2>1, TableKeeps
  <1> QED
    BY <1>2, <1>3, <1>4, <1>5

\* The clock.
LEMMA TickKeeps ==
  ASSUME RInv, Tick
  PROVE  RInv'
  <1>1. now' \in Clock /\ UNCHANGED <<view, dirty, steady, ever, at, page, query, answer, status>>
    BY DEF Tick, tableVars, pageVars
  <1>2. now \in Clock /\ RowsInv /\ PageInv
    BY ONLY RInv DEF RInv, TypeInv
  <1>3. RowsInv'
    BY ONLY <1>1, <1>2 DEF RowsInv
  <1>4. PageInv'
    BY ONLY <1>1, <1>2 DEF PageInv
  <1>5. TypeInv'
    BY ONLY <1>1, <1>2, <1>3, <1>4 DEF TypeInv
  <1> QED
    BY <1>1, <1>5, StillKeeps

\* At first there is nothing.
LEMMA InitEstablishes == Init => RInv
  <1> SUFFICES ASSUME Init PROVE RInv
    OBVIOUS
  <1>1. answer.history = <<>> /\ "history" \in DOMAIN answer
    BY DEF Init, NoAnswer
  <1>2. query.since = <<>> /\ query.person = "" /\ query.limit \in 1..MaxLimit
    BY LimitAssumption DEF Init
  <1>3. TypeInv
    <2>1. now \in Clock /\ RowsInv
      BY DEF Init, RowsInv
    <2>2. at \in ReportName /\ page \in {"dashboard", "summary", "history"} /\ status \in {0, 200, 500}
      BY DEF Init, ReportName
    <2>3. answer.history \in Seq(Event)
      BY <1>1
    <2>4. PageInv
      BY <1>1, <1>2, <2>2, <2>3 DEF PageInv, PageTyped
    <2> QED
      BY <2>1, <2>4 DEF TypeInv
  <1>4. ToSet(answer.history) = {} /\ Len(answer.history) = 0
    BY <1>1 DEF ToSet
  <1>5. ListedInv /\ AheadInv
    BY <1>4 DEF ListedInv, AheadInv
  <1>6. OrderInv
    BY <1>4 DEF OrderInv
  <1>7. DoneInv
    <2>1. status = 0
      BY DEF Init
    <2> QED
      BY ONLY <2>1 DEF DoneInv
  <1> QED
    BY <1>3, <1>5, <1>6, <1>7 DEF RInv

\* A step that changes nothing.
LEMMA StutterKeeps ==
  ASSUME RInv, UNCHANGED vars
  PROVE  RInv'
  <1>1. UNCHANGED <<view, dirty, steady, ever, now, at, page, query, answer, status>>
    BY DEF vars, tableVars, pageVars
  <1>2. now \in Clock /\ RowsInv /\ PageInv
    BY ONLY RInv DEF RInv, TypeInv
  <1>3. RowsInv'
    BY ONLY <1>1, <1>2 DEF RowsInv
  <1>4. PageInv'
    BY ONLY <1>1, <1>2 DEF PageInv
  <1>5. TypeInv'
    BY ONLY <1>1, <1>2, <1>3, <1>4 DEF TypeInv
  <1> QED
    BY <1>1, <1>5, StillKeeps

\* Every step of the reports and the table keeps the invariant.
LEMMA NextKeeps == ASSUME RInv, [Next]_vars PROVE RInv'
  <1>1. ASSUME NEW p \in {"dashboard", "summary"}, NEW rng \in RangeText, NEW person \in PersonText,
               Request(p, rng, person, 0)
        PROVE  RInv'
    BY <1>1, RequestKeeps
  <1>2. ASSUME NEW rng \in RangeText, NEW person \in PersonText, NEW n \in LimitValue,
               Request("history", rng, person, n)
        PROVE  RInv'
    <2>1. n \in Int
      BY LimitAssumption
    <2> QED
      BY <1>2, <2>1, RequestKeeps
  <1>3. ASSUME Report PROVE RInv'
    BY <1>3, ReadKeeps, HistoryStepKeeps, HistoryDoneKeeps, QueryFailsKeeps DEF Report
  <1>4. CASE (\E batch \in Batches : Insert(batch)) \/ Commit \/ Rollback \/ Prune
    BY <1>4, WriteKeeps
  <1>5. CASE Tick
    BY <1>5, TickKeeps
  <1>6. CASE UNCHANGED vars
    BY <1>6, StutterKeeps
  <1> QED
    BY <1>1, <1>2, <1>3, <1>4, <1>5, <1>6 DEF Next

-----------------------------------------------------------------------------
(***************************************************************************)
(* The columns of the reports.                                             *)
(***************************************************************************)
\* h adds costs as MapThenSumSet does it.
AddsCosts(h, A) ==
  h = [s \in SUBSET A |-> IF s = {} THEN 0 ELSE (CHOOSE x \in s : TRUE).cost + h[s \ {CHOOSE x \in s : TRUE}]]

\* A sum of costs is one in the sense of Induction (Aggregate).
LEMMA CostSum ==
  ASSUME NEW S \in SUBSET Event, IsFiniteSet(S), NEW g, IsSum(g, [r \in S |-> r.cost], S), NEW A \in SUBSET S
  PROVE  Aggregate(A).cost = g[A]
  <1> DEFINE f == [r \in S |-> r.cost]
             g0 == [s \in SUBSET A |-> g[s]]
  <1>1. f \in [S -> Nat]
    BY EventAssumption
  <1>2. Aggregate(A).cost = (CHOOSE h : AddsCosts(h, A))[A]
    BY DEF Aggregate, MapThenSumSet, MapThenFoldSet, AddsCosts
  <1>3. \A s \in SUBSET A : \A x \in s : s \ {x} \in SUBSET A /\ f[x] = x.cost
    OBVIOUS
  <1>4. g[{}] = 0 /\ \A s \in SUBSET A : \A x \in s : g[s] = f[x] + g[s \ {x}]
    BY DEF IsSum
  <1> HIDE DEF f
  <1>5. AddsCosts(g0, A)
    <2>1. ASSUME NEW s \in SUBSET A
          PROVE  g[s] = IF s = {} THEN 0 ELSE (CHOOSE x \in s : TRUE).cost + g0[s \ {CHOOSE x \in s : TRUE}]
      <3>1. CASE s = {}
        BY <1>4, <3>1
      <3>2. CASE s # {}
        <4> DEFINE c == CHOOSE x \in s : TRUE
        <4>1. c \in s
          BY <3>2
        <4> HIDE DEF c
        <4>2. g[s] = f[c] + g[s \ {c}]
          BY <1>4, <4>1
        <4>3. f[c] = c.cost /\ s \ {c} \in SUBSET A
          BY <1>3, <4>1
        <4>4. g0[s \ {c}] = g[s \ {c}]
          BY <4>3
        <4>5. g[s] = c.cost + g0[s \ {c}]
          BY ONLY <4>2, <4>3, <4>4
        <4> QED
          BY <3>2, <4>5 DEF c
      <3> QED
        BY <3>1, <3>2
    <2> QED
      BY <2>1 DEF AddsCosts
  <1>6. PICK h : h = (CHOOSE i : AddsCosts(i, A)) /\ AddsCosts(h, A)
    BY <1>5
  <1>7. SumsUp(h, f, A)
    <2> DEFINE one(s) == IF s = {} THEN 0 ELSE (CHOOSE x \in s : TRUE).cost + h[s \ {CHOOSE x \in s : TRUE}]
               two(s) == IF s = {} THEN 0 ELSE f[CHOOSE x \in s : TRUE] + h[s \ {CHOOSE x \in s : TRUE}]
    <2>1. ASSUME NEW s \in SUBSET A PROVE one(s) = two(s)
      <3>1. s # {} => (CHOOSE x \in s : TRUE) \in s
        OBVIOUS
      <3>2. s # {} => f[CHOOSE x \in s : TRUE] = (CHOOSE x \in s : TRUE).cost
        BY <1>3, <3>1
      <3> QED
        BY <3>2
    <2>2. h = [s \in SUBSET A |-> one(s)]
      BY <1>6 DEF AddsCosts
    <2> HIDE DEF one, two
    <2>3. h = [s \in SUBSET A |-> two(s)]
      BY ONLY <2>1, <2>2
    <2> QED
      BY ONLY <2>3 DEF SumsUp, two
  <1>8. h[A] = g[A]
    <2>1. IsSum(g, f, S)
      BY DEF f
    <2> QED
      BY <1>1, <1>7, <2>1, SumUnique
  <1> QED
    BY <1>2, <1>6, <1>8

\* More rows never make a column smaller.
LEMMA MoreRows ==
  ASSUME NEW B \in SUBSET Event, IsFiniteSet(B), NEW A \in SUBSET B, NEW c \in DOMAIN Nothing
  PROVE  Aggregate(A)[c] <= Aggregate(B)[c]
  <1>1. c \in {"requests", "sessions", "cost"}
    BY DEF Nothing, Aggregate
  <1>2. CASE c = "requests"
    BY <1>2, FS_Subset DEF Aggregate
  <1>3. CASE c = "sessions"
    <2> DEFINE of(rows) == {r.session : r \in rows}
    <2>1. IsFiniteSet(of(B))
      <3> DEFINE f == [r \in B |-> r.session]
      <3>1. IsFiniteSet({f[r] : r \in B})
        BY FiniteImage
      <3>2. {f[r] : r \in B} = of(B)
        OBVIOUS
      <3> QED
        BY <3>1, <3>2
    <2>2. of(A) \subseteq of(B)
      OBVIOUS
    <2>3. Cardinality(of(A) \ {""}) <= Cardinality(of(B) \ {""})
      <3> HIDE DEF of
      <3>1. of(B) \ {""} \in SUBSET of(B) /\ of(A) \ {""} \in SUBSET (of(B) \ {""})
        BY ONLY <2>2
      <3>2. IsFiniteSet(of(B) \ {""})
        BY ONLY <2>1, <3>1, FS_Subset
      <3> QED
        BY ONLY <3>1, <3>2, FS_Subset
    <2> QED
      BY <1>3, <2>3 DEF Aggregate
  <1>4. CASE c = "cost"
    <2> DEFINE f == [r \in B |-> r.cost]
    <2>1. f \in [B -> Nat]
      BY EventAssumption
    <2>2. PICK g : IsSum(g, f, B)
      BY <2>1, SumExists
    <2>3. g[A] <= g[B]
      BY <2>1, <2>2, SumMonotone
    <2>4. Aggregate(A).cost = g[A] /\ Aggregate(B).cost = g[B]
      BY <2>2, CostSum
    <2> QED
      BY <1>4, <2>3, <2>4
  <1> QED
    BY <1>1, <1>2, <1>3, <1>4

-----------------------------------------------------------------------------
(***************************************************************************)
(* What the columns of the dashboard count.                                *)
(***************************************************************************)
\* The columns are those of some rows between the first and the second.
Counts(columns, low, high) == \E rows \in SUBSET high : low \subseteq rows /\ columns = Aggregate(rows)

\* The dashboard has gone on to one of these reports, or is answered.
Past(reports) == page = "dashboard" /\ (at \in reports \/ (at = "idle" /\ status = 200))

OfPerson(rows, p) == {s \in Requests(rows) : s.person = p}
OfAccount(rows, a) == {s \in Requests(rows) : s.account = a}

TotalsInv ==
  Past({"people", "accounts", "history"}) =>
    Counts(answer.totals, Surely(Requests(steady), query.person), Possibly(Requests(ever), query.person))

PeopleInv ==
  Past({"accounts", "history"}) =>
    \A r \in Event : Counts(Columns(answer.people, r.person),
                            Surely(OfPerson(steady, r.person), ""), Possibly(OfPerson(ever, r.person), ""))

AccountsInv ==
  Past({"history"}) =>
    \A r \in Event : Counts(Columns(answer.accounts, r.account),
                            Surely(OfAccount(steady, r.account), query.person),
                            Possibly(OfAccount(ever, r.account), query.person))

\* As long as the table has not changed, the reports are those of the table.
SameInv ==
  steady = ever =>
    /\ Past({"people", "accounts", "history"}) => answer.totals = Totals(query.since, query.person)
    /\ Past({"accounts", "history"}) => answer.people = ByPerson(query.since)

ColumnsInv ==
  /\ IsFiniteSet(ever) /\ DOMAIN answer = DOMAIN NoAnswer
  /\ TotalsInv /\ PeopleInv /\ AccountsInv /\ SameInv

\* A range read between two tables selects what lies between them (whereClause).
LEMMA WhereBetween ==
  ASSUME RInv, NEW person
  PROVE  /\ Surely(Requests(steady), person) \subseteq whereClause(query.since, person, TRUE)
         /\ whereClause(query.since, person, TRUE) \subseteq Possibly(Requests(ever), person)
  <1>1. RowsInv /\ (query.since # <<>> => query.since[1] \in Int)
    BY DEF RInv, TypeInv, PageInv, PageTyped
  <1>2. ASSUME NEW r \in Event, query.since # <<>>
        PROVE  /\ Sec(r.time) > Sec(query.since[1]) => ~TextLess(r.time, query.since[1])
               /\ ~TextLess(r.time, query.since[1]) => Sec(r.time) >= Sec(query.since[1])
    <2>1. r.time \in Int /\ query.since[1] \in Int
      BY <1>1, <1>2, EventTime
    <2>2. Sec(r.time) \in Int /\ Sec(query.since[1]) \in Int
      BY <2>1, SecType
    <2>3. /\ TextLess(r.time, query.since[1]) => Sec(r.time) <= Sec(query.since[1])
          /\ ~TextLess(r.time, query.since[1]) => Sec(r.time) >= Sec(query.since[1])
      BY <2>1, TextOrder
    <2> QED
      BY ONLY <2>2, <2>3
  <1>3. steady \subseteq view /\ view \subseteq ever /\ steady \subseteq Event /\ view \subseteq Event
    BY <1>1 DEF RowsInv
  <1>4. ASSUME NEW r \in Surely(Requests(steady), person)
        PROVE  r \in whereClause(query.since, person, TRUE)
    <2>1. r \in view /\ r \in Event /\ r.name = "api_request" /\ (person # "" => r.person = person)
      BY <1>3, <1>4 DEF Surely, Requests
    <2>2. query.since # <<>> => ~TextLess(r.time, query.since[1])
      BY <1>2, <1>4, <2>1 DEF Surely
    <2> QED
      BY <2>1, <2>2 DEF whereClause
  <1>5. ASSUME NEW r \in whereClause(query.since, person, TRUE)
        PROVE  r \in Possibly(Requests(ever), person)
    <2>1. r \in ever /\ r \in Event /\ r.name = "api_request" /\ (person # "" => r.person = person)
      BY <1>3, <1>5 DEF whereClause
    <2>2. query.since # <<>> => Sec(r.time) >= Sec(query.since[1])
      BY <1>2, <1>5, <2>1 DEF whereClause
    <2> QED
      BY <2>1, <2>2 DEF Possibly, Requests
  <1> QED
    BY <1>4, <1>5

\* The same of the rows of one person, and of one account.
LEMMA GroupBetween ==
  ASSUME RInv, NEW person, NEW id
  PROVE  /\ LET rows == {r \in whereClause(query.since, person, TRUE) : r.person = id}
            IN  /\ Surely(OfPerson(steady, id), person) \subseteq rows
                /\ rows \subseteq Possibly(OfPerson(ever, id), person)
         /\ LET rows == {r \in whereClause(query.since, person, TRUE) : r.account = id}
            IN  /\ Surely(OfAccount(steady, id), person) \subseteq rows
                /\ rows \subseteq Possibly(OfAccount(ever, id), person)
  <1> DEFINE all == whereClause(query.since, person, TRUE)
  <1>1. /\ Surely(Requests(steady), person) \subseteq all
        /\ all \subseteq Possibly(Requests(ever), person)
    BY WhereBetween
  <1>2. ASSUME NEW rows
        PROVE  /\ Surely(OfPerson(rows, id), person) = {r \in Surely(Requests(rows), person) : r.person = id}
               /\ Possibly(OfPerson(rows, id), person) = {r \in Possibly(Requests(rows), person) : r.person = id}
               /\ Surely(OfAccount(rows, id), person) = {r \in Surely(Requests(rows), person) : r.account = id}
               /\ Possibly(OfAccount(rows, id), person) = {r \in Possibly(Requests(rows), person) : r.account = id}
    BY DEF Surely, Possibly, OfPerson, OfAccount
  <1> HIDE DEF all
  <1>3. /\ Surely(OfPerson(steady, id), person) \subseteq {r \in all : r.person = id}
        /\ Surely(OfAccount(steady, id), person) \subseteq {r \in all : r.account = id}
    BY ONLY <1>1, <1>2
  <1>4. /\ {r \in all : r.person = id} \subseteq Possibly(OfPerson(ever, id), person)
        /\ {r \in all : r.account = id} \subseteq Possibly(OfAccount(ever, id), person)
    BY ONLY <1>1, <1>2
  <1> QED
    BY <1>3, <1>4 DEF all

\* The list has one row for each person with requests, and none for the others:
\* either way its columns are those of the person's requests (ByPerson).
LEMMA ColumnsOfPeople ==
  ASSUME NEW since, NEW id
  PROVE  Columns(ByPerson(since), id) = Aggregate({r \in whereClause(since, "", TRUE) : r.person = id})
  <1> DEFINE rows == whereClause(since, "", TRUE)
             list == ByPerson(since)
             cols(p) == Aggregate({r \in rows : r.person = p})
  <1>1. list = {[id |-> p, label |-> Label(p), totals |-> cols(p)] : p \in {r.person : r \in rows}}
    BY DEF ByPerson
  <1> HIDE DEF list, cols
  <1>2. ASSUME NEW e \in list
        PROVE  e.id \in {r.person : r \in rows} /\ e.totals = cols(e.id)
    <2>1. PICK p \in {r.person : r \in rows} : e = [id |-> p, label |-> Label(p), totals |-> cols(p)]
      BY ONLY <1>1, e \in list
    <2> QED
      BY ONLY <2>1
  <1>3. (\E e \in list : e.id = id) <=> \E r \in rows : r.person = id
    <2>1. ASSUME NEW r \in rows, r.person = id PROVE \E e \in list : e.id = id
      <3>1. [id |-> id, label |-> Label(id), totals |-> cols(id)] \in list
        BY ONLY <1>1, <2>1
      <3> QED
        BY ONLY <3>1
    <2> QED
      BY <1>2, <2>1
  <1>4. CASE \E r \in rows : r.person = id
    BY <1>2, <1>3, <1>4 DEF Columns, list, cols
  <1>5. CASE ~\E r \in rows : r.person = id
    <2>1. {r \in rows : r.person = id} = {}
      BY <1>5
    <2>2. cols(id) = Nothing
      BY <2>1 DEF Nothing, cols
    <2> QED
      BY <1>3, <1>5, <2>2 DEF Columns, list, cols
  <1> QED
    BY <1>4, <1>5

\* The same of the accounts (ByAccount).
LEMMA ColumnsOfAccounts ==
  ASSUME NEW since, NEW person, NEW id
  PROVE  Columns(ByAccount(since, person), id) = Aggregate({r \in whereClause(since, person, TRUE) : r.account = id})
  <1> DEFINE rows == whereClause(since, person, TRUE)
             list == ByAccount(since, person)
             cols(a) == Aggregate({r \in rows : r.account = a})
  <1>1. list = {[id |-> a, totals |-> cols(a)] : a \in {r.account : r \in rows}}
    BY DEF ByAccount
  <1> HIDE DEF list, cols
  <1>2. ASSUME NEW e \in list
        PROVE  e.id \in {r.account : r \in rows} /\ e.totals = cols(e.id)
    <2>1. PICK a \in {r.account : r \in rows} : e = [id |-> a, totals |-> cols(a)]
      BY ONLY <1>1, e \in list
    <2> QED
      BY ONLY <2>1
  <1>3. (\E e \in list : e.id = id) <=> \E r \in rows : r.account = id
    <2>1. ASSUME NEW r \in rows, r.account = id PROVE \E e \in list : e.id = id
      <3>1. [id |-> id, totals |-> cols(id)] \in list
        BY ONLY <1>1, <2>1
      <3> QED
        BY ONLY <3>1
    <2> QED
      BY <1>2, <2>1
  <1>4. CASE \E r \in rows : r.account = id
    BY <1>2, <1>3, <1>4 DEF Columns, list, cols
  <1>5. CASE ~\E r \in rows : r.account = id
    <2>1. {r \in rows : r.account = id} = {}
      BY <1>5
    <2>2. cols(id) = Nothing
      BY <2>1 DEF Nothing, cols
    <2> QED
      BY <1>3, <1>5, <2>2 DEF Columns, list, cols
  <1> QED
    BY <1>4, <1>5

\* Fewer rows that must be counted and more that may be: still counted.
LEMMA CountsWider ==
  ASSUME NEW columns, NEW low, NEW high, Counts(columns, low, high),
         NEW less \in SUBSET low, NEW more, high \subseteq more
  PROVE  Counts(columns, less, more)
  <1>1. PICK rows \in SUBSET high : low \subseteq rows /\ columns = Aggregate(rows)
    BY DEF Counts
  <1>2. rows \in SUBSET more /\ less \subseteq rows
    BY <1>1
  <1> QED
    BY <1>1, <1>2 DEF Counts

\* A change of the table widens what the reports may have counted.
LEMMA TableColumns ==
  ASSUME RInv, ColumnsInv, NEW rows, IsFiniteSet(rows), Table(rows)
  PROVE  ColumnsInv'
  <1>1. /\ view' = rows /\ steady' = steady \cap rows /\ ever' = ever \cup rows
        /\ at' = at /\ page' = page /\ query' = query /\ answer' = answer /\ status' = status
    BY DEF Table, pageVars
  <1>2. IsFiniteSet(ever') /\ DOMAIN answer' = DOMAIN NoAnswer
    BY <1>1, FS_Union DEF ColumnsInv
  <1>3. ASSUME NEW reports PROVE Past(reports)' = Past(reports)
    BY <1>1 DEF Past
  <1>4. TotalsInv'
    <2>1. /\ Surely(Requests(steady), query.person)' \subseteq Surely(Requests(steady), query.person)
          /\ Possibly(Requests(ever), query.person) \subseteq Possibly(Requests(ever), query.person)'
      BY <1>1 DEF Surely, Possibly, Requests
    <2>2. SUFFICES ASSUME Past({"people", "accounts", "history"})
                   PROVE  Counts(answer.totals, Surely(Requests(steady), query.person)', Possibly(Requests(ever), query.person)')
      BY <1>1, <1>3 DEF TotalsInv, Counts
    <2>3. Counts(answer.totals, Surely(Requests(steady), query.person), Possibly(Requests(ever), query.person))
      BY <2>2 DEF ColumnsInv, TotalsInv
    <2> QED
      BY ONLY <2>1, <2>3, CountsWider
  <1>5. PeopleInv'
    <2>1. SUFFICES ASSUME Past({"accounts", "history"}), NEW r \in Event
                   PROVE  Counts(Columns(answer.people, r.person),
                                 Surely(OfPerson(steady, r.person), "")', Possibly(OfPerson(ever, r.person), "")')
      BY <1>1, <1>3 DEF PeopleInv, Counts
    <2>2. /\ Surely(OfPerson(steady, r.person), "")' \subseteq Surely(OfPerson(steady, r.person), "")
          /\ Possibly(OfPerson(ever, r.person), "") \subseteq Possibly(OfPerson(ever, r.person), "")'
      BY <1>1 DEF Surely, Possibly, Requests, OfPerson
    <2>3. Counts(Columns(answer.people, r.person),
                 Surely(OfPerson(steady, r.person), ""), Possibly(OfPerson(ever, r.person), ""))
      BY <2>1 DEF ColumnsInv, PeopleInv
    <2> QED
      BY ONLY <2>2, <2>3, CountsWider
  <1>6. AccountsInv'
    <2>1. SUFFICES ASSUME Past({"history"}), NEW r \in Event
                   PROVE  Counts(Columns(answer.accounts, r.account),
                                 Surely(OfAccount(steady, r.account), query.person)',
                                 Possibly(OfAccount(ever, r.account), query.person)')
      BY <1>1, <1>3 DEF AccountsInv, Counts
    <2>2. /\ Surely(OfAccount(steady, r.account), query.person)' \subseteq Surely(OfAccount(steady, r.account), query.person)
          /\ Possibly(OfAccount(ever, r.account), query.person) \subseteq Possibly(OfAccount(ever, r.account), query.person)'
      BY <1>1 DEF Surely, Possibly, Requests, OfAccount
    <2>3. Counts(Columns(answer.accounts, r.account),
                 Surely(OfAccount(steady, r.account), query.person), Possibly(OfAccount(ever, r.account), query.person))
      BY <2>1 DEF ColumnsInv, AccountsInv
    <2> QED
      BY ONLY <2>2, <2>3, CountsWider
  <1>7. SameInv'
    <2>1. SUFFICES ASSUME steady' = ever' PROVE steady = ever /\ view' = view
      BY <1>1, <1>3 DEF SameInv, ColumnsInv, Totals, ByPerson, whereClause
    <2>2. steady \subseteq view /\ view \subseteq ever
      BY DEF RInv, TypeInv, RowsInv
    <2> QED
      BY <1>1, <2>1, <2>2
  <1> QED
    BY <1>2, <1>4, <1>5, <1>6, <1>7 DEF ColumnsInv

\* The table stays as it is: every report is as it was, or is read from it.
LEMMA ReportColumns ==
  ASSUME RInv, ColumnsInv, UNCHANGED <<view, page, query, steady, ever>>, DOMAIN answer' = DOMAIN NoAnswer,
         Past({"people", "accounts", "history"})' =>
           \/ Past({"people", "accounts", "history"}) /\ answer'.totals = answer.totals
           \/ answer'.totals = Totals(query.since, query.person),
         Past({"accounts", "history"})' =>
           \/ Past({"accounts", "history"}) /\ answer'.people = answer.people
           \/ answer'.people = ByPerson(query.since),
         Past({"history"})' =>
           \/ Past({"history"}) /\ answer'.accounts = answer.accounts
           \/ answer'.accounts = ByAccount(query.since, query.person)
  PROVE  ColumnsInv'
  <1>1. TotalsInv'
    <2>1. /\ Surely(Requests(steady), query.person)' = Surely(Requests(steady), query.person)
          /\ Possibly(Requests(ever), query.person)' = Possibly(Requests(ever), query.person)
      BY DEF Surely, Possibly, Requests
    <2>2. SUFFICES ASSUME Past({"people", "accounts", "history"})'
                   PROVE  Counts(answer'.totals, Surely(Requests(steady), query.person), Possibly(Requests(ever), query.person))
      BY <2>1 DEF TotalsInv, Counts
    <2>3. CASE Past({"people", "accounts", "history"}) /\ answer'.totals = answer.totals
      BY <2>3 DEF ColumnsInv, TotalsInv
    <2>4. CASE answer'.totals = Totals(query.since, query.person)
      BY <2>4, WhereBetween DEF Totals, Counts
    <2> QED
      BY <2>2, <2>3, <2>4
  <1>2. PeopleInv'
    <2>1. SUFFICES ASSUME Past({"accounts", "history"})', NEW r \in Event
                   PROVE  Counts(Columns(answer'.people, r.person),
                                 Surely(OfPerson(steady, r.person), ""), Possibly(OfPerson(ever, r.person), ""))
      BY DEF PeopleInv, Counts, Surely, Possibly, Requests, OfPerson
    <2>2. CASE Past({"accounts", "history"}) /\ answer'.people = answer.people
      BY <2>2 DEF ColumnsInv, PeopleInv
    <2>3. CASE answer'.people = ByPerson(query.since)
      <3> DEFINE rows == {s \in whereClause(query.since, "", TRUE) : s.person = r.person}
      <3>1. Columns(answer'.people, r.person) = Aggregate(rows)
        <4>1. Columns(ByPerson(query.since), r.person) = Aggregate(rows)
          BY ColumnsOfPeople
        <4> QED
          BY ONLY <2>3, <4>1
      <3>2. Surely(OfPerson(steady, r.person), "") \subseteq rows /\ rows \subseteq Possibly(OfPerson(ever, r.person), "")
        BY GroupBetween
      <3> QED
        BY ONLY <3>1, <3>2 DEF Counts
    <2> QED
      BY <2>1, <2>2, <2>3
  <1>3. AccountsInv'
    <2>1. SUFFICES ASSUME Past({"history"})', NEW r \in Event
                   PROVE  Counts(Columns(answer'.accounts, r.account),
                                 Surely(OfAccount(steady, r.account), query.person),
                                 Possibly(OfAccount(ever, r.account), query.person))
      BY DEF AccountsInv, Counts, Surely, Possibly, Requests, OfAccount
    <2>2. CASE Past({"history"}) /\ answer'.accounts = answer.accounts
      BY <2>2 DEF ColumnsInv, AccountsInv
    <2>3. CASE answer'.accounts = ByAccount(query.since, query.person)
      <3> DEFINE rows == {s \in whereClause(query.since, query.person, TRUE) : s.account = r.account}
      <3>1. Columns(answer'.accounts, r.account) = Aggregate(rows)
        <4>1. Columns(ByAccount(query.since, query.person), r.account)
                = Aggregate({s \in whereClause(query.since, query.person, TRUE) : s.account = r.account})
          <5>1. \A since, person, id :
                  Columns(ByAccount(since, person), id) = Aggregate({s \in whereClause(since, person, TRUE) : s.account = id})
            BY ColumnsOfAccounts
          <5> QED
            BY ONLY <5>1
        <4> QED
          BY ONLY <2>3, <4>1
      <3>2. /\ Surely(OfAccount(steady, r.account), query.person) \subseteq rows
            /\ rows \subseteq Possibly(OfAccount(ever, r.account), query.person)
        BY GroupBetween
      <3> QED
        BY ONLY <3>1, <3>2 DEF Counts
    <2> QED
      BY <2>1, <2>2, <2>3
  <1>4. SameInv'
    <2>1. Totals(query.since, query.person)' = Totals(query.since, query.person) /\ ByPerson(query.since)' = ByPerson(query.since)
      BY DEF Totals, ByPerson, whereClause
    <2>2. SUFFICES ASSUME steady = ever
                   PROVE  /\ Past({"people", "accounts", "history"})' => answer'.totals = Totals(query.since, query.person)
                          /\ Past({"accounts", "history"})' => answer'.people = ByPerson(query.since)
      <3>1. steady' = steady /\ ever' = ever
        OBVIOUS
      <3>2. steady = ever =>
              /\ Past({"people", "accounts", "history"})' => answer'.totals = Totals(query.since, query.person)'
              /\ Past({"accounts", "history"})' => answer'.people = ByPerson(query.since)'
        BY <2>1, <2>2
      <3> QED
        BY ONLY <3>1, <3>2 DEF SameInv
    <2>3. SameInv
      BY DEF ColumnsInv
    <2> QED
      BY <2>2, <2>3 DEF SameInv
  <1> QED
    BY <1>1, <1>2, <1>3, <1>4 DEF ColumnsInv

\* Every step keeps what the columns count.
LEMMA NextKeepsColumns == ASSUME RInv, ColumnsInv, [Next]_vars PROVE ColumnsInv'
  <1>1. IsFiniteSet(ever) /\ view \subseteq ever /\ DOMAIN answer = DOMAIN NoAnswer
    BY DEF ColumnsInv, RInv, TypeInv, RowsInv
  <1>2. IsFiniteSet(view)
    BY <1>1, FS_Subset
  <1>3. ASSUME NEW p \in {"dashboard", "summary", "history"}, NEW rng, NEW person, NEW n, Request(p, rng, person, n)
        PROVE  ColumnsInv'
    <2>1. /\ page' = p /\ at' = (IF p = "history" THEN "history" ELSE "totals") /\ answer' = NoAnswer /\ status' = 0
          /\ ever' = view
      BY <1>3 DEF Request
    <2>2. ~Past({"people", "accounts", "history"})' /\ ~Past({"accounts", "history"})' /\ ~Past({"history"})'
      BY <2>1 DEF Past
    <2> QED
      BY <1>2, <2>1, <2>2 DEF ColumnsInv, TotalsInv, PeopleInv, AccountsInv, SameInv
  <1>4. ASSUME NEW batch \in Batches, Insert(batch) PROVE ColumnsInv'
    <2>1. dirty' \subseteq batch /\ IsFiniteSet(batch) /\ Table(view \cup dirty')
      BY <1>4, EventAssumption DEF Insert
    <2>2. PICK rows : rows = view \cup dirty'
      OBVIOUS
    <2>3. IsFiniteSet(rows)
      BY <1>2, <2>1, <2>2, FS_Subset, FS_Union
    <2> QED
      BY <2>1, <2>2, <2>3, TableColumns
  <1>5. ASSUME Commit \/ Rollback \/ Prune PROVE ColumnsInv'
    <2>1. PICK rows \in SUBSET view : Table(rows)
      <3>1. Commit => Table(view)
        BY DEF Commit
      <3>2. Rollback => Table(view \ dirty)
        BY DEF Rollback
      <3>3. Prune => Table({r \in view : ~TextLess(r.time, Cutoff)})
        BY DEF Prune
      <3> QED
        BY <1>5, <3>1, <3>2, <3>3
    <2>2. IsFiniteSet(rows)
      BY <1>2, FS_Subset
    <2> QED
      BY <2>1, <2>2, TableColumns
  <1>6. ASSUME ReadTotals PROVE ColumnsInv'
    <2>1. UNCHANGED <<view, page, query, steady, ever>> /\ at' = "people"
      BY <1>6 DEF ReadTotals, tableVars
    <2>2. DOMAIN answer' = DOMAIN NoAnswer /\ answer'.totals = Totals(query.since, query.person)
      BY <1>1, <1>6 DEF ReadTotals, NoAnswer
    <2> QED
      BY <2>1, <2>2, ReportColumns DEF Past
  <1>7. ASSUME ReadPeople PROVE ColumnsInv'
    <2>1. UNCHANGED <<view, page, query, steady, ever>> /\ at' = "accounts" /\ at = "people"
      BY <1>7 DEF ReadPeople, tableVars
    <2>2. DOMAIN answer' = DOMAIN NoAnswer /\ answer'.totals = answer.totals /\ answer'.people = ByPerson(query.since)
      BY <1>1, <1>7 DEF ReadPeople, NoAnswer
    <2> QED
      BY <2>1, <2>2, ReportColumns DEF Past
  <1>8. ASSUME ReadAccounts PROVE ColumnsInv'
    <2>1. UNCHANGED <<view, page, query, steady, ever>> /\ at = "accounts" /\ (page = "dashboard" => at' = "history")
      BY <1>8 DEF ReadAccounts, tableVars
    <2>2. /\ DOMAIN answer' = DOMAIN NoAnswer /\ answer'.totals = answer.totals /\ answer'.people = answer.people
          /\ answer'.accounts = ByAccount(query.since, query.person)
      BY <1>1, <1>8 DEF ReadAccounts, NoAnswer
    <2> QED
      BY <2>1, <2>2, ReportColumns DEF Past
  <1>9. ASSUME HistoryStep \/ HistoryDone PROVE ColumnsInv'
    <2>1. UNCHANGED <<view, page, query, steady, ever>> /\ at = "history"
      BY <1>9 DEF HistoryStep, HistoryDone, tableVars
    <2>2. /\ DOMAIN answer' = DOMAIN NoAnswer /\ answer'.totals = answer.totals /\ answer'.people = answer.people
          /\ answer'.accounts = answer.accounts
      BY <1>1, <1>9 DEF HistoryStep, HistoryDone, NoAnswer
    <2> QED
      BY <2>1, <2>2, ReportColumns DEF Past
  <1>10. ASSUME QueryFails PROVE ColumnsInv'
    <2>1. UNCHANGED <<view, page, query, steady, ever, answer>>
      BY <1>10 DEF QueryFails, tableVars
    <2>2. page = "dashboard" => at' = "idle" /\ status' = 500
      BY <1>10 DEF QueryFails, Finish
    <2> QED
      BY <1>1, <2>1, <2>2, ReportColumns DEF Past
  <1>11. ASSUME Tick \/ UNCHANGED vars PROVE ColumnsInv'
    <2>1. UNCHANGED <<view, page, query, steady, ever, answer, at, status>>
      BY <1>11 DEF Tick, vars, tableVars, pageVars
    <2> QED
      BY <1>1, <2>1, ReportColumns DEF Past
  <1> QED
    BY <1>3, <1>4, <1>5, <1>6, <1>7, <1>8, <1>9, <1>10, <1>11 DEF Next, Report

\* At first nothing is answered.
LEMMA InitColumns == Init => ColumnsInv
  <1> SUFFICES ASSUME Init PROVE ColumnsInv
    OBVIOUS
  <1>1. ever = {} /\ at = "idle" /\ status = 0 /\ answer = NoAnswer
    BY DEF Init
  <1>2. ASSUME NEW reports, "idle" \notin reports PROVE ~Past(reports)
    BY <1>1, <1>2 DEF Past
  <1>3. /\ ~Past({"people", "accounts", "history"})
        /\ ~Past({"accounts", "history"})
        /\ ~Past({"history"})
    BY <1>2
  <1>4. IsFiniteSet(ever) /\ DOMAIN answer = DOMAIN NoAnswer
    BY <1>1, FS_EmptySet
  <1> QED
    BY <1>3, <1>4 DEF ColumnsInv, TotalsInv, PeopleInv, AccountsInv, SameInv

-----------------------------------------------------------------------------
(***************************************************************************)
(* The theorems.                                                           *)
(***************************************************************************)
\* What is listed, and what still lies ahead of the cursor, is as RInv says,
\* for any values of the parameters (dashboard, historyAPI, History).
THEOREM ReportInvariance == Spec => []RInv
  <1>1. RInv /\ [Next]_vars => RInv'
    BY NextKeeps
  <1> QED
    BY InitEstablishes, <1>1, PTL DEF Spec

\* Every variable of the reports keeps its type.
THEOREM ReportTypes == Spec => []RTypeOK
  <1>1. RInv => RTypeOK
    <2> SUFFICES ASSUME RInv PROVE RTypeOK
      OBVIOUS
    <2>1. RowsInv /\ PageInv /\ now \in Clock
      BY DEF RInv, TypeInv
    <2>2. ToSet(answer.history) \subseteq Event
      BY <2>1 DEF ListedInv, RInv, Possibly, RowsInv
    <2> QED
      BY <2>1, <2>2 DEF RTypeOK, RowsInv, PageInv, PageTyped, ReportName
  <1> QED
    BY ReportInvariance, <1>1, PTL

\* However the table changes while a history is read row by row, it is newest
\* first up to a second, lists nothing twice and nothing that was never there,
\* and leaves out a row that was there all the time only behind as many
\* younger ones as its limit allows (History).
THEOREM HistoryIsSound == Spec => []HistoryToTheSecond
  <1>1. RInv => HistoryToTheSecond
    <2> DEFINE rows == answer.history
    <2> SUFFICES ASSUME RInv, Answered("history") \/ Answered("dashboard")
                 PROVE  /\ ToSet(rows) \subseteq Possibly(ever, query.person)
                        /\ \A i \in 1..Len(rows), j \in 1..Len(rows) :
                             i < j => rows[i] # rows[j] /\ Sec(rows[j].time) <= Sec(rows[i].time)
                        /\ \A r \in Surely(steady, query.person) \ ToSet(rows) :
                             Len(rows) = query.limit /\ \A s \in ToSet(rows) : Sec(r.time) <= Sec(s.time)
      BY DEF HistoryToTheSecond
    <2>1. ToSet(rows) \subseteq Possibly(ever, query.person)
      BY DEF RInv, ListedInv
    <2>2. ASSUME NEW s \in ToSet(rows) PROVE s.time \in Int
      <3>1. s \in ever
        BY <2>1 DEF Possibly
      <3> QED
        BY <3>1, EventTime DEF RInv, TypeInv, RowsInv
    <2>3. ASSUME NEW i \in 1..Len(rows), NEW j \in 1..Len(rows), i < j
          PROVE  rows[i] # rows[j] /\ Sec(rows[j].time) <= Sec(rows[i].time)
      <3>1. rows \in Seq(Event)
        BY DEF RInv, TypeInv, PageInv, PageTyped
      <3>2. rows[i] \in ToSet(rows) /\ rows[j] \in ToSet(rows)
        BY <3>1 DEF ToSet
      <3>3. rows[i] # rows[j] /\ ~TextLess(rows[i].time, rows[j].time)
        BY <2>3 DEF RInv, OrderInv
      <3>4. rows[i].time \in Int /\ rows[j].time \in Int
        BY <2>2, <3>2
      <3>5. Sec(rows[i].time) \in Int /\ Sec(rows[j].time) \in Int /\ Sec(rows[i].time) >= Sec(rows[j].time)
        BY <3>3, <3>4, TextOrder, SecType
      <3> QED
        BY ONLY <3>3, <3>5
    <2>4. ASSUME NEW r \in Surely(steady, query.person) \ ToSet(rows)
          PROVE  Len(rows) = query.limit /\ \A s \in ToSet(rows) : Sec(r.time) <= Sec(s.time)
      <3>1. Len(rows) = query.limit
        <4>1. at = "idle" /\ status = 200 /\ page # "summary"
          BY DEF Answered
        <4> QED
          BY <4>1 DEF RInv, DoneInv
      <3>2. r.time \in Int
        <4>1. r \in steady
          BY DEF Surely
        <4> QED
          BY <4>1, EventTime DEF RInv, TypeInv, RowsInv
      <3>3. ASSUME NEW s \in ToSet(rows) PROVE Sec(r.time) <= Sec(s.time)
        <4>1. ~TextLess(s.time, r.time)
          BY DEF RInv, AheadInv
        <4>2. s.time \in Int
          BY <2>2
        <4>3. Sec(s.time) \in Int /\ Sec(r.time) \in Int /\ Sec(s.time) >= Sec(r.time)
          BY <3>2, <4>1, <4>2, TextOrder, SecType
        <4> QED
          BY ONLY <4>3
      <3> QED
        BY <3>1, <3>3
    <2> QED
      BY <2>1, <2>3, <2>4
  <1> QED
    BY ReportInvariance, <1>1, PTL

\* Pruning removes exactly what is older than the retention period, up to the
\* second of its end, if the period fits into a time.Duration (Prune).
THEOREM PruneIsSound ==
  ASSUME RetentionDays * Day <= MaxInt64
  PROVE  Spec => PruneToTheSecond
  <1>1. ASSUME RInv, Prune, NEW r \in view
        PROVE  LET age == Sec(now - RetentionDays * Day) - Sec(r.time)
               IN  (r \notin view' => age >= 0) /\ (r \in view' => age <= 0)
    <2> DEFINE c == now - RetentionDays * Day
    <2>1. RetentionDays \in Int /\ RetentionDays > 0 /\ Day \in Nat /\ now \in Int
      BY <1>1, TimeAssumption, DayType DEF Prune, RInv, TypeInv
    <2>2. RetentionDays * Day \in Nat
      BY ONLY <2>1
    <2>3. Cutoff = c
      BY <2>2, WrapFits DEF Cutoff
    <2>4. view' = {s \in view : ~TextLess(s.time, c)}
      BY <1>1, <2>3 DEF Prune, Table
    <2>5. r.time \in Int
      BY <1>1, EventTime DEF RInv, TypeInv, RowsInv
    <2>6. c \in Int
      BY ONLY <2>1, <2>2
    <2>7. Sec(c) \in Int /\ Sec(r.time) \in Int
      BY <2>5, <2>6, SecType
    <2>8. (r \notin view' => Sec(r.time) <= Sec(c)) /\ (r \in view' => Sec(r.time) >= Sec(c))
      BY <1>1, <2>4, <2>5, <2>6, TextOrder
    <2> QED
      BY ONLY <2>7, <2>8
  <1>2. RInv /\ [Next]_vars => [Prune => \A r \in view :
           LET age == Sec(now - RetentionDays * Day) - Sec(r.time)
           IN  (r \notin view' => age >= 0) /\ (r \in view' => age <= 0)]_vars
    BY <1>1
  <1> QED
    BY ReportInvariance, <1>2, PTL DEF Spec, PruneToTheSecond

\* What the totals and the lists of the dashboard count is as ColumnsInv says
\* (dashboard, Totals, ByPerson, ByAccount).
THEOREM ColumnsInvariance == Spec => [](RInv /\ ColumnsInv)
  <1>1. RInv /\ ColumnsInv /\ [Next]_vars => RInv' /\ ColumnsInv'
    BY NextKeeps, NextKeepsColumns
  <1> QED
    BY InitEstablishes, InitColumns, <1>1, PTL DEF Spec

\* Columns of rows between two sets lie between those of the sets.
LEMMA CountsBetween ==
  ASSUME NEW high \in SUBSET Event, IsFiniteSet(high), NEW low, NEW columns, Counts(columns, low, high)
  PROVE  Between(columns, low, high)
  <1>1. PICK rows \in SUBSET high : low \subseteq rows /\ columns = Aggregate(rows)
    BY DEF Counts
  <1>2. IsFiniteSet(rows) /\ rows \in SUBSET Event /\ low \in SUBSET rows
    BY <1>1, FS_Subset
  <1>3. ASSUME NEW c \in DOMAIN Nothing PROVE Aggregate(low)[c] <= columns[c] /\ columns[c] <= Aggregate(high)[c]
    BY <1>1, <1>2, <1>3, MoreRows
  <1> QED
    BY <1>3 DEF Between

\* What may be counted is finitely many events.
LEMMA PossiblyFinite ==
  ASSUME RInv, ColumnsInv, NEW rows \in SUBSET ever, NEW person
  PROVE  Possibly(rows, person) \in SUBSET Event /\ IsFiniteSet(Possibly(rows, person))
  <1>1. Possibly(rows, person) \in SUBSET ever /\ ever \subseteq Event /\ IsFiniteSet(ever)
    BY DEF Possibly, ColumnsInv, RInv, TypeInv, RowsInv
  <1> QED
    BY <1>1, FS_Subset

\* The totals of the dashboard are exact up to the second at which the range
\* starts, however the table changes meanwhile (Totals, whereClause).
THEOREM TotalsAreExact == Spec => []TotalsToTheSecond
  <1>1. RInv /\ ColumnsInv => TotalsToTheSecond
    <2>1. SUFFICES ASSUME RInv, ColumnsInv, Answered("dashboard")
                   PROVE  Between(answer.totals, Surely(Requests(steady), query.person), Possibly(Requests(ever), query.person))
      BY DEF TotalsToTheSecond
    <2>2. Counts(answer.totals, Surely(Requests(steady), query.person), Possibly(Requests(ever), query.person))
      BY <2>1 DEF ColumnsInv, TotalsInv, Past, Answered
    <2>3. Requests(ever) \in SUBSET ever
      BY DEF Requests
    <2> QED
      BY <2>1, <2>2, <2>3, PossiblyFinite, CountsBetween
  <1> QED
    BY ColumnsInvariance, <1>1, PTL

\* So is each row of the two lists of the dashboard, whatever the order in
\* which the four reports and the changes of the table come (ByPerson, ByAccount).
THEOREM ListsAreExact == Spec => []ListsAreComplete
  <1>1. RInv /\ ColumnsInv => ListsAreComplete
    <2>1. SUFFICES ASSUME RInv, ColumnsInv, Answered("dashboard"), NEW r \in ever
                   PROVE  /\ Between(Columns(answer.people, r.person),
                                     Surely(OfPerson(steady, r.person), ""), Possibly(OfPerson(ever, r.person), ""))
                          /\ Between(Columns(answer.accounts, r.account),
                                     Surely(OfAccount(steady, r.account), query.person),
                                     Possibly(OfAccount(ever, r.account), query.person))
      BY DEF ListsAreComplete, OfPerson, OfAccount
    <2>2. r \in Event
      BY <2>1 DEF RInv, TypeInv, RowsInv
    <2>3. /\ Counts(Columns(answer.people, r.person),
                    Surely(OfPerson(steady, r.person), ""), Possibly(OfPerson(ever, r.person), ""))
          /\ Counts(Columns(answer.accounts, r.account),
                    Surely(OfAccount(steady, r.account), query.person), Possibly(OfAccount(ever, r.account), query.person))
      BY <2>1, <2>2 DEF ColumnsInv, PeopleInv, AccountsInv, Past, Answered
    <2>4. OfPerson(ever, r.person) \in SUBSET ever /\ OfAccount(ever, r.account) \in SUBSET ever
      BY DEF OfPerson, OfAccount, Requests
    <2>5. /\ Possibly(OfPerson(ever, r.person), "") \in SUBSET Event
          /\ IsFiniteSet(Possibly(OfPerson(ever, r.person), ""))
      BY <2>1, <2>4, PossiblyFinite
    <2>6. /\ Possibly(OfAccount(ever, r.account), query.person) \in SUBSET Event
          /\ IsFiniteSet(Possibly(OfAccount(ever, r.account), query.person))
      BY <2>1, <2>4, PossiblyFinite
    <2> QED
      BY <2>3, <2>5, <2>6, CountsBetween
  <1> QED
    BY ColumnsInvariance, <1>1, PTL

\* h adds requests as MapThenSumSet does it.
AddsRequests(h, A) ==
  h = [s \in SUBSET A |-> IF s = {} THEN 0
                          ELSE (CHOOSE x \in s : TRUE).totals.requests + h[s \ {CHOOSE x \in s : TRUE}]]

\* The requests of no row of the list, and of one.
LEMMA RequestSum ==
  /\ MapThenSumSet(LAMBDA e : e.totals.requests, {}) = 0
  /\ \A e : e.totals.requests \in Nat => MapThenSumSet(LAMBDA x : x.totals.requests, {e}) = e.totals.requests
  <1>1. MapThenSumSet(LAMBDA e : e.totals.requests, {}) = 0
    <2>1. PICK h : h = (CHOOSE i : AddsRequests(i, {})) /\ AddsRequests(h, {})
      <3>1. AddsRequests([s \in SUBSET {} |-> 0], {})
        BY DEF AddsRequests
      <3> QED
        BY <3>1
    <2>2. h[{}] = 0
      BY <2>1 DEF AddsRequests
    <2> QED
      BY <2>1, <2>2 DEF MapThenSumSet, MapThenFoldSet, AddsRequests
  <1>2. ASSUME NEW e, e.totals.requests \in Nat
        PROVE  MapThenSumSet(LAMBDA x : x.totals.requests, {e}) = e.totals.requests
    <2>1. ASSUME NEW h
          PROVE  AddsRequests(h, {e}) <=> h = [s \in SUBSET {e} |-> IF s = {} THEN 0 ELSE e.totals.requests + h[{}]]
      <3> DEFINE one(s) == IF s = {} THEN 0 ELSE (CHOOSE x \in s : TRUE).totals.requests + h[s \ {CHOOSE x \in s : TRUE}]
                 two(s) == IF s = {} THEN 0 ELSE e.totals.requests + h[{}]
      <3>1. ASSUME NEW s \in SUBSET {e} PROVE one(s) = two(s)
        <4>1. s # {} => (CHOOSE x \in s : TRUE) = e /\ s \ {e} = {}
          OBVIOUS
        <4> QED
          BY <4>1
      <3> HIDE DEF one, two
      <3>2. h = [s \in SUBSET {e} |-> one(s)] <=> h = [s \in SUBSET {e} |-> two(s)]
        BY <3>1
      <3> QED
        BY <3>2 DEF one, two, AddsRequests
    <2>2. PICK h : h = (CHOOSE i : AddsRequests(i, {e})) /\ AddsRequests(h, {e})
      <3> DEFINE g == [s \in SUBSET {e} |-> IF s = {} THEN 0 ELSE e.totals.requests]
      <3>1. g[{}] = 0
        OBVIOUS
      <3>2. g = [s \in SUBSET {e} |-> IF s = {} THEN 0 ELSE e.totals.requests + g[{}]]
        BY <1>2, <3>1
      <3> HIDE DEF g
      <3>3. AddsRequests(g, {e})
        BY <2>1, <3>2
      <3> QED
        BY <3>3
    <2>3. h[{}] = 0 /\ h[{e}] = e.totals.requests + h[{}]
      BY <2>1, <2>2
    <2>4. MapThenSumSet(LAMBDA x : x.totals.requests, {e}) = h[{e}]
      BY <2>2 DEF MapThenSumSet, MapThenFoldSet, AddsRequests
    <2> QED
      BY <1>2, <2>3, <2>4
  <1> QED
    BY <1>1, <1>2

\* As long as the table does not change, the name of a person in the list
\* leads to a page with the totals of the list (ByPerson, whereClause).
THEOREM PersonPageIsTheList == Spec => []PersonPageAgrees
  <1>1. RInv /\ ColumnsInv => PersonPageAgrees
    <2>1. SUFFICES ASSUME RInv, ColumnsInv, Answered("dashboard"), query.person \notin {"", "unknown"}, steady = ever
                   PROVE  answer.totals.requests
                            = MapThenSumSet(LAMBDA e : e.totals.requests, {e \in answer.people : e.label = query.person})
      BY DEF PersonPageAgrees
    <2> DEFINE all == whereClause(query.since, "", TRUE)
               rows == {r \in all : r.person = query.person}
               named == {e \in answer.people : e.label = query.person}
               row == [id |-> query.person, label |-> Label(query.person), totals |-> Aggregate(rows)]
    <2>2. answer.totals = Totals(query.since, query.person) /\ answer.people = ByPerson(query.since)
      BY <2>1 DEF ColumnsInv, SameInv, Past, Answered
    <2>3. whereClause(query.since, query.person, TRUE) = rows
      BY <2>1 DEF whereClause
    <2>4. answer.totals.requests = Cardinality(rows)
      <3>1. answer.totals = Aggregate(rows)
        BY ONLY <2>2, <2>3 DEF Totals
      <3> HIDE DEF rows
      <3>2. Aggregate(rows).requests = Cardinality(rows)
        BY ONLY DEF Aggregate
      <3> QED
        BY ONLY <3>1, <3>2
    <2>5. Cardinality(rows) \in Nat /\ (rows = {} => Cardinality(rows) = 0)
      <3>1. rows \subseteq view
        BY DEF whereClause
      <3>2. view \subseteq ever /\ IsFiniteSet(ever)
        BY <2>1 DEF RInv, TypeInv, RowsInv, ColumnsInv
      <3> HIDE DEF rows
      <3>3. IsFiniteSet(rows)
        BY ONLY <3>1, <3>2, FS_Subset
      <3> QED
        BY ONLY <3>3, FS_CardinalityType, FS_EmptySet
    <2>6. \A p : Label(p) = query.person <=> p = query.person
      BY <2>1 DEF Label
    <2>7. answer.people = {[id |-> p, label |-> Label(p), totals |-> Aggregate({r \in all : r.person = p})]
                             : p \in {r.person : r \in all}}
      BY <2>2 DEF ByPerson
    <2> HIDE DEF all
    <2>8. ASSUME NEW e PROVE e \in named <=> e = row /\ rows # {}
      <3>1. ASSUME e \in named PROVE e = row /\ rows # {}
        <4>1. PICK p \in {r.person : r \in all} :
                e = [id |-> p, label |-> Label(p), totals |-> Aggregate({r \in all : r.person = p})]
          BY <2>7, <3>1
        <4>2. e.label = Label(p) /\ e.label = query.person
          BY <3>1, <4>1
        <4>3. p = query.person
          BY <2>6, <4>2
        <4> QED
          BY <4>1, <4>3
      <3>2. ASSUME e = row, rows # {} PROVE e \in named
        <4>1. query.person \in {r.person : r \in all}
          BY <3>2
        <4>2. row \in answer.people
          BY <2>7, <4>1
        <4>3. row.label = query.person
          BY <2>6
        <4> QED
          BY <3>2, <4>2, <4>3
      <3> QED
        BY <3>1, <3>2
    <2>9. row.totals.requests = Cardinality(rows)
      BY DEF Aggregate
    <2> HIDE DEF row, named, rows
    <2>10. CASE rows = {}
      <3>1. named = {}
        BY <2>8, <2>10
      <3> QED
        BY <2>4, <2>5, <2>10, <3>1, RequestSum DEF named
    <2>11. CASE rows # {}
      <3>1. named = {row}
        BY <2>8, <2>11
      <3>2. MapThenSumSet(LAMBDA e : e.totals.requests, {row}) = Cardinality(rows)
        BY <2>5, <2>9, RequestSum
      <3> QED
        BY <2>4, <3>1, <3>2 DEF named
    <2> QED
      BY <2>10, <2>11
  <1> QED
    BY ColumnsInvariance, <1>1, PTL
=============================================================================
