------------------------------ MODULE Delivery ------------------------------
(***************************************************************************)
(* One export request, delivered again and again to the decoder.  The      *)
(* exporter sends the same bytes each time it has not heard the answer;    *)
(* the collector decodes them at the time of each arrival.                 *)
(***************************************************************************)
EXTENDS Otlp

CONSTANTS
  Request,      \* the requests to deliver
  MaxTime       \* bound on the clock

\* Arrays are sequences, and the scalars of attributes carry numbers.
IsSequence(s) == s \in Seq(Range(s))
IsAttributes(kvs) ==
  IsSequence(kvs) /\ \A i \in DOMAIN kvs : \A f \in DOMAIN kvs[i].value : kvs[i].value[f].num \in Int
IsRequest(r) ==
  /\ IsSequence(r)
  /\ \A i \in DOMAIN r :
       /\ IsAttributes(r[i].attributes) /\ IsSequence(r[i].scopeLogs)
       /\ \A j \in DOMAIN r[i].scopeLogs :
            /\ IsSequence(r[i].scopeLogs[j])
            /\ \A k \in DOMAIN r[i].scopeLogs[j] : IsAttributes(r[i].scopeLogs[j][k].attributes)
ASSUME RequestAssumption == \A r \in Request : IsRequest(r)

VARIABLES
  request,      \* the bytes the exporter holds
  receivedAt,   \* time.Now() of the last arrival
  events        \* what Decode returned then

vars == <<request, receivedAt, events>>

Init ==
  /\ request \in {r \in Request : Decodes(r)}
  /\ receivedAt = 0
  /\ events = Decode(request, receivedAt)

Deliver ==
  /\ receivedAt' \in (receivedAt + 1)..MaxTime
  /\ events' = Decode(request, receivedAt')
  /\ UNCHANGED request

Next == Deliver

Spec == Init /\ [][Next]_vars

-----------------------------------------------------------------------------
\* What a reader of the OTLP format finds in a request, stated without maps:
\* the places of the records, and the attributes of a record with key k, the
\* resource's coming first.
Places(r) ==
  UNION {UNION {{<<i, j, k>> : k \in DOMAIN r[i].scopeLogs[j]} : j \in DOMAIN r[i].scopeLogs} : i \in DOMAIN r}

RecordAt(r, p) == r[p[1]].scopeLogs[p[2]][p[3]]
AttributesAt(r, p) == Attributes(r[p[1]].attributes, RecordAt(r, p).attributes)

Pairs(r, p) == r[p[1]].attributes \o RecordAt(r, p).attributes
Stated(r, p, k) == {i \in DOMAIN Pairs(r, p) : Pairs(r, p)[i].key = k}

Before(p, q) ==
  \/ p[1] < q[1]
  \/ p[1] = q[1] /\ p[2] < q[2]
  \/ p[1] = q[1] /\ p[2] = q[2] /\ p[3] < q[3]

Text(r, p, k) ==
  LET found == Stated(r, p, k)
  IN  IF found = {} THEN "" ELSE asString(anyValue(Pairs(r, p)[Max(found)].value))

Named(r, p) ==
  IF Text(r, p, "event.name") = "" THEN bodyEventName(RecordAt(r, p).body) ELSE Text(r, p, "event.name")

MeteredPlaces(r) == {p \in Places(r) : Named(r, p) \in Metered}

\* The place of the n-th event.
PlaceOf(r, n) ==
  CHOOSE p \in MeteredPlaces(r) : Cardinality({q \in MeteredPlaces(r) : Before(q, p)}) = n - 1

\* The one value stated with key k, as its one field and the scalar in it:
\* none where several are stated.
Sole(r, p, k) ==
  UNION {LET v == Pairs(r, p)[i].value
         IN  {<<f, v[f]>> : f \in {g \in DOMAIN v : DOMAIN v = {g} /\ Stated(r, p, k) = {i}}} : i \in Stated(r, p, k)}

\* The integer that scalar j in field f denotes, if it denotes one.
Whole(f, j) ==
  LET text == {Numeral[s] : s \in DOMAIN Numeral \cap {j.text}}
  IN  CASE f = "stringValue" \/ (f = "intValue" /\ j.json = "string") -> text
        [] f = "intValue" /\ j.json = "integer" -> {j.num}
        [] f = "doubleValue" /\ j.num % Unit = 0 -> {j.num \div Unit}
        [] OTHER -> {}

\* The amount it denotes, in units: an intValue denotes none to costMicros.
Amount(f, j) ==
  CASE f = "stringValue" -> {Decimal[s] : s \in DOMAIN Decimal \cap {j.text}}
    [] f = "doubleValue" -> {j.num}
    [] OTHER -> {}

\* Nearest micro-dollar of a non-negative amount, halves up.
Nearest(units) == (2 * units + MicrosPerUnit) \div (2 * MicrosPerUnit)

\* What may be recorded for it: itself, or an end of the range.
Micros(units) == IF InRange(Nearest(units)) THEN {Nearest(units)} ELSE {MaxInt64, -MaxInt64 - 1}

-----------------------------------------------------------------------------
(***************************************************************************)
(* Properties                                                              *)
(***************************************************************************)
\* Decode (otlp.go:91-147) returns one event per metered record, in the order
\* of the request and none else, and each text is the last one stated for it,
\* the record's own attributes prevailing over its resource's.
DecodeIsFaithful ==
  /\ Len(events) = Cardinality(MeteredPlaces(request))
  /\ \A n \in DOMAIN events :
       LET p == PlaceOf(request, n) IN
       /\ events[n].EventName = Named(request, p)
       /\ \A f \in DOMAIN StringField : events[n][f] = Text(request, p, StringField[f])

\* Token counts and the like (otlp.go:219-231) are the number that was sent,
\* in whichever of the encodings of OTLP/JSON, when it fits 64 bits; so is
\* the cost when it was sent as micro-dollars, as a double or as a text.  A
\* cost beyond the range of int64 is recorded as one of its ends, never as
\* an amount in between.
NumbersAreExact ==
  \A n \in DOMAIN events :
    LET p == PlaceOf(request, n) IN
    /\ \A f \in DOMAIN IntField : \A w \in Sole(request, p, IntField[f]) :
         \A k \in Whole(w[1], w[2]) : InRange(k) => events[n][f] = k
    /\ \A w \in Sole(request, p, "cost_usd_micros") :
         \A k \in Whole(w[1], w[2]) : k > 0 /\ InRange(k) => events[n].CostUSDMicros = k
    /\ Stated(request, p, "cost_usd_micros") = {} =>
         \A w \in Sole(request, p, "cost_usd") :
           \A u \in Amount(w[1], w[2]) : u >= 0 => events[n].CostUSDMicros \in Micros(u)

\* A second delivery yields the keys of the first when every metered record
\* states a time (otlp.go:247-263,278-289): the time of arrival does not
\* reach the key.
KeysAreStable ==
  [][(\A p \in MeteredPlaces(request) : StatedTimes(AttributesAt(request, p), RecordAt(request, p)) # <<>>)
       => \A n \in DOMAIN events : events'[n].EventKey = events[n].EventKey]_vars
=============================================================================
