-------------------------------- MODULE Otlp --------------------------------
(***************************************************************************)
(* From an OTLP/JSON log export to the usage events that are stored        *)
(* (internal/otel/otlp.go).                                                *)
(*                                                                         *)
(* Texts are atoms.  The constants give the conversions of the Go library  *)
(* on the texts of a model: which are decimal integers, which are decimal  *)
(* fractions (in units of 10^-7), which are RFC 3339 instants, how numbers *)
(* are formatted, and what is left of a body after its prefix and its      *)
(* blanks are trimmed.                                                     *)
(*                                                                         *)
(* A JSON scalar is [json, text, num]: json is the JSON type, text is the  *)
(* content of a string, num that of a number or Boolean.  An AnyValue maps *)
(* the fields that are present to their scalars.                           *)
(***************************************************************************)
EXTENDS Integers, Sequences, SequencesExt

CONSTANTS
  Numeral,      \* texts that strconv.ParseInt reads |-> the integers they denote
  Decimal,      \* texts that strconv.ParseFloat reads |-> units
  Instant,      \* texts that time.Parse reads |-> times
  FormatInt,    \* integers |-> texts
  FormatFloat,  \* units |-> texts
  Trimmed,      \* texts that bodyEventName shortens |-> what is left of them
  MaxInt64,     \* math.MaxInt64
  TooLarge      \* what the processor makes of a float above the range of int64

ASSUME NumeralAssumption == \A s \in DOMAIN Numeral : Numeral[s] \in Int
ASSUME DecimalAssumption == \A s \in DOMAIN Decimal : Decimal[s] \in Int
ASSUME InstantAssumption == \A s \in DOMAIN Instant : Instant[s] \in Int
\* Go leaves the conversion of a float outside of the range of int64 open:
\* amd64 makes the smallest integer of all, arm64 the end of the range.
ASSUME WidthAssumption == MaxInt64 \in Nat /\ TooLarge \in {MaxInt64, -MaxInt64 - 1}

Unit == 10000000
MicrosPerUnit == 10

-----------------------------------------------------------------------------
\* Values of type any, as anyValue builds them.
Str(s) == [type |-> "string", text |-> s, num |-> 0]
Num(t, n) == [type |-> t, text |-> "", num |-> n]
Nil == [type |-> "nil", text |-> "", num |-> 0]

\* strconv.ParseInt: out of range it returns the nearest int64 and an error.
InRange(n) == -MaxInt64 - 1 <= n /\ n <= MaxInt64
Clamp(n) == IF n > MaxInt64 THEN MaxInt64 ELSE IF n < -MaxInt64 - 1 THEN -MaxInt64 - 1 ELSE n
IsInt64(s) == s \in DOMAIN Numeral /\ InRange(Numeral[s])
ParseInt(s) == IF s \in DOMAIN Numeral THEN Clamp(Numeral[s]) ELSE 0
ParseFloat(s) == IF s \in DOMAIN Decimal THEN Decimal[s] ELSE 0

\* Conversion of the float n / d to an int64 drops the fraction.
Truncate(n, d) ==
  LET whole == IF n >= 0 THEN n \div d ELSE -((-n) \div d)
  IN  IF whole > MaxInt64 THEN TooLarge ELSE Clamp(whole)

\* The order in which anyValue looks at the fields; an intValue that is
\* neither a string nor an integer of 64 bits is passed over.
Precedence == <<"stringValue", "intValue", "doubleValue", "boolValue", "arrayValue", "kvlistValue", "bytesValue">>
Usable(v, f) ==
  /\ f \in DOMAIN v
  /\ f = "intValue" => v[f].json \in {"string", "null"} \/ (v[f].json = "integer" /\ InRange(v[f].num))

Typed(f, j) ==
  CASE f \in {"stringValue", "bytesValue"} -> Str(j.text)
    [] f = "intValue" /\ j.json = "integer" -> Num("int64", j.num)
    [] f = "intValue" /\ j.json # "integer" ->
         IF IsInt64(j.text) THEN Num("int64", Numeral[j.text]) ELSE Str(j.text)
    [] f = "doubleValue" -> Num("float64", j.num)
    [] f = "boolValue" -> Num("bool", j.num)
    [] OTHER -> Num("composite", 0)

anyValue(v) ==
  LET fields == {i \in DOMAIN Precedence : Usable(v, Precedence[i])}
      f == Precedence[Min(fields)]
  IN  IF fields = {} THEN Nil ELSE Typed(f, v[f])

\* Mutant: the first attribute with a key is kept.
attrsToMapFirst(kvs) ==
  [k \in {kvs[i].key : i \in DOMAIN kvs} |->
     LET first == CHOOSE i \in DOMAIN kvs :
                    kvs[i].key = k /\ \A j \in DOMAIN kvs : kvs[j].key = k => j >= i
     IN  anyValue(kvs[first].value)]

\* A later attribute with the same key replaces an earlier one.
attrsToMap(kvs) ==
  [k \in {kvs[i].key : i \in DOMAIN kvs} |->
     LET last == CHOOSE i \in DOMAIN kvs :
                   kvs[i].key = k /\ \A j \in DOMAIN kvs : kvs[j].key = k => j <= i
     IN  anyValue(kvs[last].value)]

\* The attributes of a record, laid over those of its resource.
Attributes(resource, record) ==
  LET base == attrsToMap(resource)
      own == attrsToMap(record)
  IN  [k \in DOMAIN base \cup DOMAIN own |-> IF k \in DOMAIN own THEN own[k] ELSE base[k]]

Get(attrs, k) == IF k \in DOMAIN attrs THEN attrs[k] ELSE Nil

asString(x) ==
  CASE x.type = "string" -> x.text
    [] x.type = "int64" -> FormatInt[x.num]
    [] x.type = "float64" -> FormatFloat[x.num]
    [] x.type = "bool" -> IF x.num = 1 THEN "true" ELSE "false"
    [] OTHER -> ""

\* Mutant: a number sent as a text is not parsed.
asInt64NoText(x) ==
  CASE x.type = "int64" -> x.num
    [] x.type = "float64" -> Truncate(x.num, Unit)
    [] OTHER -> 0

asInt64(x) ==
  CASE x.type = "int64" -> x.num
    [] x.type = "float64" -> Truncate(x.num, Unit)
    [] x.type = "string" -> ParseInt(x.text)
    [] OTHER -> 0

\* int64(f*1_000_000 + 0.5)
ToMicros(units) == Truncate(units + MicrosPerUnit \div 2, MicrosPerUnit)

costMicros(attrs) ==
  LET micros == asInt64(Get(attrs, "cost_usd_micros"))
      usd == Get(attrs, "cost_usd")
  IN  CASE micros # 0 -> micros
        [] micros = 0 /\ usd.type = "float64" -> ToMicros(usd.num)
        [] micros = 0 /\ usd.type = "string" -> ToMicros(ParseFloat(usd.text))
        [] OTHER -> 0

\* The time the client states, or else the one the record was stamped with.
StatedTimes(attrs, record) ==
  LET s == asString(Get(attrs, "event.timestamp"))
      stamp(x) == IF IsInt64(x) /\ Numeral[x] > 0 THEN <<Numeral[x]>> ELSE <<>>
  IN  (IF s \in DOMAIN Instant THEN <<Instant[s]>> ELSE <<>>)
      \o stamp(record.timeUnixNano.text) \o stamp(record.observedTimeUnixNano.text)

\* Mutant: the time of arrival is the event's time.
eventTimeOnArrival(attrs, record, fallback) == fallback

eventTime(attrs, record, fallback) ==
  LET stated == StatedTimes(attrs, record)
  IN  IF stated = <<>> THEN fallback ELSE stated[1]

bodyEventName(body) ==
  LET s == asString(anyValue(body))
  IN  IF s \in DOMAIN Trimmed THEN Trimmed[s] ELSE s

-----------------------------------------------------------------------------
\* Where the fields of an Event come from.
StringField ==
  [PersonID |-> "meter.person", DeviceName |-> "meter.device", DeviceNodeID |-> "meter.node_id",
   SourceIP |-> "meter.source_ip", AccountUUID |-> "user.account_uuid",
   AccountID |-> "user.account_id", AccountEmail |-> "user.email",
   OrganizationID |-> "organization.id", UserID |-> "user.id", SessionID |-> "session.id",
   RequestID |-> "request_id", ClientRequestID |-> "client_request_id", Model |-> "model",
   QuerySource |-> "query_source", Effort |-> "effort", Speed |-> "speed", Error |-> "error"]

IntField ==
  [EventSequence |-> "event.sequence", InputTokens |-> "input_tokens",
   OutputTokens |-> "output_tokens", CacheReadTokens |-> "cache_read_tokens",
   CacheCreationTokens |-> "cache_creation_tokens", DurationMS |-> "duration_ms",
   StatusCode |-> "status_code"]

\* The hash of these fields joined by "|" is taken to separate what they
\* separate.
makeEventKey(e) ==
  <<e.EventName, e.SessionID, e.EventSequence, e.RequestID, e.ClientRequestID, e.EventTime>>

EventName(attrs, record) ==
  LET name == asString(Get(attrs, "event.name"))
  IN  IF name = "" THEN bodyEventName(record.body) ELSE name

Field == DOMAIN StringField \cup DOMAIN IntField \cup {"EventName", "EventTime", "CostUSDMicros"}

Event(attrs, record, receivedAt) ==
  LET e == [f \in Field |->
              CASE f \in DOMAIN StringField -> asString(Get(attrs, StringField[f]))
                [] f \in DOMAIN IntField -> asInt64(Get(attrs, IntField[f]))
                [] f = "EventName" -> EventName(attrs, record)
                [] f = "EventTime" -> eventTime(attrs, record, receivedAt)
                [] f = "CostUSDMicros" -> costMicros(attrs)]
  IN  [f \in Field \cup {"EventKey"} |-> IF f = "EventKey" THEN makeEventKey(e) ELSE e[f]]

Metered == {"api_request", "api_error"}

\* The records of an export with the attributes they are read with, in order.
\* A request is a sequence of resourceLogs [attributes, scopeLogs]; a scope
\* is its sequence of log records.
ScopeRecords(resource, scope) ==
  [k \in DOMAIN scope |-> [attrs |-> Attributes(resource.attributes, scope[k].attributes), record |-> scope[k]]]
ResourceRecords(resource) ==
  FlattenSeq([j \in DOMAIN resource.scopeLogs |-> ScopeRecords(resource, resource.scopeLogs[j])])
Records(request) == FlattenSeq([i \in DOMAIN request |-> ResourceRecords(request[i])])

\* json.Unmarshal wants a string, or null, in the fields of type string: one
\* record with another type fails the whole request.
Decodes(request) ==
  \A i \in DOMAIN Records(request) :
    LET lr == Records(request)[i].record
    IN  {lr.timeUnixNano.json, lr.observedTimeUnixNano.json} \subseteq {"string", "null"}

MeteredRecords(request) ==
  LET all == Records(request)
  IN  FlattenSeq([i \in DOMAIN all |-> IF EventName(all[i].attrs, all[i].record) \in Metered THEN <<all[i]>> ELSE <<>>])

Decode(request, receivedAt) ==
  LET metered == MeteredRecords(request)
  IN  [i \in DOMAIN metered |-> Event(metered[i].attrs, metered[i].record, receivedAt)]
=============================================================================
