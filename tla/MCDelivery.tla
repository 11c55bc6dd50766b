----------------------------- MODULE MCDelivery -----------------------------
EXTENDS Delivery

Text7 == [json |-> "string", text |-> "7", num |-> 0]
Scalar(t, s, n) == [json |-> t, text |-> s, num |-> n]

MCNumeral == ("0" :> 0) @@ ("1" :> 1) @@ ("7" :> 7) @@ ("-3" :> -3) @@ ("40" :> 40) @@ ("250" :> 250)
MCDecimal == ("0" :> 0) @@ ("7" :> 70000000) @@ ("0.0000015" :> 15) @@ ("0.00004" :> 400) @@ ("0.0001004" :> 1004)
                @@ ("0.0001005" :> 1005)
MCInstant == ("2026-01-01T00:00:00Z" :> 50)
MCFormatInt == [n \in -3..100 |-> IF n = 7 THEN "7" ELSE IF n = 1 THEN "1" ELSE "n"]
MCFormatFloat == (70000000 :> "7") @@ (75000000 :> "7.5") @@ (14 :> "0.0000014") @@ (15 :> "0.0000015")
MCTrimmed == ("claude_code.api_error" :> "api_error")
\* A small word, so that a count or a cost can overflow it; the processor is
\* an amd64.
MCMaxInt64 == 100
MCTooLarge == -101

KV(k, f, j) == [key |-> k, value |-> [x \in {f} |-> j]]
S(k, s) == KV(k, "stringValue", Scalar("string", s, 0))

\* One way each to state a whole number; the last five state none that fits.
Wholes(k) ==
  {KV(k, "stringValue", Text7), KV(k, "intValue", Text7), KV(k, "intValue", Scalar("integer", "", 7)),
   KV(k, "doubleValue", Scalar("float", "", 70000000)), KV(k, "stringValue", Scalar("string", "250", 0)),
   KV(k, "intValue", Scalar("string", "250", 0)), KV(k, "intValue", Scalar("integer", "", 250)), KV(k, "doubleValue", Scalar("float", "", 75000000)),
   KV(k, "boolValue", Scalar("bool", "", 1))}

Costs ==
  {<<>>, <<S("cost_usd", "0.0000015")>>, <<KV("cost_usd", "doubleValue", Scalar("float", "", 14))>>,
   <<KV("cost_usd", "doubleValue", Scalar("float", "", 15))>>,
   <<KV("cost_usd_micros", "intValue", Text7)>>, <<KV("cost_usd", "intValue", Scalar("integer", "", 7))>>,
   <<S("cost_usd_micros", "40"), S("cost_usd", "7")>>, <<S("cost_usd_micros", "0"), S("cost_usd", "0.00004")>>,
   <<S("cost_usd", "0.0001004")>>, <<S("cost_usd", "0.0001005")>>, <<KV("cost_usd", "doubleValue", Scalar("float", "", 70000000))>>}

Body(s) == [x \in {"stringValue"} |-> Scalar("string", s, 0)]
NoBody == [x \in {} |-> Text7]

\* How a record says what it is: a name and a body.
Names ==
  {[attrs |-> <<S("event.name", "api_request")>>, body |-> NoBody],
   [attrs |-> <<S("event.name", "user_prompt")>>, body |-> Body("claude_code.api_error")],
   [attrs |-> <<S("event.name", "claude_code.api_request")>>, body |-> NoBody],
   [attrs |-> <<>>, body |-> Body("claude_code.api_error")]}

T(s) == Scalar("string", s, 0)
\* How it says when: attributes, timeUnixNano, observedTimeUnixNano.
Stamps ==
  {<< <<>>, T(""), T("")>>, << <<S("event.timestamp", "2026-01-01T00:00:00Z")>>, T("1"), T("")>>,
   << <<S("event.timestamp", "yesterday")>>, T("7"), T("1")>>, << <<>>, T("0"), T("40")>>,
   << <<>>, T("-3"), T("")>>, << <<>>, Scalar("integer", "", 7), T("")>>, << <<>>, Scalar("null", "", 0), T("1")>>}

Record(name, stamp, rest) ==
  [attributes |-> name.attrs \o stamp[1] \o rest, body |-> name.body,
   timeUnixNano |-> stamp[2], observedTimeUnixNano |-> stamp[3]]

Owners == {<<>>, <<S("meter.person", "ann")>>, <<S("meter.person", "ann"), S("meter.person", "bob")>>}

Single(resource, record) == [attributes |-> resource, scopeLogs |-> << <<record>> >>]

\* Requests of one record: every name, time, count and cost.
Counted == {<<Single(<<S("meter.person", "ann")>>, Record(n, t, <<w>> \o c))>> :
              n \in Names, t \in Stamps, w \in Wholes("input_tokens"), c \in Costs}
\* Requests of several: owners in several places.
Plain == {Record(n, t, o) : n \in Names, t \in {<< <<>>, T(""), T("")>>, << <<>>, T("7"), T("")>>},
                            o \in Owners}
Mixed == {<<[attributes |-> o, scopeLogs |-> << <<a, b>>, <<a>> >>], Single(<<>>, b)>> :
            o \in Owners, a \in Plain, b \in Plain}

MCRequest == Counted \cup Mixed
=============================================================================
