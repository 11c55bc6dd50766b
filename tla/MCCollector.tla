---------------------------- MODULE MCCollector -----------------------------
EXTENDS Collector

CONSTANTS h1, h2, e1, e2, e3

Scalar(s) == [json |-> "string", text |-> s, num |-> 0]
S(k, s) == [key |-> k, value |-> [x \in {"stringValue"} |-> Scalar(s)]]

MCNumeral == [s \in {"1", "2"} |-> IF s = "1" THEN 1 ELSE 2]
NoNumbers == [s \in {} |-> 0]
NoTexts == [s \in {} |-> ""]

\* A record of one usage event, stamped s, of request id.
LogRecord(name, id, s) ==
  [attributes |-> <<S("event.name", name), S("request_id", id)>>, body |-> NoTexts,
   timeUnixNano |-> Scalar(s), observedTimeUnixNano |-> Scalar("")]
Post(records) == << [attributes |-> <<>>, scopeLogs |-> <<records>>] >>

FirstUse == LogRecord("api_request", "a", "1")
LaterUse == LogRecord("api_error", "b", "2")
Prompt == LogRecord("user_prompt", "c", "1")
OtherUse == LogRecord("api_request", "o", "1")
UnstampedUse == LogRecord("api_request", "d", "")

MCHandler == {h1, h2}
MCExport == {e1, e2, e3}
MCTwoExports == {e1, e2}
OneExport == {e1}

\* e1 delivers two events and a prompt, e2 one of the same events, and e3,
\* with another token, an event of its own.
MCRequest == (e1 :> Post(<<FirstUse, Prompt, LaterUse>>)) @@ (e2 :> Post(<<LaterUse>>)) @@ (e3 :> Post(<<OtherUse>>))
UnstampedRequest == (e1 :> Post(<<FirstUse, UnstampedUse>>))
MCBearer == (e1 :> "token") @@ (e2 :> "token") @@ (e3 :> "other")

MCBatch == {Rows(e, t) : e \in Export, t \in 0..MaxTime}
MCRow == UNION {{b[i] : i \in DOMAIN b} : b \in MCBatch}

\* What the theorem about double counting supposes is so of the requests, but
\* not of the one in which an event has no time.
ASSUME MCStamped ==
  (\A e \in DOMAIN MCRequest : StatesTimes(MCRequest[e])) /\ ~StatesTimes(UnstampedRequest[e1])

Symmetry == Permutations(MCHandler)
=============================================================================
