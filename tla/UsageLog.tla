------------------------------ MODULE UsageLog ------------------------------
(***************************************************************************)
(* What the collector's store promises, with no goroutines, no lock and no *)
(* transactions: a table of usage rows, unique by event key, to which a    *)
(* whole batch is added in one step, and from which only rows older than   *)
(* the retention period are ever removed.                                  *)
(***************************************************************************)
EXTENDS Integers, Sequences

CONSTANTS
  Row,          \* rows that can be stored, records with a key and a time
  Batch,        \* sequences of rows that one call of Insert can carry
  Retention,    \* retention period; 0 keeps the history forever
  MaxTime       \* bound on the clock

VARIABLES
  rows,         \* the stored rows
  now           \* the collector's clock

usageVars == <<rows, now>>

KeysOf(S) == {r.EventKey : r \in S}
RowsOf(b) == {b[i] : i \in DOMAIN b}
KeysUnique(S) == \A r, s \in S : r.EventKey = s.EventKey => r = s

UInit ==
  /\ rows = {}
  /\ now = 0

(***************************************************************************)
(* A batch is recorded whole: afterwards every key of the batch is stored, *)
(* every new row is one of the batch, and a key that was stored before     *)
(* keeps the row it had.                                                   *)
(***************************************************************************)
Records(old, b, new) ==
  /\ old \subseteq new
  /\ new \ old \subseteq RowsOf(b)
  /\ KeysOf(new) = KeysOf(old) \cup KeysOf(RowsOf(b))
  /\ KeysUnique(new)

Record ==
  /\ \E b \in Batch : Records(rows, b, rows')
  /\ UNCHANGED now

(***************************************************************************)
(* Expiry removes old rows only, and the oldest ones first.                *)
(***************************************************************************)
Expires(old, t, new) ==
  /\ Retention > 0
  /\ new \subseteq old
  /\ \A r \in old \ new :
        /\ r.EventTime < t - Retention
        /\ \A s \in new : r.EventTime < s.EventTime

Expire ==
  /\ Expires(rows, now, rows')
  /\ UNCHANGED now

Tick ==
  /\ now < MaxTime
  /\ now' = now + 1
  /\ UNCHANGED rows

UNext == Record \/ Expire \/ Tick

USpec == UInit /\ [][UNext]_usageVars
=============================================================================
