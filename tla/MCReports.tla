------------------------------ MODULE MCReports -----------------------------
EXTENDS Reports

\* Four ticks in a second, two seconds in a day: 24h is 8 ticks, 7d 56 and 30d 240.
MCClock == {300, 303}

Usage(key, time, person, account, name) ==
  [key |-> key, time |-> time, person |-> person, account |-> account, session |-> account, name |-> name, cost |-> key]

\* Around the start of the 24 hours before 303, which is at 295: before it by
\* less than a second, and after it by more.
Before == Usage(1, 294, "a", "x", "api_request")
After == Usage(2, 300, "a", "y", "api_request")
AfterError == Usage(3, 301, "b", "x", "api_error")
\* In the 30 days, of a process that states no person.
Month == Usage(4, 100, "", "x", "api_request")

MCEvent == {Before, After, AfterError, Month}
MCBatches == {{Before, AfterError}, {After}, {Month, After}}
=============================================================================
