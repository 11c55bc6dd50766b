------------------------------ MODULE MCStore -------------------------------
EXTENDS Store, TLC

CONSTANTS h1, h2

\* Two events that collide on their key, and a later one.
RowA == [EventKey |-> 1, EventTime |-> 0, body |-> "a"]
RowB == [EventKey |-> 1, EventTime |-> 0, body |-> "b"]
RowC == [EventKey |-> 2, EventTime |-> 1, body |-> "c"]

MCRow == {RowA, RowB, RowC}
MCBatch == {<<>>, <<RowA, RowC>>, <<RowC, RowC>>, <<RowB>>}
\* The liveness run asks less of the data.
MCSmallRow == {RowC}
MCSmallBatch == {<<RowC>>}

MCHandler == {h1, h2}

Symmetry == Permutations(MCHandler)
=============================================================================
