--------------------------- MODULE FlimeAlgorithmsMC ---------------------------
EXTENDS FlimeAlgorithms

MCHandleLists == UNION {[1 .. n -> 0 .. 2] : n \in 1 .. 2}
MCFlimeLimitPairs == {[words |-> 4, calls |-> 1], [words |-> 6, calls |-> 2]}
=============================================================================
