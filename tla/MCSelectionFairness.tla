------------------------ MODULE MCSelectionFairness ------------------------
EXTENDS SelectionFairness

\* kWeights{8, 4, 1}
MCWeight == [i \in 0..2 |-> CASE i = 0 -> 8 [] i = 1 -> 4 [] i = 2 -> 1]
=============================================================================
