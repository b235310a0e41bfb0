------------------------- MODULE MCWorkloadScheduler -------------------------
EXTENDS WorkloadScheduler, TLC

CONSTANTS t1, t2, t3

\* Workers are interchangeable.
MCSymmetry == Permutations(Workers)

\* kWeights{8, 4, 1}
MCWeight == [i \in 0..2 |-> CASE i = 0 -> 8 [] i = 1 -> 4 [] i = 2 -> 1]

\* Two costs share no queue, the unclassified one is a Medium.
MCCost == [t \in Tasks |->
             CASE t = t1 -> "High" [] t = t2 -> "Unclassified" [] t = t3 -> "High"]
\* t1 and t2 fit together, t3 only on its own.
MCBytes == [t \in Tasks |-> CASE t = t1 -> 1 [] t = t2 -> 2 [] t = t3 -> 3]
\* t1 has a deadline, the others have none.
MCDeadline == [t \in Tasks |-> IF t = t1 THEN 1 ELSE 9]
=============================================================================
