--------------------------- MODULE TaskSelection ---------------------------
(***************************************************************************)
(* How WorkloadScheduler::takeTaskLocked chooses the queue a worker pops.  *)
(* The scheduler keeps three FIFO queues, one per request cost (Low = 0,   *)
(* Medium = 1, High = 2), a credit per queue and a round-robin pointer.    *)
(* "busy" below is the set of queues that are not empty.                   *)
(***************************************************************************)
EXTENDS Integers

CONSTANT Weight     \* kWeights: the credits a busy queue gets in a refill

Index == 0..2

ASSUME WeightAssumption == Weight \in [Index -> Nat \ {0}]

\* normalizedCost and queueIndex: a request that was never classified is
\* scheduled as a Medium one.
QueueIndex(cost) == CASE cost = "Low"  -> 0
                      [] cost = "High" -> 2
                      [] OTHER         -> 1

\* Mutant: a refill adds to what is left, and to empty queues too.
RefillAdds(busy, credits) ==
  IF \E i \in busy : credits[i] # 0
  THEN credits
  ELSE [i \in Index |-> credits[i] + Weight[i]]

\* When no busy queue has a credit left every busy queue is given its weight
\* and an empty queue is given nothing.
Refill(busy, credits) ==
  IF \E i \in busy : credits[i] # 0
  THEN credits
  ELSE [i \in Index |-> IF i \in busy THEN Weight[i] ELSE 0]

\* How many probes the round-robin pointer makes before it reaches queue i.
\* The pointer is a counter used modulo 3, so only its residue is kept.
Distance(i, next) == IF i >= next THEN i - next ELSE i + 3 - next

\* Mutant: the cheapest queue with a credit is served first, without rotation.
ChosenInOrder(busy, credits, next) ==
  CHOOSE i \in {j \in busy : credits[j] # 0} :
    \A j \in busy : credits[j] # 0 => i <= j

\* The round-robin probe skips queues that are empty or out of credit.
\* After a refill it finds one in the first three probes: the code's other
\* three, and its final fallback to the oldest head, are never reached.
Chosen(busy, credits, next) ==
  CHOOSE i \in {j \in busy : credits[j] # 0} :
    \A j \in busy : credits[j] # 0 => Distance(i, next) <= Distance(j, next)

\* next_queue_++ % queues_.size()
After(i) == IF i = 2 THEN 0 ELSE i + 1
=============================================================================
