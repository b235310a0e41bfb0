------------------------- MODULE SelectionFairness -------------------------
(***************************************************************************)
(* The queue selection of WorkloadScheduler on its own: tasks arrive in the*)
(* three queues at any time and workers pop one task at a time, by credit  *)
(* or because the oldest head is at least 500 ms old.  Only the lengths of *)
(* the queues are kept.                                                    *)
(***************************************************************************)
EXTENDS TaskSelection

CONSTANT MaxLen     \* bound on the length of a queue

ASSUME MaxLenAssumption == MaxLen \in Nat

VARIABLES len,        \* tasks waiting in each queue
          credits,    \* credits_
          next,       \* next_queue_ modulo 3
          overtaken   \* history: pops by credit that served another queue
                      \* since this queue last became busy or was served

vars == <<len, credits, next, overtaken>>

Busy == {i \in Index : len[i] # 0}

Init ==
  /\ len = [i \in Index |-> 0]
  /\ credits = Weight
  /\ next = 0
  /\ overtaken = [i \in Index |-> 0]

Arrive(i) ==
  /\ len[i] < MaxLen
  /\ len' = [len EXCEPT ![i] = @ + 1]
  /\ UNCHANGED <<credits, next, overtaken>>

\* An aged head is popped whatever the credits say, and costs none.  Which
\* head is the oldest is left open here.
TakeAged(i) ==
  /\ i \in Busy
  /\ len' = [len EXCEPT ![i] = @ - 1]
  /\ overtaken' = [overtaken EXCEPT ![i] = 0]
  /\ UNCHANGED <<credits, next>>

TakeByCredit ==
  /\ Busy # {}
  /\ LET filled == Refill(Busy, credits)
         i      == Chosen(Busy, filled, next)
     IN  /\ len' = [len EXCEPT ![i] = @ - 1]
         /\ credits' = [filled EXCEPT ![i] = @ - 1]
         /\ next' = After(i)
         /\ overtaken' = [j \in Index |-> IF j = i \/ j \notin Busy THEN 0
                                          ELSE overtaken[j] + 1]

Next == \/ \E i \in Index : Arrive(i) \/ TakeAged(i)
        \/ TakeByCredit

Spec == Init /\ [][Next]_vars

-----------------------------------------------------------------------------
OtherWeights(i) == Weight[0] + Weight[1] + Weight[2] - Weight[i]
OtherCredits(i) == credits[0] + credits[1] + credits[2] - credits[i]

TypeOK ==
  /\ len \in [Index -> 0..MaxLen]
  /\ credits \in [Index -> Nat]
  /\ next \in Index
  /\ overtaken \in [Index -> Nat]

\* A queue with work in it is passed over at most once for every credit the
\* other two queues can hold, and then at most once more by the round-robin
\* pointer: an expensive (High) request waits for at most 13 pops by credit
\* whatever arrives, so the weights never starve a class
\* (takeTaskLocked's credits_ and next_queue_).
BoundedOvertaking == \A i \in Index : overtaken[i] <= OtherWeights(i) + 1

-----------------------------------------------------------------------------
\* The strengthening of BoundedOvertaking that every step preserves.
CreditsBounded == \A i \in Index : credits[i] <= Weight[i]
IdleNotOvertaken == \A i \in Index : len[i] = 0 => overtaken[i] = 0
OvertakingBudget ==
  \A i \in Index :
    IF credits[i] = 0
    THEN /\ overtaken[i] + OtherCredits(i) <= OtherWeights(i)
         /\ overtaken[i] = 0 \/ Distance(i, next) <= 1
    ELSE overtaken[i] + Distance(i, next) <= OtherWeights(i) + 1
FairInv == TypeOK /\ CreditsBounded /\ IdleNotOvertaken /\ OvertakingBudget
=============================================================================
