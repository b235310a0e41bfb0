---------------------- MODULE SelectionFairness_proofs ----------------------
(***************************************************************************)
(* BoundedOvertaking for every choice of positive weights and every bound  *)
(* on the queues.                                                          *)
(***************************************************************************)
EXTENDS SelectionFairness, TLAPS

\* The probe finds a busy queue with a credit whenever a queue is busy: the
\* refill of takeTaskLocked leaves at least one.  The chosen queue is the
\* nearest one, and a refill never takes credits from a busy queue.
LEMMA ChosenExists ==
  ASSUME NEW busy \in SUBSET Index, busy # {},
         NEW cr \in [Index -> Nat], NEW n \in Index
  PROVE  LET filled == Refill(busy, cr)
             i      == Chosen(busy, filled, n)
         IN /\ filled \in [Index -> Nat]
            /\ i \in busy
            /\ filled[i] # 0
            /\ \A j \in busy :
                 filled[j] # 0 => Distance(i, n) <= Distance(j, n)
<1> DEFINE filled == Refill(busy, cr)
           C == {j \in busy : filled[j] # 0}
           Nearest(i) == \A j \in busy :
                           filled[j] # 0 => Distance(i, n) <= Distance(j, n)
<1>1. filled \in [Index -> Nat]
  BY WeightAssumption DEF Refill
<1>2. C # {}
  BY WeightAssumption DEF Refill, Index
<1>3. \E i \in C : Nearest(i)
  <2>1. CASE n \in C
    BY <2>1 DEF Distance, Index
  <2>2. CASE n \notin C /\ After(n) \in C
    BY <2>2 DEF Distance, Index, After
  <2>3. CASE n \notin C /\ After(n) \notin C
    <3>1. After(After(n)) \in C
      <4>1. PICK j \in C : TRUE
        BY <1>2
      <4>2. j \in Index /\ j # n /\ j # After(n)
        BY <2>3, <4>1
      <4>3. j = After(After(n))
        BY <4>2 DEF Index, After
      <4>4. QED
        BY <4>1, <4>3
    <3>2. QED
      BY <2>3, <3>1 DEF Distance, Index, After
  <2>4. QED
    BY <2>1, <2>2, <2>3
<1>4. QED
  <2> DEFINE c == Chosen(busy, filled, n)
  <2>1. c = CHOOSE i \in C : Nearest(i)
    BY Zenon DEF Chosen
  <2>2. c \in C /\ Nearest(c)
    BY <1>3, <2>1, Zenon
  <2>3. QED
    BY <1>1, <2>2, Zenon

\* The initial state has the bounds: no queue has been passed over.
LEMMA FairInit == Init => FairInv
  BY WeightAssumption, MaxLenAssumption
     DEF Init, FairInv, TypeOK, CreditsBounded, IdleNotOvertaken,
         OvertakingBudget, OtherCredits, OtherWeights, Distance, Index

\* A pop by credit spends one unit of every other busy queue's budget: a
\* credit of the chosen queue, or one step of the round-robin pointer.
LEMMA TakeByCreditFair ==
  ASSUME FairInv, TakeByCredit
  PROVE  FairInv'
<1> DEFINE filled == Refill(Busy, credits)
           i      == Chosen(Busy, filled, next)
<1>1. /\ Busy \in SUBSET Index
      /\ Busy # {}
  BY DEF Busy, TakeByCredit
<1>2. /\ filled \in [Index -> Nat]
      /\ i \in Busy
      /\ filled[i] # 0
      /\ \A j \in Busy : filled[j] # 0 => Distance(i, next) <= Distance(j, next)
  BY <1>1, ChosenExists DEF FairInv, TypeOK
<1> HIDE DEF i, filled
<1>3. /\ len' = [len EXCEPT ![i] = @ - 1]
      /\ credits' = [filled EXCEPT ![i] = @ - 1]
      /\ next' = After(i)
      /\ overtaken' = [j \in Index |-> IF j = i \/ j \notin Busy THEN 0
                                       ELSE overtaken[j] + 1]
  BY DEF TakeByCredit, i, filled
<1>4. TypeOK'
  <2>1. len' \in [Index -> 0..MaxLen]
    <3>1. i \in Index /\ len[i] # 0
      BY <1>2 DEF Busy
    <3>2. len[i] - 1 \in 0..MaxLen
      BY <3>1, MaxLenAssumption DEF FairInv, TypeOK
    <3>3. QED
      BY <1>3, <3>1, <3>2 DEF FairInv, TypeOK
  <2>2. credits' \in [Index -> Nat]
    BY <1>1, <1>2, <1>3
  <2>3. next' \in Index
    BY <1>1, <1>2, <1>3 DEF After, Index
  <2>4. overtaken' \in [Index -> Nat]
    BY <1>3 DEF FairInv, TypeOK
  <2>5. QED
    BY <2>1, <2>2, <2>3, <2>4 DEF TypeOK
<1>5. \A j \in Index : filled[j] <= Weight[j]
  BY WeightAssumption DEF FairInv, TypeOK, CreditsBounded, Refill, filled
<1>6. CreditsBounded'
  <2> SUFFICES ASSUME NEW j \in Index
               PROVE  credits'[j] <= Weight[j]
    BY DEF CreditsBounded
  <2>1. /\ credits'[j] = IF j = i THEN filled[j] - 1 ELSE filled[j]
        /\ filled[j] \in Nat
        /\ Weight[j] \in Nat
    BY <1>2, <1>3, WeightAssumption
  <2>2. QED
    BY <1>5, <2>1
<1>7. IdleNotOvertaken'
  BY <1>1, <1>2, <1>3, MaxLenAssumption
     DEF IdleNotOvertaken, FairInv, TypeOK, Busy
<1>8. OvertakingBudget'
  <2> SUFFICES ASSUME NEW j \in Index
               PROVE  IF credits'[j] = 0
                      THEN /\ overtaken'[j] + OtherCredits(j)' <= OtherWeights(j)
                           /\ overtaken'[j] = 0 \/ Distance(j, next') <= 1
                      ELSE overtaken'[j] + Distance(j, next') <= OtherWeights(j) + 1
    BY Zenon DEF OvertakingBudget, OtherWeights
  <2>1. /\ OtherCredits(j)' <= OtherWeights(j)
        /\ 2 <= OtherWeights(j)
        /\ Distance(j, next') \in 0..2
        /\ OtherCredits(j)' \in Int
        /\ OtherWeights(j) \in Int
    <3>1. /\ next' \in 0..2
          /\ \A k \in 0..2 : credits'[k] \in Nat /\ credits'[k] <= Weight[k]
      BY <1>4, <1>6 DEF TypeOK, CreditsBounded, Index
    <3>2. \A k \in 0..2 : Weight[k] \in Nat /\ Weight[k] >= 1
      BY WeightAssumption DEF Index
    <3>3. j = 0 \/ j = 1 \/ j = 2
      BY DEF Index
    <3>4. Distance(j, next') \in 0..2
      <4>1. next' = 0 \/ next' = 1 \/ next' = 2
        BY <3>1
      <4>2. QED
        BY <3>3, <4>1 DEF Distance
    <3>5. QED
      BY <3>1, <3>2, <3>3, <3>4 DEF OtherCredits, OtherWeights
  <2>2. CASE j = i \/ j \notin Busy
    BY <2>1, <2>2, <1>3
  <2>3. CASE j # i /\ j \in Busy
    <3>1. /\ overtaken'[j] = overtaken[j] + 1
          /\ credits'[j] = filled[j]
          /\ overtaken[j] \in Nat
      BY <1>2, <1>3, <2>3 DEF FairInv, TypeOK
    <3>2. CASE filled[j] = 0
      <4>1. filled = credits
        BY <1>1, <2>3, <3>2, WeightAssumption DEF filled, Refill
      <4>2. OtherCredits(j)' = OtherCredits(j) - 1
        BY <1>1, <1>2, <1>3, <2>3, <4>1
           DEF OtherCredits, FairInv, TypeOK, Index
      <4>3. overtaken[j] + OtherCredits(j) <= OtherWeights(j)
        BY <3>2, <4>1 DEF FairInv, OvertakingBudget
      <4>4. OtherCredits(j) \in Int
        BY DEF OtherCredits, FairInv, TypeOK, Index
      <4>5. Distance(j, next') <= 1
        BY <1>1, <1>2, <1>3, <2>3 DEF Distance, After, Index
      <4>6. QED
        BY <2>1, <3>1, <3>2, <4>2, <4>3, <4>4, <4>5
    <3>3. CASE filled[j] # 0
      <4>1. /\ Distance(j, After(i)) <= Distance(j, next) - 1
            /\ Distance(j, next) \in 0..2
            /\ Distance(j, After(i)) \in Int
        BY <1>1, <1>2, <2>3, <3>3 DEF Distance, After, Index, FairInv, TypeOK
      <4>2. overtaken[j] + Distance(j, next) <= OtherWeights(j) + 1
        <5>1. CASE credits[j] # 0
          BY <5>1 DEF FairInv, OvertakingBudget
        <5>2. CASE credits[j] = 0
          <6>1. /\ overtaken[j] + OtherCredits(j) <= OtherWeights(j)
                /\ overtaken[j] = 0 \/ Distance(j, next) <= 1
                /\ OtherCredits(j) \in Nat
            BY <5>2 DEF FairInv, OvertakingBudget, OtherCredits, TypeOK, Index
          <6>2. QED
            BY <2>1, <3>1, <4>1, <6>1
        <5>3. QED
          BY <5>1, <5>2
      <4>3. QED
        BY <1>3, <2>1, <3>1, <3>3, <4>1, <4>2
    <3>4. QED
      BY <3>2, <3>3
  <2>4. QED
    BY <2>2, <2>3
<1>9. QED
  BY <1>4, <1>6, <1>7, <1>8 DEF FairInv

\* An arrival or a pop of an aged head only ever clears a queue's history.
LEMMA ArriveAndAgedFair ==
  ASSUME FairInv, NEW i \in Index, Arrive(i) \/ TakeAged(i)
  PROVE  FairInv'
<1>1. CASE Arrive(i)
  BY <1>1, MaxLenAssumption
     DEF Arrive, FairInv, TypeOK, CreditsBounded, IdleNotOvertaken,
         OvertakingBudget, OtherCredits, OtherWeights
<1>2. CASE TakeAged(i)
  <2>1. TypeOK' /\ CreditsBounded' /\ IdleNotOvertaken'
    BY <1>2, MaxLenAssumption
       DEF TakeAged, Busy, FairInv, TypeOK, CreditsBounded, IdleNotOvertaken
  <2>2. \A j \in Index : /\ OtherCredits(j) <= OtherWeights(j)
                         /\ 2 <= OtherWeights(j)
                         /\ Distance(j, next) \in 0..2
                         /\ OtherWeights(j) \in Nat
                         /\ OtherCredits(j) \in Nat
    BY WeightAssumption
       DEF FairInv, TypeOK, CreditsBounded, OtherCredits, OtherWeights,
           Distance, Index
  <2>3. OvertakingBudget'
    <3> SUFFICES ASSUME NEW j \in Index
                 PROVE  IF credits'[j] = 0
                        THEN /\ overtaken'[j] + OtherCredits(j)' <= OtherWeights(j)
                             /\ overtaken'[j] = 0 \/ Distance(j, next') <= 1
                        ELSE overtaken'[j] + Distance(j, next') <= OtherWeights(j) + 1
      BY Zenon DEF OvertakingBudget, OtherWeights
    <3>1. /\ credits' = credits
          /\ next' = next
          /\ OtherCredits(j)' = OtherCredits(j)
          /\ overtaken'[j] = IF j = i THEN 0 ELSE overtaken[j]
      BY <1>2 DEF TakeAged, FairInv, TypeOK, OtherCredits
    <3>2. CASE j = i
      BY <2>2, <3>1, <3>2
    <3>3. CASE j # i
      BY <3>1, <3>3 DEF FairInv, OvertakingBudget
    <3>4. QED
      BY <3>2, <3>3
  <2>4. QED
    BY <2>1, <2>3 DEF FairInv
<1>3. QED
  BY <1>1, <1>2

\* The budget of every queue is an invariant of the selection.
THEOREM SelectionInvariant == Spec => []FairInv
<1>1. Init => FairInv
  BY FairInit
<1>2. FairInv /\ [Next]_vars => FairInv'
  <2> SUFFICES ASSUME FairInv, [Next]_vars
               PROVE  FairInv'
    OBVIOUS
  <2>1. CASE \E i \in Index : Arrive(i) \/ TakeAged(i)
    BY <2>1, ArriveAndAgedFair
  <2>2. CASE TakeByCredit
    BY <2>2, TakeByCreditFair
  <2>3. CASE UNCHANGED vars
    BY <2>3 DEF vars, FairInv, TypeOK, CreditsBounded, IdleNotOvertaken,
                OvertakingBudget, OtherCredits, OtherWeights
  <2>4. QED
    BY <2>1, <2>2, <2>3 DEF Next
<1>3. QED
  BY <1>1, <1>2, PTL DEF Spec

\* No class of request waits for more than the other classes' weights plus one
\* pop by credit, for any positive weights (kWeights, takeTaskLocked).
THEOREM NoClassStarves == Spec => []BoundedOvertaking
<1>1. FairInv => BoundedOvertaking
  <2> SUFFICES ASSUME FairInv, NEW i \in Index
               PROVE  overtaken[i] <= OtherWeights(i) + 1
    BY DEF BoundedOvertaking
  <2>1. /\ overtaken[i] \in Nat
        /\ OtherCredits(i) \in Nat
        /\ Distance(i, next) \in 0..2
        /\ OtherWeights(i) \in Nat
    BY WeightAssumption
       DEF FairInv, TypeOK, OtherCredits, OtherWeights, Distance, Index
  <2>2. QED
    BY <2>1 DEF FairInv, OvertakingBudget
<1>2. QED
  BY <1>1, SelectionInvariant, PTL
=============================================================================
