----------------------- MODULE TransferEngine_proofs -----------------------
(***************************************************************************)
(* EngineInv and NothingOverlooked are invariants of CurlMultiEngine for   *)
(* every set of transfers, window and retry limit, and the engine          *)
(* implements TransferService.  The two invariants are proved together:    *)
(* what a sleeping worker overlooks depends on where transfers can be, and *)
(* the callbacks that watch the waiting ones on who is registered.         *)
(*                                                                         *)
(* One lemma per conjunct, with one step per action that can disturb it.   *)
(***************************************************************************)
EXTENDS TransferEngine, FiniteSetTheorems, TLAPS

IInv == EngineInv /\ NothingOverlooked

-----------------------------------------------------------------------------
(* The gauges *)

\* The parts of a finite set of transfers are counted like their elements.
LEMMA FiniteParts ==
  /\ \A S \in SUBSET Transfers : Cardinality(S) \in Nat
  /\ \A S \in SUBSET Transfers, x \in Transfers :
       /\ x \notin S => Cardinality(S \cup {x}) = Cardinality(S) + 1
       /\ x \in S => Cardinality(S \ {x}) = Cardinality(S) - 1
  /\ \A S \in SUBSET Transfers : \A R \in SUBSET S :
       Cardinality(S \ R) = Cardinality(S) - Cardinality(R)
<1>1. \A S \in SUBSET Transfers : IsFiniteSet(S)
  BY TransfersAssumption, FS_Subset DEF TransfersAssumption
<1>2. \A S \in SUBSET Transfers, x \in Transfers :
       /\ Cardinality(S) \in Nat
       /\ x \notin S => Cardinality(S \cup {x}) = Cardinality(S) + 1
       /\ x \in S => Cardinality(S \ {x}) = Cardinality(S) - 1
  BY <1>1, FS_CardinalityType, FS_AddElement, FS_RemoveElement
<1>4. \A S \in SUBSET Transfers : \A R \in SUBSET S :
       Cardinality(S \ R) = Cardinality(S) - Cardinality(R)
  <2> SUFFICES ASSUME NEW S \in SUBSET Transfers, NEW R \in SUBSET S
               PROVE  Cardinality(S \ R) = Cardinality(S) - Cardinality(R)
    OBVIOUS
  <2>1. S \cap R = R
    OBVIOUS
  <2>2. Cardinality(S \ R) = Cardinality(S) - Cardinality(S \cap R)
    BY <1>1, FS_Difference, Zenon
  <2>3. QED
    BY <2>1, <2>2, Zenon
<1>5. \A S \in SUBSET Transfers : Cardinality(S) \in Nat
  BY <1>1, FS_CardinalityType
<1>6. QED
  BY <1>2, <1>4, <1>5

\* The two gauges.
WaitingExact == pendingCount = Cardinality(pending) + Cardinality(delayed)
ActiveExact == activeCount = Cardinality(active)

\* GaugesExact is about the two of them.
LEMMA GaugeParts == /\ GaugesExact <=> WaitingExact /\ ActiveExact
                    /\ GaugesExact' <=> WaitingExact' /\ ActiveExact'
BY DEF GaugesExact, WaitingExact, ActiveExact

\* The steps that move transfers into and out of pending_ and delayed_.
LEMMA WaitingMoves ==
  ASSUME TypeOK, WaitingExact
  PROVE  /\ UNCHANGED <<pending, delayed, pendingCount>> => WaitingExact'
         /\ \A t \in Transfers :
              /\ /\ t \notin delayed /\ delayed' = delayed \cup {t}
                 /\ pending' = pending /\ pendingCount' = pendingCount + 1
                 => WaitingExact'
              /\ /\ t \notin pending /\ pending' = pending \cup {t}
                 /\ delayed' = delayed /\ pendingCount' = pendingCount + 1
                 => WaitingExact'
              /\ /\ t \in delayed /\ delayed' = delayed \ {t}
                 /\ pending' = pending /\ pendingCount' = pendingCount - 1
                 => WaitingExact'
              /\ /\ t \in pending /\ pending' = pending \ {t}
                 /\ delayed' = delayed /\ pendingCount' = pendingCount - 1
                 => WaitingExact'
         /\ \A R \in SUBSET pending :
              /\ pending' = pending \ R /\ delayed' = delayed
              /\ pendingCount' = pendingCount - Cardinality(R)
              => WaitingExact'
BY FiniteParts DEF TypeOK, WaitingExact

\* The steps that move transfers into and out of curl.
LEMMA ActiveMoves ==
  ASSUME TypeOK, ActiveExact
  PROVE  /\ active' = active /\ activeCount' = activeCount => ActiveExact'
         /\ \A t \in Transfers :
              /\ /\ t \notin active /\ active' = active \cup {t}
                 /\ activeCount' = activeCount + 1
                 => ActiveExact'
              /\ /\ t \in active /\ active' = active \ {t}
                 /\ activeCount' = activeCount - 1
                 => ActiveExact'
              /\ /\ t \notin active /\ active' = active \ {t}
                 /\ activeCount' = activeCount
                 => ActiveExact'
<1>1. \A t \in Transfers : t \notin active => active \ {t} = active
  OBVIOUS
<1>2. QED
  BY <1>1, FiniteParts DEF TypeOK, ActiveExact

\* Every step counts what it moves.
LEMMA GaugeStep ==
  ASSUME IInv, [Next]_vars PROVE  GaugesExact'
<1> USE DEF engineVars, placeVars, stopVars, pruneVars, wakeVars, curVars, subVars, hookVars,
           worldVars, answerVars
<1>1. CASE Complete \/ PendingStarted \/ Performed \/ Exit \/ Wait \/ Decide \/ Block \/
          NapEnds \/ PollReturns \/ Create \/ RequestShutdown \/ CreateCheck \/
          CreateReturn \/ FindEngine
  BY <1>1
     DEF IInv, EngineInv, GaugesExact, Complete, PendingStarted, Performed, Exit, Wait,
         Decide, Block, NapEnds, PollReturns, Create, RequestShutdown, CreateCheck,
         CreateReturn, FindEngine, Wake, At, Goto, CloserAt
<1>2. ASSUME NEW k \in Closers,
            Shutdown(k) \/ ShutdownWake(k) \/ Join(k) \/ AwaitJoined(k)
     PROVE  GaugesExact'
  BY <1>2
     DEF IInv, EngineInv, GaugesExact, Shutdown, ShutdownWake, Join, AwaitJoined,
         CloserAt, MutexFree, Wake
<1>3. ASSUME NEW t \in Transfers,
            KeepDelayed(t) \/ Register(t) \/ SubmitWake(t) \/ Refuse(t) \/ RetryDue(t)
            \/ Arrive(t) \/ Cancel(t) \/ CancelCallback(t) \/ Expire(t)
     PROVE  GaugesExact'
  BY <1>3
     DEF IInv, EngineInv, GaugesExact, KeepDelayed, Register, SubmitWake, Refuse,
         RetryDue, Arrive, Cancel, CancelCallback, Expire, At, Visits, OnCancel, Wake,
         SubAt
<1>4. CASE UNCHANGED vars
  BY <1>4
     DEF IInv, EngineInv, GaugesExact, vars
<1>5. CASE Retry
  BY <1>5, WaitingMoves, ActiveMoves, GaugeParts
     DEF IInv, EngineInv, TypeOK, WorkerInv, OnePlace, InHand, Held, Retry, OnCancel,
         Wake
<1>6. CASE PrunePending
  <2> DEFINE gone == IF prune \/ noted \cap expired # {} THEN {t \in pending : Unwanted(t)} ELSE {}
  <2>1. /\ gone \in SUBSET pending /\ pending' = pending \ gone /\ delayed' = delayed
        /\ pendingCount' = pendingCount - Cardinality(gone)
        /\ active' = active /\ activeCount' = activeCount
    BY <1>6 DEF PrunePending
  <2> HIDE DEF gone
  <2>2. QED
    BY <2>1, WaitingMoves, ActiveMoves, GaugeParts DEF IInv, EngineInv
<1>7. CASE SweepPruned
  BY <1>7, WaitingMoves, ActiveMoves, GaugeParts
     DEF IInv, EngineInv, TypeOK, WorkerInv, OnePlace, InHand, Held, SweepPruned, At,
         SweepOne, Finish, Drops, sweepUnchanged
<1>8. CASE SweepExpired
  BY <1>8, WaitingMoves, ActiveMoves, GaugeParts
     DEF IInv, EngineInv, TypeOK, WorkerInv, OnePlace, InHand, Held, SweepExpired, At,
         SweepOne, Finish, Drops, sweepUnchanged
<1>9. CASE CheckStop
  BY <1>9, WaitingMoves, ActiveMoves, GaugeParts
     DEF IInv, EngineInv, TypeOK, WorkerInv, OnePlace, InHand, Held, CheckStop, At, Goto
<1>10. CASE StopActive
  BY <1>10, WaitingMoves, ActiveMoves, GaugeParts
     DEF IInv, EngineInv, TypeOK, WorkerInv, OnePlace, InHand, Held, StopActive, At,
         Finish, sweepUnchanged
<1>11. ASSUME NEW t \in Transfers, DropDelayed(t) PROVE GaugesExact'
  BY <1>11, WaitingMoves, ActiveMoves, GaugeParts
     DEF IInv, EngineInv, TypeOK, WorkerInv, OnePlace, InHand, Held, DropDelayed, At,
         Visits, Finish, Drops
<1>12. ASSUME NEW t \in Transfers, StartDelayed(t) PROVE GaugesExact'
  BY <1>12, WaitingMoves, ActiveMoves, GaugeParts
     DEF IInv, EngineInv, TypeOK, WorkerInv, OnePlace, InHand, Held, StartDelayed, At,
         Visits, StartTransfer, Finish, Drops
<1>13. ASSUME NEW t \in Transfers, StartPending(t) PROVE GaugesExact'
  BY <1>13, WaitingMoves, ActiveMoves, GaugeParts
     DEF IInv, EngineInv, TypeOK, WorkerInv, OnePlace, InHand, Held, StartPending, At,
         StartTransfer, Finish, Drops
<1>14. ASSUME NEW t \in Transfers, Message(t) PROVE GaugesExact'
  BY <1>14, WaitingMoves, ActiveMoves, GaugeParts
     DEF IInv, EngineInv, TypeOK, WorkerInv, OnePlace, InHand, Held, Message, At,
         Finish, Drops, sweepUnchanged
<1>15. ASSUME NEW t \in Transfers, StopDelayed(t) PROVE GaugesExact'
  BY <1>15, WaitingMoves, ActiveMoves, GaugeParts
     DEF IInv, EngineInv, TypeOK, WorkerInv, OnePlace, InHand, Held, StopDelayed, At,
         Finish
<1>16. ASSUME NEW t \in Transfers, Queue(t) PROVE GaugesExact'
  BY <1>16, WaitingMoves, ActiveMoves, GaugeParts
     DEF IInv, EngineInv, TypeOK, OnePlace, Accepted, Queue, SubAt, MutexFree
<1>17. QED
  BY <1>1, <1>2, <1>3, <1>4, <1>5, <1>6, <1>7, <1>8, <1>9, <1>10, <1>11, <1>12, <1>13,
     <1>14, <1>15, <1>16
     DEF Next, WorkerStep, CloserStep, SubmitterStep, NetworkStep

-----------------------------------------------------------------------------
(* The other conjuncts *)

\* Every step keeps the types.
LEMMA TypeStep ==
  ASSUME IInv, [Next]_vars PROVE  TypeOK'
<1> USE DEF engineVars, placeVars, stopVars, pruneVars, wakeVars, curVars, subVars, hookVars,
           worldVars, answerVars
<1>1. CASE UNCHANGED vars
  BY <1>1
     DEF IInv, EngineInv, TypeOK, Outcomes, vars
<1>2. CASE Retry
  <2>1. cur \in Transfers /\ attempts[cur] \in 0..MaxRetries /\ attempts[cur] < MaxRetries
    BY <1>2 DEF IInv, EngineInv, TypeOK, AnswerInv, Retry
  <2>2. attempts[cur] + 1 \in 0..MaxRetries
    BY <2>1, RetriesAssumption
  <2>3. attempts' \in [Transfers -> 0..MaxRetries]
    BY <1>2, <2>1, <2>2 DEF IInv, EngineInv, TypeOK, Retry
  <2>4. delayed' \subseteq Transfers /\ due' \subseteq Transfers /\ registered' \subseteq Transfers
    BY <1>2, <2>1, TransfersAssumption DEF IInv, EngineInv, TypeOK, Retry
  <2>5. /\ prune' \in BOOLEAN /\ woken' \in BOOLEAN
        /\ stage' = stage \/ stage' = "prune"
    BY <1>2 DEF IInv, EngineInv, TypeOK, Retry, OnCancel, Wake
  <2>6. pendingCount' \in Int /\ cur' = None /\ verdict' = None
    BY <1>2 DEF IInv, EngineInv, TypeOK, Retry
  <2>7. UNCHANGED <<engineVars, pending, active, activeCount, stopVars, noted, batch, subVars,
                    firing, cancelled, expired, arrived, told, closer>>
    BY <1>2 DEF Retry
  <2>8. QED
    BY <2>3, <2>4, <2>5, <2>6, <2>7 DEF IInv, EngineInv, TypeOK
<1>3. CASE Complete
  <2>1. cur \in Transfers /\ verdict \in Outcomes
    BY <1>3 DEF IInv, EngineInv, TypeOK, WorkerInv, Complete
  <2>2. told' \in [Transfers -> Outcomes \cup {None}] /\ cur' = None /\ verdict' = None
    BY <1>3, <2>1 DEF IInv, EngineInv, TypeOK, Complete
  <2>3. /\ stopping' \in BOOLEAN /\ woken' \in BOOLEAN
        /\ stage' = stage \/ stage' = "prune"
        /\ UNCHANGED <<joining, joined>>
    BY <1>3 DEF IInv, EngineInv, TypeOK, Complete, Wake
  <2>4. UNCHANGED <<engineVars, placeVars, pruneVars, batch, subVars, hookVars, worldVars,
                    attempts, closer>>
    BY <1>3 DEF Complete
  <2>5. QED
    BY <2>2, <2>3, <2>4 DEF IInv, EngineInv, TypeOK
<1>4. CASE PrunePending
  <2> DEFINE gone == IF prune \/ noted \cap expired # {} THEN {t \in pending : Unwanted(t)} ELSE {}
  <2>1. gone \in SUBSET Transfers
    BY DEF IInv, EngineInv, TypeOK
  <2>2. Cardinality(gone) \in Int
    BY <2>1, FiniteParts
  <2> HIDE DEF gone
  <2>3. /\ batch' = gone \cup delayed /\ pending' = pending \ gone
        /\ pendingCount' = pendingCount - Cardinality(gone)
        /\ noted' = noted \/ noted' = (pending \ gone) \cap Timed
    BY <1>4 DEF PrunePending, gone
  <2>4. /\ batch' \subseteq Transfers /\ pending' \subseteq Transfers
        /\ pendingCount' \in Int /\ noted' \subseteq Timed
    BY <2>1, <2>2, <2>3 DEF IInv, EngineInv, TypeOK
  <2>5. prune' \in BOOLEAN /\ stage' = "visit"
    BY <1>4 DEF PrunePending, Goto
  <2>6. UNCHANGED <<engineVars, delayed, active, activeCount, stopVars, woken, cur,
                    verdict, subVars, hookVars, worldVars, answerVars, closer>>
    BY <1>4 DEF PrunePending
  <2>7. QED
    BY <2>4, <2>5, <2>6 DEF IInv, EngineInv, TypeOK
<1>5. CASE SweepPruned
  BY <1>5, NoneAssumption
     DEF IInv, EngineInv, TypeOK, Outcomes, SweepPruned, At, SweepOne, Finish, Drops,
         sweepUnchanged
<1>6. CASE PendingStarted
  BY <1>6
     DEF IInv, EngineInv, TypeOK, PendingStarted, At, Goto
<1>7. CASE Performed
  BY <1>7
     DEF IInv, EngineInv, TypeOK, Performed, At, Goto, Unwanted
<1>8. CASE SweepExpired
  BY <1>8, NoneAssumption
     DEF IInv, EngineInv, TypeOK, Outcomes, SweepExpired, At, SweepOne, Finish, Drops,
         sweepUnchanged
<1>9. CASE CheckStop
  <2>1. Cardinality(pending) \in Int
    BY FiniteParts DEF IInv, EngineInv, TypeOK
  <2>2. QED
    BY <1>9, <2>1 DEF IInv, EngineInv, TypeOK, CheckStop, Goto
<1>10. CASE StopActive
  BY <1>10, NoneAssumption
     DEF IInv, EngineInv, TypeOK, Outcomes, StopActive, At, Finish, sweepUnchanged
<1>11. CASE Exit
  BY <1>11
     DEF IInv, EngineInv, TypeOK, Exit, At, Goto
<1>12. CASE Wait
  BY <1>12
     DEF IInv, EngineInv, TypeOK, Wait, At, Goto
<1>13. CASE Decide
  BY <1>13
     DEF IInv, EngineInv, TypeOK, Decide, At, Goto, Unwanted
<1>14. CASE Block
  BY <1>14
     DEF IInv, EngineInv, TypeOK, Block, At, Goto
<1>15. CASE NapEnds
  BY <1>15
     DEF IInv, EngineInv, TypeOK, NapEnds, At, Goto
<1>16. CASE PollReturns
  BY <1>16
     DEF IInv, EngineInv, TypeOK, PollReturns, At, Goto
<1>17. CASE Create
  <2>1. engine' \in {"published", "ready"} /\ available' \in BOOLEAN /\ stage' \in {"prune", "exited"}
    BY <1>17 DEF Create
  <2>2. UNCHANGED <<flag, placeVars, stopVars, pruneVars, woken, curVars, subVars,
                    hookVars, worldVars, answerVars, closer>>
    BY <1>17 DEF Create
  <2>3. QED
    BY <2>1, <2>2 DEF IInv, EngineInv, TypeOK
<1>18. CASE RequestShutdown
  BY <1>18
     DEF IInv, EngineInv, TypeOK, Closers, RequestShutdown, CloserAt
<1>19. CASE CreateCheck
  BY <1>19
     DEF IInv, EngineInv, TypeOK, Closers, CreateCheck
<1>20. CASE CreateReturn
  BY <1>20
     DEF IInv, EngineInv, TypeOK, CreateReturn
<1>21. CASE FindEngine
  BY <1>21
     DEF IInv, EngineInv, TypeOK, Closers, FindEngine, CloserAt
<1>22. ASSUME NEW k \in Closers, Shutdown(k) PROVE TypeOK'
  BY <1>22
     DEF IInv, EngineInv, TypeOK, Shutdown, CloserAt, MutexFree
<1>23. ASSUME NEW k \in Closers, ShutdownWake(k) PROVE TypeOK'
  BY <1>23
     DEF IInv, EngineInv, TypeOK, ShutdownWake, Wake, CloserAt
<1>24. ASSUME NEW k \in Closers, Join(k) PROVE TypeOK'
  BY <1>24
     DEF IInv, EngineInv, TypeOK, Join, CloserAt
<1>25. ASSUME NEW k \in Closers, AwaitJoined(k) PROVE TypeOK'
  BY <1>25
     DEF IInv, EngineInv, TypeOK, AwaitJoined, CloserAt
<1>26. ASSUME NEW t \in Transfers, DropDelayed(t) PROVE TypeOK'
  BY <1>26, NoneAssumption
     DEF IInv, EngineInv, TypeOK, Outcomes, DropDelayed, At, Visits, Finish, Drops
<1>27. ASSUME NEW t \in Transfers, KeepDelayed(t) PROVE TypeOK'
  BY <1>27
     DEF IInv, EngineInv, TypeOK, KeepDelayed, At, Visits
<1>28. ASSUME NEW t \in Transfers, StartDelayed(t) PROVE TypeOK'
  BY <1>28, NoneAssumption
     DEF IInv, EngineInv, TypeOK, Outcomes, StartDelayed, At, Visits, StartTransfer,
         Finish, Drops
<1>29. ASSUME NEW t \in Transfers, StartPending(t) PROVE TypeOK'
  BY <1>29, NoneAssumption
     DEF IInv, EngineInv, TypeOK, Outcomes, StartPending, At, StartTransfer, Finish,
         Drops
<1>30. ASSUME NEW t \in Transfers, Message(t) PROVE TypeOK'
  BY <1>30, NoneAssumption
     DEF IInv, EngineInv, TypeOK, Outcomes, Message, At, Finish, Drops, sweepUnchanged
<1>31. ASSUME NEW t \in Transfers, StopDelayed(t) PROVE TypeOK'
  BY <1>31, NoneAssumption
     DEF IInv, EngineInv, TypeOK, Outcomes, StopDelayed, At, Finish
<1>32. ASSUME NEW t \in Transfers, Register(t) PROVE TypeOK'
  <2>1. /\ prune' \in BOOLEAN /\ woken' \in BOOLEAN
        /\ stage' = stage \/ stage' = "prune"
    BY <1>32 DEF IInv, EngineInv, TypeOK, Register, OnCancel, Wake
  <2>2. registered' \subseteq Transfers
    BY <1>32 DEF IInv, EngineInv, TypeOK, Register
  <2>3. sub' \in [Transfers -> {"idle", "registered", "queued", "returned", "refused", "failed",
                                "rejected"}]
    BY <1>32 DEF IInv, EngineInv, TypeOK, Register, SubAt
  <2>4. UNCHANGED <<engineVars, placeVars, stopVars, noted, curVars, late, firing, worldVars,
                    answerVars, closer>>
    BY <1>32 DEF Register
  <2>5. QED
    BY <2>1, <2>2, <2>3, <2>4 DEF IInv, EngineInv, TypeOK
<1>33. ASSUME NEW t \in Transfers, Queue(t) PROVE TypeOK'
  BY <1>33
     DEF IInv, EngineInv, TypeOK, Queue, SubAt, MutexFree
<1>34. ASSUME NEW t \in Transfers, SubmitWake(t) PROVE TypeOK'
  BY <1>34
     DEF IInv, EngineInv, TypeOK, SubmitWake, Wake, SubAt
<1>35. ASSUME NEW t \in Transfers, Refuse(t) PROVE TypeOK'
  BY <1>35, NoneAssumption
     DEF IInv, EngineInv, TypeOK, Outcomes, Refuse, SubAt
<1>36. ASSUME NEW t \in Transfers, RetryDue(t) PROVE TypeOK'
  BY <1>36
     DEF IInv, EngineInv, TypeOK, RetryDue
<1>37. ASSUME NEW t \in Transfers, Arrive(t) PROVE TypeOK'
  BY <1>37
     DEF IInv, EngineInv, TypeOK, Arrive
<1>38. ASSUME NEW t \in Transfers, Cancel(t) PROVE TypeOK'
  BY <1>38
     DEF IInv, EngineInv, TypeOK, Cancel
<1>39. ASSUME NEW t \in Transfers, CancelCallback(t) PROVE TypeOK'
  BY <1>39
     DEF IInv, EngineInv, TypeOK, CancelCallback, OnCancel, Wake
<1>40. ASSUME NEW t \in Transfers, Expire(t) PROVE TypeOK'
  BY <1>40
     DEF IInv, EngineInv, TypeOK, Expire
<1>41. QED
  BY <1>1, <1>2, <1>3, <1>4, <1>5, <1>6, <1>7, <1>8, <1>9, <1>10, <1>11, <1>12, <1>13,
     <1>14, <1>15, <1>16, <1>17, <1>18, <1>19, <1>20, <1>21, <1>22, <1>23, <1>24, <1>25,
     <1>26, <1>27, <1>28, <1>29, <1>30, <1>31, <1>32, <1>33, <1>34, <1>35, <1>36, <1>37,
     <1>38, <1>39, <1>40
     DEF Next, WorkerStep, CloserStep, SubmitterStep, NetworkStep

\* Every step leaves an unanswered transfer in one place.
LEMMA PlaceStep ==
  ASSUME IInv, [Next]_vars PROVE  OnePlace'
<1> USE DEF engineVars, placeVars, stopVars, pruneVars, wakeVars, curVars, subVars, hookVars,
           worldVars, answerVars
<1>1. CASE PendingStarted \/ Exit \/ Wait \/ Decide \/ Block \/ NapEnds \/ PollReturns
          \/ Create \/ RequestShutdown \/ CreateCheck \/ CreateReturn \/ FindEngine
  BY <1>1
     DEF IInv, EngineInv, OnePlace, InHand, Held, Accepted, PendingStarted, Exit, Wait,
         Decide, Block, NapEnds, PollReturns, Create, RequestShutdown, CreateCheck,
         CreateReturn, FindEngine, At, Goto, CloserAt
<1>2. ASSUME NEW k \in Closers,
            Shutdown(k) \/ ShutdownWake(k) \/ Join(k) \/ AwaitJoined(k)
     PROVE  OnePlace'
  BY <1>2
     DEF IInv, EngineInv, OnePlace, InHand, Held, Accepted, Shutdown, ShutdownWake,
         Join, AwaitJoined, CloserAt, MutexFree, Wake
<1>3. ASSUME NEW t \in Transfers,
            RetryDue(t) \/ Arrive(t) \/ Cancel(t) \/ CancelCallback(t) \/ Expire(t)
     PROVE  OnePlace'
  BY <1>3
     DEF IInv, EngineInv, OnePlace, InHand, Held, Accepted, RetryDue, Arrive, Cancel,
         CancelCallback, Expire, OnCancel, Wake
<1>4. CASE UNCHANGED vars
  BY <1>4
     DEF IInv, EngineInv, OnePlace, InHand, Held, Accepted, vars
<1>5. CASE Retry
  BY <1>5, NoneAssumption
     DEF IInv, EngineInv, TypeOK, WorkerInv, AnswerInv, OnePlace, InHand, Held,
         Accepted, Retry, OnCancel, Wake
<1>6. CASE Complete
  BY <1>6, NoneAssumption
     DEF IInv, EngineInv, TypeOK, WorkerInv, AnswerInv, OnePlace, InHand, Held,
         Accepted, Complete, Wake
<1>7. CASE PrunePending
  BY <1>7, NoneAssumption
     DEF IInv, EngineInv, TypeOK, WorkerInv, AnswerInv, OnePlace, InHand, Held,
         Accepted, PrunePending, At, Goto, Unwanted
<1>8. CASE SweepPruned
  BY <1>8, NoneAssumption
     DEF IInv, EngineInv, TypeOK, WorkerInv, AnswerInv, OnePlace, InHand, Held,
         Accepted, SweepPruned, At, SweepOne, Finish, Drops, sweepUnchanged
<1>9. CASE Performed
  BY <1>9, NoneAssumption
     DEF IInv, EngineInv, TypeOK, WorkerInv, AnswerInv, OnePlace, InHand, Held,
         Accepted, Performed, At, Goto, Unwanted
<1>10. CASE SweepExpired
  BY <1>10, NoneAssumption
     DEF IInv, EngineInv, TypeOK, WorkerInv, AnswerInv, OnePlace, InHand, Held,
         Accepted, SweepExpired, At, SweepOne, Finish, Drops, sweepUnchanged
<1>11. CASE CheckStop
  BY <1>11, NoneAssumption
     DEF IInv, EngineInv, TypeOK, WorkerInv, AnswerInv, OnePlace, InHand, Held,
         Accepted, CheckStop, At, Goto
<1>12. CASE StopActive
  BY <1>12, NoneAssumption
     DEF IInv, EngineInv, TypeOK, WorkerInv, AnswerInv, OnePlace, InHand, Held,
         Accepted, StopActive, At, Finish, sweepUnchanged
<1>13. ASSUME NEW t \in Transfers, DropDelayed(t) PROVE OnePlace'
  BY <1>13, NoneAssumption
     DEF IInv, EngineInv, TypeOK, WorkerInv, AnswerInv, OnePlace, InHand, Held,
         Accepted, DropDelayed, At, Visits, Finish, Drops
<1>14. ASSUME NEW t \in Transfers, KeepDelayed(t) PROVE OnePlace'
  BY <1>14, NoneAssumption
     DEF IInv, EngineInv, TypeOK, WorkerInv, AnswerInv, OnePlace, InHand, Held,
         Accepted, KeepDelayed, At, Visits
<1>15. ASSUME NEW t \in Transfers, StartDelayed(t) PROVE OnePlace'
  BY <1>15, NoneAssumption
     DEF IInv, EngineInv, TypeOK, WorkerInv, AnswerInv, OnePlace, InHand, Held,
         Accepted, StartDelayed, At, Visits, StartTransfer, Finish, Drops
<1>16. ASSUME NEW t \in Transfers, StartPending(t) PROVE OnePlace'
  BY <1>16, NoneAssumption
     DEF IInv, EngineInv, TypeOK, WorkerInv, AnswerInv, OnePlace, InHand, Held,
         Accepted, StartPending, At, StartTransfer, Finish, Drops
<1>17. ASSUME NEW t \in Transfers, Message(t) PROVE OnePlace'
  BY <1>17, NoneAssumption
     DEF IInv, EngineInv, TypeOK, WorkerInv, AnswerInv, OnePlace, InHand, Held,
         Accepted, Message, At, Finish, Drops, sweepUnchanged
<1>18. ASSUME NEW t \in Transfers, StopDelayed(t) PROVE OnePlace'
  BY <1>18, NoneAssumption
     DEF IInv, EngineInv, TypeOK, WorkerInv, AnswerInv, OnePlace, InHand, Held,
         Accepted, StopDelayed, At, Finish
<1>19. ASSUME NEW t \in Transfers, Register(t) PROVE OnePlace'
  BY <1>19, NoneAssumption
     DEF IInv, EngineInv, TypeOK, WorkerInv, AnswerInv, OnePlace, InHand, Held,
         Accepted, Register, OnCancel, Wake, SubAt
<1>20. ASSUME NEW t \in Transfers, Queue(t) PROVE OnePlace'
  BY <1>20, NoneAssumption
     DEF IInv, EngineInv, TypeOK, WorkerInv, AnswerInv, OnePlace, InHand, Held,
         Accepted, Queue, SubAt, MutexFree
<1>21. ASSUME NEW t \in Transfers, SubmitWake(t) PROVE OnePlace'
  BY <1>21, NoneAssumption
     DEF IInv, EngineInv, TypeOK, WorkerInv, AnswerInv, OnePlace, InHand, Held,
         Accepted, SubmitWake, Wake, SubAt
<1>22. ASSUME NEW t \in Transfers, Refuse(t) PROVE OnePlace'
  BY <1>22, NoneAssumption
     DEF IInv, EngineInv, TypeOK, WorkerInv, AnswerInv, OnePlace, InHand, Held,
         Accepted, Refuse, SubAt
<1>23. QED
  BY <1>1, <1>2, <1>3, <1>4, <1>5, <1>6, <1>7, <1>8, <1>9, <1>10, <1>11, <1>12, <1>13,
     <1>14, <1>15, <1>16, <1>17, <1>18, <1>19, <1>20, <1>21, <1>22
     DEF Next, WorkerStep, CloserStep, SubmitterStep, NetworkStep

\* No step decides for a retry while a list is visited: what is dropped there was
\* cancelled or is past its deadline, or the engine stops.
LEMMA VisitStep ==
  ASSUME IInv, [Next]_vars PROVE  NoRetryWhileVisiting'
<1> USE DEF engineVars, placeVars, stopVars, pruneVars, wakeVars, curVars, subVars, hookVars,
           worldVars, answerVars
<1>1. CASE RequestShutdown \/ CreateCheck \/ CreateReturn \/ FindEngine
  BY <1>1
     DEF IInv, EngineInv, NoRetryWhileVisiting, RequestShutdown, CreateCheck,
         CreateReturn, FindEngine, CloserAt
<1>2. ASSUME NEW k \in Closers,
            Shutdown(k) \/ Join(k) \/ AwaitJoined(k)
     PROVE  NoRetryWhileVisiting'
  BY <1>2
     DEF IInv, EngineInv, NoRetryWhileVisiting, Shutdown, Join, AwaitJoined, CloserAt,
         MutexFree
<1>3. ASSUME NEW t \in Transfers,
            KeepDelayed(t) \/ Queue(t) \/ Refuse(t) \/ RetryDue(t) \/ Arrive(t) \/
            Cancel(t) \/ Expire(t)
     PROVE  NoRetryWhileVisiting'
  BY <1>3
     DEF IInv, EngineInv, NoRetryWhileVisiting, KeepDelayed, Queue, Refuse, RetryDue,
         Arrive, Cancel, Expire, At, Visits, SubAt, MutexFree
<1>4. CASE UNCHANGED vars
  BY <1>4
     DEF IInv, EngineInv, NoRetryWhileVisiting, vars
<1>5. CASE Retry
  BY <1>5, NoneAssumption
     DEF IInv, EngineInv, NoRetryWhileVisiting, WorkerInv, Retryable, Drops, Retry,
         OnCancel, Wake
<1>6. CASE Complete
  BY <1>6, NoneAssumption
     DEF IInv, EngineInv, NoRetryWhileVisiting, WorkerInv, Retryable, Drops, Complete,
         Wake
<1>7. CASE PrunePending
  BY <1>7, NoneAssumption
     DEF IInv, EngineInv, NoRetryWhileVisiting, WorkerInv, Retryable, Drops,
         PrunePending, At, Goto, Unwanted
<1>8. CASE SweepPruned
  BY <1>8, NoneAssumption
     DEF IInv, EngineInv, NoRetryWhileVisiting, WorkerInv, Retryable, Drops,
         SweepPruned, At, SweepOne, Finish, sweepUnchanged
<1>9. CASE PendingStarted
  BY <1>9, NoneAssumption
     DEF IInv, EngineInv, NoRetryWhileVisiting, WorkerInv, Retryable, Drops,
         PendingStarted, At, Goto
<1>10. CASE Performed
  BY <1>10, NoneAssumption
     DEF IInv, EngineInv, NoRetryWhileVisiting, WorkerInv, Retryable, Drops, Performed,
         At, Goto, Unwanted
<1>11. CASE SweepExpired
  BY <1>11, NoneAssumption
     DEF IInv, EngineInv, NoRetryWhileVisiting, WorkerInv, Retryable, Drops,
         SweepExpired, At, SweepOne, Finish, sweepUnchanged
<1>12. CASE CheckStop
  BY <1>12, NoneAssumption
     DEF IInv, EngineInv, NoRetryWhileVisiting, WorkerInv, Retryable, Drops, CheckStop,
         At, Goto
<1>13. CASE StopActive
  BY <1>13, NoneAssumption
     DEF IInv, EngineInv, NoRetryWhileVisiting, WorkerInv, Retryable, Drops, StopActive,
         At, Finish, sweepUnchanged
<1>14. CASE Exit
  BY <1>14, NoneAssumption
     DEF IInv, EngineInv, NoRetryWhileVisiting, WorkerInv, Retryable, Drops, Exit, At,
         Goto
<1>15. CASE Wait
  BY <1>15, NoneAssumption
     DEF IInv, EngineInv, NoRetryWhileVisiting, WorkerInv, Retryable, Drops, Wait, At,
         Goto
<1>16. CASE Decide
  BY <1>16, NoneAssumption
     DEF IInv, EngineInv, NoRetryWhileVisiting, WorkerInv, Retryable, Drops, Decide, At,
         Goto, Unwanted
<1>17. CASE Block
  BY <1>17, NoneAssumption
     DEF IInv, EngineInv, NoRetryWhileVisiting, WorkerInv, Retryable, Drops, Block, At,
         Goto
<1>18. CASE NapEnds
  BY <1>18, NoneAssumption
     DEF IInv, EngineInv, NoRetryWhileVisiting, WorkerInv, Retryable, Drops, NapEnds,
         At, Goto
<1>19. CASE PollReturns
  BY <1>19, NoneAssumption
     DEF IInv, EngineInv, NoRetryWhileVisiting, WorkerInv, Retryable, Drops,
         PollReturns, At, Goto
<1>20. CASE Create
  BY <1>20, NoneAssumption
     DEF IInv, EngineInv, NoRetryWhileVisiting, WorkerInv, Retryable, Drops, Create
<1>21. ASSUME NEW k \in Closers, ShutdownWake(k) PROVE NoRetryWhileVisiting'
  BY <1>21, NoneAssumption
     DEF IInv, EngineInv, NoRetryWhileVisiting, WorkerInv, Retryable, Drops,
         ShutdownWake, Wake, CloserAt
<1>22. ASSUME NEW t \in Transfers, DropDelayed(t) PROVE NoRetryWhileVisiting'
  BY <1>22, NoneAssumption
     DEF IInv, EngineInv, NoRetryWhileVisiting, WorkerInv, Retryable, Drops,
         DropDelayed, At, Visits, Finish
<1>23. ASSUME NEW t \in Transfers, StartDelayed(t) PROVE NoRetryWhileVisiting'
  BY <1>23, NoneAssumption
     DEF IInv, EngineInv, NoRetryWhileVisiting, WorkerInv, Retryable, Drops,
         StartDelayed, At, Visits, StartTransfer, Finish
<1>24. ASSUME NEW t \in Transfers, StartPending(t) PROVE NoRetryWhileVisiting'
  BY <1>24, NoneAssumption
     DEF IInv, EngineInv, NoRetryWhileVisiting, WorkerInv, Retryable, Drops,
         StartPending, At, StartTransfer, Finish
<1>25. ASSUME NEW t \in Transfers, Message(t) PROVE NoRetryWhileVisiting'
  BY <1>25, NoneAssumption
     DEF IInv, EngineInv, NoRetryWhileVisiting, WorkerInv, Retryable, Drops, Message,
         At, Finish, sweepUnchanged
<1>26. ASSUME NEW t \in Transfers, StopDelayed(t) PROVE NoRetryWhileVisiting'
  BY <1>26, NoneAssumption
     DEF IInv, EngineInv, NoRetryWhileVisiting, WorkerInv, Retryable, Drops,
         StopDelayed, At, Finish
<1>27. ASSUME NEW t \in Transfers, Register(t) PROVE NoRetryWhileVisiting'
  BY <1>27, NoneAssumption
     DEF IInv, EngineInv, NoRetryWhileVisiting, WorkerInv, Retryable, Drops, Register,
         OnCancel, Wake, SubAt
<1>28. ASSUME NEW t \in Transfers, SubmitWake(t) PROVE NoRetryWhileVisiting'
  BY <1>28, NoneAssumption
     DEF IInv, EngineInv, NoRetryWhileVisiting, WorkerInv, Retryable, Drops, SubmitWake,
         Wake, SubAt
<1>29. ASSUME NEW t \in Transfers, CancelCallback(t) PROVE NoRetryWhileVisiting'
  BY <1>29, NoneAssumption
     DEF IInv, EngineInv, NoRetryWhileVisiting, WorkerInv, Retryable, Drops,
         CancelCallback, OnCancel, Wake
<1>30. QED
  BY <1>1, <1>2, <1>3, <1>4, <1>5, <1>6, <1>7, <1>8, <1>9, <1>10, <1>11, <1>12, <1>13,
     <1>14, <1>15, <1>16, <1>17, <1>18, <1>19, <1>20, <1>21, <1>22, <1>23, <1>24, <1>25,
     <1>26, <1>27, <1>28, <1>29
     DEF Next, WorkerStep, CloserStep, SubmitterStep, NetworkStep

\* Every step keeps what the stage of the worker says.
LEMMA WorkerStepInv ==
  ASSUME IInv, [Next]_vars PROVE  WorkerInv'
<1> USE DEF engineVars, placeVars, stopVars, pruneVars, wakeVars, curVars, subVars, hookVars,
           worldVars, answerVars
<1>1. CASE RequestShutdown \/ FindEngine
  BY <1>1
     DEF IInv, EngineInv, WorkerInv, RequestShutdown, FindEngine, CloserAt
<1>2. ASSUME NEW k \in Closers,
            AwaitJoined(k)
     PROVE  WorkerInv'
  BY <1>2
     DEF IInv, EngineInv, WorkerInv, AwaitJoined, CloserAt
<1>3. ASSUME NEW t \in Transfers,
            RetryDue(t) \/ Cancel(t) \/ Expire(t)
     PROVE  WorkerInv'
  BY <1>3
     DEF IInv, EngineInv, WorkerInv, RetryDue, Cancel, Expire
<1>4. CASE UNCHANGED vars
  BY <1>4
     DEF IInv, EngineInv, WorkerInv, vars
<1>5. CASE Retry
  BY <1>5, NoneAssumption
     DEF IInv, EngineInv, TypeOK, WorkerInv, OnePlace, InHand, Held, Accepted,
         NothingOverlooked, SleepsOnlyWhenIdle, Retry, OnCancel, Wake
<1>6. CASE Complete
  BY <1>6, NoneAssumption
     DEF IInv, EngineInv, TypeOK, WorkerInv, OnePlace, InHand, Held, Accepted,
         NothingOverlooked, SleepsOnlyWhenIdle, Complete, Wake
<1>7. CASE PrunePending
  BY <1>7, NoneAssumption
     DEF IInv, EngineInv, TypeOK, WorkerInv, OnePlace, InHand, Held, Accepted,
         NothingOverlooked, SleepsOnlyWhenIdle, PrunePending, At, Goto, Unwanted
<1>8. CASE SweepPruned
  BY <1>8, NoneAssumption
     DEF IInv, EngineInv, TypeOK, WorkerInv, OnePlace, InHand, Held, Accepted,
         NothingOverlooked, SleepsOnlyWhenIdle, SweepPruned, At, SweepOne, Finish,
         Drops, sweepUnchanged
<1>9. CASE PendingStarted
  BY <1>9, NoneAssumption
     DEF IInv, EngineInv, TypeOK, WorkerInv, OnePlace, InHand, Held, Accepted,
         NothingOverlooked, SleepsOnlyWhenIdle, PendingStarted, At, Goto
<1>10. CASE Performed
  BY <1>10, NoneAssumption
     DEF IInv, EngineInv, TypeOK, WorkerInv, OnePlace, InHand, Held, Accepted,
         NothingOverlooked, SleepsOnlyWhenIdle, Performed, At, Goto, Unwanted
<1>11. CASE SweepExpired
  BY <1>11, NoneAssumption
     DEF IInv, EngineInv, TypeOK, WorkerInv, OnePlace, InHand, Held, Accepted,
         NothingOverlooked, SleepsOnlyWhenIdle, SweepExpired, At, SweepOne, Finish,
         Drops, sweepUnchanged
<1>12. CASE CheckStop
  BY <1>12, NoneAssumption
     DEF IInv, EngineInv, TypeOK, WorkerInv, OnePlace, InHand, Held, Accepted,
         NothingOverlooked, SleepsOnlyWhenIdle, CheckStop, At, Goto
<1>13. CASE StopActive
  BY <1>13, NoneAssumption
     DEF IInv, EngineInv, TypeOK, WorkerInv, OnePlace, InHand, Held, Accepted,
         NothingOverlooked, SleepsOnlyWhenIdle, StopActive, At, Finish, sweepUnchanged
<1>14. CASE Exit
  BY <1>14, NoneAssumption
     DEF IInv, EngineInv, TypeOK, WorkerInv, OnePlace, InHand, Held, Accepted,
         NothingOverlooked, SleepsOnlyWhenIdle, Exit, At, Goto
<1>15. CASE Wait
  BY <1>15, NoneAssumption
     DEF IInv, EngineInv, TypeOK, WorkerInv, OnePlace, InHand, Held, Accepted,
         NothingOverlooked, SleepsOnlyWhenIdle, Wait, At, Goto
<1>16. CASE Decide
  BY <1>16, NoneAssumption
     DEF IInv, EngineInv, TypeOK, WorkerInv, OnePlace, InHand, Held, Accepted,
         NothingOverlooked, SleepsOnlyWhenIdle, Decide, At, Goto, Unwanted
<1>17. CASE Block
  BY <1>17, NoneAssumption
     DEF IInv, EngineInv, TypeOK, WorkerInv, OnePlace, InHand, Held, Accepted,
         NothingOverlooked, SleepsOnlyWhenIdle, Block, At, Goto
<1>18. CASE NapEnds
  BY <1>18, NoneAssumption
     DEF IInv, EngineInv, TypeOK, WorkerInv, OnePlace, InHand, Held, Accepted,
         NothingOverlooked, SleepsOnlyWhenIdle, NapEnds, At, Goto
<1>19. CASE PollReturns
  BY <1>19, NoneAssumption
     DEF IInv, EngineInv, TypeOK, WorkerInv, OnePlace, InHand, Held, Accepted,
         NothingOverlooked, SleepsOnlyWhenIdle, PollReturns, At, Goto
<1>20. CASE Create
  BY <1>20, NoneAssumption
     DEF IInv, EngineInv, TypeOK, WorkerInv, OnePlace, InHand, Held, Accepted,
         NothingOverlooked, SleepsOnlyWhenIdle, Create
<1>21. CASE CreateCheck
  BY <1>21, NoneAssumption
     DEF IInv, EngineInv, TypeOK, WorkerInv, OnePlace, InHand, Held, Accepted,
         NothingOverlooked, SleepsOnlyWhenIdle, CreateCheck
<1>22. CASE CreateReturn
  BY <1>22, NoneAssumption
     DEF IInv, EngineInv, TypeOK, WorkerInv, OnePlace, InHand, Held, Accepted,
         NothingOverlooked, SleepsOnlyWhenIdle, CreateReturn
<1>23. ASSUME NEW k \in Closers, Shutdown(k) PROVE WorkerInv'
  BY <1>23, NoneAssumption
     DEF IInv, EngineInv, TypeOK, WorkerInv, OnePlace, InHand, Held, Accepted,
         NothingOverlooked, SleepsOnlyWhenIdle, Shutdown, CloserAt, MutexFree
<1>24. ASSUME NEW k \in Closers, ShutdownWake(k) PROVE WorkerInv'
  BY <1>24, NoneAssumption
     DEF IInv, EngineInv, TypeOK, WorkerInv, OnePlace, InHand, Held, Accepted,
         NothingOverlooked, SleepsOnlyWhenIdle, ShutdownWake, Wake, CloserAt
<1>25. ASSUME NEW k \in Closers, Join(k) PROVE WorkerInv'
  BY <1>25, NoneAssumption
     DEF IInv, EngineInv, TypeOK, WorkerInv, OnePlace, InHand, Held, Accepted,
         NothingOverlooked, SleepsOnlyWhenIdle, Join, CloserAt
<1>26. ASSUME NEW t \in Transfers, DropDelayed(t) PROVE WorkerInv'
  BY <1>26, NoneAssumption
     DEF IInv, EngineInv, TypeOK, WorkerInv, OnePlace, InHand, Held, Accepted,
         NothingOverlooked, SleepsOnlyWhenIdle, DropDelayed, At, Visits, Finish, Drops
<1>27. ASSUME NEW t \in Transfers, KeepDelayed(t) PROVE WorkerInv'
  BY <1>27, NoneAssumption
     DEF IInv, EngineInv, TypeOK, WorkerInv, OnePlace, InHand, Held, Accepted,
         NothingOverlooked, SleepsOnlyWhenIdle, KeepDelayed, At, Visits
<1>28. ASSUME NEW t \in Transfers, StartDelayed(t) PROVE WorkerInv'
  BY <1>28, NoneAssumption
     DEF IInv, EngineInv, TypeOK, WorkerInv, OnePlace, InHand, Held, Accepted,
         NothingOverlooked, SleepsOnlyWhenIdle, StartDelayed, At, Visits, StartTransfer,
         Finish, Drops
<1>29. ASSUME NEW t \in Transfers, StartPending(t) PROVE WorkerInv'
  BY <1>29, NoneAssumption
     DEF IInv, EngineInv, TypeOK, WorkerInv, OnePlace, InHand, Held, Accepted,
         NothingOverlooked, SleepsOnlyWhenIdle, StartPending, At, StartTransfer, Finish,
         Drops
<1>30. ASSUME NEW t \in Transfers, Message(t) PROVE WorkerInv'
  BY <1>30, NoneAssumption
     DEF IInv, EngineInv, TypeOK, WorkerInv, OnePlace, InHand, Held, Accepted,
         NothingOverlooked, SleepsOnlyWhenIdle, Message, At, Finish, Drops,
         sweepUnchanged
<1>31. ASSUME NEW t \in Transfers, StopDelayed(t) PROVE WorkerInv'
  BY <1>31, NoneAssumption
     DEF IInv, EngineInv, TypeOK, WorkerInv, OnePlace, InHand, Held, Accepted,
         NothingOverlooked, SleepsOnlyWhenIdle, StopDelayed, At, Finish
<1>32. ASSUME NEW t \in Transfers, Register(t) PROVE WorkerInv'
  BY <1>32, NoneAssumption
     DEF IInv, EngineInv, TypeOK, WorkerInv, OnePlace, InHand, Held, Accepted,
         NothingOverlooked, SleepsOnlyWhenIdle, Register, OnCancel, Wake, SubAt
<1>33. ASSUME NEW t \in Transfers, Queue(t) PROVE WorkerInv'
  BY <1>33, NoneAssumption
     DEF IInv, EngineInv, TypeOK, WorkerInv, OnePlace, InHand, Held, Accepted,
         NothingOverlooked, SleepsOnlyWhenIdle, Queue, SubAt, MutexFree
<1>34. ASSUME NEW t \in Transfers, SubmitWake(t) PROVE WorkerInv'
  BY <1>34, NoneAssumption
     DEF IInv, EngineInv, TypeOK, WorkerInv, OnePlace, InHand, Held, Accepted,
         NothingOverlooked, SleepsOnlyWhenIdle, SubmitWake, Wake, SubAt
<1>35. ASSUME NEW t \in Transfers, Refuse(t) PROVE WorkerInv'
  BY <1>35, NoneAssumption
     DEF IInv, EngineInv, TypeOK, WorkerInv, OnePlace, InHand, Held, Accepted,
         NothingOverlooked, SleepsOnlyWhenIdle, Refuse, SubAt
<1>36. ASSUME NEW t \in Transfers, Arrive(t) PROVE WorkerInv'
  BY <1>36, NoneAssumption
     DEF IInv, EngineInv, TypeOK, WorkerInv, OnePlace, InHand, Held, Accepted,
         NothingOverlooked, SleepsOnlyWhenIdle, Arrive
<1>37. ASSUME NEW t \in Transfers, CancelCallback(t) PROVE WorkerInv'
  BY <1>37, NoneAssumption
     DEF IInv, EngineInv, TypeOK, WorkerInv, OnePlace, InHand, Held, Accepted,
         NothingOverlooked, SleepsOnlyWhenIdle, CancelCallback, OnCancel, Wake
<1>38. QED
  BY <1>1, <1>2, <1>3, <1>4, <1>5, <1>6, <1>7, <1>8, <1>9, <1>10, <1>11, <1>12, <1>13,
     <1>14, <1>15, <1>16, <1>17, <1>18, <1>19, <1>20, <1>21, <1>22, <1>23, <1>24, <1>25,
     <1>26, <1>27, <1>28, <1>29, <1>30, <1>31, <1>32, <1>33, <1>34, <1>35, <1>36, <1>37
     DEF Next, WorkerStep, CloserStep, SubmitterStep, NetworkStep

\* Every step keeps the order of a shutdown.
LEMMA ClosingStep ==
  ASSUME IInv, [Next]_vars PROVE  ClosingInv'
<1> USE DEF engineVars, placeVars, stopVars, pruneVars, wakeVars, curVars, subVars, hookVars,
           worldVars, answerVars
<1>0. ASSUME UNCHANGED <<joining, joined, stopping, stage, closer>> PROVE ClosingInv'
  BY <1>0
     DEF IInv, EngineInv, TypeOK, ClosingInv
<1>1. CASE SweepPruned \/ SweepExpired \/ StopActive \/ CreateReturn
  <2>1. UNCHANGED <<joining, joined, stopping, stage, closer>>
    BY <1>1
       DEF SweepPruned, SweepExpired, StopActive, CreateReturn, At, SweepOne, Finish,
           sweepUnchanged
  <2>2. QED
    BY <1>0, <2>1
<1>2. ASSUME NEW t \in Transfers,
            DropDelayed(t) \/ KeepDelayed(t) \/ StartDelayed(t) \/ StartPending(t) \/
            Message(t) \/ StopDelayed(t) \/ Queue(t) \/ Refuse(t) \/ RetryDue(t) \/
            Arrive(t) \/ Cancel(t) \/ Expire(t)
     PROVE  ClosingInv'
  <2>1. UNCHANGED <<joining, joined, stopping, stage, closer>>
    BY <1>2
       DEF DropDelayed, KeepDelayed, StartDelayed, StartPending, Message, StopDelayed,
           Queue, Refuse, RetryDue, Arrive, Cancel, Expire, At, Visits, Finish,
           StartTransfer, sweepUnchanged, SubAt, MutexFree
  <2>2. QED
    BY <1>0, <2>1
<1>3. CASE UNCHANGED vars
  BY <1>3
     DEF IInv, EngineInv, TypeOK, ClosingInv, vars
<1>4. CASE Retry
  BY <1>4
     DEF IInv, EngineInv, TypeOK, WorkerInv, ClosingInv, Retry, OnCancel, Wake
<1>5. CASE Complete
  BY <1>5
     DEF IInv, EngineInv, TypeOK, WorkerInv, ClosingInv, Complete, Wake
<1>6. CASE PrunePending
  BY <1>6
     DEF IInv, EngineInv, TypeOK, WorkerInv, ClosingInv, PrunePending, At, Goto,
         Unwanted
<1>7. CASE PendingStarted
  BY <1>7
     DEF IInv, EngineInv, TypeOK, WorkerInv, ClosingInv, PendingStarted, At, Goto
<1>8. CASE Performed
  BY <1>8
     DEF IInv, EngineInv, TypeOK, WorkerInv, ClosingInv, Performed, At, Goto, Unwanted
<1>9. CASE CheckStop
  BY <1>9
     DEF IInv, EngineInv, TypeOK, WorkerInv, ClosingInv, CheckStop, At, Goto
<1>10. CASE Exit
  BY <1>10
     DEF IInv, EngineInv, TypeOK, WorkerInv, ClosingInv, Exit, At, Goto
<1>11. CASE Wait
  BY <1>11
     DEF IInv, EngineInv, TypeOK, WorkerInv, ClosingInv, Wait, At, Goto
<1>12. CASE Decide
  BY <1>12
     DEF IInv, EngineInv, TypeOK, WorkerInv, ClosingInv, Decide, At, Goto, Unwanted
<1>13. CASE Block
  BY <1>13
     DEF IInv, EngineInv, TypeOK, WorkerInv, ClosingInv, Block, At, Goto
<1>14. CASE NapEnds
  BY <1>14
     DEF IInv, EngineInv, TypeOK, WorkerInv, ClosingInv, NapEnds, At, Goto
<1>15. CASE PollReturns
  BY <1>15
     DEF IInv, EngineInv, TypeOK, WorkerInv, ClosingInv, PollReturns, At, Goto
<1>16. CASE Create
  BY <1>16
     DEF IInv, EngineInv, TypeOK, WorkerInv, ClosingInv, Create
<1>17. CASE RequestShutdown
  BY <1>17
     DEF IInv, EngineInv, TypeOK, WorkerInv, ClosingInv, RequestShutdown, CloserAt
<1>18. CASE CreateCheck
  BY <1>18
     DEF IInv, EngineInv, TypeOK, WorkerInv, ClosingInv, CreateCheck
<1>19. CASE FindEngine
  BY <1>19
     DEF IInv, EngineInv, TypeOK, WorkerInv, ClosingInv, FindEngine, CloserAt
<1>20. ASSUME NEW k \in Closers, Shutdown(k) PROVE ClosingInv'
  BY <1>20
     DEF IInv, EngineInv, TypeOK, WorkerInv, ClosingInv, Shutdown, CloserAt, MutexFree
<1>21. ASSUME NEW k \in Closers, ShutdownWake(k) PROVE ClosingInv'
  BY <1>21
     DEF IInv, EngineInv, TypeOK, WorkerInv, ClosingInv, ShutdownWake, Wake, CloserAt
<1>22. ASSUME NEW k \in Closers, Join(k) PROVE ClosingInv'
  BY <1>22
     DEF IInv, EngineInv, TypeOK, WorkerInv, ClosingInv, Join, CloserAt
<1>23. ASSUME NEW k \in Closers, AwaitJoined(k) PROVE ClosingInv'
  BY <1>23
     DEF IInv, EngineInv, TypeOK, WorkerInv, ClosingInv, AwaitJoined, CloserAt
<1>24. ASSUME NEW t \in Transfers, Register(t) PROVE ClosingInv'
  BY <1>24
     DEF IInv, EngineInv, TypeOK, WorkerInv, ClosingInv, Register, OnCancel, Wake, SubAt
<1>25. ASSUME NEW t \in Transfers, SubmitWake(t) PROVE ClosingInv'
  BY <1>25
     DEF IInv, EngineInv, TypeOK, WorkerInv, ClosingInv, SubmitWake, Wake, SubAt
<1>26. ASSUME NEW t \in Transfers, CancelCallback(t) PROVE ClosingInv'
  BY <1>26
     DEF IInv, EngineInv, TypeOK, WorkerInv, ClosingInv, CancelCallback, OnCancel, Wake
<1>27. QED
  BY <1>1, <1>2, <1>3, <1>4, <1>5, <1>6, <1>7, <1>8, <1>9, <1>10, <1>11, <1>12, <1>13,
     <1>14, <1>15, <1>16, <1>17, <1>18, <1>19, <1>20, <1>21, <1>22, <1>23, <1>24, <1>25,
     <1>26
     DEF Next, WorkerStep, CloserStep, SubmitterStep, NetworkStep

\* Every step keeps the reasons of the answers to come.
LEMMA AnswerStep ==
  ASSUME IInv, [Next]_vars PROVE  AnswerInv'
<1> USE DEF engineVars, placeVars, stopVars, pruneVars, wakeVars, curVars, subVars, hookVars,
           worldVars, answerVars
<1>1. CASE PrunePending \/ PendingStarted \/ Performed \/ CheckStop \/ Exit \/ Wait \/
          Decide \/ Block \/ NapEnds \/ PollReturns \/ Create \/ CreateCheck \/
          CreateReturn \/ FindEngine
  BY <1>1
     DEF IInv, EngineInv, AnswerInv, PrunePending, PendingStarted, Performed, CheckStop,
         Exit, Wait, Decide, Block, NapEnds, PollReturns, Create, CreateCheck,
         CreateReturn, FindEngine, At, Goto, CloserAt
<1>2. ASSUME NEW k \in Closers,
            ShutdownWake(k) \/ Join(k) \/ AwaitJoined(k)
     PROVE  AnswerInv'
  BY <1>2
     DEF IInv, EngineInv, AnswerInv, ShutdownWake, Join, AwaitJoined, Wake, CloserAt
<1>3. ASSUME NEW t \in Transfers,
            KeepDelayed(t) \/ RetryDue(t) \/ Arrive(t) \/ CancelCallback(t)
     PROVE  AnswerInv'
  BY <1>3
     DEF IInv, EngineInv, AnswerInv, KeepDelayed, RetryDue, Arrive, CancelCallback, At,
         Visits, OnCancel, Wake
<1>4. CASE UNCHANGED vars
  BY <1>4
     DEF IInv, EngineInv, AnswerInv, vars
<1>5. CASE Retry
  BY <1>5, NoneAssumption
     DEF IInv, EngineInv, TypeOK, WorkerInv, OnePlace, Accepted, Held, ClosingInv,
         AnswerInv, Drops, Retryable, Retry, OnCancel, Wake
<1>6. CASE Complete
  BY <1>6, NoneAssumption
     DEF IInv, EngineInv, TypeOK, WorkerInv, OnePlace, Accepted, Held, ClosingInv,
         AnswerInv, Drops, Retryable, Complete, Wake
<1>7. CASE SweepPruned
  BY <1>7, NoneAssumption
     DEF IInv, EngineInv, TypeOK, WorkerInv, OnePlace, Accepted, Held, ClosingInv,
         AnswerInv, Drops, Retryable, SweepPruned, At, SweepOne, Finish, sweepUnchanged
<1>8. CASE SweepExpired
  BY <1>8, NoneAssumption
     DEF IInv, EngineInv, TypeOK, WorkerInv, OnePlace, Accepted, Held, ClosingInv,
         AnswerInv, Drops, Retryable, SweepExpired, At, SweepOne, Finish, sweepUnchanged
<1>9. CASE StopActive
  BY <1>9, NoneAssumption
     DEF IInv, EngineInv, TypeOK, WorkerInv, OnePlace, Accepted, Held, ClosingInv,
         AnswerInv, Drops, Retryable, StopActive, At, Finish, sweepUnchanged
<1>10. CASE RequestShutdown
  BY <1>10, NoneAssumption
     DEF IInv, EngineInv, TypeOK, WorkerInv, OnePlace, Accepted, Held, ClosingInv,
         AnswerInv, Drops, Retryable, RequestShutdown, CloserAt
<1>11. ASSUME NEW k \in Closers, Shutdown(k) PROVE AnswerInv'
  BY <1>11, NoneAssumption
     DEF IInv, EngineInv, TypeOK, WorkerInv, OnePlace, Accepted, Held, ClosingInv,
         AnswerInv, Drops, Retryable, Shutdown, CloserAt, MutexFree
<1>12. ASSUME NEW t \in Transfers, DropDelayed(t) PROVE AnswerInv'
  BY <1>12, NoneAssumption
     DEF IInv, EngineInv, TypeOK, WorkerInv, OnePlace, Accepted, Held, ClosingInv,
         AnswerInv, Drops, Retryable, DropDelayed, At, Visits, Finish
<1>13. ASSUME NEW t \in Transfers, StartDelayed(t) PROVE AnswerInv'
  BY <1>13, NoneAssumption
     DEF IInv, EngineInv, TypeOK, WorkerInv, OnePlace, Accepted, Held, ClosingInv,
         AnswerInv, Drops, Retryable, StartDelayed, At, Visits, StartTransfer, Finish
<1>14. ASSUME NEW t \in Transfers, StartPending(t) PROVE AnswerInv'
  BY <1>14, NoneAssumption
     DEF IInv, EngineInv, TypeOK, WorkerInv, OnePlace, Accepted, Held, ClosingInv,
         AnswerInv, Drops, Retryable, StartPending, At, StartTransfer, Finish
<1>15. ASSUME NEW t \in Transfers, Message(t) PROVE AnswerInv'
  BY <1>15, NoneAssumption
     DEF IInv, EngineInv, TypeOK, WorkerInv, OnePlace, Accepted, Held, ClosingInv,
         AnswerInv, Drops, Retryable, Message, At, Finish, sweepUnchanged
<1>16. ASSUME NEW t \in Transfers, StopDelayed(t) PROVE AnswerInv'
  BY <1>16, NoneAssumption
     DEF IInv, EngineInv, TypeOK, WorkerInv, OnePlace, Accepted, Held, ClosingInv,
         AnswerInv, Drops, Retryable, StopDelayed, At, Finish
<1>17. ASSUME NEW t \in Transfers, Register(t) PROVE AnswerInv'
  BY <1>17, NoneAssumption
     DEF IInv, EngineInv, TypeOK, WorkerInv, OnePlace, Accepted, Held, ClosingInv,
         AnswerInv, Drops, Retryable, Register, OnCancel, Wake, SubAt
<1>18. ASSUME NEW t \in Transfers, Queue(t) PROVE AnswerInv'
  BY <1>18, NoneAssumption
     DEF IInv, EngineInv, TypeOK, WorkerInv, OnePlace, Accepted, Held, ClosingInv,
         AnswerInv, Drops, Retryable, Queue, SubAt, MutexFree
<1>19. ASSUME NEW t \in Transfers, SubmitWake(t) PROVE AnswerInv'
  BY <1>19, NoneAssumption
     DEF IInv, EngineInv, TypeOK, WorkerInv, OnePlace, Accepted, Held, ClosingInv,
         AnswerInv, Drops, Retryable, SubmitWake, Wake, SubAt
<1>20. ASSUME NEW t \in Transfers, Refuse(t) PROVE AnswerInv'
  BY <1>20, NoneAssumption
     DEF IInv, EngineInv, TypeOK, WorkerInv, OnePlace, Accepted, Held, ClosingInv,
         AnswerInv, Drops, Retryable, Refuse, SubAt
<1>21. ASSUME NEW t \in Transfers, Cancel(t) PROVE AnswerInv'
  BY <1>21, NoneAssumption
     DEF IInv, EngineInv, TypeOK, WorkerInv, OnePlace, Accepted, Held, ClosingInv,
         AnswerInv, Drops, Retryable, Cancel
<1>22. ASSUME NEW t \in Transfers, Expire(t) PROVE AnswerInv'
  BY <1>22, NoneAssumption
     DEF IInv, EngineInv, TypeOK, WorkerInv, OnePlace, Accepted, Held, ClosingInv,
         AnswerInv, Drops, Retryable, Expire
<1>23. QED
  BY <1>1, <1>2, <1>3, <1>4, <1>5, <1>6, <1>7, <1>8, <1>9, <1>10, <1>11, <1>12, <1>13,
     <1>14, <1>15, <1>16, <1>17, <1>18, <1>19, <1>20, <1>21, <1>22
     DEF Next, WorkerStep, CloserStep, SubmitterStep, NetworkStep

\* Every step keeps the callbacks of live requests.
LEMMA HookStep ==
  ASSUME IInv, [Next]_vars PROVE  HookInv'
<1> USE DEF engineVars, placeVars, stopVars, pruneVars, wakeVars, curVars, subVars, hookVars,
           worldVars, answerVars
<1>1. CASE Complete \/ PendingStarted \/ Performed \/ Exit \/ Wait \/ Decide \/ Block \/
          NapEnds \/ PollReturns \/ Create \/ RequestShutdown \/ CreateCheck \/
          CreateReturn \/ FindEngine
  BY <1>1
     DEF IInv, EngineInv, HookInv, Complete, PendingStarted, Performed, Exit, Wait,
         Decide, Block, NapEnds, PollReturns, Create, RequestShutdown, CreateCheck,
         CreateReturn, FindEngine, Wake, At, Goto, CloserAt
<1>2. ASSUME NEW k \in Closers,
            Shutdown(k) \/ ShutdownWake(k) \/ Join(k) \/ AwaitJoined(k)
     PROVE  HookInv'
  BY <1>2
     DEF IInv, EngineInv, HookInv, Shutdown, ShutdownWake, Join, AwaitJoined, CloserAt,
         MutexFree, Wake
<1>3. ASSUME NEW t \in Transfers,
            KeepDelayed(t) \/ RetryDue(t) \/ Arrive(t) \/ CancelCallback(t) \/ Expire(t)
     PROVE  HookInv'
  BY <1>3
     DEF IInv, EngineInv, HookInv, KeepDelayed, RetryDue, Arrive, CancelCallback,
         Expire, At, Visits, OnCancel, Wake
<1>4. CASE UNCHANGED vars
  BY <1>4
     DEF IInv, EngineInv, HookInv, vars
<1>5. CASE Retry
  BY <1>5, TransfersAssumption
     DEF IInv, EngineInv, TypeOK, WorkerInv, OnePlace, Accepted, InHand, Held, HookInv,
         Retry, OnCancel, Wake
<1>6. CASE PrunePending
  BY <1>6, TransfersAssumption
     DEF IInv, EngineInv, TypeOK, WorkerInv, OnePlace, Accepted, InHand, Held, HookInv,
         PrunePending, At, Goto, Unwanted
<1>7. CASE SweepPruned
  BY <1>7, TransfersAssumption
     DEF IInv, EngineInv, TypeOK, WorkerInv, OnePlace, Accepted, InHand, Held, HookInv,
         SweepPruned, At, SweepOne, Finish, Drops, sweepUnchanged
<1>8. CASE SweepExpired
  BY <1>8, TransfersAssumption
     DEF IInv, EngineInv, TypeOK, WorkerInv, OnePlace, Accepted, InHand, Held, HookInv,
         SweepExpired, At, SweepOne, Finish, Drops, sweepUnchanged
<1>9. CASE CheckStop
  BY <1>9, TransfersAssumption
     DEF IInv, EngineInv, TypeOK, WorkerInv, OnePlace, Accepted, InHand, Held, HookInv,
         CheckStop, At, Goto
<1>10. CASE StopActive
  BY <1>10, TransfersAssumption
     DEF IInv, EngineInv, TypeOK, WorkerInv, OnePlace, Accepted, InHand, Held, HookInv,
         StopActive, At, Finish, sweepUnchanged
<1>11. ASSUME NEW t \in Transfers, DropDelayed(t) PROVE HookInv'
  BY <1>11, TransfersAssumption
     DEF IInv, EngineInv, TypeOK, WorkerInv, OnePlace, Accepted, InHand, Held, HookInv,
         DropDelayed, At, Visits, Finish, Drops
<1>12. ASSUME NEW t \in Transfers, StartDelayed(t) PROVE HookInv'
  BY <1>12, TransfersAssumption
     DEF IInv, EngineInv, TypeOK, WorkerInv, OnePlace, Accepted, InHand, Held, HookInv,
         StartDelayed, At, Visits, StartTransfer, Finish, Drops
<1>13. ASSUME NEW t \in Transfers, StartPending(t) PROVE HookInv'
  BY <1>13, TransfersAssumption
     DEF IInv, EngineInv, TypeOK, WorkerInv, OnePlace, Accepted, InHand, Held, HookInv,
         StartPending, At, StartTransfer, Finish, Drops
<1>14. ASSUME NEW t \in Transfers, Message(t) PROVE HookInv'
  BY <1>14, TransfersAssumption
     DEF IInv, EngineInv, TypeOK, WorkerInv, OnePlace, Accepted, InHand, Held, HookInv,
         Message, At, Finish, Drops, sweepUnchanged
<1>15. ASSUME NEW t \in Transfers, StopDelayed(t) PROVE HookInv'
  BY <1>15, TransfersAssumption
     DEF IInv, EngineInv, TypeOK, WorkerInv, OnePlace, Accepted, InHand, Held, HookInv,
         StopDelayed, At, Finish
<1>16. ASSUME NEW t \in Transfers, Register(t) PROVE HookInv'
  BY <1>16, TransfersAssumption
     DEF IInv, EngineInv, TypeOK, WorkerInv, OnePlace, Accepted, InHand, Held, HookInv,
         Register, OnCancel, Wake, SubAt
<1>17. ASSUME NEW t \in Transfers, Queue(t) PROVE HookInv'
  BY <1>17, TransfersAssumption
     DEF IInv, EngineInv, TypeOK, HookInv, Queue, SubAt, MutexFree
<1>18. ASSUME NEW t \in Transfers, SubmitWake(t) PROVE HookInv'
  BY <1>18, TransfersAssumption
     DEF IInv, EngineInv, TypeOK, WorkerInv, OnePlace, Accepted, InHand, Held, HookInv,
         SubmitWake, Wake, SubAt
<1>19. ASSUME NEW t \in Transfers, Refuse(t) PROVE HookInv'
  BY <1>19, TransfersAssumption
     DEF IInv, EngineInv, TypeOK, WorkerInv, OnePlace, Accepted, InHand, Held, HookInv,
         Refuse, SubAt
<1>20. ASSUME NEW t \in Transfers, Cancel(t) PROVE HookInv'
  BY <1>20, TransfersAssumption
     DEF IInv, EngineInv, TypeOK, WorkerInv, OnePlace, Accepted, InHand, Held, HookInv,
         Cancel
<1>21. QED
  BY <1>1, <1>2, <1>3, <1>4, <1>5, <1>6, <1>7, <1>8, <1>9, <1>10, <1>11, <1>12, <1>13,
     <1>14, <1>15, <1>16, <1>17, <1>18, <1>19, <1>20
     DEF Next, WorkerStep, CloserStep, SubmitterStep, NetworkStep

\* No step lets the worker sleep over something to do: the mutex is held from the test
\* of the wait to the sleep, and whoever changes what was tested wakes it after.
LEMMA SleepStep ==
  ASSUME IInv, [Next]_vars PROVE  SleepsOnlyWhenIdle'
<1> USE DEF engineVars, placeVars, stopVars, pruneVars, wakeVars, curVars, subVars, hookVars,
           worldVars, answerVars
<1>1. CASE CreateReturn
  BY <1>1
     DEF IInv, NothingOverlooked, SleepsOnlyWhenIdle, InHand, Held, CreateReturn
<1>2. ASSUME NEW t \in Transfers,
            RetryDue(t) \/ Arrive(t) \/ Cancel(t) \/ Expire(t)
     PROVE  SleepsOnlyWhenIdle'
  BY <1>2
     DEF IInv, NothingOverlooked, SleepsOnlyWhenIdle, InHand, Held, RetryDue, Arrive,
         Cancel, Expire
<1>3. CASE UNCHANGED vars
  BY <1>3
     DEF IInv, NothingOverlooked, SleepsOnlyWhenIdle, InHand, Held, vars
<1>4. CASE Retry
  BY <1>4, NoneAssumption
     DEF IInv, EngineInv, TypeOK, WorkerInv, ClosingInv, InHand, Held,
         NothingOverlooked, SleepsOnlyWhenIdle, Retry, OnCancel, Wake
<1>5. CASE Complete
  BY <1>5, NoneAssumption
     DEF IInv, EngineInv, TypeOK, WorkerInv, ClosingInv, InHand, Held,
         NothingOverlooked, SleepsOnlyWhenIdle, Complete, Wake
<1>6. CASE PrunePending
  BY <1>6, NoneAssumption
     DEF IInv, EngineInv, TypeOK, WorkerInv, ClosingInv, InHand, Held,
         NothingOverlooked, SleepsOnlyWhenIdle, PrunePending, At, Goto, Unwanted
<1>7. CASE SweepPruned
  BY <1>7, NoneAssumption
     DEF IInv, EngineInv, TypeOK, WorkerInv, ClosingInv, InHand, Held,
         NothingOverlooked, SleepsOnlyWhenIdle, SweepPruned, At, SweepOne, Finish,
         Drops, sweepUnchanged
<1>8. CASE PendingStarted
  BY <1>8, NoneAssumption
     DEF IInv, EngineInv, TypeOK, WorkerInv, ClosingInv, InHand, Held,
         NothingOverlooked, SleepsOnlyWhenIdle, PendingStarted, At, Goto
<1>9. CASE Performed
  BY <1>9, NoneAssumption
     DEF IInv, EngineInv, TypeOK, WorkerInv, ClosingInv, InHand, Held,
         NothingOverlooked, SleepsOnlyWhenIdle, Performed, At, Goto, Unwanted
<1>10. CASE SweepExpired
  BY <1>10, NoneAssumption
     DEF IInv, EngineInv, TypeOK, WorkerInv, ClosingInv, InHand, Held,
         NothingOverlooked, SleepsOnlyWhenIdle, SweepExpired, At, SweepOne, Finish,
         Drops, sweepUnchanged
<1>11. CASE CheckStop
  BY <1>11, NoneAssumption
     DEF IInv, EngineInv, TypeOK, WorkerInv, ClosingInv, InHand, Held,
         NothingOverlooked, SleepsOnlyWhenIdle, CheckStop, At, Goto
<1>12. CASE StopActive
  BY <1>12, NoneAssumption
     DEF IInv, EngineInv, TypeOK, WorkerInv, ClosingInv, InHand, Held,
         NothingOverlooked, SleepsOnlyWhenIdle, StopActive, At, Finish, sweepUnchanged
<1>13. CASE Exit
  BY <1>13, NoneAssumption
     DEF IInv, EngineInv, TypeOK, WorkerInv, ClosingInv, InHand, Held,
         NothingOverlooked, SleepsOnlyWhenIdle, Exit, At, Goto
<1>14. CASE Wait
  BY <1>14, NoneAssumption
     DEF IInv, EngineInv, TypeOK, WorkerInv, ClosingInv, InHand, Held,
         NothingOverlooked, SleepsOnlyWhenIdle, Wait, At, Goto
<1>15. CASE Decide
  BY <1>15, NoneAssumption
     DEF IInv, EngineInv, TypeOK, WorkerInv, ClosingInv, InHand, Held,
         NothingOverlooked, SleepsOnlyWhenIdle, Decide, At, Goto, Unwanted
<1>16. CASE Block
  BY <1>16, NoneAssumption
     DEF IInv, EngineInv, TypeOK, WorkerInv, ClosingInv, InHand, Held,
         NothingOverlooked, SleepsOnlyWhenIdle, Block, At, Goto
<1>17. CASE NapEnds
  BY <1>17, NoneAssumption
     DEF IInv, EngineInv, TypeOK, WorkerInv, ClosingInv, InHand, Held,
         NothingOverlooked, SleepsOnlyWhenIdle, NapEnds, At, Goto
<1>18. CASE PollReturns
  BY <1>18, NoneAssumption
     DEF IInv, EngineInv, TypeOK, WorkerInv, ClosingInv, InHand, Held,
         NothingOverlooked, SleepsOnlyWhenIdle, PollReturns, At, Goto
<1>19. CASE Create
  BY <1>19, NoneAssumption
     DEF IInv, EngineInv, TypeOK, WorkerInv, ClosingInv, InHand, Held,
         NothingOverlooked, SleepsOnlyWhenIdle, Create
<1>20. CASE RequestShutdown
  BY <1>20, NoneAssumption
     DEF IInv, EngineInv, TypeOK, WorkerInv, ClosingInv, InHand, Held,
         NothingOverlooked, SleepsOnlyWhenIdle, RequestShutdown, CloserAt
<1>21. CASE CreateCheck
  BY <1>21, NoneAssumption
     DEF IInv, EngineInv, TypeOK, WorkerInv, ClosingInv, InHand, Held,
         NothingOverlooked, SleepsOnlyWhenIdle, CreateCheck
<1>22. CASE FindEngine
  BY <1>22, NoneAssumption
     DEF IInv, EngineInv, TypeOK, WorkerInv, ClosingInv, InHand, Held,
         NothingOverlooked, SleepsOnlyWhenIdle, FindEngine, CloserAt
<1>23. ASSUME NEW k \in Closers, Shutdown(k) PROVE SleepsOnlyWhenIdle'
  BY <1>23, NoneAssumption
     DEF IInv, EngineInv, TypeOK, WorkerInv, ClosingInv, InHand, Held,
         NothingOverlooked, SleepsOnlyWhenIdle, Shutdown, CloserAt, MutexFree
<1>24. ASSUME NEW k \in Closers, ShutdownWake(k) PROVE SleepsOnlyWhenIdle'
  BY <1>24, NoneAssumption
     DEF IInv, EngineInv, TypeOK, WorkerInv, ClosingInv, InHand, Held,
         NothingOverlooked, SleepsOnlyWhenIdle, ShutdownWake, Wake, CloserAt
<1>25. ASSUME NEW k \in Closers, Join(k) PROVE SleepsOnlyWhenIdle'
  BY <1>25, NoneAssumption
     DEF IInv, EngineInv, TypeOK, WorkerInv, ClosingInv, InHand, Held,
         NothingOverlooked, SleepsOnlyWhenIdle, Join, CloserAt
<1>26. ASSUME NEW k \in Closers, AwaitJoined(k) PROVE SleepsOnlyWhenIdle'
  BY <1>26, NoneAssumption
     DEF IInv, EngineInv, TypeOK, WorkerInv, ClosingInv, InHand, Held,
         NothingOverlooked, SleepsOnlyWhenIdle, AwaitJoined, CloserAt
<1>27. ASSUME NEW t \in Transfers, DropDelayed(t) PROVE SleepsOnlyWhenIdle'
  BY <1>27, NoneAssumption
     DEF IInv, EngineInv, TypeOK, WorkerInv, ClosingInv, InHand, Held,
         NothingOverlooked, SleepsOnlyWhenIdle, DropDelayed, At, Visits, Finish, Drops
<1>28. ASSUME NEW t \in Transfers, KeepDelayed(t) PROVE SleepsOnlyWhenIdle'
  BY <1>28, NoneAssumption
     DEF IInv, EngineInv, TypeOK, WorkerInv, ClosingInv, InHand, Held,
         NothingOverlooked, SleepsOnlyWhenIdle, KeepDelayed, At, Visits
<1>29. ASSUME NEW t \in Transfers, StartDelayed(t) PROVE SleepsOnlyWhenIdle'
  BY <1>29, NoneAssumption
     DEF IInv, EngineInv, TypeOK, WorkerInv, ClosingInv, InHand, Held,
         NothingOverlooked, SleepsOnlyWhenIdle, StartDelayed, At, Visits, StartTransfer,
         Finish, Drops
<1>30. ASSUME NEW t \in Transfers, StartPending(t) PROVE SleepsOnlyWhenIdle'
  BY <1>30, NoneAssumption
     DEF IInv, EngineInv, TypeOK, WorkerInv, ClosingInv, InHand, Held,
         NothingOverlooked, SleepsOnlyWhenIdle, StartPending, At, StartTransfer, Finish,
         Drops
<1>31. ASSUME NEW t \in Transfers, Message(t) PROVE SleepsOnlyWhenIdle'
  BY <1>31, NoneAssumption
     DEF IInv, EngineInv, TypeOK, WorkerInv, ClosingInv, InHand, Held,
         NothingOverlooked, SleepsOnlyWhenIdle, Message, At, Finish, Drops,
         sweepUnchanged
<1>32. ASSUME NEW t \in Transfers, StopDelayed(t) PROVE SleepsOnlyWhenIdle'
  BY <1>32, NoneAssumption
     DEF IInv, EngineInv, TypeOK, WorkerInv, ClosingInv, InHand, Held,
         NothingOverlooked, SleepsOnlyWhenIdle, StopDelayed, At, Finish
<1>33. ASSUME NEW t \in Transfers, Register(t) PROVE SleepsOnlyWhenIdle'
  BY <1>33, NoneAssumption
     DEF IInv, EngineInv, TypeOK, WorkerInv, ClosingInv, InHand, Held,
         NothingOverlooked, SleepsOnlyWhenIdle, Register, OnCancel, Wake, SubAt
<1>34. ASSUME NEW t \in Transfers, Queue(t) PROVE SleepsOnlyWhenIdle'
  BY <1>34, NoneAssumption
     DEF IInv, EngineInv, TypeOK, WorkerInv, ClosingInv, InHand, Held,
         NothingOverlooked, SleepsOnlyWhenIdle, Queue, SubAt, MutexFree
<1>35. ASSUME NEW t \in Transfers, SubmitWake(t) PROVE SleepsOnlyWhenIdle'
  BY <1>35, NoneAssumption
     DEF IInv, EngineInv, TypeOK, WorkerInv, ClosingInv, InHand, Held,
         NothingOverlooked, SleepsOnlyWhenIdle, SubmitWake, Wake, SubAt
<1>36. ASSUME NEW t \in Transfers, Refuse(t) PROVE SleepsOnlyWhenIdle'
  BY <1>36, NoneAssumption
     DEF IInv, EngineInv, TypeOK, WorkerInv, ClosingInv, InHand, Held,
         NothingOverlooked, SleepsOnlyWhenIdle, Refuse, SubAt
<1>37. ASSUME NEW t \in Transfers, CancelCallback(t) PROVE SleepsOnlyWhenIdle'
  BY <1>37, NoneAssumption
     DEF IInv, EngineInv, TypeOK, WorkerInv, ClosingInv, InHand, Held,
         NothingOverlooked, SleepsOnlyWhenIdle, CancelCallback, OnCancel, Wake
<1>38. QED
  BY <1>1, <1>2, <1>3, <1>4, <1>5, <1>6, <1>7, <1>8, <1>9, <1>10, <1>11, <1>12, <1>13,
     <1>14, <1>15, <1>16, <1>17, <1>18, <1>19, <1>20, <1>21, <1>22, <1>23, <1>24, <1>25,
     <1>26, <1>27, <1>28, <1>29, <1>30, <1>31, <1>32, <1>33, <1>34, <1>35, <1>36, <1>37
     DEF Next, WorkerStep, CloserStep, SubmitterStep, NetworkStep

\* No step leaves a waiting transfer unwatched.
LEMMA WatchStep ==
  ASSUME IInv, [Next]_vars PROVE  PendingIsWatched'
<1> USE DEF engineVars, placeVars, stopVars, pruneVars, wakeVars, curVars, subVars, hookVars,
           worldVars, answerVars
<1>1. CASE Complete \/ SweepPruned \/ PendingStarted \/ Performed \/ SweepExpired \/
          StopActive \/ Exit \/ Wait \/ Decide \/ Block \/ NapEnds \/ PollReturns \/
          Create \/ RequestShutdown \/ CreateCheck \/ CreateReturn \/ FindEngine
  BY <1>1
     DEF IInv, EngineInv, TypeOK, NothingOverlooked, PendingIsWatched, Complete,
         SweepPruned, PendingStarted, Performed, SweepExpired, StopActive, Exit, Wait,
         Decide, Block, NapEnds, PollReturns, Create, RequestShutdown, CreateCheck,
         CreateReturn, FindEngine, Wake, At, SweepOne, Finish, sweepUnchanged, Goto,
         CloserAt
<1>2. ASSUME NEW k \in Closers,
            Shutdown(k) \/ ShutdownWake(k) \/ Join(k) \/ AwaitJoined(k)
     PROVE  PendingIsWatched'
  BY <1>2
     DEF IInv, EngineInv, TypeOK, NothingOverlooked, PendingIsWatched, Shutdown,
         ShutdownWake, Join, AwaitJoined, CloserAt, MutexFree, Wake
<1>3. ASSUME NEW t \in Transfers,
            DropDelayed(t) \/ KeepDelayed(t) \/ StartDelayed(t) \/ Message(t) \/
            StopDelayed(t) \/ SubmitWake(t) \/ Refuse(t) \/ RetryDue(t) \/ Arrive(t) \/
            Expire(t)
     PROVE  PendingIsWatched'
  BY <1>3
     DEF IInv, EngineInv, TypeOK, NothingOverlooked, PendingIsWatched, DropDelayed,
         KeepDelayed, StartDelayed, Message, StopDelayed, SubmitWake, Refuse, RetryDue,
         Arrive, Expire, At, Visits, Finish, StartTransfer, sweepUnchanged, Wake, SubAt
<1>4. CASE UNCHANGED vars
  BY <1>4
     DEF IInv, EngineInv, TypeOK, NothingOverlooked, PendingIsWatched, vars
<1>5. CASE Retry
  BY <1>5, TransfersAssumption
     DEF IInv, EngineInv, TypeOK, HookInv, NothingOverlooked, PendingIsWatched, Retry,
         OnCancel, Wake
<1>6. CASE PrunePending
  BY <1>6, TransfersAssumption
     DEF IInv, EngineInv, TypeOK, HookInv, NothingOverlooked, PendingIsWatched,
         Unwanted, PrunePending, At, Goto
<1>7. CASE CheckStop
  BY <1>7, TransfersAssumption
     DEF IInv, EngineInv, TypeOK, HookInv, NothingOverlooked, PendingIsWatched,
         CheckStop, At, Goto
<1>8. ASSUME NEW t \in Transfers, StartPending(t) PROVE PendingIsWatched'
  BY <1>8, TransfersAssumption
     DEF IInv, EngineInv, TypeOK, HookInv, NothingOverlooked, PendingIsWatched,
         StartPending, At, StartTransfer, Finish, Drops
<1>9. ASSUME NEW t \in Transfers, Register(t) PROVE PendingIsWatched'
  BY <1>9, TransfersAssumption
     DEF IInv, EngineInv, TypeOK, HookInv, NothingOverlooked, PendingIsWatched,
         Register, OnCancel, Wake, SubAt
<1>10. ASSUME NEW t \in Transfers, Queue(t) PROVE PendingIsWatched'
  BY <1>10, TransfersAssumption
     DEF IInv, EngineInv, TypeOK, HookInv, NothingOverlooked, PendingIsWatched, Queue,
         SubAt, MutexFree
<1>11. ASSUME NEW t \in Transfers, Cancel(t) PROVE PendingIsWatched'
  BY <1>11, TransfersAssumption
     DEF IInv, EngineInv, TypeOK, HookInv, NothingOverlooked, PendingIsWatched, Cancel
<1>12. ASSUME NEW t \in Transfers, CancelCallback(t) PROVE PendingIsWatched'
  BY <1>12, TransfersAssumption
     DEF IInv, EngineInv, TypeOK, HookInv, NothingOverlooked, PendingIsWatched,
         CancelCallback, OnCancel, Wake
<1>13. QED
  BY <1>1, <1>2, <1>3, <1>4, <1>5, <1>6, <1>7, <1>8, <1>9, <1>10, <1>11, <1>12
     DEF Next, WorkerStep, CloserStep, SubmitterStep, NetworkStep
-----------------------------------------------------------------------------
(* The theorems *)

LEMMA InitInv == Init => IInv
<1> SUFFICES ASSUME Init PROVE IInv
  OBVIOUS
<1> USE DEF Init
<1>1. TypeOK
  <2>1. 0 \in 0..MaxRetries
    BY RetriesAssumption
  <2>2. attempts \in [Transfers -> 0..MaxRetries] /\ told \in [Transfers -> Outcomes \cup {None}]
    BY <2>1
  <2>3. /\ engine \in {"absent", "published", "ready"} /\ available \in BOOLEAN /\ flag \in BOOLEAN
        /\ stopping \in BOOLEAN /\ joining \in BOOLEAN /\ joined \in BOOLEAN
        /\ prune \in BOOLEAN /\ woken \in BOOLEAN /\ stage = "unborn"
        /\ cur = None /\ verdict = None /\ pendingCount = 0 /\ activeCount = 0
    BY Zenon
  <2>4. /\ pending = {} /\ delayed = {} /\ active = {} /\ noted = {} /\ batch = {} /\ late = {}
        /\ registered = {} /\ firing = {} /\ cancelled = {} /\ expired = {} /\ due = {}
        /\ arrived = {}
    BY Zenon
  <2>5. /\ sub \in [Transfers -> {"idle", "registered", "queued", "returned", "refused",
                                 "failed", "rejected"}]
        /\ closer \in [Closers -> {"idle", "flagged", "shutdown", "waking", "joining", "waiting",
                                   "returned"}]
    OBVIOUS
  <2> HIDE DEF Init
  <2>6. QED
    BY <2>2, <2>3, <2>4, <2>5 DEF TypeOK
<1>2. OnePlace
  BY DEF OnePlace, Accepted, Held, InHand
<1>3. GaugesExact
  <2>1. Cardinality({}) = 0
    BY FS_EmptySet
  <2>2. QED
    BY <2>1 DEF GaugesExact
<1>4. NoRetryWhileVisiting /\ WorkerInv
  BY DEF NoRetryWhileVisiting, WorkerInv
<1>5. ClosingInv /\ AnswerInv
  BY NoneAssumption DEF ClosingInv, AnswerInv
<1>6. HookInv
  BY TransfersAssumption DEF HookInv
<1>7. NothingOverlooked
  BY DEF NothingOverlooked, SleepsOnlyWhenIdle, PendingIsWatched
<1>8. QED
  BY <1>1, <1>2, <1>3, <1>4, <1>5, <1>6, <1>7 DEF IInv, EngineInv

LEMMA StepInv == IInv /\ [Next]_vars => IInv'
<1> SUFFICES ASSUME IInv, [Next]_vars PROVE IInv'
  OBVIOUS
<1>1. TypeOK' /\ OnePlace' /\ GaugesExact' /\ NoRetryWhileVisiting'
  BY TypeStep, PlaceStep, GaugeStep, VisitStep
<1>2. WorkerInv' /\ ClosingInv' /\ AnswerInv' /\ HookInv'
  BY WorkerStepInv, ClosingStep, AnswerStep, HookStep
<1>3. NothingOverlooked'
  BY SleepStep, WatchStep DEF NothingOverlooked
<1>4. QED
  BY <1>1, <1>2, <1>3 DEF IInv, EngineInv

LEMMA InvHolds == Spec => []IInv
BY InitInv, StepInv, PTL DEF Spec

\* Whatever the number of transfers, the window and the retries: an unanswered
\* transfer is in one place, the gauges are exact and no list grows under its visitor.
THEOREM EngineInvariant == Spec => []EngineInv
<1>1. IInv => EngineInv
  BY DEF IInv
<1>2. QED
  BY <1>1, InvHolds, PTL

\* The worker never sleeps over work, and no waiting transfer that was cancelled or
\* has a deadline is left unwatched, but for the late ones.
THEOREM NothingIsOverlooked == Spec => []NothingOverlooked
<1>1. IInv => NothingOverlooked
  BY DEF IInv
<1>2. QED
  BY <1>1, InvHolds, PTL

\* The engine starts as the service starts.
LEMMA ServiceInit == Init => Service!Init
BY DEF Init, Service!Init, Accepted

\* A worker that has left holds nothing, so everybody accepted has been answered.
LEMMA ExitedOwesNothing ==
  ASSUME IInv, stage = "exited"
  PROVE  {t \in Accepted : told[t] = None} = {}
BY DEF IInv, EngineInv, OnePlace, WorkerInv, Held, InHand

\* Every step of the engine is one of the service, or none.
LEMMA ServiceStep ==
  ASSUME IInv, IInv', [Next]_vars
  PROVE  [Service!Next]_(Service!vars)
<1> USE DEF engineVars, placeVars, stopVars, pruneVars, wakeVars, curVars, subVars, hookVars,
           worldVars, answerVars
<1> DEFINE Same == UNCHANGED <<Accepted, told, cancelled, expired, joined>>

<1>1. ASSUME UNCHANGED <<sub, told, cancelled, expired, flag, stopping, joined>>
      PROVE  UNCHANGED Service!vars
  BY <1>1 DEF Service!vars, Accepted
<1>2. CASE WorkerStep /\ ~Complete
  <2>1. UNCHANGED <<sub, told, cancelled, expired, flag, stopping, joined>>
    BY <1>2
       DEF WorkerStep, Retry, PrunePending, SweepPruned, PendingStarted, Performed,
           SweepExpired, CheckStop, StopActive, Exit, Wait, Decide, Block, NapEnds,
           PollReturns, DropDelayed, KeepDelayed, StartDelayed, StartPending, Message,
           StopDelayed, sweepUnchanged
  <2>2. QED
    BY <1>1, <2>1
<1>3. CASE Complete
  <2>1. cur \in Transfers /\ cur \in Accepted /\ told[cur] = None /\ verdict \in Outcomes
    BY <1>3, NoneAssumption
       DEF IInv, EngineInv, TypeOK, OnePlace, WorkerInv, Held, Complete
  <2>2. Service!Justified(cur, verdict)
    BY <2>1, NoneAssumption
       DEF IInv, EngineInv, AnswerInv, Service!Justified, Service!Outcomes, Outcomes
  <2>3. /\ told' = [told EXCEPT ![cur] = verdict]
        /\ UNCHANGED <<sub, cancelled, expired, flag, joined>>
    BY <1>3 DEF Complete
  <2>4. stopping' = stopping \/ stopping' = TRUE
    BY <1>3 DEF Complete
  <2>5. Accepted' = Accepted
    BY <2>3 DEF Accepted
  <2>6. (flag \/ stopping)' \in {flag \/ stopping, TRUE}
    BY <2>3, <2>4 DEF IInv, EngineInv, TypeOK
  <2>7. Service!Answer(cur, verdict)
    BY <2>1, <2>2, <2>3, <2>5, <2>6 DEF Service!Answer
  <2>8. QED
    BY <2>1, <2>7 DEF Service!Next, Outcomes, Service!Outcomes
<1>4. CASE Create \/ CreateCheck \/ CreateReturn \/ FindEngine
  BY <1>1, <1>4 DEF Create, CreateCheck, CreateReturn, FindEngine, CloserAt
<1>5. CASE RequestShutdown
  <2>1. Same /\ flag' = TRUE
    BY <1>5 DEF RequestShutdown, Accepted
  <2>2. Service!AskToClose
    BY <2>1 DEF Service!AskToClose
  <2>3. QED
    BY <2>2 DEF Service!Next
<1>6. ASSUME NEW k \in Closers, Shutdown(k)
      PROVE  [Service!Next]_(Service!vars)
  <2>1. Same /\ flag' = flag /\ stopping' = (stopping \/ ~joined)
    BY <1>6 DEF Shutdown, Accepted
  <2>2. stopping' = TRUE
    BY <2>1 DEF IInv, EngineInv, ClosingInv, TypeOK
  <2>3. Service!AskToClose
    BY <2>1, <2>2 DEF Service!AskToClose
  <2>4. QED
    BY <2>3 DEF Service!Next
<1>7. ASSUME NEW k \in Closers, ShutdownWake(k) \/ AwaitJoined(k)
      PROVE  [Service!Next]_(Service!vars)
  BY <1>1, <1>7 DEF ShutdownWake, AwaitJoined, Wake, CloserAt
<1>8. ASSUME NEW k \in Closers, Join(k)
      PROVE  [Service!Next]_(Service!vars)
  <2>1. /\ UNCHANGED <<sub, told, cancelled, expired, flag, stopping>>
        /\ joined' = TRUE /\ stage = "exited" /\ closer[k] = "joining"
    BY <1>8 DEF Join
  <2>2. Service!Outstanding = {}
    BY <2>1, ExitedOwesNothing DEF Service!Outstanding
  <2>3. stopping
    BY <2>1 DEF IInv, EngineInv, ClosingInv
  <2>4. Accepted' = Accepted
    BY <2>1 DEF Accepted
  <2>5. (flag \/ stopping)' = (flag \/ stopping)
    BY <2>1
  <2>6. Service!Close
    BY <2>1, <2>2, <2>3, <2>4, <2>5 DEF Service!Close
  <2>7. QED
    BY <2>6 DEF Service!Next
<1>9. ASSUME NEW t \in Transfers, Register(t) \/ SubmitWake(t)
      PROVE  [Service!Next]_(Service!vars)
  <2>1. UNCHANGED <<told, cancelled, expired, flag, stopping, joined>>
    BY <1>9 DEF Register, SubmitWake
  <2>2. Accepted' = Accepted
    BY <1>9 DEF IInv, EngineInv, TypeOK, Register, SubmitWake, SubAt, Accepted
  <2>3. QED
    BY <2>1, <2>2 DEF Service!vars
<1>10. ASSUME NEW t \in Transfers, Queue(t)
       PROVE  [Service!Next]_(Service!vars)
  <2>1. UNCHANGED <<told, cancelled, expired, flag, stopping, joined>>
    BY <1>10 DEF Queue
  <2>2. CASE stopping \/ ~available
    <3>1. Accepted' = Accepted
      BY <1>10, <2>2 DEF IInv, EngineInv, TypeOK, Queue, SubAt, Accepted
    <3>2. QED
      BY <2>1, <3>1 DEF Service!vars
  <2>3. CASE ~(stopping \/ ~available)
    <3>1. t \notin Accepted /\ Accepted' = Accepted \cup {t} /\ told[t] = None /\ ~joined
      BY <1>10, <2>3
         DEF IInv, EngineInv, TypeOK, ClosingInv, AnswerInv, Queue, SubAt, Accepted
    <3>2. Service!Accept(t)
      BY <2>1, <3>1 DEF Service!Accept
    <3>3. QED
      BY <3>2 DEF Service!Next
  <2>4. QED
    BY <2>2, <2>3
<1>11. ASSUME NEW t \in Transfers, Refuse(t)
       PROVE  [Service!Next]_(Service!vars)
  <2> DEFINE r == IF sub[t] = "refused" THEN "Shutdown" ELSE "Ended"
  <2>1. /\ UNCHANGED <<cancelled, expired, flag, stopping, joined>>
        /\ told' = [told EXCEPT ![t] = r] /\ sub[t] \in {"refused", "failed"}
        /\ told[t] = None /\ t \notin Accepted
    BY <1>11 DEF IInv, EngineInv, AnswerInv, Refuse, Accepted
  <2>2. r = "Shutdown" => stopping
    BY <2>1 DEF IInv, EngineInv, AnswerInv
  <2>3. Accepted' = Accepted
    BY <1>11 DEF IInv, EngineInv, TypeOK, Refuse, SubAt, Accepted
  <2>4. r \in {"Shutdown", "Ended"}
    OBVIOUS
  <2>5. Service!Justified(t, r)
    BY <2>2, <2>4 DEF Service!Justified, Service!Outcomes
  <2>6. (flag \/ stopping)' \in {flag \/ stopping, TRUE}
    BY <2>1
  <2> HIDE DEF r
  <2>7. Service!Answer(t, r)
    BY <2>1, <2>3, <2>4, <2>5, <2>6 DEF Service!Answer
  <2>8. QED
    BY <2>4, <2>7 DEF Service!Next, Service!Outcomes
<1>12. ASSUME NEW t \in Transfers, RetryDue(t) \/ Arrive(t) \/ CancelCallback(t)
       PROVE  [Service!Next]_(Service!vars)
  BY <1>1, <1>12 DEF RetryDue, Arrive, CancelCallback
<1>13. ASSUME NEW t \in Transfers, Cancel(t)
       PROVE  [Service!Next]_(Service!vars)
  <2>1. /\ cancelled' = cancelled \cup {t}
        /\ UNCHANGED <<sub, told, expired, flag, stopping, joined>>
    BY <1>13 DEF Cancel
  <2>2. Service!Cancel(t)
    BY <2>1 DEF Service!Cancel, Accepted
  <2>3. QED
    BY <2>2 DEF Service!Next
<1>14. ASSUME NEW t \in Transfers, Expire(t)
       PROVE  [Service!Next]_(Service!vars)
  <2>1. /\ expired' = expired \cup {t}
        /\ UNCHANGED <<sub, told, cancelled, flag, stopping, joined>>
    BY <1>14 DEF Expire
  <2>2. Service!Expire(t)
    BY <2>1 DEF Service!Expire, Accepted
  <2>3. QED
    BY <2>2 DEF Service!Next
<1>15. CASE UNCHANGED vars
  BY <1>1, <1>15 DEF vars
<1>16. QED
  BY <1>2, <1>3, <1>4, <1>5, <1>6, <1>7, <1>8, <1>9, <1>10, <1>11, <1>12, <1>13, <1>14, <1>15
     DEF Next, CloserStep, SubmitterStep, NetworkStep

\* The engine implements the service that CacheFetch and the synchronous callers use.
THEOREM EngineImplementsService == Spec => ImplementsTransferService
<1>1. IInv /\ IInv' /\ [Next]_vars => [Service!Next]_(Service!vars)
  BY ServiceStep
<1>2. QED
  BY <1>1, ServiceInit, InvHolds, PTL DEF Spec, ImplementsTransferService, Service!Spec
=============================================================================
