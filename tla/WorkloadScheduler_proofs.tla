---------------------- MODULE WorkloadScheduler_proofs ----------------------
(***************************************************************************)
(* SchedInv is an invariant of the scheduler for every set of tasks and    *)
(* workers and all limits; from it follow that no task is lost, that       *)
(* nothing starts while a shutdown drains the queues, that a joined        *)
(* scheduler has answered everything, and that TaskService is implemented. *)
(***************************************************************************)
EXTENDS WorkloadScheduler, FiniteSetTheorems, TLAPS

-----------------------------------------------------------------------------
(* The choice of a queue *)

\* Among the heads of the busy queues there is an oldest one.
LEMMA OldestExists ==
  ASSUME TypeOK, Busy # {}
  PROVE  Oldest \in Busy
<1> DEFINE T(i) == enqueuedAt[Head(queues[i])]
           Before(i, j) == T(i) < T(j) \/ (T(i) = T(j) /\ i <= j)
<1>1. Busy \subseteq {0, 1, 2}
  BY DEF Busy, Index
<1>2. \A i \in Busy : T(i) \in Nat
  <2> SUFFICES ASSUME NEW i \in Busy PROVE T(i) \in Nat
    OBVIOUS
  <2>1. queues[i] \in Seq(Tasks) /\ queues[i] # <<>>
    BY DEF Busy, TypeOK
  <2>2. Head(queues[i]) \in Tasks
    BY <2>1
  <2>3. QED
    BY <2>2 DEF TypeOK
<1> HIDE DEF T
<1>3. \E i \in Busy : \A j \in Busy : Before(i, j)
  <2>1. PICK i \in Busy : TRUE
    OBVIOUS
  <2>2. \E i0 \in Busy : \A j \in Busy : j \in {0, 1} /\ i0 \in {0, 1} => Before(i0, j)
    BY <1>1, <1>2, <2>1
  <2>3. QED
    BY <1>1, <1>2, <2>1
<1>4. Oldest = CHOOSE i \in Busy : \A j \in Busy : Before(i, j)
  BY Zenon DEF Oldest, T
<1>5. QED
  BY <1>3, <1>4, Zenon

\* The round-robin probe finds a busy queue with a credit left: after the refill of
\* takeTaskLocked there is one.
LEMMA ChosenIsBusy ==
  ASSUME NEW busy \in SUBSET Index, busy # {},
         NEW cr \in [Index -> Nat], NEW n \in Index
  PROVE  LET filled == Refill(busy, cr)
             i      == Chosen(busy, filled, n)
         IN filled \in [Index -> Nat] /\ i \in busy /\ filled[i] # 0
<1> DEFINE filled == Refill(busy, cr)
           C == {j \in busy : filled[j] # 0}
           Nearest(i) == \A j \in busy : filled[j] # 0 => Distance(i, n) <= Distance(j, n)
<1>1. filled \in [Index -> Nat] /\ C # {} /\ C \subseteq Index
  BY WeightAssumption DEF Refill, Index
<1>2. \E i \in C : Nearest(i)
  BY <1>1 DEF Distance, Index
<1>3. Chosen(busy, filled, n) = CHOOSE i \in C : Nearest(i)
  BY Zenon DEF Chosen
<1>4. QED
  BY <1>1, <1>2, <1>3, Zenon

\* A worker that finds queued entries pops the head of some busy queue.
LEMMA TakePops ==
  ASSUME TypeOK, NEW w \in Workers, Take(w)
  PROVE  /\ \E i \in Busy : Pop(i, w)
         /\ credits' \in [Index -> Nat]
         /\ next' \in Index
<1>1. Busy # {} /\ Busy \in SUBSET Index
  BY DEF Take, Busy
<1>2. CASE Aged
  BY <1>1, <1>2, OldestExists DEF Take, pickVars, TypeOK
<1>3. CASE ~Aged
  <2> DEFINE filled == Refill(Busy, credits)
             i      == Chosen(Busy, filled, next)
  <2>1. filled \in [Index -> Nat] /\ i \in Busy /\ filled[i] # 0
    BY <1>1, ChosenIsBusy DEF TypeOK
  <2> HIDE DEF filled, i
  <2>2. Pop(i, w) /\ credits' = [filled EXCEPT ![i] = @ - 1] /\ next' = After(i)
    BY <1>3, Zenon DEF Take, filled, i
  <2>3. QED
    BY <1>1, <2>1, <2>2 DEF After, Index
<1>4. QED
  BY <1>2, <1>3

-----------------------------------------------------------------------------
(* The invariant holds initially and is kept by the steps that move no task *)

LEMMA InitInv == Init => SchedInv
<1> SUFFICES ASSUME Init PROVE SchedInv
  OBVIOUS
<1>1. /\ Stage("queued") = {} /\ Stage("drained") = {} /\ Stage("taken") = {}
      /\ {w \in Workers : holding[w] # None} = {}
  BY DEF Init, Stage
<1>2. TypeOK
  <2>1. queues \in [Index -> Seq(Tasks)]
    BY DEF Init
  <2>2. credits \in [Index -> Nat] /\ next \in Index
    BY WeightAssumption DEF Init, Index
  <2>3. now \in 0..MaxTime
    <3>1. now = 0
      BY Zenon DEF Init
    <3>2. QED
      BY <3>1, LimitAssumption
  <2>3a. stopping \in BOOLEAN
    BY Zenon DEF Init
  <2>4. drained \in Tasks \cup {None} /\ holding \in [Workers -> Tasks \cup {None}]
    BY DEF Init
  <2>5. /\ verdict \in [Tasks -> Answer \cup {"Accepted", None}]
        /\ result \in [Tasks -> Answer \cup {None}]
    BY DEF Init
  <2>6. QED
    BY <2>1, <2>2, <2>3, <2>3a, <2>4, <2>5 DEF Init, TypeOK
<1>3. OnePlace
  BY <1>1 DEF Init, OnePlace, Queued, Held, Drained
<1>4. TaskInv /\ WorkerInv /\ StopInv
  BY TaskAssumption DEF Init, TaskInv, WorkerInv, StopInv
<1>5. CountInv
  <2>1. Stage("queued") \cup Stage("drained") = {} /\ Cardinality({}) = 0
    BY <1>1, FS_EmptySet
  <2>2. queuedEntries = 0 /\ active = 0
    BY Zenon DEF Init
  <2>3. QED
    BY <1>1, <2>1, <2>2, LimitAssumption DEF CountInv
<1>6. QED
  BY <1>2, <1>3, <1>4, <1>5 DEF SchedInv

\* Steps of the environment and of threads that are not moving a task.
IdleStep == \/ Tick
            \/ \E t \in Tasks : RequestCancellation(t) \/ NotifyOne(t)
            \/ \E w \in Workers : \/ Exit(w) \/ Sleep(w) \/ SpuriousWake(w)
                                   \/ CheckRun(w) \/ CountCancelled(w)
            \/ DrainEnd \/ NotifyAll
            \/ UNCHANGED vars

LEMMA IdleStepInv ==
  ASSUME SchedInv, IdleStep
  PROVE  SchedInv'
<1>0. /\ UNCHANGED <<stage, verdict, result, queues, queuedEntries, queuedBytes,
                     active, accepted, rejected, holding, drained, credits, next,
                     stopping, enqueuedAt>>
  BY DEF IdleStep, Tick, RequestCancellation, NotifyOne, Exit, Sleep,
         SpuriousWake, CheckRun, CountCancelled, DrainEnd, NotifyAll, vars,
         clockVars, queueVars, pickVars, taskVars, workerVars, stopVars
<1>1. TypeOK'
  <2>1. now' \in 0..MaxTime
    BY LimitAssumption
       DEF SchedInv, TypeOK, IdleStep, Tick, RequestCancellation, NotifyOne, Exit,
           Sleep, SpuriousWake, CheckRun, CountCancelled, DrainEnd, NotifyAll,
           vars, clockVars
  <2>2. tokens' \subseteq Tasks /\ toNotify' \subseteq Tasks /\ cancelled' \in Int
    BY DEF SchedInv, TypeOK, IdleStep, Tick, RequestCancellation, NotifyOne, Exit,
           Sleep, SpuriousWake, CheckRun, CountCancelled, DrainEnd, NotifyAll,
           vars, clockVars, taskVars
  <2>3. /\ pc' \in [Workers -> {"idle", "asleep", "checking", "running", "counting",
                               "finishing", "exited"}]
        /\ shutter' \in {"none", "draining", "notifying", "done"}
    BY DEF SchedInv, TypeOK, IdleStep, Tick, RequestCancellation, NotifyOne, Exit,
           Sleep, SpuriousWake, CheckRun, CountCancelled, DrainEnd, NotifyAll,
           vars, workerVars, stopVars
  <2>4. QED
    BY <1>0, <2>1, <2>2, <2>3, Zenon DEF SchedInv, TypeOK
<1>2. \A w \in Workers :
        /\ pc'[w] \in {"checking", "running"} <=> pc[w] \in {"checking", "running"}
        /\ pc'[w] \in {"idle", "asleep", "exited"} <=> pc[w] \in {"idle", "asleep", "exited"}
        /\ pc'[w] \in {"counting", "finishing"} => pc[w] \in {"counting", "finishing"}
        /\ pc'[w] = "exited" => pc[w] = "exited" \/ (stopping /\ queuedEntries = 0)
  BY DEF SchedInv, TypeOK, IdleStep, Tick, RequestCancellation, NotifyOne, Exit,
         Sleep, SpuriousWake, CheckRun, CountCancelled, DrainEnd, NotifyAll,
         vars, clockVars, taskVars, workerVars, stopVars
<1>3. \A s : Stage(s)' = Stage(s)
  BY <1>0 DEF Stage
<1>4. OnePlace'
  BY <1>0, <1>2, <1>3 DEF SchedInv, OnePlace, Queued, Held, Drained
<1>5. TaskInv' /\ WorkerInv'
  BY <1>0, <1>2 DEF SchedInv, TaskInv, WorkerInv
<1>6. StopInv' /\ CountInv'
  <2>1. CASE shutter' = shutter
    BY <1>0, <1>3, <2>1 DEF SchedInv, StopInv, CountInv
  <2>2. CASE DrainEnd
    <3>1. Stage("queued") = {}
      BY <2>2 DEF DrainEnd, Busy, SchedInv, OnePlace, Queued, Stage, TypeOK,
                  QueueIndex, Index
    <3>2. QED
      BY <1>0, <1>3, <2>2, <3>1, FS_EmptySet
         DEF DrainEnd, SchedInv, StopInv, CountInv
  <2>3. CASE NotifyAll
    <3>1. shutter = "notifying" /\ shutter' = "done"
      BY <2>3, Zenon DEF NotifyAll
    <3>2. QED
      BY <1>0, <1>3, <3>1 DEF SchedInv, StopInv, CountInv
  <2>4. shutter' = shutter \/ DrainEnd \/ NotifyAll
    BY Zenon
       DEF IdleStep, Tick, RequestCancellation, NotifyOne, Exit, Sleep,
           SpuriousWake, CheckRun, CountCancelled, vars, stopVars
  <2>5. QED
    BY <2>1, <2>2, <2>3, <2>4
<1>7. QED
  BY <1>1, <1>4, <1>5, <1>6 DEF SchedInv

\* A submission that is not accepted never enters a place.
LEMMA RefusalInv ==
  ASSUME SchedInv, NEW t \in Tasks,
         Prepare(t) \/ SubmitRefuse(t) \/ AnswerRefused(t)
  PROVE  SchedInv'
<1>0. UNCHANGED <<queues, queuedEntries, queuedBytes, active, holding, pc,
                  drained, credits, next, stopping, shutter>>
  BY DEF Prepare, SubmitRefuse, AnswerRefused, queueVars, pickVars,
         workerVars, stopVars
<1>1. TypeOK'
  <2>1. Admission(t) # "Accepted" => Admission(t) \in Answer \ {"Ran"}
    BY DEF Admission, Answer
  <2>2. stage[t] = "refused" => verdict[t] \in Answer
    BY DEF SchedInv, TaskInv
  <2>3. /\ stage' \in [Tasks -> {"new", "prepared", "refused", "queued", "taken",
                                "drained", "settled"}]
    BY DEF SchedInv, TypeOK, Prepare, SubmitRefuse, AnswerRefused, Complete
  <2>3b. enqueuedAt' \in [Tasks -> Nat] /\ rejected' \in Nat
    <3>1. now \in Nat /\ rejected \in Nat /\ enqueuedAt \in [Tasks -> Nat]
      BY LimitAssumption DEF SchedInv, TypeOK
    <3>2. QED
      BY <3>1 DEF Prepare, SubmitRefuse, AnswerRefused
  <2>3a. UNCHANGED <<now, tokens, toNotify, accepted, cancelled>>
    BY DEF Prepare, SubmitRefuse, AnswerRefused, clockVars
  <2>4. verdict' \in [Tasks -> Answer \cup {"Accepted", None}]
    BY <2>1 DEF SchedInv, TypeOK, Prepare, SubmitRefuse, AnswerRefused
  <2>5. result' \in [Tasks -> Answer \cup {None}]
    BY <2>2 DEF SchedInv, TypeOK, Prepare, SubmitRefuse, AnswerRefused, Complete
  <2>6. QED
    BY <1>0, <2>3, <2>3a, <2>3b, <2>4, <2>5, Zenon DEF SchedInv, TypeOK
<1>2. \A u \in Tasks, s \in {"queued", "taken", "drained"} :
        stage'[u] = s <=> stage[u] = s
  BY DEF SchedInv, TypeOK, Prepare, SubmitRefuse, AnswerRefused, Complete
<1>3. \A s \in {"queued", "taken", "drained"} : Stage(s)' = Stage(s)
  BY <1>2 DEF Stage
<1>4. OnePlace'
  <2>1. \A i \in Index : \A k \in 1..Len(queues[i]) : queues[i][k] \in Tasks
    BY DEF SchedInv, TypeOK
  <2>2. QED
    BY <1>0, <1>2, <1>3, <2>1 DEF SchedInv, OnePlace, Queued, Held, Drained
<1>5. TaskInv'
  <2>1. CASE Prepare(t)
    BY <2>1, TaskAssumption DEF SchedInv, TypeOK, TaskInv, Prepare, stopVars
  <2>2. CASE SubmitRefuse(t)
    <3>1. /\ Admission(t) \in Answer \ {"Ran"}
          /\ Admission(t) = "Stopping" => stopping
      BY <2>2 DEF SubmitRefuse, Admission, Answer
    <3>2. QED
      BY <1>0, <2>2, <3>1, TaskAssumption
         DEF SchedInv, TypeOK, TaskInv, SubmitRefuse, Answer
  <2>3. CASE AnswerRefused(t)
    BY <1>0, <2>3, TaskAssumption
       DEF SchedInv, TypeOK, TaskInv, AnswerRefused, Complete, Answer
  <2>4. QED
    BY <2>1, <2>2, <2>3
<1>6. WorkerInv'
  <2>1. \A u \in Tasks : stage[u] = "settled" => stage'[u] = "settled"
    BY DEF SchedInv, TypeOK, Prepare, SubmitRefuse, AnswerRefused, Complete
  <2>2. \A w \in Workers : holding[w] # None => holding[w] \in Tasks
    BY DEF SchedInv, TypeOK
  <2>3. QED
    BY <1>0, <2>1, <2>2 DEF SchedInv, WorkerInv
<1>6a. StopInv' /\ CountInv'
  BY <1>0, <1>3 DEF SchedInv, StopInv, CountInv
<1>7. QED
  BY <1>1, <1>4, <1>5, <1>6, <1>6a DEF SchedInv

-----------------------------------------------------------------------------
(* The steps that move a task from one place to the next *)

LEMMA QueueIndexType == \A t \in Tasks : QueueIndex(Cost[t]) \in Index
  BY DEF QueueIndex, Index

LEMMA StagesFinite ==
  /\ \A s : IsFiniteSet(Stage(s))
  /\ IsFiniteSet({w \in Workers : holding[w] # None})
  BY TaskAssumption, FS_Subset DEF Stage

\* submit pushes the task at the back of one queue.
LEMMA SubmitAcceptInv ==
  ASSUME SchedInv, NEW t \in Tasks, SubmitAccept(t)
  PROVE  SchedInv'
<1> DEFINE c == QueueIndex(Cost[t])
<1>0. /\ UNCHANGED <<now, tokens, active, rejected, cancelled, credits, next,
                     enqueuedAt, result, pc, holding, stopping, shutter, drained>>
      /\ queues' = [queues EXCEPT ![c] = Append(@, t)]
      /\ queuedEntries' = queuedEntries + 1
      /\ queuedBytes' = queuedBytes + Bytes[t]
      /\ accepted' = accepted + 1
      /\ stage' = [stage EXCEPT ![t] = "queued"]
      /\ verdict' = [verdict EXCEPT ![t] = "Accepted"]
      /\ toNotify' = toNotify \cup {t}
      /\ stage[t] = "prepared"
  BY DEF SubmitAccept, clockVars, pickVars, workerVars, stopVars
<1>1. shutter = "none" /\ ~(queuedEntries >= MaxEntries)
  BY DEF SubmitAccept, Admission, SchedInv, StopInv
<1>2. c \in Index
  BY QueueIndexType
<1> HIDE DEF c
<1>3. TypeOK'
  <2>1. queues' \in [Index -> Seq(Tasks)]
    BY <1>0, <1>2 DEF SchedInv, TypeOK
  <2>2. queuedBytes' \in Int /\ queuedEntries' \in Int /\ accepted' \in Nat
    BY <1>0, TaskAssumption DEF SchedInv, TypeOK
  <2>3. /\ stage' \in [Tasks -> {"new", "prepared", "refused", "queued", "taken",
                                "drained", "settled"}]
        /\ verdict' \in [Tasks -> Answer \cup {"Accepted", None}]
        /\ toNotify' \subseteq Tasks
    BY <1>0 DEF SchedInv, TypeOK
  <2>4. QED
    BY <1>0, <2>1, <2>2, <2>3, Zenon DEF SchedInv, TypeOK
<1>4. /\ Stage("queued")' = Stage("queued") \cup {t}
      /\ t \notin Stage("queued")
      /\ \A s \in {"taken", "drained"} : Stage(s)' = Stage(s)
  BY <1>0 DEF Stage, SchedInv, TypeOK
<1>5. OnePlace'
  <2>1. Held' /\ Drained'
    BY <1>0, <1>4 DEF SchedInv, OnePlace, Held, Drained
  <2>2. \A i \in Index, k \in Nat :
          /\ queues[i] \in Seq(Tasks)
          /\ k \in 1..Len(queues[i]) =>
               /\ queues[i][k] \in Tasks
               /\ stage[queues[i][k]] = "queued"
               /\ queues'[i][k] = queues[i][k]
    BY <1>0, <1>2 DEF SchedInv, TypeOK, OnePlace, Queued
  <2>3. /\ \A i \in Index : i # c => queues'[i] = queues[i]
        /\ Len(queues'[c]) = Len(queues[c]) + 1
        /\ queues'[c][Len(queues[c]) + 1] = t
        /\ \A i \in Index : Len(queues[i]) \in Nat
    BY <1>0, <1>2 DEF SchedInv, TypeOK
  <2>4. ASSUME NEW i \in Index, NEW k \in 1..Len(queues'[i])
        PROVE  /\ stage'[queues'[i][k]] = "queued"
               /\ QueueIndex(Cost[queues'[i][k]]) = i
               /\ \A m \in 1..Len(queues'[i]) : queues'[i][k] = queues'[i][m] => k = m
    <3>1. CASE k \in 1..Len(queues[i])
      <4>1. \A m \in 1..Len(queues'[i]) :
              m \in 1..Len(queues[i]) \/ (i = c /\ m = Len(queues[c]) + 1)
        BY <2>3
      <4>2. queues[i][k] # t
        BY <1>0, <2>2, <3>1
      <4>3. /\ queues'[i][k] = queues[i][k]
            /\ stage'[queues[i][k]] = "queued"
            /\ QueueIndex(Cost[queues[i][k]]) = i
        BY <1>0, <2>2, <3>1 DEF SchedInv, TypeOK, OnePlace, Queued
      <4>4. ASSUME NEW m \in 1..Len(queues'[i]), queues'[i][k] = queues'[i][m]
            PROVE  k = m
        <5>1. CASE m \in 1..Len(queues[i])
          <6>1. queues'[i][m] = queues[i][m]
            BY <2>2, <5>1
          <6>2. \A n \in 1..Len(queues[i]) : queues[i][k] = queues[i][n] => k = n
            BY <3>1, Zenon DEF SchedInv, OnePlace, Queued
          <6>3. QED
            BY <4>3, <4>4, <5>1, <6>1, <6>2
        <5>2. CASE i = c /\ m = Len(queues[c]) + 1
          BY <2>3, <4>2, <4>3, <4>4, <5>2
        <5>3. QED
          BY <4>1, <5>1, <5>2
      <4>5. QED
        BY <4>3, <4>4
    <3>2. CASE i = c /\ k = Len(queues[c]) + 1
      <4>1. queues'[i][k] = t
        BY <2>3, <3>2
      <4>2. \A m \in 1..Len(queues'[i]) : m # k => queues'[i][m] # t
        BY <1>0, <2>2, <2>3, <3>2
      <4>3. stage'[t] = "queued"
        BY <1>0 DEF SchedInv, TypeOK
      <4>4. QED
        BY <3>2, <4>1, <4>2, <4>3 DEF c
    <3>3. QED
      BY <2>3, <3>1, <3>2
  <2>5. ASSUME NEW u \in Tasks, stage'[u] = "queued"
        PROVE  \E k \in 1..Len(queues'[QueueIndex(Cost[u])]) :
                 queues'[QueueIndex(Cost[u])][k] = u
    <3>1. CASE u = t
      <4>1. Len(queues[c]) + 1 \in 1..Len(queues'[c])
        BY <1>2, <2>3
      <4>2. QED
        BY <2>3, <3>1, <4>1 DEF c
    <3>2. CASE u # t
      <4>1. stage[u] = "queued" /\ QueueIndex(Cost[u]) \in Index
        BY <1>0, <2>5, <3>2, QueueIndexType DEF SchedInv, TypeOK
      <4>2. PICK k \in 1..Len(queues[QueueIndex(Cost[u])]) :
              queues[QueueIndex(Cost[u])][k] = u
        BY <4>1 DEF SchedInv, OnePlace, Queued, Stage
      <4>3. QED
        BY <2>2, <2>3, <4>1, <4>2
    <3>3. QED
      BY <3>1, <3>2
  <2>6. Queued'
    BY <2>4, <2>5 DEF Queued, Stage
  <2>7. QED
    BY <2>1, <2>6 DEF OnePlace
<1>6. TaskInv' /\ WorkerInv' /\ StopInv'
  <2>1. StopInv'
    BY <1>0, <1>1 DEF SchedInv, StopInv
  <2>2. WorkerInv'
    <3>1. ~stopping
      BY <1>1 DEF SchedInv, StopInv
    <3>2. QED
      BY <1>0, <3>1 DEF SchedInv, WorkerInv
  <2>3. TaskInv'
    BY <1>0, TaskAssumption DEF SchedInv, TypeOK, TaskInv
  <2>4. QED
    BY <2>1, <2>2, <2>3
<1>7. CountInv'
  <2>1. Cardinality(Stage("queued")') = Cardinality(Stage("queued")) + 1
    BY <1>4, StagesFinite, FS_AddElement
  <2>2. Stage("drained") = {}
    BY <1>1 DEF SchedInv, StopInv, OnePlace, Drained
  <2>3. Stage("queued")' \cup Stage("drained")' = Stage("queued")'
    BY <1>4, <2>2
  <2>4. queuedEntries = Cardinality(Stage("queued")) /\ queuedEntries \in Int
    BY <1>1 DEF SchedInv, CountInv, TypeOK
  <2>5. Cardinality(Stage("queued")') = queuedEntries'
    BY <1>0, <2>1, <2>4
  <2>6. queuedEntries' <= MaxEntries
    BY <1>0, <1>1, <2>4, LimitAssumption
  <2>7. active' = Cardinality({w \in Workers : holding'[w] # None})
    BY <1>0 DEF SchedInv, CountInv
  <2>8. QED
    BY <2>3, <2>5, <2>6, <2>7 DEF CountInv
<1>8. QED
  BY <1>3, <1>5, <1>6, <1>7 DEF SchedInv

\* Popping the head of a busy queue leaves every other task in its place.
LEMMA PopHeadQueued ==
  ASSUME SchedInv, NEW i \in Busy, NEW s \in {"taken", "drained"},
         queues' = [queues EXCEPT ![i] = Tail(@)],
         stage' = [stage EXCEPT ![Head(queues[i])] = s]
  PROVE  Queued'
<1> DEFINE t == Head(queues[i])
<1>0. /\ queues' = [queues EXCEPT ![i] = Tail(@)]
      /\ stage' = [stage EXCEPT ![t] = s]
  OBVIOUS
<1>1. /\ i \in Index /\ queues[i] \in Seq(Tasks) /\ queues[i] # <<>>
      /\ t \in Tasks /\ t = queues[i][1] /\ 1 \in 1..Len(queues[i])
      /\ Len(queues[i]) \in Nat
  BY DEF Busy, SchedInv, TypeOK
<1> HIDE DEF t
<1>2. /\ stage[t] = "queued"
      /\ QueueIndex(Cost[t]) = i
      /\ \A m \in 1..Len(queues[i]) : queues[i][m] = t => m = 1
  BY <1>1 DEF SchedInv, OnePlace, Queued
<1>3. /\ \A j \in Index : /\ queues[j] \in Seq(Tasks)
                          /\ Len(queues[j]) \in Nat
                          /\ \A k \in 1..Len(queues[j]) : queues[j][k] \in Tasks
      /\ \A j \in Index : j # i => queues'[j] = queues[j]
      /\ Len(queues'[i]) = Len(queues[i]) - 1
      /\ \A k \in 1..Len(queues'[i]) : /\ queues'[i][k] = queues[i][k + 1]
                                       /\ k + 1 \in 1..Len(queues[i])
  <2>1. /\ \A j \in Index : queues[j] \in Seq(Tasks)
        /\ \A j \in Index : j # i => queues'[j] = queues[j]
        /\ queues'[i] = Tail(queues[i])
    BY <1>0, <1>1 DEF SchedInv, TypeOK
  <2>2. /\ Len(Tail(queues[i])) = Len(queues[i]) - 1
        /\ \A k \in 1..Len(Tail(queues[i])) : Tail(queues[i])[k] = queues[i][k + 1]
    BY <1>1
  <2>3. \A j \in Index : /\ Len(queues[j]) \in Nat
                        /\ \A k \in 1..Len(queues[j]) : queues[j][k] \in Tasks
    BY <2>1
  <2>4. Len(queues'[i]) = Len(queues[i]) - 1
    BY <2>1, <2>2
  <2>5. ASSUME NEW k \in 1..Len(queues'[i])
        PROVE  /\ queues'[i][k] = queues[i][k + 1]
               /\ k + 1 \in 1..Len(queues[i])
    <3>1. k + 1 \in 1..Len(queues[i])
      BY <1>1, <2>4
    <3>2. QED
      BY <2>1, <2>2, <3>1
  <2>6. QED
    BY <2>1, <2>3, <2>4, <2>5
<1>4. ASSUME NEW j \in Index, NEW k \in 1..Len(queues'[j])
      PROVE  /\ stage'[queues'[j][k]] = "queued"
             /\ QueueIndex(Cost[queues'[j][k]]) = j
             /\ \A m \in 1..Len(queues'[j]) : queues'[j][k] = queues'[j][m] => k = m
  <2>1. CASE j # i
    <3>1. queues'[j] = queues[j] /\ k \in 1..Len(queues[j])
      BY <1>3, <2>1
    <3>2. /\ stage[queues[j][k]] = "queued"
          /\ QueueIndex(Cost[queues[j][k]]) = j
          /\ \A m \in 1..Len(queues[j]) : queues[j][k] = queues[j][m] => k = m
      BY <3>1, Zenon DEF SchedInv, OnePlace, Queued
    <3>3. queues[j][k] # t /\ queues[j][k] \in Tasks
      BY <1>2, <1>3, <2>1, <3>1, <3>2
    <3>4. QED
      BY <1>0, <3>1, <3>2, <3>3 DEF SchedInv, TypeOK
  <2>2. CASE j = i
    <3>1. k + 1 \in 1..Len(queues[i]) /\ queues'[i][k] = queues[i][k + 1]
      BY <1>3, <2>2
    <3>2. /\ stage[queues[i][k + 1]] = "queued"
          /\ QueueIndex(Cost[queues[i][k + 1]]) = i
          /\ \A m \in 1..Len(queues[i]) : queues[i][k + 1] = queues[i][m] => k + 1 = m
      BY <1>1, <3>1, Zenon DEF SchedInv, OnePlace, Queued
    <3>3. queues[i][k + 1] # t /\ queues[i][k + 1] \in Tasks
      BY <1>1, <1>2, <1>3, <3>1
    <3>4. \A m \in 1..Len(queues'[i]) : queues'[i][k] = queues'[i][m] => k = m
      BY <1>3, <3>1, <3>2
    <3>5. QED
      BY <1>0, <2>2, <3>1, <3>2, <3>3, <3>4 DEF SchedInv, TypeOK
  <2>3. QED
    BY <2>1, <2>2
<1>5. ASSUME NEW u \in Tasks, stage'[u] = "queued"
      PROVE  \E k \in 1..Len(queues'[QueueIndex(Cost[u])]) :
               queues'[QueueIndex(Cost[u])][k] = u
  <2> DEFINE j == QueueIndex(Cost[u])
  <2>1. u # t /\ stage[u] = "queued" /\ j \in Index
    BY <1>0, <1>1, <1>5, QueueIndexType DEF SchedInv, TypeOK
  <2>2. PICK k \in 1..Len(queues[j]) : queues[j][k] = u
    BY <2>1 DEF SchedInv, OnePlace, Queued, Stage
  <2> HIDE DEF j
  <2>3. CASE j # i
    BY <1>3, <2>1, <2>2, <2>3 DEF j
  <2>4. CASE j = i
    <3>1. k # 1 /\ k - 1 \in 1..Len(queues'[i])
      BY <1>1, <1>3, <2>1, <2>2, <2>4
    <3>2. queues'[i][k - 1] = u
      BY <1>3, <2>2, <2>4, <3>1
    <3>3. QED
      BY <2>4, <3>1, <3>2 DEF j
  <2>5. QED
    BY <2>3, <2>4
<1>6. QED
  BY <1>4, <1>5 DEF Queued, Stage

\* popLocked hands the head of a queue to the worker that took it.
LEMMA PopInv ==
  ASSUME SchedInv, NEW w \in Workers, NEW i \in Busy, Pop(i, w),
         pc[w] = "idle", queuedEntries # 0,
         credits' \in [Index -> Nat], next' \in Index,
         UNCHANGED <<now, tokens, accepted, rejected, cancelled, enqueuedAt, verdict,
                     result, toNotify, stopping, shutter, drained>>
  PROVE  SchedInv'
<1> DEFINE t == Head(queues[i])
<1>0. /\ queues' = [queues EXCEPT ![i] = Tail(@)]
      /\ queuedEntries' = queuedEntries - 1
      /\ queuedBytes' = queuedBytes - Bytes[t]
      /\ active' = active + 1
      /\ stage' = [stage EXCEPT ![t] = "taken"]
      /\ holding' = [holding EXCEPT ![w] = t]
      /\ pc' = [pc EXCEPT ![w] = "checking"]
  BY Zenon DEF Pop
<1>1. /\ i \in Index /\ queues[i] \in Seq(Tasks) /\ queues[i] # <<>>
      /\ t \in Tasks /\ t = queues[i][1] /\ 1 \in 1..Len(queues[i])
      /\ Len(queues[i]) \in Nat
  BY DEF Busy, SchedInv, TypeOK
<1> HIDE DEF t
<1>2. /\ stage[t] = "queued"
      /\ QueueIndex(Cost[t]) = i
      /\ \A m \in 1..Len(queues[i]) : queues[i][m] = t => m = 1
  BY <1>1 DEF SchedInv, OnePlace, Queued
<1>3. TypeOK'
  <2>1. queues' \in [Index -> Seq(Tasks)]
    BY <1>0, <1>1 DEF SchedInv, TypeOK
  <2>2. queuedBytes' \in Int /\ queuedEntries' \in Int /\ active' \in Int
    <3>1. Bytes[t] \in Nat
      BY <1>1, TaskAssumption
    <3>2. queuedBytes \in Int /\ queuedEntries \in Int /\ active \in Int
      BY DEF SchedInv, TypeOK
    <3>3. QED
      BY <1>0, <3>1, <3>2
  <2>3. /\ stage' \in [Tasks -> {"new", "prepared", "refused", "queued", "taken",
                                "drained", "settled"}]
        /\ pc' \in [Workers -> {"idle", "asleep", "checking", "running", "counting",
                               "finishing", "exited"}]
        /\ holding' \in [Workers -> Tasks \cup {None}]
    BY <1>0, <1>1 DEF SchedInv, TypeOK
  <2>4. QED
    BY <2>1, <2>2, <2>3, Zenon DEF SchedInv, TypeOK
<1>4. /\ Stage("queued")' = Stage("queued") \ {t}
      /\ t \in Stage("queued")
      /\ Stage("taken")' = Stage("taken") \cup {t}
      /\ Stage("drained")' = Stage("drained")
  BY <1>0, <1>1, <1>2 DEF Stage, SchedInv, TypeOK
<1>5. holding[w] = None
  BY DEF SchedInv, WorkerInv
<1>6. OnePlace'
  <2>1. Drained'
    BY <1>4 DEF SchedInv, OnePlace, Drained
  <2>2. Held'
    <3>1. \A v \in Workers : /\ pc'[v] = IF v = w THEN "checking" ELSE pc[v]
                            /\ holding'[v] = IF v = w THEN t ELSE holding[v]
      BY <1>0 DEF SchedInv, TypeOK
    <3>2. \A v \in Workers : holding[v] # t
      <4> SUFFICES ASSUME NEW v \in Workers, holding[v] = t PROVE FALSE
        OBVIOUS
      <4>1. pc[v] \in {"checking", "running"} \/ pc[v] \in {"counting", "finishing"}
        <5>1. holding[v] # None
          BY <1>1, TaskAssumption
        <5>2. QED
          BY <5>1 DEF SchedInv, TypeOK, WorkerInv
      <4>2. stage[t] = "taken" \/ stage[t] = "settled"
        <5>1. CASE pc[v] \in {"checking", "running"}
          BY <5>1 DEF SchedInv, OnePlace, Held, Stage
        <5>2. CASE pc[v] \in {"counting", "finishing"}
          BY <5>2 DEF SchedInv, WorkerInv
        <5>3. QED
          BY <4>1, <5>1, <5>2
      <4>3. QED
        BY <1>2, <4>2
    <3>3. \A v \in Workers : pc'[v] \in {"checking", "running"} =>
            holding'[v] \in Stage("taken")'
      BY <1>4, <3>1 DEF SchedInv, OnePlace, Held
    <3>4. \A u \in Stage("taken")' : \E v \in Workers :
            holding'[v] = u /\ pc'[v] \in {"checking", "running"}
      <4> SUFFICES ASSUME NEW u \in Stage("taken")'
                   PROVE  \E v \in Workers :
                            holding'[v] = u /\ pc'[v] \in {"checking", "running"}
        OBVIOUS
      <4>1. CASE u = t
        BY <3>1, <4>1
      <4>2. CASE u \in Stage("taken")
        <5>1. PICK v \in Workers : holding[v] = u /\ pc[v] \in {"checking", "running"}
          BY <4>2 DEF SchedInv, OnePlace, Held
        <5>2. v # w
          BY <5>1
        <5>3. QED
          BY <3>1, <5>1, <5>2
      <4>3. QED
        BY <1>4, <4>1, <4>2
    <3>5. \A x, v \in Workers : holding'[x] = holding'[v] /\ holding'[x] # None => x = v
      BY <3>1, <3>2 DEF SchedInv, OnePlace, Held
    <3>6. QED
      BY <3>3, <3>4, <3>5 DEF Held
  <2>3. Queued'
    BY <1>0, PopHeadQueued DEF t
  <2>4. QED
    BY <2>1, <2>2, <2>3 DEF OnePlace
<1>7. shutter # "draining"
  BY DEF SchedInv, StopInv
<1>8. TaskInv' /\ StopInv'
  <2>1. TaskInv'
    BY <1>0, <1>1, <1>2 DEF SchedInv, TypeOK, TaskInv
  <2>2. StopInv'
    BY <1>7 DEF SchedInv, StopInv
  <2>3. QED
    BY <2>1, <2>2
<1>9. Cardinality(Stage("queued")') = Cardinality(Stage("queued")) - 1
  BY <1>4, StagesFinite, FS_RemoveElement
<1>10. /\ queuedEntries = Cardinality(Stage("queued"))
       /\ queuedEntries \in Int
       /\ Stage("drained") = {}
  BY <1>7 DEF SchedInv, CountInv, TypeOK, StopInv, OnePlace, Drained
<1>11. WorkerInv'
  <2>1. \A v \in Workers : pc[v] # "exited"
    BY DEF SchedInv, WorkerInv
  <2>2. t # None
    BY <1>1, TaskAssumption
  <2>3. \A v \in Workers : /\ pc'[v] = IF v = w THEN "checking" ELSE pc[v]
                          /\ holding'[v] = IF v = w THEN t ELSE holding[v]
    BY <1>0 DEF SchedInv, TypeOK
  <2>4. \A v \in Workers : stage[holding[v]] = "settled" /\ holding[v] \in Tasks
                          => stage'[holding[v]] = "settled"
    BY <1>0, <1>2 DEF SchedInv, TypeOK
  <2>5. \A v \in Workers : holding[v] # None => holding[v] \in Tasks
    BY DEF SchedInv, TypeOK
  <2>6. QED
    BY <2>1, <2>2, <2>3, <2>4, <2>5 DEF SchedInv, WorkerInv
<1>12. CountInv'
  <2>1. queuedEntries' = Cardinality(Stage("queued")')
    BY <1>0, <1>9, <1>10
  <2>2. Stage("queued")' \cup Stage("drained")' = Stage("queued")'
    BY <1>4, <1>10
  <2>3. Cardinality(Stage("queued")') <= MaxEntries
    <3>1. Stage("queued") \cup Stage("drained") = Stage("queued")
      BY <1>10
    <3>2. Cardinality(Stage("queued")) <= MaxEntries
      BY <3>1 DEF SchedInv, CountInv
    <3>3. QED
      BY <1>9, <1>10, <3>2, LimitAssumption
  <2>4. {v \in Workers : holding'[v] # None} =
          {v \in Workers : holding[v] # None} \cup {w}
    <3>1. \A v \in Workers : holding'[v] = IF v = w THEN t ELSE holding[v]
      BY <1>0 DEF SchedInv, TypeOK
    <3>2. t # None
      BY <1>1, TaskAssumption
    <3>3. QED
      BY <3>1, <3>2
  <2>5. w \notin {v \in Workers : holding[v] # None}
    BY <1>5
  <2>6. active' = Cardinality({v \in Workers : holding'[v] # None})
    <3>1. Cardinality({v \in Workers : holding'[v] # None}) =
            Cardinality({v \in Workers : holding[v] # None}) + 1
      BY <2>4, <2>5, StagesFinite, FS_AddElement
    <3>2. QED
      BY <1>0, <3>1 DEF SchedInv, CountInv
  <2>7. QED
    BY <1>7, <2>1, <2>2, <2>3, <2>6 DEF CountInv
<1>13. QED
  BY <1>3, <1>6, <1>8, <1>11, <1>12 DEF SchedInv

LEMMA TakeInv ==
  ASSUME SchedInv, NEW w \in Workers, Take(w)
  PROVE  SchedInv'
<1>1. PICK i \in Busy : Pop(i, w)
  BY TakePops DEF SchedInv
<1>2. credits' \in [Index -> Nat] /\ next' \in Index
  BY TakePops DEF SchedInv
<1>3. QED
  BY <1>1, <1>2, PopInv DEF Take, clockVars, stopVars

\* A worker that answers its task, by running or cancelling it, or that goes
\* back for the next one.
LEMMA AnswerInv ==
  ASSUME SchedInv, NEW w \in Workers, CheckCancel(w) \/ RunDone(w)
  PROVE  SchedInv'
<1> DEFINE t == holding[w]
<1>0. /\ UNCHANGED <<now, tokens, queues, queuedEntries, queuedBytes, active, accepted,
                     rejected, cancelled, credits, next, enqueuedAt, verdict,
                     toNotify, holding, stopping, shutter, drained>>
      /\ pc[w] \in {"checking", "running"}
      /\ \/ pc' = [pc EXCEPT ![w] = "counting"]
         \/ pc' = [pc EXCEPT ![w] = "finishing"]
      /\ \E r \in Answer : Complete(t, r)
  BY DEF CheckCancel, RunDone, Recheck, Answer, clockVars, queueVars, pickVars, stopVars
<1>1. t \in Tasks /\ stage[t] = "taken"
  BY <1>0 DEF SchedInv, OnePlace, Held, Stage
<1> HIDE DEF t
<1>2. result[t] = None
  BY <1>1 DEF SchedInv, TaskInv
<1>3. PICK r \in Answer : /\ result' = [result EXCEPT ![t] = r]
                          /\ stage' = [stage EXCEPT ![t] = "settled"]
  BY <1>0, <1>2 DEF Complete, SchedInv, TypeOK
<1>4. TypeOK'
  <2>1. /\ stage' \in [Tasks -> {"new", "prepared", "refused", "queued", "taken",
                                "drained", "settled"}]
        /\ result' \in [Tasks -> Answer \cup {None}]
        /\ pc' \in [Workers -> {"idle", "asleep", "checking", "running", "counting",
                               "finishing", "exited"}]
    BY <1>0, <1>1, <1>3 DEF SchedInv, TypeOK
  <2>2. QED
    BY <1>0, <2>1, Zenon DEF SchedInv, TypeOK
<1>5. /\ Stage("queued")' = Stage("queued")
      /\ Stage("drained")' = Stage("drained")
      /\ Stage("taken")' = Stage("taken") \ {t}
  BY <1>1, <1>3 DEF Stage, SchedInv, TypeOK
<1>6. \A v \in Workers : v # w => holding[v] # t
  BY <1>1, TaskAssumption DEF SchedInv, OnePlace, Held, t
<1>7. \A v \in Workers :
        IF v = w THEN pc'[v] \in {"counting", "finishing"} ELSE pc'[v] = pc[v]
  BY <1>0 DEF SchedInv, TypeOK
<1>8. OnePlace'
  <2>1. Queued'
    <3>1. \A u \in Tasks : stage'[u] = "queued" <=> stage[u] = "queued"
      BY <1>1, <1>3 DEF SchedInv, TypeOK
    <3>2. \A i \in Index : \A k \in 1..Len(queues[i]) : queues[i][k] \in Tasks
      BY DEF SchedInv, TypeOK
    <3>3. QED
      BY <1>0, <1>5, <3>1, <3>2 DEF SchedInv, OnePlace, Queued
  <2>2. Held'
    BY <1>0, <1>5, <1>6, <1>7 DEF SchedInv, OnePlace, Held, t
  <2>3. Drained'
    BY <1>0, <1>5 DEF SchedInv, OnePlace, Drained
  <2>4. QED
    BY <2>1, <2>2, <2>3 DEF OnePlace
<1>9. TaskInv'
  <2>1. r # None
    BY TaskAssumption DEF Answer
  <2>2. QED
    BY <1>0, <1>1, <1>3, <2>1 DEF SchedInv, TypeOK, TaskInv
<1>10. WorkerInv'
  <2>1. \A u \in Tasks : stage[u] = "settled" \/ u = t => stage'[u] = "settled"
    BY <1>3 DEF SchedInv, TypeOK
  <2>2. \A v \in Workers : holding[v] # None => holding[v] \in Tasks
    BY DEF SchedInv, TypeOK
  <2>3. t # None
    BY <1>1, TaskAssumption
  <2>4. QED
    BY <1>0, <1>7, <2>1, <2>2, <2>3 DEF SchedInv, WorkerInv, t
<1>11. StopInv' /\ CountInv'
  BY <1>0, <1>5 DEF SchedInv, StopInv, CountInv
<1>12. QED
  BY <1>4, <1>8, <1>9, <1>10, <1>11 DEF SchedInv

LEMMA FinishInv ==
  ASSUME SchedInv, NEW w \in Workers, Finish(w)
  PROVE  SchedInv'
<1>0. /\ UNCHANGED <<now, tokens, queues, queuedEntries, queuedBytes, accepted,
                     rejected, cancelled, credits, next, stage, enqueuedAt, verdict,
                     result, toNotify, stopping, shutter, drained>>
      /\ pc[w] = "finishing"
      /\ active' = active - 1
      /\ holding' = [holding EXCEPT ![w] = None]
      /\ pc' = [pc EXCEPT ![w] = "idle"]
  BY DEF Finish, clockVars, queueVars, pickVars, taskVars, stopVars
<1>1. TypeOK'
  <2>1. /\ active' \in Int
        /\ holding' \in [Workers -> Tasks \cup {None}]
        /\ pc' \in [Workers -> {"idle", "asleep", "checking", "running", "counting",
                               "finishing", "exited"}]
    BY <1>0 DEF SchedInv, TypeOK
  <2>2. QED
    BY <1>0, <2>1, Zenon DEF SchedInv, TypeOK
<1>2. \A v \in Workers : /\ pc'[v] = IF v = w THEN "idle" ELSE pc[v]
                        /\ holding'[v] = IF v = w THEN None ELSE holding[v]
  BY <1>0 DEF SchedInv, TypeOK
<1>3. \A s : Stage(s)' = Stage(s)
  BY <1>0 DEF Stage
<1>4. OnePlace'
  <2>1. Queued' /\ Drained'
    BY <1>0, <1>3 DEF SchedInv, OnePlace, Queued, Drained
  <2>2. Held'
    BY <1>0, <1>2, <1>3 DEF SchedInv, OnePlace, Held
  <2>3. QED
    BY <2>1, <2>2 DEF OnePlace
<1>5. TaskInv' /\ StopInv'
  BY <1>0, <1>3 DEF SchedInv, TaskInv, StopInv
<1>6. WorkerInv'
  BY <1>0, <1>2 DEF SchedInv, WorkerInv
<1>7. CountInv'
  <2>1. w \in {v \in Workers : holding[v] # None}
    BY <1>0 DEF SchedInv, WorkerInv
  <2>2. {v \in Workers : holding'[v] # None} =
          {v \in Workers : holding[v] # None} \ {w}
    BY <1>2
  <2>3. active' = Cardinality({v \in Workers : holding'[v] # None})
    <3>1. Cardinality({v \in Workers : holding'[v] # None}) =
            Cardinality({v \in Workers : holding[v] # None}) - 1
      BY <2>1, <2>2, StagesFinite, FS_RemoveElement
    <3>2. QED
      BY <1>0, <3>1 DEF SchedInv, CountInv
  <2>4. QED
    BY <1>0, <1>3, <2>3 DEF SchedInv, CountInv
<1>8. QED
  BY <1>1, <1>4, <1>5, <1>6, <1>7 DEF SchedInv

-----------------------------------------------------------------------------
(* requestShutdown *)

LEMMA RequestShutdownInv ==
  ASSUME SchedInv, NEW cancelPending \in BOOLEAN, RequestShutdown(cancelPending)
  PROVE  SchedInv'
<1>0. /\ UNCHANGED <<now, tokens, queues, active, accepted, rejected, credits, next,
                     stage, enqueuedAt, verdict, result, toNotify, pc, holding, drained>>
      /\ ~stopping /\ stopping'
      /\ stopping' \in BOOLEAN
      /\ \/ /\ shutter' = "draining"
            /\ queuedEntries' = 0 /\ queuedBytes' = 0
            /\ cancelled' = cancelled + queuedEntries
         \/ /\ shutter' = "notifying"
            /\ UNCHANGED <<queuedEntries, queuedBytes, cancelled>>
  <2>1. ~stopping /\ stopping' = TRUE
    BY Zenon DEF RequestShutdown
  <2>2. /\ UNCHANGED <<now, tokens, queues, active, accepted, rejected, credits, next,
                       stage, enqueuedAt, verdict, result, toNotify, pc, holding, drained>>
    BY DEF RequestShutdown, clockVars, pickVars, taskVars, workerVars
  <2>3. \/ /\ shutter' = "draining"
           /\ queuedEntries' = 0 /\ queuedBytes' = 0
           /\ cancelled' = cancelled + queuedEntries
        \/ /\ shutter' = "notifying"
           /\ UNCHANGED <<queuedEntries, queuedBytes, cancelled>>
    BY DEF RequestShutdown
  <2>4. QED
    BY <2>1, <2>2, <2>3, Zenon
<1>1. TypeOK'
  <2>1. /\ queuedEntries' \in Int /\ queuedBytes' \in Int /\ cancelled' \in Int
        /\ shutter' \in {"none", "draining", "notifying", "done"}
    BY <1>0 DEF SchedInv, TypeOK
  <2>2. QED
    BY <1>0, <2>1, Zenon DEF SchedInv, TypeOK
<1>2. \A s : Stage(s)' = Stage(s)
  BY <1>0 DEF Stage
<1>3. OnePlace'
  BY <1>0, <1>2 DEF SchedInv, OnePlace, Queued, Held, Drained
<1>4. shutter = "none" /\ drained = None
  BY <1>0 DEF SchedInv, StopInv
<1>5. TaskInv'
  BY <1>0 DEF SchedInv, TaskInv
<1>6. WorkerInv'
  <2>1. \A w \in Workers : pc[w] # "exited"
    BY <1>0 DEF SchedInv, WorkerInv
  <2>2. QED
    BY <1>0, <2>1 DEF SchedInv, WorkerInv
<1>7. StopInv'
  BY <1>0, <1>4 DEF SchedInv, StopInv
<1>8. CountInv'
  BY <1>0, <1>2, <1>4 DEF SchedInv, CountInv
<1>9. QED
  BY <1>1, <1>3, <1>5, <1>6, <1>7, <1>8 DEF SchedInv

LEMMA DrainPopInv ==
  ASSUME SchedInv, DrainPop
  PROVE  SchedInv'
<1>0. PICK i \in Busy : /\ drained' = Head(queues[i])
                        /\ queues' = [queues EXCEPT ![i] = Tail(@)]
                        /\ stage' = [stage EXCEPT ![Head(queues[i])] = "drained"]
  BY DEF DrainPop
<1> DEFINE t == Head(queues[i])
<1>1. /\ UNCHANGED <<now, tokens, queuedEntries, queuedBytes, active, accepted, rejected,
                     cancelled, credits, next, enqueuedAt, verdict, result, toNotify,
                     pc, holding, stopping, shutter>>
      /\ shutter = "draining" /\ drained = None
  BY DEF DrainPop, clockVars, pickVars, workerVars
<1>2. /\ i \in Index /\ queues[i] \in Seq(Tasks) /\ queues[i] # <<>>
      /\ t \in Tasks /\ t = queues[i][1] /\ 1 \in 1..Len(queues[i])
  BY DEF Busy, SchedInv, TypeOK
<1>3. stage[t] = "queued"
  BY <1>2 DEF SchedInv, OnePlace, Queued
<1>4. Queued'
  BY <1>0, PopHeadQueued
<1> HIDE DEF t
<1>5. drained' = t /\ stage' = [stage EXCEPT ![t] = "drained"]
  BY <1>0 DEF t
<1>6. /\ Stage("queued")' = Stage("queued") \ {t}
      /\ Stage("taken")' = Stage("taken")
      /\ Stage("drained")' = Stage("drained") \cup {t}
      /\ t \in Stage("queued")
  BY <1>2, <1>3, <1>5 DEF Stage, SchedInv, TypeOK
<1>7. TypeOK'
  <2>1. /\ stage' \in [Tasks -> {"new", "prepared", "refused", "queued", "taken",
                                "drained", "settled"}]
        /\ drained' \in Tasks \cup {None}
        /\ queues' \in [Index -> Seq(Tasks)]
    BY <1>0, <1>2, <1>5 DEF SchedInv, TypeOK
  <2>2. QED
    BY <1>1, <2>1, Zenon DEF SchedInv, TypeOK
<1>8. OnePlace'
  <2>1. Held'
    BY <1>1, <1>6 DEF SchedInv, OnePlace, Held
  <2>2. Drained'
    <3>1. Stage("drained") = {} /\ t # None
      BY <1>1, <1>2, TaskAssumption DEF SchedInv, OnePlace, Drained
    <3>2. QED
      BY <1>5, <1>6, <3>1 DEF Drained
  <2>3. QED
    BY <1>4, <2>1, <2>2 DEF OnePlace
<1>9. TaskInv' /\ StopInv'
  BY <1>1, <1>2, <1>3, <1>5 DEF SchedInv, TypeOK, TaskInv, StopInv
<1>10. WorkerInv'
  <2>1. \A u \in Tasks : stage[u] = "settled" => stage'[u] = "settled"
    BY <1>3, <1>5 DEF SchedInv, TypeOK
  <2>2. \A v \in Workers : holding[v] # None => holding[v] \in Tasks
    BY DEF SchedInv, TypeOK
  <2>3. QED
    BY <1>1, <2>1, <2>2 DEF SchedInv, WorkerInv
<1>11. CountInv'
  <2>1. Stage("queued")' \cup Stage("drained")' = Stage("queued") \cup Stage("drained")
    BY <1>6
  <2>2. QED
    BY <1>1, <2>1 DEF SchedInv, CountInv
<1>12. QED
  BY <1>7, <1>8, <1>9, <1>10, <1>11 DEF SchedInv

LEMMA DrainCancelInv ==
  ASSUME SchedInv, DrainCancel
  PROVE  SchedInv'
<1> DEFINE t == drained
<1>1. /\ UNCHANGED <<now, tokens, queues, queuedEntries, queuedBytes, active, accepted,
                     rejected, cancelled, credits, next, enqueuedAt, verdict, toNotify,
                     pc, holding, stopping, shutter>>
      /\ drained # None /\ drained' = None
      /\ Complete(t, "Stopping")
  BY DEF DrainCancel, clockVars, queueVars, pickVars, workerVars
<1>2. t \in Tasks /\ stage[t] = "drained" /\ Stage("drained") = {t}
  <2>1. Stage("drained") = {t}
    BY <1>1 DEF SchedInv, OnePlace, Drained
  <2>2. QED
    BY <2>1 DEF Stage
<1>3. result[t] = None
  BY <1>2 DEF SchedInv, TaskInv
<1> HIDE DEF t
<1>4. /\ result' = [result EXCEPT ![t] = "Stopping"]
      /\ stage' = [stage EXCEPT ![t] = "settled"]
  BY <1>1, <1>2, <1>3 DEF Complete, SchedInv, TypeOK
<1>5. /\ Stage("queued")' = Stage("queued")
      /\ Stage("taken")' = Stage("taken")
      /\ Stage("drained")' = {}
  BY <1>2, <1>4 DEF Stage, SchedInv, TypeOK
<1>6. TypeOK'
  <2>1. /\ stage' \in [Tasks -> {"new", "prepared", "refused", "queued", "taken",
                                "drained", "settled"}]
        /\ result' \in [Tasks -> Answer \cup {None}]
        /\ drained' \in Tasks \cup {None}
    BY <1>1, <1>2, <1>4 DEF SchedInv, TypeOK, Answer
  <2>2. QED
    BY <1>1, <2>1, Zenon DEF SchedInv, TypeOK
<1>7. OnePlace'
  <2>1. Queued'
    <3>1. \A u \in Tasks : stage'[u] = "queued" <=> stage[u] = "queued"
      BY <1>2, <1>4 DEF SchedInv, TypeOK
    <3>2. \A i \in Index : \A k \in 1..Len(queues[i]) : queues[i][k] \in Tasks
      BY DEF SchedInv, TypeOK
    <3>3. QED
      BY <1>1, <1>5, <3>1, <3>2 DEF SchedInv, OnePlace, Queued
  <2>2. Held'
    BY <1>1, <1>5 DEF SchedInv, OnePlace, Held
  <2>3. Drained'
    BY <1>1, <1>5 DEF Drained
  <2>4. QED
    BY <2>1, <2>2, <2>3 DEF OnePlace
<1>8. TaskInv' /\ StopInv'
  BY <1>1, <1>2, <1>4, TaskAssumption DEF SchedInv, TypeOK, TaskInv, StopInv
<1>9. WorkerInv'
  <2>1. \A u \in Tasks : stage[u] = "settled" => stage'[u] = "settled"
    BY <1>4 DEF SchedInv, TypeOK
  <2>2. \A v \in Workers : holding[v] # None => holding[v] \in Tasks
    BY DEF SchedInv, TypeOK
  <2>3. QED
    BY <1>1, <2>1, <2>2 DEF SchedInv, WorkerInv
<1>10. CountInv'
  <2>1. Cardinality(Stage("queued")') <= Cardinality(Stage("queued") \cup Stage("drained"))
    <3>1. IsFiniteSet(Stage("queued") \cup Stage("drained"))
      BY StagesFinite, FS_Union
    <3>2. QED
      BY <1>5, <3>1, FS_Subset
  <2>2. /\ Cardinality(Stage("queued")') \in Nat
        /\ Cardinality(Stage("queued") \cup Stage("drained")) \in Nat
    BY <1>5, StagesFinite, FS_Union, FS_CardinalityType
  <2>3. Stage("queued")' \cup Stage("drained")' = Stage("queued")'
    BY <1>5
  <2>4. Cardinality(Stage("queued")') <= MaxEntries
    BY <2>1, <2>2, LimitAssumption DEF SchedInv, CountInv
  <2>5. shutter' = "draining"
    BY <1>1 DEF SchedInv, StopInv
  <2>6. active' = Cardinality({w \in Workers : holding'[w] # None})
    BY <1>1 DEF SchedInv, CountInv
  <2>7. QED
    BY <2>3, <2>4, <2>5, <2>6 DEF CountInv
<1>11. QED
  BY <1>6, <1>7, <1>8, <1>9, <1>10 DEF SchedInv

-----------------------------------------------------------------------------
(* Theorems *)

\* Every step keeps the invariant.
LEMMA SchedulerStep ==
  ASSUME SchedInv, [Next]_vars
  PROVE  SchedInv'
<1>1. ASSUME NEW t \in Tasks, Prepare(t) \/ SubmitterStep(t)
      PROVE  SchedInv'
  BY <1>1, RefusalInv, SubmitAcceptInv, IdleStepInv DEF SubmitterStep, IdleStep
<1>2. ASSUME NEW w \in Workers, WorkerStep(w)
      PROVE  SchedInv'
  BY <1>2, TakeInv, AnswerInv, FinishInv, IdleStepInv DEF WorkerStep, IdleStep
<1>3. ASSUME NEW cancelPending \in BOOLEAN, RequestShutdown(cancelPending)
      PROVE  SchedInv'
  BY <1>3, RequestShutdownInv
<1>4. CASE ShutterStep
  BY <1>4, DrainPopInv, DrainCancelInv, IdleStepInv DEF ShutterStep, IdleStep
<1>5. CASE \/ Tick \/ UNCHANGED vars
           \/ \E t \in Tasks : RequestCancellation(t)
           \/ \E w \in Workers : SpuriousWake(w)
  BY <1>5, IdleStepInv DEF IdleStep
<1>6. QED
  BY <1>1, <1>2, <1>3, <1>4, <1>5 DEF Next

\* SchedInv holds in every reachable state, for every set of tasks and workers,
\* all costs, bytes, deadlines and limits.
THEOREM SchedulerInvariant == Spec => []SchedInv
<1>1. Init => SchedInv
  BY InitInv
<1>2. SchedInv /\ [Next]_vars => SchedInv'
  BY SchedulerStep
<1>3. QED
  BY <1>1, <1>2, PTL DEF Spec

\* No accepted task is lost or held twice (queues_, workerLoop, requestShutdown).
THEOREM EveryTaskInOnePlace == Spec => []OnePlace
<1>1. SchedInv => OnePlace
  BY DEF SchedInv
<1>2. QED
  BY <1>1, SchedulerInvariant, PTL

\* When the shutting-down thread is done and every worker has left, every
\* accepted task has been answered (shutdown, ~WorkloadScheduler).
THEOREM JoinedSchedulerIsSettled == Spec => []JoinedMeansSettled
<1>1. SchedInv => JoinedMeansSettled
  <2> SUFFICES ASSUME SchedInv, shutter = "done", \A w \in Workers : pc[w] = "exited"
               PROVE  /\ \A t \in Tasks : verdict[t] = "Accepted" => result[t] # None
                      /\ queuedEntries = 0
                      /\ active = 0
    BY DEF JoinedMeansSettled
  <2>1. queuedEntries = 0
    BY TaskAssumption DEF SchedInv, WorkerInv
  <2>2. {w \in Workers : holding[w] # None} = {}
    BY DEF SchedInv, WorkerInv
  <2>3. active = 0
    BY <2>2, FS_EmptySet DEF SchedInv, CountInv
  <2>4. Stage("queued") = {}
    BY <2>1, StagesFinite, FS_EmptySet DEF SchedInv, CountInv
  <2>5. Stage("drained") = {}
    BY DEF SchedInv, OnePlace, Drained, StopInv
  <2>6. Stage("taken") = {}
    BY DEF SchedInv, OnePlace, Held
  <2>7. \A t \in Tasks : verdict[t] = "Accepted" => result[t] # None
    BY <2>4, <2>5, <2>6 DEF SchedInv, TaskInv, Stage
  <2>8. QED
    BY <2>1, <2>3, <2>7
<1>2. QED
  BY <1>1, SchedulerInvariant, PTL

\* A cancelling shutdown starts nothing that was still waiting.
THEOREM DrainStartsNothing == Spec => NothingStartsWhileDraining
<1>1. SchedInv /\ [Next]_vars =>
        [shutter = "draining" =>
           \A t \in Tasks : stage'[t] = "taken" => stage[t] = "taken"]_vars
  <2> SUFFICES ASSUME SchedInv, Next, shutter = "draining",
                      NEW t \in Tasks, stage'[t] = "taken"
               PROVE  stage[t] = "taken"
    OBVIOUS
  <2>1. queuedEntries = 0
    BY DEF SchedInv, StopInv
  <2>2. \A w \in Workers : ~Take(w)
    BY <2>1 DEF Take
  <2>3. \/ stage' = stage
        \/ \E u \in Tasks, s \in {"prepared", "queued", "refused", "settled", "drained"} :
             stage' = [stage EXCEPT ![u] = s]
    <3>1. ASSUME NEW w \in Workers, CheckCancel(w) \/ RunDone(w)
          PROVE  holding[w] \in Tasks
      BY <3>1 DEF CheckCancel, RunDone, SchedInv, OnePlace, Held, Stage
    <3>2. ASSUME DrainPop
          PROVE  \E u \in Tasks : stage' = [stage EXCEPT ![u] = "drained"]
      <4>1. PICK i \in Busy : stage' = [stage EXCEPT ![Head(queues[i])] = "drained"]
        BY <3>2 DEF DrainPop
      <4>2. Head(queues[i]) \in Tasks
        BY DEF Busy, SchedInv, TypeOK
      <4>3. QED
        BY <4>1, <4>2
    <3>3. ASSUME DrainCancel
          PROVE  drained \in Tasks
      BY <3>3 DEF DrainCancel, SchedInv, TypeOK
    <3>4. CASE Tick \/ ShutterStep \/ \E cp \in BOOLEAN : RequestShutdown(cp)
      BY <3>2, <3>3, <3>4
         DEF Tick, ShutterStep, DrainCancel, DrainEnd, NotifyAll, RequestShutdown,
             Complete, taskVars
    <3>5. ASSUME NEW u \in Tasks,
                 RequestCancellation(u) \/ Prepare(u) \/ SubmitterStep(u)
          PROVE  \/ stage' = stage
                 \/ \E s \in {"prepared", "queued", "refused", "settled"} :
                      stage' = [stage EXCEPT ![u] = s]
      BY <3>5 DEF RequestCancellation, Prepare, SubmitterStep, SubmitAccept,
                  SubmitRefuse, AnswerRefused, NotifyOne, Complete, taskVars
    <3>6. ASSUME NEW w \in Workers, WorkerStep(w) \/ SpuriousWake(w)
          PROVE  \/ stage' = stage
                 \/ \E u \in Tasks : stage' = [stage EXCEPT ![u] = "settled"]
      BY <2>2, <3>1, <3>6
         DEF WorkerStep, SpuriousWake, Exit, Sleep, CheckRun, CheckCancel, RunDone,
             CountCancelled, Finish, Complete, taskVars
    <3>7. QED
      BY <3>4, <3>5, <3>6 DEF Next
  <2>4. QED
    BY <2>3 DEF SchedInv, TypeOK
<1>2. QED
  BY <1>1, SchedulerInvariant, PTL DEF Spec, NothingStartsWhileDraining

-----------------------------------------------------------------------------
(* The counters of snapshot() *)

\* Byte units are counted task by task.
LEMMA TaskUnits ==
  ASSUME NEW t \in Tasks
  PROVE  /\ IsFiniteSet({t} \X (1..Bytes[t]))
         /\ Cardinality({t} \X (1..Bytes[t])) = Bytes[t]
<1>1. Bytes[t] \in Nat
  BY TaskAssumption
<1>2. IsFiniteSet(1..Bytes[t]) /\ Cardinality(1..Bytes[t]) = Bytes[t]
  BY <1>1, FS_Interval
<1>3. IsFiniteSet({t}) /\ Cardinality({t}) = 1
  BY FS_Singleton
<1>4. /\ IsFiniteSet({t} \X (1..Bytes[t]))
      /\ Cardinality({t} \X (1..Bytes[t])) = Cardinality({t}) * Cardinality(1..Bytes[t])
  BY <1>2, <1>3, FS_Product
<1>5. QED
  BY <1>1, <1>2, <1>3, <1>4

LEMMA UnitsFinite ==
  ASSUME NEW S \in SUBSET Tasks
  PROVE  IsFiniteSet(ByteUnits(S))
<1> DEFINE F == {{t} \X (1..Bytes[t]) : t \in S}
           f == [t \in S |-> {t} \X (1..Bytes[t])]
<1>1. IsFiniteSet(S)
  BY TaskAssumption, FS_Subset
<1>2. f \in Surjection(S, F)
  BY DEF Surjection
<1>3. IsFiniteSet(F)
  BY <1>1, <1>2, FS_Surjection
<1>4. \A U \in F : IsFiniteSet(U)
  BY TaskUnits
<1>5. QED
  BY <1>3, <1>4, FS_UNION DEF ByteUnits

LEMMA UnitsOfOneMore ==
  ASSUME NEW S \in SUBSET Tasks, NEW t \in Tasks, t \notin S
  PROVE  Cardinality(ByteUnits(S \cup {t})) = Cardinality(ByteUnits(S)) + Bytes[t]
<1> DEFINE U == {t} \X (1..Bytes[t])
           B == ByteUnits(S)
<1>1. ByteUnits(S \cup {t}) = B \cup U
  BY DEF ByteUnits
<1>2. B \cap U = {}
  BY DEF ByteUnits
<1>3. IsFiniteSet(B) /\ IsFiniteSet(U) /\ Cardinality(U) = Bytes[t]
  BY UnitsFinite, TaskUnits
<1> HIDE DEF U, B
<1>4. Cardinality(B \cup U) = Cardinality(B) + Cardinality(U) - Cardinality(B \cap U)
  BY <1>3, FS_Union
<1>5. Cardinality(B \cap U) = 0
  BY <1>2, FS_EmptySet
<1>6. Cardinality(B) \in Nat /\ Bytes[t] \in Nat
  BY <1>3, FS_CardinalityType, TaskAssumption
<1>7. Cardinality(B \cup U) = Cardinality(B) + Bytes[t]
  BY <1>3, <1>4, <1>5, <1>6
<1>8. QED
  BY <1>1, <1>7 DEF B

\* The head of a busy queue is a task that is queued.
LEMMA HeadIsQueued ==
  ASSUME SchedInv, NEW i \in Busy
  PROVE  Head(queues[i]) \in Tasks /\ stage[Head(queues[i])] = "queued"
<1>1. /\ i \in Index /\ queues[i] \in Seq(Tasks) /\ queues[i] # <<>>
  BY DEF Busy, SchedInv, TypeOK
<1>2. /\ Head(queues[i]) \in Tasks
      /\ Head(queues[i]) = queues[i][1] /\ 1 \in 1..Len(queues[i])
  BY <1>1
<1>3. QED
  BY <1>1, <1>2 DEF SchedInv, OnePlace, Queued

\* A worker that answers a task holds a taken one, which has no answer yet.
LEMMA AnsweredIsTaken ==
  ASSUME SchedInv, NEW w \in Workers, CheckCancel(w) \/ RunDone(w)
  PROVE  /\ holding[w] \in Tasks /\ stage[holding[w]] = "taken"
         /\ verdict[holding[w]] = "Accepted" /\ result[holding[w]] = None
         /\ stage' = [stage EXCEPT ![holding[w]] = "settled"]
<1>1. holding[w] \in Tasks /\ stage[holding[w]] = "taken"
  BY DEF CheckCancel, RunDone, SchedInv, OnePlace, Held, Stage
<1>2. QED
  BY <1>1 DEF CheckCancel, RunDone, Complete, SchedInv, TaskInv

LEMMA DrainedIsAccepted ==
  ASSUME SchedInv, drained # None
  PROVE  /\ drained \in Tasks /\ stage[drained] = "drained"
         /\ Stage("drained") = {drained}
         /\ verdict[drained] = "Accepted" /\ result[drained] = None
         /\ shutter = "draining"
<1>1. Stage("drained") = {drained}
  BY DEF SchedInv, OnePlace, Drained
<1>2. drained \in Tasks /\ stage[drained] = "drained"
  BY <1>1 DEF Stage
<1>3. QED
  BY <1>1, <1>2 DEF SchedInv, TaskInv, StopInv

\* When no queue is busy, no task is queued.
LEMMA NothingQueued ==
  ASSUME SchedInv, Busy = {}
  PROVE  Stage("queued") = {}
<1>1. \A i \in Index : queues[i] = <<>>
  BY Zenon DEF Busy
<1>2. \A t \in Tasks : 1..Len(queues[QueueIndex(Cost[t])]) = {}
  BY <1>1, QueueIndexType
<1>3. QED
  BY <1>2 DEF SchedInv, OnePlace, Queued, Stage

\* A step that neither admits nor takes nor drains a task leaves the queued ones.
OtherStep ==
  \/ Tick \/ NotifyAll \/ DrainCancel \/ UNCHANGED vars
  \/ \E t \in Tasks : \/ RequestCancellation(t) \/ Prepare(t) \/ SubmitRefuse(t)
                      \/ AnswerRefused(t) \/ NotifyOne(t)
  \/ \E w \in Workers : \/ Exit(w) \/ Sleep(w) \/ SpuriousWake(w) \/ CheckRun(w)
                        \/ CheckCancel(w) \/ RunDone(w) \/ CountCancelled(w)
                        \/ Finish(w)

LEMMA StepCases ==
  ASSUME [Next]_vars
  PROVE  \/ \E t \in Tasks : SubmitAccept(t)
         \/ \E w \in Workers : Take(w)
         \/ \E cancelPending \in BOOLEAN : RequestShutdown(cancelPending)
         \/ DrainPop \/ DrainEnd \/ OtherStep
BY Zenon DEF Next, SubmitterStep, WorkerStep, ShutterStep, OtherStep

LEMMA OtherStepKeepsQueued ==
  ASSUME SchedInv, OtherStep
  PROVE  /\ Stage("queued")' = Stage("queued")
         /\ queuedBytes' = queuedBytes
         /\ shutter' = "draining" <=> shutter = "draining"
<1>1. queuedBytes' = queuedBytes
  BY Zenon DEF OtherStep, Tick, NotifyAll, DrainCancel, RequestCancellation, Prepare,
     SubmitRefuse, AnswerRefused, NotifyOne, Exit, Sleep, SpuriousWake, CheckRun,
     CheckCancel, RunDone, CountCancelled, Finish, vars, queueVars
<1>2. shutter' = "draining" <=> shutter = "draining"
  BY DEF OtherStep, Tick, NotifyAll, DrainCancel, RequestCancellation, Prepare,
     SubmitRefuse, AnswerRefused, NotifyOne, Exit, Sleep, SpuriousWake, CheckRun,
     CheckCancel, RunDone, CountCancelled, Finish, vars, stopVars
<1>3. \/ stage' = stage
      \/ \E t \in Tasks, s \in {"prepared", "refused", "settled"} :
           stage[t] # "queued" /\ stage' = [stage EXCEPT ![t] = s]
  <2>1. ASSUME NEW t \in Tasks, Prepare(t) \/ SubmitRefuse(t) \/ AnswerRefused(t)
        PROVE  \E s \in {"prepared", "refused", "settled"} :
                 stage[t] # "queued" /\ stage' = [stage EXCEPT ![t] = s]
    BY <2>1 DEF Prepare, SubmitRefuse, AnswerRefused, Complete
  <2>2. ASSUME DrainCancel
        PROVE  /\ drained \in Tasks /\ stage[drained] # "queued"
               /\ stage' = [stage EXCEPT ![drained] = "settled"]
    BY <2>2, DrainedIsAccepted DEF DrainCancel, Complete
  <2>3. ASSUME NEW w \in Workers, CheckCancel(w) \/ RunDone(w)
        PROVE  /\ holding[w] \in Tasks /\ stage[holding[w]] # "queued"
               /\ stage' = [stage EXCEPT ![holding[w]] = "settled"]
    BY <2>3, AnsweredIsTaken
  <2>4. CASE \/ Tick \/ NotifyAll \/ UNCHANGED vars
             \/ \E t \in Tasks : RequestCancellation(t) \/ NotifyOne(t)
             \/ \E w \in Workers : \/ Exit(w) \/ Sleep(w) \/ SpuriousWake(w)
                                    \/ CheckRun(w) \/ CountCancelled(w) \/ Finish(w)
    BY <2>4, Zenon DEF Tick, NotifyAll, RequestCancellation, NotifyOne, Exit, Sleep,
       SpuriousWake, CheckRun, CountCancelled, Finish, vars, taskVars
  <2>5. QED
    BY <2>1, <2>2, <2>3, <2>4 DEF OtherStep
<1>4. \A u \in Tasks : stage'[u] = "queued" <=> stage[u] = "queued"
  BY <1>3 DEF SchedInv, TypeOK
<1>5. QED
  BY <1>1, <1>2, <1>4 DEF Stage

\* queued_bytes_ is the sum of the queued tasks' bytes, and within its limit.
LEMMA BytesStep ==
  ASSUME SchedInv, BytesCounted, [Next]_vars
  PROVE  BytesCounted'
<1>0. /\ Stage("queued") \in SUBSET Tasks
      /\ Cardinality(ByteUnits(Stage("queued"))) \in Nat
      /\ queuedBytes \in Int /\ MaxBytes \in Nat
      /\ \A t \in Tasks : Bytes[t] \in Nat
  BY UnitsFinite, FS_CardinalityType, LimitAssumption, TaskAssumption
     DEF Stage, SchedInv, TypeOK
<1>1. ASSUME NEW t \in Tasks, SubmitAccept(t) PROVE BytesCounted'
  <2>1. /\ stage[t] = "prepared"
        /\ queuedBytes' = queuedBytes + Bytes[t]
        /\ stage' = [stage EXCEPT ![t] = "queued"]
        /\ shutter' = shutter
    BY <1>1 DEF SubmitAccept, stopVars
  <2>2. ~stopping /\ ~(Bytes[t] > MaxBytes \/ queuedBytes > MaxBytes - Bytes[t])
    BY <1>1 DEF SubmitAccept, Admission
  <2>3. shutter = "none"
    BY <2>2 DEF SchedInv, StopInv
  <2>4. Stage("queued")' = Stage("queued") \cup {t} /\ t \notin Stage("queued")
    BY <2>1 DEF Stage, SchedInv, TypeOK
  <2>5. Cardinality(ByteUnits(Stage("queued")')) =
          Cardinality(ByteUnits(Stage("queued"))) + Bytes[t]
    BY <1>0, <2>4, UnitsOfOneMore
  <2>6. ByteUnits(Stage("queued"))' = ByteUnits(Stage("queued")')
    BY DEF ByteUnits
  <2>7. QED
    BY <1>0, <2>1, <2>2, <2>3, <2>5, <2>6 DEF BytesCounted
<1>2. ASSUME NEW w \in Workers, Take(w) PROVE BytesCounted'
  <2>1. PICK i \in Busy : Pop(i, w)
    BY <1>2, TakePops DEF SchedInv
  <2> DEFINE t == Head(queues[i])
  <2>2. t \in Tasks /\ stage[t] = "queued"
    BY HeadIsQueued
  <2>3. /\ queuedBytes' = queuedBytes - Bytes[t]
        /\ stage' = [stage EXCEPT ![t] = "taken"]
    BY <2>1, Zenon DEF Pop
  <2> HIDE DEF t
  <2>4. shutter' = shutter /\ queuedEntries # 0
    BY <1>2 DEF Take, stopVars
  <2>5. shutter # "draining"
    BY <2>4 DEF SchedInv, StopInv
  <2>6. /\ Stage("queued") = Stage("queued")' \cup {t}
        /\ t \notin Stage("queued")' /\ Stage("queued")' \in SUBSET Tasks
    BY <2>2, <2>3 DEF Stage, SchedInv, TypeOK
  <2>7. Cardinality(ByteUnits(Stage("queued"))) =
          Cardinality(ByteUnits(Stage("queued")')) + Bytes[t]
    BY <2>2, <2>6, UnitsOfOneMore
  <2>8. Cardinality(ByteUnits(Stage("queued")')) \in Nat
    BY <2>6, UnitsFinite, FS_CardinalityType
  <2>9. ByteUnits(Stage("queued"))' = ByteUnits(Stage("queued")')
    BY DEF ByteUnits
  <2>10. QED
    BY <1>0, <2>2, <2>3, <2>4, <2>5, <2>7, <2>8, <2>9 DEF BytesCounted
<1>3. ASSUME NEW cancelPending \in BOOLEAN, RequestShutdown(cancelPending)
      PROVE  BytesCounted'
  <2>1. ~stopping /\ UNCHANGED stage
    BY <1>3 DEF RequestShutdown, taskVars
  <2>2. shutter = "none"
    BY <2>1 DEF SchedInv, StopInv
  <2>3. ByteUnits(Stage("queued"))' = ByteUnits(Stage("queued"))
    BY <2>1 DEF ByteUnits, Stage
  <2>4. \/ shutter' = "draining" /\ queuedBytes' = 0
        \/ shutter' = "notifying" /\ queuedBytes' = queuedBytes
    BY <1>3 DEF RequestShutdown
  <2>5. QED
    BY <1>0, <2>2, <2>3, <2>4 DEF BytesCounted
<1>4. CASE DrainPop
  BY <1>4, Zenon DEF DrainPop, BytesCounted
<1>5. CASE DrainEnd
  <2>1. shutter = "draining" /\ Busy = {} /\ shutter' = "notifying"
        /\ UNCHANGED <<stage, queuedBytes>>
    BY <1>5 DEF DrainEnd, taskVars, queueVars
  <2>2. Stage("queued") = {}
    BY <2>1, NothingQueued
  <2>3. Stage("queued")' = {}
    BY <2>1, <2>2 DEF Stage
  <2>4. ByteUnits(Stage("queued"))' = {}
    BY <2>3 DEF ByteUnits
  <2>5. QED
    BY <2>1, <2>4, FS_EmptySet DEF BytesCounted
<1>6. CASE OtherStep
  <2>1. ByteUnits(Stage("queued"))' = ByteUnits(Stage("queued"))
    BY <1>6, OtherStepKeepsQueued DEF ByteUnits
  <2>2. QED
    BY <1>6, <2>1, OtherStepKeepsQueued DEF BytesCounted
<1>7. QED
  BY <1>1, <1>2, <1>3, <1>4, <1>5, <1>6, StepCases

\* Every verdict is counted once, as accepted or as rejected.
LEMMA VerdictsStep ==
  ASSUME SchedInv, VerdictsCounted, [Next]_vars
  PROVE  VerdictsCounted'
<1> DEFINE A == {t \in Tasks : verdict[t] = "Accepted"}
           R == {t \in Tasks : verdict[t] \notin {None, "Accepted"}}
<1>1. IsFiniteSet(A) /\ IsFiniteSet(R)
  BY TaskAssumption, FS_Subset
<1>2. ASSUME NEW t \in Tasks, SubmitAccept(t) PROVE VerdictsCounted'
  <2>1. /\ verdict[t] = None /\ verdict' = [verdict EXCEPT ![t] = "Accepted"]
        /\ accepted' = accepted + 1 /\ rejected' = rejected
    BY <1>2 DEF SubmitAccept, SchedInv, TaskInv
  <2>2. A' = A \cup {t} /\ t \notin A /\ R' = R
    BY <2>1, TaskAssumption DEF SchedInv, TypeOK
  <2>3. Cardinality(A') = Cardinality(A) + 1
    BY <1>1, <2>2, FS_AddElement
  <2>4. QED
    BY <2>1, <2>2, <2>3 DEF VerdictsCounted
<1>3. ASSUME NEW t \in Tasks, SubmitRefuse(t) PROVE VerdictsCounted'
  <2>1. /\ verdict[t] = None /\ verdict' = [verdict EXCEPT ![t] = Admission(t)]
        /\ rejected' = rejected + 1 /\ accepted' = accepted
    BY <1>3 DEF SubmitRefuse, SchedInv, TaskInv
  <2>2. Admission(t) \notin {None, "Accepted"}
    BY <1>3, TaskAssumption DEF SubmitRefuse, Admission
  <2>3. R' = R \cup {t} /\ t \notin R /\ A' = A
    BY <2>1, <2>2, TaskAssumption DEF SchedInv, TypeOK
  <2>4. Cardinality(R') = Cardinality(R) + 1
    BY <1>1, <2>3, FS_AddElement
  <2>5. QED
    BY <2>1, <2>3, <2>4 DEF VerdictsCounted
<1>4. ASSUME UNCHANGED <<verdict, accepted, rejected>> PROVE VerdictsCounted'
  BY <1>4 DEF VerdictsCounted
<1>5. \/ \E t \in Tasks : SubmitAccept(t) \/ SubmitRefuse(t)
      \/ UNCHANGED <<verdict, accepted, rejected>>
  BY StepCases, Zenon
     DEF OtherStep, Tick, NotifyAll, DrainCancel, RequestCancellation, Prepare,
         AnswerRefused, NotifyOne, Exit, Sleep, SpuriousWake, CheckRun,
         CheckCancel, RunDone, CountCancelled, Finish, Take, RequestShutdown, DrainPop,
         DrainEnd, vars, taskVars
<1>6. QED
  BY <1>2, <1>3, <1>4, <1>5

\* A step that cancels nothing and counts nothing leaves both sides of the balance of
\* cancelled_ as they were.
LEMMA BalanceFrame ==
  ASSUME CancellationsCounted, cancelled' = cancelled,
         CountsAsCancelled' = CountsAsCancelled, ToBeDrained' = ToBeDrained,
         \A w \in Workers : pc'[w] = "counting" <=> pc[w] = "counting"
  PROVE  CancellationsCounted'
<1>1. {w \in Workers : pc'[w] = "counting"} = {w \in Workers : pc[w] = "counting"}
  OBVIOUS
<1>2. (CountsAsCancelled \cup ToBeDrained)' = CountsAsCancelled \cup ToBeDrained
  OBVIOUS
<1>3. QED
  BY <1>1, <1>2 DEF CancellationsCounted

\* The steps that cancel nothing: they leave the answers but of a task that ran or was
\* never accepted, and the worker is not about to count before them or after.
LEMMA UncancellingStep ==
  ASSUME SchedInv, CancellationsCounted,
         \/ \E t \in Tasks : SubmitterStep(t) \/ Prepare(t) \/ RequestCancellation(t)
         \/ \E w \in Workers : \/ Take(w) \/ Exit(w) \/ Sleep(w) \/ SpuriousWake(w)
                               \/ CheckRun(w) \/ RunDone(w) \/ Finish(w)
         \/ RequestShutdown(FALSE)
         \/ Tick \/ DrainPop \/ DrainEnd \/ NotifyAll \/ UNCHANGED vars
  PROVE  CancellationsCounted'
<1>1. cancelled' = cancelled
  BY Zenon DEF SubmitterStep, SubmitAccept, SubmitRefuse, AnswerRefused, NotifyOne,
     Prepare, RequestCancellation, Take, Exit, Sleep, SpuriousWake, CheckRun, RunDone,
     Finish, RequestShutdown, Tick, DrainPop, DrainEnd, NotifyAll, vars
<1>2. \A w \in Workers : pc'[w] = "counting" <=> pc[w] = "counting"
  <2>1. ASSUME NEW w \in Workers, Take(w)
        PROVE  pc[w] = "idle" /\ pc' = [pc EXCEPT ![w] = "checking"]
    <3>1. PICK i \in Busy : Pop(i, w)
      BY <2>1, TakePops DEF SchedInv
    <3>2. QED
      BY <2>1, <3>1 DEF Take, Pop
  <2>2. ASSUME NEW w \in Workers,
               \/ Exit(w) \/ Sleep(w) \/ SpuriousWake(w)
               \/ CheckRun(w) \/ RunDone(w) \/ Finish(w)
        PROVE  pc[w] # "counting" /\ \E s \in {"exited", "asleep", "idle", "running",
                                              "finishing"} : pc' = [pc EXCEPT ![w] = s]
    BY <2>2 DEF Exit, Sleep, SpuriousWake, CheckRun, RunDone, Finish
  <2>3. CASE \/ \E t \in Tasks : SubmitterStep(t) \/ Prepare(t) \/ RequestCancellation(t)
             \/ RequestShutdown(FALSE) \/ Tick \/ DrainPop \/ DrainEnd \/ NotifyAll
             \/ UNCHANGED vars
    BY <2>3 DEF SubmitterStep, SubmitAccept, SubmitRefuse, AnswerRefused, NotifyOne,
       Prepare, RequestCancellation, RequestShutdown, Tick, DrainPop, DrainEnd,
       NotifyAll, vars, workerVars, SchedInv, TypeOK
  <2>4. QED
    BY <2>1, <2>2, <2>3 DEF SchedInv, TypeOK
<1>3. CountsAsCancelled' = CountsAsCancelled
  <2>1. ASSUME NEW t \in Tasks, SubmitAccept(t) \/ SubmitRefuse(t)
        PROVE  CountsAsCancelled' = CountsAsCancelled
    <3>1. /\ verdict[t] = None /\ result[t] = None /\ result' = result
          /\ \E v : verdict' = [verdict EXCEPT ![t] = v]
      BY <2>1 DEF SubmitAccept, SubmitRefuse, SchedInv, TaskInv
    <3>2. QED
      BY <3>1 DEF CountsAsCancelled, SchedInv, TypeOK
  <2>2. ASSUME NEW t \in Tasks, AnswerRefused(t)
        PROVE  CountsAsCancelled' = CountsAsCancelled
    <3>1. /\ verdict[t] # "Accepted" /\ verdict' = verdict
          /\ \A u \in Tasks : u # t => result'[u] = result[u]
      BY <2>2 DEF AnswerRefused, Complete, SchedInv, TypeOK, TaskInv
    <3>2. QED
      BY <3>1 DEF CountsAsCancelled
  <2>3. ASSUME NEW w \in Workers, RunDone(w)
        PROVE  CountsAsCancelled' = CountsAsCancelled
    <3>1. holding[w] \in Tasks /\ result[holding[w]] = None
      BY <2>3, AnsweredIsTaken
    <3>2. result' = [result EXCEPT ![holding[w]] = "Ran"] /\ verdict' = verdict
      BY <2>3, <3>1 DEF RunDone, Complete, SchedInv, TypeOK
    <3>3. QED
      BY <3>1, <3>2 DEF CountsAsCancelled, SchedInv, TypeOK
  <2>4. CASE UNCHANGED <<verdict, result>>
    BY <2>4 DEF CountsAsCancelled
  <2>5. \/ UNCHANGED <<verdict, result>>
        \/ \E t \in Tasks : SubmitAccept(t) \/ SubmitRefuse(t) \/ AnswerRefused(t)
        \/ \E w \in Workers : RunDone(w)
    BY Zenon DEF SubmitterStep, NotifyOne, Prepare, RequestCancellation, Take, Exit,
       Sleep, SpuriousWake, CheckRun, Finish, RequestShutdown, Tick, DrainPop, DrainEnd,
       NotifyAll, vars, taskVars
  <2>6. QED
    BY <2>1, <2>2, <2>3, <2>4, <2>5
<1>4. ToBeDrained' = ToBeDrained
  <2>1. CASE DrainPop
    <3>1. PICK i \in Busy : stage' = [stage EXCEPT ![Head(queues[i])] = "drained"]
      BY <2>1 DEF DrainPop
    <3>2. Head(queues[i]) \in Tasks /\ stage[Head(queues[i])] = "queued"
      BY HeadIsQueued
    <3>3. shutter' = shutter
      BY <2>1 DEF DrainPop
    <3>4. QED
      BY <3>1, <3>2, <3>3 DEF ToBeDrained, Stage, SchedInv, TypeOK
  <2>2. CASE DrainEnd
    <3>1. /\ shutter = "draining" /\ shutter' = "notifying"
          /\ Busy = {} /\ drained = None
      BY <2>2 DEF DrainEnd
    <3>2. Stage("queued") = {}
      BY <3>1, NothingQueued
    <3>3. Stage("drained") = {}
      BY <3>1 DEF SchedInv, OnePlace, Drained
    <3>4. QED
      BY <3>1, <3>2, <3>3 DEF ToBeDrained
  <2>3. CASE shutter # "draining"
    <3>1. shutter' # "draining"
      BY <2>3, Zenon
         DEF SubmitterStep, SubmitAccept, SubmitRefuse, AnswerRefused, NotifyOne,
             Prepare, RequestCancellation, Take, Exit, Sleep, SpuriousWake, CheckRun,
             RunDone, Finish, RequestShutdown, Tick, DrainPop, DrainEnd, NotifyAll, vars,
             stopVars
    <3>2. QED
      BY <2>3, <3>1 DEF ToBeDrained
  <2>4. CASE shutter = "draining" /\ ~DrainPop /\ ~DrainEnd
    <3>1. stopping /\ queuedEntries = 0
      BY <2>4 DEF SchedInv, StopInv
    <3>2. OtherStep /\ UNCHANGED <<shutter, drained>>
      <4>1. /\ \A t \in Tasks : ~SubmitAccept(t)
            /\ \A w \in Workers : ~Take(w)
            /\ ~RequestShutdown(FALSE) /\ ~NotifyAll
        BY <2>4, <3>1 DEF SubmitAccept, Admission, Take, RequestShutdown, NotifyAll
      <4>2. \/ \E t \in Tasks : \/ SubmitRefuse(t) \/ AnswerRefused(t) \/ NotifyOne(t)
                                \/ Prepare(t) \/ RequestCancellation(t)
            \/ \E w \in Workers : \/ Exit(w) \/ Sleep(w) \/ SpuriousWake(w)
                                  \/ CheckRun(w) \/ RunDone(w) \/ Finish(w)
            \/ Tick \/ UNCHANGED vars
        BY <2>4, <4>1, Zenon DEF SubmitterStep
      <4>3. UNCHANGED <<shutter, drained>>
        BY <4>2, Zenon DEF Tick, RequestCancellation, Prepare, SubmitRefuse,
           AnswerRefused, NotifyOne, Exit, Sleep, SpuriousWake, CheckRun, RunDone,
           Finish, vars, stopVars
      <4>4. QED
        BY <4>2, <4>3, Zenon DEF OtherStep
    <3>3. Stage("queued")' = Stage("queued")
      BY <3>2, OtherStepKeepsQueued
    <3>4. Stage("drained") = {drained} \ {None} /\ Stage("drained")' = {drained'} \ {None}
      <4>1. SchedInv'
        BY <3>2, SchedulerStep DEF Next, OtherStep, SubmitterStep, WorkerStep, ShutterStep
      <4>2. QED
        BY <4>1 DEF SchedInv, OnePlace, Drained
    <3>5. QED
      BY <3>2, <3>3, <3>4 DEF ToBeDrained
  <2>5. QED
    BY <2>1, <2>2, <2>3, <2>4
<1>5. QED
  BY <1>1, <1>2, <1>3, <1>4, BalanceFrame

\* cancelled_ and the workers that are about to increment it make up the accepted
\* tasks that were, or in a cancelling shutdown will be, answered without being run.
LEMMA CancellationsStep ==
  ASSUME SchedInv, CancellationsCounted, [Next]_vars
  PROVE  CancellationsCounted'
<1> DEFINE N == {w \in Workers : pc[w] = "counting"}
           C == CountsAsCancelled \cup ToBeDrained
<1>0. /\ IsFiniteSet(N) /\ IsFiniteSet(C)
      /\ Cardinality(N) \in Nat /\ Cardinality(C) \in Nat /\ cancelled \in Int
  <2>1. C \subseteq Tasks
    BY DEF CountsAsCancelled, ToBeDrained, Stage
  <2>2. IsFiniteSet(N) /\ IsFiniteSet(C)
    BY <2>1, TaskAssumption, FS_Subset
  <2>3. QED
    BY <2>2, FS_CardinalityType DEF SchedInv, TypeOK
<1>1. ASSUME NEW w \in Workers, CheckCancel(w) PROVE CancellationsCounted'
  <2> DEFINE t == holding[w]
  <2>1. /\ t \in Tasks /\ stage[t] = "taken"
        /\ verdict[t] = "Accepted" /\ result[t] = None
        /\ stage' = [stage EXCEPT ![t] = "settled"]
    BY <1>1, AnsweredIsTaken
  <2>2. /\ pc[w] = "checking" /\ pc' = [pc EXCEPT ![w] = "counting"]
        /\ cancelled' = cancelled /\ verdict' = verdict /\ shutter' = shutter
        /\ \E r \in {"Cancelled", "Deadline"} : Complete(t, r)
    BY <1>1 DEF CheckCancel, Recheck, stopVars
  <2> HIDE DEF t
  <2>3. PICK r \in {"Cancelled", "Deadline"} : result' = [result EXCEPT ![t] = r]
    BY <2>1, <2>2 DEF Complete, SchedInv, TypeOK
  <2>4. N' = N \cup {w} /\ w \notin N
    BY <2>2 DEF SchedInv, TypeOK
  <2>5. C' = C \cup {t} /\ t \notin C
    <3>1. CountsAsCancelled' = CountsAsCancelled \cup {t} /\ t \notin CountsAsCancelled
      BY <2>1, <2>2, <2>3, TaskAssumption DEF CountsAsCancelled, SchedInv, TypeOK
    <3>2. ToBeDrained' = ToBeDrained /\ t \notin ToBeDrained
      BY <2>1, <2>2 DEF ToBeDrained, Stage, SchedInv, TypeOK
    <3>3. QED
      BY <3>1, <3>2
  <2>6. Cardinality(N') = Cardinality(N) + 1 /\ Cardinality(C') = Cardinality(C) + 1
    BY <1>0, <2>4, <2>5, FS_AddElement
  <2>7. QED
    BY <1>0, <2>2, <2>6 DEF CancellationsCounted
<1>2. ASSUME NEW w \in Workers, CountCancelled(w) PROVE CancellationsCounted'
  <2>1. /\ pc[w] = "counting" /\ pc' = [pc EXCEPT ![w] = "finishing"]
        /\ cancelled' = cancelled + 1 /\ UNCHANGED <<stage, verdict, result, shutter>>
    BY <1>2 DEF CountCancelled, taskVars, stopVars
  <2>2. N' = N \ {w} /\ w \in N
    BY <2>1 DEF SchedInv, TypeOK
  <2>3. C' = C
    BY <2>1 DEF CountsAsCancelled, ToBeDrained, Stage
  <2>4. Cardinality(N') = Cardinality(N) - 1
    BY <1>0, <2>2, FS_RemoveElement
  <2>5. cancelled' + Cardinality(N') = cancelled + Cardinality(N)
    BY <1>0, <2>1, <2>4
  <2>6. QED
    BY <2>3, <2>5 DEF CancellationsCounted
<1>3. ASSUME RequestShutdown(TRUE) PROVE CancellationsCounted'
  <2>1. /\ ~stopping /\ shutter' = "draining" /\ cancelled' = cancelled + queuedEntries
        /\ UNCHANGED <<stage, verdict, result, pc>>
    BY <1>3 DEF RequestShutdown, taskVars, workerVars
  <2>2. /\ shutter = "none" /\ Stage("drained") = {}
        /\ queuedEntries = Cardinality(Stage("queued"))
    BY <2>1 DEF SchedInv, StopInv, CountInv, OnePlace, Drained
  <2>3. C = CountsAsCancelled /\ C' = C \cup Stage("queued")
    BY <2>1, <2>2 DEF CountsAsCancelled, ToBeDrained, Stage
  <2>4. C \cap Stage("queued") = {}
    BY <2>3 DEF CountsAsCancelled, Stage, SchedInv, TaskInv
  <2>5. Cardinality(C \cap Stage("queued")) = 0 /\ IsFiniteSet(Stage("queued"))
    BY <2>4, StagesFinite, FS_EmptySet
  <2>6. Cardinality(C') = Cardinality(C) + Cardinality(Stage("queued"))
                          - Cardinality(C \cap Stage("queued"))
    BY <1>0, <2>3, <2>5, FS_Union
  <2>7. Cardinality(Stage("queued")) \in Nat
    BY <2>5, FS_CardinalityType
  <2>8. N' = N
    BY <2>1
  <2>9. QED
    BY <1>0, <2>1, <2>2, <2>5, <2>6, <2>7, <2>8 DEF CancellationsCounted
<1>4. CASE DrainCancel
  <2> DEFINE t == drained
  <2>1. /\ t \in Tasks /\ stage[t] = "drained" /\ Stage("drained") = {t}
        /\ verdict[t] = "Accepted" /\ result[t] = None /\ shutter = "draining"
    BY <1>4, DrainedIsAccepted DEF DrainCancel
  <2>2. /\ Complete(t, "Stopping")
        /\ UNCHANGED <<verdict, shutter, pc, cancelled>>
    BY <1>4 DEF DrainCancel, workerVars
  <2> HIDE DEF t
  <2>3. /\ result' = [result EXCEPT ![t] = "Stopping"]
        /\ stage' = [stage EXCEPT ![t] = "settled"]
    BY <2>1, <2>2 DEF Complete, SchedInv, TypeOK
  <2>4. CountsAsCancelled' = CountsAsCancelled \cup {t}
    BY <2>1, <2>2, <2>3, TaskAssumption DEF CountsAsCancelled, SchedInv, TypeOK
  <2>5. ToBeDrained' = ToBeDrained \ {t} /\ t \in ToBeDrained
    BY <2>1, <2>2, <2>3 DEF ToBeDrained, Stage, SchedInv, TypeOK
  <2>6. C' = C
    BY <2>4, <2>5
  <2>7. N' = N
    BY <2>2
  <2>8. QED
    BY <2>2, <2>6, <2>7 DEF CancellationsCounted
<1>5. QED
  BY <1>1, <1>2, <1>3, <1>4, UncancellingStep, Zenon
     DEF Next, WorkerStep, ShutterStep

\* The counters of snapshot() are exact in every reachable state: no interleaving of
\* submissions, workers and a shutdown loses or repeats an update.
THEOREM CountersAreExact == Spec => []Accounting
<1>1. Init => BytesCounted /\ VerdictsCounted /\ CancellationsCounted
  <2> SUFFICES ASSUME Init
               PROVE  BytesCounted /\ VerdictsCounted /\ CancellationsCounted
    OBVIOUS
  <2>1. /\ \A t \in Tasks : stage[t] = "new" /\ verdict[t] = None
        /\ \A w \in Workers : pc[w] = "idle"
        /\ shutter = "none" /\ queuedBytes = 0
        /\ accepted = 0 /\ rejected = 0 /\ cancelled = 0
    BY DEF Init
  <2>2. /\ ByteUnits(Stage("queued")) = {}
        /\ {t \in Tasks : verdict[t] = "Accepted"} = {}
        /\ {t \in Tasks : verdict[t] \notin {None, "Accepted"}} = {}
        /\ {w \in Workers : pc[w] = "counting"} = {}
        /\ CountsAsCancelled \cup ToBeDrained = {}
    BY <2>1, TaskAssumption DEF ByteUnits, Stage, CountsAsCancelled, ToBeDrained
  <2>3. QED
    BY <2>1, <2>2, FS_EmptySet, LimitAssumption
       DEF BytesCounted, VerdictsCounted, CancellationsCounted
<1>2. SchedInv /\ BytesCounted /\ VerdictsCounted /\ CancellationsCounted /\ [Next]_vars
        => (BytesCounted /\ VerdictsCounted /\ CancellationsCounted)'
  BY BytesStep, VerdictsStep, CancellationsStep
<1>3. SchedInv /\ BytesCounted /\ VerdictsCounted /\ CancellationsCounted => Accounting
  BY DEF Accounting, EntriesCounted, SchedInv, StopInv, CountInv
<1>4. QED
  BY <1>1, <1>2, <1>3, SchedulerInvariant, PTL DEF Spec

-----------------------------------------------------------------------------
(* The scheduler implements TaskService *)

\* The service counts as the scheduler does.
LEMMA SameCardinality ==
  ASSUME NEW S
  PROVE  Service!Cardinality(S) = Cardinality(S)
BY DEF Cardinality, Service!Cardinality

SState == [t \in Tasks |-> ServiceState(t)]

\* Only the stage of a task decides its state in the service.
LEMMA ServiceStateFrame ==
  ASSUME SchedInv, NEW u \in Tasks,
         NEW s \in {"queued", "taken", "settled"},
         stage' = [stage EXCEPT ![u] = s],
         NEW r, r = CASE s = "queued"  -> "waiting"
                      [] s = "taken"   -> "started"
                      [] s = "settled" -> "answered"
  PROVE  SState' = [SState EXCEPT ![u] = r]
<1>1. \A t \in Tasks : stage'[t] = IF t = u THEN s ELSE stage[t]
  BY DEF SchedInv, TypeOK
<1>2. ASSUME NEW t \in Tasks
      PROVE  ServiceState(t)' = IF t = u THEN r ELSE ServiceState(t)
  <2>1. CASE t = u
    <3>1. stage'[t] = s
      BY <1>1, <2>1
    <3>2. ServiceState(t)' = r
      BY <3>1 DEF ServiceState
    <3>3. QED
      BY <2>1, <3>2
  <2>2. CASE t # u
    <3>1. stage'[t] = stage[t]
      BY <1>1, <2>2
    <3>2. ServiceState(t)' = ServiceState(t)
      BY <3>1 DEF ServiceState
    <3>3. QED
      BY <2>2, <3>2
  <2>3. QED
    BY <2>1, <2>2
<1>3. QED
  BY <1>2 DEF SState

\* The service's sets of waiting and started tasks.
LEMMA ServiceSets ==
  ASSUME SchedInv
  PROVE  /\ Service!In("waiting") = Stage("queued") \cup Stage("drained")
         /\ Service!In("started") = Stage("taken")
<1>1. \A t \in Tasks :
        /\ ServiceState(t) = "waiting" <=> stage[t] \in {"queued", "drained"}
        /\ ServiceState(t) = "started" <=> stage[t] = "taken"
  BY DEF ServiceState, SchedInv, TypeOK
<1>2. QED
  BY <1>1 DEF Service!In, Stage

\* A worker that is free leaves room for one more started task.
LEMMA RoomToStart ==
  ASSUME SchedInv, NEW w \in Workers, pc[w] = "idle"
  PROVE  Cardinality(Stage("taken")) < Cardinality(Workers)
<1> DEFINE H == {holding[v] : v \in Workers \ {w}}
<1>1. Stage("taken") \subseteq H
  <2> SUFFICES ASSUME NEW t \in Stage("taken") PROVE t \in H
    OBVIOUS
  <2>1. PICK v \in Workers : holding[v] = t /\ pc[v] \in {"checking", "running"}
    BY DEF SchedInv, OnePlace, Held
  <2>2. QED
    BY <2>1
<1>2. /\ IsFiniteSet(Workers \ {w})
      /\ Cardinality(Workers \ {w}) = Cardinality(Workers) - 1
  BY TaskAssumption, FS_RemoveElement
<1>3. IsFiniteSet(H) /\ Cardinality(H) <= Cardinality(Workers \ {w})
  <2> DEFINE f == [v \in Workers \ {w} |-> holding[v]]
  <2>1. f \in Surjection(Workers \ {w}, H)
    BY DEF Surjection
  <2>2. QED
    BY <1>2, <2>1, FS_Surjection
<1>4. Cardinality(Stage("taken")) <= Cardinality(H)
  BY <1>1, <1>3, FS_Subset
<1>5. /\ Cardinality(Stage("taken")) \in Nat
      /\ Cardinality(H) \in Nat
      /\ Cardinality(Workers) \in Nat
  BY <1>3, StagesFinite, TaskAssumption, FS_CardinalityType
<1>6. QED
  BY <1>2, <1>3, <1>4, <1>5

\* Every step of the scheduler is a step of the service or none.
LEMMA StepImplementsService ==
  ASSUME SchedInv, [Next]_vars
  PROVE  [Service!Next]_(Service!vars)
<1>0. /\ SState \in [Tasks -> {"new", "waiting", "started", "answered"}]
      /\ \A t \in Tasks : SState[t] = ServiceState(t)
  BY DEF SState, ServiceState, SchedInv, TypeOK
<1>1. ASSUME UNCHANGED <<stage, result, stopping>>
      PROVE  UNCHANGED Service!vars
  BY <1>1 DEF Service!vars, ServiceState
<1>2. ASSUME NEW t \in Tasks, NEW s \in {"prepared", "refused", "drained"},
             stage' = [stage EXCEPT ![t] = s], UNCHANGED <<result, stopping>>,
             \/ s # "drained" /\ stage[t] \in {"new", "prepared"}
             \/ s = "drained" /\ stage[t] = "queued"
      PROVE  UNCHANGED Service!vars
  <2>1. \A u \in Tasks : ServiceState(u)' = ServiceState(u)
    BY <1>2 DEF ServiceState, SchedInv, TypeOK
  <2>2. QED
    BY <1>2, <2>1 DEF Service!vars
<1>3. ASSUME NEW t \in Tasks, SubmitAccept(t)
      PROVE  Service!Accept(t)
  <2>1. /\ stage[t] = "prepared" /\ ~stopping
        /\ ~(queuedEntries >= MaxEntries)
        /\ stage' = [stage EXCEPT ![t] = "queued"]
        /\ UNCHANGED <<result, stopping>>
    BY <1>3 DEF SubmitAccept, Admission, stopVars
  <2>2. SState[t] = "new"
    BY <1>0, <2>1 DEF ServiceState
  <2>3. SState' = [SState EXCEPT ![t] = "waiting"]
    BY <2>1, ServiceStateFrame
  <2>4. Service!Cardinality(Service!In("waiting")) < MaxEntries
    <3>1. shutter = "none" /\ drained = None
      BY <2>1 DEF SchedInv, StopInv
    <3>2. Stage("queued") \cup Stage("drained") = Stage("queued")
      BY <3>1 DEF SchedInv, OnePlace, Drained
    <3>3. queuedEntries = Cardinality(Stage("queued")) /\ queuedEntries \in Int
      BY <3>1 DEF SchedInv, CountInv, TypeOK
    <3>4. Service!Cardinality(Service!In("waiting")) = queuedEntries
      BY <3>2, <3>3, ServiceSets, SameCardinality
    <3>5. QED
      BY <2>1, <3>3, <3>4, LimitAssumption
  <2>5. QED
    BY <2>1, <2>2, <2>3, <2>4 DEF Service!Accept, SState
<1>4. ASSUME NEW w \in Workers, Take(w)
      PROVE  \E t \in Tasks : Service!Start(t)
  <2>1. PICK i \in Busy : Pop(i, w)
    BY <1>4, TakePops DEF SchedInv
  <2> DEFINE t == Head(queues[i])
  <2>2. t \in Tasks /\ stage[t] = "queued"
    <3>1. /\ i \in Index /\ queues[i] \in Seq(Tasks) /\ queues[i] # <<>>
      BY DEF Busy, SchedInv, TypeOK
    <3>2. t \in Tasks /\ t = queues[i][1] /\ 1 \in 1..Len(queues[i])
      BY <3>1
    <3>3. QED
      BY <3>1, <3>2 DEF SchedInv, OnePlace, Queued
  <2>3. stage' = [stage EXCEPT ![t] = "taken"]
    BY <2>1, Zenon DEF Pop
  <2>4. UNCHANGED <<result, stopping>>
    BY <1>4 DEF Take, stopVars
  <2> HIDE DEF t
  <2>5. SState[t] = "waiting"
    BY <1>0, <2>2 DEF ServiceState
  <2>6. SState' = [SState EXCEPT ![t] = "started"]
    BY <2>2, <2>3, ServiceStateFrame
  <2>7. Service!Cardinality(Service!In("started")) < Cardinality(Workers)
    BY <1>4, RoomToStart, ServiceSets, SameCardinality DEF Take
  <2>8. QED
    BY <2>2, <2>4, <2>5, <2>6, <2>7 DEF Service!Start, SState
<1>5. ASSUME NEW t \in Tasks, NEW r \in Service!Answers(SState[t]),
             r = "Stopping" => stopping, result[t] = None,
             Complete(t, r), UNCHANGED stopping
      PROVE  Service!Answer(t, r)
  <2>1. /\ stage' = [stage EXCEPT ![t] = "settled"]
        /\ result' = [result EXCEPT ![t] = r]
    BY <1>5 DEF Complete, SchedInv, TypeOK
  <2>2. SState' = [SState EXCEPT ![t] = "answered"]
    BY <2>1, ServiceStateFrame
  <2>3. QED
    BY <1>5, <2>1, <2>2 DEF Service!Answer, SState
<1>6. ASSUME NEW t \in Tasks, AnswerRefused(t)
      PROVE  Service!Answer(t, verdict[t]) /\ verdict[t] \in Service!Answers(SState[t])
  <2>1. /\ stage[t] = "refused" /\ result[t] = None
        /\ verdict[t] \in Answer \ {"Ran"}
        /\ verdict[t] = "Stopping" => stopping
    BY <1>6 DEF AnswerRefused, SchedInv, TaskInv
  <2>2. SState[t] = "new"
    BY <1>0, <2>1 DEF ServiceState
  <2>3. verdict[t] \in Service!Answers(SState[t])
    BY <2>1, <2>2 DEF Service!Answers, Answer
  <2>4. QED
    BY <1>5, <1>6, <2>1, <2>3 DEF AnswerRefused, stopVars
<1>7. ASSUME NEW w \in Workers, CheckCancel(w) \/ RunDone(w)
      PROVE  \E t \in Tasks : \E r \in Service!Answers(SState[t]) : Service!Answer(t, r)
  <2> DEFINE t == holding[w]
  <2>1. t \in Tasks /\ stage[t] = "taken"
    BY <1>7 DEF CheckCancel, RunDone, SchedInv, OnePlace, Held, Stage
  <2>2. result[t] = None
    BY <2>1 DEF SchedInv, TaskInv
  <2>3. SState[t] = "started"
    BY <1>0, <2>1 DEF ServiceState
  <2>4. PICK r \in {"Ran", "Deadline", "Cancelled"} : Complete(t, r) /\ UNCHANGED stopping
    BY <1>7 DEF CheckCancel, RunDone, Recheck, stopVars
  <2>5. r \in Service!Answers(SState[t])
    BY <2>3 DEF Service!Answers
  <2>6. r # "Stopping"
    OBVIOUS
  <2> HIDE DEF t
  <2>7. QED
    BY <1>5, <2>1, <2>2, <2>4, <2>5, <2>6
<1>8. ASSUME DrainCancel
      PROVE  \E t \in Tasks : \E r \in Service!Answers(SState[t]) : Service!Answer(t, r)
  <2>1. drained \in Tasks /\ stage[drained] = "drained"
    BY <1>8 DEF DrainCancel, SchedInv, OnePlace, Drained, Stage, TypeOK
  <2>2. result[drained] = None /\ stopping
    BY <1>8, <2>1 DEF DrainCancel, SchedInv, TaskInv, StopInv
  <2>3. SState[drained] = "waiting"
    BY <1>0, <2>1 DEF ServiceState
  <2>4. "Stopping" \in Service!Answers(SState[drained])
    BY <2>3 DEF Service!Answers
  <2>5. QED
    BY <1>5, <1>8, <2>1, <2>2, <2>4 DEF DrainCancel
<1>9. ASSUME NEW cp \in BOOLEAN, RequestShutdown(cp)
      PROVE  Service!Close
  <2>1. ~stopping /\ stopping' = TRUE
    BY <1>9, Zenon DEF RequestShutdown
  <2>2. stage' = stage /\ result' = result
    BY <1>9 DEF RequestShutdown, taskVars
  <2>3. SState' = SState
    BY <2>2 DEF SState, ServiceState
  <2>4. QED
    BY <2>1, <2>2, <2>3, Zenon DEF Service!Close, SState
<1>10. ASSUME DrainPop
       PROVE  UNCHANGED Service!vars
  <2>1. PICK i \in Busy : stage' = [stage EXCEPT ![Head(queues[i])] = "drained"]
    BY <1>10 DEF DrainPop
  <2>2. /\ i \in Index /\ queues[i] \in Seq(Tasks) /\ queues[i] # <<>>
    BY DEF Busy, SchedInv, TypeOK
  <2>3. /\ Head(queues[i]) \in Tasks
        /\ Head(queues[i]) = queues[i][1] /\ 1 \in 1..Len(queues[i])
    BY <2>2
  <2>4. stage[Head(queues[i])] = "queued"
    BY <2>2, <2>3 DEF SchedInv, OnePlace, Queued
  <2>5. UNCHANGED <<result, stopping>>
    BY <1>10 DEF DrainPop
  <2>6. QED
    BY <1>2, <2>1, <2>3, <2>4, <2>5
<1>11. ASSUME NEW t \in Tasks, Prepare(t) \/ SubmitRefuse(t)
       PROVE  UNCHANGED Service!vars
  BY <1>2, <1>11 DEF Prepare, SubmitRefuse, stopVars
<1>12. ASSUME \/ Tick \/ DrainEnd \/ NotifyAll \/ UNCHANGED vars
              \/ \E t \in Tasks : RequestCancellation(t) \/ NotifyOne(t)
              \/ \E w \in Workers : \/ Exit(w) \/ Sleep(w) \/ SpuriousWake(w)
                                     \/ CheckRun(w) \/ CountCancelled(w) \/ Finish(w)
       PROVE  UNCHANGED Service!vars
  <2>1. UNCHANGED <<stage, result, stopping>>
    BY <1>12 DEF Tick, DrainEnd, NotifyAll, RequestCancellation, NotifyOne, Exit,
       Sleep, SpuriousWake, CheckRun, CountCancelled, Finish, vars, taskVars, stopVars
  <2>2. QED
    BY <1>1, <2>1
<1>13. CASE Next
  <2>1. \A t \in Tasks : SState[t] = ServiceState(t)
    BY <1>0
  <2>2. QED
    BY <1>3, <1>4, <1>6, <1>7, <1>8, <1>9, <1>10, <1>11, <1>12, <1>13, Zenon
       DEF Next, SubmitterStep, WorkerStep, ShutterStep, Service!Next, SState
<1>14. QED
  BY <1>12, <1>13

\* Every behaviour of the scheduler is one of TaskService: each submission is
\* answered once, within the limits, and nothing is accepted after a shutdown.
THEOREM SchedulerImplementsService == Spec => ImplementsService
<1>1. Init => Service!Init
  BY Zenon DEF Init, Service!Init, ServiceState
<1>2. SchedInv /\ [Next]_vars => [Service!Next]_(Service!vars)
  BY StepImplementsService
<1>3. QED
  BY <1>1, <1>2, SchedulerInvariant, PTL DEF Spec, ImplementsService, Service!Spec
=============================================================================
