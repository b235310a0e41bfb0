-------------------------- MODULE WorkloadScheduler --------------------------
(***************************************************************************)
(* WorkloadScheduler (src/utils/workload_scheduler.h): a fixed set of      *)
(* workers serving three bounded priority queues.  Every block the code    *)
(* runs under mutex_ is one action; what it does after the unlock (calling *)
(* a completion, notifying the condition variable) is an action of its own.*)
(* Time is a bounded clock; a task's cost, bytes and deadline are given.   *)
(***************************************************************************)
EXTENDS TaskSelection, Sequences, FiniteSets

CONSTANTS Tasks, Workers, None,
          Cost, Bytes, Deadline,      \* of each task
          Cancellable,                \* tasks submitted with a live token
          MaxEntries, MaxBytes,       \* max_entries_, max_bytes_ (1 when 0 is given)
          AgeLimit,                   \* the 500 ms of takeTaskLocked, in clock ticks
          MaxTime                     \* bound on the clock

ASSUME TaskAssumption ==
  /\ IsFiniteSet(Tasks)
  /\ IsFiniteSet(Workers) /\ Workers # {}
  /\ None \notin Tasks
  /\ Cancellable \subseteq Tasks
  /\ None \notin {"Accepted", "Ran", "EntryLimit", "ByteLimit", "Deadline",
                  "Cancelled", "Stopping"}
  /\ Cost \in [Tasks -> {"Low", "Medium", "High", "Unclassified"}]
  /\ Bytes \in [Tasks -> Nat]
  /\ Deadline \in [Tasks -> Nat]      \* beyond MaxTime: no deadline

ASSUME LimitAssumption ==
  /\ MaxEntries \in Nat \ {0}
  /\ MaxBytes \in Nat \ {0}
  /\ AgeLimit \in Nat
  /\ MaxTime \in Nat

VARIABLES
  now, stopping, queues,
  queuedEntries, queuedBytes, active, accepted, rejected, cancelled,
  credits, next,
  stage,        \* of each task, from its construction to its completion
  enqueuedAt,   \* read before the lock is taken
  verdict,      \* the status submit returned
  result,       \* what the completion was called with
  tokens,       \* tasks whose cancellation token has fired
  toNotify,     \* accepted tasks whose submitter has yet to call notify_one
  pc, holding,  \* of each worker
  shutter,      \* the thread in requestShutdown
  drained       \* the task it has popped

clockVars  == <<now, tokens>>
queueVars  == <<queues, queuedEntries, queuedBytes>>
pickVars   == <<credits, next>>
taskVars   == <<stage, enqueuedAt, verdict, result, toNotify>>
workerVars == <<pc, holding>>
stopVars   == <<stopping, shutter, drained>>
vars == <<clockVars, queueVars, active, accepted, rejected, cancelled, pickVars,
          taskVars, workerVars, stopVars>>

Busy == {i \in Index : queues[i] # <<>>}

Init ==
  /\ now = 0
  /\ stopping = FALSE
  /\ queues = [i \in Index |-> <<>>]
  /\ queuedEntries = 0 /\ queuedBytes = 0 /\ active = 0
  /\ accepted = 0 /\ rejected = 0 /\ cancelled = 0
  /\ credits = Weight
  /\ next = 0
  /\ stage = [t \in Tasks |-> "new"]
  /\ enqueuedAt = [t \in Tasks |-> 0]
  /\ verdict = [t \in Tasks |-> None]
  /\ result = [t \in Tasks |-> None]
  /\ tokens = {}
  /\ toNotify = {}
  /\ pc = [w \in Workers |-> "idle"]
  /\ holding = [w \in Workers |-> None]
  /\ shutter = "none"
  /\ drained = None

-----------------------------------------------------------------------------
(* The environment: time passes and clients cancel. *)

Tick ==
  /\ now < MaxTime
  /\ now' = now + 1
  /\ UNCHANGED <<tokens, queueVars, active, accepted, rejected, cancelled,
                 pickVars, taskVars, workerVars, stopVars>>

RequestCancellation(t) ==
  /\ t \in Cancellable \ tokens
  /\ result[t] = None
  /\ tokens' = tokens \cup {t}
  /\ UNCHANGED <<now, queueVars, active, accepted, rejected, cancelled,
                 pickVars, taskVars, workerVars, stopVars>>

-----------------------------------------------------------------------------
(* submit and submitAsync *)

\* The completion runs at most once: `completed` is exchanged, and a promise
\* takes one value.
Complete(t, r) ==
  /\ result' = [result EXCEPT ![t] = IF @ = None THEN r ELSE @]
  /\ stage' = [stage EXCEPT ![t] = "settled"]

\* enqueued_at is read before the lock.
Prepare(t) ==
  /\ stage[t] = "new"
  /\ stage' = [stage EXCEPT ![t] = "prepared"]
  /\ enqueuedAt' = [enqueuedAt EXCEPT ![t] = now]
  /\ UNCHANGED <<clockVars, queueVars, active, accepted, rejected, cancelled,
                 pickVars, verdict, result, toNotify, workerVars, stopVars>>

\* Mutant: stopping_ is not looked at again under the lock.
AdmissionWhileStopping(t) ==
  IF t \in tokens THEN "Cancelled"
  ELSE IF enqueuedAt[t] >= Deadline[t] THEN "Deadline"
  ELSE IF queuedEntries >= MaxEntries THEN "EntryLimit"
  ELSE IF Bytes[t] > MaxBytes \/ queuedBytes > MaxBytes - Bytes[t] THEN "ByteLimit"
  ELSE "Accepted"

\* The order in which the lock's holder looks for a reason to refuse.
Admission(t) ==
  IF stopping THEN "Stopping"
  ELSE IF t \in tokens THEN "Cancelled"
  ELSE IF enqueuedAt[t] >= Deadline[t] THEN "Deadline"
  ELSE IF queuedEntries >= MaxEntries THEN "EntryLimit"
  ELSE IF Bytes[t] > MaxBytes \/ queuedBytes > MaxBytes - Bytes[t] THEN "ByteLimit"
  ELSE "Accepted"

SubmitAccept(t) ==
  /\ stage[t] = "prepared"
  /\ Admission(t) = "Accepted"
  /\ queues' = [queues EXCEPT ![QueueIndex(Cost[t])] = Append(@, t)]
  /\ queuedEntries' = queuedEntries + 1
  /\ queuedBytes' = queuedBytes + Bytes[t]
  /\ accepted' = accepted + 1
  /\ stage' = [stage EXCEPT ![t] = "queued"]
  /\ verdict' = [verdict EXCEPT ![t] = "Accepted"]
  /\ toNotify' = toNotify \cup {t}
  /\ UNCHANGED <<clockVars, active, rejected, cancelled, pickVars,
                 enqueuedAt, result, workerVars, stopVars>>

SubmitRefuse(t) ==
  /\ stage[t] = "prepared"
  /\ Admission(t) # "Accepted"
  /\ rejected' = rejected + 1
  /\ stage' = [stage EXCEPT ![t] = "refused"]
  /\ verdict' = [verdict EXCEPT ![t] = Admission(t)]
  /\ UNCHANGED <<clockVars, queueVars, active, accepted, cancelled, pickVars,
                 enqueuedAt, result, toNotify, workerVars, stopVars>>

\* task->cancel(status), after the unlock and before submit returns.
AnswerRefused(t) ==
  /\ stage[t] = "refused"
  /\ Complete(t, verdict[t])
  /\ UNCHANGED <<clockVars, queueVars, active, accepted, rejected, cancelled,
                 pickVars, enqueuedAt, verdict, toNotify, workerVars, stopVars>>

\* Mutant: nobody is woken for an accepted task.
NotifyNobody(t) ==
  /\ t \in toNotify
  /\ toNotify' = toNotify \ {t}
  /\ UNCHANGED <<clockVars, queueVars, active, accepted, rejected, cancelled,
                 pickVars, stage, enqueuedAt, verdict, result, workerVars, stopVars>>

\* condition_.notify_one(), after the unlock: it wakes one sleeping worker, if
\* any sleeps.
NotifyOne(t) ==
  /\ t \in toNotify
  /\ toNotify' = toNotify \ {t}
  /\ \/ \E w \in Workers : pc[w] = "asleep" /\ pc' = [pc EXCEPT ![w] = "idle"]
     \/ (\A w \in Workers : pc[w] # "asleep") /\ pc' = pc
  /\ UNCHANGED <<clockVars, queueVars, active, accepted, rejected, cancelled,
                 pickVars, stage, enqueuedAt, verdict, result, holding, stopVars>>

-----------------------------------------------------------------------------
(* workerLoop *)

\* The queue with the earliest head; of two the lower index.
Oldest ==
  CHOOSE i \in Busy : \A j \in Busy :
    LET ti == enqueuedAt[Head(queues[i])]
        tj == enqueuedAt[Head(queues[j])]
    IN ti < tj \/ (ti = tj /\ i <= j)

Aged == now - enqueuedAt[Head(queues[Oldest])] >= AgeLimit

\* Mutant: the popped task is left at the head of its queue.
PopKeepsHead(i, w) ==
  LET t == Head(queues[i]) IN
  /\ queuedEntries' = queuedEntries - 1
  /\ queuedBytes' = queuedBytes - Bytes[t]
  /\ active' = active + 1
  /\ stage' = [stage EXCEPT ![t] = "taken"]
  /\ holding' = [holding EXCEPT ![w] = t]
  /\ pc' = [pc EXCEPT ![w] = "checking"]
  /\ UNCHANGED queues

\* popLocked
Pop(i, w) ==
  LET t == Head(queues[i]) IN
  /\ queues' = [queues EXCEPT ![i] = Tail(@)]
  /\ queuedEntries' = queuedEntries - 1
  /\ queuedBytes' = queuedBytes - Bytes[t]
  /\ active' = active + 1
  /\ stage' = [stage EXCEPT ![t] = "taken"]
  /\ holding' = [holding EXCEPT ![w] = t]
  /\ pc' = [pc EXCEPT ![w] = "checking"]

\* takeTaskLocked: an old enough head first, else by credit.
Take(w) ==
  /\ pc[w] = "idle"
  /\ queuedEntries # 0
  /\ Busy # {}
  /\ IF Aged
     THEN /\ Pop(Oldest, w)
          /\ UNCHANGED pickVars
     ELSE LET filled == Refill(Busy, credits)
              i      == Chosen(Busy, filled, next)
          IN  /\ Pop(i, w)
              /\ credits' = [filled EXCEPT ![i] = @ - 1]
              /\ next' = After(i)
  /\ UNCHANGED <<clockVars, accepted, rejected, cancelled,
                 enqueuedAt, verdict, result, toNotify, stopVars>>

\* Mutant: a worker leaves as soon as stopping_ is set.
ExitWhenStopping(w) ==
  /\ pc[w] = "idle"
  /\ stopping
  /\ pc' = [pc EXCEPT ![w] = "exited"]
  /\ UNCHANGED <<clockVars, queueVars, active, accepted, rejected, cancelled,
                 pickVars, taskVars, holding, stopVars>>

Exit(w) ==
  /\ pc[w] = "idle"
  /\ stopping /\ queuedEntries = 0
  /\ pc' = [pc EXCEPT ![w] = "exited"]
  /\ UNCHANGED <<clockVars, queueVars, active, accepted, rejected, cancelled,
                 pickVars, taskVars, holding, stopVars>>

Sleep(w) ==
  /\ pc[w] = "idle"
  /\ ~stopping /\ queuedEntries = 0
  /\ pc' = [pc EXCEPT ![w] = "asleep"]
  /\ UNCHANGED <<clockVars, queueVars, active, accepted, rejected, cancelled,
                 pickVars, taskVars, holding, stopVars>>

\* A condition variable may wake by itself.
SpuriousWake(w) ==
  /\ pc[w] = "asleep"
  /\ pc' = [pc EXCEPT ![w] = "idle"]
  /\ UNCHANGED <<clockVars, queueVars, active, accepted, rejected, cancelled,
                 pickVars, taskVars, holding, stopVars>>

\* The token and the deadline are looked at again, without the lock.
Recheck(t) == IF t \in tokens THEN "Cancelled"
              ELSE IF now >= Deadline[t] THEN "Deadline"
              ELSE "Accepted"

CheckRun(w) ==
  /\ pc[w] = "checking"
  /\ Recheck(holding[w]) = "Accepted"
  /\ pc' = [pc EXCEPT ![w] = "running"]
  /\ UNCHANGED <<clockVars, queueVars, active, accepted, rejected, cancelled,
                 pickVars, taskVars, holding, stopVars>>

\* Mutant: a task cancelled by its worker is not counted.
CheckCancelUncounted(w) ==
  /\ pc[w] = "checking"
  /\ Recheck(holding[w]) # "Accepted"
  /\ Complete(holding[w], Recheck(holding[w]))
  /\ pc' = [pc EXCEPT ![w] = "finishing"]
  /\ UNCHANGED <<clockVars, queueVars, active, accepted, rejected, cancelled,
                 pickVars, enqueuedAt, verdict, toNotify, holding, stopVars>>

CheckCancel(w) ==
  /\ pc[w] = "checking"
  /\ Recheck(holding[w]) # "Accepted"
  /\ Complete(holding[w], Recheck(holding[w]))
  /\ pc' = [pc EXCEPT ![w] = "counting"]
  /\ UNCHANGED <<clockVars, queueVars, active, accepted, rejected, cancelled,
                 pickVars, enqueuedAt, verdict, toNotify, holding, stopVars>>

\* task->run() returns; an exception it throws is part of the result.
RunDone(w) ==
  /\ pc[w] = "running"
  /\ Complete(holding[w], "Ran")
  /\ pc' = [pc EXCEPT ![w] = "finishing"]
  /\ UNCHANGED <<clockVars, queueVars, active, accepted, rejected, cancelled,
                 pickVars, enqueuedAt, verdict, toNotify, holding, stopVars>>

\* ++cancelled_ and --active_ are two critical sections.
CountCancelled(w) ==
  /\ pc[w] = "counting"
  /\ cancelled' = cancelled + 1
  /\ pc' = [pc EXCEPT ![w] = "finishing"]
  /\ UNCHANGED <<clockVars, queueVars, active, accepted, rejected, pickVars,
                 taskVars, holding, stopVars>>

Finish(w) ==
  /\ pc[w] = "finishing"
  /\ active' = active - 1
  /\ holding' = [holding EXCEPT ![w] = None]
  /\ pc' = [pc EXCEPT ![w] = "idle"]
  /\ UNCHANGED <<clockVars, queueVars, accepted, rejected, cancelled, pickVars,
                 taskVars, stopVars>>

-----------------------------------------------------------------------------
(* requestShutdown: a call that finds stopping_ set returns at once. *)

\* Mutant: the counters are left to the drain, which does not touch them.
RequestShutdownKeepsCounters(cancelPending) ==
  /\ ~stopping
  /\ stopping' = TRUE
  /\ cancelled' = IF cancelPending THEN cancelled + queuedEntries ELSE cancelled
  /\ shutter' = IF cancelPending THEN "draining" ELSE "notifying"
  /\ UNCHANGED <<clockVars, queueVars, active, accepted, rejected, pickVars,
                 taskVars, workerVars, drained>>

RequestShutdown(cancelPending) ==
  /\ ~stopping
  /\ stopping' = TRUE
  /\ IF cancelPending
     THEN /\ cancelled' = cancelled + queuedEntries
          /\ queuedEntries' = 0
          /\ queuedBytes' = 0
          /\ shutter' = "draining"
     ELSE /\ UNCHANGED <<cancelled, queuedEntries, queuedBytes>>
          /\ shutter' = "notifying"
  /\ UNCHANGED <<clockVars, queues, active, accepted, rejected, pickVars,
                 taskVars, workerVars, drained>>

\* One task is popped per critical section, from the lowest busy queue.
DrainPop ==
  /\ shutter = "draining"
  /\ drained = None
  /\ \E i \in Busy :
       /\ \A j \in Busy : i <= j
       /\ drained' = Head(queues[i])
       /\ queues' = [queues EXCEPT ![i] = Tail(@)]
       /\ stage' = [stage EXCEPT ![Head(queues[i])] = "drained"]
  /\ UNCHANGED <<clockVars, queuedEntries, queuedBytes, active, accepted,
                 rejected, cancelled, pickVars, enqueuedAt, verdict, result,
                 toNotify, workerVars, stopping, shutter>>

\* Its completion runs without the lock, before the next one is popped.
DrainCancel ==
  /\ drained # None
  /\ Complete(drained, "Stopping")
  /\ drained' = None
  /\ UNCHANGED <<clockVars, queueVars, active, accepted, rejected, cancelled,
                 pickVars, enqueuedAt, verdict, toNotify, workerVars, stopping,
                 shutter>>

DrainEnd ==
  /\ shutter = "draining"
  /\ drained = None
  /\ Busy = {}
  /\ shutter' = "notifying"
  /\ UNCHANGED <<clockVars, queueVars, active, accepted, rejected, cancelled,
                 pickVars, taskVars, workerVars, stopping, drained>>

\* Mutant: notify_one, so only one worker hears of the shutdown.
NotifyOneOfAll ==
  /\ shutter = "notifying"
  /\ shutter' = "done"
  /\ \/ \E w \in Workers : pc[w] = "asleep" /\ pc' = [pc EXCEPT ![w] = "idle"]
     \/ (\A w \in Workers : pc[w] # "asleep") /\ pc' = pc
  /\ UNCHANGED <<clockVars, queueVars, active, accepted, rejected, cancelled,
                 pickVars, taskVars, holding, stopping, drained>>

NotifyAll ==
  /\ shutter = "notifying"
  /\ shutter' = "done"
  /\ pc' = [w \in Workers |-> IF pc[w] = "asleep" THEN "idle" ELSE pc[w]]
  /\ UNCHANGED <<clockVars, queueVars, active, accepted, rejected, cancelled,
                 pickVars, taskVars, holding, stopping, drained>>

-----------------------------------------------------------------------------
SubmitterStep(t) == SubmitAccept(t) \/ SubmitRefuse(t) \/ AnswerRefused(t) \/ NotifyOne(t)
WorkerStep(w) == \/ Take(w) \/ Exit(w) \/ Sleep(w)
                 \/ CheckRun(w) \/ CheckCancel(w) \/ RunDone(w)
                 \/ CountCancelled(w) \/ Finish(w)
ShutterStep == DrainPop \/ DrainCancel \/ DrainEnd \/ NotifyAll

Next ==
  \/ Tick
  \/ \E t \in Tasks : RequestCancellation(t) \/ Prepare(t) \/ SubmitterStep(t)
  \/ \E w \in Workers : WorkerStep(w) \/ SpuriousWake(w)
  \/ \E cancelPending \in BOOLEAN : RequestShutdown(cancelPending)
  \/ ShutterStep

Spec == Init /\ [][Next]_vars

\* The operating system runs every thread that can run, and a task's function
\* returns.  Nobody has to submit, cancel or shut down, and the clock may stop.
Fairness ==
  /\ \A t \in Tasks : WF_vars(SubmitterStep(t))
  /\ \A w \in Workers : WF_vars(WorkerStep(w))
  /\ WF_vars(ShutterStep)

FairSpec == Spec /\ Fairness

-----------------------------------------------------------------------------
(* Properties *)

Stage(s) == {t \in Tasks : stage[t] = s}

Answer == {"Ran", "EntryLimit", "ByteLimit", "Deadline", "Cancelled", "Stopping"}

TypeOK ==
  /\ now \in 0..MaxTime
  /\ stopping \in BOOLEAN
  /\ queues \in [Index -> Seq(Tasks)]
  /\ queuedEntries \in Int /\ queuedBytes \in Int /\ active \in Int
  /\ accepted \in Nat /\ rejected \in Nat /\ cancelled \in Int
  /\ credits \in [Index -> Nat] /\ next \in Index
  /\ stage \in [Tasks -> {"new", "prepared", "refused", "queued", "taken",
                         "drained", "settled"}]
  /\ enqueuedAt \in [Tasks -> Nat]
  /\ verdict \in [Tasks -> Answer \cup {"Accepted", None}]
  /\ result \in [Tasks -> Answer \cup {None}]
  /\ tokens \subseteq Tasks /\ toNotify \subseteq Tasks
  /\ pc \in [Workers -> {"idle", "asleep", "checking", "running", "counting",
                        "finishing", "exited"}]
  /\ holding \in [Workers -> Tasks \cup {None}]
  /\ shutter \in {"none", "draining", "notifying", "done"}
  /\ drained \in Tasks \cup {None}

\* An accepted task that has not been answered is in one place: once in the
\* queue of its cost, or with one worker, or with the thread that drains the
\* queues.  So no task is lost or run twice, however submissions, workers and
\* requestShutdown interleave.
Queued ==
  /\ \A i \in Index : \A k \in 1..Len(queues[i]) :
       /\ stage[queues[i][k]] = "queued"
       /\ QueueIndex(Cost[queues[i][k]]) = i
       /\ \A m \in 1..Len(queues[i]) : queues[i][k] = queues[i][m] => k = m
  /\ \A t \in Stage("queued") :
       \E k \in 1..Len(queues[QueueIndex(Cost[t])]) :
          queues[QueueIndex(Cost[t])][k] = t
Held ==
  /\ \A w \in Workers : pc[w] \in {"checking", "running"} =>
       holding[w] \in Stage("taken")
  /\ \A t \in Stage("taken") : \E w \in Workers :
       holding[w] = t /\ pc[w] \in {"checking", "running"}
  /\ \A v, w \in Workers :
       holding[v] = holding[w] /\ holding[v] # None => v = w
Drained == Stage("drained") = {drained} \ {None}
OnePlace == Queued /\ Held /\ Drained

\* The counters that snapshot() reports agree with the tasks: the queue
\* counters with the queues (except while a cancelling shutdown, which zeroes
\* them first, is emptying the queues), active_ with the workers, and every
\* submission is counted once as accepted or rejected and at most once as
\* cancelled, though the two updates a cancelled task causes are separate.
CountsAsCancelled ==
  {t \in Tasks : verdict[t] = "Accepted" /\ result[t] \notin {None, "Ran"}}
ToBeDrained == IF shutter = "draining" THEN Stage("queued") \cup Stage("drained") ELSE {}

\* The bytes of a set of tasks, one by one: there are as many as their sum.
ByteUnits(S) == UNION {{t} \X (1..Bytes[t]) : t \in S}

EntriesCounted ==
  queuedEntries = IF shutter = "draining" THEN 0 ELSE Cardinality(Stage("queued"))
BytesCounted ==
  /\ queuedBytes <= MaxBytes
  /\ queuedBytes = IF shutter = "draining" THEN 0
                   ELSE Cardinality(ByteUnits(Stage("queued")))
VerdictsCounted ==
  /\ accepted = Cardinality({t \in Tasks : verdict[t] = "Accepted"})
  /\ rejected = Cardinality({t \in Tasks : verdict[t] \notin {None, "Accepted"}})
CancellationsCounted ==
  cancelled + Cardinality({w \in Workers : pc[w] = "counting"}) =
    Cardinality(CountsAsCancelled \cup ToBeDrained)
Accounting ==
  /\ EntriesCounted /\ BytesCounted
  /\ active = Cardinality({w \in Workers : holding[w] # None})
  /\ VerdictsCounted /\ CancellationsCounted

\* After the shutting-down thread has returned and join has seen every worker
\* leave, nothing is left to answer and no worker is counted active: the
\* destructor (shutdown(true)) abandons no future and no completion.
JoinedMeansSettled ==
  shutter = "done" /\ (\A w \in Workers : pc[w] = "exited") =>
    /\ \A t \in Tasks : verdict[t] = "Accepted" => result[t] # None
    /\ queuedEntries = 0 /\ active = 0

\* A cancelling shutdown takes effect when it sets stopping_: no task that is
\* still waiting then is ever started, though the queues are emptied one task
\* at a time with the lock released in between.
NothingStartsWhileDraining ==
  [][shutter = "draining" => \A t \in Tasks : stage'[t] = "taken" => stage[t] = "taken"]_vars

\* Every accepted submission is answered, with or without a shutdown.
AcceptedIsAnswered == \A t \in Tasks : stage[t] = "queued" ~> result[t] # None

\* After requestShutdown every worker leaves, so join returns.
WorkersLeave == stopping ~> \A w \in Workers : pc[w] = "exited"

-----------------------------------------------------------------------------
\* What every step preserves: the places above, and how the stages of the tasks,
\* the workers, the counters and the shutting-down thread go together.
TaskInv ==
  \A t \in Tasks :
    /\ stage[t] = "settled" <=> result[t] # None
    /\ verdict[t] = "Accepted" => stage[t] \in {"queued", "taken", "drained", "settled"}
    /\ stage[t] \in {"new", "prepared"} => verdict[t] = None
    /\ stage[t] \in {"queued", "taken", "drained"} => verdict[t] = "Accepted"
    /\ stage[t] = "refused" => verdict[t] \in Answer \ {"Ran"}
    /\ verdict[t] = "Stopping" => stopping
WorkerInv ==
  \A w \in Workers :
    /\ pc[w] \in {"idle", "asleep", "exited"} <=> holding[w] = None
    /\ pc[w] \in {"counting", "finishing"} => stage[holding[w]] = "settled"
    /\ pc[w] = "exited" => stopping /\ queuedEntries = 0
StopInv ==
  /\ shutter = "none" <=> ~stopping
  /\ shutter = "draining" => queuedEntries = 0
  /\ drained # None => shutter = "draining"
CountInv ==
  /\ shutter # "draining" => queuedEntries = Cardinality(Stage("queued"))
  /\ Cardinality(Stage("queued") \cup Stage("drained")) <= MaxEntries
  /\ active = Cardinality({w \in Workers : holding[w] # None})
SchedInv == TypeOK /\ OnePlace /\ TaskInv /\ WorkerInv /\ StopInv /\ CountInv

-----------------------------------------------------------------------------
\* The scheduler is a TaskService: a popped task is started until it is
\* answered, and a refused submission is new until its completion is called.
ServiceState(t) ==
  CASE stage[t] \in {"new", "prepared", "refused"} -> "new"
    [] stage[t] \in {"queued", "drained"}          -> "waiting"
    [] stage[t] = "taken"                          -> "started"
    [] stage[t] = "settled"                        -> "answered"

Service == INSTANCE TaskService WITH
  Slots <- MaxEntries, Servers <- Cardinality(Workers),
  state <- [t \in Tasks |-> ServiceState(t)], answer <- result, open <- ~stopping

\* Through every interleaving the code keeps the promises of TaskService.
ImplementsService == Service!Spec
=============================================================================
