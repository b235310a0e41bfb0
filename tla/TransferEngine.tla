---------------------------- MODULE TransferEngine ----------------------------
(***************************************************************************)
(* CurlMultiEngine (src/handler/webget.cpp): one worker thread drives all  *)
(* outgoing transfers.  Any thread may submit one; it waits in pending_    *)
(* for a slot, is active in curl, may fail in a way that is worth a retry  *)
(* and wait in delayed_, and is answered by the worker through finish and  *)
(* complete.  Requests are cancelled, deadlines pass and the engine is     *)
(* shut down at any time, by the thread that stops the server, by the one  *)
(* that is still constructing the engine, or by a completion.              *)
(*                                                                         *)
(* An action is one critical section of mutex_, or what the worker does    *)
(* between two of them.  pending_ is kept as a set: any waiting transfer   *)
(* may get the next slot, of which the oldest is one.                      *)
(***************************************************************************)
EXTENDS Integers, FiniteSets

CONSTANTS Transfers, None,
          Timed,          \* transfers that have a deadline
          Cancellable,    \* transfers made for a request, which may be cancelled
          Window,         \* handle_window_, 0 is no limit
          MaxRetries      \* retry_limit

ASSUME TransfersAssumption ==
  IsFiniteSet(Transfers) /\ Timed \subseteq Transfers /\ Cancellable \subseteq Transfers
ASSUME WindowAssumption == Window \in Nat
ASSUME RetriesAssumption == MaxRetries \in Nat
ASSUME NoneAssumption ==
  None \notin Transfers \cup {"Ended", "Shutdown", "Cancelled", "Deadline", "Retry"}

Closers == {"creator", "main"}

VARIABLES
  engine, available, flag,      \* the static engine, outbound_fetch_shutdown_requested
  pending, delayed, active,     \* where an accepted transfer is
  pendingCount, activeCount,    \* the gauges
  stopping, joining, joined,
  prune, noted,                 \* pending_prune_requested_, deadlines behind next_pending_deadline_ns_
  woken,                        \* wake_generation_ has moved since the worker read it
  stage, batch, cur, verdict,   \* the worker: where it is, transfers yet to finish, the one it finishes
  sub, late,                    \* of each submission; late: cancelled before it was queued
  registered, firing,           \* its cancellation callback: registered, about to run
  cancelled, expired, due, arrived, attempts, told,
  closer                        \* threads in shutdown()

engineVars == <<engine, available, flag>>
placeVars  == <<pending, delayed, active, pendingCount, activeCount>>
stopVars   == <<stopping, joining, joined>>
pruneVars  == <<prune, noted>>
wakeVars   == <<woken, stage>>
curVars    == <<batch, cur, verdict>>
subVars    == <<sub, late>>
hookVars   == <<registered, firing>>
worldVars  == <<cancelled, expired, due, arrived>>
answerVars == <<attempts, told>>
vars == <<engineVars, placeVars, stopVars, pruneVars, wakeVars, curVars, subVars,
          hookVars, worldVars, answerVars, closer>>

Init ==
  /\ engine = "absent" /\ available = FALSE /\ flag = FALSE
  /\ pending = {} /\ delayed = {} /\ active = {}
  /\ pendingCount = 0 /\ activeCount = 0
  /\ stopping = FALSE /\ joining = FALSE /\ joined = FALSE
  /\ prune = FALSE /\ noted = {} /\ woken = FALSE
  /\ stage = "unborn" /\ batch = {} /\ cur = None /\ verdict = None
  /\ sub = [t \in Transfers |-> "idle"] /\ late = {}
  /\ registered = {} /\ firing = {}
  /\ cancelled = {} /\ expired = {} /\ due = {} /\ arrived = {}
  /\ attempts = [t \in Transfers |-> 0]
  /\ told = [t \in Transfers |-> None]
  /\ closer = [k \in Closers |-> "idle"]

\* mutex_ is held by the worker between the test of its wait and its sleep.
MutexFree == stage \notin {"deciding", "blocking"}

\* wakeWorker: the generation moves, which the worker sees if it has read it and not
\* yet compared it, and a sleeping worker wakes.  One that holds the mutex and is
\* about to sleep misses the notification.
Wake ==
  /\ woken' = (stage = "deciding")
  /\ stage' = IF stage \in {"asleep", "napping"} THEN "prune" ELSE stage

\* The callback that submit and finish register with the request.
OnCancel == prune' = TRUE /\ Wake

-----------------------------------------------------------------------------
(* The world: the network, the clock and the requests                      *)

Cancel(t) ==
  /\ t \in Cancellable \ cancelled /\ told[t] = None
  /\ cancelled' = cancelled \cup {t}
  /\ firing' = firing \cup ({t} \cap registered)
  /\ registered' = registered \ {t}
  /\ UNCHANGED <<engineVars, placeVars, stopVars, pruneVars, wakeVars, curVars, subVars,
                 expired, due, arrived, answerVars, closer>>

CancelCallback(t) ==
  /\ t \in firing
  /\ firing' = firing \ {t}
  /\ OnCancel
  /\ UNCHANGED <<engineVars, placeVars, stopVars, noted, curVars, subVars, registered,
                 worldVars, answerVars, closer>>

Expire(t) ==
  /\ t \in Timed \ expired /\ told[t] = None
  /\ expired' = expired \cup {t}
  /\ UNCHANGED <<engineVars, placeVars, stopVars, pruneVars, wakeVars, curVars, subVars,
                 hookVars, cancelled, due, arrived, answerVars, closer>>

\* retry_at is reached.
RetryDue(t) ==
  /\ t \in delayed \ due
  /\ due' = due \cup {t}
  /\ UNCHANGED <<engineVars, placeVars, stopVars, pruneVars, wakeVars, curVars, subVars,
                 hookVars, cancelled, expired, arrived, answerVars, closer>>

\* curl has a result: a response, a failure or its own timeout ("Ended", all of them).
Arrive(t) ==
  /\ t \in active \ arrived
  /\ arrived' = arrived \cup {t}
  /\ UNCHANGED <<engineVars, placeVars, stopVars, pruneVars, wakeVars, curVars, subVars,
                 hookVars, cancelled, expired, due, answerVars, closer>>

-----------------------------------------------------------------------------
(* The static engine is made by the first call of multiEngine()             *)

\* The worker runs before the instance is published; without curl there is no worker.
Create ==
  /\ engine = "absent"
  /\ \/ engine' = "published" /\ available' = TRUE /\ stage' = "prune"
     \/ engine' = "ready" /\ available' = FALSE /\ stage' = "exited"
  /\ UNCHANGED <<flag, placeVars, stopVars, pruneVars, woken, curVars, subVars,
                 hookVars, worldVars, answerVars, closer>>

\* Mutant: the flag is not looked at once the instance is published.
CreateUnchecked ==
  /\ engine = "published" /\ closer["creator"] = "idle"
  /\ closer' = [closer EXCEPT !["creator"] = "returned"]
  /\ engine' = "ready"
  /\ UNCHANGED <<available, flag, placeVars, stopVars, pruneVars, wakeVars, curVars, subVars,
                 hookVars, worldVars, answerVars>>

\* The constructor publishes the instance, then looks whether a shutdown was
\* requested before it could be seen.
CreateCheck ==
  /\ engine = "published" /\ closer["creator"] = "idle"
  /\ closer' = [closer EXCEPT !["creator"] = IF flag THEN "shutdown" ELSE "returned"]
  /\ engine' = IF flag THEN engine ELSE "ready"
  /\ UNCHANGED <<available, flag, placeVars, stopVars, pruneVars, wakeVars, curVars, subVars,
                 hookVars, worldVars, answerVars>>

CreateReturn ==
  /\ engine = "published" /\ closer["creator"] = "returned"
  /\ engine' = "ready"
  /\ UNCHANGED <<available, flag, placeVars, stopVars, pruneVars, wakeVars, curVars, subVars,
                 hookVars, worldVars, answerVars, closer>>

-----------------------------------------------------------------------------
(* Shutdown *)

CloserAt(k, s) == closer' = [closer EXCEPT ![k] = s]

\* requestOutboundFetchShutdown sets the flag ...
RequestShutdown ==
  /\ closer["main"] = "idle"
  /\ flag' = TRUE
  /\ CloserAt("main", "flagged")
  /\ UNCHANGED <<engine, available, placeVars, stopVars, pruneVars, wakeVars, curVars,
                 subVars, hookVars, worldVars, answerVars>>

\* ... and then looks for an engine to shut down.
FindEngine ==
  /\ closer["main"] = "flagged"
  /\ CloserAt("main", IF engine = "absent" \/ ~available THEN "returned" ELSE "shutdown")
  /\ UNCHANGED <<engineVars, placeVars, stopVars, pruneVars, wakeVars, curVars, subVars,
                 hookVars, worldVars, answerVars>>

Shutdown(k) ==
  /\ closer[k] = "shutdown" /\ MutexFree
  /\ stopping' = (stopping \/ ~joined)
  /\ joining' = (joining \/ ~joined)
  /\ CloserAt(k, IF joined THEN "returned" ELSE IF joining THEN "waiting" ELSE "waking")
  /\ UNCHANGED <<engineVars, placeVars, joined, pruneVars, wakeVars, curVars, subVars,
                 hookVars, worldVars, answerVars>>

ShutdownWake(k) ==
  /\ closer[k] = "waking"
  /\ Wake
  /\ CloserAt(k, "joining")
  /\ UNCHANGED <<engineVars, placeVars, stopVars, pruneVars, curVars, subVars,
                 hookVars, worldVars, answerVars>>

Join(k) ==
  /\ closer[k] = "joining" /\ stage = "exited"
  /\ available' = FALSE
  /\ joined' = TRUE /\ joining' = FALSE
  /\ CloserAt(k, "returned")
  /\ UNCHANGED <<engine, flag, placeVars, stopping, pruneVars, wakeVars, curVars, subVars,
                 hookVars, worldVars, answerVars>>

\* Another thread joins: wait on the condition variable until it has.
AwaitJoined(k) ==
  /\ closer[k] = "waiting" /\ joined
  /\ CloserAt(k, "returned")
  /\ UNCHANGED <<engineVars, placeVars, stopVars, pruneVars, wakeVars, curVars, subVars,
                 hookVars, worldVars, answerVars>>

-----------------------------------------------------------------------------
(* submit *)

SubAt(t, s) == sub' = [sub EXCEPT ![t] = s]

\* The request's callback is registered before the transfer is queued; if the
\* request is already cancelled it runs here.
Register(t) ==
  /\ sub[t] = "idle" /\ engine = "ready"
  /\ SubAt(t, "registered")
  /\ IF t \notin cancelled
     THEN registered' = registered \cup ({t} \cap Cancellable) /\ UNCHANGED <<prune, wakeVars>>
     ELSE OnCancel /\ UNCHANGED registered
  /\ UNCHANGED <<engineVars, placeVars, stopVars, noted, curVars, late, firing, worldVars,
                 answerVars, closer>>

\* Mutant: only a joined engine refuses.
QueueUntilJoined(t) ==
  /\ sub[t] = "registered" /\ MutexFree
  /\ IF ~available
     THEN SubAt(t, "failed") /\ UNCHANGED <<pending, pendingCount, noted, late>>
     ELSE /\ SubAt(t, "queued")
          /\ pending' = pending \cup {t}
          /\ pendingCount' = pendingCount + 1
          /\ noted' = noted \cup ({t} \cap Timed)
          /\ late' = IF t \in cancelled /\ t \notin firing THEN late \cup {t} ELSE late
  /\ UNCHANGED <<engineVars, delayed, active, activeCount, stopVars, prune, wakeVars, curVars,
                 hookVars, worldVars, answerVars, closer>>

Queue(t) ==
  /\ sub[t] = "registered" /\ MutexFree
  /\ IF stopping \/ ~available
     THEN /\ SubAt(t, IF stopping THEN "refused" ELSE "failed")
          /\ UNCHANGED <<pending, pendingCount, noted, late>>
     ELSE /\ SubAt(t, "queued")
          /\ pending' = pending \cup {t}
          /\ pendingCount' = pendingCount + 1
          /\ noted' = noted \cup ({t} \cap Timed)      \* notePendingDeadline
          /\ late' = IF t \in cancelled /\ t \notin firing THEN late \cup {t} ELSE late
  /\ UNCHANGED <<engineVars, delayed, active, activeCount, stopVars, prune, wakeVars, curVars,
                 hookVars, worldVars, answerVars, closer>>

SubmitWake(t) ==
  /\ sub[t] = "queued"
  /\ Wake
  /\ SubAt(t, "returned")
  /\ UNCHANGED <<engineVars, placeVars, stopVars, pruneVars, curVars, late, hookVars,
                 worldVars, answerVars, closer>>

\* A refused transfer is completed by its submitter, and its registration goes with it.
Refuse(t) ==
  /\ sub[t] \in {"refused", "failed"}
  /\ told' = [told EXCEPT ![t] = IF sub[t] = "refused" THEN "Shutdown" ELSE "Ended"]
  /\ registered' = registered \ {t}
  /\ SubAt(t, "rejected")
  /\ UNCHANGED <<engineVars, placeVars, stopVars, pruneVars, wakeVars, curVars, late, firing,
                 worldVars, attempts, closer>>

-----------------------------------------------------------------------------
(* The worker.  A transfer it finishes is cur until it has been answered or *)
(* put back for a retry.                                                   *)

Goto(s) == stage' = s
At(s) == stage = s /\ cur = None

\* Mutant: the deadline is not compared before a retry.
RetryPastDeadline(t) ==
  /\ attempts[t] < MaxRetries
  /\ ~stopping /\ ~flag
  /\ t \notin cancelled

\* What finish reads before it decides for another attempt.
Retryable(t) ==
  /\ attempts[t] < MaxRetries
  /\ ~stopping /\ ~flag
  /\ t \notin cancelled /\ t \notin expired

\* finish: the callback is taken back, the handle leaves curl, and the errors
\* worth it are retried; a timeout is one of them.
Finish(t, outcome, added) ==
  /\ registered' = registered \ {t}
  /\ active' = active \ {t}
  /\ arrived' = arrived \ {t}
  /\ activeCount' = IF added THEN activeCount - 1 ELSE activeCount
  /\ cur' = t
  /\ verdict' = IF outcome \in {"Recoverable", "Deadline"} /\ Retryable(t) THEN "Retry"
                ELSE IF outcome = "Recoverable" THEN "Ended" ELSE outcome

Retry ==
  /\ cur # None /\ verdict = "Retry"
  /\ attempts' = [attempts EXCEPT ![cur] = @ + 1]
  /\ delayed' = delayed \cup {cur}
  /\ due' = due \ {cur}
  /\ pendingCount' = pendingCount + 1
  /\ IF cur \notin cancelled
     THEN registered' = registered \cup ({cur} \cap Cancellable) /\ UNCHANGED <<prune, wakeVars>>
     ELSE OnCancel /\ UNCHANGED registered
  /\ cur' = None /\ verdict' = None
  /\ UNCHANGED <<engineVars, pending, active, activeCount, stopVars, noted, batch, subVars,
                 firing, cancelled, expired, arrived, told, closer>>

\* complete calls the completion, which may shut the engine down: the worker only
\* sets stopping_ and wakes itself.
Complete ==
  /\ cur # None /\ verdict # "Retry"
  /\ told' = [told EXCEPT ![cur] = verdict]
  /\ \/ UNCHANGED <<stopVars, wakeVars>>
     \/ stopping' = TRUE /\ Wake /\ UNCHANGED <<joining, joined>>
  /\ cur' = None /\ verdict' = None
  /\ UNCHANGED <<engineVars, placeVars, pruneVars, batch, subVars, hookVars, worldVars,
                 attempts, closer>>

\* The reasons for which a transfer may be dropped, stop where stopping_ is one; a
\* cancellation has a reason of its own, any of the three.  Which of them it is, if
\* several apply, depends on when each is read.
Drops(t, stop) ==
  {r \in {"Shutdown", "Cancelled", "Deadline"} :
     /\ r = "Shutdown" => stop \/ t \in cancelled
     /\ r = "Cancelled" => t \in cancelled
     /\ r = "Deadline" => t \in cancelled \cup expired}

\* Finishing, one after the other, transfers taken out of pending_ or active_.
SweepOne(from, added) ==
  \E t \in from :
    /\ \E r \in Drops(t, FALSE) : Finish(t, r, added)
    /\ batch' = batch \ {t}

sweepUnchanged == <<engineVars, pending, delayed, pendingCount, stopVars, pruneVars, wakeVars,
                    subVars, firing, cancelled, expired, due, answerVars, closer>>

Unwanted(t) == t \in cancelled \cup expired

\* prunePending: if a callback asked for it or a noted deadline has passed, the
\* unwanted transfers leave pending_ and the others' deadlines are noted anew.
\* batch holds the ones taken out, then what processDelayed visits.
PrunePending ==
  /\ At("prune")
  /\ LET gone == IF prune \/ noted \cap expired # {} THEN {t \in pending : Unwanted(t)} ELSE {}
     IN /\ batch' = gone \cup delayed
        /\ pending' = pending \ gone
        /\ pendingCount' = pendingCount - Cardinality(gone)
        /\ noted' = IF prune \/ noted \cap expired # {} THEN (pending \ gone) \cap Timed
                    ELSE noted
  /\ prune' = FALSE
  /\ Goto("visit")
  /\ UNCHANGED <<engineVars, delayed, active, activeCount, stopVars, woken, cur,
                 verdict, subVars, hookVars, worldVars, answerVars, closer>>

SweepPruned ==
  At("visit") /\ SweepOne(batch \ delayed, FALSE) /\ UNCHANGED sweepUnchanged

Visits(t) == At("visit") /\ t \in batch /\ batch \subseteq delayed

WindowFull == Window # 0 /\ Cardinality(active) >= Window

DropDelayed(t) ==
  /\ Visits(t)
  /\ \E r \in Drops(t, stopping) : Finish(t, r, FALSE)
  /\ batch' = batch \ {t}
  /\ delayed' = delayed \ {t}
  /\ due' = due \ {t}
  /\ pendingCount' = pendingCount - 1
  /\ UNCHANGED <<engineVars, pending, stopVars, pruneVars, wakeVars, subVars, firing,
                 cancelled, expired, answerVars, closer>>

KeepDelayed(t) ==
  /\ Visits(t)
  /\ ~stopping /\ ~Unwanted(t)
  /\ t \notin due \/ WindowFull
  /\ batch' = batch \ {t}
  /\ UNCHANGED <<engineVars, placeVars, stopVars, pruneVars, wakeVars, cur, verdict, subVars,
                 hookVars, worldVars, answerVars, closer>>

\* startTransfer of one that has left its queue: dropped, refused by curl, or active.
StartTransfer(t) ==
  \/ \E r \in Drops(t, stopping) : Finish(t, r, FALSE)
  \/ ~stopping /\ ~Unwanted(t) /\ Finish(t, "Ended", FALSE)
  \/ /\ ~stopping /\ ~Unwanted(t)
     /\ active' = active \cup {t}
     /\ activeCount' = activeCount + 1
     /\ UNCHANGED <<registered, arrived, cur, verdict>>

StartDelayed(t) ==
  /\ Visits(t)
  /\ ~stopping /\ ~Unwanted(t) /\ t \in due /\ ~WindowFull
  /\ batch' = batch \ {t}
  /\ delayed' = delayed \ {t}
  /\ due' = due \ {t}
  /\ pendingCount' = pendingCount - 1
  /\ StartTransfer(t)
  /\ UNCHANGED <<engineVars, pending, stopVars, pruneVars, wakeVars, subVars, firing,
                 cancelled, expired, answerVars, closer>>

\* processPending
StartPending(t) ==
  /\ At("visit") /\ batch = {} /\ t \in pending /\ ~WindowFull
  /\ pending' = pending \ {t}
  /\ pendingCount' = pendingCount - 1
  /\ StartTransfer(t)
  /\ UNCHANGED <<engineVars, delayed, stopVars, pruneVars, wakeVars, batch, subVars, firing,
                 cancelled, expired, due, answerVars, closer>>

PendingStarted ==
  /\ At("visit") /\ batch = {} /\ (pending = {} \/ WindowFull)
  /\ Goto("perform")
  /\ UNCHANGED <<engineVars, placeVars, stopVars, pruneVars, woken, curVars, subVars,
                 hookVars, worldVars, answerVars, closer>>

\* performTransfers: curl's messages, aborts by the progress callback included.
Message(t) ==
  /\ At("perform") /\ t \in arrived
  /\ \E r \in {"Ended", "Recoverable"} \cup (Drops(t, FALSE) \ {"Shutdown"})
              \cup (IF flag THEN {"Shutdown"} ELSE {}) : Finish(t, r, TRUE)
  /\ UNCHANGED <<batch, sweepUnchanged>>

\* cancelExpired takes the unwanted among the active ones.
Performed ==
  /\ At("perform") /\ arrived = {}
  /\ batch' = {t \in active : Unwanted(t)}
  /\ Goto("performed")
  /\ UNCHANGED <<engineVars, placeVars, stopVars, pruneVars, woken, cur, verdict, subVars,
                 hookVars, worldVars, answerVars, closer>>

SweepExpired == At("performed") /\ SweepOne(batch, TRUE) /\ UNCHANGED sweepUnchanged

\* Mutant: a stopping worker leaves pending_ as it is.
CheckStopKeepsPending ==
  /\ At("performed") /\ batch = {}
  /\ IF stopping
     THEN batch' = active /\ Goto("stopActive")
     ELSE UNCHANGED batch /\ Goto("wait")
  /\ UNCHANGED <<engineVars, placeVars, stopVars, pruneVars, woken, cur,
                 verdict, subVars, hookVars, worldVars, answerVars, closer>>

\* Under the mutex: a stopping worker cancels what is active, then what it takes
\* from pending_ here (batch until cancelActive is done keeps both), then delayed_.
CheckStop ==
  /\ At("performed") /\ batch = {}
  /\ IF stopping
     THEN /\ batch' = active \cup pending
          /\ pending' = {}
          /\ pendingCount' = pendingCount - Cardinality(pending)
          /\ Goto("stopActive")
     ELSE UNCHANGED <<batch, pending, pendingCount>> /\ Goto("wait")
  /\ UNCHANGED <<engineVars, delayed, active, activeCount, stopVars, pruneVars, woken, cur,
                 verdict, subVars, hookVars, worldVars, answerVars, closer>>

StopActive ==
  /\ At("stopActive")
  /\ \E t \in batch :
       /\ active # {} => t \in active
       /\ Finish(t, "Shutdown", t \in active)
       /\ batch' = batch \ {t}
  /\ UNCHANGED sweepUnchanged

StopDelayed(t) ==
  /\ At("stopActive") /\ batch = {} /\ t \in delayed
  /\ delayed' = delayed \ {t}
  /\ due' = due \ {t}
  /\ pendingCount' = pendingCount - 1
  /\ Finish(t, "Shutdown", FALSE)
  /\ UNCHANGED <<engineVars, pending, stopVars, pruneVars, wakeVars, batch, subVars, firing,
                 cancelled, expired, answerVars, closer>>

Exit ==
  /\ At("stopActive") /\ batch = {} /\ delayed = {}
  /\ Goto("exited")
  /\ UNCHANGED <<engineVars, placeVars, stopVars, pruneVars, woken, curVars, subVars,
                 hookVars, worldVars, answerVars, closer>>

\* hasDispatchableWork
Dispatchable ==
  \/ prune \/ noted \cap expired # {}
  \/ ~WindowFull /\ (pending # {} \/ delayed \cap due # {})

\* waitForActivity with nothing active reads the generation under the mutex; it
\* goes to poll otherwise.
Wait ==
  /\ At("wait")
  /\ Goto(IF Dispatchable THEN "prune" ELSE IF active # {} THEN "poll" ELSE "deciding")
  /\ UNCHANGED <<engineVars, placeVars, stopVars, pruneVars, woken, curVars, subVars,
                 hookVars, worldVars, answerVars, closer>>

\* Mutant: the state is not looked at again under the mutex.
DecideByGeneration ==
  /\ At("deciding")
  /\ Goto(IF woken THEN "prune" ELSE "blocking")
  /\ woken' = FALSE
  /\ UNCHANGED <<engineVars, placeVars, stopVars, pruneVars, curVars, subVars,
                 hookVars, worldVars, answerVars, closer>>

Decide ==
  /\ At("deciding")
  /\ Goto(IF stopping \/ pending # {} \/ woken \/ (\E t \in delayed : Unwanted(t))
          THEN "prune" ELSE "blocking")
  /\ woken' = FALSE
  /\ UNCHANGED <<engineVars, placeVars, stopVars, pruneVars, curVars, subVars,
                 hookVars, worldVars, answerVars, closer>>

\* The wait releases the mutex and sleeps, for ever or until the next retry is due.
Block ==
  /\ At("blocking")
  /\ Goto(IF delayed = {} THEN "asleep" ELSE "napping")
  /\ UNCHANGED <<engineVars, placeVars, stopVars, pruneVars, woken, curVars, subVars,
                 hookVars, worldVars, answerVars, closer>>

NapEnds ==
  /\ At("napping") /\ delayed \cap (due \cup expired) # {}
  /\ Goto("prune")
  /\ UNCHANGED <<engineVars, placeVars, stopVars, pruneVars, woken, curVars, subVars,
                 hookVars, worldVars, answerVars, closer>>

\* curl_multi_poll returns when woken, when there is traffic, or after a second.
PollReturns ==
  /\ At("poll")
  /\ Goto("prune")
  /\ UNCHANGED <<engineVars, placeVars, stopVars, pruneVars, woken, curVars, subVars,
                 hookVars, worldVars, answerVars, closer>>

-----------------------------------------------------------------------------
WorkerStep ==
  \/ Retry \/ Complete
  \/ PrunePending \/ SweepPruned \/ PendingStarted
  \/ Performed \/ SweepExpired \/ CheckStop \/ StopActive \/ Exit
  \/ Wait \/ Decide \/ Block \/ NapEnds \/ PollReturns
  \/ \E t \in Transfers : \/ DropDelayed(t) \/ KeepDelayed(t) \/ StartDelayed(t)
                          \/ StartPending(t) \/ Message(t) \/ StopDelayed(t)
SubmitterStep(t) == Queue(t) \/ SubmitWake(t) \/ Refuse(t)
CloserStep(k) ==
  \/ Shutdown(k) \/ ShutdownWake(k) \/ Join(k) \/ AwaitJoined(k)
  \/ k = "creator" /\ (CreateCheck \/ CreateReturn)
  \/ k = "main" /\ FindEngine
NetworkStep(t) == RetryDue(t) \/ Arrive(t)

Next ==
  \/ WorkerStep \/ Create \/ RequestShutdown
  \/ \E k \in Closers : CloserStep(k)
  \/ \E t \in Transfers : \/ Register(t) \/ SubmitterStep(t) \/ NetworkStep(t)
                          \/ Cancel(t) \/ CancelCallback(t) \/ Expire(t)

Spec == Init /\ [][Next]_vars

\* Threads run, curl ends every transfer (it is given a timeout) and a retry comes
\* due.  Nobody has to submit, cancel or shut down, and no deadline need pass.
FairSpec ==
  /\ Spec
  /\ WF_vars(WorkerStep)
  /\ \A k \in Closers : WF_vars(CloserStep(k))
  /\ \A t \in Transfers : /\ WF_vars(SubmitterStep(t)) /\ WF_vars(CancelCallback(t))
                          /\ WF_vars(NetworkStep(t))

-----------------------------------------------------------------------------
(* Properties *)

Outcomes == {"Ended", "Shutdown", "Cancelled", "Deadline"}

TypeOK ==
  /\ engine \in {"absent", "published", "ready"} /\ available \in BOOLEAN /\ flag \in BOOLEAN
  /\ pending \subseteq Transfers /\ delayed \subseteq Transfers /\ active \subseteq Transfers
  /\ pendingCount \in Int /\ activeCount \in Int
  /\ stopping \in BOOLEAN /\ joining \in BOOLEAN /\ joined \in BOOLEAN
  /\ prune \in BOOLEAN /\ noted \subseteq Timed
  /\ woken \in BOOLEAN
  /\ stage \in {"unborn", "prune", "visit", "perform", "performed", "stopActive", "exited",
                "wait", "deciding", "blocking", "asleep", "napping", "poll"}
  /\ batch \subseteq Transfers /\ cur \in Transfers \cup {None}
  /\ verdict \in Outcomes \cup {"Retry", None}
  /\ sub \in [Transfers -> {"idle", "registered", "queued", "returned", "refused", "failed",
                            "rejected"}]
  /\ late \subseteq Transfers /\ registered \subseteq Transfers /\ firing \subseteq Transfers
  /\ cancelled \subseteq Cancellable
  /\ expired \subseteq Timed /\ due \subseteq Transfers /\ arrived \subseteq Transfers
  /\ attempts \in [Transfers -> 0..MaxRetries]
  /\ told \in [Transfers -> Outcomes \cup {None}]
  /\ closer \in [Closers -> {"idle", "flagged", "shutdown", "waking", "joining", "waiting",
                             "returned"}]

Accepted == {t \in Transfers : sub[t] \in {"queued", "returned"}}

\* Taken out of pending_ and not finished yet.
InHand == batch \ (delayed \cup active)
Held == InHand \cup ({cur} \ {None})

\* An accepted transfer that has not been answered is in exactly one place, and
\* what is in a place is owed its first answer: none is forgotten, none is
\* finished twice, through pruning, retries and the two shutdown paths.
OnePlace ==
  /\ {t \in Accepted : told[t] = None} = pending \cup delayed \cup active \cup Held
  /\ pending \cap (delayed \cup active \cup Held) = {}
  /\ delayed \cap (active \cup Held) = {}
  /\ active \cap Held = {}
  /\ cur \notin InHand

\* The two gauges, unsigned in the code, never drift and never wrap.
GaugesExact ==
  /\ pendingCount = Cardinality(pending) + Cardinality(delayed)
  /\ activeCount = Cardinality(active)

\* finish never puts a transfer back while prunePending, processDelayed or
\* processPending go over their lists: appending to the deque would break the loop.
NoRetryWhileVisiting == stage = "visit" => verdict # "Retry"

\* Where the worker is says what it can still hold, and an engine whose worker has
\* left, or never was, is empty and takes nothing in any more.
WorkerInv ==
  /\ arrived \subseteq active
  /\ cur = None <=> verdict = None
  /\ cur # None => stage \in {"visit", "perform", "performed", "stopActive"}
  /\ stage \notin {"visit", "performed", "stopActive"} => batch = {}
  /\ stage = "visit" => batch \cap active = {}
  /\ stage = "performed" => batch \subseteq active
  /\ stage = "stopActive" =>
       stopping /\ pending = {} /\ active \subseteq batch /\ batch \cap delayed = {}
  /\ stage \in {"deciding", "blocking"} => active = {}
  /\ stage = "blocking" => pending = {} /\ ~stopping
  /\ stage = "exited" =>
       pending = {} /\ delayed = {} /\ active = {} /\ (stopping \/ ~available)
  /\ stage = "unborn" <=> engine = "absent"
  /\ \A t \in Transfers : sub[t] # "idle" => engine = "ready"

\* stopping_ is set before anybody joins, and only an engine whose worker has left
\* is joined.
ClosingInv ==
  /\ joining => stopping
  /\ joined => stopping /\ stage = "exited"
  /\ \A k \in Closers : closer[k] \in {"waking", "joining"} => stopping

\* What the worker is about to answer has a reason, a retry an attempt left, and
\* nobody is answered before being accepted or refused.
AnswerInv ==
  /\ verdict = "Shutdown" => flag \/ stopping \/ cur \in cancelled
  /\ verdict = "Cancelled" => cur \in cancelled
  /\ verdict = "Deadline" => cur \in cancelled \cup expired
  /\ verdict = "Retry" => attempts[cur] < MaxRetries
  /\ \A t \in Transfers :
       /\ sub[t] \in {"idle", "registered", "refused", "failed"} => told[t] = None
       /\ sub[t] = "refused" => stopping

\* The request of a transfer that is submitted or waits tells the engine of its
\* cancellation.
HookInv ==
  \A t \in Cancellable \ cancelled :
    sub[t] = "registered" \/ t \in pending => t \in registered

\* The four invariants above, and what makes them inductive.
EngineInv ==
  /\ TypeOK /\ OnePlace /\ GaugesExact /\ NoRetryWhileVisiting
  /\ WorkerInv /\ ClosingInv /\ AnswerInv /\ HookInv

\* A worker that sleeps until it is notified has nothing to do, or somebody who
\* gave it something to do is about to notify it.
SleepsOnlyWhenIdle ==
  stage = "asleep" =>
    /\ active = {} /\ delayed = {} /\ Held = {}
    /\ \A t \in pending : sub[t] = "queued"
    /\ stopping => \E k \in Closers : closer[k] = "waking"

\* A waiting transfer that was cancelled or has a deadline is not left to wait for
\* a slot: its callback will run or the flag it set is still up, and its deadline
\* is among those the worker looks at.  The exception (late) is a request whose
\* callback ran between its registration and the queueing of the transfer.
PendingIsWatched ==
  \A t \in pending : /\ t \in cancelled => prune \/ t \in firing \/ t \in late
                     /\ t \in Timed => t \in noted

NothingOverlooked == SleepsOnlyWhenIdle /\ PendingIsWatched

\* The engine implements the service its callers rely on.
Service == INSTANCE TransferService WITH
  accepted <- Accepted, closing <- flag \/ stopping, closed <- joined
ImplementsTransferService == Service!Spec

\* Every transfer that is submitted is answered, through retries, cancellations
\* and shutdowns: what CacheFetch and the synchronous callers assume.
EveryTransferAnswered ==
  \A t \in Transfers : sub[t] = "registered" ~> told[t] # None

\* Once a shutdown was asked for, by whoever and however many at once, every thread
\* in shutdown() returns and no worker is left running: not one whose engine was
\* being constructed meanwhile either.
ShutdownEnds ==
  flag \/ stopping ~> /\ \A k \in Closers : closer[k] \in {"idle", "returned"}
                      /\ engine # "absent" => stage = "exited"
=============================================================================
