----------------------------- MODULE HttpSessions -----------------------------
(* The Beast web server (server/webserver_beast.cpp) with the contexts of its
   requests (server/request_context.h): connections, one request after the
   other on each of them, the cancellation of a request by its deadline, by a
   client that leaves and by the shutdown, and the shutdown itself.

   One thread runs the io context, so that every handler of it is one action
   here; a pool of threads runs process(); the main thread shuts down.  What
   the kernel, a client or a route does is an action of its own.             *)
EXTENDS Naturals, Sequences, FiniteSets

CONSTANTS Sessions,        \* connections that clients try to open
          None,            \* not a request
          ConnectionLimit, \* connection_limit
          AdmissionLimit,  \* max_entries_ of the RequestAdmissionController
          HandlerThreads,  \* size of the pool `handlers`
          MaxRequests      \* bound: requests that are read on all connections

ASSUME HttpAssumption ==
  /\ IsFiniteSet(Sessions) /\ None \notin Sessions \X Nat
  /\ ConnectionLimit \in Nat \ {0} /\ AdmissionLimit \in Nat \ {0}
  /\ HandlerThreads \in Nat \ {0} /\ MaxRequests \in Nat

VARIABLES
  conn,       \* conn[s]: what session s is doing
  closed,     \* closed[s]: its socket is closed
  admitted,   \* admitted[s]: admitted_
  armed,      \* armed[s]: the observers of its request are armed
  shut,       \* shut[s]: whether beginShutdown is "posted", or "done"
  context,    \* context[s]: context_ is set
  reason,     \* reason[s]: why the request is cancelled, or "none"
  drain,      \* drain[s]: drain_on_shutdown
  final,      \* final[s]: terminal_outcome_, or "none"
  served,     \* served[s]: number of requests begun on s
  ended,      \* ended[s]: number of those that got a terminal outcome
  active,     \* active_sessions
  admissions, \* active_entries_ of the RequestAdmissionController
  jobs,       \* what waits in the pool
  main,       \* where the main thread is
  stopping,   \* stopping
  stopHandler,\* the handler that stop() posts: "none", "posted" or "done"
  toCancel,   \* requests that cancelAllActiveRequests has still to look at
  checked,    \* the one it has found not to be draining, or None
  ioStopped   \* context.stop() has been called

request  == <<context, reason, drain, final, served, ended>>
session  == <<conn, closed, admitted, armed, shut>>
counters == <<active, admissions>>
shutdown == <<main, stopping, stopHandler, toCancel, checked, ioStopped>>
vars     == <<session, request, counters, jobs, shutdown>>

Phases == {"none", "reading", "received", "failed", "replying", "pooled", "processing",
           "routed", "answered", "writing", "written", "broken", "closed", "gone"}
Reasons == {"none", "deadline", "disconnect", "shutdown"}
Outcomes == {"none", "completed", "deadline", "cancelled"}
Requests == Sessions \X Nat

TypeOK ==
  /\ conn \in [Sessions -> Phases]
  /\ closed \in [Sessions -> BOOLEAN]
  /\ admitted \in [Sessions -> BOOLEAN] /\ armed \in [Sessions -> BOOLEAN]
  /\ shut \in [Sessions -> {"no", "posted", "done"}]
  /\ context \in [Sessions -> BOOLEAN] /\ drain \in [Sessions -> BOOLEAN]
  /\ reason \in [Sessions -> Reasons] /\ final \in [Sessions -> Outcomes]
  /\ served \in [Sessions -> Nat]
  /\ ended \in [Sessions -> Nat] /\ active \in Nat /\ admissions \in Nat
  /\ jobs \in Seq(Sessions)
  /\ main \in {"serving", "stopping", "cancelling", "joining", "waiting", "returned"}
  /\ stopping \in BOOLEAN /\ ioStopped \in BOOLEAN
  /\ stopHandler \in {"none", "posted", "done"}
  /\ toCancel \subseteq Requests /\ checked \in Requests \cup {None}

Init ==
  /\ conn = [s \in Sessions |-> "none"] /\ closed = [s \in Sessions |-> FALSE]
  /\ admitted = [s \in Sessions |-> FALSE] /\ armed = [s \in Sessions |-> FALSE]
  /\ shut = [s \in Sessions |-> "no"]
  /\ context = [s \in Sessions |-> FALSE] /\ drain = [s \in Sessions |-> FALSE]
  /\ reason = [s \in Sessions |-> "none"] /\ final = [s \in Sessions |-> "none"]
  /\ served = [s \in Sessions |-> 0]
  /\ ended = [s \in Sessions |-> 0] /\ active = 0 /\ admissions = 0 /\ jobs = <<>>
  /\ main = "serving" /\ stopping = FALSE /\ stopHandler = "none"
  /\ toCancel = {} /\ checked = None /\ ioStopped = FALSE

Goto(s, l) == conn' = [conn EXCEPT ![s] = l]

(* A BeastSession object exists; its request has no outcome yet.             *)
Alive(s) == conn[s] \notin {"none", "gone"}
Open(s) == context[s] /\ final[s] = "none"

-----------------------------------------------------------------------------
(* RequestContext.                                                           *)

\* Mutant: drain_on_shutdown is not looked at.
CancelledAnyhow(s, why) == IF reason[s] # "none" THEN reason[s] ELSE why

(* cancelRequestCancellationState: the first reason stays; a shutdown leaves a
   request alone that is being sent.                                         *)
Cancelled(s, why) ==
  IF reason[s] # "none" \/ (why = "shutdown" /\ drain[s]) THEN reason[s] ELSE why

Cancel(s, why) == reason' = [reason EXCEPT ![s] = Cancelled(s, why)]

(* requestCancellationResponse: the deadline may have passed.                *)
NoticeDeadline(s) == UNCHANGED reason \/ Cancel(s, "deadline")

(* A request that nobody has cancelled and that has no outcome.              *)
Fresh(s) ==
  /\ reason' = [reason EXCEPT ![s] = "none"]
  /\ drain' = [drain EXCEPT ![s] = FALSE]
  /\ final' = [final EXCEPT ![s] = "none"]

NewContext(s) ==
  /\ context' = [context EXCEPT ![s] = TRUE] /\ Fresh(s)
  /\ served' = [served EXCEPT ![s] = @ + 1]
  /\ UNCHANGED ended

(* The session has no request any more.                                      *)
NoContext(s) == context' = [context EXCEPT ![s] = FALSE] /\ Fresh(s)

(* What finalizeResponse makes of the request.                               *)
Outcome(sent, late, why) ==
  IF ~sent THEN "cancelled"
  ELSE IF late \/ why = "deadline" THEN "deadline"
  ELSE IF why = "none" THEN "completed" ELSE "cancelled"

(* finalizeResponse; `late`: the deadline has passed.                        *)
Finalize(s, sent, late) ==
  /\ reason' = [reason EXCEPT ![s] =
       IF ~sent THEN Cancelled(s, "disconnect")
       ELSE IF late THEN Cancelled(s, "deadline") ELSE @]
  /\ final' = [final EXCEPT ![s] =
       IF @ = "none" THEN Outcome(sent, late, reason[s]) ELSE @]
  /\ UNCHANGED <<context, drain>>

(* tryFinish: the first outcome counts.                                      *)
CountOutcome(s) ==
  ended' = [ended EXCEPT ![s] = IF final[s] = "none" THEN @ + 1 ELSE @]

-----------------------------------------------------------------------------
(* Handlers of the io context.                                               *)

(* Another handler begins when the last one is through, and none after stop(). *)
Io == ~ioStopped /\ \A s \in Sessions : conn[s] # "replying"

Accept(s) ==
  /\ Io /\ conn[s] = "none" /\ ~stopping /\ active < ConnectionLimit
  /\ active' = active + 1
  /\ Goto(s, "reading")
  /\ UNCHANGED <<closed, admitted, armed, shut, request, admissions, jobs, shutdown>>

MayRead ==
  Cardinality({r \in Sessions \X (1 .. MaxRequests) :
    r[2] <= served[r[1]] + (IF conn[r[1]] = "received" THEN 1 ELSE 0)}) < MaxRequests

(* async_read ends: with a message, or because the client has closed, 15 s have
   passed or the socket has been closed here.                                *)
ReadEnds(s) ==
  /\ conn[s] = "reading"
  /\ \/ ~closed[s] /\ MayRead /\ Goto(s, "received")
     \/ Goto(s, "failed")
  /\ UNCHANGED <<closed, admitted, armed, shut, request, counters, jobs, shutdown>>

(* finish: closes the socket.                                                *)
Finish(s) == Goto(s, "closed") /\ closed' = [closed EXCEPT ![s] = TRUE]

ReadFails(s) ==
  /\ Io /\ conn[s] = "failed" /\ Finish(s)
  /\ UNCHANGED <<admitted, armed, shut, request, counters, jobs, shutdown>>

(* Handed to the pool, with a deadline timer and a wait for the client to close. *)
ToPool(s) ==
  /\ jobs' = Append(jobs, s) /\ armed' = [armed EXCEPT ![s] = TRUE]
  /\ Goto(s, "pooled")

(* onRead: a message that is malformed or too large, or for which there is no
   room, is answered at once, and so is GET or HEAD of /healthz.  Any other goes
   to the pool; of those only /healthz with another method needs no admission. *)
OnRead(s) ==
  /\ Io /\ conn[s] = "received" /\ NewContext(s)
  /\ \/ /\ admissions < AdmissionLimit /\ admissions' = admissions + 1
        /\ admitted' = [admitted EXCEPT ![s] = TRUE] /\ ToPool(s)
     \/ ToPool(s) /\ UNCHANGED <<admissions, admitted>>
     \/ Goto(s, "replying") /\ UNCHANGED <<admissions, admitted, armed, jobs>>
  /\ UNCHANGED <<closed, shut, active, shutdown>>

(* The end of that handler, for an answer given at once: writeResponse.      *)
Reply(s) ==
  /\ conn[s] = "replying"
  /\ Goto(s, "writing") /\ drain' = [drain EXCEPT ![s] = TRUE]
  /\ UNCHANGED <<closed, admitted, armed, shut, context, reason, final, served, ended,
                 counters, jobs, shutdown>>

(* The two observers; they do nothing when their request has an outcome.     *)
Observe(s) ==
  /\ Io /\ armed[s] /\ Open(s)
  /\ \/ Cancel(s, "deadline")
     \/ ~closed[s] /\ Cancel(s, "disconnect")
  /\ UNCHANGED <<session, context, drain, final, served, ended, counters, jobs,
                 shutdown>>

(* writeResponse or writeSharedResponse, with the response that process() has
   posted, or at the end of completeAsyncResponse: the stage Send begins.  A
   deadline that has passed is noticed first.                                *)
WriteResponse(s) ==
  /\ Io /\ conn[s] = "answered"
  /\ Goto(s, "writing") /\ drain' = [drain EXCEPT ![s] = TRUE]
  /\ NoticeDeadline(s)
  /\ UNCHANGED <<closed, admitted, armed, shut, context, final, served, ended, counters,
                 jobs, shutdown>>

(* async_write ends.                                                         *)
WriteEnds(s) ==
  /\ conn[s] = "writing"
  /\ \/ ~closed[s] /\ Goto(s, "written")
     \/ Goto(s, "broken")
  /\ UNCHANGED <<closed, admitted, armed, shut, request, counters, jobs, shutdown>>

\* Mutant: admitted_ is not reset for the next request.
OnWriteAdmitted(s, keep) ==
  LET sent == conn[s] = "written"
  IN /\ Io /\ conn[s] \in {"written", "broken"}
     /\ CountOutcome(s)
     /\ IF ~sent \/ ~keep \/ stopping
          THEN /\ \E late \in BOOLEAN : Finalize(s, sent, late)
               /\ Finish(s) /\ UNCHANGED <<admitted, admissions>>
          ELSE /\ IF admitted[s] THEN admissions' = admissions - 1
                                 ELSE UNCHANGED admissions
               /\ UNCHANGED admitted
               /\ NoContext(s) /\ Goto(s, "reading") /\ UNCHANGED closed
     /\ armed' = [armed EXCEPT ![s] = FALSE]
     /\ UNCHANGED <<shut, served, active, jobs, shutdown>>

(* onWrite: the request gets its outcome, its observers have nothing left to do,
   and the session ends, with the request as it is, or reads the next one;
   `keep`: the response has left the connection open.                        *)
OnWrite(s, keep) ==
  LET sent == conn[s] = "written"
  IN /\ Io /\ conn[s] \in {"written", "broken"}
     /\ CountOutcome(s)
     /\ IF ~sent \/ ~keep \/ stopping
          THEN /\ \E late \in BOOLEAN : Finalize(s, sent, late)
               /\ Finish(s) /\ UNCHANGED <<admitted, admissions>>
          ELSE /\ IF admitted[s] THEN admissions' = admissions - 1
                                 ELSE UNCHANGED admissions
               /\ admitted' = [admitted EXCEPT ![s] = FALSE]
               /\ NoContext(s) /\ Goto(s, "reading") /\ UNCHANGED closed
     /\ armed' = [armed EXCEPT ![s] = FALSE]
     /\ UNCHANGED <<shut, served, active, jobs, shutdown>>

(* ~BeastSession, when no handler refers to the session any more.            *)
Destroy(s) ==
  /\ conn[s] = "closed" /\ shut[s] # "posted"
  /\ Goto(s, "gone") /\ active' = active - 1
  /\ IF admitted[s] THEN admissions' = admissions - 1 ELSE UNCHANGED admissions
  /\ admitted' = [admitted EXCEPT ![s] = FALSE]
  /\ NoContext(s)
  /\ UNCHANGED <<closed, armed, shut, served, ended, jobs, shutdown>>

-----------------------------------------------------------------------------
(* The pool, and the routes.                                                 *)

Processing == {s \in Sessions : conn[s] = "processing"}

(* The pool goes on until it is joined.                                      *)
TakeUp ==
  /\ main # "waiting" /\ main # "returned"
  /\ jobs # <<>> /\ Cardinality(Processing) < HandlerThreads
  /\ jobs' = Tail(jobs) /\ Goto(Head(jobs), "processing")
  /\ UNCHANGED <<closed, admitted, armed, shut, request, counters, shutdown>>

(* process() ends: with a response of its own, or with a request handed to an
   asynchronous route.  It asks the socket for the client's address first, and
   answers 500 when there is none.                                           *)
Process(s) ==
  /\ conn[s] = "processing"
  /\ \/ Goto(s, "answered") /\ NoticeDeadline(s)
     \/ ~closed[s] /\ Goto(s, "routed") /\ UNCHANGED reason
  /\ UNCHANGED <<closed, admitted, armed, shut, context, drain, final, served, ended, counters,
                 jobs, shutdown>>

(* The route's completion, which it calls once.                              *)
RouteAnswers(s) ==
  /\ conn[s] = "routed" /\ Goto(s, "answered")
  /\ UNCHANGED <<closed, admitted, armed, shut, request, counters, jobs, shutdown>>

-----------------------------------------------------------------------------
(* The shutdown.                                                             *)

(* stop(): from here on no connection is accepted.                           *)
Stop ==
  /\ main = "serving" /\ main' = "stopping"
  /\ stopping' = TRUE /\ stopHandler' = "posted"
  /\ UNCHANGED <<session, request, counters, jobs, toCancel, checked, ioStopped>>

(* The handler that stop() has posted.                                       *)
StopHandler ==
  /\ Io /\ stopHandler = "posted" /\ stopHandler' = "done"
  /\ shut' = [s \in Sessions |-> IF Alive(s) THEN "posted" ELSE shut[s]]
  /\ UNCHANGED <<conn, closed, admitted, armed, request, counters, jobs, main, stopping,
                 toCancel, checked, ioStopped>>

(* beginShutdown: the request is cancelled; a session without one is closed. *)
Busy(s) == conn[s] \in {"replying", "pooled", "processing", "routed", "answered",
                        "writing", "written", "broken"}

\* Mutant: a session that is busy is left to cancelAllActiveRequests.
BeginShutdownIdle(s) ==
  /\ Io /\ shut[s] = "posted" /\ shut' = [shut EXCEPT ![s] = "done"]
  /\ closed' = [closed EXCEPT ![s] = @ \/ ~Busy(s)]
  /\ UNCHANGED <<conn, admitted, armed, request, counters, jobs, shutdown>>

BeginShutdown(s) ==
  /\ Io /\ shut[s] = "posted" /\ shut' = [shut EXCEPT ![s] = "done"]
  /\ IF context[s] THEN Cancel(s, "shutdown") ELSE UNCHANGED reason
  /\ closed' = [closed EXCEPT ![s] = @ \/ ~Busy(s)]
  /\ UNCHANGED <<conn, admitted, armed, context, drain, final, served, ended, counters,
                 jobs, shutdown>>

(* The main thread has waited a second at most; cancelAllActiveRequests takes
   its copy of the requests that exist.                                      *)
BeginCancelling ==
  /\ main = "stopping" /\ main' = "cancelling"
  /\ toCancel' = {<<s, served[s]>> : s \in {t \in Sessions : context[t]}}
  /\ UNCHANGED <<session, request, counters, jobs, stopping, stopHandler, checked,
                 ioStopped>>

Names(r, s) == r[1] = s /\ r[2] = served[s] /\ context[s]

(* cancelRequestCancellationState reads drain_on_shutdown ...                *)
Check(r) ==
  /\ main = "cancelling" /\ checked = None
  /\ IF Names(r, r[1]) /\ drain[r[1]]
       THEN toCancel' = toCancel \ {r} /\ UNCHANGED checked
       ELSE checked' = r /\ UNCHANGED toCancel
  /\ UNCHANGED <<session, request, counters, jobs, main, stopping, stopHandler, ioStopped>>

(* ... and then exchanges the reason.  A request whose context is gone has
   nothing left that could be cancelled.                                     *)
Mark ==
  /\ checked # None /\ checked' = None /\ toCancel' = toCancel \ {checked}
  /\ reason' = [s \in Sessions |->
       IF Names(checked, s) /\ reason[s] = "none" THEN "shutdown" ELSE reason[s]]
  /\ UNCHANGED <<session, context, drain, final, served, ended, counters, jobs, main,
                 stopping, stopHandler, ioStopped>>

(* The rest of begin_runtime_shutdown; handlers.join() comes next.           *)
EndCancelling ==
  /\ main = "cancelling" /\ toCancel = {} /\ main' = "joining"
  /\ UNCHANGED <<session, request, counters, jobs, stopping, stopHandler, toCancel,
                 checked, ioStopped>>

(* handlers.join() returns when the pool has nothing left to do.             *)
Join ==
  /\ main = "joining" /\ jobs = <<>> /\ Processing = {} /\ main' = "waiting"
  /\ UNCHANGED <<session, request, counters, jobs, stopping, stopHandler, toCancel,
                 checked, ioStopped>>

\* Mutant: the io context is left to run out of work.
EndWaitOnly ==
  /\ main = "waiting" /\ main' = "returned"
  /\ UNCHANGED <<session, request, counters, jobs, stopping, stopHandler, toCancel,
                 checked, ioStopped>>

(* Three seconds have passed, or no session is left; the io context is stopped
   if there is one.                                                          *)
EndWait ==
  /\ main = "waiting" /\ main' = "returned"
  /\ ioStopped' = (active # 0)
  /\ UNCHANGED <<session, request, counters, jobs, stopping, stopHandler, toCancel,
                 checked>>

-----------------------------------------------------------------------------
IoStep(s) == \/ ReadFails(s) \/ OnRead(s) \/ Reply(s) \/ WriteResponse(s)
             \/ \E keep \in BOOLEAN : OnWrite(s, keep)
             \/ BeginShutdown(s)
Kernel(s) == ReadEnds(s) \/ WriteEnds(s)
Main == \/ BeginCancelling \/ (\E r \in toCancel : Check(r)) \/ Mark \/ EndCancelling
        \/ Join \/ EndWait

Next == \/ \E s \in Sessions : \/ Accept(s) \/ IoStep(s) \/ Kernel(s) \/ Observe(s)
                              \/ Destroy(s) \/ Process(s) \/ RouteAnswers(s)
        \/ TakeUp \/ Stop \/ StopHandler \/ Main

Spec == Init /\ [][Next]_vars

(* The io thread, the pool and the main thread run; a read and a write have
   timeouts; a route answers.  No client has to come, no deadline has to pass
   and nobody has to stop the server.                                        *)
Fairness ==
  /\ \A s \in Sessions : /\ WF_vars(IoStep(s)) /\ WF_vars(Kernel(s))
                         /\ WF_vars(Process(s) \/ RouteAnswers(s))
  /\ WF_vars(TakeUp) /\ WF_vars(Main)

FairSpec == Spec /\ Fairness

-----------------------------------------------------------------------------
(* Properties.                                                               *)

(* Sessions, admissions and outcomes are counted exactly through every way a
   request can end, in the pool with an admission or without, and never above
   their limits.                                                             *)
CountsExact ==
  /\ active = Cardinality({s \in Sessions : Alive(s)}) /\ active <= ConnectionLimit
  /\ admissions = Cardinality({s \in Sessions : admitted[s]})
  /\ admissions <= AdmissionLimit

(* A request that is begun gets one outcome, when its session is through with
   it, and no session that is alive works on a request that has one.         *)
OutcomesExact ==
  \A s \in Sessions :
    /\ served[s] = ended[s] + (IF Open(s) THEN 1 ELSE 0)
    /\ Open(s) <=> Busy(s)

(* What waits in the pool is what has been put there and not been taken up.  *)
JobsExact ==
  /\ \A s \in Sessions : conn[s] = "pooled" <=> \E i \in 1 .. Len(jobs) : jobs[i] = s
  /\ \A i, j \in 1 .. Len(jobs) : jobs[i] = jobs[j] => i = j

ServerInv == TypeOK /\ CountsExact /\ OutcomesExact /\ JobsExact

(* No request is overlooked by the shutdown: once the io thread has come to its
   session, whatever is still in the hands of a route or of the pool has been
   cancelled, or cannot get to a route because its socket is closed.         *)
ShutdownReaches ==
  \A s \in Sessions :
    /\ conn[s] \in {"pooled", "processing", "routed"} /\ shut[s] = "done" =>
         reason[s] # "none" \/ closed[s]
    /\ conn[s] = "routed" => ~closed[s]
    /\ stopHandler = "done" /\ Alive(s) => shut[s] # "no"

(* A request that is being sent is cancelled by a shutdown only if the main
   thread had already found that it was not.                                 *)
DrainIsSpared ==
  [][\A s \in Sessions : drain[s] /\ context[s] =>
       /\ reason[s] = "none" /\ reason'[s] = "shutdown" => checked = <<s, served[s]>>
       /\ checked' = <<s, served[s]>> => checked = checked']_vars

(* Every request that is begun gets an outcome, unless the io context is
   stopped first, and the server that is told to stop returns.               *)
EveryRequestEnds ==
  /\ \A s \in Sessions : Open(s) ~> (~Open(s) \/ ioStopped)
  /\ stopping ~> main = "returned"

=============================================================================
