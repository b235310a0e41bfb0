---------------------------- MODULE CooperativeCpu ----------------------------
(* The CPU permits of the conversions (utils/cooperative_cpu.h), and what a
   conversion gives its permit back to wait for: room in the queue of the
   ruleset executor and the answer of a task there (utils/bounded_executor.h,
   handler/multithread.cpp), a value that another conversion is computing
   (utils/concurrent_lru_cache.h), and a fetch (handler/webget.cpp), which a
   template or a script may ask for.

   A conversion is a task of the request flow: it takes a permit, works with
   it, gives it back around every wait and asks for it again before it goes on.
   One that is refused then unwinds with SchedulerSubmitError; but who renders
   a template, converts a ruleset or runs a script catches every exception, and
   the conversion then goes on without a permit, to its end.  Every condition
   variable here is waited on with a timeout or a predicate under its mutex, so
   waking is left to fairness.                                               *)
EXTENDS Naturals, Sequences, FiniteSets

CONSTANTS Conversions,
          None,           \* not a conversion
          MaxLimit,       \* bound: the governor sets limits 1 .. MaxLimit
          QueueCapacity,  \* queue_capacity_ of the executor
          Workers,        \* number of the executor's threads
          Plans,          \* what there may be to do for the conversions
          MaxResizes      \* bound: changes of the limit

ASSUME CooperativeAssumption ==
  /\ IsFiniteSet(Conversions) /\ None \notin Conversions
  /\ MaxLimit \in Nat \ {0} /\ QueueCapacity \in Nat \ {0}
  /\ Workers \in Nat \ {0} /\ MaxResizes \in Nat
  /\ Plans \subseteq [Conversions -> SUBSET {"submit", "fetch", "cache"}]

VARIABLES
  limit, active, waiting, stopping,   \* the members of CpuPermitGate
  held,       \* held[c]: CpuPermitLease::held_ of c's permit
  released,   \* released[c]: the wait for which c gave its permit back, and after
              \* which it asks again (permit_ of its ScopedCpuWait), or "none"
  pc,         \* where conversion c is
  todo,       \* what it has still to do: "submit", "get", "fetch", "cache"
  outcome,    \* how it ended
  stopped,    \* conversions that are cancelled, or past their deadline
  queue,      \* tasks_ of the executor; a task is named by its conversion
  answer,     \* answer[c]: the state of the future of c's task
  closed,     \* stopping_ of the executor
  inflight,   \* the conversion whose promise is inflight_[key], or None
  promise,    \* promise[c]: whether c has fulfilled its promise
  follows,    \* follows[c]: whose future c waits for in the cache
  cached,     \* the key is in entries_
  resizes     \* changes of the limit so far

gate     == <<limit, active, waiting, stopping>>
lease    == <<held, released>>
executor == <<queue, answer, closed>>
cache    == <<inflight, promise, follows, cached>>
thread   == <<pc, todo, outcome>>
vars     == <<gate, lease, thread, stopped, executor, cache, resizes>>

(* Where a conversion runs code of its own, where it waits for somebody else,
   and where it waits for a permit.                                          *)
Working == {"work", "compute", "publish", "erase"}
Waiting == {"submitting", "getting", "following", "fetching"}
Asking  == {"asking", "blocked"}

(* Waits whose exceptions may be caught by who waits: proxyToStash catches those
   of a task's answer and of a cached value, render_template and the wrappers of
   script functions those of a fetch.                                        *)
Caught == {"getting", "following", "fetching"}

TypeOK ==
  /\ limit \in 1 .. MaxLimit /\ active \in Nat /\ waiting \in Nat
  /\ stopping \in BOOLEAN /\ closed \in BOOLEAN /\ cached \in BOOLEAN
  /\ held \in [Conversions -> BOOLEAN]
  /\ released \in [Conversions -> Waiting \cup {"none"}]
  /\ pc \in [Conversions -> {"new", "done"} \cup Working \cup Waiting \cup Asking]
  /\ todo \in [Conversions -> SUBSET {"submit", "get", "fetch", "cache"}]
  /\ outcome \in [Conversions -> {"none", "ended", "refused", "unpermitted"}]
  /\ stopped \subseteq Conversions
  /\ queue \in Seq(Conversions)
  /\ answer \in [Conversions -> {"none", "queued", "running", "ready"}]
  /\ inflight \in Conversions \cup {None}
  /\ promise \in [Conversions -> BOOLEAN]
  /\ follows \in [Conversions -> Conversions \cup {None}]
  /\ resizes \in 0 .. MaxResizes

Init ==
  /\ limit \in 1 .. MaxLimit /\ active = 0 /\ waiting = 0 /\ stopping = FALSE
  /\ held = [c \in Conversions |-> FALSE]
  /\ released = [c \in Conversions |-> "none"]
  /\ pc = [c \in Conversions |-> "new"]
  /\ todo \in Plans
  /\ outcome = [c \in Conversions |-> "none"]
  /\ stopped = {}
  /\ queue = <<>> /\ closed = FALSE
  /\ answer = [c \in Conversions |-> "none"]
  /\ inflight = None /\ cached = FALSE
  /\ promise = [c \in Conversions |-> FALSE]
  /\ follows = [c \in Conversions |-> None]
  /\ resizes = 0

Goto(c, l) == pc' = [pc EXCEPT ![c] = l]

-----------------------------------------------------------------------------
(* CpuPermitGate and CpuPermitLease.                                         *)

(* The task of a conversion begins: no permit yet.                           *)
Start(c) ==
  /\ pc[c] = "new" /\ Goto(c, "asking")
  /\ UNCHANGED <<gate, lease, todo, outcome, stopped, executor, cache, resizes>>

(* What acquire finds, each time it has the mutex.                           *)
Refused(c) == stopping \/ c \in stopped

\* Mutant: one more than the limit.
RoomForOneMore == active <= limit

Room == active < limit

(* `waiters` is what is left of waiting_ afterwards.                         *)
Granted(c, waiters) ==
  /\ ~Refused(c) /\ Room
  /\ active' = active + 1 /\ waiting' = waiters
  /\ held' = [held EXCEPT ![c] = TRUE]
  /\ Goto(c, "work") /\ UNCHANGED outcome

(* The SchedulerSubmitError reaches the end of the conversion.               *)
TurnedAway(c, waiters) ==
  /\ Refused(c)
  /\ waiting' = waiters /\ UNCHANGED <<active, held>>
  /\ Goto(c, "done") /\ outcome' = [outcome EXCEPT ![c] = "refused"]

(* It is caught on the way, and the conversion goes on without a permit.     *)
CarriesOn(c, waiters) ==
  /\ Refused(c) /\ released[c] \in Caught
  /\ waiting' = waiters /\ UNCHANGED <<active, held>>
  /\ Goto(c, "work") /\ UNCHANGED outcome

(* acquire returns, to the ScopedCpuWait that asked if there is one.         *)
Answered(c, waiters) ==
  /\ Granted(c, waiters) \/ TurnedAway(c, waiters) \/ CarriesOn(c, waiters)
  /\ released' = [released EXCEPT ![c] = "none"]

Ask(c) ==
  /\ pc[c] = "asking"
  /\ \/ Answered(c, waiting)
     \/ /\ ~Refused(c) /\ ~Room /\ waiting' = waiting + 1 /\ Goto(c, "blocked")
        /\ UNCHANGED <<active, lease, outcome>>
  /\ UNCHANGED <<limit, stopping, todo, stopped, executor, cache, resizes>>

(* wait_until has returned: a notification, or 25 ms have passed.            *)
AskAgain(c) ==
  /\ pc[c] = "blocked" /\ Answered(c, waiting - 1)
  /\ UNCHANGED <<limit, stopping, todo, stopped, executor, cache, resizes>>

\* Mutant: a permit that the conversion has lost is given back once more.
GiveBackAgain(c) ==
  /\ held' = [held EXCEPT ![c] = FALSE]
  /\ active' = IF active # 0 THEN active - 1 ELSE active
  /\ UNCHANGED <<limit, waiting, stopping>>

(* CpuPermitLease::release.                                                  *)
GiveBack(c) ==
  /\ held' = [held EXCEPT ![c] = FALSE]
  /\ active' = IF held[c] /\ active # 0 THEN active - 1 ELSE active
  /\ UNCHANGED <<limit, waiting, stopping>>

SetLimit(l) ==
  /\ l # limit /\ resizes < MaxResizes /\ resizes' = resizes + 1
  /\ limit' = l
  /\ UNCHANGED <<active, waiting, stopping, lease, thread, stopped, executor, cache>>

-----------------------------------------------------------------------------
(* waitWithoutCpuPermit: a permit that is held is given back, the function
   waits, and that permit is asked for again whether the function returned or
   threw.  Who has none neither gives one back nor asks.                     *)

Wait(c, place) ==
  /\ GiveBack(c) /\ Goto(c, place)
  /\ released' = [released EXCEPT ![c] = IF held[c] THEN place ELSE "none"]

Resume(c) == Goto(c, IF released[c] = "none" THEN "work" ELSE "asking")

-----------------------------------------------------------------------------
(* The ruleset executor.                                                     *)

BeginSubmit(c) ==
  /\ pc[c] = "work" /\ "submit" \in todo[c]
  /\ todo' = [todo EXCEPT ![c] = (@ \ {"submit"}) \cup {"get"}]
  /\ Wait(c, "submitting")
  /\ UNCHANGED <<outcome, stopped, executor, cache, resizes>>

(* submitUntil: the task is queued, or its future holds the refusal, because
   the executor is closed, the conversion stopped, or 50 ms have passed; that is
   looked at before the room is.                                             *)
Submit(c) ==
  /\ pc[c] = "submitting"
  /\ \/ /\ ~closed /\ c \notin stopped /\ Len(queue) < QueueCapacity
        /\ queue' = Append(queue, c) /\ answer' = [answer EXCEPT ![c] = "queued"]
     \/ answer' = [answer EXCEPT ![c] = "ready"] /\ UNCHANGED queue
  /\ Resume(c)
  /\ UNCHANGED <<gate, lease, todo, outcome, stopped, closed, cache, resizes>>

BeginGet(c) ==
  /\ pc[c] = "work" /\ "get" \in todo[c]
  /\ todo' = [todo EXCEPT ![c] = @ \ {"get"}]
  /\ Wait(c, "getting")
  /\ UNCHANGED <<outcome, stopped, executor, cache, resizes>>

Get(c) ==
  /\ pc[c] = "getting" /\ answer[c] = "ready" /\ Resume(c)
  /\ UNCHANGED <<gate, lease, todo, outcome, stopped, executor, cache, resizes>>

(* webGet, for a source, a template or a script: a transfer, or the fetch of
   another caller, that is answered or fails.                                *)
BeginFetch(c) ==
  /\ pc[c] = "work" /\ "fetch" \in todo[c]
  /\ todo' = [todo EXCEPT ![c] = @ \ {"fetch"}]
  /\ Wait(c, "fetching")
  /\ UNCHANGED <<outcome, stopped, executor, cache, resizes>>

Fetched(c) ==
  /\ pc[c] = "fetching" /\ Resume(c)
  /\ UNCHANGED <<gate, lease, todo, outcome, stopped, executor, cache, resizes>>

InHand == {c \in Conversions : answer[c] = "running"}

(* A worker takes the oldest task, and the task returns or throws.           *)
TakeTask ==
  /\ queue # <<>> /\ Cardinality(InHand) < Workers
  /\ queue' = Tail(queue) /\ answer' = [answer EXCEPT ![Head(queue)] = "running"]
  /\ UNCHANGED <<gate, lease, thread, stopped, closed, cache, resizes>>

RunTask(c) ==
  /\ answer[c] = "running" /\ answer' = [answer EXCEPT ![c] = "ready"]
  /\ UNCHANGED <<gate, lease, thread, stopped, queue, closed, cache, resizes>>

-----------------------------------------------------------------------------
(* getOrCompute, for one key.                                                *)

(* Looks for the value, then for somebody who computes it.                   *)
Lookup(c) ==
  /\ pc[c] = "work" /\ "cache" \in todo[c]
  /\ todo' = [todo EXCEPT ![c] = @ \ {"cache"}]
  /\ \/ /\ cached
        /\ UNCHANGED <<pc, gate, lease, inflight, follows>>
     \/ /\ ~cached /\ inflight # None
        /\ follows' = [follows EXCEPT ![c] = inflight]
        /\ Wait(c, "following") /\ UNCHANGED inflight
     \/ /\ ~cached /\ inflight = None
        /\ inflight' = c /\ Goto(c, "compute")
        /\ UNCHANGED <<gate, lease, follows>>
  /\ UNCHANGED <<outcome, stopped, executor, promise, cached, resizes>>

(* compute() returns or throws; a value of an admissible size is inserted.   *)
Compute(c) ==
  /\ pc[c] = "compute" /\ Goto(c, "publish")
  /\ cached' \in {cached, TRUE}
  /\ UNCHANGED <<gate, lease, todo, outcome, stopped, executor, inflight,
                 promise, follows, resizes>>

Publish(c) ==
  /\ pc[c] = "publish" /\ Goto(c, "erase")
  /\ promise' = [promise EXCEPT ![c] = TRUE]
  /\ UNCHANGED <<gate, lease, todo, outcome, stopped, executor, inflight,
                 follows, cached, resizes>>

(* The owner then waits for its own future, as everybody does.               *)
Erase(c) ==
  /\ pc[c] = "erase" /\ inflight' = None
  /\ follows' = [follows EXCEPT ![c] = c]
  /\ Wait(c, "following")
  /\ UNCHANGED <<todo, outcome, stopped, executor, promise, cached, resizes>>

Follow(c) ==
  /\ pc[c] = "following" /\ promise[follows[c]] /\ Resume(c)
  /\ UNCHANGED <<gate, lease, todo, outcome, stopped, executor, cache, resizes>>

(* An eviction, or clear().                                                  *)
Evict ==
  /\ cached /\ cached' = FALSE
  /\ UNCHANGED <<gate, lease, thread, stopped, executor, inflight, promise, follows,
                 resizes>>

-----------------------------------------------------------------------------
(* The end of a conversion: the destructor of its lease.                     *)
Finish(c) ==
  /\ pc[c] = "work" /\ Goto(c, "done")
  /\ outcome' = [outcome EXCEPT ![c] = IF held[c] THEN "ended" ELSE "unpermitted"]
  /\ GiveBack(c)
  /\ UNCHANGED <<released, todo, stopped, executor, cache, resizes>>

(* Its token is set, or its deadline passes.                                 *)
Stop(c) ==
  /\ c \notin stopped /\ stopped' = stopped \cup {c}
  /\ UNCHANGED <<gate, lease, thread, executor, cache, resizes>>

(* begin_runtime_shutdown: first the gate, then the executor, whose waiting
   tasks are destroyed (their futures are broken).                           *)
ShutdownGate ==
  /\ ~stopping /\ stopping' = TRUE
  /\ UNCHANGED <<limit, active, waiting, lease, thread, stopped, executor, cache, resizes>>

\* Mutant: who waits for a task that is dropped is not told.
ShutdownKeepsPromises ==
  /\ stopping /\ ~closed /\ closed' = TRUE /\ queue' = <<>>
  /\ UNCHANGED answer
  /\ UNCHANGED <<gate, lease, thread, stopped, cache, resizes>>

ShutdownExecutor ==
  /\ stopping /\ ~closed /\ closed' = TRUE /\ queue' = <<>>
  /\ answer' = [c \in Conversions |-> IF answer[c] = "queued" THEN "ready" ELSE answer[c]]
  /\ UNCHANGED <<gate, lease, thread, stopped, cache, resizes>>

Convert(c) ==
  \/ Ask(c) \/ AskAgain(c) \/ BeginSubmit(c) \/ Submit(c) \/ BeginGet(c) \/ Get(c)
  \/ BeginFetch(c) \/ Fetched(c) \/ Lookup(c) \/ Compute(c) \/ Publish(c) \/ Erase(c)
  \/ Follow(c) \/ Finish(c)

Environment == \/ \E l \in 1 .. MaxLimit : SetLimit(l)
               \/ Evict \/ ShutdownGate \/ ShutdownExecutor

Next == \/ \E c \in Conversions : Start(c) \/ Convert(c) \/ RunTask(c) \/ Stop(c)
        \/ TakeTask \/ Environment

Spec == Init /\ [][Next]_vars

(* A thread that can take a step does so, a task of the executor returns.
   Nobody has to start, to be cancelled, to be evicted or to shut down.      *)
Fairness == /\ \A c \in Conversions : WF_vars(Convert(c)) /\ WF_vars(RunTask(c))
            /\ WF_vars(TakeTask)

FairSpec == Spec /\ Fairness

-----------------------------------------------------------------------------
(* Properties.                                                               *)

Holders == {c \in Conversions : held[c]}

(* Permits are neither lost nor made up, through every wait, refusal and end:
   the gate's numbers are those of the conversions that hold a permit and of
   those that wait for one.                                                  *)
PermitsExact ==
  /\ active = Cardinality(Holders)
  /\ waiting = Cardinality({c \in Conversions : pc[c] = "blocked"})

(* A permit is held by a conversion that runs code of its own, and a permit
   that is to be asked for again is not held: nobody who waits for the executor,
   for a fetch, for another conversion or for a permit keeps one from others.  *)
PermitWhereItBelongs ==
  \A c \in Conversions :
    /\ held[c] => pc[c] \in Working
    /\ released[c] # "none" => pc[c] \in Asking \/ pc[c] = released[c]

(* What a conversion waits for will come.  A future in the cache is one that
   somebody is still to fulfil or has fulfilled, so that no key stays in flight
   without an owner; a task that is waited for is in the queue, in a worker's
   hands, or answered.                                                       *)
FlightInv ==
  /\ \A c \in Conversions : inflight = c <=> pc[c] \in {"compute", "publish", "erase"}
  /\ \A c \in Conversions : pc[c] = "erase" => promise[c]
  /\ \A c \in Conversions : pc[c] = "following" =>
       follows[c] \in Conversions /\ (promise[follows[c]] \/ inflight = follows[c])

TaskInv ==
  /\ \A c \in Conversions :
       answer[c] = "queued" <=> \E i \in 1 .. Len(queue) : queue[i] = c
  /\ \A i, j \in 1 .. Len(queue) : queue[i] = queue[j] => i = j
  /\ \A c \in Conversions : (pc[c] = "getting" \/ "get" \in todo[c]) =>
       answer[c] # "none" \/ pc[c] = "submitting"
  /\ \A c \in Conversions :
       ("submit" \in todo[c] \/ pc[c] = "submitting") => answer[c] = "none"

NobodyWaitsInVain == FlightInv /\ TaskInv

(* Conversions that compute without a permit, or wait for something after which
   they will.                                                                *)
Bare == {c \in Conversions : \/ pc[c] \in Working /\ ~held[c]
                             \/ pc[c] \in Waiting /\ released[c] = "none"}
EndedAs(way) == {c \in Conversions : outcome[c] = way}

(* No permit is refused to a conversion that nobody stopped while the server
   goes on: only one that was stopped, or is overtaken by the shutdown, ends
   without a permit or computes without one.                                 *)
RefusedOnes == Bare \cup EndedAs("refused") \cup EndedAs("unpermitted")
RefusedForAReason == \A c \in RefusedOnes : stopping \/ c \in stopped

CpuInv == /\ TypeOK /\ PermitsExact /\ PermitWhereItBelongs /\ RefusedForAReason
          /\ NobodyWaitsInVain

(* Every conversion that starts ends: with a single permit, with the executor
   closed under its task, and when it has to go on without a permit.          *)
EveryConversionEnds ==
  \A c \in Conversions : pc[c] = "asking" ~> pc[c] = "done"

-----------------------------------------------------------------------------
(* What the gate's counters, the leases and the waits around them amount to.  *)
Pool == INSTANCE PermitPool WITH
  holders <- Holders, open <- ~stopping, ended <- EndedAs("ended"),
  refused <- RefusedOnes

(* The conversions that run with a permit never grow beyond the limit that was
   set last, however permits are given back around waits, waiters give up, and
   the limit changes; none is refused without a reason, and one that computes
   without a permit gets none any more and gives none back.                  *)
ImplementsPermitPool == Pool!Spec

=============================================================================
