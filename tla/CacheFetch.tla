----------------------------- MODULE CacheFetch -----------------------------
(***************************************************************************)
(* webGetOwnedAsync and CacheFetchOperation (src/handler/webget.cpp): the  *)
(* callers that want one cached resource share one operation, found in     *)
(* cache_fetches under the resource's key.  The caller that creates it     *)
(* owns it and starts its work; every caller attaches, subscribes a        *)
(* callback and leaves when it is answered, by the operation or by the     *)
(* cancellation of its own request.  The last one to leave an unfinished   *)
(* operation abandons it and cancels its work.                             *)
(* Each critical section (the registry's, the operation's, the consumer's) *)
(* is an action, and so is each call made between two of them.             *)
(***************************************************************************)
EXTENDS Integers, FiniteSets

CONSTANTS Consumers, None,
          MaxOps          \* bound on the operations made for the key

ASSUME ConsumerAssumption == IsFiniteSet(Consumers) /\ None \notin Consumers
ASSUME OpsAssumption == MaxOps \in Nat /\ None \notin 0..MaxOps
ASSUME NoneAssumption == None \notin {"Ok", "Failed", "NoConsumers", "NotStarted", "Own"}

Ops == 1..MaxOps
Requester == 0      \* who claims a completion: a thread of the request, or the
                    \* one that publishes an operation

VARIABLES
  registry,                                         \* cache_fetches[key]
  made,                                             \* operations made so far
  done, abandoned, count, callbacks, token,         \* of each operation
  work, payload, todo,                              \* its work; callbacks to run
  call, owner, local, holds,                        \* of each call
  bound, subscribed,                                \* its OwnedWebGetAsyncConsumer
  by, fin, outcome,                           \* its completion
  cancelled                                         \* requests cancelled

opVars     == <<done, abandoned, count, callbacks, token>>
workVars   == <<work, payload, todo>>
callVars   == <<call, owner, local>>
bindVars   == <<bound, subscribed>>
finishVars == <<by, fin, outcome>>
vars == <<registry, made, opVars, workVars, callVars, holds, bindVars, finishVars,
          cancelled>>

Init ==
  /\ registry = None /\ made = 0
  /\ done = [o \in Ops |-> FALSE]
  /\ abandoned = [o \in Ops |-> FALSE]
  /\ count = [o \in Ops |-> 0]
  /\ callbacks = [o \in Ops |-> {}]
  /\ token = [o \in Ops |-> FALSE]
  /\ work = [o \in Ops |-> "none"]
  /\ payload = [o \in Ops |-> None]
  /\ todo = [o \in Ops |-> {}]
  /\ call = [c \in Consumers |-> "idle"]
  /\ owner = [c \in Consumers |-> FALSE]
  /\ local = [c \in Consumers |-> None]
  /\ holds = [c \in Consumers |-> FALSE]
  /\ bound = [c \in Consumers |-> FALSE]
  /\ subscribed = [c \in Consumers |-> FALSE]
  /\ by = [c \in Consumers |-> None]
  /\ fin = [c \in Consumers |-> "none"]
  /\ outcome = [c \in Consumers |-> None]
  /\ cancelled = {}

Goto(c, stage) == call' = [call EXCEPT ![c] = stage]

-----------------------------------------------------------------------------
(* completeOwnedWebGetAsyncConsumer: the thread that claims the completion  *)
(* detaches the consumer and then calls it.                                 *)

\* completion_claimed.exchange(true); the request's own cancellation overrides
\* what it was to be told.
Claim(c, thread, r) ==
  IF by[c] = None
  THEN /\ by' = [by EXCEPT ![c] = thread]
       /\ fin' = [fin EXCEPT ![c] = "detach"]
       /\ outcome' = [outcome EXCEPT ![c] = IF c \in cancelled THEN "Own" ELSE r]
  ELSE UNCHANGED finishVars

\* subscription_detached, under subscription_mutex.
DetachedFrom(c) == fin[c] \notin {"none", "detach"}

Detach(c) ==
  /\ fin[c] = "detach"
  /\ fin' = [fin EXCEPT ![c] = IF bound[c] THEN "unsubscribe" ELSE "answer"]
  /\ UNCHANGED <<registry, made, opVars, workVars, callVars, holds, bindVars, by,
                 outcome, cancelled>>

Unsubscribe(c) ==
  /\ fin[c] = "unsubscribe"
  /\ callbacks' = IF subscribed[c]
                  THEN [callbacks EXCEPT ![local[c]] = @ \ {c}]
                  ELSE callbacks
  /\ fin' = [fin EXCEPT ![c] = IF holds[c] THEN "release" ELSE "answer"]
  /\ UNCHANGED <<registry, made, done, abandoned, count, token, workVars, callVars,
                 holds, bindVars, by, outcome, cancelled>>

\* Mutant: the last consumer to leave abandons a finished operation too.
LastOneEvenDone(o) == count[o] = 1

\* releaseConsumer: the last consumer to leave an unfinished operation abandons it.
LastOne(o) == count[o] = 1 /\ ~done[o]

ReleaseConsumer(c) ==
  LET o == local[c] IN
  /\ count' = [count EXCEPT ![o] = @ - 1]
  /\ abandoned' = [abandoned EXCEPT ![o] = @ \/ LastOne(o)]
  /\ holds' = [holds EXCEPT ![c] = FALSE]

FinishRelease(c) ==
  /\ fin[c] = "release"
  /\ ReleaseConsumer(c)
  /\ fin' = [fin EXCEPT ![c] = IF LastOne(local[c]) THEN "cancelWork" ELSE "answer"]
  /\ UNCHANGED <<registry, made, done, callbacks, token, workVars, callVars, bindVars,
                 by, outcome, cancelled>>

\* work_cancellation_.cancel(NoConsumers), after the unlock.
FinishCancelWork(c) ==
  /\ fin[c] = "cancelWork"
  /\ token' = [token EXCEPT ![local[c]] = TRUE]
  /\ fin' = [fin EXCEPT ![c] = "answer"]
  /\ UNCHANGED <<registry, made, done, abandoned, count, callbacks, workVars, callVars,
                 holds, bindVars, by, outcome, cancelled>>

\* completion(outcome): what the call is told.
CallCompletion(c) ==
  /\ fin[c] = "answer"
  /\ fin' = [fin EXCEPT ![c] = "done"]
  /\ UNCHANGED <<registry, made, opVars, workVars, callVars, holds, bindVars, by,
                 outcome, cancelled>>

-----------------------------------------------------------------------------
(* The request of a call: cancelled by its client, its deadline or shutdown *)

Cancel(c) ==
  /\ c \notin cancelled /\ fin[c] # "done"
  /\ cancelled' = cancelled \cup {c}
  /\ UNCHANGED <<registry, made, opVars, workVars, callVars, holds, bindVars,
                 finishVars>>

\* The consumer belongs to the call until webGetOwnedAsync returns, and then to
\* the callback that an operation keeps, or is about to run, for it.
ConsumerLives(c) ==
  call[c] # "returned" \/ \E o \in Ops : c \in callbacks[o] \cup todo[o]

\* The callback registered with the request, on the thread that cancelled it.  It
\* holds the consumer weakly, and nobody is there to be told once that is gone.
CancelCallback(c) ==
  /\ c \in cancelled /\ call[c] # "idle" /\ by[c] = None /\ ConsumerLives(c)
  /\ Claim(c, Requester, "Own")
  /\ UNCHANGED <<registry, made, opVars, workVars, callVars, holds, bindVars, cancelled>>

-----------------------------------------------------------------------------
(* webGetOwnedAsync *)

\* The callback is registered; of a request already cancelled it runs at once.
Register(c) ==
  /\ call[c] = "idle"
  /\ IF c \in cancelled
     THEN Claim(c, Requester, "Own") /\ Goto(c, "returned")
     ELSE UNCHANGED finishVars /\ Goto(c, "registered")
  /\ UNCHANGED <<registry, made, opVars, workVars, owner, local, holds, bindVars,
                 cancelled>>

\* completion_claimed is read once after that: a call found answered returns.
CheckClaimed(c) ==
  /\ call[c] = "registered" /\ by[c] # None
  /\ Goto(c, "returned")
  /\ UNCHANGED <<registry, made, opVars, workVars, owner, local, holds, bindVars,
                 finishVars, cancelled>>

\* cache_fetch_mutex: take the registered operation or register a new one.
Find(c) ==
  /\ call[c] \in {"registered", "find"}
  /\ IF registry = None
     THEN /\ made < MaxOps
          /\ made' = made + 1
          /\ registry' = made + 1
          /\ local' = [local EXCEPT ![c] = made + 1]
          /\ owner' = [owner EXCEPT ![c] = TRUE]
     ELSE /\ local' = [local EXCEPT ![c] = registry]
          /\ owner' = [owner EXCEPT ![c] = FALSE]
          /\ UNCHANGED <<registry, made>>
  /\ Goto(c, "attach")
  /\ UNCHANGED <<opVars, workVars, holds, bindVars, finishVars, cancelled>>

\* Mutant: an abandoned operation takes new consumers.
AttachToAbandoned(c) ==
  LET o == local[c] IN
  /\ call[c] = "attach"
  /\ IF done[o]
     THEN UNCHANGED <<count, holds>>
     ELSE /\ count' = [count EXCEPT ![o] = @ + 1]
          /\ holds' = [holds EXCEPT ![c] = TRUE]
  /\ Goto(c, "bind")
  /\ UNCHANGED <<registry, made, done, abandoned, callbacks, token, workVars, owner,
                 local, bindVars, finishVars, cancelled>>

\* attachConsumer: a finished operation needs no attachment, an abandoned one
\* is not taken.
Attach(c) ==
  LET o == local[c] IN
  /\ call[c] = "attach"
  /\ IF done[o]
     THEN Goto(c, "bind") /\ UNCHANGED <<count, holds>>
     ELSE IF abandoned[o]
     THEN Goto(c, "forget") /\ UNCHANGED <<count, holds>>
     ELSE /\ count' = [count EXCEPT ![o] = @ + 1]
          /\ holds' = [holds EXCEPT ![c] = TRUE]
          /\ Goto(c, "bind")
  /\ UNCHANGED <<registry, made, done, abandoned, callbacks, token, workVars, owner,
                 local, bindVars, finishVars, cancelled>>

EraseFromRegistry(o) == registry' = IF registry = o THEN None ELSE registry

Forget(c) ==
  /\ call[c] = "forget"
  /\ EraseFromRegistry(local[c])
  /\ Goto(c, "find")
  /\ UNCHANGED <<made, opVars, workVars, owner, local, holds, bindVars, finishVars,
                 cancelled>>

\* Mutant: a call that was answered first keeps its attachment.
BindKeepsAttachment(c) ==
  /\ call[c] = "bind"
  /\ IF by[c] # None
     THEN Goto(c, "returned") /\ UNCHANGED bound
     ELSE Goto(c, "subscribe") /\ bound' = [bound EXCEPT ![c] = TRUE]
  /\ UNCHANGED <<registry, made, opVars, workVars, owner, local, holds, subscribed,
                 finishVars, cancelled>>

\* attachOwnedWebGetAsyncConsumer, under subscription_mutex.
Bind(c) ==
  /\ call[c] = "bind"
  /\ IF by[c] # None
     THEN Goto(c, IF holds[c] THEN "giveUp" ELSE "returned") /\ UNCHANGED bound
     ELSE Goto(c, "subscribe") /\ bound' = [bound EXCEPT ![c] = TRUE]
  /\ UNCHANGED <<registry, made, opVars, workVars, owner, local, holds, subscribed,
                 finishVars, cancelled>>

\* The call was answered first: it drops its attachment, and an owner fails the
\* operation it never started.
GiveUp(c) ==
  /\ call[c] = "giveUp"
  /\ ReleaseConsumer(c)
  /\ Goto(c, IF LastOne(local[c]) THEN "cancelWork"
             ELSE IF owner[c] THEN "fail" ELSE "returned")
  /\ UNCHANGED <<registry, made, done, callbacks, token, workVars, owner, local,
                 bindVars, finishVars, cancelled>>

\* Mutant: an owner that gives up leaves the operation as it is.
GiveUpAndReturn(c) ==
  /\ call[c] = "cancelWork"
  /\ token' = [token EXCEPT ![local[c]] = TRUE]
  /\ Goto(c, "returned")
  /\ UNCHANGED <<registry, made, done, abandoned, count, callbacks, workVars, owner,
                 local, holds, bindVars, finishVars, cancelled>>

GiveUpCancelWork(c) ==
  /\ call[c] = "cancelWork"
  /\ token' = [token EXCEPT ![local[c]] = TRUE]
  /\ Goto(c, IF owner[c] THEN "fail" ELSE "returned")
  /\ UNCHANGED <<registry, made, done, abandoned, count, callbacks, workVars, owner,
                 local, holds, bindVars, finishVars, cancelled>>

FailOwned(c) ==
  /\ call[c] = "fail"
  /\ work' = [work EXCEPT ![local[c]] = "publish"]
  /\ payload' = [payload EXCEPT ![local[c]] = "NotStarted"]
  /\ Goto(c, "returned")
  /\ UNCHANGED <<registry, made, opVars, todo, owner, local, holds, bindVars,
                 finishVars, cancelled>>

AfterSubscribe(c) == IF owner[c] THEN "start" ELSE "returned"

\* Mutant: done_ is not looked at under the lock.
SubscribeToDone(c) ==
  LET o == local[c] IN
  /\ call[c] = "subscribe"
  /\ \/ /\ abandoned[o]
        /\ Goto(c, AfterSubscribe(c))
        /\ UNCHANGED callbacks
     \/ /\ ~abandoned[o]
        /\ callbacks' = [callbacks EXCEPT ![o] = @ \cup {c}]
        /\ Goto(c, "record")
  /\ UNCHANGED <<registry, made, done, abandoned, count, token, workVars, owner,
                 local, holds, bindVars, finishVars, cancelled>>

\* subscribe: an abandoned operation takes no callback, an unfinished one keeps
\* it, a finished one has it called here.
Subscribe(c) ==
  LET o == local[c] IN
  /\ call[c] = "subscribe"
  /\ \/ /\ abandoned[o]
        /\ Goto(c, AfterSubscribe(c))
        /\ UNCHANGED <<callbacks, finishVars>>
     \/ /\ ~abandoned[o] /\ ~done[o]
        /\ callbacks' = [callbacks EXCEPT ![o] = @ \cup {c}]
        /\ Goto(c, "record")
        /\ UNCHANGED finishVars
     \/ /\ ~abandoned[o] /\ done[o]
        /\ Claim(c, Requester, payload[o])
        /\ Goto(c, AfterSubscribe(c))
        /\ UNCHANGED callbacks
  /\ UNCHANGED <<registry, made, done, abandoned, count, token, workVars, owner,
                 local, holds, bindVars, cancelled>>

\* setOwnedWebGetAsyncSubscription, under subscription_mutex.
Record(c) ==
  /\ call[c] = "record"
  /\ IF DetachedFrom(c)
     THEN Goto(c, "drop") /\ UNCHANGED subscribed
     ELSE Goto(c, AfterSubscribe(c)) /\ subscribed' = [subscribed EXCEPT ![c] = TRUE]
  /\ UNCHANGED <<registry, made, opVars, workVars, owner, local, holds, bound,
                 finishVars, cancelled>>

\* It came too late: the operation's callback is taken back.
DropSubscription(c) ==
  /\ call[c] = "drop"
  /\ callbacks' = [callbacks EXCEPT ![local[c]] = @ \ {c}]
  /\ Goto(c, AfterSubscribe(c))
  /\ UNCHANGED <<registry, made, done, abandoned, count, token, workVars, owner,
                 local, holds, bindVars, finishVars, cancelled>>

\* startAsyncOwnedCacheOwner submits the first continuation.
Start(c) ==
  /\ call[c] = "start"
  /\ work' = [work EXCEPT ![local[c]] = "load"]
  /\ Goto(c, "returned")
  /\ UNCHANGED <<registry, made, opVars, payload, todo, owner, local, holds, bindVars,
                 finishVars, cancelled>>

-----------------------------------------------------------------------------
(* The owner's work.  A continuation is a task of a WorkloadScheduler: it   *)
(* runs, or its completion is told why not.                                 *)

WorkStep(o, stage, r) ==
  /\ work' = [work EXCEPT ![o] = stage]
  /\ payload' = [payload EXCEPT ![o] = r]
  /\ UNCHANGED <<registry, made, opVars, todo, callVars, holds, bindVars, finishVars,
                 cancelled>>

\* completeAsyncOwnedCacheContinuation: refused, expired, shut down, or cancelled
\* because nobody wants the result.
Refused(o) ==
  /\ work[o] \in {"load", "finalize"}
  /\ \/ WorkStep(o, "publish", "Failed")
     \/ token[o] /\ WorkStep(o, "publish", "NoConsumers")

\* loadFreshAsyncOwnedCache, which publishes a fresh file (a failure if it cannot
\* be kept in memory); else the network.
Load(o) ==
  /\ work[o] = "load"
  /\ \/ \E r \in {"Ok", "Failed"} : WorkStep(o, "publish", r)
     \/ WorkStep(o, "network", None)

\* The engine's answer; a failed GitHub URL is tried once more at jsDelivr.
\* submitAsyncOwnedCacheFinalize follows.
Fetched(o) ==
  /\ work[o] = "network"
  /\ \E r \in {"Ok", "Failed"} : \/ WorkStep(o, "finalize", r)
                                 \/ r = "Failed" /\ WorkStep(o, "fallback", r)
FetchedFallback(o) ==
  /\ work[o] = "fallback"
  /\ \E r \in {"Ok", "Failed"} : WorkStep(o, "finalize", r)

\* commitOrServeStaleAsyncOwnedCache: nothing is kept of a fetch nobody wants; a
\* good one is written to the cache; a stale file may stand in for a failed one.
Finalize(o) ==
  /\ work[o] = "finalize"
  /\ IF token[o]
     THEN WorkStep(o, "publish", "NoConsumers")
     ELSE IF payload[o] = "Ok"
     THEN WorkStep(o, "store", "Ok")
     ELSE \E r \in {"Ok", "Failed"} : WorkStep(o, "publish", r)
Store(o) == work[o] = "store" /\ WorkStep(o, "publish", "Ok")

\* Mutant: the callbacks are cleared instead of taken.
PublishDropsCallbacks(o) ==
  /\ work[o] = "publish"
  /\ done' = [done EXCEPT ![o] = TRUE]
  /\ callbacks' = [callbacks EXCEPT ![o] = {}]
  /\ work' = [work EXCEPT ![o] = "invoke"]
  /\ UNCHANGED <<registry, made, abandoned, count, token, payload, todo, callVars, holds,
                 bindVars, finishVars, cancelled>>

\* finish: done_ is set and the callbacks are taken under the lock ...
Publish(o) ==
  /\ work[o] = "publish"
  /\ done' = [done EXCEPT ![o] = TRUE]
  /\ todo' = [todo EXCEPT ![o] = callbacks[o]]
  /\ callbacks' = [callbacks EXCEPT ![o] = {}]
  /\ work' = [work EXCEPT ![o] = "invoke"]
  /\ UNCHANGED <<registry, made, abandoned, count, token, payload, callVars, holds,
                 bindVars, finishVars, cancelled>>

\* ... and called one after the other without it.
Invoke(o) ==
  /\ work[o] = "invoke"
  /\ \A c \in Consumers : by[c] = o => fin[c] = "done"
  /\ \E c \in todo[o] :
       /\ Claim(c, o, payload[o])
       /\ todo' = [todo EXCEPT ![o] = @ \ {c}]
  /\ UNCHANGED <<registry, made, opVars, work, payload, callVars, holds, bindVars,
                 cancelled>>

Erase(o) ==
  /\ work[o] = "invoke"
  /\ todo[o] = {}
  /\ \A c \in Consumers : by[c] = o => fin[c] = "done"
  /\ EraseFromRegistry(o)
  /\ work' = [work EXCEPT ![o] = "ended"]
  /\ UNCHANGED <<made, opVars, payload, todo, callVars, holds, bindVars, finishVars,
                 cancelled>>

-----------------------------------------------------------------------------
CallerStep(c) ==
  \/ CheckClaimed(c) \/ Find(c) \/ Attach(c) \/ Forget(c) \/ Bind(c)
  \/ GiveUp(c) \/ GiveUpCancelWork(c) \/ FailOwned(c)
  \/ Subscribe(c) \/ Record(c) \/ DropSubscription(c) \/ Start(c)
CompletionStep(c) ==
  Detach(c) \/ Unsubscribe(c) \/ FinishRelease(c) \/ FinishCancelWork(c) \/ CallCompletion(c)
OwnerWork(o) ==
  \/ Refused(o) \/ Load(o) \/ Fetched(o) \/ FetchedFallback(o) \/ Finalize(o) \/ Store(o)
  \/ Publish(o) \/ Invoke(o) \/ Erase(o)

Next ==
  \/ \E c \in Consumers : \/ Register(c) \/ CallerStep(c) \/ CompletionStep(c)
                          \/ Cancel(c) \/ CancelCallback(c)
  \/ \E o \in Ops : OwnerWork(o)

Spec == Init /\ [][Next]_vars

\* Threads that can run do, the engine answers every transfer and the scheduler
\* every continuation.  Nobody has to call or to cancel.
FairSpec ==
  /\ Spec
  /\ \A c \in Consumers : /\ WF_vars(CallerStep(c)) /\ WF_vars(CompletionStep(c))
                          /\ WF_vars(CancelCallback(c))
  /\ \A o \in Ops : WF_vars(OwnerWork(o))

-----------------------------------------------------------------------------
(* Properties *)

Result == {"Ok", "Failed", "NoConsumers", "NotStarted"}

TypeOK ==
  /\ registry \in Ops \cup {None} /\ made \in 0..MaxOps
  /\ done \in [Ops -> BOOLEAN] /\ abandoned \in [Ops -> BOOLEAN]
  /\ token \in [Ops -> BOOLEAN]
  /\ count \in [Ops -> Int]
  /\ callbacks \in [Ops -> SUBSET Consumers] /\ todo \in [Ops -> SUBSET Consumers]
  /\ work \in [Ops -> {"none", "load", "network", "fallback", "finalize", "store",
                      "publish", "invoke", "ended"}]
  /\ payload \in [Ops -> Result \cup {None}]
  /\ call \in [Consumers -> {"idle", "registered", "find", "attach", "forget", "bind",
                            "giveUp", "cancelWork", "fail", "subscribe", "record",
                            "drop", "start", "returned"}]
  /\ owner \in [Consumers -> BOOLEAN] /\ holds \in [Consumers -> BOOLEAN]
  /\ bound \in [Consumers -> BOOLEAN] /\ subscribed \in [Consumers -> BOOLEAN]
  /\ local \in [Consumers -> Ops \cup {None}]
  /\ by \in [Consumers -> Ops \cup {Requester, None}]
  /\ fin \in [Consumers -> {"none", "detach", "unsubscribe", "release", "cancelWork",
                           "answer", "done"}]
  /\ outcome \in [Consumers -> Result \cup {"Own", None}]
  /\ cancelled \subseteq Consumers

\* One fetch at a time: an operation that is neither finished nor abandoned is
\* the registered one, so two callers of one key never fetch it twice at once,
\* however attaching, abandoning, retrying and erasing interleave.
SingleFlight == \A o \in Ops : o <= made /\ ~done[o] /\ ~abandoned[o] => registry = o

\* Reference counting: consumers_ is the number of calls that hold an attachment,
\* through every race of a call's own steps with its cancellation and with the
\* operation's publication; and an operation is abandoned, and its work
\* cancelled, only when that number is zero.
Attached(o) == {c \in Consumers : holds[c] /\ local[c] = o}
ConsumersCounted ==
  \A o \in Ops : /\ count[o] = Cardinality(Attached(o))
                 /\ token[o] => abandoned[o]
                 /\ abandoned[o] => count[o] = 0

\* What every step preserves: the operation of a call is one that was made, an
\* attachment belongs to the call until Bind hands it to the consumer, and only
\* finished or abandoned operations are taken out of the registry.
OpInv ==
  /\ registry \in 1..made \cup {None}
  /\ \A o \in Ops : work[o] \in {"invoke", "ended"} => done[o]
CallInv ==
  \A c \in Consumers :
    /\ local[c] \in 1..made \/ call[c] \in {"idle", "registered", "find", "returned"}
    /\ holds[c] => local[c] \in 1..made
    /\ holds[c] => call[c] \notin {"idle", "registered", "find", "attach", "forget"}
    /\ bound[c] => call[c] \in {"subscribe", "record", "drop", "start", "returned"}
    /\ bound[c] => local[c] \in 1..made
    /\ call[c] \in {"giveUp", "cancelWork", "fail"} => local[c] \in 1..made
    /\ call[c] = "giveUp" => holds[c]
    /\ call[c] \in {"forget", "cancelWork"} => abandoned[local[c]]
FinishInv ==
  \A c \in Consumers :
    /\ fin[c] \in {"unsubscribe", "release", "cancelWork"} => bound[c]
    /\ fin[c] = "release" => holds[c]
    /\ fin[c] = "cancelWork" => abandoned[local[c]]
FetchInv == TypeOK /\ SingleFlight /\ ConsumersCounted /\ OpInv /\ CallInv /\ FinishInv

\* A call that has returned and was answered has left nothing in the operation:
\* no attachment, and no callback that would be called (and keep its request
\* alive) after the answer, except one a publication has already taken.
AnsweredHasLeft ==
  \A c \in Consumers : fin[c] = "done" /\ call[c] = "returned" =>
    /\ ~holds[c]
    /\ \A o \in Ops : c \notin callbacks[o]

\* A call that has returned without an answer has its callback with an operation
\* that will still run it, unless the operation it found was finished after it
\* had been abandoned: subscribe then keeps no callback and calls none, the
\* consumer is gone with the call, and even a cancellation finds nobody to tell.
Pending(c) == call[c] = "returned" /\ by[c] = None
Waits(c) == \E o \in Ops : c \in callbacks[o] \cup todo[o] /\ work[o] # "ended"
Orphaned(c) == bound[c] /\ done[local[c]] /\ abandoned[local[c]]
ForgottenOnlyByAbandoned == \A c \in Consumers : Pending(c) => Waits(c) \/ Orphaned(c)

\* The promise the tests of webGetOwnedAsync rely on: every call is answered
\* exactly once, so a call that has returned without an answer waits for one.
NobodyForgotten == \A c \in Consumers : Pending(c) => Waits(c)

\* What the tests of webGetOwnedAsync expect of the callers that are not
\* cancelled: the cancellation of others, the owner's included, is not theirs.
SurvivorsUnaffected ==
  \A c \in Consumers : fin[c] = "done" /\ c \notin cancelled => outcome[c] \notin {"NotStarted", "NoConsumers"}

\* The callers share fetches as their users understand it: each is told once, of
\* its own cancellation or of the fetch it took, which goes on while one of them is
\* attached and then ends for somebody.  What an abandoned operation publishes
\* reaches nobody; that nobody wanted it ("NoConsumers") is never an answer.
Published(o) == done[o] /\ ~abandoned[o]
Wanted == [o \in Ops |-> Attached(o)]
Results == [o \in Ops |-> IF Published(o) THEN payload[o] ELSE None]
Dropped == {o \in Ops : abandoned[o]}
Shared == INSTANCE SharedFetch WITH
  Callers <- Consumers, Fetches <- Ops, current <- registry, begun <- 1..made,
  seat <- local, wanted <- Wanted, result <- Results, dropped <- Dropped,
  told <- outcome
ImplementsSharedFetch == Shared!Spec

\* Every call that is made is answered, except one orphaned as above.
CallsAnswered ==
  \A c \in Consumers : call[c] = "registered" ~> fin[c] = "done" \/ Orphaned(c)

\* Every operation leaves the registry, also when all who wanted it are gone or
\* its owner was answered before starting it: the key can be fetched again.
RegistryDrains == \A o \in Ops : registry = o ~> registry # o
=============================================================================
