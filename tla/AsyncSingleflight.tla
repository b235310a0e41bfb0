------------------------- MODULE AsyncSingleflight -------------------------
(***************************************************************************)
(* ConversionService::convertSubscriptionAsync (src/handler/interfaces.cpp)*)
(* for one response key: equal /sub requests that overlap are one          *)
(* conversion.  The first becomes the owner of a call, whose conversion    *)
(* runs on the request-flow scheduler; later ones follow it; the last one  *)
(* to leave a call that still accepts followers abandons it; a finished    *)
(* call answers its consumers and leaves the response in the micro-cache.  *)
(* Each critical section and each call made outside of one is an action.   *)
(***************************************************************************)
EXTENDS Integers, FiniteSets

CONSTANTS Requests, None,
          Requester     \* who claims a completion: a thread of the request, as
                        \* opposed to the one that publishes a call

ASSUME RequestAssumption ==
  /\ IsFiniteSet(Requests) /\ Requester \notin Requests
  /\ None \notin Requests \cup {Requester, "Cancelled", "Refused", "Result", "Failed"}

Calls == Requests       \* a request makes at most one call, which bears its name

VARIABLES
  cached,                                \* the micro-cache holds the response
  registry,                        \* g_async_sub_inflight[key]
  phase, members, hasResult,             \* of each AsyncInflightSubRequest
  token,                                 \* its work_context is cancelled
  released, activeOwners, waiting,       \* the gauges
  work, ok, todo,                        \* the owner's conversion
  pc, local, listening,        \* of each request
  counted, by, fin, outcome,             \* of its AsyncSubRequestConsumer
  cancelled

callVars  == <<phase, members, hasResult, token>>
gaugeVars == <<released, activeOwners, waiting>>
workVars  == <<work, ok, todo>>
pcVars    == <<pc, local, listening>>
doneVars  == <<by, fin, outcome>>
vars == <<cached, registry, callVars, gaugeVars, workVars, pcVars, counted,
          doneVars, cancelled>>

Init ==
  /\ cached = FALSE
  /\ registry = None
  /\ phase = [k \in Calls |-> "none"]
  /\ members = [k \in Calls |-> {}]
  /\ hasResult = [k \in Calls |-> FALSE]
  /\ token = [k \in Calls |-> FALSE]
  /\ released = [k \in Calls |-> FALSE]
  /\ activeOwners = 0 /\ waiting = 0
  /\ work = [k \in Calls |-> "none"]
  /\ ok = [k \in Calls |-> FALSE]
  /\ todo = [k \in Calls |-> {}]
  /\ pc = [r \in Requests |-> "new"]
  /\ local = [r \in Requests |-> None]
  /\ listening = [r \in Requests |-> FALSE]
  /\ counted = [r \in Requests |-> FALSE]
  /\ by = [r \in Requests |-> None]
  /\ fin = [r \in Requests |-> "none"]
  /\ outcome = [r \in Requests |-> None]
  /\ cancelled = {}

Goto(r, s) == pc' = [pc EXCEPT ![r] = s]

\* eraseAsyncInflightSubRequest
EraseCall(k) == registry' = IF registry = k THEN None ELSE registry

\* Mutant: active_released is not exchanged.
ReleaseOwnerAgain(k) ==
  /\ released' = [released EXCEPT ![k] = TRUE]
  /\ activeOwners' = activeOwners - 1

\* releaseAsyncInflightOwner
ReleaseOwner(k) ==
  /\ released' = [released EXCEPT ![k] = TRUE]
  /\ activeOwners' = IF released[k] THEN activeOwners ELSE activeOwners - 1

-----------------------------------------------------------------------------
(* Completing a request: whoever claims the completion detaches the         *)
(* consumer (detachAsyncSubRequestConsumer) and then calls it.              *)

\* completion_claimed.exchange(true); a cancelled request is told so.
Claim(r, thread, what) ==
  IF by[r] = None
  THEN /\ by' = [by EXCEPT ![r] = thread]
       /\ fin' = [fin EXCEPT ![r] = "detach"]
       /\ outcome' = [outcome EXCEPT ![r] = IF r \in cancelled THEN "Cancelled" ELSE what]
  ELSE UNCHANGED doneVars

\* Mutant: the last member of a call that is being answered abandons it too.
LastOneEver(r) == members[local[r]] \subseteq {r}

\* Mutant: the work goes with its owner, and is wanted as long as it stays.
OwnerLeaves(r) == phase[local[r]] = "Accepting" /\ local[r] = r

\* Under the call's mutex: the last member to leave a call that still accepts
\* followers abandons it.
LastOne(r) == phase[local[r]] = "Accepting" /\ members[local[r]] \subseteq {r}

\* Mutant: the phase of an abandoned call is left as it was.
DetachStaysAccepting(r) ==
  LET k == local[r] IN
  /\ fin[r] = "detach"
  /\ members' = [members EXCEPT ![k] = @ \ {r}]
  /\ counted' = [counted EXCEPT ![r] = FALSE]
  /\ fin' = [fin EXCEPT ![r] = IF counted[r] THEN (IF LastOne(r) THEN "uncountLast"
                                                    ELSE "uncount")
                               ELSE IF LastOne(r) THEN "cancelWork" ELSE "answer"]
  /\ UNCHANGED <<cached, registry, phase, hasResult, token, gaugeVars, workVars, pcVars,
                 by, outcome, cancelled>>

Detach(r) ==
  LET k == local[r] IN
  /\ fin[r] = "detach"
  /\ members' = [members EXCEPT ![k] = @ \ {r}]
  /\ phase' = IF LastOne(r) THEN [phase EXCEPT ![k] = "Abandoned"] ELSE phase
  /\ counted' = [counted EXCEPT ![r] = FALSE]
  /\ fin' = [fin EXCEPT ![r] = IF counted[r] THEN (IF LastOne(r) THEN "uncountLast"
                                                    ELSE "uncount")
                               ELSE IF LastOne(r) THEN "cancelWork" ELSE "answer"]
  /\ UNCHANGED <<cached, registry, hasResult, token, gaugeVars, workVars, pcVars,
                 by, outcome, cancelled>>

\* What the detaching thread does after the unlock.
Uncount(r) ==
  /\ fin[r] \in {"uncount", "uncountLast"}
  /\ waiting' = waiting - 1
  /\ fin' = [fin EXCEPT ![r] = IF @ = "uncount" THEN "answer" ELSE "cancelWork"]
  /\ UNCHANGED <<cached, registry, callVars, released, activeOwners, workVars,
                 pcVars, counted, by, outcome, cancelled>>

CancelWork(r) ==
  /\ fin[r] = "cancelWork"
  /\ token' = [token EXCEPT ![local[r]] = TRUE]
  /\ fin' = [fin EXCEPT ![r] = "erase"]
  /\ UNCHANGED <<cached, registry, phase, members, hasResult, gaugeVars, workVars,
                 pcVars, counted, by, outcome, cancelled>>

EraseAbandoned(r) ==
  /\ fin[r] = "erase"
  /\ EraseCall(local[r])
  /\ fin' = [fin EXCEPT ![r] = "release"]
  /\ UNCHANGED <<cached, callVars, gaugeVars, workVars, pcVars, counted, by,
                 outcome, cancelled>>

ReleaseAbandoned(r) ==
  /\ fin[r] = "release"
  /\ ReleaseOwner(local[r])
  /\ fin' = [fin EXCEPT ![r] = "answer"]
  /\ UNCHANGED <<cached, registry, callVars, waiting, workVars, pcVars, counted,
                 by, outcome, cancelled>>

CallCompletion(r) ==
  /\ fin[r] = "answer"
  /\ fin' = [fin EXCEPT ![r] = "done"]
  /\ UNCHANGED <<cached, registry, callVars, gaugeVars, workVars, pcVars, counted,
                 by, outcome, cancelled>>

-----------------------------------------------------------------------------
(* The environment *)

\* A request is cancelled by its client, its deadline or a shutdown ...
Cancel(r) ==
  /\ r \notin cancelled /\ fin[r] # "done"
  /\ cancelled' = cancelled \cup {r}
  /\ UNCHANGED <<cached, registry, callVars, gaugeVars, workVars, pcVars, counted,
                 doneVars>>

\* ... and the callback its consumer registered completes it.
CancelCallback(r) ==
  /\ r \in cancelled /\ listening[r] /\ by[r] = None
  /\ Claim(r, Requester, "Cancelled")
  /\ UNCHANGED <<cached, registry, callVars, gaugeVars, workVars, pcVars, counted,
                 cancelled>>

\* The response outlives its time in the micro-cache, or is evicted.
Expire ==
  /\ cached
  /\ cached' = FALSE
  /\ UNCHANGED <<registry, callVars, gaugeVars, workVars, pcVars, counted,
                 doneVars, cancelled>>

-----------------------------------------------------------------------------
(* convertSubscriptionAsync *)

\* Answered on the spot.
Answered(r, what) ==
  /\ by' = [by EXCEPT ![r] = Requester]
  /\ fin' = [fin EXCEPT ![r] = "answer"]
  /\ outcome' = [outcome EXCEPT ![r] = what]

\* A service that shuts down and a malformed request are answered, and so is one
\* that is already cancelled.
Arrive(r) ==
  /\ pc[r] = "new"
  /\ \/ Answered(r, "Refused") /\ Goto(r, "returned")
     \/ r \in cancelled /\ Answered(r, "Cancelled") /\ Goto(r, "returned")
     \/ r \notin cancelled /\ Goto(r, "cache") /\ UNCHANGED doneVars
  /\ UNCHANGED <<cached, registry, callVars, gaugeVars, workVars, local,
                 listening, counted, cancelled>>

LookInCache(r) ==
  /\ pc[r] = "cache"
  /\ \/ cached /\ Answered(r, "Result") /\ Goto(r, "returned")
     \/ ~cached /\ Goto(r, "lookup") /\ UNCHANGED doneVars
  /\ UNCHANGED <<cached, registry, callVars, gaugeVars, workVars, local,
                 listening, counted, cancelled>>

\* g_async_sub_inflight_mutex: follow the registered call, or make one with this
\* request as its first consumer.
Lookup(r) ==
  /\ pc[r] = "lookup"
  /\ IF registry # None
     THEN /\ local' = [local EXCEPT ![r] = registry]
          /\ Goto(r, "join")
          /\ UNCHANGED <<registry, phase, members, activeOwners>>
     ELSE /\ registry' = r
          /\ phase' = [phase EXCEPT ![r] = "Accepting"]
          /\ members' = [members EXCEPT ![r] = {r}]
          /\ activeOwners' = activeOwners + 1
          /\ local' = [local EXCEPT ![r] = r]
          /\ Goto(r, "own")
  /\ UNCHANGED <<cached, hasResult, token, released, waiting, workVars, listening, counted,
                 doneVars, cancelled>>

\* What a follower finds when it takes the call's mutex.
Ready(k) == phase[k] \in {"Publishing", "Done"} /\ hasResult[k]

\* The first time: a call that accepts is prepared for, a result is taken.
Join(r) ==
  LET k == local[r] IN
  /\ pc[r] = "join"
  /\ IF phase[k] = "Accepting" THEN Goto(r, "register") /\ UNCHANGED doneVars
     ELSE IF Ready(k) THEN Goto(r, "returned") /\ Claim(r, Requester, "Result")
     ELSE Goto(r, "retry") /\ UNCHANGED doneVars
  /\ UNCHANGED <<cached, registry, callVars, gaugeVars, workVars, local,
                 listening, counted, cancelled>>

\* registerAsyncSubRequestCancellation: the callback of a request that is already
\* cancelled runs at once.
Register(r) ==
  /\ pc[r] \in {"register", "own"}
  /\ IF r \in cancelled THEN Claim(r, Requester, "Cancelled") ELSE UNCHANGED doneVars
  /\ listening' = [listening EXCEPT ![r] = TRUE]
  /\ Goto(r, IF pc[r] = "own" THEN "submit" ELSE "attach")
  /\ UNCHANGED <<cached, registry, callVars, gaugeVars, workVars, local,
                 counted, cancelled>>

\* The second time, unless the request was answered in between.
LeaveAnswered(r) ==
  /\ pc[r] = "attach" /\ by[r] # None
  /\ Goto(r, "returned")
  /\ UNCHANGED <<cached, registry, callVars, gaugeVars, workVars, local,
                 listening, counted, doneVars, cancelled>>

\* Mutant: a request that was answered in between is attached.
AttachAnswered(r) ==
  LET k == local[r] IN
  /\ pc[r] = "attach" /\ phase[k] = "Accepting"
  /\ members' = [members EXCEPT ![k] = @ \cup {r}]
  /\ counted' = [counted EXCEPT ![r] = TRUE]
  /\ waiting' = waiting + 1
  /\ Goto(r, "returned")
  /\ UNCHANGED <<cached, registry, phase, hasResult, token, released, activeOwners,
                 workVars, local, listening, doneVars, cancelled>>

\* Mutant: the phase is not looked at a second time.
AttachToAny(r) ==
  LET k == local[r] IN
  /\ pc[r] = "attach" /\ by[r] = None
  /\ members' = [members EXCEPT ![k] = @ \cup {r}]
  /\ counted' = [counted EXCEPT ![r] = TRUE]
  /\ waiting' = waiting + 1
  /\ Goto(r, "returned")
  /\ UNCHANGED <<cached, registry, phase, hasResult, token, released, activeOwners,
                 workVars, local, listening, doneVars, cancelled>>

AttachMember(r) ==
  LET k == local[r] IN
  /\ pc[r] = "attach" /\ phase[k] = "Accepting" /\ by[r] = None
  /\ members' = [members EXCEPT ![k] = @ \cup {r}]
  /\ counted' = [counted EXCEPT ![r] = TRUE]
  /\ waiting' = waiting + 1
  /\ Goto(r, "returned")
  /\ UNCHANGED <<cached, registry, phase, hasResult, token, released, activeOwners,
                 workVars, local, listening, doneVars, cancelled>>

AttachTooLate(r) ==
  LET k == local[r] IN
  /\ pc[r] = "attach" /\ phase[k] # "Accepting"
  /\ IF Ready(k)
     THEN Goto(r, "returned") /\ Claim(r, Requester, "Result")
     ELSE Goto(r, "retry") /\ UNCHANGED doneVars
  /\ UNCHANGED <<cached, registry, callVars, gaugeVars, workVars, local,
                 listening, counted, cancelled>>

\* The call was abandoned or failed: it is taken out of the registry ...
Retry(r) ==
  /\ pc[r] = "retry"
  /\ EraseCall(local[r])
  /\ Goto(r, "reclaim")
  /\ UNCHANGED <<cached, callVars, gaugeVars, workVars, local, listening,
                 counted, doneVars, cancelled>>

\* ... and, if nobody has answered the request, its completion is taken back for
\* another consumer and the lookup starts over.
Reclaim(r) ==
  /\ pc[r] = "reclaim"
  /\ IF by[r] # None
     THEN Goto(r, "returned") /\ UNCHANGED listening
     ELSE Goto(r, "lookup") /\ listening' = [listening EXCEPT ![r] = FALSE]
  /\ UNCHANGED <<cached, registry, callVars, gaugeVars, workVars, local,
                 counted, doneVars, cancelled>>

\* The owner submits the conversion, answered or not.
Submit(r) ==
  /\ pc[r] = "submit"
  /\ work' = [work EXCEPT ![local[r]] = "queued"]
  /\ Goto(r, "returned")
  /\ UNCHANGED <<cached, registry, callVars, gaugeVars, ok, todo, local,
                 listening, counted, doneVars, cancelled>>

-----------------------------------------------------------------------------
(* The owner's conversion and its publication *)

WorkStep(k, s) == work' = [work EXCEPT ![k] = s]

\* The scheduler runs the conversion, which may fail, or says why not.
Convert(k) ==
  /\ work[k] = "queued"
  /\ \E good \in BOOLEAN :
       /\ ok' = [ok EXCEPT ![k] = good]
       /\ WorkStep(k, IF good THEN "publish" ELSE "swap")
  /\ UNCHANGED <<cached, registry, callVars, gaugeVars, todo, pcVars, counted,
                 doneVars, cancelled>>

\* Mutant: a call that was abandoned is published all the same.
PublishAbandoned(k) ==
  /\ work[k] = "publish"
  /\ phase' = [phase EXCEPT ![k] = "Publishing"]
  /\ hasResult' = [hasResult EXCEPT ![k] = TRUE]
  /\ WorkStep(k, "store")
  /\ UNCHANGED <<cached, registry, members, token, gaugeVars, ok, todo, pcVars,
                 counted, doneVars, cancelled>>

\* publishAsyncSubRequestSuccess: the result is offered to those who come ...
PublishResult(k) ==
  /\ work[k] = "publish"
  /\ IF phase[k] = "Abandoned" \/ members[k] = {}
     THEN /\ phase' = [phase EXCEPT ![k] = "Abandoned"]
          /\ WorkStep(k, "swap")
          /\ UNCHANGED hasResult
     ELSE /\ phase' = [phase EXCEPT ![k] = "Publishing"]
          /\ hasResult' = [hasResult EXCEPT ![k] = TRUE]
          /\ WorkStep(k, "store")
  /\ UNCHANGED <<cached, registry, members, token, gaugeVars, ok, todo, pcVars,
                 counted, doneVars, cancelled>>

\* Mutant: an exception of the micro-cache ends the publication.
StoreResultThrows(k) ==
  /\ work[k] = "store"
  /\ \/ cached' \in {cached, TRUE} /\ WorkStep(k, "swap")
     \/ UNCHANGED cached /\ WorkStep(k, "answer")
  /\ UNCHANGED <<registry, callVars, gaugeVars, ok, todo, pcVars, counted, doneVars,
                 cancelled>>

\* ... and put in the micro-cache, if it may be and fits ...
StoreResult(k) ==
  /\ work[k] = "store"
  /\ cached' \in {cached, TRUE}
  /\ WorkStep(k, "swap")
  /\ UNCHANGED <<registry, callVars, gaugeVars, ok, todo, pcVars, counted, doneVars,
                 cancelled>>

\* ... the members are taken (publishAsyncSubRequestFailure starts here) ...
TakeMembers(k) ==
  /\ work[k] = "swap"
  /\ phase' = IF phase[k] = "Abandoned" THEN phase ELSE [phase EXCEPT ![k] = "Done"]
  /\ todo' = [todo EXCEPT ![k] = members[k]]
  /\ members' = [members EXCEPT ![k] = {}]
  /\ WorkStep(k, "erase")
  /\ UNCHANGED <<cached, registry, hasResult, token, gaugeVars, ok, pcVars, counted,
                 doneVars, cancelled>>

\* Mutant: a published call stays in the registry.
KeepDone(k) ==
  /\ work[k] = "erase"
  /\ WorkStep(k, "release")
  /\ UNCHANGED <<cached, registry, callVars, gaugeVars, ok, todo, pcVars, counted,
                 doneVars, cancelled>>

EraseDone(k) ==
  /\ work[k] = "erase"
  /\ EraseCall(k)
  /\ WorkStep(k, "release")
  /\ UNCHANGED <<cached, callVars, gaugeVars, ok, todo, pcVars, counted, doneVars,
                 cancelled>>

ReleaseDone(k) ==
  /\ work[k] = "release"
  /\ ReleaseOwner(k)
  /\ WorkStep(k, "answer")
  /\ UNCHANGED <<cached, registry, callVars, waiting, ok, todo, pcVars, counted,
                 doneVars, cancelled>>

\* ... and completed one after the other.
AnswerMember(k) ==
  /\ work[k] = "answer"
  /\ \A r \in Requests : by[r] = k => fin[r] = "done"
  /\ \E r \in todo[k] :
       /\ Claim(r, k, IF ok[k] THEN "Result" ELSE "Failed")
       /\ todo' = [todo EXCEPT ![k] = @ \ {r}]
  /\ UNCHANGED <<cached, registry, callVars, gaugeVars, work, ok, pcVars, counted,
                 cancelled>>

-----------------------------------------------------------------------------
RequestStep(r) ==
  \/ LookInCache(r) \/ Lookup(r) \/ Join(r) \/ Register(r) \/ LeaveAnswered(r)
  \/ AttachMember(r) \/ AttachTooLate(r) \/ Retry(r) \/ Reclaim(r) \/ Submit(r)
CompletionStep(r) ==
  \/ Detach(r) \/ Uncount(r) \/ CancelWork(r) \/ EraseAbandoned(r) \/ ReleaseAbandoned(r)
  \/ CallCompletion(r)
OwnerStep(k) ==
  \/ Convert(k) \/ PublishResult(k) \/ StoreResult(k) \/ TakeMembers(k) \/ EraseDone(k)
  \/ ReleaseDone(k) \/ AnswerMember(k)

Next ==
  \/ \E r \in Requests : \/ Arrive(r) \/ RequestStep(r) \/ CompletionStep(r)
                         \/ Cancel(r) \/ CancelCallback(r)
  \/ \E k \in Calls : OwnerStep(k)
  \/ Expire

Spec == Init /\ [][Next]_vars

\* Threads that can run do and a conversion ends; nobody has to arrive, to be
\* cancelled or to expire.
FairSpec ==
  /\ Spec
  /\ \A r \in Requests : /\ WF_vars(RequestStep(r)) /\ WF_vars(CompletionStep(r))
                         /\ WF_vars(CancelCallback(r))
  /\ \A k \in Calls : WF_vars(OwnerStep(k))

-----------------------------------------------------------------------------
(* Properties *)

TypeOK ==
  /\ cached \in BOOLEAN
  /\ registry \in Calls \cup {None}
  /\ phase \in [Calls -> {"none", "Accepting", "Publishing", "Done", "Abandoned"}]
  /\ members \in [Calls -> SUBSET Requests] /\ todo \in [Calls -> SUBSET Requests]
  /\ hasResult \in [Calls -> BOOLEAN] /\ token \in [Calls -> BOOLEAN]
  /\ released \in [Calls -> BOOLEAN] /\ ok \in [Calls -> BOOLEAN]
  /\ activeOwners \in Int /\ waiting \in Int
  /\ work \in [Calls -> {"none", "queued", "publish", "store", "swap", "erase", "release",
                         "answer"}]
  /\ pc \in [Requests -> {"new", "cache", "lookup", "join", "register", "own", "attach",
                          "retry", "reclaim", "submit", "returned"}]
  /\ local \in [Requests -> Calls \cup {None}]
  /\ listening \in [Requests -> BOOLEAN] /\ counted \in [Requests -> BOOLEAN]
  /\ by \in [Requests -> Calls \cup {None, Requester}]
  /\ fin \in [Requests -> {"none", "detach", "uncount", "uncountLast", "cancelWork",
                           "erase", "release", "answer", "done"}]
  /\ outcome \in [Requests -> {None, "Cancelled", "Refused", "Result", "Failed"}]
  /\ cancelled \subseteq Requests

\* A conversion somebody can still be answered from is the one the registry hands
\* out: equal requests that overlap never run two of them (g_async_sub_inflight).
SingleFlight ==
  \A k \in Calls : phase[k] \in {"Accepting", "Publishing"} => registry = k

\* One conversion at a time; the completion of a request is claimed once and then only
\* moves on; its consumer belongs to the call it last found, and has left it once it is
\* detached.
SingleInv ==
  /\ TypeOK /\ SingleFlight
  /\ \A r \in Requests :
       /\ fin[r] = "none" <=> by[r] = None
       /\ fin[r] = "none" <=> outcome[r] = None
       /\ \A k \in Calls : r \in members[k] \cup todo[k] => local[r] = k
       /\ counted[r] => local[r] # r
       /\ fin[r] \in {"uncountLast", "cancelWork", "erase", "release"}
            => phase[local[r]] = "Abandoned"
       /\ pc[r] \in {"join", "register", "own", "attach", "retry", "reclaim", "submit"}
            => local[r] # None /\ phase[local[r]] # "none"
  /\ \A k \in Calls :
       /\ phase[k] = "none" => registry # k /\ work[k] = "none" /\ members[k] = {}
       /\ work[k] # "none" => pc[k] = "returned" /\ local[k] = k

\* A conversion is cancelled for want of consumers only when it has none: while it
\* accepts followers somebody waits for it, and a cancelled one accepts none and
\* has nobody left to answer (detachAsyncSubRequestConsumer, the owner included).
WorkIsWanted ==
  \A k \in Calls : /\ phase[k] = "Accepting" => members[k] # {}
                   /\ token[k] => phase[k] = "Abandoned" /\ members[k] \cup todo[k] = {}

\* The cancellation of one request, the owner's too, is no failure of the others: a
\* request is told that its conversion failed only if that conversion ran to its end
\* with nobody's leaving having cancelled it.
CancellationIsPrivate ==
  \A r \in Requests : outcome[r] = "Failed" => /\ phase[local[r]] = "Done"
                                               /\ ~token[local[r]]
                                               /\ ~ok[local[r]]

\* convertSubscriptionAsync never returns without somebody left to answer: a request
\* whose completion is not claimed is a consumer of a call that is still to take its
\* consumers, or one that call has taken and is about to answer.
NobodyForgotten ==
  \A r \in Requests :
    pc[r] = "returned" /\ by[r] = None =>
      LET k == local[r] IN
        \/ r \in todo[k]
        \/ r \in members[k] /\ work[k] \in {"none", "queued", "publish", "store", "swap"}

\* A request that is being answered is no consumer any more and is not counted as a
\* waiting follower, whatever the order of its attaching and its cancellation.
AnsweredHasLeft ==
  \A r \in Requests :
    fin[r] \notin {"none", "detach"} =>
      ~counted[r] /\ \A k \in Calls : r \notin members[k]

\* The gauges of /metrics agree with the calls: each call is counted until it is
\* released, by its last consumer or by its publication, and each follower until its
\* consumer is uncounted.
GaugesExact ==
  /\ activeOwners = Cardinality({k \in Calls : phase[k] # "none" /\ ~released[k]})
  /\ waiting = Cardinality({r \in Requests :
                              counted[r] \/ fin[r] \in {"uncount", "uncountLast"}})

\* Every request that arrives is answered, cancelled or not, followed or not.
EveryoneAnswered == \A r \in Requests : pc[r] # "new" ~> fin[r] = "done"

\* Every call leaves the registry and is released.
RegistryDrains == \A k \in Calls : registry = k ~> registry # k /\ released[k]

-----------------------------------------------------------------------------
\* A call is under way while it accepts followers or offers its result; those who
\* are to be answered from it are its members until they are taken to be answered.
Underway(k) == phase[k] \in {"Accepting", "Publishing"}
Running == IF registry # None /\ Underway(registry) THEN registry ELSE None
Group == [k \in Calls |-> members[k] \cup todo[k]]
Good == {k \in Calls : hasResult[k]}
Bad == {k \in Calls : phase[k] = "Done" /\ ~hasResult[k]}

Shared == INSTANCE SharedConversion WITH
  running <- Running, group <- Group, good <- Good, bad <- Bad, told <- outcome

\* Through every interleaving of claims, detachments, publication and retries the
\* requests get what SharedConversion promises: one conversion at a time, given up
\* only by its last consumer, and each request one answer that it has earned.
ImplementsSharedConversion == Shared!Spec
=============================================================================
