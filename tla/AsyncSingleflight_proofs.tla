---------------------- MODULE AsyncSingleflight_proofs ----------------------
(***************************************************************************)
(* The invariants of the asynchronous singleflight hold for any number of  *)
(* equal requests.  They are proved together: that a call in flight stays  *)
(* in the registry depends on who erases it, that on who left it, that on  *)
(* who is still a member, and that on where the members are.               *)
(*                                                                         *)
(* One lemma per conjunct, with one step per action that can disturb it.   *)
(***************************************************************************)
EXTENDS AsyncSingleflight, FiniteSetTheorems, TLAPS

-----------------------------------------------------------------------------
(* The inductive invariant *)

InCall == {"own", "submit", "returned"}
Published == {"erase", "release", "answer"}

\* A request that has not registered yet cannot be completed; one that follows a
\* call follows another's; one that gives a call up gives up a finished one.
RequestInv(r) ==
  /\ pc[r] \in {"new", "cache", "lookup", "join", "register", "own"} =>
       by[r] = None /\ ~listening[r]
  /\ local[r] # None => phase[local[r]] # "none"
  /\ pc[r] \in {"own", "submit"} => local[r] = r /\ (by[r] = None => r \in members[r])
  /\ pc[r] \in {"join", "register", "attach", "retry", "reclaim"} => local[r] \notin {r, None}
  /\ pc[r] = "retry" => phase[local[r]] \in {"Done", "Abandoned"}
  /\ counted[r] => pc[r] = "returned" /\ local[r] # r
  /\ listening[r] \/ fin[r] \notin {"none", "answer", "done"} => local[r] # None
  /\ pc[r] = "returned" /\ by[r] = None => local[r] # None

\* What the phase of a call says of its work, and of those who wait for it.
CallInv(k) ==
  /\ phase[k] = "none" => /\ registry # k /\ work[k] = "none" /\ ~released[k]
                          /\ members[k] = {}
  /\ phase[k] # "none" => local[k] = k /\ pc[k] \in InCall
  /\ work[k] = "none" <=> ~(phase[k] # "none" /\ pc[k] = "returned")
  /\ phase[k] = "Accepting" => work[k] \in {"none", "queued", "publish", "swap"}
  /\ phase[k] = "Publishing" => work[k] \in {"store", "swap"} /\ hasResult[k]
  /\ phase[k] = "Done" => work[k] \in Published
  /\ phase[k] = "Abandoned" => members[k] = {} /\ todo[k] = {}
  /\ work[k] \in Published => phase[k] \in {"Done", "Abandoned"} /\ members[k] = {}
  /\ work[k] \notin Published => todo[k] = {}

\* The consumers of a call are those who have found it and attached to it.
ConsumerInv(k) ==
  \A r \in members[k] \cup todo[k] : local[r] = k /\ pc[r] \in InCall

\* A completion is claimed once, and only the last to leave abandons a call.
FinishInv(r) ==
  /\ fin[r] = "none" <=> by[r] = None
  /\ fin[r] = "none" <=> outcome[r] = None
  /\ fin[r] \in {"uncountLast", "cancelWork", "erase", "release"} => phase[local[r]] = "Abandoned"
  /\ outcome[r] = "Failed" => local[r] # None

Detailed ==
  /\ \A r \in Requests : RequestInv(r)
  /\ \A r \in Requests : FinishInv(r)
  /\ \A k \in Calls : CallInv(k)
  /\ \A k \in Calls : ConsumerInv(k)

IInv == /\ TypeOK /\ Detailed /\ SingleFlight /\ WorkIsWanted /\ CancellationIsPrivate
        /\ NobodyForgotten /\ AnsweredHasLeft /\ GaugesExact

LEMMA Parts ==
  ASSUME IInv
  PROVE  /\ TypeOK /\ SingleFlight /\ WorkIsWanted /\ NobodyForgotten /\ AnsweredHasLeft
         /\ CancellationIsPrivate /\ GaugesExact
         /\ \A r \in Requests : RequestInv(r) /\ FinishInv(r)
         /\ \A k \in Requests : CallInv(k) /\ ConsumerInv(k)
BY DEF IInv, Detailed, Calls

-----------------------------------------------------------------------------
(* Types *)

\* One of the threads that claim a completion.
LEMMA ClaimTypes ==
  ASSUME TypeOK, NEW r \in Requests, NEW thread \in Calls \cup {Requester},
         NEW what \in {"Cancelled", "Refused", "Result", "Failed"},
         Claim(r, thread, what) \/ UNCHANGED doneVars
  PROVE  /\ by' \in [Requests -> Calls \cup {None, Requester}]
         /\ fin' \in [Requests -> {"none", "detach", "uncount", "uncountLast", "cancelWork",
                                   "erase", "release", "answer", "done"}]
         /\ outcome' \in [Requests -> {None, "Cancelled", "Refused", "Result", "Failed"}]
<1>1. /\ by \in [Requests -> Calls \cup {None, Requester}]
      /\ fin \in [Requests -> {"none", "detach", "uncount", "uncountLast", "cancelWork",
                               "erase", "release", "answer", "done"}]
      /\ outcome \in [Requests -> {None, "Cancelled", "Refused", "Result", "Failed"}]
  BY Zenon DEF TypeOK
<1>2. CASE by' = by /\ fin' = fin /\ outcome' = outcome
  BY <1>1, <1>2
<1>3. CASE /\ by' = [by EXCEPT ![r] = thread] /\ fin' = [fin EXCEPT ![r] = "detach"]
           /\ outcome' = [outcome EXCEPT ![r] = IF r \in cancelled THEN "Cancelled" ELSE what]
  BY <1>1, <1>3
<1>4. QED
  BY <1>2, <1>3 DEF Claim, doneVars

LEMMA TypeKept ==
  ASSUME IInv, [Next]_vars PROVE  TypeOK'
<1>0. TypeOK
  BY Parts
<1> USE DEF callVars, gaugeVars, workVars, pcVars, doneVars, Calls, Goto
<1>1. ASSUME NEW r \in Requests, Arrive(r) \/ LookInCache(r) PROVE TypeOK'
  <2>1. CASE Arrive(r)
    BY <1>0, <2>1 DEF TypeOK, Arrive, Answered
  <2>2. CASE LookInCache(r)
    BY <1>0, <2>2 DEF TypeOK, LookInCache, Answered
  <2>3. QED
    BY <1>1, <2>1, <2>2
<1>2. ASSUME NEW r \in Requests, Lookup(r) PROVE TypeOK'
  <2>1. members' \in [Calls -> SUBSET Requests] /\ activeOwners' \in Int
    <3>1. members' = [members EXCEPT ![r] = {r}] \/ members' = members
      BY <1>2 DEF Lookup
    <3>2. activeOwners' = activeOwners + 1 \/ activeOwners' = activeOwners
      BY <1>2 DEF Lookup
    <3>3. members' \in [Calls -> SUBSET Requests]
      BY <1>0, <3>1 DEF TypeOK
    <3>4. activeOwners' \in Int
      BY <1>0, <3>2 DEF TypeOK
    <3>5. QED
      BY <3>3, <3>4
  <2>2. QED
    BY <1>0, <1>2, <2>1 DEF TypeOK, Lookup
<1>3. ASSUME NEW r \in Requests, Join(r) \/ Register(r) \/ AttachTooLate(r) \/ CancelCallback(r)
      PROVE  TypeOK'
  <2>1. \E what \in {"Cancelled", "Result"} : Claim(r, Requester, what) \/ UNCHANGED doneVars
    BY <1>3 DEF Join, Register, AttachTooLate, CancelCallback
  <2>2. /\ by' \in [Requests -> Calls \cup {None, Requester}]
        /\ fin' \in [Requests -> {"none", "detach", "uncount", "uncountLast", "cancelWork",
                                  "erase", "release", "answer", "done"}]
        /\ outcome' \in [Requests -> {None, "Cancelled", "Refused", "Result", "Failed"}]
    BY <1>0, <2>1, ClaimTypes
  <2>3. CASE Join(r) \/ AttachTooLate(r)
    BY <1>0, <2>2, <2>3 DEF TypeOK, Join, AttachTooLate
  <2>4. CASE Register(r)
    BY <1>0, <2>2, <2>4 DEF TypeOK, Register
  <2>5. CASE CancelCallback(r)
    BY <1>0, <2>2, <2>5 DEF TypeOK, CancelCallback
  <2>6. QED
    BY <1>3, <2>3, <2>4, <2>5
<1>4. ASSUME NEW r \in Requests, LeaveAnswered(r) \/ Retry(r) \/ Reclaim(r) \/ Submit(r)
      PROVE  TypeOK'
  <2>1. CASE LeaveAnswered(r)
    BY <1>0, <2>1 DEF TypeOK, LeaveAnswered
  <2>2. CASE Retry(r)
    BY <1>0, <2>2 DEF TypeOK, Retry, EraseCall
  <2>3. CASE Reclaim(r)
    BY <1>0, <2>3 DEF TypeOK, Reclaim
  <2>4. CASE Submit(r)
    BY <1>0, <2>4 DEF TypeOK, Submit
  <2>5. QED
    BY <1>4, <2>1, <2>2, <2>3, <2>4
<1>15. ASSUME NEW r \in Requests, CancelWork(r) \/ EraseAbandoned(r) \/ CallCompletion(r)
       PROVE  TypeOK'
  <2>1. CASE CancelWork(r)
    BY <1>0, <2>1 DEF TypeOK, CancelWork
  <2>2. CASE EraseAbandoned(r)
    BY <1>0, <2>2 DEF TypeOK, EraseAbandoned, EraseCall
  <2>3. CASE CallCompletion(r)
    BY <1>0, <2>3 DEF TypeOK, CallCompletion
  <2>4. QED
    BY <1>15, <2>1, <2>2, <2>3
<1>5. ASSUME NEW r \in Requests, AttachMember(r) PROVE TypeOK'
  <2>1. waiting' \in Int
    <3>1. waiting \in Int /\ waiting' = waiting + 1
      BY <1>0, <1>5 DEF TypeOK, AttachMember
    <3>2. QED
      BY <3>1
  <2>2. members' \in [Calls -> SUBSET Requests]
    BY <1>0, <1>5 DEF TypeOK, AttachMember
  <2>3. QED
    BY <1>0, <1>5, <2>1, <2>2 DEF TypeOK, AttachMember
<1>6. ASSUME NEW r \in Requests, Detach(r) PROVE TypeOK'
  BY <1>0, <1>6 DEF TypeOK, Detach
<1>7. ASSUME NEW r \in Requests, Uncount(r) \/ ReleaseAbandoned(r) PROVE TypeOK'
  <2>1. waiting \in Int /\ activeOwners \in Int
    BY <1>0 DEF TypeOK
  <2>2. waiting' \in {waiting, waiting - 1} /\ activeOwners' \in {activeOwners, activeOwners - 1}
    BY <1>7 DEF Uncount, ReleaseAbandoned, ReleaseOwner
  <2>3. waiting' \in Int /\ activeOwners' \in Int
    BY <2>1, <2>2
  <2>4. fin' \in [Requests -> {"none", "detach", "uncount", "uncountLast", "cancelWork",
                              "erase", "release", "answer", "done"}]
    BY <1>0, <1>7 DEF TypeOK, Uncount, ReleaseAbandoned
  <2>5. released' \in [Calls -> BOOLEAN]
    BY <1>0, <1>7 DEF TypeOK, Uncount, ReleaseAbandoned, ReleaseOwner
  <2>6. UNCHANGED <<cached, registry, callVars, workVars, pcVars, counted, by, outcome, cancelled>>
    BY <1>7 DEF Uncount, ReleaseAbandoned
  <2>7. QED
    BY <1>0, <2>3, <2>4, <2>5, <2>6 DEF TypeOK
<1>8. ASSUME NEW r \in Requests, Cancel(r) PROVE TypeOK'
  BY <1>0, <1>8 DEF TypeOK, Cancel
<1>9. ASSUME NEW k \in Requests, Convert(k) \/ PublishResult(k) \/ StoreResult(k)
      PROVE  TypeOK'
  <2>1. CASE Convert(k)
    BY <1>0, <2>1 DEF TypeOK, Convert, WorkStep
  <2>2. CASE PublishResult(k)
    <3>1. /\ phase' \in [Calls -> {"none", "Accepting", "Publishing", "Done", "Abandoned"}]
          /\ hasResult' \in [Calls -> BOOLEAN]
      BY <1>0, <2>2 DEF TypeOK, PublishResult
    <3>2. work' \in [Calls -> {"none", "queued", "publish", "store", "swap", "erase", "release",
                               "answer"}]
      BY <1>0, <2>2 DEF TypeOK, PublishResult, WorkStep
    <3>3. UNCHANGED <<cached, registry, members, token, gaugeVars, ok, todo, pcVars,
                      counted, doneVars, cancelled>>
      BY <2>2 DEF PublishResult
    <3>4. QED
      BY <1>0, <3>1, <3>2, <3>3 DEF TypeOK
  <2>3. CASE StoreResult(k)
    <3>1. cached' \in BOOLEAN
      BY <1>0, <2>3 DEF TypeOK, StoreResult
    <3>2. QED
      BY <1>0, <2>3, <3>1 DEF TypeOK, StoreResult, WorkStep
  <2>4. QED
    BY <1>9, <2>1, <2>2, <2>3
<1>10. ASSUME NEW k \in Requests, TakeMembers(k) PROVE TypeOK'
  BY <1>0, <1>10 DEF TypeOK, TakeMembers, WorkStep
<1>11. ASSUME NEW k \in Requests, EraseDone(k) \/ ReleaseDone(k) PROVE TypeOK'
  <2>1. CASE EraseDone(k)
    BY <1>0, <2>1 DEF TypeOK, EraseDone, EraseCall, WorkStep
  <2>2. CASE ReleaseDone(k)
    <3>1. activeOwners \in Int /\ activeOwners' \in {activeOwners, activeOwners - 1}
      BY <1>0, <2>2 DEF TypeOK, ReleaseDone, ReleaseOwner
    <3>2. activeOwners' \in Int
      BY <3>1
    <3>3. QED
      BY <1>0, <2>2, <3>2 DEF TypeOK, ReleaseDone, ReleaseOwner, WorkStep
  <2>3. QED
    BY <1>11, <2>1, <2>2
<1>12. ASSUME NEW k \in Requests, AnswerMember(k) PROVE TypeOK'
  <2>1. PICK r \in todo[k] : /\ Claim(r, k, IF ok[k] THEN "Result" ELSE "Failed")
                             /\ todo' = [todo EXCEPT ![k] = @ \ {r}]
    BY <1>12 DEF AnswerMember
  <2>2. r \in Requests /\ todo' \in [Calls -> SUBSET Requests]
    BY <1>0, <2>1 DEF TypeOK
  <2>3. (IF ok[k] THEN "Result" ELSE "Failed") \in {"Cancelled", "Refused", "Result", "Failed"}
    OBVIOUS
  <2>4. QED
    BY <1>0, <1>12, <2>1, <2>2, <2>3, ClaimTypes DEF TypeOK, AnswerMember
<1>13. CASE Expire \/ UNCHANGED vars
  <2>1. cached' \in BOOLEAN
    BY <1>0, <1>13 DEF TypeOK, Expire, vars
  <2>2. UNCHANGED <<registry, callVars, gaugeVars, workVars, pcVars, counted, doneVars, cancelled>>
    BY <1>13 DEF Expire, vars
  <2>3. QED
    BY <1>0, <2>1, <2>2 DEF TypeOK
<1>14. QED
  BY <1>1, <1>2, <1>3, <1>4, <1>5, <1>6, <1>7, <1>8, <1>9, <1>10, <1>11, <1>12, <1>13,
     <1>15 DEF Next, RequestStep, CompletionStep, OwnerStep

-----------------------------------------------------------------------------
(* What a step does to the calls *)

\* The steps that leave the calls, their consumers and the owners' work alone.
Aside == UNCHANGED <<phase, members, todo, work, local, hasResult>>

LEMMA AsideSteps ==
  ASSUME NEW r \in Requests
  PROVE  /\ Arrive(r) \/ LookInCache(r) \/ Join(r) \/ Register(r) \/ LeaveAnswered(r)
            \/ AttachTooLate(r) \/ Retry(r) \/ Reclaim(r) => Aside
         /\ Uncount(r) \/ CancelWork(r) \/ EraseAbandoned(r) \/ ReleaseAbandoned(r)
            \/ CallCompletion(r) \/ Cancel(r) \/ CancelCallback(r) => Aside
         /\ Expire \/ UNCHANGED vars => Aside
<1> USE DEF Aside, callVars, gaugeVars, workVars, pcVars, doneVars
<1>1. Arrive(r) \/ LookInCache(r) \/ Join(r) \/ Register(r) \/ LeaveAnswered(r)
      \/ AttachTooLate(r) \/ Retry(r) \/ Reclaim(r) => Aside
  BY DEF Arrive, LookInCache, Join, Register, LeaveAnswered, AttachTooLate, Retry, Reclaim
<1>2. Uncount(r) \/ CancelWork(r) \/ EraseAbandoned(r) \/ ReleaseAbandoned(r)
      \/ CallCompletion(r) \/ Cancel(r) \/ CancelCallback(r) => Aside
  BY DEF Uncount, CancelWork, EraseAbandoned, ReleaseAbandoned, CallCompletion, Cancel,
     CancelCallback
<1>3. Expire \/ UNCHANGED vars => Aside
  BY DEF Expire, vars
<1>4. QED
  BY <1>1, <1>2, <1>3

\* A call that is made stays made, and one that is over stays so.
LEMMA PhaseGrows ==
  ASSUME IInv, [Next]_vars, NEW c \in Requests
  PROVE  /\ phase[c] # "none" => phase'[c] # "none"
         /\ phase[c] = "Done" => phase'[c] = "Done"
         /\ phase[c] = "Abandoned" => phase'[c] = "Abandoned"
<1>0. TypeOK /\ WorkIsWanted /\ (\A k \in Requests : CallInv(k))
  BY Parts
<1> DEFINE Grows == /\ phase[c] # "none" => phase'[c] # "none"
                    /\ phase[c] = "Done" => phase'[c] = "Done"
                    /\ phase[c] = "Abandoned" => phase'[c] = "Abandoned"
<1> SUFFICES Grows
  OBVIOUS
<1> USE DEF callVars, gaugeVars, workVars, pcVars, doneVars, Calls
<1>1. ASSUME NEW r \in Requests, Lookup(r) PROVE Grows
  <2>1. phase[r] = "none" \/ phase' = phase
    BY <1>0, <1>1 DEF Lookup, CallInv, InCall
  <2>2. QED
    BY <1>0, <1>1, <2>1 DEF Lookup, TypeOK
<1>2. ASSUME NEW r \in Requests, Detach(r) PROVE Grows
  BY <1>0, <1>2 DEF TypeOK, Detach, LastOne
<1>3. ASSUME NEW k \in Requests, PublishResult(k) PROVE Grows
  BY <1>0, <1>3 DEF TypeOK, PublishResult, CallInv, Published
<1>4. ASSUME NEW k \in Requests, TakeMembers(k) PROVE Grows
  BY <1>0, <1>4 DEF TypeOK, TakeMembers, CallInv
<1>5. ASSUME NEW r \in Requests, AttachMember(r) \/ Submit(r) \/ Convert(r) \/ StoreResult(r)
             \/ EraseDone(r) \/ ReleaseDone(r) \/ AnswerMember(r)
      PROVE  Grows
  BY <1>5 DEF AttachMember, Submit, Convert, StoreResult, EraseDone, ReleaseDone, AnswerMember
<1>6. CASE Aside
  BY <1>6 DEF Aside
<1>7. QED
  BY <1>1, <1>2, <1>3, <1>4, <1>5, <1>6, AsideSteps
     DEF Next, RequestStep, CompletionStep, OwnerStep

LEMMA NoneAssumption ==
  /\ None \notin Requests /\ Requester \notin Requests /\ None # Requester
  /\ None \notin {"Cancelled", "Refused", "Result", "Failed"}
BY RequestAssumption DEF RequestAssumption

\* The steps outside of the calls erase a key or nothing; those on the way into a
\* call are not made by its owner, who is in it.
Outside(r) ==
  /\ Aside /\ registry' \in {registry, None} /\ released' = released
  /\ pc[r] \notin InCall /\ \A q \in Requests : q # r => pc'[q] = pc[q]

Beside == /\ Aside /\ registry' \in {registry, None} /\ pc' = pc

LEMMA OutsideSteps ==
  ASSUME TypeOK, NEW r \in Requests,
         Arrive(r) \/ LookInCache(r) \/ Join(r) \/ LeaveAnswered(r) \/ AttachTooLate(r)
         \/ Retry(r) \/ Reclaim(r) \/ (Register(r) /\ pc[r] # "own")
  PROVE  Outside(r)
<1>1. Aside
  BY AsideSteps
<1>2. registry' \in {registry, None} /\ released' = released /\ pc[r] \notin InCall
  BY DEF Arrive, LookInCache, Join, LeaveAnswered, AttachTooLate, Retry, EraseCall, Reclaim,
     Register, InCall, gaugeVars
<1>3. \E l \in {"returned", "cache", "lookup", "register", "retry", "attach", "reclaim"} :
        Goto(r, l)
  BY DEF Arrive, LookInCache, Join, LeaveAnswered, AttachTooLate, Retry, Reclaim, Register
<1>4. \A q \in Requests : q # r => pc'[q] = pc[q]
  BY <1>3 DEF Goto, TypeOK
<1>5. QED
  BY <1>1, <1>2, <1>4 DEF Outside

LEMMA BesideSteps ==
  ASSUME NEW r \in Requests
  PROVE  /\ Uncount(r) \/ CancelWork(r) \/ EraseAbandoned(r) \/ CallCompletion(r) \/ Cancel(r)
            \/ CancelCallback(r) => Beside /\ released' = released
         /\ ReleaseAbandoned(r) => Beside
         /\ Expire \/ UNCHANGED vars => Beside /\ released' = released
<1> USE DEF callVars, gaugeVars, workVars, pcVars, doneVars
<1>1. Uncount(r) \/ CancelWork(r) \/ EraseAbandoned(r) \/ CallCompletion(r) \/ Cancel(r)
      \/ CancelCallback(r) => registry' \in {registry, None} /\ pc' = pc /\ released' = released
  BY DEF Uncount, CancelWork, EraseAbandoned, EraseCall, CallCompletion, Cancel, CancelCallback
<1>2. ReleaseAbandoned(r) => registry' \in {registry, None} /\ pc' = pc
  BY DEF ReleaseAbandoned
<1>3. Expire \/ UNCHANGED vars => registry' \in {registry, None} /\ pc' = pc /\ released' = released
  BY DEF Expire, vars
<1>4. QED
  BY <1>1, <1>2, <1>3, AsideSteps DEF Beside

-----------------------------------------------------------------------------
(* The calls *)

LEMMA CallKept ==
  ASSUME IInv, [Next]_vars, NEW c \in Requests PROVE  CallInv(c)'
<1>0. /\ TypeOK /\ WorkIsWanted /\ None \notin Requests
      /\ \A k \in Requests : CallInv(k) /\ ConsumerInv(k)
      /\ \A r \in Requests : RequestInv(r) /\ FinishInv(r)
  BY Parts, NoneAssumption
<1>c. CallInv(c)
  BY <1>0
<1> USE DEF CallInv, InCall, Published, callVars, gaugeVars, workVars, pcVars, doneVars, Calls
<1>1. ASSUME NEW r \in Requests, Lookup(r) PROVE CallInv(c)'
  <2>1. phase[r] = "none" /\ work[r] = "none" /\ ~released[r] /\ todo[r] = {} /\ pc[r] = "lookup"
    BY <1>0, <1>1 DEF Lookup
  <2>2. CASE registry # None
    <3>1. local' = [local EXCEPT ![r] = registry] /\ pc' = [pc EXCEPT ![r] = "join"]
          /\ UNCHANGED <<registry, phase, members, work, todo, released, hasResult>>
      BY <1>1, <2>2 DEF Lookup, Goto
    <3>2. QED
      BY <1>0, <1>c, <2>1, <3>1 DEF TypeOK
  <2>3. CASE registry = None
    <3>1. /\ registry' = r /\ phase' = [phase EXCEPT ![r] = "Accepting"]
          /\ members' = [members EXCEPT ![r] = {r}] /\ local' = [local EXCEPT ![r] = r]
          /\ pc' = [pc EXCEPT ![r] = "own"] /\ UNCHANGED <<work, todo, released, hasResult>>
      BY <1>1, <2>3 DEF Lookup, Goto
    <3>2. QED
      BY <1>0, <1>c, <2>1, <3>1 DEF TypeOK
  <2>4. QED
    BY <2>2, <2>3
<1>2. ASSUME NEW r \in Requests, Detach(r) PROVE CallInv(c)'
  <2>1. LastOne(r) => todo[local[r]] = {} /\ members'[local[r]] = {}
    BY <1>0, <1>2 DEF TypeOK, Detach, LastOne, RequestInv
  <2>2. QED
    BY <1>0, <1>c, <1>2, <2>1 DEF TypeOK, Detach, LastOne
<1>3. ASSUME NEW r \in Requests, AttachMember(r) PROVE CallInv(c)'
  <2>1. phase[r] = "none" /\ phase[local[r]] = "Accepting" /\ local[r] \in Requests
    BY <1>0, <1>3 DEF AttachMember, RequestInv, TypeOK
  <2>2. QED
    BY <1>0, <1>c, <1>3, <2>1 DEF TypeOK, AttachMember, Goto
<1>4. ASSUME NEW r \in Requests, Submit(r) PROVE CallInv(c)'
  <2>1. local[r] = r /\ phase[r] # "none" /\ work[r] = "none" /\ phase[r] \in {"Accepting", "Abandoned"}
    BY <1>0, <1>4 DEF Submit, RequestInv, TypeOK
  <2>2. QED
    BY <1>0, <1>c, <1>4, <2>1 DEF TypeOK, Submit, Goto
<1>5. ASSUME NEW k \in Requests, Convert(k) PROVE CallInv(c)'
  BY <1>0, <1>c, <1>5 DEF TypeOK, Convert, WorkStep
<1>6. ASSUME NEW k \in Requests, PublishResult(k) PROVE CallInv(c)'
  <2>1. phase[k] \in {"Accepting", "Abandoned"}
    BY <1>0, <1>6 DEF TypeOK, PublishResult
  <2>2. QED
    BY <1>0, <1>c, <1>6, <2>1 DEF TypeOK, PublishResult, WorkStep, WorkIsWanted
<1>7. ASSUME NEW k \in Requests, StoreResult(k) PROVE CallInv(c)'
  BY <1>0, <1>c, <1>7 DEF TypeOK, StoreResult, WorkStep
<1>8. ASSUME NEW k \in Requests, TakeMembers(k) PROVE CallInv(c)'
  BY <1>0, <1>c, <1>8 DEF TypeOK, TakeMembers, WorkStep
<1>9. ASSUME NEW k \in Requests, EraseDone(k) PROVE CallInv(c)'
  BY <1>0, <1>c, <1>9 DEF TypeOK, EraseDone, EraseCall, WorkStep
<1>10. ASSUME NEW k \in Requests, ReleaseDone(k) PROVE CallInv(c)'
  BY <1>0, <1>c, <1>10 DEF TypeOK, ReleaseDone, ReleaseOwner, WorkStep
<1>11. ASSUME NEW k \in Requests, AnswerMember(k) PROVE CallInv(c)'
  <2>1. UNCHANGED <<registry, phase, members, released, work, local, pc, hasResult>>
    BY <1>11 DEF AnswerMember
  <2>2. \E r \in todo[k] : todo' = [todo EXCEPT ![k] = @ \ {r}]
    BY <1>11 DEF AnswerMember
  <2>3. QED
    BY <1>0, <1>c, <2>1, <2>2 DEF TypeOK
<1>12. ASSUME NEW r \in Requests, Outside(r) PROVE CallInv(c)'
  BY <1>0, <1>c, <1>12 DEF Outside, Aside
<1>13. ASSUME NEW r \in Requests, Register(r), pc[r] = "own" PROVE CallInv(c)'
  <2>1. Aside /\ UNCHANGED <<registry, released>> /\ pc' = [pc EXCEPT ![r] = "submit"]
    BY <1>13, AsideSteps DEF Register, Goto
  <2>2. QED
    BY <1>0, <1>c, <1>13, <2>1 DEF Aside, TypeOK
<1>14. CASE Beside /\ released' = released
  BY <1>0, <1>c, <1>14 DEF Beside, Aside
<1>15. ASSUME NEW r \in Requests, ReleaseAbandoned(r) PROVE CallInv(c)'
  <2>1. phase[local[r]] = "Abandoned" /\ Beside
    BY <1>0, <1>15, BesideSteps DEF ReleaseAbandoned, FinishInv
  <2>2. released' = [released EXCEPT ![local[r]] = TRUE]
    BY <1>15 DEF ReleaseAbandoned, ReleaseOwner
  <2>3. QED
    BY <1>0, <1>c, <2>1, <2>2 DEF Beside, Aside, TypeOK
<1>16. QED
  BY <1>0, <1>1, <1>2, <1>3, <1>4, <1>5, <1>6, <1>7, <1>8, <1>9, <1>10, <1>11, <1>12, <1>13,
     <1>14, <1>15, OutsideSteps, BesideSteps DEF Next, RequestStep, CompletionStep, OwnerStep

\* The consumers stay with their call, which none of them looks for again.
LEMMA ConsumerKept ==
  ASSUME IInv, [Next]_vars, NEW c \in Requests PROVE  ConsumerInv(c)'
<1>0. /\ TypeOK /\ None \notin Requests
      /\ \A k \in Requests : CallInv(k) /\ ConsumerInv(k)
      /\ \A r \in Requests : RequestInv(r)
  BY Parts, NoneAssumption
<1> USE DEF ConsumerInv, InCall, callVars, gaugeVars, workVars, pcVars, doneVars, Calls
<1>1. ASSUME NEW r \in Requests, Lookup(r) PROVE ConsumerInv(c)'
  <2>1. todo' = todo /\ \/ members' = members
                        \/ members' = [members EXCEPT ![r] = {r}] /\ local' = [local EXCEPT ![r] = r]
                           /\ Goto(r, "own")
    BY <1>1 DEF Lookup
  <2>2. pc[r] = "lookup" /\ r \notin members[c] \cup todo[c]
    BY <1>0, <1>1 DEF Lookup
  <2>3. \A q \in Requests : q # r => local'[q] = local[q] /\ pc'[q] = pc[q]
    BY <1>0, <1>1 DEF Lookup, Goto, TypeOK
  <2>4. todo[r] = {}
    BY <1>0, <2>2 DEF CallInv, Published
  <2>5. QED
    BY <1>0, <2>1, <2>2, <2>3, <2>4 DEF TypeOK, Goto
<1>2. ASSUME NEW r \in Requests, Detach(r) PROVE ConsumerInv(c)'
  BY <1>0, <1>2 DEF TypeOK, Detach
<1>3. ASSUME NEW r \in Requests, AttachMember(r) PROVE ConsumerInv(c)'
  BY <1>0, <1>3 DEF TypeOK, AttachMember, Goto
<1>4. ASSUME NEW r \in Requests, Submit(r) PROVE ConsumerInv(c)'
  BY <1>0, <1>4 DEF TypeOK, Submit, Goto
<1>5. ASSUME NEW k \in Requests, Convert(k) \/ PublishResult(k) \/ StoreResult(k) \/ EraseDone(k)
             \/ ReleaseDone(k)
      PROVE  ConsumerInv(c)'
  <2>1. UNCHANGED <<members, todo, local, pc>>
    BY <1>5 DEF Convert, PublishResult, StoreResult, EraseDone, ReleaseDone
  <2>2. QED
    BY <1>0, <2>1
<1>6. ASSUME NEW k \in Requests, TakeMembers(k) PROVE ConsumerInv(c)'
  BY <1>0, <1>6 DEF TypeOK, TakeMembers
<1>7. ASSUME NEW k \in Requests, AnswerMember(k) PROVE ConsumerInv(c)'
  <2>1. UNCHANGED <<members, local, pc>>
    BY <1>7 DEF AnswerMember
  <2>2. \E r \in todo[k] : todo' = [todo EXCEPT ![k] = @ \ {r}]
    BY <1>7 DEF AnswerMember
  <2>3. QED
    BY <1>0, <2>1, <2>2 DEF TypeOK
<1>8. ASSUME NEW r \in Requests, Outside(r) PROVE ConsumerInv(c)'
  BY <1>0, <1>8 DEF Outside, Aside, TypeOK
<1>9. ASSUME NEW r \in Requests, Register(r), pc[r] = "own" PROVE ConsumerInv(c)'
  <2>1. Aside /\ pc' = [pc EXCEPT ![r] = "submit"]
    BY <1>9, AsideSteps DEF Register, Goto
  <2>2. QED
    BY <1>0, <2>1 DEF Aside, TypeOK
<1>10. CASE Beside
  BY <1>0, <1>10 DEF Beside, Aside
<1>11. QED
  BY <1>0, <1>1, <1>2, <1>3, <1>4, <1>5, <1>6, <1>7, <1>8, <1>9, <1>10, OutsideSteps, BesideSteps
     DEF Next, RequestStep, CompletionStep, OwnerStep

-----------------------------------------------------------------------------
(* The completions *)

\* Whoever claims: a completion that was not claimed is, and nothing else happens.
Claims(r, thread, what) ==
  /\ by[r] = None /\ by' = [by EXCEPT ![r] = thread]
  /\ fin' = [fin EXCEPT ![r] = "detach"]
  /\ outcome' = [outcome EXCEPT ![r] = IF r \in cancelled THEN "Cancelled" ELSE what]

LEMMA ClaimCases ==
  ASSUME NEW r, NEW thread, NEW what, Claim(r, thread, what)
  PROVE  Claims(r, thread, what) \/ UNCHANGED <<by, fin, outcome>>
BY DEF Claim, Claims, doneVars

\* A claim is made by a thread of the request, which has a call by then, or by
\* the call that is about to answer it.
LEMMA ClaimSteps ==
  ASSUME IInv, NEW r \in Requests
  PROVE  /\ Join(r) \/ Register(r) \/ AttachTooLate(r) \/ CancelCallback(r) =>
              \/ \E what \in {"Cancelled", "Result"} :
                   Claims(r, Requester, what) /\ (what = "Cancelled" => r \in cancelled)
              \/ UNCHANGED <<by, fin, outcome>>
         /\ Join(r) \/ Register(r) \/ AttachTooLate(r) \/ CancelCallback(r) => local[r] # None
<1>0. RequestInv(r) /\ None \notin Requests
  BY Parts, NoneAssumption
<1> USE DEF doneVars
<1>1. CASE Join(r) \/ AttachTooLate(r)
  BY <1>0, <1>1, ClaimCases DEF Join, AttachTooLate, RequestInv
<1>2. CASE Register(r) \/ CancelCallback(r)
  BY <1>0, <1>2, ClaimCases DEF Register, CancelCallback, RequestInv
<1>3. QED
  BY <1>1, <1>2

LEMMA FinishKept ==
  ASSUME IInv, [Next]_vars, NEW q \in Requests PROVE  FinishInv(q)'
<1>0. /\ TypeOK /\ None \notin Requests /\ Requester # None
      /\ None \notin {"Cancelled", "Refused", "Result", "Failed"}
      /\ \A k \in Requests : CallInv(k) /\ ConsumerInv(k)
      /\ \A r \in Requests : RequestInv(r) /\ FinishInv(r)
  BY Parts, NoneAssumption
<1>g. local[q] # None => local[q] \in Requests
  BY <1>0 DEF TypeOK, Calls
<1>p. \A k \in Requests : phase[k] = "Abandoned" => phase'[k] = "Abandoned"
  BY PhaseGrows
<1> USE DEF FinishInv, callVars, gaugeVars, workVars, pcVars, doneVars
<1>1. ASSUME NEW r \in Requests, NEW thread \in Requests \cup {Requester},
             NEW what \in {"Cancelled", "Result", "Failed"},
             Claims(r, thread, what), local' = local, local[r] # None
      PROVE  FinishInv(q)'
  BY <1>0, <1>1, <1>g, <1>p DEF Claims, TypeOK, RequestInv
<1>2. CASE UNCHANGED <<by, fin, outcome, local>>
  BY <1>0, <1>2, <1>g, <1>p DEF RequestInv
<1>3. ASSUME NEW r \in Requests, Arrive(r) \/ LookInCache(r) PROVE FinishInv(q)'
  <2>1. \/ UNCHANGED <<by, fin, outcome>>
        \/ \E what \in {"Refused", "Cancelled", "Result"} : Answered(r, what)
    BY <1>3 DEF Arrive, LookInCache
  <2>2. UNCHANGED <<local, phase>>
    BY <1>3 DEF Arrive, LookInCache
  <2>3. QED
    BY <1>0, <2>1, <2>2 DEF Answered, TypeOK
<1>4. ASSUME NEW r \in Requests, Lookup(r) PROVE FinishInv(q)'
  <2>1. fin[r] = "none" /\ UNCHANGED <<by, fin, outcome>>
    BY <1>0, <1>4 DEF Lookup, RequestInv
  <2>2. \A p \in Requests : p # r => local'[p] = local[p]
    BY <1>0, <1>4 DEF Lookup, TypeOK
  <2>3. QED
    BY <1>0, <1>g, <1>p, <2>1, <2>2 DEF RequestInv
<1>5. ASSUME NEW r \in Requests, Join(r) \/ Register(r) \/ AttachTooLate(r) \/ CancelCallback(r)
      PROVE  FinishInv(q)'
  <2>1. local' = local
    BY <1>5 DEF Join, Register, AttachTooLate, CancelCallback
  <2>2. QED
    BY <1>1, <1>2, <1>5, <2>1, ClaimSteps
<1>6. ASSUME NEW k \in Requests, AnswerMember(k) PROVE FinishInv(q)'
  <2>1. PICK r \in todo[k] : Claim(r, k, IF ok[k] THEN "Result" ELSE "Failed")
    BY <1>6 DEF AnswerMember
  <2>2. r \in Requests /\ local' = local /\ local[r] # None
    BY <1>0, <1>6 DEF AnswerMember, TypeOK, Calls, ConsumerInv
  <2>3. QED
    BY <1>1, <1>2, <2>1, <2>2, ClaimCases
<1>7. ASSUME NEW r \in Requests, Detach(r) PROVE FinishInv(q)'
  <2>1. local[r] \in Requests
    BY <1>0, <1>7 DEF Detach, RequestInv, TypeOK, Calls
  <2>2. LastOne(r) => phase'[local[r]] = "Abandoned"
    BY <1>0, <1>7, <2>1 DEF Detach, TypeOK, Calls
  <2>3. QED
    BY <1>0, <1>7, <1>g, <1>p, <2>2 DEF Detach, TypeOK, RequestInv
<1>8. ASSUME NEW r \in Requests, Uncount(r) \/ CancelWork(r) \/ EraseAbandoned(r)
             \/ ReleaseAbandoned(r) \/ CallCompletion(r)
      PROVE  FinishInv(q)'
  <2>1. UNCHANGED <<phase, local, by, outcome>>
    BY <1>8 DEF Uncount, CancelWork, EraseAbandoned, ReleaseAbandoned, CallCompletion
  <2>2. \/ /\ fin[r] \in {"uncount", "cancelWork", "erase", "release", "answer", "uncountLast"}
           /\ fin' = [fin EXCEPT ![r] = "answer"] \/ fin' = [fin EXCEPT ![r] = "done"]
        \/ /\ fin[r] \in {"uncountLast", "cancelWork", "erase"}
           /\ \E l \in {"cancelWork", "erase", "release"} : fin' = [fin EXCEPT ![r] = l]
    BY <1>0, <1>8 DEF Uncount, CancelWork, EraseAbandoned, ReleaseAbandoned, CallCompletion, TypeOK
  <2>3. QED
    BY <1>0, <2>1, <2>2 DEF TypeOK
<1>9. ASSUME NEW r \in Requests, LeaveAnswered(r) \/ AttachMember(r) \/ Retry(r) \/ Reclaim(r)
             \/ Submit(r) \/ Cancel(r)
      PROVE  UNCHANGED <<by, fin, outcome, local>>
  BY <1>9 DEF LeaveAnswered, AttachMember, Retry, Reclaim, Submit, Cancel
<1>10. ASSUME NEW k \in Requests, Convert(k) \/ PublishResult(k) \/ StoreResult(k)
              \/ TakeMembers(k) \/ EraseDone(k) \/ ReleaseDone(k)
       PROVE  UNCHANGED <<by, fin, outcome, local>>
  BY <1>10 DEF Convert, PublishResult, StoreResult, TakeMembers, EraseDone, ReleaseDone
<1>11. CASE Expire \/ UNCHANGED vars
  BY <1>2, <1>11 DEF Expire, vars
<1>12. QED
  BY <1>2, <1>3, <1>4, <1>5, <1>6, <1>7, <1>8, <1>9, <1>10, <1>11
     DEF Next, RequestStep, CompletionStep, OwnerStep, Calls

-----------------------------------------------------------------------------
(* The requests *)

LEMMA RequestKept ==
  ASSUME IInv, [Next]_vars, NEW q \in Requests PROVE  RequestInv(q)'
<1>0. /\ TypeOK /\ None \notin Requests /\ Requester # None
      /\ \A k \in Requests : CallInv(k) /\ ConsumerInv(k)
      /\ \A r \in Requests : RequestInv(r) /\ FinishInv(r)
  BY Parts, NoneAssumption
<1>q. RequestInv(q) /\ FinishInv(q) /\ CallInv(q)
  BY <1>0
<1>g. local[q] # None => local[q] \in Requests
  BY <1>0 DEF TypeOK, Calls
<1>p. \A k \in Requests : /\ phase[k] # "none" => phase'[k] # "none"
                          /\ phase[k] \in {"Done", "Abandoned"} => phase'[k] \in {"Done", "Abandoned"}
  BY PhaseGrows
<1> USE DEF RequestInv, callVars, gaugeVars, workVars, pcVars, doneVars
<1>1. CASE UNCHANGED <<pc, by, listening, local, members, counted, fin>>
  BY <1>0, <1>1, <1>q, <1>g, <1>p
<1>2. ASSUME NEW r \in Requests, Arrive(r) \/ LookInCache(r) PROVE RequestInv(q)'
  <2>1. \E l \in {"returned", "cache", "lookup"} : Goto(r, l) /\ (l # "returned" => UNCHANGED doneVars)
    BY <1>2 DEF Arrive, LookInCache
  <2>2. UNCHANGED doneVars \/ \E what \in {"Refused", "Cancelled", "Result"} : Answered(r, what)
    BY <1>2 DEF Arrive, LookInCache
  <2>3. UNCHANGED <<phase, members, local, listening, counted>> /\ pc[r] \in {"new", "cache"}
    BY <1>2 DEF Arrive, LookInCache
  <2>4. q # r => pc'[q] = pc[q] /\ by'[q] = by[q] /\ fin'[q] = fin[q]
    BY <1>0, <2>1, <2>2 DEF Answered, Goto, TypeOK
  <2>5. CASE q # r
    BY <1>0, <1>q, <1>g, <1>p, <2>3, <2>4, <2>5
  <2>6. CASE q = r
    <3>1. pc'[q] \in {"returned", "cache", "lookup"} /\ (pc'[q] # "returned" => by'[q] = by[q])
      BY <1>0, <2>1, <2>6 DEF Goto, TypeOK
    <3>2. fin'[q] \in {fin[q], "answer"}
      BY <1>0, <2>2, <2>6 DEF Answered, TypeOK
    <3>3. pc'[q] = "returned" => by'[q] # None
      <4>1. CASE Goto(r, "returned")
        BY <1>0, <1>2, <2>6, <4>1 DEF Arrive, LookInCache, Answered, Goto, TypeOK
      <4>2. CASE Goto(r, "cache") \/ Goto(r, "lookup")
        BY <1>0, <2>6, <4>2 DEF Goto, TypeOK
      <4>3. QED
        BY <2>1, <4>1, <4>2
    <3>4. QED
      BY <1>0, <1>q, <1>g, <1>p, <2>3, <2>6, <3>1, <3>2, <3>3 DEF FinishInv
  <2>7. QED
    BY <2>5, <2>6
<1>3. ASSUME NEW r \in Requests, Lookup(r) PROVE RequestInv(q)'
  <2>1. /\ pc[r] = "lookup" /\ by[r] = None /\ ~listening[r] /\ fin[r] = "none" /\ ~counted[r]
        /\ registry # r /\ phase[r] = "none"
    BY <1>0, <1>3 DEF Lookup, FinishInv, CallInv, InCall
  <2>2. UNCHANGED <<by, fin, listening, counted>>
    BY <1>3 DEF Lookup
  <2>3. CASE registry # None
    <3>1. /\ local' = [local EXCEPT ![r] = registry] /\ pc' = [pc EXCEPT ![r] = "join"]
          /\ members' = members /\ phase' = phase /\ registry \in Requests /\ phase[registry] # "none"
      BY <1>0, <1>3, <2>3 DEF Lookup, Goto, TypeOK, Calls, CallInv
    <3>2. QED
      BY <1>0, <1>q, <1>g, <1>p, <2>1, <2>2, <3>1 DEF TypeOK
  <2>4. CASE registry = None
    <3>1. /\ local' = [local EXCEPT ![r] = r] /\ pc' = [pc EXCEPT ![r] = "own"]
          /\ members' = [members EXCEPT ![r] = {r}] /\ phase' = [phase EXCEPT ![r] = "Accepting"]
      BY <1>3, <2>4 DEF Lookup, Goto
    <3>2. q # r => members'[q] = members[q]
      BY <1>0, <3>1 DEF TypeOK, Calls
    <3>3. QED
      BY <1>0, <1>q, <1>g, <1>p, <2>1, <2>2, <3>1, <3>2 DEF TypeOK, Calls
  <2>5. QED
    BY <2>3, <2>4
<1>4. ASSUME NEW r \in Requests, Join(r) PROVE RequestInv(q)'
  <2>1. /\ \/ Goto(r, "register") /\ UNCHANGED <<by, fin>>
           \/ Goto(r, "returned") /\ by' = [by EXCEPT ![r] = Requester]
              /\ fin' = [fin EXCEPT ![r] = "detach"]
           \/ /\ Goto(r, "retry") /\ UNCHANGED <<by, fin>>
              /\ phase[local[r]] # "Accepting" /\ ~Ready(local[r])
        /\ pc[r] = "join" /\ UNCHANGED <<phase, members, local, listening, counted>>
    BY <1>0, <1>4 DEF Join, Claim
  <2>2. local[r] \in Requests /\ local[r] # r
    BY <1>0, <2>1 DEF TypeOK, Calls
  <2>3. phase[local[r]] # "Accepting" /\ ~Ready(local[r]) => phase[local[r]] \in {"Done", "Abandoned"}
    BY <1>0, <2>2 DEF Ready, CallInv, TypeOK, Calls
  <2>4. QED
    BY <1>0, <1>q, <1>g, <1>p, <2>1, <2>2, <2>3 DEF TypeOK, Goto
<1>5. ASSUME NEW r \in Requests, Register(r) PROVE RequestInv(q)'
  <2>1. /\ \/ UNCHANGED <<by, fin>>
           \/ by' = [by EXCEPT ![r] = Requester] /\ fin' = [fin EXCEPT ![r] = "detach"]
        /\ \/ pc[r] = "own" /\ pc' = [pc EXCEPT ![r] = "submit"]
           \/ pc[r] = "register" /\ pc' = [pc EXCEPT ![r] = "attach"]
        /\ listening' = [listening EXCEPT ![r] = TRUE] /\ UNCHANGED <<phase, members, local, counted>>
    BY <1>5 DEF Register, Claim, Goto
  <2>2. local[r] \in Requests
    BY <1>0, <2>1 DEF TypeOK, Calls
  <2>3. QED
    BY <1>0, <1>q, <1>g, <1>p, <2>1, <2>2 DEF TypeOK
<1>6. ASSUME NEW r \in Requests, LeaveAnswered(r) PROVE RequestInv(q)'
  BY <1>0, <1>6, <1>q, <1>g, <1>p DEF LeaveAnswered, Goto, TypeOK
<1>7. ASSUME NEW r \in Requests, AttachMember(r) PROVE RequestInv(q)'
  <2>1. q \in members[q] => q \in members'[q]
    BY <1>0, <1>7 DEF AttachMember, TypeOK, Calls
  <2>2. /\ pc[r] = "attach" /\ pc' = [pc EXCEPT ![r] = "returned"]
        /\ counted' = [counted EXCEPT ![r] = TRUE]
        /\ UNCHANGED <<by, fin, listening, local, phase>>
    BY <1>7 DEF AttachMember, Goto
  <2>3. QED
    BY <1>0, <1>q, <1>g, <1>p, <2>1, <2>2 DEF TypeOK
<1>8. ASSUME NEW r \in Requests, AttachTooLate(r) PROVE RequestInv(q)'
  <2>1. /\ \/ Goto(r, "returned") /\ UNCHANGED <<by, fin>>
           \/ Goto(r, "returned") /\ by' = [by EXCEPT ![r] = Requester]
              /\ fin' = [fin EXCEPT ![r] = "detach"]
           \/ Goto(r, "retry") /\ UNCHANGED <<by, fin>> /\ ~Ready(local[r])
        /\ phase[local[r]] # "Accepting"
        /\ pc[r] = "attach" /\ UNCHANGED <<phase, members, local, listening, counted>>
    BY <1>0, <1>8 DEF AttachTooLate, Claim
  <2>2. local[r] \in Requests /\ local[r] # r
    BY <1>0, <2>1 DEF TypeOK, Calls
  <2>3. ~Ready(local[r]) => phase[local[r]] \in {"Done", "Abandoned"}
    BY <1>0, <2>1, <2>2 DEF Ready, CallInv, TypeOK, Calls
  <2>4. QED
    BY <1>0, <1>q, <1>g, <1>p, <2>1, <2>2, <2>3 DEF TypeOK, Goto
<1>9. ASSUME NEW r \in Requests, Retry(r) PROVE RequestInv(q)'
  BY <1>0, <1>9, <1>q, <1>g, <1>p DEF Retry, Goto, TypeOK
<1>10. ASSUME NEW r \in Requests, Reclaim(r) PROVE RequestInv(q)'
  BY <1>0, <1>10, <1>q, <1>g, <1>p DEF Reclaim, Goto, TypeOK
<1>11. ASSUME NEW r \in Requests, Submit(r) PROVE RequestInv(q)'
  BY <1>0, <1>11, <1>q, <1>g, <1>p DEF Submit, Goto, TypeOK
<1>12. ASSUME NEW r \in Requests, CancelCallback(r) PROVE RequestInv(q)'
  <2>1. /\ by' = [by EXCEPT ![r] = Requester] /\ fin' = [fin EXCEPT ![r] = "detach"]
        /\ listening[r] /\ UNCHANGED <<pc, listening, local, members, counted, phase>>
    BY <1>12 DEF CancelCallback, Claim
  <2>2. QED
    BY <1>0, <1>q, <1>g, <1>p, <2>1 DEF TypeOK
<1>13. ASSUME NEW k \in Requests, AnswerMember(k) PROVE RequestInv(q)'
  <2>1. PICK r \in todo[k] : Claim(r, k, IF ok[k] THEN "Result" ELSE "Failed")
    BY <1>13 DEF AnswerMember
  <2>2. /\ r \in Requests /\ local[r] = k /\ pc[r] \in InCall /\ work[k] = "answer"
        /\ UNCHANGED <<pc, listening, local, members, counted, phase>>
    BY <1>0, <1>13 DEF AnswerMember, TypeOK, Calls, ConsumerInv
  <2>3. pc[r] = "returned"
    BY <1>0, <2>2 DEF CallInv, InCall
  <2>4. \/ UNCHANGED <<by, fin>>
        \/ by' = [by EXCEPT ![r] = k] /\ fin' = [fin EXCEPT ![r] = "detach"]
    BY <2>1, ClaimCases DEF Claims
  <2>5. QED
    BY <1>0, <1>q, <1>g, <1>p, <2>2, <2>3, <2>4 DEF TypeOK
<1>14. ASSUME NEW r \in Requests, Detach(r) PROVE RequestInv(q)'
  <2>1. /\ local[r] \in Requests /\ by[r] # None
        /\ UNCHANGED <<pc, by, listening, local>>
        /\ \A p \in Requests : p # r => (p \in members[p] => p \in members'[p])
    BY <1>0, <1>14 DEF Detach, TypeOK, Calls, FinishInv
  <2>2. /\ counted' = [counted EXCEPT ![r] = FALSE]
        /\ fin[r] = "detach" /\ \A p \in Requests : p # r => fin'[p] = fin[p]
    BY <1>0, <1>14 DEF Detach, TypeOK
  <2>3. QED
    BY <1>0, <1>q, <1>g, <1>p, <2>1, <2>2 DEF TypeOK
<1>15. ASSUME NEW r \in Requests, Uncount(r) \/ CancelWork(r) \/ EraseAbandoned(r)
              \/ ReleaseAbandoned(r) \/ CallCompletion(r)
       PROVE  RequestInv(q)'
  <2>1. UNCHANGED <<pc, by, listening, local, members, counted, phase>>
    BY <1>15 DEF Uncount, CancelWork, EraseAbandoned, ReleaseAbandoned, CallCompletion
  <2>2. fin'[q] \in {"none", "answer", "done"} \/ fin[q] \notin {"none", "answer", "done"}
    BY <1>0, <1>15 DEF Uncount, CancelWork, EraseAbandoned, ReleaseAbandoned, CallCompletion, TypeOK
  <2>3. QED
    BY <1>0, <1>q, <1>g, <1>p, <2>1, <2>2
<1>16. ASSUME NEW k \in Requests, TakeMembers(k) PROVE RequestInv(q)'
  <2>1. /\ UNCHANGED <<pc, by, listening, local, counted, fin>> /\ pc[k] = "returned"
        /\ \A p \in Requests : p # k => members'[p] = members[p]
    BY <1>0, <1>16 DEF TakeMembers, TypeOK, Calls, CallInv
  <2>2. QED
    BY <1>0, <1>q, <1>g, <1>p, <2>1
<1>17. ASSUME NEW k \in Requests, Convert(k) \/ PublishResult(k) \/ StoreResult(k) \/ EraseDone(k)
              \/ ReleaseDone(k) \/ Cancel(k)
       PROVE  UNCHANGED <<pc, by, listening, local, members, counted, fin>>
  BY <1>17 DEF Convert, PublishResult, StoreResult, EraseDone, ReleaseDone, Cancel
<1>18. CASE Expire \/ UNCHANGED vars
  BY <1>1, <1>18 DEF Expire, vars
<1>19. QED
  BY <1>1, <1>2, <1>3, <1>4, <1>5, <1>6, <1>7, <1>8, <1>9, <1>10, <1>11, <1>12, <1>13, <1>14,
     <1>15, <1>16, <1>17, <1>18 DEF Next, RequestStep, CompletionStep, OwnerStep, Calls

-----------------------------------------------------------------------------
(* The flight of a call, and its consumers *)

LEMMA FlightKept ==
  ASSUME IInv, [Next]_vars PROVE  SingleFlight'
<1>0. /\ TypeOK /\ SingleFlight /\ None \notin Requests
      /\ \A k \in Requests : CallInv(k) /\ ConsumerInv(k)
      /\ \A r \in Requests : RequestInv(r) /\ FinishInv(r)
  BY Parts, NoneAssumption
<1> SUFFICES ASSUME NEW c \in Requests, phase'[c] \in {"Accepting", "Publishing"}
             PROVE  registry' = c
  BY DEF SingleFlight, Calls
<1>s. phase[c] \in {"Accepting", "Publishing"} => registry = c
  BY <1>0 DEF SingleFlight, Calls
<1> USE DEF callVars, gaugeVars, workVars, pcVars, doneVars
<1>1. CASE UNCHANGED <<phase, registry>>
  BY <1>1, <1>s
<1>2. ASSUME NEW r \in Requests, Lookup(r) PROVE registry' = c
  <2>1. registry = None => c = r
    BY <1>0, <1>2, <1>s DEF Lookup, TypeOK, Calls
  <2>2. QED
    BY <1>2, <1>s, <2>1 DEF Lookup
<1>3. ASSUME NEW r \in Requests, EraseAbandoned(r) \/ Retry(r) PROVE registry' = c
  <2>1. phase' = phase /\ phase[local[r]] \in {"Done", "Abandoned"}
    BY <1>0, <1>3 DEF EraseAbandoned, Retry, RequestInv, FinishInv
  <2>2. registry' = IF registry = local[r] THEN None ELSE registry
    BY <1>3 DEF EraseAbandoned, Retry, EraseCall
  <2>3. QED
    BY <1>s, <2>1, <2>2
<1>4. ASSUME NEW k \in Requests, EraseDone(k) PROVE registry' = c
  <2>1. phase' = phase /\ phase[k] \in {"Done", "Abandoned"}
    BY <1>0, <1>4 DEF EraseDone, CallInv, Published
  <2>2. registry' = IF registry = k THEN None ELSE registry
    BY <1>4 DEF EraseDone, EraseCall
  <2>3. QED
    BY <1>s, <2>1, <2>2
<1>5. ASSUME NEW r \in Requests, Detach(r) PROVE registry' = c
  <2>1. registry' = registry /\ (phase'[c] = phase[c] \/ phase'[c] = "Abandoned")
    BY <1>0, <1>5 DEF Detach, TypeOK, Calls
  <2>2. QED
    BY <1>s, <2>1
<1>6. ASSUME NEW k \in Requests, PublishResult(k) PROVE registry' = c
  <2>1. registry' = registry /\ (c # k => phase'[c] = phase[c])
    BY <1>0, <1>6 DEF PublishResult, TypeOK, Calls
  <2>2. phase'[k] = "Abandoned" \/ phase[k] \in {"Accepting", "Publishing"}
    BY <1>0, <1>6 DEF PublishResult, TypeOK, Calls, CallInv, Published
  <2>3. QED
    BY <1>s, <2>1, <2>2
<1>7. ASSUME NEW k \in Requests, TakeMembers(k) PROVE registry' = c
  <2>1. registry' = registry /\ (phase'[c] = phase[c] \/ phase'[c] = "Done")
    BY <1>0, <1>7 DEF TakeMembers, TypeOK, Calls
  <2>2. QED
    BY <1>s, <2>1
<1>8. ASSUME NEW r \in Requests,
             Arrive(r) \/ LookInCache(r) \/ Join(r) \/ Register(r) \/ LeaveAnswered(r)
             \/ AttachMember(r) \/ AttachTooLate(r) \/ Reclaim(r) \/ Submit(r)
      PROVE  registry' = c
  BY <1>1, <1>8 DEF Arrive, LookInCache, Join, Register, LeaveAnswered, AttachMember,
     AttachTooLate, Reclaim, Submit
<1>9. ASSUME NEW r \in Requests,
             Uncount(r) \/ CancelWork(r) \/ ReleaseAbandoned(r) \/ CallCompletion(r) \/ Cancel(r)
             \/ CancelCallback(r)
      PROVE  registry' = c
  BY <1>1, <1>9 DEF Uncount, CancelWork, ReleaseAbandoned, CallCompletion, Cancel, CancelCallback
<1>10. ASSUME NEW k \in Requests, Convert(k) \/ StoreResult(k) \/ ReleaseDone(k) \/ AnswerMember(k)
       PROVE  registry' = c
  BY <1>1, <1>10 DEF Convert, StoreResult, ReleaseDone, AnswerMember
<1>11. CASE Expire \/ UNCHANGED vars
  BY <1>1, <1>11 DEF Expire, vars
<1>12. QED
  BY <1>2, <1>3, <1>4, <1>5, <1>6, <1>7, <1>8, <1>9, <1>10, <1>11
     DEF Next, RequestStep, CompletionStep, OwnerStep, Calls

LEMMA WantedKept ==
  ASSUME IInv, [Next]_vars PROVE  WorkIsWanted'
<1>0. /\ TypeOK /\ WorkIsWanted /\ None \notin Requests
      /\ \A k \in Requests : CallInv(k) /\ ConsumerInv(k)
      /\ \A r \in Requests : RequestInv(r) /\ FinishInv(r)
  BY Parts, NoneAssumption
<1> SUFFICES ASSUME NEW c \in Requests
             PROVE  /\ phase'[c] = "Accepting" => members'[c] # {}
                    /\ token'[c] => phase'[c] = "Abandoned" /\ members'[c] \cup todo'[c] = {}
  BY DEF WorkIsWanted, Calls
<1> DEFINE Wanted == /\ phase[c] = "Accepting" => members[c] # {}
                     /\ token[c] => phase[c] = "Abandoned" /\ members[c] = {} /\ todo[c] = {}
<1> SUFFICES Wanted'
  OBVIOUS
<1>s. Wanted /\ (phase[c] = "Abandoned" => members[c] = {} /\ todo[c] = {})
  BY <1>0 DEF WorkIsWanted, Calls, CallInv
<1>p. phase[c] = "Abandoned" => phase'[c] = "Abandoned"
  BY PhaseGrows
<1> USE DEF callVars, gaugeVars, workVars, pcVars, doneVars
<1>1. CASE UNCHANGED <<phase, members, todo, token>>
  BY <1>1, <1>s
<1>2. ASSUME NEW r \in Requests, Lookup(r) PROVE Wanted'
  <2>1. phase[r] = "none" \/ UNCHANGED <<phase, members>>
    BY <1>0, <1>2 DEF Lookup, CallInv, InCall
  <2>2. UNCHANGED <<todo, token>>
    BY <1>2 DEF Lookup
  <2>3. CASE UNCHANGED <<phase, members>>
    BY <1>s, <2>2, <2>3
  <2>4. CASE /\ phase[r] = "none" /\ phase' = [phase EXCEPT ![r] = "Accepting"]
             /\ members' = [members EXCEPT ![r] = {r}]
    BY <1>0, <1>s, <2>2, <2>4 DEF TypeOK, Calls
  <2>5. QED
    BY <1>2, <2>1, <2>3, <2>4 DEF Lookup
<1>3. ASSUME NEW r \in Requests, AttachMember(r) PROVE Wanted'
  <2>1. UNCHANGED <<phase, todo, token>> /\ phase[local[r]] = "Accepting"
    BY <1>3 DEF AttachMember
  <2>2. /\ members[c] # {} => members'[c] # {}
        /\ c # local[r] => members'[c] = members[c]
    BY <1>0, <1>3 DEF AttachMember, TypeOK, Calls
  <2>3. QED
    BY <1>s, <2>1, <2>2
<1>4. ASSUME NEW r \in Requests, Detach(r) PROVE Wanted'
  <2>1. UNCHANGED <<todo, token>> /\ local[r] \in Requests
    BY <1>0, <1>4 DEF Detach, RequestInv, TypeOK, Calls
  <2>2. members'[c] \subseteq members[c] /\ (c # local[r] => members'[c] = members[c] /\ phase'[c] = phase[c])
    BY <1>0, <1>4, <2>1 DEF Detach, TypeOK, Calls
  <2>3. ASSUME c = local[r], phase'[c] = "Accepting" PROVE members'[c] # {}
    <3>1. ~LastOne(r) /\ phase' = phase
      BY <1>0, <1>4, <2>1, <2>3 DEF Detach, TypeOK, Calls
    <3>2. ~(members[c] \subseteq {r}) /\ members'[c] = members[c] \ {r}
      BY <1>0, <1>4, <2>1, <2>3, <3>1 DEF LastOne, Detach, TypeOK, Calls
    <3>3. QED
      BY <3>2
  <2>4. QED
    BY <1>s, <1>p, <2>1, <2>2, <2>3
<1>5. ASSUME NEW r \in Requests, CancelWork(r) PROVE Wanted'
  <2>1. UNCHANGED <<phase, members, todo>> /\ phase[local[r]] = "Abandoned"
    BY <1>0, <1>5 DEF CancelWork, FinishInv
  <2>2. token'[c] = token[c] \/ c = local[r]
    BY <1>0, <1>5 DEF CancelWork, TypeOK, Calls
  <2>3. QED
    BY <1>s, <2>1, <2>2
<1>6. ASSUME NEW k \in Requests, PublishResult(k) PROVE Wanted'
  <2>1. UNCHANGED <<todo, token, members>> /\ work[k] = "publish"
    BY <1>6 DEF PublishResult
  <2>2. phase'[c] = phase[c] \/ phase'[c] \in {"Abandoned", "Publishing"}
    BY <1>0, <1>6 DEF PublishResult, TypeOK, Calls
  <2>3. QED
    BY <1>s, <1>p, <2>1, <2>2
<1>7. ASSUME NEW k \in Requests, TakeMembers(k) PROVE Wanted'
  <2>1. token' = token
    BY <1>7 DEF TakeMembers
  <2>2. c # k => phase'[c] = phase[c] /\ members'[c] = members[c] /\ todo'[c] = todo[c]
    BY <1>0, <1>7 DEF TakeMembers, TypeOK, Calls
  <2>3. phase'[k] # "Accepting" /\ members'[k] = {} /\ todo'[k] = members[k]
    BY <1>0, <1>7 DEF TakeMembers, TypeOK, Calls
  <2>4. QED
    BY <1>s, <1>p, <2>1, <2>2, <2>3
<1>8. ASSUME NEW k \in Requests, AnswerMember(k) PROVE Wanted'
  <2>1. UNCHANGED <<phase, members, token>> /\ todo'[c] \subseteq todo[c]
    BY <1>0, <1>8 DEF AnswerMember, TypeOK, Calls
  <2>2. QED
    BY <1>s, <2>1
<1>9. ASSUME NEW r \in Requests,
             Arrive(r) \/ LookInCache(r) \/ Join(r) \/ Register(r) \/ LeaveAnswered(r)
             \/ AttachTooLate(r) \/ Retry(r) \/ Reclaim(r) \/ Submit(r)
      PROVE  Wanted'
  BY <1>1, <1>9 DEF Arrive, LookInCache, Join, Register, LeaveAnswered, AttachTooLate, Retry,
     Reclaim, Submit
<1>10. ASSUME NEW r \in Requests,
              Uncount(r) \/ EraseAbandoned(r) \/ ReleaseAbandoned(r) \/ CallCompletion(r)
              \/ Cancel(r) \/ CancelCallback(r)
       PROVE  Wanted'
  BY <1>1, <1>10 DEF Uncount, EraseAbandoned, ReleaseAbandoned, CallCompletion, Cancel,
     CancelCallback
<1>11. ASSUME NEW k \in Requests, Convert(k) \/ StoreResult(k) \/ EraseDone(k) \/ ReleaseDone(k)
       PROVE  Wanted'
  BY <1>1, <1>11 DEF Convert, StoreResult, EraseDone, ReleaseDone
<1>12. CASE Expire \/ UNCHANGED vars
  BY <1>1, <1>12 DEF Expire, vars
<1>13. QED
  BY <1>2, <1>3, <1>4, <1>5, <1>6, <1>7, <1>8, <1>9, <1>10, <1>11, <1>12
     DEF Next, RequestStep, CompletionStep, OwnerStep, Calls

-----------------------------------------------------------------------------
(* What a request is told, and when *)

LEMMA PrivateKept ==
  ASSUME IInv, [Next]_vars PROVE  CancellationIsPrivate'
<1>0. /\ TypeOK /\ WorkIsWanted /\ CancellationIsPrivate /\ None \notin Requests
      /\ None \notin {"Cancelled", "Refused", "Result", "Failed"}
      /\ \A k \in Requests : CallInv(k) /\ ConsumerInv(k)
      /\ \A r \in Requests : RequestInv(r) /\ FinishInv(r)
  BY Parts, NoneAssumption
<1> SUFFICES ASSUME NEW q \in Requests, outcome'[q] = "Failed"
             PROVE  phase'[local'[q]] = "Done" /\ ~token'[local'[q]] /\ ~ok'[local'[q]]
  BY DEF CancellationIsPrivate
<1> USE DEF callVars, gaugeVars, workVars, pcVars, doneVars
<1>k. ASSUME NEW k \in Requests, phase[k] = "Done", ~ok[k], ok'[k] = ok[k]
      PROVE  phase'[k] = "Done" /\ ~token'[k] /\ ~ok'[k]
  <2>1. phase'[k] = "Done"
    BY <1>k, PhaseGrows
  <2>2. ~token'[k]
    BY <2>1, WantedKept DEF WorkIsWanted, Calls
  <2>3. QED
    BY <1>k, <2>1, <2>2
<1>f. ASSUME outcome[q] = "Failed" PROVE phase'[local'[q]] = "Done" /\ ~token'[local'[q]] /\ ~ok'[local'[q]]
  <2> DEFINE k == local[q]
  <2>1. k \in Requests /\ phase[k] = "Done" /\ ~ok[k]
    BY <1>0, <1>f DEF FinishInv, TypeOK, Calls, CancellationIsPrivate
  <2>2. by[q] # None
    BY <1>0, <1>f DEF FinishInv
  <2>3. ASSUME NEW r \in Requests, Lookup(r) PROVE ok' = ok /\ local'[q] = local[q]
    <3>1. r # q
      BY <1>0, <2>2, <2>3 DEF Lookup, RequestInv
    <3>2. QED
      BY <1>0, <2>3, <3>1 DEF Lookup, TypeOK
  <2>4. ASSUME NEW r \in Requests, Convert(r) PROVE ok'[k] = ok[k] /\ local' = local
    <3>1. r # k
      BY <1>0, <2>1, <2>4 DEF Convert, CallInv, Published
    <3>2. QED
      BY <1>0, <2>1, <2>4, <3>1 DEF Convert, TypeOK, Calls
  <2>5. ASSUME NEW r \in Requests,
               Arrive(r) \/ LookInCache(r) \/ Join(r) \/ Register(r) \/ LeaveAnswered(r)
               \/ AttachMember(r) \/ AttachTooLate(r) \/ Retry(r) \/ Reclaim(r) \/ Submit(r)
        PROVE  ok' = ok /\ local' = local
    BY <2>5 DEF Arrive, LookInCache, Join, Register, LeaveAnswered, AttachMember,
       AttachTooLate, Retry, Reclaim, Submit
  <2>6. ASSUME NEW r \in Requests,
               Detach(r) \/ Uncount(r) \/ CancelWork(r) \/ EraseAbandoned(r)
               \/ ReleaseAbandoned(r) \/ CallCompletion(r) \/ Cancel(r) \/ CancelCallback(r)
        PROVE  ok' = ok /\ local' = local
    BY <2>6 DEF Detach, Uncount, CancelWork, EraseAbandoned, ReleaseAbandoned, CallCompletion,
       Cancel, CancelCallback
  <2>7. ASSUME NEW r \in Requests,
               PublishResult(r) \/ StoreResult(r) \/ TakeMembers(r) \/ EraseDone(r)
               \/ ReleaseDone(r) \/ AnswerMember(r)
        PROVE  ok' = ok /\ local' = local
    BY <2>7 DEF PublishResult, StoreResult, TakeMembers, EraseDone, ReleaseDone, AnswerMember
  <2>8. Expire \/ UNCHANGED vars => ok' = ok /\ local' = local
    BY DEF Expire, vars
  <2>9. ok'[k] = ok[k] /\ local'[q] = k
    BY <2>3, <2>4, <2>5, <2>6, <2>7, <2>8
       DEF Next, RequestStep, CompletionStep, OwnerStep, Calls
  <2>10. QED
    BY <1>k, <2>1, <2>9
<1>1. ASSUME NEW k \in Requests, AnswerMember(k), outcome[q] # "Failed"
      PROVE  phase'[local'[q]] = "Done" /\ ~token'[local'[q]] /\ ~ok'[local'[q]]
  <2>1. PICK r \in todo[k] : Claim(r, k, IF ok[k] THEN "Result" ELSE "Failed")
    BY <1>1 DEF AnswerMember
  <2>2. /\ r \in Requests /\ local[r] = k /\ work[k] = "answer" /\ todo[k] # {}
        /\ UNCHANGED <<ok, local>>
    BY <1>0, <1>1 DEF AnswerMember, TypeOK, Calls, ConsumerInv
  <2>3. r = q /\ ~ok[k]
    <3>1. \/ UNCHANGED outcome
          \/ outcome' = [outcome EXCEPT ![r] = IF r \in cancelled THEN "Cancelled"
                                               ELSE IF ok[k] THEN "Result" ELSE "Failed"]
      BY <2>1, ClaimCases DEF Claims
    <3>2. QED
      BY <1>0, <1>1, <2>2, <3>1 DEF TypeOK
  <2>4. phase[k] = "Done"
    BY <1>0, <2>2 DEF CallInv, Published
  <2>5. QED
    BY <1>k, <2>2, <2>3, <2>4
<1>2. ASSUME NEW r \in Requests, Join(r) \/ Register(r) \/ AttachTooLate(r) \/ CancelCallback(r)
      PROVE  outcome[q] = "Failed"
  <2>1. \/ UNCHANGED outcome
        \/ \E what \in {"Cancelled", "Result"} :
             outcome' = [outcome EXCEPT ![r] = IF r \in cancelled THEN "Cancelled" ELSE what]
    BY <1>0, <1>2, ClaimCases DEF Claims, Join, Register, AttachTooLate, CancelCallback
  <2>2. QED
    BY <1>0, <2>1 DEF TypeOK
<1>3. ASSUME NEW r \in Requests, Arrive(r) \/ LookInCache(r) PROVE outcome[q] = "Failed"
  <2>1. \/ UNCHANGED outcome
        \/ \E what \in {"Refused", "Cancelled", "Result"} : outcome' = [outcome EXCEPT ![r] = what]
    BY <1>3 DEF Arrive, LookInCache, Answered
  <2>2. QED
    BY <1>0, <2>1 DEF TypeOK
<1>4. ASSUME NEW r \in Requests,
             Lookup(r) \/ LeaveAnswered(r) \/ AttachMember(r) \/ Retry(r) \/ Reclaim(r) \/ Submit(r)
             \/ Cancel(r)
      PROVE  outcome' = outcome
  BY <1>4 DEF Lookup, LeaveAnswered, AttachMember, Retry, Reclaim, Submit, Cancel
<1>5. ASSUME NEW r \in Requests,
             Detach(r) \/ Uncount(r) \/ CancelWork(r) \/ EraseAbandoned(r) \/ ReleaseAbandoned(r)
             \/ CallCompletion(r)
      PROVE  outcome' = outcome
  BY <1>5 DEF Detach, Uncount, CancelWork, EraseAbandoned, ReleaseAbandoned, CallCompletion
<1>6. ASSUME NEW k \in Requests,
             Convert(k) \/ PublishResult(k) \/ StoreResult(k) \/ TakeMembers(k) \/ EraseDone(k)
             \/ ReleaseDone(k)
      PROVE  outcome' = outcome
  BY <1>6 DEF Convert, PublishResult, StoreResult, TakeMembers, EraseDone, ReleaseDone
<1>7. Expire \/ UNCHANGED vars => outcome' = outcome
  BY DEF Expire, vars
<1>8. QED
  BY <1>f, <1>1, <1>2, <1>3, <1>4, <1>5, <1>6, <1>7
     DEF Next, RequestStep, CompletionStep, OwnerStep, Calls

LEMMA RememberedKept ==
  ASSUME IInv, [Next]_vars PROVE  NobodyForgotten'
<1>0. /\ TypeOK /\ NobodyForgotten /\ None \notin Requests /\ Requester # None
      /\ \A k \in Requests : CallInv(k) /\ ConsumerInv(k)
      /\ \A r \in Requests : RequestInv(r) /\ FinishInv(r)
  BY Parts, NoneAssumption
<1> DEFINE Before == {"none", "queued", "publish", "store", "swap"}
<1> SUFFICES ASSUME NEW q \in Requests, pc'[q] = "returned", by'[q] = None
             PROVE  \/ q \in todo'[local'[q]]
                    \/ q \in members'[local'[q]] /\ work'[local'[q]] \in Before
  BY DEF NobodyForgotten
<1> DEFINE Waits == \/ q \in todo[local[q]]
                    \/ q \in members[local[q]] /\ work[local[q]] \in Before
<1> SUFFICES Waits'
  OBVIOUS
<1>s. pc[q] = "returned" /\ by[q] = None => local[q] \in Requests /\ Waits
  BY <1>0 DEF NobodyForgotten, RequestInv, TypeOK, Calls
<1> USE DEF callVars, gaugeVars, workVars, pcVars, doneVars
<1>1. CASE /\ UNCHANGED <<local, todo, members, work>>
           /\ pc[q] = "returned" /\ by[q] = None
  BY <1>1, <1>s
<1>2. ASSUME NEW r \in Requests, Arrive(r) \/ LookInCache(r) PROVE Waits'
  <2>1. UNCHANGED <<local, todo, members, work>> /\ pc[r] # "returned"
    BY <1>2 DEF Arrive, LookInCache
  <2>2. q # r
    <3>1. CASE Goto(r, "returned")
      BY <1>0, <1>2, <3>1 DEF Arrive, LookInCache, Answered, Goto, TypeOK
    <3>2. CASE Goto(r, "cache") \/ Goto(r, "lookup")
      BY <1>0, <3>2 DEF Goto, TypeOK
    <3>3. QED
      BY <1>2, <3>1, <3>2 DEF Arrive, LookInCache
  <2>3. pc'[q] = pc[q] /\ by'[q] = by[q]
    BY <1>0, <1>2, <2>2 DEF Arrive, LookInCache, Answered, Goto, TypeOK
  <2>4. QED
    BY <1>1, <2>1, <2>3
<1>3. ASSUME NEW r \in Requests, Lookup(r) PROVE Waits'
  <2>1. UNCHANGED <<todo, work, by>>
    BY <1>3 DEF Lookup
  <2>2. q # r
    BY <1>0, <1>3 DEF Lookup, Goto, TypeOK
  <2>3. pc'[q] = pc[q] /\ local'[q] = local[q]
    BY <1>0, <1>3, <2>2 DEF Lookup, Goto, TypeOK
  <2>4. \A k \in Requests : members[k] \subseteq members'[k]
    <3>1. phase[r] = "none" /\ members[r] = {}
      BY <1>0, <1>3 DEF Lookup, CallInv, InCall
    <3>2. QED
      BY <1>0, <1>3, <3>1 DEF Lookup, TypeOK, Calls
  <2>5. QED
    BY <1>s, <2>1, <2>3, <2>4
<1>4. ASSUME NEW r \in Requests, Join(r) \/ AttachTooLate(r) PROVE Waits'
  <2>1. UNCHANGED <<local, todo, members, work>> /\ pc[r] # "returned"
    BY <1>4 DEF Join, AttachTooLate
  <2>2. q # r
    <3>1. CASE Goto(r, "returned") /\ Claim(r, Requester, "Result")
      BY <1>0, <3>1 DEF Claim, TypeOK
    <3>2. CASE Goto(r, "register") \/ Goto(r, "retry")
      BY <1>0, <3>2 DEF Goto, TypeOK
    <3>3. QED
      BY <1>4, <3>1, <3>2 DEF Join, AttachTooLate
  <2>3. pc'[q] = pc[q] /\ by'[q] = by[q]
    BY <1>0, <1>4, <2>2 DEF Join, AttachTooLate, Claim, Goto, TypeOK
  <2>4. QED
    BY <1>1, <2>1, <2>3
<1>5. ASSUME NEW r \in Requests, Register(r) PROVE Waits'
  <2>1. UNCHANGED <<local, todo, members, work>>
    BY <1>5 DEF Register
  <2>2. q # r
    BY <1>0, <1>5 DEF Register, Goto, TypeOK
  <2>3. pc'[q] = pc[q] /\ by'[q] = by[q]
    BY <1>0, <1>5, <2>2 DEF Register, Claim, Goto, TypeOK
  <2>4. QED
    BY <1>1, <2>1, <2>3
<1>6. ASSUME NEW r \in Requests, LeaveAnswered(r) \/ Retry(r) \/ Reclaim(r) PROVE Waits'
  <2>1. UNCHANGED <<local, todo, members, work, by>>
    BY <1>6 DEF LeaveAnswered, Retry, Reclaim
  <2>2. q # r
    BY <1>0, <1>6 DEF LeaveAnswered, Retry, Reclaim, Goto, TypeOK
  <2>3. pc'[q] = pc[q]
    BY <1>0, <1>6, <2>2 DEF LeaveAnswered, Retry, Reclaim, Goto, TypeOK
  <2>4. QED
    BY <1>1, <2>1, <2>3
<1>7. ASSUME NEW r \in Requests, AttachMember(r) PROVE Waits'
  <2>1. /\ UNCHANGED <<local, todo, work, by>> /\ pc[r] = "attach" /\ phase[local[r]] = "Accepting"
        /\ local[r] \in Requests
    BY <1>0, <1>7 DEF AttachMember, RequestInv, TypeOK, Calls
  <2>2. members' = [members EXCEPT ![local[r]] = @ \cup {r}]
    BY <1>7 DEF AttachMember
  <2>3. CASE q = r
    <3>1. q \in members'[local[q]]
      BY <1>0, <2>1, <2>2, <2>3 DEF TypeOK, Calls
    <3>2. work[local[q]] \in Before
      BY <1>0, <2>1, <2>3 DEF CallInv
    <3>3. QED
      BY <2>1, <3>1, <3>2
  <2>4. CASE q # r
    <3>1. pc'[q] = pc[q]
      BY <1>0, <1>7, <2>4 DEF AttachMember, Goto, TypeOK
    <3>2. \A k \in Requests : members[k] \subseteq members'[k]
      BY <1>0, <2>1, <2>2 DEF TypeOK, Calls
    <3>3. QED
      BY <1>s, <2>1, <3>1, <3>2
  <2>5. QED
    BY <2>3, <2>4
<1>8. ASSUME NEW r \in Requests, Submit(r) PROVE Waits'
  <2>1. /\ UNCHANGED <<local, todo, members, by>> /\ pc[r] = "submit" /\ local[r] = r
        /\ (by[r] = None => r \in members[r])
    BY <1>0, <1>8 DEF Submit, RequestInv
  <2>2. work'[r] = "queued" /\ \A k \in Requests : k # r => work'[k] = work[k]
    BY <1>0, <1>8, <2>1 DEF Submit, TypeOK, Calls
  <2>3. CASE q = r
    BY <2>1, <2>2, <2>3
  <2>4. CASE q # r
    <3>1. pc'[q] = pc[q]
      BY <1>0, <1>8, <2>4 DEF Submit, Goto, TypeOK
    <3>2. QED
      BY <1>s, <2>1, <2>2, <3>1
  <2>5. QED
    BY <2>3, <2>4
<1>9. ASSUME NEW r \in Requests, CancelCallback(r) PROVE Waits'
  <2>1. UNCHANGED <<pc, local, todo, members, work>>
    BY <1>9 DEF CancelCallback
  <2>2. by[q] = None
    BY <1>0, <1>9 DEF CancelCallback, Claim, TypeOK
  <2>3. QED
    BY <1>1, <2>1, <2>2
<1>10. ASSUME NEW r \in Requests, Detach(r) PROVE Waits'
  <2>1. UNCHANGED <<pc, local, todo, work, by>> /\ by[r] # None
    BY <1>0, <1>10 DEF Detach, FinishInv
  <2>2. \A k \in Requests : members[k] \ {r} \subseteq members'[k]
    BY <1>0, <1>10 DEF Detach, TypeOK, Calls
  <2>3. QED
    BY <1>s, <2>1, <2>2
<1>11. ASSUME NEW r \in Requests,
              Uncount(r) \/ CancelWork(r) \/ EraseAbandoned(r) \/ ReleaseAbandoned(r)
              \/ CallCompletion(r) \/ Cancel(r)
       PROVE  Waits'
  BY <1>1, <1>11 DEF Uncount, CancelWork, EraseAbandoned, ReleaseAbandoned, CallCompletion, Cancel
<1>12. ASSUME NEW k \in Requests, Convert(k) \/ PublishResult(k) \/ StoreResult(k) PROVE Waits'
  <2>1. UNCHANGED <<pc, local, todo, members, by>>
    BY <1>12 DEF Convert, PublishResult, StoreResult
  <2>2. /\ work'[k] \in Before /\ work[k] \in Before
        /\ \A c \in Requests : c # k => work'[c] = work[c]
    <3>1. PICK s \in Before : WorkStep(k, s)
      BY <1>12, Zenon DEF Convert, PublishResult, StoreResult
    <3>2. work \in [Requests -> {"none", "queued", "publish", "store", "swap", "erase", "release",
                                "answer"}]
      BY <1>0 DEF TypeOK, Calls
    <3>3. work[k] \in Before
      BY <1>12 DEF Convert, PublishResult, StoreResult
    <3>4. QED
      BY <3>1, <3>2, <3>3 DEF WorkStep
  <2>3. QED
    BY <1>s, <2>1, <2>2
<1>13. ASSUME NEW k \in Requests, TakeMembers(k) PROVE Waits'
  <2>1. UNCHANGED <<pc, local, by>> /\ todo[k] = {}
    BY <1>0, <1>13 DEF TakeMembers, CallInv, Published
  <2>2. /\ todo'[k] = members[k]
        /\ \A c \in Requests : c # k => todo'[c] = todo[c] /\ members'[c] = members[c] /\ work'[c] = work[c]
    BY <1>0, <1>13 DEF TakeMembers, WorkStep, TypeOK, Calls
  <2>3. QED
    BY <1>s, <2>1, <2>2
<1>14. ASSUME NEW k \in Requests, EraseDone(k) \/ ReleaseDone(k) PROVE Waits'
  <2>1. UNCHANGED <<pc, local, by, todo, members>> /\ work[k] \notin Before
    BY <1>14 DEF EraseDone, ReleaseDone
  <2>2. \A c \in Requests : c # k => work'[c] = work[c]
    BY <1>0, <1>14 DEF EraseDone, ReleaseDone, WorkStep, TypeOK, Calls
  <2>3. QED
    BY <1>s, <2>1, <2>2
<1>15. ASSUME NEW k \in Requests, AnswerMember(k) PROVE Waits'
  <2>1. PICK r \in todo[k] : /\ Claim(r, k, IF ok[k] THEN "Result" ELSE "Failed")
                             /\ todo' = [todo EXCEPT ![k] = @ \ {r}]
    BY <1>15 DEF AnswerMember
  <2>2. UNCHANGED <<pc, local, members, work>> /\ r \in Requests
    BY <1>0, <1>15 DEF AnswerMember, TypeOK, Calls
  <2>3. q # r /\ by[q] = None
    BY <1>0, <2>1, <2>2 DEF Claim, TypeOK
  <2>4. \A c \in Requests : todo[c] \ {r} \subseteq todo'[c]
    BY <1>0, <2>1 DEF TypeOK, Calls
  <2>5. QED
    BY <1>s, <2>2, <2>3, <2>4
<1>16. CASE Expire \/ UNCHANGED vars
  BY <1>1, <1>16 DEF Expire, vars
<1>17. QED
  BY <1>2, <1>3, <1>4, <1>5, <1>6, <1>7, <1>8, <1>9, <1>10, <1>11, <1>12, <1>13, <1>14,
     <1>15, <1>16 DEF Next, RequestStep, CompletionStep, OwnerStep, Calls

LEMMA LeftKept ==
  ASSUME IInv, [Next]_vars PROVE  AnsweredHasLeft'
<1>0. /\ TypeOK /\ AnsweredHasLeft /\ None \notin Requests
      /\ \A k \in Requests : CallInv(k) /\ ConsumerInv(k)
      /\ \A r \in Requests : RequestInv(r) /\ FinishInv(r)
  BY Parts, NoneAssumption
<1> SUFFICES ASSUME NEW q \in Requests, NEW c \in Requests, fin'[q] \notin {"none", "detach"}
             PROVE  ~counted'[q] /\ q \notin members'[c]
  BY DEF AnsweredHasLeft, Calls
<1> DEFINE Left == ~counted[q] /\ q \notin members[c]
<1> SUFFICES Left'
  OBVIOUS
<1>s. fin[q] \notin {"none", "detach"} => Left
  BY <1>0 DEF AnsweredHasLeft, Calls
<1> USE DEF callVars, gaugeVars, workVars, pcVars, doneVars
<1>1. CASE UNCHANGED <<counted, members>> /\ fin[q] \notin {"none", "detach"}
  BY <1>1, <1>s
<1>2. ASSUME NEW r \in Requests, Arrive(r) \/ LookInCache(r) PROVE Left'
  <2>1. UNCHANGED <<counted, members>> /\ pc[r] \in {"new", "cache"}
    BY <1>2 DEF Arrive, LookInCache
  <2>2. q # r => fin'[q] = fin[q]
    BY <1>0, <1>2 DEF Arrive, LookInCache, Answered, TypeOK
  <2>3. q = r => Left
    BY <1>0, <2>1 DEF RequestInv, ConsumerInv, InCall
  <2>4. QED
    BY <1>s, <2>1, <2>2, <2>3
<1>3. ASSUME NEW r \in Requests, Lookup(r) PROVE Left'
  <2>1. UNCHANGED <<counted, fin>> /\ fin[r] = "none"
    BY <1>0, <1>3 DEF Lookup, RequestInv, FinishInv
  <2>2. members'[c] = members[c] \/ members'[c] = {r}
    BY <1>0, <1>3 DEF Lookup, TypeOK, Calls
  <2>3. QED
    BY <1>s, <2>1, <2>2
<1>4. ASSUME NEW r \in Requests, Join(r) \/ Register(r) \/ AttachTooLate(r) \/ CancelCallback(r)
      PROVE  Left'
  <2>1. UNCHANGED <<counted, members>>
    BY <1>4 DEF Join, Register, AttachTooLate, CancelCallback
  <2>2. UNCHANGED fin \/ fin' = [fin EXCEPT ![r] = "detach"]
    BY <1>4 DEF Join, Register, AttachTooLate, CancelCallback, Claim
  <2>3. QED
    BY <1>0, <1>1, <2>1, <2>2 DEF TypeOK
<1>5. ASSUME NEW r \in Requests, AttachMember(r) PROVE Left'
  <2>1. fin' = fin /\ fin[r] = "none"
    BY <1>0, <1>5 DEF AttachMember, FinishInv
  <2>2. q # r => counted'[q] = counted[q] /\ (q \in members'[c] => q \in members[c])
    BY <1>0, <1>5 DEF AttachMember, TypeOK, Calls
  <2>3. QED
    BY <1>s, <2>1, <2>2
<1>6. ASSUME NEW r \in Requests, Detach(r) PROVE Left'
  <2>1. q # r => fin'[q] = fin[q] /\ counted'[q] = counted[q]
    BY <1>0, <1>6 DEF Detach, TypeOK
  <2>2. members'[c] \subseteq members[c] /\ (c = local[r] => r \notin members'[c])
    BY <1>0, <1>6 DEF Detach, TypeOK, Calls
  <2>3. c # local[r] => r \notin members[c]
    BY <1>0 DEF ConsumerInv
  <2>4. ~counted'[r]
    BY <1>0, <1>6 DEF Detach, TypeOK
  <2>5. QED
    BY <1>s, <2>1, <2>2, <2>3, <2>4
<1>7. ASSUME NEW r \in Requests,
             Uncount(r) \/ CancelWork(r) \/ EraseAbandoned(r) \/ ReleaseAbandoned(r)
             \/ CallCompletion(r)
      PROVE  Left'
  <2>1. UNCHANGED <<counted, members>> /\ fin[r] \notin {"none", "detach"}
    BY <1>7 DEF Uncount, CancelWork, EraseAbandoned, ReleaseAbandoned, CallCompletion
  <2>2. q # r => fin'[q] = fin[q]
    BY <1>0, <1>7 DEF Uncount, CancelWork, EraseAbandoned, ReleaseAbandoned, CallCompletion, TypeOK
  <2>3. QED
    BY <1>1, <2>1, <2>2
<1>8. ASSUME NEW k \in Requests, TakeMembers(k) PROVE Left'
  <2>1. UNCHANGED <<counted, fin>> /\ members'[c] \subseteq members[c]
    BY <1>0, <1>8 DEF TakeMembers, TypeOK, Calls
  <2>2. QED
    BY <1>s, <2>1
<1>9. ASSUME NEW k \in Requests, AnswerMember(k) PROVE Left'
  <2>1. PICK r \in todo[k] : Claim(r, k, IF ok[k] THEN "Result" ELSE "Failed")
    BY <1>9 DEF AnswerMember
  <2>2. UNCHANGED <<counted, members>>
    BY <1>9 DEF AnswerMember
  <2>3. UNCHANGED fin \/ fin' = [fin EXCEPT ![r] = "detach"]
    BY <2>1 DEF Claim
  <2>4. QED
    BY <1>0, <1>1, <2>2, <2>3 DEF TypeOK
<1>10. ASSUME NEW r \in Requests,
              LeaveAnswered(r) \/ Retry(r) \/ Reclaim(r) \/ Submit(r) \/ Cancel(r)
       PROVE  Left'
  BY <1>1, <1>10 DEF LeaveAnswered, Retry, Reclaim, Submit, Cancel
<1>11. ASSUME NEW k \in Requests,
              Convert(k) \/ PublishResult(k) \/ StoreResult(k) \/ EraseDone(k) \/ ReleaseDone(k)
       PROVE  Left'
  BY <1>1, <1>11 DEF Convert, PublishResult, StoreResult, EraseDone, ReleaseDone
<1>12. CASE Expire \/ UNCHANGED vars
  BY <1>1, <1>12 DEF Expire, vars
<1>13. QED
  BY <1>2, <1>3, <1>4, <1>5, <1>6, <1>7, <1>8, <1>9, <1>10, <1>11, <1>12
     DEF Next, RequestStep, CompletionStep, OwnerStep, Calls

-----------------------------------------------------------------------------
(* The gauges *)

Owners == {k \in Calls : phase[k] # "none" /\ ~released[k]}
Waiters == {r \in Requests : counted[r] \/ fin[r] \in {"uncount", "uncountLast"}}

\* What is counted grows or shrinks by one element at a time.
LEMMA CountOne ==
  ASSUME NEW S \in SUBSET Requests, NEW r \in Requests
  PROVE  /\ Cardinality(S) \in Int
         /\ r \notin S => Cardinality(S \cup {r}) = Cardinality(S) + 1
         /\ r \in S => Cardinality(S \ {r}) = Cardinality(S) - 1
<1>1. IsFiniteSet(S) /\ Cardinality(S) \in Nat
  BY RequestAssumption, FS_Subset, FS_CardinalityType DEF RequestAssumption
<1>2. Cardinality(S \cup {r}) = IF r \in S THEN Cardinality(S) ELSE Cardinality(S) + 1
  BY <1>1, FS_AddElement
<1>3. Cardinality(S \ {r}) = IF r \in S THEN Cardinality(S) - 1 ELSE Cardinality(S)
  BY <1>1, FS_RemoveElement
<1>4. QED
  BY <1>1, <1>2, <1>3

LEMMA OwnersKept ==
  ASSUME IInv, [Next]_vars PROVE  (activeOwners = Cardinality(Owners))'
<1>0. /\ TypeOK /\ None \notin Requests
      /\ \A k \in Requests : CallInv(k) /\ ConsumerInv(k)
      /\ \A r \in Requests : RequestInv(r) /\ FinishInv(r)
  BY Parts, NoneAssumption
<1>s. activeOwners = Cardinality(Owners) /\ Owners \in SUBSET Requests
  BY Parts DEF GaugesExact, Owners, Calls
<1> DEFINE Exact == activeOwners = Cardinality(Owners)
<1> SUFFICES Exact'
  OBVIOUS
<1> USE DEF callVars, gaugeVars, workVars, pcVars, doneVars
<1>1. CASE /\ UNCHANGED <<activeOwners, released>>
           /\ \A k \in Requests : phase'[k] = "none" <=> phase[k] = "none"
  <2>1. Owners' = Owners
    BY <1>1 DEF Owners, Calls
  <2>2. QED
    BY <1>1, <1>s, <2>1
<1>2. ASSUME NEW r \in Requests, Lookup(r) PROVE Exact'
  <2>1. CASE registry # None
    BY <1>1, <1>2, <2>1 DEF Lookup
  <2>2. CASE registry = None
    <3>1. phase[r] = "none" /\ ~released[r] /\ released' = released
      BY <1>0, <1>2 DEF Lookup, CallInv, InCall
    <3>2. phase'[r] = "Accepting" /\ \A k \in Requests : k # r => phase'[k] = phase[k]
      BY <1>0, <1>2, <2>2 DEF Lookup, TypeOK, Calls
    <3>3. Owners' = Owners \cup {r} /\ r \notin Owners
      BY <3>1, <3>2 DEF Owners, Calls
    <3>4. activeOwners' = activeOwners + 1
      BY <1>2, <2>2 DEF Lookup
    <3>5. QED
      BY <1>s, <3>3, <3>4, CountOne
  <2>3. QED
    BY <2>1, <2>2
<1>3. ASSUME NEW k \in Requests, ReleaseOwner(k), phase' = phase, phase[k] # "none" PROVE Exact'
  <2>1. released' = [released EXCEPT ![k] = TRUE]
    BY <1>3 DEF ReleaseOwner
  <2>2. released'[k] /\ \A c \in Requests : c # k => released'[c] = released[c]
    BY <1>0, <2>1 DEF TypeOK, Calls
  <2>3. Owners' = Owners \ {k} /\ (k \in Owners <=> ~released[k])
    BY <1>3, <2>2 DEF Owners, Calls
  <2>4. activeOwners' = IF released[k] THEN activeOwners ELSE activeOwners - 1
    BY <1>3 DEF ReleaseOwner
  <2>5. CASE released[k]
    <3>1. Owners' = Owners
      BY <2>3, <2>5
    <3>2. QED
      BY <1>s, <2>4, <2>5, <3>1
  <2>6. CASE ~released[k]
    BY <1>s, <2>3, <2>4, <2>6, CountOne
  <2>7. QED
    BY <2>5, <2>6
<1>4. ASSUME NEW r \in Requests, ReleaseAbandoned(r) PROVE Exact'
  <2>1. local[r] \in Requests /\ phase[local[r]] = "Abandoned" /\ phase' = phase
    BY <1>0, <1>4 DEF ReleaseAbandoned, RequestInv, FinishInv, TypeOK, Calls
  <2>2. QED
    BY <1>3, <1>4, <2>1 DEF ReleaseAbandoned
<1>5. ASSUME NEW k \in Requests, ReleaseDone(k) PROVE Exact'
  <2>1. phase' = phase /\ phase[k] # "none"
    BY <1>0, <1>5 DEF ReleaseDone, CallInv
  <2>2. QED
    BY <1>3, <1>5, <2>1 DEF ReleaseDone
<1>6. ASSUME NEW r \in Requests, Detach(r) PROVE Exact'
  <2>1. local[r] \in Requests /\ phase[local[r]] # "none"
    BY <1>0, <1>6 DEF Detach, RequestInv, TypeOK, Calls
  <2>2. phase' = phase \/ phase' = [phase EXCEPT ![local[r]] = "Abandoned"]
    BY <1>6 DEF Detach
  <2>3. \A k \in Requests : phase'[k] = "none" <=> phase[k] = "none"
    BY <1>0, <2>1, <2>2 DEF TypeOK, Calls
  <2>4. QED
    BY <1>1, <1>6, <2>3 DEF Detach
<1>7. ASSUME NEW k \in Requests, PublishResult(k) \/ TakeMembers(k) PROVE Exact'
  <2>1. phase[k] # "none"
    BY <1>0, <1>7 DEF PublishResult, TakeMembers, CallInv
  <2>2. phase' = phase \/ \E p \in {"Abandoned", "Publishing", "Done"} : phase' = [phase EXCEPT ![k] = p]
    BY <1>7 DEF PublishResult, TakeMembers
  <2>3. \A c \in Requests : phase'[c] = "none" <=> phase[c] = "none"
    BY <1>0, <2>1, <2>2 DEF TypeOK, Calls
  <2>4. QED
    BY <1>1, <1>7, <2>3 DEF PublishResult, TakeMembers
<1>8. ASSUME NEW r \in Requests,
             Arrive(r) \/ LookInCache(r) \/ Join(r) \/ Register(r) \/ LeaveAnswered(r)
             \/ AttachMember(r) \/ AttachTooLate(r) \/ Retry(r) \/ Reclaim(r) \/ Submit(r)
      PROVE  Exact'
  BY <1>1, <1>8 DEF Arrive, LookInCache, Join, Register, LeaveAnswered, AttachMember,
     AttachTooLate, Retry, Reclaim, Submit
<1>9. ASSUME NEW r \in Requests,
             Uncount(r) \/ CancelWork(r) \/ EraseAbandoned(r) \/ CallCompletion(r) \/ Cancel(r)
             \/ CancelCallback(r)
      PROVE  Exact'
  BY <1>1, <1>9 DEF Uncount, CancelWork, EraseAbandoned, CallCompletion, Cancel, CancelCallback
<1>10. ASSUME NEW k \in Requests,
              Convert(k) \/ StoreResult(k) \/ EraseDone(k) \/ AnswerMember(k)
       PROVE  Exact'
  BY <1>1, <1>10 DEF Convert, StoreResult, EraseDone, AnswerMember
<1>11. CASE Expire \/ UNCHANGED vars
  BY <1>1, <1>11 DEF Expire, vars
<1>12. QED
  BY <1>2, <1>4, <1>5, <1>6, <1>7, <1>8, <1>9, <1>10, <1>11
     DEF Next, RequestStep, CompletionStep, OwnerStep, Calls

LEMMA WaitersKept ==
  ASSUME IInv, [Next]_vars PROVE  (waiting = Cardinality(Waiters))'
<1>0. /\ TypeOK /\ AnsweredHasLeft /\ None \notin Requests
      /\ \A r \in Requests : RequestInv(r) /\ FinishInv(r)
  BY Parts, NoneAssumption
<1>s. waiting = Cardinality(Waiters) /\ Waiters \in SUBSET Requests
  BY Parts DEF GaugesExact, Waiters
<1> DEFINE Uncounts == {"uncount", "uncountLast"}
           Exact == waiting = Cardinality(Waiters)
<1> SUFFICES Exact'
  OBVIOUS
<1> USE DEF callVars, gaugeVars, workVars, pcVars, doneVars
<1>1. CASE /\ UNCHANGED <<waiting, counted>>
           /\ \A q \in Requests : fin'[q] \in Uncounts <=> fin[q] \in Uncounts
  <2>1. Waiters' = Waiters
    BY <1>1 DEF Waiters
  <2>2. QED
    BY <1>1, <1>s, <2>1
<1>2. ASSUME NEW r \in Requests, Arrive(r) \/ LookInCache(r) PROVE Exact'
  <2>1. fin[r] = "none" /\ UNCHANGED <<waiting, counted>>
    BY <1>0, <1>2 DEF Arrive, LookInCache, RequestInv, FinishInv
  <2>2. UNCHANGED fin \/ fin' = [fin EXCEPT ![r] = "answer"]
    BY <1>2 DEF Arrive, LookInCache, Answered
  <2>3. QED
    BY <1>0, <1>1, <2>1, <2>2 DEF TypeOK
<1>3. ASSUME NEW r \in Requests, NEW thread, NEW what, Claim(r, thread, what),
             UNCHANGED <<waiting, counted>>
      PROVE  Exact'
  <2>1. UNCHANGED fin \/ (fin[r] = "none" /\ fin' = [fin EXCEPT ![r] = "detach"])
    BY <1>0, <1>3 DEF Claim, FinishInv
  <2>2. QED
    BY <1>0, <1>1, <1>3, <2>1 DEF TypeOK
<1>4. ASSUME NEW r \in Requests, Join(r) \/ Register(r) \/ AttachTooLate(r) \/ CancelCallback(r)
      PROVE  Exact'
  <2>1. UNCHANGED <<waiting, counted>>
    BY <1>4 DEF Join, Register, AttachTooLate, CancelCallback
  <2>2. UNCHANGED fin \/ \E what \in {"Cancelled", "Result"} : Claim(r, Requester, what)
    BY <1>4 DEF Join, Register, AttachTooLate, CancelCallback
  <2>3. QED
    BY <1>1, <1>3, <2>1, <2>2
<1>5. ASSUME NEW k \in Requests, AnswerMember(k) PROVE Exact'
  <2>1. PICK r \in todo[k] : Claim(r, k, IF ok[k] THEN "Result" ELSE "Failed")
    BY <1>5 DEF AnswerMember
  <2>2. r \in Requests /\ UNCHANGED <<waiting, counted>>
    BY <1>0, <1>5 DEF AnswerMember, TypeOK, Calls
  <2>3. QED
    BY <1>3, <2>1, <2>2
<1>6. ASSUME NEW r \in Requests, AttachMember(r) PROVE Exact'
  <2>1. ~counted[r] /\ fin[r] = "none" /\ fin' = fin
    BY <1>0, <1>6 DEF AttachMember, RequestInv, FinishInv
  <2>2. counted'[r] /\ \A q \in Requests : q # r => counted'[q] = counted[q]
    BY <1>0, <1>6 DEF AttachMember, TypeOK
  <2>3. Waiters' = Waiters \cup {r} /\ r \notin Waiters
    BY <2>1, <2>2 DEF Waiters
  <2>4. waiting' = waiting + 1
    BY <1>6 DEF AttachMember
  <2>5. QED
    BY <1>s, <2>3, <2>4, CountOne
<1>7. ASSUME NEW r \in Requests, Detach(r) PROVE Exact'
  <2>1. waiting' = waiting /\ fin[r] = "detach"
    BY <1>7 DEF Detach
  <2>2. ~counted'[r] /\ (fin'[r] \in Uncounts <=> counted[r])
    BY <1>0, <1>7 DEF Detach, TypeOK
  <2>3. \A q \in Requests : q # r => counted'[q] = counted[q] /\ fin'[q] = fin[q]
    BY <1>0, <1>7 DEF Detach, TypeOK
  <2>4. Waiters' = Waiters
    BY <2>1, <2>2, <2>3 DEF Waiters
  <2>5. QED
    BY <1>s, <2>1, <2>4
<1>8. ASSUME NEW r \in Requests, Uncount(r) PROVE Exact'
  <2>1. fin[r] \in Uncounts /\ ~counted[r] /\ counted' = counted
    BY <1>0, <1>8 DEF Uncount, AnsweredHasLeft
  <2>2. fin'[r] \notin Uncounts /\ \A q \in Requests : q # r => fin'[q] = fin[q]
    BY <1>0, <1>8 DEF Uncount, TypeOK
  <2>3. Waiters' = Waiters \ {r} /\ r \in Waiters
    BY <2>1, <2>2 DEF Waiters
  <2>4. waiting' = waiting - 1
    BY <1>8 DEF Uncount
  <2>5. QED
    BY <1>s, <2>3, <2>4, CountOne
<1>9. ASSUME NEW r \in Requests,
             CancelWork(r) \/ EraseAbandoned(r) \/ ReleaseAbandoned(r) \/ CallCompletion(r)
      PROVE  Exact'
  <2>1. UNCHANGED <<waiting, counted>> /\ fin[r] \notin Uncounts
    BY <1>9 DEF CancelWork, EraseAbandoned, ReleaseAbandoned, CallCompletion
  <2>2. \E l \in {"erase", "release", "answer", "done"} : fin' = [fin EXCEPT ![r] = l]
    BY <1>9 DEF CancelWork, EraseAbandoned, ReleaseAbandoned, CallCompletion
  <2>3. QED
    BY <1>0, <1>1, <2>1, <2>2 DEF TypeOK
<1>10. ASSUME NEW r \in Requests,
              Lookup(r) \/ LeaveAnswered(r) \/ Retry(r) \/ Reclaim(r) \/ Submit(r) \/ Cancel(r)
       PROVE  Exact'
  BY <1>1, <1>10 DEF Lookup, LeaveAnswered, Retry, Reclaim, Submit, Cancel
<1>11. ASSUME NEW k \in Requests,
              Convert(k) \/ PublishResult(k) \/ StoreResult(k) \/ TakeMembers(k) \/ EraseDone(k)
              \/ ReleaseDone(k)
       PROVE  Exact'
  BY <1>1, <1>11 DEF Convert, PublishResult, StoreResult, TakeMembers, EraseDone, ReleaseDone
<1>12. CASE Expire \/ UNCHANGED vars
  BY <1>1, <1>12 DEF Expire, vars
<1>13. QED
  BY <1>2, <1>4, <1>5, <1>6, <1>7, <1>8, <1>9, <1>10, <1>11, <1>12
     DEF Next, RequestStep, CompletionStep, OwnerStep, Calls

-----------------------------------------------------------------------------
(* The theorems *)

LEMMA InitIInv ==
  ASSUME Init PROVE IInv
<1>0. None \notin Requests
  BY NoneAssumption
<1>1. TypeOK
  <2>1. activeOwners \in Int /\ waiting \in Int
    BY DEF Init
  <2>2. QED
    BY <2>1 DEF Init, TypeOK, Calls
<1>2. \A r \in Requests : RequestInv(r) /\ FinishInv(r)
  BY <1>0, NoneAssumption DEF Init, RequestInv, FinishInv, Calls
<1>3. \A k \in Calls : CallInv(k) /\ ConsumerInv(k)
  BY <1>0 DEF Init, CallInv, ConsumerInv, Published, InCall, Calls
<1>4. SingleFlight /\ WorkIsWanted /\ AnsweredHasLeft
  BY DEF Init, SingleFlight, WorkIsWanted, AnsweredHasLeft, Calls
<1>5. CancellationIsPrivate /\ NobodyForgotten
  BY NoneAssumption DEF Init, CancellationIsPrivate, NobodyForgotten
<1>6. GaugesExact
  <2>1. Owners = {} /\ Waiters = {}
    BY DEF Init, Owners, Waiters, Calls
  <2>2. Cardinality({}) = 0
    BY FS_EmptySet
  <2>3. QED
    BY <2>1, <2>2 DEF Init, GaugesExact, Owners, Waiters
<1>7. QED
  BY <1>1, <1>2, <1>3, <1>4, <1>5, <1>6 DEF IInv, Detailed

LEMMA StepIInv ==
  ASSUME IInv, [Next]_vars PROVE IInv'
<1>1. Detailed'
  BY RequestKept, FinishKept, CallKept, ConsumerKept DEF Detailed, Calls
<1>2. GaugesExact'
  BY OwnersKept, WaitersKept DEF GaugesExact, Owners, Waiters
<1>3. QED
  BY <1>1, <1>2, TypeKept, FlightKept, WantedKept, PrivateKept, RememberedKept, LeftKept
     DEF IInv

LEMMA SingleFollows ==
  ASSUME IInv PROVE SingleInv
<1>0. /\ TypeOK /\ SingleFlight /\ None \notin Requests
      /\ \A k \in Requests : CallInv(k) /\ ConsumerInv(k)
      /\ \A r \in Requests : RequestInv(r) /\ FinishInv(r)
  BY Parts, NoneAssumption
<1>1. ASSUME NEW r \in Requests
      PROVE  /\ fin[r] = "none" <=> by[r] = None
             /\ fin[r] = "none" <=> outcome[r] = None
             /\ \A k \in Calls : r \in members[k] \cup todo[k] => local[r] = k
             /\ counted[r] => local[r] # r
             /\ fin[r] \in {"uncountLast", "cancelWork", "erase", "release"}
                  => phase[local[r]] = "Abandoned"
             /\ pc[r] \in {"join", "register", "own", "attach", "retry", "reclaim", "submit"}
                  => local[r] # None /\ phase[local[r]] # "none"
  <2>1. RequestInv(r) /\ FinishInv(r) /\ \A k \in Calls : ConsumerInv(k)
    BY <1>0 DEF Calls
  <2>2. QED
    BY <1>0, <2>1 DEF RequestInv, FinishInv, ConsumerInv
<1>2. ASSUME NEW k \in Calls
      PROVE  /\ phase[k] = "none" => registry # k /\ work[k] = "none" /\ members[k] = {}
             /\ work[k] # "none" => pc[k] = "returned" /\ local[k] = k
  BY <1>0 DEF CallInv, Calls
<1>3. QED
  BY <1>0, <1>1, <1>2 DEF SingleInv

-----------------------------------------------------------------------------
(* What a conversion came to                                                *)

\* A result that is offered is that of a conversion that succeeded, and a call that
\* is done without one has failed.
ResultInv(k) ==
  /\ hasResult[k] => ok[k] /\ phase[k] \in {"Publishing", "Done"}
  /\ phase[k] = "Done" /\ ok[k] => hasResult[k]
  /\ work[k] = "publish" => ok[k]
  /\ work[k] = "store" => hasResult[k]
  /\ phase[k] = "Accepting" /\ work[k] = "swap" => ~ok[k]

\* What the micro-cache holds came from one that succeeded.
CacheInv == cached => \E k \in Requests : hasResult[k]

SharedInv == IInv /\ CacheInv /\ \A k \in Requests : ResultInv(k)

LEMMA ResultKept ==
  ASSUME SharedInv, [Next]_vars, NEW c \in Requests PROVE  ResultInv(c)'
<1>0. /\ TypeOK /\ WorkIsWanted /\ IInv
      /\ \A k \in Requests : CallInv(k)
      /\ \A r \in Requests : RequestInv(r)
  BY Parts DEF SharedInv
<1>c. ResultInv(c)
  BY DEF SharedInv
<1> USE DEF ResultInv, callVars, gaugeVars, workVars, pcVars, doneVars, Calls
<1>1. ASSUME NEW r \in Requests, Lookup(r) PROVE ResultInv(c)'
  <2>1. phase[r] = "none" /\ work[r] = "none"
    BY <1>0, <1>1 DEF Lookup, CallInv, InCall
  <2>2. UNCHANGED <<hasResult, ok, work>>
    BY <1>1 DEF Lookup
  <2>3. phase' = phase \/ phase' = [phase EXCEPT ![r] = "Accepting"]
    BY <1>1 DEF Lookup
  <2>4. QED
    BY <1>0, <1>c, <2>1, <2>2, <2>3 DEF TypeOK
<1>2. ASSUME NEW r \in Requests, Detach(r) PROVE ResultInv(c)'
  <2>1. UNCHANGED <<hasResult, ok, work>>
    BY <1>2 DEF Detach
  <2>2. phase'[c] = phase[c] \/ (phase[c] = "Accepting" /\ phase'[c] = "Abandoned")
    BY <1>0, <1>2 DEF Detach, LastOne, TypeOK
  <2>3. QED
    BY <1>c, <2>1, <2>2
<1>3. ASSUME NEW r \in Requests, Submit(r) PROVE ResultInv(c)'
  <2>1. local[r] = r /\ UNCHANGED <<phase, hasResult, ok>>
    BY <1>0, <1>3 DEF Submit, RequestInv
  <2>2. work' = [work EXCEPT ![r] = "queued"]
    BY <1>3, <2>1 DEF Submit
  <2>3. QED
    BY <1>0, <1>c, <2>1, <2>2 DEF TypeOK
<1>4. ASSUME NEW k \in Requests, Convert(k) PROVE ResultInv(c)'
  <2>1. phase[k] \notin {"Publishing", "Done"}
    BY <1>0, <1>4 DEF Convert, CallInv, Published
  <2>2. PICK good \in BOOLEAN : /\ ok' = [ok EXCEPT ![k] = good]
                                /\ work' = [work EXCEPT ![k] = IF good THEN "publish" ELSE "swap"]
    BY <1>4 DEF Convert, WorkStep
  <2>3. UNCHANGED <<phase, hasResult>>
    BY <1>4 DEF Convert
  <2>4. QED
    BY <1>0, <1>c, <2>1, <2>2, <2>3 DEF TypeOK
<1>5. ASSUME NEW k \in Requests, PublishResult(k) PROVE ResultInv(c)'
  <2>1. ok[k] /\ ~hasResult[k] /\ phase[k] \in {"Accepting", "Abandoned"}
    BY <1>0, <1>5 DEF PublishResult, SharedInv, CallInv, Published, TypeOK
  <2>2. QED
    BY <1>0, <1>c, <1>5, <2>1 DEF PublishResult, WorkStep, TypeOK
<1>6. ASSUME NEW k \in Requests, StoreResult(k) PROVE ResultInv(c)'
  <2>1. hasResult[k]
    BY <1>6 DEF StoreResult, SharedInv
  <2>2. QED
    BY <1>0, <1>c, <1>6, <2>1 DEF StoreResult, WorkStep, TypeOK
<1>7. ASSUME NEW k \in Requests, TakeMembers(k) PROVE ResultInv(c)'
  <2>1. ResultInv(k) /\ phase[k] \in {"Accepting", "Publishing", "Abandoned"}
    BY <1>0, <1>7 DEF TakeMembers, SharedInv, CallInv, Published, TypeOK
  <2>2. phase[k] = "Publishing" => hasResult[k]
    BY <1>0 DEF CallInv
  <2>3. QED
    BY <1>0, <1>c, <1>7, <2>1, <2>2 DEF TakeMembers, WorkStep, TypeOK
<1>8. ASSUME NEW k \in Requests, EraseDone(k) \/ ReleaseDone(k) PROVE ResultInv(c)'
  <2>1. UNCHANGED <<phase, hasResult, ok>>
    BY <1>8 DEF EraseDone, ReleaseDone
  <2>2. \E s \in {"release", "answer"} : work' = [work EXCEPT ![k] = s]
    BY <1>8 DEF EraseDone, ReleaseDone, WorkStep
  <2>3. QED
    BY <1>0, <1>c, <2>1, <2>2 DEF TypeOK
<1>9. CASE UNCHANGED <<phase, hasResult, ok, work>>
  BY <1>c, <1>9
<1>10. ASSUME NEW r \in Requests,
              Arrive(r) \/ LookInCache(r) \/ Join(r) \/ Register(r) \/ LeaveAnswered(r)
              \/ AttachMember(r) \/ AttachTooLate(r) \/ Retry(r) \/ Reclaim(r)
       PROVE  UNCHANGED <<phase, hasResult, ok, work>>
  BY <1>10 DEF Arrive, LookInCache, Join, Register, LeaveAnswered, AttachMember,
     AttachTooLate, Retry, Reclaim
<1>11. ASSUME NEW r \in Requests,
              Uncount(r) \/ CancelWork(r) \/ EraseAbandoned(r) \/ ReleaseAbandoned(r)
              \/ CallCompletion(r) \/ Cancel(r) \/ CancelCallback(r)
       PROVE  UNCHANGED <<phase, hasResult, ok, work>>
  BY <1>11 DEF Uncount, CancelWork, EraseAbandoned, ReleaseAbandoned, CallCompletion, Cancel,
     CancelCallback
<1>12. ASSUME NEW k \in Requests, AnswerMember(k) PROVE UNCHANGED <<phase, hasResult, ok, work>>
  BY <1>12 DEF AnswerMember
<1>13. Expire \/ UNCHANGED vars => UNCHANGED <<phase, hasResult, ok, work>>
  BY DEF Expire, vars
<1>14. QED
  BY <1>1, <1>2, <1>3, <1>4, <1>5, <1>6, <1>7, <1>8, <1>9, <1>10, <1>11, <1>12, <1>13
     DEF Next, RequestStep, CompletionStep, OwnerStep

LEMMA CacheKept ==
  ASSUME SharedInv, [Next]_vars PROVE  CacheInv'
<1>0. TypeOK /\ IInv /\ (\A k \in Requests : ResultInv(k)) /\ CacheInv
  BY Parts DEF SharedInv
<1>1. \A k \in Requests : hasResult[k] => hasResult'[k]
  <2>1. hasResult' = hasResult \/ \E k \in Requests : hasResult' = [hasResult EXCEPT ![k] = TRUE]
    <3>1. ASSUME NEW r \in Requests,
                 Arrive(r) \/ RequestStep(r) \/ CompletionStep(r) \/ Cancel(r) \/ CancelCallback(r)
          PROVE  hasResult' = hasResult
      <4>1. Lookup(r) \/ AttachMember(r) \/ Submit(r) \/ Detach(r) => hasResult' = hasResult
        BY DEF Lookup, AttachMember, Submit, Detach, callVars
      <4>2. Aside => hasResult' = hasResult
        BY DEF Aside
      <4>3. QED
        BY <3>1, <4>1, <4>2, AsideSteps DEF RequestStep, CompletionStep
    <3>2. ASSUME NEW k \in Requests, OwnerStep(k)
          PROVE  hasResult' = hasResult \/ hasResult' = [hasResult EXCEPT ![k] = TRUE]
      BY <3>2 DEF OwnerStep, Convert, PublishResult, StoreResult, TakeMembers, EraseDone,
         ReleaseDone, AnswerMember, callVars
    <3>3. Expire \/ UNCHANGED vars => hasResult' = hasResult
      BY DEF Expire, vars, callVars
    <3>4. QED
      BY <3>1, <3>2, <3>3 DEF Next, Calls
  <2>2. QED
    BY <1>0, <2>1 DEF TypeOK, Calls
<1>2. CASE cached' = cached \/ ~cached'
  BY <1>0, <1>1, <1>2 DEF CacheInv, TypeOK
<1>3. ASSUME NEW k \in Requests, StoreResult(k) PROVE CacheInv'
  BY <1>0, <1>1, <1>3 DEF StoreResult, ResultInv, CacheInv
<1>4. ASSUME NEW r \in Requests, Arrive(r) \/ RequestStep(r) \/ Cancel(r) \/ CancelCallback(r)
      PROVE  cached' = cached
  BY <1>4 DEF Arrive, RequestStep, LookInCache, Lookup, Join, Register, LeaveAnswered,
     AttachMember, AttachTooLate, Retry, Reclaim, Submit, Cancel, CancelCallback
<1>5. ASSUME NEW r \in Requests, CompletionStep(r) PROVE cached' = cached
  BY <1>5 DEF CompletionStep, Detach, Uncount, CancelWork, EraseAbandoned, ReleaseAbandoned,
     CallCompletion
<1>6. ASSUME NEW k \in Requests, OwnerStep(k) PROVE StoreResult(k) \/ cached' = cached
  BY <1>6 DEF OwnerStep, Convert, PublishResult, TakeMembers, EraseDone, ReleaseDone,
     AnswerMember
<1>7. Expire \/ UNCHANGED vars => cached' = cached \/ ~cached'
  BY DEF Expire, vars
<1>8. QED
  BY <1>2, <1>3, <1>4, <1>5, <1>6, <1>7 DEF Next, Calls

LEMMA StepSharedInv ==
  ASSUME SharedInv, [Next]_vars PROVE SharedInv'
BY StepIInv, ResultKept, CacheKept DEF SharedInv

LEMMA InitSharedInv ==
  ASSUME Init PROVE SharedInv
BY InitIInv DEF Init, SharedInv, CacheInv, ResultInv, Calls

-----------------------------------------------------------------------------
(* The promise of SharedConversion                                          *)

\* The conversion under way is the one the registry names, so its phase tells it.
LEMMA RunningNow ==
  ASSUME TypeOK, SingleFlight
  PROVE  /\ Running \in Requests \cup {None}
         /\ \A k \in Requests : Running = k <=> Underway(k)
BY NoneAssumption DEF TypeOK, SingleFlight, Running, Underway, Calls

LEMMA RunningNext ==
  ASSUME TypeOK', SingleFlight'
  PROVE  /\ Running' \in Requests \cup {None}
         /\ \A k \in Requests : Running' = k <=> Underway(k)'
BY NoneAssumption DEF TypeOK, SingleFlight, Running, Underway, Calls

\* A step after which the same call is under way.
LEMMA SameRunning ==
  ASSUME IInv, IInv', \A k \in Requests : Underway(k)' <=> Underway(k)
  PROVE  Running' = Running
<1>1. TypeOK /\ SingleFlight /\ TypeOK' /\ SingleFlight'
  BY DEF IInv
<1>2. QED
  BY <1>1, RunningNow, RunningNext, NoneAssumption

LEMMA Unshared ==
  ASSUME IInv, IInv', UNCHANGED <<phase, members, todo, hasResult>>
  PROVE  UNCHANGED <<Running, Group, Good, Bad>>
<1>1. \A k \in Requests : Underway(k)' <=> Underway(k)
  BY DEF Underway
<1>2. QED
  BY <1>1, SameRunning DEF Group, Good, Bad

\* A request on its way into a call is a consumer of none.
LEMMA AloneOutside ==
  ASSUME IInv, NEW r \in Requests, pc[r] \notin InCall
  PROVE  Shared!Alone(r)
BY Parts DEF Shared!Alone, Group, ConsumerInv, Calls

\* A thread of the request completes it.
LEMMA TellStep ==
  ASSUME IInv, IInv', NEW r \in Requests, outcome[r] = None,
         NEW what \in {"Cancelled", "Refused", "Result"},
         \/ what = "Cancelled" /\ r \in cancelled
         \/ what = "Refused" /\ Shared!Alone(r)
         \/ what = "Result" /\ Shared!Alone(r) /\ Good # {},
         outcome' = [outcome EXCEPT ![r] = what],
         UNCHANGED <<phase, members, todo, hasResult, cancelled>>
  PROVE  Shared!Next
<1>1. UNCHANGED <<Running, Group, Good, Bad>>
  BY Unshared
<1>2. Shared!Tell(r, what)
  BY <1>1 DEF Shared!Tell
<1>3. QED
  BY <1>2 DEF Shared!Next

LEMMA ArriveStep ==
  ASSUME SharedInv, IInv', NEW r \in Requests, Arrive(r) \/ LookInCache(r)
  PROVE  [Shared!Next]_(Shared!vars)
<1>0. IInv /\ TypeOK /\ RequestInv(r) /\ FinishInv(r) /\ CacheInv
  BY Parts DEF SharedInv
<1>1. outcome[r] = None /\ Shared!Alone(r)
  <2>1. pc[r] \in {"new", "cache"}
    BY DEF Arrive, LookInCache
  <2>2. QED
    BY <1>0, <2>1, AloneOutside DEF RequestInv, FinishInv, InCall
<1>2. UNCHANGED <<phase, members, todo, hasResult, cancelled>>
  BY DEF Arrive, LookInCache, callVars, workVars
<1>3. \/ UNCHANGED outcome
      \/ outcome' = [outcome EXCEPT ![r] = "Refused"]
      \/ r \in cancelled /\ outcome' = [outcome EXCEPT ![r] = "Cancelled"]
      \/ cached /\ outcome' = [outcome EXCEPT ![r] = "Result"]
  BY DEF Arrive, LookInCache, Answered, doneVars
<1>4. cached => Good # {}
  BY <1>0 DEF CacheInv, Good, Calls
<1>5. CASE UNCHANGED outcome
  BY <1>0, <1>2, <1>5, Unshared DEF Shared!vars
<1>6. QED
  BY <1>0, <1>1, <1>2, <1>3, <1>4, <1>5, TellStep

LEMMA ClaimStep ==
  ASSUME SharedInv, IInv', NEW r \in Requests,
         Join(r) \/ AttachTooLate(r) \/ Register(r) \/ CancelCallback(r)
  PROVE  [Shared!Next]_(Shared!vars)
<1>0. IInv /\ TypeOK /\ RequestInv(r) /\ FinishInv(r)
  BY Parts DEF SharedInv
<1>1. UNCHANGED <<phase, members, todo, hasResult, cancelled>>
  BY DEF Join, AttachTooLate, Register, CancelCallback, callVars, workVars
<1>2. CASE UNCHANGED outcome
  BY <1>0, <1>1, <1>2, Unshared DEF Shared!vars
<1>3. CASE Join(r) \/ AttachTooLate(r)
  <2>1. Shared!Alone(r) /\ local[r] \in Calls
    <3>1. pc[r] \in {"join", "attach"}
      BY <1>3 DEF Join, AttachTooLate
    <3>2. QED
      BY <1>0, <3>1, AloneOutside DEF InCall, RequestInv, TypeOK
  <2>2. UNCHANGED outcome \/ (Claims(r, Requester, "Result") /\ Good # {})
    BY <1>3, <2>1, ClaimCases DEF Join, AttachTooLate, doneVars, Ready, Good
  <2>3. ASSUME Claims(r, Requester, "Result"), Good # {} PROVE Shared!Next
    <3>1. outcome[r] = None
      BY <1>0, <2>3 DEF Claims, FinishInv
    <3>2. \E what \in {"Cancelled", "Result"} :
            /\ outcome' = [outcome EXCEPT ![r] = what]
            /\ what = "Cancelled" => r \in cancelled
      BY <2>3 DEF Claims
    <3>3. QED
      BY <1>0, <1>1, <2>1, <2>3, <3>1, <3>2, TellStep
  <2>4. QED
    BY <1>2, <2>2, <2>3
<1>4. CASE Register(r) \/ CancelCallback(r)
  <2>1. UNCHANGED outcome \/ (Claims(r, Requester, "Cancelled") /\ r \in cancelled)
    BY <1>4, ClaimCases DEF Register, CancelCallback, doneVars
  <2>2. ASSUME Claims(r, Requester, "Cancelled"), r \in cancelled PROVE Shared!Next
    <3>1. outcome[r] = None /\ outcome' = [outcome EXCEPT ![r] = "Cancelled"]
      BY <1>0, <2>2 DEF Claims, FinishInv
    <3>2. QED
      BY <1>0, <1>1, <2>2, <3>1, TellStep
  <2>3. QED
    BY <1>2, <2>1, <2>2
<1>5. QED
  BY <1>3, <1>4

\* The first to come begins, unless a call is registered.
LEMMA LookupStep ==
  ASSUME SharedInv, IInv', NEW r \in Requests, Lookup(r)
  PROVE  [Shared!Next]_(Shared!vars)
<1>0. /\ TypeOK /\ SingleFlight /\ RequestInv(r) /\ FinishInv(r) /\ CallInv(r) /\ ResultInv(r)
      /\ None \notin Requests /\ TypeOK' /\ SingleFlight' /\ IInv
  BY Parts, NoneAssumption DEF IInv, SharedInv
<1>1. UNCHANGED <<todo, hasResult, outcome, cancelled>>
  BY DEF Lookup, workVars, doneVars
<1>2. CASE registry # None
  <2>1. UNCHANGED <<phase, members>>
    BY <1>2 DEF Lookup
  <2>2. QED
    BY <1>0, <1>1, <2>1, Unshared DEF Shared!vars
<1>3. CASE registry = None
  <2>1. /\ phase' = [phase EXCEPT ![r] = "Accepting"]
        /\ members' = [members EXCEPT ![r] = {r}]
    BY <1>3 DEF Lookup
  <2>2. pc[r] = "lookup" /\ phase[r] = "none" /\ work[r] = "none"
    BY <1>0 DEF Lookup, CallInv, InCall
  <2>3. Running = None /\ Running' = r
    <3>1. Underway(r)'
      BY <1>0, <2>1 DEF Underway, TypeOK, Calls
    <3>2. QED
      BY <1>0, <1>3, <3>1, RunningNext DEF Running
  <2>4. todo[r] = {} /\ members[r] = {}
    BY <1>0, <2>2 DEF CallInv, Published
  <2>5. Group[r] = {} /\ Group' = [Group EXCEPT ![r] = {r}]
    <3>1. \A k \in Requests : members'[k] = IF k = r THEN {r} ELSE members[k]
      BY <1>0, <2>1 DEF TypeOK, Calls
    <3>2. QED
      BY <1>1, <2>4, <3>1 DEF Group, Calls
  <2>6. Good' = Good /\ Bad' = Bad
    BY <1>0, <1>1, <2>1, <2>2 DEF Good, Bad, TypeOK, Calls
  <2>7. r \notin Good \cup Bad
    BY <1>0, <2>2 DEF Good, Bad, ResultInv
  <2>8. outcome[r] = None /\ Shared!Alone(r)
    BY <1>0, <2>2, AloneOutside DEF RequestInv, FinishInv, InCall
  <2>9. Shared!Begin(r)
    BY <1>1, <2>3, <2>5, <2>6, <2>7, <2>8 DEF Shared!Begin
  <2>10. QED
    BY <2>9 DEF Shared!Next
<1>4. QED
  BY <1>2, <1>3

\* A follower that is still in time joins the conversion under way.
LEMMA AttachStep ==
  ASSUME SharedInv, IInv', NEW r \in Requests, AttachMember(r)
  PROVE  Shared!Next
<1> DEFINE k == local[r]
<1>0. TypeOK /\ SingleFlight /\ RequestInv(r) /\ FinishInv(r) /\ None \notin Requests /\ IInv
  BY Parts, NoneAssumption DEF SharedInv
<1>1. k \in Requests /\ pc[r] = "attach" /\ phase[k] = "Accepting"
  BY <1>0 DEF AttachMember, RequestInv, TypeOK, Calls
<1>2. /\ members' = [members EXCEPT ![k] = @ \cup {r}]
      /\ UNCHANGED <<phase, todo, hasResult, outcome, cancelled>>
  BY DEF AttachMember, workVars, doneVars
<1>3. Running = k /\ Running' = Running
  BY <1>0, <1>1, <1>2, RunningNow, SameRunning DEF Underway
<1>4. Group' = [Group EXCEPT ![k] = @ \cup {r}]
  <2>1. \A c \in Requests : members'[c] = IF c = k THEN members[k] \cup {r} ELSE members[c]
    BY <1>0, <1>1, <1>2 DEF TypeOK, Calls
  <2>2. \A c \in Requests : members'[c] \cup todo'[c] =
                             IF c = k THEN (members[k] \cup todo[k]) \cup {r}
                             ELSE members[c] \cup todo[c]
    BY <1>2, <2>1
  <2>3. Group' = [c \in Requests |-> IF c = k THEN Group[k] \cup {r} ELSE Group[c]]
    BY <1>1, <2>2 DEF Group, Calls
  <2>4. QED
    BY <1>1, <2>3 DEF Group, Calls
<1>5. Good' = Good /\ Bad' = Bad
  BY <1>2 DEF Good, Bad
<1>6. Shared!Alone(r) /\ outcome[r] = None
  BY <1>0, <1>1, AloneOutside DEF AttachMember, InCall, FinishInv
<1>7. k \notin Good
  BY <1>1 DEF SharedInv, ResultInv, Good
<1>8. Shared!Follow(r, k)
  BY <1>2, <1>3, <1>4, <1>5, <1>6, <1>7 DEF Shared!Follow
<1>9. QED
  BY <1>1, <1>8 DEF Shared!Next

\* A request that was answered leaves; the last one to leave abandons the call.
LEMMA DetachStep ==
  ASSUME SharedInv, IInv', NEW r \in Requests, Detach(r)
  PROVE  [Shared!Next]_(Shared!vars)
<1> DEFINE k == local[r]
<1>0. /\ TypeOK /\ SingleFlight /\ WorkIsWanted /\ RequestInv(r) /\ FinishInv(r) /\ IInv
      /\ None \notin Requests /\ TypeOK' /\ SingleFlight'
      /\ \A c \in Requests : CallInv(c) /\ ConsumerInv(c)
  BY Parts, NoneAssumption DEF SharedInv, IInv
<1>1. k \in Requests /\ outcome[r] # None
  BY <1>0 DEF Detach, RequestInv, FinishInv, TypeOK, Calls
<1>2. /\ members' = [members EXCEPT ![k] = @ \ {r}]
      /\ phase' = IF LastOne(r) THEN [phase EXCEPT ![k] = "Abandoned"] ELSE phase
      /\ UNCHANGED <<todo, hasResult, outcome, cancelled>>
  BY DEF Detach, workVars
<1>3. \A c \in Requests : members'[c] = IF c = k THEN members[k] \ {r} ELSE members[c]
  BY <1>0, <1>1, <1>2 DEF TypeOK, Calls
<1>4. Good' = Good /\ Bad' = Bad
  <2>1. \A c \in Requests : phase'[c] = "Done" <=> phase[c] = "Done"
    BY <1>0, <1>1, <1>2 DEF LastOne, TypeOK, Calls
  <2>2. QED
    BY <1>2, <2>1 DEF Good, Bad, Calls
<1>5. CASE LastOne(r)
  <2>1. phase[k] = "Accepting" /\ members[k] = {r} /\ todo[k] = {} /\ k \notin Good
    <3>1. phase[k] = "Accepting" /\ members[k] \subseteq {r} /\ members[k] # {}
      BY <1>0, <1>1, <1>5 DEF LastOne, WorkIsWanted, Calls
    <3>2. todo[k] = {} /\ ~hasResult[k]
      BY <1>0, <1>1, <3>1 DEF CallInv, Published, SharedInv, ResultInv
    <3>3. QED
      BY <3>1, <3>2 DEF Good
  <2>2. Running = k
    BY <1>0, <1>1, <2>1, RunningNow DEF Underway
  <2>3. Running' = None
    <3>1. \A c \in Requests : ~Underway(c)'
      <4>1. \A c \in Requests : phase'[c] = IF c = k THEN "Abandoned" ELSE phase[c]
        BY <1>0, <1>1, <1>2, <1>5 DEF TypeOK, Calls
      <4>2. \A c \in Requests : Underway(c) => c = k
        BY <1>0, <2>2, RunningNow
      <4>3. QED
        BY <4>1, <4>2 DEF Underway
    <3>2. QED
      BY <1>0, <3>1, RunningNext
  <2>4. Group[k] = {r} /\ Group' = [Group EXCEPT ![k] = @ \ {r}]
    <3>1. Group[k] = {r}
      BY <1>1, <2>1 DEF Group, Calls
    <3>2. \A c \in Requests : members'[c] \cup todo'[c] =
                               IF c = k THEN {r} \ {r} ELSE members[c] \cup todo[c]
      BY <1>2, <1>3, <2>1
    <3>3. Group' = [c \in Requests |-> IF c = k THEN Group[k] \ {r} ELSE Group[c]]
      <4>1. Group' = [c \in Requests |-> members'[c] \cup todo'[c]]
        BY Zenon DEF Group, Calls
      <4>2. \A c \in Requests : members'[c] \cup todo'[c] = IF c = k THEN Group[k] \ {r} ELSE Group[c]
        BY <3>1, <3>2 DEF Group, Calls
      <4>3. QED
        BY <4>1, <4>2, Zenon
    <3>4. QED
      BY <1>1, <3>1, <3>3 DEF Group, Calls
  <2>5. Shared!Leave(r, k)
    BY <1>1, <1>2, <1>4, <2>1, <2>2, <2>3, <2>4 DEF Shared!Leave
  <2>6. QED
    BY <1>1, <2>5 DEF Shared!Next
<1>6. CASE ~LastOne(r) /\ r \in members[k]
  <2>1. phase' = phase
    BY <1>2, <1>6
  <2>2. Running' = Running
    BY <1>0, <2>1, SameRunning DEF Underway
  <2>3. todo[k] = {}
    BY <1>0, <1>1, <1>6 DEF CallInv
  <2>4. Group[k] = members[k] /\ Group' = [Group EXCEPT ![k] = @ \ {r}]
    <3>1. Group[k] = members[k]
      BY <1>1, <2>3 DEF Group, Calls
    <3>2. \A c \in Requests : members'[c] \cup todo'[c] = IF c = k THEN Group[k] \ {r} ELSE Group[c]
      BY <1>1, <1>2, <1>3, <2>3, <3>1 DEF Group, Calls
    <3>3. Group' = [c \in Requests |-> members'[c] \cup todo'[c]]
      BY Zenon DEF Group, Calls
    <3>4. Group' = [c \in Requests |-> IF c = k THEN Group[k] \ {r} ELSE Group[c]]
      BY <3>2, <3>3, Zenon
    <3>5. QED
      BY <1>1, <3>1, <3>4 DEF Group, Calls
  <2>5. Running = k /\ Group[k] = {r} => k \in Good
    <3>1. Running = k => phase[k] \in {"Accepting", "Publishing"}
      BY <1>0, <1>1, RunningNow DEF Underway
    <3>2. members[k] = {r} => phase[k] # "Accepting"
      BY <1>6 DEF LastOne
    <3>3. phase[k] = "Publishing" => k \in Good
      BY <1>0, <1>1 DEF CallInv, Good, Calls
    <3>4. QED
      BY <2>4, <3>1, <3>2, <3>3
  <2>6. Shared!Leave(r, k)
    BY <1>1, <1>2, <1>4, <1>6, <2>2, <2>4, <2>5 DEF Shared!Leave
  <2>7. QED
    BY <1>1, <2>6 DEF Shared!Next
<1>7. CASE ~LastOne(r) /\ r \notin members[k]
  <2>1. UNCHANGED <<phase, members>>
    BY <1>0, <1>1, <1>2, <1>7 DEF TypeOK, Calls
  <2>2. QED
    BY <1>0, <1>2, <2>1, Unshared DEF Shared!vars
<1>8. QED
  BY <1>5, <1>6, <1>7

\* A result is offered while somebody waits for it.
LEMMA PublishStep ==
  ASSUME SharedInv, IInv', NEW k \in Requests, PublishResult(k)
  PROVE  [Shared!Next]_(Shared!vars)
<1>0. /\ TypeOK /\ SingleFlight /\ WorkIsWanted /\ CallInv(k) /\ ResultInv(k) /\ IInv
      /\ None \notin Requests /\ TypeOK' /\ SingleFlight'
  BY Parts, NoneAssumption DEF SharedInv, IInv
<1>1. UNCHANGED <<members, todo, outcome, cancelled>> /\ phase[k] \in {"Accepting", "Abandoned"}
  BY <1>0 DEF PublishResult, doneVars, CallInv, Published, TypeOK, Calls
<1>2. CASE phase[k] = "Abandoned"
  <2>1. UNCHANGED <<phase, hasResult>>
    BY <1>0, <1>2 DEF PublishResult, TypeOK, Calls
  <2>2. QED
    BY <1>0, <1>1, <2>1, Unshared DEF Shared!vars
<1>3. CASE phase[k] = "Accepting"
  <2>1. members[k] # {} /\ ~hasResult[k]
    BY <1>0, <1>3 DEF WorkIsWanted, ResultInv, Calls
  <2>2. /\ phase' = [phase EXCEPT ![k] = "Publishing"]
        /\ hasResult' = [hasResult EXCEPT ![k] = TRUE]
    BY <1>3, <2>1 DEF PublishResult
  <2>3. Running = k /\ Running' = Running
    <3>1. \A c \in Requests : Underway(c)' <=> Underway(c)
      BY <1>0, <1>3, <2>2 DEF Underway, TypeOK, Calls
    <3>2. QED
      BY <1>0, <1>3, <3>1, RunningNow, SameRunning DEF Underway
  <2>4. Group' = Group /\ Group[k] # {}
    BY <1>1, <2>1 DEF Group, Calls
  <2>5. k \notin Good /\ Good' = Good \cup {k} /\ Bad' = Bad
    BY <1>0, <1>3, <2>1, <2>2 DEF Good, Bad, TypeOK, Calls
  <2>6. Shared!Succeed(k)
    BY <1>1, <2>3, <2>4, <2>5 DEF Shared!Succeed
  <2>7. QED
    BY <2>6 DEF Shared!Next
<1>4. QED
  BY <1>1, <1>2, <1>3

\* The consumers are taken: the conversion is over.
LEMMA TakeStep ==
  ASSUME SharedInv, IInv', NEW k \in Requests, TakeMembers(k)
  PROVE  [Shared!Next]_(Shared!vars)
<1>0. /\ TypeOK /\ SingleFlight /\ CallInv(k) /\ ResultInv(k) /\ IInv
      /\ None \notin Requests /\ TypeOK' /\ SingleFlight'
  BY Parts, NoneAssumption DEF SharedInv, IInv
<1>1. /\ UNCHANGED <<hasResult, outcome, cancelled>> /\ todo[k] = {}
      /\ phase[k] \in {"Accepting", "Publishing", "Abandoned"}
  BY <1>0 DEF TakeMembers, doneVars, CallInv, Published, TypeOK, Calls
<1>2. Group' = Group
  <2>1. \A c \in Requests : members'[c] \cup todo'[c] = members[c] \cup todo[c]
    BY <1>0, <1>1 DEF TakeMembers, TypeOK, Calls
  <2>2. QED
    BY <2>1 DEF Group, Calls
<1>3. CASE phase[k] = "Abandoned"
  <2>1. phase' = phase
    BY <1>3 DEF TakeMembers
  <2>2. Running' = Running /\ Good' = Good /\ Bad' = Bad
    BY <1>0, <1>1, <2>1, SameRunning DEF Underway, Good, Bad
  <2>3. QED
    BY <1>1, <1>2, <2>2 DEF Shared!vars
<1>4. CASE phase[k] # "Abandoned"
  <2>1. phase' = [phase EXCEPT ![k] = "Done"]
    BY <1>4 DEF TakeMembers
  <2>2. Running = k /\ Underway(k)
    BY <1>0, <1>1, <1>4, RunningNow DEF Underway
  <2>3. Running' = None
    <3>1. \A c \in Requests : Underway(c) => c = k
      BY <1>0, <2>2, RunningNow
    <3>2. \A c \in Requests : ~Underway(c)'
      BY <1>0, <2>1, <3>1 DEF Underway, TypeOK, Calls
    <3>3. QED
      BY <1>0, <3>2, RunningNext
  <2>4. Good' = Good
    BY <1>1 DEF Good
  <2>5. Bad' = IF k \in Good THEN Bad ELSE Bad \cup {k}
    <3>1. k \in Good <=> hasResult[k]
      BY DEF Good, Calls
    <3>2. \A c \in Requests : phase'[c] = IF c = k THEN "Done" ELSE phase[c]
      BY <1>0, <2>1 DEF TypeOK, Calls
    <3>3. phase[k] # "Done"
      BY <1>1
    <3>4. QED
      BY <1>1, <3>1, <3>2, <3>3 DEF Bad, Calls
  <2>6. Shared!Finish(k)
    BY <1>1, <1>2, <2>2, <2>3, <2>4, <2>5 DEF Shared!Finish
  <2>7. QED
    BY <2>6 DEF Shared!Next
<1>5. QED
  BY <1>3, <1>4

\* Those who stayed are answered; one that was answered meanwhile is passed over.
LEMMA AnswerStep ==
  ASSUME SharedInv, IInv', NEW k \in Requests, AnswerMember(k)
  PROVE  [Shared!Next]_(Shared!vars)
<1>0. /\ TypeOK /\ SingleFlight /\ CallInv(k) /\ ResultInv(k) /\ IInv
      /\ None \notin Requests
      /\ \A r \in Requests : FinishInv(r)
  BY Parts, NoneAssumption DEF SharedInv
<1>1. PICK r \in todo[k] : /\ Claim(r, k, IF ok[k] THEN "Result" ELSE "Failed")
                           /\ todo' = [todo EXCEPT ![k] = @ \ {r}]
  BY DEF AnswerMember
<1>2. r \in Requests /\ work[k] = "answer" /\ UNCHANGED <<phase, members, hasResult, cancelled>>
  BY <1>0, <1>1 DEF AnswerMember, TypeOK, Calls, callVars
<1>3. phase[k] = "Done" /\ members[k] = {}
  BY <1>0, <1>1, <1>2 DEF CallInv, Published
<1>4. Running' = Running /\ Running # k /\ Good' = Good /\ Bad' = Bad
  <2>1. Running' = Running
    BY <1>0, <1>2, SameRunning DEF Underway
  <2>2. Running # k
    BY <1>0, <1>3, RunningNow DEF Underway
  <2>3. QED
    BY <1>2, <2>1, <2>2 DEF Good, Bad
<1>5. r \in Group[k] /\ Group' = [Group EXCEPT ![k] = @ \ {r}]
  <2>1. \A c \in Requests : todo'[c] = IF c = k THEN todo[k] \ {r} ELSE todo[c]
    BY <1>0, <1>1 DEF TypeOK, Calls
  <2>2. QED
    BY <1>1, <1>2, <1>3, <2>1 DEF Group, Calls
<1>6. (k \in Good <=> ok[k]) /\ k \in Good \cup Bad
  BY <1>0, <1>3 DEF Good, Bad, ResultInv, Calls
<1>7. CASE UNCHANGED outcome /\ by[r] # None
  <2>1. outcome[r] # None
    BY <1>0, <1>2, <1>7 DEF FinishInv
  <2>2. Shared!Leave(r, k)
    BY <1>2, <1>4, <1>5, <1>7, <2>1 DEF Shared!Leave
  <2>3. QED
    BY <1>2, <2>2 DEF Shared!Next
<1>8. CASE Claims(r, k, IF ok[k] THEN "Result" ELSE "Failed")
  <2>1. outcome[r] = None
    BY <1>0, <1>2, <1>8 DEF Claims, FinishInv
  <2>2. outcome' = [outcome EXCEPT ![r] = IF r \in cancelled THEN "Cancelled"
                                          ELSE IF k \in Good THEN "Result" ELSE "Failed"]
    BY <1>6, <1>8 DEF Claims
  <2>3. Shared!Serve(r, k)
    BY <1>2, <1>4, <1>5, <1>6, <2>1, <2>2 DEF Shared!Serve
  <2>4. QED
    BY <1>2, <2>3 DEF Shared!Next
<1>9. QED
  BY <1>1, <1>7, <1>8 DEF Claim, Claims, doneVars

\* The steps that neither the requests nor the conversion notice.
Unnoticed == UNCHANGED <<phase, members, todo, hasResult, outcome, cancelled>>

LEMMA UnnoticedSteps ==
  ASSUME NEW r \in Requests
  PROVE  /\ LeaveAnswered(r) \/ Retry(r) \/ Reclaim(r) \/ Submit(r) => Unnoticed
         /\ Uncount(r) \/ CancelWork(r) \/ EraseAbandoned(r) \/ ReleaseAbandoned(r)
            \/ CallCompletion(r) => Unnoticed
         /\ Convert(r) \/ StoreResult(r) \/ EraseDone(r) \/ ReleaseDone(r) => Unnoticed
         /\ Expire \/ UNCHANGED vars => Unnoticed
<1> USE DEF Unnoticed, callVars, workVars, doneVars
<1>1. LeaveAnswered(r) \/ Retry(r) \/ Reclaim(r) \/ Submit(r) => Unnoticed
  BY DEF LeaveAnswered, Retry, Reclaim, Submit
<1>2. Uncount(r) \/ CancelWork(r) \/ EraseAbandoned(r) \/ ReleaseAbandoned(r)
      \/ CallCompletion(r) => Unnoticed
  BY DEF Uncount, CancelWork, EraseAbandoned, ReleaseAbandoned, CallCompletion
<1>3. Convert(r) \/ StoreResult(r) \/ EraseDone(r) \/ ReleaseDone(r) => Unnoticed
  BY DEF Convert, StoreResult, EraseDone, ReleaseDone
<1>4. Expire \/ UNCHANGED vars => Unnoticed
  BY DEF Expire, vars
<1>5. QED
  BY <1>1, <1>2, <1>3, <1>4

LEMMA CancelStep ==
  ASSUME IInv, IInv', NEW r \in Requests, Cancel(r)
  PROVE  Shared!Next
<1>1. UNCHANGED <<phase, members, todo, hasResult, outcome>> /\ cancelled' = cancelled \cup {r}
  BY DEF Cancel, callVars, workVars, doneVars
<1>2. Shared!Cancel(r)
  BY <1>1, Unshared DEF Shared!Cancel
<1>3. QED
  BY <1>2 DEF Shared!Next

LEMMA SharedStep ==
  ASSUME SharedInv, SharedInv', [Next]_vars
  PROVE  [Shared!Next]_(Shared!vars)
<1>0. IInv /\ IInv'
  BY DEF SharedInv
<1>1. Unnoticed => UNCHANGED Shared!vars
  BY <1>0, Unshared DEF Unnoticed, Shared!vars
<1>2. ASSUME NEW r \in Requests, Arrive(r) \/ RequestStep(r)
      PROVE  [Shared!Next]_(Shared!vars)
  BY <1>0, <1>1, <1>2, ArriveStep, ClaimStep, LookupStep, AttachStep, UnnoticedSteps
     DEF RequestStep
<1>3. ASSUME NEW r \in Requests, CompletionStep(r) \/ Cancel(r) \/ CancelCallback(r)
      PROVE  [Shared!Next]_(Shared!vars)
  BY <1>0, <1>1, <1>3, DetachStep, CancelStep, ClaimStep, UnnoticedSteps DEF CompletionStep
<1>4. ASSUME NEW k \in Requests, OwnerStep(k)
      PROVE  [Shared!Next]_(Shared!vars)
  BY <1>0, <1>1, <1>4, PublishStep, TakeStep, AnswerStep, UnnoticedSteps DEF OwnerStep
<1>5. Expire \/ UNCHANGED vars => Unnoticed
  BY DEF Unnoticed, Expire, vars, callVars, workVars, doneVars
<1>6. QED
  BY <1>1, <1>2, <1>3, <1>4, <1>5 DEF Next, Calls

LEMMA SharedInit ==
  ASSUME Init PROVE Shared!Init
<1>1. Running = None /\ Good = {} /\ Bad = {}
  BY DEF Init, Running, Good, Bad, Calls
<1>2. Group = [k \in Requests |-> {}]
  BY DEF Init, Group, Calls
<1>3. QED
  BY <1>1, <1>2 DEF Init, Shared!Init

\* Of any number of equal requests, each completion is claimed once and moves on from
\* there, a consumer belongs to the call it last found, and only a call that was
\* abandoned is cancelled (AsyncSubRequestConsumer, detachAsyncSubRequestConsumer).
THEOREM SingleflightInvariant == Spec => []SingleInv
<1>1. IInv => SingleInv
  BY SingleFollows
<1>2. Init => IInv
  BY InitIInv
<1>3. IInv /\ [Next]_vars => IInv'
  BY StepIInv
<1>4. QED
  BY <1>1, <1>2, <1>3, PTL DEF Spec

\* A conversion whose result can still be had is the one g_async_sub_inflight hands
\* out, so equal requests that overlap never run two: nothing erases the key of a
\* call in flight, however late a detach, a retry or a publication gets to it.
THEOREM OneConversionAtATime == Spec => []SingleFlight
<1>1. IInv => SingleFlight
  BY Parts
<1>2. Init => IInv
  BY InitIInv
<1>3. IInv /\ [Next]_vars => IInv'
  BY StepIInv
<1>4. QED
  BY <1>1, <1>2, <1>3, PTL DEF Spec

\* A conversion is cancelled only when nobody is left to answer from it, and while it
\* accepts followers it has a consumer, whoever of them leaves first.
THEOREM ConversionIsWanted == Spec => []WorkIsWanted
<1>1. IInv => WorkIsWanted
  BY Parts
<1>2. Init => IInv
  BY InitIInv
<1>3. IInv /\ [Next]_vars => IInv'
  BY StepIInv
<1>4. QED
  BY <1>1, <1>2, <1>3, PTL DEF Spec

\* A request is told that its conversion failed only if that conversion ran to its
\* end: the cancellation of another consumer, the owner included, is not passed on.
THEOREM CancellationStaysPrivate == Spec => []CancellationIsPrivate
<1>1. IInv => CancellationIsPrivate
  BY Parts
<1>2. Init => IInv
  BY InitIInv
<1>3. IInv /\ [Next]_vars => IInv'
  BY StepIInv
<1>4. QED
  BY <1>1, <1>2, <1>3, PTL DEF Spec

\* A request that convertSubscriptionAsync has returned from without answering it is a
\* consumer its call still holds or has taken to answer, wherever attaching met the
\* publication.
THEOREM NobodyIsForgotten == Spec => []NobodyForgotten
<1>1. IInv => NobodyForgotten
  BY Parts
<1>2. Init => IInv
  BY InitIInv
<1>3. IInv /\ [Next]_vars => IInv'
  BY StepIInv
<1>4. QED
  BY <1>1, <1>2, <1>3, PTL DEF Spec

\* A request that is being answered is among no call's consumers and is not counted as
\* a follower, even if its cancellation met its attaching.
THEOREM AnsweredRequestHasLeft == Spec => []AnsweredHasLeft
<1>1. IInv => AnsweredHasLeft
  BY Parts
<1>2. Init => IInv
  BY InitIInv
<1>3. IInv /\ [Next]_vars => IInv'
  BY StepIInv
<1>4. QED
  BY <1>1, <1>2, <1>3, PTL DEF Spec

\* g_async_sub_inflight_active and g_async_sub_inflight_waiting count the calls not
\* released and the followers not uncounted, whichever of two threads releases a call.
THEOREM GaugesAreExact == Spec => []GaugesExact
<1>1. IInv => GaugesExact
  BY Parts
<1>2. Init => IInv
  BY InitIInv
<1>3. IInv /\ [Next]_vars => IInv'
  BY StepIInv
<1>4. QED
  BY <1>1, <1>2, <1>3, PTL DEF Spec

\* Any number of equal requests get what SharedConversion promises, whichever thread
\* completes them and wherever a retry, a detachment or a cancellation meets the
\* publication: one conversion at a time, given up by its last consumer only, whose
\* result or failure reaches exactly those who stayed, each told once.
THEOREM SingleflightImplementsSharing == Spec => ImplementsSharedConversion
<1>1. Init => SharedInv
  BY InitSharedInv
<1>2. SharedInv /\ [Next]_vars => SharedInv'
  BY StepSharedInv
<1>3. SharedInv /\ SharedInv' /\ [Next]_vars => [Shared!Next]_(Shared!vars)
  BY SharedStep
<1>4. Init => Shared!Init
  BY SharedInit
<1>5. QED
  BY <1>1, <1>2, <1>3, <1>4, PTL DEF Spec, ImplementsSharedConversion, Shared!Spec
=============================================================================
