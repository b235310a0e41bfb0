------------------------- MODULE CacheFetch_proofs -------------------------
(***************************************************************************)
(* FetchInv is inductive: one fetch of a key at a time and exact counting  *)
(* of the consumers, for any number of callers and operations.  ReturnInv  *)
(* adds to it where attachments and callbacks are left, and what the calls *)
(* that have returned wait for; SharedInv what the calls are told and that *)
(* what is worked on is wanted, which makes the steps those of SharedFetch. *)
(***************************************************************************)
EXTENDS CacheFetch, FiniteSetTheorems, TLAPS

LEMMA InitFetchInv == Init => FetchInv
<1> SUFFICES ASSUME Init PROVE FetchInv
  OBVIOUS
<1> USE OpsAssumption
<1>1. TypeOK
  BY DEF Init, TypeOK, Ops
<1>2. SingleFlight
  BY DEF Init, SingleFlight, Ops
<1>3. ConsumersCounted
  <2>1. \A o \in Ops : Attached(o) = {}
    BY DEF Init, Attached
  <2>2. QED
    BY <2>1, FS_EmptySet DEF Init, ConsumersCounted
<1>4. OpInv /\ CallInv /\ FinishInv
  BY DEF Init, OpInv, CallInv, FinishInv
<1>5. QED
  BY <1>1, <1>2, <1>3, <1>4 DEF FetchInv

-----------------------------------------------------------------------------
(* Counting the attachments *)

LEMMA AttachedFinite == \A o : IsFiniteSet(Attached(o)) /\ Cardinality(Attached(o)) \in Nat
<1>1. \A o : Attached(o) \subseteq Consumers
  BY DEF Attached
<1>2. QED
  BY <1>1, ConsumerAssumption, FS_Subset, FS_CardinalityType

\* 1..made is within the bound.
LEMMA MadeOps == FetchInv => 1..made \subseteq Ops
  BY OpsAssumption DEF FetchInv, TypeOK, Ops

LEMMA HolderHasOp ==
  ASSUME FetchInv, NEW c \in Consumers, holds[c]
  PROVE  local[c] \in Ops
<1>1. local[c] \in 1..made
  BY Zenon DEF FetchInv, CallInv
<1>2. QED
  BY <1>1, MadeOps

\* Nothing that is counted changes.
LEMMA CountsUnchanged ==
  ASSUME FetchInv, UNCHANGED <<count, holds, local>>,
         \A o \in Ops : abandoned'[o] = abandoned[o],
         \A o \in Ops : token'[o] => abandoned[o]
  PROVE  ConsumersCounted'
<1>1. \A o \in Ops : Attached(o)' = Attached(o)
  BY DEF Attached
<1>2. QED
  BY <1>1 DEF FetchInv, ConsumersCounted

\* A call that holds no attachment may look up another operation.
LEMMA CountsFound ==
  ASSUME FetchInv, NEW c \in Consumers, ~holds[c], NEW o \in Ops,
         local' = [local EXCEPT ![c] = o], UNCHANGED <<count, holds, abandoned, token>>
  PROVE  ConsumersCounted'
<1>1. \A d \in Consumers \ {c} : local'[d] = local[d]
  BY DEF FetchInv, TypeOK
<1>2. \A p \in Ops : Attached(p)' = Attached(p)
  BY <1>1 DEF Attached
<1>3. QED
  BY <1>2 DEF FetchInv, ConsumersCounted

LEMMA CountsAttached ==
  ASSUME FetchInv, NEW c \in Consumers, ~holds[c], local[c] \in Ops,
         ~abandoned[local[c]],
         count' = [count EXCEPT ![local[c]] = @ + 1],
         holds' = [holds EXCEPT ![c] = TRUE],
         UNCHANGED <<local, abandoned, token>>
  PROVE  ConsumersCounted'
<1> DEFINE p == local[c]
<1>1. \A d \in Consumers : holds'[d] <=> (d = c \/ holds[d])
  BY DEF FetchInv, TypeOK
<1>2. Attached(p)' = Attached(p) \cup {c} /\ c \notin Attached(p)
  BY <1>1 DEF Attached
<1>3. \A o \in Ops \ {p} : Attached(o)' = Attached(o)
  BY <1>1 DEF Attached
<1>4. /\ count'[p] = count[p] + 1
      /\ \A o \in Ops \ {p} : count'[o] = count[o]
  BY DEF FetchInv, TypeOK
<1>5. Cardinality(Attached(p)') = Cardinality(Attached(p)) + 1
  BY <1>2, AttachedFinite, FS_AddElement
<1>6. \A o \in Ops : count'[o] = Cardinality(Attached(o)')
  BY <1>3, <1>4, <1>5 DEF FetchInv, ConsumersCounted
<1>7. \A o \in Ops : /\ token'[o] => abandoned'[o]
                     /\ abandoned'[o] => count'[o] = 0
  BY <1>4 DEF FetchInv, ConsumersCounted
<1>8. QED
  BY <1>6, <1>7 DEF ConsumersCounted

LEMMA CountsReleased ==
  ASSUME FetchInv, NEW c \in Consumers, holds[c], ReleaseConsumer(c), UNCHANGED <<local, token>>
  PROVE  /\ ConsumersCounted'
         /\ count' \in [Ops -> Int]
         /\ abandoned' \in [Ops -> BOOLEAN]
         /\ holds' \in [Consumers -> BOOLEAN]
         /\ local[c] \in Ops
         /\ \A o \in Ops : abandoned[o] => abandoned'[o]
         /\ LastOne(local[c]) => abandoned'[local[c]]
         /\ \A d \in Consumers : holds'[d] <=> (d # c /\ holds[d])
<1> DEFINE p == local[c]
<1>0. p \in Ops
  BY HolderHasOp
<1>1. \A d \in Consumers : holds'[d] <=> (d # c /\ holds[d])
  BY DEF FetchInv, TypeOK, ReleaseConsumer
<1>2. Attached(p)' = Attached(p) \ {c} /\ c \in Attached(p)
  BY <1>1 DEF Attached
<1>3. \A o \in Ops \ {p} : Attached(o)' = Attached(o)
  BY <1>1 DEF Attached
<1>4. /\ count' \in [Ops -> Int]
      /\ count'[p] = count[p] - 1
      /\ \A o \in Ops \ {p} : count'[o] = count[o]
  BY <1>0 DEF FetchInv, TypeOK, ReleaseConsumer
<1>5. Cardinality(Attached(p)') = Cardinality(Attached(p)) - 1
  BY <1>2, AttachedFinite, FS_RemoveElement
<1>6. \A o \in Ops : count'[o] = Cardinality(Attached(o)')
  BY <1>3, <1>4, <1>5 DEF FetchInv, ConsumersCounted
<1>7. /\ abandoned' \in [Ops -> BOOLEAN]
      /\ abandoned'[p] = (abandoned[p] \/ LastOne(p))
      /\ \A o \in Ops \ {p} : abandoned'[o] = abandoned[o]
  BY <1>0, Zenon DEF FetchInv, TypeOK, ReleaseConsumer
<1>8. count[p] # 0
  <2>1. Cardinality(Attached(p)) # 0
    BY <1>2, AttachedFinite, FS_EmptySet
  <2>2. QED
    BY <1>0, <2>1 DEF FetchInv, ConsumersCounted
<1>9. ~abandoned[p]
  BY <1>0, <1>8 DEF FetchInv, ConsumersCounted
<1>10. abandoned'[p] => count'[p] = 0
  BY <1>0, <1>4, <1>7, <1>9 DEF LastOne, FetchInv, TypeOK
<1>11. \A o \in Ops : /\ token'[o] => abandoned'[o]
                      /\ abandoned'[o] => count'[o] = 0
  BY <1>4, <1>7, <1>9, <1>10 DEF FetchInv, ConsumersCounted
<1>12. holds' \in [Consumers -> BOOLEAN]
  BY DEF FetchInv, TypeOK, ReleaseConsumer
<1>13. QED
  BY <1>0, <1>1, <1>4, <1>6, <1>7, <1>11, <1>12 DEF ConsumersCounted

-----------------------------------------------------------------------------
(* What a step leaves alone *)

LEMMA FlightUnchanged ==
  ASSUME FetchInv, UNCHANGED <<registry, made>>,
         \A o \in Ops : done[o] => done'[o],
         \A o \in Ops : abandoned[o] => abandoned'[o]
  PROVE  SingleFlight'
BY DEF FetchInv, SingleFlight

LEMMA OpUnchanged ==
  ASSUME FetchInv, UNCHANGED <<registry, made, work>>,
         \A o \in Ops : done[o] => done'[o]
  PROVE  OpInv'
BY DEF FetchInv, OpInv

LEMMA CallUnchanged ==
  ASSUME FetchInv, UNCHANGED <<made, call, local, holds, bound>>,
         \A o \in Ops : abandoned[o] => abandoned'[o]
  PROVE  CallInv'
<1>1. \A c \in Consumers : call[c] \in {"forget", "cancelWork"} => abandoned'[local[c]]
  <2> SUFFICES ASSUME NEW c \in Consumers, call[c] \in {"forget", "cancelWork"}
               PROVE  abandoned'[local[c]]
    OBVIOUS
  <2>1. local[c] \in 1..made /\ abandoned[local[c]]
    BY DEF FetchInv, CallInv
  <2>2. QED
    BY <2>1, MadeOps
<1>2. QED
  BY <1>1, Zenon DEF FetchInv, CallInv

LEMMA FinishUnchanged ==
  ASSUME FetchInv, UNCHANGED <<made, fin, local, holds>>,
         \A c \in Consumers : bound[c] => bound'[c],
         \A o \in Ops : abandoned[o] => abandoned'[o]
  PROVE  FinishInv'
<1>1. \A c \in Consumers : fin[c] = "cancelWork" => abandoned'[local[c]]
  <2> SUFFICES ASSUME NEW c \in Consumers, fin[c] = "cancelWork"
               PROVE  abandoned'[local[c]]
    OBVIOUS
  <2>1. bound[c] /\ abandoned[local[c]]
    BY DEF FetchInv, FinishInv
  <2>2. local[c] \in 1..made
    BY <2>1, Zenon DEF FetchInv, CallInv
  <2>3. QED
    BY <2>1, <2>2, MadeOps
<1>2. QED
  BY <1>1, Zenon DEF FetchInv, FinishInv

LEMMA BoundHasOp ==
  ASSUME FetchInv, NEW c \in Consumers, bound[c]
  PROVE  local[c] \in Ops
<1>1. local[c] \in 1..made
  BY Zenon DEF FetchInv, CallInv
<1>2. QED
  BY <1>1, MadeOps

\* An attachment may be dropped by a call that is not giving up.
LEMMA ReleasedCalls ==
  ASSUME FetchInv, UNCHANGED <<made, call, local, bound>>,
         \A d \in Consumers : holds'[d] => holds[d],
         \A d \in Consumers : call[d] = "giveUp" => holds'[d],
         \A o \in Ops : abandoned[o] => abandoned'[o]
  PROVE  CallInv'
<1>1. \A d \in Consumers : call[d] \in {"forget", "cancelWork"} => abandoned'[local[d]]
  <2> SUFFICES ASSUME NEW d \in Consumers, call[d] \in {"forget", "cancelWork"}
               PROVE  abandoned'[local[d]]
    OBVIOUS
  <2>1. local[d] \in 1..made /\ abandoned[local[d]]
    BY DEF FetchInv, CallInv
  <2>2. QED
    BY <2>1, MadeOps
<1>2. QED
  BY <1>1, Zenon DEF FetchInv, CallInv

-----------------------------------------------------------------------------
(* The steps *)

LEMMA ClaimType ==
  ASSUME FetchInv, NEW c \in Consumers, NEW th \in Ops \cup {Requester},
         NEW r \in Result \cup {"Own", None}, Claim(c, th, r)
  PROVE  /\ by' \in [Consumers -> Ops \cup {Requester, None}]
         /\ outcome' \in [Consumers -> Result \cup {"Own", None}]
         /\ fin' = fin \/ fin' = [fin EXCEPT ![c] = "detach"]
<1>1. by \in [Consumers -> Ops \cup {Requester, None}] /\ outcome \in [Consumers -> Result \cup {"Own", None}]
  BY Zenon DEF FetchInv, TypeOK
<1>2. CASE by[c] = None
  <2>1. /\ by' = [by EXCEPT ![c] = th] /\ fin' = [fin EXCEPT ![c] = "detach"]
        /\ outcome' = [outcome EXCEPT ![c] = IF c \in cancelled THEN "Own" ELSE r]
    BY <1>2, Zenon DEF Claim
  <2>2. QED
    BY <1>1, <2>1
<1>3. CASE by[c] # None
  <2>1. by' = by /\ fin' = fin /\ outcome' = outcome
    BY <1>3 DEF Claim, finishVars
  <2>2. QED
    BY <1>1, <2>1
<1>4. QED
  BY <1>2, <1>3

\* A step of an operation's work that neither publishes nor erases it.
LEMMA WorkStepInv ==
  ASSUME FetchInv, NEW o \in Ops,
         NEW s \in {"network", "fallback", "finalize", "store", "publish"},
         NEW r \in Result \cup {None}, WorkStep(o, s, r)
  PROVE  FetchInv'
<1> USE DEF WorkStep, opVars, callVars, bindVars, finishVars
<1>1. TypeOK'
  BY DEF FetchInv, TypeOK
<1>2. SingleFlight'
  BY FlightUnchanged
<1>3. ConsumersCounted'
  BY CountsUnchanged DEF FetchInv, ConsumersCounted
<1>4. OpInv'
  BY DEF FetchInv, TypeOK, OpInv
<1>5. CallInv'
  BY CallUnchanged
<1>6. FinishInv'
  BY FinishUnchanged
<1>7. QED
  BY <1>1, <1>2, <1>3, <1>4, <1>5, <1>6 DEF FetchInv

LEMMA OwnerWorkInv ==
  ASSUME FetchInv, NEW o \in Ops, OwnerWork(o)
  PROVE  FetchInv'
<1>1. CASE \/ Refused(o) \/ Load(o) \/ Fetched(o) \/ FetchedFallback(o)
           \/ Finalize(o) \/ Store(o)
  <2>1. PICK s \in {"network", "fallback", "finalize", "store", "publish"},
             r \in Result \cup {None} : WorkStep(o, s, r)
    <3>1. ASSUME NEW s \in {"network", "fallback", "finalize", "store", "publish"},
                 NEW r \in Result \cup {None}, WorkStep(o, s, r)
          PROVE  \E s1 \in {"network", "fallback", "finalize", "store", "publish"},
                    r1 \in Result \cup {None} : WorkStep(o, s1, r1)
      BY <3>1
    <3>2. CASE Refused(o) \/ Finalize(o) \/ Store(o)
      BY <3>1, <3>2, Zenon DEF Refused, Finalize, Store, Result
    <3>3. CASE Load(o) \/ Fetched(o) \/ FetchedFallback(o)
      BY <3>1, <3>3, Zenon DEF Load, Fetched, FetchedFallback, Result
    <3>4. QED
      BY <1>1, <3>2, <3>3
  <2>2. QED
    BY <2>1, WorkStepInv
<1>2. CASE Publish(o)
  <2> USE <1>2 DEF Publish, callVars, bindVars, finishVars
  <2>1. TypeOK'
    BY DEF FetchInv, TypeOK
  <2>2. \A p \in Ops : done[p] => done'[p]
    BY DEF FetchInv, TypeOK
  <2>3. done'[o]
    BY DEF FetchInv, TypeOK
  <2>4. SingleFlight'
    BY <2>2, FlightUnchanged
  <2>5. ConsumersCounted'
    BY CountsUnchanged DEF FetchInv, ConsumersCounted
  <2>6. OpInv'
    <3>1. \A p \in Ops : work'[p] \in {"invoke", "ended"} => done'[p]
      BY <2>2, <2>3 DEF FetchInv, TypeOK, OpInv
    <3>2. QED
      BY <3>1 DEF FetchInv, OpInv
  <2>7. CallInv'
    BY CallUnchanged
  <2>8. FinishInv'
    BY FinishUnchanged
  <2>9. QED
    BY <2>1, <2>4, <2>5, <2>6, <2>7, <2>8 DEF FetchInv
<1>3. CASE Invoke(o)
  <2> USE <1>3 DEF Invoke, opVars, callVars, bindVars
  <2>1. PICK c \in todo[o] : /\ Claim(c, o, payload[o])
                             /\ todo' = [todo EXCEPT ![o] = @ \ {c}]
    BY Zenon
  <2>2. c \in Consumers /\ payload[o] \in Result \cup {None}
    BY DEF FetchInv, TypeOK
  <2>3. /\ by' \in [Consumers -> Ops \cup {Requester, None}]
        /\ outcome' \in [Consumers -> Result \cup {"Own", None}]
        /\ fin' = fin \/ fin' = [fin EXCEPT ![c] = "detach"]
    BY <2>1, <2>2, ClaimType
  <2>4. TypeOK'
    BY <2>1, <2>2, <2>3 DEF FetchInv, TypeOK
  <2>5. SingleFlight' /\ OpInv'
    BY FlightUnchanged, OpUnchanged
  <2>6. ConsumersCounted'
    BY CountsUnchanged DEF FetchInv, ConsumersCounted
  <2>7. CallInv'
    BY CallUnchanged
  <2>8. FinishInv'
    BY <2>3 DEF FetchInv, TypeOK, FinishInv
  <2>9. QED
    BY <2>4, <2>5, <2>6, <2>7, <2>8 DEF FetchInv
<1>4. CASE Erase(o)
  <2> USE <1>4 DEF Erase, opVars, callVars, bindVars, finishVars
  <2>1. done[o]
    BY DEF FetchInv, OpInv
  <2>2. registry' = IF registry = o THEN None ELSE registry
    BY DEF EraseFromRegistry
  <2>3. TypeOK'
    BY <2>2 DEF FetchInv, TypeOK
  <2>4. SingleFlight'
    BY <2>1, <2>2 DEF FetchInv, SingleFlight
  <2>5. ConsumersCounted'
    BY CountsUnchanged DEF FetchInv, ConsumersCounted
  <2>6. OpInv'
    BY <2>1, <2>2 DEF FetchInv, TypeOK, OpInv
  <2>7. CallInv'
    BY CallUnchanged
  <2>8. FinishInv'
    BY FinishUnchanged
  <2>9. QED
    BY <2>3, <2>4, <2>5, <2>6, <2>7, <2>8 DEF FetchInv
<1>5. QED
  BY <1>1, <1>2, <1>3, <1>4 DEF OwnerWork

\* The thread that completes a call.
LEMMA CompletionInv ==
  ASSUME FetchInv, NEW c \in Consumers, CompletionStep(c)
  PROVE  FetchInv'
<1>1. CASE Detach(c)
  <2> USE <1>1 DEF Detach, opVars, workVars, callVars, bindVars
  <2>1. TypeOK'
    BY DEF FetchInv, TypeOK
  <2>2. SingleFlight' /\ OpInv' /\ CallInv'
    BY FlightUnchanged, OpUnchanged, CallUnchanged
  <2>3. ConsumersCounted'
    BY CountsUnchanged DEF FetchInv, ConsumersCounted
  <2>4. FinishInv'
    BY DEF FetchInv, TypeOK, FinishInv
  <2>5. QED
    BY <2>1, <2>2, <2>3, <2>4 DEF FetchInv
<1>2. CASE Unsubscribe(c)
  <2> USE <1>2 DEF Unsubscribe, workVars, callVars, bindVars
  <2>1. TypeOK'
    BY DEF FetchInv, TypeOK
  <2>2. SingleFlight' /\ OpInv' /\ CallInv'
    BY FlightUnchanged, OpUnchanged, CallUnchanged
  <2>3. ConsumersCounted'
    BY CountsUnchanged DEF FetchInv, ConsumersCounted
  <2>4. FinishInv'
    BY DEF FetchInv, TypeOK, FinishInv
  <2>5. QED
    BY <2>1, <2>2, <2>3, <2>4 DEF FetchInv
<1>3. CASE FinishRelease(c)
  <2> USE DEF workVars, callVars, bindVars
  <2>1. /\ holds[c] /\ bound[c]
        /\ ReleaseConsumer(c)
        /\ fin' = [fin EXCEPT ![c] = IF LastOne(local[c]) THEN "cancelWork" ELSE "answer"]
        /\ UNCHANGED <<registry, made, done, callbacks, token, work, payload, todo, call,
                       owner, local, bound, subscribed, by, outcome, cancelled>>
    BY <1>3, Zenon DEF FinishRelease, FetchInv, FinishInv
  <2>2. /\ ConsumersCounted'
        /\ count' \in [Ops -> Int]
        /\ abandoned' \in [Ops -> BOOLEAN]
        /\ holds' \in [Consumers -> BOOLEAN]
        /\ local[c] \in Ops
        /\ \A o \in Ops : abandoned[o] => abandoned'[o]
        /\ LastOne(local[c]) => abandoned'[local[c]]
        /\ \A d \in Consumers : holds'[d] <=> (d # c /\ holds[d])
    BY <2>1, CountsReleased
  <2>3. TypeOK'
    BY <2>1, <2>2 DEF FetchInv, TypeOK
  <2>4. SingleFlight' /\ OpInv'
    BY <2>1, <2>2, FlightUnchanged, OpUnchanged
  <2>5. CallInv'
    BY <2>1, <2>2, ReleasedCalls DEF FetchInv, CallInv
  <2>6. FinishInv'
    <3>1. ASSUME NEW d \in Consumers, fin'[d] = "cancelWork"
          PROVE  bound'[d] /\ abandoned'[local'[d]]
      <4>1. CASE d = c
        <5>1. LastOne(local[c])
          BY <2>1, <3>1, <4>1 DEF FetchInv, TypeOK
        <5>2. QED
          BY <2>1, <2>2, <4>1, <5>1
      <4>2. CASE d # c
        <5>1. fin[d] = "cancelWork"
          BY <2>1, <3>1, <4>2 DEF FetchInv, TypeOK
        <5>2. bound[d] /\ abandoned[local[d]]
          BY <5>1 DEF FetchInv, FinishInv
        <5>3. local[d] \in Ops
          BY <5>2, BoundHasOp
        <5>4. QED
          BY <2>1, <2>2, <5>2, <5>3
      <4>3. QED
        BY <4>1, <4>2
    <3>2. ASSUME NEW d \in Consumers, fin'[d] \in {"unsubscribe", "release"}
          PROVE  /\ bound'[d]
                 /\ fin'[d] = "release" => holds'[d]
      <4>1. d # c /\ fin'[d] = fin[d]
        BY <2>1, <3>2 DEF FetchInv, TypeOK
      <4>2. bound[d] /\ (fin[d] = "release" => holds[d])
        BY <3>2, <4>1, Zenon DEF FetchInv, FinishInv
      <4>3. QED
        BY <2>1, <2>2, <4>1, <4>2
    <3>3. QED
      BY <3>1, <3>2 DEF FinishInv
  <2>7. QED
    BY <2>2, <2>3, <2>4, <2>5, <2>6 DEF FetchInv
<1>4. CASE FinishCancelWork(c)
  <2> USE <1>4 DEF FinishCancelWork, workVars, callVars, bindVars
  <2>1. local[c] \in Ops /\ abandoned[local[c]]
    BY BoundHasOp DEF FetchInv, FinishInv
  <2>2. TypeOK'
    BY DEF FetchInv, TypeOK
  <2>3. SingleFlight' /\ OpInv' /\ CallInv'
    BY FlightUnchanged, OpUnchanged, CallUnchanged
  <2>4. ConsumersCounted'
    <3>1. \A o \in Ops : token'[o] => abandoned[o]
      BY <2>1 DEF FetchInv, TypeOK, ConsumersCounted
    <3>2. QED
      BY <3>1, CountsUnchanged
  <2>5. FinishInv'
    BY DEF FetchInv, TypeOK, FinishInv
  <2>6. QED
    BY <2>2, <2>3, <2>4, <2>5 DEF FetchInv
<1>5. CASE CallCompletion(c)
  <2> USE <1>5 DEF CallCompletion, opVars, workVars, callVars, bindVars
  <2>1. TypeOK'
    BY DEF FetchInv, TypeOK
  <2>2. SingleFlight' /\ OpInv' /\ CallInv'
    BY FlightUnchanged, OpUnchanged, CallUnchanged
  <2>3. ConsumersCounted'
    BY CountsUnchanged DEF FetchInv, ConsumersCounted
  <2>4. FinishInv'
    BY DEF FetchInv, TypeOK, FinishInv
  <2>5. QED
    BY <2>1, <2>2, <2>3, <2>4 DEF FetchInv
<1>6. QED
  BY <1>1, <1>2, <1>3, <1>4, <1>5 DEF CompletionStep

\* One call moves on and the others stay where they are.
LEMMA CallMoved ==
  ASSUME FetchInv, NEW c \in Consumers, NEW s, Goto(c, s),
         made' \in Nat, made <= made',
         \A d \in Consumers \ {c} : /\ local'[d] = local[d]
                                    /\ holds'[d] = holds[d]
                                    /\ bound'[d] = bound[d],
         \A o \in Ops : abandoned[o] => abandoned'[o],
         local'[c] \in 1..made' \/ s \in {"idle", "registered", "find", "returned"},
         holds'[c] => /\ local'[c] \in 1..made'
                      /\ s \notin {"idle", "registered", "find", "attach", "forget"},
         bound'[c] => /\ s \in {"subscribe", "record", "drop", "start", "returned"}
                      /\ local'[c] \in 1..made',
         s = "giveUp" => holds'[c],
         s \in {"forget", "cancelWork"} => abandoned'[local'[c]]
  PROVE  CallInv'
<1>1. \A d \in Consumers : call'[d] = IF d = c THEN s ELSE call[d]
  BY DEF Goto, FetchInv, TypeOK
<1>2. 1..made \subseteq 1..made'
  BY DEF FetchInv, TypeOK
<1>3. ASSUME NEW d \in Consumers \ {c}
      PROVE  /\ local'[d] \in 1..made' \/ call'[d] \in {"idle", "registered", "find", "returned"}
             /\ holds'[d] => local'[d] \in 1..made'
             /\ holds'[d] => call'[d] \notin {"idle", "registered", "find", "attach", "forget"}
             /\ bound'[d] => call'[d] \in {"subscribe", "record", "drop", "start", "returned"}
             /\ bound'[d] => local'[d] \in 1..made'
             /\ call'[d] \in {"giveUp", "cancelWork", "fail"} => local'[d] \in 1..made'
             /\ call'[d] = "giveUp" => holds'[d]
             /\ call'[d] \in {"forget", "cancelWork"} => abandoned'[local'[d]]
  <2>1. /\ local[d] \in 1..made \/ call[d] \in {"idle", "registered", "find", "returned"}
        /\ holds[d] => local[d] \in 1..made
        /\ holds[d] => call[d] \notin {"idle", "registered", "find", "attach", "forget"}
        /\ bound[d] => call[d] \in {"subscribe", "record", "drop", "start", "returned"}
        /\ bound[d] => local[d] \in 1..made
        /\ call[d] \in {"giveUp", "cancelWork", "fail"} => local[d] \in 1..made
        /\ call[d] = "giveUp" => holds[d]
        /\ call[d] \in {"forget", "cancelWork"} => abandoned[local[d]]
    BY DEF FetchInv, CallInv
  <2>2. call'[d] = call[d]
    BY <1>1
  <2>3. call[d] \in {"forget", "cancelWork"} => abandoned'[local[d]]
    BY <2>1, MadeOps
  <2>4. QED
    BY <1>2, <2>1, <2>2, <2>3
<1>4. call'[c] = s
  BY <1>1
<1>5. ASSUME NEW d \in Consumers, d = c
      PROVE  /\ local'[d] \in 1..made' \/ call'[d] \in {"idle", "registered", "find", "returned"}
             /\ holds'[d] => local'[d] \in 1..made'
             /\ holds'[d] => call'[d] \notin {"idle", "registered", "find", "attach", "forget"}
             /\ bound'[d] => call'[d] \in {"subscribe", "record", "drop", "start", "returned"}
             /\ bound'[d] => local'[d] \in 1..made'
             /\ call'[d] \in {"giveUp", "cancelWork", "fail"} => local'[d] \in 1..made'
             /\ call'[d] = "giveUp" => holds'[d]
             /\ call'[d] \in {"forget", "cancelWork"} => abandoned'[local'[d]]
  BY <1>4, <1>5
<1>6. QED
  BY <1>3, <1>5, Zenon DEF CallInv

LEMMA GotoType ==
  ASSUME FetchInv, NEW c \in Consumers,
         NEW s \in {"idle", "registered", "find", "attach", "forget", "bind",
                    "giveUp", "cancelWork", "fail", "subscribe", "record",
                    "drop", "start", "returned"}, Goto(c, s)
  PROVE  call' \in [Consumers -> {"idle", "registered", "find", "attach", "forget", "bind",
                    "giveUp", "cancelWork", "fail", "subscribe", "record",
                    "drop", "start", "returned"}]
BY DEF FetchInv, TypeOK, Goto

LEMMA LookupInv ==
  ASSUME FetchInv, NEW c \in Consumers,
         \/ Register(c) \/ CheckClaimed(c) \/ Find(c) \/ Attach(c) \/ Forget(c)
  PROVE  FetchInv'
<1>0. made \in Nat
  BY DEF FetchInv, TypeOK
<1>1. CASE Register(c)
  <2> USE <1>1 DEF Register, opVars, workVars, bindVars
  <2>1. PICK s \in {"registered", "returned"} : Goto(c, s)
    BY Zenon
  <2>2. /\ by' \in [Consumers -> Ops \cup {Requester, None}]
        /\ outcome' \in [Consumers -> Result \cup {"Own", None}]
        /\ fin' = fin \/ fin' = [fin EXCEPT ![c] = "detach"]
    <3>1. CASE Claim(c, Requester, "Own")
      BY <3>1, ClaimType
    <3>2. CASE UNCHANGED finishVars
      BY <3>2 DEF finishVars, FetchInv, TypeOK
    <3>3. QED
      BY <3>1, <3>2
  <2>3. TypeOK'
    BY <2>1, <2>2, GotoType DEF FetchInv, TypeOK
  <2>4. SingleFlight' /\ OpInv'
    BY FlightUnchanged, OpUnchanged
  <2>5. ConsumersCounted'
    BY CountsUnchanged DEF FetchInv, ConsumersCounted
  <2>6. ~holds[c] /\ ~bound[c]
    BY DEF FetchInv, CallInv
  <2>7. CallInv'
    BY <1>0, <2>1, <2>6, CallMoved
  <2>8. FinishInv'
    BY <2>2 DEF FetchInv, TypeOK, FinishInv
  <2>9. QED
    BY <2>3, <2>4, <2>5, <2>7, <2>8 DEF FetchInv
<1>2. CASE CheckClaimed(c)
  <2> USE <1>2 DEF CheckClaimed, opVars, workVars, bindVars, finishVars
  <2>1. TypeOK'
    BY GotoType DEF FetchInv, TypeOK
  <2>2. SingleFlight' /\ OpInv' /\ FinishInv'
    BY FlightUnchanged, OpUnchanged, FinishUnchanged
  <2>3. ConsumersCounted'
    BY CountsUnchanged DEF FetchInv, ConsumersCounted
  <2>4. ~holds[c] /\ ~bound[c]
    BY DEF FetchInv, CallInv
  <2>5. CallInv'
    BY <1>0, <2>4, CallMoved
  <2>6. QED
    BY <2>1, <2>2, <2>3, <2>5 DEF FetchInv
<1>3. CASE Find(c)
  <2> USE DEF opVars, workVars, bindVars, finishVars
  <2>1. /\ Goto(c, "attach") /\ call[c] \in {"registered", "find"}
        /\ UNCHANGED <<done, abandoned, count, callbacks, token, work, payload, todo,
                       holds, bound, subscribed, by, fin, outcome, cancelled>>
    BY <1>3 DEF Find
  <2>2. PICK o \in Ops :
          /\ local' = [local EXCEPT ![c] = o]
          /\ owner' \in [Consumers -> BOOLEAN]
          /\ registry' = o /\ o \in 1..made'
          /\ \/ registry = o /\ made' = made
             \/ registry = None /\ made' = made + 1 /\ o = made + 1 /\ made < MaxOps
    <3>1. CASE registry = None
      <4>1. /\ local' = [local EXCEPT ![c] = made + 1]
            /\ registry' = made + 1 /\ made' = made + 1 /\ made < MaxOps
        BY <1>3, <3>1 DEF Find
      <4>2. owner' \in [Consumers -> BOOLEAN]
        BY <1>3, <3>1 DEF Find, FetchInv, TypeOK
      <4>3. made + 1 \in Ops /\ made + 1 \in 1..(made + 1)
        BY <1>0, <4>1, OpsAssumption DEF Ops
      <4>4. QED
        BY <3>1, <4>1, <4>2, <4>3
    <3>2. CASE registry # None
      <4>1. registry \in Ops /\ registry \in 1..made
        BY <3>2 DEF FetchInv, TypeOK, OpInv
      <4>2. QED
        BY <1>3, <3>2, <4>1 DEF Find, FetchInv, TypeOK
    <3>3. QED
      BY <3>1, <3>2
  <2>3. /\ made' \in 0..MaxOps /\ made <= made' /\ made' \in Nat
    BY <2>2, OpsAssumption DEF FetchInv, TypeOK
  <2>4. TypeOK'
    BY <2>1, <2>2, <2>3, GotoType DEF FetchInv, TypeOK
  <2>5. SingleFlight'
    <3>1. None \notin Ops
      BY OpsAssumption DEF Ops
    <3>2. QED
      BY <2>1, <2>2, <3>1 DEF FetchInv, TypeOK, SingleFlight, Ops
  <2>6. ~holds[c] /\ ~bound[c]
    BY <2>1 DEF FetchInv, CallInv
  <2>7. ConsumersCounted'
    BY <2>1, <2>2, <2>6, CountsFound
  <2>8. OpInv'
    BY <2>1, <2>2 DEF FetchInv, OpInv
  <2>9. \A d \in Consumers : local'[d] = IF d = c THEN o ELSE local[d]
    BY <2>2 DEF FetchInv, TypeOK
  <2>10. CallInv'
    BY <2>1, <2>2, <2>3, <2>6, <2>9, CallMoved
  <2>11. FinishInv'
    <3>1. \A d \in Consumers : fin[d] = "cancelWork" => d # c
      BY <2>6 DEF FetchInv, FinishInv
    <3>2. QED
      BY <2>1, <2>9, <3>1 DEF FetchInv, FinishInv
  <2>12. QED
    BY <2>4, <2>5, <2>7, <2>8, <2>10, <2>11 DEF FetchInv
<1>4. CASE Attach(c)
  <2> DEFINE o == local[c]
  <2> USE DEF workVars, bindVars, finishVars
  <2>1. /\ call[c] = "attach"
        /\ UNCHANGED <<registry, made, done, abandoned, callbacks, token, work, payload,
                       todo, owner, local, bound, subscribed, by, fin, outcome, cancelled>>
    BY <1>4 DEF Attach
  <2>2. /\ o \in 1..made /\ o \in Ops
        /\ ~holds[c] /\ ~bound[c]
    BY <2>1, MadeOps DEF FetchInv, CallInv
  <2>3. \/ Goto(c, "bind") /\ UNCHANGED <<count, holds>>
        \/ abandoned[o] /\ Goto(c, "forget") /\ UNCHANGED <<count, holds>>
        \/ /\ ~abandoned[o] /\ Goto(c, "bind")
           /\ count' = [count EXCEPT ![o] = @ + 1]
           /\ holds' = [holds EXCEPT ![c] = TRUE]
    BY <1>4, Zenon DEF Attach
  <2>4. TypeOK'
    <3>1. /\ count' \in [Ops -> Int]
          /\ holds' \in [Consumers -> BOOLEAN]
      <4>1. count \in [Ops -> Int] /\ holds \in [Consumers -> BOOLEAN]
        BY DEF FetchInv, TypeOK
      <4>2. CASE UNCHANGED <<count, holds>>
        BY <4>1, <4>2
      <4>3. CASE /\ count' = [count EXCEPT ![o] = @ + 1]
                 /\ holds' = [holds EXCEPT ![c] = TRUE]
        BY <2>2, <4>1, <4>3
      <4>4. QED
        BY <2>3, <4>2, <4>3
    <3>2. PICK s \in {"bind", "forget"} : Goto(c, s)
      BY <2>3
    <3>3. QED
      BY <2>1, <3>1, <3>2, GotoType DEF FetchInv, TypeOK
  <2>5. SingleFlight' /\ OpInv'
    BY <2>1, FlightUnchanged, OpUnchanged
  <2>6. ConsumersCounted'
    <3>1. CASE UNCHANGED <<count, holds>>
      BY <2>1, <3>1, CountsUnchanged DEF FetchInv, ConsumersCounted
    <3>2. CASE /\ ~abandoned[o]
               /\ count' = [count EXCEPT ![o] = @ + 1]
               /\ holds' = [holds EXCEPT ![c] = TRUE]
      BY <2>1, <2>2, <3>2, CountsAttached
    <3>3. QED
      BY <2>3, <3>1, <3>2
  <2>7. /\ \A d \in Consumers \ {c} : holds'[d] = holds[d]
        /\ \A d \in Consumers : holds[d] => holds'[d]
    BY <2>3 DEF FetchInv, TypeOK
  <2>8. CallInv'
    <3>1. CASE Goto(c, "bind")
      BY <1>0, <2>1, <2>2, <2>7, <3>1, CallMoved
    <3>2. CASE abandoned[o] /\ Goto(c, "forget") /\ UNCHANGED <<count, holds>>
      BY <1>0, <2>1, <2>2, <2>7, <3>2, CallMoved
    <3>3. QED
      BY <2>3, <3>1, <3>2
  <2>9. FinishInv'
    BY <2>1, <2>7, Zenon DEF FetchInv, FinishInv
  <2>10. QED
    BY <2>4, <2>5, <2>6, <2>8, <2>9 DEF FetchInv
<1>5. CASE Forget(c)
  <2> DEFINE o == local[c]
  <2> USE DEF opVars, workVars, bindVars, finishVars
  <2>1. /\ call[c] = "forget" /\ Goto(c, "find")
        /\ registry' = IF registry = o THEN None ELSE registry
        /\ UNCHANGED <<made, done, abandoned, count, callbacks, token, work, payload, todo,
                       owner, local, holds, bound, subscribed, by, fin, outcome, cancelled>>
    BY <1>5 DEF Forget, EraseFromRegistry
  <2>2. /\ abandoned[o] /\ ~holds[c] /\ ~bound[c]
    BY <2>1 DEF FetchInv, CallInv
  <2>3. TypeOK'
    BY <2>1, GotoType DEF FetchInv, TypeOK
  <2>4. SingleFlight'
    BY <2>1, <2>2 DEF FetchInv, SingleFlight
  <2>5. ConsumersCounted'
    BY <2>1, CountsUnchanged DEF FetchInv, ConsumersCounted
  <2>6. OpInv'
    BY <2>1 DEF FetchInv, OpInv
  <2>7. CallInv'
    BY <1>0, <2>1, <2>2, CallMoved
  <2>8. FinishInv'
    BY <2>1, FinishUnchanged
  <2>9. QED
    BY <2>3, <2>4, <2>5, <2>6, <2>7, <2>8 DEF FetchInv
<1>6. QED
  BY <1>1, <1>2, <1>3, <1>4, <1>5

LEMMA GiveUpInv ==
  ASSUME FetchInv, NEW c \in Consumers,
         Bind(c) \/ GiveUp(c) \/ GiveUpCancelWork(c) \/ FailOwned(c)
  PROVE  FetchInv'
<1>0. made \in Nat
  BY DEF FetchInv, TypeOK
<1> USE DEF opVars, workVars, bindVars, finishVars
<1>1. CASE Bind(c)
  <2>1. /\ call[c] = "bind"
        /\ UNCHANGED <<registry, made, done, abandoned, count, callbacks, token, work,
                       payload, todo, owner, local, holds, subscribed, by, fin, outcome,
                       cancelled>>
    BY <1>1 DEF Bind
  <2>2. \/ /\ ~holds[c] /\ Goto(c, "returned") /\ UNCHANGED bound
        \/ /\ holds[c] /\ Goto(c, "giveUp") /\ UNCHANGED bound
        \/ /\ Goto(c, "subscribe") /\ bound' = [bound EXCEPT ![c] = TRUE]
    BY <1>1, Zenon DEF Bind
  <2>3. local[c] \in 1..made /\ ~bound[c]
    BY <2>1 DEF FetchInv, CallInv
  <2>4. bound' \in [Consumers -> BOOLEAN]
    BY <2>2 DEF FetchInv, TypeOK
  <2>5. PICK s \in {"returned", "giveUp", "subscribe"} : Goto(c, s)
    BY <2>2
  <2>6. TypeOK'
    BY <2>1, <2>4, <2>5, GotoType DEF FetchInv, TypeOK
  <2>7. SingleFlight' /\ OpInv'
    BY <2>1, FlightUnchanged, OpUnchanged
  <2>8. ConsumersCounted'
    BY <2>1, CountsUnchanged DEF FetchInv, ConsumersCounted
  <2>9. /\ \A d \in Consumers \ {c} : bound'[d] = bound[d]
        /\ \A d \in Consumers : bound[d] => bound'[d]
    BY <2>2 DEF FetchInv, TypeOK
  <2>10. CallInv'
    <3>1. CASE ~holds[c] /\ Goto(c, "returned") /\ UNCHANGED bound
      BY <1>0, <2>1, <2>3, <2>9, <3>1, CallMoved
    <3>2. CASE holds[c] /\ Goto(c, "giveUp") /\ UNCHANGED bound
      BY <1>0, <2>1, <2>3, <2>9, <3>2, CallMoved
    <3>3. CASE Goto(c, "subscribe")
      BY <1>0, <2>1, <2>3, <2>9, <3>3, CallMoved
    <3>4. QED
      BY <2>2, <3>1, <3>2, <3>3
  <2>11. FinishInv'
    BY <2>1, <2>9, FinishUnchanged
  <2>12. QED
    BY <2>6, <2>7, <2>8, <2>10, <2>11 DEF FetchInv
<1>2. CASE GiveUp(c)
  <2>1. /\ call[c] = "giveUp" /\ ReleaseConsumer(c)
        /\ UNCHANGED <<registry, made, done, callbacks, token, work, payload, todo, owner,
                       local, bound, subscribed, by, fin, outcome, cancelled>>
    BY <1>2 DEF GiveUp
  <2>2. holds[c] /\ ~bound[c] /\ local[c] \in 1..made
    BY <2>1 DEF FetchInv, CallInv
  <2>3. /\ ConsumersCounted'
        /\ count' \in [Ops -> Int]
        /\ abandoned' \in [Ops -> BOOLEAN]
        /\ holds' \in [Consumers -> BOOLEAN]
        /\ \A o \in Ops : abandoned[o] => abandoned'[o]
        /\ LastOne(local[c]) => abandoned'[local[c]]
        /\ \A d \in Consumers : holds'[d] <=> (d # c /\ holds[d])
    BY <2>1, <2>2, CountsReleased
  <2>4. PICK s \in {"cancelWork", "fail", "returned"} :
          Goto(c, s) /\ (s = "cancelWork" => LastOne(local[c]))
    BY <1>2, Zenon DEF GiveUp
  <2>5. TypeOK'
    BY <2>1, <2>3, <2>4, GotoType DEF FetchInv, TypeOK
  <2>6. SingleFlight' /\ OpInv'
    BY <2>1, <2>3, FlightUnchanged, OpUnchanged
  <2>7. \A d \in Consumers \ {c} : holds'[d] = holds[d]
    BY <2>3 DEF FetchInv, TypeOK
  <2>8. CallInv'
    BY <1>0, <2>1, <2>2, <2>3, <2>4, <2>7, CallMoved
  <2>9. FinishInv'
    <3>1. ASSUME NEW d \in Consumers, fin[d] = "cancelWork" PROVE abandoned'[local[d]]
      BY <2>3, <3>1, BoundHasOp DEF FetchInv, FinishInv
    <3>2. ASSUME NEW d \in Consumers, fin[d] = "release" PROVE holds'[d]
      BY <2>2, <2>7, <3>2, Zenon DEF FetchInv, FinishInv
    <3>3. QED
      BY <2>1, <3>1, <3>2, Zenon DEF FetchInv, FinishInv
  <2>10. QED
    BY <2>3, <2>5, <2>6, <2>8, <2>9 DEF FetchInv
<1>3. CASE GiveUpCancelWork(c)
  <2>1. /\ call[c] = "cancelWork"
        /\ token' = [token EXCEPT ![local[c]] = TRUE]
        /\ UNCHANGED <<registry, made, done, abandoned, count, callbacks, work, payload,
                       todo, owner, local, holds, bound, subscribed, by, fin, outcome,
                       cancelled>>
    BY <1>3 DEF GiveUpCancelWork
  <2>2. /\ abandoned[local[c]] /\ local[c] \in 1..made /\ local[c] \in Ops
        /\ ~bound[c]
    BY <2>1, MadeOps DEF FetchInv, CallInv
  <2>3. ~holds[c]
    <3>1. holds[c] => count[local[c]] # 0
      <4>1. ASSUME holds[c] PROVE c \in Attached(local[c])
        BY <4>1 DEF Attached
      <4>2. holds[c] => Cardinality(Attached(local[c])) # 0
        BY <4>1, AttachedFinite, FS_EmptySet
      <4>3. QED
        BY <2>2, <4>2 DEF FetchInv, ConsumersCounted
    <3>2. QED
      BY <2>2, <3>1 DEF FetchInv, ConsumersCounted
  <2>4. PICK s \in {"fail", "returned"} : Goto(c, s)
    BY <1>3, Zenon DEF GiveUpCancelWork
  <2>5. TypeOK'
    BY <2>1, <2>4, GotoType DEF FetchInv, TypeOK
  <2>6. SingleFlight' /\ OpInv' /\ FinishInv'
    BY <2>1, FlightUnchanged, OpUnchanged, FinishUnchanged
  <2>7. ConsumersCounted'
    <3>1. \A o \in Ops : token'[o] => abandoned[o]
      BY <2>1, <2>2 DEF FetchInv, TypeOK, ConsumersCounted
    <3>2. QED
      BY <2>1, <3>1, CountsUnchanged
  <2>8. CallInv'
    BY <1>0, <2>1, <2>2, <2>3, <2>4, CallMoved
  <2>9. QED
    BY <2>5, <2>6, <2>7, <2>8 DEF FetchInv
<1>4. CASE FailOwned(c)
  <2>1. /\ call[c] = "fail" /\ Goto(c, "returned")
        /\ work' = [work EXCEPT ![local[c]] = "publish"]
        /\ payload' = [payload EXCEPT ![local[c]] = "NotStarted"]
        /\ UNCHANGED <<registry, made, done, abandoned, count, callbacks, token, todo,
                       owner, local, holds, bound, subscribed, by, fin, outcome, cancelled>>
    BY <1>4 DEF FailOwned
  <2>2. local[c] \in 1..made /\ ~bound[c]
    BY <2>1 DEF FetchInv, CallInv
  <2>3. TypeOK'
    BY <2>1, GotoType DEF FetchInv, TypeOK, Result
  <2>4. SingleFlight' /\ FinishInv'
    BY <2>1, FlightUnchanged, FinishUnchanged
  <2>5. ConsumersCounted'
    BY <2>1, CountsUnchanged DEF FetchInv, ConsumersCounted
  <2>6. OpInv'
    BY <2>1 DEF FetchInv, TypeOK, OpInv
  <2>7. CallInv'
    BY <1>0, <2>1, <2>2, CallMoved DEF FetchInv, CallInv
  <2>8. QED
    BY <2>3, <2>4, <2>5, <2>6, <2>7 DEF FetchInv
<1>5. QED
  BY <1>1, <1>2, <1>3, <1>4

LEMMA SubscribeInv ==
  ASSUME FetchInv, NEW c \in Consumers,
         Subscribe(c) \/ Record(c) \/ DropSubscription(c) \/ Start(c)
  PROVE  FetchInv'
<1>0. made \in Nat
  BY DEF FetchInv, TypeOK
<1> USE DEF opVars, workVars, bindVars
<1>1. ASSUME NEW s \in {"record", "drop", "start", "returned"}, Goto(c, s),
             call[c] \in {"subscribe", "record", "drop", "start"},
             UNCHANGED <<registry, made, done, abandoned, count, token, local, holds, bound>>
      PROVE  SingleFlight' /\ ConsumersCounted' /\ CallInv'
  <2>1. SingleFlight' /\ ConsumersCounted'
    BY <1>1, FlightUnchanged, CountsUnchanged DEF FetchInv, ConsumersCounted
  <2>2. local[c] \in 1..made
    BY <1>1 DEF FetchInv, CallInv
  <2>3. CallInv'
    BY <1>0, <1>1, <2>2, CallMoved DEF FetchInv, CallInv
  <2>4. QED
    BY <2>1, <2>3
<1>2. CASE Subscribe(c)
  <2>1. /\ call[c] = "subscribe"
        /\ UNCHANGED <<registry, made, done, abandoned, count, token, work, payload, todo,
                       owner, local, holds, bound, subscribed, cancelled>>
    BY <1>2 DEF Subscribe
  <2>2. PICK s \in {"record", "start", "returned"} : Goto(c, s)
    BY <1>2, Zenon DEF Subscribe, AfterSubscribe
  <2>3. callbacks' \in [Ops -> SUBSET Consumers]
    BY <1>2 DEF Subscribe, FetchInv, TypeOK
  <2>4. /\ by' \in [Consumers -> Ops \cup {Requester, None}]
        /\ outcome' \in [Consumers -> Result \cup {"Own", None}]
        /\ fin' = fin \/ fin' = [fin EXCEPT ![c] = "detach"]
    <3>1. local[c] \in Ops
      BY <2>1, MadeOps DEF FetchInv, CallInv
    <3>2. payload[local[c]] \in Result \cup {"Own", None}
      BY <3>1 DEF FetchInv, TypeOK
    <3>3. CASE Claim(c, Requester, payload[local[c]])
      BY <3>2, <3>3, ClaimType
    <3>4. CASE UNCHANGED finishVars
      BY <3>4 DEF finishVars, FetchInv, TypeOK
    <3>5. QED
      BY <1>2, <3>3, <3>4, Zenon DEF Subscribe
  <2>5. TypeOK'
    <3>1. fin' \in [Consumers -> {"none", "detach", "unsubscribe", "release",
                                  "cancelWork", "answer", "done"}]
      BY <2>4 DEF FetchInv, TypeOK
    <3>2. call' \in [Consumers -> {"idle", "registered", "find", "attach", "forget", "bind",
                    "giveUp", "cancelWork", "fail", "subscribe", "record",
                    "drop", "start", "returned"}]
      BY <2>2, GotoType
    <3>3. QED
      BY <2>1, <2>3, <2>4, <3>1, <3>2 DEF FetchInv, TypeOK
  <2>6. SingleFlight' /\ ConsumersCounted' /\ CallInv'
    BY <1>1, <2>1, <2>2
  <2>7. OpInv'
    BY <2>1, OpUnchanged
  <2>8. FinishInv'
    BY <2>1, <2>4 DEF FetchInv, TypeOK, FinishInv
  <2>9. QED
    BY <2>5, <2>6, <2>7, <2>8 DEF FetchInv
<1>3. CASE Record(c)
  <2>1. /\ call[c] = "record"
        /\ UNCHANGED <<registry, made, done, abandoned, count, callbacks, token, work,
                       payload, todo, owner, local, holds, bound, by, fin, outcome,
                       cancelled>>
    BY <1>3 DEF Record, finishVars
  <2>2. PICK s \in {"drop", "start", "returned"} : Goto(c, s)
    BY <1>3, Zenon DEF Record, AfterSubscribe
  <2>3. subscribed' \in [Consumers -> BOOLEAN]
    BY <1>3 DEF Record, FetchInv, TypeOK
  <2>4. TypeOK'
    BY <2>1, <2>2, <2>3, GotoType DEF FetchInv, TypeOK
  <2>5. SingleFlight' /\ ConsumersCounted' /\ CallInv'
    BY <1>1, <2>1, <2>2
  <2>6. OpInv' /\ FinishInv'
    BY <2>1, OpUnchanged, FinishUnchanged
  <2>7. QED
    BY <2>4, <2>5, <2>6 DEF FetchInv
<1>4. CASE DropSubscription(c)
  <2>1. /\ call[c] = "drop"
        /\ callbacks' = [callbacks EXCEPT ![local[c]] = @ \ {c}]
        /\ UNCHANGED <<registry, made, done, abandoned, count, token, work, payload, todo,
                       owner, local, holds, bound, subscribed, by, fin, outcome, cancelled>>
    BY <1>4 DEF DropSubscription, finishVars
  <2>2. PICK s \in {"start", "returned"} : Goto(c, s)
    BY <1>4, Zenon DEF DropSubscription, AfterSubscribe
  <2>3. TypeOK'
    BY <2>1, <2>2, GotoType DEF FetchInv, TypeOK
  <2>4. SingleFlight' /\ ConsumersCounted' /\ CallInv'
    BY <1>1, <2>1, <2>2
  <2>5. OpInv' /\ FinishInv'
    BY <2>1, OpUnchanged, FinishUnchanged
  <2>6. QED
    BY <2>3, <2>4, <2>5 DEF FetchInv
<1>5. CASE Start(c)
  <2>1. /\ call[c] = "start" /\ Goto(c, "returned")
        /\ work' = [work EXCEPT ![local[c]] = "load"]
        /\ UNCHANGED <<registry, made, done, abandoned, count, callbacks, token, payload,
                       todo, owner, local, holds, bound, subscribed, by, fin, outcome,
                       cancelled>>
    BY <1>5 DEF Start, finishVars
  <2>2. TypeOK'
    BY <2>1, GotoType DEF FetchInv, TypeOK
  <2>3. SingleFlight' /\ ConsumersCounted' /\ CallInv'
    BY <1>1, <2>1
  <2>4. OpInv'
    BY <2>1 DEF FetchInv, TypeOK, OpInv
  <2>5. FinishInv'
    BY <2>1, FinishUnchanged
  <2>6. QED
    BY <2>2, <2>3, <2>4, <2>5 DEF FetchInv
<1>6. QED
  BY <1>2, <1>3, <1>4, <1>5

LEMMA CancelInv ==
  ASSUME FetchInv, NEW c \in Consumers, Cancel(c) \/ CancelCallback(c)
  PROVE  FetchInv'
<1>1. /\ UNCHANGED <<registry, made, done, abandoned, count, callbacks, token, work, payload,
                     todo, call, owner, local, holds, bound, subscribed>>
      /\ cancelled' \subseteq Consumers
  BY DEF Cancel, CancelCallback, opVars, workVars, callVars, bindVars, FetchInv, TypeOK
<1>2. /\ by' \in [Consumers -> Ops \cup {Requester, None}]
      /\ outcome' \in [Consumers -> Result \cup {"Own", None}]
      /\ fin' = fin \/ fin' = [fin EXCEPT ![c] = "detach"]
  <2>1. CASE Cancel(c)
    BY <2>1 DEF Cancel, finishVars, FetchInv, TypeOK
  <2>2. CASE CancelCallback(c)
    BY <2>2, ClaimType DEF CancelCallback
  <2>3. QED
    BY <2>1, <2>2
<1>3. TypeOK'
  BY <1>1, <1>2 DEF FetchInv, TypeOK
<1>4. SingleFlight' /\ OpInv' /\ CallInv'
  BY <1>1, FlightUnchanged, OpUnchanged, CallUnchanged
<1>5. ConsumersCounted'
  BY <1>1, CountsUnchanged DEF FetchInv, ConsumersCounted
<1>6. FinishInv'
  BY <1>1, <1>2 DEF FetchInv, TypeOK, FinishInv
<1>7. QED
  BY <1>3, <1>4, <1>5, <1>6 DEF FetchInv

LEMMA FetchKept ==
  ASSUME FetchInv, [Next]_vars PROVE FetchInv'
<1>1. ASSUME NEW c \in Consumers,
             Register(c) \/ CallerStep(c) \/ CompletionStep(c) \/ Cancel(c) \/ CancelCallback(c)
      PROVE  FetchInv'
  BY <1>1, LookupInv, GiveUpInv, SubscribeInv, CompletionInv, CancelInv DEF CallerStep
<1>2. ASSUME NEW o \in Ops, OwnerWork(o) PROVE FetchInv'
  BY <1>2, OwnerWorkInv
<1>3. CASE UNCHANGED vars
  <2>1. TypeOK' /\ SingleFlight' /\ OpInv' /\ FinishInv' /\ CallInv'
    BY <1>3, FlightUnchanged, OpUnchanged, FinishUnchanged, CallUnchanged
       DEF vars, opVars, workVars, callVars, bindVars, finishVars, FetchInv, TypeOK
  <2>2. ConsumersCounted'
    BY <1>3, CountsUnchanged DEF vars, opVars, callVars, FetchInv, ConsumersCounted
  <2>3. QED
    BY <2>1, <2>2 DEF FetchInv
<1>4. QED
  BY <1>1, <1>2, <1>3 DEF Next

-----------------------------------------------------------------------------
(* What a call that has returned leaves behind.  An attachment is given up  *)
(* by whoever finds the other one late, and a callback is taken back by     *)
(* whoever finds that it was recorded too late; that an answer is still to  *)
(* come rests on the operation's work, which only its owner starts, once.   *)

Publishing == {"invoke", "ended"}

\* An attachment is with the call until it is bound and then with the completion.
LeaveInv(c) ==
  /\ fin[c] = "none" <=> by[c] = None
  /\ call[c] \in {"subscribe", "record", "drop", "start"} => bound[c]
  /\ holds[c] /\ ~bound[c] => call[c] \in {"bind", "giveUp"}
  /\ holds[c] /\ bound[c] => fin[c] \in {"none", "detach", "unsubscribe", "release"}
  /\ call[c] \in {"giveUp", "cancelWork", "fail", "drop"} => by[c] # None

\* A callback is still to be recorded, to be dropped or to be unsubscribed.
CallbackInv(o) ==
  \A c \in callbacks[o] :
    /\ local[c] = o /\ bound[c]
    /\ \/ call[c] \in {"record", "drop"}
       \/ subscribed[c] /\ fin[c] \in {"none", "detach", "unsubscribe"}

\* An operation that is done has no callbacks but those it took.
WorkInv(o) ==
  /\ done[o] <=> work[o] \in Publishing
  /\ done[o] => callbacks[o] = {}
  /\ work[o] # "invoke" => todo[o] = {}
  /\ o \notin 1..made => work[o] = "none"

\* An operation has one owner, who has not started it while its call goes on.
OwnerInv(c) ==
  /\ local[c] \in 1..made \cup {None}
  /\ call[c] \in {"fail", "start"} => owner[c]
  /\ owner[c] /\ call[c] \in {"attach", "bind", "giveUp", "cancelWork", "fail", "subscribe",
                              "record", "drop", "start"} => work[local[c]] = "none"
  /\ \A d \in Consumers : owner[c] /\ owner[d] /\ local[c] = local[d] => c = d

\* A call without an attachment found its operation done; one that has subscribed
\* waits for it.
WaitInv(c) ==
  by[c] = None =>
    /\ call[c] \in {"bind", "subscribe"} /\ ~holds[c] => done[local[c]]
    /\ call[c] \in {"record", "start", "returned"} => Waits(c) \/ Orphaned(c)

ReturnInv ==
  /\ FetchInv
  /\ \A c \in Consumers : LeaveInv(c) /\ OwnerInv(c) /\ WaitInv(c)
  /\ \A o \in Ops : CallbackInv(o) /\ WorkInv(o)

LEMMA ReturnParts ==
  ASSUME ReturnInv
  PROVE  /\ FetchInv
         /\ \A c \in Consumers : LeaveInv(c) /\ OwnerInv(c) /\ WaitInv(c)
         /\ \A o \in Ops : CallbackInv(o) /\ WorkInv(o)
BY DEF ReturnInv

\* What the proofs below need of the types: no numbers but the operations' names.
Typed ==
  /\ done \in [Ops -> BOOLEAN] /\ abandoned \in [Ops -> BOOLEAN]
  /\ callbacks \in [Ops -> SUBSET Consumers] /\ todo \in [Ops -> SUBSET Consumers]
  /\ DOMAIN work = Ops /\ work = [o \in Ops |-> work[o]]
  /\ call = [c \in Consumers |-> call[c]] /\ fin = [c \in Consumers |-> fin[c]]
  /\ owner \in [Consumers -> BOOLEAN] /\ holds \in [Consumers -> BOOLEAN]
  /\ bound \in [Consumers -> BOOLEAN] /\ subscribed \in [Consumers -> BOOLEAN]
  /\ local = [c \in Consumers |-> local[c]] /\ by = [c \in Consumers |-> by[c]]

LEMMA Types == FetchInv => Typed
BY DEF FetchInv, TypeOK, Typed

LEMMA ThreadAssumption == None \notin Ops /\ Requester # None
BY OpsAssumption DEF Ops, Requester

\* The calls of FetchInv, without the counting.
CallFacts(c) ==
  /\ holds[c] => call[c] \notin {"idle", "registered", "find", "attach", "forget"}
  /\ bound[c] => call[c] \in {"subscribe", "record", "drop", "start", "returned"}
  /\ call[c] \notin {"idle", "registered", "find", "returned"} \/ holds[c] \/ bound[c] => local[c] \in Ops
  /\ fin[c] \in {"unsubscribe", "release", "cancelWork"} => bound[c]
  /\ fin[c] = "release" => holds[c]
  /\ fin[c] \in {"unsubscribe", "release", "cancelWork"} => local[c] \in Ops

LEMMA CallsKnown ==
  ASSUME FetchInv PROVE \A c \in Consumers : CallFacts(c)
<1>1. CallInv /\ FinishInv /\ 1..made \subseteq Ops
  BY MadeOps DEF FetchInv
<1>2. QED
  BY <1>1 DEF CallInv, FinishInv, CallFacts

\* Whoever claims a completion, claims one that was not claimed.
Claims(c, thread) ==
  by[c] = None /\ by' = [by EXCEPT ![c] = thread] /\ fin' = [fin EXCEPT ![c] = "detach"]

LEMMA ClaimCases ==
  ASSUME NEW c, NEW thread, NEW r, Claim(c, thread, r)
  PROVE  Claims(c, thread) \/ UNCHANGED <<by, fin>>
BY DEF Claim, Claims, finishVars

LEMMA TypesNext == FetchInv' => Typed'
BY DEF FetchInv, TypeOK, Typed

LEMMA LeaveKept ==
  ASSUME ReturnInv, [Next]_vars, NEW q \in Consumers PROVE LeaveInv(q)'
<1>0. /\ Typed /\ None \notin Ops /\ Requester # None
      /\ \A c \in Consumers : LeaveInv(c) /\ CallFacts(c)
  BY ReturnParts, Types, CallsKnown, ThreadAssumption
<1>q. LeaveInv(q) /\ CallFacts(q)
  BY <1>0
<1> USE DEF LeaveInv, opVars, workVars, callVars, bindVars, finishVars
<1>1. CASE UNCHANGED <<by, fin, call, bound, holds>>
  BY <1>1, <1>q
<1>2. ASSUME NEW c \in Consumers, NEW thread \in Ops \cup {Requester},
             Claims(c, thread) \/ UNCHANGED <<by, fin>>, UNCHANGED <<call, bound, holds>>
      PROVE  LeaveInv(q)'
  BY <1>0, <1>2, <1>q DEF Claims, Typed
<1>3. ASSUME NEW c \in Consumers, Detach(c) \/ Unsubscribe(c) \/ FinishCancelWork(c) \/ CallCompletion(c)
      PROVE  LeaveInv(q)'
  <2>1. UNCHANGED <<by, call, bound, holds>>
    BY <1>3 DEF Detach, Unsubscribe, FinishCancelWork, CallCompletion
  <2>2. CASE Detach(c)
    BY <1>0, <1>q, <2>1, <2>2 DEF Detach, Typed
  <2>3. CASE Unsubscribe(c)
    BY <1>0, <1>q, <2>1, <2>3 DEF Unsubscribe, Typed
  <2>4. CASE FinishCancelWork(c) \/ CallCompletion(c)
    BY <1>0, <1>q, <2>1, <2>4 DEF FinishCancelWork, CallCompletion, Typed
  <2>5. QED
    BY <1>3, <2>2, <2>3, <2>4
<1>4. ASSUME NEW c \in Consumers, FinishRelease(c) PROVE LeaveInv(q)'
  <2>1. /\ holds' = [holds EXCEPT ![c] = FALSE] /\ UNCHANGED <<by, call, bound>> /\ fin[c] = "release"
        /\ fin' = [fin EXCEPT ![c] = "cancelWork"] \/ fin' = [fin EXCEPT ![c] = "answer"]
    BY <1>4 DEF FinishRelease, ReleaseConsumer
  <2>2. QED
    BY <1>0, <1>q, <2>1 DEF Typed
<1>5. ASSUME NEW c \in Consumers, Register(c) PROVE LeaveInv(q)'
  <2>1. /\ call[c] = "idle" /\ UNCHANGED <<bound, holds>> /\ ~holds[c] /\ ~bound[c]
        /\ \E l \in {"returned", "registered"} : call' = [call EXCEPT ![c] = l]
        /\ Claims(c, Requester) \/ UNCHANGED <<by, fin>>
    BY <1>0, <1>5, ClaimCases DEF Register, Goto, CallFacts
  <2>2. QED
    BY <1>0, <1>q, <2>1 DEF Claims, Typed
<1>6. ASSUME NEW c \in Consumers, CheckClaimed(c) \/ Find(c) \/ Forget(c) PROVE LeaveInv(q)'
  <2>1. /\ UNCHANGED <<by, fin, bound, holds>> /\ ~holds[c]
        /\ \E l \in {"returned", "attach", "find"} : call' = [call EXCEPT ![c] = l]
    BY <1>0, <1>6 DEF CheckClaimed, Find, Forget, Goto, CallFacts
  <2>2. QED
    BY <1>0, <1>q, <2>1 DEF Typed
<1>7. ASSUME NEW c \in Consumers, Attach(c) PROVE LeaveInv(q)'
  <2>1. /\ UNCHANGED <<by, fin, bound>> /\ ~holds[c] /\ ~bound[c]
        /\ \/ holds' = holds /\ \E l \in {"bind", "forget"} : call' = [call EXCEPT ![c] = l]
           \/ holds' = [holds EXCEPT ![c] = TRUE] /\ call' = [call EXCEPT ![c] = "bind"]
    BY <1>0, <1>7 DEF Attach, Goto, CallFacts
  <2>2. QED
    BY <1>0, <1>q, <2>1 DEF Typed
<1>8. ASSUME NEW c \in Consumers, Bind(c) PROVE LeaveInv(q)'
  <2>1. /\ UNCHANGED <<by, fin, holds>> /\ ~bound[c]
        /\ \/ /\ by[c] # None /\ bound' = bound
              /\ call' = [call EXCEPT ![c] = IF holds[c] THEN "giveUp" ELSE "returned"]
           \/ /\ by[c] = None /\ bound' = [bound EXCEPT ![c] = TRUE]
              /\ call' = [call EXCEPT ![c] = "subscribe"]
    BY <1>0, <1>8 DEF Bind, Goto, CallFacts
  <2>2. QED
    BY <1>0, <1>q, <2>1 DEF Typed
<1>9. ASSUME NEW c \in Consumers, GiveUp(c) PROVE LeaveInv(q)'
  <2>1. /\ UNCHANGED <<by, fin, bound>> /\ ~bound[c] /\ by[c] # None
        /\ holds' = [holds EXCEPT ![c] = FALSE]
        /\ \E l \in {"cancelWork", "fail", "returned"} : call' = [call EXCEPT ![c] = l]
    BY <1>0, <1>9 DEF GiveUp, ReleaseConsumer, Goto, CallFacts
  <2>2. QED
    BY <1>0, <1>q, <2>1 DEF Typed
<1>10. ASSUME NEW c \in Consumers, GiveUpCancelWork(c) \/ FailOwned(c) PROVE LeaveInv(q)'
  <2>1. /\ UNCHANGED <<by, fin, bound, holds>> /\ ~bound[c] /\ by[c] # None /\ ~holds[c]
        /\ \E l \in {"fail", "returned"} : call' = [call EXCEPT ![c] = l]
    BY <1>0, <1>10 DEF GiveUpCancelWork, FailOwned, Goto, CallFacts
  <2>2. QED
    BY <1>0, <1>q, <2>1 DEF Typed
<1>11. ASSUME NEW c \in Consumers, Subscribe(c) PROVE LeaveInv(q)'
  <2>1. /\ UNCHANGED <<bound, holds>> /\ bound[c]
        /\ \E l \in {"start", "returned", "record"} : call' = [call EXCEPT ![c] = l]
        /\ Claims(c, Requester) \/ UNCHANGED <<by, fin>>
    BY <1>0, <1>11, ClaimCases DEF Subscribe, AfterSubscribe, Goto
  <2>2. QED
    BY <1>0, <1>q, <2>1 DEF Claims, Typed
<1>12. ASSUME NEW c \in Consumers, Record(c) PROVE LeaveInv(q)'
  <2>1. /\ UNCHANGED <<by, fin, bound, holds>> /\ bound[c]
        /\ \/ fin[c] # "none" /\ call' = [call EXCEPT ![c] = "drop"]
           \/ \E l \in {"start", "returned"} : call' = [call EXCEPT ![c] = l]
    BY <1>0, <1>12 DEF Record, DetachedFrom, AfterSubscribe, Goto
  <2>2. QED
    BY <1>0, <1>q, <2>1 DEF Typed
<1>13. ASSUME NEW c \in Consumers, DropSubscription(c) \/ Start(c) PROVE LeaveInv(q)'
  <2>1. /\ UNCHANGED <<by, fin, bound, holds>> /\ bound[c]
        /\ \E l \in {"start", "returned"} : call' = [call EXCEPT ![c] = l]
    BY <1>0, <1>13 DEF DropSubscription, Start, AfterSubscribe, Goto
  <2>2. QED
    BY <1>0, <1>q, <2>1 DEF Typed
<1>14. ASSUME NEW c \in Consumers, CancelCallback(c) PROVE LeaveInv(q)'
  BY <1>2, <1>14, ClaimCases DEF CancelCallback
<1>15. ASSUME NEW o \in Ops, Invoke(o) PROVE LeaveInv(q)'
  <2>1. PICK c \in todo[o] : Claim(c, o, payload[o])
    BY <1>15 DEF Invoke
  <2>2. c \in Consumers
    BY <1>0, <2>1 DEF Typed
  <2>3. QED
    BY <1>2, <1>15, <2>1, <2>2, ClaimCases DEF Invoke
<1>16. ASSUME NEW o \in Ops, OwnerWork(o), ~Invoke(o) PROVE UNCHANGED <<by, fin, call, bound, holds>>
  BY <1>16 DEF OwnerWork, Refused, Load, Fetched, FetchedFallback, Finalize, Store, WorkStep,
     Publish, Erase
<1>17. ASSUME NEW c \in Consumers, Cancel(c) PROVE LeaveInv(q)'
  BY <1>1, <1>17 DEF Cancel
<1>18. CASE UNCHANGED vars
  BY <1>1, <1>18 DEF vars
<1>19. QED
  BY <1>1, <1>3, <1>4, <1>5, <1>6, <1>7, <1>8, <1>9, <1>10, <1>11, <1>12, <1>13, <1>14, <1>15,
     <1>16, <1>17, <1>18 DEF Next, CallerStep, CompletionStep

\* What the work of an operation does, when it neither publishes nor calls anyone.
Working(o) ==
  /\ work[o] \notin {"none", "invoke", "ended"}
  /\ \E stage \in {"publish", "network", "finalize", "fallback", "store"} :
       work' = [work EXCEPT ![o] = stage]
  /\ UNCHANGED <<made, done, abandoned, callbacks, todo, call, owner, local, holds, bound,
                 subscribed, by, fin>>

LEMMA WorkSteps ==
  ASSUME NEW o, OwnerWork(o)
  PROVE  Working(o) \/ Publish(o) \/ Invoke(o) \/ Erase(o)
<1> USE DEF Working, WorkStep, opVars, callVars, bindVars, finishVars
<1>1. Refused(o) \/ Load(o) => Working(o)
  BY DEF Refused, Load
<1>2. Fetched(o) \/ FetchedFallback(o) => Working(o)
  BY DEF Fetched, FetchedFallback
<1>3. Finalize(o) \/ Store(o) => Working(o)
  BY DEF Finalize, Store
<1>4. QED
  BY <1>1, <1>2, <1>3 DEF OwnerWork

LEMMA CallbackKept ==
  ASSUME ReturnInv, [Next]_vars, NEW o \in Ops PROVE CallbackInv(o)'
<1>0. /\ Typed
      /\ \A c \in Consumers : LeaveInv(c) /\ CallFacts(c)
      /\ CallbackInv(o)
  BY ReturnParts, Types, CallsKnown
<1> SUFFICES ASSUME NEW q \in Consumers, q \in callbacks'[o]
             PROVE  /\ local'[q] = o /\ bound'[q]
                    /\ \/ call'[q] \in {"record", "drop"}
                       \/ subscribed'[q] /\ fin'[q] \in {"none", "detach", "unsubscribe"}
  <2>1. FetchInv'
    BY ReturnParts, FetchKept
  <2>2. callbacks'[o] \subseteq Consumers
    BY <2>1, TypesNext DEF Typed
  <2>3. QED
    BY <2>2 DEF CallbackInv
<1> DEFINE Kept == /\ local[q] = o /\ bound[q]
                   /\ \/ call[q] \in {"record", "drop"}
                      \/ subscribed[q] /\ fin[q] \in {"none", "detach", "unsubscribe"}
<1> SUFFICES Kept'
  OBVIOUS
<1>q. CallFacts(q) /\ LeaveInv(q) /\ (q \in callbacks[o] => Kept)
  BY <1>0 DEF CallbackInv
<1> USE DEF opVars, workVars, callVars, bindVars, finishVars
<1>1. CASE q \in callbacks[o] /\ UNCHANGED <<local, bound, call, subscribed, fin>>
  BY <1>1, <1>q
<1>2. ASSUME NEW c \in Consumers,
             Detach(c) \/ FinishRelease(c) \/ FinishCancelWork(c) \/ CallCompletion(c)
      PROVE  Kept'
  <2>1. UNCHANGED <<callbacks, local, bound, call, subscribed>>
    BY <1>2 DEF Detach, FinishRelease, FinishCancelWork, CallCompletion
  <2>2. q # c => fin'[q] = fin[q]
    BY <1>0, <1>2 DEF Detach, FinishRelease, FinishCancelWork, CallCompletion, Typed
  <2>3. fin[c] \in {"none", "detach", "unsubscribe"} /\ bound[c] => fin'[c] = "unsubscribe"
    BY <1>0, <1>2 DEF Detach, FinishRelease, FinishCancelWork, CallCompletion, Typed
  <2>4. QED
    BY <1>q, <2>1, <2>2, <2>3
<1>3. ASSUME NEW c \in Consumers, Unsubscribe(c) PROVE Kept'
  <2>1. UNCHANGED <<local, bound, call, subscribed>> /\ (q # c => fin'[q] = fin[q])
    BY <1>0, <1>3 DEF Unsubscribe, Typed
  <2>2. q \in callbacks[o]
    BY <1>0, <1>3 DEF Unsubscribe, Typed
  <2>3. subscribed[c] /\ local[c] = o => c \notin callbacks'[o]
    BY <1>0, <1>3 DEF Unsubscribe, Typed
  <2>4. QED
    BY <1>q, <2>1, <2>2, <2>3
<1>4. ASSUME NEW c \in Consumers, NEW thread, Claims(c, thread) \/ UNCHANGED <<by, fin>>
      PROVE  fin[q] \in {"none", "detach", "unsubscribe"} => fin'[q] \in {"none", "detach", "unsubscribe"}
  BY <1>0, <1>4 DEF Claims, Typed
<1>5. ASSUME NEW c \in Consumers, Register(c) \/ CheckClaimed(c) \/ Find(c) \/ Attach(c) \/ Forget(c)
             \/ Bind(c) \/ GiveUp(c) \/ GiveUpCancelWork(c) \/ FailOwned(c)
      PROVE  Kept'
  <2>1. UNCHANGED <<callbacks, subscribed>> /\ call[c] \notin {"subscribe", "record", "drop", "start", "returned"}
    BY <1>5 DEF Register, CheckClaimed, Find, Attach, Forget, Bind, GiveUp, GiveUpCancelWork, FailOwned
  <2>2. q # c
    BY <1>0, <1>q, <2>1 DEF CallFacts
  <2>3. local'[q] = local[q] /\ call'[q] = call[q]
    <3>1. local' = local \/ \E p : local' = [local EXCEPT ![c] = p]
      BY <1>5 DEF Register, CheckClaimed, Find, Attach, Forget, Bind, GiveUp, GiveUpCancelWork, FailOwned
    <3>2. \E l : call' = [call EXCEPT ![c] = l]
      BY <1>5 DEF Register, CheckClaimed, Find, Attach, Forget, Bind, GiveUp, GiveUpCancelWork, FailOwned, Goto
    <3>3. QED
      BY <1>0, <2>2, <3>1, <3>2 DEF Typed
  <2>4. bound'[q] = bound[q]
    <3>1. bound' = bound \/ bound' = [bound EXCEPT ![c] = TRUE]
      BY <1>5 DEF Register, CheckClaimed, Find, Attach, Forget, Bind, GiveUp, GiveUpCancelWork, FailOwned
    <3>2. QED
      BY <1>0, <2>2, <3>1 DEF Typed
  <2>5. fin'[q] = fin[q]
    <3>1. UNCHANGED fin \/ fin' = [fin EXCEPT ![c] = "detach"]
      BY <1>5 DEF Register, CheckClaimed, Find, Attach, Forget, Bind, GiveUp, GiveUpCancelWork, FailOwned, Claim
    <3>2. QED
      BY <1>0, <2>2, <3>1 DEF Typed
  <2>6. QED
    BY <1>q, <2>1, <2>3, <2>4, <2>5
<1>6. ASSUME NEW c \in Consumers, Subscribe(c) PROVE Kept'
  <2>1. /\ UNCHANGED <<local, bound, subscribed>> /\ call[c] = "subscribe" /\ bound[c]
        /\ q # c => call'[q] = call[q]
    BY <1>0, <1>6 DEF Subscribe, Goto, Typed, LeaveInv
  <2>2. fin[q] \in {"none", "detach", "unsubscribe"} => fin'[q] \in {"none", "detach", "unsubscribe"}
    BY <1>4, <1>6, ClaimCases DEF Subscribe
  <2>3. q \in callbacks[o] \/ (q = c /\ local[c] = o /\ call'[c] = "record")
    BY <1>0, <1>6 DEF Subscribe, Goto, Typed
  <2>4. QED
    BY <1>q, <2>1, <2>2, <2>3
<1>7. ASSUME NEW c \in Consumers, Record(c) PROVE Kept'
  <2>1. UNCHANGED <<callbacks, local, bound, fin>>
    BY <1>7 DEF Record
  <2>2. q # c => call'[q] = call[q] /\ subscribed'[q] = subscribed[q]
    BY <1>0, <1>7 DEF Record, Goto, Typed
  <2>3. call'[c] = "drop" \/ (subscribed'[c] /\ fin[c] \in {"none", "detach"})
    BY <1>0, <1>7 DEF Record, DetachedFrom, Goto, Typed
  <2>4. QED
    BY <1>q, <2>1, <2>2, <2>3
<1>8. ASSUME NEW c \in Consumers, DropSubscription(c) PROVE Kept'
  <2>1. /\ UNCHANGED <<local, bound, subscribed, fin>>
        /\ q \in callbacks[o] /\ (local[c] = o => c \notin callbacks'[o])
        /\ q # c => call'[q] = call[q]
    BY <1>0, <1>8 DEF DropSubscription, Goto, Typed
  <2>2. QED
    BY <1>q, <2>1
<1>9. ASSUME NEW c \in Consumers, Start(c) PROVE Kept'
  <2>1. /\ UNCHANGED <<callbacks, local, bound, subscribed, fin>> /\ call[c] = "start"
        /\ q # c => call'[q] = call[q]
    BY <1>0, <1>9 DEF Start, Goto, Typed
  <2>2. QED
    BY <1>q, <2>1
<1>10. ASSUME NEW c \in Consumers, CancelCallback(c) PROVE Kept'
  <2>1. UNCHANGED <<callbacks, local, bound, call, subscribed>>
    BY <1>10 DEF CancelCallback
  <2>2. QED
    BY <1>4, <1>10, <1>q, <2>1, ClaimCases DEF CancelCallback
<1>11. ASSUME NEW p \in Ops, OwnerWork(p) PROVE Kept'
  <2>1. CASE Working(p) \/ Erase(p)
    BY <1>1, <2>1 DEF Working, Erase
  <2>2. CASE Publish(p)
    <3>1. q \in callbacks[o]
      BY <1>0, <2>2 DEF Publish, Typed
    <3>2. QED
      BY <1>1, <2>2, <3>1 DEF Publish
  <2>3. CASE Invoke(p)
    <3>1. PICK c \in todo[p] : Claim(c, p, payload[p])
      BY <2>3 DEF Invoke
    <3>2. c \in Consumers /\ UNCHANGED <<callbacks, local, bound, call, subscribed>>
      BY <1>0, <2>3 DEF Invoke, Typed
    <3>3. QED
      BY <1>4, <1>q, <3>1, <3>2, ClaimCases
  <2>4. QED
    BY <1>11, <2>1, <2>2, <2>3, WorkSteps
<1>12. ASSUME NEW c \in Consumers, Cancel(c) PROVE Kept'
  BY <1>1, <1>12 DEF Cancel
<1>13. CASE UNCHANGED vars
  BY <1>1, <1>13 DEF vars
<1>14. QED
  BY <1>2, <1>3, <1>5, <1>6, <1>7, <1>8, <1>9, <1>10, <1>11, <1>12, <1>13
     DEF Next, CallerStep, CompletionStep

\* The steps that make, start or end no operation, and subscribe nobody.
Quiet ==
  /\ UNCHANGED <<made, done, work, todo>>
  /\ \A o \in Ops : callbacks'[o] \subseteq callbacks[o]

LEMMA QuietSteps ==
  ASSUME FetchInv, NEW c \in Consumers
  PROVE  /\ CompletionStep(c) \/ Cancel(c) \/ CancelCallback(c) => Quiet
         /\ Register(c) \/ CheckClaimed(c) \/ Attach(c) \/ Forget(c) \/ Bind(c) => Quiet
         /\ GiveUp(c) \/ GiveUpCancelWork(c) \/ Record(c) \/ DropSubscription(c) => Quiet
         /\ UNCHANGED vars => Quiet
<1>0. Typed
  BY Types
<1> USE DEF Quiet, opVars, workVars, callVars, bindVars, finishVars
<1>1. CASE Unsubscribe(c)
  BY <1>0, <1>1 DEF Unsubscribe, Typed
<1>2. CASE DropSubscription(c)
  BY <1>0, <1>2 DEF DropSubscription, Typed
<1>3. CASE Detach(c) \/ FinishRelease(c) \/ FinishCancelWork(c) \/ CallCompletion(c)
           \/ Cancel(c) \/ CancelCallback(c)
  BY <1>3 DEF Detach, FinishRelease, FinishCancelWork, CallCompletion, Cancel, CancelCallback
<1>4. CASE Register(c) \/ CheckClaimed(c) \/ Attach(c) \/ Forget(c) \/ Bind(c)
  BY <1>4 DEF Register, CheckClaimed, Attach, Forget, Bind
<1>5. CASE GiveUp(c) \/ GiveUpCancelWork(c) \/ Record(c)
  BY <1>5 DEF GiveUp, GiveUpCancelWork, Record
<1>6. CASE UNCHANGED vars
  BY <1>6 DEF vars
<1>7. QED
  BY <1>1, <1>2, <1>3, <1>4, <1>5, <1>6 DEF CompletionStep

\* The operations a call may have found, and the one that is made next.
LEMMA MadeNext ==
  ASSUME FetchInv, made' \in {made, made + 1}
  PROVE  /\ 1..made \subseteq (1..made)' /\ made + 1 \notin 1..made
         /\ made' = made + 1 => made + 1 \in (1..made)'
<1>1. made \in Nat
  BY OpsAssumption DEF FetchInv, TypeOK
<1>2. QED
  BY <1>1

\* The step of an owner that starts its operation or fails it.
Starts(c) ==
  /\ call[c] \in {"fail", "start"} /\ call' = [call EXCEPT ![c] = "returned"]
  /\ \E stage \in {"publish", "load"} : work' = [work EXCEPT ![local[c]] = stage]
  /\ UNCHANGED <<made, done, abandoned, callbacks, todo, owner, local, holds, bound, by, fin>>

LEMMA StartSteps ==
  ASSUME NEW c, FailOwned(c) \/ Start(c)
  PROVE  Starts(c)
BY DEF FailOwned, Start, Starts, Goto, opVars, bindVars, finishVars

LEMMA WorkKept ==
  ASSUME ReturnInv, [Next]_vars, NEW o \in Ops PROVE WorkInv(o)'
<1>0. /\ Typed /\ FetchInv /\ WorkInv(o)
      /\ \A c \in Consumers : OwnerInv(c) /\ CallFacts(c) /\ LeaveInv(c)
  BY ReturnParts, Types, CallsKnown
<1> USE DEF opVars, workVars, callVars, bindVars, finishVars, Publishing
<1>1. CASE Quiet
  BY <1>0, <1>1 DEF Quiet, WorkInv
<1>2. ASSUME NEW c \in Consumers, Find(c) PROVE WorkInv(o)'
  <2>1. UNCHANGED <<done, callbacks, work, todo>> /\ made' \in {made, made + 1}
    BY <1>2 DEF Find
  <2>2. 1..made \subseteq (1..made)'
    BY <1>0, <2>1, MadeNext
  <2>3. QED
    BY <1>0, <2>1, <2>2 DEF WorkInv
<1>3. ASSUME NEW c \in Consumers, Subscribe(c) PROVE WorkInv(o)'
  <2>1. UNCHANGED <<made, done, work, todo>>
    BY <1>3 DEF Subscribe
  <2>2. done[o] => callbacks'[o] = callbacks[o]
    BY <1>0, <1>3 DEF Subscribe, Typed
  <2>3. QED
    BY <1>0, <2>1, <2>2 DEF WorkInv
<1>4. ASSUME NEW c \in Consumers, Starts(c) PROVE WorkInv(o)'
  <2>1. /\ local[c] \in Ops /\ work[local[c]] = "none" /\ local[c] \in 1..made
        /\ UNCHANGED <<made, done, callbacks, todo>>
    <3>1. local[c] \in Ops /\ UNCHANGED <<made, done, callbacks, todo>>
      BY <1>0, <1>4 DEF Starts, CallFacts
    <3>2. work[local[c]] = "none"
      BY <1>0, <1>4 DEF Starts, OwnerInv
    <3>3. local[c] \in 1..made
      BY <1>0, <3>1, ThreadAssumption DEF OwnerInv
    <3>4. QED
      BY <3>1, <3>2, <3>3
  <2>2. \/ work'[o] = work[o]
        \/ o = local[c] /\ work'[o] \in {"publish", "load"}
    BY <1>0, <1>4 DEF Starts, Typed
  <2>3. QED
    BY <1>0, <2>1, <2>2 DEF WorkInv
<1>5. ASSUME NEW p \in Ops, Working(p) PROVE WorkInv(o)'
  <2>1. UNCHANGED <<made, done, callbacks, todo>> /\ work[p] \notin {"none", "invoke", "ended"}
    BY <1>5 DEF Working
  <2>2. \/ work'[o] = work[o]
        \/ o = p /\ work'[o] \notin {"none", "invoke", "ended"}
    BY <1>0, <1>5 DEF Working, Typed
  <2>3. QED
    BY <1>0, <2>1, <2>2 DEF WorkInv
<1>6. ASSUME NEW p \in Ops, Publish(p) PROVE WorkInv(o)'
  <2>1. o # p => /\ done'[o] = done[o] /\ callbacks'[o] = callbacks[o] /\ todo'[o] = todo[o]
                 /\ work'[o] = work[o]
    BY <1>0, <1>6 DEF Publish, Typed
  <2>2. done'[p] /\ callbacks'[p] = {} /\ work'[p] = "invoke" /\ work[p] = "publish" /\ made' = made
    BY <1>0, <1>6 DEF Publish, Typed
  <2>3. QED
    BY <1>0, <2>1, <2>2 DEF WorkInv
<1>7. ASSUME NEW p \in Ops, Invoke(p) PROVE WorkInv(o)'
  <2>1. UNCHANGED <<made, done, callbacks, work>> /\ work[p] = "invoke"
    BY <1>7 DEF Invoke
  <2>2. o # p => todo'[o] = todo[o]
    BY <1>0, <1>7 DEF Invoke, Typed
  <2>3. QED
    BY <1>0, <2>1, <2>2 DEF WorkInv
<1>8. ASSUME NEW p \in Ops, Erase(p) PROVE WorkInv(o)'
  <2>1. UNCHANGED <<made, done, callbacks, todo>> /\ work[p] = "invoke" /\ todo[p] = {}
    BY <1>8 DEF Erase
  <2>2. work'[p] = "ended" /\ (o # p => work'[o] = work[o])
    BY <1>0, <1>8 DEF Erase, Typed
  <2>3. QED
    BY <1>0, <2>1, <2>2 DEF WorkInv
<1>9. ASSUME NEW c \in Consumers,
             Register(c) \/ CallerStep(c) \/ CompletionStep(c) \/ Cancel(c) \/ CancelCallback(c)
      PROVE  WorkInv(o)'
  BY <1>0, <1>1, <1>2, <1>3, <1>4, <1>9, QuietSteps, StartSteps DEF CallerStep
<1>10. ASSUME NEW p \in Ops, OwnerWork(p) PROVE WorkInv(o)'
  BY <1>5, <1>6, <1>7, <1>8, <1>10, WorkSteps
<1>11. CASE UNCHANGED vars
  BY <1>1, <1>11 DEF vars, Quiet
<1>12. QED
  BY <1>9, <1>10, <1>11 DEF Next

LEMMA OwnerKept ==
  ASSUME ReturnInv, [Next]_vars, NEW q \in Consumers PROVE OwnerInv(q)'
<1>0. /\ Typed /\ FetchInv /\ None \notin Ops
      /\ \A c \in Consumers : OwnerInv(c) /\ CallFacts(c)
      /\ \A o \in Ops : WorkInv(o)
  BY ReturnParts, Types, CallsKnown, ThreadAssumption
<1> DEFINE Early == {"attach", "bind", "giveUp", "cancelWork", "fail", "subscribe", "record",
                     "drop", "start"}
<1>q. OwnerInv(q) /\ CallFacts(q) /\ 1..made \subseteq Ops
  BY <1>0, MadeOps
<1> USE DEF opVars, workVars, callVars, bindVars, finishVars
<1>1. ASSUME UNCHANGED <<made, owner, local>>,
             call'[q] \in {"fail", "start"} => owner[q],
             call'[q] \in Early => call[q] \in Early /\ (owner[q] => work'[local[q]] = work[local[q]])
      PROVE  OwnerInv(q)'
  BY <1>q, <1>1 DEF OwnerInv
<1>2. ASSUME UNCHANGED <<made, owner, local, call, work>> PROVE OwnerInv(q)'
  BY <1>q, <1>2 DEF OwnerInv
<1>3. ASSUME NEW c \in Consumers,
             Register(c) \/ CheckClaimed(c) \/ Attach(c) \/ Forget(c) \/ Bind(c)
             \/ GiveUp(c) \/ GiveUpCancelWork(c) \/ Subscribe(c) \/ Record(c) \/ DropSubscription(c)
      PROVE  OwnerInv(q)'
  <2>1. UNCHANGED <<made, owner, local, work>>
    BY <1>3 DEF Register, CheckClaimed, Attach, Forget, Bind, GiveUp, GiveUpCancelWork, Subscribe,
       Record, DropSubscription
  <2>2. \E l : /\ call' = [call EXCEPT ![c] = l]
               /\ l \in {"fail", "start"} => owner[c]
               /\ l \in Early => call[c] \in Early
    <3>1. CASE Register(c) \/ CheckClaimed(c) \/ Attach(c) \/ Forget(c) \/ Bind(c)
      BY <3>1 DEF Register, CheckClaimed, Attach, Forget, Bind, Goto
    <3>2. CASE GiveUp(c) \/ GiveUpCancelWork(c)
      BY <3>2 DEF GiveUp, GiveUpCancelWork, Goto
    <3>3. CASE Subscribe(c) \/ Record(c) \/ DropSubscription(c)
      BY <3>3 DEF Subscribe, Record, DropSubscription, AfterSubscribe, Goto
    <3>4. QED
      BY <1>3, <3>1, <3>2, <3>3
  <2>3. /\ call'[q] \in {"fail", "start"} => owner[q]
        /\ call'[q] \in Early => call[q] \in Early
    BY <1>0, <1>q, <2>2 DEF Typed, OwnerInv
  <2>4. QED
    BY <1>1, <2>1, <2>3
<1>4. ASSUME NEW c \in Consumers, Find(c) PROVE OwnerInv(q)'
  <2>1. /\ work' = work /\ call' = [call EXCEPT ![c] = "attach"]
        /\ \/ /\ made' = made + 1 /\ made < MaxOps /\ local' = [local EXCEPT ![c] = made + 1]
              /\ owner' = [owner EXCEPT ![c] = TRUE]
           \/ /\ made' = made /\ registry # None /\ local' = [local EXCEPT ![c] = registry]
              /\ owner' = [owner EXCEPT ![c] = FALSE]
    BY <1>4 DEF Find, Goto
  <2>2. /\ 1..made \subseteq (1..made)' /\ made + 1 \notin 1..made
        /\ made' = made + 1 => made + 1 \in (1..made)'
    BY <1>0, <2>1, MadeNext
  <2>3. registry \in 1..made \cup {None}
    BY <1>0 DEF FetchInv, OpInv
  <2>4. CASE made' = made + 1 /\ made < MaxOps
    <3>1. made + 1 \in Ops /\ made + 1 # None
      <4>1. made \in Nat /\ MaxOps \in Nat
        BY <1>0, OpsAssumption DEF FetchInv, TypeOK
      <4>2. made + 1 \in Ops
        BY <2>4, <4>1 DEF Ops
      <4>3. QED
        BY <1>0, <4>2
    <3>2. work[made + 1] = "none"
      BY <1>0, <2>2, <3>1 DEF WorkInv
    <3> DEFINE new == made + 1
    <3>3. \A d \in Consumers : local[d] # new
      BY <1>0, <2>2, <3>1 DEF OwnerInv
    <3>4. /\ new \in (1..made)' /\ 1..made \subseteq (1..made)' /\ work[new] = "none"
          /\ local' = [local EXCEPT ![c] = new] /\ owner' = [owner EXCEPT ![c] = TRUE]
      <4>1. made' # made
        <5>1. made \in Nat
          BY <1>0, OpsAssumption DEF FetchInv, TypeOK
        <5>2. QED
          BY <2>4, <5>1
      <4>2. QED
        BY <2>1, <2>2, <2>4, <3>2, <4>1
    <3> HIDE DEF new
    <3>5. /\ \A d \in Consumers : local'[d] = IF d = c THEN new ELSE local[d]
          /\ \A d \in Consumers : owner'[d] = IF d = c THEN TRUE ELSE owner[d]
          /\ \A d \in Consumers : call'[d] = IF d = c THEN "attach" ELSE call[d]
      BY <1>0, <2>1, <3>4 DEF Typed
    <3>6. \A d \in Consumers : owner'[q] /\ owner'[d] /\ local'[q] = local'[d] => q = d
      BY <1>0, <3>3, <3>5 DEF OwnerInv
    <3>7. local'[q] \in (1..made)' \cup {None}
      BY <1>q, <3>4, <3>5 DEF OwnerInv
    <3>8. /\ call'[q] \in {"fail", "start"} => owner'[q]
          /\ owner'[q] /\ call'[q] \in Early => work'[local'[q]] = "none"
      BY <1>q, <2>1, <3>4, <3>5 DEF OwnerInv
    <3>9. QED
      BY <3>6, <3>7, <3>8 DEF OwnerInv
  <2>5. CASE made' = made /\ registry # None /\ owner' = [owner EXCEPT ![c] = FALSE]
             /\ local' = [local EXCEPT ![c] = registry]
    <3>1. /\ \A d \in Consumers : local'[d] = IF d = c THEN registry ELSE local[d]
          /\ \A d \in Consumers : owner'[d] = IF d = c THEN FALSE ELSE owner[d]
          /\ \A d \in Consumers : call'[d] = IF d = c THEN "attach" ELSE call[d]
      BY <1>0, <2>1, <2>5 DEF Typed
    <3>2. \A d \in Consumers : owner'[q] /\ owner'[d] /\ local'[q] = local'[d] => q = d
      BY <1>0, <3>1 DEF OwnerInv
    <3>3. local'[q] \in (1..made)' \cup {None}
      BY <1>q, <2>2, <2>3, <3>1 DEF OwnerInv
    <3>4. /\ call'[q] \in {"fail", "start"} => owner'[q]
          /\ owner'[q] /\ call'[q] \in Early => work'[local'[q]] = "none"
      <4>1. CASE q = c
        BY <3>1, <4>1
      <4>2. CASE q # c
        <5>1. local'[q] = local[q] /\ owner'[q] = owner[q] /\ call'[q] = call[q] /\ work' = work
          BY <2>1, <3>1, <4>2
        <5>2. QED
          BY <1>q, <5>1 DEF OwnerInv
      <4>3. QED
        BY <4>1, <4>2
    <3>5. QED
      BY <3>2, <3>3, <3>4 DEF OwnerInv
  <2>6. QED
    BY <2>1, <2>4, <2>5
<1>5. ASSUME NEW c \in Consumers, Starts(c) PROVE OwnerInv(q)'
  <2>1. local[c] \in Ops /\ owner[c] /\ UNCHANGED <<made, owner, local>>
    BY <1>0, <1>5 DEF Starts, CallFacts, OwnerInv
  <2>2. /\ q = c => call'[q] = "returned"
        /\ q # c => call'[q] = call[q]
    BY <1>0, <1>5 DEF Starts, Typed
  <2>3. q # c /\ owner[q] => local[q] # local[c]
    BY <1>0, <2>1 DEF OwnerInv
  <2>4. q # c /\ owner[q] /\ call[q] \in Early => work'[local[q]] = work[local[q]]
    <3>1. call[q] \in Early => local[q] \in Ops
      BY <1>q DEF CallFacts
    <3>2. QED
      BY <1>0, <1>5, <2>1, <2>3, <3>1 DEF Starts, Typed
  <2>5. call'[q] \in {"fail", "start"} => owner[q]
    BY <1>q, <2>2 DEF OwnerInv
  <2>6. QED
    BY <1>1, <2>1, <2>2, <2>4, <2>5
<1>6. ASSUME NEW o \in Ops, OwnerWork(o) PROVE OwnerInv(q)'
  <2>1. UNCHANGED <<made, owner, local, call>>
    BY <1>6, WorkSteps DEF Working, Publish, Invoke, Erase
  <2>2. work[o] # "none" /\ \A p \in Ops : p # o => work'[p] = work[p]
    <3>1. \/ work[o] = "invoke" /\ work' = work
          \/ work[o] # "none" /\ \E l : work' = [work EXCEPT ![o] = l]
      BY <1>6, WorkSteps DEF Working, Publish, Invoke, Erase
    <3>2. QED
      BY <1>0, <3>1 DEF Typed
  <2>3. owner[q] /\ call[q] \in Early => work[local[q]] = "none" /\ local[q] \in Ops
    BY <1>q DEF OwnerInv, CallFacts
  <2>4. QED
    BY <1>q, <2>1, <2>2, <2>3 DEF OwnerInv
<1>7. ASSUME NEW c \in Consumers, CompletionStep(c) \/ Cancel(c) \/ CancelCallback(c) PROVE OwnerInv(q)'
  BY <1>2, <1>7 DEF CompletionStep, Detach, Unsubscribe, FinishRelease, FinishCancelWork,
     CallCompletion, Cancel, CancelCallback
<1>8. CASE UNCHANGED vars
  BY <1>2, <1>8 DEF vars
<1>9. QED
  BY <1>3, <1>4, <1>5, <1>6, <1>7, <1>8, StartSteps DEF Next, CallerStep

\* Nobody abandons an operation that somebody is attached to.
LEMMA HolderWanted ==
  ASSUME FetchInv, NEW c \in Consumers, holds[c]
  PROVE  ~abandoned[local[c]]
<1>1. local[c] \in Ops
  BY HolderHasOp
<1>2. c \in Attached(local[c]) /\ IsFiniteSet(Attached(local[c]))
  BY AttachedFinite DEF Attached
<1>3. Cardinality(Attached(local[c])) # 0
  BY <1>2, FS_EmptySet
<1>4. QED
  BY <1>1, <1>3 DEF FetchInv, ConsumersCounted

\* What a step may do to the operations while a call waits for one of them.
Steady(c) ==
  \A o \in Ops :
    /\ done[o] => done'[o]
    /\ abandoned[o] => abandoned'[o]
    /\ c \in callbacks[o] \cup todo[o] /\ work[o] # "ended" =>
         c \in callbacks'[o] \cup todo'[o] /\ work'[o] # "ended"

LEMMA WaitKept ==
  ASSUME ReturnInv, [Next]_vars, NEW q \in Consumers PROVE WaitInv(q)'
<1>0. /\ Typed /\ FetchInv /\ None \notin Ops /\ Requester # None
      /\ \A c \in Consumers : LeaveInv(c) /\ CallFacts(c)
      /\ \A o \in Ops : WorkInv(o)
  BY ReturnParts, Types, CallsKnown, ThreadAssumption
<1>q. LeaveInv(q) /\ CallFacts(q) /\ WaitInv(q)
  BY ReturnParts, CallsKnown
<1> SUFFICES ASSUME by'[q] = None PROVE WaitInv(q)'
  BY DEF WaitInv
<1> USE DEF opVars, workVars, callVars, bindVars, finishVars
<1>a. ASSUME by[q] = None, Steady(q), local'[q] = local[q], bound'[q] = bound[q], holds'[q] = holds[q],
             call'[q] \in {"bind", "subscribe"} => call[q] \in {"bind", "subscribe"},
             call'[q] \in {"record", "start", "returned"} => call[q] \in {"record", "start", "returned"}
      PROVE  WaitInv(q)'
  <2>1. Waits(q) => Waits(q)'
    BY <1>a DEF Steady, Waits
  <2>2. Orphaned(q) => Orphaned(q)'
    BY <1>a, <1>q DEF Steady, Orphaned, CallFacts
  <2>3. call[q] \in {"bind", "subscribe"} /\ ~holds[q] => done'[local[q]]
    <3>1. call[q] \in {"bind", "subscribe"} => local[q] \in Ops
      BY <1>q DEF CallFacts
    <3>2. QED
      BY <1>a, <1>q, <3>1 DEF Steady, WaitInv
  <2>4. QED
    BY <1>a, <1>q, <2>1, <2>2, <2>3 DEF WaitInv
<1>1. ASSUME NEW c \in Consumers, CompletionStep(c) PROVE WaitInv(q)'
  <2>1. by[c] # None /\ UNCHANGED <<by, call, local, bound, done, todo, work>>
    BY <1>0, <1>1 DEF CompletionStep, Detach, Unsubscribe, FinishRelease, FinishCancelWork,
       CallCompletion, ReleaseConsumer, LeaveInv
  <2>2. q # c
    BY <2>1
  <2>3. \A o \in Ops : abandoned[o] => abandoned'[o]
    BY <1>0, <1>1 DEF CompletionStep, Detach, Unsubscribe, FinishRelease, FinishCancelWork,
       CallCompletion, ReleaseConsumer, Typed
  <2>4. \A o \in Ops : callbacks[o] \ {c} \subseteq callbacks'[o]
    BY <1>0, <1>1 DEF CompletionStep, Detach, Unsubscribe, FinishRelease, FinishCancelWork,
       CallCompletion, Typed
  <2>5. holds'[q] = holds[q]
    BY <1>0, <1>1, <2>2 DEF CompletionStep, Detach, Unsubscribe, FinishRelease, FinishCancelWork,
       CallCompletion, ReleaseConsumer, Typed
  <2>6. Steady(q)
    BY <2>1, <2>2, <2>3, <2>4 DEF Steady
  <2>7. QED
    BY <1>a, <2>1, <2>5, <2>6
<1>2. ASSUME NEW c \in Consumers, Cancel(c) PROVE WaitInv(q)'
  BY <1>a, <1>2 DEF Cancel, Steady
<1>3. ASSUME NEW c \in Consumers, CancelCallback(c) PROVE WaitInv(q)'
  <2>1. by[q] = None
    BY <1>0, <1>3 DEF CancelCallback, Claim, Typed
  <2>2. QED
    BY <1>a, <1>3, <2>1 DEF CancelCallback, Steady
<1>4. ASSUME NEW c \in Consumers, Register(c) \/ CheckClaimed(c) \/ Find(c) \/ Forget(c)
      PROVE  WaitInv(q)'
  <2>1. UNCHANGED <<done, abandoned, callbacks, todo, work, holds, bound>>
    BY <1>4 DEF Register, CheckClaimed, Find, Forget
  <2>2. CASE q # c
    <3>1. by[q] = by'[q]
      BY <1>0, <1>4, <2>2 DEF Register, CheckClaimed, Find, Forget, Claim, Typed
    <3>2. call'[q] = call[q] /\ local'[q] = local[q]
      BY <1>0, <1>4, <2>2 DEF Register, CheckClaimed, Find, Forget, Goto, Typed
    <3>3. QED
      BY <1>a, <2>1, <3>1, <3>2 DEF Steady
  <2>3. CASE q = c
    <3>1. CASE Register(c) \/ CheckClaimed(c)
      <4>1. call'[q] = "registered"
        BY <1>0, <2>3, <3>1 DEF Register, CheckClaimed, Claim, Goto, Typed
      <4>2. QED
        BY <4>1 DEF WaitInv
    <3>2. CASE Find(c) \/ Forget(c)
      <4>1. call'[q] \in {"attach", "find"}
        BY <1>0, <2>3, <3>2 DEF Find, Forget, Goto, Typed
      <4>2. QED
        BY <4>1 DEF WaitInv
    <3>3. QED
      BY <1>4, <3>1, <3>2
  <2>4. QED
    BY <2>2, <2>3
<1>5. ASSUME NEW c \in Consumers, Attach(c) PROVE WaitInv(q)'
  <2>1. UNCHANGED <<done, abandoned, callbacks, todo, work, bound, by, local>>
    BY <1>5 DEF Attach
  <2>2. CASE q # c
    <3>1. call'[q] = call[q] /\ holds'[q] = holds[q]
      BY <1>0, <1>5, <2>2 DEF Attach, Goto, Typed
    <3>2. QED
      BY <1>a, <2>1, <3>1 DEF Steady
  <2>3. CASE q = c
    <3>1. call'[q] = "forget" \/ (call'[q] = "bind" /\ (done[local[q]] \/ holds'[q]))
      BY <1>0, <1>5, <2>3 DEF Attach, Goto, Typed
    <3>2. QED
      BY <2>1, <3>1 DEF WaitInv
  <2>4. QED
    BY <2>2, <2>3
<1>6. ASSUME NEW c \in Consumers, Bind(c) PROVE WaitInv(q)'
  <2>1. UNCHANGED <<done, abandoned, callbacks, todo, work, by, local, holds>>
    BY <1>6 DEF Bind
  <2>2. CASE q # c
    <3>1. call'[q] = call[q] /\ bound'[q] = bound[q]
      BY <1>0, <1>6, <2>2 DEF Bind, Goto, Typed
    <3>2. QED
      BY <1>a, <2>1, <3>1 DEF Steady
  <2>3. CASE q = c
    <3>1. call[q] = "bind" /\ call'[q] = "subscribe"
      BY <1>0, <1>6, <2>1, <2>3 DEF Bind, Goto, Typed
    <3>2. QED
      BY <1>q, <2>1, <3>1 DEF WaitInv
  <2>4. QED
    BY <2>2, <2>3
<1>7. ASSUME NEW c \in Consumers, GiveUp(c) \/ GiveUpCancelWork(c) \/ DropSubscription(c)
      PROVE  WaitInv(q)'
  <2>1. by[c] # None /\ UNCHANGED <<by, local, bound, done, todo, work>>
    BY <1>0, <1>7 DEF GiveUp, GiveUpCancelWork, DropSubscription, LeaveInv, ReleaseConsumer
  <2>2. q # c
    BY <2>1
  <2>3. call'[q] = call[q] /\ holds'[q] = holds[q]
    BY <1>0, <1>7, <2>2 DEF GiveUp, GiveUpCancelWork, DropSubscription, ReleaseConsumer, Goto, Typed
  <2>4. \A o \in Ops : /\ abandoned[o] => abandoned'[o]
                       /\ callbacks[o] \ {c} \subseteq callbacks'[o]
    BY <1>0, <1>7 DEF GiveUp, GiveUpCancelWork, DropSubscription, ReleaseConsumer, Typed
  <2>5. Steady(q)
    BY <2>1, <2>2, <2>4 DEF Steady
  <2>6. QED
    BY <1>a, <2>1, <2>3, <2>5
<1>8. ASSUME NEW c \in Consumers, Starts(c) PROVE WaitInv(q)'
  <2>1. UNCHANGED <<by, local, bound, holds, done, abandoned, callbacks, todo>>
    BY <1>8 DEF Starts
  <2>2. \A o \in Ops : work[o] # "ended" => work'[o] # "ended"
    BY <1>0, <1>8 DEF Starts, Typed
  <2>3. call[c] = "fail" => by[c] # None
    BY <1>0, <1>8 DEF LeaveInv
  <2>4. call'[q] = call[q] \/ (q = c /\ call[c] = "start" /\ call'[q] = "returned")
    BY <1>0, <1>8, <2>1, <2>3 DEF Starts, Typed
  <2>5. Steady(q)
    BY <2>1, <2>2 DEF Steady
  <2>6. QED
    BY <1>a, <2>1, <2>4, <2>5
<1>9. ASSUME NEW c \in Consumers, Record(c) PROVE WaitInv(q)'
  <2>1. UNCHANGED <<by, local, bound, holds, done, abandoned, callbacks, todo, work>>
    BY <1>9 DEF Record
  <2>2. call'[q] = call[q] \/ (q = c /\ call[c] = "record" /\ call'[q] \in {"drop", "start", "returned"})
    BY <1>0, <1>9 DEF Record, AfterSubscribe, Goto, Typed
  <2>3. Steady(q)
    BY <2>1 DEF Steady
  <2>4. QED
    BY <1>a, <2>1, <2>2, <2>3
<1>10. ASSUME NEW c \in Consumers, Subscribe(c) PROVE WaitInv(q)'
  <2>1. UNCHANGED <<local, bound, holds, done, abandoned, todo, work>> /\ by[q] = None
    BY <1>0, <1>10 DEF Subscribe, Claim, Typed
  <2>2. CASE q # c
    <3>1. call'[q] = call[q]
      BY <1>0, <1>10, <2>2 DEF Subscribe, Goto, Typed
    <3>2. \A o \in Ops : callbacks[o] \subseteq callbacks'[o]
      BY <1>0, <1>10 DEF Subscribe, Typed
    <3>3. Steady(q)
      BY <2>1, <3>2 DEF Steady
    <3>4. QED
      BY <1>a, <2>1, <3>1, <3>3
  <2>3. CASE q = c
    <3>1. call[q] = "subscribe" /\ bound[q] /\ local[q] \in Ops
      BY <1>10, <1>q, <2>3 DEF Subscribe, LeaveInv, CallFacts
    <3>2. call'[q] \notin {"bind", "subscribe"}
      BY <1>0, <1>10, <2>3 DEF Subscribe, AfterSubscribe, Goto, Typed
    <3>3. CASE abandoned[local[q]]
      <4>1. done[local[q]]
        BY <1>0, <1>q, <2>1, <3>1, <3>3, HolderWanted DEF WaitInv
      <4>2. Orphaned(q)'
        BY <2>1, <3>1, <3>3, <4>1 DEF Orphaned
      <4>3. QED
        BY <3>2, <4>2 DEF WaitInv
    <3>4. CASE ~abandoned[local[q]] /\ ~done[local[q]]
      <4>1. q \in callbacks'[local[q]]
        BY <1>0, <1>10, <2>3, <3>1, <3>4 DEF Subscribe, Typed
      <4>2. work[local[q]] # "ended"
        BY <1>0, <3>1, <3>4 DEF WorkInv, Publishing
      <4>3. Waits(q)'
        BY <2>1, <3>1, <4>1, <4>2 DEF Waits
      <4>4. QED
        BY <3>2, <4>3 DEF WaitInv
    <3>5. CASE ~abandoned[local[q]] /\ done[local[q]]
      <4>1. Claim(q, Requester, payload[local[q]])
        BY <1>10, <2>3, <3>5 DEF Subscribe
      <4>2. by'[q] # None
        BY <1>0, <2>1, <4>1 DEF Claim, Typed
      <4>3. QED
        BY <4>2
    <3>6. QED
      BY <3>3, <3>4, <3>5
  <2>4. QED
    BY <2>2, <2>3
<1>11. ASSUME NEW o \in Ops, OwnerWork(o) PROVE WaitInv(q)'
  <2>1. UNCHANGED <<local, bound, holds, call, abandoned>>
    BY <1>11, WorkSteps DEF Working, Publish, Invoke, Erase
  <2>2. CASE Working(o)
    <3>1. UNCHANGED <<by, done, callbacks, todo>> /\ \A p \in Ops : work[p] # "ended" => work'[p] # "ended"
      BY <1>0, <2>2 DEF Working, Typed
    <3>2. Steady(q)
      BY <2>1, <3>1 DEF Steady
    <3>3. QED
      BY <1>a, <2>1, <3>1, <3>2
  <2>3. CASE Publish(o)
    <3>1. /\ by' = by /\ todo[o] = {}
          /\ done'[o] /\ todo'[o] = callbacks[o] /\ work'[o] = "invoke"
          /\ \A p \in Ops : p # o => /\ done'[p] = done[p] /\ callbacks'[p] = callbacks[p]
                                     /\ todo'[p] = todo[p] /\ work'[p] = work[p]
      BY <1>0, <2>3 DEF Publish, Typed, WorkInv
    <3>2. Steady(q)
      BY <2>1, <3>1 DEF Steady
    <3>3. QED
      BY <1>a, <2>1, <3>1, <3>2
  <2>4. CASE Invoke(o)
    <3>1. PICK c \in todo[o] : /\ Claim(c, o, payload[o])
                               /\ todo' = [todo EXCEPT ![o] = @ \ {c}]
      BY <2>4 DEF Invoke
    <3>2. c \in Consumers /\ UNCHANGED <<done, callbacks, work>>
      BY <1>0, <2>4 DEF Invoke, Typed
    <3>3. q # c /\ by[q] = None
      BY <1>0, <3>1, <3>2 DEF Claim, Typed
    <3>4. \A p \in Ops : todo[p] \ {c} \subseteq todo'[p]
      BY <1>0, <3>1 DEF Typed
    <3>5. Steady(q)
      BY <2>1, <3>2, <3>3, <3>4 DEF Steady
    <3>6. QED
      BY <1>a, <2>1, <3>3, <3>5
  <2>5. CASE Erase(o)
    <3>1. /\ UNCHANGED <<by, done, callbacks, todo>> /\ todo[o] = {} /\ callbacks[o] = {}
          /\ \A p \in Ops : p # o => work'[p] = work[p]
      BY <1>0, <2>5 DEF Erase, Typed, WorkInv, Publishing
    <3>2. Steady(q)
      BY <2>1, <3>1 DEF Steady
    <3>3. QED
      BY <1>a, <2>1, <3>1, <3>2
  <2>6. QED
    BY <1>11, <2>2, <2>3, <2>4, <2>5, WorkSteps
<1>12. CASE UNCHANGED vars
  BY <1>a, <1>12 DEF vars, Steady
<1>13. QED
  BY <1>1, <1>2, <1>3, <1>4, <1>5, <1>6, <1>7, <1>8, <1>9, <1>10, <1>11, <1>12, StartSteps
     DEF Next, CallerStep

LEMMA InitReturnInv == Init => ReturnInv
<1> SUFFICES ASSUME Init PROVE ReturnInv
  OBVIOUS
<1>1. None \notin 1..made
  BY OpsAssumption DEF Init
<1>2. \A c \in Consumers : LeaveInv(c) /\ OwnerInv(c) /\ WaitInv(c)
  BY ThreadAssumption DEF Init, LeaveInv, OwnerInv, WaitInv
<1>3. \A o \in Ops : CallbackInv(o) /\ WorkInv(o)
  BY DEF Init, CallbackInv, WorkInv, Publishing
<1>4. QED
  BY <1>2, <1>3, InitFetchInv DEF ReturnInv

LEMMA ReturnKept == ReturnInv /\ [Next]_vars => ReturnInv'
<1> SUFFICES ASSUME ReturnInv, [Next]_vars PROVE ReturnInv'
  OBVIOUS
<1>1. FetchInv'
  BY FetchKept, ReturnParts
<1>2. \A c \in Consumers : LeaveInv(c)' /\ OwnerInv(c)' /\ WaitInv(c)'
  BY LeaveKept, OwnerKept, WaitKept
<1>3. \A o \in Ops : CallbackInv(o)' /\ WorkInv(o)'
  BY CallbackKept, WorkKept
<1>4. QED
  BY <1>1, <1>2, <1>3 DEF ReturnInv

-----------------------------------------------------------------------------
(* The theorems *)

\* FetchInv holds of every behaviour: with any number of callers, cancelled at
\* any point, and whatever the operations' work returns.
THEOREM FetchInvariant == Spec => []FetchInv
<1>1. FetchInv /\ [Next]_vars => FetchInv'
  BY FetchKept
<1>2. QED
  BY <1>1, InitFetchInv, PTL DEF Spec

\* Two callers of one key never have two fetches of it under way.
THEOREM OneFetchAtATime == Spec => []SingleFlight
<1>1. FetchInv => SingleFlight
  BY DEF FetchInv
<1>2. QED
  BY <1>1, FetchInvariant, PTL

\* The reference count of an operation is exact, and work is only cancelled when
\* nobody is attached.
THEOREM AttachmentsCounted == Spec => []ConsumersCounted
<1>1. FetchInv => ConsumersCounted
  BY DEF FetchInv
<1>2. QED
  BY <1>1, FetchInvariant, PTL

\* A call that has returned and been answered has left no attachment and no callback
\* in the operation, in whatever order its own steps, its cancellation and the
\* publication came (attachOwnedWebGetAsyncConsumer, setOwnedWebGetAsyncSubscription).
THEOREM AnsweredCallHasLeft == Spec => []AnsweredHasLeft
<1>1. ReturnInv => AnsweredHasLeft
  <2> SUFFICES ASSUME ReturnInv, NEW c \in Consumers, fin[c] = "done", call[c] = "returned"
               PROVE  ~holds[c] /\ \A o \in Ops : c \notin callbacks[o]
    BY DEF AnsweredHasLeft
  <2>1. ~holds[c]
    BY ReturnParts DEF LeaveInv
  <2>2. \A o \in Ops : c \notin callbacks[o]
    BY ReturnParts DEF CallbackInv
  <2>3. QED
    BY <2>1, <2>2
<1>2. QED
  BY <1>1, InitReturnInv, ReturnKept, PTL DEF Spec

\* A call that has returned unanswered has its callback with an operation that will
\* run it, unless that operation was abandoned before it was finished and both before
\* the call subscribed: the one gap of CacheFetchOperation::subscribe.
THEOREM OnlyAbandonedForgets == Spec => []ForgottenOnlyByAbandoned
<1>1. ReturnInv => ForgottenOnlyByAbandoned
  BY ReturnParts DEF ForgottenOnlyByAbandoned, Pending, WaitInv
<1>2. QED
  BY <1>1, InitReturnInv, ReturnKept, PTL DEF Spec

-----------------------------------------------------------------------------
(* The promise of SharedFetch.  Its fetches are the operations: the callers *)
(* of one are those attached to it, and what it has come to is what was     *)
(* published before everybody left.  That an answer is the fetch's, or the  *)
(* caller's own cancellation, rests on these parts.                         *)

\* What a call was told: its own cancellation only if it was cancelled, and
\* nothing else before it was bound.
ToldInv(c) ==
  /\ outcome[c] = None <=> by[c] = None
  /\ outcome[c] = "Own" => c \in cancelled
  /\ by[c] # None /\ ~bound[c] => outcome[c] = "Own"

\* A call looks for an operation because it has none or because its own was abandoned.
SeatInv(c) ==
  /\ call[c] \in {"idle", "registered"} => local[c] = None
  /\ call[c] = "find" => abandoned[local[c]] /\ local[c] \in Ops

\* What is published is a result; that nobody wanted it is said only where that is
\* so, and that it was not started only where its owner was cancelled.
PayloadInv(o) ==
  /\ work[o] \in {"publish", "invoke", "ended"} => payload[o] # None
  /\ payload[o] = "NoConsumers" => abandoned[o]
  /\ payload[o] = "NotStarted" =>
       \E c \in Consumers : local[c] = o /\ outcome[c] = "Own" /\ call[c] = "returned"

\* A callback that has not been called keeps the attachment of its call.
TakenInv(o) ==
  /\ \A c \in todo[o] : local[c] = o /\ bound[c]
  /\ \A c \in callbacks[o] \cup todo[o] : by[c] = None => holds[c]

\* An operation under way that somebody has looked at, or works on, is attached to.
KeptInv(o) ==
  o \in 1..made /\ ~done[o] /\ ~abandoned[o] /\ Attached(o) = {} =>
    /\ work[o] = "none"
    /\ \A c \in Consumers : local[c] = o => call[c] = "attach"

SharedInv ==
  /\ ReturnInv
  /\ \A c \in Consumers : ToldInv(c) /\ SeatInv(c)
  /\ \A o \in Ops : PayloadInv(o) /\ TakenInv(o) /\ KeptInv(o)

LEMMA SharedParts ==
  ASSUME SharedInv
  PROVE  /\ ReturnInv /\ FetchInv /\ Typed /\ None \notin Ops /\ Requester # None
         /\ \A c \in Consumers : /\ ToldInv(c) /\ SeatInv(c)
                                 /\ LeaveInv(c) /\ OwnerInv(c) /\ WaitInv(c) /\ CallFacts(c)
         /\ \A o \in Ops : /\ PayloadInv(o) /\ TakenInv(o) /\ KeptInv(o)
                           /\ CallbackInv(o) /\ WorkInv(o)
BY ReturnParts, Types, CallsKnown, ThreadAssumption DEF SharedInv

LEMMA OutcomeTypes ==
  FetchInv => /\ outcome = [c \in Consumers |-> outcome[c]]
              /\ payload \in [Ops -> Result \cup {None}]
BY DEF FetchInv, TypeOK

\* What a step may tell one call.
Untold(q) == by'[q] = by[q] /\ outcome'[q] = outcome[q]
ToldOwn(q) == by[q] = None /\ by'[q] # None /\ q \in cancelled /\ outcome'[q] = "Own"
ToldResult(q) ==
  /\ by[q] = None /\ by'[q] # None /\ bound[q]
  /\ local[q] \in Ops /\ Published(local[q])
  /\ outcome'[q] = IF q \in cancelled THEN "Own" ELSE payload[local[q]]

\* The claim of one completion leaves the others as they are.
LEMMA ClaimTells ==
  ASSUME Typed, outcome = [c \in Consumers |-> outcome[c]],
         NEW c \in Consumers, NEW thread, thread # None, NEW r, Claim(c, thread, r),
         NEW q \in Consumers
  PROVE  \/ Untold(q)
         \/ /\ q = c /\ by[c] = None /\ by'[c] # None
            /\ outcome'[c] = IF c \in cancelled THEN "Own" ELSE r
<1>1. CASE by[c] = None
  <2>1. /\ by' = [by EXCEPT ![c] = thread]
        /\ outcome' = [outcome EXCEPT ![c] = IF c \in cancelled THEN "Own" ELSE r]
    BY <1>1 DEF Claim
  <2>2. QED
    BY <1>1, <2>1 DEF Typed, Untold
<1>2. CASE by[c] # None
  BY <1>2 DEF Claim, finishVars, Untold
<1>3. QED
  BY <1>1, <1>2

\* The steps that claim a completion, and those that do not.
LEMMA SubscribeTells ==
  ASSUME SharedInv, NEW c \in Consumers, Subscribe(c)
  PROVE  \/ UNCHANGED <<by, outcome>>
         \/ /\ Published(local[c]) /\ Claim(c, Requester, payload[local[c]])
            /\ bound[c] /\ local[c] \in Ops
<1>1. bound[c] /\ local[c] \in Ops
  BY SharedParts DEF Subscribe, LeaveInv, CallFacts
<1>2. QED
  BY <1>1 DEF Subscribe, Published, finishVars

LEMMA InvokeTells ==
  ASSUME SharedInv, NEW o \in Ops, Invoke(o)
  PROVE  \E c \in Consumers : /\ c \in todo[o] /\ Claim(c, o, payload[o])
                              /\ todo' = [todo EXCEPT ![o] = @ \ {c}]
                              /\ bound[c] /\ local[c] = o
                              /\ by[c] = None => Published(o)
<1>1. PICK c \in todo[o] : Claim(c, o, payload[o]) /\ todo' = [todo EXCEPT ![o] = @ \ {c}]
  BY DEF Invoke
<1>2. c \in Consumers /\ bound[c] /\ local[c] = o
  BY <1>1, SharedParts DEF Typed, TakenInv
<1>3. by[c] = None => Published(o)
  <2>1. done[o]
    BY SharedParts DEF Invoke, WorkInv, Publishing
  <2>2. by[c] = None => holds[c]
    BY <1>1, SharedParts DEF TakenInv
  <2>3. by[c] = None => ~abandoned[o]
    BY <1>2, <2>2, HolderWanted, SharedParts
  <2>4. QED
    BY <2>1, <2>3 DEF Published
<1>4. QED
  BY <1>1, <1>2, <1>3

LEMMA SilentSteps ==
  ASSUME NEW c, \/ CompletionStep(c) \/ Cancel(c) \/ CheckClaimed(c) \/ Find(c) \/ Attach(c) \/ Forget(c)
                \/ Bind(c) \/ GiveUp(c) \/ GiveUpCancelWork(c) \/ FailOwned(c) \/ Record(c)
                \/ DropSubscription(c) \/ Start(c)
  PROVE  UNCHANGED <<by, outcome>>
<1> USE DEF finishVars
<1>1. CASE CompletionStep(c)
  BY <1>1 DEF CompletionStep, Detach, Unsubscribe, FinishRelease, FinishCancelWork, CallCompletion
<1>2. CASE Cancel(c) \/ CheckClaimed(c) \/ Find(c) \/ Attach(c) \/ Forget(c) \/ Bind(c)
  BY <1>2 DEF Cancel, CheckClaimed, Find, Attach, Forget, Bind
<1>3. CASE GiveUp(c) \/ GiveUpCancelWork(c) \/ FailOwned(c)
  BY <1>3 DEF GiveUp, GiveUpCancelWork, FailOwned
<1>4. CASE Record(c) \/ DropSubscription(c) \/ Start(c)
  BY <1>4 DEF Record, DropSubscription, Start
<1>5. QED
  BY <1>1, <1>2, <1>3, <1>4

LEMMA Tellings ==
  ASSUME SharedInv, [Next]_vars, NEW q \in Consumers
  PROVE  Untold(q) \/ ToldOwn(q) \/ ToldResult(q)
<1>0. /\ FetchInv /\ Typed /\ None \notin Ops /\ Requester # None
      /\ outcome = [c \in Consumers |-> outcome[c]]
  BY SharedParts, OutcomeTypes
<1>1. CASE UNCHANGED <<by, outcome>>
  BY <1>1 DEF Untold
<1>2. ASSUME NEW c \in Consumers, c \in cancelled, Claim(c, Requester, "Own")
      PROVE  Untold(q) \/ ToldOwn(q)
  BY <1>0, <1>2, ClaimTells DEF ToldOwn
<1>3. ASSUME NEW c \in Consumers, NEW thread \in Ops \cup {Requester},
             by[c] = None => Published(local[c]),
             bound[c], local[c] \in Ops, Claim(c, thread, payload[local[c]])
      PROVE  Untold(q) \/ ToldResult(q)
  BY <1>0, <1>3, ClaimTells DEF ToldResult
<1>4. ASSUME NEW c \in Consumers, Register(c) \/ CancelCallback(c) PROVE Untold(q) \/ ToldOwn(q)
  BY <1>1, <1>2, <1>4 DEF Register, CancelCallback, finishVars, Untold
<1>5. ASSUME NEW c \in Consumers, Subscribe(c) PROVE Untold(q) \/ ToldResult(q)
  BY <1>3, <1>5, SubscribeTells DEF Untold
<1>6. ASSUME NEW o \in Ops, Invoke(o) PROVE Untold(q) \/ ToldResult(q)
  <2>1. PICK c \in Consumers : /\ Claim(c, o, payload[o]) /\ bound[c] /\ local[c] = o
                               /\ by[c] = None => Published(o)
    BY <1>6, InvokeTells
  <2>2. QED
    BY <1>3, <2>1
<1>7. ASSUME NEW o \in Ops, OwnerWork(o), ~Invoke(o) PROVE UNCHANGED <<by, outcome>>
  BY <1>7 DEF OwnerWork, Refused, Load, Fetched, FetchedFallback, Finalize, Store, WorkStep,
     Publish, Erase, finishVars
<1>8. CASE UNCHANGED vars
  BY <1>1, <1>8 DEF vars, finishVars
<1>9. QED
  BY <1>1, <1>4, <1>5, <1>6, <1>7, <1>8, SilentSteps DEF Next, CallerStep

\* A step of one call, and one of an operation, leaves the other calls where they are.
Alone(c) ==
  \A q \in Consumers \ {c} : /\ call'[q] = call[q] /\ local'[q] = local[q]
                             /\ holds'[q] = holds[q] /\ bound'[q] = bound[q]

LEMMA MovesAlone ==
  ASSUME FetchInv, NEW c \in Consumers,
         Register(c) \/ CallerStep(c) \/ CompletionStep(c) \/ Cancel(c) \/ CancelCallback(c)
  PROVE  Alone(c)
<1>0. Typed
  BY Types
<1> USE DEF callVars, bindVars
<1>1. call' = call \/ \E stage : call' = [call EXCEPT ![c] = stage]
  <2>1. CASE CompletionStep(c) \/ Cancel(c) \/ CancelCallback(c)
    BY <2>1 DEF CompletionStep, Detach, Unsubscribe, FinishRelease, FinishCancelWork,
       CallCompletion, Cancel, CancelCallback
  <2>2. CASE Register(c) \/ CheckClaimed(c) \/ Find(c) \/ Attach(c) \/ Forget(c) \/ Bind(c)
    BY <2>2 DEF Register, CheckClaimed, Find, Attach, Forget, Bind, Goto
  <2>3. CASE \/ GiveUp(c) \/ GiveUpCancelWork(c) \/ FailOwned(c)
             \/ Subscribe(c) \/ Record(c) \/ DropSubscription(c) \/ Start(c)
    BY <2>3 DEF GiveUp, GiveUpCancelWork, FailOwned, Subscribe, Record, DropSubscription, Start, Goto
  <2>4. QED
    BY <2>1, <2>2, <2>3 DEF CallerStep
<1>2. /\ local' = local \/ \E o : local' = [local EXCEPT ![c] = o]
      /\ holds' = holds \/ \E b : holds' = [holds EXCEPT ![c] = b]
      /\ bound' = bound \/ \E b : bound' = [bound EXCEPT ![c] = b]
  <2>1. CASE CompletionStep(c) \/ Cancel(c) \/ CancelCallback(c)
    BY <2>1 DEF CompletionStep, Detach, Unsubscribe, FinishRelease, FinishCancelWork,
       CallCompletion, Cancel, CancelCallback, ReleaseConsumer
  <2>2. CASE Register(c) \/ CheckClaimed(c) \/ Find(c) \/ Attach(c) \/ Forget(c) \/ Bind(c)
    BY <2>2 DEF Register, CheckClaimed, Find, Attach, Forget, Bind
  <2>3. CASE \/ GiveUp(c) \/ GiveUpCancelWork(c) \/ FailOwned(c)
             \/ Subscribe(c) \/ Record(c) \/ DropSubscription(c) \/ Start(c)
    BY <2>3 DEF GiveUp, GiveUpCancelWork, FailOwned, Subscribe, Record, DropSubscription, Start,
       ReleaseConsumer
  <2>4. QED
    BY <2>1, <2>2, <2>3 DEF CallerStep
<1>3. QED
  BY <1>0, <1>1, <1>2 DEF Typed, Alone

LEMMA WorkMovesNobody ==
  ASSUME NEW o, OwnerWork(o)
  PROVE  UNCHANGED <<call, local, holds, bound, cancelled, made, abandoned, count>>
BY DEF OwnerWork, Refused, Load, Fetched, FetchedFallback, Finalize, Store, WorkStep, Publish,
   Invoke, Erase, opVars, callVars, bindVars

\* Nobody is uncancelled, and no operation is taken up again.
LEMMA OnlyGrow ==
  ASSUME SharedInv, [Next]_vars
  PROVE  /\ cancelled \subseteq cancelled'
         /\ \A o \in Ops : abandoned[o] => abandoned'[o]
<1>0. Typed
  BY SharedParts
<1> USE DEF opVars
<1>1. ASSUME NEW c \in Consumers,
             Register(c) \/ CallerStep(c) \/ CompletionStep(c) \/ Cancel(c) \/ CancelCallback(c)
      PROVE  /\ cancelled \subseteq cancelled'
             /\ \A o \in Ops : abandoned[o] => abandoned'[o]
  <2>1. CASE CompletionStep(c) \/ Cancel(c) \/ CancelCallback(c)
    BY <1>0, <2>1 DEF CompletionStep, Detach, Unsubscribe, FinishRelease, FinishCancelWork,
       CallCompletion, Cancel, CancelCallback, ReleaseConsumer, Typed
  <2>2. CASE Register(c) \/ CheckClaimed(c) \/ Find(c) \/ Attach(c) \/ Forget(c) \/ Bind(c)
    BY <2>2 DEF Register, CheckClaimed, Find, Attach, Forget, Bind
  <2>3. CASE \/ GiveUp(c) \/ GiveUpCancelWork(c) \/ FailOwned(c)
             \/ Subscribe(c) \/ Record(c) \/ DropSubscription(c) \/ Start(c)
    BY <1>0, <2>3 DEF GiveUp, GiveUpCancelWork, FailOwned, Subscribe, Record, DropSubscription, Start,
       ReleaseConsumer, Typed
  <2>4. QED
    BY <1>1, <2>1, <2>2, <2>3 DEF CallerStep
<1>2. CASE UNCHANGED vars \/ \E o \in Ops : OwnerWork(o)
  BY <1>2, WorkMovesNobody DEF vars
<1>3. QED
  BY <1>1, <1>2 DEF Next

\* A call that is bound, or has returned, keeps its operation.
LEMMA Onward ==
  ASSUME SharedInv, [Next]_vars, NEW q \in Consumers
  PROVE  /\ bound[q] => bound'[q] /\ local'[q] = local[q]
         /\ call[q] = "returned" => call'[q] = "returned" /\ local'[q] = local[q]
<1>0. FetchInv /\ CallFacts(q)
  BY SharedParts
<1> USE DEF callVars, bindVars
<1>1. ASSUME NEW c \in Consumers,
             Register(c) \/ CallerStep(c) \/ CompletionStep(c) \/ Cancel(c) \/ CancelCallback(c)
      PROVE  /\ bound[q] => bound'[q] /\ local'[q] = local[q]
             /\ call[q] = "returned" => call'[q] = "returned" /\ local'[q] = local[q]
  <2>1. CASE q # c
    BY <1>0, <1>1, <2>1, MovesAlone DEF Alone
  <2>2. CASE q = c
    <3>1. CASE CompletionStep(c) \/ Cancel(c) \/ CancelCallback(c)
      BY <2>2, <3>1 DEF CompletionStep, Detach, Unsubscribe, FinishRelease, FinishCancelWork,
         CallCompletion, Cancel, CancelCallback
    <3>2. CASE Register(c) \/ CheckClaimed(c) \/ Find(c) \/ Attach(c) \/ Forget(c) \/ Bind(c)
      BY <1>0, <2>2, <3>2 DEF Register, CheckClaimed, Find, Attach, Forget, Bind, CallFacts
    <3>3. CASE \/ GiveUp(c) \/ GiveUpCancelWork(c) \/ FailOwned(c)
               \/ Subscribe(c) \/ Record(c) \/ DropSubscription(c) \/ Start(c)
      BY <2>2, <3>3 DEF GiveUp, GiveUpCancelWork, FailOwned, Subscribe, Record, DropSubscription, Start
    <3>4. QED
      BY <1>1, <3>1, <3>2, <3>3 DEF CallerStep
  <2>3. QED
    BY <2>1, <2>2
<1>2. CASE UNCHANGED vars \/ \E o \in Ops : OwnerWork(o)
  BY <1>2, WorkMovesNobody DEF vars
<1>3. QED
  BY <1>1, <1>2 DEF Next

LEMMA ToldKept ==
  ASSUME SharedInv, [Next]_vars, NEW q \in Consumers PROVE ToldInv(q)'
<1>0. /\ ToldInv(q) /\ None \notin Ops
      /\ \A o \in Ops : PayloadInv(o) /\ WorkInv(o)
  BY SharedParts
<1>1. cancelled \subseteq cancelled' /\ (bound[q] => bound'[q])
  BY Onward, OnlyGrow
<1>2. CASE Untold(q)
  BY <1>0, <1>1, <1>2 DEF Untold, ToldInv
<1>3. CASE ToldOwn(q)
  BY <1>1, <1>3, NoneAssumption DEF ToldOwn, ToldInv
<1>4. CASE ToldResult(q)
  <2>1. payload[local[q]] # None
    BY <1>0, <1>4 DEF ToldResult, Published, PayloadInv, WorkInv, Publishing
  <2>2. payload[local[q]] # "Own"
    BY <1>4, SharedParts, OutcomeTypes, NoneAssumption DEF ToldResult, Result
  <2>3. QED
    BY <1>1, <1>4, <2>1, <2>2, NoneAssumption DEF ToldResult, ToldInv
<1>5. QED
  BY <1>2, <1>3, <1>4, Tellings

LEMMA SeatKept ==
  ASSUME SharedInv, [Next]_vars, NEW q \in Consumers PROVE SeatInv(q)'
<1>0. /\ SeatInv(q) /\ FetchInv /\ Typed /\ CallFacts(q)
      /\ \A o \in Ops : abandoned[o] => abandoned'[o]
  BY SharedParts, OnlyGrow
<1> USE DEF opVars, callVars, bindVars
<1>1. CASE call'[q] = call[q] /\ local'[q] = local[q]
  BY <1>0, <1>1 DEF SeatInv
<1>2. ASSUME NEW c \in Consumers,
             Register(c) \/ CallerStep(c) \/ CompletionStep(c) \/ Cancel(c) \/ CancelCallback(c)
      PROVE  SeatInv(q)'
  <2>1. CASE q # c
    BY <1>0, <1>1, <1>2, <2>1, MovesAlone DEF Alone
  <2>2. CASE q = c
    <3>1. CASE CompletionStep(c) \/ Cancel(c) \/ CancelCallback(c)
      BY <1>1, <2>2, <3>1 DEF CompletionStep, Detach, Unsubscribe, FinishRelease, FinishCancelWork,
         CallCompletion, Cancel, CancelCallback
    <3>2. CASE Register(c)
      BY <1>0, <2>2, <3>2 DEF Register, Goto, Typed, SeatInv
    <3>3. CASE Forget(c)
      <4>1. call[q] = "forget" /\ call'[q] = "find" /\ UNCHANGED <<local, abandoned>>
        BY <1>0, <2>2, <3>3 DEF Forget, Goto, Typed
      <4>2. abandoned[local[q]] /\ local[q] \in Ops
        BY <1>0, <4>1 DEF CallFacts, FetchInv, CallInv
      <4>3. QED
        BY <4>1, <4>2 DEF SeatInv
    <3>4. CASE CheckClaimed(c) \/ Find(c) \/ Attach(c) \/ Bind(c)
      <4>1. call'[q] \notin {"idle", "registered", "find"}
        BY <1>0, <2>2, <3>4 DEF CheckClaimed, Find, Attach, Bind, Goto, Typed
      <4>2. QED
        BY <4>1 DEF SeatInv
    <3>5. CASE \/ GiveUp(c) \/ GiveUpCancelWork(c) \/ FailOwned(c)
               \/ Subscribe(c) \/ Record(c) \/ DropSubscription(c) \/ Start(c)
      <4>1. call'[q] \notin {"idle", "registered", "find"}
        BY <1>0, <2>2, <3>5 DEF GiveUp, GiveUpCancelWork, FailOwned, Subscribe, Record,
           DropSubscription, Start, AfterSubscribe, Goto, Typed
      <4>2. QED
        BY <4>1 DEF SeatInv
    <3>6. QED
      BY <1>2, <3>1, <3>2, <3>3, <3>4, <3>5 DEF CallerStep
  <2>3. QED
    BY <2>1, <2>2
<1>3. CASE UNCHANGED vars \/ \E o \in Ops : OwnerWork(o)
  BY <1>1, <1>3, WorkMovesNobody DEF vars
<1>4. QED
  BY <1>2, <1>3 DEF Next

\* The results of the work before it is published.
Producing(o) ==
  \E stage \in {"publish", "network", "finalize", "fallback", "store"},
     r \in {"Ok", "Failed", "NoConsumers", None} :
    /\ WorkStep(o, stage, r)
    /\ r = "NoConsumers" => token[o]
    /\ stage = "publish" => r # None

LEMMA Products ==
  ASSUME NEW o, OwnerWork(o)
  PROVE  (Working(o) /\ Producing(o)) \/ Publish(o) \/ Invoke(o) \/ Erase(o)
<1> USE NoneAssumption DEF Producing
<1>1. Refused(o) => Producing(o)
  BY DEF Refused
<1>2. Load(o) => Producing(o)
  BY DEF Load
<1>3. Fetched(o) \/ FetchedFallback(o) => Producing(o)
  BY DEF Fetched, FetchedFallback
<1>4. Finalize(o) \/ Store(o) => Producing(o)
  BY DEF Finalize, Store
<1>5. Refused(o) \/ Load(o) \/ Fetched(o) \/ FetchedFallback(o) \/ Finalize(o) \/ Store(o) => Producing(o)
  BY <1>1, <1>2, <1>3, <1>4
<1>6. QED
  BY <1>5, WorkSteps DEF OwnerWork, Working, Publish, Invoke, Erase

\* What only the work and its owner's start or failure touch.
LEMMA PayloadFrame ==
  ASSUME NEW c, \/ Register(c) \/ CompletionStep(c) \/ Cancel(c) \/ CancelCallback(c)
                \/ CheckClaimed(c) \/ Find(c) \/ Attach(c) \/ Forget(c) \/ Bind(c) \/ GiveUp(c)
                \/ GiveUpCancelWork(c) \/ Subscribe(c) \/ Record(c) \/ DropSubscription(c)
  PROVE  UNCHANGED <<work, payload, todo, done>>
<1> USE DEF opVars, workVars
<1>1. CASE CompletionStep(c)
  BY <1>1 DEF CompletionStep, Detach, Unsubscribe, FinishRelease, FinishCancelWork, CallCompletion
<1>2. CASE Register(c) \/ Cancel(c) \/ CancelCallback(c) \/ CheckClaimed(c) \/ Find(c)
  BY <1>2 DEF Register, Cancel, CancelCallback, CheckClaimed, Find
<1>3. CASE Attach(c) \/ Forget(c) \/ Bind(c) \/ GiveUp(c) \/ GiveUpCancelWork(c)
  BY <1>3 DEF Attach, Forget, Bind, GiveUp, GiveUpCancelWork
<1>4. CASE Subscribe(c) \/ Record(c) \/ DropSubscription(c)
  BY <1>4 DEF Subscribe, Record, DropSubscription
<1>5. QED
  BY <1>1, <1>2, <1>3, <1>4

LEMMA PayloadKept ==
  ASSUME SharedInv, [Next]_vars, NEW o \in Ops PROVE PayloadInv(o)'
<1>0. /\ FetchInv /\ Typed /\ PayloadInv(o) /\ payload = [p \in Ops |-> payload[p]]
      /\ \A p \in Ops : abandoned[p] => abandoned'[p]
      /\ \A c \in Consumers : ToldInv(c) /\ CallFacts(c) /\ LeaveInv(c) /\ OwnerInv(c)
  BY SharedParts, OnlyGrow, OutcomeTypes
<1> DEFINE Excuse(c) == local[c] = o /\ outcome[c] = "Own" /\ call[c] = "returned"
<1>1. ASSUME NEW c \in Consumers, Excuse(c) PROVE Excuse(c)'
  <2>1. local'[c] = o /\ call'[c] = "returned"
    BY <1>1, Onward
  <2>2. by[c] # None
    BY <1>0, <1>1, NoneAssumption DEF ToldInv
  <2>3. outcome'[c] = "Own"
    BY <1>1, <2>2, Tellings DEF Untold, ToldOwn, ToldResult
  <2>4. QED
    BY <2>1, <2>3
<1>2. ASSUME payload'[o] = payload[o],
             work'[o] \in {"publish", "invoke", "ended"} => work[o] \in {"publish", "invoke", "ended"}
      PROVE  PayloadInv(o)'
  BY <1>0, <1>1, <1>2 DEF PayloadInv
<1>3. ASSUME NEW c \in Consumers, Starts(c), Start(c) \/ FailOwned(c) PROVE PayloadInv(o)'
  <2>1. CASE o # local[c]
    <3>1. work'[o] = work[o] /\ payload'[o] = payload[o]
      BY <1>0, <1>3, <2>1 DEF Start, FailOwned, Typed
    <3>2. QED
      BY <1>2, <3>1
  <2>2. CASE o = local[c] /\ Start(c)
    <3>1. work'[o] = "load" /\ payload' = payload
      BY <1>0, <2>2 DEF Start, Typed
    <3>2. QED
      BY <1>2, <3>1
  <2>3. CASE o = local[c] /\ FailOwned(c)
    <3>1. payload'[o] = "NotStarted" /\ UNCHANGED <<local, outcome>> /\ call[c] = "fail"
          /\ call'[c] = "returned"
      BY <1>0, <2>3 DEF FailOwned, Goto, Typed, finishVars
    <3>2. outcome[c] = "Own"
      BY <1>0, <3>1 DEF ToldInv, LeaveInv, CallFacts
    <3>3. QED
      BY <2>3, <3>1, <3>2, NoneAssumption DEF PayloadInv
  <2>4. QED
    BY <1>3, <2>1, <2>2, <2>3
<1>4. ASSUME NEW p \in Ops, OwnerWork(p) PROVE PayloadInv(o)'
  <2>1. CASE Producing(p)
    <3>1. PICK stage \in {"publish", "network", "finalize", "fallback", "store"},
               r \in {"Ok", "Failed", "NoConsumers", None} :
                 /\ WorkStep(p, stage, r)
                 /\ r = "NoConsumers" => token[p]
                 /\ stage = "publish" => r # None
      BY <2>1 DEF Producing
    <3>2. CASE o # p
      BY <1>0, <1>2, <3>1, <3>2 DEF WorkStep, Typed
    <3>3. CASE o = p
      <4>1. work'[o] = stage /\ payload'[o] = r
        BY <1>0, <3>1, <3>3 DEF WorkStep, Typed
      <4>2. r = "NoConsumers" => abandoned[o]
        BY <1>0, <3>1, <3>3 DEF FetchInv, ConsumersCounted
      <4>3. QED
        BY <1>0, <3>1, <4>1, <4>2, NoneAssumption DEF PayloadInv
    <3>4. QED
      BY <3>2, <3>3
  <2>2. CASE Publish(p) \/ Invoke(p) \/ Erase(p)
    <3>1. payload' = payload /\ work[p] \in {"publish", "invoke", "ended"}
      BY <2>2 DEF Publish, Invoke, Erase
    <3>2. o # p => work'[o] = work[o]
      BY <1>0, <2>2 DEF Publish, Invoke, Erase, Typed
    <3>3. QED
      BY <1>2, <3>1, <3>2
  <2>3. QED
    BY <1>4, <2>1, <2>2, Products
<1>5. CASE UNCHANGED vars
  BY <1>2, <1>5 DEF vars, workVars
<1>6. QED
  BY <1>2, <1>3, <1>4, <1>5, PayloadFrame, StartSteps DEF Next, CallerStep

\* Who gives an attachment up has been answered.
Releases(c) == /\ holds[c] /\ by[c] # None
               /\ ReleaseConsumer(c)
               /\ UNCHANGED <<local, done, made, registry, payload, token, outcome, cancelled>>

LEMMA ReleaseSteps ==
  ASSUME SharedInv, NEW c \in Consumers, FinishRelease(c) \/ GiveUp(c)
  PROVE  Releases(c)
<1>0. LeaveInv(c) /\ CallFacts(c) /\ FetchInv
  BY SharedParts
<1> USE DEF workVars, callVars
<1>1. CASE FinishRelease(c)
  BY <1>0, <1>1 DEF FinishRelease, Releases, LeaveInv, CallFacts
<1>2. CASE GiveUp(c)
  <2>1. holds[c] /\ by[c] # None
    BY <1>0, <1>2 DEF GiveUp, LeaveInv, FetchInv, CallInv
  <2>2. QED
    BY <1>2, <2>1 DEF GiveUp, Releases, finishVars
<1>3. QED
  BY <1>1, <1>2

\* The other steps keep the attachments, and no call with one looks for another operation.
LEMMA HoldersStay ==
  ASSUME SharedInv, [Next]_vars, NEW q \in Consumers, holds[q],
         ~ FinishRelease(q), ~ GiveUp(q)
  PROVE  holds'[q] /\ local'[q] = local[q]
<1>0. FetchInv /\ Typed /\ CallFacts(q)
  BY SharedParts
<1> USE DEF callVars, bindVars
<1>1. ASSUME NEW c \in Consumers,
             Register(c) \/ CallerStep(c) \/ CompletionStep(c) \/ Cancel(c) \/ CancelCallback(c)
      PROVE  holds'[q] /\ local'[q] = local[q]
  <2>1. CASE q # c
    BY <1>0, <1>1, <2>1, MovesAlone DEF Alone
  <2>2. CASE q = c
    <3>1. CASE CompletionStep(c) \/ Cancel(c) \/ CancelCallback(c)
      BY <2>2, <3>1 DEF CompletionStep, Detach, Unsubscribe, FinishCancelWork,
         CallCompletion, Cancel, CancelCallback
    <3>2. CASE Register(c) \/ CheckClaimed(c) \/ Find(c) \/ Attach(c) \/ Forget(c) \/ Bind(c)
      BY <1>0, <2>2, <3>2 DEF Register, CheckClaimed, Find, Attach, Forget, Bind, CallFacts
    <3>3. CASE GiveUpCancelWork(c) \/ FailOwned(c) \/ Subscribe(c) \/ Record(c)
               \/ DropSubscription(c) \/ Start(c)
      BY <2>2, <3>3 DEF GiveUpCancelWork, FailOwned, Subscribe, Record, DropSubscription, Start
    <3>4. QED
      BY <1>1, <2>2, <3>1, <3>2, <3>3 DEF CallerStep
  <2>3. QED
    BY <2>1, <2>2
<1>2. CASE UNCHANGED vars \/ \E o \in Ops : OwnerWork(o)
  BY <1>2, WorkMovesNobody DEF vars
<1>3. QED
  BY <1>1, <1>2 DEF Next

\* A callback is new only in the step that subscribes it; a publication takes those
\* that were there.
LEMMA QueueSteps ==
  ASSUME SharedInv, [Next]_vars, NEW o \in Ops, NEW q \in callbacks'[o] \cup todo'[o]
  PROVE  \/ q \in callbacks[o] \cup todo[o]
         \/ q \notin todo'[o] /\ q \in Consumers /\ Subscribe(q) /\ local[q] = o /\ ~done[o]
<1>0. FetchInv /\ Typed
  BY SharedParts
<1> USE DEF workVars
<1>1. CASE Quiet
  BY <1>0, <1>1 DEF Quiet
<1>2. ASSUME NEW c \in Consumers, Subscribe(c)
      PROVE  \/ q \in callbacks[o] \cup todo[o]
             \/ q \notin todo'[o] /\ q \in Consumers /\ Subscribe(q) /\ local[q] = o /\ ~done[o]
  <2>1. todo' = todo
    BY <1>2 DEF Subscribe
  <2>2. callbacks' = callbacks \/ (~done[local[c]] /\ callbacks' = [callbacks EXCEPT ![local[c]] = @ \cup {c}])
    BY <1>2 DEF Subscribe
  <2>3. callbacks'[o] = callbacks[o] \/ (local[c] = o /\ ~done[o] /\ callbacks'[o] = callbacks[o] \cup {c})
    BY <1>0, <2>2 DEF Typed
  <2>4. QED
    BY <1>2, <2>1, <2>3
<1>3. ASSUME NEW c \in Consumers, Find(c) \/ Start(c) \/ FailOwned(c)
      PROVE  q \in callbacks[o] \cup todo[o]
  BY <1>3 DEF Find, Start, FailOwned, opVars
<1>4. ASSUME NEW p \in Ops, OwnerWork(p) PROVE q \in callbacks[o] \cup todo[o]
  <2>1. CASE Working(p) \/ Erase(p)
    BY <2>1 DEF Working, Erase, opVars
  <2>2. CASE Publish(p)
    BY <1>0, <2>2 DEF Publish, Typed
  <2>3. CASE Invoke(p)
    BY <1>0, <2>3 DEF Invoke, Typed, opVars
  <2>4. QED
    BY <1>4, <2>1, <2>2, <2>3, WorkSteps
<1>5. ASSUME NEW c \in Consumers,
             \/ CompletionStep(c) \/ Cancel(c) \/ CancelCallback(c) \/ Register(c) \/ CheckClaimed(c)
             \/ Attach(c) \/ Forget(c) \/ Bind(c) \/ GiveUp(c) \/ GiveUpCancelWork(c) \/ Record(c)
             \/ DropSubscription(c)
      PROVE  Quiet
  BY <1>0, <1>5, QuietSteps
<1>6. CASE UNCHANGED vars
  BY <1>1, <1>6 DEF vars, Quiet, opVars, workVars
<1>7. QED
  BY <1>1, <1>2, <1>3, <1>4, <1>5, <1>6 DEF Next, CallerStep

LEMMA TakenKept ==
  ASSUME SharedInv, [Next]_vars, NEW o \in Ops PROVE TakenInv(o)'
<1>0. /\ TakenInv(o) /\ CallbackInv(o) /\ Typed
      /\ \A c \in Consumers : LeaveInv(c) /\ WaitInv(c) /\ CallFacts(c)
  BY SharedParts
<1>1. callbacks'[o] \subseteq Consumers /\ todo'[o] \subseteq Consumers
  BY SharedParts, FetchKept, TypesNext DEF Typed
<1>2. ASSUME NEW q \in todo'[o] PROVE local'[q] = o /\ bound'[q]
  <2>1. q \in Consumers /\ q \in callbacks[o] \cup todo[o]
    BY <1>1, <1>2, QueueSteps
  <2>2. local[q] = o /\ bound[q]
    BY <1>0, <2>1 DEF TakenInv, CallbackInv
  <2>3. QED
    BY <2>1, <2>2, Onward
<1>3. ASSUME NEW q \in callbacks'[o] \cup todo'[o], by'[q] = None PROVE holds'[q]
  <2>1. q \in Consumers
    BY <1>1, <1>3
  <2>2. by[q] = None
    BY <1>3, <2>1, Tellings DEF Untold, ToldOwn, ToldResult
  <2>3. CASE q \in callbacks[o] \cup todo[o]
    <3>1. holds[q] /\ ~Releases(q)
      BY <1>0, <2>2, <2>3 DEF TakenInv, Releases
    <3>2. QED
      BY <2>1, <3>1, HoldersStay, ReleaseSteps
  <2>4. CASE Subscribe(q) /\ local[q] = o /\ ~done[o]
    <3>1. holds' = holds /\ call[q] = "subscribe"
      BY <2>4 DEF Subscribe
    <3>2. holds[q]
      BY <1>0, <2>1, <2>2, <2>4, <3>1 DEF WaitInv
    <3>3. QED
      BY <3>1, <3>2
  <2>5. QED
    BY <1>3, <2>3, <2>4, QueueSteps
<1>4. QED
  BY <1>2, <1>3 DEF TakenInv

\* An operation has one consumer when nobody but that one is attached.
LEMMA OnlyAttached ==
  ASSUME FetchInv, NEW o \in Ops, NEW c, c \in Attached(o)
  PROVE  count[o] = 1 <=> Attached(o) = {c}
<1>1. count[o] = Cardinality(Attached(o)) /\ IsFiniteSet(Attached(o))
  BY AttachedFinite DEF FetchInv, ConsumersCounted
<1>2. Attached(o) = {c} => count[o] = 1
  BY <1>1, FS_Singleton
<1>3. count[o] = 1 => Attached(o) = {c}
  <2>1. count[o] = 1 => \E x : Attached(o) = {x}
    BY <1>1, FS_Singleton
  <2>2. QED
    BY <2>1
<1>4. QED
  BY <1>2, <1>3

\* Only a call that has looked at its operation starts it; only Find makes one.
LEMMA WorkBegins ==
  ASSUME SharedInv, [Next]_vars, NEW o \in Ops
  PROVE  /\ done[o] => done'[o]
         /\ made' # made => \E c \in Consumers : Find(c)
         /\ work[o] = "none" =>
              work'[o] = "none" \/ \E c \in Consumers : local[c] = o /\ call[c] \in {"start", "fail"}
<1>0. FetchInv /\ Typed
  BY SharedParts
<1> USE DEF opVars, workVars
<1>1. CASE Quiet
  BY <1>1 DEF Quiet
<1>2. ASSUME NEW c \in Consumers, Find(c) \/ Subscribe(c)
      PROVE  UNCHANGED <<done, work>> /\ (Subscribe(c) => made' = made)
  BY <1>2 DEF Find, Subscribe
<1>3. ASSUME NEW c \in Consumers, Starts(c)
      PROVE  /\ UNCHANGED <<done, made>> /\ call[c] \in {"start", "fail"}
             /\ local[c] # o => work'[o] = work[o]
  BY <1>0, <1>3 DEF Starts, Typed
<1>4. ASSUME NEW p \in Ops, OwnerWork(p)
      PROVE  /\ made' = made /\ (done[o] => done'[o])
             /\ work[o] = "none" => work'[o] = "none"
  <2>1. made' = made
    BY <1>4, WorkMovesNobody
  <2>2. CASE Working(p)
    BY <1>0, <2>1, <2>2 DEF Working, Typed
  <2>3. CASE Publish(p) \/ Invoke(p) \/ Erase(p)
    BY <1>0, <2>1, <2>3 DEF Publish, Invoke, Erase, Typed
  <2>4. QED
    BY <1>4, <2>2, <2>3, WorkSteps
<1>5. ASSUME NEW c \in Consumers,
             \/ CompletionStep(c) \/ Cancel(c) \/ CancelCallback(c) \/ Register(c) \/ CheckClaimed(c)
             \/ Attach(c) \/ Forget(c) \/ Bind(c) \/ GiveUp(c) \/ GiveUpCancelWork(c) \/ Record(c)
             \/ DropSubscription(c)
      PROVE  Quiet
  BY <1>0, <1>5, QuietSteps
<1>6. CASE UNCHANGED vars
  BY <1>1, <1>6 DEF vars, Quiet, opVars, workVars
<1>7. QED
  BY <1>1, <1>2, <1>3, <1>4, <1>5, <1>6, StartSteps DEF Next, CallerStep

LEMMA Departure ==
  ASSUME SharedInv, [Next]_vars, NEW q \in Consumers
  PROVE  /\ local'[q] # local[q] => Find(q)
         /\ call[q] = "attach" /\ call'[q] # call[q] => Attach(q)
<1>0. FetchInv
  BY SharedParts
<1> USE DEF callVars
<1>1. ASSUME NEW c \in Consumers,
             Register(c) \/ CallerStep(c) \/ CompletionStep(c) \/ Cancel(c) \/ CancelCallback(c)
      PROVE  /\ local'[q] # local[q] => Find(q)
             /\ call[q] = "attach" /\ call'[q] # call[q] => Attach(q)
  <2>1. CASE q # c
    BY <1>0, <1>1, <2>1, MovesAlone DEF Alone
  <2>2. CASE q = c
    <3>1. CASE CompletionStep(c) \/ Cancel(c) \/ CancelCallback(c)
      BY <2>2, <3>1 DEF CompletionStep, Detach, Unsubscribe, FinishRelease, FinishCancelWork,
         CallCompletion, Cancel, CancelCallback
    <3>2. CASE Register(c) \/ CheckClaimed(c) \/ Find(c) \/ Attach(c) \/ Forget(c) \/ Bind(c)
      BY <2>2, <3>2 DEF Register, CheckClaimed, Find, Attach, Forget, Bind
    <3>3. CASE \/ GiveUp(c) \/ GiveUpCancelWork(c) \/ FailOwned(c)
               \/ Subscribe(c) \/ Record(c) \/ DropSubscription(c) \/ Start(c)
      BY <2>2, <3>3 DEF GiveUp, GiveUpCancelWork, FailOwned, Subscribe, Record, DropSubscription, Start
    <3>4. QED
      BY <1>1, <3>1, <3>2, <3>3 DEF CallerStep
  <2>3. QED
    BY <2>1, <2>2
<1>2. CASE UNCHANGED vars \/ \E o \in Ops : OwnerWork(o)
  BY <1>2, WorkMovesNobody DEF vars
<1>3. QED
  BY <1>1, <1>2 DEF Next

LEMMA KeptKept ==
  ASSUME SharedInv, [Next]_vars, NEW o \in Ops PROVE KeptInv(o)'
<1>0. /\ KeptInv(o) /\ FetchInv /\ Typed /\ WorkInv(o) /\ None \notin Ops
      /\ \A c \in Consumers : OwnerInv(c) /\ CallFacts(c)
  BY SharedParts
<1> SUFFICES ASSUME o \in (1..made)', ~done'[o], ~abandoned'[o], Attached(o)' = {}
             PROVE  work'[o] = "none" /\ \A q \in Consumers : local'[q] = o => call'[q] = "attach"
  BY DEF KeptInv
<1> USE DEF opVars, workVars, callVars, bindVars
<1>1. Attached(o) = {}
  <2> SUFFICES ASSUME NEW d \in Consumers, holds[d], local[d] = o PROVE FALSE
    BY DEF Attached
  <2>1. ~ (holds'[d] /\ local'[d] = local[d])
    BY DEF Attached
  <2>2. Releases(d)
    BY <2>1, HoldersStay, ReleaseSteps
  <2>3. /\ local' = local /\ done' = done
        /\ LastOne(o) => abandoned'[o]
        /\ \A e \in Consumers : holds'[e] <=> (e # d /\ holds[e])
    BY <1>0, <2>2, CountsReleased DEF Releases
  <2>4. Attached(o) = {d}
    BY <2>3 DEF Attached
  <2>5. LastOne(o)
    BY <1>0, <2>3, <2>4, OnlyAttached DEF LastOne
  <2>6. QED
    BY <2>3, <2>5
<1>2. ~abandoned[o]
  BY OnlyGrow
<1>3. ASSUME NEW q \in Consumers, Attach(q), local[q] = o, ~done[o] PROVE FALSE
  <2>1. holds'[q] /\ local' = local
    BY <1>0, <1>2, <1>3 DEF Attach, Typed
  <2>2. QED
    BY <1>3, <2>1 DEF Attached
<1>4. CASE o \notin 1..made
  <2>1. PICK c \in Consumers : Find(c) /\ made' # made
    BY <1>4, WorkBegins
  <2>2. work' = work /\ work[o] = "none"
    BY <1>0, <1>4, <2>1 DEF Find, WorkInv
  <2>3. ASSUME NEW q \in Consumers, local'[q] = o PROVE call'[q] = "attach"
    <3>1. local[q] # o
      BY <1>0, <1>4 DEF OwnerInv
    <3>2. q = c
      BY <1>0, <2>1, <2>3, <3>1 DEF Find, Typed
    <3>3. QED
      BY <1>0, <2>1, <3>2 DEF Find, Goto, Typed
  <2>4. QED
    BY <2>2, <2>3
<1>5. CASE o \in 1..made
  <2>0. ~done[o]
    BY WorkBegins
  <2>1. work[o] = "none" /\ \A q \in Consumers : local[q] = o => call[q] = "attach"
    BY <1>0, <1>1, <1>2, <1>5, <2>0 DEF KeptInv
  <2>2. work'[o] = "none"
    BY <2>1, WorkBegins
  <2>3. ASSUME NEW q \in Consumers, local'[q] = o PROVE call'[q] = "attach"
    <3>1. CASE call'[q] = call[q] /\ local'[q] = local[q]
      BY <2>1, <2>3, <3>1
    <3>2. CASE Find(q)
      BY <1>0, <3>2 DEF Find, Goto, Typed
    <3>3. ASSUME call'[q] # call[q], local'[q] = local[q] PROVE FALSE
      BY <1>3, <2>0, <2>1, <2>3, <3>3, Departure
    <3>4. ASSUME local'[q] # local[q] PROVE Find(q)
      BY <3>4, Departure
    <3>5. QED
      BY <3>1, <3>2, <3>3, <3>4
  <2>4. QED
    BY <2>2, <2>3
<1>6. QED
  BY <1>4, <1>5

LEMMA StepSharedInv == SharedInv /\ [Next]_vars => SharedInv'
<1> SUFFICES ASSUME SharedInv, [Next]_vars PROVE SharedInv'
  OBVIOUS
<1>1. ReturnInv'
  BY SharedParts, ReturnKept
<1>2. \A c \in Consumers : ToldInv(c)' /\ SeatInv(c)'
  BY ToldKept, SeatKept
<1>3. \A o \in Ops : PayloadInv(o)' /\ TakenInv(o)' /\ KeptInv(o)'
  BY PayloadKept, TakenKept, KeptKept
<1>4. QED
  BY <1>1, <1>2, <1>3 DEF SharedInv

LEMMA InitSharedInv == Init => SharedInv
<1> SUFFICES ASSUME Init PROVE SharedInv
  OBVIOUS
<1>1. \A c \in Consumers : ToldInv(c) /\ SeatInv(c)
  BY NoneAssumption DEF Init, ToldInv, SeatInv
<1>2. \A o \in Ops : PayloadInv(o) /\ TakenInv(o) /\ KeptInv(o)
  <2>1. \A o : o \notin 1..made
    BY DEF Init
  <2>2. QED
    BY <2>1, NoneAssumption DEF Init, PayloadInv, TakenInv, KeptInv
<1>3. QED
  BY <1>1, <1>2, InitReturnInv DEF SharedInv

-----------------------------------------------------------------------------
(* The steps of SharedFetch *)

\* What the callers see of the operations changes with these variables only.
LEMMA SameViews ==
  /\ UNCHANGED <<holds, local>> => Wanted' = Wanted
  /\ UNCHANGED abandoned => Dropped' = Dropped
  /\ UNCHANGED <<abandoned, done, payload>> => Results' = Results
BY DEF Wanted, Attached, Dropped, Results, Published

LEMMA Unseen ==
  ASSUME UNCHANGED <<registry, made, local, outcome, cancelled, Wanted, Results, Dropped>>
  PROVE  UNCHANGED Shared!vars
BY DEF Shared!vars

\* An operation that is neither finished nor abandoned is the one that is found.
LEMMA OpenUnderWay ==
  ASSUME SharedInv, NEW o \in Ops, o \in 1..made, ~done[o], ~abandoned[o]
  PROVE  Shared!UnderWay(o)
<1>1. registry = o
  BY SharedParts DEF FetchInv, SingleFlight, Ops
<1>2. Results[o] = None /\ o \notin Dropped
  BY DEF Results, Published, Dropped
<1>3. QED
  BY <1>1, <1>2 DEF Shared!UnderWay

\* One that was published for somebody has a result.
LEMMA PublishedResult ==
  ASSUME SharedInv, NEW o \in Ops, Published(o)
  PROVE  Results[o] = payload[o] /\ payload[o] # None
<1>1. work[o] \in Publishing
  BY SharedParts DEF Published, WorkInv
<1>2. QED
  BY <1>1, SharedParts DEF Results, PayloadInv, Publishing

LEMMA ClosedNotUnderWay ==
  ASSUME SharedInv, NEW o \in Ops, done[o] \/ abandoned[o]
  PROVE  ~ Shared!UnderWay(o)
<1>1. CASE abandoned[o]
  BY <1>1 DEF Shared!UnderWay, Dropped
<1>2. CASE Published(o)
  BY <1>2, PublishedResult DEF Shared!UnderWay
<1>3. QED
  BY <1>1, <1>2 DEF Published

\* A claimed completion is told what the operation came to ...
LEMMA ClaimIsTell ==
  ASSUME SharedInv, NEW c \in Consumers, NEW thread, thread # None, local[c] \in Ops,
         Claim(c, thread, payload[local[c]]), by[c] = None => Published(local[c]),
         UNCHANGED <<registry, made, local, cancelled, Wanted, Results, Dropped>>
  PROVE  [Shared!Next]_(Shared!vars)
<1>1. CASE by[c] # None
  BY <1>1, Unseen DEF Claim, finishVars
<1>2. CASE by[c] = None
  <2> DEFINE o == local[c]
  <2>1. outcome' = [outcome EXCEPT ![c] = IF c \in cancelled THEN "Own" ELSE payload[o]]
    BY <1>2 DEF Claim
  <2>2. outcome[c] = None
    BY <1>2, SharedParts DEF ToldInv
  <2>3. Results[o] = payload[o] /\ payload[o] # None
    BY <1>2, PublishedResult
  <2>4. Shared!Tell(c, o)
    BY <2>1, <2>2, <2>3 DEF Shared!Tell
  <2>5. QED
    BY <2>4 DEF Shared!Next
<1>3. QED
  BY <1>1, <1>2

\* ... or that it was cancelled.
LEMMA ClaimIsTellOwn ==
  ASSUME SharedInv, NEW c \in Consumers, c \in cancelled, Claim(c, Requester, "Own"),
         UNCHANGED <<registry, made, local, cancelled, Wanted, Results, Dropped>>
  PROVE  [Shared!Next]_(Shared!vars)
<1>1. CASE by[c] # None
  BY <1>1, Unseen DEF Claim, finishVars
<1>2. CASE by[c] = None
  <2>1. outcome' = [outcome EXCEPT ![c] = "Own"]
    BY <1>2 DEF Claim
  <2>2. outcome[c] = None
    BY <1>2, SharedParts DEF ToldInv
  <2>3. Shared!TellOwn(c)
    BY <2>1, <2>2 DEF Shared!TellOwn
  <2>4. QED
    BY <2>3 DEF Shared!Next
<1>3. QED
  BY <1>1, <1>2

LEMMA ReleaseIsLeave ==
  ASSUME SharedInv, NEW c \in Consumers, Releases(c)
  PROVE  Shared!Next
<1> DEFINE o == local[c]
<1>0. /\ FetchInv /\ Typed /\ ToldInv(c)
      /\ local' = local
  BY SharedParts DEF Releases
<1>1. /\ o \in Ops
      /\ \A d \in Consumers : holds'[d] <=> (d # c /\ holds[d])
  BY <1>0, CountsReleased DEF Releases
<1>2. c \in Attached(o) /\ Attached(o) = Wanted[o]
  BY <1>1 DEF Attached, Wanted, Releases
<1>3. Wanted' = [Wanted EXCEPT ![o] = @ \ {c}]
  <2>1. \A p \in Ops : Attached(p)' = IF p = o THEN Attached(p) \ {c} ELSE Attached(p)
    BY <1>0, <1>1 DEF Attached
  <2>2. QED
    BY <1>1, <2>1 DEF Wanted
<1>4. ~abandoned[o]
  BY <1>0, HolderWanted DEF Releases
<1>5. LastOne(o) <=> Wanted[o] = {c} /\ Results[o] = None
  <2>1. count[o] = 1 <=> Wanted[o] = {c}
    BY <1>0, <1>1, <1>2, OnlyAttached
  <2>2. done[o] <=> Results[o] # None
    <3>1. CASE done[o]
      BY <1>1, <1>4, <3>1, PublishedResult DEF Published
    <3>2. CASE ~done[o]
      BY <1>1, <3>2 DEF Results, Published
    <3>3. QED
      BY <3>1, <3>2
  <2>3. QED
    BY <2>1, <2>2 DEF LastOne
<1>6. \A p \in Ops : abandoned'[p] = (abandoned[p] \/ (p = o /\ LastOne(o)))
  BY <1>0, <1>1 DEF Releases, ReleaseConsumer, Typed
<1>7. Dropped' = IF LastOne(o) THEN Dropped \cup {o} ELSE Dropped
  BY <1>1, <1>6 DEF Dropped
<1>8. Results' = Results
  <2>1. \A p \in Ops : Published(p)' = Published(p)
    BY <1>6 DEF Published, Releases, LastOne
  <2>2. QED
    BY <2>1 DEF Results, Releases
<1>9. outcome[c] # None
  BY <1>0 DEF ToldInv, Releases
<1>10. Shared!Leave(c, o)
  BY <1>0, <1>2, <1>3, <1>5, <1>7, <1>8, <1>9 DEF Shared!Leave, Releases
<1>11. QED
  BY <1>1, <1>10 DEF Shared!Next

LEMMA FindIsFind ==
  ASSUME SharedInv, NEW c \in Consumers, Find(c)
  PROVE  Shared!Next
<1>0. /\ FetchInv /\ Typed /\ SeatInv(c) /\ CallFacts(c) /\ made \in Nat /\ MaxOps \in Nat
      /\ registry \in Ops \cup {None}
  BY SharedParts, OpsAssumption DEF FetchInv, TypeOK
<1> USE DEF opVars, workVars, finishVars
<1>1. UNCHANGED <<outcome, cancelled, Results, Dropped>>
  BY SameViews DEF Find
<1>2. ~holds[c] /\ holds' = holds
  BY <1>0 DEF Find, CallFacts
<1>3. Wanted' = Wanted
  <2>1. \A d \in Consumers : d # c => local'[d] = local[d]
    BY <1>0 DEF Find, Typed
  <2>2. QED
    BY <1>2, <2>1 DEF Wanted, Attached
<1>4. local[c] = None \/ local[c] \in Dropped
  BY <1>0 DEF Find, SeatInv, Dropped
<1>5. CASE registry # None
  <2>1. registry \in Ops /\ local' = [local EXCEPT ![c] = registry] /\ UNCHANGED <<registry, made>>
    BY <1>0, <1>5 DEF Find
  <2>2. Shared!Find(c, registry)
    BY <1>1, <1>3, <1>4, <2>1 DEF Shared!Find
  <2>3. QED
    BY <2>1, <2>2 DEF Shared!Next
<1>6. CASE registry = None
  <2>1. /\ made < MaxOps /\ made' = made + 1 /\ registry' = made + 1
        /\ local' = [local EXCEPT ![c] = made + 1]
    BY <1>6 DEF Find
  <2>2. made + 1 \in Ops /\ made + 1 \notin 1..made /\ 1..made' = (1..made) \cup {made + 1}
    BY <1>0, <2>1 DEF Ops
  <2>3. Shared!Find(c, made + 1)
    BY <1>1, <1>3, <1>4, <1>6, <2>1, <2>2 DEF Shared!Find
  <2>4. QED
    BY <2>2, <2>3 DEF Shared!Next
<1>7. QED
  BY <1>5, <1>6

LEMMA AttachIsJoin ==
  ASSUME SharedInv, NEW c \in Consumers, Attach(c)
  PROVE  [Shared!Next]_(Shared!vars)
<1> DEFINE o == local[c]
<1>0. FetchInv /\ Typed /\ CallFacts(c) /\ o \in Ops /\ o \in 1..made
  BY SharedParts DEF Attach, CallFacts, FetchInv, CallInv
<1>1. UNCHANGED <<registry, made, local, outcome, cancelled, Results, Dropped>>
  BY SameViews DEF Attach, workVars, finishVars
<1>2. CASE done[o] \/ abandoned[o]
  BY <1>1, <1>2, SameViews, Unseen DEF Attach
<1>3. CASE ~done[o] /\ ~abandoned[o]
  <2>1. ~holds[c] /\ holds' = [holds EXCEPT ![c] = TRUE]
    BY <1>0, <1>3 DEF Attach, CallFacts
  <2>2. c \notin Wanted[o]
    BY <1>0, <2>1 DEF Wanted, Attached
  <2>3. Wanted' = [Wanted EXCEPT ![o] = @ \cup {c}]
    <3>1. \A p \in Ops : Attached(p)' = IF p = o THEN Attached(p) \cup {c} ELSE Attached(p)
      BY <1>0, <1>1, <2>1 DEF Attached, Typed
    <3>2. QED
      BY <1>0, <3>1 DEF Wanted
  <2>4. Shared!UnderWay(o)
    BY <1>0, <1>3, OpenUnderWay
  <2>5. Shared!Join(c, o)
    BY <1>1, <2>2, <2>3, <2>4 DEF Shared!Join
  <2>6. QED
    BY <1>0, <2>5 DEF Shared!Next
<1>4. QED
  BY <1>2, <1>3

\* A finished or abandoned operation is taken out of the registry, unless another
\* one has its place.
LEMMA EraseIsClose ==
  ASSUME SharedInv, NEW o \in Ops, done[o] \/ abandoned[o], EraseFromRegistry(o),
         UNCHANGED <<made, local, outcome, cancelled, Wanted, Results, Dropped>>
  PROVE  [Shared!Next]_(Shared!vars)
<1>1. CASE registry # o
  BY <1>1, Unseen DEF EraseFromRegistry
<1>2. CASE registry = o
  <2>1. Shared!Close(o)
    BY <1>2, ClosedNotUnderWay DEF Shared!Close, EraseFromRegistry
  <2>2. QED
    BY <2>1 DEF Shared!Next
<1>3. QED
  BY <1>1, <1>2

LEMMA ForgetIsClose ==
  ASSUME SharedInv, NEW c \in Consumers, Forget(c)
  PROVE  [Shared!Next]_(Shared!vars)
<1>1. local[c] \in Ops /\ abandoned[local[c]]
  BY SharedParts DEF Forget, CallFacts, FetchInv, CallInv
<1>2. UNCHANGED <<made, local, outcome, cancelled, Wanted, Results, Dropped>>
  BY SameViews DEF Forget, opVars, workVars, finishVars
<1>3. QED
  BY <1>1, <1>2, EraseIsClose DEF Forget

LEMMA PublishIsEnd ==
  ASSUME SharedInv, NEW o \in Ops, Publish(o)
  PROVE  [Shared!Next]_(Shared!vars)
<1>0. FetchInv /\ Typed /\ WorkInv(o) /\ PayloadInv(o) /\ KeptInv(o)
  BY SharedParts
<1>1. /\ work[o] = "publish" /\ done' = [done EXCEPT ![o] = TRUE] /\ ~done[o] /\ o \in 1..made
      /\ UNCHANGED <<registry, made, local, outcome, cancelled, abandoned, payload, holds>>
  BY <1>0 DEF Publish, callVars, finishVars, WorkInv, Publishing
<1>2. UNCHANGED <<Wanted, Dropped>>
  BY <1>1, SameViews
<1>3. CASE abandoned[o]
  <2>1. \A p \in Ops : Published(p)' = Published(p)
    BY <1>0, <1>1, <1>3 DEF Published, Typed
  <2>2. Results' = Results
    BY <1>1, <2>1 DEF Results
  <2>3. QED
    BY <1>1, <1>2, <2>2, Unseen
<1>4. CASE ~abandoned[o]
  <2>1. \A p \in Ops : Published(p)' = (p = o \/ Published(p))
    BY <1>0, <1>1, <1>4 DEF Published, Typed
  <2>2. Results' = [Results EXCEPT ![o] = payload[o]]
    BY <1>1, <2>1 DEF Results
  <2>3. Shared!UnderWay(o)
    BY <1>1, <1>4, OpenUnderWay
  <2>4. Wanted[o] # {}
    BY <1>0, <1>1, <1>4 DEF KeptInv, Wanted
  <2>5. payload[o] \in {"Ok", "Failed", "NotStarted"}
    BY <1>0, <1>1, <1>4, OutcomeTypes DEF PayloadInv, Result
  <2>6. payload[o] = "NotStarted" => \E c \in Consumers : local[c] = o /\ outcome[c] = "Own"
    BY <1>0 DEF PayloadInv
  <2>7. Shared!End(o, payload[o])
    BY <1>1, <1>2, <2>2, <2>3, <2>4, <2>6 DEF Shared!End
  <2>8. QED
    BY <2>5, <2>7 DEF Shared!Next
<1>5. QED
  BY <1>3, <1>4

LEMMA WorkShares ==
  ASSUME SharedInv, NEW o \in Ops, OwnerWork(o)
  PROVE  [Shared!Next]_(Shared!vars)
<1>0. FetchInv /\ Typed /\ WorkInv(o) /\ payload = [p \in Ops |-> payload[p]] /\ Requester # None /\ None \notin Ops
  BY SharedParts, OutcomeTypes
<1> USE DEF opVars, callVars, finishVars
<1>1. CASE Working(o) /\ Producing(o)
  <2>1. /\ UNCHANGED <<registry, made, local, holds, outcome, cancelled, abandoned, done>>
        /\ \A p \in Ops : p # o => payload'[p] = payload[p]
    BY <1>0, <1>1 DEF Producing, WorkStep
  <2>2. ~done[o]
    BY <1>0, <1>1 DEF Working, WorkInv, Publishing
  <2>3. Results' = Results
    BY <2>1, <2>2 DEF Results, Published
  <2>4. QED
    BY <2>1, <2>3, SameViews, Unseen
<1>2. CASE Publish(o)
  BY <1>2, PublishIsEnd
<1>3. CASE Invoke(o)
  <2>1. PICK c \in Consumers : /\ Claim(c, o, payload[o]) /\ local[c] = o
                               /\ by[c] = None => Published(o)
    BY <1>3, InvokeTells
  <2>2. UNCHANGED <<registry, made, local, cancelled, Wanted, Results, Dropped>>
    BY <1>3, SameViews DEF Invoke
  <2>3. QED
    BY <1>0, <2>1, <2>2, ClaimIsTell
<1>4. CASE Erase(o)
  <2>1. done[o]
    BY <1>0, <1>4 DEF Erase, WorkInv, Publishing
  <2>2. UNCHANGED <<made, local, outcome, cancelled, Wanted, Results, Dropped>>
    BY <1>4, SameViews DEF Erase
  <2>3. QED
    BY <1>4, <2>1, <2>2, EraseIsClose DEF Erase
<1>5. QED
  BY <1>1, <1>2, <1>3, <1>4, Products

\* The steps that only move a call on.
LEMMA QuietCalls ==
  ASSUME SharedInv, NEW c \in Consumers,
         \/ CheckClaimed(c) \/ Bind(c) \/ GiveUpCancelWork(c) \/ FailOwned(c)
         \/ Record(c) \/ DropSubscription(c) \/ Start(c)
         \/ Detach(c) \/ Unsubscribe(c) \/ FinishCancelWork(c) \/ CallCompletion(c)
  PROVE  UNCHANGED Shared!vars
<1> USE DEF opVars, workVars, callVars, bindVars, finishVars
<1>1. UNCHANGED <<registry, made, local, holds, abandoned, outcome, cancelled>>
  <2>1. CASE CheckClaimed(c) \/ Bind(c) \/ GiveUpCancelWork(c) \/ FailOwned(c)
    BY <2>1 DEF CheckClaimed, Bind, GiveUpCancelWork, FailOwned
  <2>2. CASE Record(c) \/ DropSubscription(c) \/ Start(c)
    BY <2>2 DEF Record, DropSubscription, Start
  <2>3. CASE Detach(c) \/ Unsubscribe(c) \/ FinishCancelWork(c) \/ CallCompletion(c)
    BY <2>3 DEF Detach, Unsubscribe, FinishCancelWork, CallCompletion
  <2>4. QED
    BY <2>1, <2>2, <2>3
<1>2. Wanted' = Wanted /\ Dropped' = Dropped
  BY <1>1, SameViews
<1>3. Results' = Results
  <2>1. CASE FailOwned(c)
    <3>1. ~done[local[c]] /\ local[c] \in Ops
      <4>1. local[c] \in Ops /\ work[local[c]] = "none"
        BY <2>1, SharedParts, StartSteps DEF FailOwned, OwnerInv, CallFacts
      <4>2. QED
        BY <4>1, SharedParts DEF WorkInv, Publishing
    <3>2. /\ UNCHANGED <<done, abandoned>>
          /\ \A p \in Ops : p # local[c] => payload'[p] = payload[p]
      BY <2>1, SharedParts, OutcomeTypes DEF FailOwned
    <3>3. QED
      BY <3>1, <3>2 DEF Results, Published
  <2>2. CASE ~FailOwned(c)
    <3>1. UNCHANGED <<done, payload>>
      BY <2>2, PayloadFrame DEF CompletionStep, Start
    <3>2. QED
      BY <1>1, <3>1, SameViews
  <2>3. QED
    BY <2>1, <2>2
<1>4. QED
  BY <1>1, <1>2, <1>3, Unseen

LEMMA CallShares ==
  ASSUME SharedInv, NEW c \in Consumers,
         Register(c) \/ CallerStep(c) \/ CompletionStep(c) \/ Cancel(c) \/ CancelCallback(c)
  PROVE  [Shared!Next]_(Shared!vars)
<1>0. Requester # None
  BY SharedParts
<1> USE DEF opVars, workVars, callVars, bindVars
<1>1. ASSUME UNCHANGED <<registry, made, done, abandoned, payload, local, holds, cancelled>>
      PROVE  UNCHANGED <<registry, made, local, cancelled, Wanted, Results, Dropped>>
  BY <1>1, SameViews
<1>2. CASE Register(c)
  <2>1. UNCHANGED <<registry, made, local, cancelled, Wanted, Results, Dropped>>
    BY <1>1, <1>2 DEF Register
  <2>2. CASE c \in cancelled
    BY <1>2, <2>1, <2>2, ClaimIsTellOwn DEF Register
  <2>3. CASE c \notin cancelled
    BY <1>2, <2>1, <2>3, Unseen DEF Register, finishVars
  <2>4. QED
    BY <2>2, <2>3
<1>3. CASE CancelCallback(c)
  <2>1. UNCHANGED <<registry, made, local, cancelled, Wanted, Results, Dropped>>
    BY <1>1, <1>3 DEF CancelCallback
  <2>2. QED
    BY <1>3, <2>1, ClaimIsTellOwn DEF CancelCallback
<1>4. CASE Cancel(c)
  <2>1. /\ UNCHANGED <<registry, made, local, outcome, Wanted, Results, Dropped>>
        /\ cancelled' = cancelled \cup {c}
    BY <1>4, SameViews DEF Cancel, finishVars
  <2>2. Shared!Cancel(c)
    BY <2>1 DEF Shared!Cancel
  <2>3. QED
    BY <2>2 DEF Shared!Next
<1>5. CASE Subscribe(c)
  <2>1. UNCHANGED <<registry, made, local, cancelled, Wanted, Results, Dropped>>
    BY <1>1, <1>5 DEF Subscribe
  <2>2. CASE UNCHANGED <<by, outcome>>
    BY <2>1, <2>2, Unseen
  <2>3. CASE /\ Published(local[c]) /\ Claim(c, Requester, payload[local[c]])
             /\ bound[c] /\ local[c] \in Ops
    BY <1>0, <2>1, <2>3, ClaimIsTell
  <2>4. QED
    BY <1>5, <2>2, <2>3, SubscribeTells
<1>6. CASE Find(c)
  BY <1>6, FindIsFind
<1>7. CASE Attach(c) \/ Forget(c)
  BY <1>7, AttachIsJoin, ForgetIsClose
<1>8. CASE FinishRelease(c) \/ GiveUp(c)
  BY <1>8, ReleaseSteps, ReleaseIsLeave
<1>9. CASE \/ CheckClaimed(c) \/ Bind(c) \/ GiveUpCancelWork(c) \/ FailOwned(c)
           \/ Record(c) \/ DropSubscription(c) \/ Start(c)
           \/ Detach(c) \/ Unsubscribe(c) \/ FinishCancelWork(c) \/ CallCompletion(c)
  BY <1>9, QuietCalls
<1>10. QED
  BY <1>2, <1>3, <1>4, <1>5, <1>6, <1>7, <1>8, <1>9 DEF CallerStep, CompletionStep

LEMMA InitShares == Init => Shared!Init
<1> SUFFICES ASSUME Init PROVE Shared!Init
  OBVIOUS
<1>1. registry = None /\ 1..made = {} /\ cancelled = {} /\ Dropped = {}
  BY DEF Init, Dropped
<1>2. local = [c \in Consumers |-> None] /\ outcome = [c \in Consumers |-> None]
  BY DEF Init
<1>3. Wanted = [o \in Ops |-> {}] /\ Results = [o \in Ops |-> None]
  BY DEF Init, Wanted, Attached, Results, Published
<1>4. QED
  BY <1>1, <1>2, <1>3 DEF Shared!Init

-----------------------------------------------------------------------------
\* The callers share their fetches: webGetOwnedAsync and CacheFetchOperation implement
\* SharedFetch.  Of one key one fetch is under way; it is given up only when everybody
\* who was attached has been answered, ends only for somebody, and each call is told
\* once: what the fetch it took came to, or that its own request was cancelled.
THEOREM CallersShareFetches == Spec => ImplementsSharedFetch
<1>1. Init => SharedInv /\ Shared!Init
  BY InitSharedInv, InitShares
<1>2. SharedInv /\ [Next]_vars => SharedInv'
  BY StepSharedInv
<1>3. SharedInv /\ [Next]_vars => [Shared!Next]_(Shared!vars)
  <2> SUFFICES ASSUME SharedInv, [Next]_vars PROVE [Shared!Next]_(Shared!vars)
    OBVIOUS
  <2>1. CASE UNCHANGED vars
    <3>1. UNCHANGED <<registry, made, local, holds, outcome, cancelled, abandoned, done, payload>>
      BY <2>1 DEF vars, opVars, workVars, callVars, finishVars
    <3>2. QED
      BY <3>1, SameViews, Unseen
  <2>2. QED
    BY <2>1, CallShares, WorkShares DEF Next
<1>4. QED
  BY <1>1, <1>2, <1>3, PTL DEF Spec, ImplementsSharedFetch, Shared!Spec
=============================================================================
