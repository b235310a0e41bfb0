------------------------- MODULE HttpSessions_proofs -------------------------
(***************************************************************************)
(* ServerInv and ShutdownReaches are invariants of the server for any      *)
(* number of connections, requests, threads and limits, and a response     *)
(* under way is spared by the shutdown.                                    *)
(*                                                                         *)
(* The strengthening says what a session has in its hands in each phase    *)
(* (a context, an admission), and what the shutdown has done with it.      *)
(***************************************************************************)
EXTENDS HttpSessions, FiniteSetTheorems, TLAPS

-----------------------------------------------------------------------------
(* The inductive invariant *)

InHand ==
  \A s \in Sessions :
    /\ conn[s] \in {"none", "reading", "received", "failed", "gone"} =>
         ~context[s] /\ ~admitted[s]
    /\ conn[s] \in {"pooled", "processing", "routed", "answered"} => ~drain[s]
    /\ context[s] => served[s] # 0

Told ==
  /\ stopHandler # "none" => stopping
  /\ \A s \in Sessions :
       /\ shut[s] # "no" => stopping
       /\ shut[s] = "done" /\ ~Busy(s) => closed[s]

IInv == ServerInv /\ ShutdownReaches /\ InHand /\ Told

-----------------------------------------------------------------------------
(* What is counted *)

AliveOnes == {s \in Sessions : Alive(s)}
AdmittedOnes == {s \in Sessions : admitted[s]}

\* The parts of the finite set of sessions are counted like their elements.
LEMMA FiniteParts ==
  \A S \in SUBSET Sessions, x \in Sessions :
    /\ Cardinality(S) \in Nat
    /\ x \notin S => Cardinality(S \cup {x}) = Cardinality(S) + 1
    /\ x \in S => Cardinality(S \ {x}) = Cardinality(S) - 1 /\ Cardinality(S) # 0
<1>1. \A S \in SUBSET Sessions : IsFiniteSet(S)
  BY HttpAssumption, FS_Subset DEF HttpAssumption
<1>2. \A S \in SUBSET Sessions, x \in Sessions :
        /\ Cardinality(S) \in Nat
        /\ x \notin S => Cardinality(S \cup {x}) = Cardinality(S) + 1
        /\ x \in S => Cardinality(S \ {x}) = Cardinality(S) - 1
  BY <1>1, FS_CardinalityType, FS_AddElement, FS_RemoveElement
<1>3. \A S \in SUBSET Sessions, x \in Sessions : x \in S => Cardinality(S) # 0
  BY <1>1, FS_EmptySet
<1>4. QED
  BY <1>2, <1>3

\* A session that is alive is counted, and so is an admission.
LEMMA CountedOnes ==
  ASSUME CountsExact
  PROVE  \A s \in Sessions : (Alive(s) => active # 0) /\ (admitted[s] => admissions # 0)
<1>1. AliveOnes \in SUBSET Sessions /\ AdmittedOnes \in SUBSET Sessions
  BY DEF AliveOnes, AdmittedOnes
<1>2. active = Cardinality(AliveOnes) /\ admissions = Cardinality(AdmittedOnes)
  BY DEF CountsExact, AliveOnes, AdmittedOnes
<1>3. \A s \in Sessions : (Alive(s) => s \in AliveOnes) /\ (admitted[s] => s \in AdmittedOnes)
  BY DEF AliveOnes, AdmittedOnes
<1>4. QED
  BY <1>1, <1>2, <1>3, FiniteParts

-----------------------------------------------------------------------------
(* Types *)

LEMMA TypeStep ==
  ASSUME IInv, [Next]_vars PROVE  TypeOK'
<1>0. TypeOK /\ InHand /\ CountsExact
  BY DEF IInv, ServerInv
<1>c. \A s \in Sessions : (Alive(s) => active # 0) /\ (admitted[s] => admissions # 0)
  BY <1>0, CountedOnes
<1>t. /\ conn \in [Sessions -> Phases] /\ closed \in [Sessions -> BOOLEAN]
      /\ admitted \in [Sessions -> BOOLEAN] /\ context \in [Sessions -> BOOLEAN]
      /\ armed \in [Sessions -> BOOLEAN] /\ drain \in [Sessions -> BOOLEAN]
  BY <1>0 DEF TypeOK
<1>a. admissions \in Nat
  BY <1>0 DEF TypeOK
<1>j. jobs \in Seq(Sessions)
  BY <1>0 DEF TypeOK
<1>f. final \in [Sessions -> Outcomes]
  BY <1>0 DEF TypeOK
<1>e. ended \in [Sessions -> Nat]
  BY <1>0 DEF TypeOK
<1> USE DEF session, request, counters, shutdown, Goto
<1>1. ASSUME NEW s \in Sessions, Accept(s) PROVE TypeOK'
  BY <1>0, <1>1 DEF TypeOK, Phases, Accept
<1>2. ASSUME NEW s \in Sessions, ReadEnds(s) \/ WriteEnds(s) \/ RouteAnswers(s) PROVE TypeOK'
  <2>1. \E l \in {"received", "failed", "written", "broken", "answered"} : Goto(s, l)
    BY <1>2 DEF ReadEnds, WriteEnds, RouteAnswers
  <2>2. conn' \in [Sessions -> Phases]
    BY <1>0, <2>1 DEF TypeOK, Phases
  <2>3. UNCHANGED <<closed, admitted, armed, shut, request, counters, jobs, shutdown>>
    BY <1>2 DEF ReadEnds, WriteEnds, RouteAnswers
  <2>4. QED
    BY <1>0, <2>2, <2>3 DEF TypeOK
<1>3. ASSUME NEW s \in Sessions, ReadFails(s) PROVE TypeOK'
  BY <1>0, <1>3 DEF TypeOK, Phases, ReadFails, Finish
<1>4. ASSUME NEW s \in Sessions, OnRead(s) PROVE TypeOK'
  <2>2. NewContext(s)
    BY <1>4 DEF OnRead
  <2>3. /\ context' \in [Sessions -> BOOLEAN] /\ drain' \in [Sessions -> BOOLEAN]
        /\ reason' \in [Sessions -> Reasons] /\ final' \in [Sessions -> Outcomes]
        /\ served' \in [Sessions -> Nat] /\ ended' \in [Sessions -> Nat]
    BY <1>0, <2>2 DEF TypeOK, Reasons, Outcomes, NewContext, Fresh
  <2>4. jobs' = Append(jobs, s) \/ jobs' = jobs
    BY <1>4 DEF OnRead, ToPool
  <2>5. jobs' \in Seq(Sessions)
    BY <1>j, <2>4
  <2>6. \E l \in {"pooled", "replying"} : Goto(s, l)
    BY <1>4 DEF OnRead, ToPool
  <2>7. conn' \in [Sessions -> Phases]
    BY <1>0, <2>6 DEF TypeOK, Phases
  <2>8. admitted' = [admitted EXCEPT ![s] = TRUE] \/ admitted' = admitted
    BY <1>4 DEF OnRead
  <2>9. admitted' \in [Sessions -> BOOLEAN]
    BY <1>t, <2>8
  <2>b. admissions' = admissions + 1 \/ admissions' = admissions
    BY <1>4 DEF OnRead
  <2>a. admissions' \in Nat
    BY <1>a, <2>b
  <2>c. armed' = [armed EXCEPT ![s] = TRUE] \/ armed' = armed
    BY <1>4 DEF OnRead, ToPool
  <2>d. armed' \in [Sessions -> BOOLEAN]
    BY <1>t, <2>c
  <2>10. QED
    BY <1>0, <1>4, <2>3, <2>5, <2>7, <2>9, <2>a, <2>d DEF TypeOK, OnRead
<1>r. ASSUME NEW s \in Sessions, Reply(s) PROVE TypeOK'
  BY <1>0, <1>r DEF TypeOK, Phases, Reply
<1>5. ASSUME NEW s \in Sessions, WriteResponse(s) PROVE TypeOK'
  BY <1>0, <1>5 DEF TypeOK, Phases, Reasons, WriteResponse, NoticeDeadline, Cancel, Cancelled
<1>6. ASSUME NEW s \in Sessions, Observe(s) PROVE TypeOK'
  BY <1>0, <1>6 DEF TypeOK, Reasons, Observe, Cancel, Cancelled
<1>7. ASSUME NEW s \in Sessions, Process(s) PROVE TypeOK'
  BY <1>0, <1>7 DEF TypeOK, Phases, Reasons, Process, NoticeDeadline, Cancel, Cancelled
<1>8. ASSUME NEW s \in Sessions, BeginShutdown(s) PROVE TypeOK'
  BY <1>0, <1>8 DEF TypeOK, Reasons, BeginShutdown, Cancel, Cancelled
<1>9. ASSUME NEW s \in Sessions, NEW keep \in BOOLEAN, OnWrite(s, keep) PROVE TypeOK'
  <2>1. ended' \in [Sessions -> Nat]
    BY <1>e, <1>9 DEF OnWrite, CountOutcome
  <2>2. \/ /\ \E sent, late \in BOOLEAN : Finalize(s, sent, late)
           /\ Finish(s) /\ UNCHANGED <<admitted, admissions>>
        \/ /\ IF admitted[s] THEN admissions' = admissions - 1 ELSE UNCHANGED admissions
           /\ admitted' = [admitted EXCEPT ![s] = FALSE]
           /\ NoContext(s) /\ Goto(s, "reading") /\ UNCHANGED closed
    BY <1>9 DEF OnWrite
  <2>3. ASSUME NEW sent \in BOOLEAN, NEW late \in BOOLEAN, Finalize(s, sent, late)
        PROVE  /\ reason' \in [Sessions -> Reasons] /\ final' \in [Sessions -> Outcomes]
               /\ drain' = drain /\ context' = context
    <3>1. reason' \in [Sessions -> Reasons]
      BY <1>0, <2>3 DEF TypeOK, Reasons, Finalize, Cancelled
    <3>2. Outcome(sent, late, reason[s]) \in Outcomes
      BY DEF Outcomes, Outcome
    <3>3. final' \in [Sessions -> Outcomes]
      BY <1>f, <2>3, <3>2 DEF Finalize
    <3>4. QED
      BY <2>3, <3>1, <3>3 DEF Finalize
  <2>4. /\ reason' \in [Sessions -> Reasons] /\ final' \in [Sessions -> Outcomes]
        /\ drain' \in [Sessions -> BOOLEAN] /\ context' \in [Sessions -> BOOLEAN]
    <3>1. CASE NoContext(s)
      BY <1>0, <3>1 DEF TypeOK, Reasons, Outcomes, NoContext, Fresh
    <3>2. QED
      BY <1>t, <2>2, <2>3, <3>1
  <2>5. /\ conn' \in [Sessions -> Phases] /\ closed' \in [Sessions -> BOOLEAN]
        /\ admitted' \in [Sessions -> BOOLEAN]
    BY <1>t, <2>2 DEF Phases, Finish
  <2>6. admissions' \in Nat
    BY <1>a, <1>c, <2>2
  <2>7. armed' \in [Sessions -> BOOLEAN]
    BY <1>t, <1>9 DEF OnWrite
  <2>8. QED
    BY <1>0, <1>9, <2>1, <2>4, <2>5, <2>6, <2>7 DEF TypeOK, OnWrite
<1>10. ASSUME NEW s \in Sessions, Destroy(s) PROVE TypeOK'
  <2>1. Alive(s)
    BY <1>10 DEF Destroy, Alive
  <2>2. /\ reason' \in [Sessions -> Reasons] /\ final' \in [Sessions -> Outcomes]
        /\ drain' \in [Sessions -> BOOLEAN] /\ context' \in [Sessions -> BOOLEAN]
    BY <1>0, <1>10 DEF TypeOK, Reasons, Outcomes, Destroy, NoContext, Fresh
  <2>3. active' \in Nat /\ admissions' \in Nat
    BY <1>0, <1>c, <1>10, <2>1 DEF TypeOK, Destroy
  <2>4. conn' \in [Sessions -> Phases] /\ admitted' \in [Sessions -> BOOLEAN]
    BY <1>t, <1>10 DEF Phases, Destroy
  <2>5. QED
    BY <1>0, <1>10, <2>2, <2>3, <2>4 DEF TypeOK, Destroy
<1>11. CASE TakeUp
  <2>1. Head(jobs) \in Sessions /\ jobs' \in Seq(Sessions)
    BY <1>0, <1>11 DEF TypeOK, TakeUp
  <2>2. QED
    BY <1>0, <1>11, <2>1 DEF TypeOK, Phases, TakeUp
<1>12. CASE Stop \/ EndCancelling \/ Join \/ EndWait
  BY <1>0, <1>12 DEF TypeOK, Stop, EndCancelling, Join, EndWait
<1>13. CASE StopHandler
  BY <1>0, <1>13 DEF TypeOK, StopHandler
<1>14. CASE BeginCancelling
  <2>1. \A t \in Sessions : context[t] => <<t, served[t]>> \in Requests
    BY <1>0 DEF TypeOK, Requests
  <2>2. toCancel' \subseteq Requests
    BY <1>14, <2>1 DEF BeginCancelling
  <2>3. QED
    BY <1>0, <1>14, <2>2 DEF TypeOK, BeginCancelling
<1>15. CASE Mark
  BY <1>0, <1>15 DEF TypeOK, Mark, Reasons
<1>16. ASSUME NEW r \in toCancel, Check(r) PROVE TypeOK'
  BY <1>0, <1>16 DEF TypeOK, Check
<1>17. CASE UNCHANGED vars
  BY <1>0, <1>17 DEF TypeOK, vars
<1>18. QED
  BY <1>1, <1>2, <1>3, <1>4, <1>r, <1>5, <1>6, <1>7, <1>8, <1>9, <1>10, <1>11, <1>12, <1>13,
     <1>14, <1>15, <1>16, <1>17 DEF Next, IoStep, Kernel, Main

-----------------------------------------------------------------------------
(* The counters *)

\* A step opens a connection, destroys a session or leaves active_sessions alone.
LEMMA ActiveStep ==
  ASSUME IInv, [Next]_vars
  PROVE  \/ \E s \in Sessions : /\ s \notin AliveOnes /\ AliveOnes' = AliveOnes \cup {s}
                                /\ active' = active + 1 /\ active < ConnectionLimit
         \/ \E s \in Sessions : /\ s \in AliveOnes /\ AliveOnes' = AliveOnes \ {s}
                                /\ active' = active - 1
         \/ AliveOnes' = AliveOnes /\ active' = active
<1> USE DEF AliveOnes, Alive, session, counters, Goto
<1>0. TypeOK
  BY DEF IInv, ServerInv
<1>1. ASSUME NEW s \in Sessions, Accept(s)
      PROVE  /\ s \notin AliveOnes /\ AliveOnes' = AliveOnes \cup {s}
             /\ active' = active + 1 /\ active < ConnectionLimit
  BY <1>0, <1>1 DEF TypeOK, Accept
<1>2. ASSUME NEW s \in Sessions, Destroy(s)
      PROVE  /\ s \in AliveOnes /\ AliveOnes' = AliveOnes \ {s} /\ active' = active - 1
  BY <1>0, <1>2 DEF TypeOK, Destroy
<1>3. ASSUME NEW s \in Sessions,
             ReadEnds(s) \/ ReadFails(s) \/ OnRead(s) \/ Reply(s) \/ WriteEnds(s)
             \/ RouteAnswers(s) \/ WriteResponse(s) \/ Process(s)
      PROVE  AliveOnes' = AliveOnes /\ active' = active
  BY <1>0, <1>3 DEF TypeOK, ReadEnds, ReadFails, Finish, OnRead, ToPool, Reply, WriteEnds,
     RouteAnswers, WriteResponse, Process
<1>4. ASSUME NEW s \in Sessions, NEW keep \in BOOLEAN, OnWrite(s, keep)
      PROVE  AliveOnes' = AliveOnes /\ active' = active
  BY <1>0, <1>4 DEF TypeOK, OnWrite, Finish
<1>5. CASE TakeUp
  <2>1. Head(jobs) \in Sessions /\ conn[Head(jobs)] = "pooled"
    BY <1>0, <1>5 DEF TypeOK, TakeUp, IInv, ServerInv, JobsExact
  <2>2. QED
    BY <1>0, <1>5, <2>1 DEF TypeOK, TakeUp
<1>6. ASSUME NEW s \in Sessions, Observe(s) \/ BeginShutdown(s)
      PROVE  AliveOnes' = AliveOnes /\ active' = active
  BY <1>6 DEF Observe, BeginShutdown
<1>7. CASE Stop \/ StopHandler \/ BeginCancelling \/ Mark \/ EndCancelling \/ Join \/ EndWait
           \/ (\E r \in toCancel : Check(r)) \/ UNCHANGED vars
  BY <1>7 DEF Stop, StopHandler, BeginCancelling, Mark, EndCancelling, Join, EndWait, Check, vars
<1>8. QED
  BY <1>1, <1>2, <1>3, <1>4, <1>5, <1>6, <1>7 DEF Next, IoStep, Kernel, Main

\* A step admits a request, releases an admission or leaves active_entries_ alone.
LEMMA AdmissionStep ==
  ASSUME IInv, [Next]_vars
  PROVE  \/ \E s \in Sessions : /\ s \notin AdmittedOnes
                                /\ AdmittedOnes' = AdmittedOnes \cup {s}
                                /\ admissions' = admissions + 1 /\ admissions < AdmissionLimit
         \/ \E s \in Sessions : /\ s \in AdmittedOnes /\ AdmittedOnes' = AdmittedOnes \ {s}
                                /\ admissions' = admissions - 1
         \/ AdmittedOnes' = AdmittedOnes /\ admissions' = admissions
<1> USE DEF AdmittedOnes, session, counters, Goto
<1>0. TypeOK /\ InHand
  BY DEF IInv, ServerInv
<1>1. ASSUME NEW s \in Sessions, OnRead(s)
      PROVE  \/ /\ s \notin AdmittedOnes /\ AdmittedOnes' = AdmittedOnes \cup {s}
                /\ admissions' = admissions + 1 /\ admissions < AdmissionLimit
             \/ AdmittedOnes' = AdmittedOnes /\ admissions' = admissions
  <2>1. ~admitted[s]
    BY <1>0, <1>1 DEF InHand, OnRead
  <2>2. admitted \in [Sessions -> BOOLEAN] /\ admissions \in Int
    BY <1>0 DEF TypeOK
  <2>3. CASE admissions < AdmissionLimit /\ admissions' = admissions + 1
             /\ admitted' = [admitted EXCEPT ![s] = TRUE]
    BY <2>1, <2>2, <2>3
  <2>4. CASE admissions' = admissions /\ admitted' = admitted
    BY <2>4
  <2>5. QED
    BY <1>1, <2>3, <2>4 DEF OnRead
<1>2. ASSUME NEW s \in Sessions, Destroy(s)
      PROVE  \/ /\ s \in AdmittedOnes /\ AdmittedOnes' = AdmittedOnes \ {s}
                /\ admissions' = admissions - 1
             \/ AdmittedOnes' = AdmittedOnes /\ admissions' = admissions
  BY <1>0, <1>2 DEF TypeOK, Destroy
<1>3. ASSUME NEW s \in Sessions, NEW keep \in BOOLEAN, OnWrite(s, keep)
      PROVE  \/ /\ s \in AdmittedOnes /\ AdmittedOnes' = AdmittedOnes \ {s}
                /\ admissions' = admissions - 1
             \/ AdmittedOnes' = AdmittedOnes /\ admissions' = admissions
  <2>1. admitted \in [Sessions -> BOOLEAN] /\ admissions \in Int
    BY <1>0 DEF TypeOK
  <2>2. CASE admitted' = admitted /\ admissions' = admissions
    BY <2>2
  <2>3. CASE /\ admissions' = IF admitted[s] THEN admissions - 1 ELSE admissions
             /\ admitted' = [admitted EXCEPT ![s] = FALSE]
    BY <2>1, <2>3
  <2>4. QED
    BY <1>3, <2>2, <2>3 DEF OnWrite
<1>4. ASSUME NEW s \in Sessions,
             Accept(s) \/ ReadEnds(s) \/ ReadFails(s) \/ WriteEnds(s) \/ RouteAnswers(s)
             \/ Reply(s) \/ WriteResponse(s) \/ Process(s) \/ Observe(s) \/ BeginShutdown(s)
      PROVE  AdmittedOnes' = AdmittedOnes /\ admissions' = admissions
  BY <1>4 DEF Accept, Reply, ReadEnds, ReadFails, WriteEnds, RouteAnswers,
     WriteResponse, Process, Observe, BeginShutdown
<1>5. CASE TakeUp \/ Stop \/ StopHandler \/ BeginCancelling \/ Mark \/ EndCancelling \/ Join
           \/ EndWait \/ (\E r \in toCancel : Check(r)) \/ UNCHANGED vars
  BY <1>5 DEF TakeUp, Stop, StopHandler, BeginCancelling, Mark, EndCancelling, Join, EndWait,
     Check, vars
<1>6. QED
  BY <1>1, <1>2, <1>3, <1>4, <1>5 DEF Next, IoStep, Kernel, Main

\* Every step counts what it opens and closes, and stays within the limits.
LEMMA CountStep ==
  ASSUME IInv, [Next]_vars PROVE  CountsExact'
<1>1. /\ AliveOnes \in SUBSET Sessions /\ AdmittedOnes \in SUBSET Sessions
      /\ ConnectionLimit \in Nat /\ AdmissionLimit \in Nat
  BY HttpAssumption DEF HttpAssumption, AliveOnes, AdmittedOnes
<1>2. /\ active = Cardinality(AliveOnes) /\ active <= ConnectionLimit
      /\ admissions = Cardinality(AdmittedOnes) /\ admissions <= AdmissionLimit
  BY DEF IInv, ServerInv, CountsExact, AliveOnes, AdmittedOnes
<1>3. Cardinality(AliveOnes) \in Nat /\ Cardinality(AdmittedOnes) \in Nat
  BY <1>1, FS_CardinalityType, FS_Subset, HttpAssumption DEF HttpAssumption
<1>4. active' = Cardinality(AliveOnes') /\ active' <= ConnectionLimit
  BY <1>1, <1>2, <1>3, ActiveStep, FiniteParts
<1>5. admissions' = Cardinality(AdmittedOnes') /\ admissions' <= AdmissionLimit
  BY <1>1, <1>2, <1>3, AdmissionStep, FiniteParts
<1>6. QED
  BY <1>4, <1>5 DEF CountsExact, AliveOnes, AdmittedOnes

-----------------------------------------------------------------------------
(* The requests and their outcomes *)

\* The count of the requests that have no outcome, of one session.
Exact(s) == /\ served[s] = ended[s] + (IF Open(s) THEN 1 ELSE 0)
            /\ Open(s) <=> Busy(s)

\* A step of one session leaves what the others count alone.
LEMMA OutcomeStep ==
  ASSUME IInv, [Next]_vars PROVE  OutcomesExact'
<1>0. TypeOK /\ InHand /\ (\A t \in Sessions : Exact(t))
  BY DEF IInv, ServerInv, OutcomesExact, Exact
<1> USE DEF Exact, Open, Busy, session, request, Goto
<1> SUFFICES ASSUME NEW t \in Sessions PROVE Exact(t)'
  BY DEF OutcomesExact
<1>1. ASSUME NEW s \in Sessions, Accept(s) PROVE Exact(t)'
  BY <1>0, <1>1 DEF TypeOK, Accept
<1>2. ASSUME NEW s \in Sessions, ReadEnds(s) \/ ReadFails(s) PROVE Exact(t)'
  BY <1>0, <1>2 DEF TypeOK, ReadEnds, ReadFails, Finish
<1>3. ASSUME NEW s \in Sessions,
             Reply(s) \/ WriteEnds(s) \/ RouteAnswers(s) \/ WriteResponse(s)
      PROVE  Exact(t)'
  BY <1>0, <1>3 DEF TypeOK, Reply, WriteEnds, RouteAnswers, WriteResponse
<1>4. ASSUME NEW s \in Sessions, OnRead(s) PROVE Exact(t)'
  <2>1. PICK l \in {"pooled", "replying"} : NewContext(s) /\ Goto(s, l)
    BY <1>4 DEF OnRead, ToPool
  <2>2. conn[s] = "received" /\ ~Open(s)
    BY <1>0, <1>4 DEF OnRead, InHand
  <2>3. QED
    BY <1>0, <2>1, <2>2 DEF TypeOK, NewContext, Fresh
<1>5. ASSUME NEW s \in Sessions, NEW keep \in BOOLEAN, OnWrite(s, keep) PROVE Exact(t)'
  <2>1. Open(s)
    BY <1>0, <1>5 DEF OnWrite
  <2>2. ended' = [ended EXCEPT ![s] = @ + 1] /\ served' = served
    BY <1>0, <1>5, <2>1 DEF OnWrite, CountOutcome, TypeOK
  <2>3. \/ (\E sent, late \in BOOLEAN : Finalize(s, sent, late)) /\ Finish(s)
        \/ NoContext(s) /\ Goto(s, "reading")
    BY <1>5 DEF OnWrite
  <2>4. ASSUME NEW sent \in BOOLEAN, NEW late \in BOOLEAN, Finalize(s, sent, late), Finish(s)
        PROVE  Exact(t)'
    <3>1. Outcome(sent, late, reason[s]) # "none"
      BY DEF Outcome
    <3>2. final' = [final EXCEPT ![s] = Outcome(sent, late, reason[s])] /\ context' = context
      BY <1>0, <2>1, <2>4 DEF Finalize, TypeOK
    <3>3. QED
      BY <1>0, <2>1, <2>2, <2>4, <3>1, <3>2 DEF TypeOK, Finish
  <2>5. CASE NoContext(s) /\ Goto(s, "reading")
    BY <1>0, <2>1, <2>2, <2>5 DEF TypeOK, NoContext, Fresh
  <2>6. QED
    BY <2>3, <2>4, <2>5
<1>6. ASSUME NEW s \in Sessions, Destroy(s) PROVE Exact(t)'
  BY <1>0, <1>6 DEF TypeOK, Destroy, NoContext, Fresh
<1>7. ASSUME NEW s \in Sessions, Process(s) PROVE Exact(t)'
  BY <1>0, <1>7 DEF TypeOK, Process
<1>8. ASSUME NEW s \in Sessions, Observe(s) \/ BeginShutdown(s) PROVE Exact(t)'
  BY <1>0, <1>8 DEF Observe, BeginShutdown
<1>9. CASE TakeUp
  <2>1. Head(jobs) \in Sessions /\ conn[Head(jobs)] = "pooled"
    BY <1>0, <1>9 DEF TypeOK, TakeUp, IInv, ServerInv, JobsExact
  <2>2. QED
    BY <1>0, <1>9, <2>1 DEF TypeOK, TakeUp
<1>10. CASE Stop \/ StopHandler \/ BeginCancelling \/ Mark \/ EndCancelling \/ Join \/ EndWait
            \/ (\E r \in toCancel : Check(r)) \/ UNCHANGED vars
  BY <1>0, <1>10 DEF Stop, StopHandler, BeginCancelling, Mark, EndCancelling, Join, EndWait,
     Check, vars
<1>11. QED
  BY <1>1, <1>2, <1>3, <1>4, <1>5, <1>6, <1>7, <1>8, <1>9, <1>10
     DEF Next, IoStep, Kernel, Main

-----------------------------------------------------------------------------
(* The pool *)

LEMMA JobsStep ==
  ASSUME IInv, [Next]_vars PROVE  JobsExact'
<1> USE DEF session, Goto
<1>0. TypeOK /\ JobsExact
  BY DEF IInv, ServerInv
<1>1. ASSUME NEW s \in Sessions, NEW l \in Phases, conn[s] # "pooled", l # "pooled",
             Goto(s, l), jobs' = jobs
      PROVE  JobsExact'
  BY <1>0, <1>1 DEF TypeOK, JobsExact
<1>2. ASSUME NEW s \in Sessions,
             Accept(s) \/ ReadEnds(s) \/ ReadFails(s) \/ WriteEnds(s) \/ RouteAnswers(s)
             \/ Reply(s) \/ WriteResponse(s) \/ Process(s) \/ Destroy(s)
      PROVE  JobsExact'
  <2>1. conn[s] # "pooled" /\ jobs' = jobs
    BY <1>2 DEF Accept, ReadEnds, ReadFails, Reply, WriteEnds, RouteAnswers, WriteResponse,
       Process, Destroy
  <2>2. PICK l \in Phases : l # "pooled" /\ Goto(s, l)
    BY <1>2 DEF Accept, ReadEnds, ReadFails, Finish, Reply, WriteEnds, RouteAnswers,
       WriteResponse, Process, Destroy, Phases
  <2>3. QED
    BY <1>1, <2>1, <2>2
<1>3. ASSUME NEW s \in Sessions, NEW keep \in BOOLEAN, OnWrite(s, keep) PROVE JobsExact'
  <2>1. conn[s] # "pooled" /\ jobs' = jobs
    BY <1>3 DEF OnWrite
  <2>2. PICK l \in Phases : l # "pooled" /\ Goto(s, l)
    BY <1>3 DEF OnWrite, Finish, Phases
  <2>3. QED
    BY <1>1, <2>1, <2>2
<1>4. ASSUME NEW s \in Sessions, OnRead(s) PROVE JobsExact'
  <2>1. CASE Goto(s, "replying") /\ jobs' = jobs
    <3>1. conn[s] # "pooled"
      BY <1>4 DEF OnRead
    <3>2. QED
      BY <1>1, <2>1, <3>1 DEF Phases
  <2>2. CASE Goto(s, "pooled") /\ jobs' = Append(jobs, s)
    <3>1. \A i \in 1 .. Len(jobs) : jobs[i] # s
      BY <1>0, <1>4 DEF JobsExact, OnRead
    <3>2. /\ Len(jobs') = Len(jobs) + 1 /\ Len(jobs) \in Nat /\ jobs'[Len(jobs) + 1] = s
          /\ \A i \in 1 .. Len(jobs) : jobs'[i] = jobs[i]
      BY <1>0, <2>2 DEF TypeOK
    <3>3. \A i, j \in 1 .. Len(jobs') : jobs'[i] = jobs'[j] => i = j
      BY <1>0, <3>1, <3>2 DEF JobsExact
    <3>4. \A t \in Sessions : conn'[t] = IF t = s THEN "pooled" ELSE conn[t]
      BY <1>0, <2>2 DEF TypeOK
    <3>5. \A t \in Sessions : (\E i \in 1 .. Len(jobs') : jobs'[i] = t)
                               <=> t = s \/ \E i \in 1 .. Len(jobs) : jobs[i] = t
      BY <3>2
    <3>6. QED
      BY <1>0, <3>3, <3>4, <3>5 DEF JobsExact
  <2>3. QED
    BY <1>4, <2>1, <2>2 DEF OnRead, ToPool
<1>5. CASE TakeUp
  <2>1. /\ Len(jobs) \in Nat \ {0} /\ Len(jobs') = Len(jobs) - 1 /\ Head(jobs) = jobs[1]
        /\ \A i \in 1 .. Len(jobs') : jobs'[i] = jobs[i + 1]
        /\ jobs[1] \in Sessions /\ Goto(jobs[1], "processing")
    BY <1>0, <1>5 DEF TypeOK, TakeUp
  <2>2. \A i, j \in 1 .. Len(jobs') : jobs'[i] = jobs'[j] => i = j
    BY <1>0, <2>1 DEF JobsExact
  <2>3. ASSUME NEW t \in Sessions
        PROVE  conn'[t] = "pooled" <=> \E i \in 1 .. Len(jobs') : jobs'[i] = t
    <3>1. CASE t = jobs[1]
      <4>1. conn'[t] # "pooled"
        BY <1>0, <2>1, <3>1 DEF TypeOK
      <4>2. ~\E i \in 1 .. Len(jobs') : jobs'[i] = t
        <5> SUFFICES ASSUME NEW i \in 1 .. Len(jobs'), jobs[i + 1] = jobs[1]
                     PROVE  FALSE
          BY <2>1, <3>1
        <5>1. i + 1 \in 1 .. Len(jobs) /\ 1 \in 1 .. Len(jobs) /\ i + 1 # 1
          BY <2>1
        <5>2. QED
          BY <1>0, <5>1 DEF JobsExact
      <4>3. QED
        BY <4>1, <4>2
    <3>2. CASE t # jobs[1]
      <4>1. \A i \in 1 .. Len(jobs) : jobs[i] = t => i - 1 \in 1 .. Len(jobs') /\ i = (i - 1) + 1
        BY <2>1, <3>2
      <4>2. conn'[t] = conn[t]
        BY <1>0, <2>1, <3>2 DEF TypeOK
      <4>3. (\E i \in 1 .. Len(jobs) : jobs[i] = t) <=> \E i \in 1 .. Len(jobs') : jobs'[i] = t
        <5>1. ASSUME NEW i \in 1 .. Len(jobs'), jobs'[i] = t
              PROVE  i + 1 \in 1 .. Len(jobs) /\ jobs[i + 1] = t
          BY <2>1, <5>1
        <5>2. ASSUME NEW i \in 1 .. Len(jobs), jobs[i] = t
              PROVE  i - 1 \in 1 .. Len(jobs') /\ jobs'[i - 1] = t
          BY <2>1, <4>1, <5>2
        <5>3. QED
          BY <5>1, <5>2
      <4>4. QED
        BY <1>0, <4>2, <4>3 DEF JobsExact
    <3>3. QED
      BY <3>1, <3>2
  <2>4. QED
    BY <2>2, <2>3 DEF JobsExact
<1>6. ASSUME NEW s \in Sessions, Observe(s) \/ BeginShutdown(s) PROVE JobsExact'
  BY <1>0, <1>6 DEF Observe, BeginShutdown, JobsExact
<1>7. CASE Stop \/ StopHandler \/ BeginCancelling \/ Mark \/ EndCancelling \/ Join \/ EndWait
           \/ (\E r \in toCancel : Check(r)) \/ UNCHANGED vars
  BY <1>0, <1>7 DEF Stop, StopHandler, BeginCancelling, Mark, EndCancelling, Join, EndWait,
     Check, vars, JobsExact
<1>8. QED
  BY <1>2, <1>3, <1>4, <1>5, <1>6, <1>7 DEF Next, IoStep, Kernel, Main

-----------------------------------------------------------------------------
(* What a session has in its hands *)

Held(s) ==
  /\ conn[s] \in {"none", "reading", "received", "failed", "gone"} =>
       ~context[s] /\ ~admitted[s]
  /\ conn[s] \in {"pooled", "processing", "routed", "answered"} => ~drain[s]
  /\ context[s] => served[s] # 0

LEMMA HandStep ==
  ASSUME IInv, [Next]_vars PROVE  InHand'
<1>0. TypeOK /\ (\A t \in Sessions : Held(t))
  BY DEF IInv, ServerInv, InHand, Held
<1> USE DEF Held, session, request, Goto
<1> SUFFICES ASSUME NEW t \in Sessions PROVE Held(t)'
  BY DEF InHand
<1>1. ASSUME NEW s \in Sessions, Accept(s) PROVE Held(t)'
  BY <1>0, <1>1 DEF TypeOK, Accept
<1>2. ASSUME NEW s \in Sessions, ReadEnds(s) PROVE Held(t)'
  BY <1>0, <1>2 DEF TypeOK, ReadEnds
<1>3. ASSUME NEW s \in Sessions, ReadFails(s) PROVE Held(t)'
  BY <1>0, <1>3 DEF TypeOK, ReadFails, Finish
<1>4. ASSUME NEW s \in Sessions, OnRead(s) PROVE Held(t)'
  <2>1. PICK l \in {"pooled", "replying"} : NewContext(s) /\ Goto(s, l)
    BY <1>4 DEF OnRead, ToPool
  <2>2. admitted' = [admitted EXCEPT ![s] = TRUE] \/ admitted' = admitted
    BY <1>4 DEF OnRead
  <2>3. QED
    BY <1>0, <2>1, <2>2 DEF TypeOK, NewContext, Fresh
<1>r. ASSUME NEW s \in Sessions, Reply(s) PROVE Held(t)'
  BY <1>0, <1>r DEF TypeOK, Reply
<1>5. ASSUME NEW s \in Sessions, WriteResponse(s) PROVE Held(t)'
  BY <1>0, <1>5 DEF TypeOK, WriteResponse
<1>6. ASSUME NEW s \in Sessions, WriteEnds(s) \/ RouteAnswers(s) PROVE Held(t)'
  BY <1>0, <1>6 DEF TypeOK, WriteEnds, RouteAnswers
<1>7. ASSUME NEW s \in Sessions, NEW keep \in BOOLEAN, OnWrite(s, keep) PROVE Held(t)'
  <2>1. \/ Finish(s) /\ UNCHANGED <<admitted, context, drain>>
        \/ /\ admitted' = [admitted EXCEPT ![s] = FALSE]
           /\ NoContext(s) /\ Goto(s, "reading")
    BY <1>7 DEF OnWrite, Finalize
  <2>2. served' = served
    BY <1>7 DEF OnWrite
  <2>3. QED
    BY <1>0, <2>1, <2>2 DEF TypeOK, Finish, NoContext, Fresh
<1>8. ASSUME NEW s \in Sessions, Destroy(s) PROVE Held(t)'
  BY <1>0, <1>8 DEF TypeOK, Destroy, NoContext, Fresh
<1>9. ASSUME NEW s \in Sessions, Process(s) PROVE Held(t)'
  BY <1>0, <1>9 DEF TypeOK, Process
<1>10. CASE TakeUp
  <2>1. Head(jobs) \in Sessions /\ conn[Head(jobs)] = "pooled"
    BY <1>0, <1>10 DEF TypeOK, TakeUp, IInv, ServerInv, JobsExact
  <2>2. QED
    BY <1>0, <1>10, <2>1 DEF TypeOK, TakeUp
<1>11. ASSUME NEW s \in Sessions, Observe(s) \/ BeginShutdown(s) PROVE Held(t)'
  BY <1>0, <1>11 DEF Observe, BeginShutdown
<1>12. CASE Stop \/ StopHandler \/ BeginCancelling \/ Mark \/ EndCancelling \/ Join \/ EndWait
            \/ (\E r \in toCancel : Check(r)) \/ UNCHANGED vars
  BY <1>0, <1>12 DEF Stop, StopHandler, BeginCancelling, Mark, EndCancelling, Join, EndWait,
     Check, vars
<1>13. QED
  BY <1>1, <1>2, <1>3, <1>4, <1>r, <1>5, <1>6, <1>7, <1>8, <1>9, <1>10, <1>11, <1>12
     DEF Next, IoStep, Kernel, Main

-----------------------------------------------------------------------------
(* The shutdown *)

Heard(s) == /\ shut[s] # "no" => stopping
            /\ shut[s] = "done" /\ ~Busy(s) => closed[s]

LEMMA ToldStep ==
  ASSUME IInv, [Next]_vars PROVE  Told'
<1>0. TypeOK /\ (stopHandler # "none" => stopping) /\ (\A t \in Sessions : Heard(t))
  BY DEF IInv, ServerInv, Told, Heard
<1> USE DEF Heard, Busy, session, shutdown, Goto
<1>1. stopHandler' # "none" => stopping'
  <2>1. CASE Stop \/ StopHandler
    BY <1>0, <2>1 DEF Stop, StopHandler, TypeOK
  <2>2. CASE UNCHANGED <<stopping, stopHandler>>
    BY <1>0, <2>2
  <2>3. QED
    BY <2>1, <2>2 DEF Next, IoStep, Kernel, Main, Accept, ReadEnds, ReadFails, OnRead, Reply, Observe,
       WriteResponse, WriteEnds, OnWrite, Destroy, TakeUp, Process, RouteAnswers,
       BeginShutdown, BeginCancelling, Check, Mark, EndCancelling, Join, EndWait, vars
<1>2. ASSUME NEW t \in Sessions PROVE Heard(t)'
  <2>1. ASSUME NEW s \in Sessions, Accept(s) PROVE Heard(t)'
    BY <1>0, <2>1 DEF TypeOK, Accept
  <2>2. ASSUME NEW s \in Sessions, ReadEnds(s) \/ WriteEnds(s) \/ RouteAnswers(s)
               \/ Reply(s) \/ WriteResponse(s) \/ Process(s)
        PROVE  Heard(t)'
    BY <1>0, <2>2 DEF TypeOK, Reply, ReadEnds, WriteEnds, RouteAnswers, WriteResponse, Process
  <2>3. ASSUME NEW s \in Sessions, ReadFails(s) PROVE Heard(t)'
    BY <1>0, <2>3 DEF TypeOK, ReadFails, Finish
  <2>4. ASSUME NEW s \in Sessions, OnRead(s) PROVE Heard(t)'
    BY <1>0, <2>4 DEF TypeOK, OnRead, ToPool
  <2>5. ASSUME NEW s \in Sessions, NEW keep \in BOOLEAN, OnWrite(s, keep) PROVE Heard(t)'
    <3>1. Finish(s) \/ (~stopping /\ Goto(s, "reading") /\ closed' = closed)
      BY <1>0, <2>5 DEF OnWrite, TypeOK
    <3>2. shut' = shut /\ stopping' = stopping
      BY <2>5 DEF OnWrite
    <3>3. QED
      BY <1>0, <3>1, <3>2 DEF TypeOK, Finish
  <2>6. ASSUME NEW s \in Sessions, Destroy(s) PROVE Heard(t)'
    BY <1>0, <2>6 DEF TypeOK, Destroy
  <2>7. ASSUME NEW s \in Sessions, BeginShutdown(s) PROVE Heard(t)'
    BY <1>0, <2>7 DEF TypeOK, BeginShutdown
  <2>8. CASE TakeUp
    <3>1. Head(jobs) \in Sessions /\ conn[Head(jobs)] = "pooled"
      BY <1>0, <2>8 DEF TypeOK, TakeUp, IInv, ServerInv, JobsExact
    <3>2. QED
      BY <1>0, <2>8, <3>1 DEF TypeOK, TakeUp
  <2>9. CASE Stop
    BY <1>0, <2>9 DEF Stop
  <2>10. CASE StopHandler
    BY <1>0, <2>10 DEF StopHandler
  <2>11. ASSUME NEW s \in Sessions, Observe(s) PROVE Heard(t)'
    BY <1>0, <2>11 DEF Observe
  <2>12. CASE BeginCancelling \/ Mark \/ EndCancelling \/ Join \/ EndWait
              \/ (\E r \in toCancel : Check(r)) \/ UNCHANGED vars
    BY <1>0, <2>12 DEF BeginCancelling, Mark, EndCancelling, Join, EndWait, Check, vars
  <2>13. QED
    BY <2>1, <2>2, <2>3, <2>4, <2>5, <2>6, <2>7, <2>8, <2>9, <2>10, <2>11, <2>12
       DEF Next, IoStep, Kernel, Main
<1>3. QED
  BY <1>1, <1>2 DEF Told

Reached(s) ==
  /\ conn[s] \in {"pooled", "processing", "routed"} /\ shut[s] = "done" =>
       reason[s] # "none" \/ closed[s]
  /\ conn[s] = "routed" => ~closed[s]
  /\ stopHandler = "done" /\ Alive(s) => shut[s] # "no"

LEMMA ReachStep ==
  ASSUME IInv, [Next]_vars PROVE  ShutdownReaches'
<1>0. TypeOK /\ OutcomesExact /\ InHand /\ Told /\ (\A t \in Sessions : Reached(t))
  BY DEF IInv, ServerInv, ShutdownReaches, Reached
<1> USE DEF Reached, Alive, session, request, shutdown, Goto
<1> SUFFICES ASSUME NEW t \in Sessions PROVE Reached(t)'
  BY DEF ShutdownReaches
<1>1. ASSUME NEW s \in Sessions, Accept(s) PROVE Reached(t)'
  <2>1. stopHandler' # "done"
    BY <1>0, <1>1 DEF Told, Accept
  <2>2. QED
    BY <1>0, <1>1, <2>1 DEF TypeOK, Accept
<1>2. ASSUME NEW s \in Sessions, ReadEnds(s) \/ WriteEnds(s) \/ RouteAnswers(s)
      PROVE  Reached(t)'
  BY <1>0, <1>2 DEF TypeOK, ReadEnds, WriteEnds, RouteAnswers
<1>r. ASSUME NEW s \in Sessions, Reply(s) PROVE Reached(t)'
  BY <1>0, <1>r DEF TypeOK, Reply
<1>3. ASSUME NEW s \in Sessions, ReadFails(s) PROVE Reached(t)'
  BY <1>0, <1>3 DEF TypeOK, ReadFails, Finish
<1>4. ASSUME NEW s \in Sessions, OnRead(s) PROVE Reached(t)'
  <2>1. PICK l \in {"pooled", "replying"} : NewContext(s) /\ Goto(s, l)
    BY <1>4 DEF OnRead, ToPool
  <2>2. conn[s] = "received" /\ UNCHANGED <<closed, shut, stopHandler>>
    BY <1>4 DEF OnRead
  <2>3. shut[s] = "done" => closed[s]
    BY <1>0, <2>2 DEF Told, Busy
  <2>4. QED
    BY <1>0, <2>1, <2>2, <2>3 DEF TypeOK, NewContext, Fresh
<1>5. ASSUME NEW s \in Sessions, WriteResponse(s) PROVE Reached(t)'
  BY <1>0, <1>5 DEF TypeOK, WriteResponse, NoticeDeadline, Cancel, Cancelled
<1>6. ASSUME NEW s \in Sessions, NEW keep \in BOOLEAN, OnWrite(s, keep) PROVE Reached(t)'
  <2>1. \/ (\E sent, late \in BOOLEAN : Finalize(s, sent, late)) /\ Finish(s)
        \/ NoContext(s) /\ Goto(s, "reading") /\ closed' = closed
    BY <1>6 DEF OnWrite
  <2>2. Finish(s) \/ (Goto(s, "reading") /\ closed' = closed)
    BY <2>1
  <2>5. \A u \in Sessions : u # s => reason'[u] = reason[u]
    BY <1>0, <2>1 DEF TypeOK, Finalize, NoContext, Fresh
  <2>3. UNCHANGED <<shut, stopHandler>> /\ conn[s] \in {"written", "broken"}
    BY <1>6 DEF OnWrite
  <2>4. QED
    BY <1>0, <2>2, <2>3, <2>5 DEF TypeOK, Finish
<1>7. ASSUME NEW s \in Sessions, Destroy(s) PROVE Reached(t)'
  BY <1>0, <1>7 DEF TypeOK, Destroy, NoContext, Fresh
<1>8. ASSUME NEW s \in Sessions, Process(s) PROVE Reached(t)'
  BY <1>0, <1>8 DEF TypeOK, Process, NoticeDeadline, Cancel, Cancelled
<1>9. ASSUME NEW s \in Sessions, BeginShutdown(s) PROVE Reached(t)'
  <2>1. conn[s] \in {"pooled", "processing", "routed"} => context[s] /\ ~drain[s]
    BY <1>0 DEF OutcomesExact, Open, Busy, InHand
  <2>2. QED
    BY <1>0, <1>9, <2>1 DEF TypeOK, BeginShutdown, Cancel, Cancelled, Busy
<1>10. ASSUME NEW s \in Sessions, Observe(s) PROVE Reached(t)'
  BY <1>0, <1>10 DEF TypeOK, Observe, Cancel, Cancelled
<1>11. CASE TakeUp
  <2>1. Head(jobs) \in Sessions /\ conn[Head(jobs)] = "pooled"
    BY <1>0, <1>11 DEF TypeOK, TakeUp, IInv, ServerInv, JobsExact
  <2>2. QED
    BY <1>0, <1>11, <2>1 DEF TypeOK, TakeUp
<1>12. CASE Stop \/ StopHandler
  BY <1>0, <1>12 DEF Stop, StopHandler
<1>13. CASE Mark
  BY <1>0, <1>13 DEF Mark
<1>14. CASE BeginCancelling \/ EndCancelling \/ Join \/ EndWait
            \/ (\E r \in toCancel : Check(r)) \/ UNCHANGED vars
  BY <1>0, <1>14 DEF BeginCancelling, EndCancelling, Join, EndWait, Check, vars
<1>15. QED
  BY <1>1, <1>2, <1>r, <1>3, <1>4, <1>5, <1>6, <1>7, <1>8, <1>9, <1>10, <1>11, <1>12, <1>13, <1>14
     DEF Next, IoStep, Kernel, Main

-----------------------------------------------------------------------------
(* The response under way *)

\* One step, of the formula that DrainIsSpared is about.
Spared(s) ==
  drain[s] /\ context[s] =>
    /\ reason[s] = "none" /\ reason'[s] = "shutdown" => checked = <<s, served[s]>>
    /\ checked' = <<s, served[s]>> => checked = checked'

LEMMA SparedStep ==
  ASSUME IInv, [Next]_vars, NEW t \in Sessions PROVE  Spared(t)
<1>0. TypeOK
  BY DEF IInv, ServerInv
<1> USE DEF Spared, request, shutdown
<1>1. CASE Mark
  <2>1. checked \in Requests /\ checked' = None
    BY <1>0, <1>1 DEF TypeOK, Mark
  <2>2. <<t, served[t]>> # None
    BY <1>0, HttpAssumption DEF HttpAssumption, TypeOK
  <2>3. reason'[t] = "shutdown" /\ reason[t] = "none" => checked[1] = t /\ checked[2] = served[t]
    BY <1>0, <1>1 DEF TypeOK, Mark, Names
  <2>4. QED
    BY <2>1, <2>2, <2>3 DEF Requests
<1>2. ASSUME NEW r \in toCancel, Check(r) PROVE Spared(t)
  <2>1. reason' = reason
    BY <1>2 DEF Check
  <2>2. r = <<t, served[t]>> /\ context[t] /\ drain[t] => checked' = checked
    BY <1>2 DEF Check, Names
  <2>3. checked' = r \/ checked' = checked
    BY <1>2 DEF Check
  <2>4. QED
    BY <1>0, <2>1, <2>2, <2>3 DEF TypeOK
<1>3. ASSUME NEW s \in Sessions, BeginShutdown(s) PROVE Spared(t)
  BY <1>0, <1>3 DEF TypeOK, BeginShutdown, Cancel, Cancelled
<1>4. ASSUME NEW s \in Sessions, OnRead(s) PROVE Spared(t)
  <2>1. NewContext(s)
    BY <1>4 DEF OnRead
  <2>2. checked' = checked
    BY <1>4 DEF OnRead
  <2>3. QED
    BY <1>0, <2>1, <2>2 DEF TypeOK, NewContext, Fresh
<1>5. ASSUME NEW s \in Sessions, WriteResponse(s) \/ Process(s) \/ Observe(s) PROVE Spared(t)
  BY <1>0, <1>5 DEF TypeOK, WriteResponse, Process, Observe, NoticeDeadline, Cancel, Cancelled
<1>6. ASSUME NEW s \in Sessions, NEW keep \in BOOLEAN, OnWrite(s, keep) PROVE Spared(t)
  <2>1. (\E sent, late \in BOOLEAN : Finalize(s, sent, late)) \/ NoContext(s)
    BY <1>6 DEF OnWrite
  <2>2. checked' = checked
    BY <1>6 DEF OnWrite
  <2>3. ASSUME NEW sent \in BOOLEAN, NEW late \in BOOLEAN, Finalize(s, sent, late) PROVE Spared(t)
    BY <1>0, <2>2, <2>3 DEF TypeOK, Finalize, Cancelled
  <2>4. CASE NoContext(s)
    BY <1>0, <2>2, <2>4 DEF TypeOK, NoContext, Fresh
  <2>5. QED
    BY <2>1, <2>3, <2>4
<1>7. ASSUME NEW s \in Sessions, Accept(s) \/ ReadEnds(s) \/ ReadFails(s) \/ WriteEnds(s)
             \/ RouteAnswers(s) \/ Destroy(s) \/ Reply(s)
      PROVE  Spared(t)
  BY <1>0, <1>7 DEF Accept, ReadEnds, ReadFails, WriteEnds, RouteAnswers, Destroy, Reply,
     NoContext, Fresh, TypeOK
<1>8. CASE TakeUp \/ Stop \/ StopHandler \/ BeginCancelling \/ EndCancelling \/ Join \/ EndWait
           \/ UNCHANGED vars
  BY <1>0, <1>8 DEF TakeUp, Stop, StopHandler, BeginCancelling, EndCancelling, Join, EndWait,
     vars, TypeOK
<1>9. QED
  BY <1>1, <1>2, <1>3, <1>4, <1>5, <1>6, <1>7, <1>8 DEF Next, IoStep, Kernel, Main

-----------------------------------------------------------------------------
(* The theorems *)

LEMMA InitIInv == Init => IInv
<1> SUFFICES ASSUME Init PROVE IInv
  OBVIOUS
<1> USE DEF Init
<1>0. ConnectionLimit \in Nat /\ AdmissionLimit \in Nat
  BY HttpAssumption DEF HttpAssumption
<1>1. TypeOK
  <2>1. jobs \in Seq(Sessions)
    OBVIOUS
  <2>2. /\ conn \in [Sessions -> Phases] /\ reason \in [Sessions -> Reasons]
        /\ final \in [Sessions -> Outcomes] /\ served \in [Sessions -> Nat]
    BY <1>0 DEF Phases, Reasons, Outcomes
  <2>3. QED
    BY <2>1, <2>2 DEF TypeOK
<1>2. CountsExact
  <2>1. AliveOnes = {} /\ AdmittedOnes = {} /\ active = 0 /\ admissions = 0
    BY DEF AliveOnes, AdmittedOnes, Alive
  <2>2. Cardinality({}) = 0
    BY FS_EmptySet
  <2> HIDE DEF Init
  <2>3. active = Cardinality(AliveOnes) /\ admissions = Cardinality(AdmittedOnes)
    BY <2>1, <2>2
  <2>4. active <= ConnectionLimit /\ admissions <= AdmissionLimit
    BY <1>0, <2>1
  <2>5. QED
    BY <2>3, <2>4 DEF CountsExact, AliveOnes, AdmittedOnes
<1>3. OutcomesExact /\ JobsExact
  BY DEF OutcomesExact, Open, Busy, JobsExact
<1>4. ShutdownReaches /\ InHand /\ Told
  BY DEF ShutdownReaches, InHand, Told, Alive, Busy
<1>5. QED
  BY <1>1, <1>2, <1>3, <1>4 DEF IInv, ServerInv

LEMMA StepIInv == IInv /\ [Next]_vars => IInv'
BY TypeStep, CountStep, OutcomeStep, JobsStep, HandStep, ToldStep, ReachStep
   DEF IInv, ServerInv

(* The counts of sessions, admissions and outcomes of webserver_beast.cpp are
   exact and within their limits, whatever ends a request, and the pool holds
   each request once.                                                        *)
THEOREM ServerInvariant == Spec => []ServerInv
<1>1. IInv => ServerInv
  BY DEF IInv
<1>2. QED
  BY InitIInv, StepIInv, <1>1, PTL DEF Spec

(* No request is overlooked by the shutdown: stop(), the handler it posts and
   beginShutdown leave none in the hands of the pool or of a route that is
   neither cancelled nor kept from a route by a closed socket.               *)
THEOREM ShutdownReachesAll == Spec => []ShutdownReaches
<1>1. IInv => ShutdownReaches
  BY DEF IInv
<1>2. QED
  BY InitIInv, StepIInv, <1>1, PTL DEF Spec

(* A response under way is not cancelled by the shutdown: drain_on_shutdown
   holds it off, except where the main thread had read the flag before.      *)
THEOREM ShutdownSparesResponses == Spec => DrainIsSpared
<1>1. IInv /\ [Next]_vars => [\A s \in Sessions : drain[s] /\ context[s] =>
       /\ reason[s] = "none" /\ reason'[s] = "shutdown" => checked = <<s, served[s]>>
       /\ checked' = <<s, served[s]>> => checked = checked']_vars
  BY SparedStep DEF Spared
<1>2. QED
  BY InitIInv, StepIInv, <1>1, PTL DEF Spec, DrainIsSpared

=============================================================================
