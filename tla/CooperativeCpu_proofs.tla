------------------------ MODULE CooperativeCpu_proofs ------------------------
(***************************************************************************)
(* CpuInv is an invariant of the permits and of what is waited for without *)
(* one, for any number of conversions, limits, workers and places in the   *)
(* executor's queue.                                                       *)
(*                                                                         *)
(* It is inductive but for two details: a conversion that is submitting    *)
(* has nothing left to submit, and one has an outcome when it is done and  *)
(* not before.                                                             *)
(*                                                                         *)
(* From it follows that the conversions have a PermitPool: each step gives *)
(* or takes back one permit, refuses one, or is not seen there.            *)
(***************************************************************************)
EXTENDS CooperativeCpu, FiniteSetTheorems, TLAPS

SubmitsOnce == \A c \in Conversions : pc[c] = "submitting" => "submit" \notin todo[c]

\* A conversion has an outcome once it is done, and not before.
EndedOnce == \A c \in Conversions : pc[c] = "done" <=> outcome[c] # "none"

IInv == CpuInv /\ SubmitsOnce /\ EndedOnce

Blocked == {c \in Conversions : pc[c] = "blocked"}

\* The parts of the finite set of conversions are counted like their elements.
LEMMA FiniteParts ==
  \A S \in SUBSET Conversions, x \in Conversions :
    /\ Cardinality(S) \in Nat
    /\ x \notin S => Cardinality(S \cup {x}) = Cardinality(S) + 1
    /\ x \in S => Cardinality(S \ {x}) = Cardinality(S) - 1 /\ Cardinality(S) # 0
<1>1. \A S \in SUBSET Conversions : IsFiniteSet(S)
  BY CooperativeAssumption, FS_Subset DEF CooperativeAssumption
<1>2. \A S \in SUBSET Conversions, x \in Conversions :
        /\ Cardinality(S) \in Nat
        /\ x \notin S => Cardinality(S \cup {x}) = Cardinality(S) + 1
        /\ x \in S => Cardinality(S \ {x}) = Cardinality(S) - 1
  BY <1>1, FS_CardinalityType, FS_AddElement, FS_RemoveElement
<1>3. \A S \in SUBSET Conversions, x \in Conversions : x \in S => Cardinality(S) # 0
  BY <1>1, FS_EmptySet
<1>4. QED
  BY <1>2, <1>3

\* Who holds a permit, and who waits for one, is counted.
LEMMA CountedOnes ==
  ASSUME PermitsExact
  PROVE  \A c \in Conversions : (held[c] => active # 0) /\ (pc[c] = "blocked" => waiting # 0)
<1>1. Holders \in SUBSET Conversions /\ Blocked \in SUBSET Conversions
  BY DEF Holders, Blocked
<1>2. active = Cardinality(Holders) /\ waiting = Cardinality(Blocked)
  BY DEF PermitsExact, Blocked
<1>3. \A c \in Conversions : (held[c] => c \in Holders) /\ (pc[c] = "blocked" => c \in Blocked)
  BY DEF Holders, Blocked
<1>4. QED
  BY <1>1, <1>2, <1>3, FiniteParts

-----------------------------------------------------------------------------
(* What a step does to a conversion's place and to its permit *)

(* A conversion takes a permit, gives one back, begins or ceases to wait for
   one, or moves without any of this.                                        *)
Takes(c) ==
  /\ pc[c] \in Asking /\ Goto(c, "work") /\ held' = [held EXCEPT ![c] = TRUE]
  /\ released' = [released EXCEPT ![c] = "none"] /\ active' = active + 1
  /\ waiting' = IF pc[c] = "blocked" THEN waiting - 1 ELSE waiting

Returns(c) ==
  /\ held[c] /\ held' = [held EXCEPT ![c] = FALSE]
  /\ active' = active - 1 /\ waiting' = waiting
  /\ \/ \E l \in Waiting : Goto(c, l) /\ released' = [released EXCEPT ![c] = l]
     \/ Goto(c, "done") /\ UNCHANGED released

Moves(c) ==
  /\ UNCHANGED <<held, active, waiting>> /\ pc[c] # "blocked"
  /\ \E l \in {"asking", "done"} \cup Working \cup Waiting :
       /\ Goto(c, l) /\ (held[c] => l \in Working)
       /\ \/ released' = released /\ (released[c] # "none" => l = "asking")
          \/ released' = [released EXCEPT ![c] = "none"]

Blocks(c) ==
  /\ pc[c] = "asking" /\ Goto(c, "blocked") /\ UNCHANGED <<lease, active>>
  /\ waiting' = waiting + 1

Leaves(c) ==
  /\ pc[c] = "blocked" /\ (Goto(c, "done") \/ Goto(c, "work")) /\ UNCHANGED <<held, active>>
  /\ released' = [released EXCEPT ![c] = "none"]
  /\ waiting' = waiting - 1

Rests == UNCHANGED <<pc, lease, active, waiting>>

\* What a wait does with the permit, if there is one.
LEMMA WaitMoves ==
  ASSUME IInv, NEW c \in Conversions, NEW l \in Waiting, pc[c] \in Working, Wait(c, l)
  PROVE  Returns(c) \/ Moves(c)
<1>0. PermitsExact
  BY DEF IInv, CpuInv
<1>1. /\ held' = [held EXCEPT ![c] = FALSE] /\ Goto(c, l) /\ waiting' = waiting
      /\ released' = [released EXCEPT ![c] = IF held[c] THEN l ELSE "none"]
      /\ active' = IF held[c] /\ active # 0 THEN active - 1 ELSE active
  BY DEF Wait, GiveBack
<1>2. CASE held[c]
  BY <1>0, <1>1, <1>2, CountedOnes DEF Returns
<1>3. CASE ~held[c]
  <2>1. UNCHANGED <<held, active, waiting>> /\ released' = [released EXCEPT ![c] = "none"]
    BY <1>1, <1>3 DEF IInv, CpuInv, TypeOK
  <2>2. pc[c] # "blocked"
    BY DEF Working
  <2>3. QED
    BY <1>1, <1>3, <2>1, <2>2 DEF Moves
<1>4. QED
  BY <1>2, <1>3

LEMMA FinishMoves ==
  ASSUME IInv, NEW c \in Conversions, Finish(c) PROVE Returns(c) \/ Moves(c)
<1>0. PermitsExact /\ PermitWhereItBelongs /\ pc[c] = "work"
  BY DEF IInv, CpuInv, Finish
<1>1. /\ held' = [held EXCEPT ![c] = FALSE] /\ Goto(c, "done")
      /\ waiting' = waiting /\ released' = released
      /\ active' = IF held[c] /\ active # 0 THEN active - 1 ELSE active
  BY DEF Finish, GiveBack
<1>2. released[c] = "none"
  BY <1>0 DEF PermitWhereItBelongs, Asking, IInv, CpuInv, TypeOK, Waiting
<1>3. CASE held[c]
  BY <1>0, <1>1, <1>3, CountedOnes DEF Returns
<1>4. CASE ~held[c]
  <2>1. UNCHANGED <<held, active>>
    BY <1>1, <1>4 DEF IInv, CpuInv, TypeOK
  <2>2. QED
    BY <1>0, <1>1, <1>2, <1>4, <2>1 DEF Moves
<1>5. QED
  BY <1>3, <1>4

LEMMA Movement ==
  ASSUME IInv, [Next]_vars
  PROVE  Rests \/ \E c \in Conversions :
           Takes(c) \/ Returns(c) \/ Moves(c) \/ Blocks(c) \/ Leaves(c)
<1>0. PermitWhereItBelongs /\ released \in [Conversions -> Waiting \cup {"none"}]
  BY DEF IInv, CpuInv, TypeOK
<1> USE DEF gate, lease, thread
<1>1. ASSUME NEW c \in Conversions, Start(c) PROVE Moves(c)
  BY <1>0, <1>1 DEF Moves, Start, Goto, PermitWhereItBelongs, Working
<1>2. ASSUME NEW c \in Conversions, Submit(c) \/ Get(c) \/ Fetched(c) \/ Follow(c)
      PROVE  Moves(c)
  <2>1. /\ pc[c] \in Waiting /\ UNCHANGED <<held, released, active, waiting>>
        /\ Goto(c, IF released[c] = "none" THEN "work" ELSE "asking")
    BY <1>2 DEF Submit, Get, Fetched, Follow, Resume, Waiting
  <2>2. ~held[c] /\ pc[c] # "blocked"
    BY <1>0, <2>1 DEF PermitWhereItBelongs, Working, Waiting
  <2>3. QED
    BY <2>1, <2>2 DEF Moves, Working
<1>3. ASSUME NEW c \in Conversions, Compute(c) \/ Publish(c) PROVE Moves(c)
  BY <1>0, <1>3 DEF Moves, Compute, Publish, Goto, PermitWhereItBelongs, Working, Asking, Waiting
<1>4. ASSUME NEW c \in Conversions, Ask(c) PROVE Takes(c) \/ Moves(c) \/ Blocks(c)
  <2>1. pc[c] = "asking" /\ ~held[c]
    BY <1>0, <1>4 DEF Ask, PermitWhereItBelongs, Working
  <2>2. CASE Answered(c, waiting)
    BY <2>1, <2>2 DEF Takes, Moves, Answered, Granted, TurnedAway, CarriesOn, Goto, Asking, Working
  <2>3. QED
    BY <1>4, <2>1, <2>2 DEF Blocks, Ask
<1>5. ASSUME NEW c \in Conversions, AskAgain(c) PROVE Takes(c) \/ Leaves(c)
  BY <1>5 DEF Takes, Leaves, AskAgain, Answered, Granted, TurnedAway, CarriesOn, Asking
<1>6. ASSUME NEW c \in Conversions, BeginSubmit(c) \/ BeginGet(c) \/ BeginFetch(c) \/ Erase(c)
      PROVE  Returns(c) \/ Moves(c)
  <2>1. pc[c] \in Working /\ \E l \in Waiting : Wait(c, l)
    BY <1>6 DEF BeginSubmit, BeginGet, BeginFetch, Erase, Working, Waiting
  <2>2. QED
    BY <2>1, WaitMoves
<1>7. ASSUME NEW c \in Conversions, Lookup(c) PROVE Rests \/ Returns(c) \/ Moves(c)
  <2>1. pc[c] = "work"
    BY <1>7 DEF Lookup
  <2>2. CASE Wait(c, "following")
    BY <2>1, <2>2, WaitMoves DEF Working, Waiting
  <2>3. CASE Goto(c, "compute") /\ UNCHANGED <<held, released, active, waiting>>
    BY <1>0, <2>1, <2>3 DEF Moves, PermitWhereItBelongs, Working, Asking, Waiting
  <2>4. QED
    BY <1>7, <2>2, <2>3 DEF Rests, Lookup
<1>8. ASSUME NEW c \in Conversions, RunTask(c) \/ Stop(c) PROVE Rests
  BY <1>8 DEF Rests, RunTask, Stop
<1>9. CASE TakeTask \/ Environment \/ UNCHANGED vars
  BY <1>9 DEF Rests, TakeTask, Environment, SetLimit, Evict, ShutdownGate, ShutdownExecutor,
     vars
<1>10. QED
  BY <1>1, <1>2, <1>3, <1>4, <1>5, <1>6, <1>7, <1>8, <1>9, FinishMoves DEF Next, Convert

-----------------------------------------------------------------------------
(* The permits *)

Places == pc \in [Conversions -> {"new", "done"} \cup Working \cup Waiting \cup Asking]
Permits == held \in [Conversions -> BOOLEAN] /\ released \in [Conversions -> Waiting \cup {"none"}]

\* Every step keeps the places and the permits of the conversions in step.
LEMMA BelongStep ==
  ASSUME IInv, [Next]_vars PROVE  Places' /\ Permits' /\ PermitWhereItBelongs'
<1>0. Places /\ Permits /\ PermitWhereItBelongs
  BY DEF IInv, CpuInv, TypeOK, Places, Permits
<1> USE DEF Places, Permits, PermitWhereItBelongs, Working, Waiting, Asking, Goto, lease
<1>1. ASSUME NEW c \in Conversions, Takes(c) PROVE Places' /\ Permits' /\ PermitWhereItBelongs'
  BY <1>0, <1>1 DEF Takes
<1>2. ASSUME NEW c \in Conversions, Returns(c) PROVE Places' /\ Permits' /\ PermitWhereItBelongs'
  BY <1>0, <1>2 DEF Returns
<1>3. ASSUME NEW c \in Conversions, Moves(c) PROVE Places' /\ Permits' /\ PermitWhereItBelongs'
  BY <1>0, <1>3 DEF Moves
<1>4. ASSUME NEW c \in Conversions, Blocks(c) \/ Leaves(c)
      PROVE  Places' /\ Permits' /\ PermitWhereItBelongs'
  BY <1>0, <1>4 DEF Blocks, Leaves
<1>5. CASE Rests
  BY <1>0, <1>5 DEF Rests
<1>6. QED
  BY <1>1, <1>2, <1>3, <1>4, <1>5, Movement

\* Every step counts the permits and the waiters that it moves.
LEMMA CountStep ==
  ASSUME IInv, [Next]_vars PROVE  PermitsExact' /\ active' \in Nat /\ waiting' \in Nat
<1>0. Places /\ Permits /\ PermitWhereItBelongs
  BY DEF IInv, CpuInv, TypeOK, Places, Permits
<1>1. /\ Holders \in SUBSET Conversions /\ Blocked \in SUBSET Conversions
      /\ active = Cardinality(Holders) /\ waiting = Cardinality(Blocked)
  BY DEF IInv, CpuInv, PermitsExact, Holders, Blocked
<1> USE DEF Places, Permits, PermitWhereItBelongs, Holders, Blocked, Working, Waiting, Asking, Goto, lease
<1>2. \/ \E c \in Conversions : c \notin Holders /\ Holders' = Holders \cup {c} /\ active' = active + 1
      \/ \E c \in Conversions : c \in Holders /\ Holders' = Holders \ {c} /\ active' = active - 1
      \/ Holders' = Holders /\ active' = active
  <2>1. ASSUME NEW c \in Conversions, Takes(c)
        PROVE  c \notin Holders /\ Holders' = Holders \cup {c} /\ active' = active + 1
    BY <1>0, <2>1 DEF Takes
  <2>2. ASSUME NEW c \in Conversions, Returns(c)
        PROVE  c \in Holders /\ Holders' = Holders \ {c} /\ active' = active - 1
    BY <1>0, <2>2 DEF Returns
  <2>3. ASSUME NEW c \in Conversions, Moves(c) \/ Blocks(c) \/ Leaves(c) \/ Rests
        PROVE  Holders' = Holders /\ active' = active
    BY <2>3 DEF Moves, Blocks, Leaves, Rests
  <2>4. CASE Rests
    BY <2>4 DEF Rests
  <2>5. QED
    BY <2>1, <2>2, <2>3, <2>4, Movement
<1>3. \/ \E c \in Conversions : c \notin Blocked /\ Blocked' = Blocked \cup {c} /\ waiting' = waiting + 1
      \/ \E c \in Conversions : c \in Blocked /\ Blocked' = Blocked \ {c} /\ waiting' = waiting - 1
      \/ Blocked' = Blocked /\ waiting' = waiting
  <2>1. ASSUME NEW c \in Conversions, Takes(c)
        PROVE  \/ c \in Blocked /\ Blocked' = Blocked \ {c} /\ waiting' = waiting - 1
               \/ Blocked' = Blocked /\ waiting' = waiting
    BY <1>0, <2>1 DEF Takes
  <2>2. ASSUME NEW c \in Conversions, Returns(c) \/ Moves(c)
        PROVE  Blocked' = Blocked /\ waiting' = waiting
    BY <1>0, <2>2 DEF Returns, Moves
  <2>3. ASSUME NEW c \in Conversions, Blocks(c)
        PROVE  c \notin Blocked /\ Blocked' = Blocked \cup {c} /\ waiting' = waiting + 1
    BY <1>0, <2>3 DEF Blocks
  <2>4. ASSUME NEW c \in Conversions, Leaves(c)
        PROVE  c \in Blocked /\ Blocked' = Blocked \ {c} /\ waiting' = waiting - 1
    BY <1>0, <2>4 DEF Leaves
  <2>5. CASE Rests
    BY <2>5 DEF Rests
  <2>6. QED
    BY <2>1, <2>2, <2>3, <2>4, <2>5, Movement
<1> HIDE DEF Holders, Blocked
<1>4. active' = Cardinality(Holders') /\ active' \in Nat
  <2>1. Cardinality(Holders) \in Nat
    BY <1>1, CooperativeAssumption, FS_Subset, FS_CardinalityType DEF CooperativeAssumption
  <2>2. QED
    BY <1>1, <1>2, <2>1, FiniteParts
<1>5. waiting' = Cardinality(Blocked') /\ waiting' \in Nat
  <2>1. Cardinality(Blocked) \in Nat
    BY <1>1, CooperativeAssumption, FS_Subset, FS_CardinalityType DEF CooperativeAssumption
  <2>2. QED
    BY <1>1, <1>3, <2>1, FiniteParts
<1>6. QED
  BY <1>4, <1>5 DEF PermitsExact, Blocked

-----------------------------------------------------------------------------
(* The other types, and the reason of a refusal *)

Settings == /\ limit \in 1 .. MaxLimit /\ resizes \in 0 .. MaxResizes
            /\ stopping \in BOOLEAN /\ closed \in BOOLEAN /\ cached \in BOOLEAN
            /\ stopped \subseteq Conversions

Threads == /\ todo \in [Conversions -> SUBSET {"submit", "get", "fetch", "cache"}]
           /\ outcome \in [Conversions -> {"none", "ended", "refused", "unpermitted"}]

Flights == /\ inflight \in Conversions \cup {None}
           /\ promise \in [Conversions -> BOOLEAN]
           /\ follows \in [Conversions -> Conversions \cup {None}]

Answers == /\ queue \in Seq(Conversions)
           /\ answer \in [Conversions -> {"none", "queued", "running", "ready"}]

LEMMA TypeParts ==
  /\ TypeOK => Settings /\ Threads /\ Flights /\ Answers /\ Places /\ Permits
  /\ /\ Settings' /\ Threads' /\ Flights' /\ Answers' /\ Places' /\ Permits'
     /\ active' \in Nat /\ waiting' \in Nat
     => TypeOK'
BY DEF TypeOK, Settings, Threads, Flights, Answers, Places, Permits

LEMMA TypeStep ==
  ASSUME IInv, [Next]_vars PROVE  Settings' /\ Threads' /\ Flights' /\ Answers'
<1>0. Settings /\ Threads /\ Flights /\ Answers
  BY TypeParts DEF IInv, CpuInv
<1> USE DEF gate, lease, executor, cache, thread, Goto
<1>1. Settings'
  <2>1. ASSUME NEW l \in 1 .. MaxLimit, SetLimit(l) PROVE Settings'
    BY <1>0, <2>1, CooperativeAssumption DEF Settings, SetLimit, CooperativeAssumption
  <2>2. ASSUME NEW c \in Conversions, Stop(c) PROVE Settings'
    BY <1>0, <2>2 DEF Settings, Stop
  <2>3. ASSUME NEW c \in Conversions, Compute(c) PROVE Settings'
    BY <1>0, <2>3 DEF Settings, Compute
  <2>4. CASE Evict \/ ShutdownGate \/ ShutdownExecutor
    BY <1>0, <2>4 DEF Settings, Evict, ShutdownGate, ShutdownExecutor
  <2>5. CASE UNCHANGED <<limit, resizes, stopping, closed, cached, stopped>>
    BY <1>0, <2>5 DEF Settings
  <2>6. ASSUME NEW c \in Conversions, Start(c) \/ Ask(c) \/ AskAgain(c) \/ BeginSubmit(c)
               \/ Submit(c) \/ BeginGet(c) \/ BeginFetch(c) \/ Get(c) \/ Fetched(c) \/ RunTask(c)
        PROVE  UNCHANGED <<limit, resizes, stopping, closed, cached, stopped>>
    BY <2>6 DEF Start, Ask, AskAgain, BeginSubmit, Submit, BeginGet, BeginFetch, Get, Fetched, RunTask, Wait, GiveBack
  <2>7. ASSUME NEW c \in Conversions, Lookup(c) \/ Publish(c) \/ Erase(c) \/ Follow(c) \/ Finish(c)
        PROVE  UNCHANGED <<limit, resizes, stopping, closed, cached, stopped>>
    BY <2>7 DEF Lookup, Publish, Erase, Follow, Finish, Wait, GiveBack
  <2>8. CASE TakeTask \/ UNCHANGED vars
    BY <2>5, <2>8 DEF TakeTask, vars
  <2>9. QED
    BY <2>1, <2>2, <2>3, <2>4, <2>5, <2>6, <2>7, <2>8 DEF Next, Convert, Environment
<1>2. Threads'
  <2>1. ASSUME NEW c \in Conversions, BeginSubmit(c) \/ BeginGet(c) \/ BeginFetch(c) \/ Lookup(c)
        PROVE  Threads'
    BY <1>0, <2>1 DEF Threads, BeginSubmit, BeginGet, BeginFetch, Lookup
  <2>2. ASSUME NEW c \in Conversions, Ask(c) \/ AskAgain(c) \/ Finish(c) PROVE Threads'
    <3>1. /\ todo' = todo
          /\ \/ outcome' = outcome
             \/ outcome' = [outcome EXCEPT ![c] = "refused"]
             \/ outcome' = [outcome EXCEPT ![c] = IF held[c] THEN "ended" ELSE "unpermitted"]
      BY <2>2 DEF Ask, AskAgain, Answered, Granted, TurnedAway, CarriesOn, Finish
    <3>2. outcome' \in [Conversions -> {"none", "ended", "refused", "unpermitted"}]
      BY <1>0, <3>1 DEF Threads
    <3>3. QED
      BY <1>0, <3>1, <3>2 DEF Threads
  <2>3. ASSUME NEW c \in Conversions, Start(c) \/ Submit(c) \/ Get(c) \/ Fetched(c) \/ Compute(c)
               \/ Publish(c) \/ Erase(c) \/ Follow(c) \/ RunTask(c) \/ Stop(c)
        PROVE  Threads'
    BY <1>0, <2>3 DEF Threads, Start, Submit, Get, Fetched, Compute, Publish, Erase, Follow, RunTask, Stop
  <2>4. CASE TakeTask \/ Environment \/ UNCHANGED vars
    BY <1>0, <2>4 DEF Threads, TakeTask, Environment, SetLimit, Evict, ShutdownGate,
       ShutdownExecutor, vars
  <2>5. QED
    BY <2>1, <2>2, <2>3, <2>4 DEF Next, Convert
<1>3. Flights'
  <2>1. ASSUME NEW c \in Conversions, Lookup(c) PROVE Flights'
    BY <1>0, <2>1 DEF Flights, Lookup
  <2>2. ASSUME NEW c \in Conversions, Publish(c) \/ Erase(c) PROVE Flights'
    BY <1>0, <2>2 DEF Flights, Publish, Erase
  <2>3. ASSUME NEW c \in Conversions, Start(c) \/ Ask(c) \/ AskAgain(c) \/ BeginSubmit(c)
               \/ Submit(c) \/ BeginGet(c) \/ BeginFetch(c) \/ Get(c) \/ Fetched(c) \/ Compute(c) \/ Follow(c) \/ Finish(c)
               \/ RunTask(c) \/ Stop(c)
        PROVE  Flights'
    BY <1>0, <2>3 DEF Flights, Start, Ask, AskAgain, BeginSubmit, Submit, BeginGet, BeginFetch, Get, Fetched,
       Compute, Follow, Finish, RunTask, Stop
  <2>4. CASE TakeTask \/ Environment \/ UNCHANGED vars
    BY <1>0, <2>4 DEF Flights, TakeTask, Environment, SetLimit, Evict, ShutdownGate,
       ShutdownExecutor, vars
  <2>5. QED
    BY <2>1, <2>2, <2>3, <2>4 DEF Next, Convert
<1>4. Answers'
  <2>1. ASSUME NEW c \in Conversions, Submit(c) PROVE Answers'
    <3>1. queue' = Append(queue, c) \/ queue' = queue
      BY <2>1 DEF Submit
    <3>2. \E a \in {"queued", "ready"} : answer' = [answer EXCEPT ![c] = a]
      BY <2>1 DEF Submit
    <3>3. queue' \in Seq(Conversions)
      BY <1>0, <3>1 DEF Answers
    <3>4. answer' \in [Conversions -> {"none", "queued", "running", "ready"}]
      BY <1>0, <3>2 DEF Answers
    <3>5. QED
      BY <3>3, <3>4 DEF Answers
  <2>2. ASSUME NEW c \in Conversions, RunTask(c) PROVE Answers'
    BY <1>0, <2>2 DEF Answers, RunTask
  <2>3. CASE TakeTask
    BY <1>0, <2>3 DEF Answers, TakeTask
  <2>4. CASE ShutdownExecutor
    BY <1>0, <2>4 DEF Answers, ShutdownExecutor
  <2>5. ASSUME NEW c \in Conversions, Start(c) \/ Ask(c) \/ AskAgain(c) \/ BeginSubmit(c)
               \/ BeginGet(c) \/ BeginFetch(c) \/ Get(c) \/ Fetched(c) \/ Compute(c) \/ Lookup(c) \/ Publish(c) \/ Erase(c)
               \/ Follow(c) \/ Finish(c) \/ Stop(c)
        PROVE  UNCHANGED <<queue, answer>>
    BY <2>5 DEF Start, Ask, AskAgain, BeginSubmit, BeginGet, BeginFetch, Get, Fetched, Compute, Lookup, Publish,
       Erase, Follow, Finish, Stop
  <2>6. CASE UNCHANGED <<queue, answer>>
    BY <1>0, <2>6 DEF Answers
  <2>7. CASE (\E l \in 1 .. MaxLimit : SetLimit(l)) \/ Evict \/ ShutdownGate \/ UNCHANGED vars
    BY <2>6, <2>7 DEF SetLimit, Evict, ShutdownGate, vars
  <2>8. QED
    BY <2>1, <2>2, <2>3, <2>4, <2>5, <2>6, <2>7 DEF Next, Convert, Environment
<1>5. QED
  BY <1>1, <1>2, <1>3, <1>4

LEMMA EndedOnceStep ==
  ASSUME IInv, [Next]_vars PROVE  EndedOnce'
<1>0. EndedOnce /\ Places /\ Threads
  BY TypeParts DEF IInv, CpuInv
<1> USE DEF EndedOnce, Places, Threads, thread, Goto
<1>1. ASSUME NEW c \in Conversions, NEW l, Goto(c, l), l # "done", pc[c] # "done", UNCHANGED outcome
      PROVE  EndedOnce'
  BY <1>0, <1>1
<1>2. ASSUME NEW c \in Conversions,
             Start(c) \/ Submit(c) \/ Get(c) \/ Fetched(c) \/ Follow(c) \/ Compute(c) \/ Publish(c)
      PROVE  EndedOnce'
  BY <1>1, <1>2 DEF Compute, Publish, Start, Submit, Get, Fetched, Follow, Resume
<1>3. ASSUME NEW c \in Conversions, Finish(c) PROVE EndedOnce'
  BY <1>0, <1>3 DEF Finish
<1>4. ASSUME NEW c \in Conversions, Ask(c) \/ AskAgain(c) PROVE EndedOnce'
  BY <1>0, <1>4 DEF Ask, AskAgain, Answered, Granted, TurnedAway, CarriesOn
<1>5. ASSUME NEW c \in Conversions, BeginSubmit(c) \/ BeginGet(c) \/ BeginFetch(c) \/ Erase(c)
      PROVE  EndedOnce'
  BY <1>1, <1>5 DEF BeginSubmit, BeginGet, BeginFetch, Erase, Wait
<1>6. ASSUME NEW c \in Conversions, Lookup(c) PROVE EndedOnce'
  BY <1>0, <1>6 DEF Lookup, Wait
<1>7. ASSUME NEW c \in Conversions, RunTask(c) \/ Stop(c) PROVE EndedOnce'
  BY <1>0, <1>7 DEF RunTask, Stop
<1>8. CASE TakeTask \/ Environment \/ UNCHANGED vars
  BY <1>0, <1>8 DEF TakeTask, Environment, SetLimit, Evict, ShutdownGate, ShutdownExecutor, vars
<1>9. QED
  BY <1>2, <1>3, <1>4, <1>5, <1>6, <1>7, <1>8 DEF Next, Convert

-----------------------------------------------------------------------------
(* Who has been refused a permit *)

\* Whether a conversion computes without a permit, or will after its wait.
IsBare(c) == (pc[c] \in Working /\ ~held[c]) \/ (pc[c] \in Waiting /\ released[c] = "none")

\* A step of one conversion that neither ends it nor loses it its permit.
LEMMA RefusedKept ==
  ASSUME IInv, NEW c \in Conversions, NEW l, Goto(c, l), UNCHANGED outcome,
         \A d \in Conversions \ {c} : held'[d] = held[d] /\ released'[d] = released[d],
         IsBare(c) <=> (l \in Working /\ ~held'[c]) \/ (l \in Waiting /\ released'[c] = "none")
  PROVE  UNCHANGED RefusedOnes
<1>1. Places
  BY DEF IInv, CpuInv, TypeOK, Places
<1>2. ASSUME NEW d \in Conversions PROVE IsBare(d)' <=> IsBare(d)
  BY <1>1, <1>2 DEF IsBare, Places, Goto
<1>3. UNCHANGED Bare
  BY <1>2 DEF Bare, IsBare
<1>4. QED
  BY <1>3 DEF RefusedOnes, EndedAs

LEMMA RefusedRests ==
  ASSUME UNCHANGED <<pc, lease, outcome>> PROVE UNCHANGED RefusedOnes
BY DEF RefusedOnes, Bare, EndedAs, lease

LEMMA WaitKeeps ==
  ASSUME IInv, NEW c \in Conversions, NEW l \in Waiting, pc[c] \in Working, Wait(c, l),
         UNCHANGED outcome
  PROVE  UNCHANGED RefusedOnes
<1>1. Permits /\ l # "none" /\ l \notin Working /\ pc[c] \notin Waiting
  BY DEF IInv, CpuInv, TypeOK, Permits, Working, Waiting
<1>2. \A d \in Conversions \ {c} : held'[d] = held[d] /\ released'[d] = released[d]
  BY <1>1 DEF Wait, GiveBack, Permits
<1>3. released'[c] = IF held[c] THEN l ELSE "none"
  BY <1>1 DEF Wait, Permits
<1>4. IsBare(c) <=> (l \in Working /\ ~held'[c]) \/ (l \in Waiting /\ released'[c] = "none")
  BY <1>1, <1>3 DEF IsBare
<1>5. QED
  BY <1>2, <1>4, RefusedKept DEF Wait

\* After the wait, with the permit to be asked for again, or without one.
LEMMA ResumeKeeps ==
  ASSUME IInv, NEW c \in Conversions, pc[c] \in Waiting, Resume(c), UNCHANGED <<lease, outcome>>
  PROVE  UNCHANGED RefusedOnes
<1>1. ~held[c] /\ pc[c] \notin Working
  BY DEF IInv, CpuInv, PermitWhereItBelongs, Working, Waiting
<1>2. \E l \in {"work", "asking"} : Goto(c, l) /\ (l = "work" <=> released[c] = "none")
  BY DEF Resume
<1>3. QED
  BY <1>1, <1>2, RefusedKept DEF IsBare, Working, Waiting, lease

\* One that asks is not among them yet, nor is one that holds its permit.
LEMMA NotYetRefused ==
  ASSUME IInv, NEW c \in Conversions, pc[c] \in Asking \cup {"new"} \/ held[c]
  PROVE  c \notin RefusedOnes \cup EndedAs("ended")
<1>1. EndedOnce /\ PermitWhereItBelongs
  BY DEF IInv, CpuInv
<1>2. pc[c] # "done" /\ ~IsBare(c)
  BY <1>1 DEF IsBare, PermitWhereItBelongs, Working, Waiting, Asking
<1>3. QED
  BY <1>1, <1>2 DEF RefusedOnes, Bare, IsBare, EndedAs, EndedOnce

\* A permit is granted.
LEMMA GrantedKeeps ==
  ASSUME IInv, NEW c \in Conversions, NEW waiters, pc[c] \in Asking,
         Granted(c, waiters), Answered(c, waiters)
  PROVE  UNCHANGED RefusedOnes
<1>1. Permits /\ pc[c] \notin Working \cup Waiting
  BY DEF IInv, CpuInv, TypeOK, Permits, Working, Waiting, Asking
<1>2. held'[c] /\ \A d \in Conversions \ {c} : held'[d] = held[d] /\ released'[d] = released[d]
  BY <1>1 DEF Granted, Answered, Permits
<1>3. Goto(c, "work") /\ UNCHANGED outcome
  BY DEF Granted
<1>4. QED
  BY <1>1, <1>2, <1>3, RefusedKept DEF IsBare, Working, Waiting

\* A permit is refused: the conversion ends, or goes on without.
LEMMA RefusedAdds ==
  ASSUME IInv, NEW c \in Conversions, NEW waiters, pc[c] \in Asking,
         TurnedAway(c, waiters) \/ CarriesOn(c, waiters), Answered(c, waiters)
  PROVE  /\ RefusedOnes' = RefusedOnes \cup {c}
         /\ Holders' = Holders /\ UNCHANGED EndedAs("ended")
<1>1. /\ Permits /\ Places /\ Threads /\ EndedOnce /\ ~held[c]
      /\ pc[c] \notin Working \cup Waiting \cup {"done"}
  BY TypeParts DEF IInv, CpuInv, PermitWhereItBelongs, Working, Waiting, Asking
<1>2. /\ held' = held /\ released' = [released EXCEPT ![c] = "none"]
      /\ \/ Goto(c, "done") /\ outcome' = [outcome EXCEPT ![c] = "refused"]
         \/ Goto(c, "work") /\ outcome' = outcome
  BY DEF TurnedAway, CarriesOn, Answered
<1>3. ASSUME NEW d \in Conversions, d # c
      PROVE  (IsBare(d)' <=> IsBare(d)) /\ outcome'[d] = outcome[d]
  BY <1>1, <1>2, <1>3 DEF IsBare, Permits, Places, Threads, Goto
<1>4. IsBare(c)' \/ outcome'[c] = "refused"
  BY <1>1, <1>2 DEF IsBare, Places, Threads, Goto, Working
<1>5. outcome[c] = "none" /\ outcome'[c] # "ended"
  BY <1>1, <1>2 DEF EndedOnce, Threads
<1>6. RefusedOnes' = RefusedOnes \cup {c}
  BY <1>3, <1>4 DEF RefusedOnes, Bare, IsBare, EndedAs
<1>7. Holders' = Holders /\ UNCHANGED EndedAs("ended")
  BY <1>2, <1>3, <1>5 DEF Holders, EndedAs
<1>8. QED
  BY <1>6, <1>7

\* The end of a conversion: of one that has a permit, or has been refused one.
LEMMA FinishKeeps ==
  ASSUME IInv, NEW c \in Conversions, Finish(c)
  PROVE  UNCHANGED RefusedOnes
<1>1. Permits /\ Places /\ Threads /\ EndedOnce /\ pc[c] = "work"
  BY TypeParts DEF IInv, CpuInv, Finish
<1>2. /\ held' = [held EXCEPT ![c] = FALSE] /\ released' = released /\ Goto(c, "done")
      /\ outcome' = [outcome EXCEPT ![c] = IF held[c] THEN "ended" ELSE "unpermitted"]
  BY DEF Finish, GiveBack
<1>3. ASSUME NEW d \in Conversions, d # c
      PROVE  (IsBare(d)' <=> IsBare(d)) /\ outcome'[d] = outcome[d]
  BY <1>1, <1>2, <1>3 DEF IsBare, Permits, Places, Threads, Goto
<1>4. outcome[c] = "none" /\ (IsBare(c) <=> ~held[c])
  BY <1>1 DEF EndedOnce, IsBare, Working, Waiting
<1>5. ~IsBare(c)' /\ (outcome'[c] = "unpermitted" <=> ~held[c]) /\ outcome'[c] # "refused"
  BY <1>1, <1>2 DEF IsBare, Places, Threads, Goto, Working, Waiting
<1>6. QED
  BY <1>3, <1>4, <1>5 DEF RefusedOnes, Bare, IsBare, EndedAs

\* Nobody else joins or leaves them.
LEMMA OthersKeep ==
  ASSUME IInv, NEW c \in Conversions,
         \/ Start(c) \/ Submit(c) \/ Get(c) \/ Fetched(c) \/ Follow(c) \/ Compute(c) \/ Publish(c)
         \/ BeginSubmit(c) \/ BeginGet(c) \/ BeginFetch(c) \/ Erase(c) \/ Lookup(c)
  PROVE  UNCHANGED RefusedOnes /\ UNCHANGED <<outcome, stopped, stopping>>
<1> USE DEF gate, lease, thread
<1>1. UNCHANGED <<outcome, stopped, stopping>>
  BY DEF Start, Submit, Get, Fetched, Follow, Compute, Publish, BeginSubmit, BeginGet,
     BeginFetch, Erase, Lookup, Wait, GiveBack
<1>2. CASE Start(c)
  BY <1>2, RefusedKept DEF Start, IsBare, Working, Waiting
<1>3. CASE Submit(c) \/ Get(c) \/ Fetched(c) \/ Follow(c)
  BY <1>3, ResumeKeeps DEF Submit, Get, Fetched, Follow, Waiting
<1>4. CASE Compute(c) \/ Publish(c)
  BY <1>4, RefusedKept DEF Compute, Publish, IsBare, Working, Waiting
<1>5. CASE BeginSubmit(c) \/ BeginGet(c) \/ BeginFetch(c) \/ Erase(c)
  <2>1. pc[c] \in Working /\ \E l \in Waiting : Wait(c, l)
    BY <1>5 DEF BeginSubmit, BeginGet, BeginFetch, Erase, Working, Waiting
  <2>2. QED
    BY <1>1, <2>1, WaitKeeps
<1>6. CASE Lookup(c)
  <2>1. pc[c] = "work"
    BY <1>6 DEF Lookup
  <2>2. CASE Wait(c, "following")
    BY <1>1, <2>1, <2>2, WaitKeeps DEF Working, Waiting
  <2>3. CASE Goto(c, "compute") /\ UNCHANGED lease
    BY <1>1, <2>1, <2>3, RefusedKept DEF IsBare, Working, Waiting
  <2>4. QED
    BY <1>1, <1>6, <2>2, <2>3, RefusedRests DEF Lookup
<1>7. QED
  BY <1>1, <1>2, <1>3, <1>4, <1>5, <1>6

LEMMA AskCases ==
  ASSUME IInv, NEW c \in Conversions, Ask(c) \/ AskAgain(c)
  PROVE  /\ pc[c] \in Asking /\ UNCHANGED <<limit, stopping, stopped>>
         /\ \/ \E waiters : Granted(c, waiters) /\ Answered(c, waiters)
            \/ \E waiters : /\ TurnedAway(c, waiters) \/ CarriesOn(c, waiters)
                           /\ Answered(c, waiters)
            \/ UNCHANGED RefusedOnes /\ UNCHANGED <<held, outcome>>
<1>1. pc[c] \in Asking /\ UNCHANGED <<limit, stopping, stopped>>
  BY DEF Ask, AskAgain, Asking
<1>2. CASE \E waiters : Answered(c, waiters)
  BY <1>1, <1>2 DEF Answered
<1>3. CASE pc[c] = "asking" /\ Goto(c, "blocked") /\ UNCHANGED <<held, released, outcome>>
  BY <1>1, <1>3, RefusedKept DEF IsBare, Working, Waiting
<1>4. QED
  BY <1>2, <1>3 DEF Ask, AskAgain, lease

LEMMA ReasonStep ==
  ASSUME IInv, [Next]_vars PROVE  RefusedForAReason'
<1>0. RefusedForAReason /\ RefusedOnes \subseteq Conversions
  BY DEF IInv, CpuInv, RefusedOnes, Bare, EndedAs
<1> USE DEF RefusedForAReason
<1>1. ASSUME NEW c \in Conversions, Ask(c) \/ AskAgain(c) PROVE RefusedForAReason'
  <2>1. ASSUME NEW waiters, Granted(c, waiters), Answered(c, waiters) PROVE RefusedForAReason'
    BY <1>0, <1>1, <2>1, AskCases, GrantedKeeps
  <2>2. ASSUME NEW waiters, TurnedAway(c, waiters) \/ CarriesOn(c, waiters), Answered(c, waiters)
        PROVE  RefusedForAReason'
    <3>1. RefusedOnes' = RefusedOnes \cup {c} /\ (stopping \/ c \in stopped)
      BY <1>1, <2>2, AskCases, RefusedAdds DEF TurnedAway, CarriesOn, Refused
    <3>2. QED
      BY <1>0, <1>1, <3>1, AskCases
  <2>3. QED
    BY <1>0, <1>1, <2>1, <2>2, AskCases
<1>2. ASSUME NEW c \in Conversions, Finish(c) PROVE RefusedForAReason'
  BY <1>0, <1>2, FinishKeeps DEF Finish, GiveBack
<1>3. ASSUME NEW c \in Conversions,
         \/ Start(c) \/ Submit(c) \/ Get(c) \/ Fetched(c) \/ Follow(c) \/ Compute(c) \/ Publish(c)
         \/ BeginSubmit(c) \/ BeginGet(c) \/ BeginFetch(c) \/ Erase(c) \/ Lookup(c)
      PROVE  RefusedForAReason'
  BY <1>0, <1>3, OthersKeep
<1>4. ASSUME NEW c \in Conversions, RunTask(c) \/ Stop(c) PROVE RefusedForAReason'
  <2>1. UNCHANGED <<pc, lease, outcome, stopping>> /\ stopped \subseteq stopped'
    BY <1>4 DEF RunTask, Stop, gate, thread
  <2>2. QED
    BY <1>0, <2>1, RefusedRests
<1>5. CASE TakeTask \/ Environment \/ UNCHANGED vars
  <2>1. UNCHANGED <<pc, lease, outcome, stopped>> /\ (stopping => stopping')
    BY <1>5 DEF TakeTask, Environment, SetLimit, Evict, ShutdownGate, ShutdownExecutor, vars,
       gate, thread
  <2>2. QED
    BY <1>0, <2>1, RefusedRests
<1>6. QED
  BY <1>1, <1>2, <1>3, <1>4, <1>5 DEF Next, Convert

-----------------------------------------------------------------------------
(* What is waited for will come *)

LEMMA FlightStep ==
  ASSUME IInv, [Next]_vars PROVE  FlightInv'
<1>0. FlightInv /\ Places /\ Flights /\ None \notin Conversions
  BY TypeParts, CooperativeAssumption DEF IInv, CpuInv, NobodyWaitsInVain, CooperativeAssumption
<1> USE DEF FlightInv, Places, Working, Waiting, Asking, gate, executor, cache, thread, Goto
<1>1. ASSUME NEW c \in Conversions,
             NEW l \in {"asking", "blocked", "work", "done", "submitting", "getting", "fetching"},
             Goto(c, l), pc[c] \notin {"compute", "publish", "erase"},
             UNCHANGED <<inflight, promise, follows>>
      PROVE  FlightInv'
  BY <1>0, <1>1
<1>2. ASSUME NEW c \in Conversions, Start(c) \/ Submit(c) \/ Get(c) \/ Fetched(c) \/ Follow(c)
             \/ BeginSubmit(c) \/ BeginGet(c) \/ BeginFetch(c) \/ Finish(c)
      PROVE  FlightInv'
  <2>1. pc[c] \notin {"compute", "publish", "erase"} /\ UNCHANGED <<inflight, promise, follows>>
    BY <1>2 DEF Start, Submit, Get, Fetched, Follow, BeginSubmit, BeginGet, BeginFetch, Finish
  <2>2. PICK l \in {"asking", "blocked", "work", "done", "submitting", "getting", "fetching"} : Goto(c, l)
    BY <1>2 DEF Start, Submit, Get, Fetched, Follow, BeginSubmit, BeginGet, BeginFetch, Finish, Resume, Wait
  <2>3. QED
    BY <1>1, <2>1, <2>2
<1>3. ASSUME NEW c \in Conversions, Ask(c) \/ AskAgain(c) PROVE FlightInv'
  <2>1. pc[c] \notin {"compute", "publish", "erase"} /\ UNCHANGED <<inflight, promise, follows>>
    BY <1>3 DEF Ask, AskAgain
  <2>2. PICK l \in {"asking", "blocked", "work", "done", "submitting", "getting", "fetching"} : Goto(c, l)
    BY <1>3 DEF Ask, AskAgain, Answered, Granted, TurnedAway, CarriesOn
  <2>3. QED
    BY <1>1, <2>1, <2>2
<1>4. ASSUME NEW c \in Conversions, Lookup(c) PROVE FlightInv'
  <2>1. CASE UNCHANGED <<pc, inflight, promise, follows>>
    BY <1>0, <2>1
  <2>2. CASE /\ inflight # None /\ follows' = [follows EXCEPT ![c] = inflight]
             /\ Goto(c, "following") /\ UNCHANGED <<inflight, promise>>
    BY <1>0, <1>4, <2>2 DEF Flights, Lookup
  <2>3. CASE /\ inflight = None /\ inflight' = c /\ Goto(c, "compute")
             /\ UNCHANGED <<promise, follows>>
    BY <1>0, <2>3 DEF Flights
  <2>4. QED
    BY <1>4, <2>1, <2>2, <2>3 DEF Lookup, Wait
<1>5. ASSUME NEW c \in Conversions, Compute(c) PROVE FlightInv'
  BY <1>0, <1>5 DEF Compute
<1>6. ASSUME NEW c \in Conversions, Publish(c) PROVE FlightInv'
  BY <1>0, <1>6 DEF Publish, Flights
<1>7. ASSUME NEW c \in Conversions, Erase(c) PROVE FlightInv'
  <2>1. /\ inflight = c /\ inflight' = None /\ promise[c] /\ promise' = promise
        /\ follows' = [follows EXCEPT ![c] = c] /\ Goto(c, "following")
    BY <1>0, <1>7 DEF Erase, Wait
  <2>2. QED
    BY <1>0, <2>1 DEF Flights
<1>8. ASSUME NEW c \in Conversions, RunTask(c) \/ Stop(c) PROVE FlightInv'
  BY <1>0, <1>8 DEF RunTask, Stop
<1>9. CASE TakeTask \/ Environment \/ UNCHANGED vars
  BY <1>0, <1>9 DEF TakeTask, Environment, SetLimit, Evict, ShutdownGate, ShutdownExecutor, vars
<1>10. QED
  BY <1>2, <1>3, <1>4, <1>5, <1>6, <1>7, <1>8, <1>9 DEF Next, Convert

-----------------------------------------------------------------------------
(* The tasks *)

\* The queue holds the tasks that are queued, each once.
QueueExact ==
  /\ \A c \in Conversions : answer[c] = "queued" <=> \E i \in 1 .. Len(queue) : queue[i] = c
  /\ \A i, j \in 1 .. Len(queue) : queue[i] = queue[j] => i = j

\* A task is submitted once, and waited for after that.
Asked(c) ==
  /\ pc[c] = "getting" \/ "get" \in todo[c] => answer[c] # "none" \/ pc[c] = "submitting"
  /\ "submit" \in todo[c] \/ pc[c] = "submitting" => answer[c] = "none"
  /\ pc[c] = "submitting" => "submit" \notin todo[c]

LEMMA TaskParts ==
  /\ IInv => QueueExact /\ \A c \in Conversions : Asked(c)
  /\ QueueExact' /\ (\A c \in Conversions : Asked(c)') => TaskInv' /\ SubmitsOnce'
BY DEF IInv, CpuInv, NobodyWaitsInVain, TaskInv, QueueExact, Asked, SubmitsOnce

LEMMA QueueStep ==
  ASSUME IInv, [Next]_vars PROVE  QueueExact'
<1>0. QueueExact /\ Answers /\ (\A c \in Conversions : Asked(c))
  BY TaskParts, TypeParts DEF IInv, CpuInv
<1> USE DEF executor
<1>1. ASSUME NEW c \in Conversions, Submit(c) PROVE QueueExact'
  <2>0. answer[c] = "none"
    BY <1>0, <1>1 DEF Asked, Submit
  <2>1. CASE queue' = queue /\ answer' = [answer EXCEPT ![c] = "ready"]
    BY <1>0, <2>0, <2>1 DEF QueueExact, Answers
  <2>2. CASE queue' = Append(queue, c) /\ answer' = [answer EXCEPT ![c] = "queued"]
    <3>1. \A i \in 1 .. Len(queue) : queue[i] # c
      BY <1>0, <2>0 DEF QueueExact
    <3>2. /\ Len(queue') = Len(queue) + 1 /\ Len(queue) \in Nat /\ queue'[Len(queue) + 1] = c
          /\ \A i \in 1 .. Len(queue) : queue'[i] = queue[i]
      BY <1>0, <2>2 DEF Answers
    <3>3. QED
      BY <1>0, <2>2, <3>1, <3>2 DEF Answers, QueueExact
  <2>3. QED
    BY <1>1, <2>1, <2>2 DEF Submit
<1>2. CASE TakeTask
  <2>1. /\ Len(queue) \in Nat \ {0} /\ Len(queue') = Len(queue) - 1 /\ Head(queue) = queue[1]
        /\ \A i \in 1 .. Len(queue') : queue'[i] = queue[i + 1]
        /\ queue[1] \in Conversions /\ answer' = [answer EXCEPT ![queue[1]] = "running"]
    BY <1>0, <1>2 DEF Answers, TakeTask
  <2>2. \A i, j \in 1 .. Len(queue') : queue'[i] = queue'[j] => i = j
    BY <1>0, <2>1 DEF QueueExact
  <2>3. ASSUME NEW t \in Conversions
        PROVE  answer'[t] = "queued" <=> \E i \in 1 .. Len(queue') : queue'[i] = t
    <3>1. CASE t = queue[1]
      BY <1>0, <2>1, <3>1 DEF Answers, QueueExact
    <3>2. CASE t # queue[1]
      <4>1. \A i \in 1 .. Len(queue) : queue[i] = t => i - 1 \in 1 .. Len(queue') /\ i = (i - 1) + 1
        BY <2>1, <3>2
      <4>2. answer'[t] = answer[t]
        BY <1>0, <2>1, <3>2 DEF Answers
      <4>3. (\E i \in 1 .. Len(queue) : queue[i] = t) <=> \E i \in 1 .. Len(queue') : queue'[i] = t
        <5>1. ASSUME NEW i \in 1 .. Len(queue'), queue'[i] = t
              PROVE  i + 1 \in 1 .. Len(queue) /\ queue[i + 1] = t
          BY <2>1, <5>1
        <5>2. ASSUME NEW i \in 1 .. Len(queue), queue[i] = t
              PROVE  i - 1 \in 1 .. Len(queue') /\ queue'[i - 1] = t
          BY <2>1, <4>1, <5>2
        <5>3. QED
          BY <5>1, <5>2
      <4>4. QED
        BY <1>0, <4>2, <4>3 DEF QueueExact
    <3>3. QED
      BY <3>1, <3>2
  <2>4. QED
    BY <2>2, <2>3 DEF QueueExact
<1>3. ASSUME NEW c \in Conversions, RunTask(c) PROVE QueueExact'
  BY <1>0, <1>3 DEF QueueExact, Answers, RunTask
<1>4. CASE ShutdownExecutor
  <2>1. /\ queue' = <<>> /\ Len(queue') = 0
        /\ answer' = [c \in Conversions |-> IF answer[c] = "queued" THEN "ready" ELSE answer[c]]
    BY <1>4 DEF ShutdownExecutor
  <2>2. QED
    BY <2>1 DEF QueueExact
<1>5. CASE UNCHANGED <<queue, answer>>
  BY <1>0, <1>5 DEF QueueExact
<1>6. ASSUME NEW c \in Conversions, Start(c) \/ Ask(c) \/ AskAgain(c) \/ BeginSubmit(c)
             \/ BeginGet(c) \/ BeginFetch(c) \/ Get(c) \/ Fetched(c) \/ Compute(c) \/ Lookup(c) \/ Publish(c) \/ Erase(c)
             \/ Follow(c) \/ Finish(c) \/ Stop(c)
      PROVE  UNCHANGED <<queue, answer>>
  BY <1>6 DEF Start, Ask, AskAgain, BeginSubmit, BeginGet, BeginFetch, Get, Fetched, Compute, Lookup, Publish,
     Erase, Follow, Finish, Stop
<1>7. CASE (\E l \in 1 .. MaxLimit : SetLimit(l)) \/ Evict \/ ShutdownGate \/ UNCHANGED vars
  BY <1>5, <1>7 DEF SetLimit, Evict, ShutdownGate, vars
<1>8. QED
  BY <1>1, <1>2, <1>3, <1>4, <1>5, <1>6, <1>7 DEF Next, Convert, Environment

LEMMA AskedStep ==
  ASSUME IInv, [Next]_vars, NEW d \in Conversions PROVE  Asked(d)'
<1>0. QueueExact /\ Answers /\ Places /\ Threads /\ Asked(d)
  BY TaskParts, TypeParts DEF IInv, CpuInv
<1> USE DEF Asked, Places, Threads, executor, cache, thread, Goto
<1>1. ASSUME NEW c \in Conversions, NEW l \in {"asking", "blocked", "work", "done", "compute",
                                              "publish", "erase", "following"},
             Goto(c, l), pc[c] # "submitting", UNCHANGED <<todo, answer>>
      PROVE  Asked(d)'
  BY <1>0, <1>1
<1>2. ASSUME NEW c \in Conversions, Start(c) \/ Get(c) \/ Fetched(c) \/ Compute(c) \/ Publish(c) \/ Erase(c)
             \/ Follow(c) \/ Finish(c)
      PROVE  Asked(d)'
  <2>1. pc[c] # "submitting" /\ UNCHANGED <<todo, answer>>
    BY <1>2 DEF Start, Get, Fetched, Compute, Publish, Erase, Follow, Finish
  <2>2. PICK l \in {"asking", "blocked", "work", "done", "compute", "publish", "erase",
                    "following"} : Goto(c, l)
    BY <1>2 DEF Start, Get, Fetched, Compute, Publish, Erase, Follow, Finish, Resume, Wait
  <2>3. QED
    BY <1>1, <2>1, <2>2
<1>3. ASSUME NEW c \in Conversions, Ask(c) \/ AskAgain(c) PROVE Asked(d)'
  <2>1. pc[c] # "submitting" /\ UNCHANGED <<todo, answer>>
    BY <1>3 DEF Ask, AskAgain
  <2>2. PICK l \in {"asking", "blocked", "work", "done", "compute", "publish", "erase",
                    "following"} : Goto(c, l)
    BY <1>3 DEF Ask, AskAgain, Answered, Granted, TurnedAway, CarriesOn
  <2>3. QED
    BY <1>1, <2>1, <2>2
<1>4. ASSUME NEW c \in Conversions, Submit(c) PROVE Asked(d)'
  <2>1. \E a \in {"queued", "ready"} : answer' = [answer EXCEPT ![c] = a]
    BY <1>4 DEF Submit
  <2>2. (Goto(c, "asking") \/ Goto(c, "work")) /\ todo' = todo /\ pc[c] = "submitting"
    BY <1>4 DEF Submit, Resume
  <2>3. QED
    BY <1>0, <2>1, <2>2 DEF Answers
<1>5. ASSUME NEW c \in Conversions, BeginSubmit(c) PROVE Asked(d)'
  BY <1>0, <1>5 DEF BeginSubmit, Wait
<1>6. ASSUME NEW c \in Conversions, BeginGet(c) PROVE Asked(d)'
  BY <1>0, <1>6 DEF BeginGet, Wait
<1>14. ASSUME NEW c \in Conversions, BeginFetch(c) PROVE Asked(d)'
  BY <1>0, <1>14 DEF BeginFetch, Wait
<1>7. ASSUME NEW c \in Conversions, Lookup(c) PROVE Asked(d)'
  BY <1>0, <1>7 DEF Lookup, Wait
<1>8. CASE TakeTask
  <2>1. Head(queue) \in Conversions /\ answer[Head(queue)] = "queued"
    BY <1>0, <1>8 DEF Answers, TakeTask, QueueExact
  <2>2. QED
    BY <1>0, <1>8, <2>1 DEF Answers, TakeTask
<1>9. ASSUME NEW c \in Conversions, RunTask(c) PROVE Asked(d)'
  BY <1>0, <1>9 DEF Answers, RunTask
<1>10. CASE ShutdownExecutor
  BY <1>0, <1>10 DEF ShutdownExecutor
<1>11. ASSUME NEW c \in Conversions, Stop(c) PROVE Asked(d)'
  BY <1>0, <1>11 DEF Stop
<1>12. CASE (\E l \in 1 .. MaxLimit : SetLimit(l)) \/ Evict \/ ShutdownGate \/ UNCHANGED vars
  BY <1>0, <1>12 DEF SetLimit, Evict, ShutdownGate, vars
<1>13. QED
  BY <1>2, <1>3, <1>4, <1>5, <1>6, <1>7, <1>8, <1>9, <1>10, <1>11, <1>12,
     <1>14 DEF Next, Convert, Environment

-----------------------------------------------------------------------------
(* The theorem *)

LEMMA InitIInv == Init => IInv
<1> SUFFICES ASSUME Init PROVE IInv
  OBVIOUS
<1> USE DEF Init
<1>0. MaxLimit \in Nat /\ MaxResizes \in Nat /\ None \notin Conversions
  BY CooperativeAssumption DEF CooperativeAssumption
<1>1. TypeOK
  <2>1. queue \in Seq(Conversions)
    OBVIOUS
  <2>2. /\ pc \in [Conversions -> {"new", "done"} \cup Working \cup Waiting \cup Asking]
        /\ todo \in [Conversions -> SUBSET {"submit", "fetch", "cache"}]
        /\ outcome \in [Conversions -> {"none", "ended", "refused", "unpermitted"}]
        /\ follows \in [Conversions -> Conversions \cup {None}]
    BY CooperativeAssumption DEF CooperativeAssumption
  <2>3. Settings
    <3>1. limit \in 1 .. MaxLimit /\ resizes = 0
      OBVIOUS
    <3>2. resizes \in 0 .. MaxResizes
      BY <1>0, <3>1
    <3>3. stopping \in BOOLEAN /\ closed \in BOOLEAN /\ cached \in BOOLEAN /\ stopped = {}
      OBVIOUS
    <3> HIDE DEF Init
    <3>4. QED
      BY <3>1, <3>2, <3>3 DEF Settings
  <2>4. Flights /\ Answers /\ Permits /\ Threads
    BY <2>1, <2>2 DEF Flights, Answers, Permits, Threads
  <2>5. active \in Nat /\ waiting \in Nat
    OBVIOUS
  <2> HIDE DEF Init
  <2>6. QED
    BY <2>1, <2>2, <2>3, <2>4, <2>5 DEF TypeOK, Settings, Flights, Answers, Permits, Threads
<1>2. PermitsExact
  <2>1. Holders = {} /\ Blocked = {} /\ active = 0 /\ waiting = 0
    BY DEF Holders, Blocked
  <2>2. Cardinality({}) = 0
    BY FS_EmptySet
  <2> HIDE DEF Init
  <2>3. active = Cardinality(Holders) /\ waiting = Cardinality(Blocked)
    BY <2>1, <2>2
  <2>4. QED
    BY <2>3 DEF PermitsExact, Blocked
<1>3. PermitWhereItBelongs /\ RefusedForAReason /\ SubmitsOnce /\ EndedOnce
  BY DEF PermitWhereItBelongs, RefusedForAReason, RefusedOnes, Bare, EndedAs, SubmitsOnce,
     EndedOnce, Working, Waiting
<1>4. FlightInv
  BY <1>0 DEF FlightInv
<1>5. TaskInv
  BY CooperativeAssumption DEF TaskInv, CooperativeAssumption
<1>6. QED
  BY <1>1, <1>2, <1>3, <1>4, <1>5 DEF IInv, CpuInv, NobodyWaitsInVain

LEMMA StepIInv == IInv /\ [Next]_vars => IInv'
<1> SUFFICES ASSUME IInv, [Next]_vars PROVE IInv'
  OBVIOUS
<1>1. TypeOK'
  BY TypeStep, BelongStep, CountStep, TypeParts
<1>2. PermitsExact' /\ PermitWhereItBelongs' /\ RefusedForAReason'
  BY CountStep, BelongStep, ReasonStep
<1>3. FlightInv' /\ TaskInv' /\ SubmitsOnce' /\ EndedOnce'
  BY FlightStep, QueueStep, AskedStep, TaskParts, EndedOnceStep
<1>4. QED
  BY <1>1, <1>2, <1>3 DEF IInv, CpuInv, NobodyWaitsInVain

(* Permits are neither lost nor made up, whatever a wait, a refusal, a change
   of the limit or the shutdown does in cooperative_cpu.h, and also when a
   refused conversion goes on without one; nobody keeps a permit through a wait;
   only who was stopped, or is overtaken by the shutdown, goes without; and what
   a conversion waits for, in the executor or in the cache, is on its way.    *)
THEOREM CpuInvariant == Spec => []CpuInv
<1>1. IInv => CpuInv
  BY DEF IInv
<1>2. QED
  BY InitIInv, StepIInv, <1>1, PTL DEF Spec

-----------------------------------------------------------------------------
(* The refinement of PermitPool *)

\* What the pool shows of the conversions.
Shown == <<limit, Holders, stopping, stopped, EndedAs("ended"), RefusedOnes>>

LEMMA Unseen == UNCHANGED Shown => UNCHANGED Pool!vars
BY DEF Shown, Pool!vars

LEMMA SameEnded ==
  ASSUME UNCHANGED outcome PROVE  UNCHANGED EndedAs("ended")
BY DEF EndedAs

\* The pool counts as the model does.
LEMMA SameCardinality ==
  ASSUME NEW S
  PROVE  Pool!Cardinality(S) = Cardinality(S)
BY DEF Cardinality, Pool!Cardinality

\* A permit is given only below the limit, counted by the leases themselves.
LEMMA GrantedStep ==
  ASSUME IInv, NEW c \in Conversions, NEW waiters, pc[c] \in Asking,
         Granted(c, waiters), Answered(c, waiters), UNCHANGED <<limit, stopping, stopped>>
  PROVE  Pool!Take(c)
<1>0. /\ Permits /\ active = Cardinality(Holders) /\ ~held[c]
  BY DEF IInv, CpuInv, TypeOK, Permits, PermitsExact, PermitWhereItBelongs, Asking, Working
<1>1. c \notin Holders \cup EndedAs("ended") \cup RefusedOnes
  BY <1>0, NotYetRefused DEF Holders
<1>2. Holders' = Holders \cup {c}
  BY <1>0 DEF Granted, Holders, Permits
<1>3. ~stopping /\ c \notin stopped /\ Cardinality(Holders) < limit
  BY <1>0 DEF Granted, Refused, Room
<1>4. UNCHANGED EndedAs("ended") /\ UNCHANGED RefusedOnes
  BY SameEnded, GrantedKeeps DEF Granted
<1>5. QED
  BY <1>1, <1>2, <1>3, <1>4, SameCardinality DEF Pool!Take

LEMMA RefusedStep ==
  ASSUME IInv, NEW c \in Conversions, NEW waiters, pc[c] \in Asking,
         TurnedAway(c, waiters) \/ CarriesOn(c, waiters), Answered(c, waiters),
         UNCHANGED <<limit, stopping, stopped>>
  PROVE  Pool!Refuse(c)
<1>0. ~held[c]
  BY DEF IInv, CpuInv, PermitWhereItBelongs, Asking, Working
<1>1. c \notin Holders \cup EndedAs("ended") \cup RefusedOnes
  BY <1>0, NotYetRefused DEF Holders
<1>2. stopping \/ c \in stopped
  BY DEF TurnedAway, CarriesOn, Refused
<1>3. QED
  BY <1>1, <1>2, RefusedAdds DEF Pool!Refuse

\* A permit is given back around a wait, or at the end, by who has one.
LEMMA GiveBackStep ==
  ASSUME IInv, NEW c \in Conversions, GiveBack(c), UNCHANGED stopped, UNCHANGED RefusedOnes,
         \/ UNCHANGED outcome
         \/ /\ pc[c] = "work"
            /\ outcome' = [outcome EXCEPT ![c] = IF held[c] THEN "ended" ELSE "unpermitted"]
  PROVE  Pool!Return(c) \/ UNCHANGED Pool!vars
<1>0. Permits /\ Threads /\ EndedOnce
  BY TypeParts DEF IInv, CpuInv
<1>1. Holders' = Holders \ {c} /\ (held[c] <=> c \in Holders)
  BY <1>0 DEF GiveBack, Holders, Permits
<1>2. \/ UNCHANGED EndedAs("ended")
      \/ held[c] /\ EndedAs("ended")' = EndedAs("ended") \cup {c}
  <2>1. CASE UNCHANGED outcome
    BY <2>1, SameEnded
  <2>2. CASE /\ pc[c] = "work"
             /\ outcome' = [outcome EXCEPT ![c] = IF held[c] THEN "ended" ELSE "unpermitted"]
    <3>1. outcome[c] = "none"
      BY <1>0, <2>2 DEF EndedOnce
    <3>2. QED
      BY <1>0, <2>2, <3>1 DEF EndedAs, Threads
  <2>3. QED
    BY <2>1, <2>2
<1>3. UNCHANGED <<limit, stopping>>
  BY DEF GiveBack
<1>4. CASE held[c]
  BY <1>1, <1>2, <1>3, <1>4 DEF Pool!Return
<1>5. CASE ~held[c]
  BY <1>1, <1>2, <1>3, <1>5, Unseen DEF Shown
<1>6. QED
  BY <1>4, <1>5

LEMMA PoolStep == IInv /\ [Next]_vars => [Pool!Next]_(Pool!vars)
<1> SUFFICES ASSUME IInv, [Next]_vars PROVE [Pool!Next]_(Pool!vars)
  OBVIOUS
<1>1. ASSUME UNCHANGED <<limit, stopping, held, stopped, outcome>>, UNCHANGED RefusedOnes
      PROVE  UNCHANGED Pool!vars
  BY <1>1, Unseen, SameEnded DEF Shown, Holders
<1>2. ASSUME NEW c \in Conversions, Pool!Take(c) \/ Pool!Return(c) \/ Pool!Refuse(c) \/ Pool!Stop(c)
      PROVE  Pool!Next
  BY <1>2 DEF Pool!Next
<1> USE DEF gate, lease, thread
<1>3. ASSUME NEW c \in Conversions, Ask(c) \/ AskAgain(c) PROVE [Pool!Next]_(Pool!vars)
  <2>1. ASSUME NEW waiters, Granted(c, waiters), Answered(c, waiters) PROVE Pool!Next
    BY <1>2, <1>3, <2>1, AskCases, GrantedStep
  <2>2. ASSUME NEW waiters, TurnedAway(c, waiters) \/ CarriesOn(c, waiters), Answered(c, waiters)
        PROVE  Pool!Next
    BY <1>2, <1>3, <2>2, AskCases, RefusedStep
  <2>3. QED
    BY <1>1, <1>3, <2>1, <2>2, AskCases
<1>4. ASSUME NEW c \in Conversions,
         \/ Start(c) \/ Submit(c) \/ Get(c) \/ Fetched(c) \/ Follow(c) \/ Compute(c) \/ Publish(c)
         \/ BeginSubmit(c) \/ BeginGet(c) \/ BeginFetch(c) \/ Erase(c) \/ Lookup(c)
      PROVE  [Pool!Next]_(Pool!vars)
  <2>1. GiveBack(c) \/ UNCHANGED <<limit, stopping, held>>
    BY <1>4 DEF Start, Submit, Get, Fetched, Follow, Compute, Publish, BeginSubmit, BeginGet,
       BeginFetch, Erase, Lookup, Wait
  <2>2. UNCHANGED RefusedOnes /\ UNCHANGED <<outcome, stopped, stopping>>
    BY <1>4, OthersKeep
  <2>3. QED
    BY <2>1, <2>2, <1>1, <1>2, GiveBackStep
<1>5. ASSUME NEW c \in Conversions, Finish(c) PROVE [Pool!Next]_(Pool!vars)
  <2>1. /\ GiveBack(c) /\ UNCHANGED stopped /\ pc[c] = "work"
        /\ outcome' = [outcome EXCEPT ![c] = IF held[c] THEN "ended" ELSE "unpermitted"]
    BY <1>5 DEF Finish
  <2>2. QED
    BY <1>5, <2>1, <1>2, GiveBackStep, FinishKeeps
<1>6. ASSUME NEW c \in Conversions, Stop(c) PROVE [Pool!Next]_(Pool!vars)
  <2>1. Holders' = Holders /\ UNCHANGED <<pc, lease, outcome, limit, stopping>>
    BY <1>6 DEF Stop, Holders
  <2>2. Pool!Stop(c)
    BY <1>6, <2>1, SameEnded, RefusedRests DEF Stop, Pool!Stop
  <2>3. QED
    BY <2>2, <1>2
<1>7. CASE \E l \in 1 .. MaxLimit : SetLimit(l)
  <2>1. Holders' = Holders /\ UNCHANGED <<pc, lease, outcome, stopping, stopped>>
    BY <1>7 DEF SetLimit, Holders
  <2>2. limit' \in Nat \ {0}
    BY <1>7, CooperativeAssumption DEF SetLimit, CooperativeAssumption
  <2>3. Pool!Resize
    BY <2>1, <2>2, SameEnded, RefusedRests DEF Pool!Resize
  <2>4. QED
    BY <2>3 DEF Pool!Next
<1>8. CASE ShutdownGate
  <2>1. Holders' = Holders /\ UNCHANGED <<pc, lease, outcome, limit, stopped>>
    BY <1>8 DEF ShutdownGate, Holders
  <2>2. Pool!Close
    BY <1>8, <2>1, SameEnded, RefusedRests DEF ShutdownGate, Pool!Close
  <2>3. QED
    BY <2>2 DEF Pool!Next
<1>9. CASE \/ TakeTask \/ Evict \/ ShutdownExecutor \/ UNCHANGED vars
           \/ \E c \in Conversions : RunTask(c)
  <2>1. UNCHANGED <<limit, stopping, held, stopped, outcome, pc, lease>>
    BY <1>9 DEF TakeTask, Evict, ShutdownExecutor, RunTask, vars
  <2>2. QED
    BY <2>1, <1>1, RefusedRests
<1>10. QED
  BY <1>3, <1>4, <1>5, <1>6, <1>7, <1>8, <1>9 DEF Next, Convert, Environment

LEMMA PoolInit == Init => Pool!Init
<1> SUFFICES ASSUME Init PROVE Pool!Init
  OBVIOUS
<1>1. Holders = {} /\ EndedAs("ended") = {} /\ RefusedOnes = {}
  BY DEF Init, Holders, EndedAs, RefusedOnes, Bare, Working, Waiting
<1>2. limit \in Nat \ {0} /\ stopping = FALSE /\ stopped = {}
  BY CooperativeAssumption DEF Init, CooperativeAssumption
<1>3. QED
  BY <1>1, <1>2 DEF Pool!Init

(* At no time is a permit given out while as many as the limit are out, for
   any number of conversions and limits: the leases, the counters and the waits
   of cooperative_cpu.h are a PermitPool.                                    *)
THEOREM GateImplementsPool == Spec => ImplementsPermitPool
<1>1. QED
  BY InitIInv, StepIInv, PoolInit, PoolStep, PTL DEF Spec, ImplementsPermitPool, Pool!Spec

=============================================================================
