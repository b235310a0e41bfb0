---------------------------- MODULE TaskService ----------------------------
(***************************************************************************)
(* What WorkloadScheduler promises the code that submits work to it: every *)
(* submission is answered once, at most Slots accepted tasks wait and at   *)
(* most Servers run, nothing is accepted after the service is closed, and  *)
(* "Stopping" is only answered once it is.  Queues, credits, worker threads*)
(* and the draining of the queues at shutdown are hidden.                  *)
(***************************************************************************)
EXTENDS Integers, FiniteSets

CONSTANTS Tasks, Slots, Servers, None

VARIABLES state,    \* of each task: "new", "waiting", "started", "answered"
          answer,   \* what its submitter was told, None before that
          open      \* whether submissions are still accepted

vars == <<state, answer, open>>

In(s) == {t \in Tasks : state[t] = s}

\* What each state may be answered with.
Answers(s) ==
  CASE s = "new"     -> {"EntryLimit", "ByteLimit", "Deadline", "Cancelled", "Stopping"}
    [] s = "waiting" -> {"Stopping"}
    [] s = "started" -> {"Ran", "Deadline", "Cancelled"}
    [] OTHER         -> {}

Init ==
  /\ state = [t \in Tasks |-> "new"]
  /\ answer = [t \in Tasks |-> None]
  /\ open = TRUE

Accept(t) ==
  /\ state[t] = "new"
  /\ open
  /\ Cardinality(In("waiting")) < Slots
  /\ state' = [state EXCEPT ![t] = "waiting"]
  /\ UNCHANGED <<answer, open>>

Start(t) ==
  /\ state[t] = "waiting"
  /\ Cardinality(In("started")) < Servers
  /\ state' = [state EXCEPT ![t] = "started"]
  /\ UNCHANGED <<answer, open>>

Answer(t, r) ==
  /\ r \in Answers(state[t])
  /\ r = "Stopping" => ~open
  /\ state' = [state EXCEPT ![t] = "answered"]
  /\ answer' = [answer EXCEPT ![t] = r]
  /\ UNCHANGED open

Close ==
  /\ open
  /\ open' = FALSE
  /\ UNCHANGED <<state, answer>>

Next == \/ \E t \in Tasks : \/ Accept(t)
                            \/ Start(t)
                            \/ \E r \in Answers(state[t]) : Answer(t, r)
        \/ Close

Spec == Init /\ [][Next]_vars
=============================================================================
