--------------------------- MODULE SharedConversion ---------------------------
(***************************************************************************)
(* What equal /sub requests get from convertSubscriptionAsync: one         *)
(* conversion at a time, which those who come in time share, which goes on *)
(* while one of them is left, and which answers those who stayed with what *)
(* became of it.  AsyncSingleflight implements it, with a registry, phases *)
(* and two threads that may complete a request where this has atomic steps.*)
(***************************************************************************)
CONSTANTS Requests, None

VARIABLES running,       \* the request that began the conversion under way
          group,         \* those to be answered from each conversion
          good, bad,     \* the conversions that gave a result, and that failed
          told,          \* what each request was answered
          cancelled      \* the requests that were cancelled

vars == <<running, group, good, bad, told, cancelled>>

Init ==
  /\ running = None
  /\ group = [k \in Requests |-> {}]
  /\ good = {} /\ bad = {} /\ cancelled = {}
  /\ told = [r \in Requests |-> None]

Alone(r) == \A k \in Requests : r \notin group[k]

\* The first request begins a conversion ...
Begin(k) ==
  /\ running = None /\ told[k] = None /\ Alone(k) /\ group[k] = {} /\ k \notin good \cup bad
  /\ running' = k
  /\ group' = [group EXCEPT ![k] = {k}]
  /\ UNCHANGED <<good, bad, told, cancelled>>

\* ... others join it until it has a result ...
Follow(r, k) ==
  /\ running = k /\ k \notin good /\ told[r] = None /\ Alone(r)
  /\ group' = [group EXCEPT ![k] = @ \cup {r}]
  /\ UNCHANGED <<running, good, bad, told, cancelled>>

\* ... which it comes to only if somebody waits for it.
Succeed(k) ==
  /\ running = k /\ k \notin good /\ group[k] # {}
  /\ good' = good \cup {k}
  /\ UNCHANGED <<running, group, bad, told, cancelled>>

Finish(k) ==
  /\ running = k
  /\ running' = None
  /\ bad' = IF k \in good THEN bad ELSE bad \cup {k}
  /\ UNCHANGED <<group, good, told, cancelled>>

\* Those who stayed are told what became of it, or of their own cancellation.
Serve(r, k) ==
  /\ running # k /\ r \in group[k] /\ told[r] = None /\ k \in good \cup bad
  /\ told' = [told EXCEPT ![r] = IF r \in cancelled THEN "Cancelled"
                                 ELSE IF k \in good THEN "Result" ELSE "Failed"]
  /\ group' = [group EXCEPT ![k] = @ \ {r}]
  /\ UNCHANGED <<running, good, bad, cancelled>>

\* A request that no conversion owes an answer may be refused, or be given the
\* result of an earlier one; a cancelled one is told so wherever it is ...
Tell(r, what) ==
  /\ told[r] = None
  /\ \/ what = "Cancelled" /\ r \in cancelled
     \/ what = "Refused" /\ Alone(r)
     \/ what = "Result" /\ Alone(r) /\ good # {}
  /\ told' = [told EXCEPT ![r] = what]
  /\ UNCHANGED <<running, group, good, bad, cancelled>>

\* ... and leaves its conversion, which is given up if nobody else waits for it.
Leave(r, k) ==
  /\ r \in group[k] /\ told[r] # None
  /\ group' = [group EXCEPT ![k] = @ \ {r}]
  /\ running' = IF running = k /\ k \notin good /\ group[k] = {r} THEN None ELSE running
  /\ UNCHANGED <<good, bad, told, cancelled>>

Cancel(r) ==
  /\ cancelled' = cancelled \cup {r}
  /\ UNCHANGED <<running, group, good, bad, told>>

Next ==
  \/ \E k \in Requests : Begin(k) \/ Succeed(k) \/ Finish(k) \/ Cancel(k)
  \/ \E r, k \in Requests : Follow(r, k) \/ Serve(r, k) \/ Leave(r, k)
  \/ \E r \in Requests : \E what \in {"Cancelled", "Refused", "Result"} : Tell(r, what)

Spec == Init /\ [][Next]_vars
=============================================================================
