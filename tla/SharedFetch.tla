----------------------------- MODULE SharedFetch -----------------------------
(***************************************************************************)
(* What the callers of webGetOwnedAsync get who want one cached resource:  *)
(* each takes the fetch that can be found at that moment, or begins one,   *)
(* and is told what became of that fetch and of no other, or of its own    *)
(* cancellation.  A fetch goes on while somebody who wants it is left, and *)
(* comes to an end only for somebody.  CacheFetch implements it, with a    *)
(* registry, reference counts, callbacks and two threads that may complete *)
(* a call where this has atomic steps.                                     *)
(***************************************************************************)
CONSTANTS Callers, Fetches, None

VARIABLES current,      \* the fetch a caller finds
          begun,        \* the fetches begun so far
          seat,         \* the fetch each caller has taken
          wanted,       \* the callers that keep each fetch going
          result,       \* what each fetch has come to
          dropped,      \* the fetches given up
          told,         \* what each caller was told
          cancelled     \* the callers whose request was cancelled

vars == <<current, begun, seat, wanted, result, dropped, told, cancelled>>

Init ==
  /\ current = None /\ begun = {} /\ dropped = {} /\ cancelled = {}
  /\ seat = [c \in Callers |-> None]
  /\ wanted = [f \in Fetches |-> {}]
  /\ result = [f \in Fetches |-> None]
  /\ told = [c \in Callers |-> None]

\* Neither finished nor given up: the one that is found, and there is only one.
UnderWay(f) == f = current /\ result[f] = None /\ f \notin dropped

\* A caller takes the fetch that is there or begins one; it looks again only when
\* what it had taken was given up.
Find(c, f) ==
  /\ seat[c] = None \/ seat[c] \in dropped
  /\ \/ f = current /\ UNCHANGED <<current, begun>>
     \/ /\ current = None /\ current' = f
        /\ f \notin begun /\ begun' = begun \cup {f}
  /\ seat' = [seat EXCEPT ![c] = f]
  /\ UNCHANGED <<wanted, result, dropped, told, cancelled>>

Join(c, f) ==
  /\ seat[c] = f /\ UnderWay(f) /\ c \notin wanted[f]
  /\ wanted' = [wanted EXCEPT ![f] = @ \cup {c}]
  /\ UNCHANGED <<current, begun, seat, result, dropped, told, cancelled>>

\* A fetch ends while somebody wants it; that it was not even started is due to
\* the cancellation of a caller that had taken it.
End(f, r) ==
  /\ UnderWay(f) /\ wanted[f] # {}
  /\ r = "NotStarted" => \E c \in Callers : seat[c] = f /\ told[c] = "Own"
  /\ result' = [result EXCEPT ![f] = r]
  /\ UNCHANGED <<current, begun, seat, wanted, dropped, told, cancelled>>

\* It is not found any more some time after that.
Close(f) ==
  /\ f = current /\ ~UnderWay(f)
  /\ current' = None
  /\ UNCHANGED <<begun, seat, wanted, result, dropped, told, cancelled>>

\* Once; a caller that was cancelled is told that ...
Tell(c, f) ==
  /\ told[c] = None /\ seat[c] = f /\ result[f] # None
  /\ told' = [told EXCEPT ![c] = IF c \in cancelled THEN "Own" ELSE result[f]]
  /\ UNCHANGED <<current, begun, seat, wanted, result, dropped, cancelled>>

\* ... wherever it is.
TellOwn(c) ==
  /\ told[c] = None /\ c \in cancelled
  /\ told' = [told EXCEPT ![c] = "Own"]
  /\ UNCHANGED <<current, begun, seat, wanted, result, dropped, cancelled>>

\* Who was told leaves, and the last one gives up what has come to nothing.
Leave(c, f) ==
  /\ c \in wanted[f] /\ told[c] # None
  /\ wanted' = [wanted EXCEPT ![f] = @ \ {c}]
  /\ dropped' = IF wanted[f] = {c} /\ result[f] = None THEN dropped \cup {f} ELSE dropped
  /\ UNCHANGED <<current, begun, seat, result, told, cancelled>>

Cancel(c) ==
  /\ cancelled' = cancelled \cup {c}
  /\ UNCHANGED <<current, begun, seat, wanted, result, dropped, told>>

Next ==
  \/ \E c \in Callers : TellOwn(c) \/ Cancel(c)
  \/ \E c \in Callers, f \in Fetches : Find(c, f) \/ Join(c, f) \/ Tell(c, f) \/ Leave(c, f)
  \/ \E f \in Fetches : Close(f) \/ \E r \in {"Ok", "Failed", "NotStarted"} : End(f, r)

Spec == Init /\ [][Next]_vars
=============================================================================
