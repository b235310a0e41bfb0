---------------------------- MODULE TransferService ----------------------------
(***************************************************************************)
(* What the callers of webGetAsync, CacheFetch's owners among them, rely   *)
(* on: an accepted transfer is answered exactly once and for a reason that *)
(* exists, a refused one at once, and an engine that has been shut down    *)
(* owes nobody an answer.  CurlMultiEngine implements it (TransferEngine). *)
(***************************************************************************)
CONSTANTS Transfers, None

VARIABLES accepted,      \* transfers the engine took
          told,          \* what each was answered
          cancelled,     \* requests whose cancellation was asked for, for some reason
          expired,       \* transfers past their deadline
          closing,       \* a shutdown was asked for
          closed         \* ... and has ended

vars == <<accepted, told, cancelled, expired, closing, closed>>

Init ==
  /\ accepted = {} /\ cancelled = {} /\ expired = {}
  /\ told = [t \in Transfers |-> None]
  /\ closing = FALSE /\ closed = FALSE

\* "Ended": with what curl or its failure made of it.
Outcomes == {"Ended", "Shutdown", "Cancelled", "Deadline"}

Outstanding == {t \in accepted : told[t] = None}

Accept(t) ==
  /\ t \notin accepted /\ told[t] = None /\ ~closed
  /\ accepted' = accepted \cup {t}
  /\ UNCHANGED <<told, cancelled, expired, closing, closed>>

Justified(t, r) ==
  /\ r \in Outcomes
  /\ r = "Shutdown" => closing \/ t \in cancelled
  /\ r = "Cancelled" => t \in cancelled
  /\ r = "Deadline" => t \in cancelled \cup expired

\* An accepted transfer is answered; one that was refused is told why.
Answer(t, r) ==
  /\ told[t] = None
  /\ t \notin accepted => r \in {"Shutdown", "Ended"}
  /\ Justified(t, r)
  /\ told' = [told EXCEPT ![t] = r]
  /\ UNCHANGED <<accepted, cancelled, expired, closed>>
  /\ closing' \in {closing, TRUE}      \* a completion may shut the engine down

Cancel(t) ==
  /\ cancelled' = cancelled \cup {t}
  /\ UNCHANGED <<accepted, told, expired, closing, closed>>

Expire(t) ==
  /\ expired' = expired \cup {t}
  /\ UNCHANGED <<accepted, told, cancelled, closing, closed>>

AskToClose ==
  /\ closing' = TRUE
  /\ UNCHANGED <<accepted, told, cancelled, expired, closed>>

Close ==
  /\ closing /\ Outstanding = {}
  /\ closed' = TRUE
  /\ UNCHANGED <<accepted, told, cancelled, expired, closing>>

Next ==
  \/ \E t \in Transfers : \/ Accept(t) \/ Cancel(t) \/ Expire(t)
                          \/ \E r \in Outcomes : Answer(t, r)
  \/ AskToClose \/ Close

Spec == Init /\ [][Next]_vars
=============================================================================
