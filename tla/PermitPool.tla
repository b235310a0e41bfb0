------------------------------ MODULE PermitPool ------------------------------
(* What the conversions are promised by the CPU permits: at no time is a permit
   given out while as many as the limit are out, a permit can be given back and
   taken again, and a conversion is refused one only if it was stopped or the
   pool is closed, after which it takes no other, though it may go on without.
   CooperativeCpu implements it with counters, waiters that look again, and
   leases that are given back around every wait.                             *)
EXTENDS Naturals, FiniteSets

CONSTANT Conversions

VARIABLES limit,      \* how many permits may be given out
          holders,    \* the conversions that have one
          open,       \* whether permits are still given out
          stopped,    \* conversions that were cancelled or are too late
          ended,      \* those that did what they had to
          refused     \* those that were refused a permit

vars == <<limit, holders, open, stopped, ended, refused>>

Init ==
  /\ limit \in Nat \ {0} /\ holders = {} /\ open = TRUE
  /\ stopped = {} /\ ended = {} /\ refused = {}

Take(c) ==
  /\ c \notin holders \cup ended \cup refused
  /\ open /\ c \notin stopped
  /\ Cardinality(holders) < limit
  /\ holders' = holders \cup {c}
  /\ UNCHANGED <<limit, open, stopped, ended, refused>>

\* For a time, or for good.
Return(c) ==
  /\ c \in holders
  /\ holders' = holders \ {c}
  /\ ended' = ended \/ ended' = ended \cup {c}
  /\ UNCHANGED <<limit, open, stopped, refused>>

Refuse(c) ==
  /\ c \notin holders \cup ended \cup refused
  /\ ~open \/ c \in stopped
  /\ refused' = refused \cup {c}
  /\ UNCHANGED <<limit, holders, open, stopped, ended>>

\* A lower limit takes no permit away.
Resize ==
  /\ limit' \in Nat \ {0}
  /\ UNCHANGED <<holders, open, stopped, ended, refused>>

Stop(c) ==
  /\ stopped' = stopped \cup {c}
  /\ UNCHANGED <<limit, holders, open, ended, refused>>

Close ==
  /\ open' = FALSE
  /\ UNCHANGED <<limit, holders, stopped, ended, refused>>

Next ==
  \/ \E c \in Conversions : Take(c) \/ Return(c) \/ Refuse(c) \/ Stop(c)
  \/ Resize \/ Close

Spec == Init /\ [][Next]_vars
===============================================================================
