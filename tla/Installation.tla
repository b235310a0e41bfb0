----------------------------- MODULE Installation -----------------------------
(***************************************************************************)
(* What the user of the portable updater has: one installed release that   *)
(* works, and one to go back to.  An update takes effect as a whole or not *)
(* at all, whatever was interrupted on the way and however often recover   *)
(* had to go over it.  PortableUpdater implements it with renames, a file  *)
(* pending.json and crashes between any two of them.                       *)
(***************************************************************************)
EXTENDS Naturals

CONSTANT Releases        \* numbers, in the order of publication; 0 is none

VARIABLES current,       \* the release in force, the old one while an update is open
          previous,      \* the one rollback goes to
          open,          \* the update under way, if any
          works,         \* releases that were started in place and worked
          reliable       \* no call of the file system has failed

vars == <<current, previous, open, works, reliable>>

NoUpdate == [kind |-> "none", new |-> 0]

Init ==
  /\ current \in Releases /\ works = {current}
  /\ previous = 0 /\ open = NoUpdate /\ reliable = TRUE

\* Only a newer release is applied, and only the previous one is gone back to.
Begin(r) ==
  /\ open = NoUpdate
  /\ \/ r > current  /\ open' = [kind |-> "upgrade", new |-> r]
     \/ r = previous /\ open' = [kind |-> "rollback", new |-> r]
  /\ UNCHANGED <<current, previous, works, reliable>>

Prove ==
  /\ open # NoUpdate
  /\ works' = works \cup {open.new}
  /\ UNCHANGED <<current, previous, open, reliable>>

\* The new release takes over once it has worked, and the old one can be gone back to.
Commit ==
  /\ open # NoUpdate /\ open.new \in works
  /\ current' = open.new /\ previous' = current
  /\ open' = NoUpdate
  /\ UNCHANGED <<works, reliable>>

\* Or everything is as before, except that an upgrade may have given up the
\* release to go back to, once the new one had worked.
Undo ==
  /\ open # NoUpdate
  /\ open' = NoUpdate
  /\ UNCHANGED <<current, previous, works, reliable>>

GiveUpPrevious ==
  /\ open.kind = "upgrade" /\ open.new \in works
  /\ previous' = 0
  /\ UNCHANGED <<current, open, works, reliable>>

\* Nothing of this is promised once the file system has failed.
Break == reliable' = FALSE

Next == (\E r \in Releases : Begin(r)) \/ Prove \/ Commit \/ Undo \/ GiveUpPrevious \/ Break

Spec == Init /\ [][Next]_vars
=============================================================================
