------------------------ MODULE PortableUpdater_proofs ------------------------
(***************************************************************************)
(* What survives crashes and a failing call of the file system, for any    *)
(* number of releases, edits and crashes.                                  *)
(*                                                                         *)
(* The invariant comes in three layers.  PlaceInv holds whatever fails: it *)
(* relates the updater's own transaction to pending.json.  WeakInv is what *)
(* one failing call leaves: both releases of an open transaction have been *)
(* validated, and the root holds one of them unless both are beside it.    *)
(* StrongInv, without failing calls, knows the place of each tree and that *)
(* it has the user's files.                                                *)
(***************************************************************************)
EXTENDS PortableUpdater, TLAPS

Preparing == {"clear", "unpack", "preserve", "check", "prepare"}
Installing == {"swap", "mark", "prove", "finalize", "retain", "drop",
               "repair", "identify", "revalidate"}

\* apply works on the staging directory, rollback on the rollback root, and apply
\* installs a newer release.
Consistent(t) == t # NoTxn => /\ t.cand = "staging" <=> t.phase \in ApplyPhases
                              /\ t.cand = "staging" => t.new > t.old

PlaceInv ==
  /\ Consistent(txn) /\ Consistent(pending)
  /\ pc \in Preparing \cup {"clean"} => pending = NoTxn
  /\ pc \in Preparing => txn # NoTxn
  /\ pc \in {"clear", "unpack"} => txn.cand = "staging"
  /\ pc \in Installing =>
       /\ pending # NoTxn /\ txn # NoTxn
       /\ pending.cand = txn.cand /\ pending.old = txn.old /\ pending.new = txn.new
  /\ pc \in Preparing => Holds("root", txn.old)
  /\ pc \in {"preserve", "check", "prepare"} => Holds(txn.cand, txn.new)
  /\ pc = "prepare" => txn.new \in checked
  /\ pc \in {"finalize", "retain"} => txn.cand = "staging"
  /\ pc = "swap" /\ moved # "no" => platform = "windows"
  /\ pc = "swap" /\ (why = "unmark" \/ moved = "restore") => faults # 0

\* What the exchange in progress takes out of the root, and what it puts there.
Leaving == IF why = "forward" THEN txn.old ELSE txn.new
Coming  == IF why = "forward" THEN txn.new ELSE txn.old

\* The root and the candidate hold one release each.
Parted(old, new) == Holds("root", old) /\ Holds(txn.cand, new)

WeakDisk ==
  IF pending = NoTxn
    THEN tree["root"].kind = "whole" /\ tree["root"].release \in checked
    ELSE LET cand == pending.cand  aside == Aside(pending.cand) IN
         /\ pending.old \in checked /\ pending.new \in checked
         /\ \/ Holds("root", pending.old)
            \/ Holds("root", pending.new)
            \/ /\ ~Exists("root")
               /\ \/ Holds(cand, pending.old) /\ Holds(aside, pending.new)
                  \/ Holds(cand, pending.new) /\ Holds(aside, pending.old)

WeakPc ==
  /\ pc \in {"mark", "prove"} => Parted(txn.new, txn.old)
  /\ pc = "revalidate" => Parted(txn.old, txn.new)
  /\ pc \in {"finalize", "retain", "drop"} => Holds("root", txn.old) \/ Holds("root", txn.new)

WeakSwap ==
  pc = "swap" =>
    CASE moved = "no" -> Parted(Leaving, Coming)
      [] moved = "activated" -> Holds("root", Coming) /\ Holds(Aside(txn.cand), Leaving)
      [] OTHER -> /\ ~Exists("root")
                  /\ Holds(txn.cand, Coming) /\ Holds(Aside(txn.cand), Leaving)

WeakInv == WeakDisk /\ WeakPc /\ WeakSwap

\* finalizeAppliedRoot has retained the old root, and nothing is left aside.
Retained == OldRootRetained /\ ~Exists(Aside(pending.cand))

StrongDisk ==
  /\ pending = NoTxn => tree["root"].release \in proven
  /\ pending # NoTxn => pending.old \in proven /\ (Reconcilable \/ Retained)
  /\ pending.cand # "rollback" => ~Exists("rollback.exchange-old")

StrongPc ==
  /\ pc \in {"unpack", "preserve", "check", "prepare", "mark", "prove", "revalidate",
             "finalize", "retain", "drop"} => ~Exists(Aside(txn.cand))
  /\ pc \in {"finalize", "retain"} => txn.new \in proven /\ Parted(txn.new, txn.old)
  /\ pc = "drop" => \/ Parted(txn.old, txn.new)
                    \/ /\ Holds("root", txn.new) /\ txn.new \in proven
                       /\ Holds("rollback", txn.old)
  /\ pc = "swap" => /\ moved = "no" => ~Exists(Aside(txn.cand))
                    /\ moved = "activated" => ~Exists(txn.cand)

\* Every tree that may become the root has the edits that must be kept.
HasEdits(p) == tree[p].kind = "whole" => tree[p].data >= kept
DataInv ==
  /\ kept <= edits
  /\ HasEdits("root")
  /\ pending # NoTxn => HasEdits(pending.cand) /\ HasEdits(Aside(pending.cand))
  /\ pc \in {"check", "prepare"} => HasEdits(txn.cand)

StrongInv == StrongDisk /\ StrongPc /\ DataInv

IInv == /\ TypeOK /\ PlaceInv
        /\ faults <= 1 => WeakInv
        /\ faults = 0 => StrongInv

-----------------------------------------------------------------------------
(* Trees and paths *)

\* The kinds of trees, and what copying the user's files into one makes of it.
LEMMA TreeKinds ==
  /\ Absent \in Trees /\ Absent.kind = "none" /\ Absent.data = 0
  /\ Debris \in Trees /\ Debris.kind = "debris" /\ Debris.data = 0
  /\ \A r \in Releases, d \in 0 .. MaxEdits :
       /\ Whole(r, d) \in Trees
       /\ Whole(r, d).kind = "whole" /\ Whole(r, d).release = r /\ Whole(r, d).data = d
  /\ \A t \in Trees :
       /\ t.kind \in {"none", "debris", "whole"} /\ t.data \in 0 .. MaxEdits
       /\ t.kind = "whole" => t.release \in Releases
<1>1. /\ Absent \in Trees /\ Absent.kind = "none" /\ Absent.data = 0
      /\ Debris \in Trees /\ Debris.kind = "debris" /\ Debris.data = 0
  BY DEF Trees, Absent, Debris
<1>2. ASSUME NEW r \in Releases, NEW d \in 0 .. MaxEdits
      PROVE  /\ Whole(r, d) \in Trees
             /\ Whole(r, d).kind = "whole" /\ Whole(r, d).release = r
             /\ Whole(r, d).data = d
  <2>1. Whole(r, d) \in Trees
    BY SMT DEF Trees
  <2>2. QED
    BY <2>1 DEF Whole
<1>3. \A t \in Trees :
        /\ t.kind \in {"none", "debris", "whole"} /\ t.data \in 0 .. MaxEdits
        /\ t.kind = "whole" => t.release \in Releases
  BY BoundsAreNat DEF BoundsAreNat, Trees, Absent, Debris, Whole
<1>4. QED
  BY <1>1, <1>2, <1>3

LEMMA TreeUpdated ==
  \A t \in Trees, d \in 0 .. MaxEdits :
    t.kind = "whole" =>
      LET u == [t EXCEPT !.data = d] IN
      u \in Trees /\ u.kind = "whole" /\ u.release = t.release /\ u.data = d
BY BoundsAreNat DEF BoundsAreNat, Trees, Absent, Debris, Whole

\* A transaction moves trees between three different paths.
LEMMA PathFacts ==
  /\ {"root", "rollback", "rollback.exchange-old"} \cup StagingDir = Paths
  /\ \A c \in Candidates :
       /\ c \in Paths /\ Aside(c) \in Paths
       /\ c # "root" /\ Aside(c) # "root" /\ Aside(c) # c
BY DEF Paths, StagingDir, Candidates, Aside

LEMMA TxnFacts ==
  /\ NoTxn.cand = "staging" /\ NoTxn.phase = "none"
  /\ \A t \in Txns : /\ t.cand \in Candidates /\ t.old \in Releases /\ t.new \in Releases
                     /\ t.phase \in ApplyPhases \cup RollbackPhases
                     /\ t # NoTxn
                     /\ Exchanged(t) \in Txns /\ Exchanged(t).cand = t.cand
                     /\ Exchanged(t).old = t.old /\ Exchanged(t).new = t.new
                     /\ Exchanged(t).phase \in ApplyPhases <=> t.phase \in ApplyPhases
<1>1. \A t \in Txns : t.phase \in ApplyPhases \cup RollbackPhases
  BY DEF Txns
<1>2. \A t \in Txns : t # NoTxn
  BY <1>1 DEF NoTxn, ApplyPhases, RollbackPhases
<1>3. QED
  BY <1>1, <1>2 DEF NoTxn, Txns, Exchanged, ApplyPhases, RollbackPhases

-----------------------------------------------------------------------------
(* Types *)

TreesOK == tree \in [Paths -> Trees]

\* What a rename or an exchange leaves is a tree everywhere.
LEMMA MovesType ==
  ASSUME TreesOK, NEW p \in Paths, NEW q \in Paths, NEW t \in Trees, NEW u \in Trees
  PROVE  [tree EXCEPT ![p] = t, ![q] = u] \in [Paths -> Trees]
BY DEF TreesOK

LEMMA TreesStep == ASSUME IInv, [Next]_vars PROVE TreesOK'
<1> USE TreeKinds, PathFacts, TxnFacts DEF TreesOK, IInv, TypeOK, disk
<1>1. ASSUME NEW p \in Paths, NEW q \in Paths, Rename(p, q)
      PROVE  TreesOK'
  BY <1>1 DEF Rename
<1>2. pc = "swap" \/ pc = "repair" \/ pc = "retain" => txn.cand \in Candidates
  BY DEF PlaceInv, Installing
<1>3. CASE Swap
  BY <1>1, <1>2, <1>3 DEF Swap, SwapRefused, Exchange, MoveAside, Activate, Restore, RetainAside
<1>4. CASE Clear \/ Clean \/ Crash
  BY <1>4 DEF Clear, Clean, Crash, RemoveStaging
<1>5. CASE Unpack
  <2>1. Whole(txn.new, 0) \in Trees
    BY <1>5, BoundsAreNat DEF Unpack, PlaceInv, Preparing, BoundsAreNat
  <2>2. QED
    BY <1>5, <2>1 DEF Unpack
<1>6. CASE Preserve
  <2>1. txn.cand \in Candidates /\ Holds(txn.cand, txn.new)
    BY <1>6 DEF Preserve, PlaceInv, Preparing
  <2>2. tree["root"].data \in 0 .. MaxEdits /\ tree[txn.cand] \in Trees
    BY <2>1
  <2>3. [tree[txn.cand] EXCEPT !.data = tree["root"].data] \in Trees
    BY <2>1, <2>2, TreeUpdated DEF Holds
  <2>4. QED
    BY <1>6, <2>1, <2>3 DEF Preserve
<1>7. CASE Edit
  <2>1. edits + 1 \in 0 .. MaxEdits /\ tree["root"] \in Trees /\ tree["root"].kind = "whole"
    BY <1>7, BoundsAreNat DEF Edit, BoundsAreNat
  <2>2. [tree["root"] EXCEPT !.data = edits + 1] \in Trees
    BY <2>1, TreeUpdated
  <2>3. QED
    BY <1>7, <2>2 DEF Edit
<1>8. CASE GiveUp
  BY <1>8 DEF GiveUp
<1>9. CASE Finalize
  BY <1>9 DEF Finalize
<1>10. CASE Retain
  BY <1>1, <1>2, <1>10 DEF Retain
<1>11. CASE Repair
  BY <1>1, <1>2, <1>11 DEF Repair
<1>12. CASE UNCHANGED tree
  BY <1>12
<1>13. QED
  BY <1>3, <1>4, <1>5, <1>6, <1>7, <1>8, <1>9, <1>10, <1>11, <1>12
     DEF Next, Install, Reconcile, vars, Apply, Rollback, Check, Prepare, Mark, ProvePasses,
         ProveFails, Drop, Recover, Identify, Revalidate, StartApp, StopApp

LocalOK ==
  /\ platform \in {"linux", "windows"}
  /\ pending \in Txns \cup {NoTxn} /\ txn \in Txns \cup {NoTxn}
  /\ running \in BOOLEAN
  /\ pc \in PCs /\ cmd \in {"none", "apply", "rollback", "recover"}
  /\ why \in Purposes /\ moved \in {"no", "aside", "activated", "restore"}
  /\ edits \in 0 .. MaxEdits /\ kept \in 0 .. MaxEdits
  /\ checked \subseteq Releases /\ proven \subseteq Releases
  /\ crashes \in 0 .. MaxCrashes /\ faults \in 0 .. MaxFaults

LEMMA TypeParts == TypeOK <=> TreesOK /\ LocalOK
BY DEF TypeOK, TreesOK, LocalOK

LEMMA LocalStep == ASSUME IInv, [Next]_vars PROVE LocalOK'
<1> USE TypeParts, BoundsAreNat
    DEF IInv, PCs, Purposes, disk, local, ghost, user, count, Goto
<1>0. LocalOK /\ TypeOK /\ PlaceInv
  OBVIOUS
<1> USE <1>0 DEF LocalOK, BoundsAreNat
<1>1. CASE SwapRefused
  BY <1>1 DEF SwapRefused, SwapReturns, AfterFailedSwap, Fault
<1>2. CASE Exchange
  BY <1>2 DEF Exchange, SwapReturns, AfterSwap, AfterFailedSwap, Fault
<1>3. CASE MoveAside
  BY <1>3 DEF MoveAside, Rename
<1>4. CASE Activate
  BY <1>4 DEF Activate, Rename, Fault
<1>5. CASE Restore
  BY <1>5 DEF Restore, Rename, Fault, SwapReturns, AfterFailedSwap
<1>6. CASE RetainAside
  BY <1>6 DEF RetainAside, Rename, Fault, SwapReturns, AfterSwap, AfterFailedSwap
<1>7. CASE Apply
  BY <1>7 DEF Apply, Quiet, Txns, ApplyPhases, RollbackPhases, Candidates
<1>8. CASE Rollback
  BY <1>8 DEF Rollback, Quiet, Txns, ApplyPhases, RollbackPhases, Candidates
<1>9. CASE Clear
  BY <1>9 DEF Clear, RemoveStaging
<1>10. CASE Unpack
  BY <1>10 DEF Unpack
<1>11. CASE Preserve
  BY <1>11 DEF Preserve
<1>12. CASE Check
  BY <1>12, TxnFacts DEF Check, PlaceInv, Installing, Preparing
<1>13. CASE GiveUp
  BY <1>13 DEF GiveUp
<1>14. CASE Prepare
  BY <1>14 DEF Prepare, StartSwap, Fault
<1>15. CASE Mark
  BY <1>15, TxnFacts DEF Mark, StartSwap, Fault, PlaceInv, Installing, Preparing
<1>16. CASE ProvePasses
  BY <1>16, TxnFacts DEF ProvePasses, PlaceInv, Installing, Preparing
<1>17. CASE ProveFails
  BY <1>17 DEF ProveFails, StartSwap
<1>18. CASE Finalize
  BY <1>18 DEF Finalize, Fault
<1>19. CASE Retain
  BY <1>19 DEF Retain, Rename, Fault
<1>20. CASE Drop
  BY <1>20 DEF Drop, Fault
<1>21. CASE Clean
  BY <1>21 DEF Clean, RemoveStaging
<1>22. CASE Recover
  BY <1>22 DEF Recover
<1>23. CASE Repair
  BY <1>23 DEF Repair, Rename, Fault
<1>24. CASE Identify
  BY <1>24 DEF Identify
<1>25. CASE Revalidate
  BY <1>25, TxnFacts DEF Revalidate, StartSwap, PlaceInv, Installing, Preparing
<1>26. CASE StartApp
  BY <1>26 DEF StartApp, Quiet
<1>27. CASE StopApp
  <2>1. running' \in BOOLEAN
    BY <1>27, Zenon DEF StopApp
  <2>2. UNCHANGED <<platform, disk, pc, local, ghost, edits, kept, count>>
    BY <1>27, Zenon DEF StopApp
  <2>3. QED
    BY <2>1, <2>2
<1>28. CASE Edit
  BY <1>28 DEF Edit, Quiet
<1>29. CASE Crash
  BY <1>29 DEF Crash, Interrupted
<1>30. CASE UNCHANGED vars
  BY <1>30 DEF vars
<1>31. QED
  BY <1>1, <1>2, <1>3, <1>4, <1>5, <1>6, <1>7, <1>8, <1>9, <1>10, <1>11, <1>12, <1>13, <1>14, <1>15, <1>16, <1>17, <1>18, <1>19, <1>20, <1>21, <1>22, <1>23, <1>24, <1>25, <1>26, <1>27, <1>28, <1>29, <1>30 DEF Next, Swap, Install, Reconcile

-----------------------------------------------------------------------------
(* The updater's transaction and pending.json *)

LEMMA PlaceStep == ASSUME IInv, [Next]_vars PROVE PlaceInv'
<1> USE TypeParts, TxnFacts, PathFacts DEF IInv, disk, local, ghost, user, count, Goto
<1>0. LocalOK /\ TreesOK /\ PlaceInv
  OBVIOUS
<1> USE <1>0 DEF LocalOK, TreesOK, PlaceInv, Consistent, Preparing, Installing, Holds
<1>1. CASE SwapRefused
  BY <1>1 DEF SwapRefused, SwapReturns, AfterFailedSwap, Fault
<1>2. CASE Exchange
  BY <1>2 DEF Purposes, Exchange, SwapReturns, AfterSwap, AfterFailedSwap, Fault
<1>3. CASE MoveAside
  BY <1>3 DEF MoveAside, Rename
<1>4. CASE Activate
  BY <1>4 DEF Activate, Rename, Fault
<1>5. CASE Restore
  BY <1>5 DEF Restore, Rename, Fault, SwapReturns, AfterFailedSwap
<1>6. CASE RetainAside
  BY <1>6 DEF Purposes, RetainAside, Rename, Fault, SwapReturns, AfterSwap, AfterFailedSwap
<1>7. CASE Apply
  BY <1>7 DEF Apply, Quiet, NoTxn, ApplyPhases
<1>8. CASE Rollback
  BY <1>8 DEF Rollback, Quiet, NoTxn, ApplyPhases
<1>9. CASE Clear
  BY <1>9 DEF Clear, RemoveStaging, StagingDir
<1>10. CASE Unpack
  BY <1>10, TreeKinds, BoundsAreNat DEF BoundsAreNat, Unpack
<1>11. CASE Preserve
  BY <1>11 DEF Preserve
<1>12. CASE Check
  BY <1>12 DEF Check
<1>13. CASE GiveUp
  BY <1>13 DEF GiveUp
<1>14. CASE Prepare
  BY <1>14 DEF Prepare, StartSwap, Fault
<1>15. CASE Mark
  BY <1>15 DEF Mark, StartSwap, Fault
<1>16. CASE ProvePasses
  BY <1>16 DEF ProvePasses
<1>17. CASE ProveFails
  BY <1>17 DEF ProveFails, StartSwap
<1>18. CASE Finalize
  BY <1>18 DEF Finalize, Fault
<1>19. CASE Retain
  BY <1>19 DEF Retain, Rename, Fault
<1>20. CASE Drop
  BY <1>20 DEF Drop, Fault
<1>21. CASE Clean
  BY <1>21 DEF Clean, RemoveStaging
<1>22. CASE Recover
  BY <1>22 DEF Recover
<1>23. CASE Repair
  BY <1>23 DEF Repair, Rename, Fault
<1>24. CASE Identify
  BY <1>24 DEF Identify
<1>25. CASE Revalidate
  BY <1>25 DEF Revalidate, StartSwap
<1>26. CASE StartApp
  BY <1>26 DEF StartApp, Quiet
<1>27. CASE StopApp
  BY <1>27 DEF StopApp
<1>28. CASE Edit
  BY <1>28 DEF Edit, Quiet
<1>29. CASE Crash
  BY <1>29 DEF Crash, Interrupted
<1>30. CASE UNCHANGED vars
  BY <1>30 DEF vars
<1>31. QED
  BY <1>1, <1>2, <1>3, <1>4, <1>5, <1>6, <1>7, <1>8, <1>9, <1>10, <1>11, <1>12, <1>13, <1>14, <1>15, <1>16, <1>17, <1>18, <1>19, <1>20, <1>21, <1>22, <1>23, <1>24, <1>25, <1>26, <1>27, <1>28, <1>29, <1>30 DEF Next, Swap, Install, Reconcile

-----------------------------------------------------------------------------
(* One failing call *)

LEMMA FaultsGrow == ASSUME IInv, [Next]_vars PROVE faults \in Nat /\ faults' \in Nat /\ faults <= faults'
<1> USE BoundsAreNat DEF BoundsAreNat, IInv, TypeOK, count
<1>1. CASE Swap
  BY <1>1 DEF Swap, SwapRefused, Exchange, MoveAside, Activate, Restore, RetainAside, Fault
<1>2. CASE Install
  BY <1>2 DEF Install, Apply, Rollback, Clear, Unpack, Preserve, Check, GiveUp, Prepare, Mark,
              ProvePasses, ProveFails, Finalize, Retain, Drop, Clean, Fault
<1>3. CASE Reconcile
  BY <1>3 DEF Reconcile, Recover, Repair, Identify, Revalidate, Fault
<1>4. CASE StartApp \/ StopApp \/ Edit \/ Crash \/ UNCHANGED vars
  BY <1>4 DEF StartApp, StopApp, Edit, Crash, vars
<1>5. QED
  BY <1>1, <1>2, <1>3, <1>4 DEF Next

LEMMA WeakStep == ASSUME IInv, [Next]_vars, faults' <= 1 PROVE WeakInv'
<1> USE TypeParts, TxnFacts, PathFacts, TreeKinds
    DEF IInv, disk, local, ghost, user, count, Goto
<1>0. LocalOK /\ TreesOK /\ PlaceInv /\ WeakInv
  BY FaultsGrow
<1> USE <1>0 DEF LocalOK, TreesOK, PlaceInv, Preparing, Installing, Holds, Exists,
                 WeakInv, WeakDisk, WeakPc, WeakSwap, Parted, Leaving, Coming
<1>1. CASE SwapRefused
  BY <1>1 DEF SwapRefused, SwapReturns, AfterFailedSwap, Fault
<1>2. CASE Exchange
  BY SMTT(30), <1>2 DEF Purposes, Exchange, SwapReturns, AfterSwap, AfterFailedSwap, Fault
<1>3. CASE MoveAside
  BY <1>3 DEF MoveAside, Rename
<1>4. CASE Activate
  BY <1>4 DEF Activate, Rename, Fault
<1>5. CASE Restore
  BY <1>5 DEF Restore, Rename, Fault, SwapReturns, AfterFailedSwap
<1>6. CASE RetainAside
  BY <1>6 DEF Purposes, RetainAside, Rename, Fault, SwapReturns, AfterSwap, AfterFailedSwap
<1>7. CASE Apply
  BY <1>7 DEF Apply, Quiet
<1>8. CASE Rollback
  BY <1>8 DEF Rollback, Quiet
<1>9. CASE Clear
  BY <1>9 DEF Clear, RemoveStaging, StagingDir
<1>10. CASE Unpack
  BY <1>10 DEF Unpack
<1>11. CASE Preserve
  BY <1>11 DEF Preserve
<1>12. CASE Check
  BY <1>12 DEF Check
<1>13. CASE GiveUp
  BY <1>13 DEF GiveUp
<1>14. CASE Prepare
  BY <1>14 DEF Prepare, StartSwap, Fault
<1>15. CASE Mark
  BY <1>15 DEF Mark, StartSwap, Fault
<1>16. CASE ProvePasses
  BY <1>16 DEF ProvePasses
<1>17. CASE ProveFails
  BY <1>17 DEF ProveFails, StartSwap
<1>18. CASE Finalize
  BY <1>18 DEF Finalize, Fault
<1>19. CASE Retain
  BY <1>19 DEF Retain, Rename, Fault
<1>20. CASE Drop
  BY <1>20 DEF Drop, Fault
<1>21. CASE Clean
  BY <1>21 DEF Clean, RemoveStaging, StagingDir
<1>22. CASE Recover
  BY <1>22 DEF Recover
<1>23. CASE Repair
  BY <1>23 DEF Repair, Rename, Fault
<1>24. CASE Identify
  BY <1>24 DEF Identify
<1>25. CASE Revalidate
  BY <1>25 DEF Revalidate, StartSwap
<1>26. CASE StartApp
  BY <1>26 DEF StartApp, Quiet
<1>27. CASE StopApp
  BY <1>27 DEF StopApp
<1>28. CASE Edit
  BY <1>28 DEF Edit, Quiet
<1>29. CASE Crash
  BY <1>29 DEF Crash, Interrupted, StagingDir, Paths
<1>30. CASE UNCHANGED vars
  BY <1>30 DEF vars
<1>31. QED
  BY <1>1, <1>2, <1>3, <1>4, <1>5, <1>6, <1>7, <1>8, <1>9, <1>10, <1>11, <1>12, <1>13, <1>14, <1>15, <1>16, <1>17, <1>18, <1>19, <1>20, <1>21, <1>22, <1>23, <1>24, <1>25, <1>26, <1>27, <1>28, <1>29, <1>30 DEF Next, Swap, Install, Reconcile

-----------------------------------------------------------------------------
(* No failing call *)

LEMMA StrongStep == ASSUME IInv, [Next]_vars, faults' = 0 PROVE StrongDisk' /\ StrongPc'
<1> USE TypeParts, TxnFacts, PathFacts, TreeKinds
    DEF IInv, disk, local, ghost, user, count, Goto
<1>0. LocalOK /\ TreesOK /\ PlaceInv /\ WeakInv /\ StrongDisk /\ StrongPc
  BY FaultsGrow DEF StrongInv
<1> USE <1>0 DEF LocalOK, TreesOK, PlaceInv, Preparing, Installing, Holds, Exists,
                 WeakInv, WeakDisk, WeakPc, WeakSwap, Parted, Leaving, Coming,
                 StrongDisk, StrongPc, Reconcilable, Retained, OldRootRetained, Aside, Consistent
<1>1. CASE SwapRefused
  BY SMTT(30), <1>1 DEF SwapRefused, Exchangeable, SwapReturns, AfterFailedSwap, Fault
<1>2. CASE Exchange
  <2>1. StrongDisk'
    BY SMTT(30), <1>2 DEF Purposes, Exchangeable, Exchange, SwapReturns, AfterSwap, AfterFailedSwap, Fault
  <2>2. StrongPc'
    <3>1. CASE why = "forward"
      BY SMTT(30), <1>2, <3>1 DEF Exchangeable, Exchange, SwapReturns, AfterSwap, AfterFailedSwap, Fault
    <3>2. CASE why = "unmark"
      BY SMTT(30), <1>2, <3>2 DEF Exchangeable, Exchange, SwapReturns, AfterSwap, AfterFailedSwap, Fault
    <3>3. CASE why = "back"
      BY SMTT(30), <1>2, <3>3 DEF Exchangeable, Exchange, SwapReturns, AfterSwap, AfterFailedSwap, Fault
    <3>4. QED
      BY <3>1, <3>2, <3>3 DEF Purposes
  <2>3. QED
    BY <2>1, <2>2
<1>3. CASE MoveAside
  <2>1. StrongDisk'
    <3>1. /\ pending' = pending /\ proven' = proven /\ checked' = checked
          /\ pending # NoTxn /\ pending.cand = txn.cand
          /\ pending.old = txn.old /\ pending.new = txn.new
      BY <1>3 DEF MoveAside
    <3>2. /\ ~Exists("root")'
          /\ Holds(Aside(txn.cand), Leaving)' /\ Holds(txn.cand, Coming)'
          /\ txn.cand = "staging" => tree'["rollback.exchange-old"] = tree["rollback.exchange-old"]
      BY <1>3 DEF MoveAside, Rename
    <3>3. Reconcilable'
      BY <3>1, <3>2, <1>3 DEF MoveAside
    <3>4. QED
      BY SMTT(30), <3>1, <3>2, <3>3 DEF Candidates
  <2>2. StrongPc'
    BY <1>3 DEF MoveAside, Exchangeable, Rename
  <2>3. QED
    BY <2>1, <2>2
<1>4. CASE Activate
  <2>1. StrongDisk'
    BY <1>4 DEF Activate, Rename, Fault
  <2>2. StrongPc'
    BY <1>4 DEF Activate, Rename, Fault
  <2>3. QED
    BY <2>1, <2>2
<1>5. CASE Restore
  BY <1>5 DEF Restore, Rename, Fault, SwapReturns, AfterFailedSwap
<1>6. CASE RetainAside
  <2>1. StrongDisk'
    BY <1>6 DEF Purposes, RetainAside, Rename, Fault, SwapReturns, AfterSwap, AfterFailedSwap
  <2>2. StrongPc'
    BY <1>6 DEF Purposes, RetainAside, Rename, Fault, SwapReturns, AfterSwap, AfterFailedSwap
  <2>3. QED
    BY <2>1, <2>2
<1>7. CASE Apply
  BY <1>7 DEF Apply, Quiet
<1>8. CASE Rollback
  BY <1>8 DEF Rollback, Quiet
<1>9. CASE Clear
  <2>1. StrongDisk'
    BY <1>9 DEF Clear, RemoveStaging, StagingDir
  <2>2. StrongPc'
    BY <1>9 DEF Clear, RemoveStaging, StagingDir
  <2>3. QED
    BY <2>1, <2>2
<1>10. CASE Unpack
  BY <1>10 DEF Unpack
<1>11. CASE Preserve
  BY <1>11 DEF Preserve
<1>12. CASE Check
  BY <1>12 DEF Check
<1>13. CASE GiveUp
  <2>1. StrongDisk'
    BY <1>13 DEF GiveUp
  <2>2. StrongPc'
    BY <1>13 DEF GiveUp
  <2>3. QED
    BY <2>1, <2>2
<1>14. CASE Prepare
  BY <1>14 DEF Prepare, StartSwap, Fault
<1>15. CASE Mark
  BY <1>15 DEF Mark, StartSwap, Fault
<1>16. CASE ProvePasses
  <2>1. StrongDisk'
    BY <1>16 DEF ProvePasses
  <2>2. /\ Parted(txn.new, txn.old) /\ ~Exists(Aside(txn.cand)) /\ txn.new \in proven'
        /\ UNCHANGED <<tree, txn>>
    BY <1>16 DEF ProvePasses
  <2>3. pc' = "drop" => txn.cand = "rollback"
    BY <1>16 DEF ProvePasses, Candidates, ApplyPhases, RollbackPhases
  <2>4. pc' \in {"drop", "finalize"}
    BY <1>16 DEF ProvePasses
  <2>5. StrongPc'
    BY <2>2, <2>3, <2>4
  <2>6. QED
    BY <2>1, <2>5
<1>17. CASE ProveFails
  BY <1>17 DEF ProveFails, StartSwap
<1>18. CASE Finalize
  <2>1. StrongDisk'
    BY <1>18 DEF Finalize, Fault
  <2>2. StrongPc'
    BY <1>18 DEF Finalize, Fault
  <2>3. QED
    BY <2>1, <2>2
<1>19. CASE Retain
  <2>1. StrongDisk'
    BY <1>19 DEF Retain, Rename, Fault
  <2>2. StrongPc'
    BY <1>19 DEF Retain, Rename, Fault
  <2>3. QED
    BY <2>1, <2>2
<1>20. CASE Drop
  BY <1>20 DEF Drop, Fault
<1>21. CASE Clean
  <2>1. StrongDisk'
    BY <1>21 DEF Clean, RemoveStaging, StagingDir
  <2>2. StrongPc'
    BY <1>21 DEF Clean, RemoveStaging, StagingDir
  <2>3. QED
    BY <2>1, <2>2
<1>22. CASE Recover
  BY <1>22 DEF Recover
<1>23. CASE Repair
  <2>1. StrongDisk'
    BY SMTT(30), <1>23 DEF Repair, Rename, Fault
  <2>2. StrongPc'
    BY <1>23 DEF Repair, Rename, Fault
  <2>3. QED
    BY <2>1, <2>2
<1>24. CASE Identify
  BY <1>24 DEF Identify
<1>25. CASE Revalidate
  BY <1>25 DEF Revalidate, StartSwap
<1>26. CASE StartApp
  BY <1>26 DEF StartApp, Quiet
<1>27. CASE StopApp
  BY SMTT(30), <1>27 DEF StopApp
<1>28. CASE Edit
  BY SMTT(30), <1>28 DEF Edit, Quiet
<1>29. CASE Crash
  <2>1. StrongDisk'
    BY SMTT(30), <1>29 DEF Crash, Interrupted, StagingDir, Paths
  <2>2. StrongPc'
    BY <1>29 DEF Crash
  <2>3. QED
    BY <2>1, <2>2
<1>30. CASE UNCHANGED vars
  BY SMTT(30), <1>30 DEF vars
<1>31. QED
  BY <1>1, <1>2, <1>3, <1>4, <1>5, <1>6, <1>7, <1>8, <1>9, <1>10, <1>11, <1>12, <1>13, <1>14, <1>15, <1>16, <1>17, <1>18, <1>19, <1>20, <1>21, <1>22, <1>23, <1>24, <1>25, <1>26, <1>27, <1>28, <1>29, <1>30 DEF Next, Swap, Install, Reconcile

\* The user's files are copied before the transaction opens, and every tree it
\* moves has them from then on; an edit in the root is later than all of them.
LEMMA DataStep == ASSUME IInv, [Next]_vars, faults' = 0 PROVE DataInv'
<1> USE TypeParts, TxnFacts, PathFacts, TreeKinds
    DEF IInv, disk, local, ghost, user, count, Goto
<1>0. LocalOK /\ TreesOK /\ PlaceInv /\ WeakInv /\ StrongDisk /\ StrongPc /\ DataInv
  BY FaultsGrow DEF StrongInv
<1> USE <1>0 DEF LocalOK, TreesOK, PlaceInv, Preparing, Installing, Exists, DataInv, HasEdits
<1>1. CASE SwapRefused
  BY <1>1 DEF SwapRefused, SwapReturns, AfterFailedSwap, Fault
<1>2. CASE Exchange
  BY <1>2 DEF Purposes, Exchangeable, Exchange, SwapReturns, AfterSwap, AfterFailedSwap, Fault
<1>3. CASE MoveAside
  BY <1>3 DEF MoveAside, Rename
<1>4. CASE Activate
  BY <1>4 DEF Activate, Rename, Fault
<1>5. CASE Restore
  BY <1>5 DEF Restore, Rename, Fault, SwapReturns, AfterFailedSwap
<1>6. CASE RetainAside
  BY <1>6 DEF Purposes, RetainAside, Rename, Fault, SwapReturns, AfterSwap, AfterFailedSwap
<1>7. CASE Apply
  BY <1>7 DEF Apply, Quiet
<1>8. CASE Rollback
  BY <1>8 DEF Rollback, Quiet
<1>9. CASE Clear
  BY <1>9 DEF Clear, RemoveStaging, StagingDir
<1>10. CASE Unpack
  BY <1>10 DEF Unpack
<1>11. CASE Preserve
  <2>1. txn.cand \in Candidates /\ Holds(txn.cand, txn.new)
    BY <1>11 DEF Preserve
  <2>2. tree'[txn.cand].data = tree["root"].data
    BY <1>11, <2>1, TreeUpdated DEF Preserve, Holds
  <2>3. tree["root"].data >= kept
    BY <1>11 DEF Preserve, Holds
  <2>4. QED
    BY <1>11, <2>1, <2>2, <2>3 DEF Preserve
<1>12. CASE Check
  BY <1>12 DEF Check
<1>13. CASE GiveUp
  BY <1>13 DEF GiveUp
<1>14. CASE Prepare
  BY <1>14 DEF Prepare, StartSwap, Fault, StrongPc
<1>15. CASE Mark
  BY <1>15 DEF Mark, StartSwap, Fault
<1>16. CASE ProvePasses
  BY <1>16 DEF ProvePasses
<1>17. CASE ProveFails
  BY <1>17 DEF ProveFails, StartSwap
<1>18. CASE Finalize
  BY <1>18 DEF Finalize, Fault
<1>19. CASE Retain
  BY <1>19 DEF Retain, Rename, Fault
<1>20. CASE Drop
  BY <1>20 DEF Drop, Fault
<1>21. CASE Clean
  BY <1>21 DEF Clean, RemoveStaging, StagingDir
<1>22. CASE Recover
  BY <1>22 DEF Recover
<1>23. CASE Repair
  BY <1>23 DEF Repair, Rename, Fault
<1>24. CASE Identify
  BY <1>24 DEF Identify
<1>25. CASE Revalidate
  BY <1>25 DEF Revalidate, StartSwap
<1>26. CASE StartApp
  BY <1>26 DEF StartApp, Quiet
<1>27. CASE StopApp
  BY <1>27 DEF StopApp
<1>28. CASE Edit
  BY <1>28 DEF Edit, Quiet
<1>29. CASE Crash
  BY <1>29 DEF Crash, Interrupted, StagingDir, Paths
<1>30. CASE UNCHANGED vars
  BY <1>30 DEF vars
<1>31. QED
  BY <1>1, <1>2, <1>3, <1>4, <1>5, <1>6, <1>7, <1>8, <1>9, <1>10, <1>11, <1>12, <1>13, <1>14, <1>15, <1>16, <1>17, <1>18, <1>19, <1>20, <1>21, <1>22, <1>23, <1>24, <1>25, <1>26, <1>27, <1>28, <1>29, <1>30 DEF Next, Swap, Install, Reconcile

-----------------------------------------------------------------------------
(* The invariant *)

LEMMA InitIInv == Init => IInv
<1> SUFFICES ASSUME Init PROVE IInv
  OBVIOUS
<1> USE TreeKinds, PathFacts, TxnFacts, BoundsAreNat DEF Init, BoundsAreNat
<1>1. PICK r \in Releases :
        /\ tree = [p \in Paths |-> IF p = "root" THEN Whole(r, 0) ELSE Absent]
        /\ checked = {r} /\ proven = {r}
  OBVIOUS
<1>2. TreesOK
  BY <1>1 DEF TreesOK
<1>3. LocalOK
  <2>1. {r} \subseteq Releases /\ 0 \in 0 .. MaxEdits /\ 0 \in 0 .. MaxCrashes
        /\ 0 \in 0 .. MaxFaults
    BY DEF BoundsAreNat
  <2>2. QED
    BY <1>1, <2>1 DEF LocalOK, PCs, Purposes
<1>4. PlaceInv
  BY DEF PlaceInv, Consistent, Preparing, Installing
<1>5. WeakInv
  BY <1>1 DEF WeakInv, WeakDisk, WeakPc, WeakSwap, Preparing
<1>6. StrongInv
  BY <1>1 DEF StrongInv, StrongDisk, StrongPc, DataInv, HasEdits, Exists, Preparing
<1>7. QED
  BY <1>2, <1>3, <1>4, <1>5, <1>6, TypeParts DEF IInv

LEMMA StepIInv == IInv /\ [Next]_vars => IInv'
<1> SUFFICES ASSUME IInv, [Next]_vars PROVE IInv'
  OBVIOUS
<1>1. TypeOK' <=> TreesOK' /\ LocalOK'
  BY DEF TypeOK, TreesOK, LocalOK
<1>2. QED
  BY <1>1, TreesStep, LocalStep, PlaceStep, WeakStep, StrongStep, DataStep, FaultsGrow
     DEF IInv, StrongInv

-----------------------------------------------------------------------------
(* An update is atomic                                                       *)

LEMMA InstalledInit == ASSUME Init PROVE Installed!Init
<1>1. PICK r \in Releases :
        /\ tree = [p \in Paths |-> IF p = "root" THEN Whole(r, 0) ELSE Absent]
        /\ checked = {r} /\ proven = {r}
  BY DEF Init
<1>2. tree["root"] = Whole(r, 0) /\ tree["rollback"] = Absent
  BY <1>1, PathFacts
<1>3. Whole(r, 0).release = r /\ Absent.kind = "none"
  BY DEF Whole, Absent
<1>4. InForce = r /\ GoBackTo = 0
  BY <1>2, <1>3 DEF Init, InForce, GoBackTo, Fallback
<1>5. UnderWay = [kind |-> "none", new |-> 0]
  BY DEF Init, UnderWay, NoTxn
<1>6. QED
  BY <1>1, <1>4, <1>5 DEF Init, Installed!Init, Installed!NoUpdate

\* A step that leaves the releases in the root and in the rollback root alone, or
\* is inside of a transaction.
LEMMA Unseen ==
  ASSUME pending' = pending, proven' = proven, faults = 0, faults' = 0,
         pending # NoTxn \/ tree'["root"].release = tree["root"].release,
         \/ pending # NoTxn /\ pending.cand = "rollback"
         \/ Fallback' = Fallback /\ (pending # NoTxn => (OldRootMoved' <=> OldRootMoved))
  PROVE  UNCHANGED Installed!vars
<1>1. InForce' = InForce /\ GoBackTo' = GoBackTo /\ UnderWay' = UnderWay
  BY DEF InForce, GoBackTo, UnderWay
<1>2. (faults = 0)' = (faults = 0)
  OBVIOUS
<1>3. QED
  BY <1>1, <1>2 DEF Installed!vars

\* What an apply exchanges stays in the staging directory or aside, until it is
\* retained; the rollback root is not concerned.
LEMMA StagingKept ==
  ASSUME IInv, faults = 0, faults' = 0, pending # NoTxn, pending.cand = "staging",
         Swap \/ Mark \/ ProvePasses \/ ProveFails \/ Recover \/ Repair \/ Identify \/ Revalidate
  PROVE  Fallback' = Fallback /\ (OldRootMoved' <=> OldRootMoved)
<1> USE TypeParts, PathFacts, TreeKinds DEF IInv, disk, count, Goto
<1>0. TreesOK /\ PlaceInv /\ WeakInv
  BY TypeParts
<1>1. CASE UNCHANGED tree
  BY <1>1 DEF Fallback, OldRootMoved, Exists
<1>2. CASE Swap
  <2>1. txn.cand = "staging" /\ pc = "swap"
    BY <1>0, <1>2 DEF PlaceInv, Installing, Swap, SwapRefused, Exchange, MoveAside, Activate,
       Restore, RetainAside
  <2>2. tree'["rollback"] = tree["rollback"]
    BY <1>0, <1>2, <2>1 DEF TreesOK, Aside, Rename, Swap, SwapRefused, Exchange, MoveAside,
       Activate, Restore, RetainAside
  <2>3. ~OldRootMoved
    BY <1>0, <2>1 DEF WeakInv, WeakSwap, Parted, Holds, Aside, OldRootMoved, StagingDir, Exists
  <2>4. ~OldRootMoved'
    <3>1. CASE SwapRefused
      BY <2>3, <3>1 DEF SwapRefused, OldRootMoved, Exists
    <3>2. CASE Exchange
      BY <1>0, <2>1, <3>2 DEF Exchange, Exchangeable, TreesOK, OldRootMoved, StagingDir, Exists
    <3>3. CASE MoveAside
      BY <1>0, <2>1, <3>3 DEF MoveAside, Exchangeable, Rename, Aside, TreesOK, OldRootMoved,
         StagingDir, Exists
    <3>4. CASE Activate \/ Restore
      BY <1>0, <2>1, <3>4 DEF Activate, Restore, Fault, Rename, Aside, TreesOK, OldRootMoved,
         StagingDir, Exists, PlaceInv, WeakInv, WeakSwap, Holds
    <3>5. CASE RetainAside
      BY <1>0, <2>1, <2>3, <3>5 DEF RetainAside, Rename, Aside, TreesOK, OldRootMoved,
         StagingDir, Exists, WeakInv, WeakSwap, Holds
    <3>6. QED
      BY <1>2, <3>1, <3>2, <3>3, <3>4, <3>5 DEF Swap
  <2>5. QED
    BY <2>2, <2>3, <2>4 DEF Fallback
<1>3. CASE Repair
  <2>1. txn.cand = "staging"
    BY <1>0, <1>3 DEF PlaceInv, Installing, Repair
  <2>2. CASE \/ ~Exists("root") /\ Exists("staging") /\ Rename("staging", "root")
                /\ Exists(Aside("staging"))
             \/ Exists("root") /\ ~Exists("staging") /\ Rename(Aside("staging"), "staging")
                /\ Exists(Aside("staging"))
    BY <1>0, <2>2 DEF Rename, Aside, TreesOK, OldRootMoved, StagingDir, Exists, Fallback
  <2>3. QED
    BY <1>1, <1>3, <2>1, <2>2 DEF Repair
<1>4. CASE Mark \/ ProvePasses \/ ProveFails \/ Recover \/ Identify \/ Revalidate
  BY <1>1, <1>4 DEF Mark, ProvePasses, ProveFails, Recover, Identify, Revalidate
<1>5. QED
  BY <1>2, <1>3, <1>4

\* The steps from the first exchange on, but for those that write pending.json,
\* prove the new root or retain the old one.
LEMMA InsideSteps ==
  ASSUME IInv,
         Swap \/ Mark \/ ProveFails \/ Recover \/ Repair \/ Identify \/ Revalidate,
         faults = 0, faults' = 0
  PROVE  UNCHANGED Installed!vars
<1> USE DEF IInv, disk, ghost, count, Goto
<1>0. LocalOK /\ PlaceInv
  BY TypeParts
<1>1. CASE Mark
  <2>1. pending # NoTxn /\ pending.cand = txn.cand /\ pending.old = txn.old
        /\ pending.new = txn.new /\ txn # NoTxn
    BY <1>0, <1>1 DEF Mark, PlaceInv, Installing
  <2>2. pending' \in {pending, Exchanged(txn)} /\ proven' = proven /\ tree' = tree
    BY <1>1 DEF Mark
  <2>3. txn \in Txns
    BY <1>0, <2>1 DEF LocalOK
  <2>4. /\ pending' # NoTxn /\ pending'.cand = pending.cand
        /\ pending'.old = pending.old /\ pending'.new = pending.new
    BY <2>1, <2>2, <2>3, TxnFacts
  <2>5. InForce' = InForce /\ GoBackTo' = GoBackTo /\ UnderWay' = UnderWay
    BY <2>1, <2>2, <2>4 DEF InForce, GoBackTo, UnderWay, Fallback, OldRootMoved, Exists
  <2>6. (faults = 0)' = (faults = 0)
    OBVIOUS
  <2>7. QED
    BY <2>2, <2>5, <2>6 DEF Installed!vars
<1>2. CASE Swap \/ ProveFails \/ Recover \/ Repair \/ Identify \/ Revalidate
  <2>1. pending # NoTxn /\ pending \in Txns
    BY <1>0, <1>2 DEF LocalOK, PlaceInv, Installing, Swap, SwapRefused, Exchange, MoveAside,
       Activate, Restore, RetainAside, ProveFails, Recover, Repair, Identify, Revalidate
  <2>2. pending' = pending /\ proven' = proven
    BY <1>2 DEF Swap, SwapRefused, Exchange, MoveAside, Activate, Restore, RetainAside,
       ProveFails, Recover, Repair, Identify, Revalidate
  <2>3. pending.cand \in {"staging", "rollback"}
    BY <2>1, TxnFacts DEF Candidates
  <2>4. QED
    BY <1>2, <2>1, <2>2, <2>3, StagingKept, Unseen
<1>3. QED
  BY <1>1, <1>2

\* Once the new root has been proven, the release to go back to is given up for
\* the old root.
LEMMA RetainingSteps ==
  ASSUME IInv, Finalize \/ Retain \/ (Crash /\ pc = "finalize"), faults = 0, faults' = 0
  PROVE  [Installed!Next]_(Installed!vars)
<1> USE TreeKinds, PathFacts DEF IInv, disk, ghost, count, Goto
<1>0. LocalOK /\ PlaceInv /\ TreesOK /\ StrongPc
  BY TypeParts DEF StrongInv
<1>1. /\ pc \in {"finalize", "retain"} /\ pending' = pending /\ proven' = proven
  BY DEF Finalize, Retain, Crash
<1>2. /\ pending # NoTxn /\ pending.cand = "staging" /\ pending.new \in proven
      /\ txn.cand = "staging" /\ Holds("staging", txn.old)
  BY <1>0, <1>1 DEF PlaceInv, Installing, StrongPc, Parted
<1>3. ~OldRootMoved
  BY <1>2 DEF OldRootMoved, StagingDir, Exists, Holds
<1>4. GoBackTo' \in {GoBackTo, 0}
  <2>1. CASE Finalize
    <3>1. tree' = [tree EXCEPT !["rollback"] = Absent]
      BY <2>1 DEF Finalize, Fault
    <3>2. Fallback' = 0
      BY <1>0, <3>1 DEF Fallback, TreesOK
    <3>3. QED
      BY <1>1, <1>2, <3>2 DEF GoBackTo
  <2>2. CASE Retain
    <3>1. tree' = [tree EXCEPT !["rollback"] = tree["staging"], !["staging"] = Absent]
      BY <1>2, <2>2 DEF Retain, Rename, Fault
    <3>2. ~Exists("staging.exchange-old")
      BY <1>0, <1>1, <1>2 DEF StrongPc, Aside
    <3>3. OldRootMoved'
      BY <1>0, <3>1, <3>2 DEF OldRootMoved, StagingDir, Exists, TreesOK
    <3>4. QED
      BY <1>1, <1>2, <3>3 DEF GoBackTo
  <2>3. CASE Crash /\ pc = "finalize"
    <3>1. PICK broken \in SUBSET Interrupted :
            tree' = [p \in Paths |-> IF p \in broken THEN Debris ELSE tree[p]]
      BY <2>3 DEF Crash
    <3>2. \A p \in StagingDir : p \notin broken /\ tree'[p] = tree[p]
      BY <2>3, <3>1 DEF Interrupted, StagingDir, Paths
    <3>3. ~OldRootMoved'
      BY <1>3, <3>2 DEF OldRootMoved, Exists
    <3>4. tree'["rollback"] \in {tree["rollback"], Debris}
      BY <3>1
    <3>5. Fallback' \in {Fallback, 0}
      BY <3>4 DEF Fallback
    <3>6. QED
      BY <1>1, <1>2, <1>3, <3>3, <3>5 DEF GoBackTo
  <2>4. QED
    BY <2>1, <2>2, <2>3
<1>5. InForce' = InForce /\ UnderWay' = UnderWay
      /\ UnderWay.kind = "upgrade" /\ UnderWay.new \in proven
  BY <1>1, <1>2 DEF InForce, UnderWay
<1>6. (faults = 0)' = (faults = 0)
  OBVIOUS
<1>7. CASE GoBackTo' = GoBackTo
  BY <1>1, <1>5, <1>6, <1>7 DEF Installed!vars
<1>8. CASE GoBackTo' = 0
  <2>1. Installed!GiveUpPrevious
    BY <1>1, <1>5, <1>6, <1>8 DEF Installed!GiveUpPrevious
  <2>2. QED
    BY <2>1 DEF Installed!Next
<1>9. QED
  BY <1>4, <1>7, <1>8

\* The steps before pending.json is written or after it is removed, and those of
\* the program and its user.
LEMMA OutsideSteps ==
  ASSUME IInv,
         \/ Apply \/ Rollback \/ Clear \/ Unpack \/ Preserve \/ Check \/ GiveUp
         \/ Clean \/ StartApp \/ StopApp \/ Edit \/ (Crash /\ pc # "finalize"),
         faults = 0, faults' = 0
  PROVE  UNCHANGED Installed!vars
<1> USE TreeKinds, PathFacts DEF IInv, disk, ghost, count, Goto
<1>0. LocalOK /\ PlaceInv /\ TreesOK
  BY TypeParts
<1>1. pending' = pending /\ proven' = proven
  BY DEF Apply, Rollback, Clear, Unpack, Preserve, Check, GiveUp, Clean, StartApp, StopApp,
     Edit, Crash
<1> DEFINE Same == /\ tree'["root"].release = tree["root"].release
                   /\ tree'["rollback"].kind = tree["rollback"].kind
                   /\ tree'["rollback"].release = tree["rollback"].release
<1>2. Same
  <2>1. CASE Apply \/ Rollback \/ Check \/ StartApp \/ StopApp
    BY <2>1 DEF Apply, Rollback, Check, StartApp, StopApp
  <2>2. CASE Clear \/ Clean
    BY <1>0, <2>2 DEF Clear, Clean, RemoveStaging, StagingDir, TreesOK
  <2>3. CASE Unpack \/ GiveUp
    BY <1>0, <2>3 DEF Unpack, GiveUp, TreesOK
  <2>4. CASE Preserve
    <3>1. tree' = [tree EXCEPT ![txn.cand] = [@ EXCEPT !.data = tree["root"].data]]
          /\ txn.cand \in Candidates /\ Holds(txn.cand, txn.new)
      BY <1>0, <2>4, TxnFacts DEF Preserve, PlaceInv, Preparing, LocalOK
    <3>2. tree[txn.cand] \in Trees /\ tree["root"].data \in 0 .. MaxEdits
      BY <1>0, <3>1 DEF TreesOK
    <3>3. LET u == [tree[txn.cand] EXCEPT !.data = tree["root"].data] IN
            u.kind = "whole" /\ u.release = tree[txn.cand].release
      BY <3>1, <3>2, TreeUpdated DEF Holds
    <3>4. QED
      BY <1>0, <3>1, <3>3 DEF TreesOK, Holds
  <2>5. CASE Edit
    <3>1. tree' = [tree EXCEPT !["root"].data = edits + 1] /\ tree["root"] \in Trees
          /\ tree["root"].kind = "whole" /\ edits + 1 \in 0 .. MaxEdits
      BY <1>0, <2>5, BoundsAreNat DEF Edit, TreesOK, LocalOK, BoundsAreNat
    <3>2. [tree["root"] EXCEPT !.data = edits + 1].release = tree["root"].release
      BY <3>1, TreeUpdated
    <3>3. QED
      BY <1>0, <3>1, <3>2 DEF TreesOK
  <2>6. CASE Crash /\ pc # "finalize"
    <3>1. "rollback" \notin Interrupted /\ "root" \notin Interrupted
      BY <2>6 DEF Interrupted, StagingDir
    <3>2. QED
      BY <1>0, <2>6, <3>1 DEF Crash, TreesOK
  <2>7. QED
    BY <2>1, <2>2, <2>3, <2>4, <2>5, <2>6
<1>3. Fallback' = Fallback
  BY <1>2 DEF Fallback
<1>4. pending # NoTxn => (OldRootMoved' <=> OldRootMoved)
  <2>1. CASE Clear \/ Unpack \/ Preserve \/ GiveUp \/ Clean \/ Apply \/ Rollback \/ StartApp
    BY <1>0, <2>1 DEF PlaceInv, Preparing, Clear, Unpack, Preserve, GiveUp, Clean, Apply,
       Rollback, StartApp, Quiet
  <2>2. CASE Check \/ StopApp
    BY <2>2 DEF Check, StopApp, OldRootMoved, Exists
  <2>3. CASE Edit
    <3>1. \A p \in StagingDir : tree'[p] = tree[p]
      BY <1>0, <2>3 DEF Edit, TreesOK, StagingDir
    <3>2. QED
      BY <3>1 DEF OldRootMoved, Exists
  <2>4. CASE Crash /\ pc # "finalize"
    <3>1. pending # NoTxn => Interrupted = {}
      BY <1>0, <2>4 DEF Interrupted, PlaceInv, Preparing
    <3>2. pending # NoTxn => \A p \in StagingDir : tree'[p] = tree[p]
      BY <2>4, <3>1 DEF Crash, StagingDir, Paths
    <3>3. QED
      BY <3>2 DEF OldRootMoved, Exists
  <2>5. QED
    BY <2>1, <2>2, <2>3, <2>4
<1>5. QED
  BY <1>1, <1>2, <1>3, <1>4, Unseen

LEMMA AtomicStep ==
  ASSUME IInv, [Next]_vars PROVE [Installed!Next]_(Installed!vars)
<1> USE DEF IInv, disk, ghost, count, Goto
<1>0. LocalOK /\ PlaceInv /\ TreesOK /\ BoundsAreNat
  BY TypeParts, BoundsAreNat
<1>1. CASE faults' # 0
  <2>1. (faults = 0)' = FALSE
    BY <1>1
  <2>2. Installed!Break
    BY <2>1 DEF Installed!Break
  <2>3. QED
    BY <2>2 DEF Installed!Next
<1>2. CASE faults' = 0
  <2>0. faults = 0 /\ (faults = 0)' = (faults = 0)
    BY <1>2, FaultsGrow
  <2>s. WeakInv /\ StrongDisk /\ StrongPc
    BY <2>0 DEF StrongInv
  <2>1. CASE Prepare
    <3>1. pending = NoTxn /\ pending' = txn /\ proven' = proven /\ txn \in Txns /\ txn # NoTxn
          /\ Holds("root", txn.old) /\ Holds(txn.cand, txn.new) /\ Consistent(txn)
      BY <1>0, <2>1 DEF Prepare, PlaceInv, Preparing, LocalOK
    <3>2. txn.cand \in Candidates /\ txn.new \in Releases /\ NoTxn.new = 0
      BY <3>1, TxnFacts DEF NoTxn
    <3>3. InForce = txn.old /\ InForce' = txn.old
      BY <3>1 DEF InForce, Holds
    <3>4. UnderWay = Installed!NoUpdate
      BY <3>1, <3>2 DEF UnderWay, Installed!NoUpdate
    <3>5. CASE txn.cand = "staging"
      <4>1. tree' = tree /\ ~OldRootMoved'
        BY <2>1, <3>1, <3>5 DEF Prepare, OldRootMoved, StagingDir, Exists, Holds
      <4>2. UnderWay' = [kind |-> "upgrade", new |-> txn.new] /\ GoBackTo' = GoBackTo
        BY <3>1, <3>5, <4>1 DEF UnderWay, GoBackTo, Fallback
      <4>3. txn.new > txn.old
        BY <3>1, <3>5 DEF Consistent
      <4>4. Installed!Begin(txn.new)
        BY <2>0, <3>1, <3>3, <3>4, <4>2, <4>3 DEF Installed!Begin
      <4>5. QED
        BY <3>2, <4>4 DEF Installed!Next
    <3>6. CASE txn.cand = "rollback"
      <4>1. UnderWay' = [kind |-> "rollback", new |-> txn.new] /\ GoBackTo' = txn.new
            /\ GoBackTo = txn.new
        BY <3>1, <3>6 DEF UnderWay, GoBackTo, Fallback, Holds
      <4>2. Installed!Begin(txn.new)
        BY <2>0, <3>1, <3>3, <3>4, <4>1 DEF Installed!Begin
      <4>3. QED
        BY <3>2, <4>2 DEF Installed!Next
    <3>7. QED
      BY <3>2, <3>5, <3>6 DEF Candidates
  <2>2. CASE ProvePasses
    <3>1. pending # NoTxn /\ pending.new = txn.new /\ pending' = pending
          /\ proven' = proven \cup {txn.new}
      BY <1>0, <2>2 DEF ProvePasses, PlaceInv, Installing
    <3>2. InForce' = InForce /\ UnderWay' = UnderWay
          /\ UnderWay.new = txn.new /\ UnderWay.kind # "none"
      BY <3>1 DEF InForce, UnderWay
    <3>3. GoBackTo' = GoBackTo
      <4>1. tree' = tree
        BY <2>2 DEF ProvePasses
      <4>2. QED
        BY <3>1, <4>1 DEF GoBackTo, Fallback, OldRootMoved, Exists
    <3>4. Installed!Prove
      BY <2>0, <3>1, <3>2, <3>3 DEF Installed!Prove, Installed!NoUpdate
    <3>5. QED
      BY <3>4 DEF Installed!Next
  <2>3. CASE Drop
    <3>1. pending # NoTxn /\ txn # NoTxn /\ pending.cand = txn.cand
          /\ pending.old = txn.old /\ pending.new = txn.new
      BY <1>0, <2>3 DEF Drop, PlaceInv, Installing
    <3>2. pending' = NoTxn /\ UNCHANGED <<tree, proven>>
      BY <2>0, <2>3, <1>2 DEF Drop, Fault
    <3>3. txn.cand \in Candidates /\ txn.old \in Releases /\ txn.new \in Releases
          /\ NoTxn.new = 0
      BY <1>0, <3>1, TxnFacts DEF LocalOK, NoTxn
    <3>4. /\ UnderWay.new = txn.new /\ UnderWay # Installed!NoUpdate
          /\ UnderWay.kind = IF txn.cand = "rollback" THEN "rollback" ELSE "upgrade"
          /\ InForce = txn.old
      BY <3>1 DEF UnderWay, InForce, Installed!NoUpdate
    <3>5. /\ UnderWay' = Installed!NoUpdate /\ InForce' = tree["root"].release
          /\ GoBackTo' = IF tree["rollback"].kind = "whole" THEN tree["rollback"].release ELSE 0
      BY <3>2, <3>3 DEF UnderWay, InForce, GoBackTo, Fallback, Installed!NoUpdate
    <3>6. CASE Holds("root", txn.new) /\ txn.new \in proven /\ Holds("rollback", txn.old)
      <4>1. Installed!Commit
        BY <2>0, <3>2, <3>4, <3>5, <3>6 DEF Installed!Commit, Holds
      <4>2. QED
        BY <4>1 DEF Installed!Next
    <3>7. CASE Parted(txn.old, txn.new)
      <4>1. GoBackTo' = GoBackTo
        <5>1. CASE txn.cand = "rollback"
          BY <3>1, <3>5, <3>7, <5>1 DEF GoBackTo, Parted, Holds
        <5>2. CASE txn.cand = "staging"
          <6>1. ~OldRootMoved
            BY <3>7, <5>2 DEF Parted, Holds, OldRootMoved, StagingDir, Exists
          <6>2. QED
            BY <3>1, <3>5, <5>2, <6>1 DEF GoBackTo, Fallback
        <5>3. QED
          BY <3>3, <5>1, <5>2 DEF Candidates
      <4>2. InForce' = InForce
        BY <3>4, <3>5, <3>7 DEF Parted, Holds
      <4>3. Installed!Undo
        BY <2>0, <3>2, <3>4, <3>5, <4>1, <4>2 DEF Installed!Undo
      <4>4. QED
        BY <4>3 DEF Installed!Next
    <3>8. QED
      BY <2>s, <2>3, <3>6, <3>7 DEF StrongPc, Drop
  <2>4. CASE Swap \/ Mark \/ ProveFails \/ Recover \/ Repair \/ Identify \/ Revalidate
    BY <1>2, <2>0, <2>4, InsideSteps
  <2>5. CASE \/ Apply \/ Rollback \/ Clear \/ Unpack \/ Preserve \/ Check \/ GiveUp
             \/ Clean \/ StartApp \/ StopApp \/ Edit \/ (Crash /\ pc # "finalize")
    BY <1>2, <2>0, <2>5, OutsideSteps
  <2>6. CASE Finalize \/ Retain \/ (Crash /\ pc = "finalize")
    BY <1>2, <2>0, <2>6, RetainingSteps
  <2>7. CASE UNCHANGED vars
    BY <1>2, <2>0, <2>7, Unseen DEF vars, Fallback, OldRootMoved, Exists
  <2>8. QED
    BY <2>1, <2>2, <2>3, <2>4, <2>5, <2>6, <2>7 DEF Next, Install, Reconcile
<1>3. QED
  BY <1>1, <1>2

\* A release that works stays in the root or where recover looks for it, through
\* every interrupted exchange; one that was at least validated does even if one call
\* of the file system fails, wherever in install.go or platform_*.go that is.
THEOREM NothingIsEverLost == Spec => []NothingIsLost
<1>1. IInv => NothingIsLost
  <2> SUFFICES ASSUME IInv PROVE ProvenSurvives /\ OneFailureTolerated
    BY DEF IInv, NothingIsLost
  <2> USE TxnFacts DEF IInv, TypeOK, Holds, Reachable
  <2>1. ProvenSurvives
    <3> SUFFICES ASSUME faults = 0
                 PROVE  \E p \in Reachable : \E r \in proven : Holds(p, r)
      BY DEF ProvenSurvives
    <3>1. CASE pending = NoTxn
      BY <3>1 DEF WeakInv, WeakDisk, StrongInv, StrongDisk
    <3>2. CASE pending # NoTxn
      <4>1. pending.old \in proven /\ (Reconcilable \/ OldRootRetained)
        BY <3>2 DEF StrongInv, StrongDisk, Retained
      <4>2. Reachable = {"root", pending.cand, Aside(pending.cand)}
        BY <3>2
      <4>3. CASE Reconcilable
        BY <4>1, <4>2, <4>3 DEF Reconcilable
      <4>4. CASE OldRootRetained
        BY <4>2, <4>4 DEF OldRootRetained
      <4>5. QED
        BY <4>1, <4>3, <4>4
    <3>3. QED
      BY <3>1, <3>2
  <2>2. OneFailureTolerated
    BY DEF OneFailureTolerated, WeakInv, WeakDisk
  <2>3. QED
    BY <2>1, <2>2
<1>2. QED
  BY InitIInv, StepIInv, <1>1, PTL DEF Spec

\* Whatever a crash leaves, recover finds the two directories where it looks for them,
\* except between finalizeAppliedRoot's rename and the removal of pending.json.
THEOREM RecoverIsNeverLost == Spec => []RecoverKnowsWhatToDo
<1>1. IInv => RecoverKnowsWhatToDo
  BY DEF IInv, TypeOK, StrongInv, StrongDisk, Retained, RecoverKnowsWhatToDo
<1>2. QED
  BY InitIInv, StepIInv, <1>1, PTL DEF Spec

\* preserveMutableFiles and the exchanges carry along every edit that was made while no
\* transaction was open, however often an update is interrupted, redone or undone.
THEOREM EditsAreCarriedAlong == Spec => []EditsAreKept
<1>1. IInv => EditsAreKept
  BY DEF IInv, TypeOK, StrongInv, WeakInv, WeakDisk, DataInv, HasEdits, EditsAreKept, Quiet
<1>2. QED
  BY InitIInv, StepIInv, <1>1, PTL DEF Spec

\* As long as the file system does what it is told, an update takes effect as a whole
\* or not at all, through any number of crashes and recoveries: the new release is in
\* force once pending.json is removed, and then it has worked in the root and the old
\* one is there to go back to (apply, rollback and recover of install.go).
THEOREM UpdaterIsAtomic == Spec => UpdatesAreAtomic
<1>1. Init => Installed!Init
  BY InstalledInit
<1>2. IInv /\ [Next]_vars => [Installed!Next]_(Installed!vars)
  BY AtomicStep
<1>3. QED
  BY InitIInv, StepIInv, <1>1, <1>2, PTL DEF Spec, UpdatesAreAtomic, Installed!Spec
===============================================================================
