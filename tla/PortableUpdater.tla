--------------------------- MODULE PortableUpdater ---------------------------
(* The portable updater (bridge/cmd/portable-updater/install.go): apply,
   rollback and recover exchange whole program directories, with a file
   pending.json that outlives a crash.  One action is one change of the disk,
   or one decision between two; the process may die, and a call of the file
   system may fail, at each of them.

   What is a directory on disk is a tree here: which release it holds, and how
   recent the user's files in it are.  On Linux two directories are exchanged
   by one renameat2, on Windows by three renames over a path aside.

   One updater runs at a time: withLock is taken for granted.  The changes of
   a process that dies are those it had made, in order.                      *)
EXTENDS Integers

CONSTANTS MaxRelease,    \* releases are 1 .. MaxRelease, published in order
          MaxEdits,      \* bound: edits of the user's files
          MaxCrashes,    \* bound: deaths of the updater
          MaxFaults      \* bound: calls of the file system that fail

ASSUME BoundsAreNat == /\ MaxRelease \in Nat \ {0}
                       /\ MaxEdits \in Nat /\ MaxCrashes \in Nat /\ MaxFaults \in Nat

VARIABLES
  platform,   \* "linux" or "windows": which platform_*.go was built
  tree,       \* what is at each path
  pending,    \* the contents of pending.json
  running,    \* the application runs (runtime.json names a live process)
  pc,         \* where the updater is; "idle": no updater runs
  cmd,        \* what it was called for
  txn,        \* its own copy of the transaction
  why,        \* what it exchanges the directories for
  moved,      \* on Windows, how far the three renames are
  edits,      \* edits of the user's files so far
  kept,       \* the last one made while no transaction was open
  checked,    \* releases that passed a validation
  proven,     \* releases that passed one in the root
  crashes, faults

disk  == <<tree, pending>>
local == <<cmd, txn, why, moved>>
ghost == <<checked, proven>>
user  == <<running, edits, kept>>
count == <<crashes, faults>>
vars  == <<platform, disk, pc, local, ghost, user, count>>

-----------------------------------------------------------------------------
(* Paths and what they hold.                                                 *)

Releases == 1 .. MaxRelease

Candidates == {"staging", "rollback"}
Aside(cand) == IF cand = "staging" THEN "staging.exchange-old"
                                   ELSE "rollback.exchange-old"
StagingDir == {"staging", "staging.exchange-old"}
Paths == {"root", "rollback", "rollback.exchange-old"} \cup StagingDir

Absent == [kind |-> "none", release |-> 0, data |-> 0]
Debris == [kind |-> "debris", release |-> 0, data |-> 0]
Whole(r, d) == [kind |-> "whole", release |-> r, data |-> d]
Trees == {Absent, Debris} \cup {Whole(r, d) : r \in Releases, d \in 0 .. MaxEdits}

Exists(p) == tree[p].kind # "none"
Holds(p, r) == tree[p].kind = "whole" /\ tree[p].release = r

(* The phases of a rollback begin with "rollback-".                          *)
ApplyPhases == {"prepared", "exchanged"}
RollbackPhases == {"rollback-prepared", "rollback-exchanged"}
NoTxn == [phase |-> "none", cand |-> "staging", old |-> 0, new |-> 0]
Txns == [phase : ApplyPhases \cup RollbackPhases, cand : Candidates,
         old : Releases, new : Releases]

PCs == {"idle", "clear", "unpack", "preserve", "check", "prepare", "swap", "mark",
        "prove", "finalize", "retain", "drop", "clean", "repair", "identify",
        "revalidate"}
Purposes == {"forward", "unmark", "back"}

TypeOK ==
  /\ platform \in {"linux", "windows"}
  /\ tree \in [Paths -> Trees]
  /\ pending \in Txns \cup {NoTxn} /\ txn \in Txns \cup {NoTxn}
  /\ running \in BOOLEAN
  /\ pc \in PCs /\ cmd \in {"none", "apply", "rollback", "recover"}
  /\ why \in Purposes /\ moved \in {"no", "aside", "activated", "restore"}
  /\ edits \in 0 .. MaxEdits /\ kept \in 0 .. MaxEdits
  /\ checked \subseteq Releases /\ proven \subseteq Releases
  /\ crashes \in 0 .. MaxCrashes /\ faults \in 0 .. MaxFaults

-----------------------------------------------------------------------------
(* An installation that works, of any release; the program is not running.   *)
Init ==
  /\ platform \in {"linux", "windows"}
  /\ \E r \in Releases :
       /\ tree = [p \in Paths |-> IF p = "root" THEN Whole(r, 0) ELSE Absent]
       /\ checked = {r} /\ proven = {r}
  /\ pending = NoTxn /\ txn = NoTxn
  /\ running = FALSE
  /\ pc = "idle" /\ cmd = "none" /\ why = "forward" /\ moved = "no"
  /\ edits = 0 /\ kept = 0 /\ crashes = 0 /\ faults = 0

Goto(l) == pc' = l
Fault == faults < MaxFaults /\ faults' = faults + 1 /\ UNCHANGED crashes

(* applicationRunning() && !canUpdateWhileRunning()                          *)
MayUpdate == ~(running /\ platform = "windows")

-----------------------------------------------------------------------------
(* The exchange of the root and the candidate.                               *)

(* Where the caller of atomicSwapDirectories goes on when it succeeds, and
   when it returns an error.                                                 *)
\* Mutant: recover takes the directories for exchanged and does not validate.
AfterSwapUnproven == CASE why = "forward" -> IF cmd = "recover" THEN "finalize" ELSE "mark"
                       [] why = "unmark" -> "idle"
                       [] why = "back" -> "drop"

AfterSwap == CASE why = "forward" -> IF cmd = "recover" THEN "prove" ELSE "mark"
               [] why = "unmark" -> "idle"
               [] why = "back" -> "drop"

AfterFailedSwap == IF why = "unmark" \/ cmd = "recover" THEN "idle" ELSE "drop"

SwapReturns(l) == Goto(l) /\ moved' = "no" /\ UNCHANGED <<cmd, txn, why>>

StartSwap(purpose) ==
  Goto("swap") /\ why' = purpose /\ moved' = "no" /\ UNCHANGED <<cmd, txn>>

(* The two paths are looked at before anything is moved; on Windows the path
   aside must be free.                                                       *)
Exchangeable == /\ Exists("root") /\ Exists(txn.cand)
                /\ platform = "windows" => ~Exists(Aside(txn.cand))

SwapRefused ==
  /\ pc = "swap" /\ moved = "no"
  /\ \/ ~Exchangeable /\ UNCHANGED count
     \/ Exchangeable /\ Fault
  /\ SwapReturns(AfterFailedSwap)
  /\ UNCHANGED <<platform, disk, ghost, user>>

(* renameat2(RENAME_EXCHANGE); a directory that cannot be synchronised
   afterwards makes the exchange fail although it has happened.              *)
Exchange ==
  /\ platform = "linux" /\ pc = "swap" /\ Exchangeable
  /\ tree' = [tree EXCEPT !["root"] = tree[txn.cand], ![txn.cand] = tree["root"]]
  /\ \/ SwapReturns(AfterSwap) /\ UNCHANGED count
     \/ SwapReturns(AfterFailedSwap) /\ Fault
  /\ UNCHANGED <<platform, pending, ghost, user>>

Rename(from, to) == tree' = [tree EXCEPT ![to] = tree[from], ![from] = Absent]

MoveAside ==
  /\ platform = "windows" /\ pc = "swap" /\ moved = "no" /\ Exchangeable
  /\ Rename("root", Aside(txn.cand)) /\ moved' = "aside"
  /\ UNCHANGED <<platform, pending, pc, cmd, txn, why, ghost, user, count>>

Activate ==
  /\ pc = "swap" /\ moved = "aside"
  /\ \/ Rename(txn.cand, "root") /\ moved' = "activated" /\ UNCHANGED count
     \/ moved' = "restore" /\ UNCHANGED tree /\ Fault
  /\ UNCHANGED <<platform, pending, pc, cmd, txn, why, ghost, user>>

Restore ==
  /\ pc = "swap" /\ moved = "restore"
  /\ \/ Rename(Aside(txn.cand), "root") /\ UNCHANGED count
     \/ UNCHANGED tree /\ Fault
  /\ SwapReturns(AfterFailedSwap)
  /\ UNCHANGED <<platform, pending, ghost, user>>

RetainAside ==
  /\ pc = "swap" /\ moved = "activated"
  /\ \/ Rename(Aside(txn.cand), txn.cand) /\ SwapReturns(AfterSwap) /\ UNCHANGED count
     \/ UNCHANGED tree /\ SwapReturns(AfterFailedSwap) /\ Fault
  /\ UNCHANGED <<platform, pending, ghost, user>>

-----------------------------------------------------------------------------
(* apply and rollback up to the point where pending.json is written.         *)

Quiet == pc = "idle" /\ pending = NoTxn

(* A release newer than the installed one is selected and downloaded.        *)
Apply ==
  /\ Quiet /\ MayUpdate
  /\ \E r \in Releases :
       /\ \E old \in Releases :
            /\ Holds("root", old) /\ r > old
            /\ txn' = [phase |-> "prepared", cand |-> "staging", old |-> old, new |-> r]
  /\ cmd' = "apply" /\ Goto("clear")
  /\ UNCHANGED <<platform, disk, why, moved, ghost, user, count>>

\* Mutant: the user's files are not copied into the older release.
RollbackAsItWas ==
  /\ Quiet /\ MayUpdate
  /\ \E old, new \in Releases :
       /\ Holds("root", old) /\ Holds("rollback", new)
       /\ txn' = [phase |-> "rollback-prepared", cand |-> "rollback",
                  old |-> old, new |-> new]
  /\ cmd' = "rollback" /\ Goto("check")
  /\ UNCHANGED <<platform, disk, why, moved, ghost, user, count>>

Rollback ==
  /\ Quiet /\ MayUpdate
  /\ \E old, new \in Releases :
       /\ Holds("root", old) /\ Holds("rollback", new)
       /\ txn' = [phase |-> "rollback-prepared", cand |-> "rollback",
                  old |-> old, new |-> new]
  /\ cmd' = "rollback" /\ Goto("preserve")
  /\ UNCHANGED <<platform, disk, why, moved, ghost, user, count>>

RemoveStaging == tree' = [p \in Paths |-> IF p \in StagingDir THEN Absent ELSE tree[p]]

(* extractCandidate                                                          *)
Clear ==
  /\ pc = "clear" /\ RemoveStaging /\ Goto("unpack")
  /\ UNCHANGED <<platform, pending, local, ghost, user, count>>

Unpack ==
  /\ pc = "unpack" /\ Goto("preserve")
  /\ tree' = [tree EXCEPT !["staging"] = Whole(txn.new, 0)]
  /\ UNCHANGED <<platform, pending, local, ghost, user, count>>

(* Copies the user's files of the root over those of the candidate.          *)
Preserve ==
  /\ pc = "preserve" /\ Goto("check")
  /\ tree' = [tree EXCEPT ![txn.cand] = [@ EXCEPT !.data = tree["root"].data]]
  /\ UNCHANGED <<platform, pending, local, ghost, user, count>>

Check ==
  /\ pc = "check" /\ checked' = checked \cup {txn.new} /\ Goto("prepare")
  /\ UNCHANGED <<platform, disk, local, proven, user, count>>

(* Everything that may go wrong before the installation begins.  An archive
   that cannot be unpacked leaves something behind; after that, the deferred
   removal of the staging directory is in force.                             *)
GiveUp ==
  /\ pc \in {"clear", "unpack", "preserve", "check", "prepare"}
  /\ \/ pc = "unpack" /\ tree' = [tree EXCEPT !["staging"] = Debris]
     \/ UNCHANGED tree
  /\ Goto(IF cmd = "apply" /\ pc \notin {"clear", "unpack"} THEN "clean" ELSE "idle")
  /\ UNCHANGED <<platform, pending, local, ghost, user, count>>

(* The file may be in place although writing it is reported to have failed.  *)
Prepare ==
  /\ pc = "prepare" /\ pending' = txn
  /\ \/ StartSwap("forward") /\ UNCHANGED count
     \/ Goto("idle") /\ UNCHANGED local /\ Fault
  /\ UNCHANGED <<platform, tree, ghost, user>>

-----------------------------------------------------------------------------
(* From the exchange to the end of the transaction.                          *)

Exchanged(t) == [t EXCEPT !.phase = IF t.phase \in RollbackPhases
                                      THEN "rollback-exchanged" ELSE "exchanged"]

(* apply exchanges the directories back if the new phase cannot be written;
   rollback goes on.                                                         *)
Mark ==
  /\ pc = "mark"
  /\ \/ pending' = Exchanged(txn) /\ Goto("prove") /\ UNCHANGED <<local, count>>
     \/ /\ pending' \in {pending, Exchanged(txn)} /\ Fault
        /\ IF cmd = "apply" THEN StartSwap("unmark") ELSE Goto("prove") /\ UNCHANGED local
  /\ UNCHANGED <<platform, tree, ghost, user>>

(* validateRuntime of the root; the application may fail to start there even
   if it has started elsewhere.                                              *)
\* Mutant: a rollback that was interrupted is finished like an apply.
ProvePassesAlways ==
  /\ pc = "prove" /\ Holds("root", txn.new)
  /\ proven' = proven \cup {txn.new} /\ checked' = checked \cup {txn.new}
  /\ Goto("finalize")
  /\ UNCHANGED <<platform, disk, local, user, count>>

ProvePasses ==
  /\ pc = "prove" /\ Holds("root", txn.new)
  /\ proven' = proven \cup {txn.new} /\ checked' = checked \cup {txn.new}
  /\ Goto(IF txn.phase \in RollbackPhases THEN "drop" ELSE "finalize")
  /\ UNCHANGED <<platform, disk, local, user, count>>

ProveFails ==
  /\ pc = "prove" /\ StartSwap("back")
  /\ UNCHANGED <<platform, disk, ghost, user, count>>

(* finalizeAppliedRoot: the old root takes the place of the rollback root.   *)
\* Mutant: pending.json is removed before the old root is retained.
FinalizeDropsFirst ==
  /\ pc = "finalize"
  /\ tree' = [tree EXCEPT !["rollback"] = Absent] /\ Goto("drop")
  /\ UNCHANGED <<platform, pending, local, ghost, user, count>>

Finalize ==
  /\ pc = "finalize"
  /\ \/ tree' = [tree EXCEPT !["rollback"] = Absent] /\ Goto("retain") /\ UNCHANGED count
     \/ /\ tree' \in {tree, [tree EXCEPT !["rollback"] = IF Exists("rollback") THEN Debris ELSE @]}
        /\ Goto("idle") /\ Fault
  /\ UNCHANGED <<platform, pending, local, ghost, user>>

Retain ==
  /\ pc = "retain"
  /\ \/ Rename(txn.cand, "rollback") /\ Goto("drop") /\ UNCHANGED count
     \/ (Rename(txn.cand, "rollback") \/ UNCHANGED tree) /\ Goto("idle") /\ Fault
  /\ UNCHANGED <<platform, pending, local, ghost, user>>

(* Removes pending.json; what comes of it is ignored.                        *)
Drop ==
  /\ pc = "drop"
  /\ \/ pending' = NoTxn /\ UNCHANGED count
     \/ UNCHANGED pending /\ Fault
  /\ Goto(IF cmd = "apply" /\ pending' = NoTxn THEN "clean" ELSE "idle")
  /\ UNCHANGED <<platform, tree, local, ghost, user>>

(* The deferred removal of apply: only without a pending transaction.        *)
Clean ==
  /\ pc = "clean" /\ RemoveStaging /\ Goto("idle")
  /\ UNCHANGED <<platform, pending, local, ghost, user, count>>

-----------------------------------------------------------------------------
(* recover; apply and rollback begin with it if a transaction is pending.    *)

Recover ==
  /\ pc = "idle" /\ pending # NoTxn
  /\ cmd' = "recover" /\ txn' = pending /\ Goto("repair")
  /\ UNCHANGED <<platform, disk, why, moved, ghost, user, count>>

(* repairInterruptedSwap: nothing on Linux.  On Windows the renames that are
   left are made; the second of two is the one that is made alone.           *)
Repair ==
  LET cand == txn.cand  aside == Aside(txn.cand) IN
  /\ pc = "repair"
  /\ \/ /\ platform = "linux" \/ ~Exists(aside)
        /\ Goto("identify") /\ UNCHANGED <<tree, count>>
     \/ /\ platform = "windows" /\ Exists(aside)
        /\ \/ /\ ~Exists("root") /\ Exists(cand) /\ Rename(cand, "root")
              /\ UNCHANGED <<pc, count>>
           \/ /\ Exists("root") /\ ~Exists(cand) /\ Rename(aside, cand)
              /\ Goto("identify") /\ UNCHANGED count
           \/ /\ Exists("root") = Exists(cand) /\ Goto("idle")
              /\ UNCHANGED <<tree, count>>
           \/ Exists("root") # Exists(cand) /\ Goto("idle") /\ UNCHANGED tree /\ Fault
  /\ UNCHANGED <<platform, pending, local, ghost, user>>

(* Which side holds which release; "cannot safely reconcile" otherwise.      *)
Identify ==
  /\ pc = "identify"
  /\ Goto(CASE Holds("root", txn.old) /\ Holds(txn.cand, txn.new) -> "revalidate"
            [] Holds("root", txn.new) /\ Holds(txn.cand, txn.old)
               /\ ~(Holds("root", txn.old) /\ Holds(txn.cand, txn.new)) -> "prove"
            [] OTHER -> "idle")
  /\ UNCHANGED <<platform, disk, local, ghost, user, count>>

Revalidate ==
  /\ pc = "revalidate"
  /\ \/ checked' = checked \cup {txn.new} /\ StartSwap("forward")
     \/ Goto("idle") /\ UNCHANGED <<checked, local>>
  /\ UNCHANGED <<platform, disk, proven, user, count>>

-----------------------------------------------------------------------------
(* The launcher, the user, and death.                                        *)

(* start.sh and start.bat call recover first, which fails while an updater
   holds the lock, and refuse to start unless it succeeds.                   *)
StartApp ==
  /\ Quiet /\ ~running /\ tree["root"].kind = "whole" /\ running' = TRUE
  /\ UNCHANGED <<platform, disk, pc, local, ghost, edits, kept, count>>

StopApp ==
  /\ running /\ running' = FALSE
  /\ UNCHANGED <<platform, disk, pc, local, ghost, edits, kept, count>>

(* The program, or its user while it runs, changes a file under the root.    *)
Edit ==
  /\ running /\ tree["root"].kind = "whole" /\ edits < MaxEdits
  /\ edits' = edits + 1
  /\ tree' = [tree EXCEPT !["root"].data = edits + 1]
  /\ kept' = IF Quiet THEN edits + 1 ELSE kept
  /\ UNCHANGED <<platform, pending, pc, local, ghost, running, count>>

(* What is being removed, or unpacked, when the updater dies.                *)
Interrupted == CASE pc \in {"clear", "clean"} -> {p \in StagingDir : Exists(p)}
                 [] pc = "unpack" -> {"staging"}
                 [] pc = "finalize" -> {p \in {"rollback"} : Exists(p)}
                 [] OTHER -> {}

Crash ==
  /\ pc # "idle" /\ crashes < MaxCrashes /\ crashes' = crashes + 1
  /\ \E broken \in SUBSET Interrupted :
       tree' = [p \in Paths |-> IF p \in broken THEN Debris ELSE tree[p]]
  /\ Goto("idle") /\ moved' = "no"
  /\ UNCHANGED <<platform, pending, cmd, txn, why, ghost, user, faults>>

Swap == SwapRefused \/ Exchange \/ MoveAside \/ Activate \/ Restore \/ RetainAside

Install == \/ Apply \/ Rollback \/ Clear \/ Unpack \/ Preserve \/ Check \/ GiveUp
           \/ Prepare \/ Mark \/ ProvePasses \/ ProveFails \/ Finalize \/ Retain
           \/ Drop \/ Clean

Reconcile == Recover \/ Repair \/ Identify \/ Revalidate

Next == Swap \/ Install \/ Reconcile \/ StartApp \/ StopApp \/ Edit \/ Crash

Spec == Init /\ [][Next]_vars

-----------------------------------------------------------------------------
(* Properties.                                                               *)

(* Where something is found again: in the root, or where recover looks.      *)
Reachable == {"root"} \cup IF pending = NoTxn THEN {}
                           ELSE {pending.cand, Aside(pending.cand)}

(* A release that works is given up only for one that has worked in the root,
   too: at every instant, in the middle of an exchange and after any number of
   crashes and failed validations, such a release is in the root or where
   recover looks for it.  (As long as the file system does what it is told.) *)
ProvenSurvives == faults = 0 => \E p \in Reachable : \E r \in proven : Holds(p, r)

(* If one call of the file system fails, with any number of crashes, a release
   that has been validated is still in the root or where recover finds it.   *)
OneFailureTolerated == faults <= 1 => \E p \in Reachable : \E r \in checked : Holds(p, r)

NothingIsLost == TypeOK /\ ProvenSurvives /\ OneFailureTolerated

(* The two directories of the transaction can be told apart by recover.      *)
Reconcilable ==
  LET cand == pending.cand  aside == Aside(pending.cand)
      At(p, q) == \/ Holds(p, pending.old) /\ Holds(q, pending.new)
                  \/ Holds(p, pending.new) /\ Holds(q, pending.old)
  IN \/ At("root", cand) /\ ~Exists(aside)
     \/ At("root", aside) /\ ~Exists(cand)
     \/ At(cand, aside) /\ ~Exists("root")

(* finalizeAppliedRoot has moved the candidate away.                         *)
OldRootRetained ==
  /\ pending.phase \in ApplyPhases
  /\ Holds("root", pending.new) /\ pending.new \in proven
  /\ Holds("rollback", pending.old) /\ ~Exists(pending.cand)

(* A crash anywhere leaves directories that recover knows how to tell apart,
   but for one place: between finalizeAppliedRoot's rename and the removal of
   pending.json, when the new root has been proven already.                  *)
RecoverKnowsWhatToDo ==
  (pc = "idle" /\ pending # NoTxn /\ faults = 0) => Reconcilable \/ OldRootRetained

(* What the user changed while no transaction was open is in the root whenever
   none is open again: upgrades, rollbacks and recoveries carry it along.    *)
EditsAreKept == (Quiet /\ faults = 0) => tree["root"].data >= kept

(* What is installed as the user sees it: while a transaction is open the old
   root is in force.                                                         *)
InForce == IF pending = NoTxn THEN tree["root"].release ELSE pending.old
\* The old root has left the staging directory, for the place of the rollback root.
OldRootMoved == \A p \in StagingDir : ~Exists(p)
Fallback == IF tree["rollback"].kind = "whole" THEN tree["rollback"].release ELSE 0
GoBackTo == IF pending = NoTxn THEN Fallback
            ELSE IF pending.cand = "rollback" THEN pending.new
            ELSE IF OldRootMoved THEN 0 ELSE Fallback
UnderWay ==
  [kind |-> IF pending = NoTxn THEN "none"
            ELSE IF pending.cand = "rollback" THEN "rollback" ELSE "upgrade",
   new |-> pending.new]

Installed == INSTANCE Installation WITH
  current <- InForce, previous <- GoBackTo, open <- UnderWay, works <- proven,
  reliable <- faults = 0

(* As long as no call of the file system fails, an update is atomic: removing
   pending.json makes the new release the current one, and only after it has
   worked in the root and the old one is retained for rollback; or it leaves
   the old one in force.  Crashes and recoveries in between are not seen.    *)
UpdatesAreAtomic == Installed!Spec

=============================================================================
