-------------------------- MODULE BackupProperties --------------------------
(***************************************************************************)
(* The properties of the backup subsystem, stated over BackupChain.         *)
(***************************************************************************)
EXTENDS BackupChain

-----------------------------------------------------------------------------
(* What restore() can rebuild                                               *)

(* Backup::restoreChain walks the parent pointers and stops where one is    *)
(* null; BackupRestoreChain refuses unless every archive of the walk is     *)
(* completed and there; tar then replays them in order.  The result is the  *)
(* site only if the walk begins with a full archive and each next one was   *)
(* made on the snapshot of the one before it.                               *)
Replayable(k) ==
  /\ Exists(k)
  /\ backups[k].eng # None
  /\ archives[backups[k].eng].row = "completed"
  /\ archives[backups[k].eng].disk

SitsOn(k, p) ==
  archives[backups[k].eng].on \in
    {None} \cup (IF p = None THEN {} ELSE {backups[p].eng})

\* A row and the rows above it, as far as the parent pointers lead.
restoreChain[b \in Backup] ==
  {b} \cup IF backups[b].parent = None THEN {} ELSE restoreChain[backups[b].parent]

Restorable(b) == \A k \in restoreChain[b] : Replayable(k) /\ SitsOn(k, backups[k].parent)

(* The chain of b begins at a level-0 row, so nobody deleted part of it.    *)
ChainIntact(b) ==
  \A k \in restoreChain[b] : backups[k].parent = None => backups[k].level = 0

BeingDeleted == {v.id : v \in UNION {deleting[d] : d \in Deleters}}

ChainBeingDeleted(b) == restoreChain[b] \cap BeingDeleted # {}

(* Every completed backup can be restored.  This is what the refusal in     *)
(* BackupController::destroy is for ("Base/parent silinirse zincir bozulur, *)
(* restore imkansiz hale gelir"); a deletion in progress is exempt.         *)
CompletedIsRestorable ==
  \A b \in Backup :
    backups[b].status = "completed" /\ ~ChainBeingDeleted(b) => Restorable(b)

(* A completed backup whose parent pointers still lead to a full backup can *)
(* be restored, whatever was deleted beside it: a chain is either whole or  *)
(* visibly cut (parent null above level 0).                                 *)
IntactChainIsRestorable ==
  \A b \in Backup :
    backups[b].status = "completed" /\ ChainIntact(b) /\ ~ChainBeingDeleted(b)
      => Restorable(b)

(* A backup that has an archive and still has its parent holds either a     *)
(* full archive or the changes since exactly the archive its parent now     *)
(* points at; with the wrong one the restore would succeed and rebuild a    *)
(* different site.                                                          *)
IncrementSitsOnParent ==
  \A b \in Backup :
    backups[b].eng # None /\ backups[b].parent # None
      => SitsOn(b, backups[b].parent)

(* Parents and bases exist and are older than what hangs on them, so the    *)
(* walk of Backup::restoreChain ends without its guard of 1000 steps.       *)
ChainAcyclic ==
  \A b \in Backup :
    \A p \in {backups[b].parent, backups[b].base} : p # None => Exists(p) /\ p < b

(* What a row says of its files (file_path, snapshot_path) and the engine   *)
(* id it would restore or delete belong to one archive, although the two    *)
(* finalizers write the paths from rows they read long before.              *)
PathsMatchEngineId ==
  \A b \in Backup : backups[b].snap = backups[b].eng

(* A completed backup has an archive the engine finished (or was later told *)
(* to delete), never one that failed or is still being written.             *)
CompletedHasArchive ==
  \A b \in Backup :
    backups[b].status = "completed" =>
      /\ backups[b].eng # None
      /\ archives[backups[b].eng].row \in {"completed", "deleted"}

(* A goroutine about to copy its parent's snapshot file never copies one    *)
(* that another tar is still writing.                                       *)
SnapshotSettled ==
  \A a \in Archive :
    LET p == archives[a].want IN
    (archives[a].work = "starting" /\ p # None /\ archives[p].disk)
      => archives[p].work = "none" /\ archives[p].row = "completed"

(* The engine never makes two archives for one backup at a time, a retry    *)
(* included, unless an answer was lost and the POST sent again.  A second   *)
(* retry of the backup can begin another archive beside the one of the      *)
(* first: meanwhile the reconciler ended it with its verdict on the attempt *)
(* before.                                                                  *)
OneArchiveAtATime ==
  faults = 0 /\ retries <= 1 => \A a, c \in Archive :
    archives[a].work # "none" /\ archives[c].work # "none"
      /\ archives[a].owner = archives[c].owner => a = c

(* Every backup that was queued ends: completed, failed or deleted, though  *)
(* the worker dies, answers are lost or the poll runs out.                  *)
BackupEnds ==
  \A b \in Backup :
    backups[b].status \in {"queued", "running"}
      ~> backups[b].status \in {"completed", "failed", "absent"}

-----------------------------------------------------------------------------
(* BackupChain implements BackupLifecycle                                   *)

PhaseOf(b) ==
  CASE backups[b].status = "absent" -> IF b > lastBackup THEN "unborn" ELSE "removed"
    [] backups[b].status \in {"queued", "running"} -> "pending"
    [] backups[b].status = "completed" -> "done"
    [] OTHER -> "failed"

(* The content of a completed backup is relative to the backup that owns    *)
(* the archive its own archive was made on.                                 *)
NeedsOf(b) ==
  LET on == archives[backups[b].eng].on
  IN IF backups[b].status # "completed" \/ on = None THEN None
     ELSE archives[on].owner

Abstract == INSTANCE BackupLifecycle WITH
  phase <- [b \in Backup |-> PhaseOf(b)],
  needs <- [b \in Backup |-> NeedsOf(b)]

(* Seen from outside, worker, reconciler, deletions and engine together do  *)
(* only what the life of a backup allows.                                   *)
Lifecycle == Abstract!Spec
=============================================================================
