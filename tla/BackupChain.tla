---------------------------- MODULE BackupChain ----------------------------
(***************************************************************************)
(* The panel's side of incremental site backups, for the backups of one     *)
(* user, site and destination (every query below filters by the three):     *)
(* the rows of the backups table, the database queue with its one worker    *)
(* running RunBackupJob, the commands backups:run-due, reconcile-running    *)
(* and prune, and the requests of BackupController, over the engine of      *)
(* EngineBackups.  The backups are local (destination_id is null), so both  *)
(* finalizers end with their update of the row.                             *)
(* Each actor reads, decides and writes in separate steps wherever the code *)
(* does, and keeps what it read in the meantime.                            *)
(***************************************************************************)
EXTENDS EngineBackups, Sequences, FiniteSets

CONSTANTS
  Deleters,     \* concurrent destroy requests and prune runs
  Keep,         \* retention_count: full chains a prune leaves
  MaxRetry,     \* bound: retry requests
  MaxFault,     \* bound: worker crashes, lost answers, long engine outages
  MaxRestart    \* bound: engine restarts

ASSUME KeepAssumption     == Keep \in Nat \ {0}
ASSUME BoundsAssumption   == MaxRetry \in Nat /\ MaxFault \in Nat /\ MaxRestart \in Nat

VARIABLES
  backups,      \* the backups table
  lastBackup,   \* its AUTO_INCREMENT counter
  queue,        \* the jobs table: dispatched RunBackupJobs, oldest first
  lostJobs,     \* jobs whose worker died; their reservation has to expire
  worker,       \* the queue worker, in the middle of RunBackupJob::handle
  reconcile,    \* what the running reconciler has still to do
  deleting,     \* what each deleter has still to do
  retries, faults, restarts  \* bounds used up

bounds    == <<retries, faults, restarts>>
panelVars == <<backups, lastBackup, queue, lostJobs, worker, reconcile,
               deleting, bounds>>
vars == <<engineVars, panelVars>>

(* snap stands for file_path and snapshot_path, which always come together  *)
(* from one engine answer; eng is engine_backup_id, written on its own.     *)
BackupRow ==
  [status : {"absent", "queued", "running", "completed", "failed"},
   level  : Nat,
   parent : BackupOrNone,
   base   : BackupOrNone,
   eng    : ArchiveOrNone,
   snap   : ArchiveOrNone]

AbsentRow == [status |-> "absent", level |-> 0, parent |-> None,
              base |-> None, eng |-> None, snap |-> None]

(* level: the level of the model the job holds (Eloquent writes only what   *)
(* differs from it); want: the parent snapshot it read; calls: POSTs sent.  *)
WorkerState ==
  [pc    : {"idle", "post", "seed", "poll", "finish"},
   id    : BackupOrNone,
   level : Nat,
   want  : ArchiveOrNone,
   calls : 0 .. 2,
   arc   : ArchiveOrNone,
   seen  : {"nothing", "completed", "failed"}]

IdleWorker == [pc |-> "idle", id |-> None, level |-> 0, want |-> None,
               calls |-> 0, arc |-> None, seen |-> "nothing"]

Verdict == [id : Backup, says : {"completed", "failed", "stale"},
            arc : ArchiveOrNone, level : Nat, snap : ArchiveOrNone]

Victim == [id : Backup, level : Nat, arc : ArchiveOrNone, purged : BOOLEAN]

TypeOK ==
  /\ EngineTypeOK
  /\ backups \in [Backup -> BackupRow]
  /\ lastBackup \in BackupOrNone
  /\ queue \in Seq(Backup)
  /\ lostJobs \subseteq Backup
  /\ worker \in WorkerState
  /\ reconcile \subseteq Verdict
  /\ deleting \in [Deleters -> SUBSET Victim]
  /\ retries \in Nat
  /\ faults \in Nat
  /\ restarts \in Nat

Init ==
  /\ EngineInit
  /\ backups = [b \in Backup |-> AbsentRow]
  /\ lastBackup = 0
  /\ queue = <<>>
  /\ lostJobs = {}
  /\ worker = IdleWorker
  /\ reconcile = {}
  /\ deleting = [d \in Deleters |-> {}]
  /\ retries = 0
  /\ faults = 0
  /\ restarts = 0

Exists(b) == b # None /\ backups[b].status # "absent"

-----------------------------------------------------------------------------
(* Requests and schedules that create a backup                              *)

(* Mutant: the status filter of the parent query is forgotten.              *)
TipsAnyStatus == {b \in Backup : backups[b].snap # None}

(* The newest completed backup with a snapshot, or None.                    *)
Tips == {b \in Backup : backups[b].status = "completed" /\ backups[b].snap # None}
IsTip(t) == IF Tips = {} THEN t = None
            ELSE t \in Tips /\ \A b \in Tips : b <= t

Enqueue(level, parent, base) ==
  /\ lastBackup < MaxBackup
  /\ lastBackup' = lastBackup + 1
  /\ backups' = [backups EXCEPT ![lastBackup + 1] =
        [status |-> "queued", level |-> level, parent |-> parent,
         base |-> base, eng |-> None, snap |-> None]]
  /\ queue' = Append(queue, lastBackup + 1)
  /\ UNCHANGED <<engineVars, lostJobs, worker, reconcile, deleting, bounds>>

(* store and runSchedule for type full, files or database, and for          *)
(* incremental when there is no chain to continue.                          *)
StoreFull == Enqueue(0, None, None)

(* store and runSchedule for type incremental.                              *)
StoreIncremental ==
  \E t \in Tips :
    /\ IsTip(t)
    /\ Enqueue(backups[t].level + 1, t,
               IF backups[t].base # None THEN backups[t].base ELSE t)

(* BackupsRunDueCommand: incremental while the base of the tip is known and *)
(* young enough; its age is not modelled, so the full plan is always open.  *)
BaseOf(t) == IF backups[t].level = 0 THEN t ELSE backups[t].base

RunDue ==
  \/ Enqueue(0, None, None)
  \/ \E t \in Tips :
       /\ IsTip(t)
       /\ Exists(BaseOf(t))
       /\ Enqueue(backups[t].level + 1, t, BaseOf(t))

(* Mutant: retry clears engine_backup_id and forgets the paths.             *)
RetryClearsId(b) ==
  /\ retries < MaxRetry
  /\ backups[b].status = "failed"
  /\ backups' = [backups EXCEPT ![b].status = "queued", ![b].eng = None]
  /\ queue' = Append(queue, b)
  /\ retries' = retries + 1
  /\ UNCHANGED <<engineVars, lastBackup, lostJobs, worker, reconcile,
                 deleting, faults, restarts>>

(* retry: only the status is written; engine id, paths and parent stay.     *)
Retry(b) ==
  /\ retries < MaxRetry
  /\ backups[b].status = "failed"
  /\ backups' = [backups EXCEPT ![b].status = "queued"]
  /\ queue' = Append(queue, b)
  /\ retries' = retries + 1
  /\ UNCHANGED <<engineVars, lastBackup, lostJobs, worker, reconcile,
                 deleting, faults, restarts>>

-----------------------------------------------------------------------------
(* RunBackupJob                                                             *)

(* Mutant: a save that inserts the row again when it is gone.               *)
SetRowUpsert(b, row) == backups' = [backups EXCEPT ![b] = row]

(* An UPDATE of a row that is gone changes nothing.                         *)
SetRow(b, row) == backups' = IF Exists(b) THEN [backups EXCEPT ![b] = row]
                                          ELSE backups

SetStatus(b, status) == SetRow(b, [backups[b] EXCEPT !.status = status])

(* Mutant: the snapshot of the chain's base, not of the parent.             *)
BaseSnapshot(b) ==
  IF BaseOf(b) = None THEN None ELSE backups[BaseOf(b)].snap

ParentSnapshot(b) == backups[backups[b].parent].snap

(* The head of the queue is reserved and handle() runs up to the POST.  The *)
(* row and its parent are read here, once.                                  *)
JobStart ==
  /\ worker.pc = "idle"
  /\ queue # <<>>
  /\ queue' = Tail(queue)
  /\ LET b == Head(queue)
         r == backups[b]
         hasParent == r.level > 0 /\ r.parent # None
         want == IF hasParent THEN ParentSnapshot(b) ELSE None
         noSnapshot == hasParent /\ want = None
     IN IF r.status \in {"absent", "completed", "failed"}
          THEN UNCHANGED <<backups, worker>>
          ELSE /\ backups' = [backups EXCEPT ![b] =
                     [r EXCEPT !.status = "running",
                               !.level  = IF noSnapshot THEN 0 ELSE r.level,
                               !.parent = IF noSnapshot THEN None ELSE r.parent,
                               !.base   = IF noSnapshot THEN None ELSE r.base]]
               /\ worker' = [IdleWorker EXCEPT
                     !.pc = "post", !.id = b, !.want = want,
                     !.level = IF noSnapshot THEN 0 ELSE r.level]
  /\ UNCHANGED <<engineVars, lastBackup, lostJobs, reconcile, deleting, bounds>>

(* The engine takes the request and its answer arrives.                     *)
JobPost ==
  /\ worker.pc = "post"
  /\ BackupQueue(worker.id, worker.level, worker.want)
  /\ worker' = [worker EXCEPT !.pc = "seed", !.calls = @ + 1,
                              !.arc = lastArchive + 1]
  /\ UNCHANGED <<backups, lastBackup, queue, lostJobs, reconcile, deleting,
                 bounds>>

(* The engine takes the request and the connection breaks before the answer:*)
(* postLongChecked sends the POST once more, the second failure is an error.*)
JobPostLost ==
  /\ worker.pc = "post"
  /\ faults < MaxFault
  /\ faults' = faults + 1
  /\ BackupQueue(worker.id, worker.level, worker.want)
  /\ IF worker.calls = 0
       THEN /\ worker' = [worker EXCEPT !.calls = 1]
            /\ UNCHANGED backups
       ELSE /\ worker' = IdleWorker
            /\ SetStatus(worker.id, "failed")
  /\ UNCHANGED <<lastBackup, queue, lostJobs, reconcile, deleting, retries,
                 restarts>>

(* An error answer, or an engine that cannot be reached.                    *)
JobPostError ==
  /\ worker.pc = "post"
  /\ SetStatus(worker.id, "failed")
  /\ worker' = IdleWorker
  /\ UNCHANGED <<engineVars, lastBackup, queue, lostJobs, reconcile,
                 deleting, bounds>>

(* The engine id and paths are stored; the status is not written, because   *)
(* the job's model already holds 'running'.                                 *)
JobSeed ==
  /\ worker.pc = "seed"
  /\ LET sent == archives[worker.arc].level
     IN SetRow(worker.id,
               [backups[worker.id] EXCEPT
                  !.eng = worker.arc, !.snap = worker.arc,
                  !.level = IF sent # worker.level THEN sent ELSE @])
  /\ worker' = [worker EXCEPT !.pc = "poll"]
  /\ UNCHANGED <<engineVars, lastBackup, queue, lostJobs, reconcile,
                 deleting, bounds>>

(* Mutant: any row of that id is taken for a finished one.                  *)
JobPollAnyRow ==
  /\ worker.pc = "poll"
  /\ worker' = [worker EXCEPT !.pc = "finish",
        !.seen = IF archives[worker.arc].row = "failed" THEN "failed" ELSE "completed"]
  /\ UNCHANGED <<engineVars, backups, lastBackup, queue, lostJobs, reconcile,
                 deleting, bounds>>

(* findEngineBackup sees the row in a final status.                         *)
JobPoll ==
  /\ worker.pc = "poll"
  /\ archives[worker.arc].row \in {"completed", "failed"}
  /\ worker' = [worker EXCEPT !.pc = "finish", !.seen = archives[worker.arc].row]
  /\ UNCHANGED <<engineVars, backups, lastBackup, queue, lostJobs, reconcile,
                 deleting, bounds>>

(* Mutant: the deadline of the poll counts as a failure.                    *)
JobPollTimeoutFails ==
  /\ worker.pc = "poll"
  /\ worker' = IdleWorker
  /\ SetStatus(worker.id, "failed")
  /\ UNCHANGED <<engineVars, lastBackup, queue, lostJobs, reconcile,
                 deleting, bounds>>

(* 1500 seconds of polling are over: the row is left to the reconciler.     *)
JobPollTimeout ==
  /\ worker.pc = "poll"
  /\ worker' = IdleWorker
  /\ UNCHANGED <<engineVars, backups, lastBackup, queue, lostJobs, reconcile,
                 deleting, bounds>>

(* What both finalizers write for a completed engine row a into row r.      *)
Completed(r, a, level) ==
  [r EXCEPT !.status = "completed",
            !.level  = level,
            !.parent = IF archives[a].level = 0 THEN None ELSE @,
            !.base   = IF archives[a].level = 0 THEN None ELSE @]

(* finalizeFromEngineRow on the fresh row.  A row that is gone makes fresh()*)
(* null: the call throws and failed() finds nothing to do.                  *)
JobFinish ==
  /\ worker.pc = "finish"
  /\ LET r == backups[worker.id]
         a == worker.arc
     IN IF worker.seen = "failed"
          THEN SetStatus(worker.id, "failed")
          ELSE SetRow(worker.id, [Completed(r, a, archives[a].level) EXCEPT !.snap = a])
  /\ worker' = IdleWorker
  /\ UNCHANGED <<engineVars, lastBackup, queue, lostJobs, reconcile,
                 deleting, bounds>>

(* The worker process dies in the middle of a job.                          *)
WorkerCrash ==
  /\ worker.pc # "idle"
  /\ faults < MaxFault
  /\ faults' = faults + 1
  /\ lostJobs' = lostJobs \cup {worker.id}
  /\ worker' = IdleWorker
  /\ UNCHANGED <<engineVars, backups, lastBackup, queue, reconcile, deleting,
                 retries, restarts>>

(* retry_after has passed: the worker meets the job a second time, tries=1  *)
(* forbids it, and failed() is called in place of handle().                 *)
JobFailedHook(b) ==
  /\ worker.pc = "idle"
  /\ b \in lostJobs
  /\ lostJobs' = lostJobs \ {b}
  /\ IF backups[b].status \notin {"completed", "failed"} /\ backups[b].eng = None
       THEN SetStatus(b, "failed")
       ELSE UNCHANGED backups
  /\ UNCHANGED <<engineVars, lastBackup, queue, worker, reconcile, deleting,
                 bounds>>

-----------------------------------------------------------------------------
(* backups:reconcile-running (withoutOverlapping: one run at a time)        *)

(* Mutant: only failed rows are looked at again.                            *)
CandidatesFailed ==
  {b \in Backup : backups[b].status = "failed" /\ backups[b].eng # None}

Candidates ==
  {b \in Backup : \/ backups[b].status = "running"
                  \/ backups[b].status = "failed" /\ backups[b].eng # None}

(* Mutant: being listed is taken for being completed.                       *)
SeenRowListed(b, reachable) ==
  IF ~reachable \/ backups[b].eng = None THEN "nothing"
  ELSE LET row == archives[backups[b].eng].row
       IN IF row = "deleted" THEN "nothing"
          ELSE IF row = "failed" THEN "failed" ELSE "completed"

(* The engine row of candidate b; the list is empty when the engine cannot  *)
(* be reached.                                                              *)
SeenRow(b, reachable) ==
  IF ~reachable \/ backups[b].eng = None THEN "nothing"
  ELSE LET row == archives[backups[b].eng].row
       IN IF row = "deleted" THEN "nothing" ELSE row

(* Timing: six hours without an update exceed the hour a goroutine and the  *)
(* job may take and the 90 seconds of a lost reservation.                   *)
StaleFor6Hours(b) ==
  /\ worker.id # b
  /\ b \notin lostJobs
  /\ \A a \in Archive : archives[a].owner = b => archives[a].work = "none"

(* Mutant: whatever status the engine row has is taken over.                *)
SaysWhatIsSeen(b, reachable) == SeenRow(b, reachable)

Says(b, reachable) ==
  CASE SeenRow(b, reachable) = "completed" -> "completed"
    [] SeenRow(b, reachable) = "failed" /\ backups[b].status # "failed" -> "failed"
    [] /\ SeenRow(b, reachable) = "nothing"
       /\ backups[b].status # "failed"
       /\ StaleFor6Hours(b) -> "stale"
    [] OTHER -> "nothing"

(* Both lists are read at once, before the loop: the verdict on every       *)
(* candidate is settled here, and the models the loop will save are too.    *)
ReconcileList(reachable) ==
  /\ reconcile = {}
  /\ reconcile' = {[id |-> b, says |-> Says(b, reachable), arc |-> backups[b].eng,
                    level |-> backups[b].level, snap |-> backups[b].snap] :
                      b \in {c \in Candidates : Says(c, reachable) # "nothing"}}
  /\ reconcile' # {}
  /\ faults' = IF reachable THEN faults ELSE faults + 1
  /\ faults' <= MaxFault
  /\ UNCHANGED <<engineVars, backups, lastBackup, queue, lostJobs, worker,
                 deleting, retries, restarts>>

(* The loop, in the order of the ids.  A row deleted meanwhile makes the    *)
(* fresh() of finalize null and ends the whole run.                         *)
ReconcileOne ==
  \E v \in reconcile :
    /\ \A w \in reconcile : v.id <= w.id
    /\ IF v.says = "completed"
         THEN LET engineLevel == archives[v.arc].level
                  r == backups[v.id]
              IN /\ SetRow(v.id,
                      [Completed(r, v.arc,
                                 IF engineLevel # v.level THEN engineLevel ELSE r.level)
                         EXCEPT !.snap = IF v.arc # v.snap THEN v.arc ELSE @])
                 /\ reconcile' = IF Exists(v.id) THEN reconcile \ {v} ELSE {}
         ELSE /\ SetStatus(v.id, "failed")
              /\ reconcile' = reconcile \ {v}
    /\ UNCHANGED <<engineVars, lastBackup, queue, lostJobs, worker, deleting,
                   bounds>>

-----------------------------------------------------------------------------
(* Deletion: the destroy request and backups:prune                          *)

VictimOf(b) == [id |-> b, level |-> backups[b].level, arc |-> backups[b].eng,
                purged |-> FALSE]

Dependents(b) ==
  {c \in Backup : c # b /\ Exists(c) /\ (backups[c].parent = b \/ backups[c].base = b)}

(* destroy: whatever the status, a backup that others depend on is refused. *)
Destroy(d, b) ==
  /\ deleting[d] = {}
  /\ Exists(b)
  /\ Dependents(b) = {}
  /\ deleting' = [deleting EXCEPT ![d] = {VictimOf(b)}]
  /\ UNCHANGED <<engineVars, backups, lastBackup, queue, lostJobs, worker,
                 reconcile, bounds>>

FullCompleted == {b \in Backup : backups[b].status = "completed" /\ backups[b].level = 0}

(* prune: a full backup beyond the newest Keep goes with its increments.    *)
PruneChain(d, b) ==
  /\ deleting[d] = {}
  /\ b \in FullCompleted
  /\ Cardinality({c \in FullCompleted : c > b}) >= Keep
  /\ deleting' = [deleting EXCEPT ![d] =
        {VictimOf(c) : c \in {b} \cup {x \in Backup : Exists(x) /\ backups[x].base = b}}]
  /\ UNCHANGED <<engineVars, backups, lastBackup, queue, lostJobs, worker,
                 reconcile, bounds>>

(* deleteChain goes by level, then id, both descending.                     *)
IsNext(d, v) ==
  /\ v \in deleting[d]
  /\ \A w \in deleting[d] : w.level < v.level \/ (w.level = v.level /\ w.id <= v.id)

(* purgeBackupArtifacts asks the engine to delete; an engine that cannot be *)
(* reached is only logged.                                                  *)
Purge(d) ==
  \E v \in deleting[d] :
    /\ IsNext(d, v) /\ ~v.purged
    /\ \/ v.arc # None /\ BackupDelete(v.arc) /\ UNCHANGED faults
       \/ v.arc # None /\ faults < MaxFault /\ faults' = faults + 1 /\ UNCHANGED engineVars
       \/ v.arc = None /\ UNCHANGED <<engineVars, faults>>
    /\ deleting' = [deleting EXCEPT ![d] = (@ \ {v}) \cup {[v EXCEPT !.purged = TRUE]}]
    /\ UNCHANGED <<backups, lastBackup, queue, lostJobs, worker, reconcile,
                   retries, restarts>>

(* Mutants: no foreign key; a deletion that relinks the chain around b.     *)
KeepsForeignKeys(row, b) == row
RelinksForeignKeys(row, b) ==
  [row EXCEPT !.parent = IF @ = b THEN backups[b].parent ELSE @,
              !.base   = IF @ = b THEN backups[b].base ELSE @]

(* Both foreign keys are nullOnDelete.                                      *)
NullsForeignKeys(row, b) ==
  [row EXCEPT !.parent = IF @ = b THEN None ELSE @,
              !.base   = IF @ = b THEN None ELSE @]

DeleteRow(d) ==
  \E v \in deleting[d] :
    /\ IsNext(d, v) /\ v.purged
    /\ backups' = [b \in Backup |->
          IF b = v.id THEN AbsentRow ELSE NullsForeignKeys(backups[b], v.id)]
    /\ deleting' = [deleting EXCEPT ![d] = @ \ {v}]
    /\ UNCHANGED <<engineVars, lastBackup, queue, lostJobs, worker,
                   reconcile, bounds>>

-----------------------------------------------------------------------------
EngineStep ==
  /\ \E a \in Archive : Archiving(a)
  /\ UNCHANGED panelVars

Restart ==
  /\ restarts < MaxRestart
  /\ restarts' = restarts + 1
  /\ EngineRestart
  /\ UNCHANGED <<backups, lastBackup, queue, lostJobs, worker, reconcile,
                 deleting, retries, faults>>

Job ==
  \/ JobStart \/ JobPost \/ JobPostError \/ JobSeed \/ JobPoll \/ JobPollTimeout
  \/ JobFinish

Request ==
  \/ StoreFull \/ StoreIncremental \/ RunDue
  \/ \E b \in Backup : Retry(b)
  \/ \E d \in Deleters, b \in Backup : Destroy(d, b) \/ PruneChain(d, b)

Next ==
  \/ Request
  \/ Job
  \/ \E b \in Backup : JobFailedHook(b)
  \/ \E reachable \in BOOLEAN : ReconcileList(reachable)
  \/ ReconcileOne
  \/ \E d \in Deleters : Purge(d) \/ DeleteRow(d)
  \/ EngineStep
  \/ JobPostLost \/ WorkerCrash \/ Restart

Spec == Init /\ [][Next]_vars

(* The worker is restarted by systemd and takes the next job; the scheduler *)
(* starts the reconciler every two minutes; a goroutine ends within an hour;*)
(* a request that was begun is carried out.                                 *)
Fairness ==
  /\ WF_vars(Job)
  /\ \A b \in Backup : WF_vars(JobFailedHook(b))
  /\ WF_vars(ReconcileList(TRUE))
  /\ WF_vars(ReconcileOne)
  /\ \A d \in Deleters : WF_vars(Purge(d) \/ DeleteRow(d))
  /\ WF_vars(EngineStep)

FairSpec == Spec /\ Fairness
=============================================================================
