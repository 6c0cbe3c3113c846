------------------------- MODULE BackupChainProofs -------------------------
(***************************************************************************)
(* What holds of BackupChain for every number of backups, archives,         *)
(* deleters, retries, faults and restarts: types, chains, and that two      *)
(* archives of one backup are made at a time only after a lost answer or a  *)
(* second retry.  Without retries, an increment is made on the archive of   *)
(* its parent, a completed backup has a finished archive, the engine never  *)
(* copies a snapshot that is still written, BackupChain implements          *)
(* BackupLifecycle, and a completed backup whose chain is whole can be      *)
(* restored.                                                                *)
(***************************************************************************)
EXTENDS BackupProperties, NaturalsInduction, WellFoundedInduction, TLAPS

-----------------------------------------------------------------------------
(* Type correctness                                                         *)

(* A busy worker has a backup, and an archive once the engine has answered; *)
(* the POST is sent at most twice.                                          *)
WorkerOK ==
  /\ worker.pc # "idle" => worker.id # None
  /\ worker.pc = "post" => worker.calls <= 1
  /\ worker.pc \in {"seed", "poll", "finish"} => worker.arc # None

(* Only a backup with an engine id can be found completed in the list.      *)
VerdictOK == \A v \in reconcile : v.says = "completed" => v.arc # None

TypeInv == TypeOK /\ WorkerOK /\ VerdictOK

LEMMA BoundsArePositive ==
  /\ None \notin Archive /\ None \notin Backup
  /\ ArchiveOrNone = Archive \cup {None}
  /\ BackupOrNone = Backup \cup {None}
BY MaxArchiveAssumption, MaxBackupAssumption
   DEF None, Archive, Backup, ArchiveOrNone, BackupOrNone

LEMMA TypeInit == Init => TypeInv
<1> SUFFICES ASSUME Init PROVE TypeInv
  OBVIOUS
<1> USE BoundsArePositive DEF Init
<1>1. EngineTypeOK
  BY DEF EngineInit, EngineTypeOK, ArchiveRecord, UnusedArchive, None
<1>2. backups \in [Backup -> BackupRow] /\ lastBackup \in BackupOrNone
  BY DEF BackupRow, AbsentRow, None
<1>3. queue \in Seq(Backup) /\ lostJobs \subseteq Backup /\ reconcile \subseteq Verdict
  OBVIOUS
<1>4. worker \in WorkerState /\ WorkerOK
  BY DEF WorkerState, IdleWorker, WorkerOK
<1>5. deleting \in [Deleters -> SUBSET Victim] /\ VerdictOK
  BY DEF VerdictOK
<1> QED BY <1>1, <1>2, <1>3, <1>4, <1>5 DEF TypeInv, TypeOK

(* The engine's steps keep the types of the engine.                         *)
LEMMA QueueTypes ==
  ASSUME EngineTypeOK, NEW owner \in BackupOrNone, NEW level \in Nat,
         NEW want \in ArchiveOrNone, BackupQueue(owner, level, want)
  PROVE  EngineTypeOK' /\ lastArchive + 1 \in Archive
<1> DEFINE row == [row |-> "running", owner |-> owner,
                   level |-> IF want = None THEN 0 ELSE level, want |-> want,
                   work |-> "starting", on |-> None, disk |-> FALSE]
<1>1. row \in ArchiveRecord
  BY BoundsArePositive DEF ArchiveRecord
<1>2. lastArchive + 1 \in Archive
  BY MaxArchiveAssumption DEF EngineTypeOK, BackupQueue, Archive, ArchiveOrNone
<1>3. archives' = [archives EXCEPT ![lastArchive + 1] = row]
      /\ lastArchive' = lastArchive + 1
  BY DEF BackupQueue
<1> QED BY <1>1, <1>2, <1>3, BoundsArePositive DEF EngineTypeOK

LEMMA ArchivingTypes ==
  ASSUME EngineTypeOK, NEW a \in Archive, Archiving(a)
  PROVE  EngineTypeOK'
<1> DEFINE old == archives[a]
           on == IF old.want # None /\ archives[old.want].disk THEN old.want ELSE None
<1>1. old \in ArchiveRecord /\ on \in ArchiveOrNone
  BY BoundsArePositive DEF EngineTypeOK, ArchiveRecord
<1>2. SUFFICES \E new \in ArchiveRecord :
                 archives' = [archives EXCEPT ![a] = new] /\ lastArchive' = lastArchive
  BY DEF EngineTypeOK
<1>3. CASE ArchiveStart(a)
  <2>1. [old EXCEPT !.work = "tar", !.disk = TRUE, !.on = on] \in ArchiveRecord
    BY <1>1 DEF ArchiveRecord
  <2> QED BY <1>3, <2>1 DEF ArchiveStart, EngineTypeOK
<1>4. CASE ArchiveDone(a)
  <2>1. [old EXCEPT !.work = "none", !.row = RecordedAs(a, "completed")] \in ArchiveRecord
    BY <1>1 DEF ArchiveRecord, RecordedAs
  <2> QED BY <1>4, <2>1 DEF ArchiveDone, EngineTypeOK
<1>5. CASE ArchiveFallback(a)
  <2>1. [old EXCEPT !.work = "none", !.row = RecordedAs(a, "completed"),
                    !.level = IF old.row = "running" THEN 0 ELSE @,
                    !.on = None, !.disk = TRUE] \in ArchiveRecord
    BY <1>1, BoundsArePositive DEF ArchiveRecord, RecordedAs
  <2> QED BY <1>5, <2>1 DEF ArchiveFallback, EngineTypeOK
<1>6. CASE ArchiveFail(a)
  <2>1. [old EXCEPT !.work = "none", !.row = RecordedAs(a, "failed"),
                    !.disk = @ /\ old.row # "running"] \in ArchiveRecord
    BY <1>1 DEF ArchiveRecord, RecordedAs
  <2> QED BY <1>6, <2>1 DEF ArchiveFail, EngineTypeOK
<1> QED BY <1>3, <1>4, <1>5, <1>6 DEF Archiving

LEMMA DeleteTypes ==
  ASSUME EngineTypeOK, NEW a \in Archive, BackupDelete(a)
  PROVE  EngineTypeOK'
<1>1. [archives[a] EXCEPT !.row = "deleted", !.disk = FALSE] \in ArchiveRecord
  BY DEF EngineTypeOK, ArchiveRecord
<1> QED BY <1>1 DEF BackupDelete, EngineTypeOK

LEMMA RestartTypes ==
  ASSUME EngineTypeOK, EngineRestart
  PROVE  EngineTypeOK'
<1>1. \A a \in Archive : [archives[a] EXCEPT !.work = "none"] \in ArchiveRecord
  BY DEF EngineTypeOK, ArchiveRecord
<1> QED BY <1>1 DEF EngineRestart, EngineTypeOK

(* The rows the panel writes are rows.                                      *)
LEMMA SetRowTypes ==
  ASSUME backups \in [Backup -> BackupRow], NEW b \in Backup,
         NEW row \in BackupRow, SetRow(b, row)
  PROVE  backups' \in [Backup -> BackupRow]
BY DEF SetRow

LEMMA SetStatusTypes ==
  ASSUME backups \in [Backup -> BackupRow], NEW b \in Backup,
         NEW status \in {"queued", "running", "completed", "failed"},
         SetStatus(b, status)
  PROVE  backups' \in [Backup -> BackupRow]
<1>1. [backups[b] EXCEPT !.status = status] \in BackupRow
  BY DEF BackupRow
<1> QED BY <1>1, SetRowTypes DEF SetStatus

LEMMA CompletedTypes ==
  ASSUME NEW r \in BackupRow, NEW a \in Archive, NEW level \in Nat
  PROVE  Completed(r, a, level) \in BackupRow
BY BoundsArePositive DEF Completed, BackupRow

LEMMA EnqueueTypes ==
  ASSUME TypeInv, NEW level \in Nat, NEW parent \in BackupOrNone,
         NEW base \in BackupOrNone, Enqueue(level, parent, base)
  PROVE  TypeInv'
<1>1. lastBackup + 1 \in Backup
  BY MaxBackupAssumption DEF TypeInv, TypeOK, Enqueue, Backup, BackupOrNone
<1>2. [status |-> "queued", level |-> level, parent |-> parent, base |-> base,
       eng |-> None, snap |-> None] \in BackupRow
  BY BoundsArePositive DEF BackupRow
<1>3. backups' \in [Backup -> BackupRow] /\ queue' \in Seq(Backup)
      /\ lastBackup' \in BackupOrNone
  BY <1>1, <1>2, BoundsArePositive DEF TypeInv, TypeOK, Enqueue
<1> QED
  BY <1>3 DEF TypeInv, TypeOK, EngineTypeOK, WorkerOK, VerdictOK, Enqueue,
              engineVars, bounds

LEMMA CreateTypes ==
  ASSUME TypeInv, StoreFull \/ StoreIncremental \/ RunDue
  PROVE  TypeInv'
<1>1. \A t \in Backup : /\ backups[t].level + 1 \in Nat
                        /\ backups[t].base \in BackupOrNone
                        /\ t \in BackupOrNone
  BY BoundsArePositive DEF TypeInv, TypeOK, BackupRow
<1>2. Tips \subseteq Backup /\ None \in BackupOrNone
  BY BoundsArePositive DEF Tips
<1>3. CASE StoreFull
  BY <1>2, <1>3, EnqueueTypes DEF StoreFull
<1>4. CASE StoreIncremental
  <2>1. PICK t \in Tips :
          Enqueue(backups[t].level + 1, t,
                  IF backups[t].base # None THEN backups[t].base ELSE t)
    BY <1>4 DEF StoreIncremental
  <2> QED BY <1>1, <1>2, <2>1, EnqueueTypes
<1>5. CASE RunDue
  <2>1. CASE Enqueue(0, None, None)
    BY <1>2, <2>1, EnqueueTypes
  <2>2. CASE \E t \in Tips : Enqueue(backups[t].level + 1, t, BaseOf(t))
    <3>1. PICK t \in Tips : Enqueue(backups[t].level + 1, t, BaseOf(t))
      BY <2>2
    <3>2. BaseOf(t) \in BackupOrNone
      BY <1>1, <1>2 DEF BaseOf
    <3> QED BY <1>1, <1>2, <3>1, <3>2, EnqueueTypes
  <2> QED BY <1>5, <2>1, <2>2 DEF RunDue
<1> QED BY <1>3, <1>4, <1>5

(* The job and its hook.                                                    *)
LEMMA IdleTypes ==
  IdleWorker \in WorkerState /\ IdleWorker.pc = "idle" /\ IdleWorker.calls = 0
BY BoundsArePositive DEF WorkerState, IdleWorker

LEMMA JobStartTypes ==
  ASSUME TypeInv, JobStart
  PROVE  TypeInv'
<1> DEFINE b == Head(queue)
           r == backups[b]
           hasParent == r.level > 0 /\ r.parent # None
           want == IF hasParent THEN ParentSnapshot(b) ELSE None
           noSnapshot == hasParent /\ want = None
           level == IF noSnapshot THEN 0 ELSE r.level
           row == [r EXCEPT !.status = "running",
                            !.level  = level,
                            !.parent = IF noSnapshot THEN None ELSE r.parent,
                            !.base   = IF noSnapshot THEN None ELSE r.base]
           busy == [IdleWorker EXCEPT !.pc = "post", !.id = b, !.want = want,
                                      !.level = level]
<1>1. b \in Backup /\ queue' \in Seq(Backup)
  BY DEF TypeInv, TypeOK, JobStart
<1>2. r \in BackupRow
  BY <1>1 DEF TypeInv, TypeOK
<1>3. want \in ArchiveOrNone
  <2>1. hasParent => backups[r.parent] \in BackupRow
    BY <1>2, BoundsArePositive DEF TypeInv, TypeOK, BackupRow
  <2> QED BY <2>1, BoundsArePositive DEF BackupRow, ParentSnapshot
<1>4. row \in BackupRow /\ level \in Nat
  BY <1>2, BoundsArePositive DEF BackupRow
<1>5. busy \in WorkerState /\ busy.id = b /\ busy.pc = "post" /\ busy.calls = 0
  <2>1. b \in BackupOrNone
    BY <1>1, BoundsArePositive
  <2> HIDE DEF b, want, level
  <2> QED BY <1>3, <1>4, <2>1, IdleTypes DEF WorkerState
<1>6. backups' \in [Backup -> BackupRow] /\ worker' \in WorkerState /\ WorkerOK'
  <2>1. CASE UNCHANGED <<backups, worker>>
    BY <2>1 DEF TypeInv, TypeOK, WorkerOK
  <2>2. CASE backups' = [backups EXCEPT ![b] = row] /\ worker' = busy
    <3> HIDE DEF row, busy
    <3>1. backups \in [Backup -> BackupRow]
      BY DEF TypeInv, TypeOK
    <3> QED BY <1>1, <1>4, <1>5, <2>2, <3>1, BoundsArePositive DEF WorkerOK
  <2> QED BY <2>1, <2>2 DEF JobStart
<1> QED
  BY <1>1, <1>6 DEF TypeInv, TypeOK, EngineTypeOK, VerdictOK, JobStart, engineVars, bounds

(* Whatever the job does to its row and to itself, the rest keeps its type. *)
LEMMA JobKeepsTypes ==
  ASSUME TypeInv, EngineTypeOK', backups' \in [Backup -> BackupRow],
         worker' \in WorkerState, WorkerOK',
         faults' \in Nat, lostJobs' \subseteq Backup,
         UNCHANGED <<lastBackup, queue, reconcile, deleting, retries, restarts>>
  PROVE  TypeInv'
BY DEF TypeInv, TypeOK, VerdictOK

LEMMA JobTypes ==
  ASSUME TypeInv, JobPost \/ JobPostError \/ JobSeed \/ JobPoll \/ JobPollTimeout
                  \/ JobFinish \/ JobPostLost \/ WorkerCrash
  PROVE  TypeInv'
<1>1. worker \in WorkerState /\ backups \in [Backup -> BackupRow] /\ EngineTypeOK
  BY DEF TypeInv, TypeOK
<1>2. worker.pc # "idle" => worker.id \in Backup
  BY <1>1, BoundsArePositive DEF TypeInv, WorkerOK, WorkerState
<1>3. IdleWorker \in WorkerState /\ IdleWorker.pc = "idle"
  BY IdleTypes
<1>4. CASE JobPost
  <2>1. EngineTypeOK' /\ lastArchive + 1 \in Archive
    BY <1>1, <1>4, QueueTypes DEF JobPost, WorkerState
  <2>2. worker.calls + 1 \in 0 .. 2 /\ lastArchive + 1 \in ArchiveOrNone \ {None}
    BY <1>1, <1>4, <2>1, BoundsArePositive DEF TypeInv, JobPost, WorkerState, WorkerOK
  <2>3. worker' = [worker EXCEPT !.pc = "seed", !.calls = @ + 1, !.arc = lastArchive + 1]
    BY <1>4 DEF JobPost
  <2>4. worker' \in WorkerState /\ worker'.id = worker.id /\ worker'.pc = "seed"
        /\ worker'.arc = lastArchive + 1
    BY <1>1, <2>2, <2>3 DEF WorkerState
  <2>5. WorkerOK'
    BY <1>2, <1>4, <2>2, <2>4, BoundsArePositive DEF JobPost, WorkerOK
  <2> QED BY <1>1, <1>4, <2>1, <2>4, <2>5, JobKeepsTypes DEF JobPost, bounds, TypeInv, TypeOK
<1>5. CASE JobPostError
  <2>1. backups' \in [Backup -> BackupRow]
    BY <1>1, <1>2, <1>5, SetStatusTypes DEF JobPostError
  <2> QED BY <1>1, <1>3, <1>5, <2>1, JobKeepsTypes
          DEF JobPostError, bounds, engineVars, EngineTypeOK, TypeInv, TypeOK, WorkerOK
<1>6. CASE JobSeed
  <2> DEFINE sent == archives[worker.arc].level
             row == [backups[worker.id] EXCEPT
                       !.eng = worker.arc, !.snap = worker.arc,
                       !.level = IF sent # worker.level THEN sent ELSE @]
  <2>1. sent \in Nat
    BY <1>1, <1>6, BoundsArePositive
       DEF JobSeed, TypeInv, WorkerOK, WorkerState, EngineTypeOK, ArchiveRecord
  <2>2. row \in BackupRow
    BY <1>1, <1>2, <1>6, <2>1 DEF JobSeed, BackupRow, WorkerState
  <2>3. SetRow(worker.id, row)
    BY <1>6 DEF JobSeed
  <2>4. backups' \in [Backup -> BackupRow]
    BY <1>1, <1>2, <1>6, <2>2, <2>3, SetRowTypes DEF JobSeed
  <2>5. worker' \in WorkerState /\ WorkerOK'
    BY <1>1, <1>6 DEF TypeInv, JobSeed, WorkerState, WorkerOK
  <2> QED BY <1>1, <1>6, <2>4, <2>5, JobKeepsTypes
          DEF JobSeed, bounds, engineVars, EngineTypeOK, TypeInv, TypeOK
<1>7. CASE JobPoll
  <2>1. worker' \in WorkerState /\ WorkerOK'
    BY <1>1, <1>7 DEF TypeInv, JobPoll, WorkerState, WorkerOK
  <2> QED BY <1>1, <1>7, <2>1, JobKeepsTypes
          DEF JobPoll, bounds, engineVars, EngineTypeOK, TypeInv, TypeOK
<1>8. CASE JobPollTimeout
  BY <1>1, <1>3, <1>8, JobKeepsTypes
     DEF JobPollTimeout, bounds, engineVars, EngineTypeOK, TypeInv, TypeOK, WorkerOK
<1>9. CASE JobFinish
  <2>1. backups' \in [Backup -> BackupRow]
    <3>1. CASE worker.seen = "failed"
      BY <1>1, <1>2, <1>9, <3>1, SetStatusTypes DEF JobFinish
    <3>2. CASE worker.seen # "failed"
      <4> DEFINE a == worker.arc
                 done == Completed(backups[worker.id], a, archives[a].level)
      <4>1. a \in Archive /\ archives[a].level \in Nat
        BY <1>1, <1>9, BoundsArePositive
           DEF JobFinish, TypeInv, WorkerOK, WorkerState, EngineTypeOK, ArchiveRecord
      <4>2. done \in BackupRow
        BY <1>1, <1>2, <1>9, <4>1, CompletedTypes DEF JobFinish
      <4>3. [done EXCEPT !.snap = a] \in BackupRow
        BY <4>1, <4>2, BoundsArePositive DEF BackupRow
      <4>4. SetRow(worker.id, [done EXCEPT !.snap = a])
        BY <1>9, <3>2 DEF JobFinish
      <4> QED BY <1>1, <1>2, <1>9, <4>3, <4>4, SetRowTypes DEF JobFinish
    <3> QED BY <3>1, <3>2
  <2> QED BY <1>1, <1>3, <1>9, <2>1, JobKeepsTypes
          DEF JobFinish, bounds, engineVars, EngineTypeOK, TypeInv, TypeOK, WorkerOK
<1>10. CASE JobPostLost
  <2>1. EngineTypeOK'
    BY <1>1, <1>10, QueueTypes DEF JobPostLost, WorkerState
  <2>2. CASE worker.calls = 0
    <3>1. worker' \in WorkerState /\ WorkerOK' /\ backups' = backups
      BY <1>1, <1>10, <2>2 DEF TypeInv, JobPostLost, WorkerState, WorkerOK
    <3> QED BY <1>1, <1>10, <2>1, <3>1, JobKeepsTypes DEF JobPostLost, TypeInv, TypeOK
  <2>3. CASE worker.calls # 0
    <3>1. backups' \in [Backup -> BackupRow]
      BY <1>1, <1>2, <1>10, <2>3, SetStatusTypes DEF JobPostLost
    <3>2. worker' = IdleWorker
      BY <1>10, <2>3 DEF JobPostLost
    <3> QED BY <1>1, <1>3, <1>10, <2>1, <3>1, <3>2, JobKeepsTypes
            DEF JobPostLost, TypeInv, TypeOK, WorkerOK
  <2> QED BY <2>2, <2>3
<1>11. CASE WorkerCrash
  BY <1>1, <1>2, <1>3, <1>11, JobKeepsTypes
     DEF WorkerCrash, engineVars, EngineTypeOK, TypeInv, TypeOK, WorkerOK
<1> QED BY <1>4, <1>5, <1>6, <1>7, <1>8, <1>9, <1>10, <1>11

LEMMA HookTypes ==
  ASSUME TypeInv, NEW b \in Backup, JobFailedHook(b)
  PROVE  TypeInv'
<1>1. backups' \in [Backup -> BackupRow]
  BY SetStatusTypes DEF JobFailedHook, TypeInv, TypeOK
<1>2. worker' = worker
  BY DEF JobFailedHook
<1> QED BY <1>1, <1>2, JobKeepsTypes
        DEF JobFailedHook, bounds, engineVars, EngineTypeOK, TypeInv, TypeOK, WorkerOK

(* The reconciler, deletions, and the rest of Next.                         *)
LEMMA ReconcileTypes ==
  ASSUME TypeInv, ReconcileOne \/ \E reachable \in BOOLEAN : ReconcileList(reachable)
  PROVE  TypeInv'
<1>1. CASE \E reachable \in BOOLEAN : ReconcileList(reachable)
  <2>1. PICK reachable \in BOOLEAN : ReconcileList(reachable)
    BY <1>1
  <2> DEFINE listed == {c \in Candidates : Says(c, reachable) # "nothing"}
             verdict(b) == [id |-> b, says |-> Says(b, reachable), arc |-> backups[b].eng,
                            level |-> backups[b].level, snap |-> backups[b].snap]
  <2>2. reconcile' = {verdict(b) : b \in listed}
    BY <2>1 DEF ReconcileList
  <2>3. ASSUME NEW b \in listed
        PROVE  verdict(b) \in Verdict /\ (verdict(b).says = "completed" => verdict(b).arc # None)
    <3>1. b \in Backup
      BY DEF Candidates
    <3>2. backups[b] \in BackupRow
      BY <3>1 DEF TypeInv, TypeOK
    <3>3. Says(b, reachable) \in {"completed", "failed", "stale"}
      BY <2>3 DEF Says
    <3>4. Says(b, reachable) = "completed" => backups[b].eng # None
      BY <2>3 DEF Says, SeenRow
    <3>5. verdict(b) \in Verdict
      BY <3>1, <3>2, <3>3 DEF Verdict, BackupRow
    <3> QED BY <3>4, <3>5
  <2>4. reconcile' \subseteq Verdict /\ VerdictOK'
    <3> HIDE DEF listed, verdict
    <3> QED BY <2>2, <2>3 DEF VerdictOK
  <2>5. faults' \in Nat
    BY <2>1 DEF ReconcileList, TypeInv, TypeOK
  <2> QED BY <2>1, <2>4, <2>5
          DEF ReconcileList, TypeInv, TypeOK, EngineTypeOK, engineVars, WorkerOK
<1>2. CASE ReconcileOne
  <2> DEFINE level(v) == IF archives[v.arc].level # v.level THEN archives[v.arc].level
                                                            ELSE backups[v.id].level
             done(v) == Completed(backups[v.id], v.arc, level(v))
             row(v) == [done(v) EXCEPT !.snap = IF v.arc # v.snap THEN v.arc ELSE @]
  <2>1. PICK v \in reconcile :
          /\ IF v.says = "completed" THEN SetRow(v.id, row(v)) ELSE SetStatus(v.id, "failed")
          /\ reconcile' \subseteq reconcile
    BY <1>2 DEF ReconcileOne
  <2>2. v \in Verdict /\ v.id \in Backup
    BY DEF TypeInv, TypeOK, Verdict
  <2>3. backups \in [Backup -> BackupRow] /\ backups[v.id] \in BackupRow
    BY <2>2 DEF TypeInv, TypeOK
  <2>4. backups' \in [Backup -> BackupRow]
    <3>1. CASE v.says = "completed"
      <4>1. v.arc \in Archive
        BY <2>2, <3>1, BoundsArePositive DEF TypeInv, VerdictOK, Verdict
      <4>2. level(v) \in Nat
        BY <2>3, <4>1 DEF TypeInv, TypeOK, EngineTypeOK, ArchiveRecord, BackupRow
      <4>3. done(v) \in BackupRow
        BY <2>3, <4>1, <4>2, CompletedTypes
      <4>4. row(v) \in BackupRow
        BY <4>1, <4>3, BoundsArePositive DEF BackupRow
      <4> HIDE DEF row
      <4> QED BY <2>1, <2>2, <2>3, <3>1, <4>4, SetRowTypes
    <3>2. CASE v.says # "completed"
      BY <2>1, <2>2, <2>3, <3>2, SetStatusTypes
    <3> QED BY <3>1, <3>2
  <2>5. reconcile' \subseteq Verdict /\ VerdictOK'
    BY <2>1 DEF TypeInv, TypeOK, VerdictOK
  <2> QED BY <1>2, <2>4, <2>5
          DEF ReconcileOne, TypeInv, TypeOK, EngineTypeOK, engineVars, WorkerOK, bounds
<1> QED BY <1>1, <1>2

LEMMA VictimTypes ==
  ASSUME TypeInv, NEW b \in Backup
  PROVE  VictimOf(b) \in Victim
<1>1. backups[b] \in BackupRow
  BY DEF TypeInv, TypeOK
<1> QED BY <1>1 DEF VictimOf, Victim, BackupRow

LEMMA DeletingTypes ==
  ASSUME TypeInv, NEW d \in Deleters,
         \/ \E b \in Backup : Destroy(d, b) \/ PruneChain(d, b)
         \/ Purge(d) \/ DeleteRow(d)
  PROVE  TypeInv'
<1>1. deleting \in [Deleters -> SUBSET Victim] /\ backups \in [Backup -> BackupRow]
      /\ EngineTypeOK
  BY DEF TypeInv, TypeOK
<1>2. ASSUME NEW b \in Backup, Destroy(d, b)
      PROVE  TypeInv'
  <2>1. deleting' \in [Deleters -> SUBSET Victim]
    BY <1>1, <1>2, VictimTypes DEF Destroy
  <2> QED BY <1>2, <2>1
          DEF Destroy, TypeInv, TypeOK, EngineTypeOK, engineVars, WorkerOK, VerdictOK, bounds
<1>3. ASSUME NEW b \in Backup, PruneChain(d, b)
      PROVE  TypeInv'
  <2>1. deleting' \in [Deleters -> SUBSET Victim]
    BY <1>1, <1>3, VictimTypes DEF PruneChain
  <2> QED BY <1>3, <2>1
          DEF PruneChain, TypeInv, TypeOK, EngineTypeOK, engineVars, WorkerOK, VerdictOK, bounds
<1>4. CASE Purge(d)
  <2>1. PICK v \in deleting[d] :
          /\ \/ v.arc # None /\ BackupDelete(v.arc) /\ UNCHANGED faults
             \/ v.arc # None /\ faults < MaxFault /\ faults' = faults + 1 /\ UNCHANGED engineVars
             \/ v.arc = None /\ UNCHANGED <<engineVars, faults>>
          /\ deleting' = [deleting EXCEPT ![d] = (@ \ {v}) \cup {[v EXCEPT !.purged = TRUE]}]
    BY <1>4 DEF Purge
  <2>2. v \in Victim
    BY <1>1
  <2>3. [v EXCEPT !.purged = TRUE] \in Victim
    BY <2>2 DEF Victim
  <2>4. deleting' \in [Deleters -> SUBSET Victim]
    BY <1>1, <2>1, <2>3
  <2>5. EngineTypeOK' /\ faults' \in Nat
    <3>1. v.arc # None => v.arc \in Archive
      BY <2>2, BoundsArePositive DEF Victim
    <3> QED BY <1>1, <2>1, <3>1, DeleteTypes DEF EngineTypeOK, engineVars, TypeInv, TypeOK
  <2> QED BY <1>4, <2>4, <2>5 DEF Purge, TypeInv, TypeOK, WorkerOK, VerdictOK
<1>5. CASE DeleteRow(d)
  <2>1. PICK v \in deleting[d] :
          /\ backups' = [b \in Backup |-> IF b = v.id THEN AbsentRow
                                          ELSE NullsForeignKeys(backups[b], v.id)]
          /\ deleting' = [deleting EXCEPT ![d] = @ \ {v}]
    BY <1>5 DEF DeleteRow
  <2>2. AbsentRow \in BackupRow
    BY BoundsArePositive DEF AbsentRow, BackupRow
  <2>3. ASSUME NEW r \in BackupRow, NEW b \in Backup
        PROVE  NullsForeignKeys(r, b) \in BackupRow
    BY BoundsArePositive DEF NullsForeignKeys, BackupRow
  <2>4. backups' \in [Backup -> BackupRow]
    <3>1. v.id \in Backup
      BY <1>1 DEF Victim
    <3> QED BY <1>1, <2>1, <2>2, <2>3, <3>1
  <2>5. deleting' \in [Deleters -> SUBSET Victim]
    BY <1>1, <2>1
  <2> QED BY <1>5, <2>4, <2>5
          DEF DeleteRow, TypeInv, TypeOK, EngineTypeOK, engineVars, WorkerOK, VerdictOK, bounds
<1> QED BY <1>2, <1>3, <1>4, <1>5

LEMMA RetryTypes ==
  ASSUME TypeInv, NEW b \in Backup, Retry(b)
  PROVE  TypeInv'
<1>1. backups \in [Backup -> BackupRow] /\ backups[b] \in BackupRow
  BY DEF TypeInv, TypeOK
<1>2. [backups[b] EXCEPT !.status = "queued"] \in BackupRow
  BY <1>1 DEF BackupRow
<1>3. backups' = [backups EXCEPT ![b] = [backups[b] EXCEPT !.status = "queued"]]
  BY <1>1 DEF Retry
<1>4. backups' \in [Backup -> BackupRow]
  BY <1>1, <1>2, <1>3
<1>5. queue' \in Seq(Backup) /\ retries' \in Nat
  BY DEF Retry, TypeInv, TypeOK
<1> QED BY <1>4, <1>5
        DEF Retry, TypeInv, TypeOK, EngineTypeOK, engineVars, WorkerOK, VerdictOK

LEMMA TypeStep == TypeInv /\ [Next]_vars => TypeInv'
<1> SUFFICES ASSUME TypeInv, [Next]_vars PROVE TypeInv'
  OBVIOUS
<1>1. CASE UNCHANGED vars
  BY <1>1 DEF vars, engineVars, panelVars, bounds, TypeInv, TypeOK, EngineTypeOK,
              WorkerOK, VerdictOK
<1>2. CASE Request
  BY <1>2, CreateTypes, RetryTypes, DeletingTypes DEF Request
<1>3. CASE Job \/ JobPostLost \/ WorkerCrash
  BY <1>3, JobStartTypes, JobTypes DEF Job
<1>4. CASE EngineStep
  BY <1>4, ArchivingTypes
     DEF EngineStep, panelVars, bounds, TypeInv, TypeOK, WorkerOK, VerdictOK
<1>5. CASE Restart
  BY <1>5, RestartTypes DEF Restart, TypeInv, TypeOK, WorkerOK, VerdictOK
<1> QED BY <1>1, <1>2, <1>3, <1>4, <1>5, HookTypes, ReconcileTypes, DeletingTypes DEF Next

(* Every variable keeps its type: in particular the worker never polls      *)
(* without an engine id and never sends the POST a third time.              *)
THEOREM TypeCorrect == Spec => []TypeOK
<1>1. TypeInv => TypeOK
  BY DEF TypeInv
<1> QED BY <1>1, TypeInit, TypeStep, PTL DEF Spec

-----------------------------------------------------------------------------
(* Links between rows, and between a row and its archive                    *)

(* AUTO_INCREMENT: every row in the table was handed out, and so was the    *)
(* backup the worker holds, even when its row is gone.                      *)
IdsHandedOut ==
  /\ \A b \in Backup : Exists(b) => b <= lastBackup
  /\ worker.id <= lastBackup

(* Once the seed is written the row, if it is still there, has the archive  *)
(* the worker polls: only the worker ever writes engine_backup_id.          *)
WorkerHoldsRow ==
  worker.pc \in {"poll", "finish"} /\ Exists(worker.id)
    => backups[worker.id].eng = worker.arc

VerdictPaths == \A v \in reconcile : v.arc = v.snap

RowInv == IdsHandedOut /\ ChainAcyclic /\ PathsMatchEngineId

LinkInv == RowInv /\ WorkerHoldsRow /\ VerdictPaths

LEMMA LinkInit == Init => LinkInv
BY DEF Init, LinkInv, RowInv, IdsHandedOut, ChainAcyclic, PathsMatchEngineId, Exists,
       WorkerHoldsRow, VerdictPaths, AbsentRow, IdleWorker, None

(* No write to a row that is there can break a link, as long as it adds     *)
(* none and writes id and paths together.                                   *)
LEMMA RowWrite ==
  ASSUME TypeInv, LinkInv, NEW b \in Backup, NEW row \in BackupRow, SetRow(b, row),
         row.status # "absent", row.snap = row.eng,
         row.parent \in {None, backups[b].parent}, row.base \in {None, backups[b].base},
         worker'.id <= lastBackup, lastBackup' = lastBackup
  PROVE  /\ RowInv'
         /\ \A c \in Backup : Exists(c)' <=> Exists(c)
         /\ \A c \in Backup \ {b} : backups'[c] = backups[c]
         /\ Exists(b) => backups'[b] = row
<1>1. backups \in [Backup -> BackupRow] /\ backups' \in [Backup -> BackupRow]
  BY SetRowTypes DEF TypeInv, TypeOK
<1>2. /\ \A c \in Backup \ {b} : backups'[c] = backups[c]
      /\ Exists(b) => backups'[b] = row
      /\ ~Exists(b) => backups'[b] = backups[b]
  BY <1>1 DEF SetRow
<1>3. \A c \in Backup : Exists(c)' <=> Exists(c)
  BY <1>2 DEF Exists
<1>4. IdsHandedOut'
  BY <1>3 DEF LinkInv, RowInv, IdsHandedOut
<1>5. PathsMatchEngineId'
  BY <1>2 DEF LinkInv, RowInv, PathsMatchEngineId
<1>6. ChainAcyclic'
  <2>1. ASSUME NEW c \in Backup, NEW p \in {backups[c].parent, backups[c].base}, p # None
        PROVE  Exists(p)' /\ p < c
    <3>1. p \in Backup
      BY <1>1, <2>1, BoundsArePositive DEF BackupRow
    <3> QED BY <1>3, <2>1, <3>1 DEF LinkInv, RowInv, ChainAcyclic
  <2>2. \A c \in Backup : {backups'[c].parent, backups'[c].base}
                             \subseteq {None, backups[c].parent, backups[c].base}
    BY <1>2
  <2> QED BY <2>1, <2>2 DEF ChainAcyclic
<1> QED BY <1>2, <1>3, <1>4, <1>5, <1>6 DEF RowInv

LEMMA StatusWrite ==
  ASSUME TypeInv, LinkInv, NEW b \in Backup,
         NEW status \in {"queued", "running", "completed", "failed"}, SetStatus(b, status),
         worker'.id <= lastBackup, lastBackup' = lastBackup
  PROVE  /\ RowInv'
         /\ \A c \in Backup : Exists(c)' <=> Exists(c)
         /\ \A c \in Backup : backups'[c].eng = backups[c].eng
<1> DEFINE row == [backups[b] EXCEPT !.status = status]
<1>1. backups[b] \in BackupRow
  BY DEF TypeInv, TypeOK
<1>2. /\ row \in BackupRow /\ row.status # "absent" /\ row.snap = row.eng
      /\ row.parent = backups[b].parent /\ row.base = backups[b].base
      /\ row.eng = backups[b].eng
  BY <1>1 DEF BackupRow, LinkInv, RowInv, PathsMatchEngineId
<1>3. SetRow(b, row)
  BY DEF SetStatus
<1> HIDE DEF row
<1>4. /\ RowInv'
      /\ \A c \in Backup : Exists(c)' <=> Exists(c)
      /\ \A c \in Backup \ {b} : backups'[c] = backups[c]
      /\ Exists(b) => backups'[b] = row
  BY <1>2, <1>3, RowWrite
<1>5. ~Exists(b) => backups' = backups
  BY <1>3 DEF SetRow
<1> QED BY <1>2, <1>4, <1>5

LEMMA EnqueueLinks ==
  ASSUME TypeInv, LinkInv, NEW level \in Nat, NEW parent \in BackupOrNone,
         NEW base \in BackupOrNone, Enqueue(level, parent, base),
         parent # None => Exists(parent), base # None => Exists(base)
  PROVE  LinkInv'
<1> DEFINE new == lastBackup + 1
           row == [status |-> "queued", level |-> level, parent |-> parent,
                   base |-> base, eng |-> None, snap |-> None]
<1>1. /\ new \in Backup /\ lastBackup \in Nat /\ lastBackup' = new
      /\ backups \in [Backup -> BackupRow]
      /\ backups' = [backups EXCEPT ![new] = row]
      /\ worker' = worker /\ reconcile' = reconcile
  BY MaxBackupAssumption DEF TypeInv, TypeOK, Enqueue, Backup, BackupOrNone
<1>2. ~Exists(new)
  BY <1>1, BoundsArePositive DEF LinkInv, RowInv, IdsHandedOut, Backup
<1>3. \A c \in Backup : /\ c # new => backups'[c] = backups[c]
                        /\ Exists(c)' <=> Exists(c) \/ c = new
  BY <1>1, BoundsArePositive DEF Exists
<1>4. IdsHandedOut'
  <2>1. worker.id \in Nat /\ \A b \in Backup : b \in Nat
    BY DEF TypeInv, TypeOK, WorkerState, BackupOrNone, Backup
  <2> QED BY <1>1, <1>3, <2>1 DEF LinkInv, RowInv, IdsHandedOut
<1>5. PathsMatchEngineId'
  BY <1>1, <1>3 DEF LinkInv, RowInv, PathsMatchEngineId
<1>6. ChainAcyclic'
  <2>1. ASSUME NEW p \in Backup, Exists(p)
        PROVE  Exists(p)' /\ p < new
    BY <1>1, <1>3, <2>1 DEF LinkInv, RowInv, IdsHandedOut, Backup
  <2>2. \A p \in {parent, base} : p # None => Exists(p)' /\ p < new
    BY <2>1, BoundsArePositive
  <2>3. ASSUME NEW c \in Backup, c # new, NEW p \in {backups[c].parent, backups[c].base},
               p # None
        PROVE  Exists(p)' /\ p < c
    <3>1. p \in Backup
      BY <1>1, <2>3, BoundsArePositive DEF BackupRow
    <3> QED BY <2>1, <2>3, <3>1 DEF LinkInv, RowInv, ChainAcyclic
  <2>4. backups'[new].parent = parent /\ backups'[new].base = base
    BY <1>1
  <2> QED BY <1>3, <2>2, <2>3, <2>4 DEF ChainAcyclic
<1>7. WorkerHoldsRow'
  <2>1. worker.id # new
    BY <1>1 DEF LinkInv, RowInv, IdsHandedOut
  <2>2. Exists(worker.id) => worker.id \in Backup
    BY BoundsArePositive DEF TypeInv, TypeOK, WorkerState, Exists
  <2>3. Exists(worker.id)' => Exists(worker.id) /\ backups'[worker.id] = backups[worker.id]
    BY <1>1, <1>3, <2>1, BoundsArePositive DEF TypeInv, TypeOK, WorkerState, Exists
  <2> QED BY <1>1, <2>3 DEF LinkInv, WorkerHoldsRow
<1>8. VerdictPaths'
  BY <1>1 DEF LinkInv, VerdictPaths
<1> QED BY <1>4, <1>5, <1>6, <1>7, <1>8 DEF LinkInv, RowInv

LEMMA CreateLinks ==
  ASSUME TypeInv, LinkInv, StoreFull \/ StoreIncremental \/ RunDue
  PROVE  LinkInv'
<1>1. ASSUME NEW t \in Tips
      PROVE  /\ t \in Backup /\ Exists(t) /\ t \in BackupOrNone
             /\ backups[t].level + 1 \in Nat
             /\ backups[t].base \in BackupOrNone
             /\ backups[t].base # None => Exists(backups[t].base)
  <2>1. t \in Backup /\ Exists(t) /\ backups[t] \in BackupRow
    BY BoundsArePositive DEF Tips, Exists, TypeInv, TypeOK
  <2> QED BY <2>1, BoundsArePositive DEF BackupRow, LinkInv, RowInv, ChainAcyclic
<1>2. None \in BackupOrNone /\ 0 \in Nat
  BY BoundsArePositive
<1>3. CASE StoreFull
  BY <1>2, <1>3, EnqueueLinks DEF StoreFull
<1>4. CASE StoreIncremental
  <2>1. PICK t \in Tips :
          Enqueue(backups[t].level + 1, t,
                  IF backups[t].base # None THEN backups[t].base ELSE t)
    BY <1>4 DEF StoreIncremental
  <2> QED BY <1>1, <2>1, EnqueueLinks
<1>5. CASE RunDue
  <2>1. CASE Enqueue(0, None, None)
    BY <1>2, <2>1, EnqueueLinks
  <2>2. CASE \E t \in Tips : Exists(BaseOf(t)) /\ Enqueue(backups[t].level + 1, t, BaseOf(t))
    <3>1. PICK t \in Tips : Exists(BaseOf(t)) /\ Enqueue(backups[t].level + 1, t, BaseOf(t))
      BY <2>2
    <3>2. BaseOf(t) \in BackupOrNone
      BY <1>1 DEF BaseOf
    <3> QED BY <1>1, <3>1, <3>2, EnqueueLinks
  <2> QED BY <1>5, <2>1, <2>2 DEF RunDue
<1> QED BY <1>3, <1>4, <1>5

LEMMA JobStartLinks ==
  ASSUME TypeInv, LinkInv, JobStart
  PROVE  LinkInv'
<1> DEFINE b == Head(queue)
           r == backups[b]
           hasParent == r.level > 0 /\ r.parent # None
           noSnapshot == hasParent /\ (IF hasParent THEN ParentSnapshot(b) ELSE None) = None
           row == [r EXCEPT !.status = "running",
                            !.level  = IF noSnapshot THEN 0 ELSE r.level,
                            !.parent = IF noSnapshot THEN None ELSE r.parent,
                            !.base   = IF noSnapshot THEN None ELSE r.base]
<1>1. b \in Backup /\ backups \in [Backup -> BackupRow] /\ r \in BackupRow
  BY DEF TypeInv, TypeOK, JobStart
<1>2. lastBackup' = lastBackup /\ reconcile' = reconcile
  BY DEF JobStart
<1>3. VerdictPaths'
  BY <1>2 DEF LinkInv, VerdictPaths
<1>4. CASE UNCHANGED <<backups, worker>>
  BY <1>2, <1>3, <1>4
     DEF LinkInv, RowInv, IdsHandedOut, ChainAcyclic, PathsMatchEngineId, WorkerHoldsRow, Exists
<1>5. CASE /\ r.status # "absent" /\ backups' = [backups EXCEPT ![b] = row]
           /\ worker'.pc = "post" /\ worker'.id = b
  <2>1. /\ row \in BackupRow /\ row.status # "absent" /\ row.snap = row.eng
        /\ row.parent \in {None, r.parent} /\ row.base \in {None, r.base}
    BY <1>1, BoundsArePositive DEF BackupRow, LinkInv, RowInv, PathsMatchEngineId
  <2>2. Exists(b)
    BY <1>1, <1>5, BoundsArePositive DEF Exists
  <2>3. SetRow(b, row)
    BY <1>5, <2>2 DEF SetRow
  <2>4. worker'.id <= lastBackup
    BY <1>1, <1>5, <2>2 DEF LinkInv, RowInv, IdsHandedOut
  <2> HIDE DEF b, row
  <2>5. RowInv'
    BY <1>1, <1>2, <2>1, <2>3, <2>4, RowWrite
  <2>6. WorkerHoldsRow'
    BY <1>5 DEF WorkerHoldsRow
  <2> QED BY <1>3, <2>5, <2>6 DEF LinkInv
<1>6. \/ UNCHANGED <<backups, worker>>
      \/ /\ r.status # "absent" /\ backups' = [backups EXCEPT ![b] = row]
         /\ worker'.pc = "post" /\ worker'.id = b
  <2> DEFINE busy(w, l) == [IdleWorker EXCEPT !.pc = "post", !.id = b, !.want = w, !.level = l]
  <2>1. \A w, l : busy(w, l).pc = "post" /\ busy(w, l).id = b
    BY DEF IdleWorker
  <2>2. \/ UNCHANGED <<backups, worker>>
        \/ /\ r.status # "absent" /\ backups' = [backups EXCEPT ![b] = row]
           /\ \E w, l : worker' = busy(w, l)
    BY DEF JobStart
  <2> HIDE DEF row, busy
  <2> QED BY <2>1, <2>2
<1> QED BY <1>4, <1>5, <1>6

(* A step that leaves the table alone keeps the links as long as the worker *)
(* stays with its backup or lets go of it.                                  *)
LEMMA TableUntouched ==
  ASSUME TypeInv, LinkInv, UNCHANGED <<backups, lastBackup>>,
         \/ worker' = IdleWorker
         \/ worker'.id = worker.id /\ worker'.arc = worker.arc
            /\ (worker'.pc \in {"poll", "finish"} => worker.pc \in {"poll", "finish"})
         \/ worker'.id = worker.id /\ worker'.pc \notin {"poll", "finish"},
         \A v \in reconcile' : v.arc = v.snap
  PROVE  LinkInv'
<1>1. worker'.id <= lastBackup
  <2>1. lastBackup \in Nat
    BY DEF TypeInv, TypeOK, BackupOrNone
  <2> QED BY <2>1 DEF LinkInv, RowInv, IdsHandedOut, IdleWorker, None
<1>2. RowInv'
  BY <1>1 DEF LinkInv, RowInv, IdsHandedOut, ChainAcyclic, PathsMatchEngineId, Exists
<1>3. WorkerHoldsRow'
  BY DEF LinkInv, WorkerHoldsRow, Exists, IdleWorker
<1> QED BY <1>2, <1>3 DEF LinkInv, VerdictPaths

(* A worker that fails its backup, or finishes it, is idle afterwards.      *)
LEMMA StatusThenIdle ==
  ASSUME TypeInv, LinkInv, NEW b \in Backup,
         NEW status \in {"queued", "running", "completed", "failed"}, SetStatus(b, status),
         worker' = IdleWorker, UNCHANGED <<lastBackup, reconcile>>
  PROVE  LinkInv'
<1>1. worker'.id <= lastBackup
  BY DEF TypeInv, TypeOK, BackupOrNone, IdleWorker, None
<1>2. RowInv'
  BY <1>1, StatusWrite
<1> QED BY <1>2 DEF LinkInv, WorkerHoldsRow, VerdictPaths, IdleWorker

LEMMA JobLinks ==
  ASSUME TypeInv, LinkInv, JobPost \/ JobPostError \/ JobSeed \/ JobPoll \/ JobPollTimeout
                           \/ JobFinish \/ JobPostLost \/ WorkerCrash
  PROVE  LinkInv'
<1>1. /\ worker \in WorkerState /\ backups \in [Backup -> BackupRow]
      /\ worker.pc # "idle" => worker.id \in Backup
  BY BoundsArePositive DEF TypeInv, TypeOK, WorkerOK, WorkerState
<1>2. \A v \in reconcile : v.arc = v.snap
  BY DEF LinkInv, VerdictPaths
<1>3. CASE JobPost
  <2>1. worker'.id = worker.id /\ worker'.pc = "seed"
    BY <1>1, <1>3 DEF JobPost, WorkerState
  <2> QED BY <1>2, <1>3, <2>1, TableUntouched DEF JobPost
<1>4. CASE JobPostError
  BY <1>1, <1>4, StatusThenIdle DEF JobPostError
<1>5. CASE JobSeed
  <2> DEFINE sent == archives[worker.arc].level
             row == [backups[worker.id] EXCEPT
                       !.eng = worker.arc, !.snap = worker.arc,
                       !.level = IF sent # worker.level THEN sent ELSE @]
  <2>1. worker.id \in Backup /\ worker.arc \in ArchiveOrNone /\ worker.arc # None
    BY <1>1, <1>5 DEF JobSeed, WorkerState, TypeInv, WorkerOK
  <2>2. sent \in Nat
    BY <2>1, BoundsArePositive DEF TypeInv, TypeOK, EngineTypeOK, ArchiveRecord
  <2>3. backups[worker.id] \in BackupRow
    BY <1>1, <2>1
  <2>4. /\ row \in BackupRow /\ row.snap = worker.arc /\ row.eng = worker.arc
        /\ row.status = backups[worker.id].status
        /\ row.parent = backups[worker.id].parent /\ row.base = backups[worker.id].base
    BY <2>1, <2>2, <2>3 DEF BackupRow
  <2>5. /\ SetRow(worker.id, row) /\ lastBackup' = lastBackup /\ reconcile' = reconcile
        /\ worker' = [worker EXCEPT !.pc = "poll"]
    BY <1>5 DEF JobSeed
  <2>6. worker'.id = worker.id /\ worker'.arc = worker.arc
    BY <1>1, <2>5 DEF WorkerState
  <2>7. worker'.id <= lastBackup
    BY <2>6 DEF LinkInv, RowInv, IdsHandedOut
  <2> HIDE DEF row
  <2>8. CASE Exists(worker.id)
    <3>1. row.status # "absent"
      BY <2>4, <2>8 DEF Exists
    <3>2. RowInv' /\ backups'[worker.id] = row
      BY <2>1, <2>4, <2>5, <2>7, <2>8, <3>1, RowWrite
    <3> QED BY <1>2, <2>4, <2>5, <2>6, <3>2 DEF LinkInv, WorkerHoldsRow, VerdictPaths
  <2>9. CASE ~Exists(worker.id)
    <3>1. backups' = backups
      BY <2>5, <2>9 DEF SetRow
    <3> QED BY <1>2, <2>5, <2>6, <2>7, <2>9, <3>1
            DEF LinkInv, RowInv, IdsHandedOut, ChainAcyclic, PathsMatchEngineId,
                WorkerHoldsRow, VerdictPaths, Exists
  <2> QED BY <2>8, <2>9
<1>6. CASE JobPoll
  <2>1. worker'.id = worker.id /\ worker'.arc = worker.arc /\ worker.pc = "poll"
    BY <1>1, <1>6 DEF JobPoll, WorkerState
  <2> QED BY <1>2, <1>6, <2>1, TableUntouched DEF JobPoll
<1>7. CASE JobPollTimeout
  BY <1>2, <1>7, TableUntouched DEF JobPollTimeout
<1>8. CASE JobFinish
  <2>1. CASE worker.seen = "failed"
    BY <1>1, <1>8, <2>1, StatusThenIdle DEF JobFinish
  <2>2. CASE worker.seen # "failed"
    <3> DEFINE a == worker.arc
               r == backups[worker.id]
               done == Completed(r, a, archives[a].level)
               row == [done EXCEPT !.snap = a]
    <3>1. worker.id \in Backup /\ a \in Archive /\ r \in BackupRow
      BY <1>1, <1>8, BoundsArePositive DEF JobFinish, WorkerState, TypeInv, WorkerOK
    <3>2. archives[a].level \in Nat
      BY <3>1 DEF TypeInv, TypeOK, EngineTypeOK, ArchiveRecord
    <3>3. /\ done \in BackupRow /\ done.status = "completed" /\ done.eng = r.eng
          /\ done.parent \in {None, r.parent} /\ done.base \in {None, r.base}
      BY <3>1, <3>2, BoundsArePositive DEF Completed, BackupRow
    <3> HIDE DEF done
    <3>4. /\ row \in BackupRow /\ row.status = "completed" /\ row.eng = r.eng /\ row.snap = a
          /\ row.parent \in {None, r.parent} /\ row.base \in {None, r.base}
      BY <3>1, <3>3, BoundsArePositive DEF BackupRow
    <3>5. SetRow(worker.id, row) /\ worker' = IdleWorker /\ UNCHANGED <<lastBackup, reconcile>>
      BY <1>8, <2>2 DEF JobFinish, done
    <3>6. CASE Exists(worker.id)
      <4>1. row.snap = row.eng
        BY <1>8, <3>4, <3>6 DEF JobFinish, LinkInv, WorkerHoldsRow
      <4>2. worker'.id <= lastBackup
        BY <3>5 DEF TypeInv, TypeOK, BackupOrNone, IdleWorker, None
      <4> HIDE DEF row
      <4>3. RowInv'
        BY <3>1, <3>4, <3>5, <4>1, <4>2, RowWrite
      <4> QED BY <3>5, <4>3 DEF LinkInv, WorkerHoldsRow, VerdictPaths, IdleWorker
    <3>7. CASE ~Exists(worker.id)
      <4>1. UNCHANGED <<backups, lastBackup>>
        BY <3>5, <3>7 DEF SetRow
      <4> QED BY <1>2, <3>5, <4>1, TableUntouched
    <3> QED BY <3>6, <3>7
  <2> QED BY <2>1, <2>2
<1>9. CASE JobPostLost
  <2>1. CASE worker.calls = 0
    <3>1. worker'.id = worker.id /\ worker'.pc = "post" /\ backups' = backups
      BY <1>1, <1>9, <2>1 DEF JobPostLost, WorkerState
    <3> QED BY <1>2, <1>9, <3>1, TableUntouched DEF JobPostLost
  <2>2. CASE worker.calls # 0
    BY <1>1, <1>9, <2>2, StatusThenIdle DEF JobPostLost
  <2> QED BY <2>1, <2>2
<1>10. CASE WorkerCrash
  BY <1>2, <1>10, TableUntouched DEF WorkerCrash
<1> QED BY <1>3, <1>4, <1>5, <1>6, <1>7, <1>8, <1>9, <1>10

(* A status written from outside the worker leaves the worker's links.      *)
LEMMA StatusBeside ==
  ASSUME TypeInv, LinkInv, NEW b \in Backup,
         NEW status \in {"queued", "running", "completed", "failed"}, SetStatus(b, status),
         worker' = worker, lastBackup' = lastBackup, reconcile' \subseteq reconcile
  PROVE  LinkInv'
<1>1. worker'.id <= lastBackup
  BY DEF LinkInv, RowInv, IdsHandedOut
<1>2. /\ RowInv'
      /\ \A c \in Backup : (Exists(c)' <=> Exists(c)) /\ backups'[c].eng = backups[c].eng
  BY <1>1, StatusWrite
<1>3. Exists(worker.id) \/ Exists(worker.id)' => worker.id \in Backup
  BY BoundsArePositive DEF Exists, TypeInv, TypeOK, WorkerState
<1>4. WorkerHoldsRow'
  BY <1>2, <1>3 DEF LinkInv, WorkerHoldsRow, Exists
<1> QED BY <1>2, <1>4 DEF LinkInv, VerdictPaths

LEMMA BesideWorkerLinks ==
  ASSUME TypeInv, LinkInv,
         \/ \E b \in Backup : Retry(b) \/ JobFailedHook(b)
         \/ \E reachable \in BOOLEAN : ReconcileList(reachable)
         \/ ReconcileOne
  PROVE  LinkInv'
<1>1. backups \in [Backup -> BackupRow]
  BY DEF TypeInv, TypeOK
<1>2. \A v \in reconcile : v.arc = v.snap
  BY DEF LinkInv, VerdictPaths
<1>3. ASSUME NEW b \in Backup, Retry(b)
      PROVE  LinkInv'
  <2>1. SetStatus(b, "queued")
    <3>1. Exists(b)
      BY <1>3, BoundsArePositive DEF Retry, Exists
    <3>2. backups' = [backups EXCEPT ![b] = [backups[b] EXCEPT !.status = "queued"]]
      BY <1>1, <1>3 DEF Retry
    <3> QED BY <3>1, <3>2 DEF SetStatus, SetRow
  <2> QED BY <1>3, <2>1, StatusBeside DEF Retry
<1>4. ASSUME NEW b \in Backup, JobFailedHook(b)
      PROVE  LinkInv'
  <2>1. CASE SetStatus(b, "failed")
    BY <1>4, <2>1, StatusBeside DEF JobFailedHook
  <2>2. CASE UNCHANGED backups
    BY <1>2, <1>4, <2>2, TableUntouched DEF JobFailedHook
  <2> QED BY <1>4, <2>1, <2>2 DEF JobFailedHook
<1>5. ASSUME NEW reachable \in BOOLEAN, ReconcileList(reachable)
      PROVE  LinkInv'
  <2>1. \A v \in reconcile' : v.arc = v.snap
    BY <1>5 DEF ReconcileList, Candidates, LinkInv, RowInv, PathsMatchEngineId
  <2> QED BY <1>5, <2>1, TableUntouched DEF ReconcileList
<1>6. CASE ReconcileOne
  <2> DEFINE level(v) == IF archives[v.arc].level # v.level THEN archives[v.arc].level
                                                            ELSE backups[v.id].level
             done(v) == Completed(backups[v.id], v.arc, level(v))
             row(v) == [done(v) EXCEPT !.snap = IF v.arc # v.snap THEN v.arc ELSE @]
  <2>1. PICK v \in reconcile :
          /\ IF v.says = "completed" THEN SetRow(v.id, row(v)) ELSE SetStatus(v.id, "failed")
          /\ reconcile' \subseteq reconcile
    BY <1>6 DEF ReconcileOne
  <2>2. /\ v \in Verdict /\ v.id \in Backup /\ backups[v.id] \in BackupRow
        /\ worker' = worker /\ lastBackup' = lastBackup
    BY <1>1, <1>6 DEF TypeInv, TypeOK, Verdict, ReconcileOne
  <2>3. CASE v.says # "completed"
    BY <2>1, <2>2, <2>3, StatusBeside
  <2>4. CASE v.says = "completed"
    <3> DEFINE r == backups[v.id]
    <3>1. v.arc \in Archive
      BY <2>2, <2>4, BoundsArePositive DEF TypeInv, VerdictOK, Verdict
    <3>2. level(v) \in Nat
      BY <2>2, <3>1 DEF TypeInv, TypeOK, EngineTypeOK, ArchiveRecord, BackupRow
    <3>3. /\ done(v) \in BackupRow /\ done(v).status = "completed"
          /\ done(v).eng = r.eng /\ done(v).snap = r.snap
          /\ done(v).parent \in {None, r.parent} /\ done(v).base \in {None, r.base}
      <4> HIDE DEF level
      <4> QED BY <2>2, <3>2, BoundsArePositive DEF Completed, BackupRow
    <3> HIDE DEF done
    <3>4. v.arc = v.snap /\ r.snap = r.eng
      BY <2>2, <1>2 DEF LinkInv, RowInv, PathsMatchEngineId
    <3>5. /\ row(v) \in BackupRow /\ row(v).status = "completed"
          /\ row(v).eng = r.eng /\ row(v).snap = r.eng
          /\ row(v).parent \in {None, r.parent} /\ row(v).base \in {None, r.base}
      BY <3>3, <3>4 DEF BackupRow
    <3>6. SetRow(v.id, row(v))
      BY <2>1, <2>4 DEF done
    <3>7. worker'.id <= lastBackup
      BY <2>2 DEF LinkInv, RowInv, IdsHandedOut
    <3> HIDE DEF row
    <3>8. /\ RowInv'
          /\ \A c \in Backup : Exists(c)' <=> Exists(c)
          /\ \A c \in Backup \ {v.id} : backups'[c] = backups[c]
          /\ Exists(v.id) => backups'[v.id] = row(v)
      BY <2>2, <3>5, <3>6, <3>7, RowWrite
    <3>9. Exists(worker.id)' => Exists(worker.id) /\ backups'[worker.id].eng = backups[worker.id].eng
      <4>1. worker.id = None \/ worker.id \in Backup
        BY BoundsArePositive DEF TypeInv, TypeOK, WorkerState
      <4>2. CASE worker.id = None
        BY <2>2, <4>2 DEF Exists
      <4>3. CASE worker.id = v.id
        BY <2>2, <3>5, <3>8, <4>3 DEF Exists
      <4>4. CASE worker.id \in Backup \ {v.id}
        BY <2>2, <3>8, <4>4 DEF Exists
      <4> QED BY <4>1, <4>2, <4>3, <4>4
    <3>10. WorkerHoldsRow'
      BY <2>2, <3>9 DEF LinkInv, WorkerHoldsRow, Exists
    <3> QED BY <1>2, <2>1, <3>8, <3>10 DEF LinkInv, VerdictPaths
  <2> QED BY <2>3, <2>4
<1> QED BY <1>3, <1>4, <1>5, <1>6

LEMMA DeletingLinks ==
  ASSUME TypeInv, LinkInv, NEW d \in Deleters,
         \/ \E b \in Backup : Destroy(d, b) \/ PruneChain(d, b)
         \/ Purge(d) \/ DeleteRow(d)
  PROVE  LinkInv'
<1>1. \A v \in reconcile : v.arc = v.snap
  BY DEF LinkInv, VerdictPaths
<1>2. ASSUME NEW b \in Backup, Destroy(d, b) \/ PruneChain(d, b)
      PROVE  LinkInv'
  BY <1>1, <1>2, TableUntouched DEF Destroy, PruneChain
<1>3. CASE Purge(d)
  BY <1>1, <1>3, TableUntouched DEF Purge
<1>4. CASE DeleteRow(d)
  <2>1. PICK v \in deleting[d] :
          backups' = [b \in Backup |-> IF b = v.id THEN AbsentRow
                                      ELSE NullsForeignKeys(backups[b], v.id)]
    BY <1>4 DEF DeleteRow
  <2>2. worker' = worker /\ lastBackup' = lastBackup /\ reconcile' = reconcile
    BY <1>4 DEF DeleteRow
  <2>3. v.id \in Backup /\ backups \in [Backup -> BackupRow]
    BY DEF TypeInv, TypeOK, Victim
  <2>4. /\ backups'[v.id] = AbsentRow
        /\ ~Exists(v.id)'
    BY <2>1, <2>3 DEF Exists, AbsentRow
  <2>5. ASSUME NEW b \in Backup, b # v.id
        PROVE  /\ backups'[b].status = backups[b].status
               /\ backups'[b].eng = backups[b].eng /\ backups'[b].snap = backups[b].snap
               /\ backups'[b].parent = IF backups[b].parent = v.id THEN None ELSE backups[b].parent
               /\ backups'[b].base = IF backups[b].base = v.id THEN None ELSE backups[b].base
    <3>1. backups[b] \in BackupRow /\ backups'[b] = NullsForeignKeys(backups[b], v.id)
      BY <2>1, <2>3, <2>5
    <3> QED BY <3>1 DEF NullsForeignKeys, BackupRow
  <2>6. \A b \in Backup : Exists(b)' <=> Exists(b) /\ b # v.id
    BY <2>4, <2>5 DEF Exists
  <2>7. IdsHandedOut'
    BY <2>2, <2>6 DEF LinkInv, RowInv, IdsHandedOut
  <2>8. PathsMatchEngineId'
    BY <2>4, <2>5 DEF LinkInv, RowInv, PathsMatchEngineId, AbsentRow
  <2>9. ChainAcyclic'
    <3>1. ASSUME NEW b \in Backup, NEW p \in {backups[b].parent, backups[b].base},
                 p # None, p # v.id
          PROVE  Exists(p)' /\ p < b
      <4>1. p \in Backup
        BY <2>3, <3>1, BoundsArePositive DEF BackupRow
      <4> QED BY <2>6, <3>1, <4>1 DEF LinkInv, RowInv, ChainAcyclic
    <3>2. ASSUME NEW b \in Backup, NEW p \in {backups'[b].parent, backups'[b].base}, p # None
          PROVE  p \in {backups[b].parent, backups[b].base} /\ p # v.id
      BY <2>4, <2>5, <3>2 DEF AbsentRow
    <3> QED BY <3>1, <3>2 DEF ChainAcyclic
  <2>10. WorkerHoldsRow'
    <3>1. worker.id = None \/ worker.id \in Backup
      BY BoundsArePositive DEF TypeInv, TypeOK, WorkerState
    <3>2. CASE worker.id = None
      BY <2>2, <3>2 DEF WorkerHoldsRow, Exists
    <3>3. CASE worker.id \in Backup
      <4>1. CASE worker.id = v.id
        BY <2>2, <2>4, <4>1 DEF WorkerHoldsRow, Exists
      <4>2. CASE worker.id # v.id
        BY <2>2, <2>5, <3>3, <4>2 DEF LinkInv, WorkerHoldsRow, Exists
      <4> QED BY <4>1, <4>2
    <3> QED BY <3>1, <3>2, <3>3
  <2> QED BY <1>1, <2>2, <2>7, <2>8, <2>9, <2>10 DEF LinkInv, RowInv, VerdictPaths
<1> QED BY <1>2, <1>3, <1>4

LEMMA LinkStep == TypeInv /\ LinkInv /\ [Next]_vars => LinkInv'
<1> SUFFICES ASSUME TypeInv, LinkInv, [Next]_vars PROVE LinkInv'
  OBVIOUS
<1>1. \A v \in reconcile : v.arc = v.snap
  BY DEF LinkInv, VerdictPaths
<1>2. CASE UNCHANGED vars
  BY <1>1, <1>2, TableUntouched DEF vars, panelVars
<1>3. CASE Request
  BY <1>3, CreateLinks, BesideWorkerLinks, DeletingLinks DEF Request
<1>4. CASE Job \/ JobPostLost \/ WorkerCrash
  BY <1>4, JobStartLinks, JobLinks DEF Job
<1>5. CASE EngineStep
  BY <1>1, <1>5, TableUntouched DEF EngineStep, panelVars
<1>6. CASE Restart
  BY <1>1, <1>6, TableUntouched DEF Restart
<1> QED BY <1>2, <1>3, <1>4, <1>5, <1>6, BesideWorkerLinks, DeletingLinks DEF Next

LEMMA LinkInvariant == Spec => []LinkInv
BY TypeInit, TypeStep, LinkInit, LinkStep, PTL DEF Spec

(* Parents and bases exist and are older than what hangs on them, in spite  *)
(* of deletions between the read of a parent and any later step: the walk   *)
(* of Backup::restoreChain always ends.                                     *)
THEOREM ChainsAreAcyclic == Spec => []ChainAcyclic
<1>1. LinkInv => ChainAcyclic
  BY DEF LinkInv, RowInv
<1> QED BY <1>1, LinkInvariant, PTL

(* The paths of a row and its engine id name one archive, although two      *)
(* finalizers write the paths from engine rows they read earlier.           *)
THEOREM PathsBelongToEngineId == Spec => []PathsMatchEngineId
<1>1. LinkInv => PathsMatchEngineId
  BY DEF LinkInv, RowInv
<1> QED BY <1>1, LinkInvariant, PTL

-----------------------------------------------------------------------------
(* The inductive invariant                                                  *)

(* Jobs are taken in the order of the ids, and a backup that waits or whose *)
(* POST is not stored yet has no archive.                                   *)
QueueFresh ==
  /\ \A i \in 1 .. Len(queue) : /\ worker.id < queue[i] /\ queue[i] <= lastBackup
                                /\ backups[queue[i]].eng = None
  /\ \A i, j \in 1 .. Len(queue) : i < j => queue[i] < queue[j]
  /\ worker.pc \in {"post", "seed"} => backups[worker.id].eng = None

(* Whoever is a parent has an archive, which therefore never changes.       *)
ParentHasArchive ==
  \A b \in Backup : backups[b].parent # None => backups[backups[b].parent].eng # None

(* A snapshot w sent for b is the one of b's parent, when b still has one.  *)
RightWant(b, w) ==
  backups[b].parent # None => w \in {None, backups[backups[b].parent].eng}

WantsParent ==
  /\ worker.pc = "post" => RightWant(worker.id, worker.want)
  /\ worker.pc = "seed" => RightWant(worker.id, archives[worker.arc].want)
  /\ \A b \in Backup : backups[b].eng # None => RightWant(b, archives[backups[b].eng].want)

(* Ids of archives are handed out once, and an archive is made on what was  *)
(* asked for or on nothing.                                                 *)
ArchivesHandedOut ==
  /\ \A b \in Backup : backups[b].eng <= lastArchive
  /\ worker.arc <= lastArchive

MadeOnWanted == \A a \in Archive : archives[a].on \in {None, archives[a].want}

SitInv == QueueFresh /\ ParentHasArchive /\ WantsParent /\ ArchivesHandedOut /\ MadeOnWanted

LEMMA SitInit == Init => SitInv
<1> SUFFICES ASSUME Init PROVE SitInv
  OBVIOUS
<1>1. \A b \in Backup : backups[b].parent = None /\ backups[b].eng = None
  BY DEF Init, AbsentRow
<1>2. worker.pc = "idle" /\ worker.arc = None /\ Len(queue) = 0 /\ lastArchive = 0
  BY DEF Init, EngineInit, IdleWorker
<1>3. MadeOnWanted
  BY DEF Init, EngineInit, UnusedArchive, MadeOnWanted
<1> QED BY <1>1, <1>2, <1>3
        DEF SitInv, QueueFresh, ParentHasArchive, WantsParent, ArchivesHandedOut, None

-----------------------------------------------------------------------------
(* What most steps do to the rows: archives and parents are kept or lost,   *)
(* and a parent that is kept keeps its archive.                             *)
RowsOnlyLose ==
  \A c \in Backup :
    /\ backups'[c].eng \in {None, backups[c].eng}
    /\ backups'[c].parent \in {None, backups[c].parent}
    /\ backups'[c].parent # None
         => backups'[backups[c].parent].eng = backups[backups[c].parent].eng

(* What every step does to the engine: what was asked for stays.            *)
WantsKept ==
  /\ lastArchive <= lastArchive'
  /\ \A a \in Archive : a <= lastArchive => archives'[a].want = archives[a].want
  /\ MadeOnWanted'

LEMMA RowsKeep ==
  ASSUME TypeInv, TypeInv', SitInv, RowsOnlyLose, WantsKept
  PROVE  /\ ParentHasArchive'
         /\ \A b \in Backup : backups'[b].eng <= lastArchive'
         /\ \A b \in Backup : backups'[b].eng # None
                                => RightWant(b, archives[backups[b].eng].want)'
<1>1. backups \in [Backup -> BackupRow] /\ lastArchive \in Nat /\ lastArchive' \in Nat
  BY DEF TypeInv, TypeOK, EngineTypeOK, ArchiveOrNone
<1>2. ParentHasArchive'
  BY DEF SitInv, ParentHasArchive, RowsOnlyLose
<1>3. ASSUME NEW b \in Backup
      PROVE  backups'[b].eng <= lastArchive'
  <2>1. backups[b].eng \in Nat /\ backups[b].eng <= lastArchive
    BY <1>1 DEF BackupRow, ArchiveOrNone, SitInv, ArchivesHandedOut
  <2> QED BY <1>1, <2>1 DEF RowsOnlyLose, WantsKept, None
<1>4. ASSUME NEW b \in Backup, backups'[b].eng # None
      PROVE  RightWant(b, archives[backups[b].eng].want)'
  <2> DEFINE a == backups[b].eng
  <2>1. backups'[b].eng = a /\ a # None
    BY <1>4 DEF RowsOnlyLose
  <2>2. a \in Archive /\ a <= lastArchive
    BY <1>1, <2>1, BoundsArePositive DEF BackupRow, SitInv, ArchivesHandedOut
  <2>3. archives'[a].want = archives[a].want
    BY <2>2 DEF WantsKept
  <2>4. RightWant(b, archives[a].want)
    BY <2>1 DEF SitInv, WantsParent
  <2> HIDE DEF a
  <2> QED BY <2>1, <2>3, <2>4 DEF RightWant, RowsOnlyLose
<1> QED BY <1>2, <1>3, <1>4

(* A step that neither starts, answers nor seeds a job.                     *)
LEMMA NoJobProgress ==
  ASSUME TypeInv, TypeInv', SitInv, RowsOnlyLose, WantsKept, UNCHANGED <<queue, lastBackup>>,
         \/ worker' = worker
         \/ worker' = IdleWorker
         \/ worker'.id = worker.id /\ worker'.arc = worker.arc
            /\ worker'.pc \in {"poll", "finish"}
         \/ worker'.id = worker.id /\ worker'.arc = worker.arc /\ worker'.want = worker.want
            /\ worker'.pc = "post" /\ worker.pc = "post"
  PROVE  SitInv'
<1>1. /\ worker \in WorkerState /\ lastArchive \in Nat /\ lastArchive' \in Nat
      /\ worker.pc # "idle" => worker.id \in Backup
      /\ worker.pc \in {"seed", "poll", "finish"} => worker.arc \in Archive
      /\ queue \in Seq(Backup)
  BY BoundsArePositive DEF TypeInv, TypeOK, EngineTypeOK, ArchiveOrNone, WorkerOK, WorkerState
<1>2. worker'.id \in {worker.id, 0} /\ worker'.arc \in {worker.arc, 0}
  BY DEF IdleWorker, None
<1>3. worker'.pc \in {"post", "seed"} => /\ worker'.id = worker.id /\ worker'.arc = worker.arc
                                        /\ worker'.want = worker.want /\ worker'.pc = worker.pc
  BY DEF IdleWorker
<1>4. QueueFresh'
  <2>1. ASSUME NEW i \in 1 .. Len(queue)
        PROVE  worker'.id < queue[i] /\ queue[i] <= lastBackup /\ backups'[queue[i]].eng = None
    <3>1. queue[i] \in Backup
      BY <1>1
    <3> QED BY <1>2, <3>1 DEF SitInv, QueueFresh, RowsOnlyLose, Backup
  <2>2. worker'.pc \in {"post", "seed"} => backups'[worker'.id].eng = None
    BY <1>1, <1>3 DEF SitInv, QueueFresh, RowsOnlyLose
  <2> QED BY <2>1, <2>2 DEF SitInv, QueueFresh
<1>5. ArchivesHandedOut'
  <2>1. worker.arc \in Nat
    BY <1>1 DEF WorkerState, ArchiveOrNone
  <2> QED BY <1>1, <1>2, <2>1, RowsKeep DEF SitInv, ArchivesHandedOut, WantsKept
<1>6. WantsParent'
  <2>1. CASE worker'.pc = "post"
    BY <1>1, <1>3, <2>1, RowsKeep DEF SitInv, WantsParent, RightWant, RowsOnlyLose
  <2>2. CASE worker'.pc = "seed"
    <3>1. archives'[worker.arc].want = archives[worker.arc].want
      BY <1>1, <1>3, <2>2 DEF SitInv, ArchivesHandedOut, WantsKept
    <3>2. RightWant(worker.id, archives[worker.arc].want)'
      BY <1>1, <1>3, <2>2, <3>1 DEF SitInv, WantsParent, RightWant, RowsOnlyLose
    <3> QED BY <2>2, <3>2, RowsKeep DEF WantsParent
  <2> QED BY <2>1, <2>2, RowsKeep DEF WantsParent
<1> QED BY <1>4, <1>5, <1>6, RowsKeep DEF SitInv, WantsKept

-----------------------------------------------------------------------------
(* Every engine step keeps what was asked for                               *)

LEMMA EngineUntouched ==
  ASSUME TypeInv, SitInv, UNCHANGED engineVars
  PROVE  WantsKept
BY DEF engineVars, WantsKept, SitInv, MadeOnWanted, TypeInv, TypeOK, EngineTypeOK, ArchiveOrNone

LEMMA ArchivingKeepsWants ==
  ASSUME TypeInv, SitInv, NEW a \in Archive, Archiving(a)
  PROVE  WantsKept
<1>1. archives \in [Archive -> ArchiveRecord] /\ archives[a] \in ArchiveRecord
      /\ lastArchive \in Nat /\ MadeOnWanted
  BY DEF TypeInv, TypeOK, EngineTypeOK, ArchiveOrNone, SitInv
<1>2. SUFFICES /\ \A c \in Archive : /\ archives'[c].want = archives[c].want
                                     /\ archives'[c].on \in {None, archives[c].on, archives[c].want}
               /\ lastArchive' = lastArchive
  BY <1>1 DEF WantsKept, MadeOnWanted
<1>3. CASE ArchiveStart(a)
  <2> DEFINE on == IF archives[a].want # None /\ archives[archives[a].want].disk
                     THEN archives[a].want ELSE None
             new == [archives[a] EXCEPT !.work = "tar", !.disk = TRUE, !.on = on]
  <2>1. new.want = archives[a].want /\ new.on \in {None, archives[a].want}
    BY <1>1 DEF ArchiveRecord
  <2>2. archives' = [archives EXCEPT ![a] = new] /\ lastArchive' = lastArchive
    BY <1>3 DEF ArchiveStart
  <2> HIDE DEF new
  <2> QED BY <1>1, <2>1, <2>2
<1>4. CASE ArchiveDone(a)
  BY <1>1, <1>4 DEF ArchiveDone
<1>5. CASE ArchiveFallback(a)
  BY <1>1, <1>5 DEF ArchiveFallback
<1>6. CASE ArchiveFail(a)
  BY <1>1, <1>6 DEF ArchiveFail
<1> QED BY <1>3, <1>4, <1>5, <1>6 DEF Archiving

LEMMA QueueKeepsWants ==
  ASSUME TypeInv, SitInv, NEW owner \in BackupOrNone, NEW level \in Nat,
         NEW want \in ArchiveOrNone, BackupQueue(owner, level, want)
  PROVE  /\ WantsKept
         /\ lastArchive' = lastArchive + 1
         /\ lastArchive + 1 \in Archive
         /\ archives'[lastArchive + 1].want = want
<1> DEFINE row == [row |-> "running", owner |-> owner,
                   level |-> IF want = None THEN 0 ELSE level, want |-> want,
                   work |-> "starting", on |-> None, disk |-> FALSE]
<1>1. /\ archives \in [Archive -> ArchiveRecord] /\ lastArchive \in Nat /\ MadeOnWanted
      /\ lastArchive + 1 \in Archive
  BY QueueTypes DEF TypeInv, TypeOK, EngineTypeOK, ArchiveOrNone, SitInv
<1>2. archives' = [archives EXCEPT ![lastArchive + 1] = row] /\ lastArchive' = lastArchive + 1
  BY DEF BackupQueue
<1>3. row.want = want /\ row.on = None
  OBVIOUS
<1> HIDE DEF row
<1>4. \A a \in Archive : a <= lastArchive => archives'[a] = archives[a]
  BY <1>1, <1>2 DEF Archive
<1>5. MadeOnWanted'
  BY <1>1, <1>2, <1>3 DEF MadeOnWanted
<1> QED BY <1>1, <1>2, <1>3, <1>4, <1>5 DEF WantsKept

LEMMA DeleteKeepsWants ==
  ASSUME TypeInv, SitInv, NEW a \in Archive, BackupDelete(a)
  PROVE  WantsKept
<1>1. archives \in [Archive -> ArchiveRecord] /\ archives[a] \in ArchiveRecord
      /\ lastArchive \in Nat /\ MadeOnWanted /\ lastArchive' = lastArchive
  BY DEF TypeInv, TypeOK, EngineTypeOK, ArchiveOrNone, SitInv, BackupDelete
<1>2. CASE archives' = archives
  BY <1>1, <1>2 DEF WantsKept, MadeOnWanted
<1>3. CASE archives' = [archives EXCEPT ![a].row = "deleted", ![a].disk = FALSE]
  BY <1>1, <1>3 DEF WantsKept, MadeOnWanted
<1> QED BY <1>2, <1>3 DEF BackupDelete

LEMMA RestartKeepsWants ==
  ASSUME TypeInv, SitInv, EngineRestart
  PROVE  WantsKept
<1>1. archives \in [Archive -> ArchiveRecord] /\ lastArchive \in Nat /\ MadeOnWanted
      /\ lastArchive' = lastArchive
  BY DEF TypeInv, TypeOK, EngineTypeOK, ArchiveOrNone, SitInv, EngineRestart
<1>2. ASSUME NEW a \in Archive
      PROVE  archives'[a].want = archives[a].want /\ archives'[a].on = archives[a].on
  <2>1. archives'[a] = [archives[a] EXCEPT !.work = "none"] /\ archives[a] \in ArchiveRecord
    BY <1>1 DEF EngineRestart
  <2> QED BY <2>1 DEF ArchiveRecord
<1> QED BY <1>1, <1>2 DEF WantsKept, MadeOnWanted

-----------------------------------------------------------------------------
(* Which writes to the rows only lose                                       *)

LEMMA UntouchedOnlyLoses == ASSUME UNCHANGED backups PROVE RowsOnlyLose
BY DEF RowsOnlyLose

LEMMA SetRowOnlyLoses ==
  ASSUME TypeInv, LinkInv, NEW b \in Backup, NEW row \in BackupRow, SetRow(b, row),
         row.eng = backups[b].eng, row.parent \in {None, backups[b].parent}
  PROVE  RowsOnlyLose
<1>1. backups \in [Backup -> BackupRow]
  BY DEF TypeInv, TypeOK
<1>2. \A c \in Backup : backups'[c].eng = backups[c].eng
                        /\ backups'[c].parent \in {None, backups[c].parent}
  BY <1>1 DEF SetRow
<1>3. \A c \in Backup : backups[c].parent # None => backups[c].parent \in Backup
  BY <1>1, BoundsArePositive DEF BackupRow
<1> QED BY <1>2, <1>3 DEF RowsOnlyLose

LEMMA SetStatusOnlyLoses ==
  ASSUME TypeInv, LinkInv, NEW b \in Backup,
         NEW status \in {"queued", "running", "completed", "failed"}, SetStatus(b, status)
  PROVE  RowsOnlyLose
<1> DEFINE row == [backups[b] EXCEPT !.status = status]
<1>1. backups[b] \in BackupRow
  BY DEF TypeInv, TypeOK
<1>2. row \in BackupRow /\ row.eng = backups[b].eng /\ row.parent = backups[b].parent
  BY <1>1 DEF BackupRow
<1>3. SetRow(b, row)
  BY DEF SetStatus
<1> HIDE DEF row
<1> QED BY <1>2, <1>3, SetRowOnlyLoses

LEMMA CompletedOnlyLoses ==
  ASSUME NEW r \in BackupRow, NEW a \in Archive, NEW level \in Nat, NEW snap \in ArchiveOrNone
  PROVE  LET row == [Completed(r, a, level) EXCEPT !.snap = snap]
         IN row \in BackupRow /\ row.eng = r.eng /\ row.parent \in {None, r.parent}
<1> DEFINE done == Completed(r, a, level)
<1>1. done \in BackupRow /\ done.eng = r.eng /\ done.parent \in {None, r.parent}
  BY BoundsArePositive DEF Completed, BackupRow
<1> HIDE DEF done
<1>2. [done EXCEPT !.snap = snap] \in BackupRow
      /\ [done EXCEPT !.snap = snap].eng = done.eng
      /\ [done EXCEPT !.snap = snap].parent = done.parent
  BY <1>1 DEF BackupRow
<1> QED BY <1>1, <1>2 DEF done

LEMMA DeleteRowOnlyLoses ==
  ASSUME TypeInv, LinkInv, NEW d \in Deleters, DeleteRow(d)
  PROVE  RowsOnlyLose
<1>1. PICK v \in deleting[d] :
        backups' = [b \in Backup |-> IF b = v.id THEN AbsentRow
                                    ELSE NullsForeignKeys(backups[b], v.id)]
  BY DEF DeleteRow
<1>2. v.id \in Backup /\ backups \in [Backup -> BackupRow]
  BY DEF TypeInv, TypeOK, Victim
<1>3. backups'[v.id].eng = None /\ backups'[v.id].parent = None
  BY <1>1, <1>2 DEF AbsentRow
<1>4. ASSUME NEW b \in Backup, b # v.id
      PROVE  /\ backups'[b].eng = backups[b].eng
             /\ backups'[b].parent = IF backups[b].parent = v.id THEN None ELSE backups[b].parent
  <2>1. backups[b] \in BackupRow /\ backups'[b] = NullsForeignKeys(backups[b], v.id)
    BY <1>1, <1>2, <1>4
  <2> QED BY <2>1 DEF NullsForeignKeys, BackupRow
<1>5. \A c \in Backup : backups[c].parent # None => backups[c].parent \in Backup
  BY <1>2, BoundsArePositive DEF BackupRow
<1> QED BY <1>3, <1>4, <1>5 DEF RowsOnlyLose

-----------------------------------------------------------------------------
(* The steps of the job that move an archive or a snapshot                  *)

LEMMA EnqueueSits ==
  ASSUME TypeInv, LinkInv, SitInv, NEW level \in Nat, NEW parent \in BackupOrNone,
         NEW base \in BackupOrNone, Enqueue(level, parent, base),
         parent # None => Exists(parent) /\ backups[parent].eng # None
  PROVE  SitInv'
<1> DEFINE new == lastBackup + 1
           row == [status |-> "queued", level |-> level, parent |-> parent,
                   base |-> base, eng |-> None, snap |-> None]
<1>1. /\ new \in Backup /\ lastBackup \in Nat /\ lastBackup' = new
      /\ backups \in [Backup -> BackupRow] /\ queue \in Seq(Backup)
      /\ backups' = [backups EXCEPT ![new] = row] /\ queue' = Append(queue, new)
      /\ worker' = worker /\ archives' = archives /\ lastArchive' = lastArchive
      /\ worker.id <= lastBackup /\ worker.id \in Nat
      /\ worker.pc # "idle" => worker.id \in Backup
  BY MaxBackupAssumption, BoundsArePositive
     DEF TypeInv, TypeOK, Enqueue, Backup, BackupOrNone, LinkInv, RowInv, IdsHandedOut,
         engineVars, WorkerOK, WorkerState
<1>2. row.eng = None /\ row.parent = parent
  OBVIOUS
<1> HIDE DEF row
<1>3. /\ backups'[new].eng = None /\ backups'[new].parent = parent
      /\ \A b \in Backup \ {new} : backups'[b] = backups[b]
  BY <1>1, <1>2
<1>4. ~Exists(new) /\ \A b \in Backup : backups[b].parent # new
  BY <1>1, BoundsArePositive DEF LinkInv, RowInv, IdsHandedOut, ChainAcyclic
<1>5. parent # None => parent \in Backup \ {new}
  BY <1>4, BoundsArePositive
<1>6. \A b \in Backup : backups[b].parent # None => backups[b].parent \in Backup \ {new}
  BY <1>1, <1>4, BoundsArePositive DEF BackupRow
<1>7. ParentHasArchive'
  BY <1>3, <1>5, <1>6 DEF SitInv, ParentHasArchive
<1>8. \A b \in Backup \ {new} : \A w : RightWant(b, w) => (backups'[b].parent # None
                                 => w \in {None, backups'[backups'[b].parent].eng})
  BY <1>3, <1>6 DEF RightWant
<1>9. worker.pc # "idle" => worker.id \in Backup \ {new}
  BY <1>1
<1>10. WantsParent'
  BY <1>1, <1>3, <1>8, <1>9 DEF SitInv, WantsParent, RightWant
<1>11. QueueFresh'
  <2>1. /\ Len(queue') = Len(queue) + 1 /\ Len(queue) \in Nat
        /\ \A i \in 1 .. Len(queue) : queue'[i] = queue[i] /\ queue[i] \in Backup
        /\ queue'[Len(queue) + 1] = new
    BY <1>1
  <2>2. ASSUME NEW i \in 1 .. Len(queue)
        PROVE  /\ worker.id < queue[i] /\ queue[i] < new
               /\ backups'[queue[i]].eng = None
    <3>1. queue[i] \in Backup /\ queue[i] <= lastBackup
      BY <2>1 DEF SitInv, QueueFresh
    <3>2. queue[i] # new /\ queue[i] < new
      BY <1>1, <3>1 DEF Backup
    <3> QED BY <1>3, <3>1, <3>2 DEF SitInv, QueueFresh
  <2>3. \A i \in 1 .. Len(queue) + 1 : i \in 1 .. Len(queue) \/ i = Len(queue) + 1
    BY <2>1
  <2>4. \A i \in 1 .. Len(queue') : /\ worker'.id < queue'[i] /\ queue'[i] <= lastBackup'
                                   /\ backups'[queue'[i]].eng = None
    BY <1>1, <1>3, <2>1, <2>2, <2>3 DEF Backup
  <2>5. \A i, j \in 1 .. Len(queue') : i < j => queue'[i] < queue'[j]
    BY <2>1, <2>2, <2>3 DEF SitInv, QueueFresh
  <2>6. worker'.pc \in {"post", "seed"} => backups'[worker'.id].eng = None
    BY <1>1, <1>3, <1>9 DEF SitInv, QueueFresh
  <2> QED BY <2>4, <2>5, <2>6 DEF QueueFresh
<1>12. ArchivesHandedOut'
  <2>1. 0 <= lastArchive
    BY DEF TypeInv, TypeOK, EngineTypeOK, ArchiveOrNone
  <2> QED BY <1>1, <1>3, <2>1 DEF SitInv, ArchivesHandedOut, None
<1> QED BY <1>1, <1>7, <1>10, <1>11, <1>12 DEF SitInv, MadeOnWanted

(* The queue without its head, for a worker that is idle or took the head.  *)
LEMMA TailFresh ==
  ASSUME TypeInv, SitInv, RowsOnlyLose, queue # <<>>, queue' = Tail(queue),
         lastBackup' = lastBackup,
         \/ worker' = worker
         \/ worker'.id = Head(queue) /\ worker'.pc = "post"
  PROVE  QueueFresh'
<1>1. /\ queue \in Seq(Backup) /\ worker.id \in Nat
      /\ worker.pc # "idle" => worker.id \in Backup
  BY BoundsArePositive DEF TypeInv, TypeOK, WorkerOK, WorkerState, BackupOrNone
<1>2. /\ Len(queue) \in Nat \ {0} /\ Len(queue') = Len(queue) - 1 /\ Head(queue) = queue[1]
      /\ \A i \in 1 .. Len(queue) - 1 : queue'[i] = queue[i + 1]
      /\ \A i \in 1 .. Len(queue) : queue[i] \in Backup
  BY <1>1
<1>3. /\ \A i \in 1 .. Len(queue) : /\ worker.id < queue[i] /\ queue[i] <= lastBackup
                                    /\ backups'[queue[i]].eng = None
      /\ \A i, j \in 1 .. Len(queue) : i < j => queue[i] < queue[j]
  BY <1>2 DEF SitInv, QueueFresh, RowsOnlyLose
<1>4. \A i \in 1 .. Len(queue) - 1 : i + 1 \in 1 .. Len(queue) /\ 1 \in 1 .. Len(queue) /\ 1 < i + 1
  BY <1>2
<1>5. \A i \in 1 .. Len(queue') : /\ queue[1] < queue'[i] /\ worker.id < queue'[i]
                                 /\ queue'[i] <= lastBackup /\ backups'[queue'[i]].eng = None
  BY <1>2, <1>3, <1>4
<1>6. \A i, j \in 1 .. Len(queue') : i < j => queue'[i] < queue'[j]
  <2>1. ASSUME NEW i \in 1 .. Len(queue) - 1, NEW j \in 1 .. Len(queue) - 1, i < j
        PROVE  queue'[i] < queue'[j]
    <3>1. i + 1 < j + 1
      BY <2>1
    <3> QED BY <1>2, <1>3, <1>4, <3>1
  <2> QED BY <1>2, <2>1
<1>7. worker'.pc \in {"post", "seed"} => backups'[worker'.id].eng = None
  <2>1. CASE worker' = worker
    BY <1>1, <2>1 DEF SitInv, QueueFresh, RowsOnlyLose
  <2>2. CASE worker'.id = Head(queue)
    BY <1>2, <1>3, <2>2
  <2> QED BY <2>1, <2>2
<1> QED BY <1>2, <1>5, <1>6, <1>7 DEF QueueFresh

LEMMA JobStartSits ==
  ASSUME TypeInv, TypeInv', LinkInv, SitInv, JobStart
  PROVE  SitInv'
<1> DEFINE b == Head(queue)
           r == backups[b]
           hasParent == r.level > 0 /\ r.parent # None
           want == IF hasParent THEN ParentSnapshot(b) ELSE None
           noSnapshot == hasParent /\ want = None
           level == IF noSnapshot THEN 0 ELSE r.level
           row == [r EXCEPT !.status = "running",
                            !.level  = IF noSnapshot THEN 0 ELSE r.level,
                            !.parent = IF noSnapshot THEN None ELSE r.parent,
                            !.base   = IF noSnapshot THEN None ELSE r.base]
           busy == [IdleWorker EXCEPT !.pc = "post", !.id = b, !.want = want, !.level = level]
<1>1. /\ b \in Backup /\ backups \in [Backup -> BackupRow] /\ r \in BackupRow
      /\ queue # <<>> /\ queue' = Tail(queue) /\ lastBackup' = lastBackup
      /\ UNCHANGED engineVars /\ worker.pc = "idle"
  BY DEF TypeInv, TypeOK, JobStart
<1>2. WantsKept
  BY <1>1, EngineUntouched
<1>3. CASE UNCHANGED <<backups, worker>>
  <2>1. RowsOnlyLose
    BY <1>3, UntouchedOnlyLoses
  <2>2. QueueFresh'
    BY <1>1, <1>3, <2>1, TailFresh
  <2>3. WantsParent' /\ ArchivesHandedOut' /\ ParentHasArchive'
    BY <1>1, <1>3, <2>1, <1>2, RowsKeep DEF SitInv, WantsParent, ArchivesHandedOut, engineVars
  <2> QED BY <1>2, <2>2, <2>3 DEF SitInv, WantsKept
<1>4. CASE backups' = [backups EXCEPT ![b] = row] /\ worker' = busy /\ r.status # "absent"
  <2>1. /\ row \in BackupRow /\ row.eng = r.eng
        /\ row.parent = IF noSnapshot THEN None ELSE r.parent
    BY <1>1, BoundsArePositive DEF BackupRow
  <2>2. worker'.pc = "post" /\ worker'.id = b /\ worker'.want = want /\ worker'.arc = None
    BY <1>4 DEF IdleWorker
  <2>3. SetRow(b, row)
    BY <1>1, <1>4, BoundsArePositive DEF SetRow, Exists
  <2>4. backups'[b] = row
    BY <1>1, <1>4
  <2> HIDE DEF row
  <2>5. RowsOnlyLose
    BY <1>1, <2>1, <2>3, SetRowOnlyLoses
  <2>6. QueueFresh'
    BY <1>1, <2>2, <2>5, TailFresh
  <2>7. backups'[b].parent # None => want \in {None, backups'[backups'[b].parent].eng}
    <3>1. SUFFICES ASSUME backups'[b].parent # None
                   PROVE  want \in {None, backups'[r.parent].eng} /\ backups'[b].parent = r.parent
      OBVIOUS
    <3>2. backups'[b].parent = r.parent /\ r.parent # None
      BY <2>1, <2>4, <3>1
    <3>3. backups'[r.parent].eng = backups[r.parent].eng
      BY <1>1, <2>5, <3>1 DEF RowsOnlyLose
    <3>4. want \in {None, backups[r.parent].snap}
      BY DEF ParentSnapshot
    <3>5. backups[r.parent].snap = backups[r.parent].eng
      BY <1>1, <3>2, BoundsArePositive DEF LinkInv, RowInv, PathsMatchEngineId, BackupRow
    <3> HIDE DEF want
    <3> QED BY <3>2, <3>3, <3>4, <3>5
  <2> HIDE DEF want
  <2>8. WantsParent'
    BY <1>2, <2>2, <2>5, <2>7, RowsKeep DEF WantsParent, RightWant
  <2>9. ArchivesHandedOut' /\ ParentHasArchive'
    <3>1. lastArchive' \in Nat
      BY DEF TypeInv, TypeOK, EngineTypeOK, ArchiveOrNone
    <3> QED BY <1>2, <2>2, <2>5, <3>1, RowsKeep DEF ArchivesHandedOut, None
  <2> QED BY <1>2, <2>6, <2>8, <2>9 DEF SitInv, WantsKept
<1> QED
  <2>1. \/ UNCHANGED <<backups, worker>>
        \/ backups' = [backups EXCEPT ![b] = row] /\ worker' = busy /\ r.status # "absent"
    BY DEF JobStart
  <2> QED BY <1>3, <1>4, <2>1

(* The POST: the new archive was asked for with the worker's snapshot.      *)
LEMMA JobPostSits ==
  ASSUME TypeInv, TypeInv', LinkInv, SitInv, JobPost
  PROVE  SitInv'
<1>1. /\ worker \in WorkerState /\ worker.pc = "post" /\ worker.id \in Backup
      /\ worker' = [worker EXCEPT !.pc = "seed", !.calls = @ + 1, !.arc = lastArchive + 1]
      /\ UNCHANGED <<backups, queue, lastBackup>>
      /\ BackupQueue(worker.id, worker.level, worker.want)
  BY BoundsArePositive DEF JobPost, TypeInv, TypeOK, WorkerOK, WorkerState
<1>2. /\ worker'.pc = "seed" /\ worker'.id = worker.id /\ worker'.arc = lastArchive + 1
      /\ worker.id \in BackupOrNone /\ worker.level \in Nat /\ worker.want \in ArchiveOrNone
  BY <1>1, BoundsArePositive DEF WorkerState
<1>3. /\ WantsKept /\ lastArchive' = lastArchive + 1
      /\ archives'[lastArchive + 1].want = worker.want
  BY <1>1, <1>2, QueueKeepsWants
<1>4. RowsOnlyLose
  BY <1>1, UntouchedOnlyLoses
<1>5. QueueFresh'
  BY <1>1, <1>2 DEF SitInv, QueueFresh
<1>6. WantsParent'
  BY <1>1, <1>2, <1>3, <1>4, RowsKeep DEF SitInv, WantsParent, RightWant
<1>7. ArchivesHandedOut' /\ ParentHasArchive'
  <2>1. lastArchive' \in Nat
    BY DEF TypeInv, TypeOK, EngineTypeOK, ArchiveOrNone
  <2> QED BY <1>2, <1>3, <1>4, <2>1, RowsKeep DEF ArchivesHandedOut
<1> QED BY <1>3, <1>5, <1>6, <1>7 DEF SitInv, WantsKept

LEMMA JobPostLostSits ==
  ASSUME TypeInv, TypeInv', LinkInv, SitInv, JobPostLost
  PROVE  SitInv'
<1>1. /\ worker \in WorkerState /\ worker.pc = "post" /\ worker.id \in Backup
      /\ worker.id \in BackupOrNone /\ worker.level \in Nat /\ worker.want \in ArchiveOrNone
      /\ BackupQueue(worker.id, worker.level, worker.want)
      /\ UNCHANGED <<queue, lastBackup>>
  BY BoundsArePositive DEF JobPostLost, TypeInv, TypeOK, WorkerOK, WorkerState
<1>2. WantsKept
  BY <1>1, QueueKeepsWants
<1>3. CASE worker' = [worker EXCEPT !.calls = 1] /\ UNCHANGED backups
  <2>1. /\ worker'.id = worker.id /\ worker'.arc = worker.arc
        /\ worker'.want = worker.want /\ worker'.pc = "post"
    BY <1>1, <1>3 DEF WorkerState
  <2> QED BY <1>1, <1>2, <1>3, <2>1, UntouchedOnlyLoses, NoJobProgress
<1>4. CASE worker' = IdleWorker /\ SetStatus(worker.id, "failed")
  BY <1>1, <1>2, <1>4, SetStatusOnlyLoses, NoJobProgress
<1> QED BY <1>3, <1>4 DEF JobPostLost

(* The seed gives a backup its archive.  No row has it for a parent yet.    *)
LEMMA JobSeedSits ==
  ASSUME TypeInv, TypeInv', LinkInv, SitInv, JobSeed
  PROVE  SitInv'
<1> DEFINE w == worker.id
           sent == archives[worker.arc].level
           row == [backups[w] EXCEPT !.eng = worker.arc, !.snap = worker.arc,
                                     !.level = IF sent # worker.level THEN sent ELSE @]
<1>1. /\ worker \in WorkerState /\ worker.pc = "seed" /\ w \in Backup
      /\ worker.arc \in Archive /\ worker.arc \in Nat
      /\ backups \in [Backup -> BackupRow] /\ backups[w] \in BackupRow
      /\ worker' = [worker EXCEPT !.pc = "poll"] /\ SetRow(w, row)
      /\ UNCHANGED engineVars /\ UNCHANGED <<queue, lastBackup>>
      /\ queue \in Seq(Backup) /\ lastArchive \in Nat
  BY BoundsArePositive
     DEF JobSeed, TypeInv, TypeOK, EngineTypeOK, WorkerOK, WorkerState, ArchiveOrNone
<1>2. /\ worker'.pc = "poll" /\ worker'.id = w /\ worker'.arc = worker.arc
      /\ archives' = archives /\ lastArchive' = lastArchive /\ w \in Nat
  BY <1>1 DEF WorkerState, engineVars, Backup
<1>3. WantsKept
  BY <1>1, EngineUntouched
<1>4. CASE UNCHANGED backups
  BY <1>1, <1>2, <1>3, <1>4, UntouchedOnlyLoses, NoJobProgress
<1>5. CASE backups' = [backups EXCEPT ![w] = row]
  <2>1. row.eng = worker.arc /\ row.parent = backups[w].parent
    BY <1>1 DEF BackupRow
  <2> HIDE DEF row
  <2>2. /\ backups'[w].eng = worker.arc /\ backups'[w].parent = backups[w].parent
        /\ \A b \in Backup : b # w => backups'[b] = backups[b]
    BY <1>1, <1>5, <2>1
  <2> HIDE DEF w
  <2>3. backups[w].eng = None /\ \A b \in Backup : backups[b].parent # w
    BY <1>1, BoundsArePositive DEF SitInv, QueueFresh, ParentHasArchive, w
  <2>4. \A b \in Backup : backups[b].parent # None => backups[b].parent \in Backup
    BY <1>1, BoundsArePositive DEF BackupRow
  <2>5. \A b \in Backup :
          /\ backups'[b].parent = backups[b].parent
          /\ backups[b].parent # None
               => backups'[backups[b].parent].eng = backups[backups[b].parent].eng
    BY <2>2, <2>3, <2>4
  <2>6. ParentHasArchive'
    BY <2>5 DEF SitInv, ParentHasArchive
  <2>7. RightWant(w, archives[worker.arc].want)
    BY <1>1 DEF SitInv, WantsParent, w
  <2>8. \A b \in Backup \ {w} : backups[b].eng # None
                                 => RightWant(b, archives[backups[b].eng].want)
    BY DEF SitInv, WantsParent
  <2>9. WantsParent'
    BY <1>2, <2>2, <2>5, <2>7, <2>8 DEF WantsParent, RightWant
  <2>10. ArchivesHandedOut'
    BY <1>1, <1>2, <2>2 DEF SitInv, ArchivesHandedOut
  <2>11. QueueFresh'
    <3>1. ASSUME NEW i \in 1 .. Len(queue)
          PROVE  w < queue[i] /\ queue[i] <= lastBackup /\ backups'[queue[i]].eng = None
      <4>1. queue[i] \in Backup /\ w < queue[i] /\ queue[i] <= lastBackup
            /\ backups[queue[i]].eng = None
        BY <1>1 DEF SitInv, QueueFresh, w
      <4>2. queue[i] # w
        BY <1>2, <4>1
      <4> QED BY <2>2, <4>1, <4>2
    <3> QED BY <1>1, <1>2, <3>1 DEF SitInv, QueueFresh
  <2> QED BY <1>3, <2>6, <2>9, <2>10, <2>11 DEF SitInv, WantsKept
<1> QED BY <1>1, <1>4, <1>5 DEF SetRow

-----------------------------------------------------------------------------
(* Every step keeps the invariant when nothing is retried                   *)

LEMMA CreateSits ==
  ASSUME TypeInv, LinkInv, SitInv, StoreFull \/ StoreIncremental \/ RunDue
  PROVE  SitInv'
<1>1. backups \in [Backup -> BackupRow] /\ None \in BackupOrNone
  BY BoundsArePositive DEF TypeInv, TypeOK
<1>2. CASE Enqueue(0, None, None)
  BY <1>1, <1>2, EnqueueSits
<1>3. ASSUME NEW t \in Tips, NEW base \in BackupOrNone, Enqueue(backups[t].level + 1, t, base)
      PROVE  SitInv'
  <2>1. /\ t \in Backup /\ t \in BackupOrNone /\ backups[t].level + 1 \in Nat
        /\ Exists(t) /\ backups[t].eng # None
    BY <1>1, BoundsArePositive
       DEF Tips, BackupRow, Exists, LinkInv, RowInv, PathsMatchEngineId
  <2> QED BY <1>3, <2>1, EnqueueSits
<1>4. CASE StoreIncremental
  <2>1. PICK t \in Tips : Enqueue(backups[t].level + 1, t,
                                  IF backups[t].base # None THEN backups[t].base ELSE t)
    BY <1>4 DEF StoreIncremental
  <2>2. (IF backups[t].base # None THEN backups[t].base ELSE t) \in BackupOrNone
    BY <1>1, BoundsArePositive DEF Tips, BackupRow
  <2> QED BY <1>3, <2>1, <2>2
<1>5. CASE RunDue
  <2>1. CASE \E t \in Tips : Exists(BaseOf(t)) /\ Enqueue(backups[t].level + 1, t, BaseOf(t))
    <3>1. PICK t \in Tips : Enqueue(backups[t].level + 1, t, BaseOf(t))
      BY <2>1
    <3>2. BaseOf(t) \in BackupOrNone
      BY <1>1, BoundsArePositive DEF BaseOf, Tips, BackupRow
    <3> QED BY <1>3, <3>1, <3>2
  <2> QED BY <1>2, <1>5, <2>1 DEF RunDue
<1> QED BY <1>2, <1>4, <1>5 DEF StoreFull

(* Steps that leave the engine's requests and the rows' archives alone.     *)
LEMMA BesideJobSits ==
  ASSUME TypeInv, TypeInv', LinkInv, SitInv,
         \/ JobPostError \/ JobPoll \/ JobPollTimeout \/ JobFinish \/ WorkerCrash
         \/ \E b \in Backup : JobFailedHook(b)
         \/ \E reachable \in BOOLEAN : ReconcileList(reachable)
         \/ ReconcileOne
         \/ \E d \in Deleters, b \in Backup : Destroy(d, b) \/ PruneChain(d, b)
         \/ \E d \in Deleters : Purge(d) \/ DeleteRow(d)
         \/ EngineStep \/ Restart
  PROVE  SitInv'
<1>1. /\ worker \in WorkerState /\ backups \in [Backup -> BackupRow]
      /\ archives \in [Archive -> ArchiveRecord]
      /\ worker.pc # "idle" => worker.id \in Backup
      /\ worker.pc \in {"seed", "poll", "finish"} => worker.arc \in Archive
  BY BoundsArePositive DEF TypeInv, TypeOK, EngineTypeOK, WorkerOK, WorkerState
<1>2. CASE JobPostError
  <2>1. RowsOnlyLose
    BY <1>1, <1>2, SetStatusOnlyLoses DEF JobPostError
  <2> QED BY <1>2, <2>1, EngineUntouched, NoJobProgress DEF JobPostError
<1>3. CASE JobPoll
  <2>1. worker'.id = worker.id /\ worker'.arc = worker.arc /\ worker'.pc = "finish"
    BY <1>1, <1>3 DEF JobPoll, WorkerState
  <2>2. RowsOnlyLose
    BY <1>3, UntouchedOnlyLoses DEF JobPoll
  <2> QED BY <1>3, <2>1, <2>2, EngineUntouched, NoJobProgress DEF JobPoll
<1>4. CASE JobPollTimeout
  BY <1>4, UntouchedOnlyLoses, EngineUntouched, NoJobProgress DEF JobPollTimeout
<1>5. CASE WorkerCrash
  BY <1>5, UntouchedOnlyLoses, EngineUntouched, NoJobProgress DEF WorkerCrash
<1>6. CASE JobFinish
  <2>1. CASE SetStatus(worker.id, "failed")
    <3>1. RowsOnlyLose
      BY <1>1, <1>6, <2>1, SetStatusOnlyLoses DEF JobFinish
    <3> QED BY <1>6, <3>1, EngineUntouched, NoJobProgress DEF JobFinish
  <2>2. CASE worker.seen # "failed"
    <3> DEFINE r == backups[worker.id]
               row == [Completed(r, worker.arc, archives[worker.arc].level)
                         EXCEPT !.snap = worker.arc]
    <3>1. /\ worker.id \in Backup /\ worker.arc \in Archive /\ r \in BackupRow
          /\ archives[worker.arc].level \in Nat /\ worker.arc \in ArchiveOrNone
      BY <1>1, <1>6, BoundsArePositive DEF JobFinish, ArchiveRecord
    <3>2. row \in BackupRow /\ row.eng = r.eng /\ row.parent \in {None, r.parent}
      BY <3>1, CompletedOnlyLoses
    <3>3. SetRow(worker.id, row)
      BY <1>6, <2>2 DEF JobFinish
    <3> HIDE DEF row
    <3>4. RowsOnlyLose
      BY <3>1, <3>2, <3>3, SetRowOnlyLoses
    <3> QED BY <1>6, <3>4, EngineUntouched, NoJobProgress DEF JobFinish
  <2> QED BY <1>6, <2>1, <2>2 DEF JobFinish
<1>7. CASE \E b \in Backup : JobFailedHook(b)
  <2>1. PICK b \in Backup : JobFailedHook(b)
    BY <1>7
  <2>2. RowsOnlyLose
    BY <2>1, SetStatusOnlyLoses, UntouchedOnlyLoses DEF JobFailedHook
  <2> QED BY <2>1, <2>2, EngineUntouched, NoJobProgress DEF JobFailedHook
<1>8. CASE \E reachable \in BOOLEAN : ReconcileList(reachable)
  BY <1>8, UntouchedOnlyLoses, EngineUntouched, NoJobProgress DEF ReconcileList
<1>9. CASE ReconcileOne
  <2>1. PICK v \in reconcile :
          /\ IF v.says = "completed"
               THEN SetRow(v.id,
                      [Completed(backups[v.id], v.arc,
                                 IF archives[v.arc].level # v.level THEN archives[v.arc].level
                                                                    ELSE backups[v.id].level)
                         EXCEPT !.snap = IF v.arc # v.snap THEN v.arc ELSE @])
               ELSE SetStatus(v.id, "failed")
          /\ UNCHANGED <<engineVars, lastBackup, queue, lostJobs, worker, deleting, bounds>>
    BY <1>9 DEF ReconcileOne
  <2>2. /\ v \in Verdict /\ v.id \in Backup /\ v.arc = v.snap
        /\ v.says = "completed" => v.arc \in Archive
    BY BoundsArePositive DEF TypeInv, TypeOK, VerdictOK, Verdict, LinkInv, VerdictPaths
  <2>3. CASE v.says # "completed"
    BY <2>1, <2>2, <2>3, SetStatusOnlyLoses, EngineUntouched, NoJobProgress
  <2>4. CASE v.says = "completed"
    <3> DEFINE r == backups[v.id]
               level == IF archives[v.arc].level # v.level THEN archives[v.arc].level ELSE r.level
               done == Completed(r, v.arc, level)
               row == [done EXCEPT !.snap = IF v.arc # v.snap THEN v.arc ELSE @]
    <3>1. /\ r \in BackupRow /\ level \in Nat /\ v.arc \in Archive
      BY <1>1, <2>2, <2>4 DEF ArchiveRecord, BackupRow
    <3> HIDE DEF level
    <3>2. done \in BackupRow /\ done.eng = r.eng /\ done.parent \in {None, r.parent}
      BY <3>1, BoundsArePositive DEF Completed, BackupRow
    <3> HIDE DEF done
    <3>3. row \in BackupRow /\ row.eng = r.eng /\ row.parent \in {None, r.parent}
      BY <2>2, <3>2 DEF BackupRow
    <3>4. SetRow(v.id, row)
      BY <2>1, <2>4 DEF done, level
    <3> HIDE DEF row
    <3>5. RowsOnlyLose
      BY <2>2, <3>1, <3>3, <3>4, SetRowOnlyLoses
    <3> QED BY <2>1, <3>5, EngineUntouched, NoJobProgress
  <2> QED BY <2>3, <2>4
<1>10. CASE \E d \in Deleters, b \in Backup : Destroy(d, b) \/ PruneChain(d, b)
  BY <1>10, UntouchedOnlyLoses, EngineUntouched, NoJobProgress DEF Destroy, PruneChain
<1>11. CASE \E d \in Deleters : DeleteRow(d)
  <2>1. PICK d \in Deleters : DeleteRow(d)
    BY <1>11
  <2>2. RowsOnlyLose
    BY <2>1, DeleteRowOnlyLoses
  <2> QED BY <2>1, <2>2, EngineUntouched, NoJobProgress DEF DeleteRow
<1>12. CASE \E d \in Deleters : Purge(d)
  <2>1. PICK d \in Deleters : Purge(d)
    BY <1>12
  <2>2. PICK v \in deleting[d] :
          (v.arc # None /\ BackupDelete(v.arc)) \/ UNCHANGED engineVars
    BY <2>1 DEF Purge
  <2>3. v.arc # None => v.arc \in Archive
    BY BoundsArePositive DEF TypeInv, TypeOK, Victim
  <2>4. WantsKept
    BY <2>2, <2>3, DeleteKeepsWants, EngineUntouched
  <2> QED BY <2>1, <2>4, UntouchedOnlyLoses, NoJobProgress DEF Purge
<1>13. CASE EngineStep
  <2>1. PICK a \in Archive : Archiving(a)
    BY <1>13 DEF EngineStep
  <2> QED BY <1>13, <2>1, ArchivingKeepsWants, UntouchedOnlyLoses, NoJobProgress
          DEF EngineStep, panelVars
<1>14. CASE Restart
  BY <1>14, RestartKeepsWants, UntouchedOnlyLoses, NoJobProgress DEF Restart
<1> QED BY <1>2, <1>3, <1>4, <1>5, <1>6, <1>7, <1>8, <1>9, <1>10, <1>11, <1>12, <1>13, <1>14

LEMMA SitStep ==
  MaxRetry = 0 /\ TypeInv /\ TypeInv' /\ LinkInv /\ SitInv /\ [Next]_vars => SitInv'
<1> SUFFICES ASSUME MaxRetry = 0, TypeInv, TypeInv', LinkInv, SitInv, [Next]_vars
             PROVE  SitInv'
  OBVIOUS
<1>1. CASE UNCHANGED vars
  BY <1>1, EngineUntouched, UntouchedOnlyLoses, NoJobProgress DEF vars, panelVars
<1>2. ~ \E b \in Backup : Retry(b)
  BY DEF Retry, TypeInv, TypeOK
<1>3. CASE Next
  BY <1>2, <1>3, CreateSits, JobStartSits, JobPostSits, JobPostLostSits, JobSeedSits,
     BesideJobSits DEF Next, Request, Job
<1> QED BY <1>1, <1>3

(* While nothing is retried, an archive is a full one or holds the changes  *)
(* since exactly the archive its backup's parent points at, whatever worker,*)
(* reconciler, deleters and engine do and in whatever order: the restore of *)
(* a chain never replays an increment on a site it was not made on.         *)
THEOREM RestoreReplaysRightArchive ==
  ASSUME MaxRetry = 0
  PROVE  Spec => []IncrementSitsOnParent
<1>1. TypeInv /\ SitInv => IncrementSitsOnParent
  <2> SUFFICES ASSUME TypeInv, SitInv, NEW b \in Backup,
                      backups[b].eng # None, backups[b].parent # None
               PROVE  SitsOn(b, backups[b].parent)
    BY DEF IncrementSitsOnParent
  <2>1. backups[b].eng \in Archive
    BY BoundsArePositive DEF TypeInv, TypeOK, BackupRow
  <2> QED BY <2>1 DEF SitInv, WantsParent, RightWant, MadeOnWanted, SitsOn
<1> QED BY <1>1, TypeInit, TypeStep, LinkInit, LinkStep, SitInit, SitStep, PTL DEF Spec

-----------------------------------------------------------------------------
(* One archive of a backup at a time                                        *)

(* Of backup b: nothing is being made any more; nothing was ever begun.     *)
Quiet(b) == \A a \in Archive : archives[a].owner = b => archives[a].work = "none"

Unmade(b) == \A a \in Archive : archives[a].owner # b

(* Nothing knows of a backup or an archive that was not handed out; no      *)
(* goroutine outlives its result; and engine ids lead to one's own archive. *)
HandedOut ==
  /\ \A i \in 1 .. Len(queue) : queue[i] <= lastBackup
  /\ \A a \in Archive : archives[a].owner <= lastBackup
  /\ \A v \in reconcile : v.id <= lastBackup

GoroutinesEnd ==
  \A a \in Archive :
    /\ archives[a].row \in {"completed", "failed"} => archives[a].work = "none"
    /\ a > lastArchive => archives[a].owner = None

OwnArchives ==
  /\ \A b \in Backup : backups[b].eng # None => archives[backups[b].eng].owner = b
  /\ worker.pc \in {"seed", "poll", "finish"} => archives[worker.arc].owner = worker.id

(* Without a lost answer and with one retry at most: a backup is in the     *)
(* queue once, not while the worker is about to POST for it, and nothing of *)
(* its archives is still being made then.                                   *)
PostsApart ==
  /\ lostJobs = {}
  /\ \A i, j \in 1 .. Len(queue) : queue[i] = queue[j] => i = j
  /\ \A i \in 1 .. Len(queue) : Quiet(queue[i])
  /\ worker.pc = "post" => /\ Quiet(worker.id)
                           /\ \A i \in 1 .. Len(queue) : queue[i] # worker.id
  /\ \A a, c \in Archive :
       archives[a].work # "none" /\ archives[c].work # "none"
         /\ archives[a].owner = archives[c].owner => a = c

(* Before the retry: who waits or is about to POST has no archive, no       *)
(* verdict and has not failed; who failed, or is about to, is no longer     *)
(* being archived; and no backup has two archives.                          *)
FirstAttempt ==
  /\ \A i \in 1 .. Len(queue) : /\ backups[queue[i]].status \in {"queued", "absent"}
                                /\ Unmade(queue[i]) /\ queue[i] # worker.id
                                /\ \A v \in reconcile : v.id # queue[i]
  /\ worker.pc = "post" => /\ backups[worker.id].status \in {"running", "absent"}
                           /\ Unmade(worker.id)
                           /\ \A v \in reconcile : v.id # worker.id
  /\ \A b \in Backup : backups[b].status = "failed" => Quiet(b)
  /\ \A a, c \in Archive :
       archives[a].owner = archives[c].owner /\ archives[a].owner # None => a = c
  /\ worker.pc = "finish" => archives[worker.arc].work = "none"
  /\ \A v \in reconcile : v.says # "completed" => Quiet(v.id)

OneInv ==
  /\ HandedOut /\ GoroutinesEnd /\ OwnArchives
  /\ faults = 0 /\ retries <= 1 => PostsApart
  /\ faults = 0 /\ retries = 0 => FirstAttempt

LEMMA OneInit == Init => OneInv
<1> SUFFICES ASSUME Init PROVE OneInv
  OBVIOUS
<1>1. /\ \A a \in Archive : /\ archives[a].owner = None /\ archives[a].work = "none"
      /\ \A b \in Backup : backups[b].eng = None /\ backups[b].status = "absent"
      /\ worker.pc = "idle" /\ Len(queue) = 0 /\ lostJobs = {} /\ reconcile = {}
      /\ lastBackup = 0 /\ lastArchive = 0
  BY DEF Init, EngineInit, UnusedArchive, AbsentRow, IdleWorker
<1>2. HandedOut /\ GoroutinesEnd /\ OwnArchives
  BY <1>1 DEF HandedOut, GoroutinesEnd, OwnArchives, None
<1>3. PostsApart /\ FirstAttempt
  BY <1>1 DEF PostsApart, FirstAttempt, Quiet
<1> QED BY <1>2, <1>3 DEF OneInv

LEMMA OneTypes ==
  ASSUME TypeInv
  PROVE  /\ archives \in [Archive -> ArchiveRecord] /\ backups \in [Backup -> BackupRow]
         /\ \A a \in Archive : /\ archives[a] \in ArchiveRecord /\ archives[a].owner \in Nat
                               /\ a \in Nat /\ a # None
         /\ \A b \in Backup : /\ backups[b] \in BackupRow /\ b \in Nat /\ b # None
                              /\ backups[b].eng # None => backups[b].eng \in Archive
         /\ queue \in Seq(Backup) /\ Len(queue) \in Nat
         /\ \A i \in 1 .. Len(queue) : queue[i] \in Backup
         /\ lastArchive \in Nat /\ lastBackup \in Nat /\ faults \in Nat /\ retries \in Nat
         /\ worker \in WorkerState /\ worker.id \in Nat
         /\ worker.pc # "idle" => worker.id \in Backup
         /\ worker.pc \in {"seed", "poll", "finish"} => worker.arc \in Archive
         /\ \A v \in reconcile : v \in Verdict /\ v.id \in Backup /\ v.id \in Nat
<1> USE BoundsArePositive DEF TypeInv, TypeOK, EngineTypeOK
<1>1. /\ \A b \in Backup : b # None /\ b \in Nat
      /\ \A a \in Archive : a \in Nat /\ a # None
      /\ \A b \in BackupOrNone : b \in Nat
      /\ lastArchive \in Nat /\ lastBackup \in Nat
  BY DEF Archive, Backup, ArchiveOrNone, BackupOrNone, None
<1>2. \A a \in Archive : archives[a] \in ArchiveRecord /\ archives[a].owner \in Nat
  BY <1>1 DEF ArchiveRecord
<1>3. \A b \in Backup : backups[b] \in BackupRow
                        /\ (backups[b].eng # None => backups[b].eng \in Archive)
  BY DEF BackupRow
<1>4. queue \in Seq(Backup) /\ Len(queue) \in Nat /\ \A i \in 1 .. Len(queue) : queue[i] \in Backup
  OBVIOUS
<1>5. /\ worker \in WorkerState /\ worker.id \in Nat
      /\ worker.pc # "idle" => worker.id \in Backup
      /\ worker.pc \in {"seed", "poll", "finish"} => worker.arc \in Archive
  BY <1>1 DEF WorkerOK, WorkerState
<1>6. \A v \in reconcile : v \in Verdict /\ v.id \in Backup /\ v.id \in Nat
  BY <1>1 DEF Verdict
<1> QED BY <1>1, <1>2, <1>3, <1>4, <1>5, <1>6

(* What the engine does between two POSTs: it hands out nothing, and no     *)
(* goroutine begins.                                                        *)
EngineRests ==
  /\ lastArchive' = lastArchive
  /\ \A a \in Archive :
       /\ archives'[a].owner = archives[a].owner
       /\ archives[a].work = "none" => archives'[a].work = "none"
       /\ archives'[a].row \in {"completed", "failed"} => archives'[a].work = "none"

LEMMA UntouchedRests ==
  ASSUME OneInv, UNCHANGED engineVars
  PROVE  EngineRests
BY DEF engineVars, EngineRests, OneInv, GoroutinesEnd

LEMMA OneRests ==
  ASSUME TypeInv, OneInv, NEW a \in Archive, NEW new \in ArchiveRecord,
         archives' = [archives EXCEPT ![a] = new], lastArchive' = lastArchive,
         new.owner = archives[a].owner,
         archives[a].work = "none" => new.work = "none",
         new.row \in {"completed", "failed"} => new.work = "none"
  PROVE  EngineRests
<1>1. archives \in [Archive -> ArchiveRecord]
  BY OneTypes
<1>2. archives'[a] = new /\ \A c \in Archive \ {a} : archives'[c] = archives[c]
  BY <1>1
<1> QED BY <1>2 DEF EngineRests, OneInv, GoroutinesEnd

LEMMA ArchivingRests ==
  ASSUME TypeInv, OneInv, NEW a \in Archive, Archiving(a)
  PROVE  EngineRests
<1> DEFINE old == archives[a]
           on == IF old.want # None /\ archives[old.want].disk THEN old.want ELSE None
<1>1. old \in ArchiveRecord /\ on \in ArchiveOrNone
      /\ (old.row \in {"completed", "failed"} => old.work = "none")
  BY OneTypes, BoundsArePositive DEF ArchiveRecord, OneInv, GoroutinesEnd
<1>2. CASE ArchiveStart(a)
  <2> DEFINE new == [old EXCEPT !.work = "tar", !.disk = TRUE, !.on = on]
  <2>1. /\ new \in ArchiveRecord /\ new.owner = old.owner /\ new.row = old.row
        /\ old.work = "starting"
    BY <1>1, <1>2 DEF ArchiveRecord, ArchiveStart
  <2>2. archives' = [archives EXCEPT ![a] = new] /\ lastArchive' = lastArchive
    BY <1>2 DEF ArchiveStart
  <2> HIDE DEF new
  <2> QED BY <1>1, <2>1, <2>2, OneRests
<1>3. CASE ArchiveDone(a)
  <2> DEFINE new == [old EXCEPT !.work = "none", !.row = RecordedAs(a, "completed")]
  <2>1. new \in ArchiveRecord /\ new.owner = old.owner /\ new.work = "none"
    BY <1>1 DEF ArchiveRecord, RecordedAs
  <2>2. archives' = [archives EXCEPT ![a] = new] /\ lastArchive' = lastArchive
    BY <1>3 DEF ArchiveDone
  <2> HIDE DEF new
  <2> QED BY <2>1, <2>2, OneRests
<1>4. CASE ArchiveFallback(a)
  <2> DEFINE new == [old EXCEPT !.work = "none", !.row = RecordedAs(a, "completed"),
                                !.level = IF old.row = "running" THEN 0 ELSE @,
                                !.on = None, !.disk = TRUE]
  <2>1. new \in ArchiveRecord /\ new.owner = old.owner /\ new.work = "none"
    BY <1>1, BoundsArePositive DEF ArchiveRecord, RecordedAs
  <2>2. archives' = [archives EXCEPT ![a] = new] /\ lastArchive' = lastArchive
    BY <1>4 DEF ArchiveFallback
  <2> HIDE DEF new
  <2> QED BY <2>1, <2>2, OneRests
<1>5. CASE ArchiveFail(a)
  <2> DEFINE new == [old EXCEPT !.work = "none", !.row = RecordedAs(a, "failed"),
                                !.disk = @ /\ old.row # "running"]
  <2>1. new \in ArchiveRecord /\ new.owner = old.owner /\ new.work = "none"
    BY <1>1 DEF ArchiveRecord, RecordedAs
  <2>2. archives' = [archives EXCEPT ![a] = new] /\ lastArchive' = lastArchive
    BY <1>5 DEF ArchiveFail
  <2> HIDE DEF new
  <2> QED BY <2>1, <2>2, OneRests
<1> QED BY <1>2, <1>3, <1>4, <1>5 DEF Archiving

LEMMA DeleteRests ==
  ASSUME TypeInv, OneInv, NEW a \in Archive, BackupDelete(a)
  PROVE  EngineRests
<1> DEFINE new == [archives[a] EXCEPT !.row = "deleted", !.disk = FALSE]
<1>1. archives[a] \in ArchiveRecord
  BY OneTypes
<1>2. /\ new \in ArchiveRecord /\ new.owner = archives[a].owner
      /\ new.row = "deleted" /\ new.work = archives[a].work
  BY <1>1 DEF ArchiveRecord
<1>3. archives' = archives \/ archives' = [archives EXCEPT ![a] = new]
  BY DEF BackupDelete
<1>4. lastArchive' = lastArchive
  BY DEF BackupDelete
<1> HIDE DEF new
<1> QED BY <1>2, <1>3, <1>4, UntouchedRests, OneRests DEF engineVars

LEMMA RestartRests ==
  ASSUME TypeInv, OneInv, EngineRestart
  PROVE  EngineRests
<1>1. ASSUME NEW a \in Archive
      PROVE  archives'[a].work = "none" /\ archives'[a].owner = archives[a].owner
  <2>1. archives'[a] = [archives[a] EXCEPT !.work = "none"] /\ archives[a] \in ArchiveRecord
    BY OneTypes DEF EngineRestart
  <2> QED BY <2>1 DEF ArchiveRecord
<1> QED BY <1>1 DEF EngineRests, EngineRestart

-----------------------------------------------------------------------------
(* Steps that neither queue, take nor post a job                            *)

(* What a step does to a row that is there: it may lose its archive or get  *)
(* one of its own; and before the retry its status changes only while it    *)
(* neither waits nor is about to be posted, and to failed only when nothing *)
(* of it is being made.                                                     *)
MayChange(b) ==
  faults = 0 /\ retries = 0 =>
    /\ \A i \in 1 .. Len(queue) : queue[i] # b
    /\ worker'.pc = "post" => worker'.id # b
    /\ backups'[b].status = "failed" => Quiet(b)

RowsRest ==
  \A b \in Backup :
    /\ \/ backups'[b].eng \in {None, backups[b].eng}
       \/ archives[backups'[b].eng].owner = b
    /\ backups'[b].status \in {backups[b].status, "absent"} \/ MayChange(b)

WorkerRests ==
  \/ worker' = worker
  \/ worker' = IdleWorker
  \/ /\ worker.pc \in {"seed", "poll"} /\ worker'.pc \in {"poll", "finish"}
     /\ worker'.id = worker.id /\ worker'.arc = worker.arc
     /\ worker'.pc = "finish" => archives[worker.arc].work = "none"

LEMMA RestKeeps ==
  ASSUME TypeInv, TypeInv', OneInv, EngineRests, RowsRest, WorkerRests,
         UNCHANGED <<queue, lastBackup, retries>>, reconcile' \subseteq reconcile,
         faults <= faults', faults' = faults => lostJobs' \subseteq lostJobs
  PROVE  OneInv'
<1>1. /\ \A b \in Backup : b \in Nat /\ b # None
      /\ \A i \in 1 .. Len(queue) : queue[i] \in Backup
      /\ faults \in Nat /\ faults' \in Nat
      /\ \A a \in Archive : archives[a].owner \in Nat
      /\ \A b \in Backup : backups'[b].eng # None => backups'[b].eng \in Archive
      /\ worker.pc # "idle" => worker.id \in Backup
      /\ worker.pc \in {"seed", "poll", "finish"} => worker.arc \in Archive
      /\ \A v \in reconcile : v.id \in Backup
  <2>1. \A b \in Backup : backups'[b].eng # None => backups'[b].eng \in Archive
    BY BoundsArePositive DEF TypeInv, TypeOK, BackupRow
  <2>2. faults' \in Nat
    BY DEF TypeInv, TypeOK
  <2> QED BY <2>1, <2>2, OneTypes
<1>2. /\ worker'.pc = "post" => worker.pc = "post" /\ worker'.id = worker.id
      /\ worker'.id \in {worker.id, None}
      /\ worker'.pc \in {"seed", "poll", "finish"} =>
           worker.pc \in {"seed", "poll", "finish"} /\ worker'.id = worker.id
             /\ worker'.arc = worker.arc
      /\ worker'.pc = "finish" => worker.pc = "finish" \/ archives[worker.arc].work = "none"
  BY DEF WorkerRests, IdleWorker
<1>3. \A b \in Backup : Quiet(b) => Quiet(b)'
  BY DEF Quiet, EngineRests
<1>4. \A b \in Backup : Unmade(b) => Unmade(b)'
  BY DEF Unmade, EngineRests
<1>5. HandedOut'
  BY DEF OneInv, HandedOut, EngineRests
<1>6. GoroutinesEnd'
  BY DEF OneInv, GoroutinesEnd, EngineRests
<1>7. OwnArchives'
  <2>1. ASSUME NEW b \in Backup, backups'[b].eng # None
        PROVE  archives'[backups'[b].eng].owner = b
    <3>1. backups'[b].eng \in Archive
      BY <1>1, <2>1
    <3>2. archives[backups'[b].eng].owner = b
      BY <2>1 DEF RowsRest, OneInv, OwnArchives
    <3> QED BY <3>1, <3>2 DEF EngineRests
  <2>2. ASSUME worker'.pc \in {"seed", "poll", "finish"}
        PROVE  archives'[worker'.arc].owner = worker'.id
    BY <1>1, <1>2, <2>2 DEF OneInv, OwnArchives, EngineRests
  <2> QED BY <2>1, <2>2 DEF OwnArchives
<1>8. ASSUME faults' = 0, retries' <= 1
      PROVE  PostsApart'
  <2>1. PostsApart /\ lostJobs' = {}
    BY <1>1, <1>8 DEF OneInv, PostsApart
  <2>2. \A i \in 1 .. Len(queue) : Quiet(queue[i])'
    <3>1. ASSUME NEW i \in 1 .. Len(queue)
          PROVE  Quiet(queue[i])'
      BY <1>1, <2>1 DEF PostsApart, Quiet, EngineRests
    <3> QED BY <3>1
  <2>3. worker'.pc = "post" => /\ Quiet(worker.id)'
                               /\ \A i \in 1 .. Len(queue) : queue[i] # worker'.id
    BY <1>1, <1>2, <2>1 DEF PostsApart, Quiet, EngineRests
  <2>4. \A a, c \in Archive :
          archives'[a].work # "none" /\ archives'[c].work # "none"
            /\ archives'[a].owner = archives'[c].owner => a = c
    BY <2>1 DEF PostsApart, EngineRests
  <2> QED BY <2>1, <2>2, <2>3, <2>4 DEF PostsApart
<1>9. ASSUME faults' = 0, retries' = 0
      PROVE  FirstAttempt'
  <2>1. FirstAttempt /\ faults = 0 /\ retries = 0
    BY <1>1, <1>9 DEF OneInv
  <2>2. ASSUME NEW i \in 1 .. Len(queue)
        PROVE  /\ backups'[queue[i]].status \in {"queued", "absent"}
               /\ Unmade(queue[i])' /\ queue[i] # worker'.id
               /\ \A v \in reconcile' : v.id # queue[i]
    <3>1. queue[i] \in Backup
      BY <1>1
    <3>2. backups'[queue[i]].status \in {backups[queue[i]].status, "absent"}
      BY <2>1, <3>1 DEF RowsRest, MayChange
    <3>3. Unmade(queue[i])'
      BY <2>1, <3>1 DEF FirstAttempt, Unmade, EngineRests
    <3>4. queue[i] # worker'.id
      BY <1>1, <1>2, <2>1, <3>1 DEF FirstAttempt
    <3> QED BY <2>1, <3>1, <3>2, <3>3, <3>4 DEF FirstAttempt
  <2>3. ASSUME worker'.pc = "post"
        PROVE  /\ backups'[worker'.id].status \in {"running", "absent"}
               /\ Unmade(worker.id)'
               /\ \A v \in reconcile' : v.id # worker'.id
    <3>1. worker.pc = "post" /\ worker'.id = worker.id /\ worker.id \in Backup
      BY <1>1, <1>2, <2>3
    <3>2. backups'[worker.id].status \in {backups[worker.id].status, "absent"}
      BY <2>1, <2>3, <3>1 DEF RowsRest, MayChange
    <3>3. Unmade(worker.id)'
      BY <2>1, <3>1 DEF FirstAttempt, Unmade, EngineRests
    <3> QED BY <2>1, <3>1, <3>2, <3>3 DEF FirstAttempt
  <2>4. \A b \in Backup : backups'[b].status = "failed" => Quiet(b)'
    <3>1. ASSUME NEW b \in Backup, backups'[b].status = "failed"
          PROVE  Quiet(b)
      BY <2>1, <3>1 DEF RowsRest, MayChange, FirstAttempt
    <3> QED BY <1>3, <3>1
  <2>5. \A a, c \in Archive :
          archives'[a].owner = archives'[c].owner /\ archives'[a].owner # None => a = c
    BY <2>1 DEF FirstAttempt, EngineRests
  <2>6. worker'.pc = "finish" => archives'[worker'.arc].work = "none"
    BY <1>1, <1>2, <2>1 DEF FirstAttempt, EngineRests
  <2>7. \A v \in reconcile' : v.says # "completed" => Quiet(v.id)'
    <3>1. ASSUME NEW v \in reconcile', v.says # "completed"
          PROVE  Quiet(v.id)'
      <4>1. v.id \in Backup /\ Quiet(v.id)
        BY <1>1, <2>1, <3>1 DEF FirstAttempt
      <4> QED BY <4>1 DEF Quiet, EngineRests
    <3> QED BY <3>1
  <2> QED BY <2>2, <2>3, <2>4, <2>5, <2>6, <2>7 DEF FirstAttempt
<1> QED BY <1>5, <1>6, <1>7, <1>8, <1>9 DEF OneInv

(* A write to a row that is there.                                          *)
LEMMA OneWrite ==
  ASSUME TypeInv, NEW b \in Backup, NEW row \in BackupRow, SetRow(b, row),
         row.eng = backups[b].eng \/ archives[row.eng].owner = b,
         row.status = backups[b].status \/ MayChange(b)
  PROVE  RowsRest
<1>1. backups \in [Backup -> BackupRow]
  BY DEF TypeInv, TypeOK
<1>2. /\ \A c \in Backup \ {b} : backups'[c] = backups[c]
      /\ backups'[b] = row \/ backups'[b] = backups[b]
  BY <1>1 DEF SetRow
<1>3. ASSUME NEW c \in Backup
      PROVE  /\ \/ backups'[c].eng \in {None, backups[c].eng}
                \/ archives[backups'[c].eng].owner = c
             /\ backups'[c].status \in {backups[c].status, "absent"} \/ MayChange(c)
  <2>1. CASE c = b
    BY <1>2, <2>1
  <2>2. CASE c # b
    BY <1>2, <2>2
  <2> QED BY <2>1, <2>2
<1> QED BY <1>3 DEF RowsRest

LEMMA OneStatus ==
  ASSUME TypeInv, NEW b \in Backup,
         NEW status \in {"queued", "running", "completed", "failed"}, SetStatus(b, status),
         MayChange(b)
  PROVE  RowsRest
<1>1. PICK row : row = [backups[b] EXCEPT !.status = status]
  OBVIOUS
<1>2. backups[b] \in BackupRow
  BY OneTypes
<1>3. row \in BackupRow /\ row.eng = backups[b].eng
  BY <1>1, <1>2 DEF BackupRow
<1>4. SetRow(b, row)
  BY <1>1 DEF SetStatus
<1> QED BY <1>3, <1>4, OneWrite

LEMMA OneTableStays ==
  ASSUME UNCHANGED backups
  PROVE  RowsRest
BY DEF RowsRest

(* Nothing of a backup the worker holds is being made, as far as the worker *)
(* is before its POST or has seen the result.                               *)
LEMMA OneHeld ==
  ASSUME TypeInv, OneInv, worker.pc \in {"post", "finish"}, worker' = IdleWorker
  PROVE  worker.id \in Backup /\ MayChange(worker.id)
<1>1. worker.id \in Backup /\ worker.id # None
  BY OneTypes
<1>2. worker'.pc = "idle"
  BY DEF IdleWorker
<1>3. ASSUME faults = 0, retries = 0
      PROVE  /\ \A i \in 1 .. Len(queue) : queue[i] # worker.id
             /\ Quiet(worker.id)
  <2>1. FirstAttempt
    BY <1>3 DEF OneInv
  <2>2. \A i \in 1 .. Len(queue) : queue[i] # worker.id
    BY <2>1 DEF FirstAttempt
  <2>3. CASE worker.pc = "post"
    BY <2>1, <2>2, <2>3 DEF FirstAttempt, Unmade, Quiet
  <2>4. CASE worker.pc = "finish"
    <3>1. /\ worker.arc \in Archive /\ archives[worker.arc].owner = worker.id
          /\ archives[worker.arc].work = "none"
      BY <2>1, <2>4, OneTypes DEF OneInv, OwnArchives, FirstAttempt
    <3>2. \A a \in Archive : archives[a].owner = worker.id => a = worker.arc
      BY <1>1, <2>1, <3>1 DEF FirstAttempt
    <3> QED BY <2>2, <3>1, <3>2 DEF Quiet
  <2> QED BY <2>3, <2>4
<1> QED BY <1>1, <1>2, <1>3 DEF MayChange

LEMMA OneJob ==
  ASSUME TypeInv, TypeInv', OneInv,
         JobPostError \/ JobSeed \/ JobPoll \/ JobPollTimeout \/ JobFinish
  PROVE  OneInv'
<1>1. CASE JobPostError
  <2>1. /\ worker.pc = "post" /\ worker' = IdleWorker /\ SetStatus(worker.id, "failed")
        /\ UNCHANGED <<engineVars, lastBackup, queue, lostJobs, reconcile, faults, retries>>
    BY <1>1 DEF JobPostError, bounds
  <2>2. RowsRest
    BY <2>1, OneHeld, OneStatus
  <2> QED BY <2>1, <2>2, UntouchedRests, RestKeeps, OneTypes DEF WorkerRests
<1>2. CASE JobSeed
  <2> DEFINE sent == archives[worker.arc].level
  <2>1. PICK row : row = [backups[worker.id] EXCEPT
                            !.eng = worker.arc, !.snap = worker.arc,
                            !.level = IF sent # worker.level THEN sent ELSE @]
    OBVIOUS
  <2>2. /\ worker.pc = "seed" /\ worker' = [worker EXCEPT !.pc = "poll"]
        /\ SetRow(worker.id, row)
        /\ UNCHANGED <<engineVars, lastBackup, queue, lostJobs, reconcile, faults, retries>>
    BY <1>2, <2>1 DEF JobSeed, bounds
  <2>3. worker.id \in Backup /\ worker.arc \in Archive /\ worker \in WorkerState
        /\ backups[worker.id] \in BackupRow /\ archives[worker.arc] \in ArchiveRecord
    BY <2>2, OneTypes
  <2>4. row \in BackupRow /\ row.eng = worker.arc /\ row.status = backups[worker.id].status
    BY <2>1, <2>3, BoundsArePositive DEF BackupRow, ArchiveRecord
  <2>5. archives[row.eng].owner = worker.id
    BY <2>2, <2>4 DEF OneInv, OwnArchives
  <2>6. RowsRest
    BY <2>2, <2>3, <2>4, <2>5, OneWrite
  <2>7. WorkerRests
    BY <2>2, <2>3 DEF WorkerRests, WorkerState
  <2> QED BY <2>2, <2>6, <2>7, UntouchedRests, RestKeeps, OneTypes
<1>3. CASE JobPoll
  <2>1. /\ worker.pc = "poll" /\ archives[worker.arc].row \in {"completed", "failed"}
        /\ worker' = [worker EXCEPT !.pc = "finish", !.seen = archives[worker.arc].row]
        /\ UNCHANGED <<engineVars, backups, lastBackup, queue, lostJobs, reconcile, faults, retries>>
    BY <1>3 DEF JobPoll, bounds
  <2>2. worker.arc \in Archive /\ worker \in WorkerState
    BY <2>1, OneTypes
  <2>3. archives[worker.arc].work = "none"
    BY <2>1, <2>2 DEF OneInv, GoroutinesEnd
  <2>4. WorkerRests
    BY <2>1, <2>2, <2>3 DEF WorkerRests, WorkerState
  <2> QED BY <2>1, <2>4, UntouchedRests, OneTableStays, RestKeeps, OneTypes
<1>4. CASE JobPollTimeout
  <2>1. /\ worker' = IdleWorker
        /\ UNCHANGED <<engineVars, backups, lastBackup, queue, lostJobs, reconcile, faults, retries>>
    BY <1>4 DEF JobPollTimeout, bounds
  <2> QED BY <2>1, UntouchedRests, OneTableStays, RestKeeps, OneTypes DEF WorkerRests
<1>5. CASE JobFinish
  <2>1. /\ worker.pc = "finish" /\ worker' = IdleWorker
        /\ UNCHANGED <<engineVars, lastBackup, queue, lostJobs, reconcile, faults, retries>>
    BY <1>5 DEF JobFinish, bounds
  <2>2. worker.id \in Backup /\ MayChange(worker.id)
    BY <2>1, OneHeld
  <2>3. RowsRest
    <3>1. CASE worker.seen = "failed"
      BY <1>5, <2>2, <3>1, OneStatus DEF JobFinish
    <3>2. CASE worker.seen # "failed"
      <4>1. PICK done : done = Completed(backups[worker.id], worker.arc, archives[worker.arc].level)
        OBVIOUS
      <4>2. PICK row : row = [done EXCEPT !.snap = worker.arc]
        OBVIOUS
      <4>3. SetRow(worker.id, row)
        BY <1>5, <3>2, <4>1, <4>2 DEF JobFinish
      <4>4. worker.arc \in Archive /\ archives[worker.arc] \in ArchiveRecord
            /\ backups[worker.id] \in BackupRow
        BY <2>1, <2>2, OneTypes
      <4>5. done \in BackupRow
        BY <4>1, <4>4, CompletedTypes DEF ArchiveRecord
      <4>6. done.eng = backups[worker.id].eng
        BY <4>1, <4>4 DEF Completed, BackupRow
      <4>7. row \in BackupRow /\ row.eng = backups[worker.id].eng
        BY <4>2, <4>4, <4>5, <4>6, BoundsArePositive DEF BackupRow
      <4> QED BY <2>2, <4>3, <4>7, OneWrite
    <3> QED BY <3>1, <3>2
  <2> QED BY <2>1, <2>3, UntouchedRests, RestKeeps, OneTypes DEF WorkerRests
<1> QED BY <1>1, <1>2, <1>3, <1>4, <1>5

LEMMA OneReconcile ==
  ASSUME TypeInv, TypeInv', OneInv, ReconcileOne
  PROVE  OneInv'
<1> DEFINE level(v) == IF archives[v.arc].level # v.level THEN archives[v.arc].level
                                                          ELSE backups[v.id].level
<1>1. PICK v \in reconcile :
        /\ IF v.says = "completed"
             THEN SetRow(v.id, [Completed(backups[v.id], v.arc, level(v))
                                  EXCEPT !.snap = IF v.arc # v.snap THEN v.arc ELSE @])
             ELSE SetStatus(v.id, "failed")
        /\ reconcile' \subseteq reconcile
  BY DEF ReconcileOne
<1>2. UNCHANGED <<engineVars, lastBackup, queue, lostJobs, worker, faults, retries>>
  BY DEF ReconcileOne, bounds
<1>3. v \in Verdict /\ v.id \in Backup /\ backups[v.id] \in BackupRow
      /\ backups \in [Backup -> BackupRow]
  BY OneTypes
<1>4. faults = 0 /\ retries = 0 => /\ \A i \in 1 .. Len(queue) : queue[i] # v.id
                                   /\ worker'.pc = "post" => worker'.id # v.id
                                   /\ v.says # "completed" => Quiet(v.id)
  BY <1>2 DEF OneInv, FirstAttempt
<1>5. CASE v.says = "completed"
  <2>1. PICK done : done = Completed(backups[v.id], v.arc, level(v))
    OBVIOUS
  <2>2. PICK row : row = [done EXCEPT !.snap = IF v.arc # v.snap THEN v.arc ELSE @]
    OBVIOUS
  <2>3. SetRow(v.id, row)
    BY <1>1, <1>5, <2>1, <2>2
  <2>4. v.arc \in Archive
    BY <1>3, <1>5, BoundsArePositive DEF TypeInv, VerdictOK, Verdict
  <2>5. level(v) \in Nat
    BY <1>3, <2>4, OneTypes DEF ArchiveRecord, BackupRow
  <2>6. done \in BackupRow
    BY <1>3, <2>1, <2>4, <2>5, CompletedTypes
  <2>7. done.eng = backups[v.id].eng /\ done.status = "completed"
    BY <1>3, <2>1 DEF Completed, BackupRow
  <2>8. row \in BackupRow /\ row.eng = backups[v.id].eng /\ row.status = "completed"
    BY <2>2, <2>4, <2>6, <2>7, BoundsArePositive DEF BackupRow
  <2>9. backups'[v.id].status # "failed"
    BY <1>3, <2>3, <2>8, BoundsArePositive DEF SetRow, Exists
  <2>10. MayChange(v.id)
    BY <1>4, <2>9 DEF MayChange
  <2>11. RowsRest
    BY <1>3, <2>3, <2>8, <2>10, OneWrite
  <2> QED BY <1>1, <1>2, <2>11, UntouchedRests, RestKeeps, OneTypes DEF WorkerRests
<1>6. CASE v.says # "completed"
  <2>1. MayChange(v.id)
    BY <1>4, <1>6 DEF MayChange
  <2>2. RowsRest
    BY <1>1, <1>3, <1>6, <2>1, OneStatus
  <2> QED BY <1>1, <1>2, <2>2, UntouchedRests, RestKeeps, OneTypes DEF WorkerRests
<1> QED BY <1>5, <1>6

LEMMA OneHook ==
  ASSUME TypeInv, TypeInv', OneInv, NEW b \in Backup, JobFailedHook(b)
  PROVE  OneInv'
<1>1. /\ b \in lostJobs /\ lostJobs' = lostJobs \ {b}
      /\ SetStatus(b, "failed") \/ UNCHANGED backups
      /\ UNCHANGED <<engineVars, lastBackup, queue, worker, reconcile, faults, retries>>
  BY DEF JobFailedHook, bounds
<1>2. MayChange(b)
  BY <1>1 DEF MayChange, OneInv, PostsApart
<1>3. RowsRest
  BY <1>1, <1>2, OneStatus, OneTableStays
<1> QED BY <1>1, <1>3, UntouchedRests, RestKeeps, OneTypes DEF WorkerRests

LEMMA OneDeleting ==
  ASSUME TypeInv, TypeInv', OneInv, NEW d \in Deleters,
         \/ \E b \in Backup : Destroy(d, b) \/ PruneChain(d, b)
         \/ Purge(d) \/ DeleteRow(d)
  PROVE  OneInv'
<1>1. CASE \E b \in Backup : Destroy(d, b) \/ PruneChain(d, b)
  <2>1. UNCHANGED <<engineVars, backups, lastBackup, queue, lostJobs, worker, reconcile,
                    faults, retries>>
    BY <1>1 DEF Destroy, PruneChain, bounds
  <2> QED BY <2>1, UntouchedRests, OneTableStays, RestKeeps, OneTypes DEF WorkerRests
<1>2. CASE Purge(d)
  <2>1. PICK v \in deleting[d] :
          /\ \/ v.arc # None /\ BackupDelete(v.arc) /\ UNCHANGED faults
             \/ faults' = faults + 1 /\ UNCHANGED engineVars
             \/ UNCHANGED <<engineVars, faults>>
          /\ UNCHANGED <<backups, lastBackup, queue, lostJobs, worker, reconcile, retries>>
    BY <1>2 DEF Purge
  <2>2. v.arc # None => v.arc \in Archive
    BY BoundsArePositive DEF TypeInv, TypeOK, Victim
  <2>3. EngineRests
    BY <2>1, <2>2, DeleteRests, UntouchedRests
  <2>4. faults <= faults'
    BY <2>1, OneTypes
  <2> QED BY <2>1, <2>3, <2>4, OneTableStays, RestKeeps DEF WorkerRests
<1>3. CASE DeleteRow(d)
  <2>1. PICK v \in deleting[d] :
          backups' = [b \in Backup |-> IF b = v.id THEN AbsentRow
                                       ELSE NullsForeignKeys(backups[b], v.id)]
    BY <1>3 DEF DeleteRow
  <2>2. UNCHANGED <<engineVars, lastBackup, queue, lostJobs, worker, reconcile, faults, retries>>
    BY <1>3 DEF DeleteRow, bounds
  <2>3. ASSUME NEW b \in Backup
        PROVE  /\ backups'[b].eng \in {None, backups[b].eng}
               /\ backups'[b].status \in {backups[b].status, "absent"}
    <3>1. CASE b = v.id
      BY <2>1, <3>1 DEF AbsentRow
    <3>2. CASE b # v.id
      <4>1. backups'[b] = NullsForeignKeys(backups[b], v.id) /\ backups[b] \in BackupRow
        BY <2>1, <3>2, OneTypes
      <4> QED BY <4>1 DEF NullsForeignKeys, BackupRow
    <3> QED BY <3>1, <3>2
  <2>4. RowsRest
    BY <2>3 DEF RowsRest
  <2> QED BY <2>2, <2>4, UntouchedRests, RestKeeps, OneTypes DEF WorkerRests
<1> QED BY <1>1, <1>2, <1>3

-----------------------------------------------------------------------------
(* Steps that do                                                            *)

LEMMA OneEnqueue ==
  ASSUME TypeInv, LinkInv, OneInv, NEW level \in Nat, NEW parent \in BackupOrNone,
         NEW base \in BackupOrNone, Enqueue(level, parent, base)
  PROVE  OneInv'
<1> DEFINE new == lastBackup + 1
           row == [status |-> "queued", level |-> level, parent |-> parent,
                   base |-> base, eng |-> None, snap |-> None]
<1>1. /\ new \in Backup /\ lastBackup \in Nat /\ lastBackup' = new
      /\ backups \in [Backup -> BackupRow] /\ queue \in Seq(Backup)
      /\ backups' = [backups EXCEPT ![new] = row] /\ queue' = Append(queue, new)
      /\ worker' = worker /\ archives' = archives /\ lastArchive' = lastArchive
      /\ lostJobs' = lostJobs /\ reconcile' = reconcile
      /\ faults' = faults /\ retries' = retries
      /\ worker.id <= lastBackup /\ worker.id \in Nat
  BY MaxBackupAssumption, OneTypes
     DEF TypeInv, TypeOK, Enqueue, Backup, BackupOrNone, LinkInv, RowInv, IdsHandedOut,
         engineVars, bounds
<1>2. row.eng = None /\ row.status = "queued"
  OBVIOUS
<1> HIDE DEF row
<1>3. /\ backups'[new].eng = None /\ backups'[new].status = "queued"
      /\ \A b \in Backup \ {new} : backups'[b] = backups[b]
  BY <1>1, <1>2
<1>4. /\ Len(queue') = Len(queue) + 1 /\ Len(queue) \in Nat
      /\ \A i \in 1 .. Len(queue) : queue'[i] = queue[i] /\ queue[i] \in Backup
      /\ queue'[Len(queue) + 1] = new
      /\ \A i \in 1 .. Len(queue) + 1 : i \in 1 .. Len(queue) \/ i = Len(queue) + 1
  BY <1>1
<1>5. /\ \A i \in 1 .. Len(queue) : queue[i] <= lastBackup /\ queue[i] # new
      /\ \A a \in Archive : archives[a].owner \in Nat /\ archives[a].owner <= lastBackup
                            /\ archives[a].owner # new
      /\ \A v \in reconcile : v.id \in Nat /\ v.id <= lastBackup /\ v.id # new
      /\ worker.id # new
  <2>1. \A i \in 1 .. Len(queue) : queue[i] \in Nat /\ queue[i] <= lastBackup
    BY OneTypes DEF OneInv, HandedOut
  <2>2. \A a \in Archive : archives[a].owner \in Nat /\ archives[a].owner <= lastBackup
    BY OneTypes DEF OneInv, HandedOut
  <2>3. \A v \in reconcile : v.id \in Nat /\ v.id <= lastBackup
    BY OneTypes DEF OneInv, HandedOut
  <2>4. \A n \in Nat : n <= lastBackup => n # new
    BY <1>1
  <2> QED BY <1>1, <2>1, <2>2, <2>3, <2>4
<1> HIDE DEF new
<1>6. HandedOut'
  <2>1. \A n \in Nat : n <= lastBackup => n <= new
    BY <1>1 DEF new
  <2>2. \A i \in 1 .. Len(queue') : queue'[i] <= new
    BY <1>1, <1>4, <1>5, <2>1, OneTypes
  <2> QED BY <1>1, <1>5, <2>1, <2>2 DEF HandedOut
<1>7. GoroutinesEnd'
  BY <1>1 DEF OneInv, GoroutinesEnd
<1>8. OwnArchives'
  <2>1. \A b \in Backup : backups'[b].eng # None => backups[b].eng = backups'[b].eng
    BY <1>3
  <2> QED BY <1>1, <2>1 DEF OneInv, OwnArchives
<1>9. ASSUME PostsApart PROVE PostsApart'
  <2>1. \A i, j \in 1 .. Len(queue') : queue'[i] = queue'[j] => i = j
    BY <1>4, <1>5, <1>9 DEF PostsApart
  <2>2. \A i \in 1 .. Len(queue') :
          /\ \A a \in Archive : archives[a].owner = queue'[i] => archives[a].work = "none"
          /\ worker.pc = "post" => queue'[i] # worker.id
    BY <1>4, <1>5, <1>9 DEF PostsApart, Quiet
  <2>3. \A i \in 1 .. Len(queue') : \A a \in Archive :
          archives'[a].owner = queue'[i] => archives'[a].work = "none"
    <3>1. ASSUME NEW i \in 1 .. Len(queue'), NEW a \in Archive, archives'[a].owner = queue'[i]
          PROVE  archives'[a].work = "none"
      <4>1. archives' = archives
        BY <1>1
      <4> QED BY <3>1, <4>1, <2>2
    <3> QED BY <3>1
  <2>4. lostJobs' = {} /\ worker' = worker /\ archives' = archives
    BY <1>1, <1>9 DEF PostsApart
  <2>5. worker.pc = "post" => Quiet(worker.id)
    BY <1>9 DEF PostsApart
  <2>6. \A a, c \in Archive :
          archives[a].work # "none" /\ archives[c].work # "none"
            /\ archives[a].owner = archives[c].owner => a = c
    BY <1>9 DEF PostsApart
  <2> QED BY ONLY <2>1, <2>2, <2>3, <2>4, <2>5, <2>6 DEF PostsApart, Quiet
<1>10. ASSUME FirstAttempt PROVE FirstAttempt'
  <2>1. ASSUME NEW i \in 1 .. Len(queue')
        PROVE  /\ backups'[queue'[i]].status \in {"queued", "absent"}
               /\ \A a \in Archive : archives[a].owner # queue'[i]
               /\ queue'[i] # worker.id
               /\ \A v \in reconcile : v.id # queue'[i]
    <3>1. CASE i = Len(queue) + 1
      BY <1>3, <1>4, <1>5, <3>1
    <3>2. CASE i \in 1 .. Len(queue)
      BY <1>3, <1>4, <1>5, <1>10, <3>2 DEF FirstAttempt, Unmade
    <3> QED BY <1>4, <3>1, <3>2
  <2>2. \A b \in Backup : backups'[b].status = "failed" => Quiet(b)
    BY <1>3, <1>10 DEF FirstAttempt
  <2>3. worker.pc = "post" => worker.id \in Backup /\ backups'[worker.id] = backups[worker.id]
    BY <1>3, <1>5, OneTypes
  <2> QED BY <1>1, <1>10, <2>1, <2>2, <2>3 DEF FirstAttempt, Unmade, Quiet
<1> QED BY <1>1, <1>6, <1>7, <1>8, <1>9, <1>10 DEF OneInv

LEMMA OneCreate ==
  ASSUME TypeInv, LinkInv, OneInv, StoreFull \/ StoreIncremental \/ RunDue
  PROVE  OneInv'
<1>1. \A t \in Backup : /\ backups[t].level + 1 \in Nat
                        /\ backups[t].base \in BackupOrNone
                        /\ t \in BackupOrNone
  BY BoundsArePositive DEF TypeInv, TypeOK, BackupRow
<1>2. Tips \subseteq Backup /\ None \in BackupOrNone
  BY BoundsArePositive DEF Tips
<1>3. CASE StoreFull
  BY <1>2, <1>3, OneEnqueue DEF StoreFull
<1>4. CASE StoreIncremental
  <2>1. PICK t \in Tips :
          Enqueue(backups[t].level + 1, t,
                  IF backups[t].base # None THEN backups[t].base ELSE t)
    BY <1>4 DEF StoreIncremental
  <2> QED BY <1>1, <1>2, <2>1, OneEnqueue
<1>5. CASE RunDue
  <2>1. CASE Enqueue(0, None, None)
    BY <1>2, <2>1, OneEnqueue
  <2>2. CASE \E t \in Tips : Enqueue(backups[t].level + 1, t, BaseOf(t))
    <3>1. PICK t \in Tips : Enqueue(backups[t].level + 1, t, BaseOf(t))
      BY <2>2
    <3>2. BaseOf(t) \in BackupOrNone
      BY <1>1, <1>2 DEF BaseOf
    <3> QED BY <1>1, <1>2, <3>1, <3>2, OneEnqueue
  <2> QED BY <1>5, <2>1, <2>2 DEF RunDue
<1> QED BY <1>3, <1>4, <1>5

(* The retry: of a backup that failed before, so nothing of it is made any  *)
(* more, and it waits and is posted nowhere.                                *)
LEMMA OneRetry ==
  ASSUME TypeInv, LinkInv, OneInv, NEW b \in Backup, Retry(b)
  PROVE  OneInv'
<1>1. /\ backups[b].status = "failed" /\ retries' = retries + 1 /\ faults' = faults
      /\ backups \in [Backup -> BackupRow] /\ queue \in Seq(Backup) /\ retries \in Nat
      /\ backups' = [backups EXCEPT ![b] = [backups[b] EXCEPT !.status = "queued"]]
      /\ queue' = Append(queue, b) /\ lastBackup' = lastBackup
      /\ worker' = worker /\ archives' = archives /\ lastArchive' = lastArchive
      /\ lostJobs' = lostJobs /\ reconcile' = reconcile
  BY DEF Retry, TypeInv, TypeOK, engineVars
<1>2. \A c \in Backup : backups'[c].eng = backups[c].eng
  <2>1. [backups[b] EXCEPT !.status = "queued"].eng = backups[b].eng
    BY <1>1 DEF BackupRow
  <2> QED BY <1>1, <2>1
<1>3. /\ Len(queue') = Len(queue) + 1 /\ Len(queue) \in Nat
      /\ \A i \in 1 .. Len(queue) : queue'[i] = queue[i] /\ queue[i] \in Backup
      /\ queue'[Len(queue) + 1] = b
      /\ \A i \in 1 .. Len(queue) + 1 : i \in 1 .. Len(queue) \/ i = Len(queue) + 1
  BY <1>1
<1>4. HandedOut'
  <2>1. b <= lastBackup
    BY <1>1, BoundsArePositive DEF LinkInv, RowInv, IdsHandedOut, Exists
  <2>2. \A i \in 1 .. Len(queue') : queue'[i] <= lastBackup
    BY <1>3, <2>1 DEF OneInv, HandedOut
  <2> QED BY <1>1, <2>2 DEF OneInv, HandedOut
<1>5. GoroutinesEnd'
  BY <1>1 DEF OneInv, GoroutinesEnd
<1>6. OwnArchives'
  BY <1>1, <1>2 DEF OneInv, OwnArchives
<1>7. ASSUME faults' = 0, retries' <= 1
      PROVE  PostsApart'
  <2>1. PostsApart /\ FirstAttempt
    BY <1>1, <1>7 DEF OneInv
  <2>2. /\ \A i \in 1 .. Len(queue) : queue[i] # b
        /\ Quiet(b)
        /\ worker.pc = "post" => worker.id # b
    BY <1>1, <2>1 DEF FirstAttempt
  <2>3. \A i, j \in 1 .. Len(queue') : queue'[i] = queue'[j] => i = j
    BY <1>3, <2>1, <2>2 DEF PostsApart
  <2>4. \A i \in 1 .. Len(queue') :
          /\ \A a \in Archive : archives[a].owner = queue'[i] => archives[a].work = "none"
          /\ worker.pc = "post" => queue'[i] # worker.id
    BY <1>3, <2>1, <2>2 DEF PostsApart, Quiet
  <2>5. \A i \in 1 .. Len(queue') : \A a \in Archive :
          archives'[a].owner = queue'[i] => archives'[a].work = "none"
    <3>1. ASSUME NEW i \in 1 .. Len(queue'), NEW a \in Archive, archives'[a].owner = queue'[i]
          PROVE  archives'[a].work = "none"
      <4>1. archives' = archives
        BY <1>1
      <4> QED BY <3>1, <4>1, <2>4
    <3> QED BY <3>1
  <2>6. lostJobs' = {} /\ worker' = worker /\ archives' = archives
    BY <1>1, <2>1 DEF PostsApart
  <2>7. worker.pc = "post" => Quiet(worker.id)
    BY <2>1 DEF PostsApart
  <2>8. \A a, c \in Archive :
          archives[a].work # "none" /\ archives[c].work # "none"
            /\ archives[a].owner = archives[c].owner => a = c
    BY <2>1 DEF PostsApart
  <2> QED BY ONLY <2>3, <2>4, <2>5, <2>6, <2>7, <2>8 DEF PostsApart, Quiet
<1>8. retries' # 0
  BY <1>1
<1> QED BY <1>4, <1>5, <1>6, <1>7, <1>8 DEF OneInv

(* The head of the queue is taken: it is in the queue no more.              *)
LEMMA OneJobStart ==
  ASSUME TypeInv, LinkInv, OneInv, JobStart
  PROVE  OneInv'
<1> DEFINE b == Head(queue)
           r == backups[b]
           hasParent == r.level > 0 /\ r.parent # None
           noSnapshot == hasParent /\ (IF hasParent THEN ParentSnapshot(b) ELSE None) = None
           row == [r EXCEPT !.status = "running",
                            !.level  = IF noSnapshot THEN 0 ELSE r.level,
                            !.parent = IF noSnapshot THEN None ELSE r.parent,
                            !.base   = IF noSnapshot THEN None ELSE r.base]
<1>1. /\ b \in Backup /\ backups \in [Backup -> BackupRow] /\ r \in BackupRow
      /\ queue \in Seq(Backup) /\ queue # <<>> /\ queue' = Tail(queue) /\ worker.pc = "idle"
      /\ lastBackup' = lastBackup /\ archives' = archives /\ lastArchive' = lastArchive
      /\ lostJobs' = lostJobs /\ reconcile' = reconcile
      /\ faults' = faults /\ retries' = retries
  BY DEF TypeInv, TypeOK, JobStart, engineVars, bounds
<1>2. \/ UNCHANGED <<backups, worker>>
      \/ /\ backups' = [backups EXCEPT ![b] = row]
         /\ worker'.pc = "post" /\ worker'.id = b
  <2> DEFINE busy(w, l) == [IdleWorker EXCEPT !.pc = "post", !.id = b, !.want = w, !.level = l]
  <2>1. \A w, l : busy(w, l).pc = "post" /\ busy(w, l).id = b
    BY DEF IdleWorker
  <2>2. \/ UNCHANGED <<backups, worker>>
        \/ /\ backups' = [backups EXCEPT ![b] = row]
           /\ \E w, l : worker' = busy(w, l)
    BY DEF JobStart
  <2> HIDE DEF row, busy
  <2> QED BY <2>1, <2>2
<1>3. row.eng = r.eng /\ row.status = "running"
  BY <1>1 DEF BackupRow
<1>4. b = queue[1]
  BY <1>1
<1> HIDE DEF row, r, b
<1>5. /\ \A c \in Backup : backups'[c].eng = backups[c].eng
      /\ \A c \in Backup : backups'[c].status = backups[c].status
                           \/ (c = b /\ backups'[c].status = "running")
  BY <1>1, <1>2, <1>3 DEF r
<1>6. /\ Len(queue) \in Nat \ {0} /\ Len(queue') = Len(queue) - 1
      /\ \A i \in 1 .. Len(queue) - 1 : queue'[i] = queue[i + 1] /\ i + 1 \in 1 .. Len(queue)
                                        /\ i + 1 # 1
      /\ \A i \in 1 .. Len(queue) : queue[i] \in Backup
      /\ 1 \in 1 .. Len(queue)
  BY <1>1
<1>7. worker'.pc = "idle" \/ (worker'.pc = "post" /\ worker'.id = b /\ backups'[b].status = "running")
  BY <1>1, <1>2, <1>3
<1>8. worker'.id \in {worker.id, b} /\ (worker'.pc = "idle" => worker'.id = worker.id)
  BY <1>2
<1>9. HandedOut'
  BY <1>1, <1>6 DEF OneInv, HandedOut
<1>10. GoroutinesEnd'
  BY <1>1 DEF OneInv, GoroutinesEnd
<1>11. OwnArchives'
  BY <1>1, <1>5, <1>7 DEF OneInv, OwnArchives
<1>12. ASSUME PostsApart
       PROVE  \A i \in 1 .. Len(queue') : queue'[i] # b
  BY <1>4, <1>6, <1>12 DEF PostsApart
<1>13. ASSUME PostsApart PROVE PostsApart'
  <2>1. ASSUME NEW i \in 1 .. Len(queue'), NEW j \in 1 .. Len(queue'), queue'[i] = queue'[j]
        PROVE  i = j
    <3>1. i + 1 = j + 1
      BY <1>6, <1>13, <2>1 DEF PostsApart
    <3> QED BY <1>6, <3>1
  <2>2. \A i \in 1 .. Len(queue') : \A a \in Archive :
          archives[a].owner = queue'[i] => archives[a].work = "none"
    BY <1>6, <1>13 DEF PostsApart, Quiet
  <2>3. \A a \in Archive : archives[a].owner = b => archives[a].work = "none"
    BY <1>4, <1>6, <1>13 DEF PostsApart, Quiet
  <2>4. /\ lostJobs = {}
        /\ \A a, c \in Archive :
             archives[a].work # "none" /\ archives[c].work # "none"
               /\ archives[a].owner = archives[c].owner => a = c
    BY <1>13 DEF PostsApart
  <2>5. archives' = archives /\ lostJobs' = lostJobs
    BY <1>1
  <2>6. \A i \in 1 .. Len(queue') : queue'[i] # b
    BY <1>12, <1>13
  <2>7. worker'.pc = "post" => worker'.id = b
    BY <1>7
  <2> QED BY ONLY <2>1, <2>2, <2>3, <2>4, <2>5, <2>6, <2>7 DEF PostsApart, Quiet
<1>14. ASSUME PostsApart, FirstAttempt PROVE FirstAttempt'
  <2>1. ASSUME NEW i \in 1 .. Len(queue')
        PROVE  /\ backups'[queue'[i]].status \in {"queued", "absent"}
               /\ \A a \in Archive : archives[a].owner # queue'[i]
               /\ queue'[i] # worker'.id
               /\ \A v \in reconcile : v.id # queue'[i]
    <3>1. /\ i + 1 \in 1 .. Len(queue) /\ queue'[i] = queue[i + 1] /\ queue'[i] # b
          /\ queue'[i] \in Backup
      BY <1>6, <1>12, <1>14
    <3> QED BY <1>5, <1>8, <1>14, <3>1 DEF FirstAttempt, Unmade
  <2>2. /\ \A a \in Archive : archives[a].owner # b
        /\ \A v \in reconcile : v.id # b
    BY <1>4, <1>6, <1>14 DEF FirstAttempt, Unmade
  <2>3. \A c \in Backup : backups'[c].status = "failed" =>
          \A a \in Archive : archives[a].owner = c => archives[a].work = "none"
    BY <1>5, <1>14 DEF FirstAttempt, Quiet
  <2>4. /\ \A a, c \in Archive :
             archives[a].owner = archives[c].owner /\ archives[a].owner # None => a = c
        /\ \A v \in reconcile : v.says # "completed" =>
             \A a \in Archive : archives[a].owner = v.id => archives[a].work = "none"
    BY <1>14 DEF FirstAttempt, Quiet
  <2>5. archives' = archives /\ reconcile' = reconcile
    BY <1>1
  <2> QED BY ONLY <1>7, <2>1, <2>2, <2>3, <2>4, <2>5 DEF FirstAttempt, Unmade, Quiet
<1>15. /\ faults' = 0 /\ retries' <= 1 => PostsApart'
       /\ faults' = 0 /\ retries' = 0 => FirstAttempt'
  BY <1>1, <1>13, <1>14 DEF OneInv
<1> QED BY <1>9, <1>10, <1>11, <1>15 DEF OneInv

(* The POST as the engine sees it.                                          *)
LEMMA OnePosted ==
  ASSUME TypeInv, NEW owner \in Backup, NEW level \in Nat, NEW want \in ArchiveOrNone,
         BackupQueue(owner, level, want)
  PROVE  /\ lastArchive + 1 \in Archive /\ lastArchive' = lastArchive + 1
         /\ \A a \in Archive : a # lastArchive + 1 => archives'[a] = archives[a]
         /\ archives'[lastArchive + 1].owner = owner
         /\ archives'[lastArchive + 1].row = "running"
<1> DEFINE row == [row |-> "running", owner |-> owner,
                   level |-> IF want = None THEN 0 ELSE level, want |-> want,
                   work |-> "starting", on |-> None, disk |-> FALSE]
<1>1. /\ archives \in [Archive -> ArchiveRecord] /\ lastArchive + 1 \in Archive
  BY QueueTypes, BoundsArePositive DEF TypeInv, TypeOK, EngineTypeOK
<1>2. archives' = [archives EXCEPT ![lastArchive + 1] = row] /\ lastArchive' = lastArchive + 1
  BY DEF BackupQueue
<1>3. row.owner = owner /\ row.row = "running"
  OBVIOUS
<1> HIDE DEF row
<1> QED BY <1>1, <1>2, <1>3

(* What a POST never breaks, lost answer or not.                            *)
LEMMA OnePostKeeps ==
  ASSUME TypeInv, LinkInv, OneInv, worker.pc = "post",
         BackupQueue(worker.id, worker.level, worker.want),
         UNCHANGED <<lastBackup, queue, reconcile>>,
         \A b \in Backup : backups'[b].eng = backups[b].eng,
         \/ worker'.pc \in {"post", "idle"}
         \/ worker'.id = worker.id /\ worker'.arc = lastArchive + 1
  PROVE  HandedOut' /\ GoroutinesEnd' /\ OwnArchives'
<1> DEFINE new == lastArchive + 1
<1>1. /\ new \in Archive /\ lastArchive' = new
      /\ \A a \in Archive : a # new => archives'[a] = archives[a]
      /\ archives'[new].owner = worker.id /\ archives'[new].row = "running"
  <2>1. worker.id \in Backup /\ worker.level \in Nat /\ worker.want \in ArchiveOrNone
    BY OneTypes DEF WorkerState
  <2> QED BY <2>1, OnePosted
<1>2. archives[new].owner = None /\ lastArchive \in Nat /\ new > lastArchive
      /\ \A a \in Archive : a \in Nat /\ (a > new => a > lastArchive /\ a # new)
  BY <1>1, OneTypes DEF OneInv, GoroutinesEnd
<1> HIDE DEF new
<1>3. HandedOut'
  <2>1. worker.id <= lastBackup
    BY DEF LinkInv, RowInv, IdsHandedOut
  <2> QED BY <1>1, <2>1 DEF OneInv, HandedOut
<1>4. GoroutinesEnd'
  BY <1>1, <1>2 DEF OneInv, GoroutinesEnd
<1>5. OwnArchives'
  <2>1. ASSUME NEW b \in Backup, backups'[b].eng # None
        PROVE  archives'[backups'[b].eng].owner = b
    <3>1. /\ backups[b].eng \in Archive /\ backups'[b].eng = backups[b].eng /\ b # None
          /\ archives[backups[b].eng].owner = b
      BY <2>1, OneTypes DEF OneInv, OwnArchives
    <3> QED BY <1>1, <1>2, <3>1
  <2> QED BY <1>1, <2>1 DEF OwnArchives, new
<1> QED BY <1>3, <1>4, <1>5

LEMMA OneJobPost ==
  ASSUME TypeInv, LinkInv, OneInv, JobPost
  PROVE  OneInv'
<1> DEFINE new == lastArchive + 1
<1>1. /\ worker.pc = "post" /\ BackupQueue(worker.id, worker.level, worker.want)
      /\ worker \in WorkerState /\ worker.id \in Backup
      /\ worker' = [worker EXCEPT !.pc = "seed", !.calls = @ + 1, !.arc = lastArchive + 1]
      /\ UNCHANGED <<backups, lastBackup, queue, lostJobs, reconcile, faults, retries>>
  BY OneTypes DEF JobPost, bounds
<1>2. worker'.pc = "seed" /\ worker'.id = worker.id /\ worker'.arc = new
  BY <1>1 DEF WorkerState
<1>3. /\ new \in Archive
      /\ \A a \in Archive : a # new => archives'[a] = archives[a]
      /\ archives'[new].owner = worker.id
  <2>1. worker.level \in Nat /\ worker.want \in ArchiveOrNone
    BY <1>1 DEF WorkerState
  <2> QED BY <1>1, <2>1, OnePosted
<1> HIDE DEF new
<1>4. HandedOut' /\ GoroutinesEnd' /\ OwnArchives'
  BY <1>1, <1>2, OnePostKeeps DEF new
<1>5. ASSUME PostsApart PROVE PostsApart'
  <2>1. /\ \A i \in 1 .. Len(queue) : queue[i] # worker.id
        /\ \A a \in Archive : archives[a].owner = worker.id => archives[a].work = "none"
        /\ \A i \in 1 .. Len(queue) : \A a \in Archive :
             archives[a].owner = queue[i] => archives[a].work = "none"
        /\ lostJobs = {} /\ \A i, j \in 1 .. Len(queue) : queue[i] = queue[j] => i = j
        /\ \A a, c \in Archive :
             archives[a].work # "none" /\ archives[c].work # "none"
               /\ archives[a].owner = archives[c].owner => a = c
    BY <1>1, <1>5 DEF PostsApart, Quiet
  <2>2. \A i \in 1 .. Len(queue) : \A a \in Archive :
          archives'[a].owner = queue[i] => archives'[a].work = "none"
    BY <1>3, <2>1
  <2>3. \A a, c \in Archive :
          archives'[a].work # "none" /\ archives'[c].work # "none"
            /\ archives'[a].owner = archives'[c].owner => a = c
    <3>1. ASSUME NEW a \in Archive, NEW c \in Archive, archives'[a].work # "none",
                 archives'[c].work # "none", archives'[a].owner = archives'[c].owner
          PROVE  a = c
      <4>1. CASE a = new /\ c # new
        BY <1>3, <2>1, <3>1, <4>1
      <4>2. CASE a # new /\ c = new
        BY <1>3, <2>1, <3>1, <4>2
      <4>3. CASE a # new /\ c # new
        BY <1>3, <2>1, <3>1, <4>3
      <4> QED BY <4>1, <4>2, <4>3
    <3> QED BY <3>1
  <2>4. queue' = queue /\ lostJobs' = lostJobs
    BY <1>1
  <2> QED BY ONLY <1>2, <2>1, <2>2, <2>3, <2>4 DEF PostsApart, Quiet
<1>6. ASSUME FirstAttempt PROVE FirstAttempt'
  <2>1. ASSUME NEW i \in 1 .. Len(queue)
        PROVE  /\ backups[queue[i]].status \in {"queued", "absent"}
               /\ \A a \in Archive : archives'[a].owner # queue[i]
               /\ queue[i] # worker.id
               /\ \A v \in reconcile : v.id # queue[i]
    BY <1>3, <1>6 DEF FirstAttempt, Unmade
  <2>2. /\ backups[worker.id].status \in {"running", "absent"}
        /\ \A a \in Archive : archives[a].owner # worker.id
        /\ \A v \in reconcile : v.id # worker.id
    BY <1>1, <1>6 DEF FirstAttempt, Unmade
  <2>3. \A b \in Backup : backups[b].status = "failed" =>
          \A a \in Archive : archives'[a].owner = b => archives'[a].work = "none"
    <3>1. ASSUME NEW b \in Backup, backups[b].status = "failed", NEW a \in Archive,
                 archives'[a].owner = b
          PROVE  archives'[a].work = "none"
      <4>1. a # new
        BY <1>3, <2>2, <3>1
      <4> QED BY <1>3, <1>6, <3>1, <4>1 DEF FirstAttempt, Quiet
    <3> QED BY <3>1
  <2>4. \A a, c \in Archive :
          archives'[a].owner = archives'[c].owner /\ archives'[a].owner # None => a = c
    <3>1. ASSUME NEW a \in Archive, NEW c \in Archive,
                 archives'[a].owner = archives'[c].owner, archives'[a].owner # None
          PROVE  a = c
      <4>1. CASE a = new \/ c = new
        BY <1>3, <2>2, <3>1, <4>1
      <4>2. CASE a # new /\ c # new
        BY <1>3, <1>6, <3>1, <4>2 DEF FirstAttempt
      <4> QED BY <4>1, <4>2
    <3> QED BY <3>1
  <2>5. \A v \in reconcile : v.says # "completed" =>
          \A a \in Archive : archives'[a].owner = v.id => archives'[a].work = "none"
    BY <1>3, <1>6, <2>2 DEF FirstAttempt, Quiet
  <2>6. UNCHANGED <<backups, queue, reconcile>>
    BY <1>1
  <2> QED BY ONLY <1>2, <2>1, <2>3, <2>4, <2>5, <2>6 DEF FirstAttempt, Unmade, Quiet
<1>7. /\ faults' = 0 /\ retries' <= 1 => PostsApart'
      /\ faults' = 0 /\ retries' = 0 => FirstAttempt'
  BY <1>1, <1>5, <1>6 DEF OneInv
<1> QED BY <1>4, <1>7 DEF OneInv

(* A lost answer ends what is promised of archives at a time.               *)
LEMMA OneJobPostLost ==
  ASSUME TypeInv, LinkInv, OneInv, JobPostLost
  PROVE  OneInv'
<1>1. /\ worker.pc = "post" /\ BackupQueue(worker.id, worker.level, worker.want)
      /\ worker \in WorkerState /\ worker.id \in Backup
      /\ faults' = faults + 1 /\ faults \in Nat
      /\ UNCHANGED <<lastBackup, queue, reconcile>>
  BY OneTypes DEF JobPostLost
<1>2. \/ worker' = [worker EXCEPT !.calls = 1] /\ UNCHANGED backups
      \/ worker' = IdleWorker /\ SetStatus(worker.id, "failed")
  BY DEF JobPostLost
<1>3. worker'.pc \in {"post", "idle"}
  BY <1>1, <1>2 DEF WorkerState, IdleWorker
<1>4. ASSUME NEW b \in Backup
      PROVE  backups'[b].eng = backups[b].eng
  <2>1. backups \in [Backup -> BackupRow] /\ backups[worker.id] \in BackupRow
    BY <1>1, OneTypes
  <2>2. [backups[worker.id] EXCEPT !.status = "failed"].eng = backups[worker.id].eng
    BY <2>1 DEF BackupRow
  <2> QED BY <1>2, <2>1, <2>2 DEF SetStatus, SetRow
<1>5. HandedOut' /\ GoroutinesEnd' /\ OwnArchives'
  BY <1>1, <1>3, <1>4, OnePostKeeps
<1>6. faults' # 0
  BY <1>1
<1> QED BY <1>5, <1>6 DEF OneInv

(* What the reconciler makes out of the lists it reads.                     *)
LEMMA OneListed ==
  ASSUME TypeInv, OneInv, FirstAttempt, NEW b \in Candidates, NEW reachable \in BOOLEAN,
         Says(b, reachable) # "nothing"
  PROVE  /\ \A i \in 1 .. Len(queue) : queue[i] # b
         /\ worker.pc = "post" => worker.id # b
         /\ Says(b, reachable) # "completed" => Quiet(b)
<1>1. b \in Backup /\ b # None /\ backups[b].status \in {"running", "failed"}
      /\ backups[b] \in BackupRow
      /\ (backups[b].eng # None => backups[b].eng \in Archive)
  BY OneTypes DEF Candidates
<1>2. \A i \in 1 .. Len(queue) : queue[i] # b
  BY <1>1 DEF FirstAttempt
<1>3. \/ SeenRow(b, reachable) \in {"completed", "failed"}
      \/ Says(b, reachable) = "stale" /\ StaleFor6Hours(b)
  BY DEF Says
<1>4. /\ Says(b, reachable) = "failed" => SeenRow(b, reachable) = "failed"
      /\ Says(b, reachable) = "stale" => StaleFor6Hours(b)
      /\ Says(b, reachable) \in {"completed", "failed", "stale"}
  BY DEF Says
<1>5. SeenRow(b, reachable) \in {"completed", "failed"} =>
        backups[b].eng # None /\ archives[backups[b].eng].row = SeenRow(b, reachable)
  BY DEF SeenRow
<1>6. ASSUME worker.pc = "post", worker.id = b
      PROVE  FALSE
  <2>1. \A a \in Archive : archives[a].owner # b
    BY <1>6 DEF FirstAttempt, Unmade
  <2>2. backups[b].eng = None
    BY <1>1, <2>1 DEF OneInv, OwnArchives
  <2> QED BY <1>3, <1>5, <1>6, <2>2 DEF StaleFor6Hours
<1>7. ASSUME Says(b, reachable) # "completed"
      PROVE  Quiet(b)
  <2>1. CASE Says(b, reachable) = "stale"
    BY <1>4, <2>1 DEF StaleFor6Hours, Quiet
  <2>2. CASE Says(b, reachable) = "failed"
    <3>1. backups[b].eng # None /\ archives[backups[b].eng].row = "failed"
      BY <1>4, <1>5, <2>2
    <3>2. /\ backups[b].eng \in Archive /\ archives[backups[b].eng].work = "none"
          /\ archives[backups[b].eng].owner = b
      BY <1>1, <3>1 DEF OneInv, GoroutinesEnd, OwnArchives
    <3>3. \A a \in Archive : archives[a].owner = b => a = backups[b].eng
      BY <1>1, <3>2 DEF FirstAttempt
    <3> QED BY <3>2, <3>3 DEF Quiet
  <2> QED BY <1>4, <1>7, <2>1, <2>2
<1> QED BY <1>2, <1>6, <1>7

LEMMA OneReconcileList ==
  ASSUME TypeInv, LinkInv, OneInv, NEW reachable \in BOOLEAN, ReconcileList(reachable)
  PROVE  OneInv'
<1> DEFINE listed == {c \in Candidates : Says(c, reachable) # "nothing"}
           verdict(b) == [id |-> b, says |-> Says(b, reachable), arc |-> backups[b].eng,
                          level |-> backups[b].level, snap |-> backups[b].snap]
<1>1. /\ reconcile' = {verdict(b) : b \in listed}
      /\ faults' \in {faults, faults + 1} /\ faults \in Nat /\ retries' = retries
      /\ UNCHANGED <<archives, lastArchive, backups, lastBackup, queue, lostJobs, worker>>
  BY OneTypes DEF ReconcileList, engineVars
<1>2. \A b : verdict(b).id = b /\ verdict(b).says = Says(b, reachable)
  OBVIOUS
<1> HIDE DEF verdict
<1>3. \A v \in reconcile' : \E b \in Candidates :
         v.id = b /\ v.says = Says(b, reachable) /\ Says(b, reachable) # "nothing"
  BY <1>1, <1>2
<1> HIDE DEF listed
<1>4. HandedOut'
  <2>1. \A b \in Candidates : b <= lastBackup
    BY OneTypes DEF Candidates, LinkInv, RowInv, IdsHandedOut, Exists
  <2> QED BY <1>1, <1>3, <2>1 DEF OneInv, HandedOut
<1>5. GoroutinesEnd' /\ OwnArchives'
  BY <1>1 DEF OneInv, GoroutinesEnd, OwnArchives
<1>6. PostsApart => PostsApart'
  BY <1>1 DEF PostsApart, Quiet
<1>7. ASSUME FirstAttempt PROVE FirstAttempt'
  <2>1. ASSUME NEW v \in reconcile'
        PROVE  /\ \A i \in 1 .. Len(queue) : queue[i] # v.id
               /\ worker.pc = "post" => worker.id # v.id
               /\ v.says # "completed" =>
                    \A a \in Archive : archives[a].owner = v.id => archives[a].work = "none"
    BY <1>3, <1>7, OneListed DEF Quiet
  <2> QED BY <1>1, <1>7, <2>1 DEF FirstAttempt, Unmade, Quiet
<1>8. /\ faults' = 0 /\ retries' <= 1 => PostsApart'
      /\ faults' = 0 /\ retries' = 0 => FirstAttempt'
  BY <1>1, <1>6, <1>7 DEF OneInv
<1> QED BY <1>4, <1>5, <1>8 DEF OneInv

LEMMA OneBeside ==
  ASSUME TypeInv, TypeInv', OneInv, EngineStep \/ WorkerCrash \/ Restart \/ UNCHANGED vars
  PROVE  OneInv'
<1>1. CASE EngineStep
  <2>1. UNCHANGED <<backups, lastBackup, queue, lostJobs, worker, reconcile, faults, retries>>
    BY <1>1 DEF EngineStep, panelVars, bounds
  <2>2. EngineRests
    BY <1>1, ArchivingRests DEF EngineStep
  <2> QED BY <2>1, <2>2, OneTableStays, RestKeeps, OneTypes DEF WorkerRests
<1>2. CASE WorkerCrash
  <2>1. /\ worker' = IdleWorker /\ faults' = faults + 1
        /\ UNCHANGED <<engineVars, backups, lastBackup, queue, reconcile, retries>>
    BY <1>2 DEF WorkerCrash
  <2>2. faults <= faults' /\ faults' # faults
    BY <2>1, OneTypes
  <2> QED BY <2>1, <2>2, UntouchedRests, OneTableStays, RestKeeps DEF WorkerRests
<1>3. CASE Restart
  <2>1. UNCHANGED <<backups, lastBackup, queue, lostJobs, worker, reconcile, faults, retries>>
    BY <1>3 DEF Restart
  <2>2. EngineRests
    BY <1>3, RestartRests DEF Restart
  <2> QED BY <2>1, <2>2, OneTableStays, RestKeeps, OneTypes DEF WorkerRests
<1>4. CASE UNCHANGED vars
  <2>1. UNCHANGED <<engineVars, backups, lastBackup, queue, lostJobs, worker, reconcile,
                    faults, retries>>
    BY <1>4 DEF vars, panelVars, bounds
  <2> QED BY <2>1, UntouchedRests, OneTableStays, RestKeeps, OneTypes DEF WorkerRests
<1> QED BY <1>1, <1>2, <1>3, <1>4

LEMMA OneStep == TypeInv /\ TypeInv' /\ LinkInv /\ OneInv /\ [Next]_vars => OneInv'
<1> SUFFICES ASSUME TypeInv, TypeInv', LinkInv, OneInv, [Next]_vars
             PROVE  OneInv'
  OBVIOUS
<1>1. CASE Request
  BY <1>1, OneCreate, OneRetry, OneDeleting DEF Request
<1>2. CASE Job
  BY <1>2, OneJobStart, OneJobPost, OneJob DEF Job
<1>3. CASE \E b \in Backup : JobFailedHook(b)
  BY <1>3, OneHook
<1>4. CASE (\E reachable \in BOOLEAN : ReconcileList(reachable)) \/ ReconcileOne
  BY <1>4, OneReconcileList, OneReconcile
<1>5. CASE \E d \in Deleters : Purge(d) \/ DeleteRow(d)
  BY <1>5, OneDeleting
<1>6. CASE EngineStep \/ WorkerCrash \/ Restart \/ UNCHANGED vars
  BY <1>6, OneBeside
<1>7. CASE JobPostLost
  BY <1>7, OneJobPostLost
<1> QED BY <1>1, <1>2, <1>3, <1>4, <1>5, <1>6, <1>7 DEF Next

(* The engine never makes two archives of one backup at a time, whatever    *)
(* job, retry, reconciler, deleters and restarts do: two tars of one site   *)
(* need a lost answer or a second retry.                                    *)
THEOREM ArchivesAreMadeOneByOne == Spec => []OneArchiveAtATime
<1>1. OneInv => OneArchiveAtATime
  BY DEF OneInv, PostsApart, OneArchiveAtATime
<1> QED BY <1>1, TypeInit, TypeStep, LinkInit, LinkStep, OneInit, OneStep, PTL DEF Spec

-----------------------------------------------------------------------------
(* The inductive invariant                                                  *)

(* Archives the engine will not touch again: finished, or once finished and *)
(* their files deleted.                                                     *)
Settled ==
  {a \in Archive : /\ archives[a].work = "none"
                   /\ \/ archives[a].row = "completed"
                      \/ archives[a].row = "deleted" /\ ~archives[a].disk}

FailedForGood == {a \in Archive : archives[a].row \in {"failed", "deleted"}}

(* What an increment may be made on: a settled archive of a backup that is  *)
(* completed as long as it is there.                                        *)
Bases ==
  {a \in Settled : /\ archives[a].owner \in Backup
                   /\ archives[a].owner <= lastBackup
                   /\ backups[archives[a].owner].status \in {"completed", "absent"}}

(* The engine records a result only with the end of the goroutine, and has  *)
(* no row under an id it has not handed out.                                *)
EngineClean ==
  \A a \in Archive : /\ archives[a].row = "completed" => archives[a].work = "none"
                     /\ archives[a].row # "unused" => a <= lastArchive

WantsBase ==
  \A a \in Archive : archives[a].want # None =>
    archives[a].want \in Bases /\ archives[archives[a].want].owner < archives[a].owner

RowsDone ==
  \A b \in Backup :
    /\ backups[b].eng # None => archives[backups[b].eng].owner = b
    /\ backups[b].status = "completed" => backups[b].eng # None /\ backups[b].eng \in Settled
    /\ backups[b].parent # None => backups[backups[b].parent].status = "completed"

WorkerDone ==
  /\ worker.pc = "post" /\ worker.want # None =>
       worker.want \in Bases /\ archives[worker.want].owner < worker.id
  /\ worker.pc \in {"seed", "poll", "finish"} => archives[worker.arc].owner = worker.id
  /\ worker.pc = "finish" =>
       /\ worker.seen \in {"completed", "failed"}
       /\ worker.seen = "completed" => worker.arc \in Settled
       /\ worker.seen = "failed" => /\ worker.arc \in FailedForGood
                                    /\ backups[worker.id].status # "completed"

(* Jobs that wait are of backups nobody has worked for; the jobs lost with  *)
(* their worker are older.                                                  *)
QueueDone ==
  \A i \in 1 .. Len(queue) : /\ backups[queue[i]].status \in {"queued", "absent"}
                             /\ \A b \in lostJobs : b < queue[i]
LostDone == \A b \in lostJobs : b <= lastBackup

(* What the reconciler's loop still has to write stays true of the row, and *)
(* agrees with what the worker has seen.                                    *)
VerdictDone(v) ==
  /\ v.arc # None /\ Exists(v.id) => backups[v.id].eng = v.arc
  /\ v.says = "completed" => v.arc \in Settled
  /\ v.says = "failed" => v.arc # None /\ v.arc \in FailedForGood
  /\ v.says # "completed" => backups[v.id].status \in {"running", "failed", "absent"}
  /\ v.says = "stale" => worker.id # v.id
  /\ worker.pc = "finish" /\ worker.id = v.id /\ Exists(v.id) => v.says = worker.seen
VerdictsDone ==
  /\ \A v, w \in reconcile : v.id = w.id => v = w
  /\ \A v \in reconcile : v.id <= lastBackup /\ VerdictDone(v)

DoneInv ==
  /\ EngineClean /\ WantsBase /\ RowsDone
  /\ WorkerDone /\ QueueDone /\ LostDone /\ VerdictsDone

LEMMA DoneInit == Init => DoneInv
<1> SUFFICES ASSUME Init PROVE DoneInv
  OBVIOUS
<1>1. EngineClean /\ WantsBase
  BY DEF Init, EngineInit, UnusedArchive, EngineClean, WantsBase
<1>2. RowsDone
  BY DEF Init, AbsentRow, RowsDone
<1>3. WorkerDone /\ QueueDone /\ LostDone /\ VerdictsDone
  BY DEF Init, IdleWorker, WorkerDone, QueueDone, LostDone, VerdictsDone
<1> QED BY <1>1, <1>2, <1>3 DEF DoneInv

-----------------------------------------------------------------------------
(* What every step does to the engine                                       *)

EngineMoves ==
  /\ lastArchive <= lastArchive'
  /\ EngineClean'
  /\ \A a \in Archive :
       /\ a <= lastArchive => /\ archives'[a].owner = archives[a].owner
                              /\ archives'[a].want = archives[a].want
       /\ a \in Settled => a \in Settled' /\ archives'[a].on = archives[a].on
       /\ a \in FailedForGood => a \in FailedForGood'

(* Nothing but a POST gives an archive something to be made on.             *)
NoNewWants == \A a \in Archive : /\ archives'[a].want = archives[a].want
                                 /\ archives'[a].owner = archives[a].owner

LEMMA EngineStays ==
  ASSUME TypeInv, DoneInv, UNCHANGED engineVars
  PROVE  EngineMoves /\ NoNewWants
BY DEF engineVars, EngineMoves, NoNewWants, DoneInv, EngineClean, Settled, FailedForGood,
       TypeInv, TypeOK, EngineTypeOK, ArchiveOrNone

(* One archive changes.                                                     *)
LEMMA OneMoves ==
  ASSUME TypeInv, DoneInv, NEW a \in Archive, NEW new \in ArchiveRecord,
         archives' = [archives EXCEPT ![a] = new], lastArchive' = lastArchive,
         new.owner = archives[a].owner, new.want = archives[a].want,
         new.row = "completed" => new.work = "none",
         new.row # "unused" => archives[a].row # "unused",
         a \in Settled => /\ new.work = "none" /\ new.on = archives[a].on
                          /\ new.row = "completed" \/ (new.row = "deleted" /\ ~new.disk),
         a \in FailedForGood => new.row \in {"failed", "deleted"}
  PROVE  EngineMoves /\ NoNewWants
<1>1. archives \in [Archive -> ArchiveRecord] /\ lastArchive \in Nat /\ EngineClean
  BY DEF TypeInv, TypeOK, EngineTypeOK, ArchiveOrNone, DoneInv
<1>2. archives'[a] = new /\ \A c \in Archive \ {a} : archives'[c] = archives[c]
  BY <1>1
<1>3. EngineClean'
  BY <1>1, <1>2 DEF EngineClean
<1>4. ASSUME NEW c \in Archive
      PROVE  /\ archives'[c].owner = archives[c].owner /\ archives'[c].want = archives[c].want
             /\ c \in Settled => c \in Settled' /\ archives'[c].on = archives[c].on
             /\ c \in FailedForGood => c \in FailedForGood'
  <2>1. CASE c = a
    BY <1>2, <2>1 DEF Settled, FailedForGood
  <2>2. CASE c # a
    BY <1>2, <2>2 DEF Settled, FailedForGood
  <2> QED BY <2>1, <2>2
<1> QED BY <1>1, <1>3, <1>4 DEF EngineMoves, NoNewWants

LEMMA ArchivingMoves ==
  ASSUME TypeInv, DoneInv, NEW a \in Archive, Archiving(a)
  PROVE  EngineMoves /\ NoNewWants
<1> DEFINE old == archives[a]
           on == IF old.want # None /\ archives[old.want].disk THEN old.want ELSE None
<1>1. old \in ArchiveRecord /\ on \in ArchiveOrNone
      /\ (old.row = "completed" => old.work = "none")
      /\ archives \in [Archive -> ArchiveRecord]
  BY BoundsArePositive DEF TypeInv, TypeOK, EngineTypeOK, ArchiveRecord, DoneInv, EngineClean
<1>2. CASE ArchiveStart(a)
  <2> DEFINE new == [old EXCEPT !.work = "tar", !.disk = TRUE, !.on = on]
  <2>1. /\ new \in ArchiveRecord /\ new.owner = old.owner /\ new.want = old.want
        /\ new.row = old.row /\ old.work = "starting"
    BY <1>1, <1>2 DEF ArchiveRecord, ArchiveStart
  <2>2. archives' = [archives EXCEPT ![a] = new] /\ lastArchive' = lastArchive
    BY <1>2 DEF ArchiveStart
  <2> HIDE DEF new
  <2> QED BY <1>1, <2>1, <2>2, OneMoves DEF Settled, FailedForGood
<1>3. CASE ArchiveDone(a)
  <2> DEFINE new == [old EXCEPT !.work = "none", !.row = RecordedAs(a, "completed")]
  <2>1. /\ new \in ArchiveRecord /\ new.owner = old.owner /\ new.want = old.want
        /\ new.row = RecordedAs(a, "completed") /\ new.work = "none" /\ old.work = "tar"
    BY <1>1, <1>3 DEF ArchiveRecord, ArchiveDone, RecordedAs
  <2>2. archives' = [archives EXCEPT ![a] = new] /\ lastArchive' = lastArchive
    BY <1>3 DEF ArchiveDone
  <2> HIDE DEF new
  <2> QED BY <1>1, <2>1, <2>2, OneMoves DEF Settled, FailedForGood, RecordedAs
<1>4. CASE ArchiveFallback(a)
  <2> DEFINE new == [old EXCEPT !.work = "none", !.row = RecordedAs(a, "completed"),
                                !.level = IF old.row = "running" THEN 0 ELSE @,
                                !.on = None, !.disk = TRUE]
  <2>1. /\ new \in ArchiveRecord /\ new.owner = old.owner /\ new.want = old.want
        /\ new.row = RecordedAs(a, "completed") /\ new.work = "none" /\ old.work # "none"
    BY <1>1, <1>4, BoundsArePositive DEF ArchiveRecord, ArchiveFallback, RecordedAs
  <2>2. archives' = [archives EXCEPT ![a] = new] /\ lastArchive' = lastArchive
    BY <1>4 DEF ArchiveFallback
  <2> HIDE DEF new
  <2> QED BY <1>1, <2>1, <2>2, OneMoves DEF Settled, FailedForGood, RecordedAs
<1>5. CASE ArchiveFail(a)
  <2> DEFINE new == [old EXCEPT !.work = "none", !.row = RecordedAs(a, "failed"),
                                !.disk = @ /\ old.row # "running"]
  <2>1. /\ new \in ArchiveRecord /\ new.owner = old.owner /\ new.want = old.want
        /\ new.row = RecordedAs(a, "failed") /\ new.work = "none" /\ old.work # "none"
    BY <1>1, <1>5 DEF ArchiveRecord, ArchiveFail, RecordedAs
  <2>2. archives' = [archives EXCEPT ![a] = new] /\ lastArchive' = lastArchive
    BY <1>5 DEF ArchiveFail
  <2> HIDE DEF new
  <2> QED BY <1>1, <2>1, <2>2, OneMoves DEF Settled, FailedForGood, RecordedAs
<1> QED BY <1>2, <1>3, <1>4, <1>5 DEF Archiving

LEMMA DeleteMoves ==
  ASSUME TypeInv, DoneInv, NEW a \in Archive, BackupDelete(a)
  PROVE  EngineMoves /\ NoNewWants
<1> DEFINE new == [archives[a] EXCEPT !.row = "deleted", !.disk = FALSE]
<1>1. archives[a] \in ArchiveRecord
  BY DEF TypeInv, TypeOK, EngineTypeOK
<1>2. /\ new \in ArchiveRecord /\ new.owner = archives[a].owner /\ new.want = archives[a].want
      /\ new.row = "deleted" /\ ~new.disk /\ new.work = archives[a].work
      /\ new.on = archives[a].on
  BY <1>1 DEF ArchiveRecord
<1>3. \/ archives' = archives
      \/ archives' = [archives EXCEPT ![a] = new] /\ archives[a].row # "unused"
  BY DEF BackupDelete
<1>4. lastArchive' = lastArchive
  BY DEF BackupDelete
<1> HIDE DEF new
<1> QED BY <1>2, <1>3, <1>4, EngineStays, OneMoves DEF engineVars, Settled, FailedForGood

LEMMA RestartMoves ==
  ASSUME TypeInv, DoneInv, EngineRestart
  PROVE  EngineMoves /\ NoNewWants
<1>1. lastArchive' = lastArchive /\ lastArchive \in Nat /\ EngineClean
  BY DEF TypeInv, TypeOK, EngineTypeOK, ArchiveOrNone, EngineRestart, DoneInv
<1>2. ASSUME NEW a \in Archive
      PROVE  /\ archives'[a].work = "none" /\ archives'[a].row = archives[a].row
             /\ archives'[a].disk = archives[a].disk /\ archives'[a].on = archives[a].on
             /\ archives'[a].owner = archives[a].owner /\ archives'[a].want = archives[a].want
  <2>1. archives'[a] = [archives[a] EXCEPT !.work = "none"] /\ archives[a] \in ArchiveRecord
    BY DEF EngineRestart, TypeInv, TypeOK, EngineTypeOK
  <2> QED BY <2>1 DEF ArchiveRecord
<1> QED BY <1>1, <1>2 DEF EngineMoves, NoNewWants, EngineClean, Settled, FailedForGood

(* The POST: the new id had no row.                                         *)
LEMMA QueueMoves ==
  ASSUME TypeInv, DoneInv, NEW owner \in Backup, NEW level \in Nat,
         NEW want \in ArchiveOrNone, BackupQueue(owner, level, want)
  PROVE  /\ EngineMoves
         /\ lastArchive' = lastArchive + 1 /\ lastArchive + 1 \in Archive
         /\ \A a \in Archive : a # lastArchive + 1 => archives'[a] = archives[a]
         /\ archives'[lastArchive + 1].owner = owner /\ archives'[lastArchive + 1].want = want
<1> DEFINE row == [row |-> "running", owner |-> owner,
                   level |-> IF want = None THEN 0 ELSE level, want |-> want,
                   work |-> "starting", on |-> None, disk |-> FALSE]
<1>1. /\ archives \in [Archive -> ArchiveRecord] /\ lastArchive \in Nat /\ EngineClean
      /\ lastArchive + 1 \in Archive
  BY QueueTypes, BoundsArePositive DEF TypeInv, TypeOK, EngineTypeOK, ArchiveOrNone, DoneInv
<1>2. archives' = [archives EXCEPT ![lastArchive + 1] = row] /\ lastArchive' = lastArchive + 1
  BY DEF BackupQueue
<1>3. row.owner = owner /\ row.want = want /\ row.row = "running"
  OBVIOUS
<1> HIDE DEF row
<1>4. /\ \A a \in Archive : a # lastArchive + 1 => archives'[a] = archives[a]
      /\ archives'[lastArchive + 1] = row
  BY <1>1, <1>2
<1>5. archives[lastArchive + 1].row = "unused"
  BY <1>1 DEF EngineClean
<1>6. EngineClean'
  <2>1. ASSUME NEW a \in Archive
        PROVE  /\ archives'[a].row = "completed" => archives'[a].work = "none"
               /\ archives'[a].row # "unused" => a <= lastArchive'
    <3>1. CASE a = lastArchive + 1
      BY <1>1, <1>2, <1>3, <1>4, <3>1
    <3>2. CASE a # lastArchive + 1
      <4>1. archives'[a] = archives[a] /\ a \in Nat
        BY <1>4, <3>2 DEF Archive
      <4> QED BY <1>1, <1>2, <4>1 DEF EngineClean
    <3> QED BY <3>1, <3>2
  <2> QED BY <2>1 DEF EngineClean
<1>7. ASSUME NEW a \in Archive
      PROVE  /\ a <= lastArchive => /\ archives'[a].owner = archives[a].owner
                                    /\ archives'[a].want = archives[a].want
             /\ a \in Settled => a \in Settled' /\ archives'[a].on = archives[a].on
             /\ a \in FailedForGood => a \in FailedForGood'
  <2>1. CASE a = lastArchive + 1
    BY <1>1, <1>5, <2>1 DEF Settled, FailedForGood
  <2>2. CASE a # lastArchive + 1
    BY <1>4, <2>2 DEF Settled, FailedForGood
  <2> QED BY <2>1, <2>2
<1> QED BY <1>1, <1>2, <1>3, <1>4, <1>6, <1>7 DEF EngineMoves

-----------------------------------------------------------------------------
(* What every step but the insertion of a row does to the rows: none comes  *)
(* back, a completed one stays so, and one completes only with its archive  *)
(* settled.                                                                 *)
RowMoves(c) ==
  /\ Exists(c)' => Exists(c)
  /\ Exists(c)' /\ backups[c].eng # None => backups'[c].eng = backups[c].eng
  /\ backups'[c].eng \in {None, backups[c].eng} \/ archives'[backups'[c].eng].owner = c
  /\ backups'[c].parent \in {None, backups[c].parent}
  /\ backups[c].status = "completed" => backups'[c].status \in {"completed", "absent"}
  /\ backups'[c].status = "completed" => backups[c].eng # None /\ backups[c].eng \in Settled

RowsMove == lastBackup' = lastBackup /\ \A c \in Backup : RowMoves(c)

LEMMA RowTypes ==
  ASSUME TypeInv
  PROVE  /\ \A b \in Backup : /\ backups[b] \in BackupRow
                              /\ Exists(b) <=> backups[b].status # "absent"
                              /\ backups[b].eng # None => backups[b].eng \in Archive
                              /\ backups[b].parent # None => backups[b].parent \in Backup
                              /\ b # None /\ b \in Nat
         /\ \A a \in Archive : archives[a] \in ArchiveRecord /\ a \in Nat /\ a # None
         /\ \A v \in reconcile : v \in Verdict /\ v.id \in Backup
                                 /\ (v.arc # None => v.arc \in Archive)
         /\ lastArchive \in Nat /\ lastBackup \in Nat
         /\ worker \in WorkerState /\ worker.id \in Nat
         /\ worker.pc # "idle" => worker.id \in Backup
         /\ worker.pc \in {"seed", "poll", "finish"} => worker.arc \in Archive
         /\ worker.want # None => worker.want \in Archive
         /\ queue \in Seq(Backup)
<1> USE BoundsArePositive DEF TypeInv, TypeOK, EngineTypeOK
<1>1. /\ \A b \in Backup : b # None /\ b \in Nat
      /\ \A a \in Archive : a \in Nat /\ a # None
      /\ lastArchive \in Nat /\ lastBackup \in Nat
  BY DEF Archive, Backup, ArchiveOrNone, BackupOrNone, None
<1>2. ASSUME NEW b \in Backup
      PROVE  /\ backups[b] \in BackupRow
             /\ Exists(b) <=> backups[b].status # "absent"
             /\ backups[b].eng # None => backups[b].eng \in Archive
             /\ backups[b].parent # None => backups[b].parent \in Backup
  BY <1>1 DEF BackupRow, Exists
<1>3. \A a \in Archive : archives[a] \in ArchiveRecord
  OBVIOUS
<1>4. ASSUME NEW v \in reconcile
      PROVE  v \in Verdict /\ v.id \in Backup /\ (v.arc # None => v.arc \in Archive)
  BY DEF Verdict
<1>5. /\ worker \in WorkerState /\ worker.id \in Nat
      /\ worker.pc # "idle" => worker.id \in Backup
      /\ worker.pc \in {"seed", "poll", "finish"} => worker.arc \in Archive
      /\ worker.want # None => worker.want \in Archive
  BY DEF WorkerOK, WorkerState, BackupOrNone
<1> QED BY <1>1, <1>2, <1>3, <1>4, <1>5

LEMMA UntouchedRowsMove ==
  ASSUME TypeInv, DoneInv, UNCHANGED <<backups, lastBackup>>
  PROVE  RowsMove
BY RowTypes DEF RowsMove, RowMoves, DoneInv, RowsDone, Exists

(* A row is written.                                                        *)
LEMMA WriteMoves ==
  ASSUME TypeInv, DoneInv, NEW b \in Backup, NEW row \in BackupRow, SetRow(b, row),
         lastBackup' = lastBackup, row.status # "absent",
         row.parent \in {None, backups[b].parent}, row.eng = backups[b].eng,
         Exists(b) /\ backups[b].status = "completed" => row.status = "completed",
         Exists(b) /\ row.status = "completed"
           => backups[b].eng # None /\ backups[b].eng \in Settled
  PROVE  /\ RowsMove
         /\ \A c \in Backup : c # b => backups'[c] = backups[c]
         /\ Exists(b) => backups'[b] = row
         /\ ~Exists(b) => backups'[b] = backups[b]
<1>1. /\ \A c \in Backup : c # b => backups'[c] = backups[c]
      /\ Exists(b) => backups'[b] = row
      /\ ~Exists(b) => backups'[b] = backups[b]
  BY DEF SetRow, TypeInv, TypeOK
<1>2. ASSUME NEW c \in Backup
      PROVE  RowMoves(c)
  <2>1. CASE backups'[c] = backups[c]
    BY <2>1, RowTypes DEF RowMoves, Exists, DoneInv, RowsDone
  <2>2. CASE c = b /\ Exists(b)
    BY <1>1, <2>2, RowTypes DEF RowMoves, Exists
  <2> QED BY <1>1, <2>1, <2>2
<1> QED BY <1>1, <1>2 DEF RowsMove

LEMMA StatusMoves ==
  ASSUME TypeInv, DoneInv, NEW b \in Backup,
         SetStatus(b, "failed"), backups[b].status # "completed", lastBackup' = lastBackup
  PROVE  /\ RowsMove
         /\ \A c \in Backup : c # b => backups'[c] = backups[c]
         /\ backups'[b].eng = backups[b].eng
         /\ backups'[b].status \in {"failed", "absent"}
         /\ backups[b].status = "absent" => backups'[b].status = "absent"
<1> DEFINE row == [backups[b] EXCEPT !.status = "failed"]
<1>1. /\ row \in BackupRow /\ row.status = "failed" /\ row.parent = backups[b].parent
      /\ row.eng = backups[b].eng
  BY RowTypes DEF BackupRow
<1>2. SetRow(b, row)
  BY DEF SetStatus
<1> HIDE DEF row
<1>3. /\ RowsMove
      /\ \A c \in Backup : c # b => backups'[c] = backups[c]
      /\ Exists(b) => backups'[b] = row
      /\ ~Exists(b) => backups'[b] = backups[b]
  BY <1>1, <1>2, WriteMoves
<1> QED BY <1>1, <1>3, RowTypes

LEMMA CompletedRow ==
  ASSUME NEW r \in BackupRow, NEW a \in Archive, NEW level \in Nat
  PROVE  LET done == Completed(r, a, level)
         IN /\ done \in BackupRow /\ done.status = "completed" /\ done.eng = r.eng
            /\ done.parent \in {None, r.parent}
BY BoundsArePositive DEF Completed, BackupRow

(* Both finalizers.                                                         *)
LEMMA CompletedMoves ==
  ASSUME TypeInv, DoneInv, NEW b \in Backup, NEW a \in Archive, NEW level \in Nat,
         NEW snap \in ArchiveOrNone, Exists(b) => backups[b].eng = a, a \in Settled,
         SetRow(b, [Completed(backups[b], a, level) EXCEPT !.snap = snap]),
         lastBackup' = lastBackup
  PROVE  /\ RowsMove
         /\ \A c \in Backup : c # b => backups'[c] = backups[c]
         /\ backups'[b].eng = backups[b].eng
         /\ Exists(b) => backups'[b].status = "completed"
         /\ ~Exists(b) => backups'[b] = backups[b]
<1> DEFINE done == Completed(backups[b], a, level)
           row == [done EXCEPT !.snap = snap]
<1>1. /\ done \in BackupRow /\ done.status = "completed" /\ done.eng = backups[b].eng
      /\ done.parent \in {None, backups[b].parent}
  BY RowTypes, CompletedRow
<1> HIDE DEF done
<1>2. /\ row \in BackupRow /\ row.status = "completed" /\ row.eng = backups[b].eng
      /\ row.parent \in {None, backups[b].parent}
  BY <1>1 DEF BackupRow
<1>3. SetRow(b, row)
  BY DEF done
<1> HIDE DEF row
<1>4. /\ RowsMove
      /\ \A c \in Backup : c # b => backups'[c] = backups[c]
      /\ Exists(b) => backups'[b] = row
      /\ ~Exists(b) => backups'[b] = backups[b]
  BY <1>2, <1>3, RowTypes, WriteMoves
<1> QED BY <1>2, <1>4

LEMMA DeleteRowMoves ==
  ASSUME TypeInv, DoneInv, NEW d \in Deleters, DeleteRow(d)
  PROVE  /\ RowsMove
         /\ \A c \in Backup : \/ backups'[c].status = "absent"
                              \/ backups'[c].status = backups[c].status
<1>1. PICK v \in deleting[d] :
        backups' = [b \in Backup |-> IF b = v.id THEN AbsentRow
                                    ELSE NullsForeignKeys(backups[b], v.id)]
  BY DEF DeleteRow
<1>2. ASSUME NEW c \in Backup
      PROVE  RowMoves(c) /\ backups'[c].status \in {"absent", backups[c].status}
  <2>1. CASE c = v.id
    <3>1. /\ backups'[c].status = "absent" /\ backups'[c].eng = None
          /\ backups'[c].parent = None
      BY <1>1, <2>1 DEF AbsentRow
    <3> QED BY <3>1 DEF RowMoves, Exists
  <2>2. CASE c # v.id
    <3>1. backups'[c] = NullsForeignKeys(backups[c], v.id) /\ backups[c] \in BackupRow
      BY <1>1, <2>2, RowTypes
    <3>2. /\ backups'[c].status = backups[c].status /\ backups'[c].eng = backups[c].eng
          /\ backups'[c].parent \in {None, backups[c].parent}
      BY <3>1 DEF NullsForeignKeys, BackupRow
    <3> QED BY <3>2, RowTypes DEF RowMoves, Exists, DoneInv, RowsDone
  <2> QED BY <2>1, <2>2
<1> QED BY <1>2 DEF RowsMove, DeleteRow

-----------------------------------------------------------------------------
(* What these moves keep                                                    *)

RowsAge ==
  /\ lastBackup <= lastBackup'
  /\ \A c \in Backup : c <= lastBackup =>
       /\ backups[c].status = "completed" => backups'[c].status \in {"completed", "absent"}
       /\ backups[c].status = "absent" => backups'[c].status = "absent"

LEMMA RowsMoveAge ==
  ASSUME TypeInv, TypeInv', RowsMove
  PROVE  RowsAge
<1>1. \A c \in Backup : /\ Exists(c) <=> backups[c].status # "absent"
                        /\ Exists(c)' <=> backups'[c].status # "absent"
  BY RowTypes DEF Exists
<1> QED BY <1>1, RowTypes DEF RowsMove, RowMoves, RowsAge

LEMMA BasesKeep ==
  ASSUME TypeInv, TypeInv', DoneInv, EngineMoves, RowsAge, NEW p \in Bases
  PROVE  p \in Bases' /\ archives'[p].owner = archives[p].owner
<1>1. p \in Archive /\ p \in Settled /\ p <= lastArchive
  BY DEF Bases, Settled, DoneInv, EngineClean
<1>2. archives'[p].owner = archives[p].owner /\ p \in Settled'
  BY <1>1 DEF EngineMoves
<1> DEFINE o == archives[p].owner
<1>3. /\ o \in Backup /\ o <= lastBackup /\ backups[o].status \in {"completed", "absent"}
      /\ lastBackup \in Nat /\ lastBackup' \in Nat /\ o \in Nat
  BY RowTypes DEF Bases, TypeInv, TypeOK, BackupOrNone
<1>4. o <= lastBackup' /\ backups'[o].status \in {"completed", "absent"}
  BY <1>3 DEF RowsAge
<1> QED BY <1>2, <1>3, <1>4 DEF Bases

(* A POST asks for what the worker has read.                                *)
WantsMove ==
  \A a \in Archive :
    \/ archives'[a].want = archives[a].want /\ archives'[a].owner = archives[a].owner
    \/ worker.pc = "post" /\ archives'[a].owner = worker.id
       /\ archives'[a].want = worker.want

LEMMA WantsKeep ==
  ASSUME TypeInv, TypeInv', DoneInv, EngineMoves, RowsAge,
         WantsMove
  PROVE  WantsBase'
<1> SUFFICES ASSUME NEW a \in Archive, archives'[a].want # None
             PROVE  /\ archives'[a].want \in Bases'
                    /\ archives'[archives'[a].want].owner < archives'[a].owner
  BY DEF WantsBase
<1>1. archives'[a].want \in Bases /\ archives[archives'[a].want].owner < archives'[a].owner
  BY DEF WantsMove, DoneInv, WantsBase, WorkerDone
<1> QED BY <1>1, BasesKeep

LEMMA RowsKeepDone ==
  ASSUME TypeInv, TypeInv', LinkInv', SitInv, DoneInv, EngineMoves, RowsMove
  PROVE  RowsDone'
<1> SUFFICES ASSUME NEW b \in Backup
             PROVE  /\ backups'[b].eng # None => archives'[backups'[b].eng].owner = b
                    /\ backups'[b].status = "completed"
                         => backups'[b].eng # None /\ backups'[b].eng \in Settled'
                    /\ backups'[b].parent # None
                         => backups'[backups'[b].parent].status = "completed"
  BY DEF RowsDone
<1>1. RowMoves(b)
  BY DEF RowsMove
<1>2. /\ backups[b].eng # None => backups[b].eng \in Archive
      /\ backups[b].eng <= lastArchive
      /\ Exists(b)' <=> backups'[b].status # "absent"
  BY RowTypes DEF SitInv, ArchivesHandedOut, Exists
<1>3. backups'[b].eng # None => archives'[backups'[b].eng].owner = b
  <2>1. backups[b].eng # None => archives[backups[b].eng].owner = b
    BY DEF DoneInv, RowsDone
  <2>2. backups[b].eng # None => archives'[backups[b].eng].owner = b
    BY <1>2, <2>1 DEF EngineMoves
  <2> QED BY <1>1, <2>2 DEF RowMoves
<1>4. ASSUME backups'[b].status = "completed"
      PROVE  backups'[b].eng # None /\ backups'[b].eng \in Settled'
  <2>1. backups[b].eng # None /\ backups[b].eng \in Settled
    BY <1>1, <1>4 DEF RowMoves
  <2>2. backups'[b].eng = backups[b].eng
    BY <1>1, <1>2, <1>4, <2>1 DEF RowMoves
  <2>3. backups[b].eng \in Settled'
    BY <1>2, <2>1 DEF EngineMoves
  <2> QED BY <2>1, <2>2, <2>3
<1>5. ASSUME backups'[b].parent # None
      PROVE  backups'[backups'[b].parent].status = "completed"
  <2> DEFINE p == backups[b].parent
  <2>1. backups'[b].parent = p /\ p # None
    BY <1>1, <1>5 DEF RowMoves
  <2>2. p \in Backup /\ backups[p].status = "completed"
    BY <2>1, RowTypes DEF DoneInv, RowsDone
  <2>3. RowMoves(p)
    BY <2>2 DEF RowsMove
  <2>4. backups'[p].status \in {"completed", "absent"}
    BY <2>2, <2>3 DEF RowMoves
  <2>5. backups'[p].status # "absent"
    BY <1>5, <2>1 DEF LinkInv, RowInv, ChainAcyclic, Exists
  <2> QED BY <2>1, <2>4, <2>5
<1> QED BY <1>3, <1>4, <1>5

(* The worker goes on or drops its job, and a row that is completed beside  *)
(* it is completed with what it has seen too.                               *)
WorkerMoves ==
  \/ worker' = IdleWorker
  \/ worker' = worker
     /\ (worker.pc = "finish" /\ backups'[worker.id].status = "completed"
           => worker.seen = "completed" \/ backups[worker.id].status = "completed")

LEMMA WorkerKeepsDone ==
  ASSUME TypeInv, TypeInv', SitInv, DoneInv, EngineMoves, RowsAge, WorkerMoves
  PROVE  WorkerDone'
<1>1. CASE worker' = IdleWorker
  BY <1>1 DEF WorkerDone, IdleWorker
<1>2. CASE worker' = worker /\ worker' # IdleWorker
  <2>1. worker.pc = "post" /\ worker.want # None
          => worker.want \in Bases' /\ archives'[worker.want].owner < worker.id
    BY BasesKeep DEF DoneInv, WorkerDone
  <2>2. worker.pc \in {"seed", "poll", "finish"}
          => worker.arc \in Archive /\ worker.arc <= lastArchive
    BY RowTypes DEF SitInv, ArchivesHandedOut
  <2>3. worker.pc \in {"seed", "poll", "finish"} => archives'[worker.arc].owner = worker.id
    BY <2>2 DEF DoneInv, WorkerDone, EngineMoves
  <2>4. worker.pc = "finish" =>
          /\ worker.seen \in {"completed", "failed"}
          /\ worker.seen = "completed" => worker.arc \in Settled'
          /\ worker.seen = "failed" => /\ worker.arc \in FailedForGood'
                                       /\ backups[worker.id].status # "completed"
    BY <2>2 DEF DoneInv, WorkerDone, EngineMoves
  <2>5. worker.pc = "finish" /\ worker.seen = "failed"
          => backups'[worker.id].status # "completed"
    BY <1>2, <2>4 DEF IdleWorker, WorkerMoves
  <2> QED BY <1>2, <2>1, <2>3, <2>4, <2>5 DEF WorkerDone
<1> QED BY <1>1, <1>2 DEF WorkerMoves

QueuedRowsStay ==
  \A i \in 1 .. Len(queue) : backups'[queue[i]].status \in {"queued", "absent"}

LEMMA QueueKeepsDone ==
  ASSUME TypeInv, TypeInv', LinkInv, SitInv, DoneInv, RowsMove, QueuedRowsStay,
         queue' = queue,
         lostJobs' \subseteq lostJobs \cup (IF worker.pc = "idle" THEN {} ELSE {worker.id})
  PROVE  QueueDone' /\ LostDone'
<1>1. \A b \in lostJobs' : \A i \in 1 .. Len(queue) : b < queue[i]
  BY DEF DoneInv, QueueDone, SitInv, QueueFresh
<1>2. \A b \in lostJobs' : b <= lastBackup
  BY DEF DoneInv, LostDone, LinkInv, RowInv, IdsHandedOut
<1> QED BY <1>1, <1>2 DEF QueueDone, LostDone, QueuedRowsStay, RowsMove

(* A row the reconciler's loop is about to fail is not completed meanwhile. *)
DoomedRowsStay ==
  \A v \in reconcile' :
    v.says # "completed" => backups'[v.id].status \in {"running", "failed", "absent"}

LEMMA VerdictsKeepDone ==
  ASSUME TypeInv, TypeInv', DoneInv, EngineMoves, RowsMove, DoomedRowsStay, WorkerMoves,
         reconcile' \subseteq reconcile
  PROVE  VerdictsDone'
<1>1. \A v, w \in reconcile' : v.id = w.id => v = w
  BY DEF DoneInv, VerdictsDone
<1>2. ASSUME NEW v \in reconcile'
      PROVE  v.id <= lastBackup' /\ VerdictDone(v)'
  <2>1. /\ v \in reconcile /\ VerdictDone(v) /\ v.id <= lastBackup
        /\ v.id \in Backup /\ v.id # None
        /\ v.arc # None => v.arc \in Archive
    BY RowTypes DEF DoneInv, VerdictsDone
  <2>2. RowMoves(v.id) /\ lastBackup' = lastBackup
    BY <2>1 DEF RowsMove
  <2>3. Exists(v.id)' => Exists(v.id)
    BY <2>2 DEF RowMoves
  <2>4. v.arc # None /\ Exists(v.id)' => backups'[v.id].eng = v.arc
    BY <2>1, <2>2, <2>3 DEF RowMoves, VerdictDone
  <2>5. /\ v.says = "completed" => v.arc \in Settled'
        /\ v.says = "failed" => v.arc # None /\ v.arc \in FailedForGood'
    <3>1. v.says = "completed" => v.arc \in Settled /\ v.arc \in Archive
      BY <2>1 DEF VerdictDone, Settled
    <3>2. v.says = "failed" => v.arc \in FailedForGood /\ v.arc \in Archive /\ v.arc # None
      BY <2>1 DEF VerdictDone
    <3> QED BY <3>1, <3>2 DEF EngineMoves
  <2>6. v.says # "completed" => backups'[v.id].status \in {"running", "failed", "absent"}
    BY DEF DoomedRowsStay
  <2>7. /\ v.says = "stale" => worker'.id # v.id
        /\ worker'.pc = "finish" /\ worker'.id = v.id /\ Exists(v.id)'
             => v.says = worker'.seen
    BY <2>1, <2>3 DEF WorkerMoves, IdleWorker, VerdictDone
  <2> QED BY <2>1, <2>2, <2>4, <2>5, <2>6, <2>7 DEF VerdictDone
<1> QED BY <1>1, <1>2 DEF VerdictsDone

(* Together: no job starts, ends with an answer or is queued, and no list   *)
(* is read.                                                                 *)
LEMMA QuietKeepsDone ==
  ASSUME TypeInv, TypeInv', LinkInv, LinkInv', SitInv, DoneInv,
         EngineMoves, WantsMove, RowsMove, WorkerMoves, QueuedRowsStay, DoomedRowsStay,
         queue' = queue, reconcile' \subseteq reconcile,
         lostJobs' \subseteq lostJobs \cup (IF worker.pc = "idle" THEN {} ELSE {worker.id})
  PROVE  DoneInv'
<1>1. EngineClean' /\ RowsAge
  BY RowsMoveAge DEF EngineMoves
<1>2. WantsBase' /\ RowsDone' /\ WorkerDone'
  BY <1>1, WantsKeep, RowsKeepDone, WorkerKeepsDone
<1>3. QueueDone' /\ LostDone' /\ VerdictsDone'
  BY QueueKeepsDone, VerdictsKeepDone
<1> QED BY <1>1, <1>2, <1>3 DEF DoneInv

LEMMA NoNewWantsMove == NoNewWants => WantsMove
BY DEF NoNewWants, WantsMove

-----------------------------------------------------------------------------
(* The steps that keep it so                                                *)

LEMMA RowsUntouched ==
  ASSUME TypeInv, TypeInv', LinkInv, LinkInv', SitInv, DoneInv,
         EngineMoves, WantsMove, UNCHANGED <<backups, lastBackup, queue>>,
         worker' \in {worker, IdleWorker}, reconcile' \subseteq reconcile,
         lostJobs' \subseteq lostJobs \cup (IF worker.pc = "idle" THEN {} ELSE {worker.id})
  PROVE  DoneInv'
<1>1. RowsMove /\ WorkerMoves
  BY UntouchedRowsMove DEF WorkerMoves
<1>2. QueuedRowsStay
  BY DEF QueuedRowsStay, DoneInv, QueueDone
<1>3. DoomedRowsStay
  BY DEF DoomedRowsStay, DoneInv, VerdictsDone, VerdictDone
<1> QED BY <1>1, <1>2, <1>3, QuietKeepsDone

(* Somebody writes 'failed' into a row that is not completed.               *)
LEMMA FailKeepsDone ==
  ASSUME TypeInv, TypeInv', LinkInv, LinkInv', SitInv, DoneInv,
         EngineMoves, WantsMove, UNCHANGED <<lastBackup, queue>>,
         NEW b \in Backup, SetStatus(b, "failed"), backups[b].status # "completed",
         \A i \in 1 .. Len(queue) : queue[i] # b,
         worker' \in {worker, IdleWorker}, reconcile' \subseteq reconcile,
         lostJobs' \subseteq lostJobs
  PROVE  DoneInv'
<1>1. /\ RowsMove
      /\ \A c \in Backup : c # b => backups'[c] = backups[c]
      /\ backups'[b].status \in {"failed", "absent"}
  BY StatusMoves
<1>2. QueuedRowsStay
  <2>1. \A i \in 1 .. Len(queue) : queue[i] \in Backup
    BY RowTypes
  <2> QED BY <1>1, <2>1 DEF QueuedRowsStay, DoneInv, QueueDone
<1>3. DoomedRowsStay
  BY <1>1, RowTypes DEF DoomedRowsStay, DoneInv, VerdictsDone, VerdictDone
<1>4. WorkerMoves
  BY <1>1, RowTypes DEF WorkerMoves
<1> QED BY <1>1, <1>2, <1>3, <1>4, QuietKeepsDone

(* Somebody completes a row whose archive is settled.                       *)
LEMMA CompleteKeepsDone ==
  ASSUME TypeInv, TypeInv', LinkInv, LinkInv', SitInv, DoneInv,
         UNCHANGED <<engineVars, lastBackup, queue, lostJobs>>,
         NEW b \in Backup, NEW a \in Archive, NEW level \in Nat, NEW snap \in ArchiveOrNone,
         Exists(b) => backups[b].eng = a, a \in Settled,
         SetRow(b, [Completed(backups[b], a, level) EXCEPT !.snap = snap]),
         \A i \in 1 .. Len(queue) : queue[i] = b => ~Exists(b),
         worker' \in {worker, IdleWorker}, reconcile' \subseteq reconcile,
         worker'.pc = "finish" /\ worker'.id = b /\ Exists(b) => worker'.seen = "completed",
         \A v \in reconcile' : v.id = b /\ Exists(b) => v.says = "completed"
  PROVE  DoneInv'
<1>1. /\ RowsMove
      /\ \A c \in Backup : c # b => backups'[c] = backups[c]
      /\ ~Exists(b) => backups'[b] = backups[b]
  BY CompletedMoves
<1>2. QueuedRowsStay
  <2>1. \A i \in 1 .. Len(queue) : queue[i] \in Backup
    BY RowTypes
  <2> QED BY <1>1, <2>1 DEF QueuedRowsStay, DoneInv, QueueDone
<1>3. DoomedRowsStay
  BY <1>1, RowTypes DEF DoomedRowsStay, DoneInv, VerdictsDone, VerdictDone
<1>4. WorkerMoves
  BY <1>1, RowTypes DEF WorkerMoves
<1>5. EngineMoves /\ WantsMove
  BY EngineStays, NoNewWantsMove
<1> QED BY <1>1, <1>2, <1>3, <1>4, <1>5, QuietKeepsDone

LEMMA EnqueueDone ==
  ASSUME TypeInv, TypeInv', LinkInv, LinkInv', SitInv, DoneInv,
         NEW level \in Nat, NEW p \in BackupOrNone, NEW q \in BackupOrNone,
         Enqueue(level, p, q), p # None => backups[p].status = "completed"
  PROVE  DoneInv'
<1> DEFINE n == lastBackup + 1
           row == [status |-> "queued", level |-> level, parent |-> p, base |-> q,
                   eng |-> None, snap |-> None]
<1>1. /\ n \in Backup /\ lastBackup' = n /\ lastBackup \in Nat
      /\ queue' = Append(queue, n) /\ queue \in Seq(Backup)
      /\ backups' = [backups EXCEPT ![n] = row]
  <2>1. lastBackup + 1 \in Backup
    BY RowTypes, MaxBackupAssumption DEF Enqueue, Backup
  <2> QED BY <2>1, RowTypes DEF Enqueue
<1>2. row.status = "queued" /\ row.parent = p /\ row.eng = None
  OBVIOUS
<1> HIDE DEF row
<1>3. /\ backups'[n] = row
      /\ \A c \in Backup : c # n => backups'[c] = backups[c]
      /\ \A c \in Backup : c <= lastBackup => c # n
      /\ backups[n].status = "absent"
  <2>1. backups'[n] = row /\ \A c \in Backup : c # n => backups'[c] = backups[c]
    BY <1>1 DEF TypeInv, TypeOK
  <2>2. \A c \in Backup : c <= lastBackup => c # n
    BY <1>1
  <2>3. backups[n].status = "absent"
    BY <1>1, RowTypes DEF LinkInv, RowInv, IdsHandedOut
  <2> QED BY <2>1, <2>2, <2>3
<1>4. EngineMoves /\ WantsMove /\ RowsAge
  <2>1. RowsAge
    BY <1>1, <1>3 DEF RowsAge
  <2> QED BY <2>1, EngineStays, NoNewWantsMove DEF Enqueue
<1>5. EngineClean' /\ WantsBase'
  BY <1>4, WantsKeep DEF EngineMoves
<1>6. UNCHANGED <<engineVars, lostJobs, worker, reconcile>>
  BY DEF Enqueue
<1>7. RowsDone'
  <2> SUFFICES ASSUME NEW b \in Backup
               PROVE  /\ backups'[b].eng # None => archives'[backups'[b].eng].owner = b
                      /\ backups'[b].status = "completed"
                           => backups'[b].eng # None /\ backups'[b].eng \in Settled'
                      /\ backups'[b].parent # None
                           => backups'[backups'[b].parent].status = "completed"
    BY DEF RowsDone
  <2>1. /\ archives' = archives /\ Settled' = Settled
    BY <1>6 DEF engineVars, Settled
  <2>2. backups'[b].parent # None
          => /\ backups'[b].parent \in Backup
             /\ backups[backups'[b].parent].status = "completed"
    <3>1. CASE b = n
      BY <1>2, <1>3, <3>1, RowTypes DEF BackupOrNone, Backup, None
    <3>2. CASE b # n
      BY <1>3, <3>2, RowTypes DEF DoneInv, RowsDone
    <3> QED BY <3>1, <3>2
  <2>3. backups'[b].parent # None => backups'[backups'[b].parent].status = "completed"
    BY <1>3, <2>2
  <2>4. /\ backups'[b].eng # None => archives[backups'[b].eng].owner = b
        /\ backups'[b].status = "completed"
             => backups'[b].eng # None /\ backups'[b].eng \in Settled
    BY <1>2, <1>3 DEF DoneInv, RowsDone
  <2> QED BY <2>1, <2>3, <2>4
<1>8. WorkerDone'
  <2>1. worker.pc = "finish" => worker.id \in Backup /\ worker.id # n
    BY <1>1, RowTypes DEF LinkInv, RowInv, IdsHandedOut
  <2> QED BY <1>3, <1>4, <1>6, <2>1, WorkerKeepsDone DEF WorkerMoves
<1>9. QueueDone' /\ LostDone'
  <2>1. ASSUME NEW i \in 1 .. Len(queue')
        PROVE  /\ backups'[queue'[i]].status \in {"queued", "absent"}
               /\ \A b \in lostJobs : b < queue'[i]
    <3>1. CASE i = Len(queue) + 1
      <4>1. queue'[i] = n
        BY <1>1, <3>1
      <4>2. \A b \in lostJobs : b <= lastBackup /\ b \in Nat
        BY RowTypes DEF DoneInv, LostDone, TypeInv, TypeOK
      <4> QED BY <1>1, <1>2, <1>3, <4>1, <4>2
    <3>2. CASE i # Len(queue) + 1
      <4>1. i \in 1 .. Len(queue) /\ queue'[i] = queue[i] /\ queue[i] \in Backup
        BY <1>1, <3>2
      <4>2. queue[i] <= lastBackup
        BY <4>1 DEF SitInv, QueueFresh
      <4> QED BY <1>3, <4>1, <4>2 DEF DoneInv, QueueDone
    <3> QED BY <3>1, <3>2
  <2>2. \A b \in lostJobs : b <= lastBackup'
    BY <1>1, RowTypes DEF DoneInv, LostDone, TypeInv, TypeOK
  <2> QED BY <1>6, <2>1, <2>2 DEF QueueDone, LostDone
<1>10. VerdictsDone'
  <2>1. ASSUME NEW v \in reconcile
        PROVE  v.id <= lastBackup' /\ VerdictDone(v)'
    <3>1. /\ v.id \in Backup /\ v.id \in Nat /\ v.id <= lastBackup /\ VerdictDone(v)
      BY RowTypes DEF DoneInv, VerdictsDone
    <3>2. backups'[v.id] = backups[v.id]
      BY <1>3, <3>1
    <3>3. archives' = archives /\ worker' = worker
      BY <1>6 DEF engineVars
    <3> QED BY <1>1, <3>1, <3>2, <3>3 DEF VerdictDone, Exists, Settled, FailedForGood
  <2> QED BY <1>6, <2>1 DEF DoneInv, VerdictsDone
<1> QED BY <1>5, <1>7, <1>8, <1>9, <1>10 DEF DoneInv

LEMMA CreateDone ==
  ASSUME TypeInv, TypeInv', LinkInv, LinkInv', SitInv, DoneInv,
         StoreFull \/ StoreIncremental \/ RunDue
  PROVE  DoneInv'
<1>1. 0 \in Nat /\ None \in BackupOrNone
  BY MaxBackupAssumption DEF BackupOrNone, None
<1>2. ASSUME NEW t \in Tips
      PROVE  /\ t \in BackupOrNone /\ backups[t].status = "completed"
             /\ backups[t].level + 1 \in Nat
             /\ backups[t].base \in BackupOrNone /\ BaseOf(t) \in BackupOrNone
             /\ (IF backups[t].base # None THEN backups[t].base ELSE t) \in BackupOrNone
  <2>1. t \in Backup /\ backups[t].status = "completed" /\ backups[t] \in BackupRow
    BY RowTypes DEF Tips
  <2> QED BY <2>1 DEF BackupRow, BackupOrNone, Backup, BaseOf
<1> QED BY <1>1, <1>2, EnqueueDone DEF StoreFull, StoreIncremental, RunDue

(* The job starts; what it asks to build on is its parent's archive.        *)
LEMMA JobStartDone ==
  ASSUME TypeInv, TypeInv', LinkInv, LinkInv', SitInv, DoneInv, JobStart
  PROVE  DoneInv'
<1> DEFINE b == Head(queue)
           r == backups[b]
           p == r.parent
           hasParent == r.level > 0 /\ p # None
           want == IF hasParent THEN ParentSnapshot(b) ELSE None
           noSnapshot == hasParent /\ want = None
           row == [r EXCEPT !.status = "running",
                            !.level  = IF noSnapshot THEN 0 ELSE r.level,
                            !.parent = IF noSnapshot THEN None ELSE r.parent,
                            !.base   = IF noSnapshot THEN None ELSE r.base]
           job == [IdleWorker EXCEPT !.pc = "post", !.id = b, !.want = want,
                                     !.level = IF noSnapshot THEN 0 ELSE r.level]
<1>1. /\ queue # <<>> /\ queue' = Tail(queue) /\ queue \in Seq(Backup)
      /\ b \in Backup /\ Len(queue) >= 1 /\ b = queue[1] /\ r \in BackupRow
      /\ b \in Nat /\ b # None
  BY RowTypes DEF JobStart
<1>2. /\ UNCHANGED <<engineVars, lastBackup, lostJobs, reconcile>>
      /\ \/ r.status \in {"absent", "completed", "failed"} /\ UNCHANGED <<backups, worker>>
         \/ /\ r.status \notin {"absent", "completed", "failed"}
            /\ backups' = [backups EXCEPT ![b] = row] /\ worker' = job
  BY DEF JobStart
<1>3. /\ row.status = "running" /\ row.eng = r.eng /\ row.parent \in {None, p}
      /\ job.pc = "post" /\ job.id = b /\ job.want = want
  BY <1>1 DEF BackupRow, IdleWorker
<1>4. want # None => want \in Bases /\ archives[want].owner < b
  <2> SUFFICES ASSUME want # None
               PROVE  want \in Bases /\ archives[want].owner < b
    OBVIOUS
  <2>1. p # None /\ want = backups[p].snap /\ p \in Backup /\ p \in Nat
    BY <1>1, RowTypes DEF ParentSnapshot
  <2>2. want = backups[p].eng
    BY <2>1 DEF LinkInv, RowInv, PathsMatchEngineId
  <2>3. /\ backups[p].status = "completed" /\ want \in Settled
        /\ archives[want].owner = p
    BY <1>1, <2>1, <2>2 DEF DoneInv, RowsDone
  <2>4. p < b /\ p <= lastBackup
    BY <1>1, <2>1 DEF LinkInv, RowInv, ChainAcyclic, IdsHandedOut
  <2> QED BY <2>1, <2>3, <2>4 DEF Bases
<1> HIDE DEF row, job, want
<1>5. /\ \A c \in Backup : c # b => backups'[c] = backups[c]
      /\ backups'[b] = backups[b] \/ (r.status \in {"queued", "running"} /\ backups'[b] = row)
  BY <1>1, <1>2 DEF BackupRow, TypeInv, TypeOK
<1>6. RowsMove
  <2>1. ASSUME NEW c \in Backup PROVE RowMoves(c)
    <3>1. CASE backups'[c] = backups[c]
      BY <3>1, RowTypes DEF RowMoves, Exists, DoneInv, RowsDone
    <3>2. CASE c = b /\ r.status \in {"queued", "running"} /\ backups'[b] = row
      BY <1>1, <1>3, <3>2 DEF RowMoves, Exists
    <3> QED BY <1>5, <3>1, <3>2
  <2> QED BY <1>2, <2>1 DEF RowsMove
<1>7. EngineMoves /\ WantsMove /\ RowsAge
  BY <1>2, <1>6, EngineStays, NoNewWantsMove, RowsMoveAge
<1>8. EngineClean' /\ WantsBase' /\ RowsDone'
  BY <1>6, <1>7, WantsKeep, RowsKeepDone DEF EngineMoves
<1>9. WorkerDone'
  <2>1. CASE worker' = worker
    <3>1. worker.pc = "idle"
      BY DEF JobStart
    <3> QED BY <2>1, <3>1 DEF WorkerDone
  <2>2. CASE worker' = job
    <3>1. want # None => want \in Bases' /\ archives'[want].owner < b
      BY <1>4, <1>7, BasesKeep
    <3> QED BY <1>3, <2>2, <3>1 DEF WorkerDone
  <2> QED BY <1>2, <2>1, <2>2
<1>10. QueueDone' /\ LostDone'
  <2>1. ASSUME NEW i \in 1 .. Len(queue')
        PROVE  /\ backups'[queue'[i]].status \in {"queued", "absent"}
               /\ \A c \in lostJobs : c < queue'[i]
    <3>1. i + 1 \in 1 .. Len(queue) /\ queue'[i] = queue[i + 1] /\ queue[i + 1] \in Backup
          /\ 1 \in 1 .. Len(queue) /\ 1 < i + 1
      BY <1>1
    <3>2. queue[1] < queue[i + 1]
      BY <3>1 DEF SitInv, QueueFresh
    <3>3. queue[i + 1] # b
      BY <1>1, <3>1, <3>2, RowTypes
    <3> QED BY <1>5, <3>1, <3>3 DEF DoneInv, QueueDone
  <2>2. \A c \in lostJobs' : c <= lastBackup'
    BY <1>2 DEF DoneInv, LostDone
  <2> QED BY <1>2, <2>1, <2>2 DEF QueueDone, LostDone
<1>11. VerdictsDone'
  <2>1. 1 \in 1 .. Len(queue)
    BY <1>1
  <2>2. r.eng = None /\ r.status \in {"queued", "absent"}
    BY <1>1, <2>1 DEF SitInv, QueueFresh, DoneInv, QueueDone
  <2>3. ASSUME NEW v \in reconcile
        PROVE  v.id <= lastBackup' /\ VerdictDone(v)'
    <3>1. /\ v.id \in Backup /\ v.id # None /\ v.id <= lastBackup /\ VerdictDone(v)
      BY RowTypes DEF DoneInv, VerdictsDone
    <3>2. v.says = "completed" => v.arc # None
      BY DEF TypeInv, VerdictOK
    <3>3. v.id = b => ~Exists(b)
      BY <2>2, <3>1, <3>2, RowTypes DEF VerdictDone
    <3>4. /\ backups'[v.id] = backups[v.id]
          /\ worker' = worker \/ (worker' = job /\ worker'.id # v.id)
      <4>1. CASE v.id = b
        BY <1>2, <3>3, <4>1, RowTypes
      <4>2. CASE v.id # b
        BY <1>2, <1>3, <1>5, <3>1, <4>2
      <4> QED BY <4>1, <4>2
    <3>5. archives' = archives /\ job.pc # "finish"
      BY <1>2, <1>3 DEF engineVars
    <3>6. Settled' = Settled /\ FailedForGood' = FailedForGood
      BY <3>5 DEF Settled, FailedForGood
    <3> QED BY <1>2, <3>1, <3>4, <3>5, <3>6 DEF VerdictDone, Exists
  <2> QED BY <1>2, <2>3 DEF DoneInv, VerdictsDone
<1> QED BY <1>8, <1>9, <1>10, <1>11 DEF DoneInv

(* What the POST adds to the engine.                                        *)
LEMMA PostMoves ==
  ASSUME TypeInv, DoneInv, worker.pc = "post",
         BackupQueue(worker.id, worker.level, worker.want)
  PROVE  /\ EngineMoves /\ WantsMove /\ lastArchive + 1 \in Archive
         /\ archives'[lastArchive + 1].owner = worker.id
<1>1. worker.id \in Backup /\ worker.level \in Nat /\ worker.want \in ArchiveOrNone
  BY RowTypes DEF WorkerState
<1> QED BY <1>1, QueueMoves DEF WantsMove

LEMMA JobPostDone ==
  ASSUME TypeInv, TypeInv', LinkInv, LinkInv', SitInv, DoneInv, JobPost
  PROVE  DoneInv'
<1>1. /\ EngineMoves /\ WantsMove /\ UNCHANGED <<backups, lastBackup, queue, lostJobs, reconcile>>
      /\ archives'[lastArchive + 1].owner = worker.id
      /\ worker'.pc = "seed" /\ worker'.arc = lastArchive + 1 /\ worker'.id = worker.id
      /\ worker.pc = "post"
  BY PostMoves, RowTypes DEF JobPost, WorkerState
<1>2. RowsMove /\ RowsAge
  BY <1>1, UntouchedRowsMove, RowsMoveAge
<1>3. EngineClean' /\ WantsBase' /\ RowsDone'
  BY <1>1, <1>2, WantsKeep, RowsKeepDone DEF EngineMoves
<1>4. WorkerDone'
  BY <1>1 DEF WorkerDone
<1>5. QueueDone' /\ LostDone'
  BY <1>1 DEF DoneInv, QueueDone, LostDone
<1>6. VerdictsDone'
  <2>1. ASSUME NEW v \in reconcile
        PROVE  v.id <= lastBackup' /\ VerdictDone(v)'
    <3>1. /\ v.id <= lastBackup /\ VerdictDone(v)
          /\ v.arc # None => v.arc \in Archive
      BY RowTypes DEF DoneInv, VerdictsDone
    <3>2. /\ v.says = "completed" => v.arc \in Settled'
          /\ v.says = "failed" => v.arc # None /\ v.arc \in FailedForGood'
      BY <1>1, <3>1 DEF VerdictDone, EngineMoves, Settled
    <3> QED BY <1>1, <3>1, <3>2 DEF VerdictDone, Exists
  <2> QED BY <1>1, <2>1 DEF DoneInv, VerdictsDone
<1> QED BY <1>3, <1>4, <1>5, <1>6 DEF DoneInv

(* Before its archive is known the worker's backup is not completed, and it *)
(* does not wait in the queue.                                              *)
LEMMA WorkersBackup ==
  ASSUME TypeInv, SitInv, DoneInv, worker.pc # "idle"
  PROVE  /\ worker.id \in Backup
         /\ worker.pc \in {"post", "seed"}
              => backups[worker.id].status # "completed" /\ backups[worker.id].eng = None
         /\ \A i \in 1 .. Len(queue) : queue[i] # worker.id
<1>1. worker.id \in Backup /\ \A i \in 1 .. Len(queue) : queue[i] \in Nat
  BY RowTypes
<1>2. \A i \in 1 .. Len(queue) : worker.id < queue[i]
  BY DEF SitInv, QueueFresh
<1> QED BY <1>1, <1>2, RowTypes DEF SitInv, QueueFresh, DoneInv, RowsDone

LEMMA JobPostLostDone ==
  ASSUME TypeInv, TypeInv', LinkInv, LinkInv', SitInv, DoneInv, JobPostLost
  PROVE  DoneInv'
<1>1. EngineMoves /\ WantsMove /\ UNCHANGED <<lastBackup, queue, lostJobs, reconcile>>
  BY PostMoves DEF JobPostLost
<1>2. CASE worker' = [worker EXCEPT !.calls = 1] /\ UNCHANGED backups
  <2>1. worker' = [worker EXCEPT !.calls = 1] /\ worker \in WorkerState
    BY <1>2, RowTypes
  <2>2. /\ worker'.pc = worker.pc /\ worker'.id = worker.id /\ worker'.want = worker.want
        /\ worker'.arc = worker.arc /\ worker'.seen = worker.seen /\ worker.pc = "post"
    BY <2>1 DEF WorkerState, JobPostLost
  <2>3. RowsMove /\ RowsAge
    BY <1>1, <1>2, UntouchedRowsMove, RowsMoveAge
  <2>4. EngineClean' /\ WantsBase' /\ RowsDone'
    BY <1>1, <2>3, WantsKeep, RowsKeepDone DEF EngineMoves
  <2>5. worker.want # None => worker.want \in Bases' /\ archives'[worker.want].owner < worker.id
    BY <1>1, <2>2, <2>3, BasesKeep DEF DoneInv, WorkerDone
  <2>6. WorkerDone'
    BY <2>2, <2>5 DEF WorkerDone
  <2>7. QueueDone' /\ LostDone'
    BY <1>1, <1>2 DEF DoneInv, QueueDone, LostDone
  <2>8. VerdictsDone'
    <3>1. ASSUME NEW v \in reconcile
          PROVE  v.id <= lastBackup' /\ VerdictDone(v)'
      <4>1. /\ v.id <= lastBackup /\ VerdictDone(v)
            /\ v.arc # None => v.arc \in Archive
        BY RowTypes DEF DoneInv, VerdictsDone
      <4>2. /\ v.says = "completed" => v.arc \in Settled'
            /\ v.says = "failed" => v.arc # None /\ v.arc \in FailedForGood'
        BY <1>1, <4>1 DEF VerdictDone, EngineMoves, Settled
      <4> QED BY <1>1, <1>2, <2>2, <4>1, <4>2 DEF VerdictDone, Exists
    <3> QED BY <1>1, <3>1 DEF DoneInv, VerdictsDone
  <2> QED BY <2>4, <2>6, <2>7, <2>8 DEF DoneInv
<1>3. CASE worker' = IdleWorker /\ SetStatus(worker.id, "failed")
  BY <1>1, <1>3, WorkersBackup, FailKeepsDone DEF JobPostLost
<1> QED BY <1>2, <1>3 DEF JobPostLost

LEMMA JobSeedDone ==
  ASSUME TypeInv, TypeInv', LinkInv, LinkInv', SitInv, DoneInv, JobSeed
  PROVE  DoneInv'
<1> DEFINE b == worker.id
           a == worker.arc
           sent == archives[a].level
           row == [backups[b] EXCEPT !.eng = a, !.snap = a,
                     !.level = IF sent # worker.level THEN sent ELSE @]
<1>1. /\ b \in Backup /\ a \in Archive /\ backups[b] \in BackupRow
      /\ backups[b].eng = None /\ backups[b].status # "completed"
      /\ worker.pc = "seed" /\ archives[a].owner = b
      /\ UNCHANGED <<engineVars, lastBackup, queue, lostJobs, reconcile>>
  BY RowTypes, WorkersBackup DEF JobSeed, DoneInv, WorkerDone
<1>2. row.eng = a /\ row.status = backups[b].status /\ row.parent = backups[b].parent
  BY <1>1 DEF BackupRow
<1>3. backups' = IF Exists(b) THEN [backups EXCEPT ![b] = row] ELSE backups
  BY DEF JobSeed, SetRow
<1> HIDE DEF row
<1>4. /\ \A c \in Backup : c # b => backups'[c] = backups[c]
      /\ backups'[b] = IF Exists(b) THEN row ELSE backups[b]
  BY <1>1, <1>3 DEF TypeInv, TypeOK
<1>5. \A c \in Backup : backups'[c].status = backups[c].status
  BY <1>2, <1>4
<1>6. RowsMove
  <2>1. ASSUME NEW c \in Backup PROVE RowMoves(c)
    <3>1. CASE backups'[c] = backups[c]
      BY <3>1, RowTypes DEF RowMoves, Exists, DoneInv, RowsDone
    <3>2. CASE c = b /\ backups'[b] = row
      <4>1. archives' = archives
        BY <1>1 DEF engineVars
      <4> QED BY <1>1, <1>2, <3>2, <4>1 DEF RowMoves, Exists
    <3> QED BY <1>4, <3>1, <3>2
  <2> QED BY <1>1, <2>1 DEF RowsMove
<1>7. EngineMoves /\ WantsMove /\ RowsAge
  BY <1>1, <1>6, EngineStays, NoNewWantsMove, RowsMoveAge
<1>8. EngineClean' /\ WantsBase' /\ RowsDone'
  BY <1>6, <1>7, WantsKeep, RowsKeepDone DEF EngineMoves
<1>9. /\ worker'.pc = "poll" /\ worker'.arc = a /\ worker'.id = b
      /\ archives' = archives
  BY <1>1, RowTypes DEF JobSeed, WorkerState, engineVars
<1>10. WorkerDone'
  BY <1>1, <1>9 DEF WorkerDone
<1>11. QueueDone' /\ LostDone'
  <2>1. QueuedRowsStay
    <3>1. \A i \in 1 .. Len(queue) : queue[i] \in Backup
      BY RowTypes
    <3> QED BY <1>5, <3>1 DEF QueuedRowsStay, DoneInv, QueueDone
  <2> QED BY <1>1, <1>6, <2>1, QueueKeepsDone
<1>12. VerdictsDone'
  <2>1. ASSUME NEW v \in reconcile
        PROVE  v.id <= lastBackup' /\ VerdictDone(v)'
    <3>1. v.id \in Backup /\ v.id <= lastBackup /\ VerdictDone(v)
      BY RowTypes DEF DoneInv, VerdictsDone
    <3>2. Settled' = Settled /\ FailedForGood' = FailedForGood
      BY <1>9 DEF Settled, FailedForGood
    <3>3. v.arc # None /\ Exists(v.id)' => backups'[v.id].eng = v.arc
      <4>1. Exists(v.id)' => Exists(v.id)
        BY <1>5, <3>1, RowTypes DEF Exists
      <4> QED BY <1>1, <1>4, <3>1, <4>1 DEF VerdictDone
    <3> QED BY <1>1, <1>5, <1>9, <3>1, <3>2, <3>3 DEF VerdictDone
  <2> QED BY <1>1, <2>1 DEF DoneInv, VerdictsDone
<1> QED BY <1>8, <1>10, <1>11, <1>12 DEF DoneInv

LEMMA JobPollDone ==
  ASSUME TypeInv, TypeInv', LinkInv, LinkInv', SitInv, DoneInv, JobPoll
  PROVE  DoneInv'
<1> DEFINE b == worker.id
           a == worker.arc
<1>1. /\ b \in Backup /\ a \in Archive /\ a # None /\ worker.pc = "poll"
      /\ archives[a].row \in {"completed", "failed"} /\ archives[a].owner = b
      /\ UNCHANGED <<engineVars, backups, lastBackup, queue, lostJobs, reconcile>>
      /\ worker'.pc = "finish" /\ worker'.arc = a /\ worker'.id = b
      /\ worker'.seen = archives[a].row
  BY RowTypes DEF JobPoll, DoneInv, WorkerDone, WorkerState
<1>2. /\ archives' = archives /\ Settled' = Settled /\ FailedForGood' = FailedForGood
      /\ archives[a].row = "completed" => a \in Settled
      /\ archives[a].row = "failed" => a \in FailedForGood /\ a \notin Settled
      /\ archives[a].row = "completed" => a \notin FailedForGood
  <2>1. archives' = archives
    BY <1>1 DEF engineVars
  <2> QED BY <1>1, <2>1 DEF Settled, FailedForGood, DoneInv, EngineClean
<1>3. Exists(b) => backups[b].eng = a
  BY <1>1 DEF LinkInv, WorkerHoldsRow
<1>4. RowsMove /\ RowsAge
  BY <1>1, UntouchedRowsMove, RowsMoveAge
<1>5. EngineClean' /\ WantsBase' /\ RowsDone'
  BY <1>1, <1>4, EngineStays, NoNewWantsMove, WantsKeep, RowsKeepDone DEF EngineMoves
<1>6. WorkerDone'
  <2>1. backups[b].status = "completed" => a \in Settled
    BY <1>1, <1>3, RowTypes DEF DoneInv, RowsDone
  <2> QED BY <1>1, <1>2, <2>1 DEF WorkerDone
<1>7. QueueDone' /\ LostDone'
  BY <1>1 DEF DoneInv, QueueDone, LostDone
<1>8. VerdictsDone'
  <2>1. ASSUME NEW v \in reconcile
        PROVE  v.id <= lastBackup' /\ VerdictDone(v)'
    <3>1. /\ v.id <= lastBackup /\ VerdictDone(v) /\ v \in Verdict
          /\ v.says = "completed" => v.arc # None
      BY RowTypes DEF DoneInv, VerdictsDone, TypeInv, VerdictOK
    <3>2. v.id = b /\ Exists(b) => v.says = archives[a].row
      BY <1>1, <1>2, <1>3, <3>1 DEF VerdictDone, Verdict
    <3> QED BY <1>1, <1>2, <3>1, <3>2 DEF VerdictDone, Exists
  <2> QED BY <1>1, <2>1 DEF DoneInv, VerdictsDone
<1> QED BY <1>5, <1>6, <1>7, <1>8 DEF DoneInv

LEMMA JobFinishDone ==
  ASSUME TypeInv, TypeInv', LinkInv, LinkInv', SitInv, DoneInv, JobFinish
  PROVE  DoneInv'
<1> DEFINE b == worker.id
           a == worker.arc
<1>1. /\ b \in Backup /\ a \in Archive /\ worker.pc = "finish"
      /\ \A i \in 1 .. Len(queue) : queue[i] # b
      /\ worker' = IdleWorker
      /\ UNCHANGED <<engineVars, lastBackup, queue, lostJobs, reconcile>>
  BY RowTypes, WorkersBackup DEF JobFinish
<1>2. EngineMoves /\ WantsMove
  BY <1>1, EngineStays, NoNewWantsMove
<1>3. CASE worker.seen = "failed"
  <2>1. backups[b].status # "completed" /\ SetStatus(b, "failed")
    BY <1>1, <1>3 DEF DoneInv, WorkerDone, JobFinish
  <2> QED BY <1>1, <1>2, <2>1, FailKeepsDone
<1>4. CASE worker.seen # "failed"
  <2>1. worker.seen = "completed" /\ a \in Settled
    BY <1>1, <1>4 DEF DoneInv, WorkerDone
  <2>2. Exists(b) => backups[b].eng = a
    BY <1>1 DEF LinkInv, WorkerHoldsRow
  <2>3. SetRow(b, [Completed(backups[b], a, archives[a].level) EXCEPT !.snap = a])
    BY <1>4 DEF JobFinish
  <2>4. archives[a].level \in Nat /\ a \in ArchiveOrNone
    BY <1>1, RowTypes, BoundsArePositive DEF ArchiveRecord
  <2>5. \A v \in reconcile : v.id = b /\ Exists(b) => v.says = "completed"
    BY <1>1, <2>1 DEF DoneInv, VerdictsDone, VerdictDone
  <2> QED BY <1>1, <2>1, <2>2, <2>3, <2>4, <2>5, CompleteKeepsDone DEF IdleWorker
<1> QED BY <1>3, <1>4

LEMMA HookDone ==
  ASSUME TypeInv, TypeInv', LinkInv, LinkInv', SitInv, DoneInv,
         NEW b \in Backup, JobFailedHook(b)
  PROVE  DoneInv'
<1>1. /\ UNCHANGED <<engineVars, lastBackup, queue, worker, reconcile>>
      /\ lostJobs' \subseteq lostJobs /\ b \in lostJobs
  BY DEF JobFailedHook
<1>2. EngineMoves /\ WantsMove
  BY <1>1, EngineStays, NoNewWantsMove
<1>3. CASE UNCHANGED backups
  BY <1>1, <1>2, <1>3, RowsUntouched
<1>4. CASE SetStatus(b, "failed") /\ backups[b].status # "completed"
  <2>1. \A i \in 1 .. Len(queue) : b < queue[i] /\ queue[i] \in Nat
    BY <1>1, RowTypes DEF DoneInv, QueueDone
  <2>2. \A i \in 1 .. Len(queue) : queue[i] # b
    BY <2>1, RowTypes
  <2> QED BY <1>1, <1>2, <1>4, <2>2, FailKeepsDone
<1> QED BY <1>3, <1>4 DEF JobFailedHook

LEMMA ReconcileListDone ==
  ASSUME TypeInv, TypeInv', LinkInv, LinkInv', SitInv, DoneInv,
         NEW reachable \in BOOLEAN, ReconcileList(reachable)
  PROVE  DoneInv'
<1>1. UNCHANGED <<engineVars, backups, lastBackup, queue, lostJobs, worker>>
  BY DEF ReconcileList
<1>2. /\ archives' = archives /\ Settled' = Settled /\ FailedForGood' = FailedForGood
      /\ RowsMove /\ RowsAge
  <2>1. archives' = archives
    BY <1>1 DEF engineVars
  <2> QED BY <1>1, <2>1, UntouchedRowsMove, RowsMoveAge DEF Settled, FailedForGood
<1>3. EngineClean' /\ WantsBase' /\ RowsDone'
  BY <1>1, <1>2, EngineStays, NoNewWantsMove, WantsKeep, RowsKeepDone DEF EngineMoves
<1>4. WorkerDone' /\ QueueDone' /\ LostDone'
  <2>1. WorkerMoves /\ EngineMoves
    BY <1>1, EngineStays DEF WorkerMoves, DoneInv, WorkerDone
  <2> QED BY <1>1, <1>2, <2>1, WorkerKeepsDone DEF DoneInv, QueueDone, LostDone
<1>5. ASSUME NEW v \in reconcile'
      PROVE  /\ v.id \in Backup /\ v.id \in Candidates /\ v.arc = backups[v.id].eng
             /\ v.says = Says(v.id, reachable) /\ v.says # "nothing"
             /\ v.level = backups[v.id].level /\ v.snap = backups[v.id].snap
             /\ v \in Verdict
  <2>1. PICK b \in {c \in Candidates : Says(c, reachable) # "nothing"} :
          v = [id |-> b, says |-> Says(b, reachable), arc |-> backups[b].eng,
               level |-> backups[b].level, snap |-> backups[b].snap]
    BY DEF ReconcileList
  <2>2. /\ v.id = b /\ v.says = Says(b, reachable) /\ v.arc = backups[b].eng
        /\ v.level = backups[b].level /\ v.snap = backups[b].snap
    BY <2>1
  <2>3. v \in Verdict
    BY DEF TypeInv, TypeOK
  <2> QED BY <2>2, <2>3 DEF Candidates
<1>6. \A v, w \in reconcile' : v.id = w.id => v = w
  BY <1>5 DEF Verdict
<1>7. ASSUME NEW v \in reconcile'
      PROVE  v.id <= lastBackup' /\ VerdictDone(v)'
  <2> DEFINE b == v.id
             a == backups[b].eng
  <2>1. /\ b \in Backup /\ v.arc = a /\ v.says # "nothing" /\ b # None
        /\ backups[b].status \in {"running", "failed"}
        /\ v.says = Says(b, reachable)
        /\ a # None => a \in Archive
    BY <1>5, RowTypes DEF Candidates
  <2>2. /\ v.says = "completed" => SeenRow(b, reachable) = "completed"
        /\ v.says = "failed" => SeenRow(b, reachable) = "failed"
        /\ v.says = "stale" => worker.id # b
        /\ v.says \in {"completed", "failed", "stale"}
    <3>1. \/ SeenRow(b, reachable) = "completed" /\ Says(b, reachable) = "completed"
          \/ SeenRow(b, reachable) = "failed" /\ Says(b, reachable) = "failed"
          \/ worker.id # b /\ Says(b, reachable) = "stale"
          \/ Says(b, reachable) = "nothing"
      BY DEF Says, StaleFor6Hours
    <3> QED BY <2>1, <3>1
  <2>3. SeenRow(b, reachable) \in {"completed", "failed"}
          => a # None /\ archives[a].row = SeenRow(b, reachable)
    BY DEF SeenRow
  <2>4. /\ v.says = "completed" => a # None /\ a \in Settled /\ a \notin FailedForGood
        /\ v.says = "failed" => a # None /\ a \in FailedForGood /\ a \notin Settled
    BY <2>1, <2>2, <2>3 DEF Settled, FailedForGood, DoneInv, EngineClean
  <2>5. worker.pc = "finish" /\ worker.id = b => v.says = worker.seen
    <3> SUFFICES ASSUME worker.pc = "finish", worker.id = b
                 PROVE  v.says = worker.seen
      OBVIOUS
    <3>1. a = worker.arc
      BY <2>1, RowTypes DEF LinkInv, WorkerHoldsRow
    <3> QED BY <2>2, <2>4, <3>1 DEF DoneInv, WorkerDone
  <2>6. b <= lastBackup
    BY <2>1, RowTypes DEF LinkInv, RowInv, IdsHandedOut
  <2>7. worker' = worker /\ backups' = backups /\ lastBackup' = lastBackup
    BY <1>1
  <2>8. v.arc = a
    BY <2>1
  <2> HIDE DEF a, b
  <2> QED BY <1>2, <2>1, <2>2, <2>4, <2>5, <2>6, <2>7, <2>8 DEF VerdictDone, a, b
<1>8. VerdictsDone'
  BY <1>6, <1>7 DEF VerdictsDone
<1> QED BY <1>3, <1>4, <1>8 DEF DoneInv

LEMMA ReconcileOneDone ==
  ASSUME TypeInv, TypeInv', LinkInv, LinkInv', SitInv, DoneInv, ReconcileOne
  PROVE  DoneInv'
<1>1. PICK v \in reconcile :
        /\ IF v.says = "completed"
             THEN LET engineLevel == archives[v.arc].level
                      r == backups[v.id]
                  IN /\ SetRow(v.id,
                          [Completed(r, v.arc,
                                     IF engineLevel # v.level THEN engineLevel ELSE r.level)
                             EXCEPT !.snap = IF v.arc # v.snap THEN v.arc ELSE @])
                     /\ reconcile' = IF Exists(v.id) THEN reconcile \ {v} ELSE {}
             ELSE /\ SetStatus(v.id, "failed")
                  /\ reconcile' = reconcile \ {v}
        /\ UNCHANGED <<engineVars, lastBackup, queue, lostJobs, worker, deleting, bounds>>
  BY DEF ReconcileOne
<1>2. /\ v.id \in Backup /\ v.id # None /\ v \in Verdict /\ VerdictDone(v)
      /\ v.arc # None => v.arc \in Archive
  BY RowTypes DEF DoneInv, VerdictsDone
<1>3. EngineMoves /\ WantsMove
  BY <1>1, EngineStays, NoNewWantsMove
<1>4. CASE v.says = "completed"
  <2> DEFINE b == v.id
             a == v.arc
             level == IF archives[a].level # v.level THEN archives[a].level
                                                     ELSE backups[b].level
             done == Completed(backups[b], a, level)
             snap == IF a # v.snap THEN a ELSE done.snap
  <2>1. a \in Archive /\ a \in Settled /\ a # None
    BY <1>2, <1>4 DEF VerdictDone, TypeInv, VerdictOK
  <2>2. Exists(b) => backups[b].eng = a
    BY <1>2, <2>1 DEF VerdictDone
  <2>3. level \in Nat /\ a \in ArchiveOrNone /\ snap \in ArchiveOrNone
    <3>1. level \in Nat
      BY <1>2, <2>1, RowTypes DEF ArchiveRecord, BackupRow
    <3>2. done \in BackupRow
      BY <1>2, <2>1, <3>1, RowTypes, CompletedRow
    <3> QED BY <2>1, <3>1, <3>2, BoundsArePositive DEF BackupRow
  <2>4. SetRow(b, [Completed(backups[b], a, level) EXCEPT !.snap = snap])
    <3>1. [done EXCEPT !.snap = IF a # v.snap THEN a ELSE @] = [done EXCEPT !.snap = snap]
      OBVIOUS
    <3> QED BY <1>1, <1>4, <3>1
  <2>5. reconcile' \subseteq reconcile
    BY <1>1, <1>4
  <2>6. \A w \in reconcile' : w.id = b /\ Exists(b) => w.says = "completed"
    BY <1>4, <2>5 DEF DoneInv, VerdictsDone
  <2>7. worker.pc = "finish" /\ worker.id = b /\ Exists(b) => worker.seen = "completed"
    BY <1>2, <1>4 DEF VerdictDone
  <2>8. \A i \in 1 .. Len(queue) : queue[i] = b => ~Exists(b)
    <3>1. ASSUME NEW i \in 1 .. Len(queue), queue[i] = b, Exists(b)
          PROVE  FALSE
      <4>1. backups[b].eng = None
        BY <3>1 DEF SitInv, QueueFresh
      <4> QED BY <2>1, <2>2, <3>1, <4>1
    <3> QED BY <3>1
  <2>9. worker' = worker
    BY <1>1
  <2> HIDE DEF a, b, level, done, snap
  <2>10. b \in Backup
    BY <1>2 DEF b
  <2> QED BY <1>1, <2>1, <2>2, <2>3, <2>4, <2>5, <2>6, <2>7, <2>8, <2>9, <2>10, CompleteKeepsDone
<1>5. CASE v.says # "completed"
  <2>1. /\ SetStatus(v.id, "failed") /\ reconcile' \subseteq reconcile
        /\ backups[v.id].status \in {"running", "failed", "absent"}
    BY <1>1, <1>2, <1>5 DEF VerdictDone
  <2>2. CASE Exists(v.id)
    <3>1. \A i \in 1 .. Len(queue) : queue[i] # v.id
      BY <2>1, <2>2, RowTypes DEF DoneInv, QueueDone
    <3> QED BY <1>1, <1>2, <1>3, <2>1, <3>1, FailKeepsDone
  <2>3. CASE ~Exists(v.id)
    <3>1. UNCHANGED backups
      BY <2>1, <2>3 DEF SetStatus, SetRow
    <3> QED BY <1>1, <1>3, <2>1, <3>1, RowsUntouched
  <2> QED BY <2>2, <2>3
<1> QED BY <1>4, <1>5

LEMMA DeletingDone ==
  ASSUME TypeInv, TypeInv', LinkInv, LinkInv', SitInv, DoneInv, NEW d \in Deleters,
         \/ \E b \in Backup : Destroy(d, b) \/ PruneChain(d, b)
         \/ Purge(d) \/ DeleteRow(d)
  PROVE  DoneInv'
<1>1. CASE \E b \in Backup : Destroy(d, b) \/ PruneChain(d, b)
  BY <1>1, EngineStays, NoNewWantsMove, RowsUntouched DEF Destroy, PruneChain
<1>2. CASE Purge(d)
  <2>1. PICK v \in deleting[d] :
          \/ v.arc # None /\ BackupDelete(v.arc)
          \/ UNCHANGED engineVars
    BY <1>2 DEF Purge
  <2>2. v.arc # None => v.arc \in Archive
    BY BoundsArePositive DEF TypeInv, TypeOK, Victim
  <2>3. EngineMoves /\ WantsMove
    BY <2>1, <2>2, DeleteMoves, EngineStays, NoNewWantsMove
  <2> QED BY <1>2, <2>3, RowsUntouched DEF Purge
<1>3. CASE DeleteRow(d)
  <2>1. /\ RowsMove
        /\ \A c \in Backup : \/ backups'[c].status = "absent"
                             \/ backups'[c].status = backups[c].status
    BY <1>3, DeleteRowMoves
  <2>2. /\ UNCHANGED <<engineVars, queue, lostJobs, worker, reconcile>>
        /\ EngineMoves /\ WantsMove
    BY <1>3, EngineStays, NoNewWantsMove DEF DeleteRow
  <2>3. QueuedRowsStay
    <3>1. \A i \in 1 .. Len(queue) : queue[i] \in Backup
      BY RowTypes
    <3> QED BY <2>1, <3>1 DEF QueuedRowsStay, DoneInv, QueueDone
  <2>4. DoomedRowsStay
    BY <2>1, <2>2, RowTypes DEF DoomedRowsStay, DoneInv, VerdictsDone, VerdictDone
  <2>5. WorkerMoves
    BY <2>1, <2>2, RowTypes DEF WorkerMoves
  <2> QED BY <2>1, <2>2, <2>3, <2>4, <2>5, QuietKeepsDone
<1> QED BY <1>1, <1>2, <1>3

LEMMA DoneStep ==
  MaxRetry = 0 /\ TypeInv /\ TypeInv' /\ LinkInv /\ LinkInv' /\ SitInv /\ DoneInv
    /\ [Next]_vars => DoneInv'
<1> SUFFICES ASSUME MaxRetry = 0, TypeInv, TypeInv', LinkInv, LinkInv', SitInv, DoneInv,
                    [Next]_vars
             PROVE  DoneInv'
  OBVIOUS
<1>1. CASE UNCHANGED vars
  BY <1>1, EngineStays, NoNewWantsMove, RowsUntouched DEF vars, panelVars
<1>2. ~ \E b \in Backup : Retry(b)
  BY DEF Retry, TypeInv, TypeOK
<1>3. CASE Request
  BY <1>2, <1>3, CreateDone, DeletingDone DEF Request
<1>4. CASE Job
  <2>1. CASE JobStart
    BY <2>1, JobStartDone
  <2>2. CASE JobPost
    BY <2>2, JobPostDone
  <2>3. CASE JobPostError
    <3>1. EngineMoves /\ WantsMove
      BY <2>3, EngineStays, NoNewWantsMove DEF JobPostError
    <3> QED BY <2>3, <3>1, WorkersBackup, FailKeepsDone DEF JobPostError
  <2>4. CASE JobSeed
    BY <2>4, JobSeedDone
  <2>5. CASE JobPoll
    BY <2>5, JobPollDone
  <2>6. CASE JobPollTimeout
    BY <2>6, EngineStays, NoNewWantsMove, RowsUntouched DEF JobPollTimeout
  <2>7. CASE JobFinish
    BY <2>7, JobFinishDone
  <2> QED BY <1>4, <2>1, <2>2, <2>3, <2>4, <2>5, <2>6, <2>7 DEF Job
<1>5. CASE \E b \in Backup : JobFailedHook(b)
  BY <1>5, HookDone
<1>6. CASE \E reachable \in BOOLEAN : ReconcileList(reachable)
  BY <1>6, ReconcileListDone
<1>7. CASE ReconcileOne
  BY <1>7, ReconcileOneDone
<1>8. CASE \E d \in Deleters : Purge(d) \/ DeleteRow(d)
  BY <1>8, DeletingDone
<1>9. CASE EngineStep
  BY <1>9, ArchivingMoves, NoNewWantsMove, RowsUntouched DEF EngineStep, panelVars
<1>10. CASE JobPostLost
  BY <1>10, JobPostLostDone
<1>11. CASE WorkerCrash
  BY <1>11, EngineStays, NoNewWantsMove, RowsUntouched DEF WorkerCrash
<1>12. CASE Restart
  BY <1>12, RestartMoves, NoNewWantsMove, RowsUntouched DEF Restart
<1> QED BY <1>1, <1>3, <1>4, <1>5, <1>6, <1>7, <1>8, <1>9, <1>10, <1>11, <1>12 DEF Next

(* Every reachable state, while nothing is retried.                         *)
AllInv == TypeInv /\ LinkInv /\ SitInv /\ DoneInv

LEMMA AllInvariant ==
  ASSUME MaxRetry = 0
  PROVE  Spec => []AllInv
BY TypeInit, TypeStep, LinkInit, LinkStep, SitInit, SitStep, DoneInit, DoneStep, PTL
   DEF Spec, AllInv

-----------------------------------------------------------------------------
(* What it gives                                                            *)

(* While nothing is retried, a backup shown as completed has an archive the *)
(* engine has finished, or was told to delete after it had: neither the     *)
(* job's finalizer nor the reconciler's, which write long after they read,  *)
(* completes a row whose archive failed or is still being made.             *)
THEOREM CompletedBackupsHaveArchives ==
  ASSUME MaxRetry = 0
  PROVE  Spec => []CompletedHasArchive
<1>1. AllInv => CompletedHasArchive
  BY DEF AllInv, DoneInv, RowsDone, Settled, CompletedHasArchive
<1> QED BY <1>1, AllInvariant, PTL

(* While nothing is retried, a goroutine that copies its parent's snapshot  *)
(* never copies one that another tar still writes: the panel sends a path   *)
(* only when its parent is completed, and nothing the engine does later     *)
(* opens the snapshot again.                                                *)
THEOREM CopiedSnapshotsAreSettled ==
  ASSUME MaxRetry = 0
  PROVE  Spec => []SnapshotSettled
<1>1. AllInv => SnapshotSettled
  BY DEF AllInv, DoneInv, WantsBase, Bases, Settled, SnapshotSettled
<1> QED BY <1>1, AllInvariant, PTL

-----------------------------------------------------------------------------
(* The refinement                                                           *)

SameLife(c) == PhaseOf(c)' = PhaseOf(c) /\ NeedsOf(c)' = NeedsOf(c)

LEMMA StepsMoveEngine ==
  ASSUME AllInv, [Next]_vars
  PROVE  EngineMoves
<1>1. TypeInv /\ DoneInv
  BY DEF AllInv
<1>2. CASE UNCHANGED engineVars
  BY <1>1, <1>2, EngineStays
<1>3. CASE EngineStep
  BY <1>1, <1>3, ArchivingMoves DEF EngineStep
<1>4. CASE Restart
  BY <1>1, <1>4, RestartMoves DEF Restart
<1>5. CASE JobPost \/ JobPostLost
  BY <1>1, <1>5, PostMoves DEF JobPost, JobPostLost
<1>6. ASSUME NEW d \in Deleters, Purge(d)
      PROVE  EngineMoves
  <2>1. PICK v \in deleting[d] :
          \/ v.arc # None /\ BackupDelete(v.arc)
          \/ UNCHANGED engineVars
    BY <1>6 DEF Purge
  <2>2. v.arc # None => v.arc \in Archive
    BY <1>1, BoundsArePositive DEF TypeInv, TypeOK, Victim
  <2> QED BY <1>1, <2>1, <2>2, DeleteMoves, EngineStays
<1>7. CASE \/ Request \/ JobStart \/ JobPostError \/ JobSeed \/ JobPoll \/ JobPollTimeout
           \/ JobFinish \/ WorkerCrash \/ ReconcileOne
           \/ \E b \in Backup : JobFailedHook(b)
           \/ \E reachable \in BOOLEAN : ReconcileList(reachable)
           \/ \E d \in Deleters : DeleteRow(d)
  <2>1. CASE Request
    BY <1>2, <2>1
       DEF Request, StoreFull, StoreIncremental, RunDue, Enqueue, Retry, Destroy, PruneChain
  <2> QED BY <1>2, <1>7, <2>1
       DEF JobStart, JobPostError, JobSeed, JobPoll, JobPollTimeout, JobFinish, WorkerCrash,
           ReconcileOne, JobFailedHook, ReconcileList, DeleteRow
<1>8. CASE UNCHANGED vars
  BY <1>2, <1>8 DEF vars
<1> QED BY <1>3, <1>4, <1>5, <1>6, <1>7, <1>8 DEF Next, Job

(* What the content of a finished backup is relative to never changes.      *)
LEMMA LifeStays ==
  ASSUME AllInv, EngineMoves, NEW c \in Backup,
         \/ backups'[c].status = backups[c].status
         \/ backups[c].status = "queued" /\ backups'[c].status = "running",
         backups[c].status = "completed" => backups'[c].eng = backups[c].eng,
         c <= lastBackup \/ lastBackup' = lastBackup,
         lastBackup <= lastBackup', lastBackup' \in Nat
  PROVE  SameLife(c)
<1>1. TypeInv /\ SitInv /\ DoneInv /\ c \in Nat /\ lastBackup \in Nat
  BY RowTypes DEF AllInv
<1>2. PhaseOf(c)' = PhaseOf(c)
  BY <1>1 DEF PhaseOf
<1>3. NeedsOf(c)' = NeedsOf(c)
  <2>1. CASE backups[c].status # "completed"
    BY <2>1 DEF NeedsOf
  <2>2. CASE backups[c].status = "completed"
    <3> DEFINE a == backups[c].eng
               on == archives[a].on
    <3>1. a \in Archive /\ a \in Settled
      BY <1>1, <2>2, RowTypes DEF DoneInv, RowsDone
    <3>2. archives'[a].on = on
      BY <3>1 DEF EngineMoves
    <3>3. on # None => on \in Bases
      BY <1>1, <3>1 DEF SitInv, MadeOnWanted, DoneInv, WantsBase
    <3>4. on # None => archives'[on].owner = archives[on].owner
      <4>1. on \in Bases => on \in Archive /\ on <= lastArchive
        BY <1>1 DEF Bases, Settled, DoneInv, EngineClean
      <4> QED BY <3>3, <4>1 DEF EngineMoves
    <3>5. backups'[c].eng = a /\ backups'[c].status = "completed"
      BY <2>2
    <3> QED BY <2>2, <3>2, <3>4, <3>5 DEF NeedsOf
  <2> QED BY <2>1, <2>2
<1> QED BY <1>2, <1>3 DEF SameLife

LEMMA AllLivesStay ==
  ASSUME \A c \in Backup : SameLife(c)
  PROVE  UNCHANGED Abstract!vars
BY DEF SameLife, Abstract!vars

LEMMA BackupsAgree == Abstract!Backup = Backup
BY DEF Abstract!Backup, Backup

(* The life of one backup moves.                                            *)
Phases == [b \in Backup |-> PhaseOf(b)]
Needs  == [b \in Backup |-> NeedsOf(b)]

LEMMA OneLife ==
  ASSUME NEW b \in Backup, \A c \in Backup : c # b => SameLife(c)
  PROVE  /\ Phases' = [Phases EXCEPT ![b] = PhaseOf(b)']
         /\ Needs' = [Needs EXCEPT ![b] = NeedsOf(b)']
BY DEF SameLife, Phases, Needs

LEMMA SubmitLife ==
  ASSUME NEW b \in Backup, \A c \in Backup : c # b => SameLife(c),
         PhaseOf(b) = "unborn", PhaseOf(b)' = "pending", NeedsOf(b)' = NeedsOf(b)
  PROVE  Abstract!Next
<1>1. Abstract!Submit(b)
  BY OneLife DEF Abstract!Submit, Abstract!Become, Phases, Needs
<1> QED BY <1>1, BackupsAgree DEF Abstract!Next

LEMMA FailLife ==
  ASSUME NEW b \in Backup, \A c \in Backup : c # b => SameLife(c),
         PhaseOf(b) = "pending", PhaseOf(b)' = "failed", NeedsOf(b)' = NeedsOf(b)
  PROVE  Abstract!Next
<1>1. Abstract!Fail(b)
  BY OneLife DEF Abstract!Fail, Abstract!Become, Phases, Needs
<1> QED BY <1>1, BackupsAgree DEF Abstract!Next

LEMMA FinishLife ==
  ASSUME NEW b \in Backup, \A c \in Backup : c # b => SameLife(c),
         PhaseOf(b) \in {"pending", "failed"}, PhaseOf(b)' = "done",
         \/ NeedsOf(b)' = 0
         \/ /\ NeedsOf(b)' \in Backup /\ NeedsOf(b)' < b
            /\ PhaseOf(NeedsOf(b)') \in {"done", "removed"}
  PROVE  Abstract!Next
<1> DEFINE p == NeedsOf(b)'
<1>1. p \in {0} \cup {q \in Backup : q < b /\ Phases[q] \in {"done", "removed"}}
  BY DEF Phases
<1>2. Phases[b] \in {"pending", "failed"} /\ Phases' = [Phases EXCEPT ![b] = "done"]
      /\ Needs' = [Needs EXCEPT ![b] = p]
  BY OneLife DEF Phases
<1> HIDE DEF p
<1>3. Abstract!Finish(b)
  BY <1>1, <1>2, BackupsAgree DEF Abstract!Finish, Abstract!Become, Phases, Needs
<1> QED BY <1>3, BackupsAgree DEF Abstract!Next

LEMMA RemoveLife ==
  ASSUME NEW b \in Backup, \A c \in Backup : c # b => SameLife(c),
         PhaseOf(b) \in {"pending", "done", "failed"}, PhaseOf(b)' = "removed",
         NeedsOf(b)' = None
  PROVE  Abstract!Next
<1>1. Abstract!Remove(b)
  BY OneLife DEF Abstract!Remove, Abstract!Become, Phases, Needs, None
<1> QED BY <1>1, BackupsAgree DEF Abstract!Next

LifeStep == Abstract!Next \/ UNCHANGED Abstract!vars

(* Rows keep their status and, when they are completed, their archive.      *)
LEMMA StatusesStay ==
  ASSUME AllInv, EngineMoves, lastBackup' = lastBackup,
         \A c \in Backup :
           /\ \/ backups'[c].status = backups[c].status
              \/ backups[c].status = "queued" /\ backups'[c].status = "running"
           /\ backups[c].status = "completed" => backups'[c].eng = backups[c].eng
  PROVE  LifeStep
<1>1. lastBackup \in Nat
  BY RowTypes DEF AllInv
<1>2. \A c \in Backup : SameLife(c)
  BY <1>1, LifeStays
<1> QED BY <1>2, AllLivesStay DEF LifeStep

LEMMA FailLives ==
  ASSUME AllInv, EngineMoves, lastBackup' = lastBackup,
         NEW b \in Backup, SetStatus(b, "failed"), backups[b].status # "completed"
  PROVE  LifeStep
<1>1. TypeInv /\ DoneInv /\ lastBackup \in Nat /\ b \in Nat
  BY RowTypes DEF AllInv
<1>2. /\ \A c \in Backup : c # b => backups'[c] = backups[c]
      /\ backups'[b].eng = backups[b].eng
      /\ backups'[b].status \in {"failed", "absent"}
      /\ backups[b].status = "absent" => backups'[b].status = "absent"
  BY <1>1, StatusMoves
<1>3. \A c \in Backup : c # b => SameLife(c)
  BY <1>1, <1>2, LifeStays
<1>4. CASE backups'[b].status = backups[b].status
  BY <1>1, <1>2, <1>3, <1>4, StatusesStay
<1>5. CASE backups[b].status \in {"queued", "running"} /\ backups'[b].status = "failed"
  <2>1. PhaseOf(b) = "pending" /\ PhaseOf(b)' = "failed" /\ NeedsOf(b)' = NeedsOf(b)
    BY <1>5 DEF PhaseOf, NeedsOf
  <2> QED BY <1>3, <2>1, FailLife DEF LifeStep
<1>6. CASE backups'[b].status = "absent" /\ backups[b].status # "absent"
  <2>1. ~Exists(b) \/ backups'[b].status = "failed"
    <3>1. backups[b] \in BackupRow
      BY <1>1, RowTypes
    <3> QED BY <3>1 DEF SetStatus, SetRow, BackupRow, AllInv, TypeInv, TypeOK
  <2> QED BY <1>1, <1>6, <2>1, RowTypes
<1>7. backups[b].status \in {"absent", "queued", "running", "failed"}
  BY <1>1, RowTypes DEF BackupRow
<1> QED BY <1>2, <1>4, <1>5, <1>6, <1>7

(* A backup is finished on top of an older one that is done, or was.        *)
LEMMA CompleteLives ==
  ASSUME AllInv, UNCHANGED <<engineVars, lastBackup>>,
         NEW b \in Backup, NEW a \in Archive, NEW level \in Nat, NEW snap \in ArchiveOrNone,
         Exists(b) => backups[b].eng = a, a \in Settled,
         SetRow(b, [Completed(backups[b], a, level) EXCEPT !.snap = snap])
  PROVE  LifeStep
<1>1. TypeInv /\ SitInv /\ DoneInv /\ lastBackup \in Nat /\ b \in Nat
      /\ archives' = archives /\ lastBackup' = lastBackup
  BY RowTypes DEF AllInv, engineVars
<1>2. EngineMoves
  BY <1>1, EngineStays
<1>3. /\ \A c \in Backup : c # b => backups'[c] = backups[c]
      /\ backups'[b].eng = backups[b].eng
      /\ Exists(b) => backups'[b].status = "completed"
      /\ ~Exists(b) => backups'[b] = backups[b]
  BY <1>1, CompletedMoves
<1>4. \A c \in Backup : c # b => SameLife(c)
  BY <1>1, <1>2, <1>3, LifeStays
<1>5. CASE ~Exists(b) \/ backups[b].status = "completed"
  BY <1>1, <1>2, <1>3, <1>5, RowTypes, StatusesStay
<1>6. CASE Exists(b) /\ backups[b].status # "completed"
  <2> DEFINE on == archives[a].on
  <2>1. backups[b].status \in {"queued", "running", "failed"}
    BY <1>1, <1>6, RowTypes DEF BackupRow
  <2>2. /\ PhaseOf(b) \in {"pending", "failed"} /\ PhaseOf(b)' = "done"
        /\ NeedsOf(b)' = IF on = None THEN None ELSE archives[on].owner
    BY <1>1, <1>3, <1>6, <2>1 DEF PhaseOf, NeedsOf
  <2>3. ASSUME on # None
        PROVE  /\ archives[on].owner \in Backup /\ archives[on].owner < b
               /\ PhaseOf(archives[on].owner) \in {"done", "removed"}
    <3>1. on \in Bases /\ archives[on].owner < archives[a].owner
      BY <1>1, <2>3 DEF SitInv, MadeOnWanted, DoneInv, WantsBase
    <3>2. archives[a].owner = b
      BY <1>1, <1>6, RowTypes DEF DoneInv, RowsDone
    <3> DEFINE o == archives[on].owner
    <3>3. o \in Backup /\ o \in Nat /\ o <= lastBackup
          /\ backups[o].status \in {"completed", "absent"}
      BY <1>1, <3>1, RowTypes DEF Bases
    <3>4. PhaseOf(o) \in {"done", "removed"}
      BY <1>1, <3>3 DEF PhaseOf
    <3> QED BY <3>1, <3>2, <3>3, <3>4
  <2> QED BY <1>4, <2>2, <2>3, FinishLife DEF LifeStep, None
<1> QED BY <1>5, <1>6

LEMMA DeleteRowLives ==
  ASSUME AllInv, NEW d \in Deleters, DeleteRow(d)
  PROVE  LifeStep
<1>1. TypeInv /\ DoneInv /\ LinkInv /\ lastBackup \in Nat /\ lastBackup' = lastBackup
  BY RowTypes DEF AllInv, DeleteRow
<1>2. EngineMoves
  BY <1>1, EngineStays DEF DeleteRow
<1>3. PICK v \in deleting[d] :
        backups' = [b \in Backup |-> IF b = v.id THEN AbsentRow
                                    ELSE NullsForeignKeys(backups[b], v.id)]
  BY DEF DeleteRow
<1> DEFINE b == v.id
<1>4. b \in Backup
  BY <1>1 DEF TypeInv, TypeOK, Victim
<1>5. /\ backups'[b] = AbsentRow
      /\ \A c \in Backup : c # b => /\ backups'[c].status = backups[c].status
                                    /\ backups'[c].eng = backups[c].eng
  <2>1. backups'[b] = AbsentRow
    BY <1>3, <1>4
  <2>2. ASSUME NEW c \in Backup, c # b
        PROVE  backups'[c].status = backups[c].status /\ backups'[c].eng = backups[c].eng
    <3>1. backups'[c] = NullsForeignKeys(backups[c], b) /\ backups[c] \in BackupRow
      BY <1>1, <1>3, <2>2, RowTypes
    <3> QED BY <3>1 DEF NullsForeignKeys, BackupRow
  <2> QED BY <2>1, <2>2
<1>6. \A c \in Backup : c # b => SameLife(c)
  BY <1>1, <1>2, <1>5, LifeStays
<1>7. CASE backups[b].status = "absent"
  BY <1>1, <1>2, <1>5, <1>7, StatusesStay DEF AbsentRow
<1>8. CASE backups[b].status # "absent"
  <2>1. b <= lastBackup /\ b \in Nat
    BY <1>1, <1>4, <1>8, RowTypes DEF LinkInv, RowInv, IdsHandedOut
  <2>2. PhaseOf(b) \in {"pending", "done", "failed"}
    BY <1>8 DEF PhaseOf
  <2>3. PhaseOf(b)' = "removed" /\ NeedsOf(b)' = None
    BY <1>1, <1>5, <2>1 DEF PhaseOf, NeedsOf, AbsentRow
  <2> QED BY <1>4, <1>6, <2>2, <2>3, RemoveLife DEF LifeStep
<1> QED BY <1>7, <1>8

LEMMA EnqueueLives ==
  ASSUME AllInv, NEW level, NEW p, NEW q, Enqueue(level, p, q)
  PROVE  LifeStep
<1>1. TypeInv /\ DoneInv /\ LinkInv /\ lastBackup \in Nat
  BY RowTypes DEF AllInv
<1>2. EngineMoves
  BY <1>1, EngineStays DEF Enqueue
<1>3. PICK n \in Backup : n = lastBackup + 1 /\ lastBackup' = n
  BY <1>1, MaxBackupAssumption DEF Enqueue, Backup
<1>4. /\ backups'[n].status = "queued"
      /\ \A c \in Backup : c # n => backups'[c] = backups[c]
  BY <1>1, <1>3 DEF Enqueue, TypeInv, TypeOK
<1>5. backups[n].status = "absent"
  BY <1>1, <1>3, RowTypes DEF LinkInv, RowInv, IdsHandedOut
<1>6. ASSUME NEW c \in Backup, c # n
      PROVE  SameLife(c)
  <2>1. CASE c <= lastBackup
    BY <1>1, <1>2, <1>3, <1>4, <1>6, <2>1, LifeStays
  <2>2. CASE ~ (c <= lastBackup)
    <3>1. backups[c].status = "absent" /\ backups'[c] = backups[c] /\ c \in Nat
      BY <1>1, <1>3, <1>4, <1>6, <2>2, RowTypes DEF LinkInv, RowInv, IdsHandedOut
    <3> QED BY <1>1, <1>3, <1>6, <2>2, <3>1 DEF SameLife, PhaseOf, NeedsOf
  <2> QED BY <2>1, <2>2
<1>7. PhaseOf(n) = "unborn" /\ PhaseOf(n)' = "pending" /\ NeedsOf(n)' = NeedsOf(n)
  <2>1. n > lastBackup
    BY <1>1, <1>3
  <2> QED BY <1>3, <1>4, <1>5, <2>1 DEF PhaseOf, NeedsOf
<1> QED BY <1>3, <1>6, <1>7, SubmitLife DEF LifeStep

LEMMA JobLives ==
  ASSUME AllInv, EngineMoves, Job
  PROVE  LifeStep
<1>1. TypeInv /\ LinkInv /\ SitInv /\ DoneInv
  BY DEF AllInv
<1>2. CASE JobStart
  <2> DEFINE b == Head(queue)
  <2>1. /\ b \in Backup /\ queue # <<>> /\ Len(queue) >= 1 /\ b = queue[1]
        /\ backups[b] \in BackupRow /\ lastBackup' = lastBackup
    BY <1>1, <1>2, RowTypes DEF JobStart
  <2>2. backups[b].status \in {"queued", "absent"}
    BY <1>1, <2>1 DEF DoneInv, QueueDone
  <2>3. ASSUME NEW c \in Backup
        PROVE  /\ \/ backups'[c].status = backups[c].status
                  \/ backups[c].status = "queued" /\ backups'[c].status = "running"
               /\ backups[c].status = "completed" => backups'[c].eng = backups[c].eng
    <3> DEFINE r == backups[b]
               hasParent == r.level > 0 /\ r.parent # None
               want == IF hasParent THEN ParentSnapshot(b) ELSE None
               noSnapshot == hasParent /\ want = None
               row == [r EXCEPT !.status = "running",
                                !.level  = IF noSnapshot THEN 0 ELSE r.level,
                                !.parent = IF noSnapshot THEN None ELSE r.parent,
                                !.base   = IF noSnapshot THEN None ELSE r.base]
    <3>1. \/ UNCHANGED backups
          \/ r.status # "absent" /\ backups' = [backups EXCEPT ![b] = row]
      BY <1>2 DEF JobStart
    <3>2. row.status = "running"
      BY <2>1 DEF BackupRow
    <3> HIDE DEF row
    <3> QED BY <1>1, <2>1, <2>2, <3>1, <3>2 DEF TypeInv, TypeOK
  <2> QED BY <2>1, <2>3, StatusesStay
<1>3. CASE JobPost \/ JobPoll \/ JobPollTimeout
  <2>1. UNCHANGED <<backups, lastBackup>>
    BY <1>3 DEF JobPost, JobPoll, JobPollTimeout
  <2> QED BY <2>1, StatusesStay
<1>4. CASE JobPostError
  BY <1>1, <1>4, WorkersBackup, FailLives DEF JobPostError
<1>5. CASE JobSeed
  <2> DEFINE b == worker.id
  <2>1. /\ b \in Backup /\ backups[b].status # "completed" /\ lastBackup' = lastBackup
        /\ backups[b] \in BackupRow
    BY <1>1, <1>5, WorkersBackup, RowTypes DEF JobSeed
  <2>2. ASSUME NEW c \in Backup
        PROVE  /\ backups'[c].status = backups[c].status
               /\ backups[c].status = "completed" => backups'[c].eng = backups[c].eng
    BY <1>1, <1>5, <2>1 DEF JobSeed, SetRow, BackupRow, TypeInv, TypeOK
  <2> QED BY <2>1, <2>2, StatusesStay
<1>6. CASE JobFinish
  <2> DEFINE b == worker.id
             a == worker.arc
  <2>1. /\ b \in Backup /\ a \in Archive /\ worker.pc = "finish"
        /\ UNCHANGED <<engineVars, lastBackup>>
    BY <1>1, <1>6, RowTypes DEF JobFinish
  <2>2. CASE worker.seen = "failed"
    <3>1. backups[b].status # "completed" /\ SetStatus(b, "failed")
      BY <1>1, <1>6, <2>1, <2>2 DEF DoneInv, WorkerDone, JobFinish
    <3> QED BY <2>1, <3>1, FailLives
  <2>3. CASE worker.seen # "failed"
    <3>1. a \in Settled /\ (Exists(b) => backups[b].eng = a)
      BY <1>1, <2>1, <2>3 DEF DoneInv, WorkerDone, LinkInv, WorkerHoldsRow
    <3>2. SetRow(b, [Completed(backups[b], a, archives[a].level) EXCEPT !.snap = a])
      BY <1>6, <2>3 DEF JobFinish
    <3>3. archives[a].level \in Nat /\ a \in ArchiveOrNone
      BY <1>1, <2>1, RowTypes, BoundsArePositive DEF ArchiveRecord
    <3> QED BY <2>1, <3>1, <3>2, <3>3, CompleteLives
  <2> QED BY <2>2, <2>3
<1> QED BY <1>2, <1>3, <1>4, <1>5, <1>6 DEF Job

LEMMA ReconcileLives ==
  ASSUME AllInv, EngineMoves, ReconcileOne
  PROVE  LifeStep
<1>1. TypeInv /\ DoneInv
  BY DEF AllInv
<1>2. PICK v \in reconcile :
        /\ IF v.says = "completed"
             THEN LET engineLevel == archives[v.arc].level
                      r == backups[v.id]
                  IN SetRow(v.id,
                       [Completed(r, v.arc,
                                  IF engineLevel # v.level THEN engineLevel ELSE r.level)
                          EXCEPT !.snap = IF v.arc # v.snap THEN v.arc ELSE @])
             ELSE SetStatus(v.id, "failed")
        /\ UNCHANGED <<engineVars, lastBackup>>
  BY DEF ReconcileOne
<1>3. v.id \in Backup /\ v \in Verdict /\ VerdictDone(v)
  BY <1>1, RowTypes DEF DoneInv, VerdictsDone
<1>4. CASE v.says = "completed"
  <2> DEFINE b == v.id
             a == v.arc
             level == IF archives[a].level # v.level THEN archives[a].level
                                                     ELSE backups[b].level
             done == Completed(backups[b], a, level)
             snap == IF a # v.snap THEN a ELSE done.snap
  <2>1. a \in Archive /\ a \in Settled /\ a # None
    BY <1>1, <1>3, <1>4, BoundsArePositive DEF VerdictDone, Settled
  <2>2. Exists(b) => backups[b].eng = a
    BY <1>3, <2>1 DEF VerdictDone
  <2>3. level \in Nat /\ snap \in ArchiveOrNone
    <3>1. level \in Nat
      BY <1>1, <1>3, <2>1, RowTypes DEF ArchiveRecord, BackupRow
    <3>2. done \in BackupRow
      BY <1>1, <1>3, <2>1, <3>1, RowTypes, CompletedRow
    <3> QED BY <2>1, <3>1, <3>2, BoundsArePositive DEF BackupRow
  <2>4. SetRow(b, [Completed(backups[b], a, level) EXCEPT !.snap = snap])
    <3>1. [done EXCEPT !.snap = IF a # v.snap THEN a ELSE @] = [done EXCEPT !.snap = snap]
      OBVIOUS
    <3> QED BY <1>2, <1>4, <3>1
  <2> HIDE DEF a, b, level, done, snap
  <2>5. b \in Backup
    BY <1>3 DEF b
  <2> QED BY <1>2, <2>1, <2>2, <2>3, <2>4, <2>5, CompleteLives
<1>5. CASE v.says # "completed"
  <2>1. SetStatus(v.id, "failed") /\ backups[v.id].status # "completed"
    BY <1>2, <1>3, <1>5 DEF VerdictDone
  <2> QED BY <1>2, <1>3, <2>1, FailLives
<1> QED BY <1>4, <1>5

LEMMA EveryStepLives ==
  ASSUME MaxRetry = 0, AllInv, [Next]_vars
  PROVE  LifeStep
<1>1. EngineMoves /\ TypeInv /\ SitInv /\ DoneInv
  BY StepsMoveEngine DEF AllInv
<1>2. CASE UNCHANGED <<backups, lastBackup>>
  BY <1>1, <1>2, StatusesStay
<1>3. CASE Request
  <2>1. CASE StoreFull \/ StoreIncremental \/ RunDue
    BY <2>1, EnqueueLives DEF StoreFull, StoreIncremental, RunDue
  <2>2. ~ \E b \in Backup : Retry(b)
    BY <1>1 DEF Retry, TypeInv, TypeOK
  <2>3. CASE \E d \in Deleters, b \in Backup : Destroy(d, b) \/ PruneChain(d, b)
    BY <1>2, <2>3 DEF Destroy, PruneChain
  <2> QED BY <1>3, <2>1, <2>2, <2>3 DEF Request
<1>4. CASE Job
  BY <1>1, <1>4, JobLives
<1>5. ASSUME NEW b \in Backup, JobFailedHook(b)
      PROVE  LifeStep
  <2>1. CASE UNCHANGED backups
    BY <1>2, <1>5, <2>1 DEF JobFailedHook
  <2>2. CASE SetStatus(b, "failed") /\ backups[b].status # "completed"
    BY <1>1, <1>5, <2>2, FailLives DEF JobFailedHook
  <2> QED BY <1>5, <2>1, <2>2 DEF JobFailedHook
<1>6. CASE ReconcileOne
  BY <1>1, <1>6, ReconcileLives
<1>7. ASSUME NEW d \in Deleters, Purge(d) \/ DeleteRow(d)
      PROVE  LifeStep
  BY <1>2, <1>7, DeleteRowLives DEF Purge
<1>8. CASE JobPostLost
  <2>1. CASE UNCHANGED backups
    BY <1>2, <1>8, <2>1 DEF JobPostLost
  <2>2. CASE SetStatus(worker.id, "failed")
    BY <1>1, <1>8, <2>2, WorkersBackup, FailLives DEF JobPostLost
  <2> QED BY <1>8, <2>1, <2>2 DEF JobPostLost
<1>9. CASE \/ UNCHANGED vars \/ EngineStep \/ WorkerCrash \/ Restart
           \/ \E reachable \in BOOLEAN : ReconcileList(reachable)
  <2>1. UNCHANGED <<backups, lastBackup>>
    BY <1>9 DEF vars, panelVars, EngineStep, WorkerCrash, Restart, ReconcileList
  <2> QED BY <1>2, <2>1
<1> QED BY <1>3, <1>4, <1>5, <1>6, <1>7, <1>8, <1>9 DEF Next

LEMMA LifeBegins ==
  ASSUME Init PROVE Abstract!Init
<1>1. /\ lastBackup = 0
      /\ \A b \in Backup : backups[b].status = "absent" /\ b > 0
  BY DEF Init, AbsentRow, Backup
<1>2. \A b \in Backup : PhaseOf(b) = "unborn" /\ NeedsOf(b) = 0
  BY <1>1 DEF PhaseOf, NeedsOf, None
<1> QED BY <1>2, BackupsAgree DEF Abstract!Init

(* While nothing is retried, BackupChain implements BackupLifecycle: seen   *)
(* from outside, the job, the reconciler, the failed() hook, deletions,     *)
(* crashes and the engine only submit, finish, fail and remove backups; a   *)
(* finished one stays finished with the content it was finished with, and   *)
(* that content is relative to an older backup that was finished itself.    *)
THEOREM ImplementsLifecycle ==
  ASSUME MaxRetry = 0
  PROVE  Spec => Lifecycle
<1>1. Init => Abstract!Init
  BY LifeBegins
<1>2. AllInv /\ [Next]_vars => [Abstract!Next]_(Abstract!vars)
  BY EveryStepLives DEF LifeStep
<1> QED BY <1>1, <1>2, AllInvariant, PTL DEF Spec, Lifecycle, Abstract!Spec

-----------------------------------------------------------------------------
(* Restorable backups: what is kept beside the invariant above              *)

(* What a finished archive is: its files are there until they are deleted,  *)
(* and at level 0 it holds a full archive.                                  *)
EngineWhole ==
  \A a \in Archive :
    /\ archives[a].row = "completed" => archives[a].disk
    /\ archives[a].row = "running" /\ archives[a].work = "tar" => archives[a].disk
    /\ archives[a].level = 0 => /\ archives[a].on = None
                                /\ archives[a].work # "none" => archives[a].want = None
    /\ archives[a].row # "unused" => /\ archives[a].owner \in Backup
                                     /\ archives[a].owner <= lastBackup

WorkerLevel == worker.pc = "post" /\ worker.want # None => worker.level > 0

(* A completed row has the level of its archive, and so has the row the     *)
(* reconciler is about to complete, as long as it does not write it.        *)
LevelsAgree ==
  /\ \A b \in Backup :
       backups[b].status = "completed" => backups[b].level = archives[backups[b].eng].level
  /\ \A v \in reconcile : v.says = "completed" /\ Exists(v.id) =>
       backups[v.id].level \in {v.level, archives[v.arc].level}

(* The engine deletes an archive only for a deletion of the backup that     *)
(* owns it, and that backup's row goes next.                                *)
VictimsOwn ==
  \A d \in Deleters : \A v \in deleting[d] :
    v.arc # None => /\ archives[v.arc].owner = v.id
                    /\ v.arc <= lastArchive
DeletedWithOwner ==
  \A a \in Archive : archives[a].row = "deleted" /\ Exists(archives[a].owner) =>
    archives[a].owner \in BeingDeleted

RestInv == EngineWhole /\ WorkerLevel /\ LevelsAgree /\ VictimsOwn /\ DeletedWithOwner

(* While nobody deletes, only a full backup has no parent.                  *)
OnlyFullHaveNoParent ==
  /\ \A b \in Backup :
       /\ backups[b].parent = None => backups[b].level = 0
       /\ backups[b].eng # None /\ backups[b].parent = None =>
            archives[backups[b].eng].level = 0
  /\ worker.pc = "post" /\ worker.want # None => backups[worker.id].parent # None
  /\ worker.pc = "seed" /\ archives[worker.arc].level # 0 => backups[worker.id].parent # None

LEMMA RestInit == Init => RestInv /\ OnlyFullHaveNoParent
<1> SUFFICES ASSUME Init PROVE RestInv /\ OnlyFullHaveNoParent
  OBVIOUS
<1>1. EngineWhole /\ DeletedWithOwner
  BY DEF Init, EngineInit, UnusedArchive, EngineWhole, DeletedWithOwner
<1>2. WorkerLevel /\ LevelsAgree /\ VictimsOwn
  BY DEF Init, IdleWorker, AbsentRow, WorkerLevel, LevelsAgree, VictimsOwn
<1>3. OnlyFullHaveNoParent
  BY DEF Init, IdleWorker, AbsentRow, OnlyFullHaveNoParent
<1> QED BY <1>1, <1>2, <1>3 DEF RestInv

(* A step of the engine keeps EngineWhole and the level of a settled archive.*)
EngineTells ==
  /\ EngineWhole'
  /\ \A a \in Settled : archives'[a].level = archives[a].level
  /\ \A a \in Archive : a <= lastArchive => archives'[a].level \in {0, archives[a].level}
NoDeletion ==
  \A a \in Archive : archives'[a].row = "deleted" =>
    /\ archives[a].row = "deleted"
    /\ archives'[a].owner = archives[a].owner

LEMMA EngineStaysTold ==
  ASSUME EngineWhole, UNCHANGED engineVars, TypeInv, lastBackup' \in Nat, lastBackup <= lastBackup'
  PROVE  EngineTells /\ NoDeletion
<1>1. archives' = archives
  BY DEF engineVars
<1>2. \A a \in Archive : archives[a].row # "unused" => archives[a].owner <= lastBackup'
  <2>1. lastBackup \in Nat /\ \A b \in Backup : b \in Nat
    BY RowTypes
  <2> QED BY <2>1 DEF EngineWhole
<1>3. EngineWhole'
  BY <1>1, <1>2 DEF EngineWhole
<1> QED BY <1>1, <1>3 DEF EngineTells, NoDeletion

LEMMA OneTells ==
  ASSUME TypeInv, EngineWhole, lastBackup' = lastBackup, NEW a \in Archive,
         NEW new \in ArchiveRecord, archives' = [archives EXCEPT ![a] = new],
         new.owner = archives[a].owner,
         new.row = "completed" => new.disk,
         new.row = "running" /\ new.work = "tar" => new.disk,
         new.level = 0 => new.on = None /\ (new.work # "none" => new.want = None),
         new.row # "unused" => archives[a].row # "unused",
         a \in Settled => new.level = archives[a].level,
         new.level \in {0, archives[a].level}
  PROVE  /\ EngineTells
         /\ (new.row = "deleted" => archives[a].row = "deleted") => NoDeletion
<1>1. archives \in [Archive -> ArchiveRecord]
  BY DEF TypeInv, TypeOK, EngineTypeOK
<1>2. archives'[a] = new /\ \A c \in Archive \ {a} : archives'[c] = archives[c]
  BY <1>1
<1>3. EngineWhole'
  BY <1>2 DEF EngineWhole
<1>4. \A c \in Settled : archives'[c].level = archives[c].level
  BY <1>2 DEF Settled
<1> QED BY <1>2, <1>3, <1>4 DEF EngineTells, NoDeletion

LEMMA ArchivingTells ==
  ASSUME TypeInv, EngineWhole, lastBackup' = lastBackup, NEW a \in Archive, Archiving(a)
  PROVE  EngineTells /\ NoDeletion
<1> DEFINE old == archives[a]
           on == IF old.want # None /\ archives[old.want].disk THEN old.want ELSE None
<1>1. /\ old \in ArchiveRecord /\ on \in ArchiveOrNone
      /\ archives \in [Archive -> ArchiveRecord]
      /\ a \in Settled => old.work = "none"
  BY BoundsArePositive DEF TypeInv, TypeOK, EngineTypeOK, ArchiveRecord, Settled
<1>2. /\ old.row = "completed" => old.disk
      /\ old.row = "running" /\ old.work = "tar" => old.disk
      /\ old.level = 0 => old.on = None /\ (old.work # "none" => old.want = None)
  BY DEF EngineWhole
<1>3. CASE ArchiveStart(a)
  <2> DEFINE new == [old EXCEPT !.work = "tar", !.disk = TRUE, !.on = on]
  <2>1. /\ new \in ArchiveRecord /\ new.owner = old.owner /\ new.want = old.want
        /\ new.row = old.row /\ old.work = "starting" /\ new.level = old.level /\ new.disk
        /\ new.on = on
    BY <1>1, <1>3 DEF ArchiveRecord, ArchiveStart
  <2>2. archives' = [archives EXCEPT ![a] = new]
    BY <1>3 DEF ArchiveStart
  <2>3. new.level = 0 => new.on = None /\ (new.work # "none" => new.want = None)
    BY <1>2, <2>1
  <2> HIDE DEF new
  <2> QED BY <1>1, <2>1, <2>2, <2>3, OneTells
<1>4. CASE ArchiveDone(a)
  <2> DEFINE new == [old EXCEPT !.work = "none", !.row = RecordedAs(a, "completed")]
  <2>1. /\ new \in ArchiveRecord /\ new.owner = old.owner /\ new.want = old.want
        /\ new.row = RecordedAs(a, "completed") /\ new.work = "none" /\ old.work = "tar"
        /\ new.level = old.level /\ new.disk = old.disk /\ new.on = old.on
    BY <1>1, <1>4 DEF ArchiveRecord, ArchiveDone, RecordedAs
  <2>2. archives' = [archives EXCEPT ![a] = new]
    BY <1>4 DEF ArchiveDone
  <2>3. new.row = "completed" => new.disk
    BY <1>2, <2>1 DEF RecordedAs
  <2>4. /\ new.row # "unused" => old.row # "unused"
        /\ new.row = "deleted" => old.row = "deleted"
    BY <2>1 DEF RecordedAs
  <2> HIDE DEF new
  <2> QED BY <1>1, <1>2, <2>1, <2>2, <2>3, <2>4, OneTells
<1>5. CASE ArchiveFallback(a)
  <2> DEFINE new == [old EXCEPT !.work = "none", !.row = RecordedAs(a, "completed"),
                                !.level = IF old.row = "running" THEN 0 ELSE @,
                                !.on = None, !.disk = TRUE]
  <2>1. /\ new \in ArchiveRecord /\ new.owner = old.owner /\ new.want = old.want
        /\ new.row = RecordedAs(a, "completed") /\ new.work = "none" /\ old.work # "none"
        /\ new.disk /\ new.on = None /\ new.level \in {0, old.level}
    BY <1>1, <1>5, BoundsArePositive DEF ArchiveRecord, ArchiveFallback, RecordedAs
  <2>2. archives' = [archives EXCEPT ![a] = new]
    BY <1>5 DEF ArchiveFallback
  <2> HIDE DEF new
  <2> QED BY <1>1, <2>1, <2>2, OneTells DEF RecordedAs
<1>6. CASE ArchiveFail(a)
  <2> DEFINE new == [old EXCEPT !.work = "none", !.row = RecordedAs(a, "failed"),
                                !.disk = @ /\ old.row # "running"]
  <2>1. /\ new \in ArchiveRecord /\ new.owner = old.owner /\ new.want = old.want
        /\ new.row = RecordedAs(a, "failed") /\ new.work = "none" /\ old.work # "none"
        /\ new.level = old.level /\ new.on = old.on
        /\ new.disk <=> (old.disk /\ old.row # "running")
    BY <1>1, <1>6 DEF ArchiveRecord, ArchiveFail, RecordedAs
  <2>2. archives' = [archives EXCEPT ![a] = new]
    BY <1>6 DEF ArchiveFail
  <2>3. new.row = "completed" => new.disk
    BY <1>2, <2>1 DEF RecordedAs
  <2> HIDE DEF new
  <2> QED BY <1>1, <1>2, <2>1, <2>2, <2>3, OneTells DEF RecordedAs
<1> QED BY <1>3, <1>4, <1>5, <1>6 DEF Archiving

LEMMA DeleteTells ==
  ASSUME TypeInv, EngineWhole, lastBackup' = lastBackup, NEW a \in Archive, BackupDelete(a)
  PROVE  /\ EngineTells
         /\ \A c \in Archive : archives'[c].row = "deleted" /\ c # a => archives[c].row = "deleted"
         /\ \A c \in Archive : archives'[c].owner = archives[c].owner
<1> DEFINE new == [archives[a] EXCEPT !.row = "deleted", !.disk = FALSE]
<1>1. archives[a] \in ArchiveRecord /\ archives \in [Archive -> ArchiveRecord]
  BY DEF TypeInv, TypeOK, EngineTypeOK
<1>2. /\ new \in ArchiveRecord /\ new.owner = archives[a].owner /\ new.want = archives[a].want
      /\ new.row = "deleted" /\ ~new.disk /\ new.work = archives[a].work
      /\ new.on = archives[a].on /\ new.level = archives[a].level
  BY <1>1 DEF ArchiveRecord
<1>3. \/ UNCHANGED engineVars
      \/ archives' = [archives EXCEPT ![a] = new] /\ archives[a].row # "unused"
  BY DEF BackupDelete, engineVars
<1>4. CASE UNCHANGED engineVars
  <2>1. lastBackup' \in Nat /\ lastBackup <= lastBackup'
    BY RowTypes
  <2> QED BY <1>4, <2>1, EngineStaysTold DEF engineVars
<1>5. CASE archives' = [archives EXCEPT ![a] = new] /\ archives[a].row # "unused"
  <2>1. archives[a].level = 0 => archives[a].on = None /\ (archives[a].work # "none" => archives[a].want = None)
    BY DEF EngineWhole
  <2> HIDE DEF new
  <2>2. EngineTells
    BY <1>2, <1>5, <2>1, OneTells
  <2>3. archives'[a] = new /\ \A c \in Archive \ {a} : archives'[c] = archives[c]
    BY <1>1, <1>5
  <2> QED BY <1>2, <2>2, <2>3
<1> QED BY <1>3, <1>4, <1>5

LEMMA RestartTells ==
  ASSUME TypeInv, EngineWhole, lastBackup' = lastBackup, EngineRestart
  PROVE  EngineTells /\ NoDeletion
<1>1. ASSUME NEW a \in Archive
      PROVE  /\ archives'[a].work = "none" /\ archives'[a].row = archives[a].row
             /\ archives'[a].disk = archives[a].disk /\ archives'[a].on = archives[a].on
             /\ archives'[a].owner = archives[a].owner /\ archives'[a].level = archives[a].level
  <2>1. archives'[a] = [archives[a] EXCEPT !.work = "none"] /\ archives[a] \in ArchiveRecord
    BY DEF EngineRestart, TypeInv, TypeOK, EngineTypeOK
  <2> QED BY <2>1 DEF ArchiveRecord
<1> QED BY <1>1 DEF EngineTells, NoDeletion, EngineWhole, Settled

LEMMA QueueTells ==
  ASSUME TypeInv, DoneInv, EngineWhole, lastBackup' = lastBackup,
         NEW owner \in Backup, NEW level \in Nat, owner <= lastBackup,
         NEW want \in ArchiveOrNone, BackupQueue(owner, level, want), want # None => level > 0
  PROVE  /\ EngineTells /\ NoDeletion
         /\ archives'[lastArchive + 1].level > 0 => want # None
<1> DEFINE row == [row |-> "running", owner |-> owner,
                   level |-> IF want = None THEN 0 ELSE level, want |-> want,
                   work |-> "starting", on |-> None, disk |-> FALSE]
<1>1. /\ archives \in [Archive -> ArchiveRecord] /\ lastArchive \in Nat /\ EngineClean
      /\ lastArchive + 1 \in Archive
  BY QueueTypes, BoundsArePositive DEF TypeInv, TypeOK, EngineTypeOK, ArchiveOrNone, DoneInv
<1>2. archives' = [archives EXCEPT ![lastArchive + 1] = row]
  BY DEF BackupQueue
<1>3. /\ row.owner = owner /\ row.want = want /\ row.row = "running" /\ row.on = None
      /\ row.work = "starting" /\ row.level = IF want = None THEN 0 ELSE level
  OBVIOUS
<1> HIDE DEF row
<1>4. /\ \A a \in Archive : a # lastArchive + 1 => archives'[a] = archives[a]
      /\ archives'[lastArchive + 1] = row
  BY <1>1, <1>2
<1>5. archives[lastArchive + 1].row = "unused"
  BY <1>1 DEF EngineClean
<1>6. EngineWhole'
  BY <1>3, <1>4 DEF EngineWhole
<1>7. \A a \in Settled : a \in Archive /\ a # lastArchive + 1
  BY <1>5 DEF Settled
<1>8. \A a \in Archive : a <= lastArchive => a # lastArchive + 1
  BY <1>1
<1> QED BY <1>3, <1>4, <1>6, <1>7, <1>8 DEF EngineTells, NoDeletion

LEMMA RestEngineStep ==
  ASSUME AllInv, RestInv, [Next]_vars
  PROVE  EngineTells /\ ((\E d \in Deleters : Purge(d)) \/ NoDeletion)
<1>1. TypeInv /\ DoneInv /\ EngineWhole /\ WorkerLevel /\ LinkInv
  BY DEF AllInv, RestInv
<1>2. lastBackup \in Nat
  BY <1>1, RowTypes
<1>3. ASSUME UNCHANGED engineVars, lastBackup' \in {lastBackup, lastBackup + 1}
      PROVE  EngineTells /\ NoDeletion
  BY <1>1, <1>2, <1>3, EngineStaysTold
<1>4. CASE EngineStep
  BY <1>1, <1>4, ArchivingTells DEF EngineStep, panelVars
<1>5. CASE Restart
  BY <1>1, <1>5, RestartTells DEF Restart
<1>6. CASE JobPost \/ JobPostLost
  <2>1. /\ worker.pc = "post" /\ BackupQueue(worker.id, worker.level, worker.want)
        /\ lastBackup' = lastBackup
    BY <1>6 DEF JobPost, JobPostLost
  <2>2. /\ worker.id \in Backup /\ worker.level \in Nat /\ worker.want \in ArchiveOrNone
        /\ worker.id <= lastBackup /\ (worker.want # None => worker.level > 0)
    BY <1>1, <2>1, RowTypes DEF WorkerState, LinkInv, RowInv, IdsHandedOut, WorkerLevel
  <2> QED BY <1>1, <2>1, <2>2, QueueTells
<1>7. ASSUME NEW d \in Deleters, Purge(d)
      PROVE  EngineTells
  <2>1. PICK v \in deleting[d] :
          \/ v.arc # None /\ BackupDelete(v.arc)
          \/ UNCHANGED engineVars
    BY <1>7 DEF Purge
  <2>2. lastBackup' = lastBackup /\ (v.arc # None => v.arc \in Archive)
    BY <1>1, <1>7, BoundsArePositive DEF TypeInv, TypeOK, Victim, Purge
  <2> QED BY <1>1, <1>3, <2>1, <2>2, DeleteTells
<1>8. CASE \/ Request \/ JobStart \/ JobPostError \/ JobSeed \/ JobPoll \/ JobPollTimeout
           \/ JobFinish \/ WorkerCrash \/ ReconcileOne
           \/ \E b \in Backup : JobFailedHook(b)
           \/ \E reachable \in BOOLEAN : ReconcileList(reachable)
           \/ \E d \in Deleters : DeleteRow(d)
  <2>1. CASE Request
    <3>1. UNCHANGED engineVars /\ lastBackup' \in {lastBackup, lastBackup + 1}
      BY <2>1 DEF Request, StoreFull, StoreIncremental, RunDue, Enqueue, Retry, Destroy, PruneChain
    <3> QED BY <1>3, <3>1
  <2>2. CASE ~Request
    <3>1. UNCHANGED engineVars /\ lastBackup' = lastBackup
      BY <1>8, <2>2
         DEF JobStart, JobPostError, JobSeed, JobPoll, JobPollTimeout, JobFinish, WorkerCrash,
             ReconcileOne, JobFailedHook, ReconcileList, DeleteRow
    <3> QED BY <1>3, <3>1
  <2> QED BY <2>1, <2>2
<1>9. CASE UNCHANGED vars
  BY <1>3, <1>9 DEF vars, panelVars
<1> QED BY <1>4, <1>5, <1>6, <1>7, <1>8, <1>9 DEF Next, Job

(* What a step does to the rows and to the verdicts still to be written.    *)
RowsTell ==
  \A c \in Backup :
    /\ backups'[c].status = "completed" =>
         /\ backups'[c].eng = backups[c].eng
         /\ \/ backups[c].status = "completed" /\ backups'[c].level = backups[c].level
            \/ backups[c].eng \in Settled /\ backups'[c].level = archives[backups[c].eng].level
    /\ c <= lastBackup /\ backups[c].status = "absent" => backups'[c].status = "absent"

VerdictsTell ==
  \A v \in reconcile' : v.says = "completed" /\ Exists(v.id)' =>
    \/ v \in reconcile /\ backups'[v.id].level \in {backups[v.id].level, archives[v.arc].level}
    \/ backups'[v.id].level = v.level

LEMMA LevelsKeep ==
  ASSUME AllInv, RestInv, EngineTells, RowsTell, VerdictsTell
  PROVE  LevelsAgree'
<1>1. TypeInv /\ DoneInv /\ LevelsAgree
  BY DEF AllInv, RestInv
<1>2. ASSUME NEW b \in Backup, backups'[b].status = "completed"
      PROVE  backups'[b].level = archives'[backups'[b].eng].level
  <2>1. backups'[b].eng = backups[b].eng
    BY <1>2 DEF RowsTell
  <2>2. CASE backups[b].status = "completed" /\ backups'[b].level = backups[b].level
    BY <1>1, <2>1, <2>2 DEF DoneInv, RowsDone, LevelsAgree, EngineTells
  <2>3. CASE backups[b].eng \in Settled /\ backups'[b].level = archives[backups[b].eng].level
    BY <2>1, <2>3 DEF EngineTells
  <2> QED BY <1>2, <2>2, <2>3 DEF RowsTell
<1>3. ASSUME NEW v \in reconcile', v.says = "completed", Exists(v.id)'
      PROVE  backups'[v.id].level \in {v.level, archives'[v.arc].level}
  <2>1. CASE v \in reconcile /\ backups'[v.id].level \in {backups[v.id].level, archives[v.arc].level}
    <3>1. /\ v.id \in Backup /\ v.id <= lastBackup /\ v.arc \in Settled
          /\ backups'[v.id].status # "absent"
      BY <1>1, <1>3, <2>1, RowTypes DEF DoneInv, VerdictsDone, VerdictDone, Exists
    <3>2. Exists(v.id)
      BY <1>1, <3>1, RowTypes DEF RowsTell
    <3>3. backups[v.id].level \in {v.level, archives[v.arc].level}
      BY <1>1, <1>3, <2>1, <3>2 DEF LevelsAgree
    <3>4. archives'[v.arc].level = archives[v.arc].level
      BY <3>1 DEF EngineTells
    <3> QED BY <2>1, <3>3, <3>4
  <2> QED BY <1>3, <2>1 DEF VerdictsTell
<1> QED BY <1>2, <1>3 DEF LevelsAgree

(* Archives are deleted for a backup that is being deleted, and it stays so *)
(* until its row goes.                                                      *)
DeletionsTell ==
  /\ \A a \in Archive : archives'[a].row = "deleted" =>
       /\ archives'[a].owner = archives[a].owner
       /\ archives[a].row = "deleted" \/ archives[a].owner \in BeingDeleted'
  /\ \A b \in BeingDeleted : b \in BeingDeleted' \/ backups'[b].status = "absent"

LEMMA DeletedKeep ==
  ASSUME AllInv, RestInv, RowsTell, DeletionsTell
  PROVE  DeletedWithOwner'
<1>1. ASSUME NEW a \in Archive, NEW o, archives'[a].row = "deleted", o = archives'[a].owner,
             o # None, backups'[o].status # "absent"
      PROVE  o \in BeingDeleted'
  <2>1. o = archives[a].owner
    BY <1>1 DEF DeletionsTell
  <2>2. CASE archives[a].row = "deleted"
    <3>1. o \in Backup /\ o <= lastBackup
      BY <2>1, <2>2 DEF RestInv, EngineWhole
    <3>2. Exists(o)
      BY <1>1, <3>1, RowTypes DEF RowsTell, AllInv
    <3>3. o \in BeingDeleted
      BY <2>1, <2>2, <3>2 DEF RestInv, DeletedWithOwner
    <3> QED BY <1>1, <3>3 DEF DeletionsTell
  <2>3. CASE archives[a].row # "deleted"
    BY <1>1, <2>1, <2>3 DEF DeletionsTell
  <2> QED BY <2>2, <2>3
<1> QED BY <1>1 DEF DeletedWithOwner, Exists

LEMMA VictimsKeep ==
  ASSUME AllInv, RestInv, EngineMoves, TypeInv',
         \A d \in Deleters : \A v \in deleting'[d] :
           v.arc # None => \/ \E w \in deleting[d] : w.arc = v.arc /\ w.id = v.id
                           \/ v.id \in Backup /\ v.arc = backups[v.id].eng
  PROVE  VictimsOwn'
<1>1. ASSUME NEW d \in Deleters, NEW v \in deleting'[d], v.arc # None
      PROVE  archives'[v.arc].owner = v.id /\ v.arc <= lastArchive'
  <2>1. v.arc \in Archive /\ archives[v.arc].owner = v.id /\ v.arc <= lastArchive
    <3>1. CASE \E w \in deleting[d] : w.arc = v.arc /\ w.id = v.id
      <4>1. PICK w \in deleting[d] : w.arc = v.arc /\ w.id = v.id
        BY <3>1
      <4>2. w \in Victim
        BY DEF AllInv, TypeInv, TypeOK
      <4> QED BY <1>1, <4>1, <4>2, BoundsArePositive DEF RestInv, VictimsOwn, Victim
    <3>2. CASE v.id \in Backup /\ v.arc = backups[v.id].eng
      BY <1>1, <3>2, RowTypes DEF AllInv, DoneInv, RowsDone, SitInv, ArchivesHandedOut
    <3> QED BY <1>1, <3>1, <3>2
  <2>2. lastArchive \in Nat /\ lastArchive' \in Nat /\ v.arc \in Nat
    BY <2>1, RowTypes DEF AllInv, TypeInv, TypeOK, EngineTypeOK, ArchiveOrNone
  <2> QED BY <2>1, <2>2 DEF EngineMoves
<1> QED BY <1>1 DEF VictimsOwn

(* No row is completed and none changes its level.                          *)
LEMMA RowsStayTell ==
  ASSUME AllInv, reconcile' \subseteq reconcile,
         \A c \in Backup :
           /\ backups'[c].status = "completed" => /\ backups[c].status = "completed"
                                                  /\ backups'[c].eng = backups[c].eng
           /\ backups'[c].status # "absent" => /\ backups[c].status # "absent"
                                               /\ backups'[c].level = backups[c].level
  PROVE  RowsTell /\ VerdictsTell
<1>1. RowsTell
  BY DEF RowsTell
<1>2. ASSUME NEW v \in reconcile', v.says = "completed", Exists(v.id)'
      PROVE  v \in reconcile /\ backups'[v.id].level = backups[v.id].level
  <2>1. v \in reconcile /\ v.id \in Backup /\ backups'[v.id].status # "absent"
    BY <1>2, RowTypes DEF AllInv, Exists
  <2> QED BY <2>1
<1> QED BY <1>1, <1>2 DEF VerdictsTell

(* One row is written; when that completes it, with the level of its        *)
(* archive.                                                                 *)
LEMMA WriteTells ==
  ASSUME AllInv, reconcile' \subseteq reconcile, NEW b \in Backup,
         \A c \in Backup : c # b => backups'[c] = backups[c],
         backups'[b].status = "completed" =>
           /\ backups'[b].eng = backups[b].eng /\ backups[b].eng \in Settled
           /\ backups'[b].level = archives[backups[b].eng].level,
         backups[b].status = "absent" => backups'[b].status = "absent",
         \A v \in reconcile' : v.says = "completed" /\ v.id = b /\ Exists(b) =>
           backups'[b].level \in {backups[b].level, archives[v.arc].level}
  PROVE  RowsTell /\ VerdictsTell
<1>1. RowsTell
  BY DEF RowsTell
<1>2. ASSUME NEW v \in reconcile', v.says = "completed", Exists(v.id)'
      PROVE  /\ v \in reconcile
             /\ backups'[v.id].level \in {backups[v.id].level, archives[v.arc].level}
  <2>1. v \in reconcile /\ v.id \in Backup /\ backups'[v.id].status # "absent"
    BY <1>2, RowTypes DEF AllInv, Exists
  <2>2. v.id = b => Exists(b)
    BY <2>1, RowTypes DEF AllInv
  <2> QED BY <1>2, <2>1, <2>2
<1> QED BY <1>1, <1>2 DEF VerdictsTell

LEMMA FailTells ==
  ASSUME AllInv, reconcile' \subseteq reconcile, NEW b \in Backup, SetStatus(b, "failed")
  PROVE  RowsTell /\ VerdictsTell
<1>1. backups[b] \in BackupRow /\ backups \in [Backup -> BackupRow]
  BY RowTypes DEF AllInv, TypeInv, TypeOK
<1>2. PICK row : row = [backups[b] EXCEPT !.status = "failed"]
  OBVIOUS
<1>3. row.status = "failed" /\ row.level = backups[b].level
  BY <1>1, <1>2 DEF BackupRow
<1>4. \/ backups' = [backups EXCEPT ![b] = row] /\ Exists(b)
      \/ backups' = backups
  BY <1>2 DEF SetStatus, SetRow
<1>5. \A c \in Backup :
        /\ backups'[c].status = "completed" => /\ backups[c].status = "completed"
                                               /\ backups'[c].eng = backups[c].eng
        /\ backups'[c].status # "absent" => /\ backups[c].status # "absent"
                                            /\ backups'[c].level = backups[c].level
  BY <1>1, <1>3, <1>4 DEF Exists
<1> QED BY <1>5, RowsStayTell

(* A row whose job is before its seed has no archive, so no verdict         *)
(* completes it.                                                            *)
LEMMA NoVerdictBefore ==
  ASSUME AllInv, NEW b \in Backup, backups[b].eng = None, Exists(b)
  PROVE  \A v \in reconcile : v.id = b => v.says # "completed"
<1>1. \A v \in reconcile : VerdictDone(v) /\ (v.says = "completed" => v.arc # None)
  BY DEF AllInv, DoneInv, VerdictsDone, TypeInv, VerdictOK
<1> QED BY <1>1 DEF VerdictDone

LEMMA SeedTells ==
  ASSUME AllInv, JobSeed
  PROVE  RowsTell /\ VerdictsTell
<1> DEFINE b == worker.id
           sent == archives[worker.arc].level
<1>1. /\ b \in Backup /\ backups[b] \in BackupRow /\ backups \in [Backup -> BackupRow]
      /\ backups[b].eng = None /\ backups[b].status # "completed"
      /\ reconcile' = reconcile
  BY RowTypes, WorkersBackup DEF AllInv, JobSeed, TypeInv, TypeOK
<1>2. PICK row : row = [backups[b] EXCEPT !.eng = worker.arc, !.snap = worker.arc,
                          !.level = IF sent # worker.level THEN sent ELSE @]
  OBVIOUS
<1>3. row.status = backups[b].status
  BY <1>1, <1>2 DEF BackupRow
<1>4. \/ backups' = [backups EXCEPT ![b] = row] /\ Exists(b)
      \/ backups' = backups
  BY <1>2 DEF JobSeed, SetRow
<1>5. /\ \A c \in Backup : c # b => backups'[c] = backups[c]
      /\ backups'[b].status = backups[b].status
  BY <1>1, <1>3, <1>4
<1>6. Exists(b) => \A v \in reconcile' : v.id = b => v.says # "completed"
  BY <1>1, NoVerdictBefore
<1> HIDE DEF b
<1> QED BY <1>1, <1>5, <1>6, WriteTells

LEMMA StartTells ==
  ASSUME AllInv, JobStart
  PROVE  RowsTell /\ VerdictsTell
<1> DEFINE b == Head(queue)
           r == backups[b]
           hasParent == r.level > 0 /\ r.parent # None
           want == IF hasParent THEN ParentSnapshot(b) ELSE None
           noSnapshot == hasParent /\ want = None
<1>1. /\ b \in Backup /\ r \in BackupRow /\ r.eng = None /\ backups \in [Backup -> BackupRow]
      /\ reconcile' = reconcile
  <2>1. queue # <<>> /\ queue \in Seq(Backup)
    BY RowTypes DEF AllInv, JobStart
  <2>2. b \in Backup /\ b = queue[1] /\ 1 \in 1 .. Len(queue)
    BY <2>1
  <2> QED BY <2>2, RowTypes DEF AllInv, SitInv, QueueFresh, JobStart, TypeInv, TypeOK
<1>2. PICK row : row = [r EXCEPT !.status = "running",
                               !.level  = IF noSnapshot THEN 0 ELSE r.level,
                               !.parent = IF noSnapshot THEN None ELSE r.parent,
                               !.base   = IF noSnapshot THEN None ELSE r.base]
  OBVIOUS
<1>3. row.status = "running"
  BY <1>1, <1>2 DEF BackupRow
<1>4. \/ backups' = [backups EXCEPT ![b] = row] /\ r.status # "absent"
      \/ backups' = backups
  BY <1>2 DEF JobStart
<1>5. CASE backups' = backups
  BY <1>1, <1>5, RowsStayTell
<1>6. CASE backups' = [backups EXCEPT ![b] = row] /\ r.status # "absent"
  <2>1. /\ \A c \in Backup : c # b => backups'[c] = backups[c]
        /\ backups'[b].status = "running"
    BY <1>1, <1>3, <1>6
  <2>2. Exists(b) => \A v \in reconcile' : v.id = b => v.says # "completed"
    BY <1>1, NoVerdictBefore
  <2>3. backups[b].status # "absent"
    BY <1>6
  <2> HIDE DEF b
  <2> QED BY <1>1, <2>1, <2>2, <2>3, WriteTells
<1> QED BY <1>4, <1>5, <1>6

(* What both finalizers write.                                              *)
LEMMA CompleteTells ==
  ASSUME AllInv, RestInv, reconcile' \subseteq reconcile,
         NEW b \in Backup, NEW a \in Archive, NEW level \in Nat, NEW snap,
         Exists(b) => backups[b].eng = a, a \in Settled, Exists(b) => level = archives[a].level,
         SetRow(b, [Completed(backups[b], a, level) EXCEPT !.snap = snap])
  PROVE  RowsTell /\ VerdictsTell
<1>1. PICK done : done = Completed(backups[b], a, level)
  OBVIOUS
<1>2. done \in BackupRow /\ done.level = level /\ done.eng = backups[b].eng
  <2>1. backups[b] \in BackupRow
    BY RowTypes DEF AllInv
  <2> QED BY <1>1, <2>1, BoundsArePositive DEF Completed, BackupRow
<1>3. PICK row : row = [done EXCEPT !.snap = snap]
  OBVIOUS
<1>4. row.level = level /\ row.eng = backups[b].eng
  BY <1>2, <1>3 DEF BackupRow
<1>5. \/ backups' = [backups EXCEPT ![b] = row] /\ Exists(b)
      \/ backups' = backups
  BY <1>1, <1>3 DEF SetRow
<1>6. CASE backups' = backups
  BY <1>6, RowsStayTell
<1>7. CASE backups' = [backups EXCEPT ![b] = row] /\ Exists(b)
  <2>1. /\ \A c \in Backup : c # b => backups'[c] = backups[c]
        /\ backups'[b].level = archives[a].level /\ backups'[b].eng = a /\ backups[b].eng = a
    BY <1>4, <1>7 DEF AllInv, TypeInv, TypeOK
  <2>2. \A v \in reconcile' : v.says = "completed" /\ v.id = b => v.arc = a
    <3>1. \A v \in reconcile : VerdictDone(v) /\ (v.says = "completed" => v.arc # None)
      BY DEF AllInv, DoneInv, VerdictsDone, TypeInv, VerdictOK
    <3> QED BY <1>7, <2>1, <3>1 DEF VerdictDone
  <2>3. backups[b].status # "absent"
    BY <1>7 DEF Exists
  <2> QED BY <2>1, <2>2, <2>3, WriteTells
<1> QED BY <1>5, <1>6, <1>7

LEMMA FinishTells ==
  ASSUME AllInv, RestInv, JobFinish
  PROVE  RowsTell /\ VerdictsTell
<1> DEFINE b == worker.id
           a == worker.arc
<1>1. /\ b \in Backup /\ a \in Archive /\ worker.pc = "finish" /\ reconcile' = reconcile
  BY RowTypes DEF AllInv, JobFinish
<1>2. CASE worker.seen = "failed"
  BY <1>1, <1>2, FailTells DEF JobFinish
<1>3. CASE worker.seen # "failed"
  <2>1. a \in Settled
    BY <1>1, <1>3 DEF AllInv, DoneInv, WorkerDone
  <2>2. Exists(b) => backups[b].eng = a
    BY <1>1 DEF AllInv, LinkInv, WorkerHoldsRow
  <2>3. SetRow(b, [Completed(backups[b], a, archives[a].level) EXCEPT !.snap = a])
    BY <1>3 DEF JobFinish
  <2>4. archives[a].level \in Nat
    BY <1>1, RowTypes DEF AllInv, ArchiveRecord
  <2> QED BY <1>1, <2>1, <2>2, <2>3, <2>4, CompleteTells
<1> QED BY <1>2, <1>3

LEMMA ReconcileTells ==
  ASSUME AllInv, RestInv, ReconcileOne
  PROVE  RowsTell /\ VerdictsTell
<1>1. PICK v \in reconcile :
        /\ IF v.says = "completed"
             THEN LET engineLevel == archives[v.arc].level
                      r == backups[v.id]
                  IN /\ SetRow(v.id,
                          [Completed(r, v.arc,
                                     IF engineLevel # v.level THEN engineLevel ELSE r.level)
                             EXCEPT !.snap = IF v.arc # v.snap THEN v.arc ELSE @])
                     /\ reconcile' = IF Exists(v.id) THEN reconcile \ {v} ELSE {}
             ELSE /\ SetStatus(v.id, "failed")
                  /\ reconcile' = reconcile \ {v}
  BY DEF ReconcileOne
<1>2. /\ v.id \in Backup /\ v.id # None /\ v \in Verdict /\ VerdictDone(v)
      /\ v.arc # None => v.arc \in Archive
      /\ v.says = "completed" => v.arc # None
      /\ reconcile' \subseteq reconcile
  BY <1>1, RowTypes DEF AllInv, DoneInv, VerdictsDone, TypeInv, VerdictOK
<1>3. CASE v.says = "completed"
  <2> DEFINE b == v.id
             a == v.arc
             level == IF archives[a].level # v.level THEN archives[a].level
                                                     ELSE backups[b].level
             done == Completed(backups[b], a, level)
             snap == IF a # v.snap THEN a ELSE done.snap
  <2>1. a \in Archive /\ a \in Settled /\ a # None
    BY <1>2, <1>3 DEF VerdictDone
  <2>2. Exists(b) => backups[b].eng = a
    BY <1>2, <2>1 DEF VerdictDone
  <2>3. level \in Nat
    BY <1>2, <2>1, RowTypes DEF AllInv, ArchiveRecord, BackupRow
  <2>4. Exists(b) => level = archives[a].level
    BY <1>3 DEF RestInv, LevelsAgree
  <2>5. SetRow(b, [Completed(backups[b], a, level) EXCEPT !.snap = snap])
    <3>1. [done EXCEPT !.snap = IF a # v.snap THEN a ELSE @] = [done EXCEPT !.snap = snap]
      OBVIOUS
    <3> QED BY <1>1, <1>3, <3>1
  <2> HIDE DEF a, b, level, done, snap
  <2>6. b \in Backup
    BY <1>2 DEF b
  <2> QED BY <1>2, <2>1, <2>2, <2>3, <2>4, <2>5, <2>6, CompleteTells
<1>4. CASE v.says # "completed"
  BY <1>1, <1>2, <1>4, FailTells
<1> QED BY <1>3, <1>4

LEMMA EnqueueTells ==
  ASSUME AllInv, NEW level, NEW p, NEW q, Enqueue(level, p, q)
  PROVE  RowsTell /\ VerdictsTell
<1>1. /\ lastBackup \in Nat /\ backups \in [Backup -> BackupRow] /\ reconcile' = reconcile
      /\ \A v \in reconcile : v.id \in Backup /\ v.id <= lastBackup
  BY RowTypes DEF AllInv, DoneInv, VerdictsDone, TypeInv, TypeOK, Enqueue
<1>2. PICK n \in Backup : n = lastBackup + 1
  BY <1>1, MaxBackupAssumption DEF Enqueue, Backup
<1>3. /\ backups'[n].status = "queued"
      /\ \A c \in Backup : c # n => backups'[c] = backups[c]
  BY <1>1, <1>2 DEF Enqueue
<1>4. RowsTell
  <2>1. \A c \in Backup : c <= lastBackup => c # n
    BY <1>1, <1>2
  <2> QED BY <1>3, <2>1 DEF RowsTell
<1>5. ASSUME NEW v \in reconcile'
      PROVE  v \in reconcile /\ backups'[v.id].level = backups[v.id].level
  <2>1. v \in reconcile /\ v.id \in Backup /\ v.id <= lastBackup /\ v.id \in Nat
    BY <1>1, RowTypes DEF AllInv
  <2>2. v.id # n
    BY <1>1, <1>2, <2>1
  <2> QED BY <1>3, <2>1, <2>2
<1> QED BY <1>4, <1>5 DEF VerdictsTell

LEMMA DeleteRowTells ==
  ASSUME AllInv, NEW d \in Deleters, DeleteRow(d)
  PROVE  RowsTell /\ VerdictsTell
<1>1. PICK v \in deleting[d] :
        backups' = [b \in Backup |-> IF b = v.id THEN AbsentRow
                                    ELSE NullsForeignKeys(backups[b], v.id)]
  BY DEF DeleteRow
<1>2. ASSUME NEW c \in Backup
      PROVE  /\ backups'[c].status = "completed" => /\ backups[c].status = "completed"
                                                    /\ backups'[c].eng = backups[c].eng
             /\ backups'[c].status # "absent" => /\ backups[c].status # "absent"
                                                 /\ backups'[c].level = backups[c].level
  <2>1. CASE c = v.id
    BY <1>1, <2>1 DEF AbsentRow
  <2>2. CASE c # v.id
    <3>1. backups'[c] = NullsForeignKeys(backups[c], v.id) /\ backups[c] \in BackupRow
      BY <1>1, <2>2, RowTypes DEF AllInv
    <3>2. /\ backups'[c].status = backups[c].status /\ backups'[c].eng = backups[c].eng
          /\ backups'[c].level = backups[c].level
      BY <3>1 DEF NullsForeignKeys, BackupRow
    <3> QED BY <3>2
  <2> QED BY <2>1, <2>2
<1>3. reconcile' = reconcile
  BY DEF DeleteRow
<1> QED BY <1>2, <1>3, RowsStayTell

LEMMA ListTells ==
  ASSUME AllInv, NEW reachable \in BOOLEAN, ReconcileList(reachable)
  PROVE  RowsTell /\ VerdictsTell
<1>1. backups' = backups
  BY DEF ReconcileList
<1>2. ASSUME NEW v \in reconcile'
      PROVE  backups'[v.id].level = v.level
  <2>1. PICK b \in {c \in Candidates : Says(c, reachable) # "nothing"} :
          v = [id |-> b, says |-> Says(b, reachable), arc |-> backups[b].eng,
               level |-> backups[b].level, snap |-> backups[b].snap]
    BY DEF ReconcileList
  <2> QED BY <1>1, <2>1
<1>3. RowsTell
  <2>1. \A b \in Backup : backups[b].status = "completed" => backups[b].eng \in Settled
    BY DEF AllInv, DoneInv, RowsDone
  <2> QED BY <1>1, <2>1 DEF RowsTell
<1> QED BY <1>2, <1>3 DEF VerdictsTell

LEMMA RowsAlwaysTell ==
  ASSUME MaxRetry = 0, AllInv, RestInv, [Next]_vars
  PROVE  RowsTell /\ VerdictsTell
<1>1. CASE backups' = backups /\ reconcile' = reconcile
  BY <1>1, RowsStayTell
<1>2. CASE Request
  <2>1. CASE StoreFull \/ StoreIncremental \/ RunDue
    BY <2>1, EnqueueTells DEF StoreFull, StoreIncremental, RunDue
  <2>2. ~ \E b \in Backup : Retry(b)
    BY DEF AllInv, Retry, TypeInv, TypeOK
  <2>3. CASE \E d \in Deleters, b \in Backup : Destroy(d, b) \/ PruneChain(d, b)
    BY <1>1, <2>3 DEF Destroy, PruneChain
  <2> QED BY <1>2, <2>1, <2>2, <2>3 DEF Request
<1>3. CASE Job
  <2>1. CASE JobPost \/ JobPoll \/ JobPollTimeout
    BY <1>1, <2>1 DEF JobPost, JobPoll, JobPollTimeout
  <2>2. CASE JobPostError
    <3>1. worker.id \in Backup
      BY <2>2, RowTypes DEF AllInv, JobPostError
    <3> QED BY <2>2, <3>1, FailTells DEF JobPostError
  <2> QED BY <1>3, <2>1, <2>2, StartTells, SeedTells, FinishTells DEF Job
<1>4. CASE \E b \in Backup : JobFailedHook(b)
  <2>1. PICK b \in Backup : /\ SetStatus(b, "failed") \/ backups' = backups
                            /\ reconcile' = reconcile
    BY <1>4 DEF JobFailedHook
  <2> QED BY <1>1, <2>1, FailTells
<1>5. CASE JobPostLost
  <2>1. worker.id \in Backup /\ reconcile' = reconcile
        /\ (SetStatus(worker.id, "failed") \/ backups' = backups)
    BY <1>5, RowTypes DEF AllInv, JobPostLost
  <2> QED BY <1>1, <2>1, FailTells
<1>6. CASE \E d \in Deleters : Purge(d)
  BY <1>1, <1>6 DEF Purge
<1>7. CASE EngineStep \/ WorkerCrash \/ Restart \/ UNCHANGED vars
  BY <1>1, <1>7 DEF EngineStep, WorkerCrash, Restart, vars, panelVars
<1> QED BY <1>2, <1>3, <1>4, <1>5, <1>6, <1>7, ListTells, ReconcileTells, DeleteRowTells DEF Next

(* The worker asks for an increment with a level above 0.                   *)
LEMMA LevelAsked ==
  ASSUME AllInv, RestInv, [Next]_vars
  PROVE  WorkerLevel'
<1>1. worker \in WorkerState /\ WorkerLevel
  BY RowTypes DEF AllInv, RestInv
<1>2. CASE worker' = worker
  BY <1>1, <1>2 DEF WorkerLevel
<1>3. CASE worker'.pc # "post"
  BY <1>3 DEF WorkerLevel
<1>4. CASE JobStart
  <2> DEFINE b == Head(queue)
             r == backups[b]
             hasParent == r.level > 0 /\ r.parent # None
             want == IF hasParent THEN ParentSnapshot(b) ELSE None
             noSnapshot == hasParent /\ want = None
             level == IF noSnapshot THEN 0 ELSE r.level
  <2>1. \/ worker' = worker
        \/ worker' = [IdleWorker EXCEPT !.pc = "post", !.id = b, !.want = want, !.level = level]
    BY <1>4 DEF JobStart
  <2>2. want # None => level > 0
    OBVIOUS
  <2> HIDE DEF want, level
  <2>3. CASE worker' = [IdleWorker EXCEPT !.pc = "post", !.id = b, !.want = want, !.level = level]
    <3>1. worker'.want = want /\ worker'.level = level
      BY <2>3 DEF IdleWorker
    <3> QED BY <2>2, <3>1 DEF WorkerLevel
  <2> QED BY <1>2, <2>1, <2>3
<1>5. CASE JobPostLost
  <2>1. \/ worker' = [worker EXCEPT !.calls = 1] /\ worker.pc = "post"
        \/ worker' = IdleWorker
    BY <1>5 DEF JobPostLost
  <2>2. CASE worker' = [worker EXCEPT !.calls = 1] /\ worker.pc = "post"
    <3>1. worker'.want = worker.want /\ worker'.level = worker.level
      BY <1>1, <2>2 DEF WorkerState
    <3> QED BY <1>1, <2>2, <3>1 DEF WorkerLevel
  <2> QED BY <1>3, <2>1, <2>2 DEF IdleWorker
<1>6. CASE JobPost \/ JobPostError \/ JobSeed \/ JobPoll \/ JobPollTimeout \/ JobFinish \/ WorkerCrash
  <2>1. CASE JobPost \/ JobSeed \/ JobPoll
    <3>1. worker'.pc \in {"seed", "poll", "finish"}
      BY <1>1, <2>1 DEF JobPost, JobSeed, JobPoll, WorkerState
    <3> QED BY <1>3, <3>1
  <2>2. CASE JobPostError \/ JobPollTimeout \/ JobFinish \/ WorkerCrash
    <3>1. worker'.pc = "idle"
      BY <2>2 DEF JobPostError, JobPollTimeout, JobFinish, WorkerCrash, IdleWorker
    <3> QED BY <1>3, <3>1
  <2> QED BY <1>6, <2>1, <2>2
<1>7. CASE \/ Request \/ ReconcileOne \/ EngineStep \/ Restart \/ UNCHANGED vars
           \/ \E b \in Backup : JobFailedHook(b)
           \/ \E reachable \in BOOLEAN : ReconcileList(reachable)
           \/ \E d \in Deleters : Purge(d) \/ DeleteRow(d)
  <2>1. CASE Request
    BY <1>2, <2>1
       DEF Request, StoreFull, StoreIncremental, RunDue, Enqueue, Retry, Destroy, PruneChain
  <2>2. CASE ~Request
    BY <1>2, <1>7, <2>2
       DEF ReconcileOne, EngineStep, Restart, vars, panelVars, JobFailedHook, ReconcileList,
           Purge, DeleteRow
  <2> QED BY <2>1, <2>2
<1> QED BY <1>4, <1>5, <1>6, <1>7 DEF Next, Job

(* What a step does to the deletions.                                       *)
BeingDeletedBy(b) == \E d \in Deleters : \E v \in deleting[d] : v.id = b

LEMMA BeingDeletedIs ==
  \A b : /\ b \in BeingDeleted <=> BeingDeletedBy(b)
         /\ b \in BeingDeleted' <=> BeingDeletedBy(b)'
BY DEF BeingDeleted, BeingDeletedBy

VictimsTell ==
  \A d \in Deleters : \A v \in deleting'[d] :
    v.arc # None => \/ \E w \in deleting[d] : w.arc = v.arc /\ w.id = v.id
                    \/ v.id \in Backup /\ v.arc = backups[v.id].eng

LEMMA NobodyDeletes ==
  ASSUME NoDeletion, deleting' = deleting
  PROVE  DeletionsTell /\ VictimsTell
<1>1. BeingDeleted' = BeingDeleted
  BY DEF BeingDeleted
<1> QED BY <1>1 DEF NoDeletion, DeletionsTell, VictimsTell

LEMMA DeletionBegins ==
  ASSUME AllInv, NEW d \in Deleters, NEW S \in SUBSET Backup, deleting[d] = {},
         UNCHANGED engineVars, deleting' = [deleting EXCEPT ![d] = {VictimOf(b) : b \in S}]
  PROVE  DeletionsTell /\ VictimsTell
<1>1. /\ deleting'[d] = {VictimOf(b) : b \in S}
      /\ \A e \in Deleters : e # d => deleting'[e] = deleting[e]
  BY DEF AllInv, TypeInv, TypeOK
<1>2. ASSUME NEW b, BeingDeletedBy(b)
      PROVE  BeingDeletedBy(b)'
  BY <1>1, <1>2 DEF BeingDeletedBy
<1>3. \A b \in BeingDeleted : b \in BeingDeleted'
  BY <1>2, BeingDeletedIs
<1>4. VictimsTell
  <2>1. \A v \in deleting'[d] : v.id \in Backup /\ v.arc = backups[v.id].eng
    BY <1>1 DEF VictimOf
  <2> QED BY <1>1, <2>1 DEF VictimsTell
<1> QED BY <1>3, <1>4 DEF engineVars, DeletionsTell

LEMMA PurgeTells ==
  ASSUME AllInv, RestInv, NEW d \in Deleters, Purge(d)
  PROVE  DeletionsTell /\ VictimsTell
<1>1. PICK v \in deleting[d] :
        /\ \/ v.arc # None /\ BackupDelete(v.arc)
           \/ UNCHANGED engineVars
        /\ deleting' = [deleting EXCEPT ![d] = (@ \ {v}) \cup {[v EXCEPT !.purged = TRUE]}]
        /\ lastBackup' = lastBackup
  BY DEF Purge
<1>2. PICK w : w = [v EXCEPT !.purged = TRUE]
  OBVIOUS
<1>3. /\ v \in Victim /\ w.id = v.id /\ w.arc = v.arc
      /\ v.arc # None => v.arc \in Archive
      /\ deleting'[d] = (deleting[d] \ {v}) \cup {w}
      /\ \A e \in Deleters : e # d => deleting'[e] = deleting[e]
  BY <1>1, <1>2, BoundsArePositive DEF AllInv, TypeInv, TypeOK, Victim
<1>4. ASSUME NEW b, BeingDeletedBy(b)
      PROVE  BeingDeletedBy(b)'
  BY <1>3, <1>4 DEF BeingDeletedBy
<1>5. \A b \in BeingDeleted : b \in BeingDeleted'
  BY <1>4, BeingDeletedIs
<1>6. v.id \in BeingDeleted
  BY BeingDeletedIs DEF BeingDeletedBy
<1>7. \A a \in Archive : archives'[a].row = "deleted" =>
        /\ archives'[a].owner = archives[a].owner
        /\ archives[a].row = "deleted" \/ archives[a].owner \in BeingDeleted'
  <2>1. CASE v.arc # None /\ BackupDelete(v.arc)
    <3>1. archives[v.arc].owner = v.id
      BY <2>1 DEF RestInv, VictimsOwn
    <3>2. /\ \A c \in Archive : archives'[c].row = "deleted" /\ c # v.arc => archives[c].row = "deleted"
          /\ \A c \in Archive : archives'[c].owner = archives[c].owner
      BY <1>1, <1>3, <2>1, DeleteTells DEF AllInv, RestInv
    <3> QED BY <1>5, <1>6, <3>1, <3>2
  <2>2. CASE UNCHANGED engineVars
    BY <2>2 DEF engineVars
  <2> QED BY <1>1, <2>1, <2>2
<1>8. VictimsTell
  BY <1>3 DEF VictimsTell
<1> QED BY <1>5, <1>7, <1>8 DEF DeletionsTell

LEMMA DeleteRowDeletes ==
  ASSUME AllInv, NEW d \in Deleters, DeleteRow(d)
  PROVE  DeletionsTell /\ VictimsTell
<1>1. PICK v \in deleting[d] :
        /\ backups' = [b \in Backup |-> IF b = v.id THEN AbsentRow
                                       ELSE NullsForeignKeys(backups[b], v.id)]
        /\ deleting' = [deleting EXCEPT ![d] = @ \ {v}]
        /\ UNCHANGED engineVars
  BY DEF DeleteRow
<1>2. /\ deleting'[d] = deleting[d] \ {v}
      /\ \A e \in Deleters : e # d => deleting'[e] = deleting[e]
      /\ v.id \in Backup
  BY <1>1 DEF AllInv, TypeInv, TypeOK, Victim
<1>3. backups'[v.id].status = "absent"
  BY <1>1, <1>2 DEF AbsentRow
<1>4. ASSUME NEW b, BeingDeletedBy(b), b # v.id
      PROVE  BeingDeletedBy(b)'
  BY <1>2, <1>4 DEF BeingDeletedBy
<1>5. \A b \in BeingDeleted : b \in BeingDeleted' \/ backups'[b].status = "absent"
  BY <1>3, <1>4, BeingDeletedIs
<1>6. VictimsTell
  BY <1>2 DEF VictimsTell
<1> QED BY <1>1, <1>5, <1>6 DEF engineVars, DeletionsTell

LEMMA DeletionsAlwaysTell ==
  ASSUME AllInv, RestInv, NoDeletion \/ (\E d \in Deleters : Purge(d)), [Next]_vars
  PROVE  DeletionsTell /\ VictimsTell
<1>1. CASE \E d \in Deleters : Purge(d)
  BY <1>1, PurgeTells
<1>2. CASE \E d \in Deleters : DeleteRow(d)
  BY <1>2, DeleteRowDeletes
<1>3. ASSUME NEW d \in Deleters, NEW b \in Backup, Destroy(d, b) \/ PruneChain(d, b)
      PROVE  DeletionsTell /\ VictimsTell
  <2>1. PICK S \in SUBSET Backup :
          deleting' = [deleting EXCEPT ![d] = {VictimOf(c) : c \in S}]
    <3>1. CASE Destroy(d, b)
      <4>1. {VictimOf(b)} = {VictimOf(c) : c \in {b}}
        OBVIOUS
      <4> QED BY <3>1, <4>1 DEF Destroy
    <3>2. CASE PruneChain(d, b)
      <4>1. {b} \cup {x \in Backup : Exists(x) /\ backups[x].base = b} \in SUBSET Backup
        OBVIOUS
      <4> QED BY <3>2, <4>1 DEF PruneChain
    <3> QED BY <1>3, <3>1, <3>2
  <2>2. deleting[d] = {} /\ UNCHANGED engineVars
    BY <1>3 DEF Destroy, PruneChain
  <2> QED BY <2>1, <2>2, DeletionBegins
<1>4. CASE \/ StoreFull \/ StoreIncremental \/ RunDue \/ Job \/ ReconcileOne \/ EngineStep
           \/ JobPostLost \/ WorkerCrash \/ Restart \/ UNCHANGED vars
           \/ \E b \in Backup : Retry(b) \/ JobFailedHook(b)
           \/ \E reachable \in BOOLEAN : ReconcileList(reachable)
  <2>1. deleting' = deleting
    <3>1. CASE StoreFull \/ StoreIncremental \/ RunDue
      BY <3>1 DEF StoreFull, StoreIncremental, RunDue, Enqueue
    <3>2. CASE Job
      BY <3>2 DEF Job, JobStart, JobPost, JobPostError, JobSeed, JobPoll, JobPollTimeout, JobFinish
    <3> QED BY <1>4, <3>1, <3>2
         DEF ReconcileOne, EngineStep, JobPostLost, WorkerCrash, Restart, vars, panelVars,
             Retry, JobFailedHook, ReconcileList
  <2>2. (\E d \in Deleters : Purge(d)) \/ NoDeletion
    OBVIOUS
  <2> QED BY <1>1, <2>1, <2>2, NobodyDeletes
<1> QED BY <1>1, <1>2, <1>3, <1>4 DEF Next, Request

LEMMA RestStep ==
  ASSUME MaxRetry = 0, AllInv, AllInv', RestInv, [Next]_vars
  PROVE  RestInv'
<1>1. EngineTells /\ (NoDeletion \/ \E d \in Deleters : Purge(d))
  BY RestEngineStep
<1>2. RowsTell /\ VerdictsTell
  BY RowsAlwaysTell
<1>3. DeletionsTell /\ VictimsTell
  BY <1>1, DeletionsAlwaysTell
<1>4. LevelsAgree' /\ DeletedWithOwner'
  BY <1>1, <1>2, <1>3, LevelsKeep, DeletedKeep
<1>5. VictimsOwn'
  BY <1>3, StepsMoveEngine, VictimsKeep DEF AllInv, VictimsTell
<1>6. EngineWhole' /\ WorkerLevel'
  BY <1>1, LevelAsked DEF EngineTells
<1> QED BY <1>4, <1>5, <1>6 DEF RestInv

-----------------------------------------------------------------------------
(* While nobody deletes                                                     *)

RowFull(b) ==
  backups[b].parent = None =>
    /\ backups[b].level = 0
    /\ backups[b].eng # None => archives[backups[b].eng].level = 0

LEMMA RowStaysFull ==
  ASSUME AllInv, OnlyFullHaveNoParent, EngineTells, NEW c \in Backup,
         backups'[c].parent = backups[c].parent, backups'[c].level = backups[c].level,
         backups'[c].eng = backups[c].eng
  PROVE  RowFull(c)'
<1>1. /\ backups[c].parent = None => backups[c].level = 0
      /\ backups[c].eng # None /\ backups[c].parent = None =>
           archives[backups[c].eng].level = 0
      /\ backups[c].eng # None => backups[c].eng \in Archive /\ backups[c].eng <= lastArchive
  BY RowTypes DEF OnlyFullHaveNoParent, AllInv, SitInv, ArchivesHandedOut
<1>2. backups[c].eng # None => archives'[backups[c].eng].level \in {0, archives[backups[c].eng].level}
  BY <1>1 DEF EngineTells
<1> QED BY <1>1, <1>2 DEF RowFull

RowsStay == \A c \in Backup : /\ backups'[c].parent = backups[c].parent
                              /\ backups'[c].level = backups[c].level
                              /\ backups'[c].eng = backups[c].eng

(* What the worker holds still tells what it told.                          *)
JobFull ==
  /\ worker.pc = "post" /\ worker.want # None => backups[worker.id].parent # None
  /\ worker.pc = "seed" /\ archives[worker.arc].level # 0 => backups[worker.id].parent # None

LEMMA FullParts ==
  /\ OnlyFullHaveNoParent <=> JobFull /\ \A b \in Backup : RowFull(b)
  /\ OnlyFullHaveNoParent' <=> JobFull' /\ \A b \in Backup : RowFull(b)'
BY DEF OnlyFullHaveNoParent, JobFull, RowFull

LEMMA StatusStays ==
  ASSUME TypeInv, NEW b \in Backup, NEW status, SetStatus(b, status)
  PROVE  RowsStay
<1>1. backups[b] \in BackupRow /\ backups \in [Backup -> BackupRow]
  BY RowTypes DEF TypeInv, TypeOK
<1>2. PICK row : row = [backups[b] EXCEPT !.status = status]
  OBVIOUS
<1>3. row.parent = backups[b].parent /\ row.level = backups[b].level /\ row.eng = backups[b].eng
  BY <1>1, <1>2 DEF BackupRow
<1>4. \/ backups' = [backups EXCEPT ![b] = row]
      \/ backups' = backups
  BY <1>2 DEF SetStatus, SetRow
<1> QED BY <1>1, <1>3, <1>4 DEF RowsStay

(* A step that keeps parents, levels and engine ids.                        *)
LEMMA StayingIsFull ==
  ASSUME AllInv, OnlyFullHaveNoParent, EngineTells, RowsStay,
         \/ worker'.pc \notin {"post", "seed"}
         \/ worker' = worker
         \/ worker'.pc = "post" /\ worker.pc = "post" /\ worker'.id = worker.id
            /\ worker'.want = worker.want
  PROVE  OnlyFullHaveNoParent'
<1>1. \A c \in Backup : RowFull(c)'
  BY RowStaysFull DEF RowsStay
<1>2. /\ worker.pc # "idle" => worker.id \in Backup
      /\ worker.pc = "seed" => worker.arc \in Archive /\ worker.arc <= lastArchive
  BY RowTypes DEF AllInv, SitInv, ArchivesHandedOut
<1>3. worker.pc = "seed" => archives'[worker.arc].level \in {0, archives[worker.arc].level}
  BY <1>2 DEF EngineTells
<1>4. JobFull'
  BY <1>2, <1>3, FullParts DEF RowsStay, JobFull
<1> QED BY <1>1, <1>4, FullParts

(* One row is written, and is full afterwards.                              *)
LEMMA OneIsFull ==
  ASSUME AllInv, OnlyFullHaveNoParent, EngineTells, NEW b \in Backup, RowFull(b)',
         \A c \in Backup : c # b => backups'[c] = backups[c],
         JobFull'
  PROVE  OnlyFullHaveNoParent'
<1>1. \A c \in Backup : c # b => RowFull(c)'
  BY RowStaysFull
<1> QED BY <1>1, FullParts

LEMMA EnqueueFull ==
  ASSUME AllInv, OnlyFullHaveNoParent, EngineTells, NEW level, NEW p, NEW q,
         Enqueue(level, p, q), p = None => level = 0
  PROVE  OnlyFullHaveNoParent'
<1>1. /\ lastBackup \in Nat /\ backups \in [Backup -> BackupRow] /\ worker' = worker
      /\ worker.pc # "idle" => worker.id \in Backup /\ worker.id <= lastBackup
      /\ archives' = archives
  BY RowTypes DEF AllInv, LinkInv, RowInv, IdsHandedOut, TypeInv, TypeOK, Enqueue, engineVars
<1>2. PICK n \in Backup : n = lastBackup + 1
  BY <1>1, MaxBackupAssumption DEF Enqueue, Backup
<1>3. /\ backups'[n].parent = p /\ backups'[n].level = level /\ backups'[n].eng = None
      /\ \A c \in Backup : c # n => backups'[c] = backups[c]
  BY <1>1, <1>2 DEF Enqueue
<1>4. RowFull(n)'
  BY <1>3 DEF RowFull
<1>5. worker.pc # "idle" => worker.id # n
  BY <1>1, <1>2, RowTypes DEF AllInv
<1>6. JobFull'
  BY <1>1, <1>3, <1>5, FullParts DEF JobFull
<1> QED BY <1>3, <1>4, <1>6, OneIsFull

LEMMA CreateFull ==
  ASSUME AllInv, OnlyFullHaveNoParent, EngineTells, StoreFull \/ StoreIncremental \/ RunDue
  PROVE  OnlyFullHaveNoParent'
<1>1. \A t \in Tips : t # None
  BY RowTypes DEF AllInv, Tips
<1> QED BY <1>1, EnqueueFull DEF StoreFull, StoreIncremental, RunDue

LEMMA StartFull ==
  ASSUME AllInv, OnlyFullHaveNoParent, EngineTells, JobStart
  PROVE  OnlyFullHaveNoParent'
<1>0. PICK b : b = Head(queue)
  OBVIOUS
<1> DEFINE r == backups[b]
           hasParent == r.level > 0 /\ r.parent # None
           want == IF hasParent THEN ParentSnapshot(b) ELSE None
           noSnapshot == hasParent /\ want = None
           level == IF noSnapshot THEN 0 ELSE r.level
           parent == IF noSnapshot THEN None ELSE r.parent
           base == IF noSnapshot THEN None ELSE r.base
<1>1. /\ b \in Backup /\ r \in BackupRow /\ r.eng = None /\ backups \in [Backup -> BackupRow]
  <2>1. queue # <<>> /\ queue \in Seq(Backup)
    BY RowTypes DEF AllInv, JobStart
  <2>2. b \in Backup /\ b = queue[1] /\ 1 \in 1 .. Len(queue)
    BY <1>0, <2>1
  <2> QED BY <2>2, RowTypes DEF AllInv, SitInv, QueueFresh, TypeInv, TypeOK
<1>2. \/ UNCHANGED <<backups, worker>>
      \/ /\ backups' = [backups EXCEPT ![b] =
               [r EXCEPT !.status = "running", !.level = level, !.parent = parent, !.base = base]]
         /\ worker' = [IdleWorker EXCEPT !.pc = "post", !.id = b, !.want = want, !.level = level]
  BY <1>0 DEF JobStart
<1>3. /\ parent = None => level = 0
      /\ want # None => parent # None
  <2>1. r.parent = None => r.level = 0
    BY <1>1 DEF OnlyFullHaveNoParent
  <2> QED BY <2>1
<1>4. CASE UNCHANGED <<backups, worker>>
  BY <1>4, StayingIsFull DEF RowsStay
<1> HIDE DEF level, parent, base, want, r
<1>5. CASE /\ backups' = [backups EXCEPT ![b] =
               [r EXCEPT !.status = "running", !.level = level, !.parent = parent, !.base = base]]
           /\ worker' = [IdleWorker EXCEPT !.pc = "post", !.id = b, !.want = want, !.level = level]
  <2>1. PICK row : row = [r EXCEPT !.status = "running", !.level = level, !.parent = parent,
                                   !.base = base]
    OBVIOUS
  <2>2. row.level = level /\ row.parent = parent /\ row.eng = None
    BY <1>1, <2>1 DEF BackupRow
  <2>3. backups'[b] = row /\ \A c \in Backup : c # b => backups'[c] = backups[c]
    BY <1>1, <1>5, <2>1
  <2>4. worker'.pc = "post" /\ worker'.id = b /\ worker'.want = want
    BY <1>5 DEF IdleWorker
  <2>5. RowFull(b)'
    BY <1>3, <2>2, <2>3 DEF RowFull
  <2>6. JobFull'
    BY <1>3, <2>2, <2>3, <2>4 DEF JobFull
  <2> QED BY <1>1, <2>3, <2>5, <2>6, OneIsFull
<1> QED BY <1>2, <1>4, <1>5

LEMMA PostFull ==
  ASSUME AllInv, RestInv, OnlyFullHaveNoParent, EngineTells, JobPost
  PROVE  OnlyFullHaveNoParent'
<1>1. /\ worker \in WorkerState /\ worker.pc = "post" /\ worker.id \in Backup
      /\ BackupQueue(worker.id, worker.level, worker.want)
      /\ worker' = [worker EXCEPT !.pc = "seed", !.calls = @ + 1, !.arc = lastArchive + 1]
      /\ UNCHANGED <<backups, lastBackup>>
  BY RowTypes DEF AllInv, JobPost
<1>2. /\ worker.level \in Nat /\ worker.want \in ArchiveOrNone /\ worker.id <= lastBackup
      /\ worker.want # None => worker.level > 0
  BY <1>1 DEF WorkerState, AllInv, LinkInv, RowInv, IdsHandedOut, RestInv, WorkerLevel
<1>3. archives'[lastArchive + 1].level > 0 => worker.want # None
  BY <1>1, <1>2, QueueTells DEF AllInv, RestInv
<1>4. archives'[lastArchive + 1].level \in Nat
  <2>1. lastArchive + 1 \in Archive /\ archives \in [Archive -> ArchiveRecord]
    BY <1>1, <1>2, QueueKeepsWants, BoundsArePositive DEF AllInv, TypeInv, TypeOK, EngineTypeOK
  <2> QED BY <1>1, <1>2, <2>1 DEF BackupQueue
<1>5. worker'.pc = "seed" /\ worker'.id = worker.id /\ worker'.arc = lastArchive + 1
  BY <1>1 DEF WorkerState
<1>6. JobFull'
  BY <1>1, <1>3, <1>4, <1>5, FullParts DEF JobFull
<1>7. \A c \in Backup : RowFull(c)'
  BY <1>1, RowStaysFull
<1> QED BY <1>6, <1>7, FullParts

LEMMA SeedFull ==
  ASSUME AllInv, OnlyFullHaveNoParent, EngineTells, JobSeed
  PROVE  OnlyFullHaveNoParent'
<1>0. PICK b : b = worker.id
  OBVIOUS
<1> DEFINE sent == archives[worker.arc].level
           level == IF sent # worker.level THEN sent ELSE backups[b].level
<1>1. /\ b \in Backup /\ backups[b] \in BackupRow /\ backups \in [Backup -> BackupRow]
      /\ worker.pc = "seed" /\ archives' = archives
  BY <1>0, RowTypes DEF AllInv, JobSeed, TypeInv, TypeOK, engineVars
<1>2. PICK row : row = [backups[b] EXCEPT !.eng = worker.arc, !.snap = worker.arc, !.level = level]
  OBVIOUS
<1>3. row.level = level /\ row.eng = worker.arc /\ row.parent = backups[b].parent
  BY <1>1, <1>2 DEF BackupRow
<1>4. \/ backups' = [backups EXCEPT ![b] = row]
      \/ backups' = backups
  BY <1>0, <1>2 DEF JobSeed, SetRow
<1>5. worker'.pc = "poll"
  BY RowTypes DEF AllInv, JobSeed, WorkerState
<1>6. CASE backups' = backups
  BY <1>5, <1>6, StayingIsFull DEF RowsStay
<1>8. PICK a : a = worker.arc
  OBVIOUS
<1>7. CASE backups' = [backups EXCEPT ![b] = row]
  <2>1. backups[b].parent = None => sent = 0 /\ backups[b].level = 0
    BY <1>0, <1>1 DEF OnlyFullHaveNoParent
  <2>2. backups[b].parent = None => level = 0 /\ sent = 0
    BY <2>1
  <2>3. backups'[b] = row /\ \A c \in Backup : c # b => backups'[c] = backups[c]
    BY <1>1, <1>7
  <2> HIDE DEF level
  <2>4. RowFull(b)'
    BY <1>1, <1>3, <1>8, <2>2, <2>3 DEF RowFull
  <2>5. JobFull'
    BY <1>5 DEF JobFull
  <2> QED BY <1>1, <2>3, <2>4, <2>5, OneIsFull
<1> QED BY <1>4, <1>6, <1>7

LEMMA CompleteFull ==
  ASSUME AllInv, OnlyFullHaveNoParent, EngineTells, archives' = archives,
         worker' = worker \/ worker'.pc = "idle",
         NEW b \in Backup, NEW a \in Archive, NEW level \in Nat, NEW snap,
         Exists(b) => backups[b].eng = a, Exists(b) => level = archives[a].level,
         worker.pc \in {"post", "seed"} => worker.id # b \/ ~Exists(b),
         SetRow(b, [Completed(backups[b], a, level) EXCEPT !.snap = snap])
  PROVE  OnlyFullHaveNoParent'
<1>1. PICK done : done = Completed(backups[b], a, level)
  OBVIOUS
<1>2. /\ done \in BackupRow /\ done.level = level /\ done.eng = backups[b].eng
      /\ done.parent = IF archives[a].level = 0 THEN None ELSE backups[b].parent
  <2>1. backups[b] \in BackupRow
    BY RowTypes DEF AllInv
  <2> QED BY <1>1, <2>1, BoundsArePositive DEF Completed, BackupRow
<1>3. PICK row : row = [done EXCEPT !.snap = snap]
  OBVIOUS
<1>4. row.level = level /\ row.eng = backups[b].eng /\ row.parent = done.parent
  BY <1>2, <1>3 DEF BackupRow
<1>5. \/ backups' = [backups EXCEPT ![b] = row] /\ Exists(b)
      \/ backups' = backups
  BY <1>1, <1>3 DEF SetRow
<1>6. CASE backups' = backups
  BY <1>6, StayingIsFull DEF RowsStay
<1>7. CASE backups' = [backups EXCEPT ![b] = row] /\ Exists(b)
  <2>1. /\ \A c \in Backup : c # b => backups'[c] = backups[c]
        /\ backups'[b] = row
    BY <1>7 DEF AllInv, TypeInv, TypeOK
  <2>2. backups[b].parent = None => archives[a].level = 0
    BY <1>7, RowTypes DEF AllInv, OnlyFullHaveNoParent
  <2>3. RowFull(b)'
    BY <1>2, <1>4, <1>7, <2>1, <2>2 DEF RowFull
  <2>4. JobFull'
    <3>1. worker.pc # "idle" => worker.id \in Backup
      BY RowTypes DEF AllInv
    <3> QED BY <1>7, <2>1, <3>1, FullParts DEF JobFull
  <2> QED BY <2>1, <2>3, <2>4, OneIsFull
<1> QED BY <1>5, <1>6, <1>7

LEMMA ReconcileFull ==
  ASSUME AllInv, RestInv, OnlyFullHaveNoParent, EngineTells, ReconcileOne
  PROVE  OnlyFullHaveNoParent'
<1>1. PICK v \in reconcile :
        /\ IF v.says = "completed"
             THEN LET engineLevel == archives[v.arc].level
                      r == backups[v.id]
                  IN SetRow(v.id,
                          [Completed(r, v.arc,
                                     IF engineLevel # v.level THEN engineLevel ELSE r.level)
                             EXCEPT !.snap = IF v.arc # v.snap THEN v.arc ELSE @])
             ELSE SetStatus(v.id, "failed")
        /\ UNCHANGED <<engineVars, worker>>
  BY DEF ReconcileOne
<1>2. /\ v.id \in Backup /\ v.id # None /\ v \in Verdict /\ VerdictDone(v)
      /\ v.arc # None => v.arc \in Archive
      /\ v.says = "completed" => v.arc # None
      /\ archives' = archives /\ worker' = worker
  BY <1>1, RowTypes DEF AllInv, DoneInv, VerdictsDone, TypeInv, VerdictOK, engineVars
<1>3. CASE v.says = "completed"
  <2> DEFINE b == v.id
             a == v.arc
             level == IF archives[a].level # v.level THEN archives[a].level
                                                     ELSE backups[b].level
             done == Completed(backups[b], a, level)
             snap == IF a # v.snap THEN a ELSE done.snap
  <2>1. a \in Archive /\ a # None
    BY <1>2, <1>3 DEF VerdictDone
  <2>2. Exists(b) => backups[b].eng = a
    BY <1>2, <2>1 DEF VerdictDone
  <2>3. level \in Nat
    BY <1>2, <2>1, RowTypes DEF AllInv, ArchiveRecord, BackupRow
  <2>4. Exists(b) => level = archives[a].level
    BY <1>3 DEF RestInv, LevelsAgree
  <2>5. SetRow(b, [Completed(backups[b], a, level) EXCEPT !.snap = snap])
    <3>1. [done EXCEPT !.snap = IF a # v.snap THEN a ELSE @] = [done EXCEPT !.snap = snap]
      OBVIOUS
    <3> QED BY <1>1, <1>3, <3>1
  <2>6. worker.pc \in {"post", "seed"} => worker.id # b \/ ~Exists(b)
    BY <2>1, <2>2, WorkersBackup DEF AllInv
  <2> HIDE DEF a, b, level, done, snap
  <2>7. b \in Backup
    BY <1>2 DEF b
  <2> QED BY <1>2, <2>1, <2>2, <2>3, <2>4, <2>5, <2>6, <2>7, CompleteFull
<1>4. CASE v.says # "completed"
  BY <1>1, <1>2, <1>4, StatusStays, StayingIsFull DEF AllInv
<1> QED BY <1>3, <1>4

LEMMA FinishFull ==
  ASSUME AllInv, RestInv, OnlyFullHaveNoParent, EngineTells, JobFinish
  PROVE  OnlyFullHaveNoParent'
<1> DEFINE b == worker.id
           a == worker.arc
<1>1. /\ b \in Backup /\ a \in Archive /\ worker.pc = "finish" /\ archives' = archives
      /\ worker'.pc = "idle"
  BY RowTypes DEF AllInv, JobFinish, engineVars, IdleWorker
<1>2. CASE worker.seen = "failed"
  BY <1>1, <1>2, StatusStays, StayingIsFull DEF AllInv, JobFinish
<1>3. CASE worker.seen # "failed"
  <2>1. Exists(b) => backups[b].eng = a
    BY <1>1 DEF AllInv, LinkInv, WorkerHoldsRow
  <2>2. SetRow(b, [Completed(backups[b], a, archives[a].level) EXCEPT !.snap = a])
    BY <1>3 DEF JobFinish
  <2>3. archives[a].level \in Nat
    BY <1>1, RowTypes DEF AllInv, ArchiveRecord
  <2> QED BY <1>1, <2>1, <2>2, <2>3, CompleteFull
<1> QED BY <1>2, <1>3

LEMMA FullStep ==
  ASSUME MaxRetry = 0, Deleters = {}, AllInv, RestInv, OnlyFullHaveNoParent, [Next]_vars
  PROVE  OnlyFullHaveNoParent'
<1>1. EngineTells
  BY RestEngineStep
<1>2. CASE UNCHANGED <<backups, worker>>
  BY <1>1, <1>2, StayingIsFull DEF RowsStay
<1>3. CASE Request
  <2>1. ~ \E b \in Backup : Retry(b)
    BY DEF AllInv, Retry, TypeInv, TypeOK
  <2> QED BY <1>1, <1>3, <2>1, CreateFull DEF Request
<1>4. CASE Job
  <2>1. CASE JobPoll \/ JobPollTimeout
    <3>1. JobPoll => worker'.pc = "finish"
      BY RowTypes DEF AllInv, JobPoll, WorkerState
    <3>2. JobPollTimeout => worker'.pc = "idle"
      BY DEF JobPollTimeout, IdleWorker
    <3>3. backups' = backups /\ worker'.pc \notin {"post", "seed"}
      BY <2>1, <3>1, <3>2 DEF JobPoll, JobPollTimeout
    <3> QED BY <1>1, <3>3, StayingIsFull DEF RowsStay
  <2>2. CASE JobPostError
    <3>1. worker.id \in Backup /\ worker'.pc = "idle" /\ SetStatus(worker.id, "failed")
      BY <2>2, RowTypes DEF AllInv, JobPostError, IdleWorker
    <3> QED BY <1>1, <3>1, StatusStays, StayingIsFull DEF AllInv
  <2> QED BY <1>1, <1>4, <2>1, <2>2, StartFull, PostFull, SeedFull, FinishFull DEF Job
<1>5. CASE \E b \in Backup : JobFailedHook(b)
  <2>1. PICK b \in Backup : /\ SetStatus(b, "failed") \/ backups' = backups
                            /\ worker' = worker
    BY <1>5 DEF JobFailedHook
  <2> QED BY <1>1, <1>2, <2>1, StatusStays, StayingIsFull DEF AllInv
<1>6. CASE JobPostLost
  <2>1. CASE worker' = [worker EXCEPT !.calls = 1] /\ UNCHANGED backups
    <3>1. worker'.pc = "post" /\ worker.pc = "post" /\ worker'.id = worker.id
          /\ worker'.want = worker.want
      BY <1>6, <2>1, RowTypes DEF AllInv, JobPostLost, WorkerState
    <3> QED BY <1>1, <2>1, <3>1, StayingIsFull DEF RowsStay
  <2>2. CASE worker' = IdleWorker /\ SetStatus(worker.id, "failed")
    <3>1. worker.id \in Backup /\ worker'.pc = "idle"
      BY <1>6, <2>2, RowTypes DEF AllInv, JobPostLost, IdleWorker
    <3> QED BY <1>1, <2>2, <3>1, StatusStays, StayingIsFull DEF AllInv
  <2> QED BY <1>6, <2>1, <2>2 DEF JobPostLost
<1>7. CASE WorkerCrash
  BY <1>1, <1>7, StayingIsFull DEF WorkerCrash, RowsStay, IdleWorker
<1>8. CASE \E reachable \in BOOLEAN : ReconcileList(reachable)
  BY <1>2, <1>8 DEF ReconcileList
<1>9. CASE EngineStep \/ Restart \/ UNCHANGED vars
  BY <1>2, <1>9 DEF EngineStep, Restart, vars, panelVars
<1> QED BY <1>1, <1>3, <1>4, <1>5, <1>6, <1>7, <1>8, <1>9, ReconcileFull DEF Next

-----------------------------------------------------------------------------
(* The walk: parents are older, so restoreChain is there                    *)

LEMMA LeastNumber ==
  ASSUME NEW T \in SUBSET Nat, T # {}
  PROVE  \E x \in T : \A y \in T : x <= y
<1> DEFINE R == {p \in Nat \X Nat : p[1] < p[2]}
<1>1. IsWellFoundedOn(R, Nat)
  <2>1. R = OpToRel(<, Nat)
    BY DEF OpToRel
  <2> QED BY <2>1, NatLessThanWellFounded
<1>2. PICK x \in T : \A y \in T : <<y, x>> \notin R
  <2> HIDE DEF R
  <2> QED BY <1>1, WFMin
<1>3. ASSUME NEW y \in T PROVE x <= y
  <2>1. <<y, x>> \notin R /\ x \in Nat /\ y \in Nat
    BY <1>2
  <2> QED BY <2>1
<1> QED BY <1>3

WalkTo(f, n) ==
  \A b \in Backup : b <= n =>
    f[b] = {b} \cup IF backups[b].parent = None THEN {} ELSE f[backups[b].parent]

LEMMA WalkIsThere ==
  ASSUME AllInv, NEW n \in Nat
  PROVE  \E f \in [Backup -> SUBSET Backup] : WalkTo(f, n)
<1> DEFINE T == {m \in Nat : ~ \E f \in [Backup -> SUBSET Backup] : WalkTo(f, m)}
<1>1. SUFFICES ASSUME T # {} PROVE FALSE
  OBVIOUS
<1>2. PICK m \in T : \A y \in T : m <= y
  BY <1>1, LeastNumber
<1>3. \A b \in Backup : /\ b \in Nat /\ b >= 1
                        /\ backups[b].parent # None =>
                             backups[b].parent \in Backup /\ backups[b].parent < b
  BY RowTypes DEF AllInv, LinkInv, RowInv, ChainAcyclic, Backup
<1>4. m # 0
  <2>1. WalkTo([b \in Backup |-> {}], 0)
    BY <1>3 DEF WalkTo
  <2> QED BY <2>1
<1>5. m - 1 \in Nat /\ m - 1 \notin T
  BY <1>2, <1>4
<1>6. PICK f \in [Backup -> SUBSET Backup] : WalkTo(f, m - 1)
  BY <1>5
<1> DEFINE up(b) == {b} \cup IF backups[b].parent = None THEN {} ELSE f[backups[b].parent]
           g == [b \in Backup |-> IF b = m THEN up(b) ELSE f[b]]
<1>7. g \in [Backup -> SUBSET Backup]
  BY <1>3
<1>8. ASSUME NEW b \in Backup, b <= m
      PROVE  g[b] = {b} \cup IF backups[b].parent = None THEN {} ELSE g[backups[b].parent]
  <2>1. backups[b].parent # None => g[backups[b].parent] = f[backups[b].parent]
    BY <1>2, <1>3, <1>8
  <2>2. CASE b = m
    BY <2>1, <2>2
  <2>3. CASE b # m
    <3>1. b <= m - 1
      BY <1>2, <1>3, <1>8, <2>3
    <3>2. f[b] = up(b)
      BY <1>6, <3>1 DEF WalkTo
    <3> QED BY <2>1, <2>3, <3>2
  <2> QED BY <2>2, <2>3
<1>9. WalkTo(g, m)
  BY <1>8 DEF WalkTo
<1> HIDE DEF g
<1> QED BY <1>2, <1>7, <1>9

LEMMA ChainUnfolds ==
  ASSUME AllInv, NEW b \in Backup
  PROVE  restoreChain[b] =
           {b} \cup IF backups[b].parent = None THEN {} ELSE restoreChain[backups[b].parent]
<1> DEFINE Is(f) == f = [c \in Backup |->
             {c} \cup IF backups[c].parent = None THEN {} ELSE f[backups[c].parent]]
<1>1. PICK f \in [Backup -> SUBSET Backup] : WalkTo(f, MaxBackup)
  BY WalkIsThere, MaxBackupAssumption
<1>2. \A c \in Backup : c <= MaxBackup
  BY MaxBackupAssumption DEF Backup
<1>3. Is(f)
  BY <1>1, <1>2 DEF WalkTo
<1>4. restoreChain = CHOOSE h : Is(h)
  BY DEF restoreChain
<1>5. Is(restoreChain)
  BY <1>3, <1>4
<1> QED BY <1>5

(* A parent is completed, so every row of the walk is.                      *)
LEMMA ChainIsDone ==
  ASSUME AllInv, NEW b \in Backup
  PROVE  \A k \in restoreChain[b] : k \in Backup /\ (k = b \/ backups[k].status = "completed")
<1> DEFINE Done(c) == \A k \in restoreChain[c] :
                        k \in Backup /\ (k = c \/ backups[k].status = "completed")
           T == {c \in Backup : ~Done(c)}
<1>1. SUFFICES ASSUME T # {} PROVE FALSE
  OBVIOUS
<1>2. T \in SUBSET Nat
  BY RowTypes DEF AllInv
<1>3. PICK c \in T : \A y \in T : c <= y
  BY <1>1, <1>2, LeastNumber
<1> DEFINE p == backups[c].parent
<1>4. /\ c \in Backup /\ c \in Nat
      /\ p # None => p \in Backup /\ p < c /\ p \in Nat /\ backups[p].status = "completed"
  BY RowTypes DEF AllInv, LinkInv, RowInv, ChainAcyclic, DoneInv, RowsDone
<1>5. restoreChain[c] = {c} \cup IF p = None THEN {} ELSE restoreChain[p]
  BY <1>4, ChainUnfolds
<1>6. p # None => Done(p)
  <2>1. p # None => p \notin T
    BY <1>3, <1>4
  <2> QED BY <1>4, <2>1
<1>7. Done(c)
  BY <1>4, <1>5, <1>6
<1> QED BY <1>7

(* A completed backup nobody deletes still has its archive.                 *)
LEMMA KeptIsReplayable ==
  ASSUME AllInv, RestInv, NEW k \in Backup, backups[k].status = "completed",
         k \notin BeingDeleted
  PROVE  Replayable(k)
<1> DEFINE a == backups[k].eng
<1>1. /\ Exists(k) /\ a # None /\ a \in Archive /\ a \in Settled /\ archives[a].owner = k
  BY RowTypes DEF AllInv, DoneInv, RowsDone
<1>2. archives[a].row # "deleted"
  BY <1>1 DEF RestInv, DeletedWithOwner
<1>3. archives[a].row = "completed"
  BY <1>1, <1>2 DEF Settled
<1>4. archives[a].disk
  BY <1>1, <1>3 DEF RestInv, EngineWhole
<1> QED BY <1>1, <1>3, <1>4 DEF Replayable

LEMMA IntactIsRestorable ==
  ASSUME AllInv, RestInv, NEW b \in Backup, backups[b].status = "completed",
         ChainIntact(b), ~ChainBeingDeleted(b)
  PROVE  Restorable(b)
<1> SUFFICES ASSUME NEW k \in restoreChain[b]
             PROVE  Replayable(k) /\ SitsOn(k, backups[k].parent)
  BY DEF Restorable
<1>1. k \in Backup /\ backups[k].status = "completed" /\ k \notin BeingDeleted
  BY ChainIsDone DEF ChainBeingDeleted
<1>2. Replayable(k)
  BY <1>1, KeptIsReplayable
<1> DEFINE a == backups[k].eng
<1>3. a # None /\ a \in Archive
  BY <1>1, RowTypes DEF AllInv, DoneInv, RowsDone
<1>4. backups[k].parent # None => SitsOn(k, backups[k].parent)
  BY <1>1, <1>3 DEF AllInv, SitInv, WantsParent, RightWant, MadeOnWanted, SitsOn
<1>5. ASSUME backups[k].parent = None
      PROVE  SitsOn(k, backups[k].parent)
  <2>1. archives[a].level = 0
    BY <1>1, <1>5 DEF ChainIntact, RestInv, LevelsAgree
  <2>2. archives[a].on = None
    BY <1>3, <2>1 DEF RestInv, EngineWhole
  <2> QED BY <2>2 DEF SitsOn
<1> QED BY <1>2, <1>4, <1>5

LEMMA RestInvariant ==
  ASSUME MaxRetry = 0
  PROVE  Spec => []RestInv
<1>1. AllInv /\ AllInv' /\ RestInv /\ [Next]_vars => RestInv'
  BY RestStep
<1> QED BY <1>1, RestInit, AllInvariant, PTL DEF Spec

(* While nothing is retried, a completed backup whose parent pointers lead  *)
(* to a full backup, and of whose chain nothing is being deleted, can be    *)
(* restored: every archive of the walk is there and sits on the one before  *)
(* it, whatever was deleted, pruned, lost or restarted beside it.           *)
THEOREM IntactChainsAreRestorable ==
  ASSUME MaxRetry = 0
  PROVE  Spec => []IntactChainIsRestorable
<1>1. AllInv /\ RestInv => IntactChainIsRestorable
  BY IntactIsRestorable DEF IntactChainIsRestorable
<1> QED BY <1>1, AllInvariant, RestInvariant, PTL

(* While nothing is retried and nobody deletes, every completed backup can  *)
(* be restored.  With a deleter it does not hold: an increment can be begun *)
(* between the count of the dependents and the deletion of its base.        *)
THEOREM CompletedBackupsAreRestorable ==
  ASSUME MaxRetry = 0, Deleters = {}
  PROVE  Spec => []CompletedIsRestorable
<1>1. AllInv /\ RestInv /\ OnlyFullHaveNoParent => CompletedIsRestorable
  <2> SUFFICES ASSUME AllInv, RestInv, OnlyFullHaveNoParent, NEW b \in Backup,
                      backups[b].status = "completed", ~ChainBeingDeleted(b)
               PROVE  Restorable(b)
    BY DEF CompletedIsRestorable
  <2>1. ChainIntact(b)
    BY ChainIsDone DEF ChainIntact, OnlyFullHaveNoParent
  <2> QED BY <2>1, IntactIsRestorable
<1>2. AllInv /\ RestInv /\ OnlyFullHaveNoParent /\ [Next]_vars => OnlyFullHaveNoParent'
  BY FullStep
<1> QED BY <1>1, <1>2, RestInit, AllInvariant, RestInvariant, PTL DEF Spec
=============================================================================
