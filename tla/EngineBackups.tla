--------------------------- MODULE EngineBackups ---------------------------
(***************************************************************************)
(* The engine's side of a site backup (engine/internal/panelmirror/store.go *)
(* and engine/internal/backup/archive.go): the rows of backups.json, the    *)
(* archive and snapshot files below backup-files/, and one goroutine per    *)
(* archive that is being made.  Every access to backups.json is under one   *)
(* mutex, so a row change is one step; the goroutine takes the mutex only   *)
(* to record its result, so tar runs beside every other operation.          *)
(*                                                                          *)
(* An archive number stands for the engine id bk_<nanoseconds> and for the  *)
(* two paths derived from it.  No id is ever used twice.                    *)
(***************************************************************************)
EXTENDS Naturals

CONSTANTS
  MaxArchive,   \* bound: archives the engine is ever asked for
  MaxBackup     \* bound: rows the panel ever creates (the ids it sends)

ASSUME MaxArchiveAssumption == MaxArchive \in Nat
ASSUME MaxBackupAssumption  == MaxBackup \in Nat

VARIABLES
  archives,     \* archives[a]: the row, the goroutine and the files of id a
  lastArchive   \* the newest id handed out

engineVars == <<archives, lastArchive>>

None      == 0
Archive   == 1 .. MaxArchive
ArchiveOrNone == 0 .. MaxArchive
Backup    == 1 .. MaxBackup
BackupOrNone  == 0 .. MaxBackup

(* row:   the entry of backups.json ("unused" before, "deleted" after).     *)
(* owner: panel_backup_id.   level: the recorded level.                     *)
(* want:  the archive whose .snar path came as parent_snapshot.             *)
(* work:  the goroutine: not there, about to run tar, running tar.          *)
(* on:    what the archive's content is relative to (None: a full archive). *)
(* disk:  whether the .snar file exists and, when the row is completed, the *)
(*        archive too (nobody reads the archive of any other row).          *)
ArchiveRecord ==
  [row   : {"unused", "running", "completed", "failed", "deleted"},
   owner : BackupOrNone,
   level : Nat,
   want  : ArchiveOrNone,
   work  : {"none", "starting", "tar"},
   on    : ArchiveOrNone,
   disk  : BOOLEAN]

UnusedArchive ==
  [row |-> "unused", owner |-> None, level |-> 0, want |-> None,
   work |-> "none", on |-> None, disk |-> FALSE]

EngineTypeOK ==
  /\ archives \in [Archive -> ArchiveRecord]
  /\ lastArchive \in ArchiveOrNone

EngineInit ==
  /\ archives = [a \in Archive |-> UnusedArchive]
  /\ lastArchive = 0

-----------------------------------------------------------------------------
(* BackupQueue: without a parent snapshot the level falls to 0; the row is  *)
(* stored as running and the goroutine is started.                          *)
BackupQueue(owner, level, want) ==
  /\ lastArchive < MaxArchive
  /\ lastArchive' = lastArchive + 1
  /\ archives' = [archives EXCEPT ![lastArchive + 1] =
        [row   |-> "running",
         owner |-> owner,
         level |-> IF want = None THEN 0 ELSE level,
         want  |-> want,
         work  |-> "starting",
         on    |-> None,
         disk  |-> FALSE]]

(* ArchiveDomainIncremental up to the start of tar: the parent snapshot is  *)
(* copied when its file is there; when it is not, tar starts from nothing   *)
(* and the archive is a full one although the level stays above 0.          *)
ArchiveStart(a) ==
  /\ archives[a].work = "starting"
  /\ archives' = [archives EXCEPT
        ![a].work = "tar",
        ![a].disk = TRUE,
        ![a].on   = IF archives[a].want # None /\ archives[archives[a].want].disk
                      THEN archives[a].want ELSE None]
  /\ UNCHANGED lastArchive

(* The result is recorded only when the row is still in backups.json; a row *)
(* deleted meanwhile is not found by the loop and nothing is written.       *)
RecordedAs(a, result) ==
  IF archives[a].row = "running" THEN result ELSE archives[a].row

ArchiveDone(a) ==
  /\ archives[a].work = "tar"
  /\ archives' = [archives EXCEPT
        ![a].work = "none",
        ![a].row  = RecordedAs(a, "completed")]
  /\ UNCHANGED lastArchive

(* An incremental tar failed and the second, full, attempt succeeded: the   *)
(* files are written anew and the level becomes 0.                          *)
ArchiveFallback(a) ==
  /\ archives[a].work \in {"starting", "tar"}
  /\ archives[a].level > 0
  /\ archives' = [archives EXCEPT
        ![a].work  = "none",
        ![a].row   = RecordedAs(a, "completed"),
        ![a].level = IF archives[a].row = "running" THEN 0 ELSE @,
        ![a].on    = None,
        ![a].disk  = TRUE]
  /\ UNCHANGED lastArchive

(* The files of a failed tar are removed when its row is found; without the *)
(* row the .snar file stays.                                                *)
ArchiveFail(a) ==
  /\ archives[a].work \in {"starting", "tar"}
  /\ archives' = [archives EXCEPT
        ![a].work = "none",
        ![a].row  = RecordedAs(a, "failed"),
        ![a].disk = @ /\ archives[a].row # "running"]
  /\ UNCHANGED lastArchive

(* BackupDelete removes the row, in whatever status it is, and the files    *)
(* that exist at that moment; the goroutine is not told.                    *)
BackupDelete(a) ==
  /\ archives' = IF archives[a].row \in {"unused", "deleted"}
                   THEN archives
                   ELSE [archives EXCEPT ![a].row = "deleted", ![a].disk = FALSE]
  /\ UNCHANGED lastArchive

(* The daemon stops and starts: goroutines are gone, backups.json and the   *)
(* files stay as they are, and nothing at start-up looks at the rows.       *)
EngineRestart ==
  /\ \E a \in Archive : archives[a].work # "none"
  /\ archives' = [a \in Archive |-> [archives[a] EXCEPT !.work = "none"]]
  /\ UNCHANGED lastArchive

Archiving(a) ==
  \/ ArchiveStart(a)
  \/ ArchiveDone(a)
  \/ ArchiveFallback(a)
  \/ ArchiveFail(a)
=============================================================================
