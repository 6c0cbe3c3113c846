--------------------------- MODULE BackupUploads ---------------------------
(***************************************************************************)
(* The copy of one finished backup at its destination, where every upload  *)
(* makes a file of its own (Google Drive): the job that made the backup,   *)
(* the reconciler and a sync request may upload, a request may delete.     *)
(***************************************************************************)
EXTENDS Integers, FiniteSets

CONSTANTS
    UpMaxFiles,  \* bound: uploads begun
    UpMaxFaults  \* bound: processes that die, calls that fail

ASSUME UpBoundsAssumption == UpMaxFiles \in Nat /\ UpMaxFaults \in Nat

VARIABLES
    upStatus,  \* running, syncing, completed, or deleted
    upFile,    \* remote_file_id, or 0
    upFiles,   \* files at the destination
    upMade,    \* uploads begun
    upAt,      \* "job", "reconciler", "request" -> [at, file]
    upJob,     \* the job polls the engine
    upDelete,  \* the deletion: [at, file], the file of the row it loaded
    upFaults,
    upDoubled  \* history: an upload nothing kept from being a second one, or one
               \*   beside the deletion, or a call that failed

upVars == <<upStatus, upFile, upFiles, upMade, upAt, upJob, upDelete, upFaults, upDoubled>>

UpUploaders == {"job", "reconciler", "request"}
UpRest == [at |-> "idle", file |-> 0]

UpInit ==
    /\ upStatus \in {"running", "completed"} /\ upFile = 0 /\ upFiles = {} /\ upMade = 0
    /\ upAt = [u \in UpUploaders |-> UpRest]
    /\ upJob \in BOOLEAN /\ (upJob => upStatus = "running")
    /\ upDelete = UpRest
    /\ upFaults = 0 /\ upDoubled = FALSE

-----------------------------------------------------------------------------
UpThere == upStatus # "deleted"
UpQuiet == upDelete = UpRest /\ \A u \in UpUploaders : upAt[u] = UpRest
UpWrite(status) == upStatus' = IF UpThere THEN status ELSE upStatus

UpBegin(u) ==
    /\ upMade < UpMaxFiles
    /\ upMade' = upMade + 1
    /\ upAt' = [upAt EXCEPT ![u] = [at |-> "uploading", file |-> upMade + 1]]

\* finalizeFromEngineRow: completed, then syncing, and the upload begins,
\* whatever the row has at the destination by now.
UpJobFinalizes ==
    /\ upJob /\ UpThere
    /\ upJob' = FALSE
    /\ UpWrite("syncing")
    /\ UpBegin("job")
    /\ upDoubled' = (upDoubled \/ upFile # 0 \/ ~UpQuiet)
    /\ UNCHANGED <<upFile, upFiles, upDelete, upFaults>>

\* The job gives the poll up, or its worker dies.
UpJobLeaves ==
    /\ upJob
    /\ upJob' = FALSE
    /\ UNCHANGED <<upStatus, upFile, upFiles, upMade, upAt, upDelete, upFaults, upDoubled>>

\* The reconciler lists what is running or syncing; the engine says completed.
UpUnfinished == {"running", "syncing"}
UpRunning == {"running"}      \* mutant
UpListed == UpUnfinished
UpReconcilerLists ==
    /\ upAt["reconciler"] = UpRest /\ upStatus \in UpListed
    /\ upAt' = [upAt EXCEPT !["reconciler"] = [at |-> "listed", file |-> upFile]]
    /\ UNCHANGED <<upStatus, upFile, upFiles, upMade, upJob, upDelete, upFaults, upDoubled>>

\* finalize: completed first; a row that, loaded again, has no copy is synced.
UpCopyLoadedAgain == upFile
UpCopyListed == upAt["reconciler"].file      \* mutant: the row as it was listed
UpCopyKnown == UpCopyLoadedAgain
UpReconcilerFinalizes ==
    /\ upAt["reconciler"].at = "listed"
    /\ IF UpThere /\ UpCopyKnown = 0
       THEN /\ UpWrite("syncing")
            /\ UpBegin("reconciler")
            /\ upDoubled' = (upDoubled \/ \E u \in {"job", "request"} : upAt[u] # UpRest
                             \/ upDelete # UpRest)
       ELSE /\ UpWrite("completed")
            /\ upAt' = [upAt EXCEPT !["reconciler"] = UpRest]
            /\ UNCHANGED <<upMade, upDoubled>>
    /\ UNCHANGED <<upFile, upFiles, upJob, upDelete, upFaults>>

\* A request to sync the backup, in whatever state it is.
UpRequest ==
    /\ UpThere /\ upAt["request"] = UpRest
    /\ UpBegin("request")
    /\ upDoubled' = (upDoubled \/ upFile # 0 \/ ~UpQuiet)
    /\ UNCHANGED <<upStatus, upFile, upFiles, upJob, upDelete, upFaults>>

\* The file is at the destination; the answer comes or gets lost.
UpArrives(u) ==
    /\ upAt[u].at = "uploading"
    /\ upFiles' = upFiles \cup {upAt[u].file}
    /\ \/ /\ upAt' = [upAt EXCEPT ![u].at = "uploaded"]
          /\ UNCHANGED <<upFaults, upDoubled>>
       \/ /\ upFaults < UpMaxFaults /\ upFaults' = upFaults + 1
          /\ upAt' = [upAt EXCEPT ![u].at = "ending"]
          /\ upDoubled' = TRUE
    /\ UNCHANGED <<upStatus, upFile, upMade, upJob, upDelete>>
UpFails(u) ==
    /\ upAt[u].at = "uploading"
    /\ upFaults < UpMaxFaults /\ upFaults' = upFaults + 1
    /\ upAt' = [upAt EXCEPT ![u].at = "ending"]
    /\ UNCHANGED <<upStatus, upFile, upFiles, upMade, upJob, upDelete, upDoubled>>

UpRecords(u) ==
    /\ upAt[u].at = "uploaded"
    /\ upFile' = IF UpThere THEN upAt[u].file ELSE upFile
    /\ upAt' = [upAt EXCEPT ![u].at = "ending"]
    /\ UNCHANGED <<upStatus, upFiles, upMade, upJob, upDelete, upFaults, upDoubled>>

\* Whether it worked or not, the row is completed; a request leaves it alone.
UpEnds(u) ==
    /\ upAt[u].at = "ending"
    /\ IF u = "request" THEN UNCHANGED upStatus ELSE UpWrite("completed")
    /\ upAt' = [upAt EXCEPT ![u] = UpRest]
    /\ UNCHANGED <<upFile, upFiles, upMade, upJob, upDelete, upFaults, upDoubled>>

UpDies(u) ==
    /\ upAt[u] # UpRest
    /\ upFaults < UpMaxFaults /\ upFaults' = upFaults + 1
    /\ upAt' = [upAt EXCEPT ![u] = UpRest]
    /\ upDoubled' = (upDoubled \/ upAt[u].at = "uploaded")
    /\ UNCHANGED <<upStatus, upFile, upFiles, upMade, upJob, upDelete>>

\* destroy: the remote file of the row as it was loaded, then the row.
UpDeleteRead ==
    /\ UpThere /\ upDelete = UpRest
    /\ upDelete' = [at |-> "loaded", file |-> upFile]
    /\ upDoubled' = (upDoubled \/ ~UpQuiet)
    /\ UNCHANGED <<upStatus, upFile, upFiles, upMade, upAt, upJob, upFaults>>
UpPurgedFile == upDelete.file
UpNothing == 0      \* mutant: only the archive of the engine goes
UpPurged == UpPurgedFile
UpPurge ==
    /\ upDelete.at = "loaded"
    /\ upDelete' = [upDelete EXCEPT !.at = "purged"]
    /\ \/ upFiles' = upFiles \ {UpPurged} /\ UNCHANGED <<upFaults, upDoubled>>
       \/ /\ upFaults < UpMaxFaults /\ upFaults' = upFaults + 1
          /\ upDoubled' = TRUE
          /\ UNCHANGED upFiles
    /\ UNCHANGED <<upStatus, upFile, upMade, upAt, upJob>>
UpDeleteRow ==
    /\ upDelete.at = "purged"
    /\ upStatus' = "deleted"
    /\ upDelete' = UpRest
    /\ UNCHANGED <<upFile, upFiles, upMade, upAt, upJob, upFaults, upDoubled>>

-----------------------------------------------------------------------------
UpWorks(u) == UpArrives(u) \/ UpFails(u) \/ UpRecords(u) \/ UpEnds(u)
UpReconciles == UpReconcilerLists \/ UpReconcilerFinalizes

UpNext ==
    \/ UpJobFinalizes \/ UpJobLeaves \/ UpReconciles \/ UpRequest
    \/ UpDeleteRead \/ UpPurge \/ UpDeleteRow
    \/ \E u \in UpUploaders : UpWorks(u) \/ UpDies(u)

\* The reconciler is scheduled every two minutes; uploads end.
UpFairness ==
    /\ WF_upVars(UpReconciles)
    /\ \A u \in UpUploaders : WF_upVars(UpWorks(u))

UpSpec == UpInit /\ [][UpNext]_upVars /\ UpFairness

-----------------------------------------------------------------------------
\* With nothing under way, what is at the destination is what the row names, or
\* nothing once it is deleted: the reconciler uploads no backup again that was
\* uploaded after it had listed it (finalize loads the row again).
UploadsKnown ==
    UpQuiet /\ ~upDoubled => upFiles = (IF UpThere /\ upFile # 0 THEN {upFile} ELSE {})

\* A backup is "syncing": whoever took the upload up and died, the reconciler is
\* to end it.
UpSyncing == upStatus = "syncing" /\ upMade # UpMaxFiles
=============================================================================
