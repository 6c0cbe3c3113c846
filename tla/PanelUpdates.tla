---------------------------- MODULE PanelUpdates ----------------------------
(***************************************************************************)
(* An update of the panel itself: the request, the job that runs in the    *)
(* same process after the answer, the root script it waits for, the flag   *)
(* and the lock file the two leave on disk, the reconciler that every read *)
(* of the status calls, and the card and the dialog that show it all.      *)
(*                                                                         *)
(* One administrator on one page.  The job can be killed while its script  *)
(* goes on; a reboot ends both and leaves the flag, but not /var/run.      *)
(***************************************************************************)
EXTENDS Integers, FiniteSets

CONSTANTS
    PuMaxRuns,    \* bound: updates asked for
    PuMaxFaults   \* bound: killed jobs and reboots

ASSUME PuBoundsAssumption == PuMaxRuns \in Nat /\ PuMaxFaults \in Nat

PuRuns == 1..PuMaxRuns

VARIABLES
    puRows,       \* run -> its status, "none" before the row
    puJob,        \* run -> "none", "due", "waits" for the script, "over" or "dead"
    puScript,     \* run -> "none", "runs", "done", "failed" or "crashed", also
                  \* when it was never begun
    puFlag,       \* the maintenance flag exists
    puLock,       \* run the lock file names, or 0
    puInstalled,  \* the version in .env is the new one
    puFaults,     \* faults so far
    puAsk,        \* the page's request: "none", "sent", or the run it made
    puStatus,     \* the card's cached status: [updating, active, newer]
    puShown,      \* cached status of the active run, or "none"
    puModal       \* the dialog: [run, phase]

puServerVars == <<puRows, puJob, puScript, puFlag, puLock, puInstalled, puFaults>>
puPageVars == <<puAsk, puStatus, puShown, puModal>>
puVars == <<puServerVars, puPageVars>>

PuClosed == [run |-> 0, phase |-> "none"]
PuIsActive(status) == status \in {"queued", "running"}
PuActive(rows) == {r \in PuRuns : PuIsActive(rows[r])}
PuLatest(runs) == IF runs = {} THEN 0 ELSE CHOOSE r \in runs : \A s \in runs : s <= r

PuInit ==
    /\ puRows = [r \in PuRuns |-> "none"]
    /\ puJob = [r \in PuRuns |-> "none"]
    /\ puScript = [r \in PuRuns |-> "none"]
    /\ puFlag = FALSE /\ puLock = 0
    /\ puInstalled = FALSE
    /\ puFaults = 0
    /\ puAsk = "none"
    /\ puStatus = [updating |-> FALSE, active |-> 0, newer |-> TRUE]
    /\ puShown = "none"
    /\ puModal = PuClosed

-----------------------------------------------------------------------------
(* What every status read and every request does first.                      *)

PuByVersion == IF puInstalled THEN "success" ELSE "failed"
PuAssumed == "success"      \* mutant
PuOutcome == PuByVersion

PuLeftOpen(old) == puRows      \* mutant

\* The latest run that is not over is closed when flag and lock are gone and
\* it is old: ten minutes in the queue, 90 seconds since it started.
PuReconciled(old) ==
    LET r == PuLatest(PuActive(puRows)) IN
    IF r = 0 \/ puFlag \/ puLock # 0 \/ ~old THEN puRows
    ELSE [puRows EXCEPT ![r] = IF puRows[r] = "queued" THEN "failed" ELSE PuOutcome]

\* A job is started right after the answer and its script right after the row is
\* "running": what waits ten minutes or 90 seconds for either has died.
PuOld(old) ==
    old => \A r \in PuActive(puRows) :
              /\ puRows[r] = "queued" => puJob[r] = "dead"
              /\ puRows[r] = "running" => ~(puJob[r] = "waits" /\ puScript[r] = "none")

PuUpdating(rows) == puFlag \/ PuActive(rows) # {}
PuByFlag(rows) == puFlag      \* mutant
PuRefused(rows) == PuUpdating(rows)

-----------------------------------------------------------------------------
(* The request.                                                              *)

PuBusy == puStatus.updating \/ puAsk # "none" \/ PuIsActive(puShown)

PuApply ==
    /\ puStatus.newer /\ ~PuBusy
    /\ puAsk' = "sent"
    /\ UNCHANGED <<puServerVars, puStatus, puShown, puModal>>

\* A flag on disk refuses before anything is reconciled.
PuCreate(old) ==
    /\ puAsk = "sent" /\ PuOld(old)
    /\ LET rows == PuReconciled(old)
           new == PuLatest({r \in PuRuns : puRows[r] # "none"}) + 1
       IN \/ /\ ~PuRefused(rows) /\ ~puInstalled /\ new \in PuRuns
             /\ puRows' = [rows EXCEPT ![new] = "queued"]
             /\ puJob' = [puJob EXCEPT ![new] = "due"]
             /\ puAsk' = "none"
             /\ puModal' = [run |-> new, phase |-> "running"]
          \/ /\ PuRefused(rows) \/ puInstalled \/ new \notin PuRuns
             /\ puRows' = rows
             /\ puAsk' = "none"
             /\ UNCHANGED <<puJob, puModal>>
    /\ UNCHANGED <<puScript, puFlag, puLock, puInstalled, puFaults, puStatus, puShown>>

-----------------------------------------------------------------------------
(* The job and its script.                                                   *)

PuJobStart(r) ==
    /\ puJob[r] = "due"
    /\ IF PuIsActive(puRows[r])
       THEN /\ puRows' = [puRows EXCEPT ![r] = "running"]
            /\ puFlag' = TRUE
            /\ puJob' = [puJob EXCEPT ![r] = "waits"]
       ELSE /\ puJob' = [puJob EXCEPT ![r] = "over"]
            /\ UNCHANGED <<puRows, puFlag>>
    /\ UNCHANGED <<puScript, puLock, puInstalled, puFaults, puPageVars>>

\* The trap is set before the lock is looked at: a script that is refused
\* removes the flag and the lock of the one that runs.
PuScriptStart(r) ==
    /\ puJob[r] = "waits" /\ puScript[r] = "none"
    /\ IF puLock # 0 /\ puScript[puLock] = "runs"
       THEN /\ puScript' = [puScript EXCEPT ![r] = "failed"]
            /\ puLock' = 0 /\ puFlag' = FALSE
       ELSE /\ puScript' = [puScript EXCEPT ![r] = "runs"]
            /\ puLock' = r /\ puFlag' = TRUE
    /\ UNCHANGED <<puRows, puJob, puInstalled, puFaults, puPageVars>>

\* It can fail before the version is written, and after.
PuScriptEnd(r) ==
    /\ puScript[r] = "runs"
    /\ \/ puInstalled' = TRUE /\ puScript' = [puScript EXCEPT ![r] = "done"]
       \/ puInstalled' \in {puInstalled, TRUE} /\ puScript' = [puScript EXCEPT ![r] = "failed"]
    /\ puLock' = 0 /\ puFlag' = FALSE
    /\ UNCHANGED <<puRows, puJob, puFaults, puPageVars>>

\* The verdict is saved over whatever the reconciler wrote meanwhile.
PuJobEnd(r) ==
    /\ puJob[r] = "waits" /\ puScript[r] \in {"done", "failed"}
    /\ puFlag' = FALSE
    /\ puRows' = [puRows EXCEPT ![r] = IF puScript[r] = "done" THEN "success" ELSE "failed"]
    /\ puJob' = [puJob EXCEPT ![r] = "over"]
    /\ UNCHANGED <<puScript, puLock, puInstalled, puFaults, puPageVars>>

PuFault == puFaults < PuMaxFaults /\ puFaults' = puFaults + 1

\* A job killed between the flag and its script leaves a flag nobody removes.
PuJobKilled(r) ==
    /\ PuFault
    /\ puJob[r] \in {"due", "waits"}
    /\ puJob' = [puJob EXCEPT ![r] = "dead"]
    /\ puScript' = IF puJob[r] = "waits" /\ puScript[r] = "none"
                   THEN [puScript EXCEPT ![r] = "crashed"] ELSE puScript
    /\ UNCHANGED <<puRows, puFlag, puLock, puInstalled, puPageVars>>

PuReboot ==
    /\ PuFault
    /\ \E r \in PuRuns : puScript[r] = "runs"
    /\ puJob' = [r \in PuRuns |-> IF puJob[r] \in {"due", "waits"} THEN "dead" ELSE puJob[r]]
    /\ puScript' = [r \in PuRuns |-> IF puScript[r] = "runs" THEN "crashed" ELSE puScript[r]]
    /\ puLock' = 0
    /\ UNCHANGED <<puRows, puFlag, puInstalled, puPageVars>>

-----------------------------------------------------------------------------
(* The card and the dialog.                                                  *)

\* The status is polled every minute, every three seconds while updating.
PuRead(old) ==
    /\ PuOld(old)
    /\ puRows' = PuReconciled(old)
    /\ LET active == PuLatest(PuActive(puRows'))
       IN /\ puStatus' = [updating |-> PuUpdating(puRows'), active |-> active,
                          newer |-> ~puInstalled]
          /\ puShown' = IF active = puStatus.active THEN puShown ELSE "none"
    /\ UNCHANGED <<puJob, puScript, puFlag, puLock, puInstalled, puFaults, puAsk, puModal>>

PuReadRun ==
    /\ puStatus.active # 0
    /\ puShown' = puRows[puStatus.active]
    /\ UNCHANGED <<puServerVars, puAsk, puStatus, puModal>>

PuModalPolls ==
    /\ puModal.phase = "running" /\ ~PuIsActive(puRows[puModal.run])
    /\ puModal' = [puModal EXCEPT !.phase = puRows[puModal.run]]
    /\ UNCHANGED <<puServerVars, puAsk, puStatus, puShown>>

\* Only a dialog whose update is over can be closed.
PuClose ==
    /\ puModal.phase \in {"success", "failed"}
    /\ puModal' = PuClosed
    /\ UNCHANGED <<puServerVars, puAsk, puStatus, puShown>>

PuWork(r) == PuJobStart(r) \/ PuScriptStart(r) \/ PuScriptEnd(r) \/ PuJobEnd(r)

PuNext ==
    \/ PuApply
    \/ \E old \in BOOLEAN : PuCreate(old) \/ PuRead(old)
    \/ \E r \in PuRuns : PuWork(r) \/ PuJobKilled(r)
    \/ PuReboot
    \/ PuReadRun
    \/ PuModalPolls
    \/ PuClose

\* The job runs in a live process, the script ends or is stopped after an hour,
\* the request is answered, and the page keeps polling, late enough in the end.
PuFairness ==
    /\ WF_puVars(\E r \in PuRuns : PuWork(r))
    /\ WF_puVars(\E old \in BOOLEAN : PuCreate(old))
    /\ WF_puVars(PuRead(TRUE))
    /\ WF_puVars(PuReadRun)
    /\ WF_puVars(PuModalPolls)

PuSpec == PuInit /\ [][PuNext]_puVars /\ PuFairness

-----------------------------------------------------------------------------
PuTypeOK ==
    /\ puRows \in [PuRuns -> {"none", "queued", "running", "success", "failed"}]
    /\ puLock \in PuRuns \cup {0}
    /\ puModal.phase \in {"none", "running", "success", "failed"}

\* One update at a time: at most one run is not over, and at most one script is
\* at work, although the page may ask again before it has read of the first run.
OneUpdate ==
    /\ Cardinality(PuActive(puRows)) <= 1
    /\ Cardinality({r \in PuRuns : puScript[r] = "runs"}) <= 1

\* A dialog that says the panel was updated is right: the new version is there,
\* whether the job said so or the reconciler concluded it.
UpdateShownIsInstalled == puModal.phase = "success" => puInstalled

\* The card says "updating", or the dialog that cannot be closed before the end
\* is open.
PuShownUpdating == puStatus.updating \/ puModal.phase = "running"

\* That ends, also when the job is killed.
UpdateEnds == PuShownUpdating ~> ~PuShownUpdating

\* A reboot cut a script off, or a killed job never began it: nobody removes the
\* flag then.
PuCutOff == \E r \in PuRuns : puScript[r] = "crashed"
=============================================================================
