------------------------------ MODULE CronRuns ------------------------------
(***************************************************************************)
(* The executions of one customer cron job: by the scheduler's command, by *)
(* "run now" of the cron page, both through a cache lock; the rows they    *)
(* leave; and the log dialog that polls them while one is running.         *)
(*                                                                         *)
(* A process ends or is timed out (180 s) before its lock expires (600 s); *)
(* only the lock of an executor that was killed expires.                   *)
(***************************************************************************)
EXTENDS Integers, FiniteSets

CONSTANTS
    CrMaxRuns,   \* bound: executions tried
    CrMaxKills   \* bound: executors killed

ASSUME CrBoundsAssumption == CrMaxRuns \in Nat /\ CrMaxKills \in Nat

CrRuns == 1..CrMaxRuns
CrEnds == {"success", "failed", "timeout"}

VARIABLES
    crRows,     \* server: run -> status of its row, "none" before it
    crLast,     \* run tried last
    crLock,     \* run that holds cron_job_run, or 0
    crKilled,   \* runs whose executor was killed
    crTurn,     \* the scheduler has not looked at the job in this minute
    crLoaded,   \* the command's copy says the job ran in this minute, or "none"
    crRanNow,   \* last_run_at is in this minute
    crCommand,  \* run the command waits for, or 0
    crAsked,    \* "run now" under way: [run], run 0 until it is executed
    crBusy,     \* runningId names the job
    crOpen,     \* the log dialog is open
    crLog       \* its cache: [fresh, rows]

crServerVars == <<crRows, crLast, crLock, crKilled, crTurn, crLoaded, crRanNow, crCommand>>
crPageVars == <<crAsked, crBusy, crOpen, crLog>>
crVars == <<crServerVars, crPageVars>>

CrInit ==
    /\ crRows = [r \in CrRuns |-> "none"]
    /\ crLast = 0
    /\ crLock = 0
    /\ crKilled = {}
    /\ crTurn = TRUE
    /\ crLoaded = "none"
    /\ crRanNow = FALSE
    /\ crCommand = 0
    /\ crAsked = {}
    /\ crBusy = FALSE
    /\ crOpen = FALSE
    /\ crLog = [fresh |-> FALSE, rows |-> crRows]

-----------------------------------------------------------------------------
(* The executor.                                                             *)

CrLockKept == crLock
CrLockReleased == 0      \* mutant
CrAfterRefusal == CrLockKept

\* The lock is taken and a row 'running' made, or a row 'failed' says that the
\* run before is not over.
CrExecute ==
    /\ crLast < CrMaxRuns
    /\ crLast' = crLast + 1
    /\ IF crLock = 0
       THEN /\ crLock' = crLast'
            /\ crRows' = [crRows EXCEPT ![crLast'] = "running"]
       ELSE /\ crLock' = CrAfterRefusal
            /\ crRows' = [crRows EXCEPT ![crLast'] = "failed"]
    /\ UNCHANGED crKilled

CrAlive == {r \in CrRuns : crRows[r] = "running"} \ crKilled

\* The process ends, fails or times out; last_run_at is written, the lock freed.
CrFinish(r) ==
    /\ r \in CrAlive
    /\ \E status \in CrEnds : crRows' = [crRows EXCEPT ![r] = status]
    /\ crRanNow' = TRUE
    /\ crLock' = 0
    /\ crCommand' = IF crCommand = r THEN 0 ELSE crCommand
    /\ UNCHANGED <<crLast, crKilled, crTurn, crLoaded, crPageVars>>

\* A deployment or the system kills the executor; its row stays 'running', the
\* command's mutex and the lock expire later.
CrKill(r) ==
    /\ r \in CrAlive /\ Cardinality(crKilled) < CrMaxKills
    /\ crKilled' = crKilled \cup {r}
    /\ UNCHANGED <<crRows, crLast, crLock, crTurn, crLoaded, crRanNow, crCommand, crPageVars>>
CrExpires ==
    /\ crLock \in crKilled
    /\ crLock' = 0
    /\ crCommand' = IF crCommand = crLock THEN 0 ELSE crCommand
    /\ UNCHANGED <<crRows, crLast, crKilled, crTurn, crLoaded, crRanNow, crPageVars>>

-----------------------------------------------------------------------------
(* cron:run-due, once a minute, not beside itself.                           *)

CrMinute ==
    /\ ~crTurn
    /\ crTurn' = TRUE
    /\ crRanNow' = FALSE
    /\ UNCHANGED <<crRows, crLast, crLock, crKilled, crLoaded, crCommand, crPageVars>>
CrLoad ==
    /\ crTurn /\ crCommand = 0 /\ crLoaded = "none"
    /\ crTurn' = FALSE
    /\ crLoaded' = IF crRanNow THEN "ran" ELSE "due"
    /\ UNCHANGED <<crRows, crLast, crLock, crKilled, crRanNow, crCommand, crPageVars>>
\* The loop reaches the job: skipped when it ran in this minute or, jobs before
\* it having taken their time, is no longer due.
CrSkip ==
    /\ crLoaded # "none"
    /\ crLoaded' = "none"
    /\ UNCHANGED <<crRows, crLast, crLock, crKilled, crTurn, crRanNow, crCommand, crPageVars>>
CrDue ==
    /\ crLoaded = "due"
    /\ CrExecute
    /\ crLoaded' = "none"
    /\ crCommand' = IF crRows'[crLast'] = "running" THEN crLast' ELSE 0
    /\ UNCHANGED <<crTurn, crRanNow, crPageVars>>

-----------------------------------------------------------------------------
(* The page: one request at a time while its button is out.                  *)

CrClick ==
    /\ ~crBusy /\ crLast < CrMaxRuns
    /\ crBusy' = TRUE
    /\ crAsked' = crAsked \cup {[run |-> 0]}
    /\ UNCHANGED <<crServerVars, crOpen, crLog>>
CrRunNow(r) ==
    /\ r \in crAsked /\ r.run = 0
    /\ CrExecute
    /\ crAsked' = (crAsked \ {r}) \cup {[run |-> crLast']}
    /\ UNCHANGED <<crTurn, crLoaded, crRanNow, crCommand, crBusy, crOpen, crLog>>
\* Only a success asks for the log anew.
CrAnswered(r) ==
    /\ r \in crAsked /\ r.run # 0 /\ crRows[r.run] \in CrEnds
    /\ crAsked' = crAsked \ {r}
    /\ crBusy' = FALSE
    /\ crLog' = IF crRows[r.run] = "success" THEN [crLog EXCEPT !.fresh = FALSE] ELSE crLog
    /\ UNCHANGED <<crServerVars, crOpen>>
\* The gateway gives up; the executor goes on.
CrLost(r) ==
    /\ r \in crAsked /\ r.run # 0
    /\ crAsked' = crAsked \ {r}
    /\ crBusy' = FALSE
    /\ UNCHANGED <<crServerVars, crOpen, crLog>>

CrToggleLog ==
    /\ crOpen' = ~crOpen
    /\ UNCHANGED <<crServerVars, crAsked, crBusy, crLog>>
CrAges ==
    /\ crLog.fresh
    /\ crLog' = [crLog EXCEPT !.fresh = FALSE]
    /\ UNCHANGED <<crServerVars, crAsked, crBusy, crOpen>>

\* Read when stale on opening or invalidated, and every two seconds while any
\* run on show is running.
CrPolledAny == \E r \in CrRuns : crLog.rows[r] = "running"
CrPolledNewest ==      \* mutant
    \E r \in CrRuns : crLog.rows[r] = "running" /\ \A s \in CrRuns : s > r => crLog.rows[s] = "none"
CrPolled == CrPolledAny
CrRead ==
    /\ crOpen /\ (~crLog.fresh \/ CrPolled)
    /\ crLog' = [fresh |-> TRUE, rows |-> crRows]
    /\ UNCHANGED <<crServerVars, crAsked, crBusy, crOpen>>

-----------------------------------------------------------------------------
CrNext ==
    \/ CrExpires \/ CrMinute \/ CrLoad \/ CrSkip \/ CrDue
    \/ CrClick \/ CrToggleLog \/ CrAges \/ CrRead
    \/ \E r \in CrRuns : CrFinish(r) \/ CrKill(r)
    \/ \E r \in crAsked : CrRunNow(r) \/ CrAnswered(r) \/ CrLost(r)

\* A process ends or is timed out; the window is visible while the dialog is open.
CrFairness ==
    /\ WF_crVars(\E r \in CrRuns : CrFinish(r))
    /\ WF_crVars(CrRead)

CrSpec == CrInit /\ [][CrNext]_crVars /\ CrFairness

-----------------------------------------------------------------------------
\* Whoever starts the job, by schedule or by hand, one execution of it is at
\* work at a time: a run that was refused does not free the lock it was refused
\* for (an orphan of a killed executor is not counted).
OneExecution == \A r \in CrAlive : crLock = r

\* The open dialog shows a run as running whose executor was not killed; it is to
\* be shown over, whatever was refused or run after it.
CrFollowing == crOpen /\ \E r \in CrRuns \ crKilled : crLog.rows[r] = "running"
=============================================================================
