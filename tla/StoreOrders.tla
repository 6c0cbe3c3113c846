---------------------------- MODULE StoreOrders ----------------------------
(***************************************************************************)
(* One paid order of the store on its way into the panel: the unique job,  *)
(* the claim by a conditional update, the request that may be answered     *)
(* late or never, the administrator's retry and the command that recovers  *)
(* what got stuck.  Every actor writes through the copy of the row it      *)
(* loaded, and a value the copy already has is not written.                *)
(***************************************************************************)
EXTENDS Integers, FiniteSets

CONSTANTS
    StWorkers,   \* queue workers
    StMaxCalls,  \* bound: requests to the panel
    StMaxAsks,   \* bound: payment callbacks and retries of an administrator
    StMaxFaults  \* bound: workers that die, answers that get lost

ASSUME StBoundsAssumption == StMaxCalls \in Nat /\ StMaxAsks \in Nat /\ StMaxFaults \in Nat

VARIABLES
    stPaid,     \* payment_status = paid
    stStatus,   \* panel_provision_status
    stOld,      \* not written for fifteen minutes
    stQueue,    \* FulfillPanelOrderJob messages waiting
    stLock,     \* the job's unique lock is held
    stWork,     \* worker -> [at, copy, call]
    stRetry,    \* "admin", "cron" -> [at, copy]
    stCalls,    \* request -> none, sent, checked, answered, refused
    stOrders,   \* panel: orders with this store_order_number
    stAsks,
    stFaults,
    stDropped   \* history: the lock refused a dispatch that nothing replaced

stVars == <<stPaid, stStatus, stOld, stQueue, stLock, stWork, stRetry, stCalls, stOrders,
            stAsks, stFaults, stDropped>>
stRow == <<stPaid, stStatus, stOld>>
stJob == <<stQueue, stLock, stDropped>>
stPanel == <<stCalls, stOrders>>

StIdle == [at |-> "idle", copy |-> "pending", call |-> 0]
StResting == [at |-> "idle", copy |-> "pending"]

StInit ==
    /\ stPaid = FALSE /\ stStatus = "pending" /\ stOld = FALSE
    /\ stQueue = 0 /\ stLock = FALSE /\ stDropped = FALSE
    /\ stWork = [w \in StWorkers |-> StIdle]
    /\ stRetry = [a \in {"admin", "cron"} |-> StResting]
    /\ stCalls = [c \in 1..StMaxCalls |-> "none"]
    /\ stOrders = 0 /\ stAsks = 0 /\ stFaults = 0

-----------------------------------------------------------------------------
StClaimable == {"pending", "failed"}
StSet(status) == stStatus' = status /\ stOld' = FALSE /\ UNCHANGED stPaid
\* Eloquent writes only what differs from the copy the row was loaded into.
StSave(copy, status) == IF copy = status THEN UNCHANGED stRow ELSE StSet(status)

StWillClaim == stQueue > 0 \/ \E w \in StWorkers : stWork[w].at = "loaded"

\* dispatchIfNeeded for a row that is paid and has the status given.
StDispatch(status) ==
    IF status \notin StClaimable THEN UNCHANGED stJob
    ELSE /\ stQueue' = IF stLock THEN stQueue ELSE stQueue + 1
         /\ stLock' = TRUE
         /\ stDropped' = (stDropped \/ (stLock /\ ~StWillClaim))

StAsk == stAsks < StMaxAsks /\ stAsks' = stAsks + 1
StFault == stFaults < StMaxFaults /\ stFaults' = stFaults + 1

\* A payment callback, or the administrator's confirmation of a transfer; two
\* that loaded the unpaid row both see it change.
StPay ==
    /\ StAsk
    /\ stPaid' = TRUE
    /\ StDispatch(stStatus)
    /\ UNCHANGED <<stStatus, stOld, stWork, stRetry, stPanel, stFaults>>

\* uniqueFor: the lock goes after five minutes whatever the job does.
StLockExpires ==
    /\ stLock
    /\ stLock' = FALSE
    /\ UNCHANGED <<stRow, stQueue, stDropped, stWork, stRetry, stPanel, stAsks, stFaults>>

-----------------------------------------------------------------------------
(* The job.                                                                  *)
StGo(w, work) == stWork' = [stWork EXCEPT ![w] = work]
StDone(w) == StGo(w, StIdle) /\ stLock' = FALSE

StTake(w) ==
    /\ stWork[w].at = "idle" /\ stQueue > 0
    /\ stQueue' = stQueue - 1
    /\ IF stStatus = "completed"
       THEN StDone(w)
       ELSE StGo(w, [at |-> "loaded", copy |-> stStatus, call |-> 0]) /\ UNCHANGED stLock
    /\ UNCHANGED <<stRow, stDropped, stRetry, stPanel, stAsks, stFaults>>

\* claimForProcessing: the update that finds the row claimable wins.
StMayClaim == stStatus \in StClaimable
StClaim(w) ==
    /\ stWork[w].at = "loaded"
    /\ IF StMayClaim
       THEN StSet("processing") /\ StGo(w, [stWork[w] EXCEPT !.at = "claimed"]) /\ UNCHANGED stLock
       ELSE StDone(w) /\ UNCHANGED stRow
    /\ UNCHANGED <<stQueue, stDropped, stRetry, stPanel, stAsks, stFaults>>

StPost(w) ==
    /\ stWork[w].at = "claimed"
    /\ \E c \in DOMAIN stCalls :
          /\ stCalls[c] = "none" /\ \A d \in 1..(c - 1) : stCalls[d] # "none"
          /\ stCalls' = [stCalls EXCEPT ![c] = "sent"]
          /\ StGo(w, [stWork[w] EXCEPT !.at = "posted", !.call = c])
    /\ UNCHANGED <<stRow, stJob, stRetry, stOrders, stAsks, stFaults>>

StEnds(w, status) ==
    /\ StSave(stWork[w].copy, status)
    /\ StGo(w, [stWork[w] EXCEPT !.at = "ending"])
    /\ UNCHANGED <<stJob, stRetry, stPanel, stAsks>>

StAnswered(w) ==
    /\ stWork[w].at = "posted" /\ stCalls[stWork[w].call] = "answered"
    /\ StEnds(w, "completed")
    /\ UNCHANGED stFaults

\* tryRecoverFromPanelStatus: completed if the panel knows the order.
StKnown == stOrders > 0
StAnyStatus == TRUE      \* mutant: an answer is enough, whatever it says
StFound == StKnown
\* The request failed or timed out, or there is none left to make (bound).
StNoAnswer(w) ==
    /\ \/ /\ stWork[w].at = "posted"
          /\ IF stCalls[stWork[w].call] = "refused" THEN UNCHANGED stFaults ELSE StFault
       \/ /\ stWork[w].at = "claimed"
          /\ \A c \in DOMAIN stCalls : stCalls[c] # "none"
          /\ UNCHANGED stFaults
    /\ StEnds(w, IF StFound THEN "completed" ELSE "failed")

\* The mail is sent, the job deleted, its lock released.
StDeleted(w) ==
    /\ stWork[w].at = "ending"
    /\ StDone(w)
    /\ UNCHANGED <<stRow, stQueue, stDropped, stRetry, stPanel, stAsks, stFaults>>

\* A worker dies; its message is there again after retry_after.
StDies(w) ==
    /\ stWork[w].at # "idle"
    /\ StFault
    /\ StGo(w, StIdle)
    /\ stQueue' = stQueue + 1
    /\ UNCHANGED <<stRow, stLock, stDropped, stRetry, stPanel, stAsks>>

-----------------------------------------------------------------------------
(* The panel: look the number up, then insert it in a transaction; the lock  *)
(* around both expires, the unique column does not.                          *)
StLookUp(c) ==
    /\ stCalls[c] = "sent"
    /\ stCalls' = [stCalls EXCEPT ![c] = IF StKnown THEN "answered" ELSE "checked"]
    /\ UNCHANGED <<stRow, stJob, stWork, stRetry, stOrders, stAsks, stFaults>>

StNumberFree == TRUE      \* mutant: the look-up alone decides
StNumberUnused == stOrders = 0
StUnique == StNumberUnused
StInsert(c) ==
    /\ stCalls[c] = "checked"
    /\ stCalls' = [stCalls EXCEPT ![c] = IF StUnique THEN "answered" ELSE "refused"]
    /\ stOrders' = IF StUnique THEN stOrders + 1 ELSE stOrders
    /\ UNCHANGED <<stRow, stJob, stWork, stRetry, stAsks, stFaults>>

\* A validation, the provisioning or the wait for the lock fails.
StRefuses(c) ==
    /\ stCalls[c] \in {"sent", "checked"}
    /\ stCalls' = [stCalls EXCEPT ![c] = "refused"]
    /\ UNCHANGED <<stRow, stJob, stWork, stRetry, stOrders, stAsks, stFaults>>

-----------------------------------------------------------------------------
(* retry, by the administrator or by the command.                            *)
StAct(a, act) == stRetry' = [stRetry EXCEPT ![a] = act]

StClickRetry ==
    /\ stPaid /\ stStatus # "completed" /\ stRetry["admin"] = StResting
    /\ StAsk
    /\ StAct("admin", [at |-> "asking", copy |-> stStatus])
    /\ UNCHANGED <<stRow, stJob, stWork, stPanel, stFaults>>

\* reconcileFromPanelStatus: nothing for a row that is completed by now.
StReconcile(a) ==
    /\ stRetry[a].at = "asking"
    /\ \/ /\ stStatus # "completed" /\ StFound
          /\ StSet("completed")
          /\ StAct(a, StResting)
          /\ UNCHANGED stFaults
       \/ /\ StAct(a, [stRetry[a] EXCEPT !.at = "pushing"])
          /\ IF stStatus # "completed" /\ StFound THEN StFault ELSE UNCHANGED stFaults
          /\ UNCHANGED stRow
    /\ UNCHANGED <<stJob, stWork, stPanel, stAsks>>

\* The row becomes pending, whatever it has become since it was loaded.
StPush(a) ==
    /\ stRetry[a].at = "pushing"
    /\ StSave(stRetry[a].copy, "pending")
    /\ StDispatch(stStatus')
    /\ StAct(a, StResting)
    /\ UNCHANGED <<stWork, stPanel, stAsks, stFaults>>

-----------------------------------------------------------------------------
(* panel:recover-stuck-provisions, every five minutes.                       *)
\* Fifteen minutes pass for a row that nobody works on: a message is taken, and
\* its job has ended, before that.
StAge ==
    /\ stStatus = "processing" /\ ~stOld /\ stQueue = 0
    /\ \A w \in StWorkers : stWork[w].at = "idle"
    /\ stOld' = TRUE
    /\ UNCHANGED <<stPaid, stStatus, stJob, stWork, stRetry, stPanel, stAsks, stFaults>>

StStuckOnes == stStatus = "processing" /\ stOld
StNeverStuck == FALSE      \* mutant
StStuck == StStuckOnes
StList ==
    /\ StStuck /\ stRetry["cron"] = StResting
    /\ StAct("cron", [at |-> "listed", copy |-> "processing"])
    /\ UNCHANGED <<stRow, stJob, stWork, stPanel, stAsks, stFaults>>
\* The row is failed, loaded again and retried.
StGiveUp ==
    /\ stRetry["cron"].at = "listed"
    /\ StSet("failed")
    /\ StAct("cron", [at |-> "asking", copy |-> "failed"])
    /\ UNCHANGED <<stJob, stWork, stPanel, stAsks, stFaults>>

\* The second loop asks the panel for failed orders.
StFailedOnes == stPaid /\ stStatus = "failed"
StStuckOnly == stPaid /\ stStatus = "processing" /\ stOld      \* mutant
StFailedList == StFailedOnes
StSynced ==
    /\ StFailedList /\ StFound /\ stRetry["cron"] = StResting
    /\ StSet("completed")
    /\ UNCHANGED <<stJob, stWork, stRetry, stPanel, stAsks, stFaults>>

-----------------------------------------------------------------------------
StWorks(w) == StTake(w) \/ StClaim(w) \/ StPost(w) \/ StAnswered(w) \/ StNoAnswer(w) \/ StDeleted(w)
StPanelWorks(c) == StLookUp(c) \/ StInsert(c) \/ StRefuses(c)
StCron == StList \/ StGiveUp \/ StReconcile("cron") \/ StPush("cron")

StNext ==
    \/ StPay \/ StLockExpires \/ StClickRetry \/ StAge \/ StCron \/ StSynced
    \/ StReconcile("admin") \/ StPush("admin")
    \/ \E w \in StWorkers : StWorks(w) \/ StDies(w)
    \/ \E c \in DOMAIN stCalls : StPanelWorks(c)

\* Workers, panel and scheduler go on, time passes, requests end.
StFairness ==
    /\ \A w \in StWorkers : WF_stVars(StWorks(w))
    /\ \A c \in 1..StMaxCalls : WF_stVars(StPanelWorks(c))
    /\ WF_stVars(StAge)
    /\ WF_stVars(StCron)
    /\ WF_stVars(StSynced)
    /\ WF_stVars(StReconcile("admin") \/ StPush("admin"))

StSpec == StInit /\ [][StNext]_stVars /\ StFairness

-----------------------------------------------------------------------------
\* However many jobs, retries and late requests there are, the panel has one
\* order for a store order (the unique store_order_number, fulfill).
OnePanelOrder == stOrders <= 1

\* An order shown as provisioned is in the panel, whoever wrote that.
CompletedIsThere == stStatus = "completed" => stOrders > 0

\* A paid order is still to come to rest as completed or failed, and one that the
\* panel has as completed: a job that died after its claim is found by the
\* command, unless the unique lock of a job that had already ended its work
\* refused the dispatch of a retry.
StUnsettled == stPaid /\ ~stDropped /\ stStatus \notin {"completed", "failed"}
StUnfound == stOrders > 0 /\ ~stDropped /\ stStatus # "completed"
=============================================================================
