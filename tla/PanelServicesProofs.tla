------------------------ MODULE PanelServicesProofs ------------------------
(***************************************************************************)
(* What holds of the parts of the server, each for every number of workers, *)
(* files, requests, runs and faults, and of all of them beside each other.  *)
(***************************************************************************)
EXTENDS MCPanelServices, FiniteSetTheorems, TLAPS

StRequests == 1..StMaxCalls
StWorkerState == [at : {"idle", "loaded", "claimed", "posted", "ending"},
                  copy : {"pending", "processing", "failed", "completed"},
                  call : 0..StMaxCalls]

(* What the variables of the two claims range over.                          *)
StTyped ==
    /\ stOrders \in Nat
    /\ stCalls \in [StRequests -> {"none", "sent", "checked", "answered", "refused"}]
    /\ stStatus \in {"pending", "processing", "failed", "completed"}
    /\ stWork \in [StWorkers -> StWorkerState]
    /\ \A w \in StWorkers : stWork[w].at = "posted" => stWork[w].call \in StRequests

(* An answer is given only by a panel that has the order.                   *)
AnswerIsThere == \A c \in StRequests : stCalls[c] = "answered" => stOrders > 0

StInv == StTyped /\ AnswerIsThere /\ OnePanelOrder /\ CompletedIsThere

LEMMA StoreInit == StInit => StInv
BY StBoundsAssumption
   DEF StInit, StInv, StTyped, StIdle, StWorkerState, StRequests, AnswerIsThere,
       OnePanelOrder, CompletedIsThere

(* What leaves the panel and the workers alone, and completes only what is  *)
(* there, keeps the invariant.                                               *)
LEMMA StoreSide ==
  ASSUME StInv, UNCHANGED stPanel, UNCHANGED stWork,
         \/ stStatus' \in {stStatus, "pending", "processing", "failed"}
         \/ stStatus' = "completed" /\ StKnown
  PROVE  StInv'
BY DEF StInv, StTyped, stPanel, AnswerIsThere, OnePanelOrder, CompletedIsThere, StKnown

(* The same for a worker that goes on without a request of its own.         *)
LEMMA WorkerSide ==
  ASSUME StInv, UNCHANGED stPanel, NEW w \in StWorkers, NEW work \in StWorkerState,
         work.at # "posted", StGo(w, work),
         \/ stStatus' \in {stStatus, "processing", "failed"}
         \/ stStatus' = "completed" /\ StKnown
  PROVE  StInv'
<1>1. stWork' \in [StWorkers -> StWorkerState]
  BY DEF StGo, StInv, StTyped
<1>2. \A v \in StWorkers : stWork'[v].at = "posted" => stWork'[v].call \in StRequests
  BY DEF StGo, StInv, StTyped
<1>3. StTyped'
  BY <1>1, <1>2 DEF StInv, StTyped, stPanel, StKnown
<1>4. QED  BY <1>3 DEF StInv, stPanel, AnswerIsThere, OnePanelOrder, CompletedIsThere, StKnown

LEMMA IdleWork == StIdle \in StWorkerState /\ StIdle.at = "idle"
BY StBoundsAssumption DEF StIdle, StWorkerState

LEMMA MovedWork ==
  ASSUME NEW work \in StWorkerState, NEW at \in {"loaded", "claimed", "ending"}
  PROVE  /\ [work EXCEPT !.at = at] \in StWorkerState
         /\ [work EXCEPT !.at = at].at = at
BY DEF StWorkerState

(* The job.                                                                  *)
LEMMA TakeKeeps ==
  ASSUME StInv, NEW w \in StWorkers, StTake(w)
  PROVE  StInv'
<1> DEFINE loaded == [at |-> "loaded", copy |-> stStatus, call |-> 0]
<1>1. loaded \in StWorkerState /\ loaded.at # "posted"
  BY StBoundsAssumption DEF StWorkerState, StInv, StTyped
<1>2. StGo(w, StIdle) \/ StGo(w, loaded)
  BY DEF StTake, StDone
<1>3. UNCHANGED stPanel /\ stStatus' = stStatus
  BY DEF StTake, stRow
<1> HIDE DEF loaded
<1>4. QED  BY <1>1, <1>2, <1>3, IdleWork, WorkerSide

LEMMA ClaimKeeps ==
  ASSUME StInv, NEW w \in StWorkers, StClaim(w)
  PROVE  StInv'
<1> DEFINE claimed == [stWork[w] EXCEPT !.at = "claimed"]
<1>1. claimed \in StWorkerState /\ claimed.at # "posted"
  BY MovedWork DEF StInv, StTyped
<1>2. StGo(w, StIdle) \/ StGo(w, claimed)
  BY DEF StClaim, StDone
<1>3. UNCHANGED stPanel /\ stStatus' \in {stStatus, "processing"}
  BY DEF StClaim, stRow, StSet
<1> HIDE DEF claimed
<1>4. QED  BY <1>1, <1>2, <1>3, IdleWork, WorkerSide

LEMMA PostKeeps ==
  ASSUME StInv, NEW w \in StWorkers, StPost(w)
  PROVE  StInv'
<1>1. PICK c \in DOMAIN stCalls :
         /\ stCalls' = [stCalls EXCEPT ![c] = "sent"]
         /\ StGo(w, [stWork[w] EXCEPT !.at = "posted", !.call = c])
  BY DEF StPost
<1>2. c \in StRequests
  BY <1>1 DEF StInv, StTyped
<1> DEFINE posted == [stWork[w] EXCEPT !.at = "posted", !.call = c]
<1>3. posted \in StWorkerState /\ posted.call = c
  <2>1. stWork[w] \in StWorkerState /\ c \in 0..StMaxCalls
    BY <1>2, StBoundsAssumption DEF StInv, StTyped, StRequests
  <2>2. QED  BY <2>1 DEF StWorkerState
<1>4. stWork' = [stWork EXCEPT ![w] = posted]
  BY <1>1 DEF StGo
<1> HIDE DEF posted
<1>5. stWork' \in [StWorkers -> StWorkerState]
  BY <1>3, <1>4 DEF StInv, StTyped
<1>6. \A v \in StWorkers : stWork'[v].at = "posted" => stWork'[v].call \in StRequests
  BY <1>2, <1>3, <1>4 DEF StInv, StTyped
<1>7. stCalls' \in [StRequests -> {"none", "sent", "checked", "answered", "refused"}]
  BY <1>1, <1>2 DEF StInv, StTyped
<1>8. UNCHANGED <<stStatus, stOrders>>
  BY DEF StPost, stRow
<1>9. StTyped'
  BY <1>5, <1>6, <1>7, <1>8 DEF StInv, StTyped
<1>10. AnswerIsThere'
  BY <1>1, <1>2, <1>8 DEF StInv, StTyped, AnswerIsThere
<1>11. QED  BY <1>8, <1>9, <1>10 DEF StInv, OnePanelOrder, CompletedIsThere

(* What an ending job writes: the status it says, or nothing.              *)
LEMMA EndsKeeps ==
  ASSUME StInv, NEW w \in StWorkers, NEW status \in {"failed", "completed"},
         StEnds(w, status), status = "completed" => StKnown
  PROVE  StInv'
<1> DEFINE ending == [stWork[w] EXCEPT !.at = "ending"]
<1>1. ending \in StWorkerState /\ ending.at # "posted"
  BY MovedWork DEF StInv, StTyped
<1>2. UNCHANGED stPanel /\ stStatus' \in {stStatus, status} /\ StGo(w, ending)
  BY DEF StEnds, StSave, StSet, stRow
<1> HIDE DEF ending
<1>3. QED  BY <1>1, <1>2, WorkerSide

LEMMA AnsweredKeeps ==
  ASSUME StInv, NEW w \in StWorkers, StAnswered(w)
  PROVE  StInv'
<1>1. stWork[w].call \in StRequests /\ stCalls[stWork[w].call] = "answered"
  BY DEF StAnswered, StInv, StTyped
<1>2. StKnown
  BY <1>1 DEF StInv, AnswerIsThere, StKnown
<1>3. QED  BY <1>2, EndsKeeps DEF StAnswered

LEMMA NoAnswerKeeps ==
  ASSUME StInv, NEW w \in StWorkers, StNoAnswer(w)
  PROVE  StInv'
<1>1. CASE StKnown
  BY <1>1, EndsKeeps DEF StNoAnswer, StFound
<1>2. CASE ~StKnown
  BY <1>2, EndsKeeps DEF StNoAnswer, StFound
<1>3. QED  BY <1>1, <1>2

LEMMA LeavesKeep ==
  ASSUME StInv, NEW w \in StWorkers, StDeleted(w) \/ StDies(w)
  PROVE  StInv'
<1>1. StGo(w, StIdle) /\ UNCHANGED stPanel /\ stStatus' = stStatus
  BY DEF StDeleted, StDies, StDone, stRow
<1>2. QED  BY <1>1, IdleWork, WorkerSide

(* The panel: the insert makes the first order, or none.                    *)
LEMMA PanelKeeps ==
  ASSUME StInv, NEW c \in DOMAIN stCalls, StPanelWorks(c)
  PROVE  StInv'
<1>1. c \in StRequests /\ UNCHANGED <<stStatus, stWork>>
  BY DEF StInv, StTyped, StPanelWorks, StLookUp, StInsert, StRefuses, stRow
<1>2. stOrders \in Nat /\ stOrders <= 1
  BY DEF StInv, StTyped, OnePanelOrder
<1>3. /\ stOrders' \in Nat /\ stOrders' <= 1 /\ stOrders' >= stOrders
      /\ \/ stCalls' = [stCalls EXCEPT ![c] = "answered"] /\ stOrders' > 0
         \/ stCalls' = [stCalls EXCEPT ![c] = "checked"]
         \/ stCalls' = [stCalls EXCEPT ![c] = "refused"]
  <2>1. CASE StLookUp(c)
    <3>1. stOrders' = stOrders
      BY <2>1 DEF StLookUp
    <3>2. \/ StKnown /\ stCalls' = [stCalls EXCEPT ![c] = "answered"]
          \/ stCalls' = [stCalls EXCEPT ![c] = "checked"]
      BY <2>1 DEF StLookUp
    <3>3. QED  BY <1>2, <3>1, <3>2 DEF StKnown
  <2>2. CASE StInsert(c)
    <3>1. CASE StUnique
      <4>1. stOrders = 0 /\ stOrders' = stOrders + 1
        BY <2>2, <3>1 DEF StInsert, StUnique, StNumberUnused
      <4>2. stCalls' = [stCalls EXCEPT ![c] = "answered"]
        BY <2>2, <3>1 DEF StInsert
      <4>3. QED  BY <4>1, <4>2
    <3>2. CASE ~StUnique
      <4>1. stOrders' = stOrders /\ stCalls' = [stCalls EXCEPT ![c] = "refused"]
        BY <2>2, <3>2 DEF StInsert
      <4>2. QED  BY <1>2, <4>1
    <3>3. QED  BY <3>1, <3>2
  <2>3. CASE StRefuses(c)
    BY <1>2, <2>3 DEF StRefuses
  <2>4. QED  BY <2>1, <2>2, <2>3 DEF StPanelWorks
<1>4. StTyped'
  BY <1>1, <1>3 DEF StInv, StTyped
<1>5. AnswerIsThere'
  BY <1>1, <1>2, <1>3 DEF StInv, StTyped, AnswerIsThere
<1>6. QED  BY <1>1, <1>2, <1>3, <1>4, <1>5 DEF StInv, OnePanelOrder, CompletedIsThere

(* Callbacks, retries and the command: completed only what the panel knows.  *)
LEMMA OthersKeep ==
  ASSUME StInv,
         \/ StPay \/ StLockExpires \/ StClickRetry \/ StAge \/ StList \/ StGiveUp \/ StSynced
         \/ \E a \in {"admin", "cron"} : StReconcile(a) \/ StPush(a)
  PROVE  StInv'
<1>1. UNCHANGED stPanel /\ UNCHANGED stWork
  BY DEF StPay, StLockExpires, StClickRetry, StAge, StList, StGiveUp, StSynced, StReconcile,
         StPush
<1>2. \/ stStatus' \in {stStatus, "pending", "failed"}
      \/ stStatus' = "completed" /\ StKnown
  <2>1. CASE StPay \/ StLockExpires \/ StClickRetry \/ StAge \/ StList
    BY <2>1 DEF StPay, StLockExpires, StClickRetry, StAge, StList, stRow
  <2>2. CASE StGiveUp \/ StSynced
    BY <2>2 DEF StGiveUp, StSynced, StSet, StFound
  <2>3. ASSUME NEW a \in {"admin", "cron"}, StReconcile(a) \/ StPush(a)
        PROVE  \/ stStatus' \in {stStatus, "pending"}
               \/ stStatus' = "completed" /\ StKnown
    BY <2>3 DEF StReconcile, StPush, StSave, StSet, StFound, stRow
  <2>4. QED  BY <2>1, <2>2, <2>3
<1>3. QED  BY <1>1, <1>2, StoreSide

LEMMA StoreStep == StInv /\ [StNext]_stVars => StInv'
<1> SUFFICES ASSUME StInv, [StNext]_stVars  PROVE StInv'
  OBVIOUS
<1>1. ASSUME NEW w \in StWorkers, StWorks(w) \/ StDies(w)  PROVE StInv'
  BY <1>1, TakeKeeps, ClaimKeeps, PostKeeps, AnsweredKeeps, NoAnswerKeeps, LeavesKeep DEF StWorks
<1>2. ASSUME NEW c \in DOMAIN stCalls, StPanelWorks(c)  PROVE StInv'
  BY <1>2, PanelKeeps
<1>3. CASE \/ StPay \/ StLockExpires \/ StClickRetry \/ StAge \/ StCron \/ StSynced
           \/ StReconcile("admin") \/ StPush("admin")
  BY <1>3, OthersKeep DEF StCron
<1>4. CASE UNCHANGED stVars
  BY <1>4, StoreSide DEF stVars, stPanel
<1>5. QED  BY <1>1, <1>2, <1>3, <1>4 DEF StNext

LEMMA StoreHolds == StSpec => []StInv
BY StoreInit, StoreStep, PTL DEF StSpec

\* PanelProvisioningService and the panel's fulfill: for every number of workers,
\* requests, retries and faults, one order of the panel per order of the store.
THEOREM OneOrderPerStoreOrder == StSpec => []OnePanelOrder
<1>1. StInv => OnePanelOrder
  BY DEF StInv
<1>2. QED  BY <1>1, StoreHolds, PTL

\* Whoever writes "completed" (the job, its recovery after a timeout, a retry, the
\* command that syncs), the panel has the order by then.
THEOREM CompletedOrdersAreThere == StSpec => []CompletedIsThere
<1>1. StInv => CompletedIsThere
  BY DEF StInv
<1>2. QED  BY <1>1, StoreHolds, PTL

-----------------------------------------------------------------------------
(* Uploads.                                                                  *)

UpPhases == {"idle", "listed", "uploading", "uploaded", "ending"}
UpAtWork(u) == upAt[u].at \in {"uploading", "uploaded", "ending"}
UpUnrecorded(u) == upAt[u].at \in {"uploading", "uploaded"}
UpExpected == IF UpThere /\ upFile # 0 THEN {upFile} ELSE {}

UpTyped ==
    /\ upMade \in Nat /\ upFile \in Nat
    /\ upAt \in [UpUploaders -> [at : UpPhases, file : Nat]]
    /\ \A u \in UpUploaders : upAt[u].at = "idle" => upAt[u] = UpRest
    /\ \A u \in UpUploaders : UpUnrecorded(u) => upAt[u].file # 0
    /\ upDelete \in [at : {"idle", "loaded", "purged"}, file : Nat]
    /\ upDelete.at = "idle" => upDelete = UpRest

(* One uploader at work, and none beside a deletion.                        *)
UpAlone ==
    /\ \A u, v \in UpUploaders : UpAtWork(u) /\ UpAtWork(v) => u = v
    /\ \A u \in UpUploaders : UpAtWork(u) => UpThere /\ upDelete = UpRest
    /\ upDelete # UpRest => UpThere

(* What is at the destination, at every step of an upload and a deletion.    *)
UpAccounted ==
    /\ \A u \in UpUploaders : upAt[u].at = "uploading" => upFile = 0 /\ upFiles = {}
    /\ \A u \in UpUploaders : upAt[u].at = "uploaded" => upFile = 0 /\ upFiles = {upAt[u].file}
    /\ upDelete.at = "loaded" => upDelete.file = upFile
    /\ upDelete.at = "purged" => upFiles = {}
    /\ upDelete.at # "purged" /\ (\A u \in UpUploaders : ~UpUnrecorded(u)) => upFiles = UpExpected

UpInv == UpTyped /\ (~upDoubled => UpAlone /\ UpAccounted)

LEMMA UploadsInit == UpInit => UpInv
BY DEF UpInit, UpInv, UpTyped, UpAlone, UpAccounted, UpRest, UpPhases, UpAtWork, UpUnrecorded,
       UpExpected, UpThere

LEMMA UploadsQuiet == UpInv => UploadsKnown
<1> SUFFICES ASSUME UpInv, UpQuiet, ~upDoubled  PROVE upFiles = UpExpected
  BY DEF UploadsKnown, UpExpected
<1>1. \A u \in UpUploaders : upAt[u].at = "idle"
  BY DEF UpQuiet, UpRest
<1>2. upDelete.at = "idle"
  BY DEF UpQuiet, UpRest
<1>3. QED  BY <1>1, <1>2 DEF UpInv, UpAccounted, UpUnrecorded

(* An upload begins.                                                        *)
LEMMA BeginTyped ==
  ASSUME UpTyped, NEW u \in UpUploaders, UpBegin(u), UNCHANGED <<upFile, upDelete>>
  PROVE  /\ UpTyped'
         /\ upAt'[u].at = "uploading"
         /\ \A v \in UpUploaders \ {u} : upAt'[v] = upAt[v]
<1>1. upMade' = upMade + 1 /\ upMade' \in Nat /\ upMade' # 0
  BY DEF UpBegin, UpTyped
<1> DEFINE begun == [at |-> "uploading", file |-> upMade + 1]
<1>2. begun \in [at : UpPhases, file : Nat] /\ begun.at = "uploading" /\ begun.file # 0
  BY <1>1 DEF UpPhases
<1>3. upAt' = [upAt EXCEPT ![u] = begun]
  BY DEF UpBegin
<1> HIDE DEF begun
<1>4. upAt' \in [UpUploaders -> [at : UpPhases, file : Nat]] /\ upAt'[u] = begun
  BY <1>2, <1>3 DEF UpTyped
<1>5. \A v \in UpUploaders \ {u} : upAt'[v] = upAt[v]
  BY <1>3 DEF UpTyped
<1>6. \A v \in UpUploaders : upAt'[v].at = "idle" => upAt'[v] = UpRest
  BY <1>2, <1>4, <1>5 DEF UpTyped
<1>7. \A v \in UpUploaders : UpUnrecorded(v)' => upAt'[v].file # 0
  BY <1>2, <1>4, <1>5 DEF UpTyped, UpUnrecorded
<1>8. UpTyped'
  BY <1>1, <1>4, <1>6, <1>7 DEF UpTyped
<1>9. QED  BY <1>2, <1>4, <1>5, <1>8

LEMMA BeginKeeps ==
  ASSUME UpInv, NEW u \in UpUploaders, UpBegin(u), UNCHANGED <<upFile, upFiles, upDelete>>,
         ~upDoubled' => /\ ~upDoubled /\ upFile = 0 /\ upDelete = UpRest /\ UpThere /\ UpThere'
                        /\ \A v \in UpUploaders \ {u} : ~UpAtWork(v)
                        /\ ~UpUnrecorded(u)
  PROVE  UpInv'
<1>1. /\ UpTyped'
      /\ upAt'[u].at = "uploading"
      /\ \A v \in UpUploaders \ {u} : upAt'[v] = upAt[v]
  BY BeginTyped DEF UpInv
<1> SUFFICES ASSUME ~upDoubled'  PROVE UpAlone' /\ UpAccounted'
  BY <1>1 DEF UpInv
<1>2. \A v \in UpUploaders \ {u} : ~UpAtWork(v) /\ ~UpAtWork(v)'
  BY <1>1 DEF UpAtWork
<1>3. UpAlone'
  BY <1>1, <1>2 DEF UpAlone
<1>4. \A v \in UpUploaders : ~UpUnrecorded(v)
  BY <1>2 DEF UpUnrecorded, UpAtWork
<1>5. upDelete.at = "idle"
  BY DEF UpRest
<1>6. upFiles = {}
  BY <1>4, <1>5 DEF UpInv, UpAccounted, UpExpected
<1>7. UpAccounted'
  BY <1>1, <1>2, <1>5, <1>6 DEF UpAccounted, UpAtWork, UpUnrecorded
<1>8. QED  BY <1>3, <1>7

LEMMA UploadBegins ==
  ASSUME UpInv, UpJobFinalizes \/ UpRequest
  PROVE  UpInv'
<1>1. ASSUME UpQuiet  PROVE upDelete = UpRest /\ \A u \in UpUploaders : upAt[u].at = "idle"
  BY <1>1 DEF UpQuiet, UpRest
<1>2. CASE UpJobFinalizes
  <2>1. /\ UpBegin("job") /\ UNCHANGED <<upFile, upFiles, upDelete>> /\ UpThere /\ UpThere'
        /\ ~upDoubled' => ~upDoubled /\ upFile = 0 /\ UpQuiet
    BY <1>2 DEF UpJobFinalizes, UpThere, UpWrite
  <2>2. QED  BY <1>1, <2>1, BeginKeeps DEF UpUploaders, UpAtWork, UpUnrecorded
<1>3. CASE UpRequest
  <2>1. /\ UpBegin("request") /\ UNCHANGED <<upFile, upFiles, upDelete>> /\ UpThere /\ UpThere'
        /\ ~upDoubled' => ~upDoubled /\ upFile = 0 /\ UpQuiet
    BY <1>3 DEF UpRequest, UpThere
  <2>2. QED  BY <1>1, <2>1, BeginKeeps DEF UpUploaders, UpAtWork, UpUnrecorded
<1>4. QED  BY <1>2, <1>3

(* An uploader moves on without beginning an upload.                        *)
LEMMA MoveTyped ==
  ASSUME UpTyped, NEW u \in UpUploaders, NEW work \in [at : UpPhases, file : Nat],
         upAt' = [upAt EXCEPT ![u] = work],
         work.at = "idle" => work = UpRest,
         work.at \in {"uploading", "uploaded"} => work.file # 0,
         upFile' \in Nat, UNCHANGED <<upMade, upDelete>>
  PROVE  UpTyped' /\ upAt'[u] = work /\ \A v \in UpUploaders \ {u} : upAt'[v] = upAt[v]
<1>1. upAt' \in [UpUploaders -> [at : UpPhases, file : Nat]] /\ upAt'[u] = work
  BY DEF UpTyped
<1>2. \A v \in UpUploaders \ {u} : upAt'[v] = upAt[v]
  BY DEF UpTyped
<1>3. \A v \in UpUploaders : upAt'[v].at = "idle" => upAt'[v] = UpRest
  BY <1>1, <1>2 DEF UpTyped
<1>4. \A v \in UpUploaders : UpUnrecorded(v)' => upAt'[v].file # 0
  BY <1>1, <1>2 DEF UpTyped, UpUnrecorded
<1>5. QED  BY <1>1, <1>2, <1>3, <1>4 DEF UpTyped

LEMMA MovedRecord ==
  ASSUME UpTyped, NEW u \in UpUploaders, NEW at \in {"uploaded", "ending"}
  PROVE  LET work == [upAt[u] EXCEPT !.at = at]
         IN  work \in [at : UpPhases, file : Nat] /\ work.at = at /\ work.file = upAt[u].file
BY DEF UpTyped, UpPhases

LEMMA RestRecord == UpRest \in [at : UpPhases, file : Nat] /\ UpRest.at = "idle" /\ UpRest.file = 0
BY DEF UpRest, UpPhases

(* One who has nothing to record before and after changes no account.      *)
LEMMA IdlersKeep ==
  ASSUME UpInv, NEW u \in UpUploaders, UpTyped', ~UpUnrecorded(u), ~UpUnrecorded(u)',
         \A v \in UpUploaders \ {u} : upAt'[v] = upAt[v],
         UpAtWork(u)' => UpAtWork(u),
         UNCHANGED <<upFile, upFiles, upDelete>>, UpThere' = UpThere, ~upDoubled' => ~upDoubled
  PROVE  UpInv'
<1> SUFFICES ASSUME ~upDoubled'  PROVE UpAlone' /\ UpAccounted'
  BY DEF UpInv
<1>1. \A v \in UpUploaders : (UpAtWork(v)' => UpAtWork(v)) /\ (UpUnrecorded(v)' <=> UpUnrecorded(v))
  BY DEF UpAtWork, UpUnrecorded
<1>2. UpAlone'
  BY <1>1 DEF UpInv, UpAlone
<1>3. \A v \in UpUploaders : UpUnrecorded(v) => v # u /\ upAt'[v] = upAt[v]
  OBVIOUS
<1>4. UpExpected' = UpExpected
  BY DEF UpExpected
<1>5. \A v \in UpUploaders : upAt'[v].at = "uploading" => upFile = 0 /\ upFiles = {}
  BY <1>1, <1>3 DEF UpInv, UpAccounted, UpUnrecorded
<1>6. \A v \in UpUploaders : upAt'[v].at = "uploaded" => upFile = 0 /\ upFiles = {upAt'[v].file}
  BY <1>1, <1>3 DEF UpInv, UpAccounted, UpUnrecorded
<1>7. UpAccounted'
  BY <1>1, <1>4, <1>5, <1>6 DEF UpInv, UpAccounted
<1>8. QED  BY <1>2, <1>7

LEMMA ThereAfterWrite ==
  ASSUME NEW status \in {"completed", "syncing"}, UpWrite(status)
  PROVE  UpThere' = UpThere
BY DEF UpWrite, UpThere

LEMMA ReconcilesKeep ==
  ASSUME UpInv, UpReconciles
  PROVE  UpInv'
<1>1. CASE UpReconcilerLists
  <2> DEFINE work == [at |-> "listed", file |-> upFile]
  <2>1. work \in [at : UpPhases, file : Nat] /\ work.at = "listed"
    BY DEF UpPhases, UpInv, UpTyped
  <2>2. upAt' = [upAt EXCEPT !["reconciler"] = work]
    BY <1>1 DEF UpReconcilerLists
  <2> HIDE DEF work
  <2>3. /\ UpTyped' /\ upAt'["reconciler"] = work
        /\ \A v \in UpUploaders \ {"reconciler"} : upAt'[v] = upAt[v]
    BY <1>1, <2>1, <2>2, MoveTyped DEF UpReconcilerLists, UpUploaders, UpInv, UpTyped
  <2>4. upAt["reconciler"].at = "idle"
    BY <1>1 DEF UpReconcilerLists, UpRest
  <2>5. UNCHANGED <<upFile, upFiles, upDelete, upDoubled>> /\ UpThere' = UpThere
    BY <1>1 DEF UpReconcilerLists, UpThere
  <2>6. QED  BY <2>1, <2>3, <2>4, <2>5, IdlersKeep DEF UpUploaders, UpAtWork, UpUnrecorded
<1>2. CASE UpReconcilerFinalizes /\ UpThere /\ UpCopyKnown = 0
  <2>1. /\ UpBegin("reconciler") /\ UNCHANGED <<upFile, upFiles, upDelete>>
        /\ upAt["reconciler"].at = "listed" /\ UpWrite("syncing") /\ upFile = 0
        /\ ~upDoubled' => /\ ~upDoubled /\ upDelete = UpRest
                          /\ \A u \in {"job", "request"} : upAt[u] = UpRest
    BY <1>2 DEF UpReconcilerFinalizes, UpCopyKnown, UpCopyLoadedAgain
  <2>2. UpThere'
    BY <1>2, <2>1 DEF UpWrite, UpThere
  <2>3. ~UpUnrecorded("reconciler")
    BY <2>1 DEF UpUnrecorded
  <2>4. \A v \in UpUploaders \ {"reconciler"} : upAt[v] = UpRest => ~UpAtWork(v)
    BY DEF UpAtWork, UpRest
  <2>5. "reconciler" \in UpUploaders /\ UpUploaders \ {"reconciler"} = {"job", "request"}
    BY DEF UpUploaders
  <2>6. QED  BY <1>2, <2>1, <2>2, <2>3, <2>4, <2>5, BeginKeeps
<1>3. CASE UpReconcilerFinalizes /\ ~(UpThere /\ UpCopyKnown = 0)
  <2>1. /\ upAt' = [upAt EXCEPT !["reconciler"] = UpRest]
        /\ upAt["reconciler"].at = "listed" /\ UpWrite("completed")
        /\ UNCHANGED <<upFile, upFiles, upDelete, upMade, upDoubled>>
    BY <1>3 DEF UpReconcilerFinalizes
  <2>2. /\ UpTyped' /\ upAt'["reconciler"] = UpRest
        /\ \A v \in UpUploaders \ {"reconciler"} : upAt'[v] = upAt[v]
    BY <2>1, MoveTyped, RestRecord DEF UpUploaders, UpInv, UpTyped
  <2>3. QED  BY <2>1, <2>2, RestRecord, ThereAfterWrite, IdlersKeep
             DEF UpUploaders, UpAtWork, UpUnrecorded
<1>4. QED  BY <1>1, <1>2, <1>3 DEF UpReconciles

(* An uploader whose upload arrives, fails or is recorded is the only one.   *)
LEMMA WorkerAlone ==
  ASSUME UpInv, NEW u \in UpUploaders, UpAtWork(u), ~upDoubled
  PROVE  /\ \A v \in UpUploaders \ {u} : ~UpAtWork(v)
         /\ UpThere /\ upDelete = UpRest /\ upDelete.at = "idle"
BY DEF UpInv, UpAlone, UpRest

LEMMA WorkerMoves ==
  ASSUME UpInv, NEW u \in UpUploaders, UpAtWork(u), UpTyped', UpThere' = UpThere,
         ~upDoubled' => ~upDoubled,
         \A v \in UpUploaders \ {u} : upAt'[v] = upAt[v],
         UNCHANGED upDelete,
         ~upDoubled' =>
           \/ upAt'[u].at = "uploaded" /\ upFile' = 0 /\ upFiles' = {upAt'[u].file}
           \/ upAt'[u].at \in {"idle", "ending"} /\ upFiles' = UpExpected'
  PROVE  UpInv'
<1> SUFFICES ASSUME ~upDoubled'  PROVE UpAlone' /\ UpAccounted'
  BY DEF UpInv
<1>1. /\ \A v \in UpUploaders \ {u} :
            ~UpAtWork(v)' /\ ~UpUnrecorded(v)' /\ upAt'[v].at # "uploading"
      /\ UpThere' /\ upDelete' = UpRest /\ upDelete'.at = "idle"
  BY WorkerAlone DEF UpAtWork, UpUnrecorded
<1>2. UpAlone'
  BY <1>1 DEF UpAlone
<1>3. UpAccounted'
  BY <1>1 DEF UpAccounted, UpAtWork, UpUnrecorded
<1>4. QED  BY <1>2, <1>3

LEMMA WorksKeep ==
  ASSUME UpInv, NEW u \in UpUploaders, UpWorks(u)
  PROVE  UpInv'
<1>1. CASE UpArrives(u) \/ UpFails(u)
  <2>1. PICK at \in {"uploaded", "ending"} :
          /\ upAt' = [upAt EXCEPT ![u].at = at]
          /\ \/ UpFails(u) /\ at = "ending"
             \/ UpArrives(u) /\ (at = "ending" => upDoubled')
    BY <1>1 DEF UpArrives, UpFails
  <2>2. /\ upAt[u].at = "uploading" /\ UNCHANGED <<upFile, upDelete, upMade>>
        /\ UpThere' = UpThere /\ (~upDoubled' => ~upDoubled)
        /\ UpArrives(u) => upFiles' = upFiles \cup {upAt[u].file}
        /\ UpFails(u) => upFiles' = upFiles
    BY <1>1 DEF UpArrives, UpFails, UpThere
  <2> DEFINE work == [upAt[u] EXCEPT !.at = at]
  <2>3. work \in [at : UpPhases, file : Nat] /\ work.at = at /\ work.file = upAt[u].file
    BY <2>1, MovedRecord DEF UpInv
  <2>4. upAt' = [upAt EXCEPT ![u] = work]
    BY <2>1
  <2> HIDE DEF work
  <2>5. work.file # 0
    BY <2>2, <2>3 DEF UpInv, UpTyped, UpUnrecorded
  <2>6. UpTyped' /\ upAt'[u] = work /\ \A v \in UpUploaders \ {u} : upAt'[v] = upAt[v]
    BY <2>1, <2>2, <2>3, <2>4, <2>5, MoveTyped DEF UpInv, UpTyped
  <2>7. ASSUME ~upDoubled  PROVE upFile = 0 /\ upFiles = {}
    BY <2>2, <2>7 DEF UpInv, UpAccounted
  <2>8. ~upDoubled' =>
           \/ upAt'[u].at = "uploaded" /\ upFile' = 0 /\ upFiles' = {upAt'[u].file}
           \/ upAt'[u].at \in {"idle", "ending"} /\ upFiles' = UpExpected'
    BY <2>1, <2>2, <2>3, <2>6, <2>7 DEF UpExpected
  <2>9. QED  BY <2>2, <2>6, <2>8, WorkerMoves DEF UpAtWork
<1>2. CASE UpRecords(u)
  <2> DEFINE work == [upAt[u] EXCEPT !.at = "ending"]
  <2>1. /\ upAt[u].at = "uploaded" /\ upAt' = [upAt EXCEPT ![u] = work]
        /\ upFile' = (IF UpThere THEN upAt[u].file ELSE upFile)
        /\ UNCHANGED <<upFiles, upMade, upDelete, upDoubled>> /\ UpThere' = UpThere
    BY <1>2 DEF UpRecords, UpThere
  <2>2. work \in [at : UpPhases, file : Nat] /\ work.at = "ending" /\ work.file = upAt[u].file
    BY MovedRecord DEF UpInv
  <2> HIDE DEF work
  <2>3. upAt[u].file \in Nat /\ upAt[u].file # 0 /\ upFile \in Nat
    BY <2>1 DEF UpInv, UpTyped, UpUnrecorded
  <2>4. UpTyped' /\ upAt'[u] = work /\ \A v \in UpUploaders \ {u} : upAt'[v] = upAt[v]
    BY <2>1, <2>2, <2>3, MoveTyped DEF UpInv
  <2>5. ASSUME ~upDoubled  PROVE upFiles = {upAt[u].file} /\ UpThere
    BY <2>1, <2>5, WorkerAlone DEF UpInv, UpAccounted, UpAtWork
  <2>6. ~upDoubled' => upFiles' = UpExpected'
    BY <2>1, <2>3, <2>5 DEF UpExpected
  <2>7. QED  BY <2>1, <2>2, <2>4, <2>6, WorkerMoves DEF UpAtWork
<1>3. CASE UpEnds(u)
  <2>1. /\ upAt[u].at = "ending" /\ upAt' = [upAt EXCEPT ![u] = UpRest]
        /\ UNCHANGED <<upFile, upFiles, upMade, upDelete, upDoubled>> /\ UpThere' = UpThere
    BY <1>3, ThereAfterWrite DEF UpEnds, UpThere
  <2>2. UpTyped' /\ upAt'[u] = UpRest /\ \A v \in UpUploaders \ {u} : upAt'[v] = upAt[v]
    BY <2>1, RestRecord, MoveTyped DEF UpInv, UpTyped
  <2>3. QED  BY <2>1, <2>2, RestRecord, IdlersKeep DEF UpAtWork, UpUnrecorded
<1>4. QED  BY <1>1, <1>2, <1>3 DEF UpWorks

\* A process that dies with an upload begun leaves nothing; with one made, doubled.
LEMMA DiesKeep ==
  ASSUME UpInv, NEW u \in UpUploaders, UpDies(u)
  PROVE  UpInv'
<1>1. /\ upAt' = [upAt EXCEPT ![u] = UpRest] /\ UNCHANGED <<upFile, upFiles, upMade, upDelete>>
      /\ UpThere' = UpThere /\ (~upDoubled' => ~upDoubled /\ upAt[u].at # "uploaded")
  BY DEF UpDies, UpThere
<1>2. UpTyped' /\ upAt'[u] = UpRest /\ \A v \in UpUploaders \ {u} : upAt'[v] = upAt[v]
  BY <1>1, RestRecord, MoveTyped DEF UpInv, UpTyped
<1>3. CASE upAt[u].at = "uploading"
  <2>1. ~upDoubled' => upFiles' = UpExpected'
    BY <1>1, <1>3 DEF UpInv, UpAccounted, UpExpected
  <2>2. QED  BY <1>1, <1>2, <1>3, <2>1, RestRecord, WorkerMoves DEF UpAtWork
<1>4. CASE ~UpUnrecorded(u)
  BY <1>1, <1>2, <1>4, RestRecord, IdlersKeep DEF UpAtWork, UpUnrecorded
<1>5. CASE upAt[u].at = "uploaded"
  BY <1>1, <1>2, <1>5 DEF UpInv
<1>6. QED  BY <1>3, <1>4, <1>5 DEF UpUnrecorded

(* The deletion: what the loaded row names is what is there.                *)
LEMMA DeletesKeep ==
  ASSUME UpInv, UpDeleteRead \/ UpPurge \/ UpDeleteRow
  PROVE  UpInv'
<1>1. UNCHANGED <<upFile, upMade, upAt>>
  BY DEF UpDeleteRead, UpPurge, UpDeleteRow
<1>2. upDelete' \in [at : {"idle", "loaded", "purged"}, file : Nat]
  BY DEF UpDeleteRead, UpPurge, UpDeleteRow, UpInv, UpTyped, UpRest
<1>3. upDelete'.at = "idle" => upDelete' = UpRest
  BY DEF UpDeleteRead, UpPurge, UpDeleteRow, UpInv, UpTyped
<1>4. UpTyped'
  BY <1>1, <1>2, <1>3 DEF UpInv, UpTyped, UpUnrecorded
<1> SUFFICES ASSUME ~upDoubled'  PROVE UpAlone' /\ UpAccounted'
  BY <1>4 DEF UpInv
<1>5. UpAlone /\ UpAccounted
  BY DEF UpDeleteRead, UpPurge, UpDeleteRow, UpInv
<1>6. CASE UpDeleteRead
  <2>1. UpQuiet /\ UpThere /\ UpThere' /\ upFiles' = upFiles
        /\ upDelete' = [at |-> "loaded", file |-> upFile]
    BY <1>6 DEF UpDeleteRead, UpThere
  <2>2. \A u \in UpUploaders : upAt[u].at = "idle"
    BY <2>1 DEF UpQuiet, UpRest
  <2>3. upDelete.at = "idle"
    BY <2>1 DEF UpQuiet, UpRest
  <2>4. upFiles = UpExpected
    BY <1>5, <2>2, <2>3 DEF UpAccounted, UpUnrecorded
  <2>5. QED  BY <1>1, <2>1, <2>2, <2>4 DEF UpAlone, UpAccounted, UpAtWork, UpUnrecorded, UpExpected
<1>7. CASE UpPurge
  <2>1. /\ upDelete.at = "loaded" /\ upDelete'.at = "purged" /\ UpThere' = UpThere
        /\ upFiles' = upFiles \ {upDelete.file}
    BY <1>7 DEF UpPurge, UpPurged, UpPurgedFile, UpThere, UpInv, UpTyped
  <2>2. upDelete # UpRest /\ upDelete.file = upFile /\ UpThere
    BY <1>5, <2>1 DEF UpAccounted, UpAlone, UpRest
  <2>3. \A u \in UpUploaders : ~UpAtWork(u)
    BY <1>5, <2>2 DEF UpAlone
  <2>4. upFiles = UpExpected
    BY <1>5, <2>1, <2>3 DEF UpAccounted, UpUnrecorded, UpAtWork
  <2>5. upFiles' = {}
    BY <2>1, <2>2, <2>4 DEF UpExpected
  <2>6. QED  BY <1>1, <2>1, <2>2, <2>3, <2>5 DEF UpAlone, UpAccounted, UpAtWork, UpUnrecorded
<1>8. CASE UpDeleteRow
  <2>1. upDelete.at = "purged" /\ upDelete' = UpRest /\ ~UpThere' /\ upFiles' = upFiles
    BY <1>8 DEF UpDeleteRow, UpThere
  <2>2. upDelete # UpRest /\ upFiles = {}
    BY <1>5, <2>1 DEF UpAccounted, UpRest
  <2>3. \A u \in UpUploaders : ~UpAtWork(u)
    BY <1>5, <2>2 DEF UpAlone
  <2>4. QED  BY <1>1, <2>1, <2>2, <2>3
             DEF UpAlone, UpAccounted, UpAtWork, UpUnrecorded, UpExpected, UpRest
<1>9. QED  BY <1>6, <1>7, <1>8

LEMMA UploadsStep == UpInv /\ [UpNext]_upVars => UpInv'
<1> SUFFICES ASSUME UpInv, [UpNext]_upVars  PROVE UpInv'
  OBVIOUS
<1>1. CASE UpJobFinalizes \/ UpRequest
  BY <1>1, UploadBegins
<1>2. CASE UpReconciles
  BY <1>2, ReconcilesKeep
<1>3. CASE UpDeleteRead \/ UpPurge \/ UpDeleteRow
  BY <1>3, DeletesKeep
<1>4. CASE \E u \in UpUploaders : UpWorks(u) \/ UpDies(u)
  BY <1>4, WorksKeep, DiesKeep
<1>5. CASE UpJobLeaves \/ UNCHANGED upVars
  BY <1>5 DEF UpJobLeaves, upVars, UpInv, UpTyped, UpAlone, UpAccounted, UpUnrecorded, UpAtWork,
              UpThere, UpExpected
<1>6. QED  BY <1>1, <1>2, <1>3, <1>4, <1>5 DEF UpNext

\* BackupSyncService and backups:reconcile-running: for every number of uploads and
\* faults, what is at the destination is what the row names, unless two uploads
\* that nothing kept apart, or a fault between upload and record, made it otherwise.
THEOREM UploadsAreKnown == UpSpec => []UploadsKnown
<1>1. UpSpec => []UpInv
  BY UploadsInit, UploadsStep, PTL DEF UpSpec
<1>2. QED  BY <1>1, UploadsQuiet, PTL

-----------------------------------------------------------------------------
(* Runs of a cron job.                                                       *)

(* The lock names the run that lives, or one that was killed, and no run is  *)
(* past the last one.                                                        *)
CrInv ==
    /\ crLast \in Nat /\ crLock \in Nat
    /\ crLock <= crLast
    /\ DOMAIN crRows = CrRuns
    /\ \A r \in CrRuns : r > crLast => crRows[r] = "none"
    /\ OneExecution

LEMMA CronInit == CrInit => CrInv
BY CrBoundsAssumption DEF CrInit, CrInv, CrRuns, OneExecution, CrAlive

LEMMA ExecuteKeeps ==
  ASSUME CrInv, CrExecute
  PROVE  CrInv'
<1>1. /\ crLast \in Nat /\ crLast < CrMaxRuns /\ crLast' = crLast + 1 /\ crLast' \in CrRuns
      /\ crKilled' = crKilled
  BY CrBoundsAssumption DEF CrExecute, CrInv, CrRuns
<1>2. CASE crLock = 0
  <2>1. crLock' = crLast' /\ crRows' = [crRows EXCEPT ![crLast'] = "running"]
    BY <1>2 DEF CrExecute
  <2>2. CrAlive = {}
    BY <1>2 DEF CrInv, OneExecution, CrAlive, CrRuns
  <2>3. \A r \in CrRuns \ {crLast'} : crRows'[r] = crRows[r]
    BY <2>1 DEF CrInv
  <2>4. CrAlive' \subseteq {crLast'}
    BY <1>1, <2>2, <2>3 DEF CrAlive
  <2>5. \A r \in CrRuns : r > crLast' => crRows'[r] = "none"
    BY <1>1, <2>3 DEF CrInv, CrRuns
  <2>6. QED  BY <1>1, <2>1, <2>4, <2>5 DEF CrInv, OneExecution
<1>3. CASE crLock # 0
  <2>1. crLock' = crLock /\ crRows' = [crRows EXCEPT ![crLast'] = "failed"]
    BY <1>3 DEF CrExecute, CrAfterRefusal, CrLockKept
  <2>2. \A r \in CrRuns \ {crLast'} : crRows'[r] = crRows[r]
    BY <2>1 DEF CrInv
  <2>3. crRows'[crLast'] = "failed"
    BY <1>1, <2>1 DEF CrInv
  <2>4. CrAlive' \subseteq CrAlive
    BY <1>1, <2>2, <2>3 DEF CrAlive
  <2>5. \A r \in CrRuns : r > crLast' => crRows'[r] = "none"
    BY <1>1, <2>2 DEF CrInv, CrRuns
  <2>6. QED  BY <1>1, <2>1, <2>4, <2>5 DEF CrInv, OneExecution
<1>4. QED  BY <1>2, <1>3

LEMMA FinishKeeps ==
  ASSUME CrInv, NEW r \in CrRuns, CrFinish(r)
  PROVE  CrInv'
<1>1. PICK status \in CrEnds : crRows' = [crRows EXCEPT ![r] = status]
  BY DEF CrFinish
<1>2. r \in CrAlive /\ crLock' = 0 /\ UNCHANGED <<crLast, crKilled>>
  BY DEF CrFinish
<1>3. \A s \in CrAlive : s = r
  BY <1>2 DEF CrInv, OneExecution
<1>4. status # "running" /\ \A s \in CrRuns : crRows'[s] = IF s = r THEN status ELSE crRows[s]
  BY <1>1 DEF CrInv, CrEnds
<1>5. CrAlive' = {}
  BY <1>2, <1>3, <1>4 DEF CrAlive
<1>6. \A s \in CrRuns : s > crLast => crRows'[s] = "none"
  BY <1>2, <1>4 DEF CrInv, CrAlive
<1>7. QED  BY <1>1, <1>2, <1>5, <1>6 DEF CrInv, OneExecution

(* A kill makes an orphan of the run; only the lock of an orphan expires.   *)
LEMMA KillKeeps ==
  ASSUME CrInv, CrExpires \/ \E r \in CrRuns : CrKill(r)
  PROVE  CrInv'
<1>1. CASE CrExpires
  <2>1. crLock \in crKilled /\ crLock' = 0 /\ UNCHANGED <<crRows, crLast, crKilled>>
    BY <1>1 DEF CrExpires
  <2>2. CrAlive = {} /\ CrAlive' = {}
    BY <2>1 DEF CrInv, OneExecution, CrAlive
  <2>3. QED  BY <2>1, <2>2 DEF CrInv, OneExecution
<1>2. CASE \E r \in CrRuns : CrKill(r)
  <2>1. UNCHANGED <<crRows, crLast, crLock>> /\ crKilled \subseteq crKilled'
    BY <1>2 DEF CrKill
  <2>2. CrAlive' \subseteq CrAlive
    BY <2>1 DEF CrAlive
  <2>3. QED  BY <2>1, <2>2 DEF CrInv, OneExecution
<1>3. QED  BY <1>1, <1>2

LEMMA CronStep == CrInv /\ [CrNext]_crVars => CrInv'
<1> SUFFICES ASSUME CrInv, [CrNext]_crVars  PROVE CrInv'
  OBVIOUS
<1>1. CASE CrDue \/ \E r \in crAsked : CrRunNow(r)
  BY <1>1, ExecuteKeeps DEF CrDue, CrRunNow
<1>2. CASE \E r \in CrRuns : CrFinish(r)
  BY <1>2, FinishKeeps
<1>3. CASE CrExpires \/ \E r \in CrRuns : CrKill(r)
  BY <1>3, KillKeeps
<1>4. ASSUME UNCHANGED <<crRows, crLast, crLock, crKilled>>  PROVE CrInv'
  BY <1>4 DEF CrInv, OneExecution, CrAlive
<1>5. CASE \/ CrMinute \/ CrLoad \/ CrSkip \/ CrClick \/ CrToggleLog \/ CrAges \/ CrRead
           \/ \E r \in crAsked : CrAnswered(r) \/ CrLost(r)
           \/ UNCHANGED crVars
  BY <1>4, <1>5 DEF CrMinute, CrLoad, CrSkip, CrClick, CrToggleLog, CrAges, CrRead, CrAnswered,
                    CrLost, crVars, crServerVars
<1>6. QED  BY <1>1, <1>2, <1>3, <1>5 DEF CrNext

\* CronJobExecutor's cache lock: the scheduler and any number of "run now" requests
\* leave one execution of a job at work, a killed executor aside.
THEOREM OneExecutionAtATime == CrSpec => []OneExecution
<1>1. CrInv => OneExecution
  BY DEF CrInv
<1>2. QED  BY <1>1, CronInit, CronStep, PTL DEF CrSpec

(* Both sets are finite, so that their cardinalities are numbers.           *)
LEMMA QuotaFinite ==
  ASSUME QuotaInv
  PROVE  /\ IsFiniteSet(hqRows) /\ Cardinality(hqRows) \in Nat
         /\ IsFiniteSet(hqPassed) /\ Cardinality(hqPassed) \in Nat
<1>1. IsFiniteSet(hqRows) /\ IsFiniteSet(hqPassed)
  BY FS_Subset, HqAssumption DEF QuotaInv
<1>2. QED  BY <1>1, FS_CardinalityType

(* A request leaves the set of those that have passed the check.            *)
LEMMA PassedShrinks ==
  ASSUME QuotaInv, NEW r \in hqPassed
  PROVE  Cardinality(hqPassed \ {r}) = Cardinality(hqPassed) - 1
BY QuotaFinite, FS_RemoveElement

LEMMA QuotaInit == HqInit => QuotaInv
<1> SUFFICES ASSUME HqInit  PROVE QuotaInv
  OBVIOUS
<1>1. Cardinality(hqPassed) = 0
  BY FS_EmptySet DEF HqInit
<1>2. /\ hqRows \subseteq HqNames /\ hqPassed \subseteq HqRequests
      /\ hqFor \in [HqRequests -> HqNames] /\ hqPeak = 1
      /\ Cardinality(hqRows) <= HqMax
  BY DEF HqInit
<1>3. Cardinality(hqRows) \in Nat
  BY <1>2, HqAssumption, FS_Subset, FS_CardinalityType
<1>4. QED  BY <1>1, <1>2, <1>3, HqAssumption DEF QuotaInv

(* The check passes only below the limit, where nothing is claimed.         *)
LEMMA CheckKeeps ==
  ASSUME QuotaInv, NEW r \in HqRequests, HqCheck(r)
  PROVE  QuotaInv'
<1>1. Cardinality(hqPassed') = Cardinality(hqPassed) + 1
  BY QuotaFinite, FS_AddElement DEF HqCheck
<1>2. hqPeak' \in Nat \ {0} /\ Cardinality(hqPassed') <= hqPeak'
  BY <1>1, QuotaFinite DEF HqCheck, QuotaInv
<1>3. Cardinality(hqRows') < HqMax /\ hqRows' = hqRows
  BY DEF HqCheck, HqMayCreate, HqBelow
<1>4. ~(Cardinality(hqRows') >= HqMax)
  BY <1>3, QuotaFinite, HqAssumption
<1>5. hqPassed' \subseteq HqRequests /\ hqFor' = hqFor
  BY DEF HqCheck, QuotaInv
<1>6. QED  BY <1>2, <1>3, <1>4, <1>5 DEF QuotaInv

(* A row takes the place of a request, or of nothing when it was there.     *)
LEMMA CommitKeeps ==
  ASSUME QuotaInv, NEW r \in HqRequests, HqCommit(r)
  PROVE  QuotaInv'
<1> DEFINE n == hqFor[r]
<1>1. Cardinality(hqPassed') = Cardinality(hqPassed) - 1
  BY PassedShrinks DEF HqCommit
<1>2. Cardinality(hqRows') \in {Cardinality(hqRows), Cardinality(hqRows) + 1}
  BY QuotaFinite, FS_AddElement DEF HqCommit
<1>3. /\ hqRows' \subseteq HqNames /\ hqPassed' \subseteq HqRequests
      /\ hqFor' = hqFor /\ hqPeak' = hqPeak
  BY DEF HqCommit, QuotaInv
<1>4. /\ hqPeak \in Nat \ {0} /\ Cardinality(hqPassed) <= hqPeak
      /\ Cardinality(hqRows) >= HqMax =>
            Cardinality(hqRows) + Cardinality(hqPassed) <= HqMax + hqPeak - 1
  BY DEF QuotaInv
<1>5. /\ Cardinality(hqPassed') <= hqPeak'
      /\ Cardinality(hqRows') >= HqMax =>
            Cardinality(hqRows') + Cardinality(hqPassed') <= HqMax + hqPeak' - 1
  BY <1>1, <1>2, <1>3, <1>4, QuotaFinite, HqAssumption
<1>6. QED  BY <1>3, <1>4, <1>5 DEF QuotaInv

LEMMA RollBackKeeps ==
  ASSUME QuotaInv, NEW r \in HqRequests, HqRollBack(r)
  PROVE  QuotaInv'
<1>1. Cardinality(hqPassed') = Cardinality(hqPassed) - 1
  BY PassedShrinks DEF HqRollBack
<1>2. /\ hqRows' = hqRows /\ hqPassed' \subseteq HqRequests
      /\ hqFor' = hqFor /\ hqPeak' = hqPeak
  BY DEF HqRollBack, QuotaInv
<1>3. QED  BY <1>1, <1>2, QuotaFinite, HqAssumption DEF QuotaInv

LEMMA DeleteKeeps ==
  ASSUME QuotaInv, NEW n \in HqNames, HqDelete(n)
  PROVE  QuotaInv'
<1>1. Cardinality(hqRows') = Cardinality(hqRows) - 1
  BY QuotaFinite, FS_RemoveElement DEF HqDelete
<1>2. /\ hqRows' \subseteq HqNames /\ hqPassed' = hqPassed
      /\ hqFor' = hqFor /\ hqPeak' = hqPeak
  BY DEF HqDelete, QuotaInv
<1>3. QED  BY <1>1, <1>2, QuotaFinite, HqAssumption DEF QuotaInv

LEMMA QuotaStep == QuotaInv /\ [HqNext]_hqVars => QuotaInv'
<1> SUFFICES ASSUME QuotaInv, [HqNext]_hqVars  PROVE QuotaInv'
  OBVIOUS
<1>1. ASSUME NEW r \in HqRequests, HqCheck(r)     PROVE QuotaInv'
  BY <1>1, CheckKeeps
<1>2. ASSUME NEW r \in HqRequests, HqCommit(r)    PROVE QuotaInv'
  BY <1>2, CommitKeeps
<1>3. ASSUME NEW r \in HqRequests, HqRollBack(r)  PROVE QuotaInv'
  BY <1>3, RollBackKeeps
<1>4. ASSUME NEW n \in HqNames, HqDelete(n)       PROVE QuotaInv'
  BY <1>4, DeleteKeeps
<1>5. CASE UNCHANGED hqVars
  BY <1>5 DEF hqVars, QuotaInv
<1>6. QED  BY <1>1, <1>2, <1>3, <1>4, <1>5 DEF HqNext

LEMMA QuotaBounds == QuotaInv => OverrunBounded
<1> SUFFICES ASSUME QuotaInv  PROVE OverrunBounded
  OBVIOUS
<1>1. hqPeak \in Nat \ {0}
  BY DEF QuotaInv
<1>2. CASE Cardinality(hqRows) < HqMax
  BY <1>1, <1>2, QuotaFinite, HqAssumption DEF OverrunBounded
<1>3. CASE Cardinality(hqRows) >= HqMax
  BY <1>1, <1>3, QuotaFinite, HqAssumption DEF OverrunBounded, QuotaInv
<1>4. QED  BY <1>2, <1>3, QuotaFinite, HqAssumption

\* HostingQuotaService counts before the engine is asked and the row is inserted;
\* for every limit and every number of requests the overrun is bounded all the same.
THEOREM QuotaOverrunBounded == HqSpec => []OverrunBounded
<1>1. HqSpec => []QuotaInv
  BY QuotaInit, QuotaStep, PTL DEF HqSpec
<1>2. QED  BY <1>1, QuotaBounds, PTL

-----------------------------------------------------------------------------
(* One update of the panel                                                   *)

(* A run whose script is at work, or will be.                                *)
PuLive(r) == \/ puJob[r] = "due"
             \/ puJob[r] = "waits" /\ puScript[r] = "none"
             \/ puScript[r] = "runs"

PuTyped ==
    /\ puRows \in [PuRuns -> {"none", "queued", "running", "success", "failed"}]
    /\ puJob \in [PuRuns -> {"none", "due", "waits", "over", "dead"}]
    /\ puScript \in [PuRuns -> {"none", "runs", "done", "failed", "crashed"}]
    /\ puLock \in PuRuns \cup {0}
    /\ puInstalled \in BOOLEAN
    /\ puModal \in [run : PuRuns \cup {0},
                    phase : {"none", "queued", "running", "success", "failed"}]
    /\ puModal.phase # "none" => puModal.run \in PuRuns

(* The one run that is not over is the only one that may be at work, and the *)
(* lock names it while its script runs.                                      *)
PuOneLive ==
    /\ \A r, s \in PuActive(puRows) : r = s
    /\ \A r \in PuRuns : PuLive(r) => r \in PuActive(puRows)
    /\ \A r \in PuRuns : puJob[r] = "due" => puRows[r] = "queued"
    /\ \A r \in PuRuns : puScript[r] = "runs" => puLock = r

(* Runs are numbered in the order they are made.                             *)
PuUsed(k) == \A r \in PuRuns : /\ puRows[r] # "none" <=> r <= k
                               /\ puRows[r] = "none" => puJob[r] = "none"
                               /\ puJob[r] \in {"none", "due"} => puScript[r] = "none"

(* A success, in the row or in the dialog, is one.                           *)
PuSuccess ==
    /\ \A r \in PuRuns : puRows[r] = "success" \/ puScript[r] = "done" => puInstalled
    /\ UpdateShownIsInstalled

PuInv == PuTyped /\ PuOneLive /\ (\E k \in 0..PuMaxRuns : PuUsed(k)) /\ PuSuccess

LEMMA UpdateInit == PuInit => PuInv
<1> SUFFICES ASSUME PuInit PROVE PuInv
  OBVIOUS
<1>1. PuTyped /\ PuOneLive /\ PuSuccess
  BY DEF PuInit, PuTyped, PuOneLive, PuActive, PuIsActive, PuLive, PuSuccess,
         UpdateShownIsInstalled, PuClosed
<1>2. PuUsed(0) /\ 0 \in 0..PuMaxRuns
  BY PuBoundsAssumption DEF PuInit, PuUsed, PuRuns
<1> QED BY <1>1, <1>2 DEF PuInv

LEMMA LatestIsNewest ==
    ASSUME NEW S \in SUBSET PuRuns, NEW k \in S, \A s \in S : s <= k
    PROVE  PuLatest(S) = k
<1> DEFINE newest(r) == r \in S /\ \A s \in S : s <= r
<1>1. newest(k) /\ \A r : newest(r) => r = k
  <2>1. \A s \in S : s \in Int
    BY DEF PuRuns
  <2> QED BY <2>1
<1> QED BY <1>1 DEF PuLatest

(* What the reconciler closes is not at work.                                *)
LEMMA ReconciledRows ==
    ASSUME PuInv, NEW old \in BOOLEAN, PuOld(old)
    PROVE  LET rows == PuReconciled(old)
           IN /\ rows \in [PuRuns -> {"none", "queued", "running", "success", "failed"}]
              /\ \A r \in PuRuns : rows[r] = puRows[r] \/ (/\ r \in PuActive(puRows) /\ ~PuLive(r)
                                                           /\ rows[r] \in {"success", "failed"}
                                                           /\ rows[r] = "success" => puInstalled)
<1> DEFINE r == PuLatest(PuActive(puRows))
           verdict == IF puRows[r] = "queued" THEN "failed" ELSE PuOutcome
           rows == PuReconciled(old)
<1>1. CASE r = 0 \/ puFlag \/ puLock # 0 \/ ~old
  BY <1>1 DEF PuReconciled, PuInv, PuTyped
<1>2. CASE ~(r = 0 \/ puFlag \/ puLock # 0 \/ ~old)
  <2>1. rows = [puRows EXCEPT ![r] = verdict]
    BY <1>2 DEF PuReconciled
  <2>2. r \in PuActive(puRows)
    <3>1. PICK x \in PuActive(puRows) : TRUE
      BY <1>2 DEF PuLatest
    <3>2. x \in PuRuns /\ \A s \in PuActive(puRows) : s <= x
      BY <3>1 DEF PuInv, PuOneLive, PuActive, PuRuns
    <3> QED BY <3>1, <3>2, LatestIsNewest DEF PuActive
  <2>3. r \in PuRuns /\ puLock # r
    BY <1>2, <2>2 DEF PuActive, PuRuns
  <2>4. ~PuLive(r)
    BY <1>2, <2>2, <2>3
       DEF PuOld, PuLive, PuInv, PuTyped, PuOneLive, PuActive, PuIsActive
  <2>5. verdict \in {"success", "failed"} /\ (verdict = "success" => puInstalled)
    BY DEF PuOutcome, PuByVersion
  <2> HIDE DEF r, verdict
  <2> QED BY <2>1, <2>2, <2>3, <2>4, <2>5 DEF PuInv, PuTyped
<1> QED BY <1>1, <1>2

LEMMA ReadKeepsUpdates ==
    ASSUME PuInv, NEW old \in BOOLEAN, PuOld(old), puRows' = PuReconciled(old),
           UNCHANGED <<puJob, puScript, puLock, puInstalled, puModal>>
    PROVE  PuInv'
<1>1. /\ puRows' \in [PuRuns -> {"none", "queued", "running", "success", "failed"}]
      /\ \A r \in PuRuns : puRows'[r] = puRows[r] \/ (/\ r \in PuActive(puRows) /\ ~PuLive(r)
                                                      /\ puRows'[r] \in {"success", "failed"}
                                                      /\ puRows'[r] = "success" => puInstalled)
  BY ReconciledRows
<1>2. \A r \in PuRuns : PuLive(r)' = PuLive(r)
  BY DEF PuLive
<1>3. PuTyped' /\ PuSuccess'
  BY <1>1 DEF PuInv, PuTyped, PuSuccess, UpdateShownIsInstalled
<1>4. PuOneLive'
  <2>1. \A r \in PuRuns : r \in PuActive(puRows)' => r \in PuActive(puRows)
    BY <1>1 DEF PuActive, PuIsActive
  <2>2. \A r \in PuRuns : PuLive(r)' => r \in PuActive(puRows)'
    BY <1>1, <1>2 DEF PuActive, PuIsActive, PuInv, PuOneLive
  <2>3. \A r \in PuRuns : puJob'[r] = "due" => puRows'[r] = "queued"
    BY <1>1 DEF PuInv, PuOneLive, PuLive
  <2> QED BY <2>1, <2>2, <2>3 DEF PuInv, PuOneLive, PuActive
<1>5. \E k \in 0..PuMaxRuns : PuUsed(k)'
  <2>1. PICK k \in 0..PuMaxRuns : PuUsed(k)
    BY DEF PuInv
  <2>2. \A r \in PuRuns : puRows'[r] # "none" <=> puRows[r] # "none"
    BY <1>1 DEF PuActive, PuIsActive
  <2> QED BY <2>1, <2>2 DEF PuUsed
<1> QED BY <1>3, <1>4, <1>5 DEF PuInv

(* A run is made only when none is left open: none is at work then.          *)
LEMMA CreateKeepsUpdates ==
    ASSUME PuInv, NEW old \in BOOLEAN, PuCreate(old)
    PROVE  PuInv'
<1> DEFINE rows == PuReconciled(old)
           new == PuLatest({r \in PuRuns : puRows[r] # "none"}) + 1
<1>1. CASE /\ ~PuRefused(rows) /\ ~puInstalled /\ new \in PuRuns
           /\ puRows' = [rows EXCEPT ![new] = "queued"]
           /\ puJob' = [puJob EXCEPT ![new] = "due"]
           /\ puModal' = [run |-> new, phase |-> "running"]
  <2>1. UNCHANGED <<puScript, puLock, puInstalled>> /\ PuOld(old)
    BY DEF PuCreate
  <2>2. /\ rows \in [PuRuns -> {"none", "queued", "running", "success", "failed"}]
        /\ \A r \in PuRuns : rows[r] = puRows[r] \/ (/\ r \in PuActive(puRows) /\ ~PuLive(r)
                                                     /\ rows[r] \in {"success", "failed"}
                                                     /\ rows[r] = "success" => puInstalled)
    BY <2>1, ReconciledRows
  <2>3. PICK k \in 0..PuMaxRuns : PuUsed(k)
    BY DEF PuInv
  <2>4. new = k + 1
    <3>1. CASE k = 0
      <4>1. {r \in PuRuns : puRows[r] # "none"} = {}
        BY <2>3, <3>1 DEF PuUsed, PuRuns
      <4> QED BY <3>1, <4>1 DEF PuLatest
    <3>2. CASE k # 0
      <4> DEFINE S == {r \in PuRuns : puRows[r] # "none"}
      <4>1. S \in SUBSET PuRuns /\ k \in S /\ \A s \in S : s <= k
        BY <2>3, <3>2, PuBoundsAssumption DEF PuUsed, PuRuns
      <4> HIDE DEF S
      <4>2. PuLatest(S) = k
        BY <4>1, LatestIsNewest
      <4> QED BY <4>2 DEF S
    <3> QED BY <3>1, <3>2
  <2> HIDE DEF rows, new
  <2>5. /\ new \in PuRuns /\ new \in Nat /\ k \in Nat
        /\ puRows[new] = "none" /\ puJob[new] = "none" /\ puScript[new] = "none"
    BY <1>1, <2>3, <2>4, PuBoundsAssumption DEF PuUsed, PuRuns
  <2>6. \A r \in PuRuns : rows[r] \notin {"queued", "running"}
    BY <1>1 DEF PuRefused, PuUpdating, PuActive, PuIsActive
  <2>7. \A r \in PuRuns : ~PuLive(r)
    BY <2>2, <2>6 DEF PuInv, PuOneLive, PuActive, PuIsActive
  <2>8. \A r \in PuRuns : /\ puRows'[r] = IF r = new THEN "queued" ELSE rows[r]
                          /\ puJob'[r] = IF r = new THEN "due" ELSE puJob[r]
                          /\ puScript'[r] = puScript[r]
    BY <1>1, <2>1, <2>2 DEF PuInv, PuTyped
  <2>9. PuTyped'
    BY <1>1, <2>1, <2>2 DEF PuInv, PuTyped
  <2>10. PuOneLive'
    <3>1. \A r \in PuRuns : r \in PuActive(puRows)' <=> r = new
      BY <2>5, <2>6, <2>8 DEF PuActive, PuIsActive
    <3>2. \A r \in PuRuns : r # new => ~PuLive(r)'
      BY <2>7, <2>8 DEF PuLive
    <3>3. \A r \in PuRuns : puScript'[r] # "runs" /\ (puJob'[r] = "due" => r = new)
      BY <2>7, <2>8 DEF PuLive
    <3>4. puRows'[new] = "queued"
      BY <2>5, <2>8
    <3> QED BY <3>1, <3>2, <3>3, <3>4 DEF PuOneLive, PuActive
  <2>11. k + 1 \in 0..PuMaxRuns /\ PuUsed(k + 1)'
    <3>1. \A r \in PuRuns : rows[r] # "none" <=> puRows[r] # "none"
      BY <2>2 DEF PuActive, PuIsActive
    <3>2. k + 1 \in 0..PuMaxRuns
      BY <2>4, <2>5 DEF PuRuns
    <3>3. \A r \in PuRuns : r <= k + 1 <=> r <= k \/ r = new
      BY <2>4, <2>5 DEF PuRuns
    <3>4. ASSUME NEW r \in PuRuns
          PROVE  /\ puRows'[r] # "none" <=> r <= k + 1
                 /\ puRows'[r] = "none" => puJob'[r] = "none"
                 /\ puJob'[r] \in {"none", "due"} => puScript'[r] = "none"
      BY <2>3, <2>5, <2>8, <3>1, <3>3 DEF PuUsed
    <3> QED BY <2>4, <2>5, <3>2, <3>4 DEF PuUsed
  <2>12. PuSuccess'
    BY <1>1, <2>1, <2>2, <2>8 DEF PuInv, PuSuccess, UpdateShownIsInstalled
  <2> QED BY <2>9, <2>10, <2>11, <2>12 DEF PuInv
<1>2. CASE puRows' = rows /\ UNCHANGED <<puJob, puModal>>
  BY <1>2, ReadKeepsUpdates DEF PuCreate
<1> QED BY <1>1, <1>2 DEF PuCreate

LEMMA JobStartKeepsUpdates ==
    ASSUME PuInv, NEW r \in PuRuns, PuJobStart(r)
    PROVE  PuInv'
<1>1. r \in PuActive(puRows) /\ puJob[r] = "due" /\ puScript[r] = "none"
  BY DEF PuInv, PuOneLive, PuLive, PuUsed, PuJobStart
<1>2. /\ puRows' = [puRows EXCEPT ![r] = "running"]
      /\ puJob' = [puJob EXCEPT ![r] = "waits"]
      /\ UNCHANGED <<puScript, puLock, puInstalled, puModal>>
  BY <1>1 DEF PuJobStart, PuActive, puPageVars
<1>3. \A s \in PuRuns : /\ puRows'[s] = IF s = r THEN "running" ELSE puRows[s]
                        /\ puJob'[s] = IF s = r THEN "waits" ELSE puJob[s]
  BY <1>2 DEF PuInv, PuTyped
<1>4. PuTyped' /\ PuSuccess'
  BY <1>2, <1>3 DEF PuInv, PuTyped, PuSuccess, UpdateShownIsInstalled
<1>5. PuOneLive'
  BY <1>1, <1>2, <1>3 DEF PuInv, PuOneLive, PuLive, PuActive, PuIsActive
<1>6. \E k \in 0..PuMaxRuns : PuUsed(k)'
  <2>1. PICK k \in 0..PuMaxRuns : PuUsed(k)
    BY DEF PuInv
  <2>2. PuUsed(k)'
    BY <1>1, <1>2, <1>3, <2>1 DEF PuUsed, PuActive, PuIsActive
  <2> QED BY <2>2
<1> QED BY <1>4, <1>5, <1>6 DEF PuInv

(* No other script is found at work, so the lock is free.                    *)
LEMMA ScriptStartKeepsUpdates ==
    ASSUME PuInv, NEW r \in PuRuns, PuScriptStart(r)
    PROVE  PuInv'
<1>1. puJob[r] = "waits" /\ puScript[r] = "none" /\ r \in PuActive(puRows)
  BY DEF PuScriptStart, PuInv, PuOneLive, PuLive
<1>2. \A s \in PuRuns : PuLive(s) => s = r
  BY <1>1 DEF PuInv, PuOneLive
<1>3. \A s \in PuRuns : puScript[s] # "runs"
  BY <1>1, <1>2 DEF PuLive
<1>4. ~(puLock # 0 /\ puScript[puLock] = "runs")
  BY <1>3 DEF PuInv, PuTyped
<1>5. /\ puScript' = [puScript EXCEPT ![r] = "runs"] /\ puLock' = r
      /\ UNCHANGED <<puRows, puJob, puInstalled, puModal>>
  BY <1>4 DEF PuScriptStart, puPageVars
<1>6. \A s \in PuRuns : puScript'[s] = IF s = r THEN "runs" ELSE puScript[s]
  BY <1>5 DEF PuInv, PuTyped
<1>7. PuTyped' /\ PuSuccess'
  BY <1>5, <1>6 DEF PuInv, PuTyped, PuSuccess, UpdateShownIsInstalled
<1>8. PuOneLive'
  BY <1>1, <1>2, <1>3, <1>5, <1>6 DEF PuInv, PuOneLive, PuLive, PuActive
<1>9. \E k \in 0..PuMaxRuns : PuUsed(k)'
  BY <1>1, <1>5, <1>6 DEF PuInv, PuUsed
<1> QED BY <1>7, <1>8, <1>9 DEF PuInv

LEMMA ScriptEndKeepsUpdates ==
    ASSUME PuInv, NEW r \in PuRuns, PuScriptEnd(r)
    PROVE  PuInv'
<1>1. PICK result \in {"done", "failed"} :
        /\ puScript' = [puScript EXCEPT ![r] = result]
        /\ result = "done" => puInstalled'
        /\ puInstalled => puInstalled'
        /\ puInstalled' \in BOOLEAN
  <2>1. CASE puInstalled' = TRUE /\ puScript' = [puScript EXCEPT ![r] = "done"]
    BY <2>1
  <2>2. CASE puInstalled' \in {puInstalled, TRUE} /\ puScript' = [puScript EXCEPT ![r] = "failed"]
    BY <2>2 DEF PuInv, PuTyped
  <2> QED BY <2>1, <2>2 DEF PuScriptEnd
<1>2. /\ puScript[r] = "runs" /\ puLock' = 0
      /\ UNCHANGED <<puRows, puJob, puModal>>
  BY DEF PuScriptEnd, puPageVars
<1>3. \A s \in PuRuns : puScript[s] = "runs" => s = r
  BY <1>2 DEF PuInv, PuOneLive, PuLive
<1>4. \A s \in PuRuns : puScript'[s] = IF s = r THEN result ELSE puScript[s]
  BY <1>1 DEF PuInv, PuTyped
<1>5. PuTyped' /\ PuSuccess'
  BY <1>1, <1>2, <1>4 DEF PuInv, PuTyped, PuSuccess, UpdateShownIsInstalled
<1>6. PuOneLive'
  BY <1>2, <1>3, <1>4 DEF PuInv, PuOneLive, PuLive, PuActive
<1>7. \E k \in 0..PuMaxRuns : PuUsed(k)'
  BY <1>2, <1>4 DEF PuInv, PuUsed
<1> QED BY <1>5, <1>6, <1>7 DEF PuInv

LEMMA JobEndKeepsUpdates ==
    ASSUME PuInv, NEW r \in PuRuns, PuJobEnd(r)
    PROVE  PuInv'
<1> DEFINE verdict == IF puScript[r] = "done" THEN "success" ELSE "failed"
<1>1. /\ puRows' = [puRows EXCEPT ![r] = verdict] /\ puJob' = [puJob EXCEPT ![r] = "over"]
      /\ UNCHANGED <<puScript, puLock, puInstalled, puModal>>
      /\ puScript[r] \in {"done", "failed"} /\ puJob[r] = "waits"
  BY DEF PuJobEnd, puPageVars
<1>2. verdict \in {"success", "failed"} /\ (verdict = "success" => puInstalled)
  BY DEF PuInv, PuSuccess
<1> HIDE DEF verdict
<1>3. \A s \in PuRuns : /\ puRows'[s] = IF s = r THEN verdict ELSE puRows[s]
                        /\ puJob'[s] = IF s = r THEN "over" ELSE puJob[s]
  BY <1>1 DEF PuInv, PuTyped
<1>4. PuTyped' /\ PuSuccess'
  BY <1>1, <1>2, <1>3 DEF PuInv, PuTyped, PuSuccess, UpdateShownIsInstalled
<1>5. PuOneLive'
  BY <1>1, <1>2, <1>3 DEF PuInv, PuOneLive, PuLive, PuActive, PuIsActive
<1>6. \E k \in 0..PuMaxRuns : PuUsed(k)'
  <2>1. PICK k \in 0..PuMaxRuns : PuUsed(k)
    BY DEF PuInv
  <2>2. PuUsed(k)'
    BY <1>1, <1>2, <1>3, <2>1 DEF PuUsed
  <2> QED BY <2>2
<1> QED BY <1>4, <1>5, <1>6 DEF PuInv

LEMMA KilledKeepsUpdates ==
    ASSUME PuInv, NEW r \in PuRuns, PuJobKilled(r)
    PROVE  PuInv'
<1>1. /\ puJob[r] \in {"due", "waits"} /\ puJob' = [puJob EXCEPT ![r] = "dead"]
      /\ UNCHANGED <<puRows, puLock, puInstalled, puModal>>
  BY DEF PuJobKilled, puPageVars
<1>2. \A s \in PuRuns :
        /\ puJob'[s] = IF s = r THEN "dead" ELSE puJob[s]
        /\ puScript'[s] = IF s = r /\ puJob[r] = "waits" /\ puScript[r] = "none"
                          THEN "crashed" ELSE puScript[s]
  BY <1>1 DEF PuJobKilled, PuInv, PuTyped
<1>3. PuTyped' /\ PuSuccess'
  BY <1>1, <1>2 DEF PuJobKilled, PuInv, PuTyped, PuSuccess, UpdateShownIsInstalled
<1>4. PuOneLive'
  BY <1>1, <1>2 DEF PuInv, PuOneLive, PuLive, PuActive
<1>5. \E k \in 0..PuMaxRuns : PuUsed(k)'
  <2>1. PICK k \in 0..PuMaxRuns : PuUsed(k)
    BY DEF PuInv
  <2>2. PuUsed(k)'
    BY <1>1, <1>2, <2>1 DEF PuUsed
  <2> QED BY <2>2
<1> QED BY <1>3, <1>4, <1>5 DEF PuInv

LEMMA RebootKeepsUpdates ==
    ASSUME PuInv, PuReboot
    PROVE  PuInv'
<1>1. UNCHANGED <<puRows, puInstalled, puModal>> /\ puLock' = 0
  BY DEF PuReboot, puPageVars
<1>2. \A s \in PuRuns :
        /\ puJob'[s] = IF puJob[s] \in {"due", "waits"} THEN "dead" ELSE puJob[s]
        /\ puScript'[s] = IF puScript[s] = "runs" THEN "crashed" ELSE puScript[s]
  BY DEF PuReboot
<1>3. PuTyped' /\ PuSuccess'
  BY <1>1, <1>2 DEF PuReboot, PuInv, PuTyped, PuSuccess, UpdateShownIsInstalled
<1>4. PuOneLive'
  BY <1>1, <1>2 DEF PuInv, PuOneLive, PuLive, PuActive
<1>5. \E k \in 0..PuMaxRuns : PuUsed(k)'
  <2>1. PICK k \in 0..PuMaxRuns : PuUsed(k)
    BY DEF PuInv
  <2>2. PuUsed(k)'
    BY <1>1, <1>2, <2>1 DEF PuUsed
  <2> QED BY <2>2
<1> QED BY <1>3, <1>4, <1>5 DEF PuInv

LEMMA UpdateStep == PuInv /\ [PuNext]_puVars => PuInv'
<1> SUFFICES ASSUME PuInv, [PuNext]_puVars PROVE PuInv'
  OBVIOUS
<1> DEFINE Modal(m) == /\ m \in [run : PuRuns \cup {0},
                                 phase : {"none", "queued", "running", "success", "failed"}]
                       /\ m.phase # "none" => m.run \in PuRuns
                       /\ m.phase = "success" => puInstalled
<1>1. ASSUME UNCHANGED <<puRows, puJob, puScript, puLock, puInstalled>>, Modal(puModal')
      PROVE  PuInv'
  <2>1. PuTyped'
    BY <1>1 DEF PuInv, PuTyped
  <2>2. PuOneLive'
    BY <1>1 DEF PuInv, PuOneLive, PuLive, PuActive
  <2>3. (\E k \in 0..PuMaxRuns : PuUsed(k))'
    BY <1>1 DEF PuInv, PuUsed
  <2>4. PuSuccess'
    BY <1>1 DEF PuInv, PuSuccess, UpdateShownIsInstalled
  <2> QED BY <2>1, <2>2, <2>3, <2>4 DEF PuInv
<1>2. CASE UNCHANGED puVars \/ PuApply \/ PuReadRun \/ PuClose
  <2>1. Modal(puModal) /\ Modal(PuClosed)
    BY DEF PuInv, PuTyped, PuSuccess, UpdateShownIsInstalled, PuClosed
  <2> HIDE DEF Modal
  <2> QED BY <1>1, <1>2, <2>1 DEF puVars, puServerVars, puPageVars, PuApply, PuReadRun, PuClose, PuClosed
<1>3. CASE PuModalPolls
  <2>1. Modal(puModal')
    BY <1>3 DEF PuModalPolls, PuInv, PuTyped, PuSuccess
  <2> QED BY <1>1, <1>3, <2>1 DEF PuModalPolls, puServerVars
<1>4. ASSUME NEW old \in BOOLEAN, PuCreate(old) \/ PuRead(old)
      PROVE  PuInv'
  BY <1>4, CreateKeepsUpdates, ReadKeepsUpdates DEF PuRead
<1>5. ASSUME NEW r \in PuRuns, PuWork(r) \/ PuJobKilled(r)
      PROVE  PuInv'
  BY <1>5, JobStartKeepsUpdates, ScriptStartKeepsUpdates, ScriptEndKeepsUpdates,
     JobEndKeepsUpdates, KilledKeepsUpdates DEF PuWork
<1>6. CASE PuReboot
  BY <1>6, RebootKeepsUpdates
<1> QED BY <1>2, <1>3, <1>4, <1>5, <1>6 DEF PuNext

LEMMA UpdateInvariant == PuSpec => []PuInv
BY UpdateInit, UpdateStep, PTL DEF PuSpec

LEMMA AtMostOneMember ==
    ASSUME NEW S, \A x, y \in S : x = y
    PROVE  Cardinality(S) <= 1
<1>1. CASE S = {}
  BY <1>1, FS_EmptySet
<1>2. CASE S # {}
  <2>1. PICK x \in S : TRUE
    BY <1>2
  <2>2. S = {x}
    BY <2>1
  <2> QED BY <2>2, FS_Singleton
<1> QED BY <1>1, <1>2

LEMMA UpdatesAreOne == PuInv => OneUpdate
<1> SUFFICES ASSUME PuInv PROVE OneUpdate
  OBVIOUS
<1>1. Cardinality(PuActive(puRows)) <= 1
  BY AtMostOneMember DEF PuInv, PuOneLive
<1>2. Cardinality({r \in PuRuns : puScript[r] = "runs"}) <= 1
  <2>1. \A r, s \in {x \in PuRuns : puScript[x] = "runs"} : r = s
    BY DEF PuInv, PuOneLive
  <2> QED BY <2>1, AtMostOneMember
<1> QED BY <1>1, <1>2 DEF OneUpdate

(* However often the page asks, jobs are killed and the host reboots, one   *)
(* update is open and one script at work: whoever closes a run finds no     *)
(* flag and no lock, and no run is made while one is open.                  *)
THEOREM OneUpdateAtATime == PuSpec => []OneUpdate
BY UpdateInvariant, UpdatesAreOne, PTL

(* The dialog calls an update successful only when the version is installed, *)
(* whether the job or the reconciler closed the run.                         *)
THEOREM ShownUpdateIsInstalled == PuSpec => []UpdateShownIsInstalled
<1>1. PuInv => UpdateShownIsInstalled
  BY DEF PuInv, PuSuccess
<1> QED BY <1>1, UpdateInvariant, PTL
-----------------------------------------------------------------------------
(* The security page                                                         *)

(* A query to be read, or whose answer will have it read, or asked for.     *)
SeDue(q) == \/ q \in seStale
            \/ \E r \in seAsked : r.done /\ q \in SeRefreshed(r.kind)
            \/ q = "overview" /\ \E c \in seComputing : c.mine

(* The cache of the panel holds the present overview, and so will every     *)
(* request under way; what the page shows of a query is due or true.         *)
SeSettled ==
    /\ sePanel \in {-1, seFacts["overview"]}
    /\ \A c \in seComputing : c.fact = seFacts["overview"]
    /\ \A q \in SeQueries : seShown[q] \in {seFacts[q], -1} \/ SeDue(q)

(* What the queries, and the requests and changes under way, range over.    *)
SeTyped ==
    /\ DOMAIN seShown = SeQueries /\ seFacts \in [SeQueries -> Nat]
    /\ seFollowed \in SeQueries \ {"overview"}
    /\ seCrossed \in BOOLEAN
    /\ \E K : seAsked \subseteq [kind : K, done : BOOLEAN]
    /\ seComputing \subseteq [fact : Nat, mine : BOOLEAN]

SeInv ==
    /\ SeTyped
    /\ ~seCrossed => SeSettled
    /\ TickedIsListed
    /\ seScans = "running" => seList = {}

LEMMA SecurityInit == SeInit => SeInv
<1> SUFFICES ASSUME SeInit PROVE SeInv
  OBVIOUS
<1>1. SeTyped
  <2>1. seAsked \subseteq [kind : {}, done : BOOLEAN]
    BY DEF SeInit
  <2>2. DOMAIN seShown = SeQueries /\ seFacts \in [SeQueries -> Nat]
    BY DEF SeInit
  <2> QED BY <2>1, <2>2 DEF SeInit, SeTyped
<1>2. SeSettled
  BY DEF SeInit, SeSettled, SeQueries
<1> QED BY <1>1, <1>2 DEF SeInit, SeInv, TickedIsListed

SePageNext == SeOverviewNext \/ SeFormNext \/ SeScanNext

LEMMA SecurityTyped == SeTyped /\ [SePageNext]_seVars => SeTyped'
<1> SUFFICES ASSUME SeTyped, [SePageNext]_seVars  PROVE SeTyped'
  OBVIOUS
<1>1. PICK K : seAsked \subseteq [kind : K, done : BOOLEAN]
  BY DEF SeTyped
<1>2. ASSUME UNCHANGED seOverviewVars  PROVE SeTyped'
  BY <1>2 DEF SeTyped, seOverviewVars
<1>3. CASE SeFormNext \/ SeScanNext \/ UNCHANGED seVars
  BY <1>2, <1>3 DEF SeFormNext, SeFormRead, SeFormType, SeFormSave, SeScanNext, SeScan,
     SeScanFails, SeSelectAll, SeQuarantineSent, SeMoved, SeQuarantined, SeQuarantineFails,
     SeTick, SeScanAnswered, seVars
<1>4. ASSUME NEW kind, SeAsk(kind)  PROVE SeTyped'
  <2>1. seAsked' \subseteq [kind : K \cup {kind}, done : BOOLEAN]
    <3>1. [kind |-> kind, done |-> FALSE] \in [kind : K \cup {kind}, done : BOOLEAN]
      OBVIOUS
    <3>2. [kind : K, done : BOOLEAN] \subseteq [kind : K \cup {kind}, done : BOOLEAN]
      OBVIOUS
    <3>3. seAsked' = seAsked \cup {[kind |-> kind, done |-> FALSE]}
      BY <1>4 DEF SeAsk
    <3> HIDE DEF SeAsk
    <3> QED BY <1>1, <3>1, <3>2, <3>3
  <2> QED BY <1>4, <2>1 DEF SeAsk, SeTyped
<1>5. ASSUME NEW r \in seAsked, SeCarriedOut(r)  PROVE SeTyped'
  <2>1. seAsked' \subseteq [kind : K, done : BOOLEAN]
    BY <1>1, <1>5 DEF SeCarriedOut
  <2>2. seFacts' \in [SeQueries -> Nat]
    BY <1>5 DEF SeCarriedOut, SeTyped
  <2>3. UNCHANGED <<seShown, seFollowed, seComputing>> /\ seCrossed' \in BOOLEAN
    BY <1>5 DEF SeCarriedOut, SeTyped
  <2> QED BY <2>1, <2>2, <2>3 DEF SeTyped
<1>6. ASSUME NEW r \in seAsked, SeAnswered(r) \/ SeFails(r)  PROVE SeTyped'
  <2>1. seAsked' \subseteq [kind : K, done : BOOLEAN]
    BY <1>1, <1>6 DEF SeAnswered, SeFails
  <2>2. UNCHANGED <<seFacts, seShown, seFollowed>> /\ seCrossed' \in BOOLEAN
    BY <1>1, <1>6 DEF SeAnswered, SeFails, SeTyped
  <2>3. ASSUME NEW c \in seComputing  PROVE [c EXCEPT !.mine = FALSE] \in [fact : Nat, mine : BOOLEAN]
    BY DEF SeTyped
  <2>4. seComputing' \subseteq [fact : Nat, mine : BOOLEAN]
    <3>1. seComputing' = seComputing \/ seComputing' = {[c EXCEPT !.mine = FALSE] : c \in seComputing}
      BY <1>6 DEF SeAnswered, SeFails, SeInvalidate
    <3> QED BY <2>3, <3>1 DEF SeTyped
  <2> QED BY <2>1, <2>2, <2>4 DEF SeTyped
<1>7. ASSUME NEW q, SePoll(q) \/ SeRead(q)  PROVE SeTyped'
  BY <1>7 DEF SePoll, SeRead, SeTyped
<1>8. ASSUME SeOverview \/ SeExpire \/ \E tab : SeGoTo(tab)  PROVE SeTyped'
  <2>1. [fact |-> seFacts["overview"], mine |-> TRUE] \in [fact : Nat, mine : BOOLEAN]
    BY DEF SeTyped, SeQueries
  <2> QED BY <1>8, <2>1 DEF SeOverview, SeExpire, SeGoTo, SeTyped
<1>9. ASSUME NEW c \in seComputing, SeComputed(c)  PROVE SeTyped'
  BY <1>9 DEF SeComputed, SeTyped
<1> QED BY <1>3, <1>4, <1>5, <1>6, <1>7, <1>8, <1>9
        DEF SePageNext, SeOverviewNext, SeRefreshNext

(* What is done to the changes and the queries leaves the scan alone.       *)
LEMMA OverviewSide ==
    ASSUME SeInv, SeTyped', UNCHANGED seScanVars, ~seCrossed' => SeSettled'
    PROVE  SeInv'
BY DEF SeInv, seScanVars, TickedIsListed

LEMMA CarriedOutKeeps ==
    ASSUME SeInv, SeTyped', NEW r \in seAsked, SeCarriedOut(r)
    PROVE  SeInv'
<1>1. ASSUME ~seCrossed'  PROVE SeSettled'
  <2>1. ~seCrossed /\ seComputing = {} /\ seComputing' = {} /\ sePanel' = -1
    BY <1>1 DEF SeCarriedOut, SePanelAfter, SeForgotten
  <2>2. SeSettled
    BY <2>1 DEF SeInv
  <2>3. PICK s : s = [r EXCEPT !.done = TRUE]
    OBVIOUS
  <2>4. /\ seAsked' = (seAsked \ {r}) \cup {s} /\ ~r.done
        /\ seStale' = seStale /\ seShown' = seShown
        /\ seFacts' = [q \in SeQueries |-> IF q \in SeAboutAndOverview(r.kind)
                                           THEN seFacts[q] + 1 ELSE seFacts[q]]
    BY <2>3 DEF SeCarriedOut
  <2>5. ASSUME NEW q \in SeQueries, q \in SeAboutAndOverview(r.kind)
        PROVE  \E a \in seAsked' : a.done /\ q \in SeRefreshed(a.kind)
    <3>1. s \in seAsked' /\ s.done /\ s.kind = r.kind
      BY <2>3, <2>4 DEF SeInv, SeTyped
    <3> QED BY <2>5, <3>1 DEF SeRefreshed
  <2>6. ASSUME NEW q \in SeQueries, q \notin SeAboutAndOverview(r.kind)
        PROVE  seShown'[q] \in {seFacts'[q], -1} \/ SeDue(q)'
    <3>1. seFacts'[q] = seFacts[q]
      BY <2>4, <2>6
    <3>2. ASSUME NEW a \in seAsked, a.done  PROVE a \in seAsked'
      BY <2>4, <3>2
    <3> QED BY <2>1, <2>2, <2>4, <3>1, <3>2 DEF SeSettled, SeDue
  <2> QED BY <2>1, <2>4, <2>5, <2>6 DEF SeSettled, SeDue
<1> QED BY <1>1, OverviewSide DEF SeCarriedOut, SeInv

LEMMA AnsweredSettles ==
    ASSUME SeInv, SeTyped', NEW r \in seAsked, SeAnswered(r)
    PROVE  SeInv'
<1>1. ASSUME ~seCrossed'  PROVE SeSettled'
  <2>1. SeSettled
    BY <1>1 DEF SeAnswered, SeInv
  <2>2. /\ seAsked' = seAsked \ {r} /\ seStale' = seStale \cup SeRefreshed(r.kind)
        /\ UNCHANGED <<seFacts, seShown, sePanel>>
    BY DEF SeAnswered, SeInvalidate
  <2>3. /\ \A c \in seComputing' : c.fact = seFacts["overview"]
        /\ "overview" \in SeRefreshed(r.kind) \/ seComputing' = seComputing
    <3>1. ASSUME NEW c \in seComputing'  PROVE c.fact = seFacts["overview"]
      <4>1. CASE seComputing' = seComputing
        BY <2>1, <3>1, <4>1 DEF SeSettled
      <4>2. CASE seComputing' # seComputing
        <5>1. PICK d \in seComputing : c = [d EXCEPT !.mine = FALSE]
          BY <3>1, <4>2 DEF SeAnswered, SeInvalidate
        <5>2. c.fact = d.fact
          BY <5>1 DEF SeInv, SeTyped
        <5> QED BY <2>1, <5>1, <5>2 DEF SeSettled
      <4> QED BY <4>1, <4>2
    <3>2. "overview" \in SeRefreshed(r.kind) \/ seComputing' = seComputing
      BY DEF SeAnswered, SeInvalidate
    <3> QED BY <3>1, <3>2
  <2>4. ASSUME NEW q \in SeQueries  PROVE SeDue(q) => SeDue(q)'
    <3>1. ASSUME NEW a \in seAsked, a.done, q \in SeRefreshed(a.kind)
          PROVE  SeDue(q)'
      BY <2>2, <3>1 DEF SeDue
    <3> QED BY <2>2, <2>3, <3>1 DEF SeDue
  <2> QED BY <2>1, <2>2, <2>3, <2>4 DEF SeSettled
<1> QED BY <1>1, OverviewSide DEF SeAnswered, SeInv

LEMMA AskAndFailKeep ==
    ASSUME SeInv, SeTyped', (\E kind \in SeOffered : SeAsk(kind)) \/ (\E r \in seAsked : SeFails(r))
    PROVE  SeInv'
<1>1. ASSUME NEW kind, SeAsk(kind)  PROVE SeInv'
  <2>1. seAsked \subseteq seAsked' /\ UNCHANGED <<seFacts, seShown, sePanel, seStale, seComputing, seCrossed>>
    BY <1>1 DEF SeAsk
  <2>2. ~seCrossed' => SeSettled'
    BY <2>1 DEF SeInv, SeSettled, SeDue
  <2> QED BY <1>1, <2>2, OverviewSide DEF SeAsk, SeInv
<1>2. ASSUME NEW r \in seAsked, SeFails(r)  PROVE SeInv'
  <2>1. seAsked' = seAsked \ {r} /\ UNCHANGED <<seFacts, seShown, sePanel, seStale, seComputing>>
    BY <1>2 DEF SeFails
  <2>2. seCrossed' = (seCrossed \/ r.done)
    BY <1>2 DEF SeFails
  <2>3. ~seCrossed' => SeSettled'
    BY <2>1, <2>2 DEF SeInv, SeSettled, SeDue
  <2> QED BY <1>2, <2>3, OverviewSide DEF SeFails, SeInv
<1> QED BY <1>1, <1>2

LEMMA ReadsSettle ==
    ASSUME SeInv, SeTyped', NEW q \in SeQueries, SePoll(q) \/ SeRead(q)
    PROVE  SeInv'
<1>1. UNCHANGED <<seFacts, sePanel, seAsked, seComputing, seCrossed, seFollowed, seScanVars>>
  BY DEF SePoll, SeRead
<1>3. ASSUME ~seCrossed, NEW p \in SeQueries
      PROVE  seShown'[p] \in {seFacts'[p], -1} \/ SeDue(p)'
  <2>1. CASE SePoll(q)
    BY <1>1, <1>3, <2>1 DEF SePoll, SeInv, SeTyped, SeSettled, SeDue
  <2>2. CASE SeRead(q) /\ p = q
    BY <1>1, <2>2 DEF SeRead, SeInv, SeTyped
  <2>3. CASE SeRead(q) /\ p # q
    BY <1>1, <1>3, <2>3 DEF SeRead, SeInv, SeTyped, SeSettled, SeDue
  <2> QED BY <2>1, <2>2, <2>3
<1>4. ~seCrossed' => SeSettled'
  BY <1>1, <1>3 DEF SeInv, SeSettled
<1> QED BY <1>1, <1>4, OverviewSide DEF SeInv

LEMMA OverviewsSettle ==
    ASSUME SeInv, SeTyped', SeOverview \/ SeExpire \/ \E c \in seComputing : SeComputed(c)
    PROVE  SeInv'
<1>1. CASE SeOverview
  <2>1. /\ UNCHANGED <<seFacts, sePanel, seAsked, seCrossed, seFollowed, seScanVars>>
        /\ seStale' = seStale \ {"overview"}
    BY <1>1 DEF SeOverview
  <2>2. CASE sePanel # -1
    <3>1. /\ seShown' = [seShown EXCEPT !["overview"] = sePanel] /\ seComputing' = seComputing
      BY <1>1, <2>2 DEF SeOverview
    <3>2. ~seCrossed' => SeSettled'
      BY <2>1, <2>2, <3>1 DEF SeInv, SeTyped, SeSettled, SeDue, SeQueries
    <3> QED BY <2>1, <3>1, <3>2, OverviewSide DEF SeInv
  <2>3. CASE sePanel = -1
    <3>1. PICK c : c = [fact |-> seFacts["overview"], mine |-> TRUE]
      OBVIOUS
    <3>2. seComputing' = seComputing \cup {c} /\ seShown' = seShown
      BY <1>1, <2>3, <3>1 DEF SeOverview
    <3>3. ~seCrossed' => SeSettled'
      BY <2>1, <3>1, <3>2 DEF SeInv, SeTyped, SeSettled, SeDue
    <3> QED BY <2>1, <3>2, <3>3, OverviewSide DEF SeInv
  <2> QED BY <2>2, <2>3
<1>2. CASE SeExpire
  <2>1. ~seCrossed' => SeSettled'
    BY <1>2 DEF SeExpire, SeInv, SeSettled, SeDue
  <2> QED BY <1>2, <2>1, OverviewSide DEF SeExpire, SeInv
<1>3. ASSUME NEW c \in seComputing, SeComputed(c)  PROVE SeInv'
  <2>1. /\ UNCHANGED <<seFacts, seStale, seAsked, seCrossed, seFollowed, seScanVars>>
        /\ seComputing' = seComputing \ {c} /\ sePanel' = c.fact
        /\ seShown' = IF c.mine THEN [seShown EXCEPT !["overview"] = c.fact] ELSE seShown
    BY <1>3 DEF SeComputed
  <2>3. ASSUME ~seCrossed, NEW q \in SeQueries
        PROVE  seShown'[q] \in {seFacts'[q], -1} \/ SeDue(q)'
    <3>1. CASE c.mine /\ q = "overview"
      BY <2>1, <2>3, <3>1 DEF SeInv, SeTyped, SeSettled
    <3>2. CASE ~(c.mine /\ q = "overview")
      BY <2>1, <2>3, <3>2 DEF SeInv, SeTyped, SeSettled, SeDue
    <3> QED BY <3>1, <3>2
  <2>4. ~seCrossed' => SeSettled'
    BY <2>1, <2>3 DEF SeInv, SeSettled
  <2> QED BY <2>1, <2>4, OverviewSide DEF SeInv
<1> QED BY <1>1, <1>2, <1>3

(* The form and the scan leave the queries alone.                           *)
LEMMA QueriesSide ==
    ASSUME SeInv, SeTyped', UNCHANGED seOverviewVars,
           TickedIsListed', seScans' = "running" => seList' = {}
    PROVE  SeInv'
BY DEF SeInv, SeSettled, SeDue, seOverviewVars

LEMMA ScanKeeps ==
    ASSUME SeInv, SeTyped', SeScanNext
    PROVE  SeInv'
<1>1. TickedIsListed /\ (seScans = "running" => seList = {})
  BY DEF SeInv
<1>2. TickedIsListed' /\ (seScans' = "running" => seList' = {})
  <2>1. CASE \/ SeScan \/ SeScanFails \/ SeSelectAll \/ SeQuarantineSent \/ SeMoved \/ SeQuarantineFails
             \/ \E x \in SeFiles : SeTick(x)
    BY <1>1, <2>1 DEF SeScan, SeScanFails, SeSelectAll, SeQuarantineSent, SeMoved,
       SeQuarantineFails, SeTick, TickedIsListed
  <2>2. CASE SeQuarantined
    BY <1>1, <2>2 DEF SeQuarantined, TickedIsListed, SeTicksAfter, SeTicksGone
  <2>3. CASE \E ok \in BOOLEAN : SeScanAnswered(ok)
    BY <1>1, <2>3 DEF SeScanAnswered, TickedIsListed
  <2> QED BY <2>1, <2>2, <2>3 DEF SeScanNext
<1>3. UNCHANGED seOverviewVars
  BY DEF SeScanNext, SeScan, SeScanFails, SeSelectAll, SeQuarantineSent, SeMoved,
     SeQuarantined, SeQuarantineFails, SeTick, SeScanAnswered
<1> QED BY <1>2, <1>3, QueriesSide

LEMMA SecurityStep == SeInv /\ [SePageNext]_seVars => SeInv'
<1> SUFFICES ASSUME SeInv, [SePageNext]_seVars  PROVE SeInv'
  OBVIOUS
<1>0. SeTyped'
  BY SecurityTyped DEF SeInv
<1>1. CASE SeScanNext
  BY <1>0, <1>1, ScanKeeps
<1>2. CASE SeFormNext
  BY <1>0, <1>2, QueriesSide DEF SeFormNext, SeFormRead, SeFormType, SeFormSave, seScanVars, SeInv,
     TickedIsListed
<1>3. CASE UNCHANGED seVars
  BY <1>0, <1>3, QueriesSide DEF seVars, seScanVars, SeInv, TickedIsListed
<1>4. CASE \E r \in seAsked : SeCarriedOut(r) \/ SeAnswered(r)
  BY <1>0, <1>4, CarriedOutKeeps, AnsweredSettles
<1>5. CASE (\E kind \in SeOffered : SeAsk(kind)) \/ (\E r \in seAsked : SeFails(r))
  BY <1>0, <1>5, AskAndFailKeep
<1>6. ASSUME NEW tab, SeGoTo(tab)  PROVE SeInv'
  <2>1. ~seCrossed' => SeSettled'
    BY <1>6 DEF SeGoTo, SeInv, SeSettled, SeDue
  <2> QED BY <1>0, <1>6, <2>1, OverviewSide DEF SeGoTo, SeInv
<1>7. CASE \/ SePoll("overview") \/ SeRead("overview") \/ SePoll(seFollowed) \/ SeRead(seFollowed)
  <2>1. "overview" \in SeQueries /\ seFollowed \in SeQueries
    BY DEF SeQueries, SeInv, SeTyped
  <2> QED BY <1>0, <1>7, <2>1, ReadsSettle
<1>8. CASE SeOverview \/ SeExpire \/ \E c \in seComputing : SeComputed(c)
  BY <1>0, <1>8, OverviewsSettle
<1> QED BY <1>1, <1>2, <1>3, <1>4, <1>5, <1>6, <1>7, <1>8
        DEF SePageNext, SeOverviewNext, SeRefreshNext

(* An invariant that says the queries are due or true shows them true when  *)
(* nothing is under way.                                                     *)
LEMMA SettledIsTrue == SeInv => SecurityIsTrue
<1> SUFFICES ASSUME SeInv PROVE SecurityIsTrue
  OBVIOUS
<1>1. ASSUME seAsked = {}, ~seCrossed, NEW q \in {"overview", seFollowed} \ seStale,
             q = "overview" => \A c \in seComputing : ~c.mine
      PROVE  seShown[q] \in {seFacts[q], -1}
  BY <1>1 DEF SeInv, SeTyped, SeSettled, SeDue, SeQueries
<1> QED BY <1>1 DEF SecurityIsTrue, SecurityShownTrue, SeInv

-----------------------------------------------------------------------------
(* The parts beside each other                                               *)

ServicesInv == StInv /\ UpInv /\ QuotaInv /\ CrInv /\ PuInv /\ SeInv

LEMMA ServicesBegin == ServicesInit => ServicesInv
BY StoreInit, UploadsInit, QuotaInit, CronInit, UpdateInit, SecurityInit
   DEF ServicesInit, ServicesInv

(* A step of the whole is a step of one part, and none of the others.       *)
LEMMA PartsStep ==
    ASSUME [ServicesNext]_servicesVars
    PROVE  /\ [StNext]_stVars /\ [UpNext]_upVars /\ [HqNext]_hqVars
           /\ [CrNext]_crVars /\ [PuNext]_puVars /\ [SePageNext]_seVars
BY DEF ServicesNext, servicesVars, restVars, Orders, Uploads, Quota, Cron, Update, Overview,
       SePageNext, SeOverviewNext

LEMMA ServicesStep == ServicesInv /\ [ServicesNext]_servicesVars => ServicesInv'
BY PartsStep, StoreStep, UploadsStep, QuotaStep, CronStep, UpdateStep, SecurityStep
   DEF ServicesInv

LEMMA ServicesInvariant == ServicesSpec => []ServicesInv
BY ServicesBegin, ServicesStep, PTL DEF ServicesSpec

(* One execution of a cron job, and one update of the panel, for every      *)
(* number of runs, refusals, kills and reboots.                              *)
THEOREM WorkIsSingle == ServicesSpec => []OneAtWork
<1>1. ServicesInv => OneAtWork
  BY UpdatesAreOne DEF ServicesInv, CrInv, OneAtWork
<1> QED BY <1>1, ServicesInvariant, PTL

(* A success that is told, of an order or of an update, is one, whatever was *)
(* lost, repeated or killed before.                                          *)
THEOREM SuccessesAreTrue == ServicesSpec => []SuccessIsTrue
<1>1. ServicesInv => SuccessIsTrue
  BY DEF ServicesInv, StInv, PuInv, PuSuccess, SuccessIsTrue
<1> QED BY <1>1, ServicesInvariant, PTL

(* With nothing under way the security page shows what the server has,      *)
(* however many changes, polls and requests of the panel's cache went before, *)
(* and what is ticked for the quarantine is listed.                          *)
THEOREM SecurityPageIsTrue == ServicesSpec => []SecurityIsTrue
<1>1. ServicesInv => SecurityIsTrue
  BY SettledIsTrue DEF ServicesInv
<1> QED BY <1>1, ServicesInvariant, PTL

(* A poll that brings the settings it brought before leaves what is typed   *)
(* into their form: only other settings, or a save, replace it.              *)
THEOREM TypedOutlivesPolls == ServicesSpec => PollKeepsTyped
<1>1. ASSUME [SePageNext]_seVars
      PROVE  [seForm.typed /\ seSeed' = seSeed => seForm'.typed]_seVars
  <2>1. CASE SeFormNext
    BY <2>1 DEF SeFormNext, SeFormRead, SeFormType, SeFormSave, SeFilled, SeOnChange
  <2>2. ASSUME UNCHANGED seFormVars
        PROVE  seForm.typed /\ seSeed' = seSeed => seForm'.typed
    BY <2>2 DEF seFormVars
  <2>3. CASE SeScanNext
    BY <2>2, <2>3 DEF SeScanNext, SeScan, SeScanFails, SeSelectAll, SeQuarantineSent, SeMoved,
       SeQuarantined, SeQuarantineFails, SeTick, SeScanAnswered
  <2>4. CASE SeOverviewNext
    BY <2>2, <2>4 DEF SeOverviewNext, SeRefreshNext, SeOverview, SeExpire, SePoll, SeRead,
       SeComputed, SeGoTo, SeAsk, SeCarriedOut, SeAnswered, SeFails
  <2> QED BY <1>1, <2>1, <2>3, <2>4 DEF SePageNext
<1>2. [ServicesNext]_servicesVars => [seForm.typed /\ seSeed' = seSeed => seForm'.typed]_seVars
  BY <1>1, PartsStep
<1> QED BY <1>2, PTL DEF ServicesSpec, PollKeepsTyped
=============================================================================
