-------------------------- MODULE PanelSitesProofs --------------------------
(***************************************************************************)
(* What TLAPS proves of the first pages of the panel, those of packages,   *)
(* the assistant, certificates, applications, domains, cron jobs, zones,   *)
(* quick settings and PHP: their invariants are kept, for any number of    *)
(* sites, jobs, providers and requests, and for pages all parts of which   *)
(* are in use.  The inductive invariant of a page stands in the page's     *)
(* module, behind the properties it carries; the variables of the page     *)
(* that is open are v1, v2, ... in the order of its VARIABLES.             *)
(***************************************************************************)
EXTENDS MCPanelPages, FiniteSetTheorems, TLAPS

-----------------------------------------------------------------------------
(* The packages page.  v1: the rows of the runs, v2: their jobs, v4 and v5:  *)
(* the requests under way, v9: the runs told to stop.                       *)

(* Declaring rows dead changes the status of rows whose job was killed.     *)
LEMMA StackStaleRows ==
  ASSUME Sk!SkTypeOK
  PROVE  /\ Sk!SkMarkStale \in Seq(Sk!SkRow) /\ Len(Sk!SkMarkStale) = Len(v1)
         /\ \A n \in Sk!SkIds :
              LET row == Sk!SkMarkStale[n]
              IN /\ row.bundle = v1[n].bundle /\ row.cancel = v1[n].cancel
                 /\ row.status # v1[n].status => row.status = "failed" /\ v2[n].at = "killed"
<1>1. v1 \in Seq(Sk!SkRow)
  BY DEF Sk!SkTypeOK
<1>2. \A n \in 1..Len(v1) : v1[n] \in Sk!SkRow
  BY <1>1
<1>3. Sk!SkMarkStale \in [1..Len(v1) -> Sk!SkRow]
  BY <1>2 DEF Sk!SkMarkStale, Sk!SkIds, Sk!SkRow, Sk!SkOver
<1>4. QED
  BY <1>1, <1>2, <1>3 DEF Sk!SkMarkStale, Sk!SkIds, Sk!SkRow

(* A step that declares rows dead and changes neither jobs nor what is told. *)
LEMMA StackStaleStep ==
  ASSUME Sk!SkInv, v1' = Sk!SkMarkStale, UNCHANGED <<v2, v5, v9>>, v4' \subseteq v4
  PROVE  Sk!SkInv'
<1> DEFINE Ids == 1..Len(v1)
<1>1. /\ v1' \in Seq(Sk!SkRow) /\ Len(v1') = Len(v1)
      /\ \A n \in Ids :
           /\ v1'[n].bundle = v1[n].bundle /\ v1'[n].cancel = v1[n].cancel
           /\ v1'[n].status # v1[n].status => v1'[n].status = "failed" /\ v2[n].at = "killed"
  BY StackStaleRows DEF Sk!SkInv, Sk!SkIds
<1>2. Sk!SkTypeOK'
  BY <1>1 DEF Sk!SkInv, Sk!SkTypeOK, Sk!SkIds
<1>3. Sk!SkAliveIsSeen' /\ Sk!SkOlderIsTold'
  BY <1>1 DEF Sk!SkInv, Sk!SkAliveIsSeen, Sk!SkOlderIsTold, Sk!SkAlive, Sk!SkIds
<1>4. v9 \subseteq Ids /\ v9' = v9 /\ v2' = v2
  BY DEF Sk!SkInv, Sk!SkTypeOK, Sk!SkIds
<1>5. Sk!SkToldIsHeeded'
  BY <1>1, <1>4 DEF Sk!SkInv, Sk!SkToldIsHeeded, Sk!SkIds
<1>6. Sk!ToldNeverSucceeds'
  BY <1>1, <1>4 DEF Sk!SkInv, Sk!ToldNeverSucceeds
<1>7. QED  BY <1>2, <1>3, <1>5, <1>6 DEF Sk!SkInv

(* A job takes its next step.                                               *)
LEMMA StackWorkStep ==
  ASSUME Sk!SkInv, NEW n \in Sk!SkIds, Sk!SkWork(n) \/ Sk!SkKill(n)
  PROVE  Sk!SkInv'
<1>1. v1 \in Seq(Sk!SkRow) /\ v2 \in Seq(Sk!SkJob) /\ Len(v2) = Len(v1) /\ n \in 1..Len(v1)
  BY DEF Sk!SkInv, Sk!SkTypeOK, Sk!SkIds
<1>2. Len(v1) \in Nat /\ \A k \in 1..Len(v1) : v1[k] \in Sk!SkRow /\ v2[k] \in Sk!SkJob
  BY <1>1
<1>3. PICK row \in Sk!SkRow, job \in Sk!SkJob :
        /\ v1' = [v1 EXCEPT ![n] = row] /\ v2' = [v2 EXCEPT ![n] = job]
        /\ row.bundle = v1[n].bundle /\ row.cancel = v1[n].cancel
        /\ v2[n].at \notin {"over", "killed"}
        /\ \/ v2[n].at = "due" /\ row = v1[n] /\ job.at = "loaded"
           \/ v2[n].at = "due" /\ row.status = "cancelled" /\ job.at = "over"
           \/ v2[n].at = "loaded" /\ row.status = "running" /\ job.at = "installs"
           \/ v2[n].at = "installs" /\ row = v1[n] /\ job.at = "ends" /\ job.stop = v1[n].cancel
           \/ /\ v2[n].at = "ends" /\ job.at = "over"
              /\ row.status = "success" => ~v2[n].stop
           \/ row = v1[n] /\ job.at = "killed"
  <2>1. CASE Sk!SkJobLoad(n)
    <3>1. CASE v1[n].cancel
      <4>1. [v1[n] EXCEPT !.status = "cancelled"] \in Sk!SkRow /\ [v2[n] EXCEPT !.at = "over"] \in Sk!SkJob
        BY <1>2, <1>1 DEF Sk!SkRow, Sk!SkJob, Sk!SkOver
      <4>2. QED  BY <1>1, <1>2, <2>1, <3>1, <4>1 DEF Sk!SkJobLoad, Sk!SkAt, Sk!SkRow, Sk!SkJob
    <3>2. CASE ~v1[n].cancel
      <4>1. [v2[n] EXCEPT !.at = "loaded"] \in Sk!SkJob /\ v1' = [v1 EXCEPT ![n] = v1[n]]
        BY <1>2, <1>1, <2>1, <3>2 DEF Sk!SkJobLoad, Sk!SkJob
      <4>2. QED  BY <1>1, <1>2, <2>1, <3>2, <4>1 DEF Sk!SkJobLoad, Sk!SkAt, Sk!SkRow, Sk!SkJob
    <3>3. QED  BY <3>1, <3>2
  <2>2. CASE Sk!SkJobBegin(n)
    <3>1. [v1[n] EXCEPT !.status = "running"] \in Sk!SkRow /\ [v2[n] EXCEPT !.at = "installs"] \in Sk!SkJob
      BY <1>2, <1>1 DEF Sk!SkRow, Sk!SkJob, Sk!SkBusyStatus
    <3>2. QED  BY <1>1, <1>2, <2>2, <3>1 DEF Sk!SkJobBegin, Sk!SkAt, Sk!SkRow, Sk!SkJob
  <2>3. CASE Sk!SkJobEnd(n)
    <3>1. PICK ok \in BOOLEAN : v2' = [v2 EXCEPT ![n] = [at |-> "ends", ok |-> ok, stop |-> v1[n].cancel]]
      BY <2>3 DEF Sk!SkJobEnd, Sk!SkHeeded, Sk!SkStops
    <3>2. [at |-> "ends", ok |-> ok, stop |-> v1[n].cancel] \in Sk!SkJob /\ v1' = [v1 EXCEPT ![n] = v1[n]]
      BY <1>2, <1>1, <2>3 DEF Sk!SkRow, Sk!SkJob, Sk!SkJobEnd
    <3>3. QED  BY <1>1, <1>2, <2>3, <3>1, <3>2 DEF Sk!SkJobEnd
  <2>4. CASE Sk!SkJobSave(n)
    <3>1. [v1[n] EXCEPT !.status = Sk!SkVerdict(v2[n])] \in Sk!SkRow /\ [v2[n] EXCEPT !.at = "over"] \in Sk!SkJob
      BY <1>2, <1>1 DEF Sk!SkRow, Sk!SkJob, Sk!SkOver, Sk!SkVerdict
    <3>2. Sk!SkVerdict(v2[n]) = "success" => ~v2[n].stop
      BY DEF Sk!SkVerdict
    <3>3. QED  BY <1>1, <1>2, <2>4, <3>1, <3>2 DEF Sk!SkJobSave, Sk!SkAt, Sk!SkRow, Sk!SkJob
  <2>5. CASE Sk!SkKill(n)
    <3>1. [v2[n] EXCEPT !.at = "killed"] \in Sk!SkJob /\ v1' = [v1 EXCEPT ![n] = v1[n]]
      BY <1>2, <1>1, <2>5 DEF Sk!SkJob, Sk!SkKill
    <3>2. QED  BY <1>1, <1>2, <2>5, <3>1 DEF Sk!SkKill, Sk!SkAt, Sk!SkRow, Sk!SkJob
  <2>6. QED  BY <2>1, <2>2, <2>3, <2>4, <2>5 DEF Sk!SkWork
<1>4. UNCHANGED <<v4, v5, v9>>
  BY DEF Sk!SkWork, Sk!SkJobLoad, Sk!SkJobBegin, Sk!SkJobEnd, Sk!SkJobSave, Sk!SkKill, Sk!SkUnasked, Sk!skPage
<1>5. v1' \in Seq(Sk!SkRow) /\ v2' \in Seq(Sk!SkJob) /\ Len(v1') = Len(v1) /\ Len(v2') = Len(v1)
  BY <1>1, <1>2, <1>3
<1>6. \A k \in 1..Len(v1) : /\ v1'[k] = (IF k = n THEN row ELSE v1[k])
                            /\ v2'[k] = (IF k = n THEN job ELSE v2[k])
  BY <1>1, <1>2, <1>3
<1>7. Sk!SkTypeOK'
  BY <1>4, <1>5 DEF Sk!SkInv, Sk!SkTypeOK, Sk!SkIds
<1>8. Sk!SkAliveIsSeen'
  BY <1>1, <1>3, <1>5, <1>6 DEF Sk!SkInv, Sk!SkAliveIsSeen, Sk!SkAlive, Sk!SkIds, Sk!SkBusyStatus
<1>9. Sk!SkOlderIsTold'
  BY <1>1, <1>3, <1>5, <1>6 DEF Sk!SkInv, Sk!SkOlderIsTold, Sk!SkAlive, Sk!SkIds
<1>10. v9 \subseteq 1..Len(v1) /\ (n \in v9 => v1[n].cancel /\ (v2[n].at = "ends" => v2[n].stop))
  BY DEF Sk!SkInv, Sk!SkTypeOK, Sk!SkToldIsHeeded, Sk!SkIds
<1>11. \A k \in 1..Len(v1) : v1'[k].status = "success" => v2'[k].at = "over"
  BY <1>1, <1>3, <1>6 DEF Sk!SkInv, Sk!SkToldIsHeeded, Sk!SkIds
<1>12. \A k \in v9 : /\ v1'[k].cancel /\ (v2'[k].at = "ends" => v2'[k].stop)
                     /\ v1'[k].status # "success"
  BY <1>1, <1>3, <1>6, <1>10 DEF Sk!SkInv, Sk!SkToldIsHeeded, Sk!ToldNeverSucceeds, Sk!SkIds
<1>13. QED
  BY <1>4, <1>5, <1>7, <1>8, <1>9, <1>11, <1>12 DEF Sk!SkInv, Sk!SkToldIsHeeded, Sk!ToldNeverSucceeds, Sk!SkIds

(* A run is queued: nothing that is alive is without a busy row, so that     *)
(* what is older and of its package has been told to stop.                  *)
LEMMA StackQueueStep ==
  ASSUME Sk!SkInv, NEW r \in v4, Sk!SkQueue(r)
  PROVE  Sk!SkInv'
<1> DEFINE Ids == 1..Len(v1)
           rows == Sk!SkMarkStale
           new == [bundle |-> r.bundle, status |-> "queued", cancel |-> FALSE]
           job == [at |-> "due", ok |-> FALSE, stop |-> FALSE]
<1>1. /\ v1 \in Seq(Sk!SkRow) /\ v2 \in Seq(Sk!SkJob) /\ Len(v2) = Len(v1) /\ r.bundle \in Bundles
      /\ v9 \subseteq Ids /\ \A q \in v4 : q.bundle \in Bundles
  BY DEF Sk!SkInv, Sk!SkTypeOK, Sk!SkIds
<1>2. Len(v1) \in Nat /\ new \in Sk!SkRow /\ job \in Sk!SkJob
  BY <1>1 DEF Sk!SkRow, Sk!SkJob, Sk!SkBusyStatus
<1>3. /\ rows \in Seq(Sk!SkRow) /\ Len(rows) = Len(v1)
      /\ \A n \in Ids :
           /\ rows[n].bundle = v1[n].bundle /\ rows[n].cancel = v1[n].cancel
           /\ rows[n].status # v1[n].status => rows[n].status = "failed" /\ v2[n].at = "killed"
  BY StackStaleRows DEF Sk!SkInv, Sk!SkIds
<1>4. \A n \in Ids : rows[n].bundle = r.bundle => rows[n].status \notin Sk!SkBusyStatus
  <2>1. DOMAIN rows = Ids
    BY <1>3
  <2>2. ~ \E n \in DOMAIN rows : rows[n].bundle = r.bundle /\ rows[n].status \in Sk!SkBusyStatus
    BY DEF Sk!SkQueue, Sk!SkRefused, Sk!SkInstalling
  <2>3. QED  BY <2>1, <2>2
<1>5. v1' = Append(rows, new) /\ v2' = Append(v2, job) /\ v4' = {} /\ UNCHANGED <<v5, v9>> /\ Len(v1) < MaxRuns
  BY DEF Sk!SkQueue
<1> HIDE DEF rows, new, job
<1>6. /\ v1' \in Seq(Sk!SkRow) /\ v2' \in Seq(Sk!SkJob) /\ Len(v1') = Len(v1) + 1 /\ Len(v2') = Len(v1) + 1
      /\ \A n \in Ids : v1'[n] = rows[n] /\ v2'[n] = v2[n]
      /\ v1'[Len(v1) + 1] = new /\ v2'[Len(v1) + 1] = job
  BY <1>1, <1>2, <1>3, <1>5
<1>7. Ids \subseteq 1..Len(v1') /\ \A n \in 1..Len(v1') : n \in Ids \/ n = Len(v1) + 1
  BY <1>2, <1>6
<1>8. Sk!SkTypeOK'
  <2>1. Len(v1') <= MaxRuns
    BY <1>2, <1>5, <1>6, PagesAssumption
  <2>2. v5' \subseteq [run : 1..Len(v1'), seen : {""} \cup Sk!SkBusyStatus] /\ v9' \subseteq 1..Len(v1')
    BY <1>1, <1>5, <1>7 DEF Sk!SkInv, Sk!SkTypeOK, Sk!SkIds
  <2>3. QED  BY <1>5, <1>6, <2>1, <2>2 DEF Sk!SkTypeOK, Sk!SkIds
<1>9. Sk!SkAliveIsSeen'
  BY <1>3, <1>6, <1>7 DEF Sk!SkInv, Sk!SkAliveIsSeen, Sk!SkAlive, Sk!SkIds, Sk!SkBusyStatus, new
<1>10. ASSUME NEW n \in 1..Len(v1'), NEW k \in 1..Len(v1'),
              n < k, v1'[n].bundle = v1'[k].bundle, v2'[n].at \notin {"over", "killed"}
       PROVE  v1'[n].cancel
  <2>1. n \in Ids
    BY <1>2, <1>6, <1>7, <1>10
  <2>2. CASE k \in Ids
    BY <1>3, <1>6, <1>10, <2>1, <2>2 DEF Sk!SkInv, Sk!SkOlderIsTold, Sk!SkAlive, Sk!SkIds
  <2>3. CASE k = Len(v1) + 1
    <3>1. rows[n].status \notin Sk!SkBusyStatus
      BY <1>4, <1>6, <1>10, <2>1, <2>3 DEF new
    <3>2. v1[n].status \notin Sk!SkBusyStatus
      BY <1>3, <1>6, <1>10, <2>1, <3>1
    <3>3. QED  BY <1>3, <1>6, <1>10, <2>1, <3>2 DEF Sk!SkInv, Sk!SkAliveIsSeen, Sk!SkAlive, Sk!SkIds
  <2>4. QED  BY <1>7, <1>10, <2>2, <2>3
<1>11. Sk!SkOlderIsTold'
  BY <1>10 DEF Sk!SkOlderIsTold, Sk!SkAlive, Sk!SkIds
<1>12. \A n \in v9 : n \in Ids /\ v1[n].cancel /\ (v2[n].at = "ends" => v2[n].stop) /\ v1[n].status # "success"
  BY <1>1 DEF Sk!SkInv, Sk!SkToldIsHeeded, Sk!ToldNeverSucceeds
<1>13. \A n \in 1..Len(v1') : v1'[n].status = "success" => v2'[n].at = "over"
  BY <1>3, <1>6, <1>7 DEF Sk!SkInv, Sk!SkToldIsHeeded, Sk!SkIds, new
<1>14. Sk!SkToldIsHeeded' /\ Sk!ToldNeverSucceeds'
  BY <1>3, <1>5, <1>6, <1>12, <1>13 DEF Sk!SkToldIsHeeded, Sk!ToldNeverSucceeds, Sk!SkIds
<1>15. QED  BY <1>8, <1>9, <1>11, <1>14 DEF Sk!SkInv

(* A run is told to stop.                                                   *)
LEMMA StackCancelStep ==
  ASSUME Sk!SkInv, NEW c \in v5, Sk!SkCancelSave(c)
  PROVE  Sk!SkInv'
<1>1. /\ v1 \in Seq(Sk!SkRow) /\ v2 \in Seq(Sk!SkJob) /\ Len(v2) = Len(v1) /\ c.run \in 1..Len(v1)
      /\ v9 \subseteq 1..Len(v1)
  BY DEF Sk!SkInv, Sk!SkTypeOK, Sk!SkIds
<1>2. Len(v1) \in Nat /\ \A k \in 1..Len(v1) : v1[k] \in Sk!SkRow /\ v2[k] \in Sk!SkJob
  BY <1>1
<1>3. PICK row \in Sk!SkRow : /\ v1' = [v1 EXCEPT ![c.run] = row]
                             /\ row.bundle = v1[c.run].bundle /\ row.cancel
                             /\ row.status \in {v1[c.run].status, "cancelled"}
  <2>1. CASE c.seen = "queued"
    <3>1. [v1[c.run] EXCEPT !.cancel = TRUE, !.status = "cancelled"] \in Sk!SkRow
      BY <1>1, <1>2 DEF Sk!SkRow, Sk!SkOver
    <3>2. QED  BY <1>1, <1>2, <2>1, <3>1 DEF Sk!SkCancelSave, Sk!SkRow
  <2>2. CASE c.seen # "queued"
    <3>1. [v1[c.run] EXCEPT !.cancel = TRUE] \in Sk!SkRow
      BY <1>1, <1>2 DEF Sk!SkRow
    <3>2. v1' = [v1 EXCEPT ![c.run] = [v1[c.run] EXCEPT !.cancel = TRUE]]
      BY <1>1, <1>2, <2>2 DEF Sk!SkCancelSave, Sk!SkRow
    <3>3. QED  BY <1>1, <1>2, <3>1, <3>2 DEF Sk!SkRow
  <2>3. QED  BY <2>1, <2>2
<1>4. /\ UNCHANGED <<v2, v4>> /\ v5' = {}
      /\ v9' = IF v2[c.run].at \in {"due", "loaded", "installs"} THEN v9 \cup {c.run} ELSE v9
  BY DEF Sk!SkCancelSave
<1>5. v1' \in Seq(Sk!SkRow) /\ Len(v1') = Len(v1)
  BY <1>1, <1>2, <1>3
<1>6. \A k \in 1..Len(v1) : v1'[k] = (IF k = c.run THEN row ELSE v1[k])
  BY <1>1, <1>2, <1>3
<1>7. Sk!SkTypeOK'
  BY <1>1, <1>4, <1>5 DEF Sk!SkInv, Sk!SkTypeOK, Sk!SkIds
<1>8. Sk!SkAliveIsSeen' /\ Sk!SkOlderIsTold'
  BY <1>3, <1>4, <1>5, <1>6 DEF Sk!SkInv, Sk!SkAliveIsSeen, Sk!SkOlderIsTold, Sk!SkAlive, Sk!SkIds
<1>9. \A n \in 1..Len(v1) : v1'[n].status = "success" => v2[n].at = "over"
  BY <1>3, <1>6 DEF Sk!SkInv, Sk!SkToldIsHeeded, Sk!SkIds
<1>10. \A n \in v9' : /\ v1'[n].cancel /\ (v2[n].at = "ends" => v2[n].stop)
                      /\ v1'[n].status # "success"
  BY <1>1, <1>3, <1>4, <1>6, <1>9 DEF Sk!SkInv, Sk!SkToldIsHeeded, Sk!ToldNeverSucceeds
<1>11. QED
  BY <1>4, <1>5, <1>7, <1>8, <1>9, <1>10 DEF Sk!SkInv, Sk!SkToldIsHeeded, Sk!ToldNeverSucceeds, Sk!SkIds

LEMMA StackInit == Sk!SkInit => Sk!SkInv
<1> SUFFICES ASSUME Sk!SkInit PROVE Sk!SkInv
  OBVIOUS
<1>1. v1 = << >> /\ v2 = << >> /\ v4 = {} /\ v5 = {} /\ v9 = {}
  BY DEF Sk!SkInit
<1>2. v1 \in Seq(Sk!SkRow) /\ v2 \in Seq(Sk!SkJob) /\ Len(v1) = 0 /\ Len(v2) = 0 /\ 0 <= MaxRuns
  BY <1>1, PagesAssumption
<1>3. Sk!SkIds = {}
  BY <1>2 DEF Sk!SkIds
<1>4. QED
  BY <1>1, <1>2, <1>3 DEF Sk!SkInv, Sk!SkTypeOK, Sk!SkAliveIsSeen, Sk!SkOlderIsTold, Sk!SkToldIsHeeded,
     Sk!ToldNeverSucceeds

LEMMA StackStep == Sk!SkInv /\ Sk!SkNext => Sk!SkInv'
<1> SUFFICES ASSUME Sk!SkInv, Sk!SkNext PROVE Sk!SkInv'
  OBVIOUS
<1>1. ASSUME UNCHANGED <<v1, v2, v9>>, \A q \in v4' : q.bundle \in Bundles,
             v5' \subseteq [run : Sk!SkIds, seen : {""} \cup Sk!SkBusyStatus]
      PROVE  Sk!SkInv'
  BY <1>1 DEF Sk!SkInv, Sk!SkTypeOK, Sk!SkAliveIsSeen, Sk!SkOlderIsTold, Sk!SkToldIsHeeded, Sk!ToldNeverSucceeds,
     Sk!SkIds, Sk!SkAlive
<1>2. /\ \A q \in v4 : q.bundle \in Bundles
      /\ v5 \subseteq [run : Sk!SkIds, seen : {""} \cup Sk!SkBusyStatus]
      /\ v1 \in Seq(Sk!SkRow)
  BY DEF Sk!SkInv, Sk!SkTypeOK
<1>0. \A n \in Sk!SkIds : v1[n] \in Sk!SkRow
  <2>1. v1 \in Seq(Sk!SkRow)
    BY <1>2
  <2>2. \A n \in 1..Len(v1) : v1[n] \in Sk!SkRow
    BY ONLY <2>1
  <2>3. QED  BY <2>2 DEF Sk!SkIds
<1>3. ASSUME NEW b \in Bundles, Sk!SkInstall(b) PROVE Sk!SkInv'
  <2>2. \A q \in v4' : q.bundle \in Bundles
    BY <1>3 DEF Sk!SkInstall
  <2>3. QED  BY <1>1, <1>2, <1>3, <2>2 DEF Sk!SkInstall, Sk!skServer, Sk!skPage
<1>4. ASSUME NEW n \in Sk!SkIds, Sk!SkRetry(n) PROVE Sk!SkInv'
  <2>1. v1[n].bundle \in Bundles
    BY <1>0 DEF Sk!SkRow
  <2>2. \A q \in v4' : q.bundle \in Bundles
    BY <1>4, <2>1 DEF Sk!SkRetry
  <2>3. QED  BY <1>1, <1>2, <1>4, <2>2 DEF Sk!SkRetry, Sk!skServer, Sk!skPage
<1>5. ASSUME NEW n \in Sk!SkIds, Sk!SkAskCancel(n) PROVE Sk!SkInv'
  <2>1. v5' \subseteq [run : Sk!SkIds, seen : {""} \cup Sk!SkBusyStatus]
    <3>1. v5' = {[run |-> n, seen |-> ""]}
      BY <1>5 DEF Sk!SkAskCancel
    <3>2. [run |-> n, seen |-> ""] \in [run : Sk!SkIds, seen : {""} \cup Sk!SkBusyStatus]
      OBVIOUS
    <3>3. QED  BY ONLY <3>1, <3>2
  <2>2. QED  BY <1>1, <1>2, <1>5, <2>1 DEF Sk!SkAskCancel, Sk!skServer, Sk!skPage
<1>6. ASSUME NEW c \in v5, Sk!SkCancelLoad(c) PROVE Sk!SkInv'
  <2>1. v1[c.run].status \in Sk!SkBusyStatus \cup Sk!SkOver /\ c \in [run : Sk!SkIds, seen : {""} \cup Sk!SkBusyStatus]
    BY <1>0, <1>2 DEF Sk!SkRow
  <2>2. v5' \subseteq [run : Sk!SkIds, seen : {""} \cup Sk!SkBusyStatus]
    BY <1>6, <2>1 DEF Sk!SkCancelLoad
  <2>3. QED  BY <1>1, <1>2, <1>6, <2>2 DEF Sk!SkCancelLoad, Sk!skServer, Sk!skPage
<1>7. ASSUME NEW n \in Sk!SkIds, Sk!SkOpenDetail(n) PROVE Sk!SkInv'
  BY <1>1, <1>2, <1>7 DEF Sk!SkOpenDetail, Sk!skServer
<1>8. CASE Sk!SkCloseDetail
  BY <1>1, <1>2, <1>8 DEF Sk!SkCloseDetail, Sk!skServer
<1>9. CASE (\E r \in v4 : Sk!SkRefuse(r)) \/ Sk!SkRead \/ Sk!SkReadDetail
  BY <1>9, StackStaleStep DEF Sk!SkRefuse, Sk!SkRead, Sk!SkReadDetail, Sk!skPage
<1>10. QED
  BY <1>3, <1>4, <1>5, <1>6, <1>7, <1>8, <1>9, StackWorkStep, StackQueueStep, StackCancelStep DEF Sk!SkNext

LEMMA StackHolds == Sk!SkInv => Sk!OneScriptPerBundle /\ Sk!ToldNeverSucceeds
BY DEF Sk!SkInv, Sk!SkOlderIsTold, Sk!SkAlive, Sk!OneScriptPerBundle

-----------------------------------------------------------------------------
(* The assistant.  v1: what the sessions hold, v2: those deleted, v3: the    *)
(* list, v4: the messages, v5: the usage, v6: the session shown, v7 and v8:  *)
(* the texts, v9: the requests, v11 and v12: unheard and crossed, v13: the   *)
(* rows of the providers, v15: the saves.                                   *)

(* What a request has become.                                               *)
LEMMA AdvisorDone ==
  ASSUME NEW r \in Ai!AiRequest
  PROVE  \E q \in Ai!AiRequest : /\ q = [r EXCEPT !.step = "done"] /\ q.kind = r.kind
                                 /\ q.session = r.session /\ q.text = r.text /\ q.step = "done" /\ q.seen = r.seen
<1>1. [r EXCEPT !.step = "done"] \in Ai!AiRequest
  BY DEF Ai!AiRequest
<1>2. QED  BY <1>1 DEF Ai!AiRequest

(* What is asked is under way beside the requests before it; a deletion has *)
(* those before it look at the session shown now.                           *)
LEMMA AdvisorAsks ==
  ASSUME Ai!AiTypeOK, NEW kind \in {"chat", "delete", "run", "all", "fix"}, NEW s \in Sites \cup {none},
         NEW text \in Nat \cup {none}, Ai!AiAsk(kind, s, text)
  PROVE  \E new \in Ai!AiRequest :
           /\ new.kind = kind /\ new.session = s /\ new.text = text /\ new.step = "sent" /\ new.seen = Ai!AiLive
           /\ new \in v9' /\ v9' \subseteq Ai!AiRequest
           /\ \A r \in v9 : \E q \in v9' : /\ q.kind = r.kind /\ q.session = r.session /\ q.text = r.text
                                           /\ q.step = r.step
           /\ \A q \in v9' : q = new \/ \E r \in v9 : /\ q.kind = r.kind /\ q.session = r.session
                                                        /\ q.step = r.step
           /\ kind # "delete" \/ v9 = {} => v9' = v9 \cup {new}
           /\ \A q \in v9' \ (v9 \cup {new}) : q.kind = "delete"
           /\ ~v12' => ~v12 /\ (v9 = {} \/ (kind # "delete" /\ \A r \in v9 : r.kind # "delete"))
<1> DEFINE new == [kind |-> kind, session |-> s, text |-> text, step |-> "sent", seen |-> Ai!AiLive, n |-> v10]
           Now(r) == IF kind = "delete" /\ r.kind = kind /\ r.seen = Ai!AiLive THEN [r EXCEPT !.seen = v6] ELSE r
<1>1. new \in Ai!AiRequest
  BY DEF Ai!AiTypeOK, Ai!AiRequest
<1>2. ASSUME NEW r \in v9
      PROVE  /\ Now(r) \in Ai!AiRequest
             /\ Now(r).kind = r.kind /\ Now(r).session = r.session /\ Now(r).text = r.text /\ Now(r).step = r.step
             /\ Now(r) = r \/ (kind = "delete" /\ r.kind = "delete")
  BY <1>2 DEF Ai!AiTypeOK, Ai!AiRequest
<1>3. v9' = {Now(r) : r \in v9} \cup {new}
  BY DEF Ai!AiAsk
<1>4. v12' = (v12 \/ (v9 # {} /\ "delete" \in {kind} \cup {r.kind : r \in v9}))
  BY DEF Ai!AiAsk
<1>5. new.kind = kind /\ new.session = s /\ new.text = text /\ new.step = "sent" /\ new.seen = Ai!AiLive
  OBVIOUS
<1> HIDE DEF Now, new
<1>6. /\ new \in v9' /\ v9' \subseteq Ai!AiRequest
      /\ \A r \in v9 : Now(r) \in v9'
      /\ \A q \in v9' : q = new \/ \E r \in v9 : q = Now(r)
      /\ kind # "delete" \/ v9 = {} => v9' = v9 \cup {new}
  <2>1. kind # "delete" => \A r \in v9 : Now(r) = r
    BY <1>2
  <2>2. QED  BY <1>1, <1>2, <1>3, <2>1
<1>7. \A q \in v9' \ (v9 \cup {new}) : q.kind = "delete"
  BY <1>2, <1>6
<1>8. /\ \A r \in v9 : \E q \in v9' : /\ q.kind = r.kind /\ q.session = r.session /\ q.text = r.text
                                      /\ q.step = r.step
      /\ \A q \in v9' : q = new \/ \E r \in v9 : q.kind = r.kind /\ q.session = r.session /\ q.step = r.step
  BY <1>2, <1>6
<1>9. ~v12' => ~v12 /\ (v9 = {} \/ (kind # "delete" /\ \A r \in v9 : r.kind # "delete"))
  BY <1>4
<1>10. QED  BY <1>1, <1>5, <1>6, <1>7, <1>8, <1>9

LEMMA AdvisorInit == Ai!AiInit => Ai!AiInv
<1> SUFFICES ASSUME Ai!AiInit PROVE Ai!AiInv
  OBVIOUS
<1>1. PICK S \in SUBSET Sites : v1 = [s \in Sites |-> IF s \in S THEN [said |-> 2, answers |-> 1]
                                                            ELSE [said |-> 0, answers |-> 0]]
  BY DEF Ai!AiInit
<1>2. v1 \in [Sites -> [said : Nat, answers : Nat]]
  BY <1>1
<1>3. Ai!AiTypeOK
  BY <1>2 DEF Ai!AiInit, Ai!AiTypeOK, Ai!AiRows
<1>4. Ai!AiWillBeOne
  <2>1. v13 \in [1..Len(Providers) -> BOOLEAN] /\ \A i, j \in DOMAIN v13 : v13[i] /\ v13[j] => i = j
    BY DEF Ai!AiInit
  <2>2. QED  BY <2>1 DEF Ai!AiWillBeOne, Ai!AiRows
<1>5. QED
  BY <1>3, <1>4 DEF Ai!AiInit, Ai!AiInv, Ai!AiOneOfAKind, Ai!AiAtMostOne, Ai!AiPendingIsSent, Ai!AiDeletedIsGone,
     Ai!AiListLeads, Ai!AiMsgsLead, Ai!AiUsageLeads, Ai!AiDeletesAlone, Ai!AiShownLives, Ai!AiThere

(* What a step may do to the server, the list, the messages and the page.   *)
LEMMA AdvisorTypes ==
  ASSUME Ai!AiTypeOK, Ai!AiChatNext
  PROVE  /\ v1' \in [Sites -> [said : Nat, answers : Nat]] /\ \A s \in Sites : v1'[s].said >= v1[s].said
         /\ v2' \subseteq Sites /\ v2 \subseteq v2'
         /\ v3' \in [fresh : BOOLEAN, sessions : SUBSET {s \in Sites : v1'[s].said > 0}]
         /\ v4' \in [Sites -> [read : {"none", "fresh", "stale"}, said : Nat]]
         /\ DOMAIN v5' = {"read", "answers"} /\ v6' \in Sites \cup {none}
         /\ v7' \in Nat \cup {none} /\ v8' \in Nat \cup {none} /\ v10' \in Nat /\ UNCHANGED <<v13, v14, v15>>
<1>0. /\ v1 \in [Sites -> [said : Nat, answers : Nat]] /\ v2 \subseteq Sites
      /\ v4 \in [Sites -> [read : {"none", "fresh", "stale"}, said : Nat]]
      /\ v3 \in [fresh : BOOLEAN, sessions : SUBSET {s \in Sites : v1[s].said > 0}]
      /\ \A r \in v9 : r.session \in Sites \cup {none} /\ r.text \in Nat \cup {none}
      /\ v6 \in Sites \cup {none}
  BY DEF Ai!AiTypeOK, Ai!AiRequest
<1>1. v1' \in [Sites -> [said : Nat, answers : Nat]] /\ \A s \in Sites : v1'[s].said >= v1[s].said
  <2>1. v1' = v1 \/ \E s \in Sites : \/ v1' = [v1 EXCEPT ![s].said = v1[s].said + 1]
                                   \/ v1' = [v1 EXCEPT ![s] = [said |-> v1[s].said + 1, answers |-> v1[s].answers + 1]]
    BY <1>0 DEF Ai!AiChatNext, Ai!AiReadList, Ai!AiReadMessages, Ai!AiReadUsage, Ai!AiType, Ai!AiNewChat, Ai!aiSetVars,
       Ai!AiSend, Ai!AiOpen, Ai!AiDelete, Ai!AiAct, Ai!AiStored, Ai!AiReplied, Ai!AiServed, Ai!AiAnswered,
       Ai!AiFails, Ai!AiDeleted, Ai!AiActed, Ai!AiLost, Ai!AiAsk, Ai!AiThere
  <2>2. \A s \in Sites : v1[s] \in [said : Nat, answers : Nat]
    BY <1>0
  <2>3. ASSUME NEW s \in Sites, v1' = [v1 EXCEPT ![s].said = v1[s].said + 1]
        PROVE  v1' \in [Sites -> [said : Nat, answers : Nat]] /\ \A t \in Sites : v1'[t].said >= v1[t].said
    BY ONLY <1>0, <2>2, <2>3
  <2>4. ASSUME NEW s \in Sites, v1' = [v1 EXCEPT ![s] = [said |-> v1[s].said + 1, answers |-> v1[s].answers + 1]]
        PROVE  v1' \in [Sites -> [said : Nat, answers : Nat]] /\ \A t \in Sites : v1'[t].said >= v1[t].said
    BY ONLY <1>0, <2>2, <2>4
  <2>5. CASE v1' = v1
    BY ONLY <1>0, <2>2, <2>5
  <2>6. QED  BY ONLY <2>1, <2>3, <2>4, <2>5
<1>2. v2' \subseteq Sites /\ v2 \subseteq v2'
  BY <1>0 DEF Ai!AiChatNext, Ai!AiReadList, Ai!AiReadMessages, Ai!AiReadUsage, Ai!AiType, Ai!AiNewChat, Ai!aiSetVars,
       Ai!AiSend, Ai!AiOpen, Ai!AiDelete, Ai!AiAct, Ai!AiStored, Ai!AiReplied, Ai!AiServed, Ai!AiAnswered,
       Ai!AiFails, Ai!AiDeleted, Ai!AiActed, Ai!AiLost, Ai!AiAsk, Ai!AiThere
<1>3. v3' \in [fresh : BOOLEAN, sessions : SUBSET {s \in Sites : v1'[s].said > 0}]
  <2>1. \A s \in Sites : v1[s].said \in Nat /\ v1'[s].said \in Nat
    BY ONLY <1>0, <1>1
  <2>2. {s \in Sites : v1[s].said > 0} \subseteq {s \in Sites : v1'[s].said > 0}
    BY ONLY <2>1, <1>1
  <2>3. v3' = v3 \/ v3' = [fresh |-> TRUE, sessions |-> Ai!AiThere] \/ v3' = [v3 EXCEPT !.fresh = FALSE]
    BY DEF Ai!AiChatNext, Ai!AiReadList, Ai!AiReadMessages, Ai!AiReadUsage, Ai!AiType, Ai!AiNewChat, Ai!aiSetVars,
       Ai!AiSend, Ai!AiOpen, Ai!AiDelete, Ai!AiAct, Ai!AiStored, Ai!AiReplied, Ai!AiServed, Ai!AiAnswered,
       Ai!AiFails, Ai!AiDeleted, Ai!AiActed, Ai!AiLost, Ai!AiAsk
  <2>4. Ai!AiThere \in SUBSET {s \in Sites : v1[s].said > 0}
    BY DEF Ai!AiThere
  <2>5. v3' \in [fresh : BOOLEAN, sessions : SUBSET {s \in Sites : v1[s].said > 0}]
    <3>1. v3 = [fresh |-> v3.fresh, sessions |-> v3.sessions] /\ v3.fresh \in BOOLEAN
      BY <1>0
    <3>2. v3.sessions \in SUBSET {s \in Sites : v1[s].said > 0}
      BY <1>0
    <3>3. CASE v3' = [v3 EXCEPT !.fresh = FALSE]
      <4>1. v3' = [fresh |-> FALSE, sessions |-> v3.sessions]
        BY ONLY <3>1, <3>3
      <4>2. QED  BY ONLY <3>2, <4>1
    <3>4. CASE v3' = [fresh |-> TRUE, sessions |-> Ai!AiThere]
      BY ONLY <2>4, <3>4
    <3>5. QED  BY ONLY <1>0, <2>3, <3>3, <3>4
  <2>6. QED  BY ONLY <2>2, <2>5
<1>4. v4' \in [Sites -> [read : {"none", "fresh", "stale"}, said : Nat]]
  <2>1. ASSUME NEW s \in Sites \cup {none}
        PROVE  Ai!AiMsgsStale(s) \in [Sites -> [read : {"none", "fresh", "stale"}, said : Nat]]
    BY <1>0 DEF Ai!AiMsgsStale, Ai!AiStale
  <2>2. \/ v4' = v4 \/ v4' = [s \in Sites |-> [read |-> "none", said |-> 0]]
        \/ v6 \in Sites /\ v4' = [v4 EXCEPT ![v6] = [read |-> "fresh", said |-> v1[v6].said]]
        \/ \E s \in Sites \cup {none} : v4' = Ai!AiMsgsStale(s)
    BY <1>0 DEF Ai!AiChatNext, Ai!AiReadList, Ai!AiReadMessages, Ai!AiReadUsage, Ai!AiType, Ai!AiNewChat, Ai!aiSetVars,
       Ai!AiSend, Ai!AiOpen, Ai!AiDelete, Ai!AiAct, Ai!AiStored, Ai!AiReplied, Ai!AiServed, Ai!AiAnswered,
       Ai!AiFails, Ai!AiDeleted, Ai!AiActed, Ai!AiLost, Ai!AiAsk, Ai!AiThere, Ai!AiAnsweredMsgs
  <2>3. ASSUME v6 \in Sites, v4' = [v4 EXCEPT ![v6] = [read |-> "fresh", said |-> v1[v6].said]]
        PROVE  v4' \in [Sites -> [read : {"none", "fresh", "stale"}, said : Nat]]
    <3>1. [read |-> "fresh", said |-> v1[v6].said] \in [read : {"none", "fresh", "stale"}, said : Nat]
      BY <1>0, <2>3
    <3>2. QED  BY ONLY <1>0, <2>3, <3>1
  <2>4. CASE v4' = [s \in Sites |-> [read |-> "none", said |-> 0]]
    BY ONLY <2>4
  <2>5. QED  BY <1>0, <2>1, <2>2, <2>3, <2>4
<1>5. DOMAIN v5' = {"read", "answers"}
  BY DEF Ai!AiChatNext, Ai!AiReadList, Ai!AiReadMessages, Ai!AiReadUsage, Ai!AiType, Ai!AiNewChat, Ai!aiSetVars,
       Ai!AiSend, Ai!AiOpen, Ai!AiDelete, Ai!AiAct, Ai!AiStored, Ai!AiReplied, Ai!AiServed, Ai!AiAnswered,
       Ai!AiFails, Ai!AiDeleted, Ai!AiActed, Ai!AiLost, Ai!AiAsk, Ai!AiTypeOK, Ai!AiStale
<1>6. v6' \in Sites \cup {none}
  <2>1. v6' \in {v6, none} \/ v6' \in Sites \/ \E r \in v9 : v6' = r.session
    BY DEF Ai!AiChatNext, Ai!AiReadList, Ai!AiReadMessages, Ai!AiReadUsage, Ai!AiType, Ai!AiNewChat, Ai!aiSetVars,
       Ai!AiSend, Ai!AiOpen, Ai!AiDelete, Ai!AiAct, Ai!AiStored, Ai!AiReplied, Ai!AiServed, Ai!AiAnswered,
       Ai!AiFails, Ai!AiDeleted, Ai!AiActed, Ai!AiLost, Ai!AiAsk, Ai!AiAfterDelete, Ai!AiClosed
  <2>2. QED  BY ONLY <1>0, <2>1
<1>7. v7' \in Nat \cup {none} /\ v8' \in Nat \cup {none} /\ v10' \in Nat
  <2>1. v7 \in Nat \cup {none} /\ v8 \in Nat \cup {none} /\ v10 \in Nat
    BY DEF Ai!AiTypeOK
  <2>2. /\ v7' \in {v7, none, v10} \/ \E r \in v9 : v7' = r.text
        /\ v8' \in {v8, none, v7} /\ v10' \in {v10, v10 + 1}
    BY DEF Ai!AiChatNext, Ai!AiReadList, Ai!AiReadMessages, Ai!AiReadUsage, Ai!AiType, Ai!AiNewChat, Ai!aiSetVars,
       Ai!AiSend, Ai!AiOpen, Ai!AiDelete, Ai!AiAct, Ai!AiStored, Ai!AiReplied, Ai!AiServed, Ai!AiAnswered,
       Ai!AiFails, Ai!AiDeleted, Ai!AiActed, Ai!AiLost, Ai!AiAsk
  <2>3. QED  BY ONLY <1>0, <2>1, <2>2
<1>8. UNCHANGED <<v13, v14, v15>>
  BY DEF Ai!AiChatNext, Ai!AiReadList, Ai!AiReadMessages, Ai!AiReadUsage, Ai!AiType, Ai!AiNewChat, Ai!aiSetVars,
       Ai!AiSend, Ai!AiOpen, Ai!AiDelete, Ai!AiAct, Ai!AiStored, Ai!AiReplied, Ai!AiServed, Ai!AiAnswered,
       Ai!AiFails, Ai!AiDeleted, Ai!AiActed, Ai!AiLost, Ai!AiAsk
<1>9. QED  BY <1>1, <1>2, <1>3, <1>4, <1>5, <1>6, <1>7, <1>8

(* Requests of a kind exclude one another, and what is shown as being sent  *)
(* is on its way.                                                           *)
LEMMA AdvisorKinds ==
  ASSUME Ai!AiInv, Ai!AiChatNext
  PROVE  v9' \subseteq Ai!AiRequest /\ Ai!AiOneOfAKind' /\ Ai!AiPendingIsSent'
<1> DEFINE Goal == v9' \subseteq Ai!AiRequest /\ Ai!AiOneOfAKind' /\ Ai!AiPendingIsSent'
<1>0. Ai!AiTypeOK /\ Ai!AiOneOfAKind /\ Ai!AiPendingIsSent /\ v9 \subseteq Ai!AiRequest
  BY DEF Ai!AiInv, Ai!AiTypeOK
<1>1. ASSUME v9' = v9, v8' \in {v8, none}  PROVE Goal
  BY <1>0, <1>1 DEF Ai!AiOneOfAKind, Ai!AiAtMostOne, Ai!AiPendingIsSent
<1>2. ASSUME NEW r \in v9, NEW q \in Ai!AiRequest, v9' = (v9 \ {r}) \cup {q}, v8' = v8,
             q.kind = r.kind, q.text = r.text
      PROVE  Goal
  <2>1. Ai!AiOneOfAKind'
    BY <1>0, <1>2 DEF Ai!AiOneOfAKind, Ai!AiAtMostOne
  <2>2. Ai!AiPendingIsSent'
    BY <1>0, <1>2 DEF Ai!AiPendingIsSent
  <2>3. QED  BY <1>0, <1>2, <2>1, <2>2
<1>3. ASSUME NEW r \in v9, v9' = v9 \ {r}, v8' = none \/ (v8' = v8 /\ r.kind # "chat")
      PROVE  Goal
  BY <1>0, <1>3 DEF Ai!AiOneOfAKind, Ai!AiAtMostOne, Ai!AiPendingIsSent
<1>4. ASSUME NEW kind \in {"chat", "delete", "run", "all", "fix"}, NEW s \in Sites \cup {none},
             NEW text \in Nat \cup {none}, Ai!AiAsk(kind, s, text),
             kind = "chat" => ~Ai!AiBusy({"chat"}) /\ v8' = text,
             kind = "all" => ~Ai!AiBusy({"run", "all"}),
             kind \in {"fix", "run"} => ~Ai!AiBusy({"run", "all", "fix"}),
             kind # "chat" => v8' = v8
      PROVE  Goal
  <2>1. PICK new \in Ai!AiRequest :
           /\ new.kind = kind /\ new.text = text
           /\ new \in v9' /\ v9' \subseteq Ai!AiRequest
           /\ \A r \in v9 : \E q \in v9' : q.kind = r.kind /\ q.text = r.text
           /\ kind # "delete" => v9' = v9 \cup {new}
           /\ \A q \in v9' \ (v9 \cup {new}) : q.kind = "delete"
    BY <1>0, <1>4, AdvisorAsks
  <2>2. \A q \in v9' : q.kind = "delete" \/ q = new \/ q \in v9
    BY <2>1
  <2>3. Ai!AiOneOfAKind'
    BY <1>0, <1>4, <2>1, <2>2 DEF Ai!AiOneOfAKind, Ai!AiAtMostOne, Ai!AiBusy
  <2>4. Ai!AiPendingIsSent'
    BY <1>0, <1>4, <2>1 DEF Ai!AiPendingIsSent
  <2>5. QED  BY <2>1, <2>3, <2>4
<1> HIDE DEF Goal
<1>5. ASSUME \/ Ai!AiReadList \/ Ai!AiReadMessages \/ Ai!AiReadUsage \/ Ai!AiType \/ Ai!AiNewChat
             \/ \E s \in Sites : Ai!AiOpen(s)
      PROVE  Goal
  BY <1>1, <1>5 DEF Ai!AiReadList, Ai!AiReadMessages, Ai!AiReadUsage, Ai!AiType, Ai!AiNewChat, Ai!AiOpen
<1>6. ASSUME Ai!AiSend PROVE Goal
  <2>1. v6 \in Sites \cup {none} /\ v7 \in Nat \cup {none}
    BY <1>0 DEF Ai!AiTypeOK
  <2>2. Ai!AiAsk("chat", v6, v7) /\ ~Ai!AiBusy({"chat"}) /\ v8' = v7
    BY <1>6 DEF Ai!AiSend, Ai!AiSendAllowed
  <2>3. QED  BY <1>4, <2>1, <2>2
<1>7. ASSUME NEW s \in Sites, Ai!AiDelete(s) PROVE Goal
  BY <1>4, <1>7 DEF Ai!AiDelete
<1>8. ASSUME NEW kind \in {"fix", "run", "all"}, Ai!AiAct(kind) PROVE Goal
  <2>1. v6 \in Sites \cup {none}
    BY <1>0 DEF Ai!AiTypeOK
  <2>2. /\ Ai!AiAsk(kind, v6, none) /\ v8' = v8 /\ kind # "chat"
        /\ kind = "all" => ~Ai!AiBusy({"run", "all"})
        /\ kind \in {"fix", "run"} => ~Ai!AiBusy({"run", "all", "fix"})
    BY <1>8 DEF Ai!AiAct
  <2>3. QED  BY <1>4, <2>1, <2>2
<1>9. ASSUME NEW r \in v9, Ai!AiStored(r) PROVE Goal
  <2>1. PICK s \in Sites : v9' = (v9 \ {r}) \cup {[r EXCEPT !.session = s, !.step = "stored"]} /\ v8' = v8
    BY <1>0, <1>9 DEF Ai!AiStored, Ai!AiThere, Ai!AiTypeOK, Ai!AiRequest
  <2>2. PICK q \in Ai!AiRequest : q = [r EXCEPT !.session = s, !.step = "stored"] /\ q.kind = r.kind /\ q.text = r.text
    <3>1. r \in Ai!AiRequest
      BY <1>0
    <3>2. [r EXCEPT !.session = s, !.step = "stored"] \in Ai!AiRequest
      BY <3>1 DEF Ai!AiRequest
    <3>3. QED  BY <3>1, <3>2 DEF Ai!AiRequest
  <2>3. QED  BY <1>2, <2>1, <2>2
<1>10. ASSUME NEW r \in v9, Ai!AiReplied(r) \/ Ai!AiServed(r) PROVE Goal
  <2>1. v9' = (v9 \ {r}) \cup {[r EXCEPT !.step = "done"]} /\ v8' = v8 /\ r.session \in Sites \cup {none}
    BY <1>0, <1>10 DEF Ai!AiReplied, Ai!AiServed, Ai!AiRequest
  <2>2. PICK q \in Ai!AiRequest : q = [r EXCEPT !.step = "done"] /\ q.kind = r.kind /\ q.text = r.text
    BY <1>0, AdvisorDone
  <2>3. QED  BY <1>2, <2>1, <2>2
<1>11. ASSUME NEW r \in v9, Ai!AiAnswered(r) \/ Ai!AiFails(r) \/ Ai!AiDeleted(r) \/ Ai!AiActed(r) \/ Ai!AiLost(r)
       PROVE Goal
  BY <1>3, <1>11 DEF Ai!AiAnswered, Ai!AiFails, Ai!AiDeleted, Ai!AiActed, Ai!AiLost
<1>12. Goal
  BY <1>5, <1>6, <1>7, <1>8, <1>9, <1>10, <1>11 DEF Ai!AiChatNext
<1>13. QED  BY <1>12 DEF Goal


(* What was read of the server is what it has, but for what a request under *)
(* way has changed, and the session shown is there unless its deletion is   *)
(* being answered.                                                          *)
LEMMA AdvisorLeads ==
  ASSUME Ai!AiInv, Ai!AiChatNext
  PROVE  Ai!AiDeletedIsGone' /\ Ai!AiListLeads' /\ Ai!AiMsgsLead' /\ Ai!AiUsageLeads'
<1> DEFINE Goal == Ai!AiDeletedIsGone' /\ Ai!AiListLeads' /\ Ai!AiMsgsLead' /\ Ai!AiUsageLeads'
<1>0. /\ Ai!AiTypeOK /\ Ai!AiDeletedIsGone /\ Ai!AiListLeads /\ Ai!AiMsgsLead /\ Ai!AiUsageLeads
      /\ v9 \subseteq Ai!AiRequest /\ v1 \in [Sites -> [said : Nat, answers : Nat]]
      /\ v4 \in [Sites -> [read : {"none", "fresh", "stale"}, said : Nat]] /\ DOMAIN v5 = {"read", "answers"}
      /\ v3 \in [fresh : BOOLEAN, sessions : SUBSET {s \in Sites : v1[s].said > 0}]
      /\ v6 \in Sites \cup {none}
  BY DEF Ai!AiInv, Ai!AiTypeOK
<1>1. UNCHANGED <<v1, v2>> => Ai!AiThere' = Ai!AiThere /\ Ai!AiAnswers' = Ai!AiAnswers
  BY DEF Ai!AiThere, Ai!AiAnswers
\* A read, or something typed.
<1>2. ASSUME UNCHANGED <<v1, v2, v9, v11>>,
             v3' = v3 \/ v3' = [fresh |-> TRUE, sessions |-> Ai!AiThere],
             \/ v4' = v4 \/ v4' = [s \in Sites |-> [read |-> "none", said |-> 0]]
             \/ v6 \in Sites /\ v4' = [v4 EXCEPT ![v6] = [read |-> "fresh", said |-> v1[v6].said]],
             v5' = v5 \/ v5' = [read |-> "fresh", answers |-> Ai!AiAnswers]
      PROVE  Goal
  <2>1. Ai!AiDeletedIsGone'
    BY <1>0, <1>2 DEF Ai!AiDeletedIsGone
  <2>2. Ai!AiListLeads'
    BY <1>0, <1>1, <1>2 DEF Ai!AiListLeads, Ai!AiHasChanged
  <2>3. Ai!AiMsgsLead'
    <3>1. \A s \in Sites : v4'[s].read # "fresh" \/ v4'[s] = v4[s] \/ v4'[s].said = v1[s].said
      BY <1>0, <1>2
    <3>2. Ai!AiThere \subseteq Sites
      BY DEF Ai!AiThere
    <3>3. QED  BY <1>0, <1>1, <1>2, <3>1, <3>2 DEF Ai!AiMsgsLead, Ai!AiHasChanged
  <2>4. Ai!AiUsageLeads'
    BY <1>0, <1>1, <1>2 DEF Ai!AiUsageLeads, Ai!AiHasChanged
  <2>5. QED  BY <2>1, <2>2, <2>3, <2>4
\* Something is asked for.
<1>3. ASSUME UNCHANGED <<v1, v2, v3, v4, v5, v11>>,
             NEW new \in Ai!AiRequest, new.step = "sent",
             \A r \in v9 : \E q \in v9' : /\ q.kind = r.kind /\ q.session = r.session /\ q.step = r.step,
             \A q \in v9' : q = new \/ \E r \in v9 : /\ q.kind = r.kind /\ q.session = r.session /\ q.step = r.step
      PROVE  Goal
  <2>1. Ai!AiDeletedIsGone'
    BY <1>0, <1>3 DEF Ai!AiDeletedIsGone
  <2>2. Ai!AiListLeads'
    BY <1>0, <1>1, <1>3 DEF Ai!AiListLeads, Ai!AiHasChanged
  <2>3. Ai!AiMsgsLead'
    BY <1>0, <1>1, <1>3 DEF Ai!AiMsgsLead, Ai!AiHasChanged
  <2>4. Ai!AiUsageLeads'
    BY <1>0, <1>1, <1>3 DEF Ai!AiUsageLeads, Ai!AiHasChanged
  <2>5. QED  BY <2>1, <2>2, <2>3, <2>4
\* A request that changes something goes on.
<1>4. ASSUME NEW r \in v9, NEW q \in Ai!AiRequest, v9' = (v9 \ {r}) \cup {q},
             UNCHANGED <<v3, v4, v5, v11>>, Ai!AiHasChanged(q), q.kind = r.kind,
             r.step # "sent" => q.session = r.session,
             q.kind = "delete" => q.step = "done" /\ q.session \in v2',
             v2 \subseteq v2', \A s \in Sites \ {q.session} : v1'[s] = v1[s]
      PROVE  Goal
  <2>1. Ai!AiDeletedIsGone'
    BY <1>0, <1>4 DEF Ai!AiDeletedIsGone
  <2>2. Ai!AiListLeads' /\ Ai!AiUsageLeads'
    <3>1. q \in v9' /\ q.step # "sent" /\ q.kind \in {"chat", "delete"}
      BY <1>4 DEF Ai!AiHasChanged
    <3>2. QED  BY <3>1 DEF Ai!AiListLeads, Ai!AiUsageLeads, Ai!AiHasChanged
  <2>3. Ai!AiMsgsLead'
    <3>1. \A s \in Ai!AiThere' \ {q.session} : s \in Ai!AiThere /\ v1'[s] = v1[s]
      BY <1>4 DEF Ai!AiThere
    <3>2. \A x \in v9 : x \in v9' \/ (x = r /\ (~Ai!AiHasChanged(r) \/ q.session = r.session))
      BY <1>4 DEF Ai!AiHasChanged
    <3>3. q \in v9' /\ q.step # "sent" /\ q.kind \in {"chat", "delete"}
      BY <1>4 DEF Ai!AiHasChanged
    <3>4. QED  BY <1>0, <1>4, <3>1, <3>2, <3>3 DEF Ai!AiMsgsLead, Ai!AiHasChanged
  <2>4. QED  BY <2>1, <2>2, <2>3
\* A request ends: what it changed is read anew, is unheard, or is of a session gone.
<1>5. ASSUME NEW r \in v9, v9' = v9 \ {r}, UNCHANGED <<v1, v2>>, v11 \subseteq v11',
             v3' = v3 \/ v3' = [v3 EXCEPT !.fresh = FALSE],
             v4' = v4 \/ \E s \in Sites \cup {none} : v4' = Ai!AiMsgsStale(s),
             v5' = v5 \/ v5' = Ai!AiStale(v5),
             \/ ~Ai!AiHasChanged(r)
             \/ r.session \in v11'
             \/ r.kind = "delete" /\ v3' = [v3 EXCEPT !.fresh = FALSE]
             \/ r.kind = "chat" /\ v3' = [v3 EXCEPT !.fresh = FALSE] /\ v4' = Ai!AiMsgsStale(r.session) /\ v5' = Ai!AiStale(v5)
      PROVE  Goal
  <2>1. Ai!AiDeletedIsGone'
    BY <1>0, <1>5 DEF Ai!AiDeletedIsGone
  <2>2. \A x \in v9 : x \in v9' \/ x = r
    BY <1>5
  <2>3. v3'.sessions = v3.sessions /\ (v3'.fresh => v3' = v3)
    BY <1>0, <1>5
  <2>4. v5'.answers = v5.answers /\ (v5'.read = "fresh" => v5' = v5)
    BY <1>0, <1>5 DEF Ai!AiStale
  <2>5. \A s \in Sites : v4'[s].read = "fresh" => v4'[s] = v4[s]
    BY <1>0, <1>5 DEF Ai!AiMsgsStale, Ai!AiStale
  <2>6. r.kind = "delete" /\ Ai!AiHasChanged(r) => r.session \in v2
    BY <1>0 DEF Ai!AiDeletedIsGone, Ai!AiHasChanged
  <2>7. Ai!AiListLeads'
    <3>1. v3' = [v3 EXCEPT !.fresh = FALSE] => ~v3'.fresh
      BY <1>0
    <3>2. QED  BY <1>0, <1>1, <1>5, <2>2, <2>3, <3>1 DEF Ai!AiListLeads, Ai!AiHasChanged
  <2>8. Ai!AiMsgsLead'
    <3>1. \A s \in Sites : v4' = Ai!AiMsgsStale(s) => v4'[s].read # "fresh"
      BY <1>0 DEF Ai!AiMsgsStale, Ai!AiStale
    <3>2. Ai!AiThere \subseteq Sites \ v2
      BY DEF Ai!AiThere
    <3>3. QED  BY <1>0, <1>1, <1>5, <2>2, <2>5, <2>6, <3>1, <3>2 DEF Ai!AiMsgsLead, Ai!AiHasChanged
  <2>9. Ai!AiUsageLeads'
    <3>1. v5' = Ai!AiStale(v5) => v5'.read # "fresh"
      BY <1>0 DEF Ai!AiStale
    <3>2. QED  BY <1>0, <1>1, <1>5, <2>2, <2>4, <2>6, <3>1 DEF Ai!AiUsageLeads, Ai!AiHasChanged
  <2>10. QED  BY <2>1, <2>7, <2>8, <2>9
<1> HIDE DEF Goal
<1>6. ASSUME \/ Ai!AiReadList \/ Ai!AiReadMessages \/ Ai!AiReadUsage \/ Ai!AiType \/ Ai!AiNewChat
             \/ \E s \in Sites : Ai!AiOpen(s)
      PROVE  Goal
  <2>1. /\ UNCHANGED <<v1, v2, v9, v11>>
        /\ v3' = v3 \/ v3' = [fresh |-> TRUE, sessions |-> Ai!AiThere]
        /\ \/ v4' = v4 \/ v4' = [s \in Sites |-> [read |-> "none", said |-> 0]]
           \/ v6 \in Sites /\ v4' = [v4 EXCEPT ![v6] = [read |-> "fresh", said |-> v1[v6].said]]
        /\ v5' = v5 \/ v5' = [read |-> "fresh", answers |-> Ai!AiAnswers]
    BY <1>6 DEF Ai!AiReadList, Ai!AiReadMessages, Ai!AiReadUsage, Ai!AiType, Ai!AiNewChat, Ai!AiOpen, Ai!AiThere
  <2>2. QED  BY <1>2, <2>1
<1>7. ASSUME NEW kind \in {"chat", "delete", "run", "all", "fix"}, NEW s \in Sites \cup {none},
             NEW text \in Nat \cup {none}, Ai!AiAsk(kind, s, text), UNCHANGED <<v1, v2, v3, v4, v5, v11>>
      PROVE  Goal
  <2>1. PICK new \in Ai!AiRequest :
           /\ new.step = "sent"
           /\ \A r \in v9 : \E q \in v9' : q.kind = r.kind /\ q.session = r.session /\ q.step = r.step
           /\ \A q \in v9' : q = new \/ \E r \in v9 : q.kind = r.kind /\ q.session = r.session /\ q.step = r.step
    BY <1>0, <1>7, AdvisorAsks
  <2>2. QED  BY <1>3, <1>7, <2>1
<1>8. ASSUME Ai!AiSend \/ (\E s \in Sites : Ai!AiDelete(s)) \/ \E kind \in {"fix", "run", "all"} : Ai!AiAct(kind)
      PROVE Goal
  <2>1. v6 \in Sites \cup {none} /\ v7 \in Nat \cup {none}
    BY <1>0 DEF Ai!AiTypeOK
  <2>2. \E kind \in {"chat", "delete", "run", "all", "fix"}, s \in Sites \cup {none}, text \in Nat \cup {none} :
           Ai!AiAsk(kind, s, text) /\ UNCHANGED <<v1, v2, v3, v4, v5, v11>>
    BY <1>8, <2>1 DEF Ai!AiSend, Ai!AiDelete, Ai!AiAct
  <2>3. QED  BY <1>7, <2>2
<1>9. ASSUME NEW r \in v9, Ai!AiStored(r) PROVE Goal
  <2>1. PICK s \in Sites : /\ v9' = (v9 \ {r}) \cup {[r EXCEPT !.session = s, !.step = "stored"]}
                           /\ v1' = [v1 EXCEPT ![s].said = @ + 1] /\ UNCHANGED <<v2, v3, v4, v5, v11>>
                           /\ r.kind = "chat" /\ r.step = "sent"
    BY <1>0, <1>9 DEF Ai!AiStored, Ai!AiThere, Ai!AiRequest
  <2>2. PICK q \in Ai!AiRequest : /\ q = [r EXCEPT !.session = s, !.step = "stored"]
                                  /\ q.kind = r.kind /\ q.session = s /\ q.step = "stored"
    <3>1. r \in Ai!AiRequest
      BY <1>0
    <3>2. [r EXCEPT !.session = s, !.step = "stored"] \in Ai!AiRequest
      BY <3>1 DEF Ai!AiRequest
    <3>3. QED  BY <3>1, <3>2 DEF Ai!AiRequest
  <2>3. \A t \in Sites \ {s} : v1'[t] = v1[t]
    BY <1>0, <2>1
  <2>4. Ai!AiHasChanged(q)
    BY <2>1, <2>2 DEF Ai!AiHasChanged
  <2>5. QED  BY <1>4, <2>1, <2>2, <2>3, <2>4
<1>10. ASSUME NEW r \in v9, Ai!AiReplied(r) \/ (Ai!AiServed(r) /\ r.kind = "delete") PROVE Goal
  <2>1. /\ v9' = (v9 \ {r}) \cup {[r EXCEPT !.step = "done"]} /\ UNCHANGED <<v3, v4, v5, v11>>
        /\ r.kind \in {"chat", "delete"}
        /\ r.kind = "delete" => v2' = v2 \cup {r.session} /\ v1' = v1
        /\ r.kind = "chat" => /\ v2' = v2
                              /\ v1' = [v1 EXCEPT ![r.session] = [said |-> @.said + 1, answers |-> @.answers + 1]]
    BY <1>10 DEF Ai!AiReplied, Ai!AiServed
  <2>2. PICK q \in Ai!AiRequest : /\ q = [r EXCEPT !.step = "done"] /\ q.kind = r.kind
                                  /\ q.session = r.session /\ q.step = "done"
    BY <1>0, AdvisorDone
  <2>3. Ai!AiHasChanged(q)
    BY <2>1, <2>2 DEF Ai!AiHasChanged
  <2>4. \A s \in Sites \ {q.session} : v1'[s] = v1[s]
    BY <1>0, <2>1, <2>2
  <2>5. QED  BY <1>4, <2>1, <2>2, <2>3, <2>4
<1>11. ASSUME NEW r \in v9, Ai!AiServed(r), r.kind # "delete" PROVE Goal
  <2>1. /\ v9' = (v9 \ {r}) \cup {[r EXCEPT !.step = "done"]} /\ UNCHANGED <<v1, v2, v3, v4, v5, v11>>
        /\ r.kind \notin {"chat", "delete"}
    BY <1>11 DEF Ai!AiServed
  <2>2. PICK q \in Ai!AiRequest : q = [r EXCEPT !.step = "done"] /\ q.kind = r.kind
    BY <1>0, AdvisorDone
  <2>3. Ai!AiDeletedIsGone'
    BY <1>0, <2>1, <2>2 DEF Ai!AiDeletedIsGone
  <2>4. \A x \in v9 : x \in v9' \/ x.kind \notin {"chat", "delete"}
    BY <2>1
  <2>5. Ai!AiListLeads'
    BY <1>0, <1>1, <2>1, <2>4 DEF Ai!AiListLeads, Ai!AiHasChanged
  <2>6. Ai!AiMsgsLead'
    BY <1>0, <1>1, <2>1, <2>4 DEF Ai!AiMsgsLead, Ai!AiHasChanged
  <2>7. Ai!AiUsageLeads'
    BY <1>0, <1>1, <2>1, <2>4 DEF Ai!AiUsageLeads, Ai!AiHasChanged
  <2>8. QED  BY <2>3, <2>5, <2>6, <2>7 DEF Goal
<1>12. ASSUME NEW r \in v9, Ai!AiAnswered(r) PROVE Goal
  <2>1. /\ v9' = v9 \ {r} /\ UNCHANGED <<v1, v2, v11>> /\ v3' = [v3 EXCEPT !.fresh = FALSE]
        /\ v4' = Ai!AiMsgsStale(r.session) /\ v5' = Ai!AiStale(v5) /\ r.kind = "chat"
    BY <1>12 DEF Ai!AiAnswered, Ai!AiAnsweredMsgs
  <2>2. r.session \in Sites \cup {none}
    BY <1>0 DEF Ai!AiRequest
  <2>3. QED  BY <1>5, <2>1, <2>2
<1>13. ASSUME NEW r \in v9, Ai!AiFails(r) \/ Ai!AiLost(r) PROVE Goal
  <2>1. /\ v9' = v9 \ {r} /\ UNCHANGED <<v1, v2, v3, v4, v5>> /\ v11 \subseteq v11'
        /\ ~Ai!AiHasChanged(r) \/ r.session \in v11'
    BY <1>0, <1>13 DEF Ai!AiFails, Ai!AiLost, Ai!AiHasChanged, Ai!AiDeletedIsGone
  <2>2. QED  BY <1>5, <2>1
<1>14. ASSUME NEW r \in v9, Ai!AiDeleted(r) PROVE Goal
  <2>1. /\ v9' = v9 \ {r} /\ UNCHANGED <<v1, v2, v4, v5, v11>> /\ v3' = [v3 EXCEPT !.fresh = FALSE]
        /\ r.kind = "delete"
    BY <1>14 DEF Ai!AiDeleted
  <2>2. QED  BY <1>5, <2>1
<1>15. ASSUME NEW r \in v9, Ai!AiActed(r) PROVE Goal
  <2>1. /\ v9' = v9 \ {r} /\ UNCHANGED <<v1, v2, v3, v5, v11>> /\ ~Ai!AiHasChanged(r)
        /\ v4' = v4 \/ v4' = Ai!AiMsgsStale(v6)
    BY <1>15 DEF Ai!AiActed, Ai!AiHasChanged
  <2>2. QED  BY <1>0, <1>5, <2>1
<1>16. Goal
  BY <1>6, <1>8, <1>9, <1>10, <1>11, <1>12, <1>13, <1>14, <1>15 DEF Ai!AiChatNext, Ai!AiServed
<1>17. QED  BY <1>16 DEF Goal

LEMMA AdvisorShows ==
  ASSUME Ai!AiInv, Ai!AiChatNext
  PROVE  Ai!AiDeletesAlone' /\ Ai!AiShownLives'
<1> DEFINE Goal == Ai!AiDeletesAlone' /\ Ai!AiShownLives'
<1>0. /\ Ai!AiTypeOK /\ Ai!AiDeletedIsGone /\ Ai!AiDeletesAlone /\ Ai!AiShownLives
      /\ v9 \subseteq Ai!AiRequest /\ v1 \in [Sites -> [said : Nat, answers : Nat]]
      /\ v3 \in [fresh : BOOLEAN, sessions : SUBSET {s \in Sites : v1[s].said > 0}]
      /\ v6 \in Sites \cup {none}
  BY DEF Ai!AiInv, Ai!AiTypeOK
\* Nothing asked for or served; another session may be opened.
<1>1. ASSUME UNCHANGED <<v1, v2, v9, v11>>, v12 => v12',
             v6' \in {v6, none} \/ v6' \in Ai!AiThere \/ v12'
      PROVE  Goal
  <2>1. Ai!AiThere' = Ai!AiThere
    BY <1>1 DEF Ai!AiThere
  <2>2. QED  BY <1>0, <1>1, <2>1 DEF Ai!AiDeletesAlone, Ai!AiShownLives
\* Something is asked for.
<1>2. ASSUME NEW kind \in {"chat", "delete", "run", "all", "fix"}, NEW s \in Sites \cup {none},
             NEW text \in Nat \cup {none}, Ai!AiAsk(kind, s, text), UNCHANGED <<v1, v2, v6, v11>>
      PROVE  Goal
  <2>1. PICK new \in Ai!AiRequest :
           /\ new.kind = kind /\ new.session = s /\ new.text = text /\ new.step = "sent" /\ new.seen = Ai!AiLive
           /\ new \in v9' /\ v9' \subseteq Ai!AiRequest
           /\ \A r \in v9 : \E q \in v9' : /\ q.kind = r.kind /\ q.session = r.session /\ q.text = r.text
                                           /\ q.step = r.step
           /\ \A q \in v9' : q = new \/ \E r \in v9 : /\ q.kind = r.kind /\ q.session = r.session
                                                        /\ q.step = r.step
           /\ kind # "delete" \/ v9 = {} => v9' = v9 \cup {new}
           /\ \A q \in v9' \ (v9 \cup {new}) : q.kind = "delete"
           /\ ~v12' => ~v12 /\ (v9 = {} \/ (kind # "delete" /\ \A r \in v9 : r.kind # "delete"))
    <3>1. Ai!AiTypeOK /\ Ai!AiAsk(kind, s, text)
      BY <1>0, <1>2
    <3>2. kind \in {"chat", "delete", "run", "all", "fix"} /\ s \in Sites \cup {none} /\ text \in Nat \cup {none}
      OBVIOUS
    <3>3. QED  BY ONLY <3>1, <3>2, AdvisorAsks
  <2>2. Ai!AiThere' = Ai!AiThere
    BY <1>2 DEF Ai!AiThere
  <2>3. QED  BY <1>0, <1>2, <2>1, <2>2 DEF Ai!AiDeletesAlone, Ai!AiShownLives
\* A request goes on.
<1>3. ASSUME NEW r \in v9, NEW q \in Ai!AiRequest, v9' = (v9 \ {r}) \cup {q}, UNCHANGED <<v6, v11, v12>>,
             q.kind = r.kind, q.seen = r.seen, r.step # "done",
             q.kind = "chat" /\ q.step = "done" => q.session \in Ai!AiThere,
             q.kind = "delete" => q.step = "done" /\ v2' = v2 \cup {q.session} /\ v1' = v1,
             q.kind # "delete" => v2' = v2 /\ \A s \in Sites : v1[s].said > 0 => v1'[s].said > 0
      PROVE  Goal
  <2>1. Ai!AiThere \subseteq Ai!AiThere' \cup (IF q.kind = "delete" THEN {q.session} ELSE {})
    BY <1>3 DEF Ai!AiThere
  <2>2. Ai!AiDeletesAlone'
    <3>1. CASE v12
      BY <1>3, <3>1 DEF Ai!AiDeletesAlone
    <3>2. CASE ~v12 /\ q.kind = "delete"
      <4>1. v9' = {q} /\ q.seen = Ai!AiLive
        BY <1>0, <1>3, <3>2 DEF Ai!AiDeletesAlone
      <4>2. QED  BY <3>2, <4>1 DEF Ai!AiDeletesAlone
    <3>3. CASE ~v12 /\ q.kind # "delete"
      <4>1. \A x \in v9' : x.kind # "delete" /\ (x = q \/ x \in v9)
        BY <1>0, <1>3, <3>3 DEF Ai!AiDeletesAlone
      <4>2. QED  BY <1>0, <1>3, <2>1, <3>3, <4>1 DEF Ai!AiDeletesAlone
    <3>4. QED  BY <3>1, <3>2, <3>3
  <2>3. Ai!AiShownLives'
    BY <1>0, <1>3, <2>1 DEF Ai!AiShownLives
  <2>4. QED  BY <2>2, <2>3
\* A request ends.
<1>4. ASSUME NEW r \in v9, v9' = v9 \ {r}, UNCHANGED <<v1, v2, v12>>, v11 \subseteq v11',
             \/ v6' = v6 /\ (r.kind # "delete" \/ r.step # "done" \/ v11' # {})
             \/ r.kind = "chat" /\ r.step = "done" /\ v6' = r.session
             \/ r.kind = "delete" /\ v6' = Ai!AiClosed(r.session, IF r.seen = Ai!AiLive THEN v6 ELSE r.seen)
      PROVE  Goal
  <2>1. Ai!AiThere' = Ai!AiThere
    BY <1>4 DEF Ai!AiThere
  <2>2. Ai!AiDeletesAlone'
    BY <1>0, <1>4, <2>1 DEF Ai!AiDeletesAlone
  <2>3. Ai!AiShownLives'
    <3>1. CASE v6' = v6 /\ (r.kind # "delete" \/ r.step # "done" \/ v11' # {})
      BY <1>0, <1>4, <2>1, <3>1 DEF Ai!AiShownLives
    <3>2. CASE r.kind = "chat" /\ r.step = "done" /\ v6' = r.session
      BY <1>0, <1>4, <2>1, <3>2 DEF Ai!AiShownLives, Ai!AiDeletesAlone
    <3>3. CASE r.kind = "delete" /\ v6' = Ai!AiClosed(r.session, IF r.seen = Ai!AiLive THEN v6 ELSE r.seen)
      BY <1>0, <1>4, <2>1, <3>3 DEF Ai!AiShownLives, Ai!AiDeletesAlone, Ai!AiClosed
    <3>4. QED  BY <1>4, <3>1, <3>2, <3>3
  <2>4. QED  BY <2>2, <2>3
<1> HIDE DEF Goal
<1>5. ASSUME \/ Ai!AiReadList \/ Ai!AiReadMessages \/ Ai!AiReadUsage \/ Ai!AiType \/ Ai!AiNewChat
             \/ \E s \in Sites : Ai!AiOpen(s)
      PROVE  Goal
  <2>1. /\ UNCHANGED <<v1, v2, v9, v11>> /\ (v12 => v12')
        /\ v6' \in {v6, none} \/ v6' \in Ai!AiThere \/ v12'
    <3>1. CASE \E s \in Sites : Ai!AiOpen(s)
      BY <1>0, <3>1 DEF Ai!AiOpen, Ai!AiThere
    <3>2. CASE Ai!AiReadList \/ Ai!AiReadMessages \/ Ai!AiReadUsage \/ Ai!AiType \/ Ai!AiNewChat
      BY <3>2 DEF Ai!AiReadList, Ai!AiReadMessages, Ai!AiReadUsage, Ai!AiType, Ai!AiNewChat
    <3>3. QED  BY <1>5, <3>1, <3>2
  <2>2. QED  BY <1>1, <2>1
<1>6. ASSUME Ai!AiSend \/ (\E s \in Sites : Ai!AiDelete(s)) \/ \E kind \in {"fix", "run", "all"} : Ai!AiAct(kind)
      PROVE Goal
  <2>1. v6 \in Sites \cup {none} /\ v7 \in Nat \cup {none}
    BY <1>0 DEF Ai!AiTypeOK
  <2>2. \E kind \in {"chat", "delete", "run", "all", "fix"}, s \in Sites \cup {none}, text \in Nat \cup {none} :
           Ai!AiAsk(kind, s, text) /\ UNCHANGED <<v1, v2, v6, v11>>
    BY <1>6, <2>1 DEF Ai!AiSend, Ai!AiDelete, Ai!AiAct
  <2>3. QED  BY <1>2, <2>2
<1>7. ASSUME NEW r \in v9, Ai!AiStored(r) PROVE Goal
  <2>1. PICK s \in Sites : /\ v9' = (v9 \ {r}) \cup {[r EXCEPT !.session = s, !.step = "stored"]}
                           /\ v1' = [v1 EXCEPT ![s].said = @ + 1] /\ UNCHANGED <<v2, v6, v11, v12>>
                           /\ r.kind = "chat" /\ r.step = "sent"
    BY <1>0, <1>7 DEF Ai!AiStored, Ai!AiThere, Ai!AiRequest
  <2>2. PICK q \in Ai!AiRequest : /\ q = [r EXCEPT !.session = s, !.step = "stored"]
                                  /\ q.kind = r.kind /\ q.step = "stored" /\ q.seen = r.seen
    <3>1. r \in Ai!AiRequest
      BY <1>0
    <3>2. [r EXCEPT !.session = s, !.step = "stored"] \in Ai!AiRequest
      BY <3>1 DEF Ai!AiRequest
    <3>3. QED  BY <3>1, <3>2 DEF Ai!AiRequest
  <2>3. \A t \in Sites : v1[t].said > 0 => v1'[t].said > 0
    BY <1>0, <2>1
  <2>4. QED  BY <1>3, <2>1, <2>2, <2>3
<1>8. ASSUME NEW r \in v9, Ai!AiReplied(r) \/ Ai!AiServed(r) PROVE Goal
  <2>1. /\ v9' = (v9 \ {r}) \cup {[r EXCEPT !.step = "done"]} /\ UNCHANGED <<v6, v11, v12>> /\ r.step # "done"
        /\ r.kind = "delete" => v2' = v2 \cup {r.session} /\ v1' = v1
        /\ r.kind = "chat" => r.session \in Ai!AiThere
        /\ r.kind # "delete" => v2' = v2
        /\ v1' = v1 \/ (r.session \in Sites /\ v1' = [v1 EXCEPT ![r.session] = [said |-> @.said + 1, answers |-> @.answers + 1]])
    BY <1>8 DEF Ai!AiReplied, Ai!AiServed, Ai!AiThere
  <2>2. PICK q \in Ai!AiRequest : /\ q = [r EXCEPT !.step = "done"] /\ q.kind = r.kind
                                  /\ q.session = r.session /\ q.step = "done" /\ q.seen = r.seen
    BY <1>0, AdvisorDone
  <2>3. \A t \in Sites : v1[t].said > 0 => v1'[t].said > 0
    BY <1>0, <2>1
  <2>4. QED  BY <1>3, <2>1, <2>2, <2>3
<1>9. ASSUME NEW r \in v9,
             Ai!AiAnswered(r) \/ Ai!AiFails(r) \/ Ai!AiDeleted(r) \/ Ai!AiActed(r) \/ Ai!AiLost(r)
      PROVE Goal
  <2>1. /\ v9' = v9 \ {r} /\ UNCHANGED <<v1, v2, v12>> /\ v11 \subseteq v11'
        /\ \/ v6' = v6 /\ (r.kind # "delete" \/ r.step # "done" \/ v11' # {})
           \/ r.kind = "chat" /\ r.step = "done" /\ v6' = r.session
           \/ r.kind = "delete" /\ v6' = Ai!AiClosed(r.session, IF r.seen = Ai!AiLive THEN v6 ELSE r.seen)
    BY <1>9 DEF Ai!AiAnswered, Ai!AiFails, Ai!AiDeleted, Ai!AiActed, Ai!AiLost, Ai!AiAfterDelete
  <2>2. QED  BY <1>4, <2>1
<1>10. Goal
  BY <1>5, <1>6, <1>7, <1>8, <1>9 DEF Ai!AiChatNext
<1>11. QED  BY <1>10 DEF Goal

(* The settings: a save under way leaves one default, or none was written.  *)
LEMMA AdvisorSettings ==
  ASSUME Ai!AiInv, Ai!AiSettingsNext
  PROVE  Ai!AiInv'
<1>0. v13 \in [Ai!AiRows -> BOOLEAN] /\ Ai!AiWillBeOne /\ v10 \in Nat
  BY DEF Ai!AiInv, Ai!AiTypeOK
<1>01. v10' \in Nat
  <2>1. v10' = v10 \/ v10' = v10 + 1
    BY DEF Ai!AiSettingsNext, Ai!AiSave, Ai!AiReadSettings, Ai!AiChoose, Ai!AiLoadRow, Ai!AiSaveRow, Ai!AiSaved
  <2>2. QED  BY <1>0, <2>1
<1>1. UNCHANGED <<v1, v2, v3, v4, v5, v6, v7, v8, v9, v11, v12>>
  BY DEF Ai!AiSettingsNext, Ai!AiSave, Ai!AiReadSettings, Ai!AiChoose, Ai!AiLoadRow, Ai!AiSaveRow, Ai!AiSaved,
     Ai!aiChatVars
<1>2. v13' \in [Ai!AiRows -> BOOLEAN] /\ Ai!AiWillBeOne'
  <2>1. CASE v13' = v13 /\ v15 \subseteq v15'
    BY <1>0, <2>1 DEF Ai!AiWillBeOne, Ai!AiRows
  <2>2. ASSUME NEW r \in v15, NEW q, v15' = (v15 \ {r}) \cup {q}, q.choice = r.choice,
               \/ v13' = v13
               \/ \E i \in Ai!AiRows, b \in BOOLEAN : v13' = [v13 EXCEPT ![i] = b] /\ (b => r.choice # none)
        PROVE  v13' \in [Ai!AiRows -> BOOLEAN] /\ Ai!AiWillBeOne'
    <3>1. (\E x \in v15 : x.choice # none) => \E x \in v15' : x.choice # none
      BY <2>2
    <3>2. r.choice # none => \E x \in v15' : x.choice # none
      BY <2>2
    <3>3. CASE v13' = v13
      BY <1>0, <3>1, <3>3 DEF Ai!AiWillBeOne, Ai!AiRows
    <3>4. ASSUME NEW i \in Ai!AiRows, NEW b \in BOOLEAN, v13' = [v13 EXCEPT ![i] = b], b => r.choice # none
          PROVE  v13' \in [Ai!AiRows -> BOOLEAN] /\ Ai!AiWillBeOne'
      <4>1. v13' \in [Ai!AiRows -> BOOLEAN]
        BY <1>0, <3>4
      <4>2. Ai!AiWillBeOne'
        BY <1>0, <3>1, <3>2, <3>4 DEF Ai!AiWillBeOne, Ai!AiRows
      <4>3. QED  BY <4>1, <4>2
    <3>5. QED  BY <2>2, <3>3, <3>4
  <2>3. ASSUME NEW r \in v15, Ai!AiLoadRow(r)
        PROVE  v13' \in [Ai!AiRows -> BOOLEAN] /\ Ai!AiWillBeOne'
    <3>1. PICK q : v15' = (v15 \ {r}) \cup {q} /\ q = [r EXCEPT !.seen = IF v13[r.row] THEN "yes" ELSE "no"]
      BY <2>3 DEF Ai!AiLoadRow, Ai!AiSaveStep
    <3>2. q.choice = r.choice /\ v13' = v13
      BY <2>3, <3>1 DEF Ai!AiLoadRow
    <3>3. QED  BY <2>2, <3>1, <3>2
  <2>4. ASSUME NEW r \in v15, Ai!AiSaveRow(r)
        PROVE  v13' \in [Ai!AiRows -> BOOLEAN] /\ Ai!AiWillBeOne'
    <3>1. PICK q : v15' = (v15 \ {r}) \cup {q} /\ q = [r EXCEPT !.row = @ + 1, !.seen = "unread"]
      BY <2>4 DEF Ai!AiSaveRow, Ai!AiSaveStep
    <3>2. q.choice = r.choice
      BY <3>1
    <3>3. v13' = v13 \/ \E i \in Ai!AiRows, b \in BOOLEAN : v13' = [v13 EXCEPT ![i] = b] /\ (b => r.choice # none)
      <4>1. r.row \in Ai!AiRows /\ (v13' = v13 \/ v13' = [v13 EXCEPT ![r.row] = (Providers[r.row] = r.choice)])
        BY <2>4 DEF Ai!AiSaveRow
      <4>2. Providers[r.row] # none
        BY <4>1, PagesAssumption DEF Ai!AiRows
      <4>3. QED  BY <4>1, <4>2
    <3>4. QED  BY <2>2, <3>1, <3>2, <3>3
  <2>5. ASSUME NEW r \in v15, Ai!AiSaved(r)
        PROVE  v13' \in [Ai!AiRows -> BOOLEAN] /\ Ai!AiWillBeOne'
    <3>1. v15' = v15 \ {r} /\ v13' = [i \in Ai!AiRows |-> v13[i] /\ (r.choice = none \/ Providers[i] = r.choice)]
      BY <2>5 DEF Ai!AiSaved, Ai!AiCleared, Ai!AiOthersCleared
    <3>2. \A i, j \in Ai!AiRows : Providers[i] = Providers[j] => i = j
      BY PagesAssumption DEF Ai!AiRows
    <3>3. v13' \in [Ai!AiRows -> BOOLEAN]
      BY <1>0, <3>1
    <3>4. \A i \in Ai!AiRows : v13'[i] => v13[i] /\ (r.choice = none \/ Providers[i] = r.choice)
      BY <1>0, <3>1
    <3>5. Ai!AiRows' = Ai!AiRows
      BY DEF Ai!AiRows
    <3>6. Ai!AiWillBeOne'
      <4>1. CASE r.choice = none
        <5>1. (\E x \in v15 : x.choice # none) => \E x \in v15' : x.choice # none
          BY <3>1, <4>1
        <5>2. QED  BY <1>0, <3>4, <3>5, <5>1 DEF Ai!AiWillBeOne
      <4>2. CASE r.choice # none
        BY <3>2, <3>4, <3>5, <4>2 DEF Ai!AiWillBeOne
      <4>3. QED  BY <4>1, <4>2
    <3>7. QED  BY <3>3, <3>6
  <2>6. ASSUME Ai!AiSave \/ Ai!AiReadSettings \/ \E i \in Ai!AiRows : Ai!AiChoose(i)
        PROVE  v13' = v13 /\ v15 \subseteq v15'
    BY <2>6 DEF Ai!AiSave, Ai!AiReadSettings, Ai!AiChoose
  <2>7. QED  BY <2>1, <2>3, <2>4, <2>5, <2>6 DEF Ai!AiSettingsNext
<1>3. Ai!AiTypeOK'
  BY <1>0, <1>01, <1>1, <1>2 DEF Ai!AiInv, Ai!AiTypeOK, Ai!AiRequest, Ai!AiRows
<1>4. Ai!AiOneOfAKind' /\ Ai!AiPendingIsSent' /\ Ai!AiDeletedIsGone'
  BY <1>1 DEF Ai!AiInv, Ai!AiOneOfAKind, Ai!AiAtMostOne, Ai!AiPendingIsSent, Ai!AiDeletedIsGone
<1>5. Ai!AiListLeads' /\ Ai!AiMsgsLead' /\ Ai!AiUsageLeads' /\ Ai!AiDeletesAlone' /\ Ai!AiShownLives'
  <2>1. Ai!AiThere' = Ai!AiThere /\ Ai!AiAnswers' = Ai!AiAnswers
    BY <1>1 DEF Ai!AiThere, Ai!AiAnswers
  <2>2. QED
    BY <1>1, <2>1 DEF Ai!AiInv, Ai!AiListLeads, Ai!AiMsgsLead, Ai!AiUsageLeads, Ai!AiDeletesAlone, Ai!AiShownLives,
       Ai!AiHasChanged
<1>6. QED  BY <1>2, <1>3, <1>4, <1>5 DEF Ai!AiInv

LEMMA AdvisorStep == Ai!AiInv /\ (Ai!AiChatNext \/ Ai!AiSettingsNext) => Ai!AiInv'
<1>1. ASSUME Ai!AiInv, Ai!AiChatNext PROVE Ai!AiInv'
  <2>1. Ai!AiTypeOK'
    <3>1. v13 \in [Ai!AiRows -> BOOLEAN] /\ Ai!AiTypeOK
      BY <1>1 DEF Ai!AiInv, Ai!AiTypeOK
    <3>2. QED  BY <1>1, <3>1, AdvisorTypes, AdvisorKinds DEF Ai!AiTypeOK, Ai!AiRequest, Ai!AiRows
  <2>2. Ai!AiWillBeOne'
    <3>1. UNCHANGED <<v13, v15>> /\ Ai!AiWillBeOne
      BY <1>1, AdvisorTypes DEF Ai!AiInv
    <3>2. QED  BY <3>1 DEF Ai!AiWillBeOne, Ai!AiRows
  <2>3. QED  BY <1>1, <2>1, <2>2, AdvisorKinds, AdvisorLeads, AdvisorShows DEF Ai!AiInv
<1>2. QED  BY <1>1, AdvisorSettings

LEMMA AdvisorHolds ==
  Ai!AiInv => /\ Ai!ChatListTrue /\ Ai!ShownSessionIsThere
              /\ Ai!OneMessageAtATime /\ Ai!OneDefaultProvider
<1> SUFFICES ASSUME Ai!AiInv PROVE /\ Ai!ChatListTrue /\ Ai!ShownSessionIsThere
                                   /\ Ai!OneMessageAtATime /\ Ai!OneDefaultProvider
  OBVIOUS
<1>1. Ai!ChatListTrue
  BY DEF Ai!AiInv, Ai!ChatListTrue, Ai!AiListLeads, Ai!AiMsgsLead, Ai!AiUsageLeads
<1>2. Ai!ShownSessionIsThere
  BY DEF Ai!AiInv, Ai!ShownSessionIsThere, Ai!AiShownLives
<1>3. Ai!OneMessageAtATime
  BY DEF Ai!AiInv, Ai!OneMessageAtATime, Ai!AiOneOfAKind, Ai!AiPendingIsSent, Ai!AiBusy
<1>4. Ai!OneDefaultProvider
  BY DEF Ai!AiInv, Ai!OneDefaultProvider, Ai!AiWillBeOne
<1>5. QED  BY <1>1, <1>2, <1>3, <1>4

-----------------------------------------------------------------------------
(* The certificates.  v1 to v5: the row, the flag, the certificate and the  *)
(* switches of the server, v6 and v7: the lists, v8: the requests, v10: the *)
(* job, v12 and v13: the form, v14: the sites requests met at, v15 and v16: *)
(* unheard and left.                                                        *)

LEMMA SslInit == Sl!SlInit => Sl!SlInv
<1> SUFFICES ASSUME Sl!SlInit PROVE Sl!SlInv
  OBVIOUS
<1>1. /\ v1 \in [Sites \cup Subs -> {"none", "active"}] /\ v2 = [t \in Sites \cup Subs |-> v1[t] = "active"]
      /\ v3 = v2 /\ v4 = v2 /\ v5 = v2
      /\ v6 = [fresh |-> TRUE, row |-> v1, force |-> v4, auto |-> v5] /\ v7 = [fresh |-> TRUE, on |-> v2]
      /\ v8 = {} /\ v9 = 0 /\ v10 = [target |-> none, action |-> "issue", status |-> "success", progress |-> 0]
      /\ v12 = none /\ v13 = none /\ v14 = {} /\ v15 = FALSE /\ v16 = FALSE
  BY DEF Sl!SlInit, Sl!SlRead, Sl!SlNoJob
<1>2. v1 \in Sl!SlRows /\ v2 \in Sl!SlSwitches
  BY <1>1 DEF Sl!SlRows, Sl!SlSwitches
<1>3. Sl!SlTypeOK
  BY <1>1, <1>2 DEF Sl!SlTypeOK
<1>4. Sl!SlListsLead
  BY <1>1 DEF Sl!SlListsLead, Sl!SlRead
<1>5. Sl!SlBarIsFull
  BY <1>1 DEF Sl!SlBarIsFull
<1>6. Sl!SlJobIsAwaited /\ Sl!SlTextIsOwn /\ Sl!UploadedToOwnSite
  BY <1>1 DEF Sl!SlJobIsAwaited, Sl!SlTextIsOwn, Sl!UploadedToOwnSite
<1>7. Sl!SlOneEach /\ Sl!SlInstalled /\ Sl!SlFlagsLead
  BY <1>1 DEF Sl!SlOneEach, Sl!SlInstalled, Sl!SlFlagsLead
<1>8. QED  BY <1>3, <1>4, <1>5, <1>6, <1>7 DEF Sl!SlInv

(* What a request has become.                                               *)
LEMMA SslUnheard ==
  ASSUME NEW r \in Sl!SlRequest
  PROVE  \E q \in Sl!SlRequest : /\ q = [r EXCEPT !.heard = FALSE] /\ q.kind = r.kind /\ q.target = r.target
                                 /\ q.value = r.value /\ q.step = r.step /\ q.heard = FALSE
<1>1. [r EXCEPT !.heard = FALSE] \in Sl!SlRequest
  BY DEF Sl!SlRequest
<1>2. QED  BY <1>1 DEF Sl!SlRequest

(* A button has one request more under way.                                 *)
LEMMA SslAsked ==
  ASSUME Sl!SlTypeOK,
         \/ Sl!SlUpload
         \/ \E t \in Sites \cup Subs : \/ \E action \in {"issue", "renew", "revoke"} : Sl!SlClick(t, action)
                                       \/ \E kind \in {"force", "auto"} : Sl!SlSwitch(t, kind)
  PROVE  \E new \in Sl!SlRequest :
               /\ v8' = v8 \cup {new} /\ new.step = "sent" /\ new.heard
               /\ v14' = (IF \E r \in v8 : r.target = new.target THEN v14 \cup {new.target} ELSE v14)
               /\ UNCHANGED <<v1, v2, v3, v4, v5, v6, v7, v12, v13, v15, v16>> /\ v9' = v9 + 1
               /\ Sl!SlIsJob(new) => /\ v10.target = none
                                     /\ v10' = [target |-> new.target, action |-> new.kind, status |-> "running",
                                                progress |-> 8]
               /\ ~Sl!SlIsJob(new) => v10' = v10
               /\ new.kind = "manual" => new.target = v12 /\ new.value = v13 /\ v13 # none
               /\ new.kind \in {"force", "auto"} => new.value \in BOOLEAN
<1>0. v8 \subseteq Sl!SlRequest /\ v9 \in Nat /\ v12 \in Sites \cup Subs \cup {none} /\ v13 \in Sites \cup Subs \cup {none}
  BY DEF Sl!SlTypeOK
<1>1. ASSUME NEW t \in Sites \cup Subs, NEW kind \in {"issue", "renew", "revoke", "manual", "force", "auto"},
             NEW value \in Sites \cup Subs \cup BOOLEAN, Sl!SlAsk(kind, t, value)
      PROVE  \E new \in Sl!SlRequest : /\ v8' = v8 \cup {new} /\ new.step = "sent" /\ new.heard
               /\ new.kind = kind /\ new.target = t /\ new.value = value /\ v9' = v9 + 1
               /\ v14' = (IF \E r \in v8 : r.target = t THEN v14 \cup {t} ELSE v14)
  <2> DEFINE new == [kind |-> kind, target |-> t, value |-> value, step |-> "sent", heard |-> TRUE, n |-> v9]
  <2>1. new \in Sl!SlRequest
    BY <1>0 DEF Sl!SlRequest
  <2>2. QED  BY <1>1, <2>1 DEF Sl!SlAsk
<1>2. ASSUME NEW t \in Sites \cup Subs, NEW action \in {"issue", "renew", "revoke"}, Sl!SlClick(t, action)
      PROVE  \E new \in Sl!SlRequest : /\ v8' = v8 \cup {new} /\ new.step = "sent" /\ new.heard
               /\ new.kind = action /\ new.target = t /\ v9' = v9 + 1
               /\ v14' = (IF \E r \in v8 : r.target = t THEN v14 \cup {t} ELSE v14)
               /\ UNCHANGED <<v1, v2, v3, v4, v5, v6, v7, v12, v13, v15, v16>> /\ v10.target = none
               /\ v10' = [target |-> t, action |-> action, status |-> "running", progress |-> 8]
  <2>1. /\ Sl!SlAsk(action, t, t) /\ UNCHANGED <<v1, v2, v3, v4, v5, v6, v7, v12, v13, v15, v16>> /\ v10.target = none
        /\ v10' = [target |-> t, action |-> action, status |-> "running", progress |-> 8]
    BY <1>2 DEF Sl!SlClick, Sl!SlFree, Sl!SlStart, Sl!slServer, Sl!slForm
  <2>2. QED  BY <1>1, <2>1
<1>3. ASSUME NEW t \in Sites \cup Subs, NEW kind \in {"force", "auto"}, Sl!SlSwitch(t, kind)
      PROVE  \E new \in Sl!SlRequest : /\ v8' = v8 \cup {new} /\ new.step = "sent" /\ new.heard
               /\ new.kind = kind /\ new.target = t /\ v9' = v9 + 1 /\ new.value \in BOOLEAN
               /\ v14' = (IF \E r \in v8 : r.target = t THEN v14 \cup {t} ELSE v14)
               /\ UNCHANGED <<v1, v2, v3, v4, v5, v6, v7, v10, v12, v13, v15, v16>>
  <2>1. UNCHANGED <<v1, v2, v3, v4, v5, v6, v7, v10, v12, v13, v15, v16>>
    BY <1>3 DEF Sl!SlSwitch, Sl!slServer, Sl!slForm
  <2>2. PICK value : value = (IF kind = "force" THEN ~v6.force[t] ELSE ~v6.auto[t])
    OBVIOUS
  <2>3. value \in BOOLEAN /\ Sl!SlAsk(kind, t, value)
    BY <1>3, <2>2 DEF Sl!SlSwitch
  <2>4. QED  BY <1>1, <2>1, <2>3
<1>4. ASSUME Sl!SlUpload
      PROVE  \E new \in Sl!SlRequest : /\ v8' = v8 \cup {new} /\ new.step = "sent" /\ new.heard
               /\ new.kind = "manual" /\ new.target = v12 /\ new.value = v13 /\ v13 # none /\ v9' = v9 + 1
               /\ v14' = (IF \E r \in v8 : r.target = v12 THEN v14 \cup {v12} ELSE v14)
               /\ UNCHANGED <<v1, v2, v3, v4, v5, v6, v7, v12, v13, v15, v16>> /\ v10.target = none
               /\ v10' = [target |-> v12, action |-> "manual", status |-> "running", progress |-> 8]
  <2>1. /\ Sl!SlAsk("manual", v12, v13) /\ UNCHANGED <<v1, v2, v3, v4, v5, v6, v7, v12, v13, v15, v16>>
        /\ v10.target = none /\ v12 # none /\ v13 # none
        /\ v10' = [target |-> v12, action |-> "manual", status |-> "running", progress |-> 8]
    BY <1>4 DEF Sl!SlUpload, Sl!SlFree, Sl!SlStart, Sl!slServer, Sl!slForm
  <2>2. v12 \in Sites \cup Subs /\ v13 \in Sites \cup Subs \cup BOOLEAN
    BY <1>0, <2>1
  <2>3. QED  BY <1>1, <2>1, <2>2
<1>5. QED  BY <1>2, <1>3, <1>4 DEF Sl!SlIsJob

(* The server goes on with a request.                                       *)
LEMMA SslStepped ==
  ASSUME Sl!SlTypeOK, NEW r \in v8,
         Sl!SlPending(r) \/ Sl!SlForced(r) \/ Sl!SlAutoSet(r) \/ Sl!SlEngine(r) \/ Sl!SlEngineFails(r) \/ Sl!SlRecord(r)
  PROVE  \E q \in Sl!SlRequest :
               /\ v8' = (v8 \ {r}) \cup {q} /\ q.kind = r.kind /\ q.target = r.target /\ q.value = r.value
               /\ q.heard = r.heard /\ q.step # "sent"
               /\ UNCHANGED <<v6, v7, v9, v10, v11, v12, v13, v14, v15, v16>>
               /\ \/ q.step = "engine" /\ q.kind # "revoke" /\ v3' = [v3 EXCEPT ![q.target] = TRUE] /\ v2' = v2
                  \/ q.step = "engine" /\ q.kind = "revoke" /\ v3' = [v3 EXCEPT ![q.target] = FALSE] /\ v2' = v2
                  \/ q.step # "engine" /\ r.step # "engine" /\ v3' = v3 /\ v2' \in {v2, [v2 EXCEPT ![q.target] = FALSE]}
                  \/ q.step # "engine" /\ r.step = "engine" /\ v3' = v3 /\ v2' = [v2 EXCEPT ![q.target] = q.kind # "revoke"]
<1>0. v8 \subseteq Sl!SlRequest /\ v2 \in Sl!SlSwitches
  BY DEF Sl!SlTypeOK
<1>1. ASSUME NEW step \in {"asked", "engine", "done", "failed"}, Sl!SlStep(r, step)
      PROVE  \E q \in Sl!SlRequest :
               /\ v8' = (v8 \ {r}) \cup {q} /\ q.kind = r.kind /\ q.target = r.target /\ q.value = r.value
               /\ q.heard = r.heard /\ q.step = step
               /\ UNCHANGED <<v6, v7, v9, v10, v11, v12, v13, v14, v15, v16>>
  <2>1. r \in Sl!SlRequest /\ step \in {"sent", "asked", "engine", "done", "failed"}
    BY <1>0
  <2>2. PICK q \in Sl!SlRequest : /\ q = [r EXCEPT !.step = step] /\ q.kind = r.kind /\ q.target = r.target
                                  /\ q.value = r.value /\ q.step = step /\ q.heard = r.heard
    <3>1. [r EXCEPT !.step = step] \in Sl!SlRequest
      BY <2>1 DEF Sl!SlRequest
    <3>2. QED  BY <2>1, <3>1 DEF Sl!SlRequest
  <2>3. QED  BY <1>1, <2>2 DEF Sl!SlStep, Sl!slForm
<1>2. ASSUME NEW step \in {"asked", "engine", "done", "failed"}, Sl!SlStep(r, step),
             \/ step = "engine" /\ r.kind # "revoke" /\ v3' = [v3 EXCEPT ![r.target] = TRUE] /\ v2' = v2
             \/ step = "engine" /\ r.kind = "revoke" /\ v3' = [v3 EXCEPT ![r.target] = FALSE] /\ v2' = v2
             \/ step # "engine" /\ r.step # "engine" /\ v3' = v3 /\ v2' \in {v2, [v2 EXCEPT ![r.target] = FALSE]}
             \/ step # "engine" /\ r.step = "engine" /\ v3' = v3 /\ v2' = [v2 EXCEPT ![r.target] = r.kind # "revoke"]
      PROVE  \E q \in Sl!SlRequest :
               /\ v8' = (v8 \ {r}) \cup {q} /\ q.kind = r.kind /\ q.target = r.target /\ q.value = r.value
               /\ q.heard = r.heard /\ q.step # "sent"
               /\ UNCHANGED <<v6, v7, v9, v10, v11, v12, v13, v14, v15, v16>>
               /\ \/ q.step = "engine" /\ q.kind # "revoke" /\ v3' = [v3 EXCEPT ![q.target] = TRUE] /\ v2' = v2
                  \/ q.step = "engine" /\ q.kind = "revoke" /\ v3' = [v3 EXCEPT ![q.target] = FALSE] /\ v2' = v2
                  \/ q.step # "engine" /\ r.step # "engine" /\ v3' = v3 /\ v2' \in {v2, [v2 EXCEPT ![q.target] = FALSE]}
                  \/ q.step # "engine" /\ r.step = "engine" /\ v3' = v3 /\ v2' = [v2 EXCEPT ![q.target] = q.kind # "revoke"]
  BY <1>1, <1>2
<1>3. \E step \in {"asked", "engine", "done", "failed"} : Sl!SlStep(r, step) /\
             (\/ step = "engine" /\ r.kind # "revoke" /\ v3' = [v3 EXCEPT ![r.target] = TRUE] /\ v2' = v2
              \/ step = "engine" /\ r.kind = "revoke" /\ v3' = [v3 EXCEPT ![r.target] = FALSE] /\ v2' = v2
              \/ step # "engine" /\ r.step # "engine" /\ v3' = v3 /\ v2' \in {v2, [v2 EXCEPT ![r.target] = FALSE]}
              \/ step # "engine" /\ r.step = "engine" /\ v3' = v3 /\ v2' = [v2 EXCEPT ![r.target] = r.kind # "revoke"])
  <2>1. CASE Sl!SlPending(r) \/ Sl!SlForced(r) \/ Sl!SlAutoSet(r)
    BY <2>1 DEF Sl!SlPending, Sl!SlForced, Sl!SlAutoSet
  <2>2. CASE Sl!SlEngine(r)
    BY <2>2 DEF Sl!SlEngine, Sl!SlReady
  <2>3. CASE Sl!SlEngineFails(r)
    <3>1. r.step # "engine" /\ Sl!SlStep(r, "failed") /\ v3' = v3
      BY <2>3 DEF Sl!SlEngineFails, Sl!SlReady
    <3>2. v2' = v2 \/ v2' = [v2 EXCEPT ![r.target] = FALSE] \/ v2' = [v2 EXCEPT ![r.target] = v2[r.target]]
      BY <2>3 DEF Sl!SlEngineFails, Sl!SlSet
    <3>3. [v2 EXCEPT ![r.target] = v2[r.target]] = v2
      BY <1>0 DEF Sl!SlSwitches
    <3>4. QED  BY <3>1, <3>2, <3>3
  <2>4. CASE Sl!SlRecord(r)
    <3>1. r.step = "engine" /\ Sl!SlStep(r, "done") /\ v3' = v3
      BY <2>4 DEF Sl!SlRecord
    <3>2. v2' = [v2 EXCEPT ![r.target] = r.kind # "revoke"]
      BY <2>4 DEF Sl!SlRecord, Sl!SlSet, Sl!SlRevoked, Sl!SlRevokedRow
    <3>3. QED  BY <3>1, <3>2
  <2>5. QED  BY <2>1, <2>2, <2>3, <2>4
<1>4. QED  BY <1>2, <1>3

(* What a step does to the requests, and with them to the server.           *)
LEMMA SslRequests ==
  ASSUME Sl!SlTypeOK, Sl!SlNext
  PROVE  \/ UNCHANGED <<v1, v2, v3, v4, v5, v8, v9, v14, v15>>
         \/ \E new \in Sl!SlRequest :
               /\ v8' = v8 \cup {new} /\ new.step = "sent" /\ new.heard
               /\ v14' = (IF \E r \in v8 : r.target = new.target THEN v14 \cup {new.target} ELSE v14)
               /\ UNCHANGED <<v1, v2, v3, v4, v5, v6, v7, v12, v13, v15, v16>> /\ v9' = v9 + 1
               /\ Sl!SlIsJob(new) => /\ v10.target = none
                                     /\ v10' = [target |-> new.target, action |-> new.kind, status |-> "running",
                                                progress |-> 8]
               /\ ~Sl!SlIsJob(new) => v10' = v10
               /\ new.kind = "manual" => new.target = v12 /\ new.value = v13 /\ v13 # none
               /\ new.kind \in {"force", "auto"} => new.value \in BOOLEAN
         \/ \E r \in v8, q \in Sl!SlRequest :
               /\ v8' = (v8 \ {r}) \cup {q} /\ q.kind = r.kind /\ q.target = r.target /\ q.value = r.value
               /\ q.heard = r.heard /\ q.step # "sent"
               /\ UNCHANGED <<v6, v7, v9, v10, v11, v12, v13, v14, v15, v16>>
               /\ \/ q.step = "engine" /\ q.kind # "revoke" /\ v3' = [v3 EXCEPT ![q.target] = TRUE] /\ v2' = v2
                  \/ q.step = "engine" /\ q.kind = "revoke" /\ v3' = [v3 EXCEPT ![q.target] = FALSE] /\ v2' = v2
                  \/ q.step # "engine" /\ r.step # "engine" /\ v3' = v3 /\ v2' \in {v2, [v2 EXCEPT ![q.target] = FALSE]}
                  \/ q.step # "engine" /\ r.step = "engine" /\ v3' = v3 /\ v2' = [v2 EXCEPT ![q.target] = q.kind # "revoke"]
         \/ \E r \in v8 :
               /\ v8' = v8 \ {r} /\ UNCHANGED <<v1, v2, v3, v4, v5, v9, v14>> /\ r.step # "engine"
               /\ v15' \in BOOLEAN /\ (v15 => v15') /\ (r.step = "sent" => UNCHANGED <<v6, v7>>)
               /\ r.step # "sent" => v15' \/ (v6' = [v6 EXCEPT !.fresh = FALSE] /\ v7' = [v7 EXCEPT !.fresh = FALSE])
         \/ \E r \in v8, q \in Sl!SlRequest :
               /\ v8' = (v8 \ {r}) \cup {q} /\ q.kind = r.kind /\ q.target = r.target /\ q.value = r.value
               /\ q.step = r.step /\ ~q.heard
               /\ UNCHANGED <<v1, v2, v3, v4, v5, v6, v7, v9, v14>>
               /\ v15' = (v15 \/ r.step # "sent")
<1>0. v8 \subseteq Sl!SlRequest /\ v9 \in Nat /\ v12 \in Sites \cup Subs \cup {none} /\ v13 \in Sites \cup Subs \cup {none}
      /\ v15 \in BOOLEAN /\ v6 \in [fresh : BOOLEAN, row : Sl!SlRows, force : Sl!SlSwitches, auto : Sl!SlSwitches]
      /\ v2 \in Sl!SlSwitches
  BY DEF Sl!SlTypeOK
<1>1. CASE \/ Sl!SlReadCerts \/ Sl!SlReadFlags \/ Sl!SlTypeManual \/ Sl!SlCancelManual \/ Sl!SlClose
           \/ \E p \in {8, 92} : Sl!SlTick(p)
           \/ \E t \in Sites \cup Subs : Sl!SlOpenManual(t)
  BY <1>1 DEF Sl!SlReadCerts, Sl!SlReadFlags, Sl!SlTypeManual, Sl!SlCancelManual, Sl!SlClose, Sl!SlTick, Sl!SlOpenManual,
     Sl!slServer
<1>2. ASSUME NEW r \in v8, Sl!SlAnswered(r) \/ Sl!SlEndsUnheard(r) \/ (Sl!SlFails(r) /\ r.step \in {"done", "failed"})
      PROVE  /\ v8' = v8 \ {r} /\ UNCHANGED <<v1, v2, v3, v4, v5, v9, v14>> /\ r.step # "engine"
             /\ v15' \in BOOLEAN /\ (v15 => v15') /\ (r.step = "sent" => UNCHANGED <<v6, v7>>)
             /\ r.step # "sent" => v15' \/ (v6' = [v6 EXCEPT !.fresh = FALSE] /\ v7' = [v7 EXCEPT !.fresh = FALSE])
  <2>1. CASE Sl!SlAnswered(r)
    BY <1>0, <2>1 DEF Sl!SlAnswered, Sl!SlInvalidate, Sl!SlForget, Sl!slServer
  <2>2. CASE Sl!SlEndsUnheard(r)
    <3>1. v8' = v8 \ {r} /\ UNCHANGED <<v1, v2, v3, v4, v5, v6, v7, v9, v14>> /\ r.step # "engine" /\ v15' = (v15 \/ r.step # "sent")
      BY <2>2 DEF Sl!SlEndsUnheard, Sl!slServer
    <3>2. QED  BY <3>1
  <2>3. CASE Sl!SlFails(r) /\ r.step \in {"done", "failed"}
    BY <2>3 DEF Sl!SlFails, Sl!slServer
  <2>4. QED  BY <1>2, <2>1, <2>2, <2>3
<1>3. ASSUME NEW r \in v8, Sl!SlFails(r), r.step \notin {"done", "failed"}
       PROVE  \E q \in Sl!SlRequest :
               /\ v8' = (v8 \ {r}) \cup {q} /\ q.kind = r.kind /\ q.target = r.target /\ q.value = r.value
               /\ q.step = r.step /\ ~q.heard
               /\ UNCHANGED <<v1, v2, v3, v4, v5, v6, v7, v9, v14>>
               /\ v15' = (v15 \/ r.step # "sent")
  <2>1. PICK q \in Sl!SlRequest : /\ q = [r EXCEPT !.heard = FALSE] /\ q.kind = r.kind /\ q.target = r.target
                                  /\ q.value = r.value /\ q.step = r.step /\ q.heard = FALSE
    BY <1>0, SslUnheard
  <2>2. QED  BY <1>3, <2>1 DEF Sl!SlFails, Sl!slServer
<1>4. QED
  BY <1>1, <1>2, <1>3, SslAsked, SslStepped DEF Sl!SlNext

LEMMA SslTypes ==
  ASSUME Sl!SlTypeOK, Sl!SlNext
  PROVE  Sl!SlTypeOK'
<1>0. /\ v1 \in Sl!SlRows /\ v2 \in Sl!SlSwitches /\ v3 \in Sl!SlSwitches /\ v4 \in Sl!SlSwitches /\ v5 \in Sl!SlSwitches
      /\ v6 \in [fresh : BOOLEAN, row : Sl!SlRows, force : Sl!SlSwitches, auto : Sl!SlSwitches]
      /\ v7 \in [fresh : BOOLEAN, on : Sl!SlSwitches] /\ v8 \subseteq Sl!SlRequest /\ v9 \in Nat
      /\ v10 \in [target : Sites \cup Subs \cup {none}, action : {"issue", "renew", "revoke", "manual"},
                  status : {"running", "success", "error"}, progress : {0, 8, 92, 100}]
      /\ v12 \in Sites \cup Subs \cup {none} /\ v13 \in Sites \cup Subs \cup {none}
      /\ v15 \in BOOLEAN /\ v16 \in BOOLEAN
      /\ \A r \in v8 : r.kind \in {"force", "auto"} => r.value \in BOOLEAN
  BY DEF Sl!SlTypeOK
<1>01. \A r \in v8 : r.target \in Sites \cup Subs
  BY <1>0 DEF Sl!SlRequest
<1>1. v8' \subseteq Sl!SlRequest /\ v9' \in Nat
  <2>1. v8' \subseteq Sl!SlRequest /\ (v9' = v9 \/ v9' = v9 + 1)
    BY <1>0, SslRequests
  <2>2. QED  BY <1>0, <2>1
<1>11. \A r \in v8' : r.kind \in {"force", "auto"} => r.value \in BOOLEAN
  <2>1. \A x \in v8' : \/ x \in v8 \/ (x.kind \in {"force", "auto"} => x.value \in BOOLEAN)
                        \/ \E r \in v8 : x.kind = r.kind /\ x.value = r.value
    BY SslRequests
  <2>2. QED  BY <1>0, <2>1
<1>2. v1' \in Sl!SlRows
  <2>1. v1' = v1 \/ \E r \in v8 : \/ v1' = [v1 EXCEPT ![r.target] = "pending"]
                                  \/ v1' = [v1 EXCEPT ![r.target] = "active"]
                                  \/ v1' = [v1 EXCEPT ![r.target] = "failed"]
                                  \/ v1' = [v1 EXCEPT ![r.target] = "none"]
    BY DEF Sl!SlNext, Sl!SlReadCerts, Sl!SlReadFlags, Sl!SlTypeManual, Sl!SlCancelManual, Sl!SlUpload, Sl!SlClose, Sl!SlTick,
       Sl!SlClick, Sl!SlSwitch, Sl!SlOpenManual, Sl!SlPending, Sl!SlForced, Sl!SlAutoSet, Sl!SlEngine, Sl!SlEngineFails,
       Sl!SlRecord, Sl!SlAnswered, Sl!SlFails, Sl!SlEndsUnheard, Sl!slServer, Sl!SlSet, Sl!SlWritten, Sl!SlRevoked,
       Sl!SlRevokedRow
  <2>2. QED  BY <1>0, <1>01, <2>1 DEF Sl!SlRows
<1>3. v2' \in Sl!SlSwitches /\ v3' \in Sl!SlSwitches
  <2>1. /\ v2' = v2 \/ \E q \in Sl!SlRequest, b \in BOOLEAN : v2' = [v2 EXCEPT ![q.target] = b]
        /\ v3' = v3 \/ \E q \in Sl!SlRequest, b \in BOOLEAN : v3' = [v3 EXCEPT ![q.target] = b]
    <3>1. \A q \in Sl!SlRequest : (q.kind # "revoke") \in BOOLEAN
      OBVIOUS
    <3>2. QED  BY <3>1, SslRequests
  <2>2. QED  BY <1>0, <2>1 DEF Sl!SlSwitches
<1>4. v4' \in Sl!SlSwitches /\ v5' \in Sl!SlSwitches
  <2>1. /\ v4' = v4 \/ \E r \in v8 : \/ v4' = [v4 EXCEPT ![r.target] = TRUE]
                                     \/ r.kind = "force" /\ v4' = [v4 EXCEPT ![r.target] = r.value]
        /\ v5' = v5 \/ \E r \in v8 : \/ v5' = [v5 EXCEPT ![r.target] = TRUE] \/ v5' = [v5 EXCEPT ![r.target] = FALSE]
                                     \/ r.kind = "auto" /\ v5' = [v5 EXCEPT ![r.target] = r.value]
    BY DEF Sl!SlNext, Sl!SlReadCerts, Sl!SlReadFlags, Sl!SlTypeManual, Sl!SlCancelManual, Sl!SlUpload, Sl!SlClose, Sl!SlTick,
       Sl!SlClick, Sl!SlSwitch, Sl!SlOpenManual, Sl!SlPending, Sl!SlForced, Sl!SlAutoSet, Sl!SlEngine, Sl!SlEngineFails,
       Sl!SlRecord, Sl!SlAnswered, Sl!SlFails, Sl!SlEndsUnheard, Sl!slServer
  <2>2. QED  BY <1>0, <1>01, <2>1 DEF Sl!SlSwitches
<1>5. /\ v6' \in [fresh : BOOLEAN, row : Sl!SlRows, force : Sl!SlSwitches, auto : Sl!SlSwitches]
      /\ v7' \in [fresh : BOOLEAN, on : Sl!SlSwitches]
  <2>1. /\ v6' \in {v6, [v6 EXCEPT !.fresh = FALSE], [fresh |-> TRUE, row |-> v1, force |-> v4, auto |-> v5]}
        /\ v7' \in {v7, [v7 EXCEPT !.fresh = FALSE], [fresh |-> TRUE, on |-> v2]}
    BY DEF Sl!SlNext, Sl!SlReadCerts, Sl!SlReadFlags, Sl!SlTypeManual, Sl!SlCancelManual, Sl!SlUpload, Sl!SlClose, Sl!SlTick,
       Sl!SlClick, Sl!SlSwitch, Sl!SlOpenManual, Sl!SlPending, Sl!SlForced, Sl!SlAutoSet, Sl!SlEngine, Sl!SlEngineFails,
       Sl!SlRecord, Sl!SlAnswered, Sl!SlFails, Sl!SlEndsUnheard, Sl!SlRead, Sl!SlStep, Sl!SlInvalidate, Sl!SlForget
  <2>2. [v6 EXCEPT !.fresh = FALSE] \in [fresh : BOOLEAN, row : Sl!SlRows, force : Sl!SlSwitches, auto : Sl!SlSwitches]
    BY ONLY <1>0
  <2>3. [fresh |-> TRUE, row |-> v1, force |-> v4, auto |-> v5]
          \in [fresh : BOOLEAN, row : Sl!SlRows, force : Sl!SlSwitches, auto : Sl!SlSwitches]
    BY ONLY <1>0
  <2>4. /\ [v7 EXCEPT !.fresh = FALSE] \in [fresh : BOOLEAN, on : Sl!SlSwitches]
        /\ [fresh |-> TRUE, on |-> v2] \in [fresh : BOOLEAN, on : Sl!SlSwitches]
    BY ONLY <1>0
  <2>5. QED  BY ONLY <1>0, <2>1, <2>2, <2>3, <2>4
<1>6. v10' \in [target : Sites \cup Subs \cup {none}, action : {"issue", "renew", "revoke", "manual"},
                status : {"running", "success", "error"}, progress : {0, 8, 92, 100}]
  <2>1. \/ v10' \in {v10, [target |-> none, action |-> "issue", status |-> "success", progress |-> 0]}
        \/ \E p \in {8, 92} : v10' = [v10 EXCEPT !.progress = p]
        \/ \E t \in Sites \cup Subs, a \in {"issue", "renew", "revoke", "manual"} :
              v10' = [target |-> t, action |-> a, status |-> "running", progress |-> 8]
        \/ v10' = [v10 EXCEPT !.status = "success", !.progress = 100]
        \/ v10' = [v10 EXCEPT !.status = "error", !.progress = v10.progress]
    <3>1. v12 # none => v12 \in Sites \cup Subs
      BY <1>0
    <3>2. CASE Sl!SlUpload \/ \E t \in Sites \cup Subs : \/ \E action \in {"issue", "renew", "revoke"} : Sl!SlClick(t, action)
                                                          \/ \E kind \in {"force", "auto"} : Sl!SlSwitch(t, kind)
      BY <3>1, <3>2 DEF Sl!SlUpload, Sl!SlClick, Sl!SlSwitch, Sl!SlStart
    <3>3. CASE \E r \in v8 : Sl!SlAnswered(r) \/ Sl!SlFails(r)
      BY <3>3 DEF Sl!SlAnswered, Sl!SlFails, Sl!SlFinish
    <3>4. CASE \E p \in {8, 92} : Sl!SlTick(p)
      BY <3>4 DEF Sl!SlTick, Sl!SlTicked, Sl!SlTickGuarded
    <3>5. CASE \/ Sl!SlReadCerts \/ Sl!SlReadFlags \/ Sl!SlTypeManual \/ Sl!SlCancelManual \/ Sl!SlClose
               \/ \E t \in Sites \cup Subs : Sl!SlOpenManual(t)
               \/ \E r \in v8 : \/ Sl!SlPending(r) \/ Sl!SlForced(r) \/ Sl!SlAutoSet(r) \/ Sl!SlEngine(r)
                                \/ Sl!SlEngineFails(r) \/ Sl!SlRecord(r) \/ Sl!SlEndsUnheard(r)
      BY <3>5 DEF Sl!SlReadCerts, Sl!SlReadFlags, Sl!SlTypeManual, Sl!SlCancelManual, Sl!SlClose, Sl!SlOpenManual, Sl!SlNoJob,
         Sl!SlPending, Sl!SlForced, Sl!SlAutoSet, Sl!SlEngine, Sl!SlEngineFails, Sl!SlRecord, Sl!SlEndsUnheard, Sl!SlStep
    <3>6. QED  BY <3>2, <3>3, <3>4, <3>5 DEF Sl!SlNext
  <2>2. v10 = [target |-> v10.target, action |-> v10.action, status |-> v10.status, progress |-> v10.progress]
    BY ONLY <1>0
  <2>3. CASE v10' = [v10 EXCEPT !.status = "success", !.progress = 100]
    <3>1. v10' = [target |-> v10.target, action |-> v10.action, status |-> "success", progress |-> 100]
      BY ONLY <2>2, <2>3
    <3>2. QED  BY ONLY <1>0, <3>1
  <2>4. CASE v10' = [v10 EXCEPT !.status = "error", !.progress = v10.progress]
    <3>1. v10' = [target |-> v10.target, action |-> v10.action, status |-> "error", progress |-> v10.progress]
      BY ONLY <2>2, <2>4
    <3>2. QED  BY ONLY <1>0, <3>1
  <2>5. CASE \E p \in {8, 92} : v10' = [v10 EXCEPT !.progress = p]
    BY ONLY <1>0, <2>5
  <2>6. CASE \E t \in Sites \cup Subs, a \in {"issue", "renew", "revoke", "manual"} :
              v10' = [target |-> t, action |-> a, status |-> "running", progress |-> 8]
    BY ONLY <1>0, <2>6
  <2>7. CASE v10' \in {v10, [target |-> none, action |-> "issue", status |-> "success", progress |-> 0]}
    BY ONLY <1>0, <2>7
  <2>8. QED  BY ONLY <2>1, <2>3, <2>4, <2>5, <2>6, <2>7
<1>7. v12' \in Sites \cup Subs \cup {none} /\ v13' \in Sites \cup Subs \cup {none}
  <2>1. v12' \in {v12, none} \cup Sites \cup Subs /\ v13' \in {v13, v12, none}
    BY DEF Sl!SlNext, Sl!SlReadCerts, Sl!SlReadFlags, Sl!SlTypeManual, Sl!SlCancelManual, Sl!SlUpload, Sl!SlClose, Sl!SlTick,
       Sl!SlClick, Sl!SlSwitch, Sl!SlOpenManual, Sl!SlPending, Sl!SlForced, Sl!SlAutoSet, Sl!SlEngine, Sl!SlEngineFails,
       Sl!SlRecord, Sl!SlAnswered, Sl!SlFails, Sl!SlEndsUnheard, Sl!SlStep, Sl!SlAfterUpload, Sl!SlTextsCleared, Sl!slForm
  <2>2. QED  BY <1>0, <2>1
<1>8. v15' \in BOOLEAN
  BY <1>0, SslRequests
<1>9. v16' \in BOOLEAN
  BY <1>0 DEF Sl!SlNext, Sl!SlReadCerts, Sl!SlReadFlags, Sl!SlTypeManual, Sl!SlCancelManual, Sl!SlUpload, Sl!SlClose, Sl!SlTick,
       Sl!SlClick, Sl!SlSwitch, Sl!SlOpenManual, Sl!SlPending, Sl!SlForced, Sl!SlAutoSet, Sl!SlEngine, Sl!SlEngineFails,
       Sl!SlRecord, Sl!SlAnswered, Sl!SlFails, Sl!SlEndsUnheard, Sl!SlStep, Sl!SlAfterUpload, Sl!SlTextsCleared, Sl!slForm
<1>10. QED  BY <1>1, <1>2, <1>3, <1>4, <1>5, <1>6, <1>7, <1>8, <1>9, <1>11 DEF Sl!SlTypeOK

LEMMA SslFlags ==
  ASSUME Sl!SlTypeOK, Sl!SlOneEach, Sl!SlInstalled, Sl!SlFlagsLead, Sl!SlNext
  PROVE  Sl!SlOneEach' /\ Sl!SlInstalled' /\ Sl!SlFlagsLead'
<1> DEFINE Goal == Sl!SlOneEach' /\ Sl!SlInstalled' /\ Sl!SlFlagsLead'
<1>0. v2 \in Sl!SlSwitches /\ v3 \in Sl!SlSwitches /\ v8 \subseteq Sl!SlRequest /\ \A r \in v8 : r.target \in Sites \cup Subs
  BY DEF Sl!SlTypeOK, Sl!SlRequest
<1>1. ASSUME UNCHANGED <<v2, v3, v8, v14>> PROVE Goal
  BY <1>1 DEF Sl!SlOneEach, Sl!SlInstalled, Sl!SlFlagsLead
<1>2. ASSUME NEW new \in Sl!SlRequest, v8' = v8 \cup {new}, new.step = "sent", UNCHANGED <<v2, v3>>,
             v14' = (IF \E r \in v8 : r.target = new.target THEN v14 \cup {new.target} ELSE v14)
      PROVE  Goal
  BY <1>2 DEF Sl!SlOneEach, Sl!SlInstalled, Sl!SlFlagsLead
<1>3. ASSUME NEW r \in v8, NEW q \in Sl!SlRequest, v8' = (v8 \ {r}) \cup {q}, q.kind = r.kind, q.target = r.target, v14' = v14,
             \/ q.step = "engine" /\ q.kind # "revoke" /\ v3' = [v3 EXCEPT ![q.target] = TRUE] /\ v2' = v2
             \/ q.step = "engine" /\ q.kind = "revoke" /\ v3' = [v3 EXCEPT ![q.target] = FALSE] /\ v2' = v2
             \/ q.step # "engine" /\ r.step # "engine" /\ v3' = v3 /\ v2' \in {v2, [v2 EXCEPT ![q.target] = FALSE]}
             \/ q.step # "engine" /\ r.step = "engine" /\ v3' = v3 /\ v2' = [v2 EXCEPT ![q.target] = q.kind # "revoke"]
             \/ q.step = r.step /\ UNCHANGED <<v2, v3>>
      PROVE  Goal
  <2>1. Sl!SlOneEach'
    BY <1>3 DEF Sl!SlOneEach
  <2>2. q.target \in Sites \cup Subs /\ q.target \in DOMAIN v2 /\ q.target \in DOMAIN v3
    BY <1>0, <1>3 DEF Sl!SlSwitches
  <2>3. \A t \in (Sites \cup Subs) \ {q.target} : v2'[t] = v2[t] /\ v3'[t] = v3[t]
    BY <1>0, <1>3, <2>2 DEF Sl!SlSwitches
  <2>4. q.target \notin v14 => \A x \in v8' : x.target = q.target => x = q
    BY <1>3 DEF Sl!SlOneEach
  <2>5. Sl!SlInstalled'
    <3>1. ASSUME q.target \notin v14, q.step = "engine", q.kind # "revoke" PROVE v3'[q.target]
      BY <1>0, <1>3, <2>2, <3>1 DEF Sl!SlSwitches, Sl!SlInstalled
    <3>2. \A x \in v8' : x = q \/ x \in v8
      BY <1>3
    <3>3. QED  BY <1>0, <1>3, <2>3, <2>4, <3>1, <3>2 DEF Sl!SlInstalled
  <2>6. Sl!SlFlagsLead'
    <3>1. ASSUME q.target \notin v14, v2'[q.target], ~v3'[q.target] PROVE q.kind = "revoke" /\ q.step = "engine"
      <4>1. v2[q.target] /\ ~v3[q.target] => r.kind = "revoke" /\ r.step = "engine"
        BY <1>0, <1>3, <3>1 DEF Sl!SlFlagsLead, Sl!SlOneEach
      <4>2. r.step = "engine" /\ r.kind # "revoke" => v3[q.target]
        BY <1>3, <3>1 DEF Sl!SlInstalled
      <4>3. QED  BY <1>0, <1>3, <2>2, <3>1, <4>1, <4>2 DEF Sl!SlSwitches
    <3>2. q \in v8' /\ \A x \in v8 : x.target # q.target => x \in v8'
      BY <1>3
    <3>3. QED  BY <1>0, <1>3, <2>3, <3>1, <3>2 DEF Sl!SlFlagsLead
  <2>7. QED  BY <2>1, <2>5, <2>6
<1>4. ASSUME NEW r \in v8, v8' = v8 \ {r}, UNCHANGED <<v2, v3, v14>>, r.step # "engine" PROVE Goal
  BY <1>4 DEF Sl!SlOneEach, Sl!SlInstalled, Sl!SlFlagsLead
<1> HIDE DEF Goal
<1>5. QED  BY <1>1, <1>2, <1>3, <1>4, SslRequests DEF Goal

LEMMA SslLists ==
  ASSUME Sl!SlTypeOK, Sl!SlListsLead, Sl!SlNext
  PROVE  Sl!SlListsLead'
<1>0. /\ v15 \in BOOLEAN /\ v6 \in [fresh : BOOLEAN, row : Sl!SlRows, force : Sl!SlSwitches, auto : Sl!SlSwitches]
      /\ v7 \in [fresh : BOOLEAN, on : Sl!SlSwitches]
  BY DEF Sl!SlTypeOK
<1>1. ASSUME UNCHANGED <<v1, v2, v4, v5, v8, v15>> PROVE Sl!SlListsLead'
  <2>1. v6' = v6 \/ v6' = Sl!SlRead \/ ~v6'.fresh
    BY <1>0 DEF Sl!SlNext, Sl!SlReadCerts, Sl!SlReadFlags, Sl!SlTypeManual, Sl!SlCancelManual, Sl!SlUpload, Sl!SlClose, Sl!SlTick,
       Sl!SlClick, Sl!SlSwitch, Sl!SlOpenManual, Sl!SlPending, Sl!SlForced, Sl!SlAutoSet, Sl!SlEngine, Sl!SlEngineFails,
       Sl!SlRecord, Sl!SlAnswered, Sl!SlFails, Sl!SlEndsUnheard, Sl!SlStep, Sl!SlInvalidate, Sl!SlForget
  <2>2. v7' = v7 \/ v7' = [fresh |-> TRUE, on |-> v2] \/ ~v7'.fresh
    BY <1>0 DEF Sl!SlNext, Sl!SlReadCerts, Sl!SlReadFlags, Sl!SlTypeManual, Sl!SlCancelManual, Sl!SlUpload, Sl!SlClose, Sl!SlTick,
       Sl!SlClick, Sl!SlSwitch, Sl!SlOpenManual, Sl!SlPending, Sl!SlForced, Sl!SlAutoSet, Sl!SlEngine, Sl!SlEngineFails,
       Sl!SlRecord, Sl!SlAnswered, Sl!SlFails, Sl!SlEndsUnheard, Sl!SlStep, Sl!SlInvalidate, Sl!SlForget
  <2>3. Sl!SlRead' = Sl!SlRead
    BY <1>1 DEF Sl!SlRead
  <2>4. QED  BY <1>1, <2>1, <2>2, <2>3 DEF Sl!SlListsLead
<1>2. ASSUME UNCHANGED <<v1, v2, v4, v5, v6, v7>>,
             (\A x \in v8' : x.step = "sent") /\ ~v15' => (\A x \in v8 : x.step = "sent") /\ ~v15
      PROVE  Sl!SlListsLead'
  <2>1. Sl!SlRead' = Sl!SlRead
    BY <1>2 DEF Sl!SlRead
  <2>2. QED  BY <1>2, <2>1 DEF Sl!SlListsLead
<1>3. ASSUME NEW new \in Sl!SlRequest, v8' = v8 \cup {new}, new.step = "sent", UNCHANGED <<v1, v2, v4, v5, v6, v7, v15>>
      PROVE  Sl!SlListsLead'
  BY <1>2, <1>3
<1>4. ASSUME NEW q, q \in v8', q.step # "sent" PROVE Sl!SlListsLead'
  BY <1>4 DEF Sl!SlListsLead
<1>5. ASSUME NEW r \in v8, v8' = v8 \ {r}, UNCHANGED <<v1, v2, v4, v5>>,
             v15' \in BOOLEAN, v15 => v15', r.step = "sent" => UNCHANGED <<v6, v7>>,
             r.step # "sent" => v15' \/ (v6' = [v6 EXCEPT !.fresh = FALSE] /\ v7' = [v7 EXCEPT !.fresh = FALSE])
      PROVE  Sl!SlListsLead'
  <2>1. CASE r.step = "sent"
    BY <1>0, <1>2, <1>5, <2>1
  <2>2. CASE r.step # "sent"
    BY <1>0, <1>5, <2>2 DEF Sl!SlListsLead
  <2>3. QED  BY <2>1, <2>2
<1>6. ASSUME NEW r \in v8, NEW q \in Sl!SlRequest, v8' = (v8 \ {r}) \cup {q}, q.step = r.step,
             UNCHANGED <<v1, v2, v4, v5, v6, v7>>, v15' = (v15 \/ r.step # "sent")
      PROVE  Sl!SlListsLead'
  BY <1>0, <1>2, <1>6
<1>7. QED  BY <1>1, <1>3, <1>4, <1>5, <1>6, SslRequests

LEMMA SslJobs ==
  ASSUME Sl!SlInv, Sl!SlNext
  PROVE  Sl!SlJobIsAwaited' /\ Sl!SlBarIsFull' /\ Sl!SlTextIsOwn' /\ Sl!UploadedToOwnSite'
<1> DEFINE Goal == Sl!SlJobIsAwaited' /\ Sl!SlBarIsFull' /\ Sl!SlTextIsOwn' /\ Sl!UploadedToOwnSite'
<1>0. /\ Sl!SlTypeOK /\ Sl!SlJobIsAwaited /\ Sl!SlBarIsFull /\ Sl!SlTextIsOwn /\ Sl!UploadedToOwnSite
      /\ v8 \subseteq Sl!SlRequest /\ v16 \in BOOLEAN /\ v12 \in Sites \cup Subs \cup {none} /\ none \notin Sites \cup Subs
      /\ v10 \in [target : Sites \cup Subs \cup {none}, action : {"issue", "renew", "revoke", "manual"},
                  status : {"running", "success", "error"}, progress : {0, 8, 92, 100}]
  BY PagesAssumption DEF Sl!SlInv, Sl!SlTypeOK
\* The page alone.
<1>1. ASSUME v8' = v8, Sl!SlJobIsAwaited', Sl!SlBarIsFull',
             \/ UNCHANGED <<v12, v13, v16>>
             \/ v10.target = none /\ Sl!SlTextIsOwn'
      PROVE  Goal
  <2>1. v10.target = none => \A r \in v8 : ~(r.heard /\ r.kind = "manual")
    BY <1>0 DEF Sl!SlJobIsAwaited, Sl!SlIsJob, Sl!SlRequest
  <2>2. QED  BY <1>0, <1>1, <2>1 DEF Sl!SlTextIsOwn, Sl!UploadedToOwnSite
<1>2. ASSUME v8' = v8, v10' = v10 PROVE Sl!SlJobIsAwaited' /\ Sl!SlBarIsFull'
  BY <1>0, <1>2 DEF Sl!SlJobIsAwaited, Sl!SlBarIsFull, Sl!SlIsJob
\* A request goes on, or is no longer awaited but was of no job.
<1>3. ASSUME NEW r \in v8, NEW q \in Sl!SlRequest, v8' = (v8 \ {r}) \cup {q}, q.kind = r.kind, q.target = r.target,
             q.value = r.value, q.heard = r.heard, UNCHANGED <<v10, v12, v13, v16>>
      PROVE  Goal
  <2>1. Sl!SlJobIsAwaited'
    BY <1>0, <1>3 DEF Sl!SlJobIsAwaited, Sl!SlIsJob
  <2>2. QED  BY <1>0, <1>3, <2>1 DEF Sl!SlBarIsFull, Sl!SlTextIsOwn, Sl!UploadedToOwnSite
<1>4. ASSUME NEW r \in v8, NEW q \in Sl!SlRequest, v8' = (v8 \ {r}) \cup {q} \/ v8' = v8 \ {r}, ~q.heard,
             ~r.heard \/ ~Sl!SlIsJob(r), UNCHANGED <<v10, v12, v13, v16>>
      PROVE  Goal
  <2>1. Sl!SlJobIsAwaited'
    BY <1>0, <1>4 DEF Sl!SlJobIsAwaited, Sl!SlIsJob
  <2>2. QED  BY <1>0, <1>4, <2>1 DEF Sl!SlBarIsFull, Sl!SlTextIsOwn, Sl!UploadedToOwnSite
\* The request of the job is answered.
<1>5. ASSUME NEW r \in v8, NEW q \in Sl!SlRequest, v8' = (v8 \ {r}) \cup {q} \/ v8' = v8 \ {r}, ~q.heard,
             r.heard, Sl!SlIsJob(r), Sl!SlFinish(TRUE) \/ Sl!SlFinish(FALSE),
             \/ UNCHANGED <<v12, v13, v16>>
             \/ v12' = none /\ v13' = none /\ v16' = FALSE
      PROVE  Goal
  <2>1. v10.target # none /\ v10.status = "running" /\ v10.progress # 100 /\ \A x \in v8' : ~(x.heard /\ Sl!SlIsJob(x))
    BY <1>0, <1>5 DEF Sl!SlJobIsAwaited, Sl!SlBarIsFull, Sl!SlRequest
  <2>2. v10'.status # "running" /\ (v10'.progress = 100 <=> v10'.status = "success")
    <3>1. CASE Sl!SlFinish(TRUE)
      <4>1. v10' = [v10 EXCEPT !.status = "success", !.progress = 100]
        BY <2>1, <3>1 DEF Sl!SlFinish
      <4>2. QED  BY <1>0, <4>1
    <3>2. CASE Sl!SlFinish(FALSE)
      <4>1. v10' = [v10 EXCEPT !.status = "error", !.progress = v10.progress]
        BY <2>1, <3>2 DEF Sl!SlFinish
      <4>2. v10'.status = "error" /\ v10'.progress = v10.progress
        BY <1>0, <4>1
      <4>3. QED  BY <2>1, <4>2
    <3>3. QED  BY <1>5, <3>1, <3>2
  <2>3. Sl!SlJobIsAwaited' /\ Sl!SlBarIsFull'
    BY <2>1, <2>2 DEF Sl!SlJobIsAwaited, Sl!SlBarIsFull, Sl!SlIsJob
  <2>4. QED  BY <1>0, <1>5, <2>1, <2>3 DEF Sl!SlTextIsOwn, Sl!UploadedToOwnSite, Sl!SlIsJob
<1>6. ASSUME Sl!SlReadCerts \/ Sl!SlReadFlags PROVE Goal
  BY <1>1, <1>2, <1>6 DEF Sl!SlReadCerts, Sl!SlReadFlags, Sl!slForm
<1>7. ASSUME Sl!SlTypeManual \/ Sl!SlCancelManual \/ \E t \in Sites \cup Subs : Sl!SlOpenManual(t) PROVE Goal
  <2>1. v8' = v8 /\ v10' = v10 /\ v10.target = none
    BY <1>7 DEF Sl!SlTypeManual, Sl!SlCancelManual, Sl!SlOpenManual, Sl!SlFree
  <2>2. Sl!SlTextIsOwn'
    <3>1. CASE Sl!SlTypeManual
      BY <3>1 DEF Sl!SlTypeManual, Sl!SlTextIsOwn
    <3>2. CASE Sl!SlCancelManual
      BY <1>0, <3>2 DEF Sl!SlCancelManual, Sl!SlTextIsOwn
    <3>3. CASE \E t \in Sites \cup Subs : Sl!SlOpenManual(t)
      BY <1>0, <3>3 DEF Sl!SlOpenManual, Sl!SlTextIsOwn
    <3>4. QED  BY <1>7, <3>1, <3>2, <3>3
  <2>3. QED  BY <1>1, <1>2, <2>1, <2>2
<1>8. ASSUME Sl!SlClose \/ \E p \in {8, 92} : Sl!SlTick(p) PROVE Goal
  <2>1. v8' = v8 /\ UNCHANGED <<v12, v13, v16>>
    BY <1>8 DEF Sl!SlClose, Sl!SlTick, Sl!slForm
  <2>2. Sl!SlJobIsAwaited' /\ Sl!SlBarIsFull'
    <3>1. CASE Sl!SlClose
      <4>1. \A r \in v8 : ~(r.heard /\ Sl!SlIsJob(r))
        BY <1>0, <3>1 DEF Sl!SlClose, Sl!SlJobIsAwaited
      <4>2. v10'.target = none
        BY <3>1 DEF Sl!SlClose, Sl!SlNoJob
      <4>3. QED  BY <2>1, <4>1, <4>2 DEF Sl!SlJobIsAwaited, Sl!SlBarIsFull, Sl!SlIsJob
    <3>2. CASE \E p \in {8, 92} : Sl!SlTick(p)
      <4>1. PICK p \in {8, 92} : v10' = IF v10.status = "running" THEN [v10 EXCEPT !.progress = p] ELSE v10
        BY <3>2 DEF Sl!SlTick, Sl!SlTicked, Sl!SlTickGuarded
      <4>2. /\ v10'.target = v10.target /\ v10'.status = v10.status /\ v10'.action = v10.action
            /\ v10.status = "running" => v10'.progress # 100
            /\ v10.status # "running" => v10' = v10
        BY <1>0, <4>1
      <4>3. Sl!SlJobIsAwaited'
        BY <1>0, <2>1, <4>2 DEF Sl!SlJobIsAwaited, Sl!SlIsJob
      <4>4. Sl!SlBarIsFull'
        BY <1>0, <4>2 DEF Sl!SlBarIsFull
      <4>5. QED  BY <4>3, <4>4
    <3>3. QED  BY <1>8, <3>1, <3>2
  <2>3. QED  BY <1>1, <2>1, <2>2
<1>9. ASSUME NEW new \in Sl!SlRequest, v8' = v8 \cup {new}, new.heard, UNCHANGED <<v12, v13, v16>>,
             Sl!SlIsJob(new) => /\ v10.target = none
                                /\ v10' = [target |-> new.target, action |-> new.kind, status |-> "running", progress |-> 8],
             ~Sl!SlIsJob(new) => v10' = v10,
             new.kind = "manual" => new.target = v12 /\ new.value = v13 /\ v13 # none
      PROVE  Goal
  <2>1. v10.target = none => \A r \in v8 : ~(r.heard /\ Sl!SlIsJob(r))
    BY <1>0 DEF Sl!SlJobIsAwaited, Sl!SlRequest
  <2>2. Sl!SlJobIsAwaited'
    <3>1. CASE Sl!SlIsJob(new)
      BY <1>9, <2>1, <3>1 DEF Sl!SlJobIsAwaited, Sl!SlIsJob
    <3>2. CASE ~Sl!SlIsJob(new)
      BY <1>0, <1>9, <3>2 DEF Sl!SlJobIsAwaited, Sl!SlIsJob
    <3>3. QED  BY <3>1, <3>2
  <2>3. Sl!SlBarIsFull'
    BY <1>0, <1>9 DEF Sl!SlBarIsFull
  <2>4. QED  BY <1>0, <1>9, <2>2, <2>3 DEF Sl!SlTextIsOwn, Sl!UploadedToOwnSite
<1>10. ASSUME NEW r \in v8, Sl!SlAnswered(r) PROVE Goal
  <2>1. PICK q \in Sl!SlRequest : ~q.heard
    BY <1>0, SslUnheard
  <2>2. CASE Sl!SlIsJob(r)
    <3>1. /\ v8' = v8 \ {r} /\ r.heard /\ Sl!SlFinish(TRUE)
          /\ UNCHANGED <<v12, v13, v16>> \/ (v12' = none /\ v13' = none /\ v16' = FALSE)
      BY <1>10, <2>2 DEF Sl!SlAnswered, Sl!SlAfterUpload, Sl!SlTextsCleared, Sl!slForm
    <3>2. QED  BY <1>5, <2>1, <2>2, <3>1
  <2>3. CASE ~Sl!SlIsJob(r)
    <3>1. v8' = v8 \ {r} /\ v10' = v10 /\ r.kind # "manual"
      BY <1>10, <2>3 DEF Sl!SlAnswered, Sl!SlIsJob
    <3>2. UNCHANGED <<v12, v13, v16>>
      BY <1>10, <3>1 DEF Sl!SlAnswered, Sl!slForm
    <3>3. QED  BY <1>4, <2>1, <2>3, <3>1, <3>2
  <2>4. QED  BY <2>2, <2>3
<1>11. ASSUME NEW r \in v8, Sl!SlFails(r) \/ Sl!SlEndsUnheard(r) PROVE Goal
  <2>1. PICK q \in Sl!SlRequest : q = [r EXCEPT !.heard = FALSE] /\ ~q.heard
    BY <1>0, SslUnheard
  <2>2. (v8' = (v8 \ {r}) \cup {q} \/ v8' = v8 \ {r}) /\ UNCHANGED <<v12, v13, v16>>
    BY <1>11, <2>1 DEF Sl!SlFails, Sl!SlEndsUnheard, Sl!slForm
  <2>3. \/ r.heard /\ Sl!SlIsJob(r) /\ Sl!SlFinish(FALSE)
        \/ (~r.heard \/ ~Sl!SlIsJob(r)) /\ v10' = v10
    BY <1>11 DEF Sl!SlFails, Sl!SlEndsUnheard
  <2>4. QED  BY <1>4, <1>5, <2>1, <2>2, <2>3
<1> HIDE DEF Goal
<1>12. ASSUME \/ Sl!SlUpload
              \/ \E t \in Sites \cup Subs : \/ \E action \in {"issue", "renew", "revoke"} : Sl!SlClick(t, action)
                                            \/ \E kind \in {"force", "auto"} : Sl!SlSwitch(t, kind)
       PROVE Goal
  <2>1. v8' # v8 \/ v8' = v8
    OBVIOUS
  <2>2. \E new \in Sl!SlRequest :
               /\ v8' = v8 \cup {new} /\ new.heard /\ UNCHANGED <<v12, v13, v16>>
               /\ Sl!SlIsJob(new) => /\ v10.target = none
                                     /\ v10' = [target |-> new.target, action |-> new.kind, status |-> "running",
                                                progress |-> 8]
               /\ ~Sl!SlIsJob(new) => v10' = v10
               /\ new.kind = "manual" => new.target = v12 /\ new.value = v13 /\ v13 # none
    BY <1>0, <1>12, SslAsked
  <2>3. QED  BY <1>9, <2>2
<1>13. ASSUME NEW r \in v8, \/ Sl!SlPending(r) \/ Sl!SlForced(r) \/ Sl!SlAutoSet(r) \/ Sl!SlEngine(r) \/ Sl!SlEngineFails(r)
                            \/ Sl!SlRecord(r)
       PROVE Goal
  BY <1>0, <1>3, <1>13, SslStepped
<1>14. Goal
  BY <1>6, <1>7, <1>8, <1>10, <1>11, <1>12, <1>13 DEF Sl!SlNext
<1>15. QED  BY <1>14 DEF Goal

LEMMA SslStep == Sl!SlInv /\ Sl!SlNext => Sl!SlInv'
  BY SslTypes, SslFlags, SslLists, SslJobs DEF Sl!SlInv

LEMMA SslHolds ==
  Sl!SlInv => Sl!FlaggedIsServed /\ Sl!BarIsHonest /\ Sl!UploadedToOwnSite /\ Sl!CertListTrue
<1> SUFFICES ASSUME Sl!SlInv PROVE Sl!FlaggedIsServed /\ Sl!BarIsHonest /\ Sl!UploadedToOwnSite /\ Sl!CertListTrue
  OBVIOUS
<1>1. Sl!FlaggedIsServed
  BY DEF Sl!SlInv, Sl!SlFlagsLead, Sl!FlaggedIsServed
<1>2. Sl!BarIsHonest
  BY DEF Sl!SlInv, Sl!SlJobIsAwaited, Sl!SlBarIsFull, Sl!BarIsHonest
<1>3. Sl!CertListTrue
  BY DEF Sl!SlInv, Sl!SlListsLead, Sl!CertListTrue
<1>4. QED  BY <1>1, <1>2, <1>3 DEF Sl!SlInv

-----------------------------------------------------------------------------
(* The installer.  v1: the runs, v2: the list in hand, v4: an answer under   *)
(* way, v5: the request, v8: one was clicked early; v9: the site, v10: the   *)
(* document roots, v11: as listed, v12: as shown, v13: the request for one,  *)
(* v14: an answer came after another site was picked.                        *)

LEMMA InstallerInit == In!InInit => In!InInv
<1> SUFFICES ASSUME In!InInit PROVE In!InInv
  OBVIOUS
<1>1. In!InNoRuns \in [In!InRuns -> In!InStatus] /\ \A r \in In!InRuns : In!InNoRuns[r] = "none"
  BY DEF In!InNoRuns, In!InStatus
<1>2. In!InTypeOK
  BY <1>1 DEF In!InInit, In!InTypeOK
<1>3. In!InInTurn /\ In!InWas(v2) /\ In!InWas(v4) /\ In!InLatestOnly
  BY <1>1 DEF In!InInit, In!InInTurn, In!InWas, In!InLatestOnly, In!InLive, In!InIdle, In!InSent
<1>4. v11 = v10 /\ In!RootOfPicked
  BY DEF In!InInit, In!RootOfPicked
<1>5. QED  BY <1>2, <1>3, <1>4 DEF In!InInv

LEMMA InstallerCardinality == \A S : In!Cardinality(S) = Cardinality(S)
  BY DEF In!Cardinality, Cardinality

(* A set of numbers up to N that is not empty has a greatest one.            *)
LEMMA GreatestNumber ==
  ASSUME NEW N \in Nat, NEW S \in SUBSET (1..N), S # {}
  PROVE  \E n \in S : \A x \in S : x <= n
<1> DEFINE R == {p \in Nat \X Nat : p[1] < p[2]}
           T == {N - x : x \in S}
<1>1. IsWellFoundedOn(R, Nat)
  <2>1. R = OpToRel(<, Nat)
    BY DEF OpToRel
  <2>2. QED  BY <2>1, NatLessThanWellFounded
<1>2. T \subseteq Nat /\ T # {}
  <2>1. \A x \in S : N - x \in Nat
    OBVIOUS
  <2>2. QED  BY <2>1
<1>3. PICK t \in T : \A y \in T : <<y, t>> \notin R
  <2> HIDE DEF R, T
  <2>1. QED  BY <1>1, <1>2, WFMin
<1>4. PICK n \in S : t = N - n
  OBVIOUS
<1>5. ASSUME NEW x \in S PROVE x <= n
  <2>1. N - x \in T
    OBVIOUS
  <2>2. <<N - x, N - n>> \notin R /\ N - x \in Nat /\ N - n \in Nat
    BY <1>2, <1>3, <1>4, <2>1
  <2>3. ~(N - x < N - n)
    BY <2>2
  <2>4. QED  BY <2>3
<1>6. QED  BY <1>5

(* The last of the runs of a list, if it has any.                            *)
LEMMA InstallerLatest ==
  ASSUME NEW runs \in [In!InRuns -> In!InStatus], In!InCreated(runs) # {}
  PROVE  /\ In!InLatest(runs) \in In!InCreated(runs)
         /\ \A x \in In!InCreated(runs) : x <= In!InLatest(runs)
<1>1. In!InCreated(runs) \in SUBSET (1..MaxRuns)
  BY DEF In!InCreated, In!InRuns
<1>2. MaxRuns \in Nat
  BY PagesAssumption
<1>3. IsFiniteSet(1..MaxRuns)
  BY <1>2, FS_Interval
<1>4. PICK n \in In!InCreated(runs) : \A x \in In!InCreated(runs) : x <= n
  BY <1>1, <1>2, <1>3, GreatestNumber
<1>5. QED  BY <1>4 DEF In!InLatest

(* The runs that were created are the first so many of all.                  *)
LEMMA InstallerNumber ==
  ASSUME In!InTypeOK, In!InInTurn, NEW n \in In!InRuns, n = Cardinality(In!InCreated(v1)) + 1
  PROVE  \A x \in In!InRuns : v1[x] # "none" <=> x < n
<1>0. MaxRuns \in Nat /\ v1 \in [In!InRuns -> In!InStatus] /\ In!InRuns = 1..MaxRuns
  BY PagesAssumption DEF In!InTypeOK, In!InRuns
<1>1. CASE In!InCreated(v1) = {}
  <2>1. n = 1
    BY <1>1, FS_EmptySet
  <2>2. QED  BY <1>0, <1>1, <2>1 DEF In!InCreated
<1>2. CASE In!InCreated(v1) # {}
  <2>1. PICK m \in In!InCreated(v1) : \A x \in In!InCreated(v1) : x <= m
    BY <1>0, <1>2, InstallerLatest
  <2>2. m \in 1..MaxRuns /\ v1[m] # "none"
    BY <1>0 DEF In!InCreated
  <2>3. In!InCreated(v1) = 1..m
    BY <1>0, <2>1, <2>2 DEF In!InCreated, In!InInTurn
  <2>4. Cardinality(1..m) = m
    BY <1>0, <2>2, FS_Interval
  <2>5. n = m + 1
    BY <2>3, <2>4
  <2>6. QED  BY <1>0, <2>2, <2>3, <2>5 DEF In!InCreated
<1>3. QED  BY <1>1, <1>2

(* The document root of the guide.                                           *)
LEMMA InstallerGuide ==
  ASSUME In!InInv, In!InGuideNext
  PROVE  In!InInv'
<1>0. /\ v9 \in Sites /\ v10 \in [Sites -> {"root", "public"}] /\ v14 \in BOOLEAN
      /\ v11 = v10 /\ (v14 \/ v12 = v10[v9])
  BY DEF In!InInv, In!InTypeOK, In!RootOfPicked
<1>1. UNCHANGED <<v1, v2, v3, v4, v5, v6, v7, v8>>
  BY DEF In!InGuideNext, In!InPick, In!InSetRoot, In!InRootSet, In!InRootRefused, In!inRunVars
<1>2. In!InInTurn' /\ In!InWas(v2)' /\ In!InWas(v4)' /\ In!InLatestOnly'
  BY <1>1 DEF In!InInv, In!InInTurn, In!InWas, In!InLatestOnly
<1>3. ASSUME v9' \in Sites, v10' \in [Sites -> {"root", "public"}], v14' \in BOOLEAN,
             v11' = v10', v14' \/ v12' = v10'[v9'],
             v13' = <<>> \/ \E s \in Sites, v \in {"root", "public"} :
                              v13' = <<[site |-> s, variant |-> v]>>
      PROVE  In!InInv'
  <2>1. In!InTypeOK'
    BY <1>1, <1>3 DEF In!InInv, In!InTypeOK
  <2>2. In!RootOfPicked'
    BY <1>3 DEF In!RootOfPicked
  <2>3. QED  BY <1>2, <1>3, <2>1, <2>2 DEF In!InInv
<1>4. CASE v13 # <<>> /\ (In!InRootSet \/ In!InRootRefused)
  <2>1. PICK s \in Sites, v \in {"root", "public"} : v13 = <<[site |-> s, variant |-> v]>>
    BY <1>4 DEF In!InInv, In!InTypeOK
  <2>2. v13[1].site = s /\ v13[1].variant = v
    BY <2>1
  <2>3. CASE In!InRootSet
    <3>1. /\ v10' = [v10 EXCEPT ![s] = v] /\ v11' = [v11 EXCEPT ![s] = v] /\ v12' = v
          /\ v14' = (v14 \/ v9 # s) /\ v13' = <<>> /\ v9' = v9
      BY <2>2, <2>3 DEF In!InRootSet, In!InDomainsAfter, In!InListAgain
    <3>2. QED  BY <1>0, <1>3, <3>1
  <2>4. CASE In!InRootRefused
    BY <1>0, <1>3, <2>4 DEF In!InRootRefused
  <2>5. QED  BY <1>4, <2>3, <2>4
<1>5. CASE \E s \in Sites : In!InPick(s)
  BY <1>0, <1>3, <1>5 DEF In!InPick, In!InInv, In!InTypeOK
<1>6. CASE \E v \in {"root", "public"} : In!InSetRoot(v)
  BY <1>0, <1>3, <1>6 DEF In!InSetRoot
<1>7. QED  BY <1>4, <1>5, <1>6 DEF In!InGuideNext, In!InRootSet, In!InRootRefused

(* Installs: what a list showed of a run stays true of it.                   *)
LEMMA InstallerRuns ==
  ASSUME In!InInv, In!InRunNext
  PROVE  In!InInv'
<1>0. /\ v1 \in [In!InRuns -> In!InStatus] /\ v2 \in [In!InRuns -> In!InStatus]
      /\ v4 \in [In!InRuns -> In!InStatus] /\ v5 \in {In!InIdle, In!InSent} \cup In!InRuns
      /\ v3 \in {"none", "asked", "read"} /\ v8 \in BOOLEAN
      /\ In!InInTurn /\ In!InWas(v2) /\ In!InWas(v4) /\ In!InLatestOnly /\ In!InTypeOK
  BY DEF In!InInv, In!InTypeOK
<1>1. UNCHANGED <<v9, v10, v11, v12, v13, v14>>
  BY DEF In!InRunNext, In!InClick, In!InStore, In!InStarted, In!InRefused, In!InJobStep, In!InPoll,
         In!InRead, In!InArrives, In!InReadFails, In!InReload, In!inRootVars
<1>2. \A r \in In!InRuns : In!InNoRuns[r] = "none"
  BY DEF In!InNoRuns
<1>3. In!InNoRuns \in [In!InRuns -> In!InStatus]
  BY DEF In!InNoRuns, In!InStatus
<1>4. In!InSent = 0 /\ In!InIdle = -1 /\ In!InRuns = 1..MaxRuns /\ MaxRuns \in Nat
  BY PagesAssumption DEF In!InSent, In!InIdle, In!InRuns
<1>5. ASSUME v1' \in [In!InRuns -> In!InStatus], v2' \in [In!InRuns -> In!InStatus],
             v4' \in [In!InRuns -> In!InStatus], v3' \in {"none", "asked", "read"},
             v5' \in {In!InIdle, In!InSent} \cup In!InRuns, v8' \in BOOLEAN
      PROVE  In!InTypeOK' /\ (v11 = v10)' /\ In!RootOfPicked'
  BY <1>1, <1>5 DEF In!InInv, In!InTypeOK, In!RootOfPicked
\* Steps of the page.
<1>6. ASSUME v1' = v1, v2' \in {v2, v4, In!InNoRuns}, v4' \in {v4, v1, In!InNoRuns},
             v3' \in {"none", "asked", "read"}, v5' \in {v5, In!InIdle},
             v8' = v8
      PROVE  In!InInv'
  <2>1. In!InTypeOK' /\ (v11 = v10)' /\ In!RootOfPicked'
    BY <1>0, <1>3, <1>5, <1>6
  <2>2. In!InWas(v2)' /\ In!InWas(v4)'
    BY <1>0, <1>2, <1>6 DEF In!InWas
  <2>3. In!InInTurn' /\ In!InLatestOnly'
    BY <1>0, <1>4, <1>6 DEF In!InInTurn, In!InLatestOnly
  <2>4. QED  BY <2>1, <2>2, <2>3 DEF In!InInv
<1>7. CASE In!InStarted \/ In!InRefused \/ In!InPoll \/ In!InRead \/ In!InArrives \/ In!InReadFails
           \/ In!InReload
  <2>1. v1' = v1 /\ v8' = v8
    BY <1>7 DEF In!InStarted, In!InRefused, In!InPoll, In!InRead, In!InArrives, In!InReadFails, In!InReload
  <2>2. v2' \in {v2, v4, In!InNoRuns} /\ v4' \in {v4, v1, In!InNoRuns}
    BY <1>7 DEF In!InStarted, In!InRefused, In!InPoll, In!InRead, In!InArrives, In!InReadFails, In!InReload
  <2>3. v3' \in {"none", "asked", "read"} /\ v5' \in {v5, In!InIdle}
    BY <1>0, <1>7 DEF In!InStarted, In!InRefused, In!InPoll, In!InRead, In!InArrives, In!InReadFails, In!InReload
  <2>4. QED  BY <1>6, <2>1, <2>2, <2>3
<1>8. CASE In!InClick
  <2>1. /\ UNCHANGED <<v1, v2, v3, v4>> /\ v5' = In!InSent /\ ~In!InLatestLives
        /\ v8' = (v8 \/ In!InCreated(v1) # In!InCreated(v2))
    BY <1>8 DEF In!InClick, In!InHasRunning
  <2>2. In!InTypeOK' /\ (v11 = v10)' /\ In!RootOfPicked'
    BY <1>0, <1>5, <2>1
  <2>3. In!InWas(v2)' /\ In!InWas(v4)' /\ In!InInTurn'
    BY <1>0, <2>1 DEF In!InWas, In!InInTurn
  <2>4. ASSUME ~v8, In!InCreated(v1) = In!InCreated(v2) PROVE \A r \in In!InRuns : ~In!InLive(v1[r])
    <3>1. CASE In!InCreated(v1) = {}
      BY <3>1 DEF In!InCreated, In!InLive
    <3>2. CASE In!InCreated(v1) # {}
      <4>1. PICK n : n = In!InLatest(v2)
        OBVIOUS
      <4>2. n \in In!InCreated(v1) /\ \A x \in In!InCreated(v1) : x <= n
        BY <1>0, <2>4, <3>2, <4>1, InstallerLatest
      <4>3. ~In!InLive(v2[n]) /\ n \in In!InRuns /\ v2[n] # "none" /\ v1[n] # "none"
        BY <2>1, <2>4, <3>2, <4>1, <4>2 DEF In!InLatestLives, In!InCreated
      <4>4. ~In!InLive(v1[n])
        BY <1>0, <4>3 DEF In!InWas
      <4>5. \A x \in In!InRuns : v1[x] # "none" => x < n \/ x = n
        BY <1>4, <4>2, <4>3 DEF In!InCreated
      <4>6. \A x \in In!InRuns : In!InLive(v1[x]) => v1[x] # "none"
        BY DEF In!InLive
      <4>7. QED  BY <1>0, <2>4, <4>3, <4>4, <4>5, <4>6 DEF In!InLatestOnly
    <3>3. QED  BY <3>1, <3>2
  <2>5. In!InLatestOnly'
    BY <1>0, <2>1, <2>4 DEF In!InLatestOnly
  <2>6. QED  BY <2>2, <2>3, <2>5 DEF In!InInv
<1>9. CASE In!InStore
  <2>1. PICK n \in In!InRuns : /\ n = Cardinality(In!InCreated(v1)) + 1
                             /\ v1' = [v1 EXCEPT ![n] = "queued"] /\ v5' = n
    BY <1>9, InstallerCardinality DEF In!InStore
  <2>2. UNCHANGED <<v2, v3, v4, v8>> /\ v5 = In!InSent
    BY <1>9 DEF In!InStore
  <2>3. \A x \in In!InRuns : v1[x] # "none" <=> x < n
    BY <1>0, <2>1, InstallerNumber
  <2>4. v1' \in [In!InRuns -> In!InStatus] /\ v1'[n] = "queued" /\ \A x \in In!InRuns : x # n => v1'[x] = v1[x]
    BY <1>0, <2>1 DEF In!InStatus
  <2>5. In!InTypeOK' /\ (v11 = v10)' /\ In!RootOfPicked'
    BY <1>0, <1>5, <2>1, <2>2, <2>4
  <2>6. v1[n] = "none"
    BY <1>4, <2>1, <2>3
  <2>7. In!InWas(v2)' /\ In!InWas(v4)'
    BY <1>0, <2>2, <2>4, <2>6 DEF In!InWas
  <2>8. In!InInTurn'
    BY <1>4, <2>1, <2>3, <2>4 DEF In!InInTurn
  <2>9. In!InLatestOnly'
    BY <1>0, <1>4, <2>1, <2>2, <2>3, <2>4 DEF In!InLatestOnly
  <2>10. QED  BY <2>5, <2>7, <2>8, <2>9 DEF In!InInv
<1>10. ASSUME NEW r \in In!InRuns, In!InJobStep(r) PROVE In!InInv'
  <2>1. PICK s \in {"running", "success", "failed"} : v1' = [v1 EXCEPT ![r] = s]
    BY <1>10 DEF In!InJobStep
  <2>2. UNCHANGED <<v2, v3, v4, v5, v8>> /\ In!InLive(v1[r])
    BY <1>10 DEF In!InJobStep, In!InLive
  <2>3. v1' \in [In!InRuns -> In!InStatus] /\ v1'[r] = s /\ \A x \in In!InRuns : x # r => v1'[x] = v1[x]
    BY <1>0, <2>1 DEF In!InStatus
  <2>4. \A x \in In!InRuns : (v1'[x] # "none" <=> v1[x] # "none") /\ (In!InLive(v1'[x]) => In!InLive(v1[x]))
    BY <2>1, <2>2, <2>3 DEF In!InLive
  <2>5. In!InTypeOK' /\ (v11 = v10)' /\ In!RootOfPicked'
    BY <1>0, <1>5, <2>2, <2>3
  <2>6. In!InWas(v2)' /\ In!InWas(v4)'
    BY <1>0, <2>2, <2>4 DEF In!InWas
  <2>7. In!InInTurn' /\ In!InLatestOnly'
    BY <1>0, <2>2, <2>4 DEF In!InInTurn, In!InLatestOnly
  <2>8. QED  BY <2>5, <2>6, <2>7 DEF In!InInv
<1>11. QED
  BY <1>7, <1>8, <1>9, <1>10 DEF In!InRunNext

LEMMA InstallerStep ==
  ASSUME In!InInv, In!InRunNext \/ In!InGuideNext
  PROVE  In!InInv'
  BY InstallerGuide, InstallerRuns

LEMMA InstallerHolds ==
  ASSUME In!InInv
  PROVE  In!OneInstall /\ In!RootOfPicked
<1>1. ASSUME ~v8 PROVE Cardinality({r \in In!InRuns : In!InLive(v1[r])}) <= 1
  <2>1. \A r \in In!InRuns : r \in Int /\ (In!InLive(v1[r]) => v1[r] # "none")
    BY PagesAssumption DEF In!InRuns, In!InLive
  <2>2. \A r, x \in In!InRuns : In!InLive(v1[r]) /\ In!InLive(v1[x]) => r = x
    BY <1>1, <2>1 DEF In!InInv, In!InLatestOnly
  <2>3. CASE {r \in In!InRuns : In!InLive(v1[r])} = {}
    BY <2>3, FS_EmptySet
  <2>4. CASE {r \in In!InRuns : In!InLive(v1[r])} # {}
    <3>1. PICK n : {r \in In!InRuns : In!InLive(v1[r])} = {n}
      BY <2>2, <2>4
    <3>2. Cardinality({n}) = 1
      BY FS_Singleton
    <3>3. QED  BY <3>1, <3>2
  <2>5. QED  BY <2>3, <2>4
<1>2. In!OneInstall
  BY <1>1, InstallerCardinality DEF In!OneInstall
<1>3. QED  BY <1>2 DEF In!InInv

-----------------------------------------------------------------------------
(* The domains.  v1: the rows, v2: the rows shown, v3: they are to be read,  *)
(* v4: those on their way, v5: changes under way, v6: how many so far, v7:   *)
(* the busy flags, v8: the subdomain being removed, v9, v10: the dialogs,    *)
(* v11: an answer was lost, v12: the report on show, v13: the reports kept.  *)

LEMMA DomainsInit == Dm!DmInit => Dm!DmInv
<1> SUFFICES ASSUME Dm!DmInit PROVE Dm!DmInv
  OBVIOUS
<1>1. Dm!DmTypeOK /\ Dm!DmReportsOwn
  BY DEF Dm!DmInit, Dm!DmTypeOK, Dm!DmReportsOwn
<1>2. Dm!DmListLeads /\ Dm!DmOneEach /\ Dm!BusyIsUnderWay /\ Dm!PhraseForThisDomain
  BY DEF Dm!DmInit, Dm!DmListLeads, Dm!DmOneEach, Dm!BusyIsUnderWay, Dm!PhraseForThisDomain
<1>3. QED  BY <1>1, <1>2 DEF Dm!DmInv

(* The dialogs and the reports, which leave the list alone.                  *)
LEMMA DomainsDialogs ==
  ASSUME Dm!DmInv, UNCHANGED <<v1, v2, v3, v4, v5, v6, v7, v11>>,
         v9' \in Dm!DmModes \cup {none},
         v10' # none => v10' \in [site : Sites, phrase : BOOLEAN, typed : BOOLEAN],
         v10' # none /\ v10'.phrase => v10'.typed,
         v12' # none => v12' \in [kind : {"logs", "traffic"}, site : Sites],
         v13' \in [Dm!DmReportKeys -> Sites \cup {none}],
         \A k \in Dm!DmReportKeys : v13'[k] \in {k[2], none}
  PROVE  Dm!DmInv'
<1>1. Dm!DmTypeOK'
  BY DEF Dm!DmInv, Dm!DmTypeOK
<1>2. Dm!DmListLeads' /\ Dm!DmOneEach'
  BY DEF Dm!DmInv, Dm!DmListLeads, Dm!DmOneEach
<1>3. Dm!BusyIsUnderWay' /\ Dm!PhraseForThisDomain' /\ Dm!DmReportsOwn'
  BY DEF Dm!DmInv, Dm!BusyIsUnderWay, Dm!PhraseForThisDomain, Dm!DmReportsOwn
<1>4. QED  BY <1>1, <1>2, <1>3 DEF Dm!DmInv

(* A change is asked for: of a flagged kind where none is under way.         *)
LEMMA DomainsAsked ==
  ASSUME Dm!DmInv, NEW kind \in Dm!DmFlagged \cup Dm!DmModes, NEW d \in Sites, NEW to,
         Dm!DmAsk(kind, d, to), kind \in Dm!DmFlagged => kind \notin v7[d],
         UNCHANGED <<v9, v10>>
  PROVE  Dm!DmInv'
<1>1. PICK q : q = [kind |-> kind, site |-> d, to |-> to, done |-> FALSE, here |-> TRUE, n |-> v6]
  OBVIOUS
<1>2. /\ v5' = v5 \cup {q} /\ v6' = v6 + 1 /\ UNCHANGED <<v1, v2, v3, v4, v11, v12, v13>>
      /\ v7' = IF kind \in Dm!DmFlagged THEN [v7 EXCEPT ![d] = @ \cup {kind}] ELSE v7
  BY <1>1 DEF Dm!DmAsk, Dm!dmReportVars
<1>3. /\ \A r \in v5 : r \in Dm!DmRequest(r)
      /\ v6 \in Nat /\ v7 \in [Sites -> SUBSET Dm!DmFlagged]
  BY DEF Dm!DmInv, Dm!DmTypeOK
<1>4. q \in Dm!DmRequest(q) /\ q.kind = kind /\ q.site = d /\ q.here /\ ~q.done
  BY <1>1, <1>3 DEF Dm!DmRequest
<1>5. v7' \in [Sites -> SUBSET Dm!DmFlagged]
  BY <1>2, <1>3
<1>6. Dm!DmTypeOK'
  BY <1>2, <1>3, <1>4, <1>5 DEF Dm!DmInv, Dm!DmTypeOK, Dm!DmRequest
<1>7. Dm!DmListLeads'
  BY <1>2, <1>4 DEF Dm!DmInv, Dm!DmListLeads
<1>8. Dm!DmOneEach'
  BY <1>2, <1>3, <1>4 DEF Dm!DmInv, Dm!DmOneEach, Dm!BusyIsUnderWay
<1>9. Dm!BusyIsUnderWay'
  BY <1>2, <1>3, <1>4 DEF Dm!DmInv, Dm!BusyIsUnderWay
<1>10. Dm!PhraseForThisDomain' /\ Dm!DmReportsOwn'
  BY <1>2 DEF Dm!DmInv, Dm!PhraseForThisDomain, Dm!DmReportsOwn
<1>11. QED  BY <1>6, <1>7, <1>8, <1>9, <1>10 DEF Dm!DmInv

(* A change is over: its flag is the only one that goes.                     *)
LEMMA DomainsOver ==
  ASSUME Dm!DmInv, NEW r \in v5, Dm!DmSettled(r), UNCHANGED <<v1, v2, v6, v12, v13>>,
         v3' \in BOOLEAN, v11' \in BOOLEAN, v11 => v11', r.done => v3' \/ v11',
         v3' \/ UNCHANGED <<v3, v4>>,
         v9' \in {v9, none}, v10' \in {v10, none}
  PROVE  Dm!DmInv'
<1>1. v5' = v5 \ {r} /\ v7' = IF r.here THEN [v7 EXCEPT ![r.site] = @ \ {r.kind}] ELSE v7
  BY DEF Dm!DmSettled, Dm!DmFlagCleared, Dm!DmOwnFlag
<1>2. /\ \A q \in v5 : q \in Dm!DmRequest(q)
      /\ v7 \in [Sites -> SUBSET Dm!DmFlagged]
  BY DEF Dm!DmInv, Dm!DmTypeOK
<1>3. r.site \in Sites /\ \A q \in v5 : q.here \in BOOLEAN
  BY <1>2 DEF Dm!DmRequest
<1>4. v7' \in [Sites -> SUBSET Dm!DmFlagged]
  BY <1>1, <1>2
<1>5. Dm!DmTypeOK'
  BY <1>1, <1>2, <1>4 DEF Dm!DmInv, Dm!DmTypeOK, Dm!DmRequest
<1>6. Dm!DmListLeads'
  <2>1. \A q \in v5' : q \in v5 /\ q # r
    BY <1>1
  <2>2. CASE v3' \/ v11'
    BY <2>2 DEF Dm!DmListLeads
  <2>3. CASE ~v3' /\ ~v11'
    BY <1>1, <2>3 DEF Dm!DmInv, Dm!DmListLeads
  <2>4. QED  BY <2>2, <2>3
<1>7. Dm!DmOneEach'
  BY <1>1 DEF Dm!DmInv, Dm!DmOneEach
<1>8. Dm!BusyIsUnderWay'
  BY <1>1, <1>2, <1>3 DEF Dm!DmInv, Dm!BusyIsUnderWay, Dm!DmOneEach
<1>9. Dm!PhraseForThisDomain' /\ Dm!DmReportsOwn'
  BY DEF Dm!DmInv, Dm!PhraseForThisDomain, Dm!DmReportsOwn
<1>10. QED  BY <1>5, <1>6, <1>7, <1>8, <1>9 DEF Dm!DmInv

(* The server carries a change out: the request stays, as one that is done.  *)
LEMMA DomainsCarriedOut ==
  ASSUME Dm!DmInv, NEW r \in v5, Dm!DmCarriedOut(r)
  PROVE  Dm!DmInv'
<1>0. \A q \in v5 : q \in Dm!DmRequest(q)
  BY DEF Dm!DmInv, Dm!DmTypeOK
<1>1. PICK q : q = [r EXCEPT !.done = TRUE]
  OBVIOUS
<1>2. r \in [kind : Dm!DmFlagged \cup Dm!DmModes, site : Sites, to : {r.to}, done : BOOLEAN,
             here : BOOLEAN, n : Nat]
  BY <1>0 DEF Dm!DmRequest
<1>3. /\ q \in Dm!DmRequest(q) /\ q.kind = r.kind /\ q.site = r.site /\ q.here = r.here /\ q.done
  BY <1>1, <1>2 DEF Dm!DmRequest
<1>4. /\ v5' = (v5 \ {r}) \cup {q} /\ UNCHANGED <<v2, v3, v4, v6, v7, v8, v11, v9, v10, v12, v13>>
  BY <1>1 DEF Dm!DmCarriedOut, Dm!dmDialogVars, Dm!dmReportVars
<1>5. Dm!DmTypeOK'
  BY <1>0, <1>3, <1>4 DEF Dm!DmInv, Dm!DmTypeOK, Dm!DmRequest
<1>6. Dm!DmListLeads'
  BY <1>3, <1>4 DEF Dm!DmListLeads
<1>7. Dm!DmOneEach' /\ Dm!BusyIsUnderWay'
  BY <1>3, <1>4 DEF Dm!DmInv, Dm!DmOneEach, Dm!BusyIsUnderWay
<1>8. Dm!PhraseForThisDomain' /\ Dm!DmReportsOwn'
  BY <1>4 DEF Dm!DmInv, Dm!PhraseForThisDomain, Dm!DmReportsOwn
<1>9. QED  BY <1>5, <1>6, <1>7, <1>8 DEF Dm!DmInv

LEMMA DomainsLeft ==
  ASSUME Dm!DmInv, Dm!DmLeave
  PROVE  Dm!DmInv'
<1>0. \A q \in v5 : q \in Dm!DmRequest(q)
  BY DEF Dm!DmInv, Dm!DmTypeOK
<1>1. /\ v5' = {[r EXCEPT !.here = FALSE] : r \in v5} /\ v7' = [d \in Sites |-> {}]
      /\ UNCHANGED <<v1, v2, v3, v4, v6, v11, v9, v10, v12, v13>>
  BY DEF Dm!DmLeave, Dm!dmDialogVars, Dm!dmReportVars
<1>2. ASSUME NEW q \in v5'
      PROVE  /\ q \in Dm!DmRequest(q) /\ ~q.here
             /\ \E r \in v5 : q.done = r.done
  <2>1. PICK r \in v5 : q = [r EXCEPT !.here = FALSE]
    BY <1>1
  <2>2. r \in [kind : Dm!DmFlagged \cup Dm!DmModes, site : Sites, to : {r.to}, done : BOOLEAN,
               here : BOOLEAN, n : Nat]
    BY <1>0 DEF Dm!DmRequest
  <2>3. q \in Dm!DmRequest(q) /\ ~q.here /\ q.done = r.done
    BY <2>1, <2>2 DEF Dm!DmRequest
  <2>4. QED  BY <2>3
<1>3. ASSUME NEW r \in v5 PROVE \E q \in v5' : q.done = r.done
  <2>1. PICK q : q = [r EXCEPT !.here = FALSE]
    OBVIOUS
  <2>2. r \in [kind : Dm!DmFlagged \cup Dm!DmModes, site : Sites, to : {r.to}, done : BOOLEAN,
               here : BOOLEAN, n : Nat]
    BY <1>0 DEF Dm!DmRequest
  <2>3. q \in v5' /\ q.done = r.done
    BY <1>1, <2>1, <2>2
  <2>4. QED  BY <2>3
<1>4. v7' \in [Sites -> SUBSET Dm!DmFlagged] /\ \A d \in Sites : v7'[d] = {}
  BY <1>1
<1>5. Dm!DmTypeOK'
  BY <1>1, <1>2, <1>4 DEF Dm!DmInv, Dm!DmTypeOK, Dm!DmRequest
<1>6. Dm!DmListLeads'
  BY <1>1, <1>3 DEF Dm!DmInv, Dm!DmListLeads
<1>7. Dm!DmOneEach' /\ Dm!BusyIsUnderWay'
  BY <1>2, <1>4 DEF Dm!DmOneEach, Dm!BusyIsUnderWay
<1>8. Dm!PhraseForThisDomain' /\ Dm!DmReportsOwn'
  BY <1>1 DEF Dm!DmInv, Dm!PhraseForThisDomain, Dm!DmReportsOwn
<1>9. QED  BY <1>5, <1>6, <1>7, <1>8 DEF Dm!DmInv

LEMMA DomainsStep ==
  ASSUME Dm!DmInv, Dm!DmListNext \/ Dm!DmReportNext
  PROVE  Dm!DmInv'
<1>0. /\ v9 \in Dm!DmModes \cup {none} /\ v3 \in BOOLEAN /\ v11 \in BOOLEAN
      /\ v10 # none => v10 \in [site : Sites, phrase : BOOLEAN, typed : BOOLEAN]
      /\ v10 # none /\ v10.phrase => v10.typed
      /\ v12 # none => v12 \in [kind : {"logs", "traffic"}, site : Sites]
      /\ v13 \in [Dm!DmReportKeys -> Sites \cup {none}]
      /\ \A k \in Dm!DmReportKeys : v13[k] \in {k[2], none}
      /\ \A r \in v5 : r \in Dm!DmRequest(r)
  BY DEF Dm!DmInv, Dm!DmTypeOK, Dm!PhraseForThisDomain, Dm!DmReportsOwn
<1>1. CASE Dm!DmReadSent \/ Dm!DmReadAnswered
  <2>1. UNCHANGED <<v1, v5, v6, v7, v8, v11, v9, v10, v12, v13>> /\ v3' \in BOOLEAN
    BY <1>0, <1>1 DEF Dm!DmReadSent, Dm!DmReadAnswered, Dm!dmDialogVars, Dm!dmReportVars
  <2>2. Dm!DmTypeOK'
    BY <2>1 DEF Dm!DmInv, Dm!DmTypeOK
  <2>3. Dm!DmListLeads'
    BY <1>1, <2>1 DEF Dm!DmInv, Dm!DmListLeads, Dm!DmReadSent, Dm!DmReadAnswered
  <2>4. Dm!DmOneEach' /\ Dm!BusyIsUnderWay' /\ Dm!PhraseForThisDomain' /\ Dm!DmReportsOwn'
    BY <2>1 DEF Dm!DmInv, Dm!DmOneEach, Dm!BusyIsUnderWay, Dm!PhraseForThisDomain, Dm!DmReportsOwn
  <2>5. QED  BY <2>2, <2>3, <2>4 DEF Dm!DmInv
<1>2. CASE Dm!DmLeave
  BY <1>2, DomainsLeft
<1>3. CASE Dm!DmTypePhrase
  <2>1. PICK q : q = [v10 EXCEPT !.phrase = TRUE, !.typed = TRUE]
    OBVIOUS
  <2>2. v10' = q /\ q \in [site : Sites, phrase : BOOLEAN, typed : BOOLEAN] /\ q.typed
    BY <1>0, <1>3, <2>1 DEF Dm!DmTypePhrase
  <2>3. QED
    BY <1>0, <1>3, <2>2, DomainsDialogs DEF Dm!DmTypePhrase, Dm!dmListVars, Dm!dmReportVars
<1>4. CASE Dm!DmCloseDelete \/ Dm!DmCloseAdd \/ (\E m \in Dm!DmModes : Dm!DmOpenAdd(m) \/ Dm!DmSetMode(m))
  <2>1. UNCHANGED <<v1, v2, v3, v4, v5, v6, v7, v11, v12, v13>>
    BY <1>4 DEF Dm!DmCloseDelete, Dm!DmCloseAdd, Dm!DmOpenAdd, Dm!DmSetMode, Dm!dmListVars, Dm!dmReportVars
  <2>2. v9' \in Dm!DmModes \cup {none} /\ v10' \in {v10, none}
    BY <1>0, <1>4 DEF Dm!DmCloseDelete, Dm!DmCloseAdd, Dm!DmOpenAdd, Dm!DmSetMode
  <2>3. QED  BY <1>0, <2>1, <2>2, DomainsDialogs
<1>5. ASSUME NEW d \in Sites, Dm!DmOpenDelete(d) PROVE Dm!DmInv'
  <2>1. /\ UNCHANGED <<v1, v2, v3, v4, v5, v6, v7, v11, v9, v12, v13>>
        /\ v10' = [site |-> d, phrase |-> FALSE, typed |-> FALSE]
    BY <1>5 DEF Dm!DmOpenDelete, Dm!dmListVars, Dm!dmReportVars, Dm!DmPhraseAtOpening, Dm!DmPhraseGone
  <2>2. v10' \in [site : Sites, phrase : BOOLEAN, typed : BOOLEAN] /\ ~v10'.phrase
    BY <2>1
  <2>3. QED  BY <1>0, <2>1, <2>2, DomainsDialogs
<1>6. CASE Dm!DmConfirmDelete
  <2>1. v10 # none /\ Dm!DmAsk("domain", v10.site, FALSE) /\ UNCHANGED <<v9, v10>>
    BY <1>6 DEF Dm!DmConfirmDelete, Dm!dmDialogVars
  <2>2. v10.site \in Sites
    BY <1>0, <2>1
  <2>3. QED  BY <2>1, <2>2, DomainsAsked DEF Dm!DmFlagged, Dm!DmModes
<1>7. ASSUME NEW d \in Sites,
             \/ Dm!DmPickPhp(d) \/ Dm!DmPickServer(d) \/ Dm!DmToggle(d) \/ Dm!DmIssue(d)
             \/ Dm!DmIssueSub(d) \/ Dm!DmRemoveSub(d) \/ Dm!DmRemoveAlias(d) \/ Dm!DmSubmitAdd(d)
      PROVE  Dm!DmInv'
  <2>1. ASSUME NEW kind \in Dm!DmFlagged, NEW to, Dm!DmControl(d, kind), Dm!DmAsk(kind, d, to)
        PROVE  Dm!DmInv'
    BY <2>1, DomainsAsked DEF Dm!DmControl, Dm!dmDialogVars
  <2>2. CASE Dm!DmPickPhp(d) \/ Dm!DmPickServer(d) \/ Dm!DmToggle(d) \/ Dm!DmIssue(d) \/ Dm!DmIssueSub(d)
    BY <2>1, <2>2 DEF Dm!DmPickPhp, Dm!DmPickServer, Dm!DmToggle, Dm!DmIssue, Dm!DmIssueSub, Dm!DmFlagged
  <2>3. CASE Dm!DmRemoveSub(d) \/ Dm!DmRemoveAlias(d)
    BY <2>3, DomainsAsked
       DEF Dm!DmRemoveSub, Dm!DmRemoveAlias, Dm!DmControl, Dm!dmDialogVars, Dm!DmFlagged, Dm!DmModes
  <2>4. CASE Dm!DmSubmitAdd(d)
    <3>1. Dm!DmAsk(v9, d, TRUE) /\ v9 \in Dm!DmModes /\ UNCHANGED <<v9, v10>>
      BY <1>0, <2>4 DEF Dm!DmSubmitAdd, Dm!dmDialogVars
    <3>2. v9 \notin Dm!DmFlagged
      BY <3>1 DEF Dm!DmFlagged, Dm!DmModes
    <3>3. QED  BY <3>1, <3>2, DomainsAsked
  <2>5. QED  BY <1>7, <2>2, <2>3, <2>4
<1>8. ASSUME NEW r \in v5, Dm!DmCarriedOut(r) \/ Dm!DmAnswered(r) \/ Dm!DmFails(r) PROVE Dm!DmInv'
  <2>1. CASE Dm!DmCarriedOut(r)
    BY <2>1, DomainsCarriedOut
  <2>2. CASE Dm!DmAnswered(r)
    <3>1. Dm!DmSettled(r) /\ UNCHANGED <<v1, v2, v6, v11, v12, v13>> /\ v3' = TRUE
      BY <2>2 DEF Dm!DmAnswered, Dm!DmInvalidated, Dm!DmCancelled, Dm!dmReportVars
    <3>2. v9' \in {v9, none} /\ v10' \in {v10, none}
      BY <2>2 DEF Dm!DmAnswered
    <3>3. QED  BY <1>0, <3>1, <3>2, DomainsOver
  <2>3. CASE Dm!DmFails(r)
    <3>1. /\ Dm!DmSettled(r) /\ UNCHANGED <<v1, v2, v3, v4, v6, v9, v10, v12, v13>>
          /\ v11' = (v11 \/ r.done)
      BY <2>3 DEF Dm!DmFails, Dm!dmDialogVars, Dm!dmReportVars
    <3>2. v11' \in BOOLEAN /\ (v11 => v11') /\ (r.done => v11')
      BY <3>1
    <3>3. QED  BY <1>0, <3>1, <3>2, DomainsOver
  <2>4. QED  BY <1>8, <2>1, <2>2, <2>3
<1>9. CASE Dm!DmReportNext
  <2>1. UNCHANGED <<v1, v2, v3, v4, v5, v6, v7, v11, v9, v10>>
    BY <1>9 DEF Dm!DmReportNext, Dm!DmReportRead, Dm!DmCloseReport, Dm!DmOpenReport, Dm!dmListVars, Dm!dmDialogVars
  <2>2. CASE Dm!DmReportRead
    <3>1. v12 # none /\ v12' = v12 /\ v13' = [v13 EXCEPT ![<<v12.kind, v12.site>>] = v12.site]
      BY <2>2 DEF Dm!DmReportRead, Dm!DmReportKey, Dm!DmOwnReport
    <3>2. PICK s \in Sites, kind \in {"logs", "traffic"} : s = v12.site /\ kind = v12.kind
      BY <1>0, <3>1
    <3>3. <<kind, s>> \in Dm!DmReportKeys
      BY <3>2 DEF Dm!DmReportKeys
    <3>4. v13' = [v13 EXCEPT ![<<kind, s>>] = s] /\ v13' \in [Dm!DmReportKeys -> Sites \cup {none}]
      BY <1>0, <3>1, <3>2, <3>3
    <3>5. \A k \in Dm!DmReportKeys : v13'[k] \in {k[2], none}
      BY <1>0, <3>3, <3>4
    <3>6. QED  BY <1>0, <2>1, <3>1, <3>4, <3>5, DomainsDialogs
  <2>3. CASE Dm!DmCloseReport
    BY <1>0, <2>1, <2>3, DomainsDialogs DEF Dm!DmCloseReport
  <2>4. ASSUME NEW k \in Dm!DmReportKeys, Dm!DmOpenReport(k[1], k[2]) PROVE Dm!DmInv'
    <3>1. v12' = [kind |-> k[1], site |-> k[2]] /\ v13' = v13
      BY <2>4 DEF Dm!DmOpenReport
    <3>2. v12' \in [kind : {"logs", "traffic"}, site : Sites]
      BY <2>4, <3>1 DEF Dm!DmReportKeys
    <3>3. QED  BY <1>0, <2>1, <3>1, <3>2, DomainsDialogs
  <2>5. QED  BY <1>9, <2>2, <2>3, <2>4 DEF Dm!DmReportNext
<1>10. QED
  BY <1>1, <1>2, <1>3, <1>4, <1>5, <1>6, <1>7, <1>8, <1>9 DEF Dm!DmListNext

LEMMA DomainsHolds ==
  ASSUME Dm!DmInv
  PROVE  Dm!BusyIsUnderWay /\ Dm!DomainsListTrue /\ Dm!PhraseForThisDomain /\ Dm!ReportOfSite
<1>1. Dm!DomainsListTrue
  BY DEF Dm!DmInv, Dm!DmListLeads, Dm!DomainsListTrue
<1>2. Dm!ReportOfSite
  <2>1. ASSUME v12 # none PROVE v13[<<v12.kind, v12.site>>] \in {v12.site, none}
    <3>1. PICK s \in Sites, kind \in {"logs", "traffic"} : s = v12.site /\ kind = v12.kind
      BY <2>1 DEF Dm!DmInv, Dm!DmTypeOK
    <3>2. <<kind, s>> \in Dm!DmReportKeys
      BY DEF Dm!DmReportKeys
    <3>3. v13[<<kind, s>>] \in {s, none}
      BY <3>2 DEF Dm!DmInv, Dm!DmReportsOwn
    <3>4. QED  BY <3>1, <3>3
  <2>2. QED  BY <2>1 DEF Dm!ReportOfSite, Dm!DmReportKey, Dm!DmOwnReport
<1>3. QED  BY <1>1, <1>2 DEF Dm!DmInv

-----------------------------------------------------------------------------
(* The cron jobs.  v1: the rows, v2: the list, v3: the quota, v4: changes    *)
(* under way, v5: how many so far, v6: the dialog, v7: its form, v8: the bin *)
(* that is out, v9: an answer was lost, v10, v11: the scan picked, v12: what *)
(* was found.                                                                *)

LEMMA CronInit == Cn!CnInit => Cn!CnInv
<1> SUFFICES ASSUME Cn!CnInit PROVE Cn!CnInv
  OBVIOUS
<1>1. v1 \in [Sites -> Nat]
  BY DEF Cn!CnInit
<1>2. v7 \in Cn!CnForms /\ v6 = none
  BY DEF Cn!CnInit, Cn!CnForms, Cn!CnEmptied, Cn!CnDialogs
<1>3. v2 \in [fresh : BOOLEAN, rows : [Sites -> Nat]] /\ v3 \in [fresh : BOOLEAN, used : {v3.used}]
  BY <1>1 DEF Cn!CnInit
<1>4. Cn!CnTypeOK /\ Cn!CnFoundOwn
  BY <1>1, <1>2, <1>3 DEF Cn!CnInit, Cn!CnTypeOK, Cn!CnDialogs, Cn!CnFoundOwn
<1>5. Cn!CnListsLead
  BY DEF Cn!CnInit, Cn!CnListsLead
<1>6. Cn!CnFormIsOfDialog /\ Cn!SavedToOwnJob
  BY <1>2 DEF Cn!CnInit, Cn!CnFormIsOfDialog, Cn!SavedToOwnJob
<1>7. QED  BY <1>4, <1>5, <1>6 DEF Cn!CnInv

(* The dialog and the scans, which leave the list and the requests alone.    *)
LEMMA CronDialogs ==
  ASSUME Cn!CnInv, UNCHANGED <<v1, v2, v3, v4, v5, v9>>, v6' \in Cn!CnDialogs,
         v7' \in Cn!CnForms, Cn!CnFormIsOfDialog',
         v10' \in Sites, v11' \in BOOLEAN, v12' \in [Sites \X BOOLEAN -> Sites \cup {none}],
         \A k \in Sites \X BOOLEAN : v12'[k] \in {k[1], none}
  PROVE  Cn!CnInv'
<1>1. Cn!CnTypeOK' /\ Cn!CnFoundOwn'
  BY DEF Cn!CnInv, Cn!CnTypeOK, Cn!CnFoundOwn
<1>2. Cn!CnListsLead' /\ Cn!SavedToOwnJob'
  BY DEF Cn!CnInv, Cn!CnListsLead, Cn!SavedToOwnJob
<1>3. QED  BY <1>1, <1>2 DEF Cn!CnInv

(* The list, the quota and the requests, which leave the rest alone, except  *)
(* that the dialog may be closed.                                            *)
LEMMA CronLists ==
  ASSUME Cn!CnInv, UNCHANGED <<v7, v10, v11, v12>>, v6' \in {v6, none},
         v1' \in [Sites -> Nat], v2' \in [fresh : BOOLEAN, rows : [Sites -> Nat]],
         v3' \in [fresh : BOOLEAN, used : {v3'.used}], v4' \subseteq Cn!CnRequest, v5' \in Nat,
         v9' \in BOOLEAN, Cn!CnListsLead', Cn!SavedToOwnJob'
  PROVE  Cn!CnInv'
<1>1. none \in Cn!CnDialogs
  BY DEF Cn!CnDialogs
<1>2. Cn!CnTypeOK' /\ Cn!CnFoundOwn'
  BY <1>1 DEF Cn!CnInv, Cn!CnTypeOK, Cn!CnFoundOwn
<1>3. Cn!CnFormIsOfDialog'
  BY DEF Cn!CnInv, Cn!CnFormIsOfDialog
<1>4. QED  BY <1>2, <1>3 DEF Cn!CnInv

(* A change is asked for.                                                    *)
LEMMA CronAsked ==
  ASSUME Cn!CnInv, NEW kind \in {"create", "update", "delete"}, NEW j \in Cn!CnDialogs,
         Cn!CnAsk(kind, j), UNCHANGED <<v6, v7, v10, v11, v12>>,
         \/ kind = "delete"
         \/ v6 # none /\ v7.command # none /\ kind = (IF v6 = "create" THEN "create" ELSE "update")
            /\ (v6 # "create" => j = v6)
  PROVE  Cn!CnInv'
<1>0. /\ v1 \in [Sites -> Nat] /\ v2 \in [fresh : BOOLEAN, rows : [Sites -> Nat]]
      /\ v3 \in [fresh : BOOLEAN, used : {v3.used}] /\ v4 \subseteq Cn!CnRequest /\ v5 \in Nat
      /\ v9 \in BOOLEAN /\ v7 \in Cn!CnForms
  BY DEF Cn!CnInv, Cn!CnTypeOK
<1>1. PICK q : q = [kind |-> kind, job |-> j, mode |-> v7.mode, command |-> v7.command,
                    schedule |-> Cn!CnSchedule, done |-> FALSE, n |-> v5]
  OBVIOUS
<1>2. v4' = v4 \cup {q} /\ v5' = v5 + 1 /\ UNCHANGED <<v1, v2, v3, v9>>
  BY <1>1 DEF Cn!CnAsk
<1>3. PICK schedule : schedule = Cn!CnSchedule
  OBVIOUS
<1>4. schedule \in Cn!CnDialogs /\ schedule = IF v7.mode = "preset" THEN v7.preset ELSE v7.line
  BY <1>0, <1>3 DEF Cn!CnSchedule, Cn!CnForms
<1>5. q \in Cn!CnRequest
  BY <1>0, <1>1, <1>3, <1>4 DEF Cn!CnRequest, Cn!CnForms
<1>6. /\ q.kind = kind /\ q.job = j /\ q.mode = v7.mode /\ q.command = v7.command
      /\ q.schedule = schedule /\ ~q.done
  BY <1>1, <1>3
<1>7. Cn!CnListsLead'
  BY <1>2, <1>6 DEF Cn!CnInv, Cn!CnListsLead
<1>8. ASSUME kind # "delete"
      PROVE  /\ q.command = IF kind = "create" THEN "create" ELSE j
             /\ \/ kind = "update" /\ (q.mode = "preset" <=> j \notin Presets)
                \/ q.schedule = IF kind = "create" THEN "create" ELSE j
  <2>1. Cn!CnFormIsOfDialog
    BY DEF Cn!CnInv
  <2>2. v7.mode \in {"preset", "custom"}
    BY <1>0 DEF Cn!CnForms
  <2>3. CASE v6 = "create"
    BY <1>4, <1>6, <1>8, <2>1, <2>3 DEF Cn!CnFormIsOfDialog
  <2>4. CASE v6 # "create"
    BY <1>4, <1>6, <1>8, <2>1, <2>2, <2>4 DEF Cn!CnFormIsOfDialog
  <2>5. QED  BY <2>3, <2>4
<1>9. Cn!SavedToOwnJob'
  BY <1>2, <1>6, <1>8 DEF Cn!CnInv, Cn!SavedToOwnJob
<1>10. v6' \in {v6, none} /\ v4' \subseteq Cn!CnRequest /\ v5' \in Nat
  BY <1>0, <1>2, <1>5
<1>11. QED  BY <1>0, <1>2, <1>7, <1>9, <1>10, CronLists

(* The server carries a change out; an answer comes or is lost.              *)
LEMMA CronServed ==
  ASSUME Cn!CnInv, NEW r \in v4,
         Cn!CnCreated(r) \/ Cn!CnChanged(r) \/ Cn!CnAnswered(r) \/ Cn!CnFails(r)
  PROVE  Cn!CnInv'
<1>0. /\ v1 \in [Sites -> Nat] /\ v2 \in [fresh : BOOLEAN, rows : [Sites -> Nat]]
      /\ v3 \in [fresh : BOOLEAN, used : {v3.used}] /\ v4 \subseteq Cn!CnRequest /\ v5 \in Nat
      /\ v9 \in BOOLEAN /\ Cn!SavedToOwnJob /\ Cn!CnListsLead
  BY DEF Cn!CnInv, Cn!CnTypeOK
<1>1. UNCHANGED <<v5, v7, v10, v11, v12>> /\ v6' \in {v6, none}
  BY DEF Cn!CnCreated, Cn!CnChanged, Cn!CnAnswered, Cn!CnFails, Cn!cnFormVars, Cn!cnScanVars
<1>2. CASE Cn!CnCreated(r) \/ Cn!CnChanged(r)
  <2>1. PICK q : q = [r EXCEPT !.done = TRUE]
    OBVIOUS
  <2>2. q \in Cn!CnRequest /\ q.done /\ q.kind = r.kind /\ q.job = r.job /\ q.mode = r.mode
        /\ q.command = r.command /\ q.schedule = r.schedule
    BY <1>0, <2>1 DEF Cn!CnRequest
  <2>3. v4' = (v4 \ {r}) \cup {q} /\ UNCHANGED <<v2, v3, v9>>
    BY <1>2, <2>1 DEF Cn!CnCreated, Cn!CnChanged, Cn!CnKept
  <2>4. Cn!SavedToOwnJob'
    BY <1>0, <2>2, <2>3 DEF Cn!SavedToOwnJob
  <2>5. v1' \in [Sites -> Nat] /\ (r.kind = "update" => Cn!CnThere(v1') = Cn!CnThere(v1))
    <3>1. CASE Cn!CnCreated(r)
      <4>1. PICK j \in Sites : v1' = [v1 EXCEPT ![j] = 1]
        BY <3>1 DEF Cn!CnCreated, Cn!CnThere
      <4>2. r.kind = "create"
        BY <3>1 DEF Cn!CnCreated
      <4>3. QED  BY <1>0, <4>1, <4>2
    <3>2. CASE Cn!CnChanged(r)
      <4>1. PICK j \in Sites : j = r.job /\ v1[j] # 0
        BY <3>2 DEF Cn!CnChanged, Cn!CnThere
      <4>2. PICK n \in Nat : n = (IF r.kind = "delete" THEN 0 ELSE v1[j] + 1)
        BY <1>0, <4>1
      <4>3. v1' = [v1 EXCEPT ![j] = n]
        BY <3>2, <4>1, <4>2 DEF Cn!CnChanged
      <4>4. v1' \in [Sites -> Nat] /\ v1'[j] = n /\ \A x \in Sites : x # j => v1'[x] = v1[x]
        BY <1>0, <4>1, <4>3
      <4>5. r.kind = "update" => n # 0
        BY <1>0, <4>1, <4>2
      <4>6. r.kind = "update" => Cn!CnThere(v1') = Cn!CnThere(v1)
        BY <4>1, <4>4, <4>5 DEF Cn!CnThere
      <4>7. QED  BY <4>4, <4>6
    <3>3. QED  BY <1>2, <3>1, <3>2
  <2>6. Cn!CnListsLead'
    <3>1. (\A x \in v4' : x.done => x.kind = "update") =>
            Cn!CnThere(v1') = Cn!CnThere(v1) /\ \A x \in v4 : x.done => x.kind = "update"
      BY <2>2, <2>3, <2>5
    <3>2. ~ \A x \in v4' : ~x.done
      BY <2>2, <2>3
    <3>3. QED  BY <1>0, <2>3, <3>1, <3>2 DEF Cn!CnListsLead
  <2>7. QED
    BY <1>0, <1>1, <2>2, <2>3, <2>4, <2>5, <2>6, CronLists
<1>3. CASE Cn!CnAnswered(r)
  <2>1. /\ v4' = v4 \ {r} /\ UNCHANGED <<v1, v9>> /\ r.done
        /\ v2' = [v2 EXCEPT !.fresh = FALSE]
        /\ v3' = IF r.kind \in {"create", "delete"} THEN [v3 EXCEPT !.fresh = FALSE] ELSE v3
    BY <1>3 DEF Cn!CnAnswered, Cn!CnSettled, Cn!CnCounted, Cn!CnCounting
  <2>2. v2' \in [fresh : BOOLEAN, rows : [Sites -> Nat]] /\ ~v2'.fresh
    BY <1>0, <2>1
  <2>3. PICK n : n = v3.used
    OBVIOUS
  <2>4. v3' \in [fresh : BOOLEAN, used : {n}] /\ v3'.used = n
        /\ (r.kind \in {"create", "delete"} => ~v3'.fresh) /\ (v3'.fresh => v3.fresh)
    BY <1>0, <2>1, <2>3
  <2>5. Cn!SavedToOwnJob'
    BY <1>0, <2>1 DEF Cn!SavedToOwnJob
  <2>6. Cn!CnListsLead'
    <3>1. r.kind \in {"create", "update", "delete"}
      BY <1>0 DEF Cn!CnRequest
    <3>2. QED
      BY <1>0, <2>1, <2>2, <2>3, <2>4, <3>1 DEF Cn!CnListsLead
  <2>7. v3' \in [fresh : BOOLEAN, used : {v3'.used}]
    BY <2>4
  <2>8. QED  BY <1>0, <1>1, <2>1, <2>2, <2>5, <2>6, <2>7, CronLists
<1>4. CASE Cn!CnFails(r)
  <2>1. v4' = v4 \ {r} /\ UNCHANGED <<v1, v2, v3>> /\ v9' = (v9 \/ r.done)
    BY <1>4 DEF Cn!CnFails, Cn!CnSettled
  <2>2. v9' \in BOOLEAN /\ (~v9' => ~v9 /\ ~r.done)
    BY <1>0, <2>1
  <2>3. Cn!SavedToOwnJob'
    BY <1>0, <2>1 DEF Cn!SavedToOwnJob
  <2>4. Cn!CnListsLead'
    BY <1>0, <2>1, <2>2 DEF Cn!CnListsLead
  <2>5. QED  BY <1>0, <1>1, <2>1, <2>2, <2>3, <2>4, CronLists
<1>5. QED  BY <1>2, <1>3, <1>4

LEMMA CronStep ==
  ASSUME Cn!CnInv, Cn!CnListNext \/ Cn!CnScanNext
  PROVE  Cn!CnInv'
<1>0. /\ v1 \in [Sites -> Nat] /\ v2 \in [fresh : BOOLEAN, rows : [Sites -> Nat]]
      /\ v3 \in [fresh : BOOLEAN, used : {v3.used}] /\ v4 \subseteq Cn!CnRequest /\ v5 \in Nat
      /\ v9 \in BOOLEAN /\ v6 \in Cn!CnDialogs /\ v7 \in Cn!CnForms
      /\ v10 \in Sites /\ v11 \in BOOLEAN /\ v12 \in [Sites \X BOOLEAN -> Sites \cup {none}]
      /\ \A k \in Sites \X BOOLEAN : v12[k] \in {k[1], none}
      /\ Cn!SavedToOwnJob /\ Cn!CnListsLead /\ Cn!CnFormIsOfDialog
  BY DEF Cn!CnInv, Cn!CnTypeOK, Cn!CnFoundOwn
<1>1. CASE Cn!CnReadList \/ Cn!CnReadQuota
  <2>1. UNCHANGED <<v1, v4, v5, v6, v7, v9, v10, v11, v12>>
    BY <1>1 DEF Cn!CnReadList, Cn!CnReadQuota, Cn!cnFormVars, Cn!cnScanVars
  <2>2. Cn!SavedToOwnJob'
    BY <1>0, <2>1 DEF Cn!SavedToOwnJob
  <2>3. PICK n : n = Cn!Cardinality(Cn!CnThere(v1))
    OBVIOUS
  <2>4. v2' \in [fresh : BOOLEAN, rows : [Sites -> Nat]] /\ (v2' = v2 \/ v2'.rows = v1)
    <3>1. PICK l : l = [fresh |-> TRUE, rows |-> v1]
      OBVIOUS
    <3>2. l \in [fresh : BOOLEAN, rows : [Sites -> Nat]] /\ l.rows = v1
      BY <1>0, <3>1
    <3>3. v2' = v2 \/ v2' = l
      BY <1>1, <3>1 DEF Cn!CnReadList, Cn!CnReadQuota
    <3>4. QED  BY <1>0, <3>2, <3>3
  <2>5. (v3' = v3 \/ v3' = [fresh |-> TRUE, used |-> n])
    BY <1>1, <2>3 DEF Cn!CnReadList, Cn!CnReadQuota
  <2>6. v3' \in [fresh : BOOLEAN, used : {v3'.used}] /\ (v3' = v3 \/ v3'.used = n)
    <3>1. CASE v3' = v3
      BY <1>0, <3>1
    <3>2. CASE v3' = [fresh |-> TRUE, used |-> n]
      BY <3>2
    <3>3. QED  BY <2>5, <3>1, <3>2
  <2>7. Cn!CnListsLead'
    BY <1>0, <2>1, <2>3, <2>4, <2>6 DEF Cn!CnListsLead
  <2>8. QED  BY <1>0, <2>1, <2>2, <2>4, <2>6, <2>7, CronLists
<1>2. CASE Cn!CnSubmit
  <2>1. /\ v6 # none /\ v7.command # none /\ UNCHANGED <<v6, v7, v10, v11, v12>>
        /\ IF v6 = "create" THEN Cn!CnAsk("create", none) ELSE Cn!CnAsk("update", v6)
    BY <1>2 DEF Cn!CnSubmit, Cn!cnFormVars, Cn!cnScanVars
  <2>2. CASE v6 = "create"
    BY <2>1, <2>2, CronAsked DEF Cn!CnDialogs
  <2>3. CASE v6 # "create"
    <3>1. PICK j \in Cn!CnDialogs : j = v6
      BY <1>0
    <3>2. Cn!CnAsk("update", j)
      BY <2>1, <2>3, <3>1
    <3>3. QED  BY <2>1, <2>3, <3>1, <3>2, CronAsked
  <2>4. QED  BY <2>2, <2>3
<1>3. ASSUME NEW j \in Sites, Cn!CnDelete(j) PROVE Cn!CnInv'
  BY <1>3, CronAsked DEF Cn!CnDelete, Cn!CnDialogs, Cn!cnFormVars, Cn!cnScanVars
<1>4. ASSUME UNCHANGED <<v1, v2, v3, v4, v5, v9, v10, v11, v12>>, v6' \in Cn!CnDialogs,
             v7' \in Cn!CnForms, Cn!CnFormIsOfDialog'
      PROVE  Cn!CnInv'
  BY <1>0, <1>4, CronDialogs
<1>5. CASE Cn!CnCancel
  <2>1. UNCHANGED <<v1, v2, v3, v4, v5, v9, v10, v11, v12, v7>> /\ v6' = none
    BY <1>5 DEF Cn!CnCancel, Cn!cnListVars, Cn!cnScanVars
  <2>2. Cn!CnFormIsOfDialog' /\ v6' \in Cn!CnDialogs
    BY <2>1 DEF Cn!CnFormIsOfDialog, Cn!CnDialogs
  <2>3. QED  BY <1>0, <1>4, <2>1, <2>2
<1>6. ASSUME NEW dialog \in Sites \cup {"create"}, Cn!CnOpen(dialog) PROVE Cn!CnInv'
  <2>1. /\ UNCHANGED <<v1, v2, v3, v4, v5, v9, v10, v11, v12>> /\ v6' = dialog
        /\ v7' = IF dialog = "create" THEN Cn!CnEmptied ELSE Cn!CnFilled(dialog)
    BY <1>6 DEF Cn!CnOpen, Cn!CnBlankForm, Cn!cnListVars, Cn!cnScanVars
  <2>2. dialog \in Cn!CnDialogs /\ "create" \in Cn!CnDialogs /\ none \in Cn!CnDialogs
    BY DEF Cn!CnDialogs
  <2>3. CASE dialog = "create"
    <3>1. v7' \in Cn!CnForms
      BY <2>1, <2>2, <2>3 DEF Cn!CnForms, Cn!CnEmptied
    <3>2. Cn!CnFormIsOfDialog'
      BY <2>1, <2>3 DEF Cn!CnFormIsOfDialog, Cn!CnEmptied
    <3>3. QED  BY <1>4, <2>1, <2>2, <3>1, <3>2
  <2>4. CASE dialog # "create"
    <3>1. v7' = IF dialog \in Presets
                THEN [v7 EXCEPT !.command = dialog, !.mode = "preset", !.preset = dialog]
                ELSE [v7 EXCEPT !.command = dialog, !.mode = "custom", !.line = dialog]
      BY <2>1, <2>4 DEF Cn!CnFilled
    <3>2. v7' \in Cn!CnForms /\ v7'.command = dialog
          /\ IF dialog \in Presets THEN v7'.preset = dialog ELSE v7'.line = dialog
      BY <1>0, <2>2, <3>1 DEF Cn!CnForms
    <3>3. Cn!CnFormIsOfDialog'
      BY <2>1, <2>4, <3>2 DEF Cn!CnFormIsOfDialog
    <3>4. QED  BY <1>4, <2>1, <2>2, <3>2, <3>3
  <2>5. QED  BY <2>3, <2>4
<1>7. ASSUME NEW field \in {"command", "preset", "line"}, Cn!CnSetField(field) PROVE Cn!CnInv'
  <2>1. /\ UNCHANGED <<v1, v2, v3, v4, v5, v9, v10, v11, v12, v6>> /\ v6 # none
        /\ v7' = [v7 EXCEPT ![field] = v6]
    BY <1>7 DEF Cn!CnSetField, Cn!cnListVars, Cn!cnScanVars
  <2>2. v7' \in Cn!CnForms /\ v7'[field] = v6
        /\ \A f \in {"command", "preset", "line"} : f # field => v7'[f] = v7[f]
    BY <1>0, <2>1 DEF Cn!CnForms
  <2>3. Cn!CnFormIsOfDialog'
    BY <1>0, <2>1, <2>2 DEF Cn!CnFormIsOfDialog
  <2>4. QED  BY <1>0, <1>4, <2>1, <2>2, <2>3
<1>8. ASSUME NEW mode \in {"preset", "custom"}, Cn!CnSetMode(mode) PROVE Cn!CnInv'
  <2>1. /\ UNCHANGED <<v1, v2, v3, v4, v5, v9, v10, v11, v12, v6>>
        /\ v7' = [v7 EXCEPT !.mode = mode]
    BY <1>8 DEF Cn!CnSetMode, Cn!cnListVars, Cn!cnScanVars
  <2>2. v7' \in Cn!CnForms /\ v7'.command = v7.command /\ v7'.preset = v7.preset /\ v7'.line = v7.line
    BY <1>0, <2>1 DEF Cn!CnForms
  <2>3. Cn!CnFormIsOfDialog'
    BY <1>0, <2>1, <2>2 DEF Cn!CnFormIsOfDialog
  <2>4. QED  BY <1>0, <1>4, <2>1, <2>2, <2>3
<1>9. ASSUME NEW mode \in {"preset", "custom"}, Cn!CnApply(mode) PROVE Cn!CnInv'
  <2>1. /\ UNCHANGED <<v1, v2, v3, v4, v5, v9, v10, v11, v12, v6>> /\ v6 # none
        /\ v7' = IF mode = "preset"
                 THEN [v7 EXCEPT !.command = v6, !.mode = "preset", !.preset = v6]
                 ELSE [v7 EXCEPT !.command = v6, !.mode = "custom", !.line = v6]
    BY <1>9 DEF Cn!CnApply, Cn!cnListVars, Cn!cnScanVars
  <2>2. /\ v7' \in Cn!CnForms /\ v7'.command = v6
        /\ v7'.preset \in {v7.preset, v6} /\ v7'.line \in {v7.line, v6}
    BY <1>0, <2>1 DEF Cn!CnForms
  <2>3. Cn!CnFormIsOfDialog'
    BY <1>0, <2>1, <2>2 DEF Cn!CnFormIsOfDialog
  <2>4. QED  BY <1>0, <1>4, <2>1, <2>2, <2>3
<1>10. CASE Cn!CnScan \/ (\E s \in Sites, deep \in BOOLEAN : Cn!CnPickSite(s, deep))
  <2>1. UNCHANGED <<v1, v2, v3, v4, v5, v9, v6, v7>> /\ v10' \in Sites /\ v11' \in BOOLEAN
    BY <1>0, <1>10 DEF Cn!CnScan, Cn!CnPickSite, Cn!cnListVars, Cn!cnFormVars
  <2>2. Cn!CnFormIsOfDialog'
    BY <1>0, <2>1 DEF Cn!CnFormIsOfDialog
  <2>3. v12' = v12 \/ v12' = [v12 EXCEPT ![<<v10, v11>>] = v10]
    BY <1>10 DEF Cn!CnScan, Cn!CnPickSite, Cn!CnScanKey, Cn!CnOwnKey
  <2>4. /\ v12' \in [Sites \X BOOLEAN -> Sites \cup {none}]
        /\ \A k \in Sites \X BOOLEAN : v12'[k] \in {k[1], none}
    BY <1>0, <2>3
  <2>5. QED  BY <1>0, <2>1, <2>2, <2>4, CronDialogs
<1>11. QED
  BY <1>1, <1>2, <1>3, <1>5, <1>6, <1>7, <1>8, <1>9, <1>10, CronServed
     DEF Cn!CnListNext, Cn!CnScanNext

LEMMA CronHolds ==
  ASSUME Cn!CnInv
  PROVE  Cn!CronListTrue /\ Cn!SavedToOwnJob /\ Cn!SuggestionsOfSite
<1>1. Cn!CronListTrue
  BY DEF Cn!CnInv, Cn!CnListsLead, Cn!CronListTrue
<1>2. Cn!SuggestionsOfSite
  BY DEF Cn!CnInv, Cn!CnTypeOK, Cn!CnFoundOwn, Cn!SuggestionsOfSite, Cn!CnScanKey, Cn!CnOwnKey
<1>3. QED  BY <1>1, <1>2 DEF Cn!CnInv

-----------------------------------------------------------------------------
(* The Node.js applications.  v1: the configurations, v2: the cache, v3: the *)
(* site picked, v4: the last one picked, v5: the form, v6: the output, v7:   *)
(* detections, v8: requests, v9: how many so far, v10: sites with an answer  *)
(* that was missed.                                                          *)

LEMMA NodeRoot == Na!NaRoot \in {"root", "app"}
  BY DEF Na!NaRoot

LEMMA NodeInit == Na!NaInit => Na!NaInv
<1> SUFFICES ASSUME Na!NaInit PROVE Na!NaInv
  OBVIOUS
<1>1. v1 \in [Sites -> Na!NaConfs]
  BY NodeRoot DEF Na!NaInit, Na!NaConfs
<1>2. v2 \in [Sites -> [read : {"none", "fresh", "stale"}, conf : Na!NaConfs]]
  BY <1>1 DEF Na!NaInit
<1>3. v5 \in [owner : Sites \cup {none}, dir : {"root", "app"}]
  BY NodeRoot DEF Na!NaInit
<1>4. v6 \in [of : Sites \cup {none}, error : BOOLEAN] /\ v6.of = none
  BY DEF Na!NaInit, Na!NaNoOut
<1>5. Na!NaTypeOK
  BY <1>1, <1>2, <1>3, <1>4 DEF Na!NaInit, Na!NaTypeOK
<1>6. Na!NaCacheLeads /\ Na!NaFormIsOwn /\ Na!NaOutIsOfLast /\ Na!SavedToOwnApp
  BY <1>4 DEF Na!NaInit, Na!NaCacheLeads, Na!NaFormIsOwn, Na!NaOutIsOfLast, Na!SavedToOwnApp
<1>7. QED  BY <1>5, <1>6 DEF Na!NaInv

(* What is done in the page: no request is begun or ends.                    *)
LEMMA NodePage ==
  ASSUME Na!NaInv, UNCHANGED <<v1, v8, v9, v10>>,
         v2' \in [Sites -> [read : {"none", "fresh", "stale"}, conf : Na!NaConfs]],
         \A t \in Sites : v2'[t] = v2[t] \/ v2'[t].conf = v1[t],
         v3' \in Sites \cup {none}, v4' \in Sites \cup {none},
         v3' # none => v4' = v3',
         v5' \in [owner : Sites \cup {none}, dir : {"root", "app"}], Na!NaFormIsOwn',
         (v6' = v6 /\ v4' = v4) \/ v6' = Na!NaNoOut,
         v7' \subseteq [target : Sites, dir : {"root", "app"}]
  PROVE  Na!NaInv'
<1>1. v6' \in [of : Sites \cup {none}, error : BOOLEAN] /\ ((v6' = v6 /\ v4' = v4) \/ v6'.of = none)
  <2>1. v6 \in [of : Sites \cup {none}, error : BOOLEAN]
    BY DEF Na!NaInv, Na!NaTypeOK
  <2>2. CASE v6' = v6 /\ v4' = v4
    BY ONLY <2>1, <2>2
  <2>3. CASE v6' = Na!NaNoOut
    BY ONLY <2>3 DEF Na!NaNoOut
  <2>4. QED  BY <2>2, <2>3
<1>2. Na!NaTypeOK'
  BY <1>1 DEF Na!NaInv, Na!NaTypeOK
<1>3. Na!NaCacheLeads' /\ Na!SavedToOwnApp'
  BY DEF Na!NaInv, Na!NaCacheLeads, Na!SavedToOwnApp
<1>4. Na!NaOutIsOfLast'
  BY <1>1 DEF Na!NaInv, Na!NaOutIsOfLast
<1>5. QED  BY <1>2, <1>3, <1>4 DEF Na!NaInv

LEMMA NodeAsked ==
  ASSUME Na!NaInv, NEW kind \in Na!NaKinds, Na!NaAsk(kind)
  PROVE  Na!NaInv'
<1>0. /\ v2 \in [Sites -> [read : {"none", "fresh", "stale"}, conf : Na!NaConfs]]
      /\ v3 \in Sites \cup {none} /\ v3 # none /\ v9 \in Nat
      /\ v5 \in [owner : Sites \cup {none}, dir : {"root", "app"}]
  BY DEF Na!NaInv, Na!NaTypeOK, Na!NaAsk
<1>1. PICK read \in BOOLEAN : read <=> v2[v3].read # "none"
  OBVIOUS
<1>2. PICK q : q = [kind |-> kind, target |-> v3, owner |-> v5.owner,
                    read |-> v2[v3].read # "none", dir |-> v5.dir, step |-> "sent"]
  OBVIOUS
<1>3. /\ q \in [kind : Na!NaKinds, target : Sites, owner : Sites \cup {none},
                read : BOOLEAN, dir : {"root", "app"}, step : {"sent", "done"}]
      /\ q.step = "sent" /\ q.target = v3 /\ q.owner = v5.owner /\ (q.read => v2[v3].read # "none")
  BY <1>0, <1>1, <1>2
<1>4. v8' = v8 \cup {q} /\ v9' = v9 + 1 /\ UNCHANGED <<v1, v2, v3, v4, v5, v6, v7, v10>>
  BY <1>2 DEF Na!NaAsk
<1>5. Na!NaTypeOK'
  BY <1>0, <1>3, <1>4 DEF Na!NaInv, Na!NaTypeOK
<1>6. Na!NaCacheLeads'
  BY <1>3, <1>4 DEF Na!NaInv, Na!NaCacheLeads
<1>7. Na!NaFormIsOwn' /\ Na!NaOutIsOfLast'
  BY <1>4 DEF Na!NaInv, Na!NaFormIsOwn, Na!NaOutIsOfLast
<1>8. Na!SavedToOwnApp'
  BY <1>0, <1>3, <1>4 DEF Na!NaInv, Na!SavedToOwnApp, Na!NaFormIsOwn
<1>9. QED  BY <1>5, <1>6, <1>7, <1>8 DEF Na!NaInv

(* A request is carried out, answered or fails.                              *)
LEMMA NodeServed ==
  ASSUME Na!NaInv, NEW r \in v8, Na!NaServed(r) \/ Na!NaAnswered(r) \/ Na!NaFails(r)
  PROVE  Na!NaInv'
<1>0. /\ v1 \in [Sites -> Na!NaConfs]
      /\ v2 \in [Sites -> [read : {"none", "fresh", "stale"}, conf : Na!NaConfs]]
      /\ v5 \in [owner : Sites \cup {none}, dir : {"root", "app"}]
      /\ v6 \in [of : Sites \cup {none}, error : BOOLEAN]
      /\ v8 \subseteq [kind : Na!NaKinds, target : Sites, owner : Sites \cup {none},
                       read : BOOLEAN, dir : {"root", "app"}, step : {"sent", "done"}]
  BY DEF Na!NaInv, Na!NaTypeOK
<1>1. r.target \in Sites /\ r.dir \in {"root", "app"} /\ r.step \in {"sent", "done"}
  BY <1>0
<1>2. CASE Na!NaServed(r)
  <2>1. PICK d \in {"root", "app"} :
           v1' = [v1 EXCEPT ![r.target] =
                    IF r.kind \in {"save", "auto"} THEN [dir |-> d, saved |-> TRUE] ELSE @]
    BY <1>2 DEF Na!NaServed
  <2>2. PICK c : c = [dir |-> d, saved |-> TRUE]
    OBVIOUS
  <2>3. c \in Na!NaConfs
    BY <2>2 DEF Na!NaConfs
  <2>4. v1' \in [Sites -> Na!NaConfs] /\ \A t \in Sites : t # r.target => v1'[t] = v1[t]
    BY <1>0, <1>1, <2>1, <2>2, <2>3
  <2>5. PICK q : q = [r EXCEPT !.step = "done"]
    OBVIOUS
  <2>6. /\ q \in [kind : Na!NaKinds, target : Sites, owner : Sites \cup {none},
                  read : BOOLEAN, dir : {"root", "app"}, step : {"sent", "done"}]
        /\ q.step = "done" /\ q.kind = r.kind /\ q.target = r.target /\ q.owner = r.owner
        /\ q.read = r.read
    BY <1>0, <2>5
  <2>7. v8' = (v8 \ {r}) \cup {q} /\ UNCHANGED <<v2, v3, v4, v5, v6, v7, v9, v10>>
    BY <1>2, <2>5 DEF Na!NaServed
  <2>8. Na!NaTypeOK'
    BY <2>4, <2>6, <2>7 DEF Na!NaInv, Na!NaTypeOK
  <2>9. Na!NaCacheLeads'
    BY <2>4, <2>6, <2>7 DEF Na!NaInv, Na!NaCacheLeads
  <2>10. Na!NaFormIsOwn' /\ Na!NaOutIsOfLast'
    BY <2>7 DEF Na!NaInv, Na!NaFormIsOwn, Na!NaOutIsOfLast
  <2>11. Na!SavedToOwnApp'
    BY <2>6, <2>7 DEF Na!NaInv, Na!SavedToOwnApp
  <2>12. QED  BY <2>8, <2>9, <2>10, <2>11 DEF Na!NaInv
<1>3. CASE Na!NaAnswered(r)
  <2>1. v8' = v8 \ {r} /\ UNCHANGED <<v1, v3, v4, v7, v9>> /\ r.step = "done"
    BY <1>3 DEF Na!NaAnswered
  <2>2. Na!SavedToOwnApp'
    BY <2>1 DEF Na!NaInv, Na!SavedToOwnApp
  <2>3. CASE r.target = v4
    <3>1. /\ v2' = [v2 EXCEPT ![r.target].read = IF @ = "fresh" THEN "stale" ELSE @]
          /\ v10' = v10
          /\ v5' = IF r.kind \in {"auto", "heal"} THEN [owner |-> r.target, dir |-> v1[r.target].dir] ELSE v5
          /\ v6' = IF r.kind \in {"save", "auto"} THEN v6 ELSE [of |-> r.target, error |-> FALSE]
      BY <1>3, <2>3 DEF Na!NaAnswered, Na!NaHeeded, Na!NaForLast, Na!NaForget, Na!NaForgotten
    <3>2. PICK step : step = IF v2[r.target].read = "fresh" THEN "stale" ELSE v2[r.target].read
      OBVIOUS
    <3>3. PICK e : e = [v2[r.target] EXCEPT !.read = step]
      OBVIOUS
    <3>4. /\ e \in [read : {"none", "fresh", "stale"}, conf : Na!NaConfs]
          /\ e.read # "fresh" /\ (e.read = "none" <=> v2[r.target].read = "none")
      BY <1>0, <1>1, <3>2, <3>3
    <3>5. v2' = [v2 EXCEPT ![r.target] = e]
      BY <1>0, <3>1, <3>2, <3>3
    <3>6. /\ v2' \in [Sites -> [read : {"none", "fresh", "stale"}, conf : Na!NaConfs]]
          /\ v2'[r.target] = e /\ \A t \in Sites : t # r.target => v2'[t] = v2[t]
      BY <1>0, <1>1, <3>4, <3>5
    <3>7. /\ v5' \in [owner : Sites \cup {none}, dir : {"root", "app"}]
          /\ (v5' = v5 \/ v5'.owner = r.target)
      BY <1>0, <1>1, <3>1 DEF Na!NaConfs
    <3>8. /\ v6' \in [of : Sites \cup {none}, error : BOOLEAN]
          /\ (v6' = v6 \/ v6'.of = r.target)
      BY <1>0, <1>1, <3>1
    <3>9. Na!NaTypeOK'
      BY <2>1, <3>6, <3>7, <3>8 DEF Na!NaInv, Na!NaTypeOK
    <3>10. Na!NaCacheLeads'
      BY <2>1, <3>1, <3>4, <3>6 DEF Na!NaInv, Na!NaCacheLeads
    <3>11. Na!NaOutIsOfLast'
      BY <2>1, <2>3, <3>8 DEF Na!NaInv, Na!NaOutIsOfLast
    <3>12. Na!NaFormIsOwn'
      <4>1. v3 \in Sites \cup {none} /\ (v3 # none => v4 = v3)
        BY DEF Na!NaInv, Na!NaTypeOK, Na!NaOutIsOfLast
      <4>2. QED
        BY <2>1, <2>3, <3>4, <3>6, <3>7, <4>1 DEF Na!NaInv, Na!NaFormIsOwn
    <3>13. QED  BY <2>2, <3>9, <3>10, <3>11, <3>12 DEF Na!NaInv
  <2>4. CASE r.target # v4
    <3>1. v10' = v10 \cup {r.target} /\ UNCHANGED <<v2, v5, v6>>
      BY <1>3, <2>4 DEF Na!NaAnswered, Na!NaHeeded, Na!NaForLast
    <3>2. Na!NaTypeOK'
      BY <2>1, <3>1 DEF Na!NaInv, Na!NaTypeOK
    <3>3. Na!NaCacheLeads'
      BY <2>1, <3>1 DEF Na!NaInv, Na!NaCacheLeads
    <3>4. Na!NaFormIsOwn' /\ Na!NaOutIsOfLast'
      BY <2>1, <3>1 DEF Na!NaInv, Na!NaFormIsOwn, Na!NaOutIsOfLast
    <3>5. QED  BY <2>2, <3>2, <3>3, <3>4 DEF Na!NaInv
  <2>5. QED  BY <2>3, <2>4
<1>4. CASE Na!NaFails(r)
  <2>1. /\ v8' = v8 \ {r} /\ UNCHANGED <<v1, v2, v3, v4, v5, v7, v9>>
        /\ v6' = IF r.kind = "save" THEN v6 ELSE [of |-> r.target, error |-> TRUE]
        /\ v10' = IF r.step = "sent" THEN v10 ELSE v10 \cup {r.target}
    BY <1>4 DEF Na!NaFails
  <2>2. v6' \in [of : Sites \cup {none}, error : BOOLEAN] /\ (v6' = v6 \/ v6'.error)
    BY <1>0, <1>1, <2>1
  <2>3. Na!NaTypeOK'
    BY <2>1, <2>2 DEF Na!NaInv, Na!NaTypeOK
  <2>4. Na!NaCacheLeads'
    BY <2>1 DEF Na!NaInv, Na!NaCacheLeads
  <2>5. Na!NaFormIsOwn' /\ Na!NaOutIsOfLast'
    BY <2>1, <2>2 DEF Na!NaInv, Na!NaFormIsOwn, Na!NaOutIsOfLast
  <2>6. Na!SavedToOwnApp'
    BY <2>1 DEF Na!NaInv, Na!SavedToOwnApp
  <2>7. QED  BY <2>3, <2>4, <2>5, <2>6 DEF Na!NaInv
<1>5. QED  BY <1>2, <1>3, <1>4

LEMMA NodeStep == Na!NaInv /\ Na!NaNext => Na!NaInv'
<1> SUFFICES ASSUME Na!NaInv, Na!NaNext PROVE Na!NaInv'
  OBVIOUS
<1>0. /\ v1 \in [Sites -> Na!NaConfs]
      /\ v2 \in [Sites -> [read : {"none", "fresh", "stale"}, conf : Na!NaConfs]]
      /\ v3 \in Sites \cup {none} /\ v4 \in Sites \cup {none} /\ (v3 # none => v4 = v3)
      /\ v5 \in [owner : Sites \cup {none}, dir : {"root", "app"}] /\ Na!NaFormIsOwn
      /\ v7 \subseteq [target : Sites, dir : {"root", "app"}]
  BY DEF Na!NaInv, Na!NaTypeOK, Na!NaOutIsOfLast
<1>1. ASSUME NEW t \in Sites, NEW d \in {"root", "app"}, Na!NaDetect(t, d)
      PROVE  v7' \subseteq [target : Sites, dir : {"root", "app"}]
  BY <1>0, <1>1 DEF Na!NaDetect
<1>2. ASSUME NEW t \in Sites \cup {none}, Na!NaPick(t) PROVE Na!NaInv'
  <2>1. UNCHANGED <<v1, v2, v8, v9, v10>> /\ v3' = t
    BY <1>2 DEF Na!NaPick
  <2>2. CASE t = none
    <3>1. UNCHANGED <<v4, v5, v6, v7>>
      BY <1>2, <2>2 DEF Na!NaPick
    <3>2. Na!NaFormIsOwn'
      BY <2>1, <2>2 DEF Na!NaFormIsOwn
    <3>3. QED  BY <1>0, <2>1, <2>2, <3>1, <3>2, NodePage
  <2>3. CASE t # none
    <3>1. /\ v4' = t /\ v6' = Na!NaNoOut /\ Na!NaDetect(t, Na!NaRoot)
          /\ v5' = IF v2[t].read = "none" THEN v5 ELSE [owner |-> t, dir |-> v2[t].conf.dir]
      BY <1>2, <2>3 DEF Na!NaPick, Na!NaFill
    <3>2. /\ v5' \in [owner : Sites \cup {none}, dir : {"root", "app"}]
          /\ v2[t].read # "none" => v5'.owner = t
      BY <1>0, <2>3, <3>1 DEF Na!NaConfs
    <3>3. Na!NaFormIsOwn'
      BY <2>1, <3>2 DEF Na!NaFormIsOwn
    <3>4. v7' \subseteq [target : Sites, dir : {"root", "app"}]
      BY <1>1, <2>3, <3>1, NodeRoot
    <3>5. QED  BY <1>0, <2>1, <2>3, <3>1, <3>2, <3>3, <3>4, NodePage
  <2>4. QED  BY <2>2, <2>3
<1>3. CASE Na!NaRead
  <2>1. PICK t \in Sites : t = v3
    BY <1>0, <1>3 DEF Na!NaRead
  <2>2. PICK e : e = [read |-> "fresh", conf |-> v1[t]]
    OBVIOUS
  <2>3. e \in [read : {"none", "fresh", "stale"}, conf : Na!NaConfs] /\ e.conf = v1[t]
    BY <1>0, <2>2
  <2>4. v2' = [v2 EXCEPT ![t] = e] /\ UNCHANGED <<v1, v3, v4, v6, v7, v8, v9, v10>> /\ v3 # none
    BY <1>3, <2>1, <2>2 DEF Na!NaRead
  <2>5. \/ v2[t].read = "stale" /\ v5' = v5
        \/ v5' = [owner |-> t, dir |-> v1[t].dir]
    BY <1>3, <2>1 DEF Na!NaRead
  <2>6. v5' \in [owner : Sites \cup {none}, dir : {"root", "app"}] /\ v5'.owner = t
    <3>1. CASE v2[t].read = "stale" /\ v5' = v5
      BY <1>0, <2>1, <2>4, <3>1 DEF Na!NaFormIsOwn
    <3>2. CASE v5' = [owner |-> t, dir |-> v1[t].dir]
      BY <1>0, <3>2 DEF Na!NaConfs
    <3>3. QED  BY <2>5, <3>1, <3>2
  <2>7. Na!NaFormIsOwn'
    BY <2>1, <2>4, <2>6 DEF Na!NaFormIsOwn
  <2>8. /\ v2' \in [Sites -> [read : {"none", "fresh", "stale"}, conf : Na!NaConfs]]
        /\ \A x \in Sites : v2'[x] = v2[x] \/ v2'[x].conf = v1[x]
    BY <1>0, <2>3, <2>4
  <2>9. QED  BY <1>0, <2>4, <2>6, <2>7, <2>8, NodePage
<1>4. ASSUME UNCHANGED <<v1, v2, v3, v4, v6, v8, v9, v10>>,
             v5' \in [owner : Sites \cup {none}, dir : {"root", "app"}], v5'.owner = v5.owner,
             v7' \subseteq [target : Sites, dir : {"root", "app"}]
      PROVE  Na!NaInv'
  <2>1. Na!NaFormIsOwn'
    BY <1>0, <1>4 DEF Na!NaFormIsOwn
  <2>2. QED  BY <1>0, <1>4, <2>1, NodePage
<1>5. ASSUME NEW d \in {"root", "app"}, Na!NaChooseDir(d) PROVE Na!NaInv'
  <2>1. /\ v3 # none /\ v5' = [v5 EXCEPT !.dir = d] /\ Na!NaDetect(v3, d)
        /\ UNCHANGED <<v1, v2, v3, v4, v6, v8, v9, v10>>
    BY <1>5 DEF Na!NaChooseDir
  <2>2. PICK t \in Sites : t = v3
    BY <1>0, <2>1
  <2>3. v7' \subseteq [target : Sites, dir : {"root", "app"}]
    BY <1>1, <2>1, <2>2
  <2>4. v5' \in [owner : Sites \cup {none}, dir : {"root", "app"}] /\ v5'.owner = v5.owner
    BY <1>0, <2>1
  <2>5. QED  BY <1>4, <2>1, <2>3, <2>4
<1>6. CASE Na!NaDetectAgain
  <2>1. /\ v7' = {[target |-> v3, dir |-> v5.dir]} /\ v3 \in Sites
        /\ UNCHANGED <<v1, v2, v3, v4, v5, v6, v8, v9, v10>>
    BY <1>0, <1>6 DEF Na!NaDetectAgain
  <2>2. v7' \subseteq [target : Sites, dir : {"root", "app"}]
    BY <1>0, <2>1
  <2>3. QED  BY <1>0, <1>4, <2>1, <2>2
<1>7. ASSUME NEW q \in v7, Na!NaDetectFails(q) PROVE Na!NaInv'
  BY <1>0, <1>4, <1>7 DEF Na!NaDetectFails
<1>8. ASSUME NEW q \in v7, NEW found \in {"root", "app"}, Na!NaDetected(q, found) PROVE Na!NaInv'
  <2>1. /\ v7' = v7 \ {q} /\ UNCHANGED <<v1, v2, v3, v4, v6, v8, v9, v10>>
        /\ v5' = IF q.target = v4 THEN [v5 EXCEPT !.dir = Na!NaMerged(q.target, found)] ELSE v5
    BY <1>8 DEF Na!NaDetected
  <2>2. q.target \in Sites
    BY <1>0
  <2>3. PICK d : d = Na!NaMerged(q.target, found)
    OBVIOUS
  <2>4. d \in {"root", "app"}
    BY <1>0, <2>2, <2>3 DEF Na!NaMerged, Na!NaConfs
  <2>5. v5' \in [owner : Sites \cup {none}, dir : {"root", "app"}] /\ v5'.owner = v5.owner
    BY <1>0, <2>1, <2>3, <2>4
  <2>6. QED  BY <1>0, <1>4, <2>1, <2>5
<1>9. QED
  BY <1>2, <1>3, <1>5, <1>6, <1>7, <1>8, NodeAsked, NodeServed DEF Na!NaNext

LEMMA NodeHolds ==
  ASSUME Na!NaInv
  PROVE  Na!AppConfigTrue /\ Na!SavedToOwnApp /\ Na!OutputOfPicked
<1>1. Na!AppConfigTrue
  BY DEF Na!NaInv, Na!NaCacheLeads, Na!AppConfigTrue
<1>2. Na!OutputOfPicked
  BY DEF Na!NaInv, Na!NaOutIsOfLast, Na!OutputOfPicked
<1>3. QED  BY <1>1, <1>2 DEF Na!NaInv

-----------------------------------------------------------------------------
(* The zones.  v1 to v3: the records, the zone files and what is served,    *)
(* v4 and v5: the syncs and the queue, v6: the lists, v7: the domain        *)
(* picked, v8 and v9: the requests, v11 to v13: missed, met and lost.       *)

LEMMA DnsInit == Dn!DnInit => Dn!DnInv
<1> SUFFICES ASSUME Dn!DnInit PROVE Dn!DnInv
  OBVIOUS
<1>1. /\ v1 \in [Sites -> {{}, {0}}] /\ v2 = v1 /\ v3 = v1 /\ v4 = {} /\ v5 = FALSE
      /\ v6 = [d \in Sites |-> [read |-> "none", rows |-> {}]] /\ v7 \in Sites
      /\ v8 = {} /\ v9 = 0 /\ v12 = FALSE /\ v13 = FALSE
  BY DEF Dn!DnInit
<1>2. v1 \in Dn!DnZoneSet
  BY <1>1 DEF Dn!DnZoneSet
<1>3. Dn!DnTypeOK
  BY <1>1, <1>2 DEF Dn!DnTypeOK
<1>4. Dn!DnListsLead
  BY <1>1 DEF Dn!DnListsLead
<1>5. Dn!DnOwnSyncs /\ Dn!DnOneSync /\ Dn!DnWritten /\ Dn!DnZonesLead
  BY <1>1 DEF Dn!DnOwnSyncs, Dn!DnOneSync, Dn!DnWritten, Dn!DnZonesLead
<1>6. QED  BY <1>3, <1>4, <1>5 DEF Dn!DnInv

(* What is asked is under way beside the requests before it.                *)
LEMMA DnsAsks ==
  ASSUME Dn!DnTypeOK, Dn!DnOwnSyncs, NEW kind \in {"create", "bootstrap", "delete"}, NEW row \in Nat, Dn!DnAsk(kind, row)
  PROVE  /\ v8' \subseteq Dn!DnRequest /\ v9' = v9 + 1
         /\ UNCHANGED <<v1, v2, v3, v4, v5, v6, v7, v11, v12, v13>>
         /\ \A q \in v8' : \/ q.step = "sent" /\ q.n = v9
                           \/ \E r \in v8 : q.site = r.site /\ q.step = r.step /\ q.n = r.n
         /\ \A r \in v8 : \E q \in v8' : q.site = r.site /\ q.step = r.step /\ q.n = r.n
         /\ \A r, q \in v8' : r.n = q.n => r = q
<1> DEFINE new == [kind |-> kind, site |-> v7, row |-> row, step |-> "sent", seen |-> Dn!DnLive, n |-> v9]
           Now(r) == IF kind = "delete" /\ r.kind = kind /\ r.seen = Dn!DnLive THEN [r EXCEPT !.seen = v7] ELSE r
<1>0. v7 \in Sites /\ v8 \subseteq Dn!DnRequest /\ v9 \in Nat
  BY DEF Dn!DnTypeOK, Dn!DnAsk
<1>1. new \in Dn!DnRequest /\ new.step = "sent" /\ new.n = v9
  BY <1>0 DEF Dn!DnRequest
<1>2. ASSUME NEW r \in v8
      PROVE  Now(r) \in Dn!DnRequest /\ Now(r).site = r.site /\ Now(r).step = r.step /\ Now(r).n = r.n
  <2>1. r \in Dn!DnRequest
    BY <1>0
  <2>2. [r EXCEPT !.seen = v7] \in Dn!DnRequest
    BY <1>0, <2>1 DEF Dn!DnRequest
  <2>3. QED  BY <2>1, <2>2 DEF Dn!DnRequest
<1>3. v8' = {Now(r) : r \in v8} \cup {new} /\ v9' = v9 + 1
  BY DEF Dn!DnAsk
<1>4. UNCHANGED <<v1, v2, v3, v4, v5, v6, v7, v11, v12, v13>>
  BY DEF Dn!DnAsk, Dn!dnZones, Dn!dnPage, Dn!dnHistory
<1> HIDE DEF Now, new
<1>5. \A r \in v8 : r.n < v9
  BY DEF Dn!DnOwnSyncs
<1>6. ASSUME NEW r \in v8', NEW q \in v8', r.n = q.n PROVE r = q
  <2>1. \A x, y \in v8 : x.n = y.n => x = y
    BY DEF Dn!DnOwnSyncs
  <2>2. \A x \in v8 : Now(x).n = x.n /\ x.n # v9
    BY <1>0, <1>2, <1>5 DEF Dn!DnRequest
  <2>3. QED  BY <1>1, <1>3, <1>6, <2>1, <2>2
<1>7. /\ v8' \subseteq Dn!DnRequest
      /\ \A q \in v8' : \/ q.step = "sent" /\ q.n = v9
                        \/ \E r \in v8 : q.site = r.site /\ q.step = r.step /\ q.n = r.n
      /\ \A r \in v8 : \E q \in v8' : q.site = r.site /\ q.step = r.step /\ q.n = r.n
  BY <1>1, <1>2, <1>3
<1>8. QED  BY <1>3, <1>4, <1>6, <1>7

(* A sync that ends answers the request it belongs to.                      *)
LEMMA DnsSynced ==
  ASSUME Dn!DnTypeOK, Dn!DnOwnSyncs, NEW by, Dn!DnSynced(by)
  PROVE  /\ v8' \subseteq Dn!DnRequest
         /\ \A q \in v8' : \/ q \in v8 /\ q.n # by
                           \/ \E r \in v8 : q.site = r.site /\ q.step = "done" /\ q.n = r.n /\ r.n = by
         /\ \A r \in v8 : \/ r \in v8' /\ r.n # by
                          \/ \E q \in v8' : q.site = r.site /\ q.step = "done" /\ r.n = by
         /\ \A r, q \in v8' : r.n = q.n => r = q
<1> DEFINE Now(r) == IF r.n = by THEN [r EXCEPT !.step = "done"] ELSE r
<1>1. ASSUME NEW r \in v8
      PROVE  /\ Now(r) \in Dn!DnRequest /\ Now(r).site = r.site /\ Now(r).n = r.n
             /\ IF r.n = by THEN Now(r).step = "done" ELSE Now(r) = r
  <2>1. r \in Dn!DnRequest
    BY DEF Dn!DnTypeOK
  <2>2. [r EXCEPT !.step = "done"] \in Dn!DnRequest
    BY <2>1 DEF Dn!DnRequest
  <2>3. QED  BY <2>1, <2>2 DEF Dn!DnRequest
<1>2. v8' = {Now(r) : r \in v8}
  BY DEF Dn!DnSynced
<1>3. \A x, y \in v8 : x.n = y.n => x = y
  BY DEF Dn!DnOwnSyncs
<1> HIDE DEF Now
<1>4. \A r, q \in v8' : r.n = q.n => r = q
  BY <1>1, <1>2, <1>3
<1>5. QED  BY <1>1, <1>2, <1>4

(* The requests and their domains: what a step does to them.                *)
LEMMA DnsRequests ==
  ASSUME Dn!DnTypeOK, Dn!DnOwnSyncs, Dn!DnNext
  PROVE  /\ v8' \subseteq Dn!DnRequest /\ v9' \in Nat /\ v9 <= v9' /\ v7' \in Sites \cup {none}
         /\ \A r, q \in v8' : r.n = q.n => r = q
         /\ \A q \in v8' : q.n < v9'
<1>0. v8 \subseteq Dn!DnRequest /\ v9 \in Nat /\ v7 \in Sites \cup {none} /\ \A r, q \in v8 : r.n = q.n => r = q
  BY DEF Dn!DnTypeOK, Dn!DnOwnSyncs
<1>01. \A r \in v8 : r.n < v9 /\ r.n \in Nat
  BY <1>0 DEF Dn!DnOwnSyncs, Dn!DnRequest
<1>1. ASSUME v8' \subseteq v8, v9' = v9, v7' \in {v7, none} \cup Sites
      PROVE  /\ v8' \subseteq Dn!DnRequest /\ v9' \in Nat /\ v9 <= v9' /\ v7' \in Sites \cup {none}
             /\ (\A r, q \in v8' : r.n = q.n => r = q) /\ \A q \in v8' : q.n < v9'
  BY <1>0, <1>01, <1>1
<1>2. ASSUME NEW kind \in {"create", "bootstrap", "delete"}, NEW row \in Nat, Dn!DnAsk(kind, row)
      PROVE  /\ v8' \subseteq Dn!DnRequest /\ v9' \in Nat /\ v9 <= v9' /\ v7' \in Sites \cup {none}
             /\ (\A r, q \in v8' : r.n = q.n => r = q) /\ \A q \in v8' : q.n < v9'
  <2>1. /\ v8' \subseteq Dn!DnRequest /\ v9' = v9 + 1 /\ v7' = v7
        /\ \A q \in v8' : q.n = v9 \/ \E r \in v8 : q.n = r.n
        /\ \A r, q \in v8' : r.n = q.n => r = q
    BY <1>2, DnsAsks
  <2>2. QED  BY <1>0, <1>01, <2>1
<1>3. ASSUME NEW r \in v8, NEW step \in {"changed", "syncing", "done"}, v8' = (v8 \ {r}) \cup {[r EXCEPT !.step = step]},
             v9' = v9, v7' = v7
      PROVE  /\ v8' \subseteq Dn!DnRequest /\ v9' \in Nat /\ v9 <= v9' /\ v7' \in Sites \cup {none}
             /\ (\A x, q \in v8' : x.n = q.n => x = q) /\ \A q \in v8' : q.n < v9'
  <2>1. r \in Dn!DnRequest
    BY <1>0
  <2>2. PICK q : q = [r EXCEPT !.step = step]
    OBVIOUS
  <2>3. q \in Dn!DnRequest /\ q.n = r.n
    BY <2>1, <2>2 DEF Dn!DnRequest
  <2>4. v8' = (v8 \ {r}) \cup {q}
    BY <1>3, <2>2
  <2>5. QED  BY ONLY <1>0, <1>01, <1>3, <2>3, <2>4
<1>4. ASSUME NEW by, Dn!DnSynced(by), v9' = v9, v7' = v7
      PROVE  /\ v8' \subseteq Dn!DnRequest /\ v9' \in Nat /\ v9 <= v9' /\ v7' \in Sites \cup {none}
             /\ (\A r, q \in v8' : r.n = q.n => r = q) /\ \A q \in v8' : q.n < v9'
  <2>1. /\ v8' \subseteq Dn!DnRequest
        /\ \A q \in v8' : \E r \in v8 : q.n = r.n
        /\ \A r, q \in v8' : r.n = q.n => r = q
    BY <1>4, DnsSynced
  <2>2. QED  BY <1>0, <1>01, <1>4, <2>1
<1>5. ASSUME Dn!DnCreate \/ Dn!DnEnsure \/ Dn!DnBootstrap \/ \E row \in 0..MaxAsks : Dn!DnDelete(row)
      PROVE  \E kind \in {"create", "bootstrap", "delete"}, row \in Nat : Dn!DnAsk(kind, row)
  BY <1>0, <1>5 DEF Dn!DnCreate, Dn!DnEnsure, Dn!DnBootstrap, Dn!DnDelete
<1>6. ASSUME Dn!DnRead \/ Dn!DnDialog \/ Dn!DnRunJob \/ (\E d \in Sites \cup {none} : Dn!DnPick(d)) \/ \E s \in v4 : Dn!DnWrite(s)
      PROVE  v8' \subseteq v8 /\ v9' = v9 /\ v7' \in {v7, none} \cup Sites
  BY <1>6 DEF Dn!DnRead, Dn!DnDialog, Dn!DnRunJob, Dn!DnPick, Dn!DnWrite, Dn!dnPage
<1>7. ASSUME NEW r \in v8, Dn!DnAnswered(r) \/ Dn!DnFails(r)
      PROVE  v8' \subseteq v8 /\ v9' = v9 /\ v7' \in {v7, none} \cup Sites
  BY <1>7 DEF Dn!DnAnswered, Dn!DnFails, Dn!dnPage
<1>8. ASSUME NEW r \in v8, Dn!DnChanged(r) \/ Dn!DnSyncNow(r)
      PROVE  \E step \in {"changed", "syncing", "done"} :
                v8' = (v8 \ {r}) \cup {[r EXCEPT !.step = step]} /\ v9' = v9 /\ v7' = v7
  BY <1>8 DEF Dn!DnChanged, Dn!DnSyncNow, Dn!dnPage
<1>9. ASSUME NEW s \in v4, Dn!DnReload(s) \/ Dn!DnSyncFails(s)
      PROVE  Dn!DnSynced(s.by) /\ v9' = v9 /\ v7' = v7
  BY <1>9 DEF Dn!DnReload, Dn!DnSyncFails, Dn!dnPage
<1>10. QED
  BY <1>1, <1>2, <1>3, <1>4, <1>5, <1>6, <1>7, <1>8, <1>9 DEF Dn!DnNext

LEMMA DnsTypes ==
  ASSUME Dn!DnTypeOK, Dn!DnOwnSyncs, Dn!DnNext
  PROVE  Dn!DnTypeOK'
<1>0. /\ v1 \in [Sites -> SUBSET Nat] /\ v2 \in [Sites -> SUBSET Nat] /\ v3 \in [Sites -> SUBSET Nat]
      /\ v4 \subseteq [by : Nat \cup {Dn!DnJob}, read : Dn!DnZoneSet, left : SUBSET Sites]
      /\ v6 \in [Sites -> [read : {"none", "fresh", "stale"}, rows : SUBSET Nat]]
      /\ v5 \in BOOLEAN /\ v12 \in BOOLEAN /\ v13 \in BOOLEAN /\ v7 \in Sites \cup {none}
      /\ v8 \subseteq Dn!DnRequest
  BY DEF Dn!DnTypeOK, Dn!DnZoneSet
<1>01. \A r \in v8 : r.site \in Sites /\ r.row \in Nat /\ r.n \in Nat
  BY <1>0 DEF Dn!DnRequest
<1>1. v1' \in Dn!DnZoneSet
  <2>1. v1' = v1 \/ \E r \in v8 : \/ v1' = [v1 EXCEPT ![r.site] = v1[r.site] \ {r.row}]
                                  \/ v1' = [v1 EXCEPT ![r.site] = v1[r.site] \cup {r.row}]
    BY DEF Dn!DnNext, Dn!DnRead, Dn!DnDialog, Dn!DnCreate, Dn!DnEnsure, Dn!DnBootstrap, Dn!DnRunJob, Dn!DnPick, Dn!DnDelete,
       Dn!DnAsk, Dn!DnChanged, Dn!DnSyncNow, Dn!DnAnswered, Dn!DnFails, Dn!DnWrite, Dn!DnReload, Dn!DnSyncFails
  <2>2. QED  BY <1>0, <1>01, <2>1 DEF Dn!DnZoneSet
<1>2. v2' \in Dn!DnZoneSet /\ v3' \in Dn!DnZoneSet
  <2>1. v3' = v3 \/ v3' = v2
    BY DEF Dn!DnNext, Dn!DnRead, Dn!DnDialog, Dn!DnCreate, Dn!DnEnsure, Dn!DnBootstrap, Dn!DnRunJob, Dn!DnPick, Dn!DnDelete,
       Dn!DnAsk, Dn!DnChanged, Dn!DnSyncNow, Dn!DnAnswered, Dn!DnFails, Dn!DnWrite, Dn!DnReload, Dn!DnSyncFails, Dn!dnZones
  <2>2. v2' = v2 \/ \E s \in v4, d \in Sites : v2' = [v2 EXCEPT ![d] = s.read[d]]
    <3>1. ASSUME NEW s \in v4, Dn!DnWrite(s) PROVE \E d \in Sites : v2' = [v2 EXCEPT ![d] = s.read[d]]
      <4>1. PICK d : d = (CHOOSE x \in s.left : TRUE)
        OBVIOUS
      <4>2. s.left \subseteq Sites /\ s.left # {}
        BY <1>0, <3>1 DEF Dn!DnWrite
      <4>3. d \in Sites
        BY <4>1, <4>2
      <4>4. v2' = [v2 EXCEPT ![d] = s.read[d]]
        BY <3>1, <4>1 DEF Dn!DnWrite
      <4>5. QED  BY <4>3, <4>4
    <3>2. QED
      BY <3>1 DEF Dn!DnNext, Dn!DnRead, Dn!DnDialog, Dn!DnCreate, Dn!DnEnsure, Dn!DnBootstrap, Dn!DnRunJob, Dn!DnPick,
         Dn!DnDelete, Dn!DnAsk, Dn!DnChanged, Dn!DnSyncNow, Dn!DnAnswered, Dn!DnFails, Dn!DnReload, Dn!DnSyncFails, Dn!dnZones
  <2>3. \A s \in v4 : s.read \in [Sites -> SUBSET Nat]
    BY <1>0 DEF Dn!DnZoneSet
  <2>4. QED  BY <1>0, <2>1, <2>2, <2>3 DEF Dn!DnZoneSet
<1>3. v4' \subseteq [by : Nat \cup {Dn!DnJob}, read : Dn!DnZoneSet, left : SUBSET Sites]
  <2>1. \/ v4' = v4 \/ \E s \in v4 : v4' = v4 \ {s}
        \/ \E by \in {Dn!DnJob} \cup {r.n : r \in v8} : v4' = v4 \cup {[by |-> by, read |-> v1, left |-> Sites]}
        \/ \E s \in v4 : \E d \in s.left : v4' = (v4 \ {s}) \cup {[s EXCEPT !.left = s.left \ {d}]}
    <3>1. ASSUME NEW s \in v4, Dn!DnWrite(s) PROVE \E d \in s.left : v4' = (v4 \ {s}) \cup {[s EXCEPT !.left = s.left \ {d}]}
      <4>1. PICK d : d = (CHOOSE x \in s.left : TRUE)
        OBVIOUS
      <4>2. d \in s.left
        BY <3>1, <4>1 DEF Dn!DnWrite
      <4>3. QED  BY <3>1, <4>1, <4>2 DEF Dn!DnWrite
    <3>2. QED
      BY <3>1 DEF Dn!DnNext, Dn!DnRead, Dn!DnDialog, Dn!DnCreate, Dn!DnEnsure, Dn!DnBootstrap, Dn!DnRunJob, Dn!DnPick,
         Dn!DnDelete, Dn!DnAsk, Dn!DnChanged, Dn!DnSyncNow, Dn!DnAnswered, Dn!DnFails, Dn!DnReload, Dn!DnSyncFails, Dn!dnZones,
         Dn!DnSync
  <2>2. \A s \in v4 : \A d \in s.left : [s EXCEPT !.left = s.left \ {d}] \in [by : Nat \cup {Dn!DnJob}, read : Dn!DnZoneSet, left : SUBSET Sites]
    BY <1>0
  <2>3. \A by \in {Dn!DnJob} \cup {r.n : r \in v8} :
            [by |-> by, read |-> v1, left |-> Sites] \in [by : Nat \cup {Dn!DnJob}, read : Dn!DnZoneSet, left : SUBSET Sites]
    BY <1>0, <1>01 DEF Dn!DnZoneSet
  <2>4. QED  BY <1>0, <2>1, <2>2, <2>3
<1>4. v6' \in [Sites -> [read : {"none", "fresh", "stale"}, rows : SUBSET Nat]]
  <2>1. \/ v6' = v6 \/ (v7 \in Sites /\ v6' = [v6 EXCEPT ![v7] = [read |-> "fresh", rows |-> v1[v7]]])
        \/ \E c \in Sites \cup {none} : v6' = Dn!DnForgotten(c) \/ \E r \in v8 : v6' = Dn!DnForgotten(Dn!DnSeenSite(r))
    BY <1>0 DEF Dn!DnNext, Dn!DnRead, Dn!DnDialog, Dn!DnCreate, Dn!DnEnsure, Dn!DnBootstrap, Dn!DnRunJob, Dn!DnPick, Dn!DnDelete,
       Dn!DnAsk, Dn!DnChanged, Dn!DnSyncNow, Dn!DnAnswered, Dn!DnFails, Dn!DnWrite, Dn!DnReload, Dn!DnSyncFails, Dn!dnPage,
       Dn!DnForget
  <2>2. ASSUME NEW c PROVE Dn!DnForgotten(c) \in [Sites -> [read : {"none", "fresh", "stale"}, rows : SUBSET Nat]]
    BY <1>0 DEF Dn!DnForgotten
  <2>3. v7 \in Sites => [v6 EXCEPT ![v7] = [read |-> "fresh", rows |-> v1[v7]]] \in [Sites -> [read : {"none", "fresh", "stale"}, rows : SUBSET Nat]]
    BY <1>0
  <2>4. QED  BY <1>0, <2>1, <2>2, <2>3
<1>5. v5' \in BOOLEAN /\ v12' \in BOOLEAN /\ v13' \in BOOLEAN
  BY <1>0 DEF Dn!DnNext, Dn!DnRead, Dn!DnDialog, Dn!DnCreate, Dn!DnEnsure, Dn!DnBootstrap, Dn!DnRunJob, Dn!DnPick, Dn!DnDelete,
     Dn!DnAsk, Dn!DnChanged, Dn!DnSyncNow, Dn!DnAnswered, Dn!DnFails, Dn!DnWrite, Dn!DnReload, Dn!DnSyncFails, Dn!dnZones,
     Dn!dnHistory, Dn!DnSync, Dn!DnFallBack, Dn!DnQueueAgain
<1>6. QED
  BY <1>1, <1>2, <1>3, <1>4, <1>5, DnsRequests DEF Dn!DnTypeOK

LEMMA DnsLists ==
  ASSUME Dn!DnTypeOK, Dn!DnOwnSyncs, Dn!DnListsLead, Dn!DnNext
  PROVE  Dn!DnListsLead'
<1>0. /\ v6 \in [Sites -> [read : {"none", "fresh", "stale"}, rows : SUBSET Nat]]
      /\ v8 \subseteq Dn!DnRequest /\ v1 \in [Sites -> SUBSET Nat]
  BY DEF Dn!DnTypeOK, Dn!DnZoneSet
<1>01. \A r \in v8 : r.site \in Sites
  BY <1>0 DEF Dn!DnRequest
\* Nothing is asked for or changed, but a list may be read.
<1>1. ASSUME v1' = v1, v11' = v11,
             v6' = v6 \/ (v7 \in Sites /\ v6' = [v6 EXCEPT ![v7] = [read |-> "fresh", rows |-> v1[v7]]]),
             \A r \in v8 : \E q \in v8' : q.site = r.site /\ (q.step = "sent" => r.step = "sent")
      PROVE  Dn!DnListsLead'
  <2>1. \A d \in Sites : v6'[d] = v6[d] \/ v6'[d].rows = v1[d]
    BY <1>0, <1>1
  <2>2. QED  BY <1>1, <2>1 DEF Dn!DnListsLead
\* A request changes something, or is no longer at the start.
<1>2. ASSUME NEW r \in v8, NEW q \in v8', q.site = r.site, q.step # "sent", UNCHANGED <<v6, v11>>,
             \A d \in Sites \ {r.site} : v1'[d] = v1[d], \A x \in v8 \ {r} : x \in v8'
      PROVE  Dn!DnListsLead'
  BY <1>2 DEF Dn!DnListsLead
\* A request ends.
<1>3. ASSUME NEW r \in v8, v8' = v8 \ {r}, v1' = v1, v11 \subseteq v11',
             \/ v6' = Dn!DnForgotten(r.site)
             \/ r.site \in v11' /\ \E c : v6' = Dn!DnForgotten(c)
             \/ (r.step = "sent" \/ r.site \in v11') /\ v6' = v6
      PROVE  Dn!DnListsLead'
  <2>1. \A d \in Sites : v6'[d].read = "fresh" => v6'[d] = v6[d] /\ v6' # Dn!DnForgotten(d)
    BY <1>0, <1>3 DEF Dn!DnForgotten
  <2>2. \A x \in v8 : x \in v8' \/ x = r
    BY <1>3
  <2>3. QED  BY <1>0, <1>3, <2>1, <2>2 DEF Dn!DnListsLead
<1>4. ASSUME Dn!DnRead \/ Dn!DnDialog \/ Dn!DnRunJob \/ (\E d \in Sites \cup {none} : Dn!DnPick(d)) \/ \E s \in v4 : Dn!DnWrite(s)
      PROVE  Dn!DnListsLead'
  <2>1. /\ v1' = v1 /\ v11' = v11 /\ v8' = v8
        /\ v6' = v6 \/ (v7 # none /\ v6' = [v6 EXCEPT ![v7] = [read |-> "fresh", rows |-> v1[v7]]])
    BY <1>4 DEF Dn!DnRead, Dn!DnDialog, Dn!DnRunJob, Dn!DnPick, Dn!DnWrite, Dn!dnPage, Dn!dnHistory
  <2>2. v7 # none => v7 \in Sites
    BY DEF Dn!DnTypeOK
  <2>3. QED  BY <1>1, <2>1, <2>2
<1>5. ASSUME NEW kind \in {"create", "bootstrap", "delete"}, NEW row \in Nat, Dn!DnAsk(kind, row) PROVE Dn!DnListsLead'
  <2>1. /\ UNCHANGED <<v1, v6, v11>>
        /\ \A r \in v8 : \E q \in v8' : q.site = r.site /\ q.step = r.step
    BY <1>5, DnsAsks
  <2>2. QED  BY <1>1, <2>1
<1>6. ASSUME Dn!DnCreate \/ Dn!DnEnsure \/ Dn!DnBootstrap \/ \E row \in 0..MaxAsks : Dn!DnDelete(row)
      PROVE  Dn!DnListsLead'
  <2>1. \E kind \in {"create", "bootstrap", "delete"}, row \in Nat : Dn!DnAsk(kind, row)
    <3>1. v9 \in Nat
      BY DEF Dn!DnTypeOK
    <3>2. QED  BY <1>6, <3>1 DEF Dn!DnCreate, Dn!DnEnsure, Dn!DnBootstrap, Dn!DnDelete
  <2>2. QED  BY <1>5, <2>1
<1>7. ASSUME NEW r \in v8, NEW step \in {"changed", "syncing", "done"}, v8' = (v8 \ {r}) \cup {[r EXCEPT !.step = step]},
             UNCHANGED <<v6, v11>>, \A d \in Sites \ {r.site} : v1'[d] = v1[d]
      PROVE  Dn!DnListsLead'
  <2>1. PICK q : q = [r EXCEPT !.step = step]
    OBVIOUS
  <2>2. r \in Dn!DnRequest
    BY <1>0
  <2>3. q.site = r.site /\ q.step = step
    BY <2>1, <2>2 DEF Dn!DnRequest
  <2>4. q \in v8' /\ \A x \in v8 \ {r} : x \in v8'
    BY <1>7, <2>1
  <2>5. QED  BY <1>2, <1>7, <2>3, <2>4
<1>8. ASSUME NEW r \in v8, Dn!DnChanged(r) \/ Dn!DnSyncNow(r) PROVE Dn!DnListsLead'
  <2>1. \E step \in {"changed", "syncing", "done"} : v8' = (v8 \ {r}) \cup {[r EXCEPT !.step = step]}
    BY <1>8 DEF Dn!DnChanged, Dn!DnSyncNow
  <2>2. UNCHANGED <<v6, v11>>
    BY <1>8 DEF Dn!DnChanged, Dn!DnSyncNow, Dn!dnPage, Dn!dnHistory
  <2>3. \A d \in Sites \ {r.site} : v1'[d] = v1[d]
    BY <1>0, <1>8 DEF Dn!DnChanged, Dn!DnSyncNow
  <2>4. QED  BY <1>7, <2>1, <2>2, <2>3
<1>9. ASSUME NEW s \in v4, Dn!DnReload(s) \/ Dn!DnSyncFails(s) PROVE Dn!DnListsLead'
  <2>1. PICK by : by = s.by
    OBVIOUS
  <2>2. Dn!DnSynced(by) /\ UNCHANGED <<v1, v6, v11>>
    BY <1>9, <2>1 DEF Dn!DnReload, Dn!DnSyncFails, Dn!dnPage, Dn!dnHistory
  <2>3. \A r \in v8 : \E q \in v8' : q.site = r.site /\ (q.step = "sent" => r.step = "sent")
    <3>1. \A r \in v8 : r \in v8' \/ \E q \in v8' : q.site = r.site /\ q.step = "done"
      BY <2>2, DnsSynced
    <3>2. QED  BY <3>1
  <2>4. QED  BY <1>1, <2>2, <2>3
<1>10. ASSUME NEW r \in v8, Dn!DnAnswered(r) PROVE Dn!DnListsLead'
  <2>1. PICK c : c = Dn!DnSeenSite(r)
    OBVIOUS
  <2>2. /\ v8' = v8 \ {r} /\ v1' = v1 /\ v6' = Dn!DnForgotten(c)
        /\ v11' = IF c = r.site THEN v11 ELSE v11 \cup {r.site}
    BY <1>10, <2>1 DEF Dn!DnAnswered, Dn!DnForget
  <2>3. QED  BY <1>3, <2>2
<1>11. ASSUME NEW r \in v8, Dn!DnFails(r) PROVE Dn!DnListsLead'
  <2>1. /\ v8' = v8 \ {r} /\ UNCHANGED <<v1, v6>>
        /\ v11' = IF r.step = "sent" THEN v11 ELSE v11 \cup {r.site}
    BY <1>11 DEF Dn!DnFails, Dn!dnPage
  <2>2. QED  BY <1>3, <2>1
<1>12. QED  BY <1>4, <1>6, <1>8, <1>9, <1>10, <1>11 DEF Dn!DnNext

LEMMA DnsZones ==
  ASSUME Dn!DnInv, Dn!DnNext
  PROVE  Dn!DnOwnSyncs' /\ Dn!DnOneSync' /\ Dn!DnWritten' /\ Dn!DnZonesLead'
<1> DEFINE Syncs == [by : Nat \cup {Dn!DnJob}, read : Dn!DnZoneSet, left : SUBSET Sites]
           Own == \A s \in v4 : s.by < v9 /\ \A r \in v8 : r.n = s.by => r.step \in {"syncing", "done"}
           Goal == Own' /\ Dn!DnOneSync' /\ Dn!DnWritten' /\ Dn!DnZonesLead'
<1>0. /\ Dn!DnTypeOK /\ Dn!DnOwnSyncs /\ Dn!DnOneSync /\ Dn!DnWritten /\ Dn!DnZonesLead /\ Own
      /\ v8 \subseteq Dn!DnRequest /\ v9 \in Nat /\ v4 \subseteq Syncs
      /\ v1 \in Dn!DnZoneSet /\ v2 \in Dn!DnZoneSet /\ v3 \in Dn!DnZoneSet
      /\ v5 \in BOOLEAN /\ v12 \in BOOLEAN /\ v13 \in BOOLEAN
  BY DEF Dn!DnInv, Dn!DnTypeOK, Dn!DnOwnSyncs
<1>01. \A r \in v8 : r.n < v9 /\ r.n \in Nat /\ r.site \in Sites
  BY <1>0 DEF Dn!DnRequest, Dn!DnOwnSyncs
<1>02. v9' \in Nat /\ v9 <= v9' /\ v8' \subseteq Dn!DnRequest
  BY <1>0, DnsRequests
<1>03. \A s \in v4 : s.by = Dn!DnJob \/ s.by \in Nat
  BY <1>0
\* The zones and the syncs stay, and what was owed still is.
<1>1. ASSUME UNCHANGED <<v1, v2, v3, v4, v5, v12>>, v13 => v13',
             \A q \in v8' : q.n >= v9 \/ \E r \in v8 : q.n = r.n /\ q.step = r.step,
             \A r \in v8 : r.step = "changed" => v13' \/ \E q \in v8' : q.step = "changed"
      PROVE  Goal
  <2>1. Own'
    <3>1. ASSUME NEW s \in v4, NEW q \in v8', q.n = s.by PROVE q.step \in {"syncing", "done"}
      <4>1. s.by < v9 /\ s.by \in Nat
        BY <1>0, <1>03, <1>02, <3>1 DEF Dn!DnJob, Dn!DnRequest
      <4>2. ~(q.n >= v9)
        BY <1>0, <3>1, <4>1
      <4>3. QED  BY <1>0, <1>1, <3>1, <4>2
    <3>2. \A s \in v4 : s.by < v9'
      BY <1>0, <1>02, <1>03 DEF Dn!DnJob
    <3>3. QED  BY <1>1, <3>1, <3>2
  <2>2. Dn!DnOwed => Dn!DnOwed' \/ v13'
    BY <1>1 DEF Dn!DnOwed
  <2>3. QED  BY <1>0, <1>1, <2>1, <2>2 DEF Dn!DnOneSync, Dn!DnWritten, Dn!DnZonesLead
\* The records change: a sync is owed.
<1>2. ASSUME NEW r \in v8, Dn!DnChanged(r) PROVE Goal
  <2>1. PICK q : q = [r EXCEPT !.step = IF r.kind = "bootstrap" THEN "done" ELSE "changed"]
    OBVIOUS
  <2>2. r \in Dn!DnRequest /\ r.step = "sent"
    BY <1>0, <1>2 DEF Dn!DnChanged
  <2>3. q.n = r.n /\ q.step = IF r.kind = "bootstrap" THEN "done" ELSE "changed"
    BY <2>1, <2>2 DEF Dn!DnRequest
  <2>4. v8' = (v8 \ {r}) \cup {q} /\ UNCHANGED <<v2, v3, v4, v9, v12, v13>> /\ v5' = (v5 \/ r.kind = "bootstrap")
    BY <1>2, <2>1 DEF Dn!DnChanged, Dn!dnPage, Dn!dnHistory
  <2>5. Own'
    <3>1. \A s \in v4 : r.n # s.by
      BY <1>0, <2>2
    <3>2. QED  BY <1>0, <2>3, <2>4, <3>1
  <2>6. Dn!DnOwed'
    BY <2>3, <2>4 DEF Dn!DnOwed
  <2>7. QED  BY <1>0, <2>4, <2>5, <2>6 DEF Dn!DnOneSync, Dn!DnWritten, Dn!DnZonesLead
\* A sync begins, and reads the records.
<1>3. ASSUME NEW by \in Nat \cup {Dn!DnJob}, Dn!DnSync(by), UNCHANGED <<v1, v2, v3, v9, v13>>, by < v9,
             \A q \in v8' : q \in v8 \/ q.n = by,
             \A q \in v8' : q.n = by => q.step \in {"syncing", "done"}
      PROVE  Goal
  <2>1. PICK new : new = [by |-> by, read |-> v1, left |-> Sites]
    OBVIOUS
  <2>2. /\ v4' = v4 \cup {new} /\ v12' = (v12 \/ v4 # {})
        /\ new.by = by /\ new.read = v1 /\ new.left = Sites
    BY <1>3, <2>1 DEF Dn!DnSync
  <2>3. Own'
    <3>1. \A s \in v4 : \A q \in v8' : q.n = s.by => q.step \in {"syncing", "done"}
      BY <1>0, <1>3
    <3>2. QED  BY <1>0, <1>3, <2>2, <3>1
  <2>4. ~v12' => ~v12 /\ v4 = {} /\ v4' = {new}
    BY <2>2
  <2>5. QED  BY <1>3, <2>2, <2>3, <2>4 DEF Dn!DnOneSync, Dn!DnWritten, Dn!DnZonesLead
\* A sync writes a zone file.
<1>4. ASSUME NEW s \in v4, Dn!DnWrite(s) PROVE Goal
  <2>1. PICK d : d = (CHOOSE x \in s.left : TRUE)
    OBVIOUS
  <2>2. s.left \subseteq Sites /\ s.left # {} /\ s \in Syncs
    BY <1>0, <1>4 DEF Dn!DnWrite
  <2>3. d \in s.left
    BY <2>1, <2>2
  <2>4. PICK t : t = [s EXCEPT !.left = s.left \ {d}]
    OBVIOUS
  <2>5. t.by = s.by /\ t.read = s.read /\ t.left = s.left \ {d}
    BY <2>2, <2>4
  <2>6. /\ v2' = [v2 EXCEPT ![d] = s.read[d]] /\ v4' = (v4 \ {s}) \cup {t}
        /\ UNCHANGED <<v1, v3, v5, v8, v9, v12, v13>>
    BY <1>4, <2>1, <2>4 DEF Dn!DnWrite, Dn!dnHistory
  <2>7. Own'
    BY <1>0, <2>5, <2>6
  <2>8. ~v12 => v4 = {s} /\ v4' = {t}
    BY <1>0, <1>4, <2>6 DEF Dn!DnOneSync
  <2>9. Dn!DnOneSync'
    BY <2>6, <2>8 DEF Dn!DnOneSync
  <2>10. Dn!DnWritten'
    <3>1. \A e \in Sites : v2'[e] = IF e = d THEN s.read[d] ELSE v2[e]
      BY <1>0, <2>6 DEF Dn!DnZoneSet
    <3>2. ~v12 => \A e \in Sites \ s.left : v2[e] = s.read[e]
      BY <1>0, <1>4 DEF Dn!DnWritten
    <3>3. QED  BY <2>5, <2>6, <2>8, <3>1, <3>2 DEF Dn!DnWritten
  <2>11. Dn!DnZonesLead'
    <3>1. Dn!DnOwed' = Dn!DnOwed
      BY <2>6 DEF Dn!DnOwed
    <3>2. QED  BY <1>0, <2>5, <2>6, <2>8, <3>1 DEF Dn!DnZonesLead
  <2>12. QED  BY <2>7, <2>9, <2>10, <2>11
\* A sync is through: the name server has what it read; or it failed.
<1>5. ASSUME NEW s \in v4, Dn!DnReload(s) \/ Dn!DnSyncFails(s) PROVE Goal
  <2>1. PICK by : by = s.by
    OBVIOUS
  <2>2. Dn!DnSynced(by) /\ v4' = v4 \ {s} /\ UNCHANGED <<v1, v2, v9, v12>>
    BY <1>5, <2>1 DEF Dn!DnReload, Dn!DnSyncFails, Dn!dnPage, Dn!dnHistory
  <2>3. /\ \A q \in v8' : \/ q \in v8 /\ q.n # by
                          \/ \E r \in v8 : q.step = "done" /\ q.n = r.n /\ r.n = by
        /\ \A r \in v8 : r \in v8' \/ r.n = by
    BY <1>0, <2>2, DnsSynced
  <2>4. \A r \in v8 : r.step = "changed" => r \in v8'
    BY <1>0, <2>1, <2>3
  <2>5. ~v12 => v4 = {s} /\ v4' = {}
    BY <1>0, <1>5, <2>2 DEF Dn!DnOneSync
  <2>6. \A t \in v4' : t \in v4
    BY <2>2
  <2>7. Own'
    <3>1. \A t \in v4 : \A q \in v8' : q.n = t.by => q.step \in {"syncing", "done"}
      BY <1>0, <2>3
    <3>2. QED  BY <1>0, <2>2, <3>1
  <2>8. Dn!DnOneSync' /\ Dn!DnWritten'
    BY <2>2, <2>5 DEF Dn!DnOneSync, Dn!DnWritten
  <2>9. CASE Dn!DnReload(s)
    <3>1. s.left = {} /\ v3' = v2 /\ UNCHANGED <<v5, v13>>
      BY <2>9 DEF Dn!DnReload, Dn!dnHistory
    <3>2. ~v12 => v2 = s.read
      <4>1. s.read \in Dn!DnZoneSet
        BY <1>0
      <4>2. ~v12 => \A e \in Sites : v2[e] = s.read[e]
        BY <1>0, <1>5, <3>1 DEF Dn!DnWritten
      <4>3. QED  BY <1>0, <4>1, <4>2 DEF Dn!DnZoneSet
    <3>3. Dn!DnOwed => Dn!DnOwed'
      BY <2>4, <3>1 DEF Dn!DnOwed
    <3>4. Dn!DnZonesLead'
      BY <1>0, <1>5, <2>2, <2>5, <3>1, <3>2, <3>3 DEF Dn!DnZonesLead
    <3>5. QED  BY <2>7, <2>8, <3>4
  <2>10. CASE Dn!DnSyncFails(s)
    <3>1. v5' = (v5 \/ s.by # Dn!DnJob) /\ v13' = (v13 \/ s.by = Dn!DnJob)
      BY <2>10 DEF Dn!DnSyncFails, Dn!DnFallBack, Dn!DnQueueAgain
    <3>2. v13' \/ Dn!DnOwed'
      BY <3>1 DEF Dn!DnOwed
    <3>3. QED  BY <2>7, <2>8, <3>2 DEF Dn!DnZonesLead
  <2>11. QED  BY <1>5, <2>9, <2>10
<1> HIDE DEF Goal
<1>6. ASSUME Dn!DnRead \/ Dn!DnDialog \/ \E d \in Sites \cup {none} : Dn!DnPick(d) PROVE Goal
  <2>1. UNCHANGED <<v1, v2, v3, v4, v5, v8, v12, v13>>
    BY <1>6 DEF Dn!DnRead, Dn!DnDialog, Dn!DnPick, Dn!dnZones, Dn!dnHistory
  <2>2. QED  BY <1>1, <2>1
<1>7. ASSUME Dn!DnCreate \/ Dn!DnEnsure \/ Dn!DnBootstrap \/ \E row \in 0..MaxAsks : Dn!DnDelete(row)
      PROVE  Goal
  <2>1. PICK kind \in {"create", "bootstrap", "delete"}, row \in Nat : Dn!DnAsk(kind, row)
    BY <1>0, <1>7 DEF Dn!DnCreate, Dn!DnEnsure, Dn!DnBootstrap, Dn!DnDelete
  <2>2. /\ UNCHANGED <<v1, v2, v3, v4, v5, v12, v13>>
        /\ \A q \in v8' : q.n = v9 \/ \E r \in v8 : q.step = r.step /\ q.n = r.n
        /\ \A r \in v8 : \E q \in v8' : q.step = r.step
    BY <1>0, <2>1, DnsAsks
  <2>3. QED  BY <1>0, <1>1, <2>2
<1>8. ASSUME NEW r \in v8, Dn!DnSyncNow(r) PROVE Goal
  <2>1. PICK q : q = [r EXCEPT !.step = "syncing"]
    OBVIOUS
  <2>2. r \in Dn!DnRequest
    BY <1>0
  <2>3. q.n = r.n /\ q.step = "syncing"
    BY <2>1, <2>2 DEF Dn!DnRequest
  <2>4. PICK by : by = r.n
    OBVIOUS
  <2>5. v8' = (v8 \ {r}) \cup {q} /\ Dn!DnSync(by) /\ UNCHANGED <<v1, v2, v3, v9, v13>> /\ by \in Nat /\ by < v9
    BY <1>01, <1>8, <2>1, <2>4 DEF Dn!DnSyncNow, Dn!dnPage
  <2>6. \A x \in v8' : x.n = by => x = q
    BY <1>0, <2>3, <2>4, <2>5 DEF Dn!DnOwnSyncs
  <2>7. QED  BY <1>3, <2>3, <2>4, <2>5, <2>6
<1>9. ASSUME Dn!DnRunJob PROVE Goal
  <2>1. v8' = v8 /\ Dn!DnSync(Dn!DnJob) /\ UNCHANGED <<v1, v2, v3, v9, v13>> /\ Dn!DnJob < v9
    BY <1>0, <1>9 DEF Dn!DnRunJob, Dn!dnPage, Dn!DnJob
  <2>2. \A q \in v8' : q.n # Dn!DnJob
    BY <1>01, <2>1 DEF Dn!DnJob
  <2>3. QED  BY <1>3, <2>1, <2>2
<1>10. ASSUME NEW r \in v8, Dn!DnAnswered(r) \/ Dn!DnFails(r) PROVE Goal
  <2>1. /\ UNCHANGED <<v1, v2, v3, v4, v5, v12>> /\ (v13 => v13') /\ v8' = v8 \ {r}
        /\ r.step = "changed" => v13'
    BY <1>0, <1>10 DEF Dn!DnAnswered, Dn!DnFails, Dn!dnZones
  <2>2. QED  BY <1>1, <2>1
<1>11. Goal
  BY <1>2, <1>4, <1>5, <1>6, <1>7, <1>8, <1>9, <1>10 DEF Dn!DnNext
<1>12. Dn!DnOwnSyncs'
  <2>1. Own'
    BY <1>11 DEF Goal
  <2>2. (\A r, q \in v8' : r.n = q.n => r = q) /\ \A q \in v8' : q.n < v9'
    BY <1>0, DnsRequests
  <2>3. QED  BY <2>1, <2>2 DEF Dn!DnOwnSyncs
<1>13. QED  BY <1>11, <1>12 DEF Goal

LEMMA DnsStep == Dn!DnInv /\ Dn!DnNext => Dn!DnInv'
  BY DnsTypes, DnsLists, DnsZones DEF Dn!DnInv

LEMMA DnsHolds == Dn!DnInv => Dn!ZonesAreServed /\ Dn!DnsListTrue
<1> SUFFICES ASSUME Dn!DnInv PROVE Dn!ZonesAreServed /\ Dn!DnsListTrue
  OBVIOUS
<1>1. Dn!ZonesAreServed
  BY DEF Dn!DnInv, Dn!DnTypeOK, Dn!DnZonesLead, Dn!DnOwed, Dn!ZonesAreServed
<1>2. Dn!DnsListTrue
  BY DEF Dn!DnInv, Dn!DnListsLead, Dn!DnsListTrue
<1>3. QED  BY <1>1, <1>2

-----------------------------------------------------------------------------
(* The quick settings.  v1: the domain shown; v2: the files, v3: the cache,  *)
(* v4: the editor, v5: the request, v6: texts so far, v7: an answer was      *)
(* lost; v8: changes under way, v9: how many so far, v10: the version        *)
(* picked; v14: the switches, v15: as read, v16: as shown, v17: a turn       *)
(* under way, v18: an answer found another domain.                           *)

LEMMA QuickInit == Qs!QsInit => Qs!QsInv
<1> SUFFICES ASSUME Qs!QsInit PROVE Qs!QsInv
  OBVIOUS
<1>1. PICK unread : unread = Qs!QsUnread
  OBVIOUS
<1>2. unread \in Qs!QsCached /\ unread.state = "unread"
  BY <1>1 DEF Qs!QsUnread, Qs!QsCached, Qs!QsSitesOrNone
<1>3. PICK blank : blank = Qs!QsBlank
  OBVIOUS
<1>4. blank \in Qs!QsTexts /\ blank.of = none /\ ~blank.ready
  BY <1>3 DEF Qs!QsBlank, Qs!QsTexts, Qs!QsSitesOrNone
<1>5. /\ v1 = none /\ v3 = [d \in Sites |-> unread] /\ v4 = blank /\ v5 = none /\ v6 = 0 /\ v7 = FALSE
      /\ v2 \in [Sites -> {[live |-> 0, prev |-> 0], [live |-> 1, prev |-> 2]}]
  BY <1>1, <1>3 DEF Qs!QsInit
<1>6. v2 \in [Sites -> Qs!QsFileSet]
  <2>1. {[live |-> 0, prev |-> 0], [live |-> 1, prev |-> 2]} \subseteq Qs!QsFileSet
    BY DEF Qs!QsFileSet
  <2>2. QED  BY <1>5, <2>1
<1>7. v3 \in [Sites -> Qs!QsCached] /\ \A d \in Sites : v3[d].state = "unread"
  BY <1>2, <1>5
<1>8. Qs!QsEditorInv
  <2>1. v1 \in Qs!QsSitesOrNone
    BY <1>5 DEF Qs!QsSitesOrNone
  <2>2. v7 \in BOOLEAN
    BY <1>5
  <2>3. QED
    BY <1>4, <1>5, <1>6, <1>7, <2>1, <2>2 DEF Qs!QsEditorInv, Qs!QsEditorTypes, Qs!QsCacheIsOwn,
       Qs!QsEditorIsOwn, Qs!QsPostIsOwn
<1>9. Qs!QsChangeInv
  <2>1. v10 = [to |-> 0, on |-> none] /\ v8 = {} /\ v9 = 0
    BY DEF Qs!QsInit, Qs!QsNoPick
  <2>2. v10 \in [to : {0, 1}, on : Qs!QsSitesOrNone] /\ v10.to = 0
    BY <2>1 DEF Qs!QsSitesOrNone
  <2>3. QED
    BY <2>1, <2>2 DEF Qs!QsChangeInv, Qs!QsChangeTypes, Qs!QsPickIsOwn, Qs!QsIssueOnce, Qs!AppliedToOwnSite
<1>10. Qs!QsSwitchInv
  <2>1. PICK c : c = [fresh |-> FALSE, read |-> FALSE, on |-> FALSE]
    OBVIOUS
  <2>2. c \in [fresh : BOOLEAN, read : BOOLEAN, on : BOOLEAN] /\ ~c.fresh /\ ~c.read
    BY <2>1
  <2>3. /\ v15 = [d \in Sites |-> c] /\ v14 \in [Sites -> BOOLEAN] /\ v16 = FALSE
        /\ v17 = none /\ v18 = FALSE
    BY <2>1 DEF Qs!QsInit
  <2>4. Qs!QsSwitchTypes
    <3>1. v16 \in BOOLEAN /\ v18 \in BOOLEAN
      BY <2>3
    <3>2. QED  BY <2>2, <2>3, <3>1 DEF Qs!QsSwitchTypes
  <2>5. Qs!QsTurnIsSet
    BY <2>3 DEF Qs!QsTurnIsSet, Qs!QsTurnedOn
  <2>6. Qs!QsSwitchLeads
    BY <2>2, <2>3 DEF Qs!QsSwitchLeads
  <2>7. QED  BY <2>4, <2>5, <2>6 DEF Qs!QsSwitchInv
<1>11. QED  BY <1>8, <1>9, <1>10 DEF Qs!QsInv

LEMMA QuickTypes ==
  ASSUME Qs!QsInv
  PROVE  /\ v1 \in Sites \cup {none} /\ v2 \in [Sites -> Qs!QsFileSet]
         /\ v3 \in [Sites -> Qs!QsCached] /\ v4 \in Qs!QsTexts /\ (v5 # none => v5 \in Qs!QsPostSet)
         /\ v6 \in Nat /\ v7 \in BOOLEAN
         /\ v8 \subseteq Qs!QsRequests /\ v9 \in Nat
         /\ v10 \in [to : {0, 1}, on : Sites \cup {none}]
         /\ v14 \in [Sites -> BOOLEAN]
         /\ v15 \in [Sites -> [fresh : BOOLEAN, read : BOOLEAN, on : BOOLEAN]]
         /\ v16 \in BOOLEAN /\ v18 \in BOOLEAN /\ (v17 # none => v17 \in Qs!QsTurns)
         /\ Qs!QsEditorInv /\ Qs!QsChangeInv /\ Qs!QsSwitchInv
         /\ Qs!QsCacheIsOwn /\ Qs!QsEditorIsOwn /\ Qs!QsPostIsOwn
         /\ Qs!QsPickIsOwn /\ Qs!QsIssueOnce /\ Qs!AppliedToOwnSite
         /\ Qs!QsTurnIsSet /\ Qs!QsSwitchLeads
  BY DEF Qs!QsInv, Qs!QsEditorInv, Qs!QsEditorTypes, Qs!QsChangeInv, Qs!QsChangeTypes,
     Qs!QsSwitchInv, Qs!QsSwitchTypes, Qs!QsSitesOrNone

(* A part of the dialog that a step leaves alone.                            *)
LEMMA QuickEditorStays ==
  ASSUME Qs!QsInv, UNCHANGED <<v1, v2, v3, v4, v5, v6, v7>>
  PROVE  Qs!QsEditorInv'
<1>1. Qs!QsEditorTypes'
  BY QuickTypes DEF Qs!QsEditorInv, Qs!QsEditorTypes
<1>2. Qs!QsCacheIsOwn' /\ Qs!QsEditorIsOwn' /\ Qs!QsPostIsOwn'
  BY QuickTypes DEF Qs!QsCacheIsOwn, Qs!QsEditorIsOwn, Qs!QsPostIsOwn
<1>3. QED  BY <1>1, <1>2 DEF Qs!QsEditorInv

LEMMA QuickChangesStay ==
  ASSUME Qs!QsInv, UNCHANGED <<v1, v8, v10>>, v9' \in Nat
  PROVE  Qs!QsChangeInv'
<1>1. Qs!QsChangeTypes'
  BY QuickTypes DEF Qs!QsChangeInv, Qs!QsChangeTypes
<1>2. Qs!QsPickIsOwn' /\ Qs!QsIssueOnce' /\ Qs!AppliedToOwnSite'
  BY QuickTypes DEF Qs!QsPickIsOwn, Qs!QsIssueOnce, Qs!AppliedToOwnSite
<1>3. QED  BY <1>1, <1>2 DEF Qs!QsChangeInv

LEMMA QuickSwitchStays ==
  ASSUME Qs!QsInv, UNCHANGED <<v1, v14, v15, v16, v17, v18>>
  PROVE  Qs!QsSwitchInv'
<1>1. Qs!QsSwitchTypes'
  BY QuickTypes DEF Qs!QsSwitchInv, Qs!QsSwitchTypes
<1>2. Qs!QsTurnIsSet' /\ Qs!QsSwitchLeads'
  BY QuickTypes DEF Qs!QsTurnIsSet, Qs!QsSwitchLeads, Qs!QsTurnedOn
<1>3. QED  BY <1>1, <1>2 DEF Qs!QsSwitchInv

-----------------------------------------------------------------------------
(* The dialog is opened on another domain, or closed.                        *)

LEMMA QuickReset ==
  ASSUME Qs!QsInv, NEW d \in Sites \cup {none}, Qs!QsReset(d),
         UNCHANGED <<v2, v3, v5, v6, v7, v14, v15, v17, v18>>
  PROVE  Qs!QsEditorInv' /\ Qs!QsSwitchInv' /\ v1' = d
<1>1. PICK blank : blank = Qs!QsBlank
  OBVIOUS
<1>2. blank \in Qs!QsTexts /\ blank.of = none /\ ~blank.ready
  BY <1>1 DEF Qs!QsBlank, Qs!QsTexts, Qs!QsSitesOrNone
<1>3. /\ v1' = d
      /\ v4' = IF d # none /\ v3[d].state = "read"
               THEN [text |-> v3[d].live, ready |-> TRUE, typed |-> FALSE, of |-> v3[d].site]
               ELSE blank
      /\ v16' = (d # none /\ v15[d].read /\ v15[d].on)
  BY <1>1 DEF Qs!QsReset, Qs!QsKey, Qs!QsOwnKey
<1>4. v4' \in Qs!QsTexts /\ v4'.of \in {d, none} /\ (v4'.ready => v4'.of = d)
  <2>1. CASE d # none /\ v3[d].state = "read"
    <3>1. v3[d] \in Qs!QsCached /\ v3[d].site = d
      BY <2>1, QuickTypes DEF Qs!QsCacheIsOwn
    <3>2. PICK t \in Nat : t = v3[d].live
      BY <3>1 DEF Qs!QsCached
    <3>3. v4' = [text |-> t, ready |-> TRUE, typed |-> FALSE, of |-> d]
      BY <1>3, <2>1, <3>1, <3>2
    <3>4. QED  BY <3>3 DEF Qs!QsTexts, Qs!QsSitesOrNone
  <2>2. CASE ~(d # none /\ v3[d].state = "read")
    BY <1>2, <1>3, <2>2
  <2>3. QED  BY <2>1, <2>2
<1>5. Qs!QsEditorTypes'
  BY <1>3, <1>4, QuickTypes DEF Qs!QsEditorTypes, Qs!QsSitesOrNone
<1>6. Qs!QsCacheIsOwn' /\ Qs!QsEditorIsOwn' /\ Qs!QsPostIsOwn'
  BY <1>3, <1>4, QuickTypes DEF Qs!QsCacheIsOwn, Qs!QsEditorIsOwn, Qs!QsPostIsOwn
<1>7. v16' \in BOOLEAN /\ (d # none /\ v15[d].read => v16' = v15[d].on)
  <2>1. CASE d = none
    BY <1>3, <2>1
  <2>2. CASE d # none
    <3>1. v15[d] \in [fresh : BOOLEAN, read : BOOLEAN, on : BOOLEAN]
      BY <2>2, QuickTypes
    <3>2. v15[d].read \in BOOLEAN /\ v15[d].on \in BOOLEAN
      BY <3>1
    <3>3. QED  BY <1>3, <2>2, <3>2
  <2>3. QED  BY <2>1, <2>2
<1>8. Qs!QsSwitchTypes' /\ Qs!QsTurnIsSet'
  BY <1>7, QuickTypes DEF Qs!QsSwitchTypes, Qs!QsTurnIsSet, Qs!QsTurnedOn
<1>9. Qs!QsSwitchLeads'
  <2>1. CASE v18
    BY <2>1 DEF Qs!QsSwitchLeads
  <2>2. CASE ~v18
    <3>1. ASSUME NEW x \in Sites
          PROVE  v15[x].fresh => v15[x].read /\ (v15[x].on = v14[x] \/ Qs!QsTurnedOn(x))
      BY <2>2, QuickTypes DEF Qs!QsSwitchLeads
    <3>2. \A x \in Sites : Qs!QsTurnedOn(x)' <=> Qs!QsTurnedOn(x)
      BY DEF Qs!QsTurnedOn
    <3>3. \A x \in Sites : x = d /\ v15[x].read => v16' = v15[x].on
      BY <1>7, PagesAssumption
    <3>4. QED  BY <1>3, <3>1, <3>2, <3>3 DEF Qs!QsSwitchLeads
  <2>3. QED  BY <2>1, <2>2, QuickTypes
<1>10. QED
  BY <1>3, <1>5, <1>6, <1>8, <1>9 DEF Qs!QsEditorInv, Qs!QsSwitchInv

LEMMA QuickDialog ==
  ASSUME Qs!QsInv, Qs!QsDialogNext
  PROVE  Qs!QsInv'
<1>1. ASSUME NEW d \in Sites, Qs!QsOpenOn(d) PROVE Qs!QsInv'
  <2>1. /\ Qs!QsReset(d) /\ UNCHANGED <<v8, v9>> /\ v10' = [to |-> 0, on |-> none]
        /\ UNCHANGED <<v2, v3, v5, v6, v7, v14, v15, v17, v18>>
    BY <1>1 DEF Qs!QsOpenOn, Qs!QsPickReset, Qs!QsFreshPick, Qs!QsNoPick
  <2>2. Qs!QsEditorInv' /\ Qs!QsSwitchInv'
    BY <2>1, QuickReset
  <2>3. v10' \in [to : {0, 1}, on : Qs!QsSitesOrNone] /\ v10'.to = 0
    BY <2>1 DEF Qs!QsSitesOrNone
  <2>4. Qs!QsChangeTypes'
    BY <2>1, <2>3, QuickTypes DEF Qs!QsChangeTypes
  <2>5. Qs!QsPickIsOwn' /\ Qs!QsIssueOnce' /\ Qs!AppliedToOwnSite'
    BY <2>1, <2>3, QuickTypes DEF Qs!QsPickIsOwn, Qs!QsIssueOnce, Qs!AppliedToOwnSite
  <2>6. QED  BY <2>2, <2>4, <2>5 DEF Qs!QsInv, Qs!QsChangeInv
<1>2. CASE Qs!QsClose
  <2>1. /\ Qs!QsReset(none) /\ UNCHANGED <<v8, v9, v10>>
        /\ UNCHANGED <<v2, v3, v5, v6, v7, v14, v15, v17, v18>>
    BY <1>2 DEF Qs!QsClose, Qs!QsClosed
  <2>2. Qs!QsEditorInv' /\ Qs!QsSwitchInv' /\ v1' = none
    BY <2>1, QuickReset
  <2>3. Qs!QsChangeTypes'
    BY <2>1, QuickTypes DEF Qs!QsChangeInv, Qs!QsChangeTypes
  <2>4. Qs!QsPickIsOwn' /\ Qs!QsIssueOnce' /\ Qs!AppliedToOwnSite'
    BY <2>1, <2>2, QuickTypes DEF Qs!QsPickIsOwn, Qs!QsIssueOnce, Qs!AppliedToOwnSite
  <2>5. QED  BY <2>2, <2>3, <2>4 DEF Qs!QsInv, Qs!QsChangeInv
<1>3. QED  BY <1>1, <1>2 DEF Qs!QsDialogNext

-----------------------------------------------------------------------------
(* The web server file, which leaves the changes and the switches alone.     *)

LEMMA QuickEditor ==
  ASSUME Qs!QsInv, UNCHANGED <<v1, v9>>, UNCHANGED Qs!qsChangeVars, UNCHANGED Qs!qsSwitchVars,
         v2' \in [Sites -> Qs!QsFileSet], v3' \in [Sites -> Qs!QsCached], v4' \in Qs!QsTexts,
         v5' # none => v5' \in Qs!QsPostSet, v6' \in Nat, v7' \in BOOLEAN,
         \A d \in Sites : v3'[d].state = "read" => v3'[d].site = d,
         v4'.of \in {v1, none}, v4'.ready => v4'.of = v1,
         v5' # none => v5'.of \in {v5'.site, none}
  PROVE  Qs!QsInv'
<1>1. UNCHANGED <<v1, v8, v9, v10, v14, v15, v16, v17, v18>>
  BY DEF Qs!qsChangeVars, Qs!qsSwitchVars
<1>2. Qs!QsEditorTypes'
  BY <1>1, QuickTypes DEF Qs!QsEditorTypes, Qs!QsSitesOrNone
<1>3. Qs!QsCacheIsOwn' /\ Qs!QsEditorIsOwn' /\ Qs!QsPostIsOwn'
  BY <1>1 DEF Qs!QsCacheIsOwn, Qs!QsEditorIsOwn, Qs!QsPostIsOwn
<1>4. Qs!QsChangeInv' /\ Qs!QsSwitchInv'
  BY <1>1, QuickTypes, QuickChangesStay, QuickSwitchStays
<1>5. QED  BY <1>2, <1>3, <1>4 DEF Qs!QsInv, Qs!QsEditorInv

(* What the loading effect takes is of the domain shown.                     *)
LEMMA QuickLoaded ==
  ASSUME Qs!QsInv, NEW cache \in [Sites -> Qs!QsCached], NEW editor \in Qs!QsTexts,
         \A d \in Sites : cache[d].state = "read" => cache[d].site = d,
         editor.of \in {v1, none}, editor.ready => editor.of = v1
  PROVE  /\ Qs!QsLoaded(cache, editor) \in Qs!QsTexts
         /\ Qs!QsLoaded(cache, editor).of \in {v1, none}
         /\ Qs!QsLoaded(cache, editor).ready => Qs!QsLoaded(cache, editor).of = v1
<1>1. CASE v1 # none /\ cache[v1].state = "read" /\ ~editor.ready
  <2>1. v1 \in Sites /\ cache[v1] \in Qs!QsCached /\ cache[v1].site = v1
    BY <1>1, QuickTypes
  <2>2. PICK t \in Nat : t = cache[v1].live
    BY <2>1 DEF Qs!QsCached
  <2>3. PICK e : e = [text |-> t, ready |-> TRUE, typed |-> FALSE, of |-> v1]
    OBVIOUS
  <2>4. e \in Qs!QsTexts /\ e.of = v1
    BY <2>1, <2>3 DEF Qs!QsTexts, Qs!QsSitesOrNone
  <2>5. Qs!QsLoaded(cache, editor) = e
    BY <1>1, <2>1, <2>2, <2>3 DEF Qs!QsLoaded, Qs!QsKey, Qs!QsOwnKey
  <2>6. QED  BY <2>4, <2>5
<1>2. CASE ~(v1 # none /\ cache[v1].state = "read" /\ ~editor.ready)
  <2>1. Qs!QsLoaded(cache, editor) = editor
    BY <1>2 DEF Qs!QsLoaded, Qs!QsKey, Qs!QsOwnKey
  <2>2. QED  BY <2>1
<1>3. QED  BY <1>1, <1>2

LEMMA QuickUnready ==
  ASSUME Qs!QsInv
  PROVE  /\ [v4 EXCEPT !.ready = FALSE] \in Qs!QsTexts
         /\ [v4 EXCEPT !.ready = FALSE].of = v4.of /\ ~[v4 EXCEPT !.ready = FALSE].ready
  BY QuickTypes DEF Qs!QsTexts

LEMMA QuickOwn ==
  ASSUME Qs!QsInv
  PROVE  /\ \A d \in Sites : v3[d].state = "read" => v3[d].site = d
         /\ v4.of \in {v1, none} /\ (v4.ready => v4.of = v1)
         /\ v5 # none => v5.of \in {v5.site, none}
  BY QuickTypes DEF Qs!QsCacheIsOwn, Qs!QsEditorIsOwn, Qs!QsPostIsOwn

LEMMA QuickStale ==
  ASSUME Qs!QsInv, NEW d \in Sites
  PROVE  /\ Qs!QsStaleKey(d) \in [Sites -> Qs!QsCached]
         /\ \A x \in Sites : Qs!QsStaleKey(d)[x].state = "read" => Qs!QsStaleKey(d)[x].site = x
<1>1. PICK c : c = [v3[d] EXCEPT !.fresh = FALSE]
  OBVIOUS
<1>2. c \in Qs!QsCached /\ c.state = v3[d].state /\ c.site = v3[d].site
  <2>1. v3[d] \in Qs!QsCached
    BY QuickTypes
  <2>2. QED  BY <1>1, <2>1 DEF Qs!QsCached
<1>3. Qs!QsStaleKey(d) = [v3 EXCEPT ![d] = c]
  BY <1>1, QuickTypes DEF Qs!QsStaleKey, Qs!QsKey, Qs!QsOwnKey
<1>4. QED  BY <1>2, <1>3, QuickTypes, QuickOwn

LEMMA QuickReads ==
  ASSUME Qs!QsInv, Qs!QsRead \/ Qs!QsReadFails
  PROVE  Qs!QsInv'
<1>0. v1 \in Sites
  BY QuickTypes DEF Qs!QsRead, Qs!QsReadFails
<1>1. CASE Qs!QsRead
  <2>1. PICK c : c = Qs!QsAnswerOf(v1)
    OBVIOUS
  <2>2. c \in Qs!QsCached /\ c.site = v1
    <3>1. v2[v1] \in Qs!QsFileSet
      BY <1>0, QuickTypes
    <3>2. v2[v1].live \in Nat /\ v2[v1].prev \in Nat
      BY <3>1 DEF Qs!QsFileSet
    <3>3. QED  BY <1>0, <2>1, <3>2 DEF Qs!QsAnswerOf, Qs!QsCached, Qs!QsSitesOrNone
  <2>3. /\ v3' = [v3 EXCEPT ![v1] = c] /\ v4' = Qs!QsLoaded(v3', v4)
        /\ UNCHANGED <<v1, v9, v2, v5, v6, v7>> /\ UNCHANGED Qs!qsChangeVars
        /\ UNCHANGED Qs!qsSwitchVars
    BY <1>1, <2>1 DEF Qs!QsRead, Qs!QsKey, Qs!QsOwnKey
  <2>4. PICK cache : cache = v3'
    OBVIOUS
  <2>5. cache \in [Sites -> Qs!QsCached] /\ \A d \in Sites : cache[d].state = "read" => cache[d].site = d
    BY <1>0, <2>2, <2>3, <2>4, QuickTypes, QuickOwn
  <2>6. v4' \in Qs!QsTexts /\ v4'.of \in {v1, none} /\ (v4'.ready => v4'.of = v1)
    BY <2>3, <2>4, <2>5, QuickTypes, QuickOwn, QuickLoaded
  <2>7. QED  BY <2>3, <2>4, <2>5, <2>6, QuickTypes, QuickOwn, QuickEditor
<1>2. CASE Qs!QsReadFails
  <2>1. PICK c : c = [Qs!QsUnread EXCEPT !.state = "failed", !.fresh = TRUE]
    OBVIOUS
  <2>2. c \in Qs!QsCached /\ c.state = "failed"
    BY <2>1 DEF Qs!QsUnread, Qs!QsCached, Qs!QsSitesOrNone
  <2>3. /\ v3' = [v3 EXCEPT ![v1] = c]
        /\ UNCHANGED <<v1, v9, v2, v4, v5, v6, v7>> /\ UNCHANGED Qs!qsChangeVars
        /\ UNCHANGED Qs!qsSwitchVars
    BY <1>2, <2>1 DEF Qs!QsReadFails, Qs!QsKey, Qs!QsOwnKey
  <2>4. v3' \in [Sites -> Qs!QsCached] /\ \A d \in Sites : v3'[d].state = "read" => v3'[d].site = d
    BY <1>0, <2>2, <2>3, QuickTypes, QuickOwn
  <2>5. QED  BY <2>3, <2>4, QuickTypes, QuickOwn, QuickEditor
<1>3. QED  BY <1>1, <1>2

LEMMA QuickTyped ==
  ASSUME Qs!QsInv, Qs!QsType
  PROVE  Qs!QsInv'
<1>0. v1 \in Sites
  BY QuickTypes DEF Qs!QsType, Qs!QsEditing
<1>1. PICK n : n = v6 + 1
  OBVIOUS
<1>2. PICK of : of = IF v4.ready THEN v4.of ELSE v1
  OBVIOUS
<1>3. of = v1
  BY <1>2, QuickOwn
<1>4. PICK e : e = [v4 EXCEPT !.text = n + 2, !.typed = TRUE, !.of = v1]
  OBVIOUS
<1>5. n \in Nat /\ n + 2 \in Nat
  BY <1>1, QuickTypes
<1>6. e \in Qs!QsTexts /\ e.of = v1
  BY <1>0, <1>4, <1>5, QuickTypes DEF Qs!QsTexts, Qs!QsSitesOrNone
<1>7. /\ v6' = n /\ v4' = e /\ UNCHANGED <<v1, v9, v2, v3, v5, v7>>
      /\ UNCHANGED Qs!qsChangeVars /\ UNCHANGED Qs!qsSwitchVars
  <2>1. v6' = n
    BY <1>1 DEF Qs!QsType
  <2>2. v4' = [v4 EXCEPT !.text = n + 2, !.typed = TRUE, !.of = IF v4.ready THEN v4.of ELSE v1]
    BY <2>1 DEF Qs!QsType
  <2>3. QED  BY <1>2, <1>3, <1>4, <2>1, <2>2 DEF Qs!QsType
<1>8. QED  BY <1>5, <1>6, <1>7, QuickTypes, QuickOwn, QuickEditor

LEMMA QuickPosted ==
  ASSUME Qs!QsInv, Qs!QsSave \/ Qs!QsRevert \/ Qs!QsRegenerate
  PROVE  Qs!QsInv'
<1>0. v1 \in Sites
  BY QuickTypes DEF Qs!QsSave, Qs!QsRevert, Qs!QsRegenerate, Qs!QsEditing
<1>1. PICK kind \in {"save", "revert", "regenerate"} : Qs!QsPosts(kind)
  BY DEF Qs!QsSave, Qs!QsRevert, Qs!QsRegenerate
<1>2. PICK p : p = [kind |-> kind, site |-> v1, text |-> v4.text, of |-> v4.of, done |-> FALSE]
  OBVIOUS
<1>3. v4.text \in Nat /\ v4.of \in Qs!QsSitesOrNone
  BY QuickTypes DEF Qs!QsTexts
<1>4. p \in Qs!QsPostSet /\ p.of = v4.of /\ p.site = v1
  BY <1>0, <1>2, <1>3 DEF Qs!QsPostSet
<1>5. /\ v5' = p /\ UNCHANGED <<v1, v9, v2, v3, v4, v6, v7>>
      /\ UNCHANGED Qs!qsChangeVars /\ UNCHANGED Qs!qsSwitchVars
  BY <1>1, <1>2 DEF Qs!QsPosts
<1>6. QED  BY <1>4, <1>5, QuickTypes, QuickOwn, QuickEditor

LEMMA QuickServed ==
  ASSUME Qs!QsInv, Qs!QsCarriedOut
  PROVE  Qs!QsInv'
<1>0. v5 # none /\ v5 \in Qs!QsPostSet /\ v5.site \in Sites
  BY QuickTypes DEF Qs!QsCarriedOut, Qs!QsPostSet
<1>1. PICK f : f = Qs!QsFiles(v2[v5.site], v5)
  OBVIOUS
<1>2. f \in Qs!QsFileSet
  <2>1. PICK g : g = v2[v5.site]
    OBVIOUS
  <2>2. g \in Qs!QsFileSet /\ g.live \in Nat /\ g.prev \in Nat
    BY <1>0, <2>1, QuickTypes DEF Qs!QsFileSet
  <2>3. CASE v5.kind = "save"
    <3>1. PICK p : p = IF g.live = 0 THEN g.prev ELSE g.live
      OBVIOUS
    <3>2. f = [live |-> v5.text, prev |-> p] /\ p \in Nat /\ v5.text \in Nat
      BY <1>0, <1>1, <2>1, <2>2, <2>3, <3>1 DEF Qs!QsFiles, Qs!QsPostSet
    <3>3. QED  BY <3>2 DEF Qs!QsFileSet
  <2>4. CASE v5.kind = "revert"
    BY <1>1, <2>1, <2>2, <2>4 DEF Qs!QsFiles, Qs!QsFileSet
  <2>5. CASE v5.kind = "regenerate"
    <3>1. f = [g EXCEPT !.live = IF g.live = 0 THEN 1 ELSE g.live]
      BY <1>1, <2>1, <2>5 DEF Qs!QsFiles
    <3>2. QED  BY <2>2, <3>1 DEF Qs!QsFileSet
  <2>6. QED  BY <1>0, <2>3, <2>4, <2>5 DEF Qs!QsPostSet
<1>3. PICK p : p = [v5 EXCEPT !.done = TRUE]
  OBVIOUS
<1>4. p \in Qs!QsPostSet /\ p.of = v5.of /\ p.site = v5.site
  BY <1>0, <1>3 DEF Qs!QsPostSet
<1>5. /\ v2' = [v2 EXCEPT ![v5.site] = f] /\ v5' = p /\ UNCHANGED <<v1, v9, v3, v4, v6, v7>>
      /\ UNCHANGED Qs!qsChangeVars /\ UNCHANGED Qs!qsSwitchVars
  BY <1>1, <1>3 DEF Qs!QsCarriedOut
<1>6. v2' \in [Sites -> Qs!QsFileSet]
  BY <1>2, <1>5, QuickTypes
<1>7. QED  BY <1>0, <1>4, <1>5, <1>6, QuickTypes, QuickOwn, QuickEditor

LEMMA QuickHeard ==
  ASSUME Qs!QsInv, Qs!QsPostAnswered \/ Qs!QsPostFails \/ Qs!QsReload
  PROVE  Qs!QsInv'
<1>1. CASE Qs!QsPostFails
  <2>1. /\ v5' = none /\ v7' = (v7 \/ v5.done) /\ UNCHANGED <<v1, v9, v2, v3, v4, v6>>
        /\ UNCHANGED Qs!qsChangeVars /\ UNCHANGED Qs!qsSwitchVars
    BY <1>1 DEF Qs!QsPostFails
  <2>2. v7' \in BOOLEAN
    BY <2>1
  <2>3. QED  BY <2>1, <2>2, QuickTypes, QuickOwn, QuickEditor
<1>2. ASSUME v3' \in {v3, Qs!QsStaleKey(v1)}, v3' = v3 \/ v1 \in Sites,
             v4' = Qs!QsLoaded(v3', [v4 EXCEPT !.ready = FALSE]), v5' \in {v5, none},
             UNCHANGED <<v1, v9, v2, v6, v7>>,
             UNCHANGED Qs!qsChangeVars, UNCHANGED Qs!qsSwitchVars
      PROVE  Qs!QsInv'
  <2>1. PICK cache : cache = v3'
    OBVIOUS
  <2>2. cache \in [Sites -> Qs!QsCached] /\ \A d \in Sites : cache[d].state = "read" => cache[d].site = d
    <3>1. CASE v3' = v3
      BY <2>1, <3>1, QuickTypes, QuickOwn
    <3>2. CASE v3' = Qs!QsStaleKey(v1) /\ v1 \in Sites
      BY <2>1, <3>2, QuickStale
    <3>3. QED  BY <1>2, <3>1, <3>2
  <2>3. PICK editor : editor = [v4 EXCEPT !.ready = FALSE]
    OBVIOUS
  <2>4. editor \in Qs!QsTexts /\ editor.of \in {v1, none} /\ ~editor.ready
    BY <2>3, QuickUnready, QuickOwn
  <2>5. v4' = Qs!QsLoaded(cache, editor)
    BY <1>2, <2>1, <2>3
  <2>6. v4' \in Qs!QsTexts /\ v4'.of \in {v1, none} /\ (v4'.ready => v4'.of = v1)
    BY <2>2, <2>4, <2>5, QuickLoaded
  <2>7. QED  BY <1>2, <2>1, <2>2, <2>6, QuickTypes, QuickOwn, QuickEditor
<1>3. CASE Qs!QsPostAnswered
  <2>1. v3' \in {v3, Qs!QsStaleKey(v1)} /\ (v3' = v3 \/ v1 \in Sites)
    BY <1>3, QuickTypes DEF Qs!QsPostAnswered
  <2>2. QED  BY <1>2, <1>3, <2>1 DEF Qs!QsPostAnswered
<1>4. CASE Qs!QsReload
  BY <1>2, <1>4, QuickTypes DEF Qs!QsReload
<1>5. QED  BY <1>1, <1>3, <1>4

-----------------------------------------------------------------------------
(* The changes, which leave the file and the switches alone.                 *)

LEMMA QuickFewer ==
  ASSUME Qs!QsInv, v8' \subseteq v8, v9' \in Nat, v10' = v10, v1' \in {v1, none}
  PROVE  Qs!QsChangeInv'
<1>1. Qs!QsChangeTypes'
  BY QuickTypes DEF Qs!QsChangeInv, Qs!QsChangeTypes
<1>2. Qs!QsPickIsOwn' /\ Qs!QsIssueOnce' /\ Qs!AppliedToOwnSite'
  BY QuickTypes DEF Qs!QsPickIsOwn, Qs!QsIssueOnce, Qs!AppliedToOwnSite
<1>3. QED  BY <1>1, <1>2 DEF Qs!QsChangeInv

LEMMA QuickRest ==
  ASSUME Qs!QsInv, v1' = v1, UNCHANGED Qs!qsEditorVars, UNCHANGED Qs!qsSwitchVars
  PROVE  Qs!QsEditorInv' /\ Qs!QsSwitchInv'
  BY QuickEditorStays, QuickSwitchStays DEF Qs!qsEditorVars, Qs!qsSwitchVars

LEMMA QuickAsk ==
  ASSUME Qs!QsInv, NEW kind \in {"php", "status", "ssl"}, NEW to \in {0, 1}, NEW for,
         Qs!QsAsk(kind, to, for), for = v1, kind = "ssl" => ~Qs!QsPending("ssl"),
         UNCHANGED <<v1, v10>>
  PROVE  Qs!QsChangeInv'
<1>1. PICK e : e = [kind |-> kind, site |-> v1, to |-> to, for |-> v1, here |-> TRUE, n |-> v9]
  OBVIOUS
<1>2. v1 \in Sites /\ v9 \in Nat
  BY QuickTypes DEF Qs!QsAsk
<1>3. e \in Qs!QsRequests /\ e.for = e.site /\ e.kind = kind /\ e.here
  BY <1>1, <1>2 DEF Qs!QsRequests, Qs!QsSitesOrNone
<1>4. v8' = v8 \cup {e} /\ v9' = v9 + 1
  BY <1>1 DEF Qs!QsAsk
<1>5. Qs!QsChangeTypes'
  BY <1>2, <1>3, <1>4, QuickTypes DEF Qs!QsChangeTypes, Qs!QsSitesOrNone
<1>6. Qs!QsPickIsOwn' /\ Qs!AppliedToOwnSite'
  BY <1>3, <1>4, QuickTypes DEF Qs!QsPickIsOwn, Qs!AppliedToOwnSite
<1>7. Qs!QsIssueOnce'
  <2>1. ASSUME NEW r \in v8 \cup {e}, NEW q \in v8 \cup {e}, r.here, q.here,
               r.kind = "ssl", q.kind = "ssl"
        PROVE  r = q
    <3>1. CASE e.kind = "ssl"
      <4>1. \A x \in v8 : ~(x.here /\ x.kind = "ssl")
        BY <1>3, <3>1 DEF Qs!QsPending
      <4>2. QED  BY <2>1, <4>1
    <3>2. CASE e.kind # "ssl"
      BY <2>1, <3>2, QuickTypes DEF Qs!QsIssueOnce
    <3>3. QED  BY <3>1, <3>2
  <2>2. QED  BY <1>4, <2>1 DEF Qs!QsIssueOnce
<1>8. QED  BY <1>5, <1>6, <1>7 DEF Qs!QsChangeInv

LEMMA QuickAsks ==
  ASSUME Qs!QsInv, Qs!QsPickPhp \/ Qs!QsApply \/ Qs!QsSetStatus \/ Qs!QsIssue
  PROVE  Qs!QsInv'
<1>0. Qs!QsEditorInv' /\ Qs!QsSwitchInv'
  <2>1. v1' = v1 /\ UNCHANGED Qs!qsEditorVars /\ UNCHANGED Qs!qsSwitchVars
    BY DEF Qs!QsPickPhp, Qs!QsApply, Qs!QsSetStatus, Qs!QsIssue
  <2>2. QED  BY <2>1, QuickRest
<1>1. CASE Qs!QsPickPhp
  <2>1. PICK p : p = [to |-> 1, on |-> v1]
    OBVIOUS
  <2>2. v1 \in Sites
    BY <1>1, QuickTypes DEF Qs!QsPickPhp
  <2>3. p \in [to : {0, 1}, on : Qs!QsSitesOrNone] /\ p.on = v1
    BY <2>1, <2>2 DEF Qs!QsSitesOrNone
  <2>4. v10' = p /\ UNCHANGED <<v1, v8, v9>>
    BY <1>1, <2>1 DEF Qs!QsPickPhp
  <2>5. Qs!QsChangeTypes'
    BY <2>3, <2>4, QuickTypes DEF Qs!QsChangeTypes, Qs!QsChangeInv
  <2>6. Qs!QsPickIsOwn' /\ Qs!QsIssueOnce' /\ Qs!AppliedToOwnSite'
    BY <2>3, <2>4, QuickTypes DEF Qs!QsPickIsOwn, Qs!QsIssueOnce, Qs!AppliedToOwnSite
  <2>7. QED  BY <1>0, <2>5, <2>6 DEF Qs!QsInv, Qs!QsChangeInv
<1>2. CASE Qs!QsApply
  <2>1. v10.to # 0 /\ v1 # none /\ Qs!QsAsk("php", v10.to, v10.on) /\ UNCHANGED <<v1, v10>>
    BY <1>2 DEF Qs!QsApply, Qs!QsAsk
  <2>2. v10.to \in {0, 1} /\ v10.on = v1
    BY <2>1, QuickTypes DEF Qs!QsPickIsOwn
  <2>3. QED  BY <1>0, <2>1, <2>2, QuickAsk DEF Qs!QsInv
<1>3. CASE Qs!QsSetStatus
  BY <1>0, <1>3, QuickAsk DEF Qs!QsSetStatus, Qs!QsInv
<1>4. CASE Qs!QsIssue
  BY <1>0, <1>4, QuickAsk DEF Qs!QsIssue, Qs!QsIssueBusy, Qs!QsInv
<1>5. QED  BY <1>1, <1>2, <1>3, <1>4

(* Closing, as a success does, and leaving the page.                         *)
LEMMA QuickCloses ==
  ASSUME Qs!QsInv, Qs!QsClosed, v8' \subseteq v8, v9' = v9
  PROVE  Qs!QsInv'
<1>1. /\ Qs!QsReset(none) /\ v10' = v10
      /\ UNCHANGED <<v2, v3, v5, v6, v7, v14, v15, v17, v18>>
  BY DEF Qs!QsClosed
<1>2. Qs!QsEditorInv' /\ Qs!QsSwitchInv' /\ v1' = none
  BY <1>1, QuickReset
<1>3. Qs!QsChangeInv'
  BY <1>1, <1>2, QuickTypes, QuickFewer
<1>4. QED  BY <1>2, <1>3 DEF Qs!QsInv

LEMMA QuickLeaves ==
  ASSUME Qs!QsInv, Qs!QsLeave
  PROVE  Qs!QsInv'
<1>1. /\ Qs!QsReset(none) /\ UNCHANGED <<v9, v10>>
      /\ UNCHANGED <<v2, v3, v5, v6, v7, v14, v15, v17, v18>>
      /\ v8' = {[r EXCEPT !.here = FALSE] : r \in v8}
  BY DEF Qs!QsLeave, Qs!QsClosed
<1>2. Qs!QsEditorInv' /\ Qs!QsSwitchInv' /\ v1' = none
  BY <1>1, QuickReset
<1>3. ASSUME NEW q \in v8' PROVE q \in Qs!QsRequests /\ ~q.here /\ q.for = q.site
  <2>1. PICK r \in v8 : q = [r EXCEPT !.here = FALSE]
    BY <1>1, <1>3
  <2>2. r \in Qs!QsRequests /\ r.for = r.site
    BY <2>1, QuickTypes DEF Qs!AppliedToOwnSite
  <2>3. QED  BY <2>1, <2>2 DEF Qs!QsRequests
<1>4. Qs!QsChangeTypes'
  BY <1>1, <1>3, QuickTypes DEF Qs!QsChangeTypes, Qs!QsChangeInv
<1>5. Qs!QsPickIsOwn' /\ Qs!QsIssueOnce' /\ Qs!AppliedToOwnSite'
  BY <1>2, <1>3 DEF Qs!QsPickIsOwn, Qs!QsIssueOnce, Qs!AppliedToOwnSite
<1>6. QED  BY <1>2, <1>4, <1>5 DEF Qs!QsInv, Qs!QsChangeInv

LEMMA QuickAnswered ==
  ASSUME Qs!QsInv,
         Qs!QsTimer \/ \E r \in v8 : Qs!QsChanged(r) \/ Qs!QsIssued(r) \/ Qs!QsChangeFails(r)
  PROVE  Qs!QsInv'
<1>0. ASSUME v8' \subseteq v8, UNCHANGED <<v1, v9, v10>>, UNCHANGED Qs!qsEditorVars,
             UNCHANGED Qs!qsSwitchVars
      PROVE  Qs!QsInv'
  <2>1. Qs!QsEditorInv' /\ Qs!QsSwitchInv'
    BY <1>0, QuickRest
  <2>2. Qs!QsChangeInv'
    BY <1>0, QuickTypes, QuickFewer
  <2>3. QED  BY <2>1, <2>2 DEF Qs!QsInv
<1>1. CASE Qs!QsTimer
  BY <1>1, QuickCloses DEF Qs!QsTimer
<1>2. ASSUME NEW r \in v8, Qs!QsChanged(r) PROVE Qs!QsInv'
  <2>1. v8' \subseteq v8 /\ v9' = v9
    BY <1>2 DEF Qs!QsChanged
  <2>2. CASE Qs!QsClosed
    BY <2>1, <2>2, QuickCloses
  <2>3. CASE ~Qs!QsClosed
    <3>1. /\ UNCHANGED <<v1, v10>> /\ UNCHANGED Qs!qsEditorVars
          /\ UNCHANGED Qs!qsSwitchVars
      BY <1>2, <2>3 DEF Qs!QsChanged
    <3>2. QED  BY <1>0, <2>1, <3>1
  <2>4. QED  BY <2>2, <2>3
<1>3. ASSUME NEW r \in v8, Qs!QsIssued(r) \/ Qs!QsChangeFails(r) PROVE Qs!QsInv'
  <2>1. /\ v8' \subseteq v8 /\ UNCHANGED <<v1, v9, v10>> /\ UNCHANGED Qs!qsEditorVars
        /\ UNCHANGED Qs!qsSwitchVars
    BY <1>3 DEF Qs!QsIssued, Qs!QsChangeFails
  <2>2. QED  BY <1>0, <2>1
<1>4. QED  BY <1>1, <1>2, <1>3

-----------------------------------------------------------------------------
(* The switches, which leave the file and the changes alone.                 *)

LEMMA QuickOther ==
  ASSUME Qs!QsInv, v1' = v1, v9' \in Nat, UNCHANGED Qs!qsEditorVars, UNCHANGED Qs!qsChangeVars
  PROVE  Qs!QsEditorInv' /\ Qs!QsChangeInv'
  BY QuickEditorStays, QuickChangesStay DEF Qs!qsEditorVars, Qs!qsChangeVars

LEMMA QuickLed ==
  ASSUME Qs!QsInv, ~v18, NEW d \in Sites
  PROVE  /\ v15[d].fresh => v15[d].read /\ (v15[d].on = v14[d] \/ Qs!QsTurnedOn(d))
         /\ d = v1 /\ v15[d].read /\ ~Qs!QsTurnedOn(d) =>
                v16 = v15[d].on \/ (~v15[d].fresh /\ v16 = v14[d])
  BY QuickTypes DEF Qs!QsSwitchLeads

LEMMA QuickReadSwitch ==
  ASSUME Qs!QsInv, Qs!QsReadSwitch
  PROVE  Qs!QsInv'
<1>0. v1 \in Sites /\ v14[v1] \in BOOLEAN
  BY QuickTypes DEF Qs!QsReadSwitch
<1>1. PICK c : c = [fresh |-> TRUE, read |-> TRUE, on |-> v14[v1]]
  OBVIOUS
<1>2. c \in [fresh : BOOLEAN, read : BOOLEAN, on : BOOLEAN] /\ c.fresh /\ c.read /\ c.on = v14[v1]
  BY <1>0, <1>1
<1>3. /\ v15' = [v15 EXCEPT ![v1] = c] /\ UNCHANGED <<v1, v9, v14, v17, v18>>
      /\ v16' = IF v15[v1].read /\ v15[v1].on = v14[v1] THEN v16 ELSE v14[v1]
  BY <1>1 DEF Qs!QsReadSwitch
<1>4. Qs!QsEditorInv' /\ Qs!QsChangeInv'
  BY QuickOther, QuickTypes DEF Qs!QsReadSwitch
<1>5. v16' \in {v16, v14[v1]}
  BY <1>3
<1>6. Qs!QsSwitchTypes'
  BY <1>0, <1>2, <1>3, <1>5, QuickTypes DEF Qs!QsSwitchTypes
<1>7. \A d \in Sites : Qs!QsTurnedOn(d)' <=> Qs!QsTurnedOn(d)
  BY <1>3 DEF Qs!QsTurnedOn
<1>8. Qs!QsTurnIsSet'
  BY <1>3, <1>7, QuickTypes DEF Qs!QsTurnIsSet
<1>9. Qs!QsSwitchLeads'
  <2>1. CASE v18
    BY <1>3, <2>1 DEF Qs!QsSwitchLeads
  <2>2. CASE ~v18
    <3>1. ASSUME NEW d \in Sites
          PROVE  /\ v15'[d].fresh => v15'[d].read /\ (v15'[d].on = v14[d] \/ Qs!QsTurnedOn(d))
                 /\ d = v1 /\ v15'[d].read /\ ~Qs!QsTurnedOn(d) =>
                        v16' = v15'[d].on \/ (~v15'[d].fresh /\ v16' = v14[d])
      <4>1. CASE d = v1
        <5>1. v15'[d] = c
          BY <1>0, <1>3, <4>1, QuickTypes
        <5>2. ~Qs!QsTurnedOn(d) => v16' = v14[d]
          BY <1>3, <2>2, <4>1, QuickLed
        <5>3. QED  BY <1>2, <4>1, <5>1, <5>2
      <4>2. CASE d # v1
        <5>1. v15'[d] = v15[d]
          BY <1>3, <4>2, QuickTypes
        <5>2. QED  BY <2>2, <4>2, <5>1, QuickLed
      <4>3. QED  BY <4>1, <4>2
    <3>2. QED  BY <1>3, <1>7, <3>1 DEF Qs!QsSwitchLeads
  <2>3. QED  BY <2>1, <2>2, QuickTypes
<1>10. QED  BY <1>4, <1>6, <1>8, <1>9 DEF Qs!QsInv, Qs!QsSwitchInv

LEMMA QuickTurn ==
  ASSUME Qs!QsInv, NEW on \in BOOLEAN, Qs!QsTurn(on)
  PROVE  Qs!QsInv'
<1>0. v1 \in Sites
  BY QuickTypes DEF Qs!QsTurn
<1>1. PICK t : t = [site |-> v1, on |-> on, done |-> FALSE]
  OBVIOUS
<1>2. t \in Qs!QsTurns /\ ~t.done
  BY <1>0, <1>1 DEF Qs!QsTurns
<1>3. v17 = none /\ v17' = t /\ UNCHANGED <<v1, v14, v15, v16, v18>> /\ v9' = v9 + 1
  BY <1>1 DEF Qs!QsTurn
<1>4. Qs!QsEditorInv' /\ Qs!QsChangeInv'
  BY <1>3, QuickOther, QuickTypes DEF Qs!QsTurn
<1>5. Qs!QsSwitchTypes'
  BY <1>2, <1>3, QuickTypes DEF Qs!QsSwitchTypes
<1>6. \A d \in Sites : ~Qs!QsTurnedOn(d)' /\ ~Qs!QsTurnedOn(d)
  BY <1>2, <1>3 DEF Qs!QsTurnedOn
<1>7. Qs!QsTurnIsSet'
  BY <1>6 DEF Qs!QsTurnIsSet
<1>8. Qs!QsSwitchLeads'
  BY <1>3, <1>6, QuickTypes DEF Qs!QsSwitchLeads
<1>9. QED  BY <1>4, <1>5, <1>7, <1>8 DEF Qs!QsInv, Qs!QsSwitchInv

LEMMA QuickTurned ==
  ASSUME Qs!QsInv, Qs!QsTurned
  PROVE  Qs!QsInv'
<1>0. v17 # none /\ v17 \in Qs!QsTurns /\ v17.site \in Sites /\ v17.on \in BOOLEAN /\ ~v17.done
  BY QuickTypes DEF Qs!QsTurned, Qs!QsTurns
<1>1. PICK t : t = [v17 EXCEPT !.done = TRUE]
  OBVIOUS
<1>2. t \in Qs!QsTurns /\ t.site = v17.site /\ t.on = v17.on /\ t.done
  BY <1>0, <1>1 DEF Qs!QsTurns
<1>3. /\ v14' = [v14 EXCEPT ![v17.site] = v17.on] /\ v17' = t
      /\ UNCHANGED <<v1, v9, v15, v16, v18>>
  BY <1>1 DEF Qs!QsTurned
<1>4. Qs!QsEditorInv' /\ Qs!QsChangeInv'
  BY <1>3, QuickOther, QuickTypes DEF Qs!QsTurned
<1>5. Qs!QsSwitchTypes'
  BY <1>0, <1>2, <1>3, QuickTypes DEF Qs!QsSwitchTypes
<1>6. \A d \in Sites : ~Qs!QsTurnedOn(d) /\ (Qs!QsTurnedOn(d)' => d = v17.site)
  BY <1>0, <1>2, <1>3 DEF Qs!QsTurnedOn
<1>7. v17 # none /\ t # none
  BY <1>0, <1>2, PagesAssumption DEF Qs!QsTurns
<1>8. \A d \in Sites : d = v17.site => Qs!QsTurnedOn(d)'
  BY <1>2, <1>3, <1>7 DEF Qs!QsTurnedOn
<1>9. v14'[v17.site] = v17.on /\ \A d \in Sites : d # v17.site => v14'[d] = v14[d]
  BY <1>0, <1>3, QuickTypes
<1>10. Qs!QsTurnIsSet'
  BY <1>2, <1>3, <1>6, <1>9 DEF Qs!QsTurnIsSet
<1>11. Qs!QsSwitchLeads'
  <2>1. CASE v18
    BY <1>3, <2>1 DEF Qs!QsSwitchLeads
  <2>2. CASE ~v18
    <3>1. ASSUME NEW d \in Sites
          PROVE  /\ v15[d].fresh => v15[d].read /\ (v15[d].on = v14'[d] \/ d = v17.site)
                 /\ d = v1 /\ v15[d].read /\ d # v17.site =>
                        v16 = v15[d].on \/ (~v15[d].fresh /\ v16 = v14'[d])
      BY <1>6, <1>9, <2>2, QuickLed
    <3>2. \A d \in Sites : d = v17.site <=> Qs!QsTurnedOn(d)'
      BY <1>6, <1>8
    <3>3. QED  BY <1>3, <3>1, <3>2 DEF Qs!QsSwitchLeads
  <2>3. QED  BY <2>1, <2>2, QuickTypes
<1>12. QED  BY <1>4, <1>5, <1>10, <1>11 DEF Qs!QsInv, Qs!QsSwitchInv

LEMMA QuickTurnEnds ==
  ASSUME Qs!QsInv, Qs!QsTurnAnswered \/ Qs!QsTurnFails
  PROVE  Qs!QsInv'
<1>0. v17 # none /\ v17 \in Qs!QsTurns
  BY QuickTypes DEF Qs!QsTurnAnswered, Qs!QsTurnFails
<1>1. Qs!QsEditorInv' /\ Qs!QsChangeInv'
  BY QuickOther, QuickTypes DEF Qs!QsTurnAnswered, Qs!QsTurnFails
<1>2. v17' = none /\ UNCHANGED <<v1, v14>>
  BY DEF Qs!QsTurnAnswered, Qs!QsTurnFails
<1>3. \A d \in Sites : ~Qs!QsTurnedOn(d)'
  BY <1>2 DEF Qs!QsTurnedOn
<1>4. Qs!QsTurnIsSet'
  BY <1>3 DEF Qs!QsTurnIsSet
<1>5. CASE Qs!QsTurnFails
  <2>1. UNCHANGED <<v15, v16>> /\ v18' = (v18 \/ v17.done)
    BY <1>5 DEF Qs!QsTurnFails
  <2>2. v18' \in BOOLEAN
    BY <2>1
  <2>3. Qs!QsSwitchTypes'
    BY <1>2, <2>1, <2>2, QuickTypes DEF Qs!QsSwitchTypes
  <2>4. Qs!QsSwitchLeads'
    <3>1. CASE v18'
      BY <3>1 DEF Qs!QsSwitchLeads
    <3>2. CASE ~v18'
      <4>1. ~v18 /\ ~v17.done
        BY <2>1, <3>2, QuickTypes
      <4>2. \A d \in Sites : ~Qs!QsTurnedOn(d)
        BY <4>1 DEF Qs!QsTurnedOn
      <4>3. QED  BY <1>2, <1>3, <2>1, <4>1, <4>2, QuickLed DEF Qs!QsSwitchLeads
    <3>3. QED  BY <3>1, <3>2, <2>2
  <2>5. QED  BY <1>1, <1>4, <2>3, <2>4 DEF Qs!QsInv, Qs!QsSwitchInv
<1>6. CASE Qs!QsTurnAnswered
  <2>1. /\ v17.done /\ v16' = v17.on /\ v18' = (v18 \/ v1 # v17.site)
        /\ IF v1 = none THEN v15' = v15 ELSE v15' = [v15 EXCEPT ![v1].fresh = FALSE]
    BY <1>6 DEF Qs!QsTurnAnswered, Qs!QsSwitchStale, Qs!QsAskedAgain
  <2>2. v18' \in BOOLEAN /\ v17.site \in Sites /\ v17.on \in BOOLEAN
    BY <1>0, <2>1 DEF Qs!QsTurns
  <2>3. /\ v15' \in [Sites -> [fresh : BOOLEAN, read : BOOLEAN, on : BOOLEAN]]
        /\ \A d \in Sites : d # v1 => v15'[d] = v15[d]
        /\ v1 \in Sites => ~v15'[v1].fresh
    <3>1. CASE v1 = none
      BY <2>1, <3>1, QuickTypes, PagesAssumption
    <3>2. CASE v1 # none
      <4>1. PICK c : c = [v15[v1] EXCEPT !.fresh = FALSE]
        OBVIOUS
      <4>2. v1 \in Sites /\ v15[v1] \in [fresh : BOOLEAN, read : BOOLEAN, on : BOOLEAN]
        BY <3>2, QuickTypes
      <4>3. c \in [fresh : BOOLEAN, read : BOOLEAN, on : BOOLEAN] /\ ~c.fresh
        BY <4>1, <4>2
      <4>4. v15' = [v15 EXCEPT ![v1] = c]
        BY <2>1, <3>2, <4>1
      <4>5. QED  BY <4>2, <4>3, <4>4, QuickTypes
    <3>3. QED  BY <3>1, <3>2
  <2>4. Qs!QsSwitchTypes'
    BY <1>2, <2>1, <2>2, <2>3, QuickTypes DEF Qs!QsSwitchTypes
  <2>5. Qs!QsSwitchLeads'
    <3>1. CASE v18'
      BY <3>1 DEF Qs!QsSwitchLeads
    <3>2. CASE ~v18'
      <4>1. ~v18 /\ v1 = v17.site
        BY <2>1, <3>2, QuickTypes
      <4>2. v14[v1] = v17.on
        BY <1>0, <2>1, <2>2, <4>1, QuickTypes DEF Qs!QsTurnIsSet, Qs!QsTurnedOn
      <4>3. \A d \in Sites : d # v1 => ~Qs!QsTurnedOn(d)
        BY <4>1 DEF Qs!QsTurnedOn
      <4>4. ASSUME NEW d \in Sites
            PROVE  /\ v15'[d].fresh => v15'[d].read /\ v15'[d].on = v14[d]
                   /\ d = v1 => ~v15'[d].fresh /\ v16' = v14[d]
        <5>1. CASE d = v1
          BY <2>1, <2>3, <4>2, <5>1
        <5>2. CASE d # v1
          BY <2>3, <4>1, <4>3, <5>2, QuickLed
        <5>3. QED  BY <5>1, <5>2
      <4>5. QED  BY <1>2, <4>4 DEF Qs!QsSwitchLeads
    <3>3. QED  BY <3>1, <3>2, <2>2
  <2>6. QED  BY <1>1, <1>4, <2>4, <2>5 DEF Qs!QsInv, Qs!QsSwitchInv
<1>7. QED  BY <1>5, <1>6

LEMMA QuickStep ==
  Qs!QsInv /\ (Qs!QsEditorNext \/ Qs!QsChangeNext \/ Qs!QsSwitchNext) => Qs!QsInv'
<1> SUFFICES ASSUME Qs!QsInv, Qs!QsEditorNext \/ Qs!QsChangeNext \/ Qs!QsSwitchNext
             PROVE  Qs!QsInv'
  OBVIOUS
<1>1. CASE Qs!QsEditorNext
  BY <1>1, QuickDialog, QuickReads, QuickTyped, QuickPosted, QuickServed, QuickHeard
  DEF Qs!QsEditorNext
<1>2. CASE Qs!QsChangeNext
  BY <1>2, QuickDialog, QuickAsks, QuickLeaves, QuickAnswered DEF Qs!QsChangeNext
<1>3. CASE Qs!QsSwitchNext
  BY <1>3, QuickDialog, QuickReadSwitch, QuickTurn, QuickTurned, QuickTurnEnds DEF Qs!QsSwitchNext
<1>4. QED  BY <1>1, <1>2, <1>3

LEMMA QuickHolds ==
  Qs!QsInv => /\ Qs!SavedToOwnSite /\ Qs!AppliedToOwnSite /\ Qs!OneIssue /\ Qs!SwitchIsTrue
<1> SUFFICES ASSUME Qs!QsInv
             PROVE  /\ Qs!SavedToOwnSite /\ Qs!AppliedToOwnSite /\ Qs!OneIssue
                    /\ Qs!SwitchIsTrue
  OBVIOUS
<1>1. Qs!SavedToOwnSite
  BY QuickOwn DEF Qs!SavedToOwnSite
<1>2. Qs!AppliedToOwnSite
  BY QuickTypes
<1>3. Qs!OneIssue
  <2>1. PICK S : S = {r \in v8 : r.here /\ r.kind = "ssl"}
    OBVIOUS
  <2>2. \A r, q \in S : r = q
    BY <2>1, QuickTypes DEF Qs!QsIssueOnce
  <2>3. Cardinality(S) \in {0, 1}
    <3>1. CASE S = {}
      BY <3>1, FS_EmptySet
    <3>2. CASE S # {}
      <4>1. PICK r : S = {r}
        BY <2>2, <3>2
      <4>2. Cardinality({r}) = 1
        BY FS_Singleton
      <4>3. QED  BY <4>1, <4>2
    <3>3. QED  BY <3>1, <3>2
  <2>4. \A T : Qs!Cardinality(T) = Cardinality(T)
    BY DEF Qs!Cardinality, Cardinality
  <2>5. QED  BY <2>1, <2>3, <2>4 DEF Qs!OneIssue
<1>4. Qs!SwitchIsTrue
  BY QuickTypes, QuickLed DEF Qs!SwitchIsTrue, Qs!QsTurnedOn
<1>5. QED  BY <1>1, <1>2, <1>3, <1>4

-----------------------------------------------------------------------------
(* The PHP settings.  v1: the files, v2, v3: the texts and the switches in   *)
(* the cache, v4: the version picked, v5, v6: the forms, v7: saves under     *)
(* way, v8: how many so far, v9: versions not read again, v10: those an      *)
(* answer had no text for; v11: syncs, v12: the request for one, v13: the    *)
(* one followed, v14: an answer was lost.                                    *)

LEMMA PhpInit == Ph!PhInit => Ph!PhInv
<1> SUFFICES ASSUME Ph!PhInit PROVE Ph!PhInv
  OBVIOUS
<1>1. PICK plain : plain = Ph!PhPlain
  OBVIOUS
<1>2. PICK unread : unread = Ph!PhUnread
  OBVIOUS
<1>3. PICK form : form = Ph!PhEmptyForm
  OBVIOUS
<1>4. plain \in Ph!PhTexts
  BY <1>1 DEF Ph!PhTexts, Ph!PhPlain
<1>5. unread \in [read : {"none", "fresh", "stale", "bare"}, text : Ph!PhTexts] /\ unread.read = "none"
  BY <1>1, <1>2, <1>4 DEF Ph!PhUnread
<1>6. form \in Ph!PhFormSet
  BY <1>1, <1>3, <1>4 DEF Ph!PhEmptyForm, Ph!PhFormSet
<1>7. /\ v1 = [v \in Sites |-> plain] /\ v2 = [v \in Sites |-> unread] /\ v3 = v2
      /\ v4 \in Sites /\ v5 = form /\ v6 = form /\ v7 = {} /\ v8 = 0
      /\ v11 = <<>> /\ v12 = "none" /\ v13 = 0 /\ v14 = FALSE
  BY <1>1, <1>2, <1>3 DEF Ph!PhInit
<1>8. v1 \in [Sites -> Ph!PhTexts] /\ v2 \in Ph!PhCaches /\ \A v \in Sites : v2[v].read = "none"
  BY <1>4, <1>5, <1>7 DEF Ph!PhCaches
<1>9. Ph!PhTypeOK
  <2>1. v3 \in Ph!PhCaches /\ v5 \in Ph!PhFormSet /\ v6 \in Ph!PhFormSet
    BY <1>6, <1>7, <1>8
  <2>2. v11 \in Seq({"queued", "running", "success", "failed", "killed"}) /\ Len(v11) = 0
    BY <1>7
  <2>3. v12 \in {"none", "sent", "made"} /\ v13 \in 0..Len(v11) /\ v14 \in BOOLEAN /\ v8 \in Nat
    <3>1. v14 \in BOOLEAN /\ v12 \in {"none", "sent", "made"}
      BY <1>7
    <3>2. v13 \in 0..Len(v11) /\ v8 \in Nat
      <4>1. v13 = 0 /\ v8 = 0
        BY <1>7
      <4>2. QED  BY <2>2, <4>1
    <3>3. QED  BY <3>1, <3>2
  <2>4. /\ v7 \subseteq [kind : {"ini", "modules"}, version : Sites, of : Sites \cup {none},
                        text : Ph!PhTexts, step : {"sent", "loaded", "done"}]
        /\ v4 \in Sites
    BY <1>7
  <2>5. QED  BY <1>8, <2>1, <2>2, <2>3, <2>4 DEF Ph!PhTypeOK
<1>10. Ph!PhCachesLead /\ Ph!PhBareIsNoted /\ Ph!PhFormsAreOwn
  BY <1>7, <1>8 DEF Ph!PhCachesLead, Ph!PhBareIsNoted, Ph!PhFormsAreOwn, Ph!PhRead
<1>11. Ph!PhSyncIsFollowed /\ Ph!SavedToOwnVersion
  BY <1>7 DEF Ph!PhSyncIsFollowed, Ph!SavedToOwnVersion
<1>12. QED  BY <1>9, <1>10, <1>11 DEF Ph!PhInv

(* The syncs, which leave the settings alone.                                *)
LEMMA PhpSync ==
  ASSUME Ph!PhInv, UNCHANGED Ph!phConfigVars,
         v11' \in Seq({"queued", "running", "success", "failed", "killed"}),
         v12' \in {"none", "sent", "made"}, v13' \in 0..Len(v11'), v14' \in BOOLEAN,
         Ph!PhSyncIsFollowed'
  PROVE  Ph!PhInv'
<1>1. UNCHANGED <<v1, v2, v3, v4, v5, v6, v7, v8, v9, v10>>
  BY DEF Ph!phConfigVars, Ph!phForms
<1>2. Ph!PhTypeOK'
  BY <1>1 DEF Ph!PhInv, Ph!PhTypeOK
<1>3. Ph!PhCachesLead' /\ Ph!PhBareIsNoted' /\ Ph!PhFormsAreOwn' /\ Ph!SavedToOwnVersion'
  BY <1>1 DEF Ph!PhInv, Ph!PhCachesLead, Ph!PhBareIsNoted, Ph!PhFormsAreOwn, Ph!SavedToOwnVersion
<1>4. QED  BY <1>2, <1>3 DEF Ph!PhInv

LEMMA PhpSyncStep ==
  ASSUME Ph!PhInv, Ph!PhSyncNext
  PROVE  Ph!PhInv'
<1> DEFINE Statuses == {"queued", "running", "success", "failed", "killed"}
<1>0. /\ v11 \in Seq(Statuses) /\ v12 \in {"none", "sent", "made"} /\ v13 \in 0..Len(v11)
      /\ v14 \in BOOLEAN /\ Len(v11) \in Nat
      /\ (v12 # "none" => v13 = 0)
      /\ \A n \in 1..Len(v11) : ~v14 /\ v11[n] \in {"queued", "running"} =>
            n = Len(v11) /\ (v12 = "made" \/ v13 = n)
  BY DEF Ph!PhInv, Ph!PhTypeOK, Ph!PhSyncIsFollowed, Ph!PhSyncAlive
<1>1. CASE Ph!PhSyncClick
  <2>1. Ph!PhSyncIsFollowed'
    BY <1>0, <1>1 DEF Ph!PhSyncClick, Ph!PhSyncIsFollowed, Ph!PhSyncAlive
  <2>2. QED  BY <1>0, <1>1, <2>1, PhpSync DEF Ph!PhSyncClick
<1>2. CASE Ph!PhSyncBegin
  <2>1. /\ v11' = Append(v11, "queued") /\ v12' = "made" /\ v12 = "sent"
        /\ UNCHANGED Ph!phConfigVars /\ UNCHANGED <<v13, v14>>
    BY <1>2 DEF Ph!PhSyncBegin
  <2>2. /\ v11' \in Seq(Statuses) /\ Len(v11') = Len(v11) + 1
        /\ \A n \in 1..Len(v11) : v11'[n] = v11[n]
    BY <1>0, <2>1
  <2>3. v13' \in 0..Len(v11')
    BY <1>0, <2>1, <2>2
  <2>4. Ph!PhSyncIsFollowed'
    BY <1>0, <2>1, <2>2 DEF Ph!PhSyncIsFollowed, Ph!PhSyncAlive
  <2>5. QED  BY <1>0, <2>1, <2>2, <2>3, <2>4, PhpSync
<1>3. CASE Ph!PhSyncAnswered
  <2>1. /\ v13' = Len(v11) /\ v12' = "none" /\ UNCHANGED <<v11, v14>> /\ UNCHANGED Ph!phConfigVars
    BY <1>3 DEF Ph!PhSyncAnswered
  <2>2. v13' \in 0..Len(v11')
    BY <1>0, <2>1
  <2>3. Ph!PhSyncIsFollowed'
    BY <1>0, <2>1 DEF Ph!PhSyncIsFollowed, Ph!PhSyncAlive
  <2>4. QED  BY <1>0, <2>1, <2>2, <2>3, PhpSync
<1>4. CASE Ph!PhSyncFails
  <2>1. /\ v12 # "none" /\ v12' = "none" /\ v14' = (v14 \/ v12 = "made") /\ UNCHANGED <<v11, v13>>
        /\ UNCHANGED Ph!phConfigVars
    BY <1>4 DEF Ph!PhSyncFails
  <2>2. v14' \in BOOLEAN
    BY <2>1
  <2>3. Ph!PhSyncIsFollowed'
    BY <1>0, <2>1 DEF Ph!PhSyncIsFollowed, Ph!PhSyncAlive
  <2>4. QED  BY <1>0, <2>1, <2>2, <2>3, PhpSync
<1>5. CASE Ph!PhSyncPoll
  <2>1. /\ v13 # 0 /\ v11[v13] \in {"success", "failed"} /\ v13' = 0 /\ UNCHANGED <<v11, v12, v14>>
        /\ UNCHANGED Ph!phConfigVars
    BY <1>5 DEF Ph!PhSyncPoll, Ph!PhSyncOver, Ph!PhSyncEnded
  <2>2. v13' \in 0..Len(v11')
    BY <1>0, <2>1
  <2>3. Ph!PhSyncIsFollowed'
    BY <1>0, <2>1 DEF Ph!PhSyncIsFollowed, Ph!PhSyncAlive
  <2>4. QED  BY <1>0, <2>1, <2>2, <2>3, PhpSync
<1>6. ASSUME NEW n \in 1..Len(v11), Ph!PhSyncWork(n) PROVE Ph!PhInv'
  <2>1. PICK next \in {"running", "killed", "success", "failed"} : v11' = [v11 EXCEPT ![n] = next]
    BY <1>6 DEF Ph!PhSyncWork
  <2>2. /\ v11[n] \in {"queued", "running"} /\ UNCHANGED <<v12, v13, v14>>
        /\ UNCHANGED Ph!phConfigVars
    BY <1>6 DEF Ph!PhSyncWork, Ph!PhSyncAlive
  <2>3. /\ v11' \in Seq(Statuses) /\ Len(v11') = Len(v11)
        /\ \A m \in 1..Len(v11) : m # n => v11'[m] = v11[m]
    BY <1>0, <2>1
  <2>4. Ph!PhSyncIsFollowed'
    BY <1>0, <2>1, <2>2, <2>3 DEF Ph!PhSyncIsFollowed, Ph!PhSyncAlive
  <2>5. v13' \in 0..Len(v11')
    BY <1>0, <2>2, <2>3
  <2>6. QED  BY <1>0, <2>2, <2>3, <2>4, <2>5, PhpSync
<1>7. QED  BY <1>1, <1>2, <1>3, <1>4, <1>5, <1>6 DEF Ph!PhSyncNext

(* The forms, which leave the files and the saves alone.                     *)
LEMMA PhpForms ==
  ASSUME Ph!PhInv, UNCHANGED <<v1, v7, v8, v9, v11, v12, v13, v14>>,
         v2' \in Ph!PhCaches, v3' \in Ph!PhCaches, v4' \in Sites,
         v5' \in Ph!PhFormSet, v6' \in Ph!PhFormSet, v10 \subseteq v10',
         \A v \in Sites : v2'[v] = v2[v] \/ v2'[v].read # "fresh" \/ v2'[v].text = v1[v],
         \A v \in Sites : v3'[v] = v3[v] \/ v3'[v].read # "fresh" \/ v3'[v].text.mod = v1[v].mod,
         Ph!PhBareIsNoted', Ph!PhFormsAreOwn'
  PROVE  Ph!PhInv'
<1>1. Ph!PhTypeOK'
  BY DEF Ph!PhInv, Ph!PhTypeOK
<1>2. Ph!PhCachesLead'
  BY DEF Ph!PhInv, Ph!PhCachesLead
<1>3. Ph!PhSyncIsFollowed' /\ Ph!SavedToOwnVersion'
  BY DEF Ph!PhInv, Ph!PhSyncIsFollowed, Ph!PhSyncAlive, Ph!SavedToOwnVersion
<1>4. QED  BY <1>1, <1>2, <1>3 DEF Ph!PhInv

LEMMA PhpTypes ==
  ASSUME Ph!PhInv
  PROVE  /\ v1 \in [Sites -> Ph!PhTexts] /\ v2 \in Ph!PhCaches /\ v3 \in Ph!PhCaches
         /\ v4 \in Sites /\ v5 \in Ph!PhFormSet /\ v6 \in Ph!PhFormSet /\ v8 \in Nat
         /\ v7 \subseteq [kind : {"ini", "modules"}, version : Sites, of : Sites \cup {none},
                          text : Ph!PhTexts, step : {"sent", "loaded", "done"}]
         /\ Ph!PhBareIsNoted /\ Ph!PhFormsAreOwn /\ Ph!PhCachesLead
  BY DEF Ph!PhInv, Ph!PhTypeOK

(* A form of a version's own text when there is one to be had.               *)
LEMMA PhpFilled ==
  ASSUME NEW form \in Ph!PhFormSet, NEW v \in Sites, NEW cache \in Ph!PhCaches
  PROVE  /\ Ph!PhFilled(form, v, cache[v]) \in Ph!PhFormSet
         /\ cache[v].read \notin {"none", "bare"} => Ph!PhFilled(form, v, cache[v]).of = v
<1>1. cache[v] \in [read : {"none", "fresh", "stale", "bare"}, text : Ph!PhTexts]
  BY DEF Ph!PhCaches
<1>2. PICK entry : entry = cache[v]
  OBVIOUS
<1>3. entry \in [read : {"none", "fresh", "stale", "bare"}, text : Ph!PhTexts]
  BY <1>1, <1>2
<1>4. Ph!PhFilled(form, v, entry) = IF entry.read \in {"fresh", "stale"}
                                    THEN [of |-> v, text |-> entry.text] ELSE form
  BY DEF Ph!PhFilled, Ph!PhHas
<1>5. PICK new : new = [of |-> v, text |-> entry.text]
  OBVIOUS
<1>6. new \in Ph!PhFormSet /\ new.of = v
  BY <1>3, <1>5 DEF Ph!PhFormSet
<1>7. QED  BY <1>2, <1>3, <1>4, <1>5, <1>6

LEMMA PhpPicked ==
  ASSUME Ph!PhInv, NEW v \in Sites, Ph!PhPick(v)
  PROVE  Ph!PhInv'
<1>1. /\ v4' = v /\ v5' = Ph!PhFilled(v5, v, v2[v]) /\ v6' = Ph!PhFilled(v6, v, v3[v])
      /\ UNCHANGED <<v1, v2, v3, v7, v8, v9, v10, v11, v12, v13, v14>>
  BY DEF Ph!PhPick, Ph!phSyncVars
<1>2. v5' \in Ph!PhFormSet /\ (v2[v].read \notin {"none", "bare"} => v5'.of = v)
  BY <1>1, PhpTypes, PhpFilled
<1>3. v6' \in Ph!PhFormSet /\ (v3[v].read \notin {"none", "bare"} => v6'.of = v)
  BY <1>1, PhpTypes, PhpFilled
<1>4. Ph!PhBareIsNoted'
  BY <1>1, PhpTypes DEF Ph!PhBareIsNoted
<1>5. Ph!PhFormsAreOwn'
  BY <1>1, <1>2, <1>3, PhpTypes DEF Ph!PhBareIsNoted, Ph!PhFormsAreOwn, Ph!PhRead
<1>6. QED  BY <1>1, <1>2, <1>3, <1>4, <1>5, PhpTypes, PhpForms

(* What arrives, and what the form takes of it.                              *)
LEMMA PhpArrives ==
  ASSUME NEW form \in Ph!PhFormSet, NEW v \in Sites, NEW cache \in Ph!PhCaches,
         NEW text \in Ph!PhTexts, NEW new \in Ph!PhArrives(text), v4 \in Sites
  PROVE  /\ new \in [read : {"none", "fresh", "stale", "bare"}, text : Ph!PhTexts]
         /\ new.read \in {"fresh", "bare"} /\ (new.read = "fresh" => new.text = text)
         /\ Ph!PhAfterRead(form, v, cache[v], new) \in Ph!PhFormSet
         /\ v # v4 => Ph!PhAfterRead(form, v, cache[v], new) = form
         /\ v = v4 /\ new.read = "fresh" =>
               \/ Ph!PhAfterRead(form, v, cache[v], new).of = v
               \/ /\ Ph!PhAfterRead(form, v, cache[v], new) = form
                  /\ cache[v].read \in {"fresh", "stale"}
<1>1. Ph!PhPlain \in Ph!PhTexts
  BY DEF Ph!PhPlain, Ph!PhTexts
<1>2. /\ new \in [read : {"none", "fresh", "stale", "bare"}, text : Ph!PhTexts]
      /\ new.read \in {"fresh", "bare"} /\ (new.read = "fresh" => new.text = text)
  <2>1. CASE new = [read |-> "fresh", text |-> text]
    BY <2>1
  <2>2. CASE new = [read |-> "bare", text |-> Ph!PhPlain]
    <3>1. PICK plain \in Ph!PhTexts : plain = Ph!PhPlain
      BY <1>1
    <3>2. new = [read |-> "bare", text |-> plain]
      BY <2>2, <3>1
    <3>3. QED  BY <3>2
  <2>3. QED  BY <2>1, <2>2 DEF Ph!PhArrives
<1>3. PICK filled : filled = Ph!PhFilled(form, v, new)
  OBVIOUS
<1>4. filled \in Ph!PhFormSet /\ (new.read = "fresh" => filled.of = v)
  <2>1. PICK c : c = [x \in Sites |-> new]
    OBVIOUS
  <2>2. c \in Ph!PhCaches /\ c[v] = new
    BY <1>2, <2>1 DEF Ph!PhCaches
  <2>3. QED  BY <1>3, <2>2, PhpFilled
<1>5. Ph!PhAfterRead(form, v, cache[v], new) \in {form, filled}
  BY <1>3 DEF Ph!PhAfterRead
<1>6. v # v4 => Ph!PhAfterRead(form, v, cache[v], new) = form
  BY DEF Ph!PhAfterRead
<1>7. \/ Ph!PhAfterRead(form, v, cache[v], new) = filled \/ v # v4
      \/ Ph!PhAfterRead(form, v, cache[v], new) = form /\ cache[v].read \in {"fresh", "stale"}
  BY <1>3 DEF Ph!PhAfterRead, Ph!PhHas
<1>8. QED  BY <1>2, <1>4, <1>5, <1>6, <1>7

LEMMA PhpIniRead ==
  ASSUME Ph!PhInv, NEW v \in Sites, Ph!PhReadIni(v)
  PROVE  Ph!PhInv'
<1>1. PICK new \in Ph!PhArrives(v1[v]) :
         /\ v2' = [v2 EXCEPT ![v] = new] /\ v5' = Ph!PhAfterRead(v5, v, v2[v], new)
         /\ v10' = Ph!PhNowBare(v, new)
  BY DEF Ph!PhReadIni
<1>2. UNCHANGED <<v1, v3, v4, v6, v7, v8, v9, v11, v12, v13, v14>>
  BY DEF Ph!PhReadIni, Ph!phSyncVars
<1>3. v1[v] \in Ph!PhTexts
  BY PhpTypes
<1>4. /\ new \in [read : {"none", "fresh", "stale", "bare"}, text : Ph!PhTexts]
      /\ new.read \in {"fresh", "bare"} /\ (new.read = "fresh" => new.text = v1[v])
      /\ v5' \in Ph!PhFormSet /\ (v # v4 => v5' = v5)
      /\ v = v4 /\ new.read = "fresh" => v5'.of = v \/ (v5' = v5 /\ v2[v].read \in {"fresh", "stale"})
  BY <1>1, <1>3, PhpTypes, PhpArrives
<1>5. v10 \subseteq v10' /\ (new.read = "bare" => v \in v10')
  BY <1>1 DEF Ph!PhNowBare
<1>6. v2' \in Ph!PhCaches /\ v2'[v] = new /\ \A x \in Sites : x # v => v2'[x] = v2[x]
  BY <1>1, <1>4, PhpTypes DEF Ph!PhCaches
<1>7. Ph!PhBareIsNoted'
  BY <1>2, <1>5, <1>6, PhpTypes DEF Ph!PhBareIsNoted
<1>8. Ph!PhFormsAreOwn'
  BY <1>2, <1>4, <1>5, <1>6, PhpTypes DEF Ph!PhFormsAreOwn, Ph!PhRead
<1>9. QED  BY <1>2, <1>4, <1>5, <1>6, <1>7, <1>8, PhpTypes, PhpForms

LEMMA PhpModulesRead ==
  ASSUME Ph!PhInv, NEW v \in Sites, Ph!PhReadModules(v)
  PROVE  Ph!PhInv'
<1>1. PICK text : text = Ph!PhSwitches(v1[v])
  OBVIOUS
<1>2. PICK new \in Ph!PhArrives(text) :
         /\ v3' = [v3 EXCEPT ![v] = new] /\ v6' = Ph!PhAfterRead(v6, v, v3[v], new)
         /\ v10' = Ph!PhNowBare(v, new)
  BY <1>1 DEF Ph!PhReadModules
<1>3. UNCHANGED <<v1, v2, v4, v5, v7, v8, v9, v11, v12, v13, v14>>
  BY DEF Ph!PhReadModules, Ph!phSyncVars
<1>4. text \in Ph!PhTexts /\ text.mod = v1[v].mod
  <2>1. v1[v] \in Ph!PhTexts
    BY PhpTypes
  <2>2. QED  BY <1>1, <2>1 DEF Ph!PhSwitches, Ph!PhTexts
<1>5. /\ new \in [read : {"none", "fresh", "stale", "bare"}, text : Ph!PhTexts]
      /\ new.read \in {"fresh", "bare"} /\ (new.read = "fresh" => new.text = text)
      /\ v6' \in Ph!PhFormSet /\ (v # v4 => v6' = v6)
      /\ v = v4 /\ new.read = "fresh" => v6'.of = v \/ (v6' = v6 /\ v3[v].read \in {"fresh", "stale"})
  BY <1>2, <1>4, PhpTypes, PhpArrives
<1>6. v10 \subseteq v10' /\ (new.read = "bare" => v \in v10')
  BY <1>2 DEF Ph!PhNowBare
<1>7. v3' \in Ph!PhCaches /\ v3'[v] = new /\ \A x \in Sites : x # v => v3'[x] = v3[x]
  BY <1>2, <1>5, PhpTypes DEF Ph!PhCaches
<1>8. Ph!PhBareIsNoted'
  BY <1>3, <1>6, <1>7, PhpTypes DEF Ph!PhBareIsNoted
<1>9. Ph!PhFormsAreOwn'
  BY <1>3, <1>5, <1>6, <1>7, PhpTypes DEF Ph!PhFormsAreOwn, Ph!PhRead
<1>10. QED  BY <1>3, <1>4, <1>5, <1>6, <1>7, <1>8, <1>9, PhpTypes, PhpForms

LEMMA PhpEdited ==
  ASSUME Ph!PhInv, Ph!PhEdit \/ Ph!PhToggle
  PROVE  Ph!PhInv'
<1>1. CASE Ph!PhEdit
  <2>1. /\ v2[v4].read # "none"
        /\ v5' = [of |-> IF v5.of = none THEN v4 ELSE v5.of, text |-> [v5.text EXCEPT !.set = 1 - @]]
        /\ UNCHANGED <<v1, v2, v3, v4, v6, v7, v8, v9, v10, v11, v12, v13, v14>>
    BY <1>1 DEF Ph!PhEdit, Ph!PhLoaded, Ph!PhRead, Ph!phSyncVars
  <2>2. v5.of \in Sites \cup {none} /\ v5.text \in Ph!PhTexts
    BY PhpTypes DEF Ph!PhFormSet
  <2>3. PICK text : text = [v5.text EXCEPT !.set = 1 - @]
    OBVIOUS
  <2>4. text \in Ph!PhTexts
    BY <2>2, <2>3 DEF Ph!PhTexts
  <2>5. PICK of : of = IF v5.of = none THEN v4 ELSE v5.of
    OBVIOUS
  <2>6. of \in Sites \cup {none} /\ (v5.of # none => of = v5.of)
    BY <2>2, <2>5, PhpTypes
  <2>7. v5' = [of |-> of, text |-> text]
    BY <2>1, <2>3, <2>5
  <2>8. v5' \in Ph!PhFormSet /\ (v5.of # none => v5'.of = v5.of)
    BY <2>4, <2>6, <2>7 DEF Ph!PhFormSet
  <2>9. Ph!PhBareIsNoted'
    BY <2>1, PhpTypes DEF Ph!PhBareIsNoted
  <2>10. Ph!PhFormsAreOwn'
    BY <2>1, <2>8, PhpTypes, PagesAssumption DEF Ph!PhFormsAreOwn, Ph!PhRead
  <2>11. QED  BY <2>1, <2>8, <2>9, <2>10, PhpTypes, PhpForms
<1>2. CASE Ph!PhToggle
  <2>1. /\ v6' = [v6 EXCEPT !.text.mod = ~@]
        /\ UNCHANGED <<v1, v2, v3, v4, v5, v7, v8, v9, v10, v11, v12, v13, v14>>
    BY <1>2 DEF Ph!PhToggle, Ph!phSyncVars
  <2>2. v6' \in Ph!PhFormSet /\ v6'.of = v6.of
    BY <2>1, PhpTypes DEF Ph!PhFormSet, Ph!PhTexts
  <2>3. Ph!PhBareIsNoted'
    BY <2>1, PhpTypes DEF Ph!PhBareIsNoted
  <2>4. Ph!PhFormsAreOwn'
    BY <2>1, <2>2, PhpTypes DEF Ph!PhFormsAreOwn, Ph!PhRead
  <2>5. QED  BY <2>1, <2>2, <2>3, <2>4, PhpTypes, PhpForms
<1>3. QED  BY <1>1, <1>2

(* A save is asked for, of the form of the version picked.                   *)
LEMMA PhpAsked ==
  ASSUME Ph!PhInv, NEW kind \in {"ini", "modules"}, NEW form \in Ph!PhFormSet, NEW entry,
         Ph!PhAsk(kind, form, entry), v4 \notin v10 => form.of = v4
  PROVE  Ph!PhInv'
<1>1. PICK q : q = [kind |-> kind, version |-> v4, of |-> form.of, text |-> form.text, step |-> "sent"]
  OBVIOUS
<1>2. /\ v7' = v7 \cup {q} /\ v8' = v8 + 1
      /\ UNCHANGED <<v1, v2, v3, v4, v5, v6, v9, v10, v11, v12, v13, v14>>
  BY <1>1 DEF Ph!PhAsk, Ph!phForms, Ph!phSyncVars
<1>3. form.of \in Sites \cup {none} /\ form.text \in Ph!PhTexts
  BY DEF Ph!PhFormSet
<1>4. /\ q \in [kind : {"ini", "modules"}, version : Sites, of : Sites \cup {none},
                text : Ph!PhTexts, step : {"sent", "loaded", "done"}]
      /\ q.version = v4 /\ q.of = form.of /\ q.step = "sent"
  BY <1>1, <1>3, PhpTypes
<1>5. Ph!PhTypeOK'
  BY <1>2, <1>4 DEF Ph!PhInv, Ph!PhTypeOK
<1>6. Ph!PhCachesLead'
  BY <1>2, PhpTypes DEF Ph!PhCachesLead
<1>7. Ph!PhBareIsNoted' /\ Ph!PhFormsAreOwn'
  BY <1>2, PhpTypes DEF Ph!PhBareIsNoted, Ph!PhFormsAreOwn
<1>8. Ph!PhSyncIsFollowed' /\ Ph!SavedToOwnVersion'
  BY <1>2, <1>4 DEF Ph!PhInv, Ph!PhSyncIsFollowed, Ph!PhSyncAlive, Ph!SavedToOwnVersion
<1>9. QED  BY <1>5, <1>6, <1>7, <1>8 DEF Ph!PhInv

(* A save goes on, and with its last step its file is written.               *)
LEMMA PhpGoesOn ==
  ASSUME Ph!PhInv, NEW r \in v7,
         NEW q \in [kind : {"ini", "modules"}, version : Sites, of : Sites \cup {none},
                    text : Ph!PhTexts, step : {"sent", "loaded", "done"}],
         q.version = r.version, q.of = r.of, v7' = (v7 \ {r}) \cup {q},
         UNCHANGED <<v2, v3, v4, v5, v6, v8, v9, v10, v11, v12, v13, v14>>,
         v1' \in [Sites -> Ph!PhTexts], \A v \in Sites : v1'[v] = v1[v] \/ (q.step = "done" /\ v = q.version),
         r.step = "done" => q.step = "done"
  PROVE  Ph!PhInv'
<1>1. Ph!PhTypeOK'
  BY DEF Ph!PhInv, Ph!PhTypeOK
<1>2. Ph!PhCachesLead'
  BY DEF Ph!PhInv, Ph!PhCachesLead
<1>3. Ph!PhBareIsNoted' /\ Ph!PhFormsAreOwn'
  BY PhpTypes DEF Ph!PhBareIsNoted, Ph!PhFormsAreOwn
<1>4. Ph!PhSyncIsFollowed' /\ Ph!SavedToOwnVersion'
  BY DEF Ph!PhInv, Ph!PhSyncIsFollowed, Ph!PhSyncAlive, Ph!SavedToOwnVersion
<1>5. QED  BY <1>1, <1>2, <1>3, <1>4 DEF Ph!PhInv

(* A save is over: its file is read again, or it is noted that it is not.    *)
LEMMA PhpOver ==
  ASSUME Ph!PhInv, NEW r \in v7, v7' = v7 \ {r},
         UNCHANGED <<v1, v4, v5, v6, v8, v10, v11, v12, v13, v14>>,
         v2' \in Ph!PhCaches, v3' \in Ph!PhCaches, v9 \subseteq v9',
         \A v \in Sites : v2'[v] = v2[v] \/ (v2'[v].read = "stale" /\ v2[v].read = "fresh"),
         \A v \in Sites : v3'[v] = v3[v] \/ (v3'[v].read = "stale" /\ v3[v].read = "fresh"),
         r.step = "done" => r.version \in v9' \/ (v2'[r.version].read # "fresh" /\ v3'[r.version].read # "fresh")
  PROVE  Ph!PhInv'
<1>1. Ph!PhTypeOK'
  BY DEF Ph!PhInv, Ph!PhTypeOK
<1>2. Ph!PhCachesLead'
  BY DEF Ph!PhInv, Ph!PhCachesLead
<1>3. Ph!PhBareIsNoted'
  BY PhpTypes DEF Ph!PhBareIsNoted
<1>4. Ph!PhFormsAreOwn'
  BY PhpTypes DEF Ph!PhFormsAreOwn, Ph!PhRead
<1>5. Ph!PhSyncIsFollowed' /\ Ph!SavedToOwnVersion'
  BY DEF Ph!PhInv, Ph!PhSyncIsFollowed, Ph!PhSyncAlive, Ph!SavedToOwnVersion
<1>6. QED  BY <1>1, <1>2, <1>3, <1>4, <1>5 DEF Ph!PhInv

(* A cache of which the version picked is to be read again.                  *)
LEMMA PhpRefetched ==
  ASSUME NEW cache \in Ph!PhCaches, v4 \in Sites
  PROVE  /\ Ph!PhRefetch(cache) \in Ph!PhCaches
         /\ \A v \in Sites : \/ Ph!PhRefetch(cache)[v] = cache[v]
                             \/ Ph!PhRefetch(cache)[v].read = "stale" /\ cache[v].read = "fresh"
         /\ Ph!PhRefetch(cache)[v4].read # "fresh"
<1>1. cache[v4] \in [read : {"none", "fresh", "stale", "bare"}, text : Ph!PhTexts]
  BY DEF Ph!PhCaches
<1>2. PICK read : read = IF cache[v4].read = "fresh" THEN "stale" ELSE cache[v4].read
  OBVIOUS
<1>3. PICK entry : entry = [cache[v4] EXCEPT !.read = read]
  OBVIOUS
<1>4. /\ entry \in [read : {"none", "fresh", "stale", "bare"}, text : Ph!PhTexts]
      /\ entry.read # "fresh" /\ (entry = cache[v4] \/ (entry.read = "stale" /\ cache[v4].read = "fresh"))
  BY <1>1, <1>2, <1>3
<1>5. Ph!PhRefetch(cache) = [cache EXCEPT ![v4] = entry]
  BY <1>2, <1>3 DEF Ph!PhRefetch, Ph!PhRefetched, Ph!PhCaches
<1>6. QED  BY <1>4, <1>5 DEF Ph!PhCaches

LEMMA PhpServed ==
  ASSUME Ph!PhInv, NEW r \in v7,
         Ph!PhLoad(r) \/ Ph!PhWrite(r) \/ Ph!PhAnswered(r) \/ Ph!PhFails(r)
  PROVE  Ph!PhInv'
<1>0. /\ r \in [kind : {"ini", "modules"}, version : Sites, of : Sites \cup {none},
                text : Ph!PhTexts, step : {"sent", "loaded", "done"}]
      /\ r.version \in Sites /\ r.text \in Ph!PhTexts
  BY PhpTypes
<1>1. CASE Ph!PhLoad(r)
  <2>1. PICK b : b = v1[r.version].set
    OBVIOUS
  <2>2. b \in {0, 1}
    <3>1. v1[r.version] \in Ph!PhTexts
      BY <1>0, PhpTypes
    <3>2. QED  BY <2>1, <3>1 DEF Ph!PhTexts
  <2>3. PICK text : text = [r.text EXCEPT !.set = b]
    OBVIOUS
  <2>4. text \in Ph!PhTexts
    BY <1>0, <2>2, <2>3 DEF Ph!PhTexts
  <2>5. PICK q : q = [r EXCEPT !.text.set = b, !.step = "loaded"]
    OBVIOUS
  <2>6. q = [kind |-> r.kind, version |-> r.version, of |-> r.of, text |-> text, step |-> "loaded"]
    BY <1>0, <2>3, <2>5
  <2>7. /\ q \in [kind : {"ini", "modules"}, version : Sites, of : Sites \cup {none},
                  text : Ph!PhTexts, step : {"sent", "loaded", "done"}]
        /\ q.version = r.version /\ q.of = r.of
    BY <1>0, <2>4, <2>6
  <2>8. /\ r.step = "sent" /\ v7' = (v7 \ {r}) \cup {q}
        /\ UNCHANGED <<v1, v2, v3, v4, v5, v6, v8, v9, v10, v11, v12, v13, v14>>
    BY <1>1, <2>1, <2>5 DEF Ph!PhLoad, Ph!PhStep, Ph!phForms, Ph!phSyncVars
  <2>9. QED  BY <2>7, <2>8, PhpTypes, PhpGoesOn
<1>2. CASE Ph!PhWrite(r)
  <2>1. PICK q : q = [r EXCEPT !.step = "done"]
    OBVIOUS
  <2>2. /\ q \in [kind : {"ini", "modules"}, version : Sites, of : Sites \cup {none},
                  text : Ph!PhTexts, step : {"sent", "loaded", "done"}]
        /\ q.version = r.version /\ q.of = r.of /\ q.step = "done"
    BY <1>0, <2>1
  <2>3. /\ v7' = (v7 \ {r}) \cup {q} /\ v1' = [v1 EXCEPT ![r.version] = r.text]
        /\ UNCHANGED <<v2, v3, v4, v5, v6, v8, v9, v10, v11, v12, v13, v14>>
    BY <1>2, <2>1 DEF Ph!PhWrite, Ph!PhStep, Ph!phForms, Ph!phSyncVars
  <2>4. v1' \in [Sites -> Ph!PhTexts] /\ \A v \in Sites : v # r.version => v1'[v] = v1[v]
    BY <1>0, <2>3, PhpTypes
  <2>5. QED  BY <2>2, <2>3, <2>4, PhpGoesOn
<1>3. CASE Ph!PhAnswered(r)
  <2>1. /\ v7' = v7 \ {r} /\ v2' = Ph!PhRefetch(v2) /\ v3' = Ph!PhRefetch(v3)
        /\ v9' = IF r.version = v4 THEN v9 ELSE v9 \cup {r.version}
        /\ UNCHANGED <<v1, v4, v5, v6, v8, v10, v11, v12, v13, v14>>
    BY <1>3 DEF Ph!PhAnswered, Ph!phForms, Ph!phSyncVars
  <2>2. /\ v2' \in Ph!PhCaches /\ v2'[v4].read # "fresh"
        /\ \A v \in Sites : v2'[v] = v2[v] \/ (v2'[v].read = "stale" /\ v2[v].read = "fresh")
    BY <2>1, PhpTypes, PhpRefetched
  <2>3. /\ v3' \in Ph!PhCaches /\ v3'[v4].read # "fresh"
        /\ \A v \in Sites : v3'[v] = v3[v] \/ (v3'[v].read = "stale" /\ v3[v].read = "fresh")
    BY <2>1, PhpTypes, PhpRefetched
  <2>4. QED  BY <2>1, <2>2, <2>3, PhpOver
<1>4. CASE Ph!PhFails(r)
  <2>1. /\ v7' = v7 \ {r} /\ v9' = IF r.step = "done" THEN v9 \cup {r.version} ELSE v9
        /\ UNCHANGED <<v1, v2, v3, v4, v5, v6, v8, v10, v11, v12, v13, v14>>
    BY <1>4 DEF Ph!PhFails, Ph!phForms, Ph!phSyncVars
  <2>2. QED  BY <2>1, PhpTypes, PhpOver
<1>5. QED  BY <1>1, <1>2, <1>3, <1>4

LEMMA PhpStep == Ph!PhInv /\ (Ph!PhConfigNext \/ Ph!PhSyncNext) => Ph!PhInv'
<1> SUFFICES ASSUME Ph!PhInv, Ph!PhConfigNext \/ Ph!PhSyncNext PROVE Ph!PhInv'
  OBVIOUS
<1>1. CASE Ph!PhSaveIni
  <2>1. v4 \notin v10 => v5.of = v4
    BY <1>1, PhpTypes DEF Ph!PhSaveIni, Ph!PhAsk, Ph!PhLoaded, Ph!PhFormsAreOwn
  <2>2. QED  BY <1>1, <2>1, PhpTypes, PhpAsked DEF Ph!PhSaveIni
<1>2. CASE Ph!PhSaveModules
  <2>1. v4 \notin v10 => v6.of = v4
    BY <1>2, PhpTypes DEF Ph!PhSaveModules, Ph!PhAsk, Ph!PhLoaded, Ph!PhFormsAreOwn
  <2>2. QED  BY <1>2, <2>1, PhpTypes, PhpAsked DEF Ph!PhSaveModules
<1>3. CASE Ph!PhConfigNext
  BY <1>1, <1>2, <1>3, PhpPicked, PhpIniRead, PhpModulesRead, PhpEdited, PhpServed
     DEF Ph!PhConfigNext
<1>4. QED  BY <1>3, PhpSyncStep

LEMMA PhpCardinality == \A S : Ph!Cardinality(S) = Cardinality(S)
  BY DEF Ph!Cardinality, Cardinality

LEMMA PhpHolds ==
  ASSUME Ph!PhInv
  PROVE  Ph!IniShownTrue /\ Ph!SavedToOwnVersion /\ Ph!OneSync
<1>1. Ph!IniShownTrue
  BY PhpTypes DEF Ph!PhCachesLead, Ph!IniShownTrue
<1>2. Ph!OneSync
  <2>1. CASE v14
    BY <2>1 DEF Ph!OneSync
  <2>2. CASE ~v14
    <3>1. \A n \in 1..Len(v11) : Ph!PhSyncAlive(n) => n = Len(v11)
      BY <2>2 DEF Ph!PhInv, Ph!PhSyncIsFollowed
    <3>2. PICK alive : alive = {n \in 1..Len(v11) : Ph!PhSyncAlive(n)}
      OBVIOUS
    <3>3. alive \subseteq {Len(v11)}
      BY <3>1, <3>2
    <3>4. Cardinality(alive) <= 1
      <4>1. Cardinality({Len(v11)}) = 1 /\ IsFiniteSet({Len(v11)})
        BY FS_Singleton
      <4>2. Cardinality(alive) <= Cardinality({Len(v11)})
        BY <3>3, <4>1, FS_Subset
      <4>3. QED  BY <4>1, <4>2
    <3>5. QED  BY <3>2, <3>4, PhpCardinality DEF Ph!OneSync
  <2>3. QED  BY <2>1, <2>2 DEF Ph!PhInv, Ph!PhTypeOK
<1>3. QED  BY <1>1, <1>2 DEF Ph!PhInv
=============================================================================
