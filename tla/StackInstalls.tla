---------------------------- MODULE StackInstalls ----------------------------
(***************************************************************************)
(* The server packages page and the installs it queues: the rows, the jobs *)
(* that install after the answer of their request, cancellation, the rows  *)
(* that a read declares dead, and the lists the page asks for a minute or  *)
(* two seconds.  One administrator on one page.                            *)
(*                                                                         *)
(* A script is stopped after 30 minutes and a row declared dead after 35,  *)
(* so only a run whose job was killed is.                                  *)
(***************************************************************************)
EXTENDS Integers, Sequences, FiniteSets

CONSTANTS
    SkBundles,   \* the packages the engine offers
    SkMaxRuns,   \* bound: installs and retries that are queued
    SkMaxKills   \* bound: jobs killed



VARIABLES
    skRuns,     \* rows: [bundle, status, cancel]
    skJobs,     \* their jobs: [at, ok, stop]; stop: cancel_requested as read at the end
    skKilled,   \* jobs killed so far
    skAsk,      \* install or retry under way: {[run, bundle]}, run 0 for an install
    skCancel,   \* cancellation under way: {[run, seen]}, seen "" before the row is read
    skList,     \* cached rows
    skOpen,     \* run whose detail is open, or 0
    skDetail,   \* its cached row's status, or ""
    skTold      \* history: runs told to stop before their job looked the last time

skServer == <<skRuns, skJobs, skKilled>>
skPage == <<skList, skOpen, skDetail>>
skVars == <<skServer, skAsk, skCancel, skPage, skTold>>

SkBusyStatus == {"queued", "running"}
SkOver == {"success", "failed", "cancelled"}
SkIds == 1..Len(skRuns)

SkInit ==
    /\ skRuns = <<>> /\ skJobs = <<>> /\ skKilled = 0
    /\ skAsk = {} /\ skCancel = {}
    /\ skList = <<>> /\ skOpen = 0 /\ skDetail = ""
    /\ skTold = {}

-----------------------------------------------------------------------------
(* What the page offers.                                                     *)

SkShownRuns == 1..Len(skList)
SkBusy == skAsk # {} \/ \E n \in SkShownRuns : skList[n].status \in SkBusyStatus

\* The card of a package installs it, or retries its latest failed run if the
\* list has one.
SkFailed(b) == {n \in SkShownRuns : skList[n].bundle = b /\ skList[n].status = "failed"}
SkLatest(runs) == CHOOSE n \in runs : \A k \in runs : k <= n
SkInstall(b) ==
    /\ ~SkBusy
    /\ \/ skAsk' = {[run |-> 0, bundle |-> b]}
       \/ SkFailed(b) # {} /\ skAsk' = {[run |-> SkLatest(SkFailed(b)), bundle |-> b]}
    /\ UNCHANGED <<skServer, skCancel, skPage, skTold>>

SkShows(n, status) ==
    \/ n \in SkShownRuns /\ skList[n].status \in status
    \/ n = skOpen /\ skDetail \in status
SkRetry(n) ==
    /\ ~SkBusy /\ SkShows(n, {"failed", "cancelled"})
    /\ skAsk' = {[run |-> n, bundle |-> skRuns[n].bundle]}
    /\ UNCHANGED <<skServer, skCancel, skPage, skTold>>
SkAskCancel(n) ==
    /\ skCancel = {} /\ SkShows(n, SkBusyStatus)
    /\ skCancel' = {[run |-> n, seen |-> ""]}
    /\ UNCHANGED <<skServer, skAsk, skPage, skTold>>

SkOpenDetail(n) ==
    /\ n \in SkShownRuns /\ n # skOpen
    /\ skOpen' = n /\ skDetail' = ""
    /\ UNCHANGED <<skServer, skAsk, skCancel, skList, skTold>>
SkCloseDetail ==
    /\ skOpen # 0
    /\ skOpen' = 0 /\ skDetail' = ""
    /\ UNCHANGED <<skServer, skAsk, skCancel, skList, skTold>>

-----------------------------------------------------------------------------
(* The requests.                                                             *)

SkMarkStale ==
    [n \in SkIds |-> IF skRuns[n].status = "running" /\ skJobs[n].at = "killed"
                     THEN [skRuns[n] EXCEPT !.status = "failed"] ELSE skRuns[n]]

SkInstalling(rows, b) == \E n \in DOMAIN rows : rows[n].bundle = b /\ rows[n].status \in SkBusyStatus
SkNobody(rows, b) == FALSE      \* mutant
SkRefused(rows, b) == SkInstalling(rows, b)

\* The row is made and its job runs after the answer, which opens the detail.
SkQueue(r) ==
    /\ r \in skAsk
    /\ r.run # 0 => skRuns[r.run].status \in {"failed", "cancelled"}
    /\ ~SkRefused(SkMarkStale, r.bundle) /\ Len(skRuns) < SkMaxRuns
    /\ skRuns' = Append(SkMarkStale, [bundle |-> r.bundle, status |-> "queued", cancel |-> FALSE])
    /\ skJobs' = Append(skJobs, [at |-> "due", ok |-> FALSE, stop |-> FALSE])
    /\ skAsk' = {}
    /\ skOpen' = Len(skRuns') /\ skDetail' = ""
    /\ UNCHANGED <<skKilled, skCancel, skList, skTold>>
SkRefuse(r) ==
    /\ r \in skAsk
    /\ skAsk' = {}
    /\ skRuns' = SkMarkStale
    /\ UNCHANGED <<skJobs, skKilled, skCancel, skPage, skTold>>

\* The row is loaded, then told to stop: at once while it was queued, otherwise by
\* cancel_requested, which the script's output makes the job look at.
SkCancelLoad(c) ==
    /\ c \in skCancel /\ c.seen = ""
    /\ skCancel' = IF skRuns[c.run].status \in SkOver THEN {}
                   ELSE {[c EXCEPT !.seen = skRuns[c.run].status]}
    /\ UNCHANGED <<skServer, skAsk, skPage, skTold>>
SkCancelSave(c) ==
    /\ c \in skCancel /\ c.seen # ""
    /\ skRuns' = [skRuns EXCEPT ![c.run].cancel = TRUE,
                                ![c.run].status = IF c.seen = "queued" THEN "cancelled" ELSE @]
    /\ skTold' = IF skJobs[c.run].at \in {"due", "loaded", "installs"}
                 THEN skTold \cup {c.run} ELSE skTold
    /\ skCancel' = {}
    /\ UNCHANGED <<skJobs, skKilled, skAsk, skPage>>

-----------------------------------------------------------------------------
(* The job.                                                                  *)

SkAt(n, at) == skJobs' = [skJobs EXCEPT ![n].at = at]
SkUnasked == UNCHANGED <<skKilled, skAsk, skCancel, skPage, skTold>>

SkJobLoad(n) ==
    /\ skJobs[n].at = "due"
    /\ IF skRuns[n].cancel
       THEN skRuns' = [skRuns EXCEPT ![n].status = "cancelled"] /\ SkAt(n, "over")
       ELSE UNCHANGED skRuns /\ SkAt(n, "loaded")
    /\ SkUnasked
SkJobBegin(n) ==
    /\ skJobs[n].at = "loaded"
    /\ skRuns' = [skRuns EXCEPT ![n].status = "running"]
    /\ SkAt(n, "installs")
    /\ SkUnasked

\* The script ends, is stopped after a line of output, or runs out of time; the
\* row is read again.
SkStops(n) == skRuns[n].cancel
SkGoesOn(n) == FALSE      \* mutant
SkHeeded(n) == SkStops(n)
SkJobEnd(n) ==
    /\ skJobs[n].at = "installs"
    /\ \E ok \in BOOLEAN :
           skJobs' = [skJobs EXCEPT ![n] = [at |-> "ends", ok |-> ok, stop |-> SkHeeded(n)]]
    /\ UNCHANGED skRuns
    /\ SkUnasked
SkVerdict(job) == IF job.stop THEN "cancelled" ELSE IF job.ok THEN "success" ELSE "failed"
SkJobSave(n) ==
    /\ skJobs[n].at = "ends"
    /\ skRuns' = [skRuns EXCEPT ![n].status = SkVerdict(skJobs[n])]
    /\ SkAt(n, "over")
    /\ SkUnasked

\* The process of the request is killed.  A row that is 'queued' then stays so.
SkKill(n) ==
    /\ skJobs[n].at \notin {"over", "killed"} /\ skKilled < SkMaxKills
    /\ skKilled' = skKilled + 1
    /\ SkAt(n, "killed")
    /\ UNCHANGED <<skRuns, skAsk, skCancel, skPage, skTold>>

-----------------------------------------------------------------------------
(* Reads, which the page repeats while its window is visible.                *)

SkRead ==
    /\ skRuns' = SkMarkStale
    /\ skList' = SkMarkStale
    /\ UNCHANGED <<skJobs, skKilled, skAsk, skCancel, skOpen, skDetail, skTold>>
SkReadDetail ==
    /\ skOpen # 0
    /\ skRuns' = SkMarkStale
    /\ skDetail' = SkMarkStale[skOpen].status
    /\ UNCHANGED <<skJobs, skKilled, skAsk, skCancel, skList, skOpen, skTold>>

SkWork(n) == SkJobLoad(n) \/ SkJobBegin(n) \/ SkJobEnd(n) \/ SkJobSave(n)
SkNext ==
    \/ \E b \in SkBundles : SkInstall(b)
    \/ \E n \in SkIds : SkRetry(n) \/ SkAskCancel(n) \/ SkOpenDetail(n) \/ SkWork(n) \/ SkKill(n)
    \/ \E r \in skAsk : SkQueue(r) \/ SkRefuse(r)
    \/ \E c \in skCancel : SkCancelLoad(c) \/ SkCancelSave(c)
    \/ SkCloseDetail \/ SkRead \/ SkReadDetail

-----------------------------------------------------------------------------
SkRow == [bundle : SkBundles, status : SkBusyStatus \cup SkOver, cancel : BOOLEAN]
SkJob == [at : {"due", "loaded", "installs", "ends", "over", "killed"}, ok : BOOLEAN, stop : BOOLEAN]
SkTypeOK ==
    /\ skRuns \in Seq(SkRow) /\ skJobs \in Seq(SkJob)
    /\ Len(skRuns) = Len(skJobs) /\ Len(skRuns) <= SkMaxRuns
    /\ \A r \in skAsk : r.bundle \in SkBundles
    /\ skCancel \subseteq [run : SkIds, seen : {""} \cup SkBusyStatus]
    /\ skTold \subseteq SkIds

\* Two scripts install one package together only if a run was told to stop: its
\* row says 'cancelled' at once, which lets the next install pass.
OneScriptPerBundle ==
    \A n, k \in SkIds :
        /\ n < k /\ skRuns[n].bundle = skRuns[k].bundle
        /\ {skJobs[n].at, skJobs[k].at} \subseteq {"installs", "ends"}
        => skRuns[n].cancel

\* A run told to stop before its job looked the last time is never shown as a
\* success, whatever the two saved over one another.
ToldNeverSucceeds == \A n \in skTold : skRuns[n].status # "success"

\* Why they hold: the row of a job that has not ended is busy or tells it to stop, so
\* that the check for a busy row finds every other; and a job that is told before it
\* looks the last time sees it.
SkAlive(n) == skJobs[n].at \notin {"over", "killed"}
SkAliveIsSeen ==
    \A n \in SkIds : SkAlive(n) => skRuns[n].cancel \/ skRuns[n].status \in SkBusyStatus
SkOlderIsTold ==
    \A n, k \in SkIds :
        n < k /\ skRuns[n].bundle = skRuns[k].bundle /\ SkAlive(n) => skRuns[n].cancel
SkToldIsHeeded ==
    /\ \A n \in SkIds : skRuns[n].status = "success" => skJobs[n].at = "over"
    /\ \A n \in skTold : skRuns[n].cancel /\ (skJobs[n].at = "ends" => skJobs[n].stop)
SkInv ==
    /\ SkTypeOK /\ SkAliveIsSeen /\ SkOlderIsTold
    /\ SkToldIsHeeded /\ ToldNeverSucceeds
=============================================================================
