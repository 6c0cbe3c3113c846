--------------------------- MODULE MCPanelServices ---------------------------
(***************************************************************************)
(* Parts of the server that share no state, for TLC: the orders of the     *)
(* store, the uploads of a backup, the limits of a package, the runs of a  *)
(* cron job, the updates of the panel itself, and the security page over   *)
(* its cached overview.  One part works in a behaviour; the others rest.   *)
(***************************************************************************)
EXTENDS StoreOrders, BackupUploads, HostingQuota, CronRuns, PanelUpdates, SecurityPage

CONSTANTS f, g

VARIABLE part

restVars == <<stVars, upVars, hqVars, crVars, puVars>>
servicesVars == <<part, restVars, seVars>>

\* A licence only matters to the changes of these queries: with one they can be
\* made, without it they are followed by nobody.  "rate" behaves as "ddos" does.
SeProOnly == {"ssh", "ddos"}

ServicesInit ==
    /\ part \in {"orders", "uploads", "quota", "cron", "update", "overview", "form", "scan"}
    /\ StInit
    /\ UpInit /\ (part # "uploads" => upStatus = "completed" /\ ~upJob)
    /\ HqInit /\ (part # "quota" => hqRows = {} /\ \A r \in HqRequests : hqFor[r] = 1)
    /\ CrInit
    /\ PuInit
    /\ SeInit /\ seFollowed # "rate" /\ (sePro <=> seFollowed \in SeProOnly)
              /\ (part # "overview" => seFollowed = "ssh")

Orders(A) == part = "orders" /\ A /\ UNCHANGED <<part, upVars, hqVars, crVars, puVars, seVars>>
Uploads(A) == part = "uploads" /\ A /\ UNCHANGED <<part, stVars, hqVars, crVars, puVars, seVars>>
Quota(A) == part = "quota" /\ A /\ UNCHANGED <<part, stVars, upVars, crVars, puVars, seVars>>
Cron(A) == part = "cron" /\ A /\ UNCHANGED <<part, stVars, upVars, hqVars, puVars, seVars>>
Update(A) == part = "update" /\ A /\ UNCHANGED <<part, stVars, upVars, hqVars, crVars, seVars>>
Overview(A) == part = "overview" /\ A /\ UNCHANGED <<part, restVars>>

ServicesNext ==
    \/ Orders(StNext) \/ Uploads(UpNext) \/ Quota(HqNext) \/ Cron(CrNext) \/ Update(PuNext)
    \/ Overview(SeOverviewNext)
    \/ part = "form" /\ (SeFormNext \/ SeRefreshNext) /\ UNCHANGED <<part, restVars>>
    \/ part = "scan" /\ (SeScanNext \/ SeRefreshNext) /\ UNCHANGED <<part, restVars>>

\* The fairness of every part.  As one part works, a weak fairness of each may
\* share a line: the disjunction is that of the part that works.
ServicesFairness ==
    /\ WF_servicesVars(Orders(StWorks(1)) \/ Uploads(UpReconciles) \/ Cron(CrRead)
                       \/ Update(PuRead(TRUE)) \/ Overview(SeExpire))
    /\ WF_servicesVars(Orders(StWorks(2)) \/ Uploads(UpWorks("job"))
                       \/ Cron(\E r \in CrRuns : CrFinish(r))
                       \/ Update(\E r \in PuRuns : PuWork(r)) \/ Overview(SeOverview))
    /\ WF_servicesVars(Orders(StPanelWorks(1)) \/ Uploads(UpWorks("reconciler"))
                       \/ Update(PuModalPolls)
                       \/ Overview(\E c \in seComputing : SeComputed(c)))
    /\ WF_servicesVars(Orders(StPanelWorks(2)) \/ Uploads(UpWorks("request"))
                       \/ Update(\E old \in BOOLEAN : PuCreate(old))
                       \/ Overview(SePoll("overview")))
    /\ WF_servicesVars(Orders(StAge) \/ Update(PuReadRun))
    /\ WF_servicesVars(Orders(StCron))
    /\ WF_servicesVars(Orders(StSynced))
    /\ WF_servicesVars(Orders(StReconcile("admin") \/ StPush("admin")))

ServicesSpec == ServicesInit /\ [][ServicesNext]_servicesVars /\ ServicesFairness

-----------------------------------------------------------------------------
\* A success that is told is one: an order the store calls completed has its
\* account on the panel, and a panel that is said to be updated is.
SuccessIsTrue == CompletedIsThere /\ UpdateShownIsInstalled

\* One execution of a cron job and one update of the panel are at work at a time,
\* whoever asks, and whatever was refused or killed before.
OneAtWork == OneExecution /\ OneUpdate

\* What the security page shows is what the server has, and what is ticked there
\* for the quarantine is on its list.
SecurityIsTrue == SecurityShownTrue /\ TickedIsListed

\* Nothing stays under way for ever: a paid order comes to rest, and as completed
\* when the panel has it; a backup does not stay "syncing" although the process
\* that uploads it dies; the cron log follows a run to its end; the panel does not
\* stay "updating" when the job of an update is killed; the security overview
\* catches up with every change although it is cached for a minute.
Due ==
    \/ part = "orders" /\ (StUnsettled \/ StUnfound)
    \/ part = "uploads" /\ UpSyncing
    \/ part = "cron" /\ CrFollowing
    \/ part = "update" /\ PuShownUpdating /\ ~PuCutOff
    \/ part = "overview" /\ SeBehind
WorkEnds == Due ~> ~Due
=============================================================================
