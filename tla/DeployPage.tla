----------------------------- MODULE DeployPage -----------------------------
(***************************************************************************)
(* The deploy page and the runs it starts: the configuration of the site   *)
(* picked, in the cache and in the form; requests whose answers may find   *)
(* another site picked; and deployments, which run in the process of their *)
(* request after its answer, with no lock between two in one document root.*)
(***************************************************************************)
EXTENDS Integers, Sequences, FiniteSets

CONSTANTS
    DpSites,     \* domains
    DpNone,      \* no site picked, no repository
    DpMaxAsks,   \* bound: requests of the page
    DpMaxRuns    \* bound: deployments and rollbacks

\* A configuration is told by the site its repository was meant for.
VARIABLES
    dpConf,     \* server: site -> whose repository it has, or DpNone
    dpOrigin,   \* newest commit at the repository, 1 or 2
    dpHead,     \* site -> commit checked out in its document root
    dpRuns,     \* rows: [site, kind, target, status, commit], and at: how far it got
    dpLast,     \* site -> its run begun last, or 0
    dpCache,    \* site -> [read: "none", "fresh" or "stale", conf]
    dpPicked,   \* domainId
    dpForm,     \* whose repository the form has, or DpNone
    dpOpen,     \* run whose output is shown, or 0
    dpAsked,    \* requests: [kind, site, form, done]
    dpAsks,     \* requests so far
    dpMissed,   \* history: sites whose configuration no answer has had read anew
    dpLate,     \* history: a form was filled with the answer for another site
    dpMet       \* history: sites two runs of which were under way together

dpServer == <<dpConf, dpOrigin, dpHead, dpRuns, dpLast>>
dpPage == <<dpCache, dpPicked, dpForm, dpOpen>>
dpHistory == <<dpMissed, dpLate, dpMet>>
dpVars == <<dpServer, dpPage, dpAsked, dpAsks, dpHistory>>

DpInit ==
    /\ dpConf \in [DpSites -> DpSites \cup {DpNone}]
    /\ \A d \in DpSites : dpConf[d] \in {d, DpNone}
    /\ dpOrigin = 1
    /\ dpHead = [d \in DpSites |-> 1]
    /\ dpRuns = <<>>
    /\ dpLast = [d \in DpSites |-> 0]
    /\ dpCache = [d \in DpSites |-> [read |-> "none", conf |-> DpNone]]
    /\ dpPicked \in DpSites
    /\ dpForm = DpNone /\ dpOpen = 0
    /\ dpAsked = {} /\ dpAsks = 0
    /\ dpMissed = {} /\ dpLate = FALSE /\ dpMet = {}

-----------------------------------------------------------------------------
(* The configuration of the site picked.                                     *)

\* What is cached of the site fills the form; with nothing there it stays.
DpPick(d) ==
    /\ d # dpPicked /\ dpOpen = 0
    /\ dpPicked' = d
    /\ dpForm' = IF d = DpNone \/ dpCache[d].read = "none" THEN dpForm ELSE dpCache[d].conf
    /\ UNCHANGED <<dpServer, dpCache, dpOpen, dpAsked, dpAsks, dpHistory>>

\* Only a configuration that differs from the one before fills the form again.
DpRead ==
    /\ dpPicked # DpNone /\ dpCache[dpPicked].read # "fresh"
    /\ dpCache' = [dpCache EXCEPT ![dpPicked] = [read |-> "fresh", conf |-> dpConf[dpPicked]]]
    /\ dpForm' = IF dpCache[dpPicked].read = "stale" /\ dpCache[dpPicked].conf = dpConf[dpPicked]
                 THEN dpForm ELSE dpConf[dpPicked]
    /\ UNCHANGED <<dpServer, dpPicked, dpOpen, dpAsked, dpAsks, dpHistory>>

DpFormShown == dpPicked # DpNone /\ dpOpen = 0
DpType ==
    /\ DpFormShown /\ dpCache[dpPicked].read # "none"
    /\ dpForm' = dpPicked
    /\ UNCHANGED <<dpServer, dpCache, dpPicked, dpOpen, dpAsked, dpAsks, dpHistory>>

-----------------------------------------------------------------------------
(* Requests.                                                                 *)

DpConfigKnown == dpCache[dpPicked].read # "none"
DpKnownOrNot == TRUE      \* mutant
DpSavable == DpConfigKnown

DpDeployable == dpCache[dpPicked].read # "none" /\ dpCache[dpPicked].conf # DpNone
DpOffered(kind) ==
    CASE kind = "save" -> DpSavable
      [] kind = "rotate" -> DpConfigKnown
      [] kind = "run" -> DpDeployable
      [] kind = "rollback" -> TRUE

DpAsk(kind) ==
    /\ DpFormShown /\ dpAsks < DpMaxAsks
    /\ DpOffered(kind)
    /\ \A r \in dpAsked : r.kind # kind
    /\ dpAsked' = dpAsked \cup {[kind |-> kind, site |-> dpPicked, form |-> dpForm, done |-> FALSE]}
    /\ dpAsks' = dpAsks + 1
    /\ UNCHANGED <<dpServer, dpPage, dpHistory>>

DpDone(r) == dpAsked' = (dpAsked \ {r}) \cup {[r EXCEPT !.done = TRUE]}

\* "rotate" writes the webhook's token only.
DpSave(r) ==
    /\ r \in dpAsked /\ ~r.done /\ r.kind \in {"save", "rotate"}
    /\ dpConf' = IF r.kind = "save" THEN [dpConf EXCEPT ![r.site] = r.form] ELSE dpConf
    /\ DpDone(r)
    /\ UNCHANGED <<dpOrigin, dpHead, dpRuns, dpLast, dpPage, dpAsks, dpHistory>>

DpBegin(d, kind, target) ==
    /\ Len(dpRuns) < DpMaxRuns
    /\ dpRuns' = Append(dpRuns, [site |-> d, kind |-> kind, target |-> target, status |-> "queued",
                                 commit |-> 0, at |-> "due"])

\* A rollback goes to the commit of the latest successful run.
DpSucceeded(d) == {n \in 1..Len(dpRuns) : dpRuns[n].site = d /\ dpRuns[n].status = "success"}
DpLatest(d, n) == n \in DpSucceeded(d) /\ \A k \in DpSucceeded(d) : k <= n
DpQueue(r) ==
    /\ r \in dpAsked /\ ~r.done /\ dpConf[r.site] # DpNone
    /\ \/ r.kind = "run" /\ DpBegin(r.site, "deploy", 0)
       \/ /\ r.kind = "rollback"
          /\ \E n \in 1..Len(dpRuns) :
                 DpLatest(r.site, n) /\ DpBegin(r.site, "rollback", dpRuns[n].commit)
    /\ DpDone(r)
    /\ UNCHANGED <<dpConf, dpOrigin, dpHead, dpLast, dpPage, dpAsks, dpHistory>>

\* A push to the repository; its webhook may start a deployment.
DpPush ==
    /\ dpOrigin = 1
    /\ dpOrigin' = 2
    /\ UNCHANGED <<dpConf, dpHead, dpRuns, dpLast, dpPage, dpAsked, dpAsks, dpHistory>>
DpWebhook(d) ==
    /\ dpConf[d] # DpNone /\ dpOrigin = 2
    /\ DpBegin(d, "deploy", 0)
    /\ UNCHANGED <<dpConf, dpOrigin, dpHead, dpLast, dpPage, dpAsked, dpAsks, dpHistory>>

-----------------------------------------------------------------------------
(* A run.                                                                    *)

DpAlive(n) == dpRuns[n].at \in {"begun", "checked out"}
DpStart(n) ==
    /\ dpRuns[n].at = "due"
    /\ dpRuns' = [dpRuns EXCEPT ![n].status = "running", ![n].at = "begun"]
    /\ dpLast' = [dpLast EXCEPT ![dpRuns[n].site] = n]
    /\ dpMet' = IF \E k \in 1..Len(dpRuns) : DpAlive(k) /\ dpRuns[k].site = dpRuns[n].site
                THEN dpMet \cup {dpRuns[n].site} ELSE dpMet
    /\ UNCHANGED <<dpConf, dpOrigin, dpHead, dpPage, dpAsked, dpAsks, dpMissed, dpLate>>

\* git pull, or git reset --hard to the target.
DpCheckOut(n) ==
    /\ dpRuns[n].at = "begun"
    /\ dpRuns' = [dpRuns EXCEPT ![n].at = "checked out", ![n].commit = dpHead[dpRuns[n].site]]
    /\ dpHead' = [dpHead EXCEPT ![dpRuns[n].site] =
                      IF dpRuns[n].kind = "rollback" THEN dpRuns[n].target ELSE dpOrigin]
    /\ UNCHANGED <<dpConf, dpOrigin, dpLast, dpPage, dpAsked, dpAsks, dpHistory>>

\* The commit is asked of git once everything is built.
DpCommitAtEnd(n) ==
    IF dpRuns[n].kind = "rollback" THEN dpRuns[n].target ELSE dpHead[dpRuns[n].site]
DpCommitBefore(n) == dpRuns[n].commit      \* mutant: asked before the pull
DpCommit(n) == DpCommitAtEnd(n)

DpSucceeds(n) ==
    /\ dpRuns[n].at = "checked out"
    /\ dpRuns' = [dpRuns EXCEPT ![n].status = "success", ![n].at = "over", ![n].commit = DpCommit(n)]
    /\ UNCHANGED <<dpConf, dpOrigin, dpHead, dpLast, dpPage, dpAsked, dpAsks, dpHistory>>

\* It fails, or its process is killed and the row stays 'running' or 'queued'.
DpEndsBadly(n) ==
    /\ dpRuns[n].at # "over"
    /\ \/ DpAlive(n) /\ dpRuns' = [dpRuns EXCEPT ![n].status = "failed", ![n].at = "over",
                                                 ![n].commit = 0]
       \/ dpRuns' = [dpRuns EXCEPT ![n].at = "over", ![n].commit = 0]
    /\ UNCHANGED <<dpConf, dpOrigin, dpHead, dpLast, dpPage, dpAsked, dpAsks, dpHistory>>

\* The dialog of a run, which keeps the row as it was when it was opened.
DpOpenRun(n) ==
    /\ dpOpen = 0 /\ dpRuns[n].site = dpPicked
    /\ dpOpen' = n
    /\ UNCHANGED <<dpServer, dpCache, dpPicked, dpForm, dpAsked, dpAsks, dpHistory>>
DpCloseRun ==
    /\ dpOpen # 0
    /\ dpOpen' = 0
    /\ UNCHANGED <<dpServer, dpCache, dpPicked, dpForm, dpAsked, dpAsks, dpHistory>>

-----------------------------------------------------------------------------
(* Answers: the site picked by then is read anew, and the answer to a save   *)
(* fills the form whatever site it was for.                                  *)

DpForgotten == [d \in DpSites |-> IF d = dpPicked /\ dpCache[d].read = "fresh"
                                  THEN [dpCache[d] EXCEPT !.read = "stale"] ELSE dpCache[d]]
DpKept == dpCache      \* mutant
DpForget == DpForgotten

DpAnswered(r) ==
    /\ r \in dpAsked /\ r.done
    /\ dpAsked' = dpAsked \ {r}
    /\ dpCache' = IF r.kind \in {"save", "rotate"} THEN DpForget ELSE dpCache
    /\ dpForm' = IF r.kind = "save" THEN r.form ELSE dpForm
    /\ dpLate' = (dpLate \/ (r.kind = "save" /\ r.site # dpPicked))
    /\ dpMissed' = IF r.kind = "save" /\ r.site # dpPicked THEN dpMissed \cup {r.site} ELSE dpMissed
    /\ UNCHANGED <<dpServer, dpPicked, dpOpen, dpAsks, dpMet>>
\* A failure, or an answer that is lost after the change.
DpFails(r) ==
    /\ r \in dpAsked
    /\ dpAsked' = dpAsked \ {r}
    /\ dpMissed' = IF r.done THEN dpMissed \cup {r.site} ELSE dpMissed
    /\ UNCHANGED <<dpServer, dpPage, dpAsks, dpLate, dpMet>>

-----------------------------------------------------------------------------
\* The configurations of several sites, and the runs of the site picked.
DpConfigNext ==
    \/ DpRead \/ DpType
    \/ \E d \in DpSites \cup {DpNone} : DpPick(d)
    \/ \E kind \in {"save", "rotate"} : DpAsk(kind)
    \/ \E r \in dpAsked : DpSave(r) \/ DpAnswered(r) \/ DpFails(r)
DpRunNext ==
    \/ DpRead \/ DpPush \/ DpCloseRun
    \/ \E d \in DpSites : DpWebhook(d)
    \/ \E kind \in {"run", "rollback"} : DpAsk(kind)
    \/ \E r \in dpAsked : DpQueue(r) \/ DpAnswered(r) \/ DpFails(r)
    \/ \E n \in 1..Len(dpRuns) :
           DpStart(n) \/ DpCheckOut(n) \/ DpSucceeds(n) \/ DpEndsBadly(n) \/ DpOpenRun(n)

-----------------------------------------------------------------------------
\* With nothing under way for a site, what its cache takes for fresh is its
\* configuration, unless an answer came while another site was picked or got lost.
DeployConfigTrue ==
    \A d \in DpSites \ dpMissed :
        dpCache[d].read = "fresh" /\ (\A r \in dpAsked : r.site # d) => dpCache[d].conf = dpConf[d]

\* A site deploys from the repository that was typed for it, unless the answer to
\* a save filled the form while another site was picked.
DeploysOwnRepository == ~dpLate => \A d \in DpSites : dpConf[d] \in {d, DpNone}

\* When the run of a site that was begun last succeeded, its row names the commit
\* that is in the document root, unless two of its runs were under way together.
LiveIsRecorded ==
    \A d \in DpSites \ dpMet :
        dpLast[d] # 0 /\ dpRuns[dpLast[d]].status = "success"
        => dpHead[d] = dpRuns[dpLast[d]].commit

-----------------------------------------------------------------------------
(* Why they hold.                                                            *)

DpOrNone == DpSites \cup {DpNone}
DpRow == [site : DpSites, kind : {"deploy", "rollback"}, target : Nat,
          status : {"queued", "running", "success", "failed"}, commit : Nat,
          at : {"due", "begun", "checked out", "over"}]
DpRequest == [kind : {"save", "rotate", "run", "rollback"}, site : DpSites, form : DpOrNone,
              done : BOOLEAN]
DpCached == [read : {"none", "fresh", "stale"}, conf : DpOrNone]
DpConfigTypes ==
    /\ dpConf \in [DpSites -> DpOrNone]
    /\ dpCache \in [DpSites -> DpCached]
    /\ dpPicked \in DpOrNone /\ dpForm \in DpOrNone
    /\ dpAsked \subseteq DpRequest
    /\ dpMissed \subseteq DpSites /\ dpLate \in BOOLEAN
DpRunTypes ==
    /\ dpOrigin \in Nat /\ dpHead \in [DpSites -> Nat]
    /\ dpRuns \in Seq(DpRow)
    /\ dpLast \in [DpSites -> Nat] /\ dpMet \subseteq DpSites

\* Wherever a configuration is on its way to a site, it is the site's or empty:
\* in the cache, in a request to save and in the form, once its site has been read.
DpOwnOnly ==
    /\ \A d \in DpSites : dpConf[d] \in {d, DpNone} /\ dpCache[d].conf \in {d, DpNone}
    /\ \A r \in dpAsked : r.kind = "save" => r.form \in {r.site, DpNone}
    /\ dpPicked # DpNone =>
           (dpCache[dpPicked].read # "none" => dpForm \in {dpPicked, DpNone})

\* A fresh configuration is the site's until a save has been done.
DpFreshIsTrue ==
    \A d \in DpSites \ dpMissed :
        /\ dpCache[d].read = "fresh"
        /\ \A r \in dpAsked : r.site = d /\ r.kind = "save" => ~r.done
        => dpCache[d].conf = dpConf[d]

\* What is under way is running, and where no two runs met it is the one begun last
\* and the commit of a rollback that was checked out is there.
DpLastOfSite == \A d \in DpSites :
    dpLast[d] # 0 => dpLast[d] \in 1..Len(dpRuns) /\ dpRuns[dpLast[d]].site = d
DpRunsInTurn == \A n \in 1..Len(dpRuns) :
    /\ dpRuns[n].status = "success" => dpRuns[n].at = "over"
    /\ DpAlive(n) => dpRuns[n].status = "running"
    /\ DpAlive(n) /\ dpRuns[n].site \notin dpMet =>
           /\ dpLast[dpRuns[n].site] = n
           /\ dpRuns[n].at = "checked out" /\ dpRuns[n].kind = "rollback" =>
                  dpHead[dpRuns[n].site] = dpRuns[n].target

DpInv == /\ DpConfigTypes /\ DpRunTypes
         /\ ~dpLate => DpOwnOnly
         /\ DpFreshIsTrue
         /\ DpLastOfSite /\ DpRunsInTurn /\ LiveIsRecorded
=============================================================================
