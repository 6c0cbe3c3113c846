----------------------------- MODULE Installer -----------------------------
(***************************************************************************)
(* The installer page: one-click installs run by a job of the panel, the   *)
(* list of runs the page polls, and the document root of the site shown in *)
(* the install guide.  A click on Install is refused only by what the list *)
(* in hand shows.                                                          *)
(***************************************************************************)
EXTENDS Integers, FiniteSets

CONSTANTS
    InSites,    \* sites of the account
    InMaxRuns   \* bound: installs created

InRuns == 1..InMaxRuns
InNoRuns == [r \in InRuns |-> "none"]
InIdle == -1
InSent == 0
InLive(s) == s \in {"queued", "running"}

VARIABLES
    inRuns,     \* server: run -> none, queued, running, success or failed
    inKnown,    \* the list in hand, as inRuns was when it was read
    inFetch,    \* reading the list: "none", "asked", or "read" with inAnswer
    inAnswer,   \*   under way
    inPost,     \* the install request: InIdle, InSent, or the run it created
    inActive,   \* activeRunId, or 0
    inSeen,     \* seenFinalRuns
    inEarly,    \* history: an install was clicked before the page saw the last one
    inSite,     \* domainId
    inRoot,     \* server: site -> "root" or "public"
    inListed,   \* cached domain list: site -> "root" or "public"
    inVariant,  \* docrootVariant, shown in the guide
    inDocPost,  \* at most one document root request under way
    inCrossed   \* history: a document root answer came after another site was picked

inRunVars == <<inRuns, inKnown, inFetch, inAnswer, inPost, inActive, inSeen, inEarly>>
inRootVars == <<inSite, inRoot, inListed, inVariant, inDocPost, inCrossed>>
inVars == <<inRunVars, inRootVars>>

InInit ==
    /\ inRuns = InNoRuns
    /\ inKnown = InNoRuns
    /\ inFetch = "asked"
    /\ inAnswer = InNoRuns
    /\ inPost = InIdle
    /\ inActive = 0
    /\ inSeen = {}
    /\ inEarly = FALSE
    /\ inSite \in InSites
    /\ inRoot = [s \in InSites |-> "root"]
    /\ inListed = inRoot
    /\ inVariant = "root"
    /\ inDocPost = <<>>
    /\ inCrossed = FALSE

-----------------------------------------------------------------------------
(* Installs.                                                                 *)

InCreated(runs) == {r \in InRuns : runs[r] # "none"}
InLatest(runs) == CHOOSE r \in InCreated(runs) : \A x \in InCreated(runs) : x <= r

\* activeRun: the run this page started, else the latest one while it is live.
InLatestLives == InCreated(inKnown) # {} /\ InLive(inKnown[InLatest(inKnown)])
InOwnRun == inActive # 0 /\ inKnown[inActive] # "none"
InOwnOnly == InOwnRun      \* mutant
InHasRunning == InOwnRun \/ InLatestLives

\* The Install button: site chosen, database chosen, not pending.
InClick ==
    /\ inPost = InIdle
    /\ ~InHasRunning
    /\ inPost' = InSent
    /\ inEarly' = (inEarly \/ InCreated(inRuns) # InCreated(inKnown))
    /\ UNCHANGED <<inRuns, inAnswer, inKnown, inFetch, inActive, inSeen, inRootVars>>

\* InstallerController.install inserts the run; the job runs after the answer,
\* or before it when the queue is synchronous.
InStore ==
    /\ inPost = InSent
    /\ \E r \in InRuns :
          /\ r = Cardinality(InCreated(inRuns)) + 1
          /\ inRuns' = [inRuns EXCEPT ![r] = "queued"]
          /\ inPost' = r
    /\ UNCHANGED <<inAnswer, inKnown, inFetch, inActive, inSeen, inEarly, inRootVars>>

InJobStep(r) ==
    /\ \/ inRuns[r] = "queued" /\ inRuns' = [inRuns EXCEPT ![r] = "running"]
       \/ /\ inRuns[r] = "running"
          /\ \E s \in {"success", "failed"} : inRuns' = [inRuns EXCEPT ![r] = s]
    /\ UNCHANGED <<inAnswer, inKnown, inFetch, inPost, inActive, inSeen, inEarly, inRootVars>>

\* onSuccess: the run is followed and the list read again (a read under way is
\* abandoned).  The button is no longer pending from here on.
InStarted ==
    /\ inPost \in InRuns
    /\ inRuns[inPost] \in {"queued", "success"}
    /\ inActive' = inPost
    /\ inPost' = InIdle
    /\ inFetch' = "asked"
    /\ inAnswer' = InNoRuns
    /\ UNCHANGED <<inRuns, inKnown, inSeen, inEarly, inRootVars>>

\* onError: a validation error, or a synchronous run that failed; only told.
InRefused ==
    /\ \/ inPost = InSent
       \/ inPost \in InRuns /\ inRuns[inPost] = "failed"
    /\ inPost' = InIdle
    /\ UNCHANGED <<inRuns, inAnswer, inKnown, inFetch, inActive, inSeen, inEarly, inRootVars>>

\* Every 8 s while the tab is visible.
InPoll ==
    /\ inFetch = "none"
    /\ inFetch' = "asked"
    /\ UNCHANGED <<inRuns, inAnswer, inKnown, inPost, inActive, inSeen, inEarly, inRootVars>>

InRead ==
    /\ inFetch = "asked"
    /\ inFetch' = "read"
    /\ inAnswer' = inRuns
    /\ UNCHANGED <<inRuns, inKnown, inPost, inActive, inSeen, inEarly, inRootVars>>

\* The list arrives; the end of the followed run is announced once and the
\* page stops following it.
InFollowedEnds(runs) ==
    inActive # 0 /\ runs[inActive] \in {"success", "failed"} /\ inActive \notin inSeen

InArrives ==
    /\ inFetch = "read"
    /\ inKnown' = inAnswer
    /\ inAnswer' = InNoRuns
    /\ inFetch' = "none"
    /\ IF InFollowedEnds(inAnswer)
       THEN inSeen' = inSeen \cup {inActive} /\ inActive' = 0
       ELSE UNCHANGED <<inSeen, inActive>>
    /\ UNCHANGED <<inRuns, inPost, inEarly, inRootVars>>

InReadFails ==
    /\ inFetch = "asked"
    /\ inFetch' = "none"
    /\ UNCHANGED <<inRuns, inAnswer, inKnown, inPost, inActive, inSeen, inEarly, inRootVars>>

\* The page is left and loaded again; its unload handler warns while a request
\* or an install is under way, and the warning about the request is heeded.
InReload ==
    /\ inPost = InIdle
    /\ inKnown' = InNoRuns
    /\ inFetch' = "asked"
    /\ inAnswer' = InNoRuns
    /\ inActive' = 0
    /\ inSeen' = {}
    /\ UNCHANGED <<inRuns, inPost, inEarly, inRootVars>>

-----------------------------------------------------------------------------
(* The document root of the guide.                                           *)

\* Picking a site, and the effect that shows its variant.
InPick(s) ==
    /\ s # inSite
    /\ inSite' = s
    /\ inVariant' = inListed[s]
    /\ UNCHANGED <<inRunVars, inRoot, inListed, inDocPost, inCrossed>>

InSetRoot(v) ==
    /\ inDocPost = <<>>
    /\ inVariant # v
    /\ inDocPost' = <<[site |-> inSite, variant |-> v]>>
    /\ UNCHANGED <<inRunVars, inSite, inRoot, inListed, inVariant, inCrossed>>

\* The variant is shown for whatever site is picked by now; the domain list is
\* read again, which runs the effect only if the picked site's entry changed.
InListAgain == inListed' = [inListed EXCEPT ![inDocPost[1].site] = inDocPost[1].variant]
InListKept == UNCHANGED inListed      \* mutant
InDomainsAfter == InListAgain

InRootSet ==
    /\ inDocPost # <<>>
    /\ inRoot' = [inRoot EXCEPT ![inDocPost[1].site] = inDocPost[1].variant]
    /\ inVariant' = inDocPost[1].variant
    /\ InDomainsAfter
    /\ inCrossed' = (inCrossed \/ inSite # inDocPost[1].site)
    /\ inDocPost' = <<>>
    /\ UNCHANGED <<inRunVars, inSite>>

InRootRefused ==
    /\ inDocPost # <<>>
    /\ inDocPost' = <<>>
    /\ UNCHANGED <<inRunVars, inSite, inRoot, inListed, inVariant, inCrossed>>

InRunNext ==
    \/ InClick \/ InStore \/ InStarted \/ InRefused
    \/ \E r \in InRuns : InJobStep(r)
    \/ InPoll \/ InRead \/ InArrives \/ InReadFails \/ InReload

InGuideNext ==
    \/ \E s \in InSites : InPick(s)
    \/ \E v \in {"root", "public"} : InSetRoot(v)
    \/ InRootSet \/ InRootRefused

InNext == InRunNext \/ InGuideNext

InSpec == InInit /\ [][InNext]_inVars

-----------------------------------------------------------------------------
\* Two installs run at once only if the second was clicked before the list had
\* shown the first: after a reload, a poll that failed or an answer of the
\* synchronous queue, the page finds the live run again.
OneInstall == inEarly \/ Cardinality({r \in InRuns : InLive(inRuns[r])}) <= 1

\* The document root the guide shows, and offers to change, is the one of the
\* site picked, unless an answer came after another site was picked.
RootOfPicked == inCrossed \/ inVariant = inRoot[inSite]

-----------------------------------------------------------------------------
(* The inductive invariant of the properties above.                          *)

InStatus == {"none", "queued", "running", "success", "failed"}
InTypeOK ==
    /\ {inRuns, inKnown, inAnswer} \subseteq [InRuns -> InStatus]
    /\ inFetch \in {"none", "asked", "read"}
    /\ inPost \in {InIdle, InSent} \cup InRuns
    /\ inEarly \in BOOLEAN /\ inCrossed \in BOOLEAN
    /\ inSite \in InSites
    /\ inRoot \in [InSites -> {"root", "public"}]
    /\ inDocPost = <<>> \/ \E s \in InSites, v \in {"root", "public"} :
                              inDocPost = <<[site |-> s, variant |-> v]>>

\* Runs are created in the order of their numbers, and a list shows of each what it was.
InInTurn == \A r, x \in InRuns : x < r /\ inRuns[r] # "none" => inRuns[x] # "none"
InWas(runs) ==
    \A r \in InRuns : runs[r] # "none" =>
        inRuns[r] # "none" /\ (InLive(inRuns[r]) => InLive(runs[r]))
\* Unless one was clicked early, only the latest run lives, and none while one is asked for.
InLatestOnly ==
    ~inEarly => /\ \A r, x \in InRuns : x < r /\ inRuns[r] # "none" => ~InLive(inRuns[x])
                /\ inPost = InSent => \A r \in InRuns : ~InLive(inRuns[r])

InInv == /\ InTypeOK /\ InInTurn /\ InWas(inKnown) /\ InWas(inAnswer) /\ InLatestOnly
         /\ inListed = inRoot /\ RootOfPicked
=============================================================================
