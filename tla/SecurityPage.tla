---------------------------- MODULE SecurityPage ----------------------------
(***************************************************************************)
(* The security page: changes of the server's protections, each refreshing *)
(* the queries it names; the overview, which the panel caches for a minute *)
(* in front of the engine; the settings forms filled from a polled query;  *)
(* and the malware scan with its quarantine.                               *)
(***************************************************************************)
EXTENDS Integers, FiniteSets

CONSTANTS
    SeFiles,      \* files a scan may find
    SeMaxChanges  \* bound: changes asked for, values typed, scans started

VARIABLES
    seTab,       \* the tab shown
    sePro,       \* a Pro licence is valid
    seFollowed,  \* the query followed beside the overview
    seFacts,     \* engine: query -> version of what it reports
    seShown,     \* query -> version the page shows, or -1
    seStale,     \* queries to be read when their tab is shown
    sePanel,     \* panel cache: version of the overview, or -1
    seComputing, \* overview requests in the panel: [fact, mine]
    seAsked,     \* changes under way: [kind, done]
    seAsks,      \* bound counter
    seCrossed,   \* history: a change met an overview request under way, or its
                 \*   answer was lost
    seForm,      \* [value, typed] of the settings form followed
    seServer,    \* engine: value of those settings
    seSeed,      \* value in the query's cache, or 0
    seInfected,  \* server: infected files where they were found
    seList,      \* infected files listed
    seCount,     \* number of detections shown, or -1
    seSelected,  \* files ticked for quarantine
    seScans,     \* scan under way: "none", "running", or "again" behind one lost
    seQuarantine \* [paths, moved, done]: quarantine under way

seOverviewVars == <<seTab, sePro, seFollowed, seFacts, seShown, seStale, sePanel, seComputing,
                    seAsked, seCrossed>>
seFormVars == <<seForm, seServer, seSeed>>
seScanVars == <<seInfected, seList, seCount, seSelected, seScans, seQuarantine>>
seVars == <<seOverviewVars, seAsks, seFormVars, seScanVars>>

SeTabs == {"advisor", "firewall", "ssh", "server", "website", "brute", "attack"}
SeQueries == {"overview", "ssh", "fim", "rules", "rate", "intel", "ddos"}
SeTabOf == [q \in SeQueries |->
    CASE q = "ssh" -> "ssh" [] q = "fim" -> "server" [] q = "rules" -> "website"
      [] q = "overview" -> "any" [] OTHER -> "attack"]
SeNoQuarantine == [paths |-> {}, moved |-> {}, done |-> FALSE]

SeInit ==
    /\ seTab = "advisor"
    /\ sePro \in BOOLEAN
    /\ seFacts = [q \in SeQueries |-> 0]
    /\ seShown = [q \in SeQueries |-> -1]
    /\ seFollowed \in SeQueries \ {"overview"}
    /\ seStale = {"overview", seFollowed}
    /\ sePanel = -1
    /\ seComputing = {}
    /\ seAsked = {}
    /\ seAsks = 0
    /\ seCrossed = FALSE
    /\ seForm = [value |-> 0, typed |-> FALSE]
    /\ seServer = 1
    /\ seSeed = 0
    /\ seInfected = SeFiles
    /\ seList = {}
    /\ seCount = -1
    /\ seSelected = {}
    /\ seScans = "none"
    /\ seQuarantine = SeNoQuarantine

-----------------------------------------------------------------------------
(* What each tab offers an administrator who may write.                      *)

SeShields == {"bootstrap"}
SeFirewallTab == IF seTab = "firewall" THEN {"firewall"} ELSE {}
SeSshTab == IF seTab = "ssh" /\ sePro THEN {"ssh"} ELSE {}
SeServerTab == IF seTab # "server" THEN {}
               ELSE {"toggle", "install", "baseline"}
                    \cup (IF seShown["fim"] > 0 THEN {"fimscan"} ELSE {})
SeWebsiteTab == IF seTab = "website" THEN {"toggle", "install", "addrule", "droprule"} ELSE {}
SeBruteTab == IF seTab = "brute" THEN {"toggle", "install", "jail"} ELSE {}
SeAttackTab == IF seTab # "attack" THEN {}
               ELSE {"intel"} \cup IF sePro THEN {"rate", "ddos"} ELSE {}
\* The query a change is about, and the queries its success asks for again.
SeAbout(kind) == CASE kind \in {"ssh", "rate", "intel", "ddos"} -> kind
                   [] kind \in {"baseline", "fimscan"} -> "fim"
                   [] kind \in {"addrule", "droprule"} -> "rules"
                   [] OTHER -> "overview"
SeOffered == {kind \in SeShields \cup SeFirewallTab \cup SeSshTab \cup SeServerTab
                           \cup SeWebsiteTab \cup SeBruteTab \cup SeAttackTab :
                 SeAbout(kind) \in {"overview", seFollowed}}
SeAboutAndOverview(kind) == {SeAbout(kind)} \cup
    IF kind \in {"rate", "intel", "ddos", "addrule", "droprule"} THEN {} ELSE {"overview"}
SeOverviewOnly(kind) == {"overview"}      \* mutant
SeRefreshed(kind) == SeAboutAndOverview(kind)

-----------------------------------------------------------------------------
(* Changes and queries.                                                      *)

SeGoTo(tab) ==
    /\ tab # seTab
    /\ seTab' = tab
    /\ UNCHANGED <<sePro, seFollowed, seFacts, seShown, seStale, sePanel, seComputing, seAsked, seAsks,
                   seCrossed, seFormVars, seScanVars>>

SeAsk(kind) ==
    /\ kind \in SeOffered /\ seAsks < SeMaxChanges
    /\ seShown["overview"] # -1
    /\ \A r \in seAsked : r.kind # kind
    /\ seAsked' = seAsked \cup {[kind |-> kind, done |-> FALSE]}
    /\ seAsks' = seAsks + 1
    /\ UNCHANGED <<seTab, sePro, seFollowed, seFacts, seShown, seStale, sePanel, seComputing, seCrossed,
                   seFormVars, seScanVars>>

\* The engine makes the change; then the panel forgets the overview it cached.
SeForgotten == -1
SeStillCached == sePanel      \* mutant
SePanelAfter == SeForgotten

SeCarriedOut(r) ==
    /\ r \in seAsked /\ ~r.done
    /\ seFacts' = [q \in SeQueries |-> IF q \in SeAboutAndOverview(r.kind)
                                       THEN seFacts[q] + 1 ELSE seFacts[q]]
    /\ sePanel' = SePanelAfter
    /\ seCrossed' = (seCrossed \/ seComputing # {})
    /\ seAsked' = (seAsked \ {r}) \cup {[r EXCEPT !.done = TRUE]}
    /\ UNCHANGED <<seTab, sePro, seFollowed, seShown, seStale, seComputing, seAsks, seFormVars,
                   seScanVars>>

\* A read on its way is dropped by the page, not by the panel.
SeInvalidate(qs) ==
    /\ seStale' = seStale \cup qs
    /\ seComputing' = IF "overview" \in qs THEN {[c EXCEPT !.mine = FALSE] : c \in seComputing}
                      ELSE seComputing

SeAnswered(r) ==
    /\ r \in seAsked /\ r.done
    /\ seAsked' = seAsked \ {r}
    /\ SeInvalidate(SeRefreshed(r.kind))
    /\ UNCHANGED <<seTab, sePro, seFollowed, seFacts, seShown, sePanel, seAsks, seCrossed,
                   seFormVars, seScanVars>>

SeFails(r) ==
    /\ r \in seAsked
    /\ seAsked' = seAsked \ {r}
    /\ seCrossed' = (seCrossed \/ r.done)
    /\ UNCHANGED <<seTab, sePro, seFollowed, seFacts, seShown, seStale, sePanel, seComputing, seAsks,
                   seFormVars, seScanVars>>

\* Polling, while the window is visible; the other queries only on their tab.
SeOnTab == {"fim", "rules", "rate", "intel"}      \* mutant
SePolled == {"overview", "fim", "rules", "rate", "intel"}
SePoll(q) ==
    /\ q \in SePolled \ seStale /\ SeTabOf[q] \in {"any", seTab}
    /\ \A c \in seComputing : ~c.mine
    /\ seStale' = seStale \cup {q}
    /\ UNCHANGED <<seTab, sePro, seFollowed, seFacts, seShown, sePanel, seComputing, seAsked, seAsks, seCrossed,
                   seFormVars, seScanVars>>

SeRead(q) ==
    /\ q \in seStale \ {"overview"} /\ SeTabOf[q] = seTab
    /\ seStale' = seStale \ {q}
    /\ seShown' = [seShown EXCEPT ![q] = seFacts[q]]
    /\ UNCHANGED <<seTab, sePro, seFollowed, seFacts, sePanel, seComputing, seAsked, seAsks, seCrossed,
                   seFormVars, seScanVars>>

\* The panel answers the overview from its cache, or asks the engine.
SeOverview ==
    /\ "overview" \in seStale /\ Cardinality(seComputing) < 2
    /\ seStale' = seStale \ {"overview"}
    /\ IF sePanel # -1
       THEN seShown' = [seShown EXCEPT !["overview"] = sePanel] /\ UNCHANGED seComputing
       ELSE seComputing' = seComputing \cup {[fact |-> seFacts["overview"], mine |-> TRUE]}
            /\ UNCHANGED seShown
    /\ UNCHANGED <<seTab, sePro, seFollowed, seFacts, sePanel, seAsked, seAsks, seCrossed,
                   seFormVars, seScanVars>>

\* What the engine said is cached, however old it is by now.
SeComputed(c) ==
    /\ c \in seComputing
    /\ seComputing' = seComputing \ {c}
    /\ sePanel' = c.fact
    /\ seShown' = IF c.mine THEN [seShown EXCEPT !["overview"] = c.fact] ELSE seShown
    /\ UNCHANGED <<seTab, sePro, seFollowed, seFacts, seStale, seAsked, seAsks, seCrossed,
                   seFormVars, seScanVars>>

SeExpire ==
    /\ sePanel # -1
    /\ sePanel' = -1
    /\ UNCHANGED <<seTab, sePro, seFollowed, seFacts, seShown, seStale, seComputing, seAsked, seAsks, seCrossed,
                   seFormVars, seScanVars>>

-----------------------------------------------------------------------------
(* The settings forms: jail times, rate limit profile, intelligence policy.  *)

\* The effect that fills the form runs when the cached settings change; a poll
\* that brings the same settings keeps the cached object.
SeOnChange(v) == IF v # seSeed THEN [value |-> v, typed |-> FALSE] ELSE seForm
SeOnAnswer(v) == [value |-> v, typed |-> FALSE]      \* mutant
SeFilled(v) == SeOnChange(v)

SeFormRead ==
    /\ seSeed' = seServer
    /\ seForm' = SeFilled(seServer)
    /\ UNCHANGED <<seServer, seAsks, seOverviewVars, seScanVars>>

SeFormType ==
    /\ seSeed # 0 /\ seAsks < SeMaxChanges
    /\ seAsks' = seAsks + 1
    /\ seForm' = [value |-> seAsks + 2, typed |-> TRUE]
    /\ UNCHANGED <<seServer, seSeed, seOverviewVars, seScanVars>>

\* Saved, by this page or another administrator; the next read brings it here.
SeFormSave ==
    /\ seServer' \in {seForm.value, 9}
    /\ seServer' # seServer /\ seServer' # 0
    /\ UNCHANGED <<seForm, seSeed, seAsks, seOverviewVars, seScanVars>>

-----------------------------------------------------------------------------
(* Scan and quarantine.                                                      *)

SeScan ==
    /\ seScans = "none" /\ seAsks < SeMaxChanges
    /\ seAsks' = seAsks + 1
    /\ seScans' = "running"
    /\ seCount' = -1 /\ seList' = {} /\ seSelected' = {}
    /\ UNCHANGED <<seInfected, seQuarantine, seOverviewVars, seFormVars>>

\* An answer brings what the scan found; an error may bring a part of it, and
\* leaves the ticks alone.
SeScanAnswered(ok) ==
    /\ seScans = "running"
    /\ seScans' = "none"
    /\ \E found \in (IF ok THEN {seInfected} ELSE SUBSET seInfected) :
          seList' = found /\ seCount' = Cardinality(found)
    /\ seSelected' = IF ok THEN {} ELSE seSelected
    /\ UNCHANGED <<seInfected, seQuarantine, seAsks, seOverviewVars, seFormVars>>

SeScanFails ==
    /\ seScans = "running"
    /\ seScans' = "none"
    /\ UNCHANGED <<seInfected, seList, seCount, seSelected, seQuarantine, seAsks,
                   seOverviewVars, seFormVars>>

SeTick(f) ==
    /\ f \in seList /\ seCount # -1
    /\ seSelected' = IF f \in seSelected THEN seSelected \ {f} ELSE seSelected \cup {f}
    /\ UNCHANGED <<seInfected, seList, seCount, seScans, seQuarantine, seAsks, seOverviewVars,
                   seFormVars>>

SeSelectAll ==
    /\ seList # {} /\ seCount # -1
    /\ seSelected' = IF Cardinality(seSelected) = Cardinality(seList) THEN {} ELSE seList
    /\ UNCHANGED <<seInfected, seList, seCount, seScans, seQuarantine, seAsks, seOverviewVars,
                   seFormVars>>

SeQuarantineSent ==
    /\ seSelected # {} /\ seQuarantine = SeNoQuarantine /\ seCount # -1
    /\ seQuarantine' = [SeNoQuarantine EXCEPT !.paths = seSelected]
    /\ UNCHANGED <<seInfected, seList, seCount, seSelected, seScans, seAsks, seOverviewVars,
                   seFormVars>>

SeMoved ==
    /\ seQuarantine.paths # {} /\ ~seQuarantine.done
    /\ seQuarantine' = [seQuarantine EXCEPT !.done = TRUE, !.moved = seQuarantine.paths \cap seInfected]
    /\ seInfected' = seInfected \ seQuarantine.paths
    /\ UNCHANGED <<seList, seCount, seSelected, seScans, seAsks, seOverviewVars, seFormVars>>

SeTicksGone == {}
SeTicksKept == seSelected      \* mutant
SeTicksAfter == SeTicksGone

\* The files moved leave the list, and the count is lowered by their number.
SeQuarantined ==
    /\ seQuarantine.done
    /\ seQuarantine' = SeNoQuarantine
    /\ seList' = seList \ seQuarantine.moved
    /\ seSelected' = SeTicksAfter
    /\ seCount' = IF seCount = -1 THEN -1
                  ELSE IF seCount > Cardinality(seQuarantine.moved)
                       THEN seCount - Cardinality(seQuarantine.moved) ELSE 0
    /\ UNCHANGED <<seInfected, seScans, seAsks, seOverviewVars, seFormVars>>

SeQuarantineFails ==
    /\ seQuarantine # SeNoQuarantine
    /\ seQuarantine' = SeNoQuarantine
    /\ UNCHANGED <<seInfected, seList, seCount, seSelected, seScans, seAsks, seOverviewVars,
                   seFormVars>>

-----------------------------------------------------------------------------
\* The overview is polled whatever else is done; a query is followed, and the
\* changes are made, when they are what is looked at.
SeRefreshNext ==
    \/ SeOverview \/ SeExpire \/ SePoll("overview") \/ SeRead("overview")
    \/ \E c \in seComputing : SeComputed(c)

SeOverviewNext ==
    \/ SeRefreshNext
    \/ \E tab \in SeTabs : SeGoTo(tab)
    \/ \E kind \in SeOffered : SeAsk(kind)
    \/ \E r \in seAsked : SeCarriedOut(r) \/ SeAnswered(r) \/ SeFails(r)
    \/ SePoll(seFollowed) \/ SeRead(seFollowed)

SeFormNext == SeFormRead \/ SeFormType \/ SeFormSave

SeScanNext ==
    \/ SeScan \/ SeScanFails \/ SeSelectAll \/ SeQuarantineSent \/ SeMoved \/ SeQuarantined \/ SeQuarantineFails
    \/ \E ok \in BOOLEAN : SeScanAnswered(ok)
    \/ \E f \in SeFiles : SeTick(f)

\* Answers come, the cached overview expires, and the page polls.
SeFairness ==
    /\ WF_seVars(SeExpire)
    /\ WF_seVars(SeOverview)
    /\ WF_seVars(\E c \in seComputing : SeComputed(c))
    /\ WF_seVars(SePoll("overview"))

-----------------------------------------------------------------------------
\* With no change under way, a query read after the last one shows what the
\* server has, through the panel's cache too, unless a change met an overview
\* request in the panel or its answer was lost.
SecurityShownTrue ==
    seAsked = {} /\ ~seCrossed =>
        \A q \in {"overview", seFollowed} \ seStale :
            (q = "overview" => \A c \in seComputing : ~c.mine) => seShown[q] \in {seFacts[q], -1}

\* Even then the overview has only to be read again: the minute passes and the
\* page polls.
SeBehind == seShown["overview"] # seFacts["overview"]

\* Values typed into a form outlive every poll that brings no other settings.
PollKeepsTyped == [][seForm.typed /\ seSeed' = seSeed => seForm'.typed]_seVars

\* What is ticked for the quarantine is on the list shown.
TickedIsListed == seSelected \subseteq seList
=============================================================================
