--------------------------- MODULE MonitoringPage ---------------------------
(***************************************************************************)
(* The monitoring page: the health of the site picked, which the panel     *)
(* answers from two caches and computes anew behind an answer, the list of *)
(* sites the pick follows, and the gauges of the server with the samples   *)
(* their charts are drawn from.                                            *)
(***************************************************************************)
EXTENDS Integers, Sequences, FiniteSets

CONSTANTS
    MoSites,      \* sites
    MoNone,       \* no site: the account as a whole
    MoMaxAsks,    \* bound: picks, polls and visits of the page
    MoMaxLoads,   \* bound: changes of the server's load
    MoMaxPoints   \* samples the charts keep (40)

VARIABLES
    moRows,     \* panel: the sites there are
    moFresh,    \* panel's cache: scope -> the payload kept for 45 s
    moStale,    \* panel's cache: scope -> the payload kept for 600 s
    moJobs,     \* panel: scopes with a refresh to come behind an answer
    moList,     \* ['domains', 'options'] in the page's cache
    moPicked,   \* healthDomainId
    moData,     \* ['monitoring-health', scope] in the page's cache: scope -> payload
    moFailed,   \* scopes whose last read ended in an error
    moPrev,     \* the payload shown before the pick: placeholderData
    moAsked,    \* health requests: [key, step, heard, got]
    moAsks,     \* picks, polls and visits so far
    moLoad,     \* engine: the load of the server
    moKept,     \* panel's cache: the sample kept for 20 s
    moStats,    \* ['monitoring-server'] in the page's cache
    moPoints,   \* history
    moSummary,  \* ['monitoring-summary'] in the page's cache: sites counted
    moErrors    \* sections whose last read ended in an error

moPanel == <<moRows, moFresh, moStale, moJobs>>
moPage == <<moList, moPicked, moData, moFailed, moPrev, moAsked, moAsks>>
moServer == <<moLoad, moKept, moStats, moPoints, moSummary, moErrors>>
moVars == <<moPanel, moPage, moServer>>

\* A payload is known by the scope it tells of, a site or the account, and is kept
\* as the set of it: {} is nothing kept.  So are samples of the server, whose stats
\* and services are the load they were taken under: 0 if the engine did not answer.
MoScopes == MoSites \cup {MoNone}
MoThere == moRows \cup {MoNone}
MoRequest(k) == [key |-> k, step |-> "sent", heard |-> TRUE, got |-> {}]

MoInit ==
    /\ moRows = MoSites
    /\ moFresh = [k \in MoScopes |-> {}]
    /\ \E kept \in SUBSET MoScopes : moStale = [k \in MoScopes |-> IF k \in kept THEN {k} ELSE {}]
    /\ moJobs = {} /\ moList = {}
    /\ moPicked \in MoScopes
    /\ moData = [k \in MoScopes |-> {}]
    /\ moFailed = {} /\ moPrev = {}
    /\ moAsked = {MoRequest(moPicked)} /\ moAsks = 0
    /\ moLoad = 1 /\ moKept = {} /\ moStats = {} /\ moPoints = <<>>
    /\ moSummary = {} /\ moErrors = {}

-----------------------------------------------------------------------------
(* The pick.  One that is not among the sites listed moves on to one that is, *)
(* the account as a whole included; each scope it passes is read if it is not *)
(* in the cache, or is there but old.                                         *)

MoFollowed(list, k) == IF list = {} \/ k \in list THEN {k} ELSE list
MoWaits(k) == \E r \in moAsked : r.key = k /\ r.heard
MoUnreadAlone(keys, old) ==      \* mutant
    {k \in keys : ~(\E r \in moAsked : r.heard) /\ (moData[k] = {} \/ k \in old)}
MoUnread(keys, old) == {k \in keys : ~MoWaits(k) /\ (moData[k] = {} \/ k \in old)}
MoRead(keys, old) ==
    /\ moAsks < MoMaxAsks /\ moAsks' = moAsks + 1
    /\ moAsked' = moAsked \cup {MoRequest(k) : k \in MoUnread(keys, old)}
    /\ moFailed' = {k \in moFailed : k \notin keys \/ moData[k] # {}}

\* The payload a placeholder is taken from, once k is left.
MoLeaving(k) == IF moData[k] # {} THEN moData[k] ELSE moPrev

MoGo(k, d) ==
    /\ moPicked' = d
    /\ moPrev' = IF k # d /\ moData[k] # {} THEN moData[k] ELSE MoLeaving(moPicked)
    /\ \E old \in SUBSET {k, d} : MoRead({k, d}, old)
    /\ UNCHANGED <<moPanel, moData, moServer>>
MoChoose(k) ==
    /\ k # moPicked
    /\ \E d \in MoFollowed(moList, k) : MoGo(k, d)
    /\ UNCHANGED moList
\* In the select, or among the scores, whose list may be of half a minute ago.
MoSelect(k) == k \in moList \cup {MoNone} /\ MoChoose(k)
MoClick(d) == MoChoose(d)

MoListRead ==
    /\ moList' = moRows
    /\ \E d \in MoFollowed(moRows, moPicked) :
         IF d # moPicked THEN MoGo(d, d)
         ELSE UNCHANGED <<moPanel, moPicked, moData, moFailed, moPrev, moAsked, moAsks, moServer>>

\* Every minute while the page is visible, and by the button of the error.
MoPoll ==
    /\ ~MoWaits(moPicked)
    /\ MoRead({moPicked}, {moPicked})
    /\ UNCHANGED <<moPanel, moList, moPicked, moData, moPrev, moServer>>

\* Away and back: what the page keeps is gone, its caches are not.
MoVisit ==
    /\ \E d \in MoFollowed(moList, MoNone) :
         /\ moPicked' = d
         /\ \E old \in SUBSET {MoNone, d} : MoRead({MoNone, d}, old)
    /\ moPrev' = {}
    /\ \/ moStats = {} /\ moPoints' = <<>>
       \/ \E s \in moStats : moPoints' = <<s.stats>>
    /\ UNCHANGED <<moPanel, moList, moData, moLoad, moKept, moStats, moSummary, moErrors>>

-----------------------------------------------------------------------------
(* The request at the panel: the site is looked up, the caches are, and what is *)
(* in none of them is computed and kept.  What is only in the older one is      *)
(* answered and computed again behind the answer, by the id of the site.        *)

MoStep(r, step, got) ==
    moAsked' = (moAsked \ {r}) \cup
        (IF r.heard \/ step = "built" THEN {[r EXCEPT !.step = step, !.got = got]} ELSE {})
MoPut(k, payload) ==
    /\ moFresh' = [moFresh EXCEPT ![k] = payload]
    /\ moStale' = [moStale EXCEPT ![k] = payload]

MoServe(r) ==
    /\ r \in moAsked /\ r.step = "sent"
    /\ \/ r.key \notin MoThere /\ MoStep(r, "refused", {}) /\ UNCHANGED moJobs
       \/ /\ r.key \in MoThere /\ moFresh[r.key] # {}
          /\ MoStep(r, "answered", moFresh[r.key]) /\ UNCHANGED moJobs
       \/ /\ r.key \in MoThere /\ moFresh[r.key] = {} /\ moStale[r.key] # {}
          /\ MoStep(r, "answered", moStale[r.key])
          /\ moJobs' = moJobs \cup {r.key}
       \/ /\ r.key \in MoThere /\ moFresh[r.key] = {} /\ moStale[r.key] = {}
          /\ MoStep(r, "built", {r.key}) /\ UNCHANGED moJobs
    /\ UNCHANGED <<moRows, moFresh, moStale, moList, moPicked, moData, moFailed, moPrev, moAsks,
                   moServer>>
MoKeep(r) ==
    /\ r \in moAsked /\ r.step = "built"
    /\ MoStep(r, "answered", r.got)
    /\ MoPut(r.key, r.got)
    /\ UNCHANGED <<moRows, moJobs, moList, moPicked, moData, moFailed, moPrev, moAsks, moServer>>

\* A site that is gone by now is taken for none: the account's payload.
MoAccountAlways(k) == {MoNone}      \* mutant
MoComputed(k) == {IF k \in moRows THEN k ELSE MoNone}
MoRefresh(k) ==
    /\ k \in moJobs /\ moJobs' = moJobs \ {k}
    /\ MoPut(k, MoComputed(k))
    /\ UNCHANGED <<moRows, moPage, moServer>>

MoFreshExpires(k) ==
    /\ moFresh' = [moFresh EXCEPT ![k] = {}]
    /\ UNCHANGED <<moRows, moStale, moJobs, moPage, moServer>>
MoStaleExpires(k) ==
    /\ moFresh[k] = {}
    /\ moStale' = [moStale EXCEPT ![k] = {}]
    /\ UNCHANGED <<moRows, moFresh, moJobs, moPage, moServer>>
\* One site at least is left.
MoDelete(d) ==
    /\ d \in moRows /\ moRows # {d}
    /\ moRows' = moRows \ {d}
    /\ UNCHANGED <<moFresh, moStale, moJobs, moPage, moServer>>

\* The answer, if the page still waits for it.
MoAnswered(r) ==
    /\ r \in moAsked /\ r.step \in {"answered", "refused"}
    /\ moAsked' = moAsked \ {r}
    /\ moFailed' = IF r.step = "answered" THEN moFailed \ {r.key} ELSE moFailed \cup {r.key}
    /\ moData' = IF r.step = "answered" THEN [moData EXCEPT ![r.key] = r.got] ELSE moData
    /\ UNCHANGED <<moPanel, moList, moPicked, moPrev, moAsks, moServer>>
\* The browser gives up, after the one retry of the query; the panel does not.
MoGivenUp(r) ==
    /\ r \in moAsked /\ r.heard
    /\ moAsked' = (moAsked \ {r}) \cup
         (IF r.step \in {"sent", "built"} THEN {[r EXCEPT !.heard = FALSE]} ELSE {})
    /\ moFailed' = moFailed \cup {r.key}
    /\ UNCHANGED <<moPanel, moList, moPicked, moData, moPrev, moAsks, moServer>>

-----------------------------------------------------------------------------
(* The server's gauges: every poll that is answered adds a sample, that of an   *)
(* engine that does not answer included, which is all zeros.                    *)

MoFirstPoints(s) ==      \* mutant
    IF Len(s) <= MoMaxPoints THEN s ELSE SubSeq(s, 1, MoMaxPoints)
MoLastPoints(s) ==
    IF Len(s) <= MoMaxPoints THEN s ELSE SubSeq(s, Len(s) - MoMaxPoints + 1, Len(s))
MoLoadChanges ==
    /\ moLoad < MoMaxLoads /\ moLoad' = moLoad + 1
    /\ UNCHANGED <<moPanel, moPage, moKept, moStats, moPoints, moSummary, moErrors>>
\* The engine is asked twice, for the stats and for the services.
MoTake == {[stats |-> a, services |-> b] : a, b \in {0, moLoad}}
MoStatsRead ==
    /\ \E s \in IF moKept = {} THEN MoTake ELSE moKept :
         /\ moKept' = {s} /\ moStats' = {s}
         /\ moPoints' = MoLastPoints(Append(moPoints, s.stats))
    /\ moErrors' = moErrors \ {"server"}
    /\ UNCHANGED <<moPanel, moPage, moLoad, moSummary>>
MoKeptExpires ==
    /\ moKept' = {}
    /\ UNCHANGED <<moPanel, moPage, moLoad, moStats, moPoints, moSummary, moErrors>>
MoSummaryRead ==
    /\ moSummary' = {Cardinality(moRows)}
    /\ moErrors' = moErrors \ {"summary"}
    /\ UNCHANGED <<moPanel, moPage, moLoad, moKept, moStats, moPoints>>
\* A read of a section that does not succeed leaves what the section had.
MoReadFails(section) ==
    /\ moErrors' = moErrors \cup {section}
    /\ UNCHANGED <<moPanel, moPage, moLoad, moKept, moStats, moPoints, moSummary>>

-----------------------------------------------------------------------------
\* What the card of the health shows: with nothing read for the scope picked, the
\* payload of the one before; with none of that, an estimate from the gauges.
MoHealthShown == IF moData[moPicked] # {} THEN moData[moPicked] ELSE moPrev
MoEstimated == moStats # {}
MoCard ==
    IF moPicked \in moFailed THEN "error"
    ELSE IF MoHealthShown # {} THEN "score"
    ELSE IF MoEstimated THEN "estimate" ELSE "loading"
\* The gauges are of the last sample, in spite of errors since; so are the bars of
\* mounts and processes, the tiles of services and the tables, where it has any.  The
\* charts are of all samples kept, from the second on.
MoGauges == {s.stats : s \in moStats}
MoBars(s) == IF s.stats = 0 THEN {} ELSE {"mounts", "processes"}
MoTiles(s) == IF s.services = 0 THEN {} ELSE {"services"}
MoTables == UNION {MoBars(s) \cup MoTiles(s) : s \in moStats}
MoDrawn(points) == IF Len(points) >= 2 THEN points ELSE <<>>
MoCharts == IF moStats = {} THEN <<>> ELSE MoDrawn(moPoints)
\* The cards of the account show its counts unless the last read of them failed; the
\* pie shows the last that were read, and no empty slice: one of its own if all are.
MoCounts == IF "summary" \in moErrors THEN {} ELSE moSummary
MoSlices == {n \in moSummary : n > 0}
MoPie == IF MoSlices = {} THEN {1} ELSE MoSlices

MoHealthNext ==
    \/ \E k \in MoScopes : MoSelect(k) \/ MoRefresh(k) \/ MoFreshExpires(k) \/ MoStaleExpires(k)
    \/ \E d \in MoSites : MoClick(d) \/ MoDelete(d)
    \/ MoListRead \/ MoPoll \/ MoVisit
    \/ \E r \in moAsked : MoServe(r) \/ MoKeep(r) \/ MoAnswered(r) \/ MoGivenUp(r)
MoServerNext ==
    \/ MoLoadChanges \/ MoStatsRead \/ MoKeptExpires \/ MoSummaryRead \/ MoVisit
    \/ \E section \in {"summary", "server"} : MoReadFails(section)

-----------------------------------------------------------------------------
\* The card tells of the scope picked, or a read of that scope is under way and
\* will replace what it shows: also for a site whose refresh runs behind an answer,
\* whose payload comes from a cache, or that was picked by the list (healthQ,
\* health, storeHealthPayload).  Of a site that is gone the page may show anything.
HealthOfPicked ==
    moPicked \in MoThere /\ MoCard # "error" /\ MoHealthShown # {moPicked} => MoWaits(moPicked)

\* The charts end at what the gauges show and keep no more than their points, after
\* any number of polls, errors and visits (pushHistory, chartHistory); and they end
\* in zeros, the sample of an engine that did not answer, exactly if no table of
\* processes stands below them.
ChartsEndAtGauges ==
    /\ Len(moPoints) <= MoMaxPoints
    /\ MoGauges = {moPoints[i] : i \in {Len(moPoints)} \ {0}}
    /\ MoCharts # <<>> => (MoCharts[Len(MoCharts)] # 0 <=> "processes" \in MoTables)

-----------------------------------------------------------------------------
(* The inductive invariant of the properties above.                          *)

MoPayloads == SUBSET MoScopes
MoSample == [stats : Nat, services : Nat]
MoRequests == [key : MoScopes, step : {"sent", "built", "answered", "refused"},
               heard : BOOLEAN, got : MoPayloads]
MoTypeOK ==
    /\ moRows \subseteq MoSites /\ moJobs \subseteq MoScopes
    /\ {moFresh, moStale, moData} \subseteq [MoScopes -> MoPayloads]
    /\ moList \subseteq MoSites /\ moPicked \in MoScopes
    /\ moAsked \subseteq MoRequests
    /\ moAsks \in Nat /\ moLoad \in Nat /\ moPoints \in Seq(Nat)

\* Of a scope that is there nothing else is kept or under way than its own payload.
MoOwn(k, payload) == k \in MoThere => payload \in {{}, {k}}
MoPayloadsOwn ==
    /\ \A k \in MoScopes : MoOwn(k, moFresh[k]) /\ MoOwn(k, moStale[k]) /\ MoOwn(k, moData[k])
    /\ \A r \in moAsked : /\ MoOwn(r.key, r.got)
                          /\ r.key \in MoThere /\ r.step \in {"built", "answered"} => r.got # {}
MoNothingIsAwaited ==
    moPicked \in MoThere /\ moData[moPicked] = {} /\ moPicked \notin moFailed => MoWaits(moPicked)
MoStatsAreLast ==
    /\ moKept = {} \/ \E s \in moKept : s \in MoSample /\ moKept = {s}
    /\ IF moPoints = <<>> THEN moStats = {}
       ELSE \E s \in moStats : s \in MoSample /\ moStats = {s} /\ moPoints[Len(moPoints)] = s.stats
    /\ Len(moPoints) <= MoMaxPoints

MoInv == MoTypeOK /\ MoPayloadsOwn /\ MoNothingIsAwaited /\ MoStatsAreLast
=============================================================================
