------------------------------ MODULE DnsPage ------------------------------
(***************************************************************************)
(* The DNS page and what becomes of a change: the lists of records in the  *)
(* cache, requests whose answers may find another domain picked, and the   *)
(* zone files, which a request or a queued job writes from the records of  *)
(* all domains, with no lock between two of them.                          *)
(***************************************************************************)
EXTENDS Integers, FiniteSets

CONSTANTS
    DnSites,     \* domains
    DnNone,      \* no domain picked, not the latest deletion
    DnMaxAsks    \* bound: requests

VARIABLES
    dnRows,      \* server: domain -> its records; 0 is what the defaults add
    dnDisk,      \* the zone files
    dnServed,    \* what the name server has loaded
    dnSyncs,     \* syncs under way: [by, read, left]; by is the n of a request or DnJob
    dnQueued,    \* a sync job waits
    dnCache,     \* domain -> [read: "none", "fresh" or "stale", rows]
    dnPicked,    \* domainId
    dnAsked,     \* requests: [kind, site, row, step, seen, n]
    dnAsks,      \* requests so far
    dnAdding,    \* the dialog of a new record is open
    dnMissed,    \* history: domains whose list no answer has had read anew
    dnMet,       \* history: two syncs were under way together
    dnLost       \* history: a queued sync failed, or a request before its own

dnZones == <<dnDisk, dnServed, dnSyncs, dnQueued>>
dnPage == <<dnCache, dnPicked, dnAdding>>
dnHistory == <<dnMissed, dnMet, dnLost>>
dnVars == <<dnRows, dnZones, dnPage, dnAsked, dnAsks, dnHistory>>

DnJob == -1
DnLive == "live"     \* a handler that still sees the domain picked now

DnInit ==
    /\ dnRows \in [DnSites -> {{}, {0}}]
    /\ dnDisk = dnRows /\ dnServed = dnRows
    /\ dnSyncs = {} /\ dnQueued = FALSE
    /\ dnCache = [d \in DnSites |-> [read |-> "none", rows |-> {}]]
    /\ dnPicked \in DnSites
    /\ dnAsked = {} /\ dnAsks = 0 /\ dnAdding = FALSE
    /\ dnMissed = {} /\ dnMet = FALSE /\ dnLost = FALSE

-----------------------------------------------------------------------------
(* The page.                                                                 *)

DnPick(d) ==
    /\ ~dnAdding /\ dnPicked # d
    /\ dnPicked' = d
    /\ UNCHANGED <<dnRows, dnZones, dnCache, dnAsked, dnAsks, dnAdding, dnHistory>>
DnRead ==
    /\ dnPicked # DnNone /\ dnCache[dnPicked].read # "fresh"
    /\ dnCache' = [dnCache EXCEPT ![dnPicked] = [read |-> "fresh", rows |-> dnRows[dnPicked]]]
    /\ UNCHANGED <<dnRows, dnZones, dnPicked, dnAsked, dnAsks, dnAdding, dnHistory>>
DnDialog ==
    /\ dnPicked # DnNone
    /\ dnAdding' = ~dnAdding
    /\ UNCHANGED <<dnRows, dnZones, dnCache, dnPicked, dnAsked, dnAsks, dnHistory>>

DnPending(kind) == \E r \in dnAsked : r.kind = kind
\* Deletions overlap: the handler of the one before sees the domain picked when
\* the next one is asked for.
DnAsk(kind, row) ==
    /\ dnPicked # DnNone /\ dnAsks < DnMaxAsks
    /\ dnAsks' = dnAsks + 1
    /\ dnAsked' = {IF kind = "delete" /\ r.kind = kind /\ r.seen = DnLive
                   THEN [r EXCEPT !.seen = dnPicked] ELSE r : r \in dnAsked} \cup
         {[kind |-> kind, site |-> dnPicked, row |-> row, step |-> "sent", seen |-> DnLive,
           n |-> dnAsks]}
    /\ UNCHANGED <<dnRows, dnZones, dnPage, dnHistory>>
DnCreate == dnAdding /\ ~DnPending("create") /\ DnAsk("create", dnAsks + 1)
\* The row of a subdomain that has no record.
DnEnsure ==
    /\ ~dnAdding /\ dnPicked # DnNone /\ dnCache[dnPicked].read # "none"
    /\ ~DnPending("create") /\ DnAsk("create", dnAsks + 1)
DnBootstrap == ~dnAdding /\ ~DnPending("bootstrap") /\ DnAsk("bootstrap", 0)
\* Only the row deleted last is marked as being deleted.
DnDelete(row) ==
    /\ ~dnAdding /\ dnPicked # DnNone /\ dnCache[dnPicked].read # "none"
    /\ row \in dnCache[dnPicked].rows
    /\ \A r \in dnAsked : r.kind = "delete" /\ r.row = row => \E q \in dnAsked : q.kind = "delete" /\ q.n > r.n
    /\ DnAsk("delete", row)

-----------------------------------------------------------------------------
(* The handlers: the records, then a sync in the request, or a queued one.   *)

DnChanged(r) ==
    /\ r \in dnAsked /\ r.step = "sent"
    /\ r.kind = "delete" => r.row \in dnRows[r.site]
    /\ dnRows' = [dnRows EXCEPT ![r.site] = IF r.kind = "delete" THEN @ \ {r.row} ELSE @ \cup {r.row}]
    /\ dnQueued' = (dnQueued \/ r.kind = "bootstrap")
    /\ dnAsked' = (dnAsked \ {r}) \cup
                  {[r EXCEPT !.step = IF r.kind = "bootstrap" THEN "done" ELSE "changed"]}
    /\ UNCHANGED <<dnDisk, dnServed, dnSyncs, dnPage, dnAsks, dnHistory>>

DnSync(by) ==
    /\ dnSyncs' = dnSyncs \cup {[by |-> by, read |-> dnRows, left |-> DnSites]}
    /\ dnMet' = (dnMet \/ dnSyncs # {})
DnSyncNow(r) ==
    /\ r \in dnAsked /\ r.step = "changed"
    /\ DnSync(r.n)
    /\ dnAsked' = (dnAsked \ {r}) \cup {[r EXCEPT !.step = "syncing"]}
    /\ UNCHANGED <<dnRows, dnDisk, dnServed, dnQueued, dnPage, dnAsks, dnMissed, dnLost>>
DnRunJob ==
    /\ dnQueued
    /\ dnQueued' = FALSE
    /\ DnSync(DnJob)
    /\ UNCHANGED <<dnRows, dnDisk, dnServed, dnPage, dnAsked, dnAsks, dnMissed, dnLost>>
DnWrite(s) ==
    /\ s \in dnSyncs /\ s.left # {}
    /\ LET d == CHOOSE d \in s.left : TRUE
       IN /\ dnDisk' = [dnDisk EXCEPT ![d] = s.read[d]]
          /\ dnSyncs' = (dnSyncs \ {s}) \cup {[s EXCEPT !.left = @ \ {d}]}
    /\ UNCHANGED <<dnRows, dnServed, dnQueued, dnPage, dnAsked, dnAsks, dnHistory>>
DnSynced(by) ==
    dnAsked' = {IF r.n = by THEN [r EXCEPT !.step = "done"] ELSE r : r \in dnAsked}
DnReload(s) ==
    /\ s \in dnSyncs /\ s.left = {}
    /\ dnServed' = dnDisk
    /\ dnSyncs' = dnSyncs \ {s}
    /\ DnSynced(s.by)
    /\ UNCHANGED <<dnRows, dnDisk, dnQueued, dnPage, dnAsks, dnHistory>>
\* Both attempts failed: a request leaves it to the queue, the job logs it and is
\* not tried again.
DnQueueAgain(s) == dnQueued' = (dnQueued \/ s.by # DnJob)
DnQueueNothing(s) == dnQueued' = dnQueued      \* mutant
DnFallBack(s) == DnQueueAgain(s)
DnSyncFails(s) ==
    /\ s \in dnSyncs
    /\ dnSyncs' = dnSyncs \ {s}
    /\ DnFallBack(s)
    /\ dnLost' = (dnLost \/ s.by = DnJob)
    /\ DnSynced(s.by)
    /\ UNCHANGED <<dnRows, dnDisk, dnServed, dnPage, dnAsks, dnMissed, dnMet>>

-----------------------------------------------------------------------------
(* Answers: the list of the domain picked by then is read anew.              *)

DnSeenSite(r) == IF r.seen = DnLive THEN dnPicked ELSE r.seen
DnForgotten(d) ==
    [c \in DnSites |-> IF c = d /\ dnCache[c].read = "fresh" THEN [dnCache[c] EXCEPT !.read = "stale"]
                       ELSE dnCache[c]]
DnKept(d) == dnCache      \* mutant
DnForget(d) == DnForgotten(d)
DnAnswered(r) ==
    /\ r \in dnAsked /\ r.step = "done"
    /\ dnAsked' = dnAsked \ {r}
    /\ dnCache' = DnForget(DnSeenSite(r))
    /\ dnAdding' = (dnAdding /\ r.kind # "create")
    /\ dnMissed' = IF DnSeenSite(r) = r.site THEN dnMissed ELSE dnMissed \cup {r.site}
    /\ UNCHANGED <<dnRows, dnZones, dnPicked, dnAsks, dnMet, dnLost>>
\* The request is refused, or its process ends before the sync.
DnFails(r) ==
    /\ r \in dnAsked /\ r.step # "syncing"
    /\ dnAsked' = dnAsked \ {r}
    /\ dnMissed' = IF r.step = "sent" THEN dnMissed ELSE dnMissed \cup {r.site}
    /\ dnLost' = (dnLost \/ r.step = "changed")
    /\ UNCHANGED <<dnRows, dnZones, dnPage, dnAsks, dnMet>>

-----------------------------------------------------------------------------
DnNext ==
    \/ DnRead \/ DnDialog \/ DnCreate \/ DnEnsure \/ DnBootstrap \/ DnRunJob
    \/ \E d \in DnSites \cup {DnNone} : DnPick(d)
    \/ \E row \in 0..DnMaxAsks : DnDelete(row)
    \/ \E r \in dnAsked : DnChanged(r) \/ DnSyncNow(r) \/ DnAnswered(r) \/ DnFails(r)
    \/ \E s \in dnSyncs : DnWrite(s) \/ DnReload(s) \/ DnSyncFails(s)

-----------------------------------------------------------------------------
\* With nothing under way for a domain, its list is that of the server when it is
\* taken for fresh, unless an answer had the list of another domain read anew, or
\* was an error.
DnsListTrue ==
    \A d \in DnSites \ dnMissed :
        dnCache[d].read = "fresh" /\ (\A r \in dnAsked : r.site # d) => dnCache[d].rows = dnRows[d]

\* When no request and no sync is under way or queued, the name server has the
\* records of every domain, unless two syncs were under way together, of which the
\* one that read first may write last, or a queued one failed.
ZonesAreServed ==
    dnAsked = {} /\ dnSyncs = {} /\ ~dnQueued /\ ~dnMet /\ ~dnLost => dnServed = dnRows

-----------------------------------------------------------------------------
\* Why they hold.
DnZoneSet == [DnSites -> SUBSET Nat]
DnRequest == [kind : {"create", "bootstrap", "delete"}, site : DnSites, row : Nat,
              step : {"sent", "changed", "syncing", "done"}, seen : DnSites \cup {DnNone, DnLive},
              n : Nat]
DnTypeOK ==
    /\ {dnRows, dnDisk, dnServed} \subseteq DnZoneSet
    /\ dnSyncs \subseteq [by : Nat \cup {DnJob}, read : DnZoneSet, left : SUBSET DnSites]
    /\ dnCache \in [DnSites -> [read : {"none", "fresh", "stale"}, rows : SUBSET Nat]]
    /\ dnPicked \in DnSites \cup {DnNone}
    /\ dnAsked \subseteq DnRequest /\ dnAsks \in Nat
    /\ {dnQueued, dnMet, dnLost} \subseteq BOOLEAN

\* A list is behind only where a request under way has changed the records.
DnListsLead ==
    \A d \in DnSites \ dnMissed :
        dnCache[d].read = "fresh" /\ (\A r \in dnAsked : r.site = d => r.step = "sent")
        => dnCache[d].rows = dnRows[d]

\* A sync belongs to the queue or to the request that waits for it.
DnOwnSyncs ==
    /\ \A r \in dnAsked : r.n < dnAsks
    /\ \A s \in dnSyncs : s.by < dnAsks /\ \A r \in dnAsked : r.n = s.by => r.step \in {"syncing", "done"}
    /\ \A r, q \in dnAsked : r.n = q.n => r = q

\* The one sync under way writes what it read, and where none is owed it read, or
\* has written, what the records are.
DnOneSync == ~dnMet => \A s, t \in dnSyncs : s = t
DnWritten == ~dnMet => \A s \in dnSyncs : \A d \in DnSites \ s.left : dnDisk[d] = s.read[d]
DnOwed == dnQueued \/ \E r \in dnAsked : r.step = "changed"
DnZonesLead ==
    ~dnMet /\ ~dnLost /\ ~DnOwed =>
        IF dnSyncs = {} THEN dnServed = dnRows ELSE \A s \in dnSyncs : s.read = dnRows

DnInv ==
    /\ DnTypeOK /\ DnListsLead
    /\ DnOwnSyncs /\ DnOneSync /\ DnWritten /\ DnZonesLead
=============================================================================
