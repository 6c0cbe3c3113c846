---------------------------- MODULE DomainsPage ----------------------------
(***************************************************************************)
(* The domains page: the list in the query cache, the controls of a row    *)
(* with a busy flag each, the Add dialog, the deletion that asks for a     *)
(* phrase, and the reports of a site's logs and traffic.                   *)
(***************************************************************************)
EXTENDS Integers, FiniteSets

CONSTANTS
    DmSites,      \* domains
    DmNone,       \* no dialog, no report
    DmMaxChanges  \* bound: changes asked for

VARIABLES
    dmRows,     \* server: domain -> row
    dmShown,    \* the rows the page shows
    dmStale,    \* the list is to be read
    dmRead,     \* the rows an answer on its way carries, as a set
    dmAsked,    \* changes under way: [kind, site, to, done, here]
    dmAsks,     \* changes asked for so far
    dmBusy,     \* domain -> the kinds whose control is busy
    dmRemoving, \* deletingSubId: the domain whose subdomain is being removed
    dmAdd,      \* mode of the Add dialog, or DmNone
    dmDelete,   \* [site, phrase]: the deletion dialog, or DmNone
    dmUnheard,  \* history: the answer of a change carried out was lost
    dmReport,   \* [kind, site]: the report on show, or DmNone
    dmReports   \* [kind, site] -> whose report the cache has, or DmNone

dmListVars == <<dmRows, dmShown, dmStale, dmRead, dmAsked, dmAsks, dmBusy, dmRemoving, dmUnheard>>
dmDialogVars == <<dmAdd, dmDelete>>
dmReportVars == <<dmReport, dmReports>>
dmVars == <<dmListVars, dmDialogVars, dmReportVars>>

\* The fields of a row.  One subdomain and one alias stand for all of a site's.
DmRow == [domain |-> TRUE, php |-> 1, server |-> 1, status |-> "active", ssl |-> FALSE,
          subdomain |-> FALSE, subssl |-> FALSE, alias |-> FALSE]
DmNoRow == [DmRow EXCEPT !.domain = FALSE]
DmFlagged == {"php", "server", "status", "ssl", "subssl"}
DmModes == {"domain", "subdomain", "alias"}
DmReportKeys == {"logs", "traffic"} \X DmSites

DmInit ==
    /\ dmRows \in {[d \in DmSites |-> IF d \in S THEN DmRow ELSE DmNoRow] : S \in SUBSET DmSites}
    /\ dmShown = dmRows
    /\ dmStale = FALSE
    /\ dmRead = {}
    /\ dmAsked = {}
    /\ dmAsks = 0
    /\ dmBusy = [d \in DmSites |-> {}]
    /\ dmRemoving = DmNone
    /\ dmAdd = DmNone
    /\ dmDelete = DmNone
    /\ dmUnheard = FALSE
    /\ dmReport = DmNone
    /\ dmReports = [k \in DmReportKeys |-> DmNone]

-----------------------------------------------------------------------------
(* The list.                                                                 *)

DmReadSent ==
    /\ dmStale /\ dmRead = {}
    /\ dmRead' = {dmRows}
    /\ dmStale' = FALSE
    /\ UNCHANGED <<dmRows, dmShown, dmAsked, dmAsks, dmBusy, dmRemoving, dmUnheard,
                   dmDialogVars, dmReportVars>>

DmReadAnswered ==
    /\ \E rows \in dmRead : dmShown' = rows
    /\ dmRead' = {}
    /\ UNCHANGED <<dmRows, dmStale, dmAsked, dmAsks, dmBusy, dmRemoving, dmUnheard,
                   dmDialogVars, dmReportVars>>

\* An invalidation drops the read on its way and asks again.
DmCancelled == dmStale' = TRUE /\ dmRead' = {}
DmJoined == dmStale' = (dmRead = {}) /\ dmRead' = dmRead      \* mutant
DmInvalidated == DmCancelled

-----------------------------------------------------------------------------
(* The controls of a row and the dialogs.                                    *)

DmPending(kind) == \E r \in dmAsked : r.here /\ r.kind = kind

DmAsk(kind, d, to) ==
    /\ dmAsks < DmMaxChanges
    /\ dmAsks' = dmAsks + 1
    /\ dmAsked' = dmAsked \cup {[kind |-> kind, site |-> d, to |-> to, done |-> FALSE,
                                 here |-> TRUE, n |-> dmAsks]}
    /\ dmBusy' = IF kind \in DmFlagged THEN [dmBusy EXCEPT ![d] = @ \cup {kind}] ELSE dmBusy
    /\ UNCHANGED <<dmRows, dmShown, dmStale, dmRead, dmUnheard, dmReportVars>>

\* No control of the page is reachable under an open dialog.
DmControl(d, kind) ==
    /\ dmAdd = DmNone /\ dmDelete = DmNone /\ dmReport = DmNone
    /\ dmShown[d].domain /\ kind \notin dmBusy[d]
    /\ UNCHANGED <<dmRemoving, dmDialogVars>>

DmPickPhp(d) == DmControl(d, "php") /\ DmAsk("php", d, 3 - dmShown[d].php)
DmPickServer(d) == DmControl(d, "server") /\ DmAsk("server", d, 3 - dmShown[d].server)
DmToggle(d) == DmControl(d, "status")
               /\ DmAsk("status", d, IF dmShown[d].status = "active" THEN "suspended" ELSE "active")
DmIssue(d) == ~dmShown[d].ssl /\ DmControl(d, "ssl") /\ DmAsk("ssl", d, TRUE)
DmIssueSub(d) == /\ dmShown[d].subdomain /\ ~dmShown[d].subssl
                 /\ DmControl(d, "subssl") /\ DmAsk("subssl", d, TRUE)

\* One deletingSubId for all rows.
DmRemoveSub(d) ==
    /\ dmAdd = DmNone /\ dmDelete = DmNone /\ dmReport = DmNone
    /\ dmShown[d].domain /\ dmShown[d].subdomain /\ dmRemoving # d
    /\ DmAsk("subdomain", d, FALSE)
    /\ dmRemoving' = d
    /\ UNCHANGED dmDialogVars

DmRemoveAlias(d) ==
    /\ dmShown[d].alias /\ ~DmPending("alias")
    /\ DmControl(d, "alias") /\ DmAsk("alias", d, FALSE)

\* The Add dialog: its mode may change; a parent must be a row of the list.
DmOpenAdd(mode) ==
    /\ dmAdd = DmNone /\ dmDelete = DmNone /\ dmReport = DmNone
    /\ dmAdd' = mode
    /\ UNCHANGED <<dmListVars, dmDelete, dmReportVars>>
DmSetMode(mode) ==
    /\ dmAdd # DmNone
    /\ mode # "domain" => \E d \in DmSites : dmShown[d].domain
    /\ dmAdd' = mode
    /\ UNCHANGED <<dmListVars, dmDelete, dmReportVars>>
DmCloseAdd ==
    /\ dmAdd # DmNone
    /\ dmAdd' = DmNone
    /\ UNCHANGED <<dmListVars, dmDelete, dmReportVars>>

DmSubmitAdd(d) ==
    /\ dmAdd # DmNone /\ ~\E r \in dmAsked : r.here /\ r.kind = dmAdd /\ r.to
    /\ dmAdd # "domain" => dmShown[d].domain
    /\ DmAsk(dmAdd, d, TRUE)
    /\ UNCHANGED <<dmRemoving, dmDialogVars>>

\* The deletion dialog; its phrase is emptied when it opens or changes domain.
DmPhraseGone == FALSE
DmPhraseKept == dmDelete # DmNone \/ \E r \in dmAsked : r.kind = "domain" /\ ~r.to      \* mutant
DmPhraseAtOpening == DmPhraseGone

DmOpenDelete(d) ==
    /\ dmAdd = DmNone /\ dmDelete = DmNone /\ dmReport = DmNone
    /\ dmShown[d].domain
    /\ dmDelete' = [site |-> d, phrase |-> DmPhraseAtOpening, typed |-> FALSE]
    /\ UNCHANGED <<dmListVars, dmAdd, dmReportVars>>
DmTypePhrase ==
    /\ dmDelete # DmNone
    /\ dmDelete' = [dmDelete EXCEPT !.phrase = TRUE, !.typed = TRUE]
    /\ UNCHANGED <<dmListVars, dmAdd, dmReportVars>>
DmCloseDelete ==
    /\ dmDelete # DmNone
    /\ dmDelete' = DmNone
    /\ UNCHANGED <<dmListVars, dmAdd, dmReportVars>>
DmConfirmDelete ==
    /\ dmDelete # DmNone
    /\ dmDelete.phrase /\ ~\E r \in dmAsked : r.here /\ r.kind = "domain" /\ ~r.to
    /\ DmAsk("domain", dmDelete.site, FALSE)
    /\ UNCHANGED <<dmRemoving, dmDialogVars>>

\* The server: a domain that is gone is not found; one that is there is not
\* added again.
DmAllowed(row, r) ==
    IF r.kind = "domain" THEN row.domain # r.to ELSE row.domain /\ row[r.kind] # r.to
DmApplied(row, r) ==
    CASE r.kind = "domain" -> IF r.to THEN DmRow ELSE DmNoRow
      [] r.kind = "subdomain" -> [row EXCEPT !.subdomain = r.to, !.subssl = FALSE]
      [] OTHER -> [row EXCEPT ![r.kind] = r.to]

DmCarriedOut(r) ==
    /\ r \in dmAsked /\ ~r.done
    /\ DmAllowed(dmRows[r.site], r)
    /\ dmRows' = [dmRows EXCEPT ![r.site] = DmApplied(@, r)]
    /\ dmAsked' = (dmAsked \ {r}) \cup {[r EXCEPT !.done = TRUE]}
    /\ UNCHANGED <<dmShown, dmStale, dmRead, dmAsks, dmBusy, dmRemoving, dmUnheard,
                   dmDialogVars, dmReportVars>>

\* The callbacks clear the flag of the change they were called for.
DmOwnFlag(r) == [dmBusy EXCEPT ![r.site] = @ \ {r.kind}]
DmKindFlag(r) == [d \in DmSites |-> dmBusy[d] \ {r.kind}]      \* mutant
DmFlagCleared(r) == DmOwnFlag(r)

DmSettled(r) ==
    /\ r \in dmAsked
    /\ dmAsked' = dmAsked \ {r}
    /\ dmBusy' = IF r.here THEN DmFlagCleared(r) ELSE dmBusy
    /\ dmRemoving' = IF r.here /\ r.kind = "subdomain" /\ ~r.to THEN DmNone ELSE dmRemoving

\* A creation closes the Add dialog whatever it is in by now, a deletion the
\* deletion dialog whatever domain it is for.
DmAnswered(r) ==
    /\ DmSettled(r) /\ r.done
    /\ DmInvalidated
    /\ dmAdd' = IF r.here /\ r.kind \in DmModes /\ r.to THEN DmNone ELSE dmAdd
    /\ dmDelete' = IF r.here /\ r.kind = "domain" /\ ~r.to THEN DmNone ELSE dmDelete
    /\ UNCHANGED <<dmRows, dmShown, dmAsks, dmUnheard, dmReportVars>>

DmFails(r) ==
    /\ DmSettled(r)
    /\ dmUnheard' = (dmUnheard \/ r.done)
    /\ UNCHANGED <<dmRows, dmShown, dmStale, dmRead, dmAsks, dmDialogVars, dmReportVars>>

\* Leaving the page and coming back: the flags are gone, the requests are not;
\* the cached list is shown, stale or not.
DmLeave ==
    /\ dmAdd = DmNone /\ dmDelete = DmNone /\ dmReport = DmNone
    /\ \E r \in dmAsked : r.here
    /\ dmAsked' = {[r EXCEPT !.here = FALSE] : r \in dmAsked}
    /\ dmBusy' = [d \in DmSites |-> {}]
    /\ dmRemoving' = DmNone
    /\ UNCHANGED <<dmRows, dmShown, dmStale, dmRead, dmAsks, dmUnheard, dmDialogVars,
                   dmReportVars>>

-----------------------------------------------------------------------------
(* The reports.                                                              *)

DmOwnReport(kind, d) == <<kind, d>>
DmLastReport(kind, d) == <<kind, CHOOSE x \in DmSites : TRUE>>      \* mutant
DmReportKey(kind, d) == DmOwnReport(kind, d)

DmOpenReport(kind, d) ==
    /\ dmReport = DmNone /\ dmShown[d].domain
    /\ dmReport' = [kind |-> kind, site |-> d]
    /\ UNCHANGED <<dmListVars, dmDialogVars, dmReports>>

\* Read on opening unless it is in the cache, and by the refresh button.
DmReportRead ==
    /\ dmReport # DmNone
    /\ dmReports' = [dmReports EXCEPT ![DmReportKey(dmReport.kind, dmReport.site)] = dmReport.site]
    /\ UNCHANGED <<dmListVars, dmDialogVars, dmReport>>
DmCloseReport ==
    /\ dmReport # DmNone
    /\ dmReport' = DmNone
    /\ UNCHANGED <<dmListVars, dmDialogVars, dmReports>>

-----------------------------------------------------------------------------
DmListNext ==
    \/ DmReadSent \/ DmReadAnswered \/ DmLeave
    \/ DmTypePhrase \/ DmCloseDelete \/ DmConfirmDelete \/ DmCloseAdd
    \/ \E m \in DmModes : DmOpenAdd(m) \/ DmSetMode(m)
    \/ \E d \in DmSites : \/ DmPickPhp(d) \/ DmPickServer(d) \/ DmToggle(d) \/ DmIssue(d)
                          \/ DmIssueSub(d) \/ DmRemoveSub(d) \/ DmRemoveAlias(d)
                          \/ DmSubmitAdd(d) \/ DmOpenDelete(d)
    \/ \E r \in dmAsked : DmCarriedOut(r) \/ DmAnswered(r) \/ DmFails(r)

DmReportNext ==
    \/ DmReportRead \/ DmCloseReport
    \/ \E k \in DmReportKeys : DmOpenReport(k[1], k[2])

-----------------------------------------------------------------------------
\* A control is busy exactly while a change of its kind, asked for on this visit
\* of the page, is under way for its domain, whatever else was answered.
BusyIsUnderWay ==
    \A d \in DmSites, k \in DmFlagged :
        k \in dmBusy[d] <=> \E r \in dmAsked : r.here /\ r.site = d /\ r.kind = k

\* When nothing is under way the list shows what the server has: the read that
\* an earlier change caused never outlives the change after it.
DomainsListTrue ==
    dmAsked = {} /\ ~dmStale /\ dmRead = {} /\ ~dmUnheard => dmShown = dmRows

\* A phrase that confirms a deletion was typed for the domain that is deleted.
PhraseForThisDomain == dmDelete # DmNone /\ dmDelete.phrase => dmDelete.typed

\* The logs and the traffic on show are those of the site on show.
ReportOfSite ==
    dmReport # DmNone => dmReports[DmReportKey(dmReport.kind, dmReport.site)] \in {dmReport.site, DmNone}

-----------------------------------------------------------------------------
(* The inductive invariant of the properties above.                          *)

DmRequest(r) == [kind : DmFlagged \cup DmModes, site : DmSites, to : {r.to}, done : BOOLEAN,
                 here : BOOLEAN, n : Nat]
DmTypeOK ==
    /\ \A r \in dmAsked : r \in DmRequest(r)
    /\ dmAsks \in Nat /\ dmStale \in BOOLEAN /\ dmUnheard \in BOOLEAN
    /\ dmBusy \in [DmSites -> SUBSET DmFlagged]
    /\ dmAdd \in DmModes \cup {DmNone}
    /\ dmDelete # DmNone => dmDelete \in [site : DmSites, phrase : BOOLEAN, typed : BOOLEAN]
    /\ dmReport # DmNone => dmReport \in [kind : {"logs", "traffic"}, site : DmSites]
    /\ dmReports \in [DmReportKeys -> DmSites \cup {DmNone}]

\* Before a change is carried out the list shows the rows, or they are on their way.
DmListLeads ==
    ~dmUnheard /\ ~dmStale /\ (\A r \in dmAsked : ~r.done) =>
        IF dmRead = {} THEN dmShown = dmRows ELSE dmRead = {dmRows}
DmOneEach ==
    \A r, q \in dmAsked :
        r.here /\ q.here /\ r.site = q.site /\ r.kind = q.kind /\ r.kind \in DmFlagged => r = q
DmReportsOwn == \A k \in DmReportKeys : dmReports[k] \in {k[2], DmNone}

DmInv == /\ DmTypeOK /\ DmListLeads /\ DmOneEach /\ DmReportsOwn
         /\ BusyIsUnderWay /\ PhraseForThisDomain
=============================================================================
