------------------------------ MODULE CronPage ------------------------------
(***************************************************************************)
(* The cron page: the list of jobs and the quota beside it, the one dialog *)
(* in which a job is made or changed, and the suggestions found by         *)
(* scanning a site.  Cancel works while a change is under way, so that its *)
(* answer may find another dialog open.                                    *)
(***************************************************************************)
EXTENDS Integers, FiniteSets

CONSTANTS
    CnJobs,     \* jobs of the account
    CnPreset,   \* those of them with a schedule of the preset list
    CnSites,    \* sites that can be scanned
    CnNone,     \* no dialog, nothing typed, nothing read
    CnMaxAsks   \* bound: changes asked for

VARIABLES
    cnRows,     \* server: job -> version of its row, 0 when there is none
    cnList,     \* the list in the cache: [fresh, rows]
    cnQuota,    \* the quota in the cache: [fresh, used]
    cnAsked,    \* changes under way: [kind, job, mode, command, schedule, done, n]
    cnAsks,     \* changes asked for so far
    cnModal,    \* "create", the job edited, or CnNone
    cnForm,     \* what each field was filled for: [mode, command, preset, line]
    cnDeleting, \* deletingId: the job whose bin is out, or CnNone
    cnUnheard,  \* history: the answer of a change carried out was lost
    cnSite, cnDeep,  \* what the dialog would scan
    cnFound     \* site, deep -> the site whose suggestions the cache has, or CnNone

cnListVars == <<cnRows, cnList, cnQuota, cnAsked, cnAsks, cnDeleting, cnUnheard>>
cnFormVars == <<cnModal, cnForm>>
cnScanVars == <<cnSite, cnDeep, cnFound>>
cnVars == <<cnListVars, cnFormVars, cnScanVars>>

CnThere(rows) == {j \in CnJobs : rows[j] # 0}

\* What the dialog for a new job starts from.
CnEmptied == [mode |-> "preset", command |-> CnNone, preset |-> "create", line |-> "create"]

CnInit ==
    /\ \E S \in SUBSET CnJobs : cnRows = [j \in CnJobs |-> IF j \in S THEN 1 ELSE 0]
    /\ cnList = [fresh |-> TRUE, rows |-> cnRows]
    /\ cnQuota = [fresh |-> TRUE, used |-> Cardinality(CnThere(cnRows))]
    /\ cnAsked = {}
    /\ cnAsks = 0
    /\ cnModal = CnNone
    /\ cnForm = CnEmptied
    /\ cnDeleting = CnNone
    /\ cnUnheard = FALSE
    /\ cnSite \in CnSites
    /\ cnDeep = TRUE
    /\ cnFound = [k \in CnSites \X BOOLEAN |-> CnNone]

-----------------------------------------------------------------------------
(* The list and the quota.                                                   *)

CnReadList ==
    /\ ~cnList.fresh
    /\ cnList' = [fresh |-> TRUE, rows |-> cnRows]
    /\ UNCHANGED <<cnRows, cnQuota, cnAsked, cnAsks, cnDeleting, cnUnheard, cnFormVars, cnScanVars>>
CnReadQuota ==
    /\ ~cnQuota.fresh
    /\ cnQuota' = [fresh |-> TRUE, used |-> Cardinality(CnThere(cnRows))]
    /\ UNCHANGED <<cnRows, cnList, cnAsked, cnAsks, cnDeleting, cnUnheard, cnFormVars, cnScanVars>>

CnPending(kind) == \E r \in cnAsked : r.kind = kind

\* currentSchedule: the preset or the line, by mode.
CnSchedule == IF cnForm.mode = "preset" THEN cnForm.preset ELSE cnForm.line
CnAsk(kind, j) ==
    /\ cnAsks < CnMaxAsks
    /\ cnAsks' = cnAsks + 1
    /\ cnAsked' = cnAsked \cup
         {[kind |-> kind, job |-> j, mode |-> cnForm.mode, command |-> cnForm.command,
           schedule |-> CnSchedule, done |-> FALSE, n |-> cnAsks]}
    /\ UNCHANGED <<cnRows, cnList, cnQuota, cnUnheard>>

CnDelete(j) ==
    /\ cnModal = CnNone /\ j \in CnThere(cnList.rows) /\ cnDeleting # j
    /\ CnAsk("delete", j)
    /\ cnDeleting' = j
    /\ UNCHANGED <<cnFormVars, cnScanVars>>

-----------------------------------------------------------------------------
(* The dialog.                                                               *)

\* The effect on [modal, editing].  A job with a preset leaves the custom line
\* of the dialog before it.
CnFilled(j) ==
    IF j \in CnPreset
    THEN [cnForm EXCEPT !.command = j, !.mode = "preset", !.preset = j]
    ELSE [cnForm EXCEPT !.command = j, !.mode = "custom", !.line = j]
CnAsItWas == cnForm      \* mutant
CnBlankForm == CnEmptied

CnOpen(dialog) ==
    /\ cnModal = CnNone
    /\ dialog # "create" => dialog \in CnThere(cnList.rows)
    /\ cnModal' = dialog
    /\ cnForm' = IF dialog = "create" THEN CnBlankForm ELSE CnFilled(dialog)
    /\ UNCHANGED <<cnListVars, cnScanVars>>
CnCancel ==
    /\ cnModal # CnNone
    /\ cnModal' = CnNone
    /\ UNCHANGED <<cnForm, cnListVars, cnScanVars>>

CnSetField(field) ==
    /\ cnModal # CnNone
    /\ field = "preset" => cnForm.mode = "preset"
    /\ field = "line" => cnForm.mode = "custom"
    /\ cnForm' = [cnForm EXCEPT ![field] = cnModal]
    /\ UNCHANGED <<cnModal, cnListVars, cnScanVars>>
CnSetMode(mode) ==
    /\ cnModal # CnNone /\ cnForm.mode # mode
    /\ cnForm' = [cnForm EXCEPT !.mode = mode]
    /\ UNCHANGED <<cnModal, cnListVars, cnScanVars>>

CnSubmit ==
    /\ cnModal # CnNone /\ ~CnPending("create") /\ ~CnPending("update")
    /\ cnForm.command # CnNone
    /\ IF cnModal = "create" THEN CnAsk("create", CnNone) ELSE CnAsk("update", cnModal)
    /\ UNCHANGED <<cnDeleting, cnFormVars, cnScanVars>>

-----------------------------------------------------------------------------
(* The server and its answers.                                               *)

CnKept(r) == cnAsked' = (cnAsked \ {r}) \cup {[r EXCEPT !.done = TRUE]}
CnCreated(r) ==
    /\ r \in cnAsked /\ ~r.done /\ r.kind = "create"
    /\ \E j \in CnJobs \ CnThere(cnRows) : cnRows' = [cnRows EXCEPT ![j] = 1]
    /\ CnKept(r)
    /\ UNCHANGED <<cnList, cnQuota, cnAsks, cnDeleting, cnUnheard, cnFormVars, cnScanVars>>
\* Only a row that is there is changed or deleted.
CnChanged(r) ==
    /\ r \in cnAsked /\ ~r.done /\ r.kind # "create"
    /\ r.job \in CnThere(cnRows)
    /\ cnRows' = [cnRows EXCEPT ![r.job] = IF r.kind = "delete" THEN 0 ELSE @ + 1]
    /\ CnKept(r)
    /\ UNCHANGED <<cnList, cnQuota, cnAsks, cnDeleting, cnUnheard, cnFormVars, cnScanVars>>

CnSettled(r) ==
    /\ r \in cnAsked
    /\ cnAsked' = cnAsked \ {r}
    /\ cnDeleting' = IF r.kind = "delete" THEN CnNone ELSE cnDeleting

\* A creation and a deletion ask for the quota anew, too; a creation and an
\* update close whatever dialog is open.
CnCounting == {"create", "delete"}
CnCountingNew == {"create"}      \* mutant
CnCounted == CnCounting
CnAnswered(r) ==
    /\ CnSettled(r) /\ r.done
    /\ cnList' = [cnList EXCEPT !.fresh = FALSE]
    /\ cnQuota' = IF r.kind \in CnCounted THEN [cnQuota EXCEPT !.fresh = FALSE] ELSE cnQuota
    /\ cnModal' = IF r.kind = "delete" THEN cnModal ELSE CnNone
    /\ UNCHANGED <<cnRows, cnAsks, cnUnheard, cnForm, cnScanVars>>
CnFails(r) ==
    /\ CnSettled(r)
    /\ cnUnheard' = (cnUnheard \/ r.done)
    /\ UNCHANGED <<cnRows, cnList, cnQuota, cnAsks, cnFormVars, cnScanVars>>

-----------------------------------------------------------------------------
(* The suggestions: read by a click only, kept by site and depth.            *)

CnPickSite(s, deep) ==
    /\ cnModal # CnNone
    /\ cnSite' = s /\ cnDeep' = deep
    /\ UNCHANGED <<cnFound, cnListVars, cnFormVars>>
CnOwnKey == <<cnSite, cnDeep>>
CnSameKey == <<CHOOSE s \in CnSites : TRUE, cnDeep>>      \* mutant
CnScanKey == CnOwnKey
CnScan ==
    /\ cnModal # CnNone
    /\ cnFound' = [cnFound EXCEPT ![CnScanKey] = cnSite]
    /\ UNCHANGED <<cnSite, cnDeep, cnListVars, cnFormVars>>
\* The command, and the schedule in the mode it fits.
CnApply(mode) ==
    /\ cnModal # CnNone /\ cnFound[CnScanKey] # CnNone
    /\ cnForm' = IF mode = "preset"
                 THEN [cnForm EXCEPT !.command = cnModal, !.mode = "preset", !.preset = cnModal]
                 ELSE [cnForm EXCEPT !.command = cnModal, !.mode = "custom", !.line = cnModal]
    /\ UNCHANGED <<cnModal, cnListVars, cnScanVars>>

-----------------------------------------------------------------------------
CnListNext ==
    \/ CnReadList \/ CnReadQuota \/ CnCancel \/ CnSubmit
    \/ \E j \in CnJobs : CnDelete(j)
    \/ \E dialog \in CnJobs \cup {"create"} : CnOpen(dialog)
    \/ \E f \in {"command", "preset", "line"} : CnSetField(f)
    \/ \E m \in {"preset", "custom"} : CnSetMode(m)
    \/ \E r \in cnAsked : CnCreated(r) \/ CnChanged(r) \/ CnAnswered(r) \/ CnFails(r)

CnScanNext ==
    \/ CnScan \/ CnCancel
    \/ \E dialog \in CnJobs \cup {"create"} : CnOpen(dialog)
    \/ \E s \in CnSites, deep \in BOOLEAN : CnPickSite(s, deep)
    \/ \E m \in {"preset", "custom"} : CnApply(m)

-----------------------------------------------------------------------------
\* With nothing under way, the list and the quota in the cache are those of the
\* server when they are taken for fresh, unless an answer was lost.
CronListTrue ==
    cnAsked = {} /\ ~cnUnheard =>
        /\ cnList.fresh => cnList.rows = cnRows
        /\ cnQuota.fresh => cnQuota.used = Cardinality(CnThere(cnRows))

\* The command and the schedule that are saved were filled in from the job they
\* are saved to, or typed in its dialog; not so the schedule when the mode of an
\* existing job was switched, which brings up what the dialog before it left.
SavedToOwnJob ==
    \A r \in cnAsked \ {q \in cnAsked : q.kind = "delete"} :
        LET own == IF r.kind = "create" THEN "create" ELSE r.job
            switched == r.kind = "update" /\ (r.mode = "preset" <=> r.job \notin CnPreset)
        IN r.command = own /\ (switched \/ r.schedule = own)

\* The suggestions offered are those of the site picked.
SuggestionsOfSite == cnFound[CnScanKey] \in {cnSite, CnNone}

-----------------------------------------------------------------------------
(* The inductive invariant of the properties above.                          *)

CnDialogs == CnJobs \cup {"create", CnNone}
CnForms == [mode : {"preset", "custom"}, command : CnDialogs, preset : CnDialogs, line : CnDialogs]
CnRequest == [kind : {"create", "update", "delete"}, job : CnDialogs, mode : {"preset", "custom"},
              command : CnDialogs, schedule : CnDialogs, done : BOOLEAN, n : Nat]
CnTypeOK ==
    /\ cnRows \in [CnJobs -> Nat]
    /\ cnList \in [fresh : BOOLEAN, rows : [CnJobs -> Nat]]
    /\ cnQuota \in [fresh : BOOLEAN, used : {cnQuota.used}]
    /\ cnAsked \subseteq CnRequest /\ cnAsks \in Nat
    /\ cnModal \in CnDialogs /\ cnForm \in CnForms
    /\ cnUnheard \in BOOLEAN
    /\ cnSite \in CnSites /\ cnDeep \in BOOLEAN
    /\ cnFound \in [CnSites \X BOOLEAN -> CnSites \cup {CnNone}]

\* A change of a row does not change the count.
CnListsLead ==
    /\ ~cnUnheard /\ (\A r \in cnAsked : ~r.done) /\ cnList.fresh => cnList.rows = cnRows
    /\ ~cnUnheard /\ (\A r \in cnAsked : r.done => r.kind = "update") /\ cnQuota.fresh =>
           cnQuota.used = Cardinality(CnThere(cnRows))
\* What the open dialog would submit; the schedule in the mode its job is of.
CnFormIsOfDialog ==
    /\ cnModal = "create" /\ cnModal # CnNone =>
           cnForm.command \in {CnNone, "create"} /\ cnForm.preset = "create" /\ cnForm.line = "create"
    /\ cnModal \notin {"create", CnNone} =>
           /\ cnForm.command = cnModal
           /\ IF cnModal \in CnPreset THEN cnForm.preset = cnModal ELSE cnForm.line = cnModal
CnFoundOwn == \A k \in CnSites \X BOOLEAN : cnFound[k] \in {k[1], CnNone}

CnInv == CnTypeOK /\ CnListsLead /\ CnFormIsOfDialog /\ CnFoundOwn /\ SavedToOwnJob
=============================================================================
