---------------------------- MODULE MailSettings ----------------------------
(***************************************************************************)
(* The mail settings of the panel: rows written one after the other, the   *)
(* cache every process configures its mail from, the form that is filled   *)
(* whenever the settings were read, and the wizard that checks a domain,   *)
(* sets the mail server up and adds the DNS records that are missing.      *)
(***************************************************************************)
EXTENDS Integers

CONSTANTS
    MlHosts,     \* SMTP servers
    MlSites,     \* domains
    MlNone,      \* no server, or nothing typed
    MlMaxAsks    \* bound: saves, setups and additions of records

VARIABLES
    mlRow,       \* panel_settings: [host, pass]; no host: mail goes to the log
    mlCache,     \* the rows as kept for 300 s: {} or one
    mlReads,     \* rows as processes have read that have not kept them yet
    mlLate,      \* the cache was kept by one that had read before a write
    mlData,      \* ['admin-mail-settings'] in the page's cache: {} or a view
    mlForm,      \* the fields: [host, pass, clear]
    mlFetch,     \* the read of the page: [on, got]
    mlSaves,     \* saves: [form, step, heard, got]
    mlMissed,    \* a save was given up, or the read after one failed
    mlAsks,      \* saves, setups and additions so far
    mlInput,     \* wizardDomain
    mlCheck,     \* wizardM: [on, site, data]
    mlSetup,     \* the work setupStackM waits for: {} or an id
    mlAdding,    \* the work applyDnsM waits for: {} or an id
    mlRecords,   \* dns_records: site -> copies of a record the wizard suggests
    mlWork,      \* panel: [id, install, site, step]
    mlCrossed    \* sites two additions were made to at a time

mlPanel == <<mlRow, mlCache, mlReads, mlLate>>
mlPage == <<mlData, mlForm, mlFetch, mlSaves, mlMissed>>
mlWizard == <<mlInput, mlCheck, mlSetup, mlAdding, mlRecords, mlWork, mlCrossed>>
mlVars == <<mlPanel, mlPage, mlAsks, mlWizard>>

MlRows == [host : MlHosts \cup {MlNone}, pass : BOOLEAN]
MlForms == [host : MlHosts \cup {MlNone}, pass : BOOLEAN, clear : BOOLEAN]

\* The password is not shown, and not filled in.
MlFilled(row) == [host |-> row.host, pass |-> FALSE, clear |-> FALSE]
MlIdle == [on |-> FALSE, got |-> {}]
MlReading == [on |-> TRUE, got |-> {}]
MlUnchecked == [on |-> FALSE, site |-> MlNone, data |-> {}]

MlInit ==
    /\ mlRow \in {r \in MlRows : r.host = MlNone}
    /\ mlCache = {} /\ mlReads = {} /\ mlLate = FALSE
    /\ mlData = {} /\ mlForm = MlFilled([host |-> MlNone])
    /\ mlFetch = MlReading /\ mlSaves = {} /\ mlMissed = FALSE /\ mlAsks = 0
    /\ mlInput \in MlSites \cup {MlNone}
    /\ mlCheck = MlUnchecked /\ mlSetup = {} /\ mlAdding = {}
    /\ mlRecords \in [MlSites -> {0, 1}] /\ mlWork = {} /\ mlCrossed = {}

-----------------------------------------------------------------------------
(* The cache.  A process that needs the settings takes what is kept, or reads *)
(* the rows and keeps them.                                                   *)

MlRead ==
    /\ mlCache = {}
    /\ mlReads' = mlReads \cup {mlRow}
    /\ UNCHANGED <<mlRow, mlCache, mlLate, mlPage, mlAsks, mlWizard>>
MlPut(row) == mlCache' = {row} /\ mlLate' = (row # mlRow)
MlKeep(row) ==
    /\ row \in mlReads
    /\ mlReads' = mlReads \ {row}
    /\ MlPut(row)
    /\ UNCHANGED <<mlRow, mlPage, mlAsks, mlWizard>>
MlKeepCache == UNCHANGED <<mlCache, mlLate>>      \* mutant
MlForgetCache == mlCache' = {} /\ mlLate' = FALSE
MlExpires ==
    /\ MlForgetCache
    /\ UNCHANGED <<mlRow, mlReads, mlPage, mlAsks, mlWizard>>

-----------------------------------------------------------------------------
(* The form.  It is filled whenever what was read differs from what was there. *)

MlShow ==
    /\ mlFetch.on /\ mlFetch.got = {}
    /\ mlFetch' = [mlFetch EXCEPT !.got = {mlRow}]
    /\ UNCHANGED <<mlPanel, mlData, mlForm, mlSaves, mlMissed, mlAsks, mlWizard>>
MlShown ==
    /\ mlFetch.got # {}
    /\ mlFetch' = MlIdle
    /\ mlData' = mlFetch.got
    /\ \E row \in mlFetch.got : mlForm' = IF row \in mlData THEN mlForm ELSE MlFilled(row)
    /\ UNCHANGED <<mlPanel, mlSaves, mlMissed, mlAsks, mlWizard>>
MlShowFails ==
    /\ mlFetch.on /\ mlFetch' = MlIdle
    /\ mlMissed' = TRUE
    /\ UNCHANGED <<mlPanel, mlData, mlForm, mlSaves, mlAsks, mlWizard>>

\* The password can be cleared if there is one.
MlType(form) ==
    /\ mlData # {}
    /\ form.clear => \E row \in mlData : row.pass
    /\ mlForm' = form
    /\ UNCHANGED <<mlPanel, mlData, mlFetch, mlSaves, mlMissed, mlAsks, mlWizard>>

MlSaving == \E s \in mlSaves : s.heard
MlSave ==
    /\ mlData # {} /\ ~MlSaving
    /\ mlAsks < MlMaxAsks /\ mlAsks' = mlAsks + 1
    /\ mlSaves' = mlSaves \cup {[form |-> mlForm, step |-> "sent", heard |-> TRUE, got |-> {}]}
    /\ UNCHANGED <<mlPanel, mlData, mlForm, mlFetch, mlMissed, mlWizard>>

MlSaveStep(s, step, got) ==
    /\ mlSaves' = (mlSaves \ {s}) \cup {[s EXCEPT !.step = step, !.got = got]}
    /\ UNCHANGED <<mlData, mlForm, mlFetch, mlMissed, mlAsks, mlWizard>>
\* The rows one after the other, then the cache, which is read anew.
MlWriteSettings(s) ==
    /\ s \in mlSaves /\ s.step = "sent"
    /\ \/ MlSaveStep(s, "refused", {}) /\ UNCHANGED mlRow
       \/ MlSaveStep(s, "settings", {}) /\ mlRow' = [mlRow EXCEPT !.host = s.form.host]
    /\ UNCHANGED <<mlCache, mlReads, mlLate>>
MlWritePassword(s) ==
    /\ s \in mlSaves /\ s.step = "settings"
    /\ mlRow' = [mlRow EXCEPT !.pass = ~s.form.clear /\ (@ \/ s.form.pass)]
    /\ MlSaveStep(s, "password", {})
    /\ UNCHANGED <<mlCache, mlReads, mlLate>>
MlForget(s) ==
    /\ s \in mlSaves /\ s.step = "password"
    /\ MlForgetCache
    /\ MlSaveStep(s, "forgotten", {})
    /\ UNCHANGED <<mlRow, mlReads>>
MlApply(s) ==
    /\ s \in mlSaves
    /\ \/ s.step = "forgotten" /\ mlCache # {} /\ MlSaveStep(s, "done", {}) /\ UNCHANGED mlPanel
       \/ s.step = "forgotten" /\ mlCache = {} /\ MlSaveStep(s, "applying", {mlRow})
          /\ UNCHANGED mlPanel
       \/ s.step = "applying" /\ MlSaveStep(s, "done", {})
          /\ \E row \in s.got : MlPut(row)
          /\ UNCHANGED <<mlRow, mlReads>>

\* After a save that succeeded the settings are read again, whatever read is under way.
MlReadKept == mlFetch      \* mutant
MlInvalidated == MlReading
MlSaved(s) ==
    /\ s \in mlSaves /\ s.step \in {"done", "refused"}
    /\ mlSaves' = mlSaves \ {s}
    /\ mlFetch' = IF s.heard /\ s.step = "done" THEN MlInvalidated ELSE mlFetch
    /\ UNCHANGED <<mlPanel, mlData, mlForm, mlMissed, mlAsks, mlWizard>>
MlSaveLost(s) ==
    /\ s \in mlSaves /\ s.heard
    /\ mlSaves' = (mlSaves \ {s}) \cup {[s EXCEPT !.heard = FALSE]}
    /\ mlMissed' = TRUE
    /\ UNCHANGED <<mlPanel, mlData, mlForm, mlFetch, mlAsks, mlWizard>>

\* A test mail, of what is saved: the cache is forgotten first, and read anew.
MlTestable == ~MlSaving /\ \E row \in mlData : row.host # MlNone
MlTest ==
    /\ MlTestable
    /\ MlForgetCache
    /\ mlReads' = mlReads \cup {mlRow}
    /\ UNCHANGED <<mlRow, mlPage, mlAsks, mlWizard>>

-----------------------------------------------------------------------------
(* The wizard.                                                               *)

MlBegun(install) == {[id |-> mlAsks + 1, install |-> install, site |-> mlInput,
                      step |-> IF install THEN "install" ELSE "look"]}
MlStart(install) ==
    /\ mlInput # MlNone
    /\ mlAsks < MlMaxAsks /\ mlAsks' = mlAsks + 1
    /\ mlWork' = mlWork \cup MlBegun(install)
    /\ UNCHANGED <<mlPanel, mlPage, mlInput, mlCheck, mlRecords, mlCrossed>>

MlTypeDomain(d) ==
    /\ mlInput' = d
    /\ UNCHANGED <<mlPanel, mlPage, mlAsks, mlCheck, mlSetup, mlAdding, mlRecords, mlWork, mlCrossed>>
MlChecking == [on |-> TRUE, site |-> mlInput, data |-> {}]
MlCheck ==
    /\ ~mlCheck.on /\ mlSetup = {} /\ mlInput # MlNone
    /\ mlCheck' = MlChecking
    /\ UNCHANGED <<mlPanel, mlPage, mlAsks, mlInput, mlSetup, mlAdding, mlRecords, mlWork, mlCrossed>>
MlChecked ==
    /\ mlCheck.on
    /\ \E data \in {{}, {mlCheck.site} \ {MlNone}} : mlCheck' = [mlCheck EXCEPT !.on = FALSE, !.data = data]
    /\ UNCHANGED <<mlPanel, mlPage, mlAsks, mlInput, mlSetup, mlAdding, mlRecords, mlWork, mlCrossed>>
MlSuggested == mlCheck.data # {}
\* What the check recommends goes into the form, whatever domain stands there now.
MlUseRecommended(host) ==
    /\ MlSuggested
    /\ mlForm' = [mlForm EXCEPT !.host = host]
    /\ UNCHANGED <<mlPanel, mlData, mlFetch, mlSaves, mlMissed, mlAsks, mlWizard>>

MlSetupStart ==
    /\ ~mlCheck.on /\ mlSetup = {}
    /\ MlStart(TRUE)
    /\ mlSetup' = {mlAsks + 1} /\ UNCHANGED mlAdding
\* For the domain that stands in the field, while the records of the last check show.
MlAddRecords ==
    /\ mlAdding = {} /\ MlSuggested
    /\ MlStart(FALSE)
    /\ mlAdding' = {mlAsks + 1} /\ UNCHANGED mlSetup

MlWorkStep(w, step) ==
    /\ mlWork' = (mlWork \ {w}) \cup {[w EXCEPT !.step = step]}
    /\ UNCHANGED <<mlPanel, mlPage, mlAsks, mlInput, mlCheck, mlSetup, mlAdding>>
MlInstall(w) ==
    /\ w \in mlWork /\ w.step = "install"
    /\ \E step \in {"look", "failed"} : MlWorkStep(w, step)
    /\ UNCHANGED <<mlRecords, mlCrossed>>
\* A record is looked for, and created if it is not there.
MlAlways(d) == TRUE      \* mutant
MlMissing(d) == mlRecords[d] = 0
MlLook(w) ==
    /\ w \in mlWork /\ w.step = "look"
    /\ MlWorkStep(w, IF MlMissing(w.site) THEN "create" ELSE "done")
    /\ UNCHANGED <<mlRecords, mlCrossed>>
MlCreate(w) ==
    /\ w \in mlWork /\ w.step = "create"
    /\ MlWorkStep(w, "done")
    /\ mlRecords' = [mlRecords EXCEPT ![w.site] = @ + 1]
    /\ mlCrossed' = mlCrossed \cup
         {d \in {w.site} : \E u \in mlWork \ {w} : u.site = d /\ u.step = "create"}

\* A setup that succeeded is checked, for the domain that stands in the field by then.
MlOver(w) ==
    /\ w \in mlWork /\ w.step \in {"done", "failed"}
    /\ mlWork' = mlWork \ {w}
    /\ mlSetup' = mlSetup \ {w.id} /\ mlAdding' = mlAdding \ {w.id}
    /\ mlCheck' = IF w.id \in mlSetup /\ w.step = "done" THEN MlChecking ELSE mlCheck
    /\ UNCHANGED <<mlPanel, mlPage, mlAsks, mlInput, mlRecords, mlCrossed>>
\* The browser or a proxy gives up, the panel does not.
MlWorkLost(id) ==
    /\ id \in mlSetup \cup mlAdding
    /\ mlSetup' = mlSetup \ {id} /\ mlAdding' = mlAdding \ {id}
    /\ UNCHANGED <<mlPanel, mlPage, mlAsks, mlInput, mlCheck, mlRecords, mlWork, mlCrossed>>
MlLeave ==
    /\ mlCheck' = MlUnchecked /\ mlSetup' = {} /\ mlAdding' = {}
    /\ UNCHANGED <<mlPanel, mlPage, mlAsks, mlInput, mlRecords, mlWork, mlCrossed>>

MlSettingsNext ==
    \/ MlRead \/ MlExpires \/ MlShow \/ MlShown \/ MlShowFails \/ MlSave \/ MlTest
    \/ \E row \in mlReads : MlKeep(row)
    \/ \E form \in MlForms : MlType(form)
    \/ \E s \in mlSaves : MlWriteSettings(s) \/ MlWritePassword(s) \/ MlForget(s) \/ MlApply(s)
                             \/ MlSaved(s) \/ MlSaveLost(s)
MlWizardNext ==
    \/ MlCheck \/ MlChecked \/ MlSetupStart \/ MlAddRecords \/ MlLeave
    \/ \E d \in MlSites \cup {MlNone} : MlTypeDomain(d)
    \/ \E host \in MlHosts : MlUseRecommended(host)
    \/ \E w \in mlWork : MlInstall(w) \/ MlLook(w) \/ MlCreate(w) \/ MlOver(w)
    \/ \E id \in mlSetup \cup mlAdding : MlWorkLost(id)

-----------------------------------------------------------------------------
\* The settings kept for the processes that send mail are the ones saved, unless a
\* save is about to forget them or a process kept late what it had read before: the
\* rows are written first and the cache is forgotten last (update, apply).
MailCacheTrue ==
    \/ mlCache \subseteq {mlRow} \/ mlLate
    \/ \E s \in mlSaves : s.step \in {"settings", "password"}

\* The page shows the settings as they are once its saves and the reads after them
\* are over, however they overlapped, unless one was lost (saveM, q).
MailSettingsTrue ==
    mlSaves = {} /\ ~mlFetch.on /\ ~mlMissed => mlData = {mlRow}

\* A record the wizard suggests is there once, whichever buttons were pressed how
\* often, unless two additions to one domain crossed (wizardApplyDns, setupMailStack).
MailRecordsOnce == \A d \in MlSites : d \notin mlCrossed => mlRecords[d] <= 1

-----------------------------------------------------------------------------
(* The inductive invariant behind what is kept and what is added.            *)

MlSaveSteps == {"sent", "refused", "settings", "password", "forgotten", "applying", "done"}
MlSaveSet == [form : MlForms, step : MlSaveSteps, heard : BOOLEAN, got : SUBSET MlRows]
MlWorkSet == [id : Nat, install : BOOLEAN, site : MlSites,
              step : {"install", "look", "create", "done", "failed"}]
MlTypeOK ==
    /\ mlRow \in MlRows /\ mlForm \in MlForms /\ mlSaves \subseteq MlSaveSet
    /\ mlFetch \in [on : BOOLEAN, got : SUBSET MlRows]
    /\ mlAsks \in Nat /\ mlInput \in MlSites \cup {MlNone}
    /\ mlRecords \in [MlSites -> Nat] /\ mlWork \subseteq MlWorkSet
MlCreatesMissing ==
    \A w \in mlWork : w.step = "create" /\ w.site \notin mlCrossed => mlRecords[w.site] = 0
MlKeptInv == MlTypeOK /\ MlCreatesMissing /\ MailCacheTrue /\ MailRecordsOnce

\* The page shows the rows, or a read that does not know older ones is under way, or
\* a save that may have written and will have them read again when it is over.
MlReadsAgain == \E s \in mlSaves : s.heard /\ s.step \notin {"sent", "refused"}
MlShowLeads ==
    /\ mlFetch.got # {} => mlFetch.on
    /\ mlMissed \/ /\ \A s \in mlSaves : s.heard
                   /\ \/ MlReadsAgain
                      \/ mlFetch.on /\ mlFetch.got \in {{}, {mlRow}}
                      \/ ~mlFetch.on /\ mlData = {mlRow}
MlInv == MlKeptInv /\ MlShowLeads
=============================================================================
