---------------------------- MODULE BackupsPage ----------------------------
(***************************************************************************)
(* The backups page of the panel: the dialog of a running download or      *)
(* restore, the list with its optimistic row, the files on Google Drive    *)
(* and the schedule form.                                                  *)
(***************************************************************************)
EXTENDS Integers, FiniteSets

CONSTANTS
    BkSites,        \* sites of the account
    BkNone,         \* no dialog, nothing read, no form
    BkMaxOps,       \* bound: downloads and restores
    BkMaxBackups    \* bound: backups created

VARIABLES
    bkOps,      \* downloads and restores under way
    bkUi,       \* operationUi: [op, phase] or BkNone
    bkTimers,   \* operations whose result closes itself later
    bkCount,    \* operations started
    bkEarly,    \* history: a result was closed by hand before its timer
    bkFilter,   \* domainFilter
    bkRows,     \* server: the backups, [id, site, active]
    bkLists,    \* cache: site -> [rows, state], state unread, stale or fresh
    bkReading,  \* the list being read, or BkNone
    bkCreate,   \* the creation under way: BkNone or [site, id], id 0 not stored yet
    bkNames,    \* the names of the sites are known
    bkFiles,    \* cache: site -> sites whose Drive files are listed, or BkNone
    bkNameless, \* history: Drive files were asked for before the names were known
    bkForm,     \* scheduleForm when open: [id, adding], id 0 for none; or BkNone
    bkSaves,    \* schedule saves under way, as the form was
    bkSchedules \* server: schedule -> number of times it was overwritten

bkOpVars == <<bkOps, bkUi, bkTimers, bkCount, bkEarly>>
bkListVars == <<bkRows, bkLists, bkReading, bkCreate>>
bkDriveVars == <<bkNames, bkFiles, bkNameless>>
bkFormVars == <<bkForm, bkSaves, bkSchedules>>
bkVars == <<bkOpVars, bkFilter, bkListVars, bkDriveVars, bkFormVars>>

BkInit ==
    /\ bkOps = {} /\ bkUi = BkNone /\ bkTimers = {} /\ bkCount = 0 /\ bkEarly = FALSE
    /\ bkFilter \in BkSites
    /\ bkRows = {}
    /\ bkLists = [s \in BkSites |-> [rows |-> {}, state |-> "unread"]]
    /\ bkReading = bkFilter
    /\ bkCreate = BkNone
    /\ bkNames = FALSE
    /\ bkFiles = [s \in BkSites |-> BkNone]
    /\ bkNameless = FALSE
    /\ bkForm = BkNone /\ bkSaves = {} /\ bkSchedules = [s \in 1..2 |-> 0]

-----------------------------------------------------------------------------
(* Downloads and restores.  The dialog covers the page.                      *)

BkFree == bkUi = BkNone
BkNotRunning == TRUE      \* mutant
BkStartable == BkFree

\* downloadBackup, runRestoreOperation and restoreFromUpload.
BkStart ==
    /\ BkStartable
    /\ bkCount < BkMaxOps
    /\ bkCount' = bkCount + 1
    /\ bkOps' = bkOps \cup {bkCount'}
    /\ bkUi' = [op |-> bkCount', phase |-> "running"]
    /\ UNCHANGED <<bkTimers, bkEarly, bkFilter, bkListVars, bkDriveVars, bkFormVars>>

\* finishOperation: the dialog shown, whatever it is for, becomes the result; a
\* timer that nothing cancels will close the dialog shown by then.
BkFinish(op) ==
    /\ op \in bkOps
    /\ bkOps' = bkOps \ {op}
    /\ bkUi' = IF bkUi = BkNone THEN BkNone ELSE [bkUi EXCEPT !.phase = "ended"]
    /\ bkTimers' = bkTimers \cup {op}
    /\ UNCHANGED <<bkCount, bkEarly, bkFilter, bkListVars, bkDriveVars, bkFormVars>>

BkTimer(op) ==
    /\ op \in bkTimers
    /\ bkTimers' = bkTimers \ {op}
    /\ bkUi' = BkNone
    /\ UNCHANGED <<bkOps, bkCount, bkEarly, bkFilter, bkListVars, bkDriveVars, bkFormVars>>

\* The result's Close button.
BkClose ==
    /\ bkUi # BkNone /\ bkUi.phase = "ended"
    /\ bkUi' = BkNone
    /\ bkEarly' = TRUE
    /\ UNCHANGED <<bkOps, bkTimers, bkCount, bkFilter, bkListVars, bkDriveVars, bkFormVars>>

-----------------------------------------------------------------------------
(* The list.                                                                 *)

BkOptimistic(s) == [id |-> 0, site |-> s, active |-> TRUE]
BkRead(l) == l.state # "unread"
BkOfSite(s) == {r \in bkRows : r.site = s}

\* Showing a list reads it unless it is fresh.
BkShow(s) ==
    /\ bkFilter' = s
    /\ bkReading' = IF bkLists[s].state = "fresh" THEN BkNone ELSE s

BkPick(s) ==
    /\ s # bkFilter
    /\ BkShow(s)
    /\ UNCHANGED <<bkOpVars, bkRows, bkLists, bkCreate, bkDriveVars, bkFormVars>>

BkListed ==
    /\ bkReading # BkNone
    /\ bkLists' = [bkLists EXCEPT ![bkReading] = [rows |-> BkOfSite(bkReading), state |-> "fresh"]]
    /\ bkReading' = BkNone
    /\ UNCHANGED <<bkOpVars, bkFilter, bkRows, bkCreate, bkDriveVars, bkFormVars>>

\* refetchInterval: every 4 s while the list shows an active backup.
BkPoll ==
    /\ bkReading = BkNone
    /\ \E r \in bkLists[bkFilter].rows : r.active
    /\ bkReading' = bkFilter
    /\ UNCHANGED <<bkOpVars, bkFilter, bkRows, bkLists, bkCreate, bkDriveVars, bkFormVars>>

BkSubmit(s) ==
    /\ bkCreate = BkNone
    /\ Cardinality(bkRows) < BkMaxBackups
    /\ bkCreate' = [site |-> s, id |-> 0]

\* onMutate: the site's list is shown, reads are cancelled, and every list in
\* the cache, whatever its filter, starts with the optimistic row.
BkCreateBackup(s) ==
    /\ BkSubmit(s)
    /\ IF s = bkFilter THEN UNCHANGED bkFilter /\ bkReading' = BkNone ELSE BkShow(s)
    /\ bkLists' = [x \in BkSites |-> IF BkRead(bkLists[x])
                                     THEN [bkLists[x] EXCEPT !.rows = @ \cup {BkOptimistic(s)}]
                                     ELSE bkLists[x]]
    /\ UNCHANGED <<bkOpVars, bkRows, bkDriveVars, bkFormVars>>

BkStore ==
    /\ bkCreate # BkNone
    /\ bkCreate.id = 0
    /\ bkCreate' = [bkCreate EXCEPT !.id = Cardinality(bkRows) + 1]
    /\ bkRows' = bkRows \cup {[id |-> bkCreate'.id, site |-> bkCreate.site, active |-> TRUE]}
    /\ UNCHANGED <<bkOpVars, bkFilter, bkLists, bkReading, bkDriveVars, bkFormVars>>

\* onSuccess: the row the server made replaces the optimistic one everywhere,
\* then everything is stale and the list shown is read again.
BkCreated ==
    /\ bkCreate # BkNone /\ bkCreate.id # 0
    /\ LET made == [id |-> bkCreate.id, site |-> bkCreate.site, active |-> TRUE]
       IN bkLists' = [x \in BkSites |->
              IF BkRead(bkLists[x])
              THEN [rows |-> {r \in bkLists[x].rows : r.id > 0 /\ r.id # made.id} \cup {made},
                    state |-> "stale"]
              ELSE bkLists[x]]
    /\ bkReading' = bkFilter
    /\ bkCreate' = BkNone
    /\ UNCHANGED <<bkOpVars, bkFilter, bkRows, bkDriveVars, bkFormVars>>

\* onError: the optimistic row is taken out; nothing is read again.
BkRowBack == bkLists' = [x \in BkSites |->
                 [bkLists[x] EXCEPT !.rows = {r \in @ : r.id # 0}]]
BkRowBackHere == bkLists' = [bkLists EXCEPT ![bkFilter].rows = {r \in @ : r.id # 0}]  \* mutant
BkUndo == BkRowBack

BkCreateFails ==
    /\ bkCreate # BkNone
    /\ BkUndo
    /\ bkCreate' = BkNone
    /\ UNCHANGED <<bkOpVars, bkFilter, bkRows, bkReading, bkDriveVars, bkFormVars>>

BkDone(r) ==
    /\ r \in bkRows /\ r.active
    /\ bkRows' = (bkRows \ {r}) \cup {[r EXCEPT !.active = FALSE]}
    /\ UNCHANGED <<bkOpVars, bkFilter, bkLists, bkReading, bkCreate, bkDriveVars, bkFormVars>>

-----------------------------------------------------------------------------
(* The files on Drive.                                                       *)

BkNamesRead ==
    /\ ~bkNames
    /\ bkNames' = TRUE
    /\ UNCHANGED <<bkOpVars, bkFilter, bkListVars, bkFiles, bkNameless, bkFormVars>>

\* The cache key has the site; the request has its name, which is left out
\* while the names are not known, and then lists the files of every site.
BkPerSite(s) == s
BkPerAccount(s) == CHOOSE x \in BkSites : TRUE      \* mutant
BkFilesKey(s) == BkPerSite(s)

BkFilesRead ==
    /\ bkFiles[BkFilesKey(bkFilter)] = BkNone
    /\ bkFiles' = [bkFiles EXCEPT ![BkFilesKey(bkFilter)] = IF bkNames THEN {bkFilter} ELSE BkSites]
    /\ bkNameless' = (bkNameless \/ ~bkNames)
    /\ UNCHANGED <<bkOpVars, bkFilter, bkListVars, bkNames, bkFormVars>>

-----------------------------------------------------------------------------
(* The schedule form.                                                        *)

\* openScheduleEditor, from a row or from the Add buttons.
BkEditSchedule(id) ==
    /\ bkForm' = [id |-> id, adding |-> FALSE]
    /\ UNCHANGED <<bkSaves, bkSchedules, bkOpVars, bkFilter, bkListVars, bkDriveVars>>

BkBlankForm == [id |-> 0, adding |-> TRUE]
BkLastForm == [id |-> IF bkForm = BkNone THEN 0 ELSE bkForm.id, adding |-> TRUE]  \* mutant
BkFormToAdd == BkBlankForm

BkAddSchedule ==
    /\ bkForm' = BkFormToAdd
    /\ UNCHANGED <<bkSaves, bkSchedules, bkOpVars, bkFilter, bkListVars, bkDriveVars>>

BkSaveSchedule ==
    /\ bkForm # BkNone
    /\ bkSaves = {}
    /\ bkSaves' = {bkForm}
    /\ UNCHANGED <<bkForm, bkSchedules, bkOpVars, bkFilter, bkListVars, bkDriveVars>>

\* A form without an id is posted, one with an id overwrites that schedule;
\* success closes the form shown by then.
BkScheduleSaved(f) ==
    /\ f \in bkSaves
    /\ bkSaves' = {}
    /\ \/ bkForm' = BkNone
       \/ UNCHANGED bkForm      \* an error
    /\ bkSchedules' = IF f.id # 0 /\ f.adding
                      THEN [bkSchedules EXCEPT ![f.id] = 1] ELSE bkSchedules
    /\ UNCHANGED <<bkOpVars, bkFilter, bkListVars, bkDriveVars>>

BkCancelForm ==
    /\ bkForm # BkNone
    /\ bkForm' = BkNone
    /\ UNCHANGED <<bkSaves, bkSchedules, bkOpVars, bkFilter, bkListVars, bkDriveVars>>

BkOpNext == BkStart \/ BkClose \/ \E op \in 1..BkMaxOps : BkFinish(op) \/ BkTimer(op)
BkListNext ==
    \/ \E s \in BkSites : BkPick(s) \/ BkCreateBackup(s)
    \/ BkListed \/ BkPoll \/ BkStore \/ BkCreated \/ BkCreateFails
    \/ \E r \in bkRows : BkDone(r)
    \/ BkNamesRead \/ BkFilesRead
BkFormNext ==
    \/ \E id \in 1..2 : BkEditSchedule(id)
    \/ \E f \in bkSaves : BkScheduleSaved(f)
    \/ BkAddSchedule \/ BkSaveSchedule \/ BkCancelForm

BkNext == BkOpNext \/ BkListNext \/ BkFormNext
BkSpec == BkInit /\ [][BkNext]_bkVars

-----------------------------------------------------------------------------

\* When every result is left to close by itself, one download or restore runs
\* at a time and the dialog says "running" exactly as long as it does.
OneOperation ==
    bkEarly \/ /\ Cardinality(bkOps) <= 1
               /\ bkOps # {} <=> bkUi # BkNone /\ bkUi.phase = "running"

\* An optimistic row is never left in a list, shown or cached under another
\* filter, once the creation it stood for was answered.
NoGhostRow ==
    bkCreate = BkNone => \A s \in BkSites : \A r \in bkLists[s].rows : r.id # 0

\* The Drive files offered for a restore into the site picked are that site's,
\* unless they were asked for before the names of the sites were known.
FilesOfPicked ==
    LET files == bkFiles[BkFilesKey(bkFilter)]
    IN bkNameless \/ files = BkNone \/ files = {bkFilter}

\* Saving a schedule that is being added never overwrites one that exists,
\* whatever was edited, cancelled or being saved before.
AddNeverOverwrites == \A s \in DOMAIN bkSchedules : bkSchedules[s] = 0

-----------------------------------------------------------------------------
(* The inductive invariant of the properties above.                          *)

BkUis == [op : Nat, phase : {"running", "ended"}]
BkCreations == [site : BkSites, id : Nat]
BkBackups == [id : Nat, site : BkSites, active : BOOLEAN]
BkForms == [id : 0..2, adding : BOOLEAN]
BkTypeOK ==
    /\ (bkUi # BkNone => bkUi \in BkUis) /\ bkCount \in Nat
    /\ {bkEarly, bkNames, bkNameless} \subseteq BOOLEAN
    /\ bkFilter \in BkSites /\ bkReading \in BkSites \cup {BkNone}
    /\ bkRows \subseteq BkBackups /\ IsFiniteSet(bkRows)
    /\ bkLists \in [BkSites -> [rows : SUBSET BkBackups, state : {"unread", "stale", "fresh"}]]
    /\ bkCreate # BkNone => bkCreate \in BkCreations
    /\ (bkForm # BkNone => bkForm \in BkForms) /\ bkSaves \subseteq BkForms
    /\ bkSchedules \in [1..2 -> Nat]

\* An operation is running, or ended and waits for its timer, or there is none.
BkOneAfterAnother ==
    \/ bkUi = BkNone /\ bkOps = {} /\ bkTimers = {}
    \/ /\ bkUi # BkNone /\ bkUi.phase = "running"
       /\ bkTimers = {} /\ \E op \in bkOps : bkOps = {op}
    \/ /\ bkUi # BkNone /\ bkUi.phase = "ended"
       /\ bkOps = {} /\ \E op \in bkTimers : bkTimers = {op}
BkGhostsAreAwaited ==
    /\ \A r \in bkRows : r.id # 0
    /\ \A s \in BkSites : \A r \in bkLists[s].rows :
           r.id = 0 => bkLists[s].state # "unread" /\ bkCreate # BkNone
BkFilesOwn == bkNameless \/ \A s \in BkSites : bkFiles[s] = BkNone \/ bkFiles[s] = {s}
BkAddsAnew ==
    /\ bkForm # BkNone /\ bkForm.adding => bkForm.id = 0
    /\ \A f \in bkSaves : f.adding => f.id = 0

BkInv == /\ BkTypeOK /\ (bkEarly \/ BkOneAfterAnother) /\ BkGhostsAreAwaited /\ BkFilesOwn
         /\ BkAddsAnew /\ AddNeverOverwrites
=============================================================================
