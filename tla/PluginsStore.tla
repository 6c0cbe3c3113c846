---------------------------- MODULE PluginsStore ----------------------------
(***************************************************************************)
(* The plugin store page: modules installed, activated and deactivated,    *)
(* with the slugs the menu is built from, and the wizard that moves a site *)
(* from another panel.  The wizard can be closed, and opened for another   *)
(* module, while it waits for an answer.                                   *)
(***************************************************************************)
EXTENDS Integers, FiniteSets

CONSTANTS
    PlModules,  \* modules of the store
    PlNone,     \* no wizard, nothing filled in or found
    PlMaxAsks   \* bound: requests of the page

VARIABLES
    plStatus,   \* server: module -> "none", "installed" or "active"
    plList,     \* the store in the cache: [fresh, rows]
    plSlugs,    \* active_plugin_slugs of the auth store
    plAsked,    \* installs and (de)activations under way: [kind, of, done]
    plMe,       \* /auth/me under way: the slugs the answer will carry, or PlNone
    plAsks,     \* requests so far
    plCrossed,  \* history: an answer was lost or met one sent after it
    plWizard,   \* the module configured, or PlNone
    plStep,     \* 1, 2 or 3
    plForm,     \* [path, secret: module it was filled in for; dry]
    plCheck,    \* answer of the last preflight: "ok", "bad" or PlNone
    plFound,    \* module whose discovery is on show, or PlNone
    plMoving,   \* discoveries, preflights and starts under way
    plStray,    \* history: a discovery was answered in another wizard
    plRuns,     \* server: the migrations, [of, path, secret, dry, status]
    plRunList   \* the runs in the cache: [fresh, number]

plStoreVars == <<plStatus, plList, plSlugs, plAsked, plMe, plCrossed>>
plWizardVars == <<plWizard, plStep, plForm, plCheck, plFound, plMoving, plStray, plRuns, plRunList>>
plVars == <<plStoreVars, plAsks, plWizardVars>>

PlActive(status) == {m \in PlModules : status[m] = "active"}

\* What Configure sets every field to.
PlFormEmpty == [path |-> PlNone, secret |-> PlNone, dry |-> TRUE]

PlInit ==
    /\ plStatus \in [PlModules -> {"none", "active"}]
    /\ plList = [fresh |-> TRUE, rows |-> plStatus]
    /\ plSlugs = PlActive(plStatus)
    /\ plAsked = {}
    /\ plMe = PlNone
    /\ plAsks = 0
    /\ plCrossed = FALSE
    /\ plWizard = PlNone
    /\ plStep = 1
    /\ plForm = PlFormEmpty
    /\ plCheck = PlNone
    /\ plFound = PlNone
    /\ plMoving = {}
    /\ plStray = FALSE
    /\ plRuns = {}
    /\ plRunList = [fresh |-> TRUE, number |-> 0]

-----------------------------------------------------------------------------
(* The store.                                                                *)

PlReadStore ==
    /\ ~plList.fresh
    /\ plList' = [fresh |-> TRUE, rows |-> plStatus]
    /\ UNCHANGED <<plStatus, plSlugs, plAsked, plMe, plCrossed, plAsks, plWizardVars>>

\* All buttons of a kind are out while one of the kind is pending.
PlOffered == [install |-> "none", activate |-> "installed", deactivate |-> "active"]
PlClick(kind, m) ==
    /\ plWizard = PlNone /\ plAsks < PlMaxAsks
    /\ plList.rows[m] = PlOffered[kind] /\ ~\E r \in plAsked : r.kind = kind
    /\ plAsked' = plAsked \cup {[kind |-> kind, of |-> m, done |-> FALSE]}
    /\ plAsks' = plAsks + 1
    /\ UNCHANGED <<plStatus, plList, plSlugs, plMe, plCrossed, plWizardVars>>

\* A module that is there is not installed anew; one that is not stays away.
PlStatusAfter(r) ==
    CASE r.kind = "install" -> IF plStatus[r.of] = "none" THEN "installed" ELSE plStatus[r.of]
      [] r.kind = "activate" -> "active"
      [] OTHER -> "installed"
PlCarriedOut(r) ==
    /\ r \in plAsked /\ ~r.done
    /\ r.kind # "install" => plStatus[r.of] # "none"
    /\ plStatus' = [plStatus EXCEPT ![r.of] = PlStatusAfter(r)]
    /\ plAsked' = (plAsked \ {r}) \cup {[r EXCEPT !.done = TRUE]}
    /\ UNCHANGED <<plList, plSlugs, plMe, plCrossed, plAsks, plWizardVars>>

\* refreshActivePluginSlugs reads the account again after a (de)activation.
PlRefreshing == {"activate", "deactivate"}
PlRefreshingOn == {"activate"}      \* mutant
PlRefreshed == PlRefreshing

PlAnswered(r) ==
    /\ r \in plAsked /\ r.done
    /\ plAsked' = plAsked \ {r}
    /\ plList' = [plList EXCEPT !.fresh = FALSE]
    /\ IF r.kind \in PlRefreshed
       THEN /\ plMe' = PlActive(plStatus)
            /\ plCrossed' = (plCrossed \/ plMe # PlNone)
       ELSE UNCHANGED <<plMe, plCrossed>>
    /\ UNCHANGED <<plStatus, plSlugs, plAsks, plWizardVars>>
PlFails(r) ==
    /\ r \in plAsked
    /\ plAsked' = plAsked \ {r}
    /\ plCrossed' = (plCrossed \/ r.done)
    /\ UNCHANGED <<plStatus, plList, plSlugs, plMe, plAsks, plWizardVars>>
PlMeAnswered ==
    /\ plMe # PlNone
    /\ plSlugs' = plMe
    /\ plMe' = PlNone
    /\ UNCHANGED <<plStatus, plList, plAsked, plCrossed, plAsks, plWizardVars>>
PlMeFails ==
    /\ plMe # PlNone
    /\ plMe' = PlNone
    /\ plCrossed' = TRUE
    /\ UNCHANGED <<plStatus, plList, plSlugs, plAsked, plAsks, plWizardVars>>

-----------------------------------------------------------------------------
(* The wizard.                                                               *)

PlFormLeft == [plForm EXCEPT !.secret = PlNone]      \* mutant
PlFormOpened == PlFormEmpty

PlConfigure(m) ==
    /\ plWizard = PlNone /\ plList.rows[m] = "active"
    /\ plWizard' = m
    /\ plForm' = PlFormOpened
    /\ plCheck' = PlNone
    /\ plFound' = PlNone
    /\ plStep' = 1
    /\ UNCHANGED <<plStoreVars, plAsks, plMoving, plStray, plRuns, plRunList>>
PlClose ==
    /\ plWizard # PlNone
    /\ plWizard' = PlNone
    /\ UNCHANGED <<plStoreVars, plAsks, plStep, plForm, plCheck, plFound, plMoving, plStray,
                   plRuns, plRunList>>

\* Host, user and target go with the path, which the discovery may fill in.
PlType(field) ==
    /\ plWizard # PlNone /\ plStep = 1
    /\ plForm' = [plForm EXCEPT ![field] = plWizard]
    /\ UNCHANGED <<plStoreVars, plAsks, plWizard, plStep, plCheck, plFound, plMoving, plStray,
                   plRuns, plRunList>>
PlToggleDry ==
    /\ plWizard # PlNone /\ plStep = 2
    /\ plForm' = [plForm EXCEPT !.dry = ~@]
    /\ UNCHANGED <<plStoreVars, plAsks, plWizard, plStep, plCheck, plFound, plMoving, plStray,
                   plRuns, plRunList>>

\* The tabs go anywhere; Next asks what is missing and what the preflight said.
PlGoTo(step) ==
    /\ plWizard # PlNone /\ plStep # step
    /\ plStep' = step
    /\ UNCHANGED <<plStoreVars, plAsks, plWizard, plForm, plCheck, plFound, plMoving, plStray,
                   plRuns, plRunList>>

PlComplete == plForm.path # PlNone /\ plForm.secret # PlNone

PlSend(kind) ==
    /\ plAsks < PlMaxAsks /\ plWizard # PlNone /\ ~\E r \in plMoving : r.kind = kind
    /\ plAsks' = plAsks + 1
    /\ plMoving' = plMoving \cup {[kind |-> kind, of |-> plWizard, path |-> plForm.path,
                                   secret |-> plForm.secret, dry |-> plForm.dry, done |-> FALSE]}
    /\ UNCHANGED <<plStoreVars, plWizard, plForm, plCheck, plFound, plStray, plRuns, plRunList>>
PlDiscover == plStep \in {1, 2} /\ plForm.secret # PlNone /\ PlSend("discover") /\ UNCHANGED plStep
PlPreflight == plStep = 2 /\ PlSend("preflight") /\ UNCHANGED plStep
\* startMigrationNow: back to the step at fault, or the request.
PlMayStart == PlComplete /\ plCheck # "bad"
PlStart ==
    /\ plStep = 3 /\ plWizard # PlNone
    /\ IF PlMayStart
       THEN PlSend("start") /\ UNCHANGED plStep
       ELSE /\ plStep' = IF PlComplete THEN 2 ELSE 1
            /\ UNCHANGED <<plStoreVars, plAsks, plWizard, plForm, plCheck, plFound, plMoving,
                           plStray, plRuns, plRunList>>

\* The run is stored, and its job begins when the answer was sent.
PlStored(r) ==
    /\ r \in plMoving /\ r.kind = "start" /\ ~r.done
    /\ plStatus[r.of] = "active"
    /\ plRuns' = plRuns \cup {[of |-> r.of, path |-> r.path, secret |-> r.secret, dry |-> r.dry,
                               status |-> "queued", n |-> Cardinality(plRuns)]}
    /\ plMoving' = (plMoving \ {r}) \cup {[r EXCEPT !.done = TRUE]}
    /\ UNCHANGED <<plStoreVars, plAsks, plWizard, plStep, plForm, plCheck, plFound, plStray, plRunList>>
PlRunGoes(run) ==
    /\ run \in plRuns /\ run.status \in {"queued", "running"}
    /\ \E s \in IF run.status = "queued" THEN {"running"} ELSE {"success", "failed"} :
         plRuns' = (plRuns \ {run}) \cup {[run EXCEPT !.status = s]}
    /\ UNCHANGED <<plStoreVars, plAsks, plWizard, plStep, plForm, plCheck, plFound, plMoving,
                   plStray, plRunList>>

\* The answers fill the wizard that is open by now: a discovery the path and
\* what it found, a preflight its verdict; a start closes it.
PlDiscovered(r) ==
    /\ r \in plMoving /\ r.kind = "discover"
    /\ plMoving' = plMoving \ {r}
    /\ plFound' = r.of
    /\ \E suggested \in BOOLEAN : plForm' = IF suggested THEN [plForm EXCEPT !.path = r.of] ELSE plForm
    /\ plStray' = (plStray \/ r.of # plWizard)
    /\ UNCHANGED <<plStoreVars, plAsks, plWizard, plStep, plCheck, plRuns, plRunList>>
PlPreflown(r) ==
    /\ r \in plMoving /\ r.kind = "preflight"
    /\ plMoving' = plMoving \ {r}
    /\ plCheck' \in {"ok", "bad"}
    /\ UNCHANGED <<plStoreVars, plAsks, plWizard, plStep, plForm, plFound, plStray, plRuns, plRunList>>
PlStarted(r) ==
    /\ r \in plMoving /\ r.kind = "start" /\ r.done
    /\ plMoving' = plMoving \ {r}
    /\ plWizard' = PlNone
    /\ plForm' = [plForm EXCEPT !.secret = PlNone]
    /\ plRunList' = [plRunList EXCEPT !.fresh = FALSE]
    /\ UNCHANGED <<plStoreVars, plAsks, plStep, plCheck, plFound, plStray, plRuns>>
PlMoveFails(r) ==
    /\ r \in plMoving
    /\ plMoving' = plMoving \ {r}
    /\ plStray' = (plStray \/ r.done)
    /\ UNCHANGED <<plStoreVars, plAsks, plWizard, plStep, plForm, plCheck, plFound, plRuns, plRunList>>

\* Every fifteen seconds, and when asked for anew.
PlReadRuns ==
    /\ plRunList' = [fresh |-> TRUE, number |-> Cardinality(plRuns)]
    /\ UNCHANGED <<plStoreVars, plAsks, plWizard, plStep, plForm, plCheck, plFound, plMoving,
                   plStray, plRuns>>

-----------------------------------------------------------------------------
PlStoreNext ==
    \/ PlReadStore \/ PlMeAnswered \/ PlMeFails
    \/ \E m \in PlModules, kind \in DOMAIN PlOffered : PlClick(kind, m)
    \/ \E r \in plAsked : PlCarriedOut(r) \/ PlAnswered(r) \/ PlFails(r)

PlWizardNext ==
    \/ PlClose \/ PlToggleDry \/ PlDiscover \/ PlPreflight \/ PlStart \/ PlReadRuns
    \/ \E m \in PlModules : PlConfigure(m)
    \/ \E f \in {"path", "secret"} : PlType(f)
    \/ \E step \in 1..3 : PlGoTo(step)
    \/ \E r \in plMoving : PlStored(r) \/ PlDiscovered(r) \/ PlPreflown(r) \/ PlStarted(r) \/ PlMoveFails(r)
    \/ \E run \in plRuns : PlRunGoes(run)

-----------------------------------------------------------------------------
\* At rest the store, the runs and the slugs the menu is built from are the
\* server's, unless an answer was lost or /auth/me was read twice at a time.
PluginsListTrue ==
    /\ plAsked = {} /\ plMe = PlNone /\ ~plCrossed
         => /\ plList.fresh => plList.rows = plStatus
            /\ plSlugs = PlActive(plStatus)
    /\ plMoving = {} /\ ~plStray /\ plRunList.fresh => plRunList.number = Cardinality(plRuns)

\* A migration reads the path and uses the key that were filled in, or found,
\* for its own module, unless a discovery was answered in another wizard.
MigratesOwnSource ==
    ~plStray => \A run \in plRuns : run.path = run.of /\ run.secret = run.of

-----------------------------------------------------------------------------
(* The inductive invariant of the properties above.                          *)

PlStatuses == [PlModules -> {"none", "installed", "active"}]
PlOwn == PlModules \cup {PlNone}
PlStoreTypes ==
    /\ plStatus \in PlStatuses /\ plList \in [fresh : BOOLEAN, rows : PlStatuses]
    /\ (plMe # PlNone => plMe \in SUBSET PlModules) /\ plCrossed \in BOOLEAN
    /\ plAsked \subseteq [kind : DOMAIN PlOffered, of : PlModules, done : BOOLEAN]
PlWizardTypes ==
    /\ {plWizard, plFound} \subseteq PlOwn /\ plAsks \in Nat /\ plStray \in BOOLEAN
    /\ plForm \in [path : PlOwn, secret : PlOwn, dry : BOOLEAN]
    /\ plMoving \subseteq [kind : {"discover", "preflight", "start"}, of : PlModules, path : PlOwn,
                           secret : PlOwn, dry : BOOLEAN, done : BOOLEAN]
    /\ plRuns \subseteq [of : PlModules, path : PlOwn, secret : PlOwn, dry : BOOLEAN,
                         status : {"queued", "running", "success", "failed"}, n : Nat]
    /\ IsFiniteSet(plRuns) /\ \A run \in plRuns : run.n < Cardinality(plRuns)
    /\ \A a, b \in plRuns : a.n = b.n => a = b
    /\ plRunList \in [fresh : BOOLEAN, number : Nat]

\* A fresh list, and the slugs or the account under way, are of before no change
\* but those whose answers are awaited.
PlListsLead ==
    plCrossed \/
    /\ plList.fresh /\ (\A r \in plAsked : ~r.done) => plList.rows = plStatus
    /\ (\A r \in plAsked : ~(r.done /\ r.kind \in PlRefreshing)) =>
           (IF plMe = PlNone THEN plSlugs ELSE plMe) = PlActive(plStatus)
PlRunsLead ==
    /\ \A r \in plMoving : r.done => r.kind = "start"
    /\ plStray \/ (plRunList.fresh /\ (\A r \in plMoving : ~r.done) =>
                       plRunList.number = Cardinality(plRuns))
\* What is filled in is for the module of the wizard, or for none.
PlFilledIn ==
    plStray \/
    /\ plWizard # PlNone => {plForm.path, plForm.secret} \subseteq {plWizard, PlNone}
    /\ \A r \in plMoving : /\ {r.path, r.secret} \subseteq {r.of, PlNone}
                           /\ r.kind = "start" => r.path = r.of /\ r.secret = r.of
    /\ \A run \in plRuns : run.path = run.of /\ run.secret = run.of

PlInv == PlStoreTypes /\ PlWizardTypes /\ PlListsLead /\ PlRunsLead /\ PlFilledIn
=============================================================================
