------------------------------ MODULE SslPage ------------------------------
(***************************************************************************)
(* The certificates page: one job at a time with its progress bar, the     *)
(* form of a manual upload, the two switches of a site, and what the       *)
(* server does to the row of the certificate, the flag of the site and the *)
(* engine's files.  A request the browser has given up goes on there.      *)
(***************************************************************************)
EXTENDS Integers, FiniteSets

CONSTANTS
    SlTargets,   \* domains and subdomains
    SlSubs,      \* those of them that are subdomains
    SlNone,      \* no target, nothing typed
    SlMaxAsks    \* bound: requests

VARIABLES
    slRow,      \* server: target -> "none", "pending", "active" or "failed"
    slOn,       \* server: target -> ssl_enabled
    slServed,   \* engine: target -> a certificate is installed
    slForce, slAuto,   \* server: target -> the two switches
    slCerts,    \* ['ssl'] in the cache: [fresh, row, force, auto]
    slFlags,    \* ['hosting-targets'] in the cache: [fresh, on]
    slAsked,    \* requests: [kind, target, value, step, heard, n]
    slAsks,     \* requests so far
    slJob,      \* [target, action, status, progress], target SlNone without one
    slSetting,  \* settingsDomainId
    slManual, slText,  \* manualTarget; the target the two texts were typed for
    slMet,      \* history: targets two requests met at
    slUnheard,  \* history: a request changed something and ended in an error
    slLeft      \* history: a form was left with its texts typed

slServer == <<slRow, slOn, slServed, slForce, slAuto>>
slForm == <<slManual, slText, slLeft>>
slVars == <<slServer, slCerts, slFlags, slAsked, slAsks, slJob, slSetting, slForm, slMet,
            slUnheard>>

SlNoJob == [target |-> SlNone, action |-> "issue", status |-> "success", progress |-> 0]
SlRead == [fresh |-> TRUE, row |-> slRow, force |-> slForce, auto |-> slAuto]

SlInit ==
    /\ slRow \in [SlTargets -> {"none", "active"}]
    /\ slOn = [t \in SlTargets |-> slRow[t] = "active"]
    /\ slServed = slOn
    /\ slForce = slOn /\ slAuto = slOn
    /\ slCerts = SlRead
    /\ slFlags = [fresh |-> TRUE, on |-> slOn]
    /\ slAsked = {} /\ slAsks = 0
    /\ slJob = SlNoJob
    /\ slSetting = SlNone
    /\ slManual = SlNone /\ slText = SlNone
    /\ slMet = {} /\ slUnheard = FALSE /\ slLeft = FALSE

-----------------------------------------------------------------------------
(* Reads.  The certificates are read every 2.5 s while a job is running.     *)

SlReadCerts ==
    /\ ~slCerts.fresh \/ slJob.status = "running"
    /\ slCerts' = SlRead
    /\ UNCHANGED <<slServer, slFlags, slAsked, slAsks, slJob, slSetting, slForm, slMet, slUnheard>>
SlReadFlags ==
    /\ ~slFlags.fresh
    /\ slFlags' = [fresh |-> TRUE, on |-> slOn]
    /\ UNCHANGED <<slServer, slCerts, slAsked, slAsks, slJob, slSetting, slForm, slMet, slUnheard>>

-----------------------------------------------------------------------------
(* The buttons of a row, the switches, the form of a manual upload.          *)

SlHasSsl(t) == slCerts.row[t] = "active" \/ slFlags.on[t]
SlFree == slJob.target = SlNone    \* the dialog of a job covers the page

SlAsk(kind, t, value) ==
    /\ slAsks < SlMaxAsks
    /\ slAsks' = slAsks + 1
    /\ slAsked' = slAsked \cup {[kind |-> kind, target |-> t, value |-> value, step |-> "sent",
                                 heard |-> TRUE, n |-> slAsks]}
    /\ slMet' = IF \E r \in slAsked : r.target = t THEN slMet \cup {t} ELSE slMet
SlStart(t, action) ==
    slJob' = [target |-> t, action |-> action, status |-> "running", progress |-> 8]

SlClick(t, action) ==
    /\ SlFree
    /\ action = "renew" => slCerts.row[t] # "none"
    /\ action = "revoke" => SlHasSsl(t)
    /\ SlAsk(action, t, t)
    /\ SlStart(t, action)
    /\ UNCHANGED <<slServer, slCerts, slFlags, slSetting, slForm, slUnheard>>
SlSwitch(t, kind) ==
    /\ SlFree /\ t \notin SlSubs /\ slSetting # t
    /\ IF kind = "force" THEN SlHasSsl(t) ELSE slCerts.row[t] # "none"
    /\ SlAsk(kind, t, IF kind = "force" THEN ~slCerts.force[t] ELSE ~slCerts.auto[t])
    /\ slSetting' = t
    /\ UNCHANGED <<slServer, slCerts, slFlags, slJob, slForm, slUnheard>>

SlOpenManual(t) ==
    /\ SlFree /\ t \notin SlSubs
    /\ slManual' = t
    /\ slLeft' = (slLeft \/ (slManual # SlNone /\ slText \notin {t, SlNone}))
    /\ UNCHANGED <<slText, slServer, slCerts, slFlags, slAsked, slAsks, slJob, slSetting, slMet,
                   slUnheard>>
SlTypeManual ==
    /\ SlFree /\ slManual # SlNone
    /\ slText' = slManual
    /\ slLeft' = FALSE
    /\ UNCHANGED <<slManual, slServer, slCerts, slFlags, slAsked, slAsks, slJob, slSetting,
                   slMet, slUnheard>>
\* The texts stay.
SlCancelManual ==
    /\ SlFree /\ slManual # SlNone
    /\ slManual' = SlNone
    /\ slLeft' = (slLeft \/ slText # SlNone)
    /\ UNCHANGED <<slText, slServer, slCerts, slFlags, slAsked, slAsks, slJob, slSetting, slMet,
                   slUnheard>>
SlUpload ==
    /\ SlFree /\ slManual # SlNone /\ slText # SlNone
    /\ SlAsk("manual", slManual, slText)
    /\ SlStart(slManual, "manual")
    /\ UNCHANGED <<slServer, slCerts, slFlags, slSetting, slForm, slUnheard>>

-----------------------------------------------------------------------------
(* The progress of a job.                                                    *)

\* The estimate from the time passed stays below the end; a tick that finds the
\* job over leaves it.
SlTickGuarded(p) == IF slJob.status = "running" THEN [slJob EXCEPT !.progress = p] ELSE slJob
SlTickAlways(p) == [slJob EXCEPT !.progress = p]      \* mutant
SlTicked(p) == SlTickGuarded(p)
SlTick(p) ==
    /\ slJob.target # SlNone
    /\ slJob' = SlTicked(p)
    /\ UNCHANGED <<slServer, slCerts, slFlags, slAsked, slAsks, slSetting, slForm, slMet, slUnheard>>
SlClose ==
    /\ slJob.target # SlNone /\ slJob.status # "running"
    /\ slJob' = SlNoJob
    /\ UNCHANGED <<slServer, slCerts, slFlags, slAsked, slAsks, slSetting, slForm, slMet, slUnheard>>
SlFinish(ok) ==
    slJob' = IF slJob.target = SlNone THEN slJob
             ELSE [slJob EXCEPT !.status = IF ok THEN "success" ELSE "error",
                                !.progress = IF ok THEN 100 ELSE @]

-----------------------------------------------------------------------------
(* The server: the row, the engine, the row and the flag.                    *)

SlStep(r, step) ==
    /\ slAsked' = (slAsked \ {r}) \cup {[r EXCEPT !.step = step]}
    /\ UNCHANGED <<slCerts, slFlags, slAsks, slJob, slSetting, slForm, slMet, slUnheard>>
SlSet(t, row, on) ==
    /\ slRow' = [slRow EXCEPT ![t] = row]
    /\ slOn' = [slOn EXCEPT ![t] = on]

SlPending(r) ==
    /\ r \in slAsked /\ r.kind = "issue" /\ r.step = "sent"
    /\ slRow' = [slRow EXCEPT ![r.target] = "pending"]
    /\ slAuto' = [slAuto EXCEPT ![r.target] = TRUE]
    /\ SlStep(r, "asked")
    /\ UNCHANGED <<slOn, slServed, slForce>>
SlForced(r) ==
    /\ r \in slAsked /\ r.kind = "force" /\ r.step = "sent"
    /\ slForce' = [slForce EXCEPT ![r.target] = r.value]
    /\ SlStep(r, IF slOn[r.target] THEN "asked" ELSE "done")
    /\ UNCHANGED <<slRow, slOn, slServed, slAuto>>
SlAutoSet(r) ==
    /\ r \in slAsked /\ r.kind = "auto" /\ r.step = "sent" /\ slRow[r.target] # "none"
    /\ slAuto' = [slAuto EXCEPT ![r.target] = r.value]
    /\ SlStep(r, "done")
    /\ UNCHANGED <<slRow, slOn, slServed, slForce>>
SlReady(r) ==
    CASE r.kind \in {"issue", "force"} -> r.step = "asked"
      [] r.kind = "renew" -> r.step = "sent" /\ slRow[r.target] # "none"
      [] r.kind \in {"revoke", "manual"} -> r.step = "sent"
      [] OTHER -> FALSE
SlEngine(r) ==
    /\ r \in slAsked /\ SlReady(r)
    /\ slServed' = IF r.kind = "force" THEN slServed
                   ELSE [slServed EXCEPT ![r.target] = r.kind # "revoke"]
    /\ SlStep(r, IF r.kind = "force" THEN "done" ELSE "engine")
    /\ UNCHANGED <<slRow, slOn, slForce, slAuto>>
\* A row deleted meanwhile is not written.  A failed issuance takes the flag away,
\* but for a domain whose site could not even be activated.
SlWritten(t, row) == IF slRow[t] = "none" THEN "none" ELSE row
SlEngineFails(r) ==
    /\ r \in slAsked /\ SlReady(r)
    /\ \/ r.kind = "issue" /\ SlSet(r.target, SlWritten(r.target, "failed"), FALSE)
       \/ /\ r.kind = "issue" /\ r.target \notin SlSubs
          /\ SlSet(r.target, SlWritten(r.target, "failed"), slOn[r.target])
       \/ r.kind # "issue" /\ UNCHANGED <<slRow, slOn>>
    /\ SlStep(r, "failed")
    /\ UNCHANGED <<slServed, slForce, slAuto>>
SlRevokedRow(t) == SlSet(t, "none", FALSE)
SlRevokedRowOnly(t) == SlSet(t, "none", slOn[t])      \* mutant
SlRevoked(t) == SlRevokedRow(t)
SlRecord(r) ==
    /\ r \in slAsked /\ r.step = "engine"
    /\ CASE r.kind = "revoke" -> SlRevoked(r.target)
         [] r.kind = "manual" -> SlSet(r.target, "active", TRUE)
         [] OTHER -> SlSet(r.target, SlWritten(r.target, "active"), TRUE)
    /\ slForce' = IF r.kind = "manual" \/ (r.kind = "issue" /\ r.target \notin SlSubs)
                  THEN [slForce EXCEPT ![r.target] = TRUE] ELSE slForce
    /\ slAuto' = IF r.kind = "manual" THEN [slAuto EXCEPT ![r.target] = FALSE] ELSE slAuto
    /\ SlStep(r, "done")
    /\ UNCHANGED slServed

-----------------------------------------------------------------------------
(* Answers.                                                                  *)

SlIsJob(r) == r.kind \notin {"force", "auto"}
SlForget ==
    /\ slCerts' = [slCerts EXCEPT !.fresh = FALSE]
    /\ slFlags' = [slFlags EXCEPT !.fresh = FALSE]
SlForgetCerts ==      \* mutant
    /\ slCerts' = [slCerts EXCEPT !.fresh = FALSE]
    /\ slFlags' = slFlags
SlInvalidate == SlForget
SlTextsCleared == slText' = SlNone /\ slLeft' = FALSE
SlTextsKept == UNCHANGED <<slText, slLeft>>      \* mutant
SlAfterUpload == SlTextsCleared
SlAnswered(r) ==
    /\ r \in slAsked /\ r.heard /\ r.step = "done"
    /\ slAsked' = slAsked \ {r}
    /\ SlInvalidate
    /\ IF SlIsJob(r) THEN SlFinish(TRUE) /\ UNCHANGED slSetting
                     ELSE slSetting' = SlNone /\ UNCHANGED slJob
    /\ IF r.kind = "manual" THEN SlAfterUpload /\ slManual' = SlNone
                            ELSE UNCHANGED slForm
    /\ UNCHANGED <<slServer, slAsks, slMet, slUnheard>>
\* An error, or no answer within the time of the request: nothing is read anew.
SlFails(r) ==
    /\ r \in slAsked /\ r.heard
    /\ slAsked' = (slAsked \ {r}) \cup
                  (IF r.step \in {"done", "failed"} THEN {} ELSE {[r EXCEPT !.heard = FALSE]})
    /\ IF SlIsJob(r) THEN SlFinish(FALSE) /\ UNCHANGED slSetting
                     ELSE slSetting' = SlNone /\ UNCHANGED slJob
    /\ slUnheard' = (slUnheard \/ r.step # "sent")
    /\ UNCHANGED <<slServer, slCerts, slFlags, slAsks, slForm, slMet>>
SlEndsUnheard(r) ==
    /\ r \in slAsked /\ ~r.heard
    /\ r.step \in {"done", "failed"} \/ (r.step = "sent" /\ r.kind # "issue")
    /\ slAsked' = slAsked \ {r}
    /\ slUnheard' = (slUnheard \/ r.step # "sent")
    /\ UNCHANGED <<slServer, slCerts, slFlags, slAsks, slJob, slSetting, slForm, slMet>>

-----------------------------------------------------------------------------
SlNext ==
    \/ SlReadCerts \/ SlReadFlags \/ SlTypeManual \/ SlCancelManual \/ SlUpload \/ SlClose
    \/ \E p \in {8, 92} : SlTick(p)
    \/ \E t \in SlTargets :
         \/ \E action \in {"issue", "renew", "revoke"} : SlClick(t, action)
         \/ \E kind \in {"force", "auto"} : SlSwitch(t, kind)
         \/ SlOpenManual(t)
    \/ \E r \in slAsked :
         \/ SlPending(r) \/ SlForced(r) \/ SlAutoSet(r)
         \/ SlEngine(r) \/ SlEngineFails(r) \/ SlRecord(r)
         \/ SlAnswered(r) \/ SlFails(r) \/ SlEndsUnheard(r)

-----------------------------------------------------------------------------
\* With nothing under way and no request ended in an error, the certificates and
\* the flags taken for fresh are those of the server.
CertListTrue ==
    slAsked = {} /\ ~slUnheard =>
        /\ slCerts.fresh => slCerts = SlRead
        /\ slFlags.fresh => slFlags.on = slOn

\* A site flagged as having SSL has a certificate installed, once the requests for
\* it have ended, unless two of them met.
FlaggedIsServed ==
    \A t \in SlTargets \ slMet :
        slOn[t] /\ (\A r \in slAsked : r.target # t) => slServed[t]

\* The bar is full exactly when the job has succeeded, and a job that is shown as
\* running has a request whose answer is awaited.
BarIsHonest ==
    slJob.target # SlNone =>
        /\ slJob.progress = 100 <=> slJob.status = "success"
        /\ slJob.status = "running" =>
             \E r \in slAsked : r.heard /\ r.kind = slJob.action /\ r.target = slJob.target

\* A certificate is uploaded to the site it was typed for, unless its form was
\* left with the texts in it: they are still there when the next one is opened.
UploadedToOwnSite ==
    \A r \in slAsked : r.kind = "manual" /\ r.heard /\ ~slLeft => r.value = r.target

-----------------------------------------------------------------------------
\* Why they hold.
SlRequest == [kind : {"issue", "renew", "revoke", "manual", "force", "auto"}, target : SlTargets,
              value : SlTargets \cup BOOLEAN,
              step : {"sent", "asked", "engine", "done", "failed"}, heard : BOOLEAN, n : Nat]
SlRows == [SlTargets -> {"none", "pending", "active", "failed"}]
SlSwitches == [SlTargets -> BOOLEAN]
SlTypeOK ==
    /\ slRow \in SlRows /\ {slOn, slServed, slForce, slAuto} \subseteq SlSwitches
    /\ slCerts \in [fresh : BOOLEAN, row : SlRows, force : SlSwitches, auto : SlSwitches]
    /\ slFlags \in [fresh : BOOLEAN, on : SlSwitches]
    /\ slAsked \subseteq SlRequest /\ slAsks \in Nat
    /\ \A r \in slAsked : r.kind \in {"force", "auto"} => r.value \in BOOLEAN
    /\ slJob \in [target : SlTargets \cup {SlNone}, action : {"issue", "renew", "revoke", "manual"},
                  status : {"running", "success", "error"}, progress : {0, 8, 92, 100}]
    /\ slManual \in SlTargets \cup {SlNone} /\ slText \in SlTargets \cup {SlNone}
    /\ slUnheard \in BOOLEAN /\ slLeft \in BOOLEAN

\* The requests for a site at which none have met are one, whose step tells whether
\* the certificate is installed, and whether the flag still says it is.
SlOneEach ==
    \A r, q \in slAsked : r.target = q.target /\ r.target \notin slMet => r = q
SlInstalled ==
    \A r \in slAsked : r.target \notin slMet /\ r.step = "engine" /\ r.kind # "revoke" => slServed[r.target]
SlFlagsLead ==
    \A t \in SlTargets \ slMet :
        slOn[t] /\ ~slServed[t] => \E r \in slAsked : r.target = t /\ r.kind = "revoke" /\ r.step = "engine"

\* The job shown as running is the one request of a job that is awaited.
SlJobIsAwaited ==
    /\ slJob.target # SlNone /\ slJob.status = "running" => \E r \in slAsked : r.heard /\ SlIsJob(r)
    /\ \A r \in slAsked : r.heard /\ SlIsJob(r) =>
          /\ slJob.target = r.target /\ slJob.action = r.kind /\ slJob.status = "running"
          /\ \A q \in slAsked : q.heard /\ SlIsJob(q) => r = q
SlBarIsFull == slJob.target # SlNone => (slJob.progress = 100 <=> slJob.status = "success")
SlTextIsOwn == ~slLeft => slText \in {slManual, SlNone}

\* What has changed on the server was changed by a request whose answer is to come.
SlListsLead ==
    ~slUnheard /\ (\A r \in slAsked : r.step = "sent") =>
        /\ slCerts.fresh => slCerts = SlRead
        /\ slFlags.fresh => slFlags.on = slOn

SlInv ==
    /\ SlTypeOK /\ SlOneEach /\ SlInstalled /\ SlFlagsLead
    /\ SlJobIsAwaited /\ SlBarIsFull /\ SlTextIsOwn /\ UploadedToOwnSite
    /\ SlListsLead
=============================================================================
