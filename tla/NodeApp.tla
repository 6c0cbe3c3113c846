------------------------------ MODULE NodeApp ------------------------------
(***************************************************************************)
(* The Node.js page: the site picked, its configuration in the cache and   *)
(* in the form, the detections that run by themselves and when a folder is *)
(* chosen, and requests whose answers may find another site picked.        *)
(***************************************************************************)
EXTENDS Integers, FiniteSets

CONSTANTS
    NaTargets,   \* domains and subdomains
    NaDirs,      \* folders a package.json can be in
    NaNone,      \* no site, no output, nothing chosen
    NaMaxAsks,   \* bound: requests other than detections
    NaMaxDetects \* bound: detections under way; one more fails at once

VARIABLES
    naConf,     \* engine: target -> [dir, saved]; saved: it is enabled or has a port
    naCache,    \* target -> [read: "none", "fresh" or "stale", conf]
    naPicked,   \* the site picked, or NaNone
    naLast,     \* actionTargetRef, detectTargetRef: the last site picked
    naForm,     \* [owner, dir]: whose configuration filled it; its folder
    naOut,      \* lastOut: [of, error]
    naDetects,  \* detections under way: [target, dir]
    naAsked,    \* requests: [kind, target, owner, read, dir, step]
    naAsks,     \* requests so far
    naMissed    \* history: sites with an answer that came too late or was an error

naVars == <<naConf, naCache, naPicked, naLast, naForm, naOut, naDetects, naAsked, naAsks,
            naMissed>>

NaRoot == CHOOSE d \in NaDirs : TRUE
NaNoOut == [of |-> NaNone, error |-> FALSE]

NaInit ==
    /\ naConf \in [NaTargets -> [dir : {NaRoot}, saved : BOOLEAN]]
    /\ naCache = [t \in NaTargets |-> [read |-> "none", conf |-> naConf[t]]]
    /\ naPicked = NaNone /\ naLast = NaNone
    /\ naForm = [owner |-> NaNone, dir |-> NaRoot]
    /\ naOut = NaNoOut
    /\ naDetects = {} /\ naAsked = {} /\ naAsks = 0
    /\ naMissed = {}

NaDetect(t, d) ==
    naDetects' = IF Cardinality(naDetects) < NaMaxDetects
                 THEN naDetects \cup {[target |-> t, dir |-> d]} ELSE naDetects

-----------------------------------------------------------------------------
(* The site and its configuration.                                           *)

\* The form takes what the cache has of the site; with nothing there it stays.
NaFill(t) == [owner |-> t, dir |-> naCache[t].conf.dir]
NaPick(t) ==
    /\ t # naPicked
    /\ naPicked' = t
    /\ IF t = NaNone
       THEN UNCHANGED <<naLast, naForm, naOut, naDetects>>
       ELSE /\ naLast' = t
            /\ naForm' = IF naCache[t].read = "none" THEN naForm ELSE NaFill(t)
            /\ naOut' = NaNoOut
            /\ NaDetect(t, NaRoot)
    /\ UNCHANGED <<naConf, naCache, naAsked, naAsks, naMissed>>

\* A configuration that differs from the one before fills the form again, as it
\* does when only the state of the process that comes with it differs.
NaRead ==
    /\ naPicked # NaNone /\ naCache[naPicked].read # "fresh"
    /\ naCache' = [naCache EXCEPT ![naPicked] = [read |-> "fresh", conf |-> naConf[naPicked]]]
    /\ \/ /\ naCache[naPicked].read = "stale" /\ naCache[naPicked].conf = naConf[naPicked]
          /\ UNCHANGED naForm
       \/ naForm' = [owner |-> naPicked, dir |-> naConf[naPicked].dir]
    /\ UNCHANGED <<naConf, naPicked, naLast, naOut, naDetects, naAsked, naAsks, naMissed>>

-----------------------------------------------------------------------------
(* The folder and its detection.                                             *)

NaChooseDir(d) ==
    /\ naPicked # NaNone
    /\ naForm' = [naForm EXCEPT !.dir = d]
    /\ NaDetect(naPicked, d)
    /\ UNCHANGED <<naConf, naCache, naPicked, naLast, naOut, naAsked, naAsks, naMissed>>
NaDetectAgain ==
    /\ naPicked # NaNone /\ naDetects = {}
    /\ naDetects' = {[target |-> naPicked, dir |-> naForm.dir]}
    /\ UNCHANGED <<naConf, naCache, naPicked, naLast, naForm, naOut, naAsked, naAsks, naMissed>>
\* With a configuration that is enabled or has a port, the folder of that
\* configuration is put back.
NaMerged(t, found) ==
    IF naPicked = t /\ naCache[t].read # "none" /\ naCache[t].conf.saved
    THEN naCache[t].conf.dir ELSE found
\* The folder found is the one asked about, or another one when that is the root.
NaDetected(q, found) ==
    /\ q \in naDetects
    /\ q.dir # NaRoot => found = q.dir
    /\ naDetects' = naDetects \ {q}
    /\ naForm' = IF q.target = naLast THEN [naForm EXCEPT !.dir = NaMerged(q.target, found)]
                                      ELSE naForm
    /\ UNCHANGED <<naConf, naCache, naPicked, naLast, naOut, naAsked, naAsks, naMissed>>
NaDetectFails(q) ==
    /\ q \in naDetects
    /\ naDetects' = naDetects \ {q}
    /\ UNCHANGED <<naConf, naCache, naPicked, naLast, naForm, naOut, naAsked, naAsks, naMissed>>

-----------------------------------------------------------------------------
(* Saving, configuring, healing, and the process of the application.         *)

\* "action": start, stop, restart, install and build, of which one runs at a time.
NaKinds == {"save", "auto", "heal", "action"}
NaAsk(kind) ==
    /\ naPicked # NaNone /\ naAsks < NaMaxAsks
    /\ \A r \in naAsked : r.kind # kind
    /\ naAsks' = naAsks + 1
    /\ naAsked' = naAsked \cup
         {[kind |-> kind, target |-> naPicked, owner |-> naForm.owner,
           read |-> naCache[naPicked].read # "none", dir |-> naForm.dir, step |-> "sent"]}
    /\ UNCHANGED <<naConf, naCache, naPicked, naLast, naForm, naOut, naDetects, naMissed>>

NaServed(r) ==
    /\ r \in naAsked /\ r.step = "sent"
    /\ \E d \in NaDirs :
         /\ r.kind # "auto" => d = r.dir
         /\ naConf' = [naConf EXCEPT ![r.target] =
              IF r.kind \in {"save", "auto"} THEN [dir |-> d, saved |-> TRUE] ELSE @]
    /\ naAsked' = (naAsked \ {r}) \cup {[r EXCEPT !.step = "done"]}
    /\ UNCHANGED <<naCache, naPicked, naLast, naForm, naOut, naDetects, naAsks, naMissed>>

\* An answer for another site than the last one picked is dropped, and with it
\* the refresh of its own site's configuration.
NaForLast(r) == r.target = naLast
NaForAny(r) == TRUE      \* mutant
NaHeeded(r) == NaForLast(r)
NaForgotten(t) == [naCache EXCEPT ![t].read = IF @ = "fresh" THEN "stale" ELSE @]
NaKept(t) == naCache      \* mutant
NaForget(t) == NaForgotten(t)
NaAnswered(r) ==
    /\ r \in naAsked /\ r.step = "done"
    /\ naAsked' = naAsked \ {r}
    /\ IF NaHeeded(r)
       THEN /\ naCache' = NaForget(r.target)
            /\ naForm' = IF r.kind \in {"auto", "heal"}
                         THEN [owner |-> r.target, dir |-> naConf[r.target].dir] ELSE naForm
            /\ naOut' = IF r.kind \in {"save", "auto"} THEN naOut
                        ELSE [of |-> r.target, error |-> FALSE]
            /\ naMissed' = naMissed
       ELSE /\ naMissed' = naMissed \cup {r.target}
            /\ UNCHANGED <<naCache, naForm, naOut>>
    /\ UNCHANGED <<naConf, naPicked, naLast, naDetects, naAsks>>
\* The output of an error is shown whichever site is picked by now.
NaFails(r) ==
    /\ r \in naAsked
    /\ naAsked' = naAsked \ {r}
    /\ naOut' = IF r.kind = "save" THEN naOut ELSE [of |-> r.target, error |-> TRUE]
    /\ naMissed' = IF r.step = "sent" THEN naMissed ELSE naMissed \cup {r.target}
    /\ UNCHANGED <<naConf, naCache, naPicked, naLast, naForm, naDetects, naAsks>>

-----------------------------------------------------------------------------
NaNext ==
    \/ NaRead \/ NaDetectAgain
    \/ \E t \in NaTargets \cup {NaNone} : NaPick(t)
    \/ \E d \in NaDirs : NaChooseDir(d)
    \/ \E q \in naDetects : NaDetectFails(q) \/ \E d \in NaDirs : NaDetected(q, d)
    \/ \E kind \in NaKinds : NaAsk(kind)
    \/ \E r \in naAsked : NaServed(r) \/ NaAnswered(r) \/ NaFails(r)

-----------------------------------------------------------------------------
\* With nothing under way for a site, its configuration in the cache is the
\* engine's when it is taken for fresh, unless an answer for it came when another
\* site was picked, or was an error.
AppConfigTrue ==
    \A t \in NaTargets \ naMissed :
        naCache[t].read = "fresh" /\ (\A r \in naAsked : r.target # t) =>
            naCache[t].conf = naConf[t]

\* A configuration is saved to the site that filled the form, unless it was saved
\* before the site's own had been read.
SavedToOwnApp ==
    \A r \in naAsked : r.kind = "save" /\ r.read => r.owner = r.target

\* The output shown is that of the site picked, unless it is that of an error.
OutputOfPicked ==
    naPicked # NaNone /\ naOut.of # NaNone /\ ~naOut.error => naOut.of = naPicked

-----------------------------------------------------------------------------
(* The inductive invariant of the properties above.                          *)

NaConfs == [dir : NaDirs, saved : BOOLEAN]
NaTypeOK ==
    /\ naConf \in [NaTargets -> NaConfs]
    /\ naCache \in [NaTargets -> [read : {"none", "fresh", "stale"}, conf : NaConfs]]
    /\ {naPicked, naLast} \subseteq NaTargets \cup {NaNone}
    /\ naForm \in [owner : NaTargets \cup {NaNone}, dir : NaDirs]
    /\ naOut \in [of : NaTargets \cup {NaNone}, error : BOOLEAN]
    /\ naDetects \subseteq [target : NaTargets, dir : NaDirs]
    /\ naAsked \subseteq [kind : NaKinds, target : NaTargets, owner : NaTargets \cup {NaNone},
                         read : BOOLEAN, dir : NaDirs, step : {"sent", "done"}]
    /\ naAsks \in Nat

NaCacheLeads ==
    \A t \in NaTargets \ naMissed :
        naCache[t].read = "fresh" /\ (\A r \in naAsked : r.target = t => r.step = "sent") =>
            naCache[t].conf = naConf[t]
NaFormIsOwn == naPicked # NaNone /\ naCache[naPicked].read # "none" => naForm.owner = naPicked
NaOutIsOfLast ==
    /\ naPicked # NaNone => naLast = naPicked
    /\ naOut.of # NaNone /\ ~naOut.error => naOut.of = naLast

NaInv == NaTypeOK /\ NaCacheLeads /\ NaFormIsOwn /\ NaOutIsOfLast /\ SavedToOwnApp
=============================================================================
