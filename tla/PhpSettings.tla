----------------------------- MODULE PhpSettings -----------------------------
(***************************************************************************)
(* The administrator's PHP page: the php.ini of the version picked, as a   *)
(* text and as the switches of its extension lines, both read into a cache *)
(* and edited in forms that every version shares; the engine, which reads  *)
(* and writes the file without a lock; and the job that carries the upload *)
(* limit over to nginx while the page asks how far it is.                  *)
(***************************************************************************)
EXTENDS Integers, Sequences, FiniteSets

CONSTANTS
    PhVersions,   \* installed versions
    PhNone,       \* nothing in the form
    PhMaxAsks,    \* bound: requests to save
    PhMaxSyncs    \* bound: syncs of the upload limit

\* A php.ini is a setting, 0 or 1, and one extension line, on or off.  Where only the
\* switches of its lines are read, the setting is 0.
VARIABLES
    phDisk,      \* version -> [set, mod]
    phIni,       \* cached texts: version -> [read, text]; read: "none", "fresh",
                 \* "stale" while it is read again, "bare" for an answer without text
    phMods,      \* cached switches, likewise
    phVersion,   \* version picked
    phText,      \* iniText: [of, text], of: the version it was read from
    phList,      \* moduleState: [of, text]
    phAsked,     \* saves under way: [kind, version, of, text, step]
    phAsks,      \* saves so far
    phMissed,    \* history: versions written without being read again
    phBare,      \* history: versions an answer gave no text for
    phSyncs,     \* sync jobs: "queued", "running", "success", "failed" or "killed"
    phSyncAsk,   \* the request for one: "none", "sent" or "made"
    phSyncId,    \* nginxSyncRunId, or 0
    phSyncLost   \* history: the answer of a sync that was begun got lost

phSyncVars == <<phSyncs, phSyncAsk, phSyncId, phSyncLost>>
phForms == <<phVersion, phText, phList>>
phConfigVars == <<phDisk, phIni, phMods, phForms, phAsked, phAsks, phMissed, phBare>>
phVars == <<phConfigVars, phSyncVars>>

PhPlain == [set |-> 0, mod |-> FALSE]
PhUnread == [read |-> "none", text |-> PhPlain]
PhEmptyForm == [of |-> PhNone, text |-> PhPlain]

PhInit ==
    /\ phDisk = [v \in PhVersions |-> PhPlain]
    /\ phIni = [v \in PhVersions |-> PhUnread]
    /\ phMods = [v \in PhVersions |-> PhUnread]
    /\ phVersion \in PhVersions
    /\ phText = PhEmptyForm /\ phList = PhEmptyForm
    /\ phAsked = {} /\ phAsks = 0
    /\ phMissed = {} /\ phBare = {}
    /\ phSyncs = <<>> /\ phSyncAsk = "none" /\ phSyncId = 0 /\ phSyncLost = FALSE

-----------------------------------------------------------------------------
(* Reading: what arrives for the version picked fills the form, if it is not *)
(* what was there; an answer without text leaves the text of before.         *)

PhHas(entry) == entry.read \in {"fresh", "stale"}
PhFilled(form, v, entry) == IF PhHas(entry) THEN [of |-> v, text |-> entry.text] ELSE form

PhPick(v) ==
    /\ v # phVersion
    /\ phVersion' = v
    /\ phText' = PhFilled(phText, v, phIni[v])
    /\ phList' = PhFilled(phList, v, phMods[v])
    /\ UNCHANGED <<phDisk, phIni, phMods, phAsked, phAsks, phMissed, phBare, phSyncVars>>

PhWanted(cache, v) == cache[v].read = "stale" \/ (v = phVersion /\ cache[v].read # "fresh")
PhSwitches(text) == [text EXCEPT !.set = 0]
PhArrives(text) == {[read |-> "fresh", text |-> text], [read |-> "bare", text |-> PhPlain]}
PhAfterRead(form, v, old, new) ==
    IF v # phVersion \/ (PhHas(old) /\ old.text = new.text) THEN form ELSE PhFilled(form, v, new)

PhNowBare(v, new) == IF new.read = "bare" THEN phBare \cup {v} ELSE phBare
PhReadIni(v) ==
    /\ PhWanted(phIni, v)
    /\ \E new \in PhArrives(phDisk[v]) :
           /\ phIni' = [phIni EXCEPT ![v] = new]
           /\ phText' = PhAfterRead(phText, v, phIni[v], new)
           /\ phBare' = PhNowBare(v, new)
    /\ UNCHANGED <<phDisk, phMods, phVersion, phList, phAsked, phAsks, phMissed, phSyncVars>>
PhReadModules(v) ==
    /\ PhWanted(phMods, v)
    /\ \E new \in PhArrives(PhSwitches(phDisk[v])) :
           /\ phMods' = [phMods EXCEPT ![v] = new]
           /\ phList' = PhAfterRead(phList, v, phMods[v], new)
           /\ phBare' = PhNowBare(v, new)
    /\ UNCHANGED <<phDisk, phIni, phVersion, phText, phAsked, phAsks, phMissed, phSyncVars>>

-----------------------------------------------------------------------------
(* Editing and saving, which wait for the first answer of the version.       *)

PhRead(entry) == entry.read # "none"
PhAnytime(entry) == TRUE      \* mutant
PhLoaded(entry) == PhRead(entry)

PhEdit ==
    /\ PhLoaded(phIni[phVersion])
    /\ phText' = [of |-> IF phText.of = PhNone THEN phVersion ELSE phText.of,
                  text |-> [phText.text EXCEPT !.set = 1 - @]]
    /\ UNCHANGED <<phDisk, phIni, phMods, phVersion, phList, phAsked, phAsks, phMissed, phBare, phSyncVars>>
PhToggle ==
    /\ phList.of # PhNone
    /\ phList' = [phList EXCEPT !.text.mod = ~@]
    /\ UNCHANGED <<phDisk, phIni, phMods, phVersion, phText, phAsked, phAsks, phMissed, phBare, phSyncVars>>

PhAsk(kind, form, entry) ==
    /\ PhLoaded(entry) /\ form.of # PhNone
    /\ phAsks < PhMaxAsks
    /\ \A r \in phAsked : r.kind # kind
    /\ phAsked' = phAsked \cup {[kind |-> kind, version |-> phVersion, of |-> form.of,
                                 text |-> form.text, step |-> "sent"]}
    /\ phAsks' = phAsks + 1
    /\ UNCHANGED <<phDisk, phIni, phMods, phForms, phMissed, phBare, phSyncVars>>
PhSaveIni == PhAsk("ini", phText, phIni[phVersion])
PhSaveModules == PhAsk("modules", phList, phMods[phVersion])

PhStep(r, next) == phAsked' = (phAsked \ {r}) \cup {next}

\* The text replaces the file; the switches are set in the file as it was read.
PhLoad(r) ==
    /\ r \in phAsked /\ r.kind = "modules" /\ r.step = "sent"
    /\ PhStep(r, [r EXCEPT !.text.set = phDisk[r.version].set, !.step = "loaded"])
    /\ UNCHANGED <<phDisk, phIni, phMods, phForms, phAsks, phMissed, phBare, phSyncVars>>
PhWrite(r) ==
    /\ r \in phAsked /\ r.step = IF r.kind = "ini" THEN "sent" ELSE "loaded"
    /\ phDisk' = [phDisk EXCEPT ![r.version] = r.text]
    /\ PhStep(r, [r EXCEPT !.step = "done"])
    /\ UNCHANGED <<phIni, phMods, phForms, phAsks, phMissed, phBare, phSyncVars>>

\* Either answer has both read again, of the version that is picked by then.
PhRefetched(cache) == [cache EXCEPT ![phVersion].read = IF @ = "fresh" THEN "stale" ELSE @]
PhKept(cache) == cache      \* mutant
PhRefetch(cache) == PhRefetched(cache)

PhAnswered(r) ==
    /\ r \in phAsked /\ r.step = "done"
    /\ phAsked' = phAsked \ {r}
    /\ phIni' = PhRefetch(phIni)
    /\ phMods' = PhRefetch(phMods)
    /\ phMissed' = IF r.version = phVersion THEN phMissed ELSE phMissed \cup {r.version}
    /\ UNCHANGED <<phDisk, phForms, phAsks, phBare, phSyncVars>>
PhFails(r) ==
    /\ r \in phAsked
    /\ phAsked' = phAsked \ {r}
    /\ phMissed' = IF r.step = "done" THEN phMissed \cup {r.version} ELSE phMissed
    /\ UNCHANGED <<phDisk, phIni, phMods, phForms, phAsks, phBare, phSyncVars>>

-----------------------------------------------------------------------------
(* The upload limit of nginx.                                                *)

PhSyncClick ==
    /\ phSyncAsk = "none" /\ phSyncId = 0 /\ Len(phSyncs) < PhMaxSyncs
    /\ phSyncAsk' = "sent"
    /\ UNCHANGED <<phConfigVars, phSyncs, phSyncId, phSyncLost>>
PhSyncBegin ==
    /\ phSyncAsk = "sent"
    /\ phSyncs' = Append(phSyncs, "queued")
    /\ phSyncAsk' = "made"
    /\ UNCHANGED <<phConfigVars, phSyncId, phSyncLost>>
PhSyncAnswered ==
    /\ phSyncAsk = "made"
    /\ phSyncId' = Len(phSyncs)
    /\ phSyncAsk' = "none"
    /\ UNCHANGED <<phConfigVars, phSyncs, phSyncLost>>
PhSyncFails ==
    /\ phSyncAsk # "none"
    /\ phSyncLost' = (phSyncLost \/ phSyncAsk = "made")
    /\ phSyncAsk' = "none"
    /\ UNCHANGED <<phConfigVars, phSyncs, phSyncId>>

PhSyncAlive(n) == phSyncs[n] \in {"queued", "running"}
PhSyncWork(n) ==
    /\ PhSyncAlive(n)
    /\ \E next \in IF phSyncs[n] = "queued" THEN {"running", "killed"}
                                            ELSE {"success", "failed", "killed"} :
           phSyncs' = [phSyncs EXCEPT ![n] = next]
    /\ UNCHANGED <<phConfigVars, phSyncAsk, phSyncId, phSyncLost>>

PhSyncEnded(status) == status \in {"success", "failed"}
PhSyncKnown(status) == TRUE      \* mutant
PhSyncOver(status) == PhSyncEnded(status)
PhSyncPoll ==
    /\ phSyncId # 0 /\ PhSyncOver(phSyncs[phSyncId])
    /\ phSyncId' = 0
    /\ UNCHANGED <<phConfigVars, phSyncs, phSyncAsk, phSyncLost>>

-----------------------------------------------------------------------------
PhConfigNext ==
    \/ \E v \in PhVersions : PhPick(v) \/ PhReadIni(v) \/ PhReadModules(v)
    \/ PhEdit \/ PhToggle \/ PhSaveIni \/ PhSaveModules
    \/ \E r \in phAsked : PhLoad(r) \/ PhWrite(r) \/ PhAnswered(r) \/ PhFails(r)
PhSyncNext ==
    \/ PhSyncClick \/ PhSyncBegin \/ PhSyncAnswered \/ PhSyncFails \/ PhSyncPoll
    \/ \E n \in 1..Len(phSyncs) : PhSyncWork(n)

-----------------------------------------------------------------------------
\* With no save under way for a version, a cached text and cached switches that
\* pass for fresh are those of its php.ini, whichever of the two was saved, unless
\* an answer came while another version was picked or got lost.
IniShownTrue ==
    \A v \in PhVersions \ phMissed :
        (\A r \in phAsked : r.version # v) =>
            /\ phIni[v].read = "fresh" => phIni[v].text = phDisk[v]
            /\ phMods[v].read = "fresh" => phMods[v].text.mod = phDisk[v].mod

\* What is saved for a version was read from its own php.ini, unless the engine
\* had no text to give for it.
SavedToOwnVersion ==
    \A r \in phAsked : r.of = r.version \/ r.version \in phBare

\* At most one sync rewrites nginx at a time, unless the answer that named the
\* one under way got lost.
OneSync == phSyncLost \/ Cardinality({n \in 1..Len(phSyncs) : PhSyncAlive(n)}) <= 1

-----------------------------------------------------------------------------
(* The inductive invariant of the properties above.                          *)

PhTexts == [set : {0, 1}, mod : BOOLEAN]
PhCaches == [PhVersions -> [read : {"none", "fresh", "stale", "bare"}, text : PhTexts]]
PhFormSet == [of : PhVersions \cup {PhNone}, text : PhTexts]
PhTypeOK ==
    /\ phDisk \in [PhVersions -> PhTexts] /\ {phIni, phMods} \subseteq PhCaches
    /\ phVersion \in PhVersions /\ {phText, phList} \subseteq PhFormSet
    /\ phAsked \subseteq [kind : {"ini", "modules"}, version : PhVersions,
                         of : PhVersions \cup {PhNone}, text : PhTexts,
                         step : {"sent", "loaded", "done"}]
    /\ phAsks \in Nat
    /\ phSyncs \in Seq({"queued", "running", "success", "failed", "killed"})
    /\ phSyncAsk \in {"none", "sent", "made"} /\ phSyncId \in 0..Len(phSyncs)
    /\ phSyncLost \in BOOLEAN

PhCachesLead ==
    \A v \in PhVersions \ phMissed :
        (\A r \in phAsked : r.version = v => r.step # "done") =>
            /\ phIni[v].read = "fresh" => phIni[v].text = phDisk[v]
            /\ phMods[v].read = "fresh" => phMods[v].text.mod = phDisk[v].mod
PhBareIsNoted == \A v \in PhVersions : "bare" \in {phIni[v].read, phMods[v].read} => v \in phBare
PhFormsAreOwn ==
    phVersion \notin phBare =>
        /\ PhRead(phIni[phVersion]) => phText.of = phVersion
        /\ PhRead(phMods[phVersion]) => phList.of = phVersion
\* The sync alive is the one last begun, and the page is told of it or follows it.
PhSyncIsFollowed ==
    /\ phSyncAsk # "none" => phSyncId = 0
    /\ ~phSyncLost => \A n \in 1..Len(phSyncs) :
           PhSyncAlive(n) => n = Len(phSyncs) /\ (phSyncAsk = "made" \/ phSyncId = n)

PhInv == /\ PhTypeOK /\ PhCachesLead /\ PhBareIsNoted /\ PhFormsAreOwn /\ PhSyncIsFollowed
         /\ SavedToOwnVersion
=============================================================================
