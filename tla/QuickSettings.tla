--------------------------- MODULE QuickSettings ---------------------------
(***************************************************************************)
(* The quick settings dialog of a domain: the web server file edited in    *)
(* place, the PHP / server / status / certificate changes that close the   *)
(* dialog when they succeed, and its two switches.  The dialog stays       *)
(* mounted while the domain it shows changes, so an answer may find it     *)
(* showing another domain than the one it was asked for.                   *)
(***************************************************************************)
EXTENDS Integers, FiniteSets

CONSTANTS
    QsSites,    \* domains of the list
    QsNone,     \* the dialog is closed; nothing under way
    QsMaxTexts, \* bound: texts typed into the editor
    QsMaxAsks   \* bound: changes asked for, and switches turned

VARIABLES
    qsOpen,     \* the domain shown, or QsNone
    qsDisk,     \* server: domain -> [live, prev] files; 0 is no file
    qsCache,    \* domain -> last answer of the editor's query
    qsEditor,   \* [text, ready, typed, of]: of is the domain the text is from
    qsPost,     \* the save, revert or regeneration under way, or QsNone
    qsTexts,    \* texts typed so far
    qsUnheard,  \* history: the answer of a request carried out was lost
    qsAsked,    \* changes under way: [kind, site, to, here, n]
    qsAsks,     \* changes asked for so far
    qsPick,     \* the PHP version picked, and the domain it was picked on
    qsPhase,    \* the certificate's progress: idle, running, done, error
    qsTimers,   \* success timers that have not fired
    qsSwitch,   \* the switch followed: the PHP shell's or the performance mode's
    qsSet,      \* server: domain -> is it on
    qsSetCache, \* domain -> [fresh, on] of its query
    qsShownOn,  \* what the dialog shows of the switch
    qsTurning,  \* [site, on, done]: the turn under way, or QsNone
    qsCrossed   \* history: an answer found another domain shown, or got lost

qsEditorVars == <<qsDisk, qsCache, qsEditor, qsPost, qsTexts, qsUnheard>>
qsChangeVars == <<qsAsked, qsPick, qsPhase, qsTimers>>
qsSwitchVars == <<qsSwitch, qsSet, qsSetCache, qsShownOn, qsTurning, qsCrossed>>
qsVars == <<qsOpen, qsAsks, qsEditorVars, qsChangeVars, qsSwitchVars>>

QsUnread == [state |-> "unread", fresh |-> FALSE, site |-> QsNone, live |-> 0, prev |-> 0]
QsBlank == [text |-> 0, ready |-> FALSE, typed |-> FALSE, of |-> QsNone]
QsNoPick == [to |-> 0, on |-> QsNone]

QsInit ==
    /\ qsOpen = QsNone
    /\ qsDisk \in [QsSites -> {[live |-> 0, prev |-> 0], [live |-> 1, prev |-> 2]}]
    /\ qsCache = [d \in QsSites |-> QsUnread]
    /\ qsEditor = QsBlank
    /\ qsPost = QsNone
    /\ qsTexts = 0
    /\ qsUnheard = FALSE
    /\ qsAsked = {}
    /\ qsAsks = 0
    /\ qsPick = QsNoPick
    /\ qsPhase = "idle"
    /\ qsTimers = 0
    /\ qsSwitch \in {"shell", "perf"}
    /\ qsSet \in [QsSites -> BOOLEAN]
    /\ qsSetCache = [d \in QsSites |-> [fresh |-> FALSE, read |-> FALSE, on |-> FALSE]]
    /\ qsShownOn = FALSE
    /\ qsTurning = QsNone
    /\ qsCrossed = FALSE

-----------------------------------------------------------------------------
(* The web server file.                                                      *)

\* The query of the editor is keyed by the domain.
QsOwnKey(d) == d
QsOneKey(d) == CHOOSE x \in QsSites : TRUE      \* mutant
QsKey(d) == QsOwnKey(d)

\* The loading effect: as soon as the query has an answer and the editor is
\* not ready, the cached text is taken, whether or not a newer one is on its way.
QsLoaded(cache, editor) ==
    LET c == cache[QsKey(qsOpen)]
    IN  IF qsOpen # QsNone /\ c.state = "read" /\ ~editor.ready
        THEN [text |-> c.live, ready |-> TRUE, typed |-> FALSE, of |-> c.site]
        ELSE editor

QsAnswerOf(d) == [state |-> "read", fresh |-> TRUE, site |-> d,
                  live |-> qsDisk[d].live, prev |-> qsDisk[d].prev]
QsStaleKey(d) == [qsCache EXCEPT ![QsKey(d)].fresh = FALSE]

QsRead ==
    /\ qsOpen # QsNone /\ ~qsCache[QsKey(qsOpen)].fresh
    /\ qsCache' = [qsCache EXCEPT ![QsKey(qsOpen)] = QsAnswerOf(qsOpen)]
    /\ qsEditor' = QsLoaded(qsCache', qsEditor)
    /\ UNCHANGED <<qsOpen, qsAsks, qsDisk, qsPost, qsTexts, qsUnheard, qsChangeVars,
                   qsSwitchVars>>

\* Any error but 404.  The text field is open all the same.
QsReadFails ==
    /\ qsOpen # QsNone /\ qsCache[QsKey(qsOpen)].state = "unread"
    /\ qsCache' = [qsCache EXCEPT ![QsKey(qsOpen)] = [QsUnread EXCEPT !.state = "failed", !.fresh = TRUE]]
    /\ UNCHANGED <<qsOpen, qsAsks, qsDisk, qsEditor, qsPost, qsTexts, qsUnheard, qsChangeVars,
                   qsSwitchVars>>

QsEditing == /\ qsOpen # QsNone /\ qsPost = QsNone
             /\ qsCache[QsKey(qsOpen)].state # "unread"

QsType ==
    /\ QsEditing /\ qsTexts < QsMaxTexts
    /\ qsTexts' = qsTexts + 1
    /\ qsEditor' = [qsEditor EXCEPT !.text = qsTexts' + 2, !.typed = TRUE,
                                    !.of = IF qsEditor.ready THEN @ ELSE qsOpen]
    /\ UNCHANGED <<qsOpen, qsAsks, qsDisk, qsCache, qsPost, qsUnheard, qsChangeVars,
                   qsSwitchVars>>

QsPosts(kind) ==
    /\ qsPost' = [kind |-> kind, site |-> qsOpen, text |-> qsEditor.text,
                  of |-> qsEditor.of, done |-> FALSE]
    /\ UNCHANGED <<qsOpen, qsAsks, qsDisk, qsCache, qsEditor, qsTexts, qsUnheard, qsChangeVars,
                   qsSwitchVars>>

QsSave == QsEditing /\ QsPosts("save")
QsRevert == QsEditing /\ qsCache[QsKey(qsOpen)].prev # 0 /\ QsPosts("revert")
QsRegenerate == /\ QsEditing /\ qsCache[QsKey(qsOpen)].state = "read"
                /\ qsCache[QsKey(qsOpen)].live = 0 /\ QsPosts("regenerate")

\* The panel refuses an empty text; the engine keeps the file it replaces.
QsFiles(f, p) == CASE p.kind = "save" -> [live |-> p.text, prev |-> IF f.live = 0 THEN f.prev ELSE f.live]
                   [] p.kind = "revert" -> [live |-> f.prev, prev |-> f.live]
                   [] p.kind = "regenerate" -> [f EXCEPT !.live = IF @ = 0 THEN 1 ELSE @]
QsCarriedOut ==
    /\ qsPost # QsNone
    /\ ~qsPost.done
    /\ qsPost.kind = "save" => qsPost.text # 0
    /\ qsPost.kind = "revert" => qsDisk[qsPost.site].prev # 0
    /\ qsDisk' = [qsDisk EXCEPT ![qsPost.site] = QsFiles(@, qsPost)]
    /\ qsPost' = [qsPost EXCEPT !.done = TRUE]
    /\ UNCHANGED <<qsOpen, qsAsks, qsCache, qsEditor, qsTexts, qsUnheard, qsChangeVars,
                   qsSwitchVars>>

\* Success: the query of the domain now shown is invalidated, and the editor is
\* made unready, so the loading effect runs at once on the text in the cache.
QsPostAnswered ==
    /\ qsPost # QsNone
    /\ qsPost.done
    /\ qsPost' = QsNone
    /\ qsCache' = IF qsOpen = QsNone THEN qsCache ELSE QsStaleKey(qsOpen)
    /\ qsEditor' = QsLoaded(qsCache', [qsEditor EXCEPT !.ready = FALSE])
    /\ UNCHANGED <<qsOpen, qsAsks, qsDisk, qsTexts, qsUnheard, qsChangeVars, qsSwitchVars>>

QsPostFails ==
    /\ qsPost # QsNone
    /\ qsPost' = QsNone
    /\ qsUnheard' = (qsUnheard \/ qsPost.done)
    /\ UNCHANGED <<qsOpen, qsAsks, qsDisk, qsCache, qsEditor, qsTexts, qsChangeVars,
                   qsSwitchVars>>

\* The refresh button, out while the query is fetching.
QsReload ==
    /\ qsOpen # QsNone /\ qsCache[QsKey(qsOpen)].fresh
    /\ qsCache' = QsStaleKey(qsOpen)
    /\ qsEditor' = QsLoaded(qsCache', [qsEditor EXCEPT !.ready = FALSE])
    /\ UNCHANGED <<qsOpen, qsAsks, qsDisk, qsPost, qsTexts, qsUnheard, qsChangeVars,
                   qsSwitchVars>>

-----------------------------------------------------------------------------
(* PHP version, web server, status and certificate.                          *)

QsPending(kind) == \E r \in qsAsked : r.here /\ r.kind = kind

QsAsk(kind, to, for) ==
    /\ qsOpen # QsNone /\ qsAsks < QsMaxAsks
    /\ qsAsks' = qsAsks + 1
    /\ qsAsked' = qsAsked \cup {[kind |-> kind, site |-> qsOpen, to |-> to, for |-> for,
                                 here |-> TRUE, n |-> qsAsks]}

QsPickPhp ==
    /\ qsOpen # QsNone
    /\ qsPick' = [to |-> 1, on |-> qsOpen]
    /\ UNCHANGED <<qsOpen, qsAsks, qsAsked, qsPhase, qsTimers, qsEditorVars, qsSwitchVars>>

\* Apply is there when the pick differs from the version the row had.  The
\* server select has the same form.
QsApply ==
    /\ qsPick.to # 0 /\ ~QsPending("php")
    /\ QsAsk("php", qsPick.to, qsPick.on)
    /\ UNCHANGED <<qsOpen, qsPick, qsPhase, qsTimers, qsEditorVars, qsSwitchVars>>

QsSetStatus ==
    /\ ~QsPending("status")
    /\ QsAsk("status", 1, qsOpen)
    /\ UNCHANGED <<qsOpen, qsPick, qsPhase, qsTimers, qsEditorVars, qsSwitchVars>>

\* The certificate's button: out while the request is pending.
QsPhaseOnly == qsPhase = "running"      \* mutant
QsIssueBusy == QsPending("ssl") \/ qsPhase = "running"
QsIssue ==
    /\ ~QsIssueBusy
    /\ QsAsk("ssl", 1, qsOpen)
    /\ qsPhase' = "running"
    /\ UNCHANGED <<qsOpen, qsPick, qsTimers, qsEditorVars, qsSwitchVars>>

\* Opening the dialog and closing it, whoever does: the effects on the domain.
QsReset(d) ==
    /\ qsOpen' = d
    /\ qsEditor' = IF d # QsNone /\ qsCache[QsKey(d)].state = "read"
                   THEN [text |-> qsCache[QsKey(d)].live, ready |-> TRUE, typed |-> FALSE,
                         of |-> qsCache[QsKey(d)].site]
                   ELSE QsBlank
    /\ qsShownOn' = (d # QsNone /\ qsSetCache[d].read /\ qsSetCache[d].on)

\* The picks are reset by the domain, but not by closing.
QsFreshPick(d) == qsPick' = QsNoPick
QsSamePick(d) == qsPick' = qsPick      \* mutant
QsPickReset(d) == QsFreshPick(d)

QsOpenOn(d) ==
    /\ qsOpen = QsNone
    /\ QsReset(d) /\ QsPickReset(d)
    /\ qsPhase' = "idle"
    /\ UNCHANGED <<qsAsks, qsAsked, qsTimers, qsDisk, qsCache, qsPost, qsTexts, qsUnheard,
                   qsSwitch, qsSet, qsSetCache, qsTurning, qsCrossed>>

QsClosed == QsReset(QsNone) /\ UNCHANGED <<qsPick, qsDisk, qsCache, qsPost, qsTexts, qsUnheard,
                                           qsSwitch, qsSet, qsSetCache, qsTurning, qsCrossed>>

QsClose ==
    /\ qsOpen # QsNone
    /\ QsClosed
    /\ qsPhase' = "idle"
    /\ UNCHANGED <<qsAsks, qsAsked, qsTimers>>

\* A link to another page of the site: the hooks are gone when it comes back.
QsLeave ==
    /\ qsOpen # QsNone
    /\ QsClosed
    /\ qsPhase' = "idle" /\ qsTimers' = 0
    /\ qsAsked' = {[r EXCEPT !.here = FALSE] : r \in qsAsked}
    /\ UNCHANGED qsAsks

\* php, server and status: success closes the dialog, whatever it shows.  The
\* callbacks of a page that was left act on nothing.
QsChanged(r) ==
    /\ r \in qsAsked /\ r.kind # "ssl"
    /\ qsAsked' = qsAsked \ {r}
    /\ IF r.here THEN QsClosed ELSE UNCHANGED <<qsOpen, qsPick, qsEditorVars, qsSwitchVars>>
    /\ UNCHANGED <<qsAsks, qsPhase, qsTimers>>

\* The certificate is there: "done" for 1.6 seconds, then closed.
QsIssued(r) ==
    /\ r \in qsAsked /\ r.kind = "ssl"
    /\ qsAsked' = qsAsked \ {r}
    /\ qsPhase' = IF r.here THEN "done" ELSE qsPhase
    /\ qsTimers' = IF r.here THEN qsTimers + 1 ELSE qsTimers
    /\ UNCHANGED <<qsOpen, qsAsks, qsPick, qsEditorVars, qsSwitchVars>>

QsTimer ==
    /\ qsTimers > 0
    /\ qsTimers' = qsTimers - 1
    /\ qsPhase' = "idle"
    /\ QsClosed
    /\ UNCHANGED <<qsAsks, qsAsked>>

QsChangeFails(r) ==
    /\ r \in qsAsked
    /\ qsAsked' = qsAsked \ {r}
    /\ qsPhase' = IF r.here /\ r.kind = "ssl" THEN "error" ELSE qsPhase
    /\ UNCHANGED <<qsOpen, qsAsks, qsPick, qsTimers, qsEditorVars, qsSwitchVars>>

-----------------------------------------------------------------------------
(* The switches.                                                             *)

\* The query of the domain shown; its value is copied when it changes.
QsReadSwitch ==
    /\ qsOpen # QsNone /\ ~qsSetCache[qsOpen].fresh
    /\ qsSetCache' = [qsSetCache EXCEPT ![qsOpen] = [fresh |-> TRUE, read |-> TRUE, on |-> qsSet[qsOpen]]]
    /\ qsShownOn' = IF qsSetCache[qsOpen].read /\ qsSetCache[qsOpen].on = qsSet[qsOpen]
                    THEN qsShownOn ELSE qsSet[qsOpen]
    /\ UNCHANGED <<qsOpen, qsAsks, qsSwitch, qsSet, qsTurning, qsCrossed, qsEditorVars,
                   qsChangeVars>>

\* Confirmed; the shell's button for the state shown is out.
QsTurn(on) ==
    /\ qsOpen # QsNone /\ qsSetCache[qsOpen].read /\ qsTurning = QsNone /\ qsAsks < QsMaxAsks
    /\ qsSwitch = "shell" => on # qsShownOn
    /\ qsAsks' = qsAsks + 1
    /\ qsTurning' = [site |-> qsOpen, on |-> on, done |-> FALSE]
    /\ UNCHANGED <<qsOpen, qsSwitch, qsSet, qsSetCache, qsShownOn, qsCrossed, qsEditorVars,
                   qsChangeVars>>

QsTurned ==
    /\ qsTurning # QsNone
    /\ ~qsTurning.done
    /\ qsSet' = [qsSet EXCEPT ![qsTurning.site] = qsTurning.on]
    /\ qsTurning' = [qsTurning EXCEPT !.done = TRUE]
    /\ UNCHANGED <<qsOpen, qsAsks, qsSwitch, qsSetCache, qsShownOn, qsCrossed, qsEditorVars,
                   qsChangeVars>>

\* What is shown, and the query made stale, are those of the domain shown now.
QsAskedAgain(d) == qsSetCache' = [qsSetCache EXCEPT ![d].fresh = FALSE]
QsKeptCache(d) == qsSetCache' = qsSetCache      \* mutant
QsSwitchStale(d) == QsAskedAgain(d)

QsTurnAnswered ==
    /\ qsTurning # QsNone
    /\ qsTurning.done
    /\ qsTurning' = QsNone
    /\ qsShownOn' = qsTurning.on
    /\ IF qsOpen = QsNone THEN UNCHANGED qsSetCache ELSE QsSwitchStale(qsOpen)
    /\ qsCrossed' = (qsCrossed \/ qsOpen # qsTurning.site)
    /\ UNCHANGED <<qsOpen, qsAsks, qsSwitch, qsSet, qsEditorVars, qsChangeVars>>

QsTurnFails ==
    /\ qsTurning # QsNone
    /\ qsTurning' = QsNone
    /\ qsCrossed' = (qsCrossed \/ qsTurning.done)
    /\ UNCHANGED <<qsOpen, qsAsks, qsSwitch, qsSet, qsSetCache, qsShownOn, qsEditorVars,
                   qsChangeVars>>

-----------------------------------------------------------------------------
QsDialogNext == QsClose \/ (\E d \in QsSites : QsOpenOn(d))

QsEditorNext == QsDialogNext \/ QsRead \/ QsReadFails \/ QsType \/ QsSave \/ QsRevert
                \/ QsRegenerate \/ QsCarriedOut \/ QsPostAnswered \/ QsPostFails \/ QsReload

QsChangeNext == QsDialogNext \/ QsLeave \/ QsPickPhp \/ QsApply \/ QsSetStatus \/ QsIssue \/ QsTimer
                \/ (\E r \in qsAsked : QsChanged(r) \/ QsIssued(r) \/ QsChangeFails(r))

QsSwitchNext == QsDialogNext \/ QsReadSwitch \/ (\E on \in BOOLEAN : QsTurn(on))
                \/ QsTurned \/ QsTurnAnswered \/ QsTurnFails

-----------------------------------------------------------------------------
\* A text saved as the web server file of a site is that site's, loaded or
\* typed while it was shown, though the dialog never unmounts between sites.
SavedToOwnSite ==
    /\ qsPost # QsNone /\ qsPost.kind = "save" => qsPost.of \in {qsPost.site, QsNone}
    /\ qsEditor.ready => qsEditor.of = qsOpen

\* A version applied to a site was picked with that site on show.
AppliedToOwnSite == \A r \in qsAsked : r.for = r.site

\* One visit of the page has at most one certificate request under way: another
\* site may be opened, but not issued for, until the first is answered.
OneIssue == Cardinality({r \in qsAsked : r.here /\ r.kind = "ssl"}) <= 1

\* Once its query is answered the switch shows what the server has, unless an
\* answer found another site on show or was lost.
SwitchIsTrue ==
    ~qsCrossed /\ qsTurning = QsNone /\ qsOpen # QsNone /\ qsSetCache[qsOpen].fresh
        => qsShownOn = qsSet[qsOpen]

\* At rest the editor shows the file on disk (violated: after a save, a revert,
\* a regeneration or a refresh it shows the file of before).
EditorShowsDisk ==
    qsOpen # QsNone /\ qsEditor.ready /\ ~qsEditor.typed /\ qsPost = QsNone
        /\ qsCache[QsKey(qsOpen)].fresh /\ ~qsUnheard
        => qsEditor.text = qsDisk[qsOpen].live

-----------------------------------------------------------------------------
(* The inductive invariant of the properties above.                          *)

QsSitesOrNone == QsSites \cup {QsNone}
QsFileSet == [live : Nat, prev : Nat]
QsCached == [state : {"unread", "read", "failed"}, fresh : BOOLEAN, site : QsSitesOrNone,
             live : Nat, prev : Nat]
QsTexts == [text : Nat, ready : BOOLEAN, typed : BOOLEAN, of : QsSitesOrNone]
QsPostSet == [kind : {"save", "revert", "regenerate"}, site : QsSites, text : Nat,
              of : QsSitesOrNone, done : BOOLEAN]
QsRequests == [kind : {"php", "status", "ssl"}, site : QsSites, to : {0, 1},
               for : QsSitesOrNone, here : BOOLEAN, n : Nat]
QsTurns == [site : QsSites, on : BOOLEAN, done : BOOLEAN]
QsEditorTypes ==
    /\ qsOpen \in QsSitesOrNone /\ qsTexts \in Nat /\ qsUnheard \in BOOLEAN
    /\ qsDisk \in [QsSites -> QsFileSet] /\ qsCache \in [QsSites -> QsCached]
    /\ qsEditor \in QsTexts /\ (qsPost # QsNone => qsPost \in QsPostSet)
QsChangeTypes ==
    /\ qsAsked \subseteq QsRequests /\ qsAsks \in Nat
    /\ qsPick \in [to : {0, 1}, on : QsSitesOrNone]
QsSwitchTypes ==
    /\ qsSet \in [QsSites -> BOOLEAN]
    /\ qsSetCache \in [QsSites -> [fresh : BOOLEAN, read : BOOLEAN, on : BOOLEAN]]
    /\ {qsShownOn, qsCrossed} \subseteq BOOLEAN
    /\ qsTurning # QsNone => qsTurning \in QsTurns

\* What is kept of a site is that site's, and so is what the editor has of it.
QsCacheIsOwn == \A d \in QsSites : qsCache[d].state = "read" => qsCache[d].site = d
QsEditorIsOwn == qsEditor.of \in {qsOpen, QsNone} /\ (qsEditor.ready => qsEditor.of = qsOpen)
QsPostIsOwn == qsPost # QsNone => qsPost.of \in {qsPost.site, QsNone}
QsPickIsOwn == qsPick.to # 0 => qsOpen = QsNone \/ qsPick.on = qsOpen
QsIssueOnce ==
    \A r, q \in qsAsked : r.here /\ q.here /\ r.kind = "ssl" /\ q.kind = "ssl" => r = q
\* A turn carried out and not answered yet.
QsTurnedOn(d) == qsTurning # QsNone /\ qsTurning.site = d /\ qsTurning.done
QsTurnIsSet == \A d \in QsSites : QsTurnedOn(d) => qsSet[d] = qsTurning.on
\* No switch that was turned is fresh before its answer, and what is shown of one is
\* what was read of it, or what it was turned to since.
QsSwitchLeads ==
    qsCrossed \/
    \A d \in QsSites :
        LET c == qsSetCache[d]
        IN  /\ c.fresh => c.read /\ (c.on = qsSet[d] \/ QsTurnedOn(d))
            /\ d = qsOpen /\ c.read /\ ~QsTurnedOn(d) =>
                   qsShownOn = c.on \/ (~c.fresh /\ qsShownOn = qsSet[d])

QsEditorInv == QsEditorTypes /\ QsCacheIsOwn /\ QsEditorIsOwn /\ QsPostIsOwn
QsChangeInv == QsChangeTypes /\ QsPickIsOwn /\ QsIssueOnce /\ AppliedToOwnSite
QsSwitchInv == QsSwitchTypes /\ QsTurnIsSet /\ QsSwitchLeads
QsInv == QsEditorInv /\ QsChangeInv /\ QsSwitchInv
=============================================================================
