----------------------------- MODULE AiAdvisor -----------------------------
(***************************************************************************)
(* The assistant page: the list of sessions and the messages of the one    *)
(* that is open, a message being sent while other sessions are opened or   *)
(* deleted, the actions an answer proposes, the month's usage, and the     *)
(* settings of the providers, which the server saves row by row.           *)
(***************************************************************************)
EXTENDS Integers, Sequences

CONSTANTS
    AiSessions,    \* sessions there can be
    AiProviders,   \* a sequence: the providers, in the order of the catalogue
    AiNone,        \* no session, no text, no default
    AiMaxAsks      \* bound: requests of the page

VARIABLES
    aiHeld,     \* server: session -> [said, answers], said = 0 before it is made
    aiGone,     \* server: sessions deleted
    aiList,     \* the list in the cache: [fresh, sessions]
    aiMsgs,     \* session -> [read: "none", "fresh" or "stale", said]
    aiUsage,    \* the usage in the cache: [read, answers]
    aiShown,    \* sessionId
    aiInput, aiPending,   \* the text typed, pendingUserText: the number of a message
    aiAsked,    \* under way: [kind, session, text, step, seen, n]
    aiAsks,     \* requests so far
    aiUnheard,  \* history: sessions with a message stored whose answer was an error
    aiCrossed,  \* history: a deletion met something else under way, or a row of
                \* the old list was opened
    aiDefault,  \* server: provider -> its row says is_default
    aiDraft,    \* the provider whose radio button is on in the form, or AiNone
    aiSaves     \* saves under way: [choice, row, seen, n], or step "answer"

aiChatVars == <<aiHeld, aiGone, aiList, aiMsgs, aiUsage, aiShown, aiInput, aiPending,
                aiAsked, aiUnheard, aiCrossed>>
aiSetVars == <<aiDefault, aiDraft, aiSaves>>
aiVars == <<aiChatVars, aiAsks, aiSetVars>>

AiLive == "live"     \* a handler that still sees the session shown now
AiThere == {s \in AiSessions : aiHeld[s].said > 0} \ aiGone
AiAnswers == [s \in AiThere |-> aiHeld[s].answers]      \* what the usage sums up

AiInit ==
    /\ \E S \in SUBSET AiSessions :
         aiHeld = [s \in AiSessions |-> IF s \in S THEN [said |-> 2, answers |-> 1]
                                                   ELSE [said |-> 0, answers |-> 0]]
    /\ aiGone = {}
    /\ aiList = [fresh |-> TRUE, sessions |-> {s \in AiSessions : aiHeld[s].said > 0}]
    /\ aiMsgs = [s \in AiSessions |-> [read |-> "none", said |-> 0]]
    /\ aiUsage = [read |-> "none", answers |-> AiNone]
    /\ aiShown = AiNone /\ aiInput = AiNone /\ aiPending = AiNone
    /\ aiAsked = {} /\ aiAsks = 0
    /\ aiUnheard = {} /\ aiCrossed = FALSE
    /\ aiDefault \in {f \in [1..Len(AiProviders) -> BOOLEAN] :
                        \A i, j \in DOMAIN f : f[i] /\ f[j] => i = j}
    /\ aiDraft = AiNone
    /\ aiSaves = {}

-----------------------------------------------------------------------------
(* Reads.                                                                    *)

AiReadList ==
    /\ ~aiList.fresh
    /\ aiList' = [fresh |-> TRUE, sessions |-> AiThere]
    /\ UNCHANGED <<aiHeld, aiGone, aiMsgs, aiUsage, aiShown, aiInput, aiPending, aiAsked,
                   aiUnheard, aiCrossed, aiAsks, aiSetVars>>
AiReadMessages ==
    /\ aiShown \in AiThere /\ aiMsgs[aiShown].read # "fresh"
    /\ aiMsgs' = [aiMsgs EXCEPT ![aiShown] = [read |-> "fresh", said |-> aiHeld[aiShown].said]]
    /\ UNCHANGED <<aiHeld, aiGone, aiList, aiUsage, aiShown, aiInput, aiPending, aiAsked,
                   aiUnheard, aiCrossed, aiAsks, aiSetVars>>
\* The usage is read when its tab is opened.
AiReadUsage ==
    /\ aiUsage.read # "fresh"
    /\ aiUsage' = [read |-> "fresh", answers |-> AiAnswers]
    /\ UNCHANGED <<aiHeld, aiGone, aiList, aiMsgs, aiShown, aiInput, aiPending, aiAsked,
                   aiUnheard, aiCrossed, aiAsks, aiSetVars>>

-----------------------------------------------------------------------------
(* The chat.                                                                 *)

AiBusy(kinds) == \E r \in aiAsked : r.kind \in kinds
AiAsk(kind, s, text) ==
    /\ aiAsks < AiMaxAsks
    /\ aiAsks' = aiAsks + 1
    /\ aiCrossed' = (aiCrossed \/ (aiAsked # {} /\ "delete" \in {kind} \cup {r.kind : r \in aiAsked}))
    /\ aiAsked' = {IF kind = "delete" /\ r.kind = kind /\ r.seen = AiLive
                   THEN [r EXCEPT !.seen = aiShown] ELSE r : r \in aiAsked} \cup
         {[kind |-> kind, session |-> s, text |-> text, step |-> "sent", seen |-> AiLive,
           n |-> aiAsks]}

AiType ==
    /\ aiInput = AiNone
    /\ aiInput' = aiAsks
    /\ UNCHANGED <<aiHeld, aiGone, aiList, aiMsgs, aiUsage, aiShown, aiPending, aiAsked,
                   aiUnheard, aiCrossed, aiAsks, aiSetVars>>
AiWhileAny == TRUE      \* mutant
AiSendAllowed == ~AiBusy({"chat"})
AiSend ==
    /\ aiInput # AiNone /\ AiSendAllowed
    /\ aiInput' = AiNone
    /\ aiPending' = aiInput
    /\ AiAsk("chat", aiShown, aiInput)
    /\ UNCHANGED <<aiHeld, aiGone, aiList, aiMsgs, aiUsage, aiShown, aiUnheard, aiSetVars>>
AiOpen(s) ==
    /\ s \in aiList.sessions /\ aiShown # s
    /\ aiShown' = s
    /\ aiCrossed' = (aiCrossed \/ s \in aiGone)
    /\ UNCHANGED <<aiHeld, aiGone, aiList, aiMsgs, aiUsage, aiInput, aiPending, aiAsked,
                   aiUnheard, aiAsks, aiSetVars>>
AiNewChat ==
    /\ aiShown' = AiNone /\ aiPending' = AiNone /\ aiInput' = AiNone
    /\ aiMsgs' = [s \in AiSessions |-> [read |-> "none", said |-> 0]]
    /\ UNCHANGED <<aiHeld, aiGone, aiList, aiUsage, aiAsked, aiUnheard, aiCrossed, aiAsks,
                   aiSetVars>>
AiDelete(s) ==
    /\ s \in aiList.sessions
    /\ AiAsk("delete", s, AiNone)
    /\ UNCHANGED <<aiHeld, aiGone, aiList, aiMsgs, aiUsage, aiShown, aiInput, aiPending,
                   aiUnheard, aiSetVars>>

\* The actions of an answer: one of them, or all of them, at a time; the button
\* of one waits for a file write, that of all does not.
AiAct(kind) ==
    /\ aiShown # AiNone /\ aiMsgs[aiShown].read # "none"
    /\ IF kind = "all" THEN ~AiBusy({"run", "all"}) ELSE ~AiBusy({"run", "all", "fix"})
    /\ AiAsk(kind, aiShown, AiNone)
    /\ UNCHANGED <<aiHeld, aiGone, aiList, aiMsgs, aiUsage, aiShown, aiInput, aiPending,
                   aiUnheard, aiSetVars>>

\* The question is stored, in a session of its own when none was shown, before
\* the provider is asked for the answer.
AiStored(r) ==
    /\ r \in aiAsked /\ r.kind = "chat" /\ r.step = "sent"
    /\ \E s \in IF r.session = AiNone THEN {x \in AiSessions : aiHeld[x].said = 0} \ aiGone
                                      ELSE {r.session} \cap AiThere :
         /\ aiHeld' = [aiHeld EXCEPT ![s].said = @ + 1]
         /\ aiAsked' = (aiAsked \ {r}) \cup {[r EXCEPT !.session = s, !.step = "stored"]}
    /\ UNCHANGED <<aiGone, aiList, aiMsgs, aiUsage, aiShown, aiInput, aiPending, aiUnheard,
                   aiCrossed, aiAsks, aiSetVars>>
AiReplied(r) ==
    /\ r \in aiAsked /\ r.kind = "chat" /\ r.step = "stored" /\ r.session \in AiThere
    /\ aiHeld' = [aiHeld EXCEPT ![r.session] = [said |-> @.said + 1, answers |-> @.answers + 1]]
    /\ aiAsked' = (aiAsked \ {r}) \cup {[r EXCEPT !.step = "done"]}
    /\ UNCHANGED <<aiGone, aiList, aiMsgs, aiUsage, aiShown, aiInput, aiPending, aiUnheard,
                   aiCrossed, aiAsks, aiSetVars>>
AiServed(r) ==
    /\ r \in aiAsked /\ r.kind # "chat" /\ r.step = "sent"
    /\ r.kind = "delete" => r.session \in AiThere
    /\ aiGone' = IF r.kind = "delete" THEN aiGone \cup {r.session} ELSE aiGone
    /\ aiAsked' = (aiAsked \ {r}) \cup {[r EXCEPT !.step = "done"]}
    /\ UNCHANGED <<aiHeld, aiList, aiMsgs, aiUsage, aiShown, aiInput, aiPending, aiUnheard,
                   aiCrossed, aiAsks, aiSetVars>>

AiStale(q) == IF q.read = "fresh" THEN [q EXCEPT !.read = "stale"] ELSE q
AiMsgsStale(s) == [aiMsgs EXCEPT ![s] = AiStale(@)]
AiMsgsKept(s) == aiMsgs      \* mutant
AiAnsweredMsgs(s) == AiMsgsStale(s)
\* The session answered is opened, whichever is shown by now.
AiAnswered(r) ==
    /\ r \in aiAsked /\ r.kind = "chat" /\ r.step = "done"
    /\ aiAsked' = aiAsked \ {r}
    /\ aiPending' = AiNone
    /\ aiShown' = r.session
    /\ aiList' = [aiList EXCEPT !.fresh = FALSE]
    /\ aiMsgs' = AiAnsweredMsgs(r.session)
    /\ aiUsage' = AiStale(aiUsage)
    /\ UNCHANGED <<aiHeld, aiGone, aiInput, aiUnheard, aiCrossed, aiAsks, aiSetVars>>
\* The text comes back, over what has been typed since.
AiFails(r) ==
    /\ r \in aiAsked /\ r.kind = "chat"
    /\ aiAsked' = aiAsked \ {r}
    /\ aiPending' = AiNone
    /\ aiInput' = r.text
    /\ aiUnheard' = IF r.step = "sent" THEN aiUnheard ELSE aiUnheard \cup {r.session}
    /\ UNCHANGED <<aiHeld, aiGone, aiList, aiMsgs, aiUsage, aiShown, aiCrossed, aiAsks,
                   aiSetVars>>

AiClosed(s, seen) == IF s = seen THEN AiNone ELSE aiShown
AiLeftOpen(s, seen) == aiShown      \* mutant
AiAfterDelete(s, seen) == AiClosed(s, seen)
AiDeleted(r) ==
    /\ r \in aiAsked /\ r.kind = "delete" /\ r.step = "done"
    /\ aiAsked' = aiAsked \ {r}
    /\ aiShown' = AiAfterDelete(r.session, IF r.seen = AiLive THEN aiShown ELSE r.seen)
    /\ aiList' = [aiList EXCEPT !.fresh = FALSE]
    /\ UNCHANGED <<aiHeld, aiGone, aiMsgs, aiUsage, aiInput, aiPending, aiUnheard, aiCrossed,
                   aiAsks, aiSetVars>>
AiActed(r) ==
    /\ r \in aiAsked /\ r.kind \in {"run", "all", "fix"} /\ r.step = "done"
    /\ aiAsked' = aiAsked \ {r}
    /\ aiMsgs' = IF r.kind # "fix" /\ aiShown # AiNone THEN AiMsgsStale(aiShown) ELSE aiMsgs
    /\ UNCHANGED <<aiHeld, aiGone, aiList, aiUsage, aiShown, aiInput, aiPending, aiUnheard,
                   aiCrossed, aiAsks, aiSetVars>>
AiLost(r) ==
    /\ r \in aiAsked /\ r.kind # "chat"
    /\ aiAsked' = aiAsked \ {r}
    /\ aiUnheard' = IF r.kind = "delete" /\ r.step = "done" THEN aiUnheard \cup {r.session}
                                                            ELSE aiUnheard
    /\ UNCHANGED <<aiHeld, aiGone, aiList, aiMsgs, aiUsage, aiShown, aiInput, aiPending,
                   aiCrossed, aiAsks, aiSetVars>>

-----------------------------------------------------------------------------
(* The settings: the radio button, and saves that overlap, since the test    *)
(* button saves a typed key without waiting for the save button's request.   *)

AiRows == 1..Len(AiProviders)
AiChoose(i) ==
    /\ aiDraft # AiProviders[i]
    /\ aiDraft' = AiProviders[i]
    /\ UNCHANGED <<aiDefault, aiSaves, aiChatVars, aiAsks>>
AiSave ==
    /\ aiAsks < AiMaxAsks
    /\ aiAsks' = aiAsks + 1
    /\ aiSaves' = aiSaves \cup {[choice |-> aiDraft, row |-> 1, seen |-> "unread", n |-> aiAsks]}
    /\ UNCHANGED <<aiDefault, aiDraft, aiChatVars>>
AiSaveStep(r, next) == aiSaves' = (aiSaves \ {r}) \cup {next}
\* A row is read, and written only where it differs from what was read.
AiLoadRow(r) ==
    /\ r \in aiSaves /\ r.row \in AiRows /\ r.seen = "unread"
    /\ AiSaveStep(r, [r EXCEPT !.seen = IF aiDefault[r.row] THEN "yes" ELSE "no"])
    /\ UNCHANGED <<aiDefault, aiDraft, aiChatVars, aiAsks>>
AiSaveRow(r) ==
    /\ r \in aiSaves /\ r.row \in AiRows /\ r.seen # "unread"
    /\ LET chosen == AiProviders[r.row] = r.choice
       IN aiDefault' = IF (r.seen = "yes") = chosen THEN aiDefault
                       ELSE [aiDefault EXCEPT ![r.row] = chosen]
    /\ AiSaveStep(r, [r EXCEPT !.row = @ + 1, !.seen = "unread"])
    /\ UNCHANGED <<aiDraft, aiChatVars, aiAsks>>
\* In the end the others are set back whatever they have become.
AiOthersCleared(choice) ==
    [i \in AiRows |-> aiDefault[i] /\ (choice = AiNone \/ AiProviders[i] = choice)]
AiOthersLeft(choice) == aiDefault      \* mutant
AiCleared(choice) == AiOthersCleared(choice)
AiSaved(r) ==
    /\ r \in aiSaves /\ r.row = Len(AiProviders) + 1
    /\ aiDefault' = AiCleared(r.choice)
    /\ aiSaves' = aiSaves \ {r}
    /\ UNCHANGED <<aiDraft, aiChatVars, aiAsks>>
\* The answer of a save or of a test has the settings read anew: the drafts
\* become what the rows say.
AiReadSettings ==
    /\ aiSaves = {}
    /\ LET on == {i \in AiRows : aiDefault[i]}
       IN aiDraft' = IF on = {} THEN AiNone ELSE AiProviders[CHOOSE i \in on : TRUE]
    /\ UNCHANGED <<aiDefault, aiSaves, aiChatVars, aiAsks>>

-----------------------------------------------------------------------------
AiChatNext ==
    \/ AiReadList \/ AiReadMessages \/ AiReadUsage
    \/ AiType \/ AiSend \/ AiNewChat
    \/ \E s \in AiSessions : AiOpen(s) \/ AiDelete(s)
    \/ \E kind \in {"fix", "run", "all"} : AiAct(kind)
    \/ \E r \in aiAsked : AiStored(r) \/ AiReplied(r) \/ AiServed(r) \/ AiAnswered(r)
                          \/ AiFails(r) \/ AiDeleted(r) \/ AiActed(r) \/ AiLost(r)

AiSettingsNext ==
    \/ AiSave \/ AiReadSettings
    \/ \E i \in AiRows : AiChoose(i)
    \/ \E r \in aiSaves : AiLoadRow(r) \/ AiSaveRow(r) \/ AiSaved(r)

-----------------------------------------------------------------------------
\* With nothing under way, the list, the messages of the session shown and the
\* usage are those of the server when they are taken for fresh: for sessions none
\* of whose messages ended in an error, and for the usage until one is deleted.
ChatListTrue ==
    aiAsked = {} =>
        /\ aiList.fresh /\ aiUnheard = {} => aiList.sessions = AiThere
        /\ \A s \in AiThere \ aiUnheard :
               aiMsgs[s].read = "fresh" => aiMsgs[s].said = aiHeld[s].said
        /\ aiUsage.read = "fresh" /\ aiUnheard = {} /\ aiGone = {} => aiUsage.answers = AiAnswers

\* The session shown has not been deleted, unless its row was opened before the
\* list was read anew or the deletion met something else under way: a late answer
\* opens its session again, and the handler of a deletion that is followed by
\* another compares with the session that was shown then.
ShownSessionIsThere ==
    aiAsked = {} /\ ~aiCrossed /\ aiUnheard = {} => aiShown \in AiThere \cup {AiNone}

AiAtMostOne(kinds) == \A r, q \in aiAsked : {r.kind, q.kind} \subseteq kinds => r = q

\* One message is sent at a time, the text shown as being sent is its text, and
\* what is proposed is carried out by one request, or by a file write that the
\* button for all of it did not wait for.
OneMessageAtATime ==
    /\ AiAtMostOne({"chat"})
    /\ aiPending # AiNone => \E r \in aiAsked : r.kind = "chat" /\ r.text = aiPending
    /\ AiAtMostOne({"run", "all"})
    /\ AiAtMostOne({"fix"})
    /\ AiBusy({"fix"}) => ~AiBusy({"run"})

\* When the saves are through, at most one provider is the default, however their
\* reads and writes of the rows met.
OneDefaultProvider ==
    aiSaves = {} => \A i, j \in AiRows : aiDefault[i] /\ aiDefault[j] => i = j

-----------------------------------------------------------------------------
\* Why they hold.  A request that has changed something on the server is under way
\* until its answer has what it changed read anew, or is counted as unheard.
AiRequest == [kind : {"chat", "delete", "run", "all", "fix"}, session : AiSessions \cup {AiNone},
              text : Nat \cup {AiNone}, step : {"sent", "stored", "done"},
              seen : AiSessions \cup {AiNone, AiLive}, n : Nat]
AiTypeOK ==
    /\ aiHeld \in [AiSessions -> [said : Nat, answers : Nat]] /\ aiGone \subseteq AiSessions
    /\ aiList \in [fresh : BOOLEAN, sessions : SUBSET {s \in AiSessions : aiHeld[s].said > 0}]
    /\ aiMsgs \in [AiSessions -> [read : {"none", "fresh", "stale"}, said : Nat]]
    /\ DOMAIN aiUsage = {"read", "answers"} /\ aiShown \in AiSessions \cup {AiNone}
    /\ aiInput \in Nat \cup {AiNone} /\ aiPending \in Nat \cup {AiNone}
    /\ aiAsked \subseteq AiRequest /\ aiAsks \in Nat
    /\ aiDefault \in [AiRows -> BOOLEAN]

AiOneOfAKind ==
    /\ AiAtMostOne({"chat"}) /\ AiAtMostOne({"run", "all"}) /\ AiAtMostOne({"fix"})
    /\ \A r, q \in aiAsked : r.kind = "fix" => q.kind # "run"
AiPendingIsSent == aiPending # AiNone => \E r \in aiAsked : r.kind = "chat" /\ r.text = aiPending

\* Stored are messages, and a session whose deletion was carried out is gone.
AiDeletedIsGone ==
    \A r \in aiAsked : r.kind = "delete" /\ r.step # "sent" => r.step = "done" /\ r.session \in aiGone
AiHasChanged(r) == r.step # "sent" /\ r.kind \in {"chat", "delete"}
AiListLeads ==
    aiList.fresh /\ aiUnheard = {} /\ ~(\E r \in aiAsked : AiHasChanged(r)) => aiList.sessions = AiThere
AiMsgsLead ==
    \A s \in AiThere \ aiUnheard :
        aiMsgs[s].read = "fresh" /\ ~(\E r \in aiAsked : AiHasChanged(r) /\ r.session = s)
        => aiMsgs[s].said = aiHeld[s].said
AiUsageLeads ==
    aiUsage.read = "fresh" /\ aiUnheard = {} /\ aiGone = {} /\ ~(\E r \in aiAsked : AiHasChanged(r))
    => aiUsage.answers = AiAnswers

AiDeletesAlone ==
    ~aiCrossed => \A r \in aiAsked :
        /\ r.kind = "delete" => aiAsked = {r} /\ r.seen = AiLive
        /\ r.kind = "chat" /\ r.step = "done" => r.session \in AiThere
AiShownLives ==
    ~aiCrossed /\ aiUnheard = {} =>
        \/ aiShown \in AiThere \cup {AiNone}
        \/ \E r \in aiAsked : r.kind = "delete" /\ r.step = "done" /\ r.session = aiShown

\* While several rows are the default, a save is under way that will leave one.
AiWillBeOne ==
    \/ \A i, j \in AiRows : aiDefault[i] /\ aiDefault[j] => i = j
    \/ \E r \in aiSaves : r.choice # AiNone

AiInv ==
    /\ AiTypeOK /\ AiOneOfAKind /\ AiPendingIsSent /\ AiDeletedIsGone
    /\ AiListLeads /\ AiMsgsLead /\ AiUsageLeads /\ AiDeletesAlone /\ AiShownLives
    /\ AiWillBeOne
=============================================================================
