----------------------------- MODULE EmailPage -----------------------------
(***************************************************************************)
(* The e-mail page: mailboxes and forwarders of the domain picked, each    *)
(* change carried out for the domain it was asked for but answered on      *)
(* whichever domain is picked by then, and the password shown for thirty   *)
(* seconds after a mailbox was made or given a new one.                    *)
(***************************************************************************)
EXTENDS Integers, FiniteSets

CONSTANTS
    EmSites,   \* domains
    EmNone,    \* no dialog, no password shown, no row being deleted
    EmMaxAsks  \* bound: changes asked for

VARIABLES
    emSite,     \* the domain picked
    emRows,     \* server: domain -> its rows; one of each sort stands for all
    emCache,    \* domain -> [read, fresh, rows] of the query
    emAsked,    \* requests under way: [kind, site, how, secret, done, n]
    emAsks,     \* requests made so far
    emDialog,   \* "box", "forwarder", "edit", or EmNone
    emEdit,     \* the edit form: [site, typed]: the mailbox and the one the
                \*   password in it was typed for, or EmNone
    emDeleting, \* sort of row -> domain whose row is being deleted, or EmNone
    emSecret,   \* server: domain -> number of its mailbox's password
    emSecrets,  \* passwords made so far
    emReveal,   \* [site, secret] shown, or EmNone
    emCrossed   \* history: an answer found another domain picked or got lost, or a
                \*   password was asked for while a change of another kind that
                \*   carries one was under way

emVars == <<emSite, emRows, emCache, emAsked, emAsks, emDialog, emEdit, emDeleting,
            emSecret, emSecrets, emReveal, emCrossed>>

EmSorts == {"box", "forwarder"}
EmMade == [box |-> "createBox", forwarder |-> "createForwarder"]
EmGone == [box |-> "deleteBox", forwarder |-> "deleteForwarder"]
EmUnread == [read |-> FALSE, fresh |-> FALSE, rows |-> {}]

EmInit ==
    /\ emSite \in EmSites
    /\ emRows \in [EmSites -> {{}, {"box"}}]
    /\ emCache = [d \in EmSites |-> EmUnread]
    /\ emAsked = {}
    /\ emAsks = 0
    /\ emDialog = EmNone
    /\ emEdit = [site |-> EmNone, typed |-> EmNone]
    /\ emDeleting = [s \in EmSorts |-> EmNone]
    /\ emSecret = [d \in EmSites |-> 0]
    /\ emSecrets = 0
    /\ emReveal = EmNone
    /\ emCrossed = FALSE

-----------------------------------------------------------------------------
EmPending(kind) == \E r \in emAsked : r.kind = kind
EmCarries == {"createBox", "update"}      \* the answer may carry a password
EmClear == emReveal = EmNone /\ emDialog = EmNone      \* nothing covers the page

EmAsk(kind, how) ==
    /\ emAsks < EmMaxAsks
    /\ emAsks' = emAsks + 1
    /\ emAsked' = emAsked \cup {[kind |-> kind, site |-> emSite, how |-> how, secret |-> 0,
                                 done |-> FALSE, n |-> emAsks]}
    /\ emCrossed' = (emCrossed \/ \E k \in EmCarries \ {kind} : kind \in EmCarries /\ EmPending(k))
    /\ UNCHANGED <<emSite, emRows, emCache, emSecret, emSecrets, emReveal>>

EmPick(d) ==
    /\ EmClear /\ d # emSite
    /\ emSite' = d
    /\ UNCHANGED <<emRows, emCache, emAsked, emAsks, emDialog, emEdit, emDeleting, emSecret,
                   emSecrets, emReveal, emCrossed>>

EmRead ==
    /\ ~emCache[emSite].fresh
    /\ emCache' = [emCache EXCEPT ![emSite] = [read |-> TRUE, fresh |-> TRUE, rows |-> emRows[emSite]]]
    /\ UNCHANGED <<emSite, emRows, emAsked, emAsks, emDialog, emEdit, emDeleting, emSecret,
                   emSecrets, emReveal, emCrossed>>

\* The Add dialogs; Create is out while one of its sort is pending.
EmOpenAdd(s) ==
    /\ EmClear
    /\ emDialog' = s
    /\ UNCHANGED <<emSite, emRows, emCache, emAsked, emAsks, emEdit, emDeleting, emSecret,
                   emSecrets, emReveal, emCrossed>>
EmClose ==
    /\ emReveal = EmNone /\ emDialog # EmNone
    /\ emDialog' = EmNone
    /\ UNCHANGED <<emSite, emRows, emCache, emAsked, emAsks, emEdit, emDeleting, emSecret,
                   emSecrets, emReveal, emCrossed>>
EmSubmitAdd ==
    /\ emReveal = EmNone /\ emDialog \in EmSorts /\ ~EmPending(EmMade[emDialog])
    /\ EmAsk(EmMade[emDialog], "none")
    /\ UNCHANGED <<emDialog, emEdit, emDeleting>>

\* openEdit fills every field from the row and empties the password.
EmFormOfRow == [site |-> emSite, typed |-> EmNone]
EmPasswordLeft == [site |-> emSite, typed |-> emEdit.typed]      \* mutant
EmFormOpened == EmFormOfRow

EmOpenEdit ==
    /\ EmClear /\ "box" \in emCache[emSite].rows
    /\ emDialog' = "edit"
    /\ emEdit' = EmFormOpened
    /\ UNCHANGED <<emSite, emRows, emCache, emAsked, emAsks, emDeleting, emSecret, emSecrets,
                   emReveal, emCrossed>>
EmTypePassword ==
    /\ emReveal = EmNone /\ emDialog = "edit"
    /\ emEdit' = [emEdit EXCEPT !.typed = emEdit.site]
    /\ UNCHANGED <<emSite, emRows, emCache, emAsked, emAsks, emDialog, emDeleting, emSecret,
                   emSecrets, emReveal, emCrossed>>

\* Save is out while the last change of a mailbox is pending.
EmNeverPending == FALSE      \* mutant
EmSavePending == EmPending("update")
EmSubmitEdit(how) ==
    /\ emReveal = EmNone /\ emDialog = "edit" /\ ~EmSavePending
    /\ how = "typed" <=> (how # "new" /\ emEdit.typed # EmNone)
    /\ EmAsk("update", how)
    /\ UNCHANGED <<emDialog, emEdit, emDeleting>>

\* A row's bin is out while deletingId names the row.
EmDelete(s) ==
    /\ EmClear /\ s \in emCache[emSite].rows /\ emDeleting[s] # emSite
    /\ EmAsk(EmGone[s], "none")
    /\ emDeleting' = [emDeleting EXCEPT ![s] = emSite]
    /\ UNCHANGED <<emDialog, emEdit>>

\* The connection tab: create the DNS records the mail server misses.
EmEnsureDns ==
    /\ EmClear /\ emCache[emSite].read /\ "dns" \notin emCache[emSite].rows /\ ~EmPending("dns")
    /\ EmAsk("dns", "none")
    /\ UNCHANGED <<emDialog, emEdit, emDeleting>>

-----------------------------------------------------------------------------
EmRowsAfter(rows, r) ==
    CASE r.kind = "createBox" -> rows \cup {"box"}
      [] r.kind = "createForwarder" -> rows \cup {"forwarder"}
      [] r.kind = "deleteBox" -> rows \ {"box"}
      [] r.kind = "deleteForwarder" -> rows \ {"forwarder"}
      [] r.kind = "dns" -> rows \cup {"dns"}
      [] OTHER -> rows

\* A mailbox that is there is not made again, one that is gone not found.
EmCarriedOut(r) ==
    /\ r \in emAsked
    /\ ~r.done
    /\ r.kind = "update" => "box" \in emRows[r.site]
    /\ r.kind # "update" => EmRowsAfter(emRows[r.site], r) # emRows[r.site]
    /\ emRows' = [emRows EXCEPT ![r.site] = EmRowsAfter(@, r)]
    /\ IF r.kind = "createBox" \/ r.how = "new"
       THEN /\ emSecrets' = emSecrets + 1
            /\ emSecret' = [emSecret EXCEPT ![r.site] = emSecrets']
            /\ emAsked' = (emAsked \ {r}) \cup {[r EXCEPT !.done = TRUE, !.secret = emSecrets']}
       ELSE /\ emAsked' = (emAsked \ {r}) \cup {[r EXCEPT !.done = TRUE]}
            /\ IF r.how = "typed" THEN emSecret' = [emSecret EXCEPT ![r.site] = -1] ELSE UNCHANGED emSecret
            /\ UNCHANGED emSecrets
    /\ UNCHANGED <<emSite, emCache, emAsks, emDialog, emEdit, emDeleting, emReveal, emCrossed>>

EmSettled(r) ==
    /\ r \in emAsked
    /\ emAsked' = emAsked \ {r}
    /\ emDeleting' = [s \in EmSorts |-> IF r.kind = EmGone[s] THEN EmNone ELSE emDeleting[s]]

\* Success makes the list of the domain picked now stale, closes the dialog of
\* its sort, and shows the password the answer carries.
EmStaleHere == [emCache EXCEPT ![emSite].fresh = FALSE]
EmCacheKept(r) == IF r.kind \in {"createForwarder", "deleteForwarder"} THEN emCache ELSE EmStaleHere      \* mutant
EmCacheStale(r) == EmStaleHere
EmCacheAfter(r) == EmCacheStale(r)

EmAnswered(r) ==
    /\ EmSettled(r) /\ r.done
    /\ emCache' = EmCacheAfter(r)
    /\ emDialog' = IF \/ r.kind = "createBox" /\ emDialog = "box"
                      \/ r.kind = "createForwarder" /\ emDialog = "forwarder"
                      \/ r.kind = "update" /\ emDialog = "edit"
                   THEN EmNone ELSE emDialog
    /\ emEdit' = IF r.kind = "update" THEN [emEdit EXCEPT !.typed = EmNone] ELSE emEdit
    /\ emReveal' = IF r.secret # 0 THEN [site |-> r.site, secret |-> r.secret] ELSE emReveal
    /\ emCrossed' = (emCrossed \/ r.site # emSite)
    /\ UNCHANGED <<emSite, emRows, emAsks, emSecret, emSecrets>>

EmFails(r) ==
    /\ EmSettled(r)
    /\ emCrossed' = (emCrossed \/ r.done)
    /\ UNCHANGED <<emSite, emRows, emCache, emAsks, emDialog, emEdit, emSecret, emSecrets,
                   emReveal>>

\* "Done", or thirty seconds later.
EmHide ==
    /\ emReveal # EmNone
    /\ emReveal' = EmNone
    /\ UNCHANGED <<emSite, emRows, emCache, emAsked, emAsks, emDialog, emEdit, emDeleting,
                   emSecret, emSecrets, emCrossed>>

EmNext ==
    \/ EmRead \/ EmClose \/ EmSubmitAdd \/ EmOpenEdit \/ EmTypePassword \/ EmEnsureDns \/ EmHide
    \/ \E d \in EmSites : EmPick(d)
    \/ \E s \in EmSorts : EmOpenAdd(s) \/ EmDelete(s)
    \/ \E how \in {"none", "typed", "new"} : EmSubmitEdit(how)
    \/ \E r \in emAsked : EmCarriedOut(r) \/ EmAnswered(r) \/ EmFails(r)

-----------------------------------------------------------------------------
\* With nothing under way the domain picked shows the rows the server has,
\* unless an answer found another domain picked or was lost.
MailListTrue ==
    emAsked = {} /\ ~emCrossed /\ emCache[emSite].fresh => emCache[emSite].rows = emRows[emSite]

\* A password shown is the one its mailbox has, while the mailbox is there and
\* no other change of it is under way.
ShownPasswordWorks ==
    emReveal # EmNone /\ (\A r \in emAsked : r.site # emReveal.site) /\ "box" \in emRows[emReveal.site]
        /\ ~emCrossed
        => emSecret[emReveal.site] = emReveal.secret

\* A password typed into the edit form was typed for the mailbox it is saved to.
TypedForThisMailbox == emDialog = "edit" => emEdit.typed \in {EmNone, emEdit.site}

-----------------------------------------------------------------------------
(* Why they hold.                                                            *)

EmAllSorts == EmSorts \cup {"dns"}
EmRequest == [kind : {"createBox", "createForwarder", "deleteBox", "deleteForwarder", "update", "dns"},
              site : EmSites, how : {"none", "typed", "new"}, secret : Nat, done : BOOLEAN, n : Nat]
EmTypeOK ==
    /\ emSite \in EmSites
    /\ emRows \in [EmSites -> SUBSET EmAllSorts]
    /\ emCache \in [EmSites -> [read : BOOLEAN, fresh : BOOLEAN, rows : SUBSET EmAllSorts]]
    /\ emAsked \subseteq EmRequest /\ emAsks \in Nat
    /\ emEdit \in [site : EmSites \cup {EmNone}, typed : EmSites \cup {EmNone}]
    /\ emSecret \in [EmSites -> Int] /\ emSecrets \in Nat
    /\ emCrossed \in BOOLEAN

\* A fresh list is behind only where a change has been carried out.
EmListsLead ==
    \A d \in EmSites :
        emCache[d].fresh /\ (\A r \in emAsked : r.site = d => ~r.done) => emCache[d].rows = emRows[d]

\* One request at a time may change a password, none while one is shown, and the one
\* an answer carries is what its mailbox has.
EmCarriesNew(r) == r.kind \in EmCarries
EmOneCarries == \A r, q \in emAsked : EmCarriesNew(r) /\ EmCarriesNew(q) => r = q
EmPasswordsLead ==
    /\ \A r \in emAsked : r.secret # 0 => r.done /\ emSecret[r.site] = r.secret
    /\ emReveal # EmNone => /\ \A r \in emAsked : ~EmCarriesNew(r)
                            /\ emReveal.site \in EmSites /\ emSecret[emReveal.site] = emReveal.secret
EmOthersCarryNone ==
    \A r \in emAsked : ~EmCarriesNew(r) => r.secret = 0 /\ r.how = "none"

EmTypedForOne == emEdit.typed \in {EmNone, emEdit.site}

EmInv ==
    /\ EmTypeOK /\ EmTypedForOne /\ EmOthersCarryNone
    /\ ~emCrossed => EmListsLead /\ EmOneCarries /\ EmPasswordsLead
=============================================================================
