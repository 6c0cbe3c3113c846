----------------------------- MODULE Databases -----------------------------
(***************************************************************************)
(* The databases page: the paged list in the query cache, the password     *)
(* shown for thirty seconds after it was made, and the import of an SQL    *)
(* file, a job of the panel that the page follows by polling.              *)
(***************************************************************************)
EXTENDS Integers, FiniteSets, Sequences

CONSTANTS
    DbIds,          \* databases of the account
    DbNone,         \* no password revealed
    DbMaxPasswords, \* bound: passwords made
    DbMaxImports    \* bound: import runs

VARIABLES
    dbRows,     \* server: the databases, newest first
    dbPage,     \* page shown; one row a page stands for fifty
    dbCache,    \* page -> rows of the last answer and whether it is fresh
    dbAsked,    \* [kind, db, done]: creations and deletions under way
    dbDeleting, \* deletingId, or DbNone
    dbUnheard,  \* history: the answer of one that was carried out was lost
    dbSecret,   \* server: database -> number of its current password
    dbMade,     \* passwords made so far
    dbChanges,  \* password changes under way or answered
    dbRotating, \* rotatingId, or DbNone
    dbReveal,   \* [db, password] shown, or DbNone
    dbCross,    \* history: a change was sent while one of another kind or
                \*   database was under way
    dbRuns,     \* server: import run -> none, queued, running, completed, failed
    dbImport,   \* the page: "closed", "open", "posting", or "polling"
    dbPosts,    \* import requests under way: "new", "cleared" or the run made
    dbFollowed, \* the run polled for, or 0
    dbGivenUp   \* history: an import request timed out before it was handled

dbListVars == <<dbRows, dbPage, dbCache, dbAsked, dbDeleting, dbUnheard>>
dbSecretVars == <<dbSecret, dbMade, dbChanges, dbRotating, dbReveal, dbCross>>
dbImportVars == <<dbRuns, dbImport, dbPosts, dbFollowed, dbGivenUp>>
dbVars == <<dbListVars, dbSecretVars, dbImportVars>>

DbPages == 1..Cardinality(DbIds)
DbRowsOf(rows, p) == IF p <= Len(rows) THEN <<rows[p]>> ELSE <<>>
DbAnswer(rows, p) == [fresh |-> TRUE, read |-> TRUE, rows |-> DbRowsOf(rows, p),
                      last |-> IF rows = <<>> THEN 1 ELSE Len(rows)]
DbUnread == [fresh |-> FALSE, read |-> FALSE, rows |-> <<>>, last |-> 1]

DbInit ==
    /\ dbRows \in {s \in [DbPages -> DbIds] : \A p, q \in DbPages : s[p] = s[q] => p = q}
    /\ dbPage = 1
    /\ dbCache = [p \in DbPages |-> DbUnread]
    /\ dbAsked = {}
    /\ dbDeleting = DbNone
    /\ dbUnheard = FALSE
    /\ dbSecret = [d \in DbIds |-> 0]
    /\ dbMade = 0
    /\ dbChanges = {}
    /\ dbRotating = DbNone
    /\ dbReveal = DbNone
    /\ dbCross = FALSE
    /\ dbRuns = [r \in 1..DbMaxImports |-> "none"]
    /\ dbImport = "closed"
    /\ dbPosts = {}
    /\ dbFollowed = 0
    /\ dbGivenUp = FALSE

-----------------------------------------------------------------------------
(* The list.                                                                 *)

\* A page that is not fresh is read when it is shown, and again after an
\* invalidation; the answer is whatever the server has by then.
DbList ==
    /\ ~dbCache[dbPage].fresh
    /\ dbCache' = [dbCache EXCEPT ![dbPage] = DbAnswer(dbRows, dbPage)]
    /\ UNCHANGED <<dbRows, dbPage, dbAsked, dbDeleting, dbUnheard, dbSecretVars, dbImportVars>>

\* The pager is there when the answer in hand says there is more than one page.
DbTurn(p) ==
    /\ dbCache[dbPage].read
    /\ dbCache[dbPage].last > 1
    /\ p \in {dbPage - 1, dbPage + 1} \cap 1..dbCache[dbPage].last
    /\ dbPage' = p
    /\ UNCHANGED <<dbRows, dbCache, dbAsked, dbDeleting, dbUnheard, dbSecretVars, dbImportVars>>

\* deleteM after the confirmation; only the last one started shows as pending.
DbDelete(d) ==
    /\ \E i \in DOMAIN dbCache[dbPage].rows : dbCache[dbPage].rows[i] = d
    /\ dbDeleting # d
    /\ dbAsked' = dbAsked \cup {[kind |-> "delete", db |-> d, done |-> FALSE]}
    /\ dbDeleting' = d
    /\ UNCHANGED <<dbRows, dbPage, dbCache, dbUnheard, dbSecretVars, dbImportVars>>

\* The dialog's Create is out while one is pending.
DbCreate(d) ==
    /\ \A x \in dbAsked : x.kind # "create"
    /\ \A i \in DOMAIN dbRows : dbRows[i] # d
    /\ dbAsked' = dbAsked \cup {[kind |-> "create", db |-> d, done |-> FALSE]}
    /\ UNCHANGED <<dbRows, dbPage, dbCache, dbDeleting, dbUnheard, dbSecretVars, dbImportVars>>

DbRowsAfter(x) == IF x.kind = "create" THEN <<x.db>> \o dbRows
                  ELSE SelectSeq(dbRows, LAMBDA r : r # x.db)
DbCarriedOut(x) ==
    /\ x \in dbAsked /\ ~x.done
    /\ dbRows' = DbRowsAfter(x)
    /\ dbAsked' = (dbAsked \ {x}) \cup {[x EXCEPT !.done = TRUE]}
    /\ UNCHANGED <<dbPage, dbCache, dbDeleting, dbUnheard, dbSecretVars, dbImportVars>>

DbSettled(x) == dbDeleting' = IF x.kind = "delete" THEN DbNone ELSE dbDeleting

\* The answer: every page of the list is stale now, not just the one shown.
DbAllStale == dbCache' = [p \in DbPages |-> [dbCache[p] EXCEPT !.fresh = FALSE]]
DbShownStale == dbCache' = [dbCache EXCEPT ![dbPage].fresh = FALSE]      \* mutant
DbInvalidated == DbAllStale

DbListAnswered(x) ==
    /\ x \in dbAsked /\ x.done
    /\ dbAsked' = dbAsked \ {x}
    /\ DbSettled(x)
    /\ DbInvalidated
    /\ UNCHANGED <<dbRows, dbPage, dbUnheard, dbSecretVars, dbImportVars>>

\* An error, or an answer that did not come back.
DbListError(x) ==
    /\ x \in dbAsked
    /\ dbAsked' = dbAsked \ {x}
    /\ DbSettled(x)
    /\ dbUnheard' = (dbUnheard \/ x.done)
    /\ UNCHANGED <<dbRows, dbPage, dbCache, dbSecretVars, dbImportVars>>

-----------------------------------------------------------------------------
(* Passwords.                                                                *)

\* The password shown covers the page.  Rotating is confirmed in the row; its button is out while dbRotating names
\* it.  Editing the credentials may set a password too.
DbUnderWay(d) == dbRotating = d
DbNeverBusy(d) == FALSE      \* mutant
DbRotateBusy(d) == DbUnderWay(d)

\* Two requests of a sort are enough: one in time and one that is late.
DbFree(n, requests) ==
    /\ \A x \in requests : x.n # n
    /\ n = 1 => \E x \in requests : x.n = 0
DbSends(d, kind) ==
    /\ dbReveal = DbNone
    /\ \E n \in {0, 1} :
           /\ DbFree(n, dbChanges)
           /\ dbChanges' = dbChanges \cup {[db |-> d, kind |-> kind, made |-> 0, n |-> n]}
    /\ dbCross' = (dbCross \/ \E x \in dbChanges : x.db # d \/ x.kind # kind)

DbRotate(d) ==
    /\ ~DbRotateBusy(d)
    /\ DbSends(d, "rotate")
    /\ dbRotating' = d
    /\ UNCHANGED <<dbSecret, dbMade, dbReveal, dbListVars, dbImportVars>>

\* The dialog's Save is out while the last edit is pending.
DbEdit(d) ==
    /\ \A x \in dbChanges : x.kind # "edit"
    /\ DbSends(d, "edit")
    /\ UNCHANGED <<dbSecret, dbMade, dbRotating, dbReveal, dbListVars, dbImportVars>>

DbMake(c) ==
    /\ c \in dbChanges /\ c.made = 0
    /\ dbMade < DbMaxPasswords
    /\ dbMade' = dbMade + 1
    /\ dbSecret' = [dbSecret EXCEPT ![c.db] = dbMade']
    /\ dbChanges' = (dbChanges \ {c}) \cup {[c EXCEPT !.made = dbMade']}
    /\ UNCHANGED <<dbRotating, dbReveal, dbCross, dbListVars, dbImportVars>>

\* onSuccess reveals the password and copies it; onSettled frees the buttons.
DbMadeAnswered(c) ==
    /\ c \in dbChanges /\ c.made # 0
    /\ dbChanges' = dbChanges \ {c}
    /\ dbReveal' = [db |-> c.db, password |-> c.made]
    /\ dbRotating' = IF c.kind = "rotate" THEN DbNone ELSE dbRotating
    /\ UNCHANGED <<dbSecret, dbMade, dbCross, dbListVars, dbImportVars>>

DbChangeFailed(c) ==
    /\ c \in dbChanges
    /\ dbChanges' = dbChanges \ {c}
    /\ dbRotating' = IF c.kind = "rotate" THEN DbNone ELSE dbRotating
    /\ UNCHANGED <<dbSecret, dbMade, dbReveal, dbCross, dbListVars, dbImportVars>>

\* After thirty seconds, or Close.
DbHide ==
    /\ dbReveal # DbNone
    /\ dbReveal' = DbNone
    /\ UNCHANGED <<dbSecret, dbMade, dbChanges, dbRotating, dbCross, dbListVars, dbImportVars>>

-----------------------------------------------------------------------------
(* The import of one database.                                               *)

DbLive(s) == s \in {"queued", "running"}
DbCreated == {r \in DOMAIN dbRuns : dbRuns[r] # "none"}

\* Cancel and the row's buttons are out of reach while an import is busy.
DbOpenImport ==
    /\ dbImport \in {"closed", "open"}
    /\ dbImport' = IF dbImport = "open" THEN "closed" ELSE "open"
    /\ UNCHANGED <<dbRuns, dbPosts, dbFollowed, dbGivenUp, dbListVars, dbSecretVars>>

\* File chosen, phrase typed, tools there.
DbSubmit ==
    /\ dbImport = "open"
    /\ dbImport' = "posting"
    /\ \E n \in {0, 1} :
           /\ DbFree(n, dbPosts)
           /\ dbPosts' = dbPosts \cup {[n |-> n, run |-> 0, looked |-> FALSE, kept |-> TRUE]}
    /\ UNCHANGED <<dbRuns, dbFollowed, dbGivenUp, dbListVars, dbSecretVars>>

\* DatabaseController.import refuses while a run of the database is live.  The
\* question and the insert are two statements, with the validation of the file
\* between them and no lock.
DbAnyLive == \E r \in DbCreated : DbLive(dbRuns[r])
DbNotAsked == FALSE      \* mutant
DbActive == DbAnyLive

DbRefused(q) ==
    /\ dbPosts' = dbPosts \ {q}
    /\ dbImport' = IF q.kept THEN "open" ELSE dbImport

DbLook(q) ==
    /\ q \in dbPosts /\ ~q.looked
    /\ IF DbActive
       THEN DbRefused(q)
       ELSE /\ dbPosts' = (dbPosts \ {q}) \cup {[q EXCEPT !.looked = TRUE]}
            /\ UNCHANGED dbImport
    /\ UNCHANGED <<dbRuns, dbFollowed, dbGivenUp, dbListVars, dbSecretVars>>

\* The phrase or the file is wrong, or the file cannot be kept (its row is
\* deleted again); otherwise there is a run, and the job starts after the answer.
DbStore(q) ==
    /\ q \in dbPosts /\ q.looked /\ q.run = 0
    /\ \/ DbRefused(q) /\ UNCHANGED dbRuns
       \/ \E r \in DOMAIN dbRuns :
           /\ r \notin DbCreated /\ 1..(r - 1) \subseteq DbCreated
           /\ dbRuns' = [dbRuns EXCEPT ![r] = "queued"]
           /\ dbPosts' = (dbPosts \ {q}) \cup {[q EXCEPT !.run = r]}
           /\ UNCHANGED dbImport
    /\ UNCHANGED <<dbFollowed, dbGivenUp, dbListVars, dbSecretVars>>

\* ImportDatabaseJob; when its process dies the run stays as it is.
DbJob(r) ==
    /\ \/ dbRuns[r] = "queued" /\ dbRuns' = [dbRuns EXCEPT ![r] = "running"]
       \/ dbRuns[r] = "running" /\ \E s \in {"completed", "failed"} :
                                        dbRuns' = [dbRuns EXCEPT ![r] = s]
    /\ UNCHANGED <<dbImport, dbPosts, dbFollowed, dbGivenUp, dbListVars, dbSecretVars>>

DbAccepted(q) ==
    /\ q \in dbPosts /\ q.run # 0
    /\ dbPosts' = dbPosts \ {q}
    /\ IF q.kept THEN dbImport' = "polling" /\ dbFollowed' = q.run
                 ELSE UNCHANGED <<dbImport, dbFollowed>>
    /\ UNCHANGED <<dbRuns, dbGivenUp, dbListVars, dbSecretVars>>

\* The request fails for the page, before or after the server has handled it:
\* the form is usable again.
DbPostLost(q) ==
    /\ q \in dbPosts /\ q.kept
    /\ dbImport' = "open"
    /\ dbGivenUp' = (dbGivenUp \/ q.run = 0)
    /\ dbPosts' = (dbPosts \ {q}) \cup {[q EXCEPT !.kept = FALSE]}
    /\ UNCHANGED <<dbRuns, dbFollowed, dbListVars, dbSecretVars>>

\* pollImportUntilDone: the end of the run closes the dialog, a failed run or
\* one failed poll reports a failure and leaves it open.
DbPoll ==
    /\ dbImport = "polling"
    /\ \/ dbRuns[dbFollowed] = "completed" /\ dbImport' = "closed"
       \/ dbImport' = "open"
    /\ dbFollowed' = 0
    /\ UNCHANGED <<dbRuns, dbPosts, dbGivenUp, dbListVars, dbSecretVars>>

DbListNext ==
    \/ DbList
    \/ \E p \in DbPages : DbTurn(p)
    \/ \E d \in DbIds : DbDelete(d) \/ DbCreate(d)
    \/ \E x \in dbAsked : DbCarriedOut(x) \/ DbListAnswered(x) \/ DbListError(x)
DbSecretNext ==
    \/ \E d \in DbIds : DbRotate(d) \/ DbEdit(d)
    \/ \E c \in dbChanges : DbMake(c) \/ DbMadeAnswered(c) \/ DbChangeFailed(c)
    \/ DbHide
DbImportNext ==
    \/ DbOpenImport \/ DbSubmit \/ DbPoll
    \/ \E q \in dbPosts : DbLook(q) \/ DbStore(q) \/ DbAccepted(q) \/ DbPostLost(q)
    \/ \E r \in DbCreated : DbJob(r)

DbNext == DbListNext \/ DbSecretNext \/ DbImportNext
DbSpec == DbInit /\ [][DbNext]_dbVars

-----------------------------------------------------------------------------
\* With nothing under way, a page of the list that is taken for fresh shows the
\* rows the server has, though a creation or a deletion moves rows between
\* pages, unless an answer was lost.
DbListTrue ==
    dbUnheard \/ dbAsked # {} \/
    \A p \in DbPages : dbCache[p].fresh => dbCache[p].rows = DbRowsOf(dbRows, p)

\* The password shown and put on the clipboard opens its database, unless a
\* change of another kind or of another database was sent meanwhile.
RevealedWorks == dbCross \/ dbReveal = DbNone \/ dbReveal.password = dbSecret[dbReveal.db]

\* An import replaces the whole database: two never run at once, whatever polls
\* are lost and however often the form is sent again, unless a request timed
\* out before the panel had handled it.
OneImport ==
    dbGivenUp \/ \A r, s \in DbCreated : DbLive(dbRuns[r]) /\ DbLive(dbRuns[s]) => r = s

-----------------------------------------------------------------------------
(* Why they hold.                                                            *)

DbRequest == [kind : {"create", "delete"}, db : DbIds, done : BOOLEAN]
DbChangeRequest == [db : DbIds, kind : {"rotate", "edit"}, made : Nat, n : {0, 1}]
DbPost == [n : {0, 1}, run : Nat, looked : BOOLEAN, kept : BOOLEAN]
DbListTypes ==
    /\ DOMAIN dbCache = DbPages
    /\ \A p \in DbPages : DOMAIN dbCache[p] = {"fresh", "read", "rows", "last"}
    /\ dbAsked \subseteq DbRequest
DbSecretTypes ==
    /\ dbSecret \in [DbIds -> Nat] /\ dbMade \in Nat
    /\ dbChanges \subseteq DbChangeRequest
DbImportTypes ==
    /\ dbRuns \in [1..DbMaxImports -> {"none", "queued", "running", "completed", "failed"}]
    /\ dbPosts \subseteq DbPost
    /\ dbGivenUp \in BOOLEAN

\* A fresh page is behind only once a creation or a deletion has been carried out.
DbListLeads ==
    ~dbUnheard /\ (\A x \in dbAsked : ~x.done) =>
        \A p \in DbPages : dbCache[p].fresh => dbCache[p].rows = DbRowsOf(dbRows, p)

\* One change of a password is under way, none while one is shown, and the password
\* it made is the one of the database.
DbOneChange ==
    ~dbCross =>
        /\ \A x, y \in dbChanges : x = y
        /\ \A x \in dbChanges : x.kind = "rotate" => dbRotating = x.db
        /\ \A x \in dbChanges : x.made # 0 => dbSecret[x.db] = x.made
        /\ dbReveal # DbNone => dbChanges = {}

\* One import request is awaited, and what is not awaited has made its run; nothing
\* comes alive between the question and the insert.
DbOneImport ==
    /\ \A q, p \in dbPosts : q.kept /\ p.kept => q = p
    /\ \A q \in dbPosts : q.kept => dbImport = "posting"
    /\ ~dbGivenUp => /\ \A q \in dbPosts : ~q.kept => q.run # 0
                     /\ (\E q \in dbPosts : q.looked /\ q.run = 0) => ~DbAnyLive

DbListInv == DbListTypes /\ DbListLeads
DbSecretInv == DbSecretTypes /\ DbOneChange /\ RevealedWorks
DbImportInv == DbImportTypes /\ DbOneImport /\ OneImport
DbInv == DbListInv /\ DbSecretInv /\ DbImportInv
=============================================================================
