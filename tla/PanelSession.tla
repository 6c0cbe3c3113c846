---------------------------- MODULE PanelSession ----------------------------
(***************************************************************************)
(* The session of one browser tab: the auth store, the answer of /auth/me  *)
(* kept in the query cache, and the requests in flight, each with the      *)
(* token it was sent with.  A 401 to any of them ends the session and      *)
(* loads the login page afresh; logging out and in again does not.         *)
(***************************************************************************)
EXTENDS Integers, FiniteSets

CONSTANTS
    PsAdmin, PsCustomer,    \* two accounts
    PsNoOne,              \* no user, no token, no answer
    PsMaxTokens,          \* bound: sessions the server creates
    PsMaxPolls            \* bound: polled requests

ASSUME PsAssumption == PsMaxTokens \in Nat /\ PsNoOne \notin {PsAdmin, PsCustomer} \cup 1..PsMaxTokens

PsAccounts == {PsAdmin, PsCustomer}
PsTokens == 1..PsMaxTokens

VARIABLES
    psOwner,      \* server: token -> account, or PsNoOne if not issued
    psValid,      \* server: tokens that are not expired or deleted
    psUser,       \* store: user, token, impersonationBackup; no token means
    psToken,      \*   isAuthenticated is false
    psBackup,
    psMe,         \* cached answer of /auth/me, or PsNoOne
    psMeFresh,    \* less than 60 s old
    psMounted,    \* the layout is shown (else the login page)
    psSent,       \* requests in flight
    psPolls,
    psCrossed     \* history: the account changed in this page load with an
                \*   answer of /auth/me for the other one kept or under way

psVars == <<psOwner, psValid, psUser, psToken, psBackup, psMe, psMeFresh, psMounted, psSent,
            psPolls, psCrossed>>
psServer == <<psOwner, psValid>>
psStore == <<psUser, psToken, psBackup>>
psPage == <<psMe, psMeFresh, psMounted>>

PsInit ==
    /\ psOwner = [t \in PsTokens |-> PsNoOne]
    /\ psValid = {}
    /\ psUser = PsNoOne
    /\ psToken = PsNoOne
    /\ psBackup = PsNoOne
    /\ psMe = PsNoOne
    /\ psMeFresh = FALSE
    /\ psMounted = FALSE
    /\ psSent = {}
    /\ psPolls = 0
    /\ psCrossed = FALSE

\* Request interceptor: the token of the store when the request leaves.
PsRequest(kind, who) == [kind |-> kind, with |-> psToken, who |-> who, got |-> "nothing"]

PsPending(kind) == \E r \in psSent : r.kind = kind

\* A page load keeps the store (sessionStorage) and nothing else.
PsPageLoad(signedIn) ==
    /\ psMe' = PsNoOne
    /\ psMeFresh' = FALSE
    /\ psMounted' = signedIn
    /\ psCrossed' = FALSE

-----------------------------------------------------------------------------
(* Signing in.                                                               *)

\* The form of the login page, with its second step for a one-time code folded
\* in; the loading flag allows one attempt at a time.
PsSubmitLogin(u) ==
    /\ ~psMounted
    /\ ~PsPending("login")
    /\ psSent' = psSent \cup {PsRequest("login", u)}
    /\ UNCHANGED <<psServer, psStore, psPage, psPolls, psCrossed>>

\* Mounting the layout applies the cached answer to the store's user and asks
\* again unless it is fresh.
PsMountLayout(u, t, others) ==
    /\ psMounted' = TRUE
    /\ psUser' = IF psMe = PsNoOne THEN u ELSE psMe
    /\ psSent' = others \cup
               IF psMe # PsNoOne /\ psMeFresh THEN {}
               ELSE {[kind |-> "me", with |-> t, who |-> PsNoOne, got |-> "nothing"]}

\* finishLogin: setAuth keeps the backup, the query cache is kept too.
PsLoggedIn(r) ==
    /\ r \in psSent
    /\ r.kind = "login"
    /\ r.got = "ok"
    /\ psToken' = r.new
    /\ psCrossed' = (psCrossed \/ psMe # PsNoOne \/ PsPending("me"))
    /\ PsMountLayout(r.who, r.new, psSent \ {r})
    /\ UNCHANGED <<psServer, psBackup, psMe, psMeFresh, psPolls>>

-----------------------------------------------------------------------------
(* The server.                                                               *)

PsNewToken == CHOOSE t \in PsTokens : psOwner[t] = PsNoOne
PsCanIssue == \E t \in PsTokens : psOwner[t] = PsNoOne

\* sanctum: a request with a token that is not valid gets 401.
PsServe(r) ==
    /\ r \in psSent
    /\ r.got = "nothing"
    /\ \/ /\ r.kind = "login"
          /\ PsCanIssue
          /\ psOwner' = [psOwner EXCEPT ![PsNewToken] = r.who]
          /\ psValid' = psValid \cup {PsNewToken}
          /\ psSent' = (psSent \ {r}) \cup {[got |-> "ok", new |-> PsNewToken, kind |-> r.kind,
                                         with |-> r.with, who |-> r.who]}
       \/ /\ r.kind = "impersonate" /\ r.with \in psValid /\ psOwner[r.with] = PsAdmin
          /\ PsCanIssue
          /\ psOwner' = [psOwner EXCEPT ![PsNewToken] = PsCustomer]
          /\ psValid' = psValid \cup {PsNewToken}
          /\ psSent' = (psSent \ {r}) \cup {[got |-> "ok", new |-> PsNewToken, kind |-> r.kind,
                                         with |-> r.with, who |-> r.who]}
       \/ /\ r.kind \in {"me", "poll", "logout", "exit"} /\ r.with \in psValid
          /\ psValid' = IF r.kind \in {"logout", "exit"} THEN psValid \ {r.with} ELSE psValid
          /\ psSent' = (psSent \ {r}) \cup {[r EXCEPT !.got = "ok"]}
          /\ UNCHANGED psOwner
       \/ /\ r.kind = "impersonate" /\ r.with \in psValid /\ psOwner[r.with] # PsAdmin
          /\ psSent' = (psSent \ {r}) \cup {[r EXCEPT !.got = "403"]}
          /\ UNCHANGED psServer
       \/ /\ r.kind # "login" /\ r.with \notin psValid
          /\ psSent' = (psSent \ {r}) \cup {[r EXCEPT !.got = "401"]}
          /\ UNCHANGED psServer
    /\ UNCHANGED <<psStore, psPage, psPolls, psCrossed>>

\* A token's life ends: 24 h, 30 min for an impersonation, or revoked.
PsExpire(t) ==
    /\ t \in psValid
    /\ psValid' = psValid \ {t}
    /\ UNCHANGED <<psOwner, psStore, psPage, psSent, psPolls, psCrossed>>

-----------------------------------------------------------------------------
(* Answers.                                                                  *)

PsSessionOver ==
    /\ psUser' = PsNoOne
    /\ psToken' = PsNoOne
    /\ psBackup' = PsNoOne

\* Response interceptor, before any caller sees the error.
PsUnauthorized(r) ==
    /\ r \in psSent
    /\ r.got = "401"
    /\ PsSessionOver
    /\ PsPageLoad(FALSE)
    /\ psSent' = {}
    /\ UNCHANGED <<psServer, psPolls>>

PsMeAnswered(r) ==
    /\ r \in psSent
    /\ r.kind = "me" /\ r.got = "ok"
    /\ psSent' = psSent \ {r}
    /\ psMe' = psOwner[r.with]
    /\ psMeFresh' = TRUE
    /\ psUser' = IF psMounted THEN psOwner[r.with] ELSE psUser
    /\ UNCHANGED <<psServer, psToken, psBackup, psMounted, psPolls, psCrossed>>

PsMeGrowsStale ==
    /\ psMeFresh
    /\ psMeFresh' = FALSE
    /\ UNCHANGED <<psServer, psStore, psMe, psMounted, psSent, psPolls, psCrossed>>

\* The notifications feed and every other request of the pages.
PsPoll ==
    /\ psMounted
    /\ psPolls < PsMaxPolls
    /\ psPolls' = psPolls + 1
    /\ psSent' = psSent \cup {PsRequest("poll", PsNoOne)}
    /\ UNCHANGED <<psServer, psStore, psPage, psCrossed>>

\* An answer, or an error that is only reported.
PsPollAnswered(r) ==
    /\ r \in psSent
    /\ (r.kind = "poll" /\ r.got = "ok") \/ r.got = "403"
    /\ psSent' = psSent \ {r}
    /\ UNCHANGED <<psServer, psStore, psPage, psPolls, psCrossed>>

-----------------------------------------------------------------------------
(* Leaving.                                                                  *)

PsClickLogout ==
    /\ psMounted
    /\ ~PsPending("logout")
    /\ psSent' = psSent \cup {PsRequest("logout", PsNoOne)}
    /\ UNCHANGED <<psServer, psStore, psPage, psPolls, psCrossed>>

\* handleLogout: with or without an answer the store is emptied and the login
\* page shown in the same page load (a 401 is the interceptor's).
PsLoggedOut(r) ==
    /\ r \in psSent
    /\ r.kind = "logout" /\ r.got # "401"
    /\ psSent' = psSent \ {r}
    /\ PsSessionOver
    /\ psMounted' = FALSE
    /\ UNCHANGED <<psServer, psMe, psMeFresh, psPolls, psCrossed>>

-----------------------------------------------------------------------------
(* Impersonation.                                                            *)

PsClickImpersonate ==
    /\ psMounted
    /\ psUser = PsAdmin
    /\ ~PsPending("impersonate")
    /\ psSent' = psSent \cup {PsRequest("impersonate", PsCustomer)}
    /\ UNCHANGED <<psServer, psStore, psPage, psPolls, psCrossed>>

\* The backup is the user and token of the page the button was on; without a
\* token the answer is dropped.  The page is loaded afresh with the customer's session in the store.
PsFreshPage(r) == PsPageLoad(TRUE) /\ psSent' = {[kind |-> "me", with |-> r.new,
                                            who |-> PsNoOne, got |-> "nothing"]}
PsSamePage(r) == UNCHANGED <<psPage, psCrossed>> /\ psSent' = psSent \ {r}    \* mutant
PsAfterImpersonate(r) == PsFreshPage(r)

PsImpersonated(r) ==
    /\ r \in psSent
    /\ r.kind = "impersonate" /\ r.got = "ok"
    /\ psToken # PsNoOne
    /\ psUser' = r.who
    /\ psToken' = r.new
    /\ psBackup' = [user |-> PsAdmin, token |-> r.with]
    /\ PsAfterImpersonate(r)
    /\ UNCHANGED <<psServer, psPolls>>

\* The banner's button.
PsClickExit ==
    /\ psMounted
    /\ psBackup # PsNoOne
    /\ ~PsPending("exit")
    /\ psSent' = psSent \cup {PsRequest("exit", PsNoOne)}
    /\ UNCHANGED <<psServer, psStore, psPage, psPolls, psCrossed>>

\* endImpersonation: the admin's user and token are back, in the same page.
PsBackupBack == psUser' = psBackup.user /\ psToken' = psBackup.token
PsUserBack == psUser' = psBackup.user /\ psToken' = psToken      \* mutant
PsGivenBack == PsBackupBack

PsExitAnswered(r) ==
    /\ r \in psSent
    /\ r.kind = "exit" /\ r.got # "401"
    /\ psBackup # PsNoOne
    /\ PsGivenBack
    /\ psBackup' = PsNoOne
    /\ psSent' = psSent \ {r}
    /\ psCrossed' = (psCrossed \/ PsPending("me"))
    /\ UNCHANGED <<psServer, psPage, psPolls>>

PsNext ==
    \/ \E u \in PsAccounts : PsSubmitLogin(u)
    \/ \E t \in PsTokens : PsExpire(t)
    \/ \E r \in psSent : \/ PsLoggedIn(r) \/ PsServe(r) \/ PsUnauthorized(r) \/ PsMeAnswered(r)
                       \/ PsPollAnswered(r) \/ PsLoggedOut(r) \/ PsImpersonated(r)
                       \/ PsExitAnswered(r)
    \/ PsMeGrowsStale \/ PsPoll \/ PsClickLogout \/ PsClickImpersonate \/ PsClickExit

PsSpec == PsInit /\ [][PsNext]_psVars

-----------------------------------------------------------------------------
\* The account whose name, roles and menus the pages show owns the token their
\* requests carry, unless the account changed within one page load while an
\* answer of /auth/me for the other account was kept or under way: neither
\* signing in again nor leaving an impersonation drops it.
ShownIsSignedIn == psToken # PsNoOne /\ ~psCrossed => psOwner[psToken] = psUser
=============================================================================
