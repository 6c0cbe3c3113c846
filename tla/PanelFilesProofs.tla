-------------------------- MODULE PanelFilesProofs --------------------------
(***************************************************************************)
(* What holds of the file manager's transfers, listing and editor, and of  *)
(* the session they run in, for every set of sites, folders, names, tabs,  *)
(* tokens and every number of operations.                                  *)
(***************************************************************************)
EXTENDS FileEditor, FileTransfer, FileListing, PanelSession, FiniteSetTheorems,
        WellFoundedInduction, TLAPS

-----------------------------------------------------------------------------
(* The session of a tab                                                      *)

(* A request as it left; an answer that brings a token brings it for the    *)
(* account asked for.                                                        *)
PsPlain(r) == r = [kind |-> r.kind, with |-> r.with, who |-> r.who, got |-> r.got]
PsOwned(t) == t \in PsTokens /\ psOwner[t] # PsNoOne
PsRequestOk(r) ==
    /\ r.got = "nothing" => PsPlain(r)
    /\ r.kind = "login" => r.who \in PsAccounts
    /\ r.kind = "impersonate" => r.who = PsCustomer
    /\ r.kind = "me" => PsOwned(r.with)
    /\ r.got = "ok" /\ r.kind \in {"login", "impersonate"} => PsOwned(r.new) /\ psOwner[r.new] = r.who
    /\ r.got = "ok" /\ r.kind = "impersonate" => PsOwned(r.with) /\ psOwner[r.with] = PsAdmin

PsTyped ==
    /\ psOwner \in [PsTokens -> PsAccounts \cup {PsNoOne}]
    /\ psValid \subseteq {t \in PsTokens : psOwner[t] # PsNoOne}
    /\ psToken # PsNoOne => PsOwned(psToken)
    /\ psBackup # PsNoOne => PsOwned(psBackup.token) /\ psOwner[psBackup.token] = psBackup.user
    /\ psCrossed \in BOOLEAN
    /\ \A r \in psSent : PsRequestOk(r)

(* While the account does not change under a kept answer, every answer of   *)
(* /auth/me to come is the one of the account signed in.                     *)
PsSame ==
    psToken # PsNoOne /\ ~psCrossed =>
        /\ psUser = psOwner[psToken]
        /\ \A r \in psSent : r.kind = "me" => psOwner[r.with] = psOwner[psToken]

SessionInv == PsTyped /\ PsSame

LEMMA SessionInit == PsInit => SessionInv
BY PsAssumption DEF PsInit, SessionInv, PsTyped, PsSame, PsAccounts

(* A step that issues no token and adds nothing but what is well-formed.    *)
LEMMA SessionSide ==
    ASSUME SessionInv, UNCHANGED psOwner, psValid' \subseteq psValid,
           psToken' # PsNoOne => psToken' = psToken,
           psBackup' # PsNoOne => psBackup' = psBackup,
           psCrossed' = psCrossed,
           psToken' # PsNoOne /\ ~psCrossed' => psUser' = psOwner[psToken],
           \A r \in psSent' : r \in psSent \/ (PsRequestOk(r) /\ r.kind # "me")
    PROVE  SessionInv'
<1>1. \A r : PsRequestOk(r) <=> PsRequestOk(r)'
  BY DEF PsRequestOk, PsPlain, PsOwned
<1>2. PsTyped'
  BY <1>1 DEF SessionInv, PsTyped, PsOwned
<1>3. PsSame'
  BY DEF SessionInv, PsSame
<1> QED BY <1>2, <1>3 DEF SessionInv

LEMMA NewRequest ==
    ASSUME NEW kind \in {"login", "poll", "logout", "impersonate", "exit"}, NEW who,
           kind = "login" => who \in PsAccounts, kind = "impersonate" => who = PsCustomer
    PROVE  PsRequestOk(PsRequest(kind, who)) /\ PsRequest(kind, who).kind # "me"
BY DEF PsRequestOk, PsPlain, PsRequest

LEMMA AsksKeep ==
    ASSUME SessionInv,
           \/ \E u \in PsAccounts : PsSubmitLogin(u)
           \/ PsPoll \/ PsClickLogout \/ PsClickImpersonate \/ PsClickExit
    PROVE  SessionInv'
<1>1. PICK kind \in {"login", "poll", "logout", "impersonate", "exit"}, who \in PsAccounts \cup {PsNoOne} :
          /\ psSent' = psSent \cup {PsRequest(kind, who)}
          /\ kind = "login" => who \in PsAccounts
          /\ kind = "impersonate" => who = PsCustomer
  BY DEF PsAccounts, PsSubmitLogin, PsPoll, PsClickLogout, PsClickImpersonate, PsClickExit
<1>2. UNCHANGED <<psOwner, psValid, psUser, psToken, psBackup, psCrossed>>
  BY DEF PsSubmitLogin, PsPoll, PsClickLogout, PsClickImpersonate, PsClickExit, psServer, psStore
<1>3. \A r \in psSent' : r \in psSent \/ (PsRequestOk(r) /\ r.kind # "me")
  BY <1>1, NewRequest
<1> QED BY <1>2, <1>3, SessionSide DEF SessionInv, PsSame

(* A session that begins anew, with nothing under way but the question who  *)
(* it is.                                                                    *)
LEMMA MeRequest ==
    ASSUME NEW t, PsOwned(t),
           NEW r, r = [kind |-> "me", with |-> t, who |-> PsNoOne, got |-> "nothing"]
    PROVE  PsRequestOk(r)
BY DEF PsRequestOk, PsPlain

LEMMA LoggedInKeeps ==
    ASSUME SessionInv, NEW r \in psSent, PsLoggedIn(r)
    PROVE  SessionInv'
<1>1. /\ PsOwned(r.new) /\ psOwner[r.new] = r.who /\ r.who # PsNoOne
      /\ psToken' = r.new /\ UNCHANGED <<psOwner, psValid, psBackup>>
      /\ psCrossed' = (psCrossed \/ psMe # PsNoOne \/ PsPending("me"))
  BY PsAssumption DEF PsLoggedIn, SessionInv, PsTyped, PsRequestOk, PsAccounts, psServer
<1>2. PICK me : me = [kind |-> "me", with |-> r.new, who |-> PsNoOne, got |-> "nothing"]
  OBVIOUS
<1>3. psSent' \subseteq psSent \cup {me}
  BY <1>2 DEF PsLoggedIn, PsMountLayout
<1>4. PsRequestOk(me) /\ me.with = r.new
  BY <1>1, <1>2, MeRequest
<1>5. \A q : PsRequestOk(q) => PsRequestOk(q)'
  BY <1>1 DEF PsRequestOk, PsPlain, PsOwned
<1>6. PsTyped'
  BY <1>1, <1>3, <1>4, <1>5 DEF SessionInv, PsTyped, PsOwned, PsPending
<1>7. PsSame'
  <2>1. ASSUME ~psCrossed'
        PROVE  psUser' = psOwner[r.new] /\ \A q \in psSent : q.kind # "me"
    BY <1>1, <2>1 DEF PsLoggedIn, PsMountLayout, PsPending
  <2> QED BY <1>1, <1>3, <1>4, <2>1 DEF PsSame
<1> QED BY <1>6, <1>7 DEF SessionInv

LEMMA ImpersonatedKeeps ==
    ASSUME SessionInv, NEW r \in psSent, PsImpersonated(r)
    PROVE  SessionInv'
<1>1. /\ PsOwned(r.new) /\ psOwner[r.new] = r.who
      /\ PsOwned(r.with) /\ psOwner[r.with] = PsAdmin
  BY DEF PsImpersonated, SessionInv, PsTyped, PsRequestOk
<1>2. PICK me : me = [kind |-> "me", with |-> r.new, who |-> PsNoOne, got |-> "nothing"]
  OBVIOUS
<1>3. /\ psToken' = r.new /\ psUser' = r.who /\ UNCHANGED <<psOwner, psValid>>
      /\ psSent' = {me} /\ psCrossed' = FALSE
      /\ psBackup'.user = PsAdmin /\ psBackup'.token = r.with
  BY <1>2 DEF PsImpersonated, PsAfterImpersonate, PsFreshPage, PsPageLoad, psServer
<1>4. PsRequestOk(me) /\ me.with = r.new
  BY <1>1, <1>2, MeRequest
<1>5. PsRequestOk(me) => PsRequestOk(me)'
  BY <1>2, <1>3 DEF PsRequestOk, PsPlain, PsOwned
<1>6. PsTyped'
  BY <1>1, <1>3, <1>4, <1>5 DEF SessionInv, PsTyped, PsOwned
<1> QED BY <1>1, <1>3, <1>4, <1>6 DEF SessionInv, PsSame

LEMMA ExitKeeps ==
    ASSUME SessionInv, NEW r \in psSent, PsExitAnswered(r)
    PROVE  SessionInv'
<1>1. /\ PsOwned(psBackup.token) /\ psOwner[psBackup.token] = psBackup.user
      /\ psToken' = psBackup.token /\ psUser' = psBackup.user /\ psBackup' = PsNoOne
      /\ psSent' \subseteq psSent /\ UNCHANGED <<psOwner, psValid>>
      /\ psCrossed' = (psCrossed \/ PsPending("me"))
  BY DEF PsExitAnswered, PsGivenBack, PsBackupBack, SessionInv, PsTyped, psServer
<1>2. \A q : PsRequestOk(q) => PsRequestOk(q)'
  BY <1>1 DEF PsRequestOk, PsPlain, PsOwned
<1>3. PsTyped'
  BY <1>1, <1>2 DEF SessionInv, PsTyped, PsOwned, PsPending
<1> QED BY <1>1, <1>3 DEF SessionInv, PsSame, PsPending

LEMMA AnswersKeep ==
    ASSUME SessionInv, NEW r \in psSent,
           PsUnauthorized(r) \/ PsMeAnswered(r) \/ PsPollAnswered(r) \/ PsLoggedOut(r)
    PROVE  SessionInv'
<1>1. CASE PsPollAnswered(r)
  BY <1>1, SessionSide DEF PsPollAnswered, psServer, psStore, SessionInv, PsSame
<1>2. CASE PsLoggedOut(r)
  BY <1>2, SessionSide DEF PsLoggedOut, PsSessionOver, psServer
<1>3. CASE PsMeAnswered(r)
  <2>1. psToken # PsNoOne /\ ~psCrossed => psOwner[r.with] = psOwner[psToken] /\ psUser = psOwner[psToken]
    BY <1>3 DEF PsMeAnswered, SessionInv, PsSame
  <2> QED BY <1>3, <2>1, SessionSide DEF PsMeAnswered, psServer
<1>4. CASE PsUnauthorized(r)
  <2>1. /\ UNCHANGED <<psOwner, psValid>> /\ psToken' = PsNoOne /\ psBackup' = PsNoOne
        /\ psSent' = {} /\ psCrossed' = FALSE
    BY <1>4 DEF PsUnauthorized, PsSessionOver, PsPageLoad, psServer
  <2> QED BY <2>1 DEF SessionInv, PsTyped, PsSame
<1> QED BY <1>1, <1>2, <1>3, <1>4

(* The server answers; a token it issues was nobody's.                      *)
LEMMA IssuedKeeps ==
    ASSUME SessionInv, NEW r \in psSent, r.got = "nothing",
           \/ r.kind = "login"
           \/ r.kind = "impersonate" /\ PsOwned(r.with) /\ psOwner[r.with] = PsAdmin,
           NEW t \in PsTokens, psOwner[t] = PsNoOne,
           NEW s, s = [got |-> "ok", new |-> t, kind |-> r.kind, with |-> r.with, who |-> r.who],
           psOwner' = [psOwner EXCEPT ![t] = r.who], psValid' = psValid \cup {t},
           psSent' = (psSent \ {r}) \cup {s}, UNCHANGED <<psStore, psPage, psPolls, psCrossed>>
    PROVE  SessionInv'
<1>1. r.who \in PsAccounts /\ r.who # PsNoOne
  BY PsAssumption DEF SessionInv, PsTyped, PsRequestOk, PsAccounts
<1>2. /\ psOwner' \in [PsTokens -> PsAccounts \cup {PsNoOne}] /\ psOwner'[t] = r.who
      /\ \A x \in PsTokens : x # t => psOwner'[x] = psOwner[x]
  BY <1>1 DEF SessionInv, PsTyped
<1>3. \A x : PsOwned(x) => PsOwned(x)' /\ psOwner'[x] = psOwner[x]
  BY <1>2 DEF PsOwned
<1>4. \A q \in psSent : PsRequestOk(q)'
  BY <1>3 DEF SessionInv, PsTyped, PsRequestOk, PsPlain
<1>5. PsRequestOk(s)'
  BY <1>1, <1>2, <1>3 DEF SessionInv, PsTyped, PsRequestOk, PsOwned
<1>6. PsTyped'
  BY <1>1, <1>2, <1>3, <1>4, <1>5 DEF SessionInv, PsTyped, PsOwned, psStore
<1>7. PsSame'
  <2>1. psToken' = psToken /\ psUser' = psUser /\ (psToken # PsNoOne => psOwner'[psToken] = psOwner[psToken])
    BY <1>3 DEF SessionInv, PsTyped, psStore
  <2>2. \A q \in psSent' : q.kind = "me" => q \in psSent /\ psOwner'[q.with] = psOwner[q.with]
    BY <1>3 DEF SessionInv, PsTyped, PsRequestOk
  <2> QED BY <2>1, <2>2 DEF SessionInv, PsSame
<1> QED BY <1>6, <1>7 DEF SessionInv

LEMMA ServeKeeps ==
    ASSUME SessionInv, NEW r \in psSent, PsServe(r)
    PROVE  SessionInv'
<1>1. r.got = "nothing" /\ PsPlain(r) /\ PsRequestOk(r)
  BY DEF PsServe, SessionInv, PsTyped, PsRequestOk
<1>2. ASSUME NEW got \in {"ok", "401", "403"},
             got = "ok" => r.kind \in {"me", "poll", "logout", "exit"},
             UNCHANGED <<psOwner, psStore, psCrossed>>, psValid' \subseteq psValid,
             psSent' = (psSent \ {r}) \cup {[r EXCEPT !.got = got]}
      PROVE  SessionInv'
  <2>1. PICK s : s = [r EXCEPT !.got = got]
    OBVIOUS
  <2>2. s.kind = r.kind /\ s.with = r.with /\ s.who = r.who /\ s.got = got
    BY <1>1, <2>1 DEF PsPlain
  <2>3. PsRequestOk(s)
    BY <1>1, <1>2, <2>2 DEF PsRequestOk
  <2>4. \A q : PsRequestOk(q) => PsRequestOk(q)'
    BY <1>2 DEF PsRequestOk, PsPlain, PsOwned
  <2>5. PsTyped'
    BY <1>2, <2>1, <2>3, <2>4 DEF SessionInv, PsTyped, PsOwned, psStore
  <2>6. PsSame'
    BY <1>2, <2>1, <2>2 DEF SessionInv, PsSame, psStore
  <2> QED BY <2>5, <2>6 DEF SessionInv
<1>3. PsCanIssue => PsNewToken \in PsTokens /\ psOwner[PsNewToken] = PsNoOne
  BY DEF PsCanIssue, PsNewToken
<1>4. \A t \in psValid : PsOwned(t)
  BY DEF SessionInv, PsTyped, PsOwned
<1>5. UNCHANGED <<psStore, psPage, psPolls, psCrossed>>
  BY DEF PsServe
<1>6. ASSUME PsCanIssue,
             \/ r.kind = "login"
             \/ r.kind = "impersonate" /\ r.with \in psValid /\ psOwner[r.with] = PsAdmin,
             psOwner' = [psOwner EXCEPT ![PsNewToken] = r.who], psValid' = psValid \cup {PsNewToken},
             psSent' = (psSent \ {r}) \cup {[got |-> "ok", new |-> PsNewToken, kind |-> r.kind,
                                             with |-> r.with, who |-> r.who]}
      PROVE  SessionInv'
  <2>1. PICK t \in PsTokens : psOwner[t] = PsNoOne /\ t = PsNewToken
    BY <1>3, <1>6
  <2> QED BY <1>1, <1>4, <1>5, <1>6, <2>1, IssuedKeeps
<1>7. r.kind = "impersonate" => r.who = PsCustomer
  BY <1>1 DEF PsRequestOk
<1>8. ASSUME r.kind \in {"me", "poll", "logout", "exit"}, UNCHANGED psOwner, psValid' \subseteq psValid,
             psSent' = (psSent \ {r}) \cup {[r EXCEPT !.got = "ok"]}
      PROVE  SessionInv'
  BY <1>2, <1>5, <1>8
<1>9. ASSUME NEW got \in {"401", "403"}, UNCHANGED psServer,
             psSent' = (psSent \ {r}) \cup {[r EXCEPT !.got = got]}
      PROVE  SessionInv'
  BY <1>2, <1>5, <1>9 DEF psServer
<1> QED BY <1>6, <1>7, <1>8, <1>9 DEF PsServe

LEMMA SessionStep == SessionInv /\ [PsNext]_psVars => SessionInv'
<1> SUFFICES ASSUME SessionInv, [PsNext]_psVars  PROVE SessionInv'
  OBVIOUS
<1>1. CASE PsMeGrowsStale \/ (\E t \in PsTokens : PsExpire(t)) \/ UNCHANGED psVars
  BY <1>1, SessionSide
     DEF PsMeGrowsStale, PsExpire, psVars, psServer, psStore, SessionInv, PsSame
<1>2. CASE \/ \E u \in PsAccounts : PsSubmitLogin(u)
           \/ PsPoll \/ PsClickLogout \/ PsClickImpersonate \/ PsClickExit
  BY <1>2, AsksKeep
<1>3. ASSUME NEW r \in psSent,
             \/ PsLoggedIn(r) \/ PsServe(r) \/ PsUnauthorized(r) \/ PsMeAnswered(r)
             \/ PsPollAnswered(r) \/ PsLoggedOut(r) \/ PsImpersonated(r) \/ PsExitAnswered(r)
      PROVE  SessionInv'
  BY <1>3, LoggedInKeeps, ServeKeeps, AnswersKeep, ImpersonatedKeeps, ExitKeeps
<1> QED BY <1>1, <1>2, <1>3 DEF PsNext

(* The auth store, the kept answer of /auth/me and the interceptor of 401s:  *)
(* for any number of tokens and requests in flight, the account the pages    *)
(* show is the one whose token they send, but for an answer kept across a    *)
(* change of account.                                                        *)
THEOREM ShownAccountIsSignedIn == PsSpec => []ShownIsSignedIn
<1>1. SessionInv => ShownIsSignedIn
  BY DEF SessionInv, PsSame, ShownIsSignedIn
<1> QED BY <1>1, SessionInit, SessionStep, PTL DEF PsSpec

-----------------------------------------------------------------------------
(* The listing                                                               *)

FlKeys == FlPlaces \X FlOffsets
FlOp == {"add", "rename", "move", "trash", "bulkTrash"}

(* Only the first page of a folder is ever cached: another one has no total *)
(* while it loads, and the effect on the total goes back to the first.       *)
FlCached(k) == /\ k[2] = 0
               /\ flListing[k] = [rows |-> flListing[k].rows, total |-> flListing[k].total,
                                  fresh |-> flListing[k].fresh]
FlTyped ==
    /\ DOMAIN flHeld = FlPlaces /\ DOMAIN flBin = FlTargets /\ DOMAIN flBinList = FlTargets
    /\ flShown \in FlPlaces /\ flOffset \in FlOffsets
    /\ DOMAIN flListing = FlKeys
    /\ \A k \in FlKeys : flListing[k] # FlNoRows => FlCached(k)
    /\ flChange # FlNoChange =>
          /\ flChange.kind \in FlOp /\ flChange.at \in FlPlaces /\ flChange.to \in FlPlaces
          /\ {"kind", "done", "at", "to"} \subseteq DOMAIN flChange

(* A fresh listing differs from the folder only where an operation changed  *)
(* it from elsewhere, or has changed it and is not answered yet.             *)
FlExcused(p) == p \in flBehind \/ (flChange # FlNoChange /\ flChange.done /\ p = flShown)
FlKeyTrue(k) == /\ flListing[k] # FlNoRows /\ flListing[k].fresh /\ ~FlExcused(k[1])
                => flListing[k].rows = FlPageOf(flHeld[k[1]], k[2])
FlTrue ==
    flPatient => /\ flChange # FlNoChange => flChange.at = flShown
                 /\ \A k \in FlKeys : FlKeyTrue(k)

FlSearched ==
    flPatient => /\ flSearching \in {FlNoRows, flShown.target}
                 /\ flHits \in {FlNoRows, flShown.target}

FlBins ==
    \A t \in FlTargets \ flBinAsked : flBinList[t] # FlNoRows => flBinList[t] \subseteq flBin[t]

ListingInv == FlTyped /\ FlTrue /\ TicksStay /\ FlSearched /\ FlBins

LEMMA ListingInit == FlInit => ListingInv
<1> SUFFICES ASSUME FlInit PROVE ListingInv
  OBVIOUS
<1>1. \A k \in FlKeys : flListing[k] = FlNoRows
  BY DEF FlInit, FlKeys
<1>2. FlTyped
  BY <1>1 DEF FlInit, FlTyped, FlKeys, FlOffsets
<1>3. FlTrue
  BY <1>1 DEF FlInit, FlTrue, FlKeyTrue
<1> QED BY <1>2, <1>3 DEF FlInit, ListingInv, TicksStay, FlSearched, FlBins

(* What changes neither files nor bins, and shows another folder only to a  *)
(* user who is free to act.                                                  *)
LEMMA ListingSide ==
    ASSUME ListingInv, UNCHANGED <<flHeld, flBin, flBehind, flPatient, flBinList>>,
           flBinAsked \subseteq flBinAsked',
           flShown' \in FlPlaces, flOffset' \in FlOffsets,
           DOMAIN flListing' = FlKeys, \A k \in FlKeys : flListing'[k] \in {flListing[k], FlNoRows},
           flChange' \in {flChange, FlNoChange},
           flPatient => \/ flChange' = flChange /\ flShown' = flShown
                        \/ ~(flChange # FlNoChange /\ flChange.done) /\ flChange' = FlNoChange,
           TicksStay', FlSearched'
    PROVE  ListingInv'
<1>1. ASSUME NEW k \in FlKeys, flListing'[k] # FlNoRows  PROVE FlCached(k)'
  BY <1>1 DEF ListingInv, FlTyped, FlCached
<1>2. FlTyped'
  BY <1>1 DEF ListingInv, FlTyped
<1>3. ASSUME flPatient, NEW k \in FlKeys  PROVE FlKeyTrue(k)'
  <2>1. FlKeyTrue(k)
    BY <1>3 DEF ListingInv, FlTrue
  <2>2. FlExcused(k[1]) => FlExcused(k[1])'
    BY <1>3 DEF FlExcused
  <2> QED BY <2>1, <2>2 DEF FlKeyTrue
<1>4. FlTrue'
  BY <1>3 DEF ListingInv, FlTrue
<1>5. FlBins'
  BY DEF ListingInv, FlBins
<1> QED BY <1>2, <1>4, <1>5 DEF ListingInv

LEMMA DisplayKeeps ==
    ASSUME ListingInv, NEW place \in FlPlaces, NEW off \in FlOffsets, FlDisplay(place, off),
           FlUserActs \/ place = flShown, UNCHANGED <<flServer, flOps, flBinVars, flBehind, flPatient>>,
           TicksStay', FlSearched'
    PROVE  ListingInv'
<1>1. /\ DOMAIN flListing' = FlKeys /\ \A k \in FlKeys : flListing'[k] \in {flListing[k], FlNoRows}
      /\ flShown' = place /\ flOffset' = off
  BY DEF FlDisplay, ListingInv, FlTyped
<1>2. flPatient /\ FlUserActs => flChange = FlNoChange
  BY DEF FlUserActs, FlWaiting
<1> QED BY <1>1, <1>2, ListingSide DEF flServer, flOps, flBinVars, ListingInv

LEMMA ResetTicks ==
    ASSUME ListingInv, NEW place \in FlPlaces, FlReset(place), flShown' = place
    PROVE  TicksStay'
<1>1. FlResetOn(place) = FlResetOn(flShown) =>
          FlDomainOf[place.target] = FlDomainOf[flShown.target] /\ place.folder = flShown.folder
  BY DEF FlResetOn, FlResetKeys
<1> QED BY <1>1 DEF FlReset, ListingInv, TicksStay

LEMMA NavigationKeeps ==
    ASSUME ListingInv,
           \/ \E x \in FlFolders : FlGoToFolder(x)
           \/ \E t \in FlTargets : FlSwitchTarget(t)
           \/ \E off \in FlOffsets : FlTurnPage(off)
           \/ FlClampOffset
    PROVE  ListingInv'
<1>0. 0 \in FlOffsets /\ flShown \in FlPlaces /\ flOffset \in FlOffsets
  BY DEF FlOffsets, ListingInv, FlTyped
<1>1. ASSUME NEW x \in FlFolders, FlGoToFolder(x)  PROVE ListingInv'
  <2>1. PICK place : place = [flShown EXCEPT !.folder = x]
    OBVIOUS
  <2>2. place \in FlPlaces /\ place.target = flShown.target
    BY <1>0, <2>1 DEF FlPlaces
  <2>3. FlDisplay(place, 0) /\ FlReset(place) /\ FlUserActs /\ flShown' = place
        /\ UNCHANGED <<flServer, flOps, flSearch, flBinVars, flBehind, flPatient>>
    BY <1>1, <2>1 DEF FlGoToFolder, FlDisplay
  <2>4. TicksStay'
    BY <2>2, <2>3, ResetTicks
  <2>5. FlSearched'
    BY <2>2, <2>3 DEF ListingInv, FlSearched, flSearch
  <2> QED BY <1>0, <2>2, <2>3, <2>4, <2>5, DisplayKeeps
<1>2. ASSUME NEW t \in FlTargets, FlSwitchTarget(t)  PROVE ListingInv'
  <2>1. PICK root \in FlFolders :
            LET place == [target |-> t, folder |-> root]
            IN /\ FlDisplay(place, IF FlResetOn(place) = FlResetOn(flShown) THEN flOffset ELSE 0)
               /\ FlReset(place)
    BY <1>2 DEF FlSwitchTarget
  <2>2. PICK place \in FlPlaces : place = [target |-> t, folder |-> root]
    BY DEF FlPlaces
  <2>3. PICK off \in FlOffsets : off = IF FlResetOn(place) = FlResetOn(flShown) THEN flOffset ELSE 0
    BY <1>0
  <2>4. FlDisplay(place, off) /\ FlReset(place) /\ flShown' = place
    BY <2>1, <2>2, <2>3 DEF FlDisplay
  <2>5. TicksStay'
    BY <2>4, ResetTicks
  <2>6. flPatient => flSearching = FlNoRows
    BY <1>2 DEF FlSwitchTarget, FlUserActs, FlWaiting
  <2>7. FlSearched'
    BY <1>2, <2>6 DEF FlSwitchTarget, FlHitsAfterSwitch, FlClearHits, FlSearched
  <2> QED BY <1>2, <2>4, <2>5, <2>7, DisplayKeeps DEF FlSwitchTarget
<1>3. ASSUME NEW off \in FlOffsets,
             FlDisplay(flShown, off), UNCHANGED <<flServer, flTicked, flOps, flSearch, flBinVars, flBehind, flPatient>>
      PROVE  ListingInv'
  <2>1. flShown' = flShown
    BY <1>3 DEF FlDisplay
  <2>2. TicksStay' /\ FlSearched'
    BY <1>3, <2>1 DEF ListingInv, TicksStay, FlSearched, flSearch
  <2> QED BY <1>0, <1>3, <2>2, DisplayKeeps
<1> QED BY <1>0, <1>1, <1>2, <1>3 DEF FlTurnPage, FlClampOffset

(* A listing that arrives is the one of the first page.                     *)
LEMMA ListedKeeps ==
    ASSUME ListingInv, FlListed
    PROVE  ListingInv'
<1>1. PICK key : key = <<flShown, flOffset>>
  OBVIOUS
<1>2. key \in FlKeys /\ key[1] = flShown /\ key[2] = flOffset
  BY <1>1 DEF FlKeys, ListingInv, FlTyped
<1>3. flOffset = 0
  <2>1. CASE flListing[key] = FlNoRows
    BY <1>1, <2>1 DEF FlListed, FlOffsetSettled, FlTotal, FlCurrent
  <2>2. CASE flListing[key] # FlNoRows
    BY <1>2, <2>2 DEF ListingInv, FlTyped, FlCached
  <2> QED BY <2>1, <2>2
<1>4. PICK new : new = [rows |-> FlPageOf(flHeld[flShown], flOffset),
                        total |-> Cardinality(flHeld[flShown]), fresh |-> TRUE]
  OBVIOUS
<1>5. /\ flListing' = [flListing EXCEPT ![key] = new] /\ flBehind' = flBehind \ {flShown}
      /\ UNCHANGED <<flServer, flShown, flOffset, flTicked, flOps, flSearch, flBinVars, flPatient>>
  BY <1>1, <1>4 DEF FlListed
<1>6. /\ DOMAIN flListing' = FlKeys /\ flListing'[key] = new
      /\ \A k \in FlKeys \ {key} : flListing'[k] = flListing[k]
  BY <1>2, <1>5 DEF ListingInv, FlTyped
<1>7. ASSUME NEW k \in FlKeys, flListing'[k] # FlNoRows  PROVE FlCached(k)'
  <2>1. CASE k = key
    BY <1>2, <1>3, <1>4, <1>6, <2>1 DEF FlCached
  <2>2. CASE k # key
    BY <1>6, <1>7, <2>2 DEF ListingInv, FlTyped, FlCached
  <2> QED BY <2>1, <2>2
<1>8. FlTyped'
  BY <1>5, <1>6, <1>7 DEF ListingInv, FlTyped, flServer, flOps, flBinVars
<1>9. ASSUME flPatient, NEW k \in FlKeys  PROVE FlKeyTrue(k)'
  <2>1. CASE k = key
    BY <1>2, <1>4, <1>5, <1>6, <2>1 DEF FlKeyTrue, flServer
  <2>2. CASE k # key
    <3>1. CASE flListing[k] = FlNoRows
      BY <1>6, <2>2, <3>1 DEF FlKeyTrue
    <3>2. CASE flListing[k] # FlNoRows
      <4>1. k[1] # flShown
        BY <1>1, <1>3, <2>2, <3>2 DEF ListingInv, FlTyped, FlCached, FlKeys
      <4>2. FlExcused(k[1]) => FlExcused(k[1])'
        BY <1>5, <4>1 DEF FlExcused
      <4>3. FlKeyTrue(k)
        BY <1>9 DEF ListingInv, FlTrue
      <4> QED BY <1>5, <1>6, <2>2, <4>2, <4>3 DEF FlKeyTrue, flServer
    <3> QED BY <3>1, <3>2
  <2> QED BY <2>1, <2>2
<1>10. FlTrue'
  BY <1>5, <1>9 DEF ListingInv, FlTrue, flOps
<1>11. TicksStay' /\ FlSearched' /\ FlBins'
  BY <1>5 DEF ListingInv, TicksStay, FlSearched, FlBins, flSearch, flBinVars, flServer
<1> QED BY <1>8, <1>10, <1>11 DEF ListingInv

LEMMA RestKeeps ==
    ASSUME ListingInv,
           \/ \E k \in FlPlaces \X FlOffsets : FlGrowStale(k)
           \/ FlRefetch \/ (\E x \in FlRows : FlTick(x)) \/ FlRefused
           \/ FlSearch \/ FlFound \/ FlOpenBin \/ FlCloseBin
    PROVE  ListingInv'
<1>1. ASSUME NEW k \in FlKeys, FlGrowStale(k)  PROVE ListingInv'
  <2>1. /\ UNCHANGED <<flServer, flShown, flOffset, flTicked, flOps, flSearch, flBinVars, flBehind, flPatient>>
        /\ flListing' = [flListing EXCEPT ![k].fresh = FALSE] /\ flListing[k] # FlNoRows
    BY <1>1 DEF FlGrowStale
  <2>2. FlCached(k) /\ DOMAIN flListing = FlKeys
    BY <2>1 DEF ListingInv, FlTyped
  <2>3. PICK old : old = [flListing[k] EXCEPT !.fresh = FALSE]
    OBVIOUS
  <2>4. /\ old = [rows |-> flListing[k].rows, total |-> flListing[k].total, fresh |-> FALSE]
        /\ flListing'[k] = old /\ \A x \in FlKeys \ {k} : flListing'[x] = flListing[x]
        /\ DOMAIN flListing' = FlKeys
    BY <2>1, <2>2, <2>3 DEF FlCached
  <2>5. ASSUME NEW x \in FlKeys, flListing'[x] # FlNoRows  PROVE FlCached(x)'
    <3>1. CASE x = k
      BY <2>2, <2>4, <3>1 DEF FlCached
    <3>2. CASE x # k
      BY <2>4, <2>5, <3>2 DEF ListingInv, FlTyped, FlCached
    <3> QED BY <3>1, <3>2
  <2>6. FlTyped'
    BY <2>1, <2>4, <2>5 DEF ListingInv, FlTyped, flServer, flOps, flBinVars
  <2>7. ASSUME flPatient, NEW x \in FlKeys  PROVE FlKeyTrue(x)'
    <3>1. CASE x = k
      BY <2>4, <3>1 DEF FlKeyTrue
    <3>2. CASE x # k
      BY <2>1, <2>4, <2>7, <3>2 DEF ListingInv, FlTrue, FlKeyTrue, FlExcused, flOps, flServer
    <3> QED BY <3>1, <3>2
  <2>8. FlTrue'
    BY <2>1, <2>7 DEF ListingInv, FlTrue, flOps
  <2> QED BY <2>1, <2>6, <2>8
          DEF ListingInv, TicksStay, FlSearched, FlBins, flSearch, flBinVars, flServer
<1>2. ASSUME \/ FlRefetch \/ (\E x \in FlRows : FlTick(x)) \/ FlRefused
             \/ FlSearch \/ FlFound \/ FlOpenBin \/ FlCloseBin
      PROVE  ListingInv'
  <2>1. /\ UNCHANGED <<flHeld, flBin, flBehind, flPatient, flBinList, flShown, flOffset, flListing>>
        /\ flBinAsked \subseteq flBinAsked'
        /\ flChange' \in {flChange, FlNoChange}
        /\ flChange' # flChange => ~flChange.done
    BY <1>2 DEF FlRefetch, FlTick, FlRefused, FlSearch, FlFound, FlOpenBin, FlCloseBin, flServer, flView,
       flOps, flSearch, flBinVars
  <2>2. TicksStay'
    <3>1. CASE \E x \in FlRows : FlTick(x)
      BY <3>1 DEF FlTick, ListingInv, TicksStay
    <3>2. CASE ~\E x \in FlRows : FlTick(x)
      <4>1. flTicked' = flTicked
        BY <1>2, <3>2 DEF FlRefetch, FlRefused, FlSearch, FlFound, FlOpenBin, FlCloseBin, flView
      <4> QED BY <2>1, <4>1 DEF ListingInv, TicksStay
    <3> QED BY <3>1, <3>2
  <2>3. FlSearched'
    BY <1>2, <2>1 DEF FlRefetch, FlTick, FlRefused, FlSearch, FlFound, FlOpenBin, FlCloseBin,
       ListingInv, FlSearched, flSearch
  <2> QED BY <2>1, <2>2, <2>3, ListingSide DEF ListingInv, FlTyped
<1> QED BY <1>1, <1>2 DEF FlKeys

(* Operations: asked for, carried out, answered.                            *)
LEMMA StartKeeps ==
    ASSUME ListingInv, NEW op, FlStart(op), op.kind \in FlOp, op.done = FALSE,
           op.at = flShown, op.to \in FlPlaces, {"kind", "done", "at", "to"} \subseteq DOMAIN op
    PROVE  ListingInv'
<1>1. /\ UNCHANGED <<flServer, flView, flSearch, flBinVars, flPatient>>
      /\ flChange = FlNoChange /\ flChange' = op
  BY DEF FlStart
<1>2. FlTyped'
  BY <1>1 DEF ListingInv, FlTyped, FlCached, flServer, flView, flBinVars
<1>3. ASSUME flPatient, NEW k \in FlKeys  PROVE FlKeyTrue(k)'
  BY <1>1, <1>3 DEF ListingInv, FlTrue, FlKeyTrue, FlExcused, flServer, flView
<1>4. FlTrue'
  BY <1>1, <1>3 DEF ListingInv, FlTrue, flView
<1> QED BY <1>1, <1>2, <1>4
        DEF ListingInv, TicksStay, FlSearched, FlBins, flView, flSearch, flServer, flBinVars

LEMMA StartsKeep ==
    ASSUME ListingInv,
           \/ \E x \in FlRows : FlAddRow(x) \/ FlTrashRow(x)
           \/ \E x, y \in FlRows : FlRenameRow(x, y)
           \/ \E x \in FlRows, f \in FlFolders : FlMoveRow(x, f)
           \/ FlBulkTrash
    PROVE  ListingInv'
<1>1. flShown \in FlPlaces
  BY DEF ListingInv, FlTyped
<1>2. ASSUME NEW kind \in FlOp, NEW rows, NEW to \in FlPlaces,
             FlStart([kind |-> kind, done |-> FALSE, at |-> flShown, rows |-> rows, to |-> to])
      PROVE  ListingInv'
  <2>1. PICK op : op = [kind |-> kind, done |-> FALSE, at |-> flShown, rows |-> rows, to |-> to]
    OBVIOUS
  <2> QED BY <1>2, <2>1, StartKeeps
<1>3. ASSUME NEW x, FlAddRow(x) \/ FlTrashRow(x)  PROVE ListingInv'
  BY <1>1, <1>2, <1>3 DEF FlAddRow, FlTrashRow, FlOp
<1>4. ASSUME NEW x, NEW y, FlRenameRow(x, y)  PROVE ListingInv'
  <2>1. PICK op : op = [kind |-> "rename", done |-> FALSE, at |-> flShown, rows |-> {x},
                        new |-> y, to |-> flShown]
    OBVIOUS
  <2> QED BY <1>1, <1>4, <2>1, StartKeeps DEF FlRenameRow, FlOp
<1>5. ASSUME NEW x, NEW f \in FlFolders, FlMoveRow(x, f)  PROVE ListingInv'
  <2>1. [flShown EXCEPT !.folder = f] \in FlPlaces
    BY <1>1 DEF FlPlaces
  <2> QED BY <1>2, <1>5, <2>1 DEF FlMoveRow, FlOp
<1>6. CASE FlBulkTrash
  <2>1. PICK op : op = [kind |-> "bulkTrash", done |-> FALSE, at |-> flShown, to |-> flShown,
                        rows |-> FlEntries \cap {x.row : x \in flTicked}]
    OBVIOUS
  <2> QED BY <1>1, <1>6, <2>1, StartKeeps DEF FlBulkTrash, FlOp
<1> QED BY <1>3, <1>4, <1>5, <1>6

(* The folders an operation changes are the one it was asked in and the one *)
(* it names; the bins only grow.                                             *)
LEMMA EffectIsLocal ==
    ASSUME FlTyped, flChange # FlNoChange, FlEffect(flChange)
    PROVE  /\ DOMAIN flHeld' = FlPlaces /\ DOMAIN flBin' = FlTargets
           /\ \A p \in FlPlaces \ {flChange.at, flChange.to} : flHeld'[p] = flHeld[p]
           /\ \A t \in FlTargets : flBin[t] \subseteq flBin'[t]
<1>1. flChange.kind \in FlOp /\ DOMAIN flHeld = FlPlaces /\ DOMAIN flBin = FlTargets
  BY DEF FlTyped
<1>2. CASE flChange.kind = "add"
  BY <1>1, <1>2 DEF FlEffect
<1>3. CASE flChange.kind = "rename"
  BY <1>1, <1>3 DEF FlEffect
<1>4. CASE flChange.kind = "move"
  BY <1>1, <1>4 DEF FlEffect
<1>5. CASE flChange.kind \in {"trash", "bulkTrash"}
  BY <1>1, <1>5 DEF FlEffect
<1> QED BY <1>1, <1>2, <1>3, <1>4, <1>5 DEF FlOp

LEMMA CarryKeeps ==
    ASSUME ListingInv, FlCarry
    PROVE  ListingInv'
<1>1. /\ UNCHANGED <<flShown, flOffset, flListing, flAsking, flTicked, flChanges, flSearch, flBinVars,
                     flPatient>>
      /\ flChange # FlNoChange /\ FlEffect(flChange)
      /\ flChange' = [flChange EXCEPT !.done = TRUE]
      /\ flBehind' = flBehind \cup ({flChange.to} \ {flChange.at})
  BY DEF FlCarry
<1>2. /\ flChange.kind \in FlOp /\ flChange.at \in FlPlaces /\ flChange.to \in FlPlaces
      /\ {"kind", "done", "at", "to"} \subseteq DOMAIN flChange
  BY <1>1 DEF ListingInv, FlTyped
<1>3. /\ flChange'.kind = flChange.kind /\ flChange'.at = flChange.at /\ flChange'.to = flChange.to
      /\ flChange'.done = TRUE /\ DOMAIN flChange' = DOMAIN flChange
  BY <1>1, <1>2
<1>4. /\ DOMAIN flHeld' = FlPlaces /\ DOMAIN flBin' = FlTargets
      /\ \A p \in FlPlaces \ {flChange.at, flChange.to} : flHeld'[p] = flHeld[p]
      /\ \A t \in FlTargets : flBin[t] \subseteq flBin'[t]
  BY <1>1, EffectIsLocal DEF ListingInv
<1>5. FlTyped'
  BY <1>1, <1>2, <1>3, <1>4 DEF ListingInv, FlTyped, FlCached, flBinVars
<1>6. flChange' # FlNoChange
  BY <1>2, <1>3 DEF FlNoChange, FlOp
<1>7. ASSUME flPatient, NEW k \in FlKeys  PROVE FlKeyTrue(k)'
  <2>1. FlKeyTrue(k) /\ flChange.at = flShown
    BY <1>1, <1>7 DEF ListingInv, FlTrue
  <2>2. CASE FlExcused(k[1])'
    BY <2>2 DEF FlKeyTrue
  <2>3. CASE ~FlExcused(k[1])'
    <3>1. k[1] # flShown /\ k[1] # flChange.to /\ k[1] \notin flBehind /\ k[1] \in FlPlaces
      BY <1>1, <1>3, <1>6, <2>1, <2>3 DEF FlExcused, FlKeys
    <3> QED BY <1>1, <1>4, <2>1, <3>1 DEF FlKeyTrue, FlExcused
  <2> QED BY <2>2, <2>3
<1>8. FlTrue'
  BY <1>1, <1>3, <1>7 DEF ListingInv, FlTrue
<1>9. TicksStay' /\ FlSearched'
  BY <1>1 DEF ListingInv, TicksStay, FlSearched, flSearch
<1>10. FlBins'
  BY <1>1, <1>4 DEF ListingInv, FlBins, flBinVars
<1> QED BY <1>5, <1>8, <1>9, <1>10 DEF ListingInv

(* A refresh leaves no listing of the folder shown fresh.                   *)
LEMMA RefreshMarks ==
    ASSUME ListingInv, FlRefresh
    PROVE  /\ DOMAIN flListing' = FlKeys
           /\ \A k \in FlKeys : k[1] # flShown => flListing'[k] = flListing[k]
           /\ \A k \in FlKeys : k[1] = flShown /\ flListing'[k] # FlNoRows => ~flListing'[k].fresh
           /\ \A k \in FlKeys : flListing'[k] # FlNoRows =>
                 /\ k[2] = 0
                 /\ flListing'[k] = [rows |-> flListing'[k].rows, total |-> flListing'[k].total,
                                     fresh |-> flListing'[k].fresh]
<1>1. DOMAIN flListing = FlKeys /\ \A k \in FlKeys : flListing[k] # FlNoRows => FlCached(k)
  BY DEF ListingInv, FlTyped
<1>2. /\ DOMAIN flListing' = FlKeys
      /\ \A k \in FlKeys : flListing'[k] = IF k[1] = flShown /\ flListing[k] # FlNoRows
                                           THEN [flListing[k] EXCEPT !.fresh = FALSE] ELSE flListing[k]
  BY <1>1 DEF FlRefresh
<1>3. ASSUME NEW k \in FlKeys, flListing'[k] # FlNoRows
      PROVE  /\ k[2] = 0
             /\ flListing'[k] = [rows |-> flListing'[k].rows, total |-> flListing'[k].total,
                                 fresh |-> flListing'[k].fresh]
             /\ k[1] = flShown => ~flListing'[k].fresh
  <2>1. flListing[k] # FlNoRows /\ FlCached(k)
    BY <1>1, <1>2, <1>3
  <2>2. CASE k[1] = flShown
    <3>1. PICK new : new = [flListing[k] EXCEPT !.fresh = FALSE]
      OBVIOUS
    <3>2. new = [rows |-> flListing[k].rows, total |-> flListing[k].total, fresh |-> FALSE]
      BY <2>1, <3>1 DEF FlCached
    <3> QED BY <1>2, <2>1, <2>2, <3>1, <3>2 DEF FlCached
  <2>3. CASE k[1] # flShown
    BY <1>2, <2>1, <2>3 DEF FlCached
  <2> QED BY <2>2, <2>3
<1> QED BY <1>2, <1>3

LEMMA AnswerKeeps ==
    ASSUME ListingInv, FlAnswer
    PROVE  ListingInv'
<1>1. /\ UNCHANGED <<flServer, flShown, flChanges, flSearch, flBinVars, flBehind, flPatient>>
      /\ flOffset' = 0 /\ flTicked' \subseteq flTicked /\ flChange' = FlNoChange /\ FlRefresh
  BY DEF FlAnswer, FlAfterChange
<1>2. FlTyped'
  BY <1>1, RefreshMarks DEF ListingInv, FlTyped, FlCached, flServer, flBinVars, FlOffsets
<1>3. ASSUME flPatient, NEW k \in FlKeys  PROVE FlKeyTrue(k)'
  <2>1. CASE k[1] = flShown
    BY <1>1, <2>1, RefreshMarks DEF FlKeyTrue
  <2>2. CASE k[1] # flShown
    <3>1. flListing'[k] = flListing[k]
      BY <1>1, <2>2, RefreshMarks
    <3> QED BY <1>1, <1>3, <2>2, <3>1 DEF ListingInv, FlTrue, FlKeyTrue, FlExcused, flServer
  <2> QED BY <2>1, <2>2
<1>4. FlTrue'
  BY <1>1, <1>3 DEF FlTrue
<1>5. TicksStay' /\ FlSearched' /\ FlBins'
  BY <1>1 DEF ListingInv, TicksStay, FlSearched, FlBins, flSearch, flServer, flBinVars
<1> QED BY <1>2, <1>4, <1>5 DEF ListingInv

(* The bin: what leaves it is asked for again, open or not.                 *)
LEMMA BinShrinks ==
    ASSUME ListingInv, NEW items, FlBinStep(items)
    PROVE  /\ FlBins' /\ DOMAIN flBin' = FlTargets /\ DOMAIN flBinList' = FlTargets
           /\ flPatient => flChange = FlNoChange
           /\ UNCHANGED <<flShown, flOffset, flTicked, flChange, flSearch, flPatient>>
<1>1. /\ DOMAIN flBin' = FlTargets /\ flBinList' = flBinList
      /\ \A t \in FlTargets \ {flShown.target} : flBin'[t] = flBin[t]
      /\ flBinAsked' = flBinAsked \cup {flShown.target}
  BY DEF FlBinStep, ListingInv, FlTyped, FlBinInvalidated, FlAskAgain
<1>2. FlBins'
  BY <1>1 DEF ListingInv, FlBins
<1>3. flPatient => flChange = FlNoChange
  BY DEF FlBinStep, FlUserActs, FlWaiting
<1> QED BY <1>1, <1>2, <1>3 DEF FlBinStep, ListingInv, FlTyped

LEMMA BinKeeps ==
    ASSUME ListingInv,
           \/ FlEmptyBin \/ (\E t \in flBinAsked : FlBinListed(t))
           \/ \E item \in flBin[flShown.target] : FlRestore(item) \/ FlDeleteItem(item)
    PROVE  ListingInv'
<1>1. ASSUME NEW items, FlDeleteForGood(items)  PROVE ListingInv'
  <2>1. FlBinStep(items) /\ UNCHANGED <<flHeld, flListing, flAsking, flBehind>>
    BY <1>1 DEF FlDeleteForGood
  <2>2. FlTyped'
    BY <2>1, BinShrinks DEF ListingInv, FlTyped, FlCached
  <2>3. FlTrue' /\ TicksStay' /\ FlSearched'
    BY <2>1, BinShrinks
       DEF ListingInv, FlTrue, FlKeyTrue, FlExcused, TicksStay, FlSearched, flSearch
  <2> QED BY <2>1, <2>2, <2>3, BinShrinks DEF ListingInv
<1>2. ASSUME NEW t \in flBinAsked, FlBinListed(t)  PROVE ListingInv'
  <2>1. /\ UNCHANGED <<flServer, flView, flOps, flSearch, flPatient>>
        /\ flBinAsked' = flBinAsked \ {t} /\ flBinList' = [flBinList EXCEPT ![t] = flBin[t]]
    BY <1>2 DEF FlBinListed
  <2>2. DOMAIN flBinList = FlTargets
    BY DEF ListingInv, FlTyped
  <2>3. FlBins'
    BY <2>1, <2>2 DEF ListingInv, FlBins, flServer
  <2>4. FlTyped' /\ FlTrue' /\ TicksStay' /\ FlSearched'
    BY <2>1, <2>2 DEF ListingInv, FlTyped, FlCached, FlTrue, FlKeyTrue, FlExcused, TicksStay, FlSearched,
       flServer, flView, flOps, flSearch
  <2> QED BY <2>3, <2>4 DEF ListingInv
<1>3. ASSUME NEW item, FlRestore(item)  PROVE ListingInv'
  <2>1. PICK home : home = [flShown EXCEPT !.folder = item[1]]
    OBVIOUS
  <2>2. /\ FlBinStep({item}) /\ FlRefresh
        /\ flHeld' = [flHeld EXCEPT ![home] = @ \cup {item[2]}]
        /\ flBehind' = flBehind \cup ({home} \ {flShown})
    BY <1>3, <2>1 DEF FlRestore
  <2>3. FlTyped'
    BY <2>2, BinShrinks, RefreshMarks DEF ListingInv, FlTyped, FlCached
  <2>4. ASSUME flPatient, NEW k \in FlKeys  PROVE FlKeyTrue(k)'
    <3>0. flShown' = flShown
      BY <2>2, BinShrinks
    <3>1. CASE k[1] = flShown
      BY <2>2, <3>0, <3>1, RefreshMarks DEF FlKeyTrue
    <3>2. CASE k[1] = home /\ k[1] # flShown
      BY <2>2, <3>2 DEF FlKeyTrue, FlExcused
    <3>3. CASE k[1] # home /\ k[1] # flShown
      <4>1. flListing'[k] = flListing[k] /\ flHeld'[k[1]] = flHeld[k[1]] /\ flChange' = flChange
        BY <2>2, <3>3, BinShrinks, RefreshMarks DEF ListingInv, FlTyped, FlKeys
      <4>2. FlExcused(k[1]) => FlExcused(k[1])'
        BY <2>2, <3>0, <4>1 DEF FlExcused
      <4> QED BY <2>4, <4>1, <4>2 DEF ListingInv, FlTrue, FlKeyTrue
    <3> QED BY <3>1, <3>2, <3>3
  <2>5. FlTrue' /\ TicksStay' /\ FlSearched'
    BY <2>2, <2>4, BinShrinks DEF ListingInv, FlTrue, TicksStay, FlSearched, flSearch
  <2> QED BY <2>2, <2>3, <2>5, BinShrinks DEF ListingInv
<1> QED BY <1>1, <1>2, <1>3 DEF FlEmptyBin, FlDeleteItem

LEMMA ListingStep == ListingInv /\ [FlNext]_flVars => ListingInv'
<1> SUFFICES ASSUME ListingInv, [FlNext]_flVars  PROVE ListingInv'
  OBVIOUS
<1>1. CASE UNCHANGED flVars
  BY <1>1 DEF flVars, ListingInv, FlTyped, FlCached, FlTrue, FlKeyTrue, FlExcused, TicksStay, FlSearched,
     FlBins
<1>2. CASE FlNext
  BY <1>2, NavigationKeeps, ListedKeeps, RestKeeps, StartsKeep, CarryKeeps, AnswerKeeps, BinKeeps
     DEF FlNext
<1> QED BY <1>1, <1>2

(* The listing, the ticks, the hits and the bin tell what is there, for any *)
(* set of targets, folders and names: a refresh names the folder shown when *)
(* an answer comes, and that is enough for a user who waits for answers.     *)
THEOREM ListingIsTrue == FlSpec => []ListingTrue
<1>1. ASSUME ListingInv  PROVE ListingTrue
  <2>1. FreshIsTrue
    <3>1. PICK k : k = <<flShown, flOffset>>
      OBVIOUS
    <3>2. k \in FlKeys /\ k[1] = flShown /\ k[2] = flOffset
      BY <1>1, <3>1 DEF FlKeys, ListingInv, FlTyped
    <3> QED BY <1>1, <3>1, <3>2
            DEF ListingInv, FlTrue, FlKeyTrue, FlExcused, FreshIsTrue, FlCurrent
  <2>2. flShown.target \in FlTargets
    BY <1>1 DEF ListingInv, FlTyped, FlPlaces
  <2> QED BY <1>1, <2>1, <2>2 DEF ListingInv, ListingTrue, FlSearched, FlBins, HitsOfTarget, BinListsItsItems
<1> QED BY <1>1, ListingInit, ListingStep, PTL DEF FlSpec

-----------------------------------------------------------------------------
(* Transfers: one run of uploads                                             *)

(* The strengthening: a comparison of names under way has both locks, and     *)
(* no run goes on beside it.                                                  *)
UploadInv ==
    /\ OneUploadRun
    /\ ftBatch # FtNone => ftUploadBusy /\ ftSending = {}

LEMMA UploadInit == FtInit => UploadInv
BY DEF FtInit, UploadInv, OneUploadRun

(* What leaves the upload's own variables alone keeps the invariant.        *)
LEMMA UploadElsewhere ==
  ASSUME UploadInv, UNCHANGED ftUploadVars
  PROVE  UploadInv'
BY DEF UploadInv, OneUploadRun, ftUploadVars

(* Uploads: a run begins only where none is, and a step of a run replaces it. *)
LEMMA DropKeeps ==
  ASSUME UploadInv, NEW names, FtDrop(names)
  PROVE  UploadInv'
<1>1. ~ftUploadBusy
  BY DEF FtDrop, FtDropGuard, FtDropAllowed
<1>2. ftSending = {}
  BY <1>1 DEF UploadInv, OneUploadRun
<1>3. ftSending' = {} /\ ftUploadBusy'
  BY <1>2 DEF FtDrop
<1>4. QED  BY <1>3 DEF UploadInv, OneUploadRun

LEMMA ComparedKeeps ==
  ASSUME UploadInv, FtCompared \/ FtCompareFailed
  PROVE  UploadInv'
<1>1. ftSending = {} /\ ftUploadBusy
  BY DEF FtCompared, FtCompareFailed, UploadInv
<1>2. ftBatch' = FtNone
  BY DEF FtCompared, FtCompareFailed
<1>3. CASE FtCompareFailed
  BY <1>1, <1>2, <1>3 DEF FtCompareFailed, UploadInv, OneUploadRun
<1>4. CASE FtCompared
  <2> DEFINE run == FtRun(ftBatch.site, {<<ftBatch.dir, n>> : n \in ftBatch.names}, {}, {}, "batch")
  <2>1. \/ ftSending' = {run} /\ ftUploadBusy' = ftUploadBusy
        \/ ftSending' = {}
    BY <1>1, <1>4 DEF FtCompared
  <2> HIDE DEF run
  <2>2. QED  BY <1>1, <1>2, <2>1 DEF UploadInv, OneUploadRun
<1>5. QED  BY <1>3, <1>4

LEMMA AnsweredKeeps ==
  ASSUME UploadInv, FtCancelUpload \/ FtSkipConflicts \/ FtOverwriteConflicts
  PROVE  UploadInv'
<1>1. ~ftUploadBusy
  BY DEF FtCancelUpload, FtSkipConflicts, FtOverwriteConflicts, FtDialogReady
<1>2. ftSending = {} /\ ftBatch = FtNone /\ ftBatch' = ftBatch
  BY <1>1 DEF FtCancelUpload, FtSkipConflicts, FtOverwriteConflicts, UploadInv, OneUploadRun
<1>3. ftSending' = {} \/ \E run : ftSending' = {run} /\ ftUploadBusy'
  BY <1>2 DEF FtCancelUpload, FtSkipConflicts, FtOverwriteConflicts
<1>4. QED  BY <1>2, <1>3 DEF UploadInv, OneUploadRun

LEMMA SendKeeps ==
  ASSUME UploadInv, NEW run \in ftSending,
         \/ \E p \in run.dirs : FtSendDelete(run, p)
         \/ \E p \in run.todo : FtSendOne(run, p)
  PROVE  UploadInv'
<1>1. ftUploadBusy /\ ftBatch = FtNone /\ ftSending = {run}
  BY DEF UploadInv, OneUploadRun
<1>2. ftUploadBusy' /\ ftBatch' = FtNone
  BY <1>1 DEF FtSendDelete, FtSendOne
<1>3. \E next : ftSending' = (ftSending \ {run}) \cup {next}
  BY DEF FtSendDelete, FtSendOne
<1>4. \E next : ftSending' = {next}
  BY <1>1, <1>3
<1>5. QED  BY <1>2, <1>4 DEF UploadInv, OneUploadRun

LEMMA SendEndKeeps ==
  ASSUME UploadInv, NEW run \in ftSending, FtSendEnd(run)
  PROVE  UploadInv'
<1>1. ftBatch' = FtNone /\ ftSending' = {}
  BY DEF UploadInv, OneUploadRun, FtSendEnd
<1>2. QED  BY <1>1 DEF UploadInv, OneUploadRun

LEMMA UploadStep == UploadInv /\ [FtNext]_ftVars => UploadInv'
<1> SUFFICES ASSUME UploadInv, [FtNext]_ftVars  PROVE UploadInv'
  OBVIOUS
<1>1. CASE UNCHANGED ftUploadVars
  BY <1>1, UploadElsewhere
<1>2. CASE \E names \in SUBSET FtNames \ {{}} : FtDrop(names)
  BY <1>2, DropKeeps
<1>3. CASE FtCompared \/ FtCompareFailed
  BY <1>3, ComparedKeeps
<1>4. CASE FtCancelUpload \/ FtSkipConflicts \/ FtOverwriteConflicts
  BY <1>4, AnsweredKeeps
<1>5. CASE \E run \in ftSending :
              \/ \E p \in run.dirs : FtSendDelete(run, p)
              \/ \E p \in run.todo : FtSendOne(run, p)
              \/ FtSendEnd(run)
  BY <1>5, SendKeeps, SendEndKeeps
<1>6. \/ \E s \in FtSites : FtSwitchSite(s)
      \/ \E d \in FtDirs : FtOpenFolder(d) \/ FtPaste(d)
      \/ \E p \in FtPaths : \E mode \in {"copy", "cut"} : FtClip(p, mode)
      \/ FtPasteDone \/ FtPasteConflict \/ FtPasteError
      \/ FtPasteSkip \/ FtPasteRename \/ FtPasteOverwrite \/ FtPasteDelete
      \/ UNCHANGED ftVars
      => UNCHANGED ftUploadVars
  BY DEF FtSwitchSite, FtOpenFolder, FtPaste, FtClip, FtPasteDone, FtPasteConflict,
         FtPasteError, FtPasteSkip, FtPasteRename, FtPasteOverwrite, FtPasteDelete,
         ftVars, ftUploadVars
<1>7. QED  BY <1>1, <1>2, <1>3, <1>4, <1>5, <1>6 DEF FtNext

\* ftUploadBusy is released while the conflict dialog waits and every continuation
\* runs in the render it was created in; still no two runs send at once, for
\* every set of sites, folders, names and operations.
THEOREM UploadsOneAtATime == FtSpec => []OneUploadRun
<1>1. UploadInv => OneUploadRun
  BY DEF UploadInv
<1>2. QED  BY <1>1, UploadInit, UploadStep, PTL DEF FtSpec

-----------------------------------------------------------------------------
(* Transfers: what a waiting user keeps                                      *)

FtRecord(r) == r = [site |-> r.site, todo |-> r.todo, dirs |-> r.dirs, asked |-> r.asked, from |-> r.from]
FtGivenUp(s, p) == <<s, p>> \in ftAgreed
FtFree(s, p) == ftStore[s][p] = FtNone

(* A run replaces only what was given up; what is compared or asked about   *)
(* is of the site shown, and nothing else goes on beside it.                 *)
FtRunSafe(run) ==
    /\ FtRecord(run)
    /\ \A p \in run.dirs : FtGivenUp(run.site, p)
    /\ \A p \in run.todo : p \in FtPaths /\ run.site \in FtSites => FtFree(run.site, p) \/ FtGivenUp(run.site, p)
FtAlone ==
    /\ ftBatch # FtNone => ftSending = {} /\ ftPaste = FtNone /\ ~FtDialog /\ ftBatch.site = ftSite
    /\ ftUploadDlg # FtNone =>
          ftBatch = FtNone /\ ftSending = {} /\ ftPaste = FtNone /\ ftPasteDlg = FtNone
    /\ ftPasteDlg # FtNone => ftBatch = FtNone /\ ftSending = {} /\ ftPaste = FtNone
    /\ ftPaste # FtNone => ftBatch = FtNone /\ ftSending = {}
FtAskedSafely ==
    ftUploadDlg # FtNone =>
        /\ ftUploadDlg.site = ftSite
        /\ ftUploadDlg.dirs \subseteq ftUploadDlg.taken
        /\ \A p \in ftUploadDlg.free : p \in FtPaths /\ ftSite \in FtSites => FtFree(ftSite, p)

(* The source of a cut and the target of an overwrite were given up; until  *)
(* the paste has an answer the clipboard is the one it began with.           *)
FtPasteSafe ==
    ftPaste # FtNone =>
        /\ {"phase", "from", "to", "site", "mode"} \subseteq DOMAIN ftPaste
        /\ ftPaste.site \in FtSites /\ ftPaste.from \in FtPaths
        /\ ftPaste.mode = "cut" => FtGivenUp(ftPaste.site, ftPaste.from)
        /\ ftPaste.phase = "delete" => FtGivenUp(ftPaste.site, ftPaste.to)
        /\ ftPaste.phase = "try" => /\ ftPaste.site = ftSite
                                    /\ ftClipboard # FtNone /\ ftClipboard.mode = ftPaste.mode
FtPasteAsked ==
    ftPasteDlg # FtNone =>
        /\ ftPasteDlg.site = ftSite
        /\ ftPasteDlg.from \in FtPaths
        /\ ftClipboard # FtNone /\ ftClipboard.mode = "cut" => FtGivenUp(ftSite, ftPasteDlg.from)

TransferInv ==
    /\ ftSite \in FtSites
    /\ ftWaits => /\ ftStore \in [FtSites -> [FtPaths -> FtItem \cup {FtNone}]]
                  /\ \A run \in ftSending : FtRunSafe(run)
                  /\ FtAlone /\ FtAskedSafely /\ FtPasteSafe /\ FtPasteAsked

LEMMA TransferInit == FtInit => TransferInv
<1> SUFFICES ASSUME FtInit PROVE TransferInv
  OBVIOUS
<1>1. ftStore \in [FtSites -> [FtPaths -> FtItem \cup {FtNone}]]
  BY DEF FtInit, FtItem, FtFirstItem
<1> QED BY <1>1 DEF FtInit, TransferInv, FtAlone, FtAskedSafely, FtPasteSafe, FtPasteAsked, FtDialog

(* What leaves the files and what was given up alone, and begins nothing.   *)
LEMMA SameStore ==
    ASSUME TransferInv, UNCHANGED <<ftServerVars, ftWaits>>, ftSite' \in FtSites,
           ftWaits => /\ ftSending' \subseteq ftSending
                      /\ FtAlone' /\ FtAskedSafely' /\ FtPasteSafe' /\ FtPasteAsked'
    PROVE  TransferInv'
<1>1. \A run : FtRunSafe(run) => FtRunSafe(run)'
  BY DEF FtRunSafe, FtRecord, FtGivenUp, FtFree, ftServerVars
<1> QED BY <1>1 DEF TransferInv, ftServerVars

LEMMA ShownKeeps ==
    ASSUME TransferInv, (\E s \in FtSites : FtSwitchSite(s)) \/ (\E d \in FtDirs : FtOpenFolder(d))
    PROVE  TransferInv'
<1>1. /\ UNCHANGED <<ftServerVars, ftUploadVars, ftPasteVars, ftOps, ftWaits>> /\ ftSite' \in FtSites
      /\ ftWaits => FtIdle /\ ~FtDialog
  BY DEF FtSwitchSite, FtOpenFolder, FtCovered, TransferInv
<1>2. ftWaits => FtAlone' /\ FtAskedSafely' /\ FtPasteSafe' /\ FtPasteAsked'
  BY <1>1 DEF FtAlone, FtAskedSafely, FtPasteSafe, FtPasteAsked, FtIdle, FtDialog,
     ftUploadVars, ftPasteVars
<1> QED BY <1>1, <1>2, SameStore DEF ftUploadVars

LEMMA DropIsSafe ==
    ASSUME TransferInv, NEW names, FtDrop(names)
    PROVE  TransferInv'
<1>1. /\ UNCHANGED <<ftStore, ftSite, ftFolder, ftSending, ftUploadDlg, ftPasteVars, ftWaits>>
      /\ ftBatch' = [site |-> ftSite, dir |-> ftFolder, names |-> names]
      /\ ftWaits => FtIdle /\ ~FtDialog
  BY DEF FtDrop
<1>2. ftBatch'.site = ftSite
  BY <1>1
<1>3. ftWaits => FtAlone' /\ FtAskedSafely' /\ FtPasteSafe' /\ FtPasteAsked'
  BY <1>1, <1>2 DEF FtAlone, FtAskedSafely, FtPasteSafe, FtPasteAsked, FtIdle, FtDialog, ftPasteVars
<1> QED BY <1>1, <1>3 DEF TransferInv, FtIdle

LEMMA ComparedIsSafe ==
    ASSUME TransferInv, FtCompared \/ FtCompareFailed
    PROVE  TransferInv'
<1>1. /\ UNCHANGED <<ftSite, ftServerVars, ftPasteVars, ftWaits>> /\ ftBatch # FtNone /\ ftBatch' = FtNone
  BY DEF FtCompared, FtCompareFailed
<1>2. ftWaits => /\ ftSending = {} /\ ftPaste = FtNone /\ ftUploadDlg = FtNone /\ ftPasteDlg = FtNone
                 /\ ftBatch.site = ftSite
  BY <1>1 DEF TransferInv, FtAlone, FtDialog
<1>3. ftSite \in FtSites
  BY DEF TransferInv
<1>4. CASE FtCompareFailed
  <2>1. UNCHANGED <<ftSending, ftUploadDlg>>
    BY <1>4 DEF FtCompareFailed
  <2>2. ftWaits => FtAlone' /\ FtAskedSafely' /\ FtPasteSafe' /\ FtPasteAsked'
    BY <1>1, <1>2, <2>1 DEF FtAlone, FtAskedSafely, FtPasteSafe, FtPasteAsked, FtDialog, ftPasteVars
  <2> QED BY <1>1, <1>3, <2>1, <2>2, SameStore
<1>5. CASE FtCompared
  <2>1. PICK found : found = FtConflicts(ftBatch.site, ftBatch.dir, ftBatch.names)
    OBVIOUS
  <2>2. PICK all : all = {<<ftBatch.dir, x>> : x \in ftBatch.names}
    OBVIOUS
  <2>3. PICK taken : taken = {<<ftBatch.dir, x>> : x \in found}
    OBVIOUS
  <2>4. \/ /\ found = {}
           /\ ftSending' = ftSending \cup {FtRun(ftBatch.site, all, {}, {}, "batch")}
           /\ UNCHANGED ftUploadDlg
        \/ /\ found # {}
           /\ ftUploadDlg' = [free |-> all \ taken, taken |-> taken, site |-> ftBatch.site,
                              dirs |-> {p \in taken : ftStore[ftBatch.site][p] = "folder"}]
           /\ UNCHANGED ftSending
    BY <1>5, <2>1, <2>2, <2>3 DEF FtCompared
  <2>5. \A p \in all \ taken : FtFree(ftBatch.site, p)
    BY <2>1, <2>2, <2>3 DEF FtConflicts, FtTaken, FtFree
  <2>6. CASE /\ found = {}
             /\ ftSending' = ftSending \cup {FtRun(ftBatch.site, all, {}, {}, "batch")}
             /\ UNCHANGED ftUploadDlg
    <3>1. PICK run : run = FtRun(ftBatch.site, all, {}, {}, "batch")
      OBVIOUS
    <3>2. FtRunSafe(run)'
      BY <1>1, <2>3, <2>5, <2>6, <3>1 DEF FtRunSafe, FtRecord, FtRun, FtFree, ftServerVars
    <3>3. ftWaits => \A r \in ftSending' : FtRunSafe(r)'
      BY <1>2, <2>6, <3>1, <3>2
    <3>4. ftWaits => FtAlone' /\ FtAskedSafely' /\ FtPasteSafe' /\ FtPasteAsked'
      BY <1>1, <1>2, <2>6 DEF FtAlone, FtAskedSafely, FtPasteSafe, FtPasteAsked, FtDialog, ftPasteVars
    <3> QED BY <1>1, <3>3, <3>4 DEF TransferInv, ftServerVars
  <2>7. CASE /\ UNCHANGED ftSending
             /\ ftUploadDlg' = [free |-> all \ taken, taken |-> taken, site |-> ftBatch.site,
                                dirs |-> {p \in taken : ftStore[ftBatch.site][p] = "folder"}]
    <3>1. /\ ftUploadDlg'.free = all \ taken /\ ftUploadDlg'.site = ftBatch.site
          /\ ftUploadDlg'.dirs \subseteq ftUploadDlg'.taken
      BY <2>7
    <3>2. ftWaits => FtAskedSafely'
      BY <1>1, <1>2, <2>5, <3>1 DEF FtAskedSafely, FtFree, ftServerVars
    <3>3. ftWaits => FtAlone' /\ FtPasteSafe' /\ FtPasteAsked'
      BY <1>1, <1>2, <2>7 DEF FtAlone, FtPasteSafe, FtPasteAsked, FtDialog, ftPasteVars
    <3> QED BY <1>1, <1>3, <2>7, <3>2, <3>3, SameStore
  <2> QED BY <2>4, <2>6, <2>7
<1> QED BY <1>4, <1>5

LEMMA AnswerIsSafe ==
    ASSUME TransferInv, FtCancelUpload \/ FtSkipConflicts \/ FtOverwriteConflicts
    PROVE  TransferInv'
<1>1. /\ UNCHANGED <<ftStore, ftSite, ftBatch, ftPasteVars, ftWaits>>
      /\ ftUploadDlg # FtNone /\ ftUploadDlg' = FtNone
  BY DEF FtCancelUpload, FtSkipConflicts, FtOverwriteConflicts, FtDialogReady, ftServerVars
<1>2. ftWaits => ftBatch = FtNone /\ ftSending = {} /\ ftPaste = FtNone /\ ftPasteDlg = FtNone /\ FtAskedSafely
  BY <1>1 DEF TransferInv, FtAlone
<1>3. ftWaits => FtAlone' /\ FtAskedSafely' /\ FtPasteSafe' /\ FtPasteAsked'
  BY <1>1, <1>2 DEF FtAlone, FtAskedSafely, FtPasteSafe, FtPasteAsked, FtDialog, ftPasteVars
<1>4. ASSUME ftWaits, NEW run \in ftSending'  PROVE FtRunSafe(run)'
  <2>1. CASE FtCancelUpload
    BY <1>2, <1>4, <2>1 DEF FtCancelUpload
  <2>2. CASE FtSkipConflicts
    <3>1. run = FtRun(ftSite, ftUploadDlg.free, {}, {}, "dialog")
      BY <1>2, <1>4, <2>2 DEF FtSkipConflicts, FtSkippedRun, FtSkipItems
    <3> QED BY <1>1, <1>2, <1>4, <3>1 DEF FtRunSafe, FtRecord, FtRun, FtAskedSafely, FtFree
  <2>3. CASE FtOverwriteConflicts
    <3>1. /\ run = FtRun(ftSite, ftUploadDlg.free \cup ftUploadDlg.taken, ftUploadDlg.dirs,
                         ftUploadDlg.taken, "dialog")
          /\ ftAgreed' = ftAgreed \cup {<<ftUploadDlg.site, p>> : p \in ftUploadDlg.taken}
      BY <1>2, <1>4, <2>3 DEF FtOverwriteConflicts
    <3>2. \A p \in ftUploadDlg.taken : FtGivenUp(ftSite, p)'
      BY <1>1, <1>2, <1>4, <3>1 DEF FtAskedSafely, FtGivenUp
    <3> QED BY <1>1, <1>2, <1>4, <3>1, <3>2 DEF FtRunSafe, FtRecord, FtRun, FtAskedSafely, FtFree
  <2> QED BY <2>1, <2>2, <2>3
<1> QED BY <1>1, <1>3, <1>4 DEF TransferInv

(* One file at a place of a site; the others stay.                          *)
LEMMA PlaceChanges ==
    ASSUME ftStore \in [FtSites -> [FtPaths -> FtItem \cup {FtNone}]], NEW s, NEW p,
           NEW item \in FtItem \cup {FtNone}, ftStore' = [ftStore EXCEPT ![s][p] = item]
    PROVE  /\ ftStore' \in [FtSites -> [FtPaths -> FtItem \cup {FtNone}]]
           /\ \A t \in FtSites, q \in FtPaths :
                 ftStore'[t][q] = IF t = s /\ q = p THEN item ELSE ftStore[t][q]
OBVIOUS

LEMMA SendIsSafe ==
    ASSUME TransferInv, ftWaits, OneUploadRun, NEW run \in ftSending,
           \/ \E p \in run.dirs : FtSendDelete(run, p)
           \/ \E p \in run.todo : FtSendOne(run, p)
           \/ FtSendEnd(run)
    PROVE  TransferInv'
<1>1. UNCHANGED <<ftSite, ftAgreed, ftBatch, ftUploadDlg, ftPasteVars, ftWaits>>
  BY DEF FtSendDelete, FtSendOne, FtSendEnd, ftServerVars
<1>2. ftSending = {run}
  BY DEF OneUploadRun
<1>3. ftWaits => FtAlone' /\ FtAskedSafely' /\ FtPasteSafe' /\ FtPasteAsked'
  BY <1>1, <1>2 DEF TransferInv, FtAlone, FtAskedSafely, FtPasteSafe, FtPasteAsked, FtDialog, ftPasteVars
<1>4. CASE FtSendEnd(run)
  BY <1>3, <1>4, SameStore DEF FtSendEnd, TransferInv
<1>5. ASSUME NEW p \in run.dirs, FtSendDelete(run, p)  PROVE TransferInv'
  <2>1. PICK next : next = [run EXCEPT !.dirs = @ \ {p}]
    OBVIOUS
  <2>2. ftStore' = [ftStore EXCEPT ![run.site][p] = FtNone] /\ ftSending' = {next}
    BY <1>2, <1>5, <2>1 DEF FtSendDelete
  <2>3. /\ ftStore' \in [FtSites -> [FtPaths -> FtItem \cup {FtNone}]]
        /\ \A t \in FtSites, q \in FtPaths : FtFree(t, q) => FtFree(t, q)'
    BY <2>2, PlaceChanges DEF TransferInv, FtFree
  <2>4. ftWaits => FtRunSafe(next)'
    <3>1. ftWaits => FtRunSafe(run)
      BY DEF TransferInv
    <3>2. FtRecord(run) => /\ next.site = run.site /\ next.todo = run.todo /\ next.dirs = run.dirs \ {p}
                           /\ FtRecord(next)
      BY <2>1 DEF FtRecord
    <3> QED BY <1>1, <2>3, <3>1, <3>2 DEF FtRunSafe, FtGivenUp, FtRecord
  <2> QED BY <1>1, <1>3, <2>2, <2>3, <2>4 DEF TransferInv
<1>6. ASSUME NEW p \in run.todo, FtSendOne(run, p)  PROVE TransferInv'
  <2>1. PICK next : next = [run EXCEPT !.todo = @ \ {p}]
    OBVIOUS
  <2>2. ftStore' \in {ftStore, [ftStore EXCEPT ![run.site][p] = "sent"]} /\ ftSending' = {next}
    BY <1>2, <1>6, <2>1 DEF FtSendOne
  <2>3. /\ ftStore' \in [FtSites -> [FtPaths -> FtItem \cup {FtNone}]]
        /\ \A t \in FtSites, q \in FtPaths : FtFree(t, q) /\ q # p => FtFree(t, q)'
    BY <2>2, PlaceChanges DEF TransferInv, FtFree, FtItem
  <2>4. ftWaits => FtRunSafe(next)'
    <3>1. ftWaits => FtRunSafe(run)
      BY DEF TransferInv
    <3>2. FtRecord(run) => /\ next.site = run.site /\ next.todo = run.todo \ {p} /\ next.dirs = run.dirs
                           /\ FtRecord(next)
      BY <2>1 DEF FtRecord
    <3> QED BY <1>1, <2>3, <3>1, <3>2 DEF FtRunSafe, FtGivenUp, FtRecord
  <2> QED BY <1>1, <1>3, <2>2, <2>3, <2>4 DEF TransferInv
<1> QED BY <1>4, <1>5, <1>6

LEMMA ClipIsSafe ==
    ASSUME TransferInv, \E p \in FtPaths : \E mode \in {"copy", "cut"} : FtClip(p, mode)
    PROVE  TransferInv'
<1>1. /\ UNCHANGED <<ftStore, ftSite, ftUploadVars, ftPaste, ftPasteDlg, ftWaits>>
      /\ ftWaits => FtIdle /\ ~FtDialog
  BY DEF FtClip, FtCovered
<1> QED BY <1>1 DEF TransferInv, FtAlone, FtAskedSafely, FtPasteSafe, FtPasteAsked, FtDialog, FtIdle, ftUploadVars

(* What the clipboard holds was copied or cut from a folder.                *)
FtClipKnown == ftClipboard # FtNone => ftClipboard.path \in FtPaths

LEMMA ClipKnownStep == FtClipKnown /\ [FtNext]_ftVars => FtClipKnown'
<1> SUFFICES ASSUME FtClipKnown, [FtNext]_ftVars  PROVE FtClipKnown'
  OBVIOUS
<1>1. ASSUME NEW p \in FtPaths, NEW mode, FtClip(p, mode)  PROVE FtClipKnown'
  BY <1>1 DEF FtClip, FtClipKnown
<1> QED BY <1>1 DEF FtClipKnown, FtNext, FtSwitchSite, FtOpenFolder, FtPaste, FtDrop, FtCompared,
           FtCompareFailed, FtCancelUpload, FtSkipConflicts, FtOverwriteConflicts, FtSendDelete, FtSendOne,
           FtSendEnd, FtPasteDone, FtPasteDelete, FtPasteConflict, FtPasteError, FtPasteSkip,
           FtPasteRename, FtPasteOverwrite, ftVars, ftPasteVars

LEMMA PasteIsSafe ==
    ASSUME TransferInv, FtClipKnown, NEW d, FtPaste(d)
    PROVE  TransferInv'
<1>1. /\ UNCHANGED <<ftStore, ftSite, ftUploadVars, ftClipboard, ftPasteDlg, ftWaits>>
      /\ ftWaits => FtIdle /\ ~FtDialog /\ ftClipboard.site = ftSite
      /\ ftClipboard # FtNone
      /\ ftPaste' = [phase |-> "try", from |-> ftClipboard.path, site |-> ftSite,
                     to |-> <<d, ftClipboard.path[2]>>, mode |-> ftClipboard.mode]
      /\ (IF ftClipboard.mode = "cut" THEN {<<ftClipboard.site, ftClipboard.path>>} ELSE {}) \subseteq ftAgreed'
  BY DEF FtPaste, FtCovered, FtStartOp
<1>2. /\ ftPaste'.phase = "try" /\ ftPaste'.site = ftSite /\ ftPaste'.mode = ftClipboard.mode
      /\ ftPaste'.from = ftClipboard.path /\ {"phase", "from", "to", "site", "mode"} \subseteq DOMAIN ftPaste'
  BY <1>1
<1>3. ftWaits => FtPasteSafe'
  BY <1>1, <1>2 DEF FtPasteSafe, FtGivenUp, FtClipKnown, TransferInv
<1> QED BY <1>1, <1>3 DEF TransferInv, FtAlone, FtAskedSafely, FtPasteAsked, FtDialog, FtIdle, ftUploadVars

LEMMA PasteAnswersAreSafe ==
    ASSUME TransferInv,
           FtPasteConflict \/ FtPasteError \/ FtPasteSkip \/ FtPasteRename \/ FtPasteOverwrite
    PROVE  TransferInv'
<1>1. UNCHANGED <<ftStore, ftSite, ftUploadVars, ftClipboard, ftWaits>> /\ ftSite \in FtSites
  BY DEF FtPasteConflict, FtPasteError, FtPasteSkip, FtPasteRename, FtPasteOverwrite, ftServerVars,
     TransferInv
<1>2. CASE FtPasteConflict
  <2>1. /\ ftPaste # FtNone /\ ftPaste' = FtNone /\ ftPaste.phase = "try" /\ UNCHANGED ftServerVars
        /\ ftPasteDlg' = [from |-> ftPaste.from, to |-> ftPaste.to, site |-> ftPaste.site]
    BY <1>2 DEF FtPasteConflict
  <2>2. ftPasteDlg'.from = ftPaste.from /\ ftPasteDlg'.site = ftPaste.site
    BY <2>1
  <2>3. ftWaits => ftBatch = FtNone /\ ftSending = {} /\ ftUploadDlg = FtNone /\ FtPasteSafe
    BY <2>1 DEF TransferInv, FtAlone
  <2>4. ftWaits => FtPasteAsked'
    BY <1>1, <2>1, <2>2, <2>3 DEF FtPasteAsked, FtPasteSafe, FtGivenUp, ftServerVars
  <2>5. ftWaits => FtAlone' /\ FtAskedSafely' /\ FtPasteSafe'
    BY <1>1, <2>1, <2>3 DEF FtAlone, FtAskedSafely, FtPasteSafe, FtDialog, ftUploadVars
  <2> QED BY <1>1, <2>1, <2>4, <2>5, SameStore DEF ftUploadVars
<1>3. CASE FtPasteError \/ FtPasteSkip
  <2>1. /\ UNCHANGED ftServerVars /\ ftPaste' \in {ftPaste, FtNone} /\ ftPasteDlg' \in {ftPasteDlg, FtNone}
    BY <1>3 DEF FtPasteError, FtPasteSkip
  <2>2. ftWaits => FtAlone' /\ FtAskedSafely' /\ FtPasteSafe' /\ FtPasteAsked'
    BY <1>1, <2>1 DEF TransferInv, FtAlone, FtAskedSafely, FtPasteSafe, FtPasteAsked, FtDialog, ftUploadVars,
       FtGivenUp, FtFree, ftServerVars
  <2> QED BY <1>1, <2>1, <2>2, SameStore DEF ftUploadVars
<1>4. CASE FtPasteRename \/ FtPasteOverwrite
  <2>1. PICK phase \in {"transfer", "delete"} : \E to :
          /\ ftPaste' = FtAnswered(phase, to)
          /\ phase = "delete" => /\ to = ftPasteDlg.to
                                 /\ ftAgreed' = ftAgreed \cup {<<ftPasteDlg.site, ftPasteDlg.to>>}
          /\ ftPasteDlg # FtNone /\ ftPasteDlg' = FtNone /\ ftAgreed \subseteq ftAgreed'
    BY <1>4 DEF FtPasteRename, FtPasteOverwrite, ftServerVars
  <2>2. PICK to :
          /\ ftPaste' = FtAnswered(phase, to)
          /\ phase = "delete" => /\ to = ftPasteDlg.to
                                 /\ ftAgreed' = ftAgreed \cup {<<ftPasteDlg.site, ftPasteDlg.to>>}
          /\ ftPasteDlg # FtNone /\ ftPasteDlg' = FtNone /\ ftAgreed \subseteq ftAgreed'
    BY <2>1
  <2>3. /\ ftPaste'.phase = phase /\ ftPaste'.from = ftPasteDlg.from /\ ftPaste'.to = to
        /\ ftPaste'.site = ftSite
        /\ ftPaste'.mode = IF ftClipboard = FtNone THEN "copy" ELSE ftClipboard.mode
        /\ {"phase", "from", "to", "site", "mode"} \subseteq DOMAIN ftPaste'
    BY <2>2 DEF FtAnswered
  <2>4. ftWaits => /\ ftBatch = FtNone /\ ftSending = {} /\ ftUploadDlg = FtNone
                   /\ FtPasteAsked
    BY <2>2 DEF TransferInv, FtAlone
  <2>5. ftWaits => FtPasteSafe'
    BY <1>1, <2>2, <2>3, <2>4 DEF FtPasteSafe, FtPasteAsked, FtGivenUp
  <2>6. ftWaits => FtAlone' /\ FtAskedSafely' /\ FtPasteAsked' /\ ftSending' = {}
    BY <1>1, <2>2, <2>4 DEF FtAlone, FtAskedSafely, FtPasteAsked, FtDialog, ftUploadVars
  <2> QED BY <1>1, <2>5, <2>6 DEF TransferInv
<1> QED BY <1>2, <1>3, <1>4

LEMMA PasteWorks ==
    ASSUME TransferInv, ftWaits, FtPasteDone \/ FtPasteDelete
    PROVE  TransferInv'
<1>1. /\ ftPaste # FtNone /\ UNCHANGED <<ftSite, ftAgreed, ftUploadVars, ftPasteDlg, ftWaits>>
  BY DEF FtPasteDone, FtPasteDelete, FtTransferred
<1>2. ftWaits => ftBatch = FtNone /\ ftSending = {} /\ ftUploadDlg = FtNone /\ ftPasteDlg = FtNone /\ FtPasteSafe
  BY <1>1 DEF TransferInv, FtAlone
<1>3. ftStore' \in [FtSites -> [FtPaths -> FtItem \cup {FtNone}]]
  <2>1. CASE FtPasteDelete
    BY <2>1, PlaceChanges DEF TransferInv, FtPasteDelete
  <2>2. CASE FtPasteDone
    <3>1. PICK item : item = ftStore[ftPaste.site][ftPaste.from]
      OBVIOUS
    <3>2. /\ ftPaste.site \in FtSites /\ ftPaste.from \in FtPaths
          /\ ftStore \in [FtSites -> [FtPaths -> FtItem \cup {FtNone}]]
      BY <1>1, <1>2 DEF TransferInv, FtPasteSafe
    <3>3. item \in FtItem \cup {FtNone}
      BY <3>1, <3>2
    <3>4. ftStore' = [ftStore EXCEPT ![ftPaste.site][ftPaste.to] = item,
                            ![ftPaste.site][ftPaste.from] = IF ftPaste.mode = "cut" THEN FtNone ELSE @]
      BY <2>2, <3>1 DEF FtPasteDone, FtTransferred
    <3>5. CASE ftPaste.to \in FtPaths
      BY <3>2, <3>3, <3>4, <3>5
    <3>6. CASE ftPaste.to \notin FtPaths
      <4>1. ftStore' = [ftStore EXCEPT ![ftPaste.site][ftPaste.from] =
                                      IF ftPaste.mode = "cut" THEN FtNone ELSE @]
        BY <3>2, <3>4, <3>6
      <4> QED BY <3>2, <4>1
    <3> QED BY <3>5, <3>6
  <2> QED BY <2>1, <2>2
<1>4. ftWaits => FtPasteSafe'
  <2>1. CASE FtPasteDone
    BY <2>1 DEF FtPasteDone, FtPasteSafe
  <2>2. CASE FtPasteDelete
    <3>1. ftPaste' = [ftPaste EXCEPT !.phase = "transfer"]
      BY <2>2 DEF FtPasteDelete
    <3>2. ASSUME ftWaits
          PROVE  /\ ftPaste'.phase = "transfer" /\ ftPaste'.from = ftPaste.from /\ ftPaste'.site = ftPaste.site
                 /\ ftPaste'.mode = ftPaste.mode /\ DOMAIN ftPaste' = DOMAIN ftPaste
      BY <1>1, <1>2, <3>1, <3>2 DEF FtPasteSafe
    <3> QED BY <1>1, <1>2, <3>2 DEF FtPasteSafe, FtGivenUp
  <2> QED BY <2>1, <2>2
<1>5. ftWaits => FtAlone' /\ FtAskedSafely' /\ FtPasteAsked' /\ ftSending' = {}
  BY <1>1, <1>2 DEF FtAlone, FtAskedSafely, FtPasteAsked, FtDialog, ftUploadVars
<1> QED BY <1>1, <1>3, <1>4, <1>5 DEF TransferInv

LEMMA TransferStep == TransferInv /\ FtClipKnown /\ UploadInv /\ [FtNext]_ftVars => TransferInv'
<1> SUFFICES ASSUME TransferInv, FtClipKnown, UploadInv, [FtNext]_ftVars  PROVE TransferInv'
  OBVIOUS
<1>0. CASE ~ftWaits
  <2>1. ftWaits' = ftWaits /\ ftSite' \in FtSites
    BY DEF TransferInv, FtNext, FtSwitchSite, FtOpenFolder, FtPaste, FtDrop, FtCompared, FtCompareFailed,
           FtCancelUpload, FtSkipConflicts, FtOverwriteConflicts, FtSendDelete, FtSendOne, FtSendEnd, FtClip,
           FtPasteDone, FtPasteDelete, FtPasteConflict, FtPasteError, FtPasteSkip, FtPasteRename,
           FtPasteOverwrite, ftVars
  <2> QED BY <1>0, <2>1 DEF TransferInv
<1>1. CASE UNCHANGED ftVars
  BY <1>1, SameStore DEF ftVars, ftServerVars, TransferInv, FtAlone, FtAskedSafely, FtPasteSafe, FtPasteAsked,
     FtDialog, FtGivenUp, FtFree
<1>2. CASE ftWaits /\ FtNext
  BY <1>2, ShownKeeps, DropIsSafe, ComparedIsSafe, AnswerIsSafe, SendIsSafe, ClipIsSafe, PasteIsSafe,
     PasteAnswersAreSafe, PasteWorks DEF FtNext, UploadInv
<1> QED BY <1>0, <1>1, <1>2

FtKeeps == ftWaits => \A s \in FtSites, p \in FtPaths :
             ftStore[s][p] # FtNone /\ ftStore'[s][p] # ftStore[s][p] => <<s, p>> \in ftAgreed'

LEMMA StepKeepsItems == TransferInv /\ [FtNext]_ftVars => FtKeeps
<1> SUFFICES ASSUME TransferInv, [FtNext]_ftVars, ftWaits, NEW s \in FtSites, NEW p \in FtPaths,
                    ftStore[s][p] # FtNone, ftStore'[s][p] # ftStore[s][p]
             PROVE  <<s, p>> \in ftAgreed'
  BY DEF FtKeeps
<1>0. ftStore \in [FtSites -> [FtPaths -> FtItem \cup {FtNone}]]
  BY DEF TransferInv
<1>1. ASSUME NEW run \in ftSending, NEW q \in run.dirs, FtSendDelete(run, q)  PROVE <<s, p>> \in ftAgreed'
  <2>1. ftStore' = [ftStore EXCEPT ![run.site][q] = FtNone] /\ ftAgreed' = ftAgreed
    BY <1>1 DEF FtSendDelete
  <2>2. s = run.site /\ p = q
    BY <1>0, <2>1, PlaceChanges
  <2> QED BY <2>1, <2>2 DEF TransferInv, FtRunSafe, FtGivenUp
<1>2. ASSUME NEW run \in ftSending, NEW q \in run.todo, FtSendOne(run, q)  PROVE <<s, p>> \in ftAgreed'
  <2>1. ftStore' = [ftStore EXCEPT ![run.site][q] = "sent"] /\ ftAgreed' = ftAgreed
    BY <1>2 DEF FtSendOne
  <2>2. s = run.site /\ p = q
    BY <1>0, <2>1, PlaceChanges DEF FtItem
  <2> QED BY <2>1, <2>2 DEF TransferInv, FtRunSafe, FtGivenUp, FtFree
<1>3. ASSUME FtPasteDelete  PROVE <<s, p>> \in ftAgreed'
  <2>1. ftStore' = [ftStore EXCEPT ![ftPaste.site][ftPaste.to] = FtNone] /\ ftAgreed' = ftAgreed
    BY <1>3 DEF FtPasteDelete
  <2>2. s = ftPaste.site /\ p = ftPaste.to
    BY <1>0, <2>1, PlaceChanges
  <2> QED BY <1>3, <2>1, <2>2 DEF TransferInv, FtPasteDelete, FtPasteSafe, FtGivenUp
<1>4. ASSUME FtPasteDone  PROVE <<s, p>> \in ftAgreed'
  <2>1. FtTransferred /\ ftPaste # FtNone
    BY <1>4 DEF FtPasteDone
  <2>2. s = ftPaste.site /\ p = ftPaste.from /\ ftPaste.mode = "cut"
    BY <1>0, <2>1 DEF FtTransferred
  <2> QED BY <2>1, <2>2 DEF FtTransferred, TransferInv, FtPasteSafe, FtGivenUp
<1>5. ASSUME UNCHANGED ftStore PROVE FALSE
  BY <1>5
<1> QED BY <1>1, <1>2, <1>3, <1>4, <1>5
        DEF FtNext, FtSwitchSite, FtOpenFolder, FtPaste, FtDrop, FtCompared, FtCompareFailed,
            FtCancelUpload, FtSkipConflicts, FtOverwriteConflicts, FtSendEnd, FtClip,
            FtPasteConflict, FtPasteError, FtPasteSkip, FtPasteRename, FtPasteOverwrite,
            ftServerVars, ftVars

(* Whoever waits for one operation before the next loses nothing at a place *)
(* he did not give up, for every set of sites, folders and names and any     *)
(* number of uploads, pastes and answers in the dialogs.                     *)
THEOREM ItemsOutliveTransfers == FtSpec => WaitingKeepsItems
<1>0. FtInit => FtClipKnown
  BY DEF FtInit, FtClipKnown
<1>1. FtSpec => [](TransferInv /\ FtClipKnown /\ UploadInv)
  BY <1>0, TransferInit, UploadInit, ClipKnownStep, TransferStep, UploadStep, PTL DEF FtSpec
<1>2. TransferInv /\ [FtNext]_ftVars => [FtKeeps]_ftVars
  BY StepKeepsItems
<1>3. FtSpec => [][FtKeeps]_ftVars
  BY <1>1, <1>2, PTL DEF FtSpec
<1> QED BY <1>3 DEF WaitingKeepsItems, FtKeeps

-----------------------------------------------------------------------------
(* Editor: the k-th index of a set, and the first tab of a file              *)

LEMMA LeastNat ==
    ASSUME NEW T \in SUBSET Nat, T # {}
    PROVE  \E x \in T : \A y \in T : x <= y
<1> DEFINE R == {p \in Nat \X Nat : p[1] < p[2]}
<1>1. IsWellFoundedOn(R, Nat)
  <2>1. R = OpToRel(<, Nat)
    BY DEF OpToRel
  <2> QED BY <2>1, NatLessThanWellFounded
<1>2. PICK x \in T : \A y \in T : <<y, x>> \notin R
  <2> HIDE DEF R
  <2> QED BY <1>1, WFMin
<1>3. ASSUME NEW y \in T PROVE x <= y
  <2>1. <<y, x>> \notin R /\ x \in Nat /\ y \in Nat
    BY <1>2
  <2> QED BY <2>1
<1> QED BY <1>3

EdBelow(K, i) == {j \in K : j < i}

(* A finite set of numbers has a k-th one for every k up to its size.       *)
LEMMA NthIsThere ==
    ASSUME NEW K \in SUBSET Nat, IsFiniteSet(K), NEW k \in 1..Cardinality(K)
    PROVE  EdNth(K, k) \in K
<1> DEFINE Lost == {n \in 1..Cardinality(K) : ~\E i \in K : Cardinality(EdBelow(K, i)) = n - 1}
<1>0. Cardinality(K) \in Nat
  BY FS_CardinalityType
<1>1. Lost = {}
  <2> SUFFICES ASSUME Lost # {} PROVE FALSE
    OBVIOUS
  <2>0. Lost \in SUBSET Nat /\ Lost # {}
    BY <1>0
  <2>1. PICK n \in Lost : \A other \in Lost : n <= other
    <3> HIDE DEF Lost
    <3> QED BY <2>0, LeastNat
  <2>2. n \in 1..Cardinality(K) /\ \A i \in K : Cardinality(EdBelow(K, i)) # n - 1
    OBVIOUS
  <2>3. CASE n = 1
    <3>1. K # {}
      BY <1>0, <2>2, FS_EmptySet
    <3>2. PICK i \in K : \A j \in K : i <= j
      BY <3>1, LeastNat
    <3>3. EdBelow(K, i) = {}
      <4>1. \A j \in K : ~(j < i)
        <5>1. \A j \in K : j \in Nat
          OBVIOUS
        <5> QED BY <3>2, <5>1
      <4> QED BY <4>1 DEF EdBelow
    <3> QED BY <2>2, <2>3, <3>3, FS_EmptySet
  <2>4. CASE n # 1
    <3>1. n - 1 \in 1..Cardinality(K) /\ n - 1 \notin Lost
      BY <1>0, <2>1, <2>2, <2>4
    <3>2. PICK i \in K : Cardinality(EdBelow(K, i)) = n - 1 - 1
      BY <3>1
    <3> DEFINE A == EdBelow(K, i) \cup {i}
    <3>3. IsFiniteSet(EdBelow(K, i)) /\ i \notin EdBelow(K, i)
      BY FS_Subset DEF EdBelow
    <3>4. Cardinality(A) = n - 1 /\ IsFiniteSet(A)
      BY <1>0, <2>2, <3>2, <3>3, FS_AddElement
    <3>5. K \ A # {}
      <4>1. A \subseteq K
        BY DEF EdBelow
      <4>2. A # K
        <5> HIDE DEF A
        <5> QED BY <1>0, <2>2, <3>4
      <4> QED BY <4>1, <4>2
    <3>6. PICK next \in K \ A : \A other \in K \ A : next <= other
      <4>1. K \ A \in SUBSET Nat
        OBVIOUS
      <4> HIDE DEF A
      <4> QED BY <3>5, <4>1, LeastNat
    <3>7. EdBelow(K, next) = A
      <4>1. \A j \in K : j \in Nat
        OBVIOUS
      <4>2. \A j \in K : j < next <=> j < i \/ j = i
        BY <3>6, <4>1 DEF EdBelow
      <4> QED BY <4>2 DEF EdBelow
    <3> QED BY <2>2, <3>4, <3>6, <3>7
  <2> QED BY <2>3, <2>4
<1>2. \E i \in K : Cardinality(EdBelow(K, i)) = k - 1
  BY <1>1
<1> QED BY <1>2 DEF EdNth, EdBelow

LEMMA OnlyIsSeq ==
    ASSUME NEW S, NEW ts \in Seq(S), NEW K \in SUBSET (DOMAIN ts)
    PROVE  /\ IsFiniteSet(K) /\ Cardinality(K) \in Nat
           /\ EdOnly(ts, K) \in Seq(S)
           /\ \A k \in 1..Cardinality(K) : EdNth(K, k) \in K
<1>1. DOMAIN ts = 1..Len(ts) /\ Len(ts) \in Nat
  OBVIOUS
<1>2. IsFiniteSet(1..Len(ts))
  BY <1>1, FS_Interval
<1>3. IsFiniteSet(K) /\ Cardinality(K) \in Nat
  BY <1>1, <1>2, FS_Subset, FS_CardinalityType
<1>4. K \in SUBSET Nat
  BY <1>1
<1>5. \A k \in 1..Cardinality(K) : EdNth(K, k) \in K
  BY <1>3, <1>4, NthIsThere
<1>6. \A k \in 1..Cardinality(K) : ts[EdNth(K, k)] \in S
  BY <1>1, <1>5
<1> QED BY <1>3, <1>5, <1>6 DEF EdOnly

LEMMA FirstTabIsOne ==
    ASSUME NEW ts \in Seq(EdEditorTab), NEW f
    PROVE  IF \E j \in 1..Len(ts) : ts[j].path = f
           THEN EdFirstTab(ts, f) \in 1..Len(ts) /\ ts[EdFirstTab(ts, f)].path = f
           ELSE EdFirstTab(ts, f) = 0
<1> DEFINE T == {j \in 1..Len(ts) : ts[j].path = f}
<1>1. EdFirstTab(ts, f) = IF T # {} THEN Min(T) ELSE 0
  BY DEF EdFirstTab, SelectInSeq
<1>2. CASE T # {}
  <2>0. T \in SUBSET Nat
    OBVIOUS
  <2>1. PICK x \in T : \A y \in T : x <= y
    <3> HIDE DEF T
    <3> QED BY <1>2, <2>0, LeastNat
  <2>2. Min(T) \in T
    BY <2>1 DEF Min
  <2> QED BY <1>1, <1>2, <2>2
<1>3. CASE T = {}
  BY <1>1, <1>3
<1> QED BY <1>2, <1>3

-----------------------------------------------------------------------------
(* Editor: texts stay with their files                                       *)

EdOwnTab == {tab \in EdEditorTab : tab.content.of = tab.path /\ tab.original.of = tab.path}
EdOwnSave == {s \in [idx : Nat, path : EdFiles, content : EdText] : s.content.of = s.path}
EdCreatingType ==
    \/ edCreating = EdNotCreating
    \/ edCreating \in [phase : {"post"}, file : EdFiles]
    \/ edCreating \in [phase : {"list"}, file : EdFiles, seen : Seq(EdOwnTab)]
EdSavingAllType ==
    \/ edSavingAll = EdNotSavingAll
    \/ edSavingAll \in [phase : {"write"}, next : Nat \ {0}, todo : Seq(EdOwnTab), idx : Seq(Nat)]

(* The strengthening: what is written, or seen by the page that waits to     *)
(* open a created file, is a tab's path with a text of that path.            *)
OwnInv ==
    /\ edDisk \in [EdFiles -> {EdAbsent} \cup EdText]
    /\ \A f \in EdFiles : edDisk[f] # EdAbsent => edDisk[f] \in EdText /\ edDisk[f].of = f
    /\ edTabs \in Seq(EdOwnTab)
    /\ edActiveTab \in Nat
    /\ edOpenSeq \in Nat
    /\ edReads \subseteq [seq : Nat, file : EdFiles]
    /\ edSaves \subseteq EdOwnSave
    /\ EdCreatingType /\ EdSavingAllType

LEMMA OwnInit == EdInit => OwnInv
BY MaxTextAssumption DEF EdInit, OwnInv, EdText, EdCreatingType, EdSavingAllType

LEMMA OpenKeepsOwn ==
    ASSUME OwnInv, NEW f \in EdFiles, NEW seen \in Seq(EdOwnTab), EdOpenFile(f, seen)
    PROVE  /\ edTabs' \in Seq(EdOwnTab) /\ edActiveTab' \in Nat /\ edOpenSeq' \in Nat
           /\ edReads' \subseteq [seq : Nat, file : EdFiles]
<1>1. PICK i : i = EdFirstTab(seen, f)
  OBVIOUS
<1>2. i \in Nat
  BY <1>1, FirstTabIsOne DEF EdOwnTab
<1>3. [path |-> f, content |-> EdEmptyText(f), original |-> EdEmptyText(f), loading |-> TRUE] \in EdOwnTab
  BY MaxTextAssumption DEF EdOwnTab, EdEditorTab, EdEmptyText, EdText
<1>4. \A tab \in EdOwnTab : [tab EXCEPT !.loading = TRUE] \in EdOwnTab
  BY DEF EdOwnTab, EdEditorTab
<1>5. edActiveTab' \in Nat /\ edOpenSeq' \in Nat /\ edReads' \subseteq [seq : Nat, file : EdFiles]
  BY <1>1, <1>2 DEF EdOpenFile, EdAskToRead, OwnInv
<1>6. edTabs' \in Seq(EdOwnTab)
  <2>1. CASE i = 0
    BY <1>1, <1>3, <2>1 DEF EdOpenFile, OwnInv
  <2>2. CASE i # 0
    BY <1>1, <1>4, <2>2 DEF EdOpenFile, OwnInv
  <2> QED BY <2>1, <2>2
<1> QED BY <1>5, <1>6

LEMMA OwnStep == OwnInv /\ [EdNext]_edVars => OwnInv'
<1> SUFFICES ASSUME OwnInv, [EdNext]_edVars  PROVE OwnInv'
  OBVIOUS
<1> USE DEF OwnInv
<1>0. CASE UNCHANGED edVars
  BY <1>0 DEF edVars, EdCreatingType, EdSavingAllType
<1>1. ASSUME NEW f \in EdFiles, EdOpenByHand(f)  PROVE OwnInv'
  BY <1>1, OpenKeepsOwn DEF EdOpenByHand, EdCreatingType, EdSavingAllType
<1>2. ASSUME NEW f \in EdFiles, EdCreateFile(f)  PROVE OwnInv'
  BY <1>2 DEF EdCreateFile, EdCreatingType, EdSavingAllType
<1>3. ASSUME NEW r \in edReads, EdReadAnswer(r)  PROVE OwnInv'
  <2>1. r.file \in EdFiles /\ edDisk[r.file] \in EdText /\ edDisk[r.file].of = r.file
    BY <1>3 DEF EdReadAnswer
  <2>2. PICK tab : tab = [path |-> r.file, loading |-> FALSE, content |-> edDisk[r.file],
                          original |-> edDisk[r.file]]
    OBVIOUS
  <2>3. tab \in EdOwnTab
    <3>1. tab.content.of = tab.path /\ tab.original.of = tab.path
      BY <2>1, <2>2
    <3>2. tab \in EdEditorTab
      BY <2>1, <2>2 DEF EdEditorTab
    <3> QED BY <3>1, <3>2 DEF EdOwnTab
  <2>4. PICK i : edTabs' \in {edTabs, [edTabs EXCEPT ![i] = tab]}
    BY <1>3, <2>2 DEF EdReadAnswer
  <2>5. edTabs' \in Seq(EdOwnTab)
    <3>1. edTabs \in [1..Len(edTabs) -> EdOwnTab] /\ Len(edTabs) \in Nat
      OBVIOUS
    <3>2. edTabs' \in [1..Len(edTabs) -> EdOwnTab]
      BY <2>3, <2>4, <3>1
    <3> QED BY <3>1, <3>2
  <2> QED BY <1>3, <2>5 DEF EdReadAnswer, EdCreatingType, EdSavingAllType
<1>4. ASSUME NEW r \in edReads, EdReadSuperseded(r)  PROVE OwnInv'
  BY <1>4 DEF EdReadSuperseded, EdCreatingType, EdSavingAllType
<1>5. ASSUME NEW r \in edReads, EdReadError(r)  PROVE OwnInv'
  <2>1. PICK K \in SUBSET (DOMAIN edTabs) : edTabs' = EdOnly(edTabs, K)
    BY <1>5 DEF EdReadError, EdTabsAfterError
  <2>2. edTabs' \in Seq(EdOwnTab)
    BY <2>1, OnlyIsSeq
  <2> QED BY <1>5, <2>2 DEF EdReadError, EdCreatingType, EdSavingAllType
<1>6. CASE EdCreated
  <2>1. edCreating \in [phase : {"post"}, file : EdFiles]
    BY <1>6 DEF EdCreated, EdCreatingType, EdNotCreating
  <2>2. EdEmptyText(edCreating.file) \in EdText /\ EdEmptyText(edCreating.file).of = edCreating.file
    BY <2>1, MaxTextAssumption DEF EdEmptyText, EdText
  <2>3. EdCreatingType'
    BY <1>6, <2>1 DEF EdCreated, EdCreatingType
  <2>4. /\ edDisk' \in [EdFiles -> {EdAbsent} \cup EdText]
        /\ \A f \in EdFiles : edDisk'[f] # EdAbsent => edDisk'[f] \in EdText /\ edDisk'[f].of = f
    BY <1>6, <2>1, <2>2 DEF EdCreated
  <2> QED BY <1>6, <2>3, <2>4 DEF EdCreated, EdSavingAllType
<1>7. CASE EdOpenCreated
  <2>1. edCreating \in [phase : {"list"}, file : EdFiles, seen : Seq(EdOwnTab)]
    BY <1>7 DEF EdOpenCreated, EdCreatingType, EdNotCreating
  <2>2. PICK f \in EdFiles, seen \in Seq(EdOwnTab) : EdOpenFile(f, seen)
    BY <1>7, <2>1 DEF EdOpenCreated
  <2> QED BY <1>7, <2>2, OpenKeepsOwn DEF EdOpenCreated, EdCreatingType, EdSavingAllType
<1>8. ASSUME NEW i \in DOMAIN edTabs, EdSelectTab(i)  PROVE OwnInv'
  BY <1>8 DEF EdSelectTab, EdCreatingType, EdSavingAllType
<1>9. ASSUME NEW v \in 1..EdMaxText, EdType(v)  PROVE OwnInv'
  <2>1. edActiveTab \in DOMAIN edTabs /\ edTabs[edActiveTab] \in EdOwnTab
    BY <1>9 DEF EdType, EdShown
  <2>2. PICK tab : tab = [edTabs[edActiveTab] EXCEPT !.content = [of |-> edTabs[edActiveTab].path, v |-> v]]
    OBVIOUS
  <2>0. edTabs[edActiveTab] \in EdEditorTab /\ edTabs[edActiveTab].original.of = edTabs[edActiveTab].path
    BY <2>1 DEF EdOwnTab
  <2>3. tab \in EdOwnTab
    <3>1. [of |-> edTabs[edActiveTab].path, v |-> v] \in EdText
      BY <2>0, MaxTextAssumption DEF EdEditorTab, EdText
    <3>2. tab \in EdEditorTab /\ tab.path = edTabs[edActiveTab].path
      BY <2>0, <2>2, <3>1 DEF EdEditorTab
    <3>3. tab.content.of = tab.path /\ tab.original.of = tab.path
      BY <2>0, <2>2 DEF EdEditorTab
    <3> QED BY <3>2, <3>3 DEF EdOwnTab
  <2>4. edTabs' = [edTabs EXCEPT ![edActiveTab] = tab]
    BY <1>9, <2>1, <2>2 DEF EdType
  <2>5. edTabs' \in Seq(EdOwnTab)
    <3>1. edTabs \in [1..Len(edTabs) -> EdOwnTab] /\ Len(edTabs) \in Nat
      OBVIOUS
    <3>2. edTabs' \in [1..Len(edTabs) -> EdOwnTab]
      BY <2>3, <2>4, <3>1
    <3> QED BY <3>1, <3>2
  <2> QED BY <1>9, <2>5 DEF EdType, EdCreatingType, EdSavingAllType
<1>10. CASE EdSaveOne
  <2>1. edActiveTab \in DOMAIN edTabs /\ edTabs[edActiveTab] \in EdOwnTab
    BY <1>10 DEF EdSaveOne, EdShown
  <2>2. [idx |-> edActiveTab, path |-> edTabs[edActiveTab].path,
         content |-> edTabs[edActiveTab].content] \in EdOwnSave
    BY <2>1 DEF EdOwnTab, EdEditorTab, EdOwnSave
  <2> QED BY <1>10, <2>2 DEF EdSaveOne, EdTabsOnSave, EdTabsWhileSaving, EdCreatingType, EdSavingAllType
<1>11. CASE EdSaveAll
  <2>1. PICK K \in SUBSET (DOMAIN edTabs) :
          edSavingAll' = [phase |-> "write", next |-> 1, todo |-> EdOnly(edTabs, K),
                          idx |-> [k \in 1..Cardinality(K) |-> EdNth(K, k)]]
    BY <1>11 DEF EdSaveAll
  <2>2. /\ EdOnly(edTabs, K) \in Seq(EdOwnTab) /\ Cardinality(K) \in Nat
        /\ \A k \in 1..Cardinality(K) : EdNth(K, k) \in Nat
    BY OnlyIsSeq
  <2>3. [k \in 1..Cardinality(K) |-> EdNth(K, k)] \in Seq(Nat)
    BY <2>2
  <2>4. EdSavingAllType'
    BY <2>1, <2>2, <2>3 DEF EdSavingAllType
  <2> QED BY <1>11, <2>4 DEF EdSaveAll, EdCreatingType
<1>12. CASE EdSaveAllWrite
  <2>1. edSavingAll \in [phase : {"write"}, next : Nat \ {0}, todo : Seq(EdOwnTab), idx : Seq(Nat)]
    BY <1>12 DEF EdSaveAllWrite, EdSavingAllType, EdNotSavingAll
  <2>2. PICK tab \in EdOwnTab : tab = edSavingAll.todo[edSavingAll.next]
    BY <1>12, <2>1 DEF EdSaveAllWrite
  <2>3. edDisk' \in {edDisk, [edDisk EXCEPT ![tab.path] = tab.content]}
    BY <1>12, <2>2 DEF EdSaveAllWrite, EdCaptured
  <2>4. tab.path \in EdFiles /\ tab.content \in EdText /\ tab.content.of = tab.path
    BY DEF EdOwnTab, EdEditorTab
  <2>5. /\ edDisk' \in [EdFiles -> {EdAbsent} \cup EdText]
        /\ \A f \in EdFiles : edDisk'[f] # EdAbsent => edDisk'[f] \in EdText /\ edDisk'[f].of = f
    BY <2>3, <2>4
  <2>6. edSavingAll' \in {EdNotSavingAll, [edSavingAll EXCEPT !.next = @ + 1]}
    BY <1>12 DEF EdSaveAllWrite
  <2>7. EdSavingAllType'
    BY <2>1, <2>6 DEF EdSavingAllType
  <2> QED BY <1>12, <2>5, <2>7 DEF EdSaveAllWrite, EdCreatingType
<1> DEFINE Marked(tab) == [tab EXCEPT !.original = tab.content]
<1>13. \A tab \in EdOwnTab : Marked(tab) \in EdOwnTab
  BY DEF EdOwnTab, EdEditorTab
<1>14. CASE EdSaveAllDone
  <2>1. edTabs' = [i \in DOMAIN edTabs |-> Marked(edTabs[i])]
    BY <1>14 DEF EdSaveAllDone
  <2>2. edTabs' \in Seq(EdOwnTab)
    BY <1>13, <2>1
  <2> QED BY <1>14, <2>2 DEF EdSaveAllDone, EdCreatingType, EdSavingAllType
<1>15. ASSUME NEW s \in edSaves, EdSaveAnswer(s)  PROVE OwnInv'
  <2>1. s.path \in EdFiles /\ s.content \in EdText /\ s.content.of = s.path
    BY DEF EdOwnSave
  <2>2. /\ edDisk' \in [EdFiles -> {EdAbsent} \cup EdText]
        /\ \A f \in EdFiles : edDisk'[f] # EdAbsent => edDisk'[f] \in EdText /\ edDisk'[f].of = f
    BY <1>15, <2>1 DEF EdSaveAnswer
  <2>3. edTabs' = edTabs \/ \E i \in DOMAIN edTabs : edTabs' = [edTabs EXCEPT ![i] = Marked(edTabs[i])]
    BY <1>15 DEF EdSaveAnswer, EdMarkedSaved
  <2>4. edTabs' \in Seq(EdOwnTab)
    BY <1>13, <2>3
  <2> QED BY <1>15, <2>2, <2>4 DEF EdSaveAnswer, EdCreatingType, EdSavingAllType
<1>16. CASE EdCloseEditor
  BY <1>16 DEF EdCloseEditor, EdCreatingType, EdSavingAllType
<1> QED BY <1>0, <1>1, <1>2, <1>3, <1>4, <1>5, <1>6, <1>7, <1>8, <1>9, <1>10, <1>11, <1>12, <1>14, <1>15, <1>16
        DEF EdNext

(* The text on the server and in a tab was typed for its own file, or read   *)
(* from it, for every set of files, number of texts and number of reads.     *)
THEOREM TextsStayWithTheirFiles == EdSpec => []OwnText
<1>1. OwnInv => OwnText
  BY DEF OwnInv, OwnText, EdOwnTab
<1> QED BY <1>1, OwnInit, OwnStep, PTL DEF EdSpec

-----------------------------------------------------------------------------
(* Editor: a calm session                                                    *)

EdNoCurrentRead == \A r \in edReads : r.seq # edOpenSeq
EdSaveOf(tab) == [idx |-> 1, path |-> tab.path, content |-> tab.content]

(* No tab: nothing is read for one or written.                              *)
EdAtRest ==
    /\ edTabs = <<>> /\ edSaves = {} /\ edSavingAll = EdNotSavingAll
    /\ EdNoCurrentRead
    /\ edCreating.phase = "list" => edCreating.seen = <<>>

EdLoads(tab) ==
    /\ tab.loading /\ edSaves = {} /\ edSavingAll = EdNotSavingAll
    /\ \E r \in edReads : r.seq = edOpenSeq
    /\ \A r \in edReads : r.seq = edOpenSeq => r.file = tab.path

(* What is written is the tab's text, by saveOne or by saveAllM.            *)
EdRests(tab) ==
    /\ ~tab.loading /\ EdNoCurrentRead
    /\ \/ /\ edSavingAll = EdNotSavingAll
          /\ edSaves \subseteq {EdSaveOf(tab)}
          /\ edDisk[tab.path] = tab.original
       \/ /\ edSavingAll.phase = "write" /\ edSavingAll.todo = <<tab>>
          /\ edSaves = {}
          /\ \/ edSavingAll.next = 1 /\ edDisk[tab.path] = tab.original
             \/ edSavingAll.next = 2 /\ edDisk[tab.path] = tab.content

EdOneTab(tab) ==
    /\ edTabs = <<tab>> /\ edEditorOpen /\ edCreating = EdNotCreating
    /\ EdLoads(tab) \/ EdRests(tab)

(* The strengthening: a calm session has at most one tab, which is read or   *)
(* written by what belongs to it.                                            *)
CalmInv ==
    /\ \A r \in edReads : r.seq <= edOpenSeq
    /\ edCalm => EdAtRest \/ \E tab \in EdOwnTab : EdOneTab(tab)

LEMMA CalmInit == EdInit => CalmInv
BY DEF EdInit, CalmInv, EdAtRest, EdNoCurrentRead, EdNotCreating

LEMMA ReadsStayBehind == OwnInv /\ CalmInv /\ [EdNext]_edVars => \A r \in edReads' : r.seq <= edOpenSeq'
<1> SUFFICES ASSUME OwnInv, CalmInv, [EdNext]_edVars  PROVE \A r \in edReads' : r.seq <= edOpenSeq'
  OBVIOUS
<1>1. edOpenSeq \in Nat /\ (\A r \in edReads : r.seq \in Nat /\ r.seq <= edOpenSeq)
  BY DEF OwnInv, CalmInv
<1>2. ASSUME NEW f, NEW seen, EdOpenFile(f, seen)  PROVE \A r \in edReads' : r.seq <= edOpenSeq'
  BY <1>1, <1>2 DEF EdOpenFile, EdAskToRead
<1> QED BY <1>1, <1>2 DEF EdNext, edVars, EdOpenByHand, EdCreateFile, EdReadAnswer, EdReadSuperseded,
           EdReadError, EdCreated, EdOpenCreated, EdSelectTab, EdType, EdSaveOne, EdSaveAll, EdSaveAllWrite,
           EdSaveAllDone, EdSaveAnswer, EdCloseEditor

LEMMA OpensTheOnlyTab ==
    ASSUME OwnInv, CalmInv, EdAtRest, NEW f \in EdFiles, EdOpenFile(f, <<>>),
           edSaves' = edSaves, edSavingAll' = edSavingAll, edCreating' = EdNotCreating
    PROVE  \E tab \in EdOwnTab : EdOneTab(tab)'
<1>1. PICK none \in Seq(EdEditorTab) : none = <<>>
  <2>1. <<>> \in Seq(EdEditorTab)
    OBVIOUS
  <2> QED BY <2>1
<1>2. PICK i : i = EdFirstTab(none, f)
  OBVIOUS
<1>3. i = 0
  <2>1. Len(none) = 0
    BY <1>1
  <2>2. ~\E j \in 1..Len(none) : none[j].path = f
    BY <2>1
  <2>3. EdFirstTab(none, f) = 0
    BY <2>2, FirstTabIsOne
  <2> QED BY <1>2, <2>3
<1>4. PICK tab : tab = [path |-> f, content |-> EdEmptyText(f), original |-> EdEmptyText(f), loading |-> TRUE]
  OBVIOUS
<1>5. tab \in EdOwnTab /\ tab.loading /\ tab.path = f
  BY <1>4, MaxTextAssumption DEF EdOwnTab, EdEditorTab, EdEmptyText, EdText
<1>6. edEditorOpen' /\ edTabs' = Append(edTabs, tab) /\ EdAskToRead(f)
  BY <1>1, <1>2, <1>3, <1>4 DEF EdOpenFile
<1>7. edTabs' = <<tab>>
  BY <1>6 DEF EdAtRest
<1>8. edOpenSeq \in Nat /\ (\A r \in edReads : r.seq \in Nat /\ r.seq <= edOpenSeq)
  BY DEF OwnInv, CalmInv
<1>9. PICK read : read = [seq |-> edOpenSeq + 1, file |-> f]
  OBVIOUS
<1>10. edReads' = edReads \cup {read} /\ edOpenSeq' = edOpenSeq + 1 /\ read.seq = edOpenSeq + 1 /\ read.file = f
  BY <1>6, <1>9 DEF EdAskToRead
<1>11. EdLoads(tab)'
  BY <1>5, <1>8, <1>10 DEF EdLoads, EdAtRest
<1> QED BY <1>5, <1>6, <1>7, <1>11 DEF EdOneTab

LEMMA RestStep ==
    ASSUME OwnInv, CalmInv, EdAtRest, edCalm, EdNext
    PROVE  EdAtRest' \/ \E tab \in EdOwnTab : EdOneTab(tab)'
<1>1. edTabs = <<>> /\ DOMAIN edTabs = {} /\ edSavingAll.phase # "write"
  BY DEF EdAtRest, EdNotSavingAll
<1>2. ASSUME NEW f \in EdFiles, EdOpenByHand(f)  PROVE \E tab \in EdOwnTab : EdOneTab(tab)'
  BY <1>1, <1>2, OpensTheOnlyTab DEF EdOpenByHand, EdWaitsFor
<1>3. ASSUME EdOpenCreated  PROVE \E tab \in EdOwnTab : EdOneTab(tab)'
  <2>1. edCreating.file \in EdFiles /\ edCreating.seen = <<>>
    BY <1>3 DEF EdOpenCreated, OwnInv, EdCreatingType, EdNotCreating, EdAtRest
  <2>2. PICK f \in EdFiles : EdOpenFile(f, <<>>)
    BY <1>3, <2>1 DEF EdOpenCreated
  <2> QED BY <1>3, <2>2, OpensTheOnlyTab DEF EdOpenCreated
<1>4. ASSUME NEW f \in EdFiles, EdCreateFile(f)  PROVE EdAtRest'
  BY <1>4 DEF EdCreateFile, EdAtRest, EdNoCurrentRead
<1>5. ASSUME EdCreated  PROVE EdAtRest'
  <2>1. edCreating' = EdNotCreating \/ edCreating' = [phase |-> "list", file |-> edCreating.file, seen |-> edTabs]
    BY <1>5 DEF EdCreated
  <2> QED BY <1>5, <2>1 DEF EdCreated, EdAtRest, EdNoCurrentRead, EdNotCreating
<1>6. ASSUME NEW r \in edReads, EdReadAnswer(r) \/ EdReadError(r)  PROVE FALSE
  BY <1>6 DEF EdReadAnswer, EdReadError, EdAtRest, EdNoCurrentRead
<1>7. ASSUME NEW r \in edReads, EdReadSuperseded(r)  PROVE EdAtRest'
  BY <1>7 DEF EdReadSuperseded, EdAtRest, EdNoCurrentRead
<1>8. ~EdSaveOne /\ ~EdSaveAll /\ ~EdSaveAllWrite /\ ~EdSaveAllDone /\ ~EdCloseEditor
  BY <1>1 DEF EdSaveOne, EdSaveAll, EdSaveAllWrite, EdSaveAllDone, EdCloseEditor, EdShown
<1>9. \A v : ~EdType(v)
  BY <1>1 DEF EdType, EdShown
<1> QED BY <1>1, <1>2, <1>3, <1>4, <1>5, <1>6, <1>7, <1>8, <1>9 DEF EdNext, EdAtRest

LEMMA LoadingStep ==
    ASSUME OwnInv, CalmInv, edCalm, NEW tab \in EdOwnTab, EdOneTab(tab), EdLoads(tab), EdNext
    PROVE  EdAtRest' \/ \E next \in EdOwnTab : EdOneTab(next)'
<1>1. /\ edTabs = <<tab>> /\ DOMAIN edTabs = {1} /\ edTabs[1] = tab /\ Len(edTabs) = 1
      /\ edTabs # <<>> /\ edEditorOpen /\ edCreating = EdNotCreating /\ tab.loading
      /\ edSaves = {} /\ edSavingAll = EdNotSavingAll /\ edSavingAll.phase # "write"
      /\ edCreating.phase # "list" /\ edCreating.phase # "post"
  BY DEF EdOneTab, EdLoads, EdNotSavingAll, EdNotCreating
<1>2. edReads \subseteq [seq : Nat, file : EdFiles] /\ tab \in EdEditorTab
  BY DEF OwnInv, EdOwnTab
<1>3. ASSUME NEW r \in edReads, EdReadAnswer(r)  PROVE \E next \in EdOwnTab : EdOneTab(next)'
  <2>1. r.file = tab.path /\ r.seq = edOpenSeq /\ r.file \in EdFiles
        /\ edDisk[r.file] \in EdText /\ edDisk[r.file].of = r.file
    BY <1>2, <1>3 DEF EdReadAnswer, EdLoads, OwnInv
  <2>2. PICK next : next = [path |-> r.file, loading |-> FALSE, content |-> edDisk[r.file],
                            original |-> edDisk[r.file]]
    OBVIOUS
  <2>3. /\ next \in EdEditorTab /\ ~next.loading /\ next.path = r.file /\ next.original = edDisk[r.file]
        /\ next.content = edDisk[r.file]
    BY <2>1, <2>2 DEF EdEditorTab
  <2>4. PICK ts \in Seq(EdEditorTab) : ts = edTabs
    BY <1>1, <1>2
  <2>5. EdFirstTab(edTabs, r.file) = 1
    <3>1. Len(ts) = 1 /\ ts[1].path = r.file
      BY <1>1, <2>1, <2>4
    <3>2. EdFirstTab(ts, r.file) = 1
      BY <3>1, FirstTabIsOne
    <3> QED BY <2>4, <3>2
  <2>6. edTabs' = [edTabs EXCEPT ![1] = next]
    BY <1>3, <2>2, <2>5 DEF EdReadAnswer
  <2>7. edTabs' = <<next>>
    BY <1>1, <2>6
  <2>8. \A q \in edReads' : q.seq # edOpenSeq
    <3>1. \A q \in edReads : q.seq = edOpenSeq => q = r
      BY <1>2, <2>1 DEF EdLoads
    <3> QED BY <1>3, <3>1 DEF EdReadAnswer
  <2>9. EdRests(next)'
    BY <1>1, <1>3, <2>3, <2>8 DEF EdReadAnswer, EdRests, EdNoCurrentRead
  <2>10. next \in EdOwnTab
    BY <2>1, <2>3 DEF EdOwnTab
  <2> QED BY <1>1, <1>3, <2>7, <2>9, <2>10 DEF EdReadAnswer, EdOneTab
<1>4. ASSUME NEW r \in edReads, EdReadSuperseded(r)  PROVE EdOneTab(tab)'
  BY <1>1, <1>4 DEF EdReadSuperseded, EdOneTab, EdLoads
<1>5. ASSUME NEW r \in edReads, EdReadError(r)  PROVE EdAtRest'
  <2>1. r.file = tab.path /\ r.seq = edOpenSeq
    BY <1>5 DEF EdReadError, EdLoads
  <2>2. edTabs' = EdOnly(edTabs, {})
    BY <1>1, <1>5, <2>1 DEF EdReadError, EdTabsAfterError
  <2>3. edTabs' = <<>>
    BY <2>2, FS_EmptySet DEF EdOnly
  <2>4. \A q \in edReads' : q.seq # edOpenSeq
    <3>1. \A q \in edReads : q.seq = edOpenSeq => q = r
      BY <1>2, <2>1 DEF EdLoads
    <3> QED BY <1>5, <3>1 DEF EdReadError
  <2> QED BY <1>1, <1>5, <2>3, <2>4 DEF EdReadError, EdAtRest, EdNoCurrentRead
<1>6. ASSUME NEW i \in DOMAIN edTabs, EdSelectTab(i)  PROVE EdOneTab(tab)'
  BY <1>1, <1>6 DEF EdSelectTab, EdOneTab, EdLoads
<1>7. CASE EdCloseEditor
  <2>1. EdAtRest'
    BY <1>1, <1>7 DEF EdCloseEditor, EdAtRest, EdNoCurrentRead
  <2> QED BY <2>1
<1>8. ~EdSaveOne /\ ~EdSaveAll /\ ~EdSaveAllWrite /\ ~EdSaveAllDone /\ ~EdCreated /\ ~EdOpenCreated
  BY <1>1 DEF EdSaveOne, EdSaveAll, EdSaveAllWrite, EdSaveAllDone, EdCreated, EdOpenCreated, EdShown
<1>9. (\A v : ~EdType(v)) /\ (\A f : ~EdOpenByHand(f) /\ ~EdCreateFile(f))
  <2>1. edActiveTab \in DOMAIN edTabs => edActiveTab = 1
    BY <1>1
  <2>2. ASSUME NEW v, EdType(v) PROVE FALSE
    BY <1>1, <2>1, <2>2 DEF EdType, EdShown
  <2>3. ASSUME NEW f, EdOpenByHand(f) \/ EdCreateFile(f) PROVE FALSE
    BY <1>1, <2>3 DEF EdOpenByHand, EdCreateFile
  <2> QED BY <2>2, <2>3
<1> QED BY <1>1, <1>3, <1>4, <1>5, <1>6, <1>7, <1>8, <1>9 DEF EdNext

LEMMA TheOnlyOne == ASSUME NEW tab PROVE EdOnly(<<tab>>, {1}) = <<tab>>
<1>1. Cardinality({1}) = 1 /\ IsFiniteSet({1})
  BY FS_Singleton
<1>2. EdNth({1}, 1) \in {1}
  <2>1. {1} \in SUBSET Nat /\ 1 \in 1..Cardinality({1})
    BY <1>1
  <2> QED BY <1>1, <2>1, NthIsThere
<1>3. EdOnly(<<tab>>, {1}) = [k \in 1..1 |-> <<tab>>[EdNth({1}, k)]]
  BY <1>1 DEF EdOnly
<1> QED BY <1>2, <1>3

LEMMA RestingStep ==
    ASSUME OwnInv, CalmInv, edCalm, NEW tab \in EdOwnTab, EdOneTab(tab), EdRests(tab), EdNext
    PROVE  EdAtRest' \/ \E next \in EdOwnTab : EdOneTab(next)'
<1>1. /\ edTabs = <<tab>> /\ DOMAIN edTabs = {1} /\ edTabs[1] = tab /\ Len(edTabs) = 1
      /\ edTabs # <<>> /\ edEditorOpen /\ edCreating = EdNotCreating /\ ~tab.loading
      /\ edCreating.phase # "list" /\ edCreating.phase # "post" /\ EdNoCurrentRead
  BY DEF EdOneTab, EdRests, EdNotCreating
<1>2. /\ tab \in EdEditorTab /\ tab.path \in EdFiles /\ tab.content.of = tab.path /\ tab.original.of = tab.path
      /\ edDisk \in [EdFiles -> {EdAbsent} \cup EdText]
  BY DEF OwnInv, EdOwnTab, EdEditorTab
<1>3. PICK mark : mark = [tab EXCEPT !.original = tab.content]
  OBVIOUS
<1>4. /\ mark \in EdOwnTab /\ ~mark.loading /\ mark.path = tab.path /\ mark.content = tab.content
      /\ mark.original = tab.content
  <2>1. mark \in EdEditorTab /\ ~mark.loading /\ mark.path = tab.path /\ mark.content = tab.content
        /\ mark.original = tab.content
    BY <1>1, <1>2, <1>3 DEF EdEditorTab
  <2> QED BY <1>2, <2>1 DEF EdOwnTab
<1>5. EdMarkedSaved(1) = <<mark>>
  BY <1>1, <1>3 DEF EdMarkedSaved
<1>6. ASSUME NEW r \in edReads, EdReadAnswer(r) \/ EdReadError(r)  PROVE FALSE
  BY <1>1, <1>6 DEF EdReadAnswer, EdReadError, EdNoCurrentRead
<1>7. ASSUME NEW r \in edReads, EdReadSuperseded(r)  PROVE EdOneTab(tab)'
  BY <1>1, <1>7 DEF EdReadSuperseded, EdOneTab, EdRests, EdNoCurrentRead
<1>8. ASSUME NEW i \in DOMAIN edTabs, EdSelectTab(i)  PROVE EdOneTab(tab)'
  BY <1>1, <1>8 DEF EdSelectTab, EdOneTab, EdRests, EdNoCurrentRead
<1>9. CASE EdCloseEditor
  <2>1. ~EdSaving /\ edReads' \subseteq edReads /\ UNCHANGED edOpenSeq /\ edTabs' = <<>>
    BY <1>9 DEF EdCloseEditor, EdWaitsFor
  <2>2. EdAtRest'
    BY <1>1, <1>9, <2>1 DEF EdCloseEditor, EdAtRest, EdNoCurrentRead, EdSaving
  <2> QED BY <2>2
<1>10. ASSUME NEW v \in 1..EdMaxText, EdType(v)  PROVE \E next \in EdOwnTab : EdOneTab(next)'
  <2>1. ~EdSaving /\ edActiveTab = 1
    BY <1>1, <1>10 DEF EdType, EdWaitsFor, EdShown
  <2>2. PICK next : next = [tab EXCEPT !.content = [of |-> tab.path, v |-> v]]
    OBVIOUS
  <2>3. [of |-> tab.path, v |-> v] \in EdText
    BY <1>2, MaxTextAssumption DEF EdText
  <2>4. next \in EdEditorTab /\ ~next.loading /\ next.path = tab.path /\ next.original = tab.original
        /\ next.content = [of |-> tab.path, v |-> v]
    BY <1>1, <1>2, <2>2, <2>3 DEF EdEditorTab
  <2>5. next \in EdOwnTab
    BY <1>2, <2>4 DEF EdOwnTab
  <2>6. edTabs' = <<next>>
    BY <1>1, <1>10, <2>1, <2>2 DEF EdType
  <2>7. EdRests(next)'
    BY <1>1, <1>10, <2>1, <2>4 DEF EdType, EdRests, EdNoCurrentRead, EdSaving, EdNotSavingAll
  <2> QED BY <1>1, <1>10, <2>5, <2>6, <2>7 DEF EdOneTab, EdType
<1>11. CASE EdSaveOne
  <2>1. ~EdSaving /\ edActiveTab = 1
    BY <1>1, <1>11 DEF EdSaveOne, EdWaitsFor, EdShown
  <2>2. edSaves' = {EdSaveOf(tab)} /\ edTabs' = edTabs
    BY <1>1, <1>11, <2>1 DEF EdSaveOne, EdSaveOf, EdSaving, EdTabsOnSave, EdTabsWhileSaving
  <2>3. EdRests(tab)'
    BY <1>1, <1>11, <2>1, <2>2 DEF EdSaveOne, EdRests, EdNoCurrentRead, EdSaving, EdNotSavingAll, EdSaveOf
  <2>4. EdOneTab(tab)'
    BY <1>1, <1>11, <2>2, <2>3 DEF EdSaveOne, EdOneTab
  <2> QED BY <2>4
<1>12. CASE EdSaveAll
  <2>1. ~EdSaving
    BY <1>12 DEF EdSaveAll, EdWaitsFor
  <2>2. {i \in DOMAIN edTabs : EdModified(edTabs[i])} = {1}
    BY <1>1, <1>12 DEF EdSaveAll
  <2>3. edSavingAll' = [phase |-> "write", next |-> 1, todo |-> EdOnly(edTabs, {1}),
                        idx |-> [k \in 1..Cardinality({1}) |-> EdNth({1}, k)]]
    BY <1>12, <2>2 DEF EdSaveAll
  <2>4. edSavingAll'.phase = "write" /\ edSavingAll'.next = 1 /\ edSavingAll'.todo = <<tab>>
    BY <1>1, <2>3, TheOnlyOne
  <2>5. EdRests(tab)'
    BY <1>1, <1>12, <2>1, <2>4 DEF EdSaveAll, EdRests, EdNoCurrentRead, EdSaving, EdNotSavingAll
  <2>6. EdOneTab(tab)'
    BY <1>1, <1>12, <2>5 DEF EdSaveAll, EdOneTab
  <2> QED BY <2>6
<1>13. ASSUME edSavingAll.phase = "write"
       PROVE  /\ edSavingAll.todo = <<tab>> /\ edSaves = {}
              /\ \/ edSavingAll.next = 1 /\ edDisk[tab.path] = tab.original
                 \/ edSavingAll.next = 2 /\ edDisk[tab.path] = tab.content
              /\ edSavingAll \in [phase : {"write"}, next : Nat \ {0}, todo : Seq(EdOwnTab), idx : Seq(Nat)]
              /\ Len(edSavingAll.todo) = 1 /\ edSavingAll.todo[1] = tab
  <2>1. /\ edSavingAll.todo = <<tab>> /\ edSaves = {}
        /\ \/ edSavingAll.next = 1 /\ edDisk[tab.path] = tab.original
           \/ edSavingAll.next = 2 /\ edDisk[tab.path] = tab.content
        /\ edSavingAll \in [phase : {"write"}, next : Nat \ {0}, todo : Seq(EdOwnTab), idx : Seq(Nat)]
    BY <1>13 DEF EdRests, EdNotSavingAll, OwnInv, EdSavingAllType
  <2>2. Len(<<tab>>) = 1 /\ <<tab>>[1] = tab
    OBVIOUS
  <2> QED BY <2>1, <2>2
<1>14. CASE EdSaveAllWrite
  <2>1. edSavingAll.phase = "write"
    BY <1>14 DEF EdSaveAllWrite
  <2>2. edSavingAll.next = 1 /\ edDisk[tab.path] = tab.original
    BY <1>13, <1>14, <2>1 DEF EdSaveAllWrite
  <2>3. \/ edDisk' = edDisk /\ edSavingAll' = EdNotSavingAll
        \/ /\ edDisk' = [edDisk EXCEPT ![tab.path] = tab.content]
           /\ edSavingAll' = [edSavingAll EXCEPT !.next = @ + 1]
    BY <1>13, <1>14, <2>1, <2>2 DEF EdSaveAllWrite, EdAnswerLost, EdCaptured
  <2>4. CASE edDisk' = edDisk /\ edSavingAll' = EdNotSavingAll
    <3>1. EdRests(tab)'
      BY <1>1, <1>13, <1>14, <2>1, <2>2, <2>4 DEF EdSaveAllWrite, EdRests, EdNoCurrentRead
    <3> QED BY <1>1, <1>14, <3>1 DEF EdSaveAllWrite, EdOneTab
  <2>5. CASE /\ edDisk' = [edDisk EXCEPT ![tab.path] = tab.content]
             /\ edSavingAll' = [edSavingAll EXCEPT !.next = @ + 1]
    <3>1. edSavingAll'.phase = "write" /\ edSavingAll'.next = 2 /\ edSavingAll'.todo = <<tab>>
      BY <1>13, <2>1, <2>2, <2>5
    <3>2. edDisk'[tab.path] = tab.content
      BY <1>2, <2>5
    <3>3. EdRests(tab)'
      BY <1>1, <1>13, <1>14, <2>1, <3>1, <3>2 DEF EdSaveAllWrite, EdRests, EdNoCurrentRead
    <3> QED BY <1>1, <1>14, <3>3 DEF EdSaveAllWrite, EdOneTab
  <2> QED BY <2>3, <2>4, <2>5
<1>15. CASE EdSaveAllDone
  <2>1. edSavingAll.phase = "write"
    BY <1>15 DEF EdSaveAllDone
  <2>2. edSavingAll.next = 2 /\ edDisk[tab.path] = tab.content /\ edSaves = {}
    BY <1>13, <1>15, <2>1 DEF EdSaveAllDone
  <2>3. edTabs' = <<mark>>
    BY <1>1, <1>3, <1>15 DEF EdSaveAllDone
  <2>4. EdRests(mark)'
    BY <1>1, <1>4, <1>15, <2>2 DEF EdSaveAllDone, EdRests, EdNoCurrentRead
  <2> QED BY <1>1, <1>4, <1>15, <2>3, <2>4 DEF EdSaveAllDone, EdOneTab
<1>16. ASSUME NEW s \in edSaves, EdSaveAnswer(s)  PROVE \E next \in EdOwnTab : EdOneTab(next)'
  <2>1. s = EdSaveOf(tab) /\ edSavingAll = EdNotSavingAll /\ edDisk[tab.path] = tab.original
        /\ edSaves = {s}
    BY DEF EdRests
  <2>2. s.idx = 1 /\ s.path = tab.path /\ s.content = tab.content
    BY <2>1 DEF EdSaveOf
  <2>3. edSaves' = {}
    BY <1>16, <2>1 DEF EdSaveAnswer
  <2>4. CASE UNCHANGED <<edDisk, edTabs>>
    <3>1. EdRests(tab)'
      BY <1>1, <1>16, <2>1, <2>3, <2>4 DEF EdSaveAnswer, EdRests, EdNoCurrentRead
    <3> QED BY <1>1, <1>16, <2>4, <3>1 DEF EdSaveAnswer, EdOneTab
  <2>5. CASE edDisk' = [edDisk EXCEPT ![s.path] = s.content] /\ edTabs' = EdMarkedSaved(s.idx)
    <3>1. edDisk'[mark.path] = mark.original /\ edTabs' = <<mark>>
      BY <1>2, <1>4, <1>5, <2>2, <2>5
    <3>2. EdRests(mark)'
      BY <1>1, <1>4, <1>16, <2>1, <2>3, <3>1 DEF EdSaveAnswer, EdRests, EdNoCurrentRead
    <3> QED BY <1>1, <1>4, <1>16, <3>1, <3>2 DEF EdSaveAnswer, EdOneTab
  <2> QED BY <1>16, <2>4, <2>5 DEF EdSaveAnswer, EdAnswerLost
<1>17. ~EdCreated /\ ~EdOpenCreated
  BY <1>1 DEF EdCreated, EdOpenCreated
<1>18. ASSUME NEW f, EdOpenByHand(f) \/ EdCreateFile(f) PROVE FALSE
  BY <1>1, <1>18 DEF EdOpenByHand, EdCreateFile
<1> QED BY <1>6, <1>7, <1>8, <1>9, <1>10, <1>11, <1>12, <1>14, <1>15, <1>16, <1>17, <1>18 DEF EdNext

LEMMA CalmStep == OwnInv /\ CalmInv /\ [EdNext]_edVars => CalmInv'
<1> SUFFICES ASSUME OwnInv, CalmInv, [EdNext]_edVars  PROVE CalmInv'
  OBVIOUS
<1>1. \A r \in edReads' : r.seq <= edOpenSeq'
  BY ReadsStayBehind
<1>2. edCalm' = edCalm
  BY DEF EdNext, edVars, EdOpenByHand, EdCreateFile, EdReadAnswer, EdReadSuperseded, EdReadError, EdCreated,
         EdOpenCreated, EdSelectTab, EdType, EdSaveOne, EdSaveAll, EdSaveAllWrite, EdSaveAllDone,
         EdSaveAnswer, EdCloseEditor
<1>3. ASSUME edCalm, UNCHANGED edVars  PROVE EdAtRest' \/ \E tab \in EdOwnTab : EdOneTab(tab)'
  BY <1>3 DEF CalmInv, edVars, EdAtRest, EdOneTab, EdLoads, EdRests, EdNoCurrentRead
<1>4. ASSUME edCalm, EdNext  PROVE EdAtRest' \/ \E tab \in EdOwnTab : EdOneTab(tab)'
  <2>1. CASE EdAtRest
    BY <1>4, <2>1, RestStep
  <2>2. CASE \E tab \in EdOwnTab : EdOneTab(tab)
    <3>1. PICK tab \in EdOwnTab : EdOneTab(tab)
      BY <2>2
    <3>2. EdLoads(tab) \/ EdRests(tab)
      BY <3>1 DEF EdOneTab
    <3> QED BY <1>4, <3>1, <3>2, LoadingStep, RestingStep
  <2> QED BY <1>4, <2>1, <2>2 DEF CalmInv
<1> QED BY <1>1, <1>2, <1>3, <1>4 DEF CalmInv

(* In a calm session a tab without the mark of a change holds what the       *)
(* server has, and one that shows "loading" waits for an answer that will be *)
(* used, for every set of files and any number of texts and reads.           *)
THEOREM CalmTabsTellTheTruth == EdSpec => []CalmTabs
<1>1. OwnInv /\ CalmInv => CalmTabs
  <2> SUFFICES ASSUME OwnInv, CalmInv, edCalm, NEW i \in DOMAIN edTabs
               PROVE  /\ ~edTabs[i].loading /\ ~EdModified(edTabs[i]) =>
                            edDisk[edTabs[i].path] = edTabs[i].content
                      /\ edTabs[i].loading =>
                            \E r \in edReads : r.seq = edOpenSeq /\ r.file = edTabs[i].path
    BY DEF CalmTabs, CalmUnsavedIsMarked, UnsavedIsMarked, CalmTabsLoad
  <2>1. PICK tab \in EdOwnTab : EdOneTab(tab)
    BY DEF CalmInv, EdAtRest
  <2>2. edTabs[i] = tab
    BY <2>1 DEF EdOneTab
  <2> QED BY <2>1, <2>2 DEF EdOneTab, EdLoads, EdRests, EdModified
<1> QED BY <1>1, OwnInit, OwnStep, CalmInit, CalmStep, PTL DEF EdSpec
=============================================================================
