----------------------------- MODULE TwoFactor -----------------------------
(***************************************************************************)
(* Two-factor authentication in the settings: the secret shown for the     *)
(* authenticator, its confirmation by a code, the backup codes shown once, *)
(* and what the handlers of the panel read and write, step by step.  The   *)
(* buttons wait for a request of their own kind only.                      *)
(***************************************************************************)
EXTENDS Integers, FiniteSets

CONSTANT TfMaxAsks    \* bound: requests

VARIABLES
    tfSecret, tfOn,  \* server: two_factor_secret (0: none), two_factor_enabled
    tfPending,       \* server: the cached secret of a renewed setup, or 0
    tfCodes,         \* server: the sets of backup codes in the table
    tfStatus,        \* ['twofa-status'] in the cache: [fresh, on]
    tfUser,          \* the user of the session has two_factor_enabled
    tfSetup,         \* twofaSetup: the secret shown, or 0
    tfQr, tfDraws,   \* twofaQrDataUrl: of which secret, or 0; those being drawn
    tfShown,         \* twofaBackupCodes: the set shown, or 0
    tfAsked,         \* requests: [kind, password, new, otp, step, user, on, held]
    tfAsks,          \* requests so far
    tfConfirmed,     \* history: the secret last confirmed by a code
    tfExpired,       \* history: the cached secrets that ran out
    tfMet,           \* history: two requests were under way together
    tfUnheard        \* history: a request changed something and ended in an error

tfServer == <<tfSecret, tfOn, tfPending, tfCodes>>
tfPicture == <<tfQr, tfDraws>>
tfPage == <<tfStatus, tfUser, tfSetup, tfPicture, tfShown>>
tfHistory == <<tfConfirmed, tfExpired, tfMet, tfUnheard>>
tfVars == <<tfServer, tfPage, tfAsked, tfAsks, tfHistory>>

TfInit ==
    /\ tfOn \in BOOLEAN
    /\ tfSecret = (IF tfOn THEN 1 ELSE 0)
    /\ tfPending = 0
    /\ tfCodes = (IF tfOn THEN {1} ELSE {})
    /\ tfStatus = [fresh |-> TRUE, on |-> tfOn]
    /\ tfUser = tfOn
    /\ tfSetup = 0 /\ tfShown = 0 /\ tfQr = 0 /\ tfDraws = {}
    /\ tfAsked = {} /\ tfAsks = 0
    /\ tfConfirmed = tfSecret
    /\ tfExpired = {} /\ tfMet = FALSE /\ tfUnheard = FALSE

-----------------------------------------------------------------------------
(* The page.                                                                 *)

TfReadStatus ==
    /\ ~tfStatus.fresh
    /\ tfStatus' = [fresh |-> TRUE, on |-> tfOn]
    /\ UNCHANGED <<tfServer, tfUser, tfSetup, tfPicture, tfShown, tfAsked, tfAsks, tfHistory>>

\* The picture of a secret is drawn in the background, and the one of before stays
\* until then.
TfShow(secret) ==
    /\ tfSetup' = secret
    /\ tfQr' = IF secret = 0 THEN 0 ELSE tfQr
    /\ tfDraws' = IF secret \in {0, tfSetup} THEN tfDraws ELSE tfDraws \cup {secret}
TfStillShown(secret) == secret = tfSetup
TfAnyDrawn(secret) == TRUE      \* mutant
TfDrawingCounts(secret) == TfStillShown(secret)
TfDrawn(secret) ==
    /\ secret \in tfDraws
    /\ tfDraws' = tfDraws \ {secret}
    /\ IF TfDrawingCounts(secret) THEN tfQr' \in {secret, 0} ELSE tfQr' = tfQr
    /\ UNCHANGED <<tfServer, tfStatus, tfUser, tfSetup, tfShown, tfAsked, tfAsks, tfHistory>>
\* Only a first setup has a button that takes it off the screen.
TfCancel ==
    /\ ~tfStatus.on /\ tfSetup # 0
    /\ TfShow(0)
    /\ UNCHANGED <<tfServer, tfStatus, tfUser, tfShown, tfAsked, tfAsks, tfHistory>>

\* What each button needs to be there: a first setup can be asked for again, a
\* renewed one, with the password, until its secret is shown.
TfOffered(kind) ==
    CASE kind = "setup" -> tfStatus.on => tfSetup = 0
      [] kind = "verify" -> tfSetup # 0
      [] OTHER -> tfStatus.on
TfAsk(kind) ==
    /\ TfOffered(kind) /\ tfAsks < TfMaxAsks
    /\ \A r \in tfAsked : r.kind # kind
    /\ tfAsks' = tfAsks + 1
    /\ tfAsked' = tfAsked \cup
         {[kind |-> kind, password |-> tfStatus.on, new |-> tfAsks + 2, otp |-> tfSetup,
           step |-> "sent", user |-> 0, on |-> FALSE, held |-> 0]}
    /\ tfMet' = (tfMet \/ tfAsked # {})
    /\ UNCHANGED <<tfServer, tfPage, tfConfirmed, tfExpired, tfUnheard>>

-----------------------------------------------------------------------------
(* The handlers: the user is loaded, the user or the cache is written, the   *)
(* backup codes are deleted, new ones are inserted.  A column of the user is *)
(* written only where it differs from what was loaded.                       *)

TfStep(r, step) ==
    /\ tfAsked' = (tfAsked \ {r}) \cup {[r EXCEPT !.step = step]}
    /\ UNCHANGED <<tfPage, tfAsks, tfExpired, tfMet, tfUnheard>>
TfToVerify == IF tfPending # 0 THEN tfPending ELSE tfSecret
\* The code typed is one of the secret that was shown.
TfAccepted(r) ==
    CASE r.kind = "setup" -> tfOn => r.password
      [] r.kind = "verify" -> TfToVerify # 0 /\ r.otp = TfToVerify
      [] r.kind = "regenerate" -> tfOn
      [] r.kind = "disable" -> TRUE
TfLoad(r) ==
    /\ r \in tfAsked /\ r.step = "sent" /\ TfAccepted(r)
    /\ tfAsked' = (tfAsked \ {r}) \cup
         {[r EXCEPT !.step = IF r.kind = "regenerate" THEN "saved" ELSE "loaded",
                    !.user = tfSecret, !.on = tfOn, !.held = TfToVerify]}
    /\ UNCHANGED <<tfServer, tfPage, tfAsks, tfHistory>>
TfSaved(column, loaded, new) == IF loaded = new THEN column ELSE new
TfSaveUser(r, secret, on) ==
    /\ tfSecret' = TfSaved(tfSecret, r.user, secret)
    /\ tfOn' = TfSaved(tfOn, r.on, on)
    /\ TfStep(r, "saved")
    /\ UNCHANGED <<tfPending, tfCodes>>
TfKeepUntilVerified(r) ==
    /\ tfPending' = r.new
    /\ TfStep(r, "done")
    /\ UNCHANGED <<tfSecret, tfOn, tfCodes>>
TfReplaceAtOnce(r) == TfSaveUser(r, r.new, TRUE)      \* mutant
TfRenew(r) == TfKeepUntilVerified(r)
TfSetupSave(r) ==
    /\ r \in tfAsked /\ r.kind = "setup" /\ r.step = "loaded"
    /\ IF r.on THEN TfRenew(r) ELSE TfSaveUser(r, r.new, FALSE)
    /\ UNCHANGED tfConfirmed
TfVerifySave(r) ==
    /\ r \in tfAsked /\ r.kind = "verify" /\ r.step = "loaded"
    /\ TfSaveUser(r, r.held, TRUE)
    /\ tfConfirmed' = r.held
TfDisableSave(r) ==
    /\ r \in tfAsked /\ r.kind = "disable" /\ r.step = "loaded"
    /\ TfSaveUser(r, 0, FALSE)
    /\ UNCHANGED tfConfirmed
TfForgetPending(r) == IF r.kind \in {"verify", "disable"} THEN 0 ELSE tfPending
TfForgetVerified(r) == IF r.kind = "verify" THEN 0 ELSE tfPending      \* mutant
TfPendingAfter(r) == TfForgetPending(r)
TfDropCodes(r) ==
    /\ r \in tfAsked /\ r.step = "saved"
    /\ tfCodes' = {}
    /\ tfPending' = TfPendingAfter(r)
    /\ TfStep(r, IF r.kind \in {"verify", "regenerate"} THEN "dropped" ELSE "done")
    /\ UNCHANGED <<tfSecret, tfOn, tfConfirmed>>
TfInsertCodes(r) ==
    /\ r \in tfAsked /\ r.step = "dropped"
    /\ tfCodes' = tfCodes \cup {r.new}
    /\ TfStep(r, "done")
    /\ UNCHANGED <<tfSecret, tfOn, tfPending, tfConfirmed>>
\* After twenty minutes the secret of a renewed setup is gone.
TfExpire ==
    /\ tfPending # 0
    /\ tfPending' = 0
    /\ tfExpired' = tfExpired \cup {tfPending}
    /\ UNCHANGED <<tfSecret, tfOn, tfCodes, tfPage, tfAsked, tfAsks, tfConfirmed, tfMet, tfUnheard>>

-----------------------------------------------------------------------------
(* Answers.                                                                  *)

TfShownAfter(r) == IF r.kind \in {"verify", "regenerate"} THEN r.new ELSE 0
TfShownKept(r) == IF r.kind \in {"verify", "regenerate"} THEN r.new ELSE tfShown   \* mutant
TfCodesShown(r) == TfShownAfter(r)
TfStatusStale(r) == IF r.kind = "regenerate" THEN tfStatus ELSE [tfStatus EXCEPT !.fresh = FALSE]
TfStatusKept(r) ==      \* mutant
    IF r.kind \in {"regenerate", "verify"} THEN tfStatus ELSE [tfStatus EXCEPT !.fresh = FALSE]
TfStatusAfter(r) == TfStatusStale(r)
TfAnswered(r) ==
    /\ r \in tfAsked /\ r.step = "done"
    /\ tfAsked' = tfAsked \ {r}
    /\ tfShown' = TfCodesShown(r)
    /\ tfStatus' = TfStatusAfter(r)
    /\ TfShow(CASE r.kind = "setup" -> r.new
                [] r.kind = "regenerate" -> tfSetup
                [] OTHER -> 0)
    /\ tfUser' = CASE r.kind = "verify" -> TRUE
                   [] r.kind = "disable" -> FALSE
                   [] OTHER -> tfUser
    /\ UNCHANGED <<tfServer, tfAsks, tfHistory>>
TfFails(r) ==
    /\ r \in tfAsked
    /\ tfAsked' = tfAsked \ {r}
    /\ tfUnheard' = (tfUnheard \/ r.step \notin {"sent", "loaded"})
    /\ UNCHANGED <<tfServer, tfPage, tfAsks, tfConfirmed, tfExpired, tfMet>>

-----------------------------------------------------------------------------
TfNext ==
    \/ TfReadStatus \/ TfCancel \/ TfExpire
    \/ \E secret \in tfDraws : TfDrawn(secret)
    \/ \E kind \in {"setup", "verify", "regenerate", "disable"} : TfAsk(kind)
    \/ \E r \in tfAsked :
         \/ TfLoad(r) \/ TfSetupSave(r) \/ TfVerifySave(r) \/ TfDisableSave(r)
         \/ TfDropCodes(r) \/ TfInsertCodes(r) \/ TfAnswered(r) \/ TfFails(r)

-----------------------------------------------------------------------------
\* While two-factor authentication is on, the login asks for codes of the secret
\* that was last confirmed by one, whatever became of setups since, unless two
\* requests were under way together: a first setup asked for again while the
\* secret is being confirmed replaces it after it is on.
AuthenticatorWorks == ~tfMet /\ tfOn => tfSecret = tfConfirmed

\* With nothing under way, the secret shown is the one the next code is checked
\* against, unless it ran out, two requests met or one ended in an error; and when
\* its picture has been drawn, no other is shown, however the drawings ended.
ShownSecretIsChecked ==
    /\ tfAsked = {} /\ ~tfMet /\ ~tfUnheard /\ tfSetup # 0 /\ tfSetup \notin tfExpired =>
          tfSetup = TfToVerify
    /\ tfDraws = {} => tfQr \in {tfSetup, 0}

\* With nothing under way, the backup codes shown are those that work, unless two
\* requests met or one ended in an error.
ShownCodesWork ==
    tfAsked = {} /\ ~tfMet /\ ~tfUnheard /\ tfShown # 0 => tfOn /\ tfCodes = {tfShown}

\* With nothing under way, the status taken for fresh and the user of the session
\* say whether it is on, unless two requests met or one ended in an error.
TwoFactorStatusTrue ==
    tfAsked = {} /\ ~tfMet /\ ~tfUnheard =>
        /\ tfStatus.fresh => tfStatus.on = tfOn
        /\ tfUser = tfOn

-----------------------------------------------------------------------------
(* Why they hold.                                                            *)

TfRequest == [kind : {"setup", "verify", "regenerate", "disable"}, password : BOOLEAN,
              new : Nat \ {0}, otp : Nat,
              step : {"sent", "loaded", "saved", "dropped", "done"},
              user : Nat, on : BOOLEAN, held : Nat]
TfTypeOK ==
    /\ tfSecret \in Nat /\ tfOn \in BOOLEAN /\ tfPending \in Nat /\ tfCodes \subseteq Nat
    /\ tfStatus \in [fresh : BOOLEAN, on : BOOLEAN] /\ tfUser \in BOOLEAN
    /\ {tfSetup, tfQr, tfShown, tfAsks, tfConfirmed} \subseteq Nat /\ tfDraws \subseteq Nat
    /\ tfAsked \subseteq TfRequest
    /\ tfMet \in BOOLEAN /\ tfUnheard \in BOOLEAN

TfPictureFollows == tfQr \in {tfSetup, 0} \/ tfSetup \in tfDraws

\* The one request under way: before it writes, the user is as it was loaded, and
\* what it has written by a step is there.
TfBefore(r) == r.step \in {"sent", "loaded"}
TfOneRequest ==
    /\ \A r, q \in tfAsked : r = q
    /\ \A r \in tfAsked :
        /\ r.step = "loaded" => r.user = tfSecret /\ r.on = tfOn
        /\ ~TfBefore(r) /\ r.kind \in {"verify", "regenerate"} => tfOn
        /\ ~TfBefore(r) /\ r.kind = "disable" => ~tfOn
        /\ r.step = "dropped" => tfCodes = {}
        /\ r.step = "done" /\ r.kind \in {"verify", "regenerate"} => tfCodes = {r.new}

\* What the page shows was so before the request wrote, and a setup has written the
\* secret it will show.
TfShownLeads ==
    /\ (\A r \in tfAsked : TfBefore(r) \/ r.kind \notin {"verify", "disable"}) =>
           /\ tfStatus.fresh => tfStatus.on = tfOn
           /\ tfUser = tfOn
    /\ (\A r \in tfAsked : TfBefore(r)) /\ tfShown # 0 => tfOn /\ tfCodes = {tfShown}
TfSecretLeads ==
    /\ (\A r \in tfAsked : TfBefore(r) \/ r.kind = "regenerate")
       /\ tfSetup # 0 /\ tfSetup \notin tfExpired => tfSetup = TfToVerify
    /\ \A r \in tfAsked :
           ~TfBefore(r) /\ r.kind = "setup" => TfToVerify = r.new \/ r.new \in tfExpired
    /\ ~tfOn => tfPending = 0 \/ \E r \in tfAsked : r.kind = "disable" /\ r.step = "saved"

TfInv ==
    /\ TfTypeOK /\ TfPictureFollows /\ AuthenticatorWorks
    /\ ~tfMet => TfOneRequest
    /\ ~tfMet /\ ~tfUnheard => TfShownLeads /\ TfSecretLeads
=============================================================================
