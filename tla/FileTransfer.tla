---------------------------- MODULE FileTransfer ----------------------------
(***************************************************************************)
(* What the file manager page does to files in several requests: uploads   *)
(* (list, compare, ask, send one by one) and pastes (try, ask, delete,     *)
(* copy again).  The site and folder shown can change between any two      *)
(* requests; each continuation uses the ones it was created with, and a    *)
(* dialog uses the ones shown when it is answered.                         *)
(***************************************************************************)
EXTENDS Naturals

CONSTANTS
    FtSites,      \* hosting targets: domains and subdomains
    FtDirs,       \* folders of a site
    FtNames,      \* names in a folder
    FtFolders,    \* names that are folders when the page opens
    FtCopyOf,     \* Names -> Names, the free name tried when pasting beside
    FtNone,
    FtMaxOps      \* bound on ops

ASSUME NamesAssumption ==
    FtCopyOf \in [FtNames -> FtNames] /\ FtFolders \subseteq FtNames

FtPaths == FtDirs \X FtNames
\* What a place holds: a file or a folder that was there, or a file sent by an
\* upload.
FtItem == {"file", "folder", "sent"}
FtFirstItem(n) == IF n \in FtFolders THEN "folder" ELSE "file"

VARIABLES
    ftStore,      \* site -> path -> item on the server, or None
    ftSite,       \* domainId and subdomainId shown
    ftFolder,     \* path shown
    ftBatch,      \* processIncomingFiles comparing names, or None
    ftSending,    \* runUploadItems calls under way
    ftUploadBusy,
    ftUploadBatchLock,
    ftUploadDlg,  \* uploadConflictDialog
    ftClipboard,
    ftPaste,      \* the paste under way
    ftPasteDlg,   \* pasteConflictDialog
    ftAgreed,     \* history: places given up in the operations under way
    ftOps,        \* uploads, pastes and choices for the clipboard so far
    ftWaits       \* a user who starts and switches nothing before it is done

ftVars == <<ftStore, ftSite, ftFolder, ftBatch, ftSending, ftUploadBusy, ftUploadBatchLock,
            ftUploadDlg, ftClipboard, ftPaste, ftPasteDlg, ftAgreed, ftOps, ftWaits>>
ftServerVars == <<ftStore, ftAgreed>>
ftUploadVars == <<ftBatch, ftSending, ftUploadBusy, ftUploadBatchLock, ftUploadDlg>>
ftPasteVars == <<ftClipboard, ftPaste, ftPasteDlg>>

FtIdle == ftBatch = FtNone /\ ftSending = {} /\ ftPaste = FtNone
FtDialog == ftUploadDlg # FtNone \/ ftPasteDlg # FtNone
\* The progress overlay and the dialogs cover the page.
FtCovered == ftSending # {} \/ FtDialog

FtInit ==
    /\ \E filled \in SUBSET FtPaths :      \* bound: the sites start alike
         ftStore = [s \in FtSites |-> [p \in FtPaths |->
                    IF p \in filled THEN FtFirstItem(p[2]) ELSE FtNone]]
    /\ ftSite \in FtSites
    /\ ftFolder \in FtDirs
    /\ ftBatch = FtNone
    /\ ftSending = {}
    /\ ftUploadBusy = FALSE
    /\ ftUploadBatchLock = FALSE
    /\ ftUploadDlg = FtNone
    /\ ftClipboard = FtNone
    /\ ftPaste = FtNone
    /\ ftPasteDlg = FtNone
    /\ ftAgreed = {}
    /\ ftOps = 0
    /\ ftWaits \in BOOLEAN

\* A new operation: what was given up counts until everything is done.
FtStartOp(givenUp) ==
    /\ ftOps < FtMaxOps
    /\ ftOps' = ftOps + 1
    /\ ftAgreed' = givenUp \cup IF FtIdle /\ ~FtDialog THEN {} ELSE ftAgreed

FtSwitchSite(s) ==
    /\ ~FtCovered
    /\ ftWaits => FtIdle
    /\ ftSite' = s
    /\ ftFolder' \in FtDirs
    /\ UNCHANGED <<ftServerVars, ftUploadVars, ftPasteVars, ftOps, ftWaits>>

FtOpenFolder(d) ==
    /\ ~FtCovered
    /\ ftWaits => FtIdle
    /\ ftFolder' = d
    /\ UNCHANGED <<ftSite, ftServerVars, ftUploadVars, ftPasteVars, ftOps, ftWaits>>

-----------------------------------------------------------------------------
(* Uploads.                                                                  *)

\* The page takes files dropped anywhere on it, over a dialog too.
FtDropAllowed == ~ftUploadBusy /\ ~ftUploadBatchLock
FtDropAnytime == TRUE                                  \* mutant: no lock

FtDropGuard == FtDropAllowed

FtDrop(names) ==
    /\ FtDropGuard
    /\ ftWaits => FtIdle /\ ~FtDialog
    /\ ftUploadBusy' = TRUE
    /\ ftUploadBatchLock' = TRUE
    /\ ftBatch' = [site |-> ftSite, dir |-> ftFolder, names |-> names]
    /\ FtStartOp({})
    /\ UNCHANGED <<ftStore, ftSite, ftFolder, ftSending, ftUploadDlg, ftPasteVars, ftWaits>>

\* runUploadItems: the site is the one of the render whose callback runs.
FtRun(s, items, dirs, asked, from) ==
    [site |-> s, todo |-> items, dirs |-> dirs, asked |-> asked, from |-> from]

FtTaken(s, d, names) == {n \in names : ftStore[s][<<d, n>>] # FtNone}
FtConflicts(s, d, names) == FtTaken(s, d, names)

\* The listings arrived: without conflicts the files are sent at once, under
\* the lock; otherwise the user is asked and the lock released.
FtCompared ==
    /\ ftBatch # FtNone
    /\ LET found == FtConflicts(ftBatch.site, ftBatch.dir, ftBatch.names)
           all == {<<ftBatch.dir, n>> : n \in ftBatch.names}
           taken == {<<ftBatch.dir, n>> : n \in found}
       IN \/ /\ found = {}
             /\ ftSending' = ftSending \cup {FtRun(ftBatch.site, all, {}, {}, "batch")}
             /\ UNCHANGED <<ftUploadDlg, ftUploadBusy, ftUploadBatchLock>>
          \/ /\ found # {}
             /\ ftUploadDlg' = [free |-> all \ taken, taken |-> taken, site |-> ftBatch.site,
                              dirs |-> {p \in taken : ftStore[ftBatch.site][p] = "folder"}]
             /\ ftUploadBusy' = FALSE
             /\ ftUploadBatchLock' = FALSE
             /\ UNCHANGED ftSending
    /\ ftBatch' = FtNone
    /\ UNCHANGED <<ftSite, ftFolder, ftServerVars, ftPasteVars, ftOps, ftWaits>>

FtCompareFailed ==
    /\ ftBatch # FtNone
    /\ ftBatch' = FtNone
    /\ ftUploadBusy' = FALSE
    /\ ftUploadBatchLock' = FALSE
    /\ UNCHANGED <<ftSite, ftFolder, ftServerVars, ftSending, ftUploadDlg, ftPasteVars, ftOps,
                   ftWaits>>

\* Buttons of the conflict dialog, disabled while ftUploadBusy.
FtDialogReady == ftUploadDlg # FtNone /\ ~ftUploadBusy

FtCancelUpload ==
    /\ FtDialogReady
    /\ ftUploadDlg' = FtNone
    /\ UNCHANGED <<ftSite, ftFolder, ftServerVars, ftBatch, ftSending, ftUploadBusy,
                   ftUploadBatchLock, ftPasteVars, ftOps, ftWaits>>

FtSkipItems == ftUploadDlg.free
FtSkipSendsAll == ftUploadDlg.free \cup ftUploadDlg.taken   \* mutant
FtSkippedRun == FtSkipItems

FtSkipConflicts ==
    /\ FtDialogReady
    /\ ftUploadDlg' = FtNone
    /\ ftUploadBusy' = TRUE
    /\ ftSending' = ftSending \cup {FtRun(ftSite, FtSkippedRun, {}, {}, "dialog")}
    /\ UNCHANGED <<ftSite, ftFolder, ftServerVars, ftBatch, ftUploadBatchLock, ftPasteVars,
                   ftOps, ftWaits>>

FtOverwriteConflicts ==
    /\ FtDialogReady
    /\ ftUploadDlg' = FtNone
    /\ ftUploadBusy' = TRUE
    /\ ftSending' = ftSending \cup {FtRun(ftSite, ftUploadDlg.free \cup ftUploadDlg.taken,
                                    ftUploadDlg.dirs, ftUploadDlg.taken, "dialog")}
    /\ ftAgreed' = ftAgreed \cup {<<ftUploadDlg.site, p>> : p \in ftUploadDlg.taken}
    /\ UNCHANGED <<ftStore, ftSite, ftFolder, ftBatch, ftUploadBatchLock, ftPasteVars, ftOps,
                   ftWaits>>

\* Folders in the way are deleted first; a delete that fails ends the run.
FtSendDelete(run, p) ==
    /\ run \in ftSending
    /\ p \in run.dirs
    /\ ftStore' = [ftStore EXCEPT ![run.site][p] = FtNone]
    /\ ftSending' = (ftSending \ {run}) \cup {[run EXCEPT !.dirs = @ \ {p}]}
    /\ UNCHANGED <<ftSite, ftFolder, ftAgreed, ftBatch, ftUploadBusy, ftUploadBatchLock,
                   ftUploadDlg, ftPasteVars, ftOps, ftWaits>>

\* Every file is sent with if_exists = overwrite; one that fails is counted.
FtSendOne(run, p) ==
    /\ run \in ftSending
    /\ run.dirs = {}
    /\ p \in run.todo
    /\ ftStore' \in {ftStore, [ftStore EXCEPT ![run.site][p] = "sent"]}
    /\ ftSending' = (ftSending \ {run}) \cup {[run EXCEPT !.todo = @ \ {p}]}
    /\ UNCHANGED <<ftSite, ftFolder, ftAgreed, ftBatch, ftUploadBusy, ftUploadBatchLock,
                   ftUploadDlg, ftPasteVars, ftOps, ftWaits>>

FtSendEnd(run) ==
    /\ run \in ftSending
    /\ \/ run.dirs = {} /\ run.todo = {}
       \/ run.dirs # {}                       \* a delete failed
       \/ run.dirs = {}  /\ run.todo # {}     \* a folder could not be made
    /\ ftSending' = ftSending \ {run}
    /\ ftUploadBusy' = FALSE
    /\ ftUploadBatchLock' = (ftUploadBatchLock /\ run.from # "batch")
    /\ UNCHANGED <<ftSite, ftFolder, ftServerVars, ftBatch, ftUploadDlg, ftPasteVars, ftOps,
                   ftWaits>>

-----------------------------------------------------------------------------
(* Pastes.  The clipboard holds a path and whether it was copied or cut; the *)
(* engine refuses a target that exists and a source that does not.           *)

\* Copy and Cut of the context menu; "site" is history: the site shown then.
FtClip(p, mode) ==
    /\ ~FtCovered
    /\ ftStore[ftSite][p] # FtNone
    /\ ftWaits => FtIdle
    /\ ftClipboard' = [path |-> p, mode |-> mode, site |-> ftSite]
    /\ FtStartOp({})
    /\ UNCHANGED <<ftStore, ftSite, ftFolder, ftUploadVars, ftPaste, ftPasteDlg, ftWaits>>

\* runClipboardPaste keeps the site and the mode of the render it started in.
FtPaste(d) ==
    /\ ~FtCovered
    /\ ftClipboard # FtNone
    /\ ftPaste = FtNone
    /\ ftWaits => FtIdle /\ ftClipboard.site = ftSite
    /\ ftPaste' = [phase |-> "try", from |-> ftClipboard.path, site |-> ftSite,
                 to |-> <<d, ftClipboard.path[2]>>, mode |-> ftClipboard.mode]
    /\ FtStartOp(IF ftClipboard.mode = "cut" THEN {<<ftClipboard.site, ftClipboard.path>>}
                                         ELSE {})
    /\ UNCHANGED <<ftStore, ftSite, ftFolder, ftUploadVars, ftClipboard, ftPasteDlg, ftWaits>>

\* The engine's copy or move of the paste under way, when it goes through.
FtTransferred ==
    /\ ftStore[ftPaste.site][ftPaste.from] # FtNone
    /\ ftStore[ftPaste.site][ftPaste.to] = FtNone
    /\ ftStore' = [ftStore EXCEPT
                   ![ftPaste.site][ftPaste.to] = ftStore[ftPaste.site][ftPaste.from],
                   ![ftPaste.site][ftPaste.from] = IF ftPaste.mode = "cut" THEN FtNone ELSE @]
    /\ UNCHANGED ftAgreed

\* A cut that was carried out empties the clipboard, whatever it holds by now;
\* the answers of the dialog go by the mode it has when they are given.
FtPasteDone ==
    /\ ftPaste # FtNone
    /\ ftPaste.phase \in {"try", "transfer"}
    /\ FtTransferred
    /\ ftPaste' = FtNone
    /\ ftClipboard' = IF ftPaste.mode = "cut" THEN FtNone ELSE ftClipboard
    /\ UNCHANGED <<ftSite, ftFolder, ftUploadVars, ftPasteDlg, ftOps, ftWaits>>

\* The first try found the target taken: the user is asked.  "site" is
\* history: the dialog does not remember it.
FtPasteConflict ==
    /\ ftPaste # FtNone
    /\ ftPaste.phase = "try"
    /\ ftStore[ftPaste.site][ftPaste.to] # FtNone
    /\ ftPasteDlg' = [from |-> ftPaste.from, to |-> ftPaste.to, site |-> ftPaste.site]
    /\ ftPaste' = FtNone
    /\ UNCHANGED <<ftSite, ftFolder, ftServerVars, ftUploadVars, ftClipboard, ftOps, ftWaits>>

FtPasteError ==
    /\ ftPaste # FtNone
    /\ ftPaste' = FtNone
    /\ UNCHANGED <<ftSite, ftFolder, ftServerVars, ftUploadVars, ftClipboard, ftPasteDlg,
                   ftOps, ftWaits>>

FtPasteSkip ==
    /\ ftPasteDlg # FtNone
    /\ ftPasteDlg' = FtNone
    /\ UNCHANGED <<ftSite, ftFolder, ftServerVars, ftUploadVars, ftClipboard, ftPaste, ftOps,
                   ftWaits>>

\* Both answers act on the site shown when they are given.
FtAnswered(phase, to) ==
    [phase |-> phase, from |-> ftPasteDlg.from, to |-> to, site |-> ftSite,
     mode |-> IF ftClipboard = FtNone THEN "copy" ELSE ftClipboard.mode]

FtPasteRename ==
    /\ ftPasteDlg # FtNone
    /\ ftPaste' = FtAnswered("transfer", <<ftPasteDlg.to[1], FtCopyOf[ftPasteDlg.to[2]]>>)
    /\ ftPasteDlg' = FtNone
    /\ UNCHANGED <<ftSite, ftFolder, ftServerVars, ftUploadVars, ftClipboard, ftOps, ftWaits>>

FtPasteOverwrite ==
    /\ ftPasteDlg # FtNone
    /\ ftPaste' = FtAnswered("delete", ftPasteDlg.to)
    /\ ftPasteDlg' = FtNone
    /\ ftAgreed' = ftAgreed \cup {<<ftPasteDlg.site, ftPasteDlg.to>>}
    /\ UNCHANGED <<ftStore, ftSite, ftFolder, ftUploadVars, ftClipboard, ftOps, ftWaits>>

\* The target is deleted, for good and not to the trash, before the transfer.
FtPasteDelete ==
    /\ ftPaste # FtNone
    /\ ftPaste.phase = "delete"
    /\ ftStore' = [ftStore EXCEPT ![ftPaste.site][ftPaste.to] = FtNone]
    /\ ftPaste' = [ftPaste EXCEPT !.phase = "transfer"]
    /\ UNCHANGED <<ftSite, ftFolder, ftAgreed, ftUploadVars, ftClipboard, ftPasteDlg, ftOps,
                   ftWaits>>

FtNext ==
    \/ \E s \in FtSites : FtSwitchSite(s)
    \/ \E d \in FtDirs : FtOpenFolder(d) \/ FtPaste(d)
    \/ \E names \in SUBSET FtNames \ {{}} : FtDrop(names)
    \/ FtCompared \/ FtCompareFailed
    \/ FtCancelUpload \/ FtSkipConflicts \/ FtOverwriteConflicts
    \/ \E run \in ftSending :
          \/ \E p \in run.dirs : FtSendDelete(run, p)
          \/ \E p \in run.todo : FtSendOne(run, p)
          \/ FtSendEnd(run)
    \/ \E p \in FtPaths : \E mode \in {"copy", "cut"} : FtClip(p, mode)
    \/ FtPasteDone \/ FtPasteConflict \/ FtPasteError
    \/ FtPasteSkip \/ FtPasteRename \/ FtPasteOverwrite \/ FtPasteDelete

FtSpec == FtInit /\ [][FtNext]_ftVars

-----------------------------------------------------------------------------
\* One upload run sends files at a time, though drops land on the page while
\* a listing is awaited and while the conflict dialog is open (ftUploadBusy,
\* ftUploadBatchLock, the disabled buttons).
OneUploadRun ==
    /\ \A run, other \in ftSending : run = other
    /\ ftSending # {} => ftUploadBusy

\* For a user who waits for one operation to end before the next, what is
\* stored at a place goes only when that place was given up: cut and pasted, or
\* overwritten by choice after being asked about it.
WaitingKeepsItems ==
    [][ftWaits => \A s \in FtSites, p \in FtPaths :
         ftStore[s][p] # FtNone /\ ftStore'[s][p] # ftStore[s][p] => <<s,
                                                                       p>> \in ftAgreed']_ftVars
=============================================================================
