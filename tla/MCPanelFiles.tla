---------------------------- MODULE MCPanelFiles ----------------------------
(***************************************************************************)
(* The file manager in its three parts, which share no state but the site  *)
(* shown, and the session of the tab they run in, for TLC.  One part is    *)
(* open in a behaviour; the others rest in one of their initial states, so *)
(* that the state spaces add up instead of multiplying.                    *)
(***************************************************************************)
EXTENDS FileEditor, FileTransfer, FileListing, PanelSession, TLC

CONSTANTS a, b, d, e, n, nc

VARIABLE part

CopyOfName == (n :> nc) @@ (nc :> nc)
OwnDomain == (a :> a) @@ (b :> b)

FilesInit ==
    /\ part \in {"editor", "transfer", "listing", "session"}
    /\ EdInit /\ (part # "editor" => edCalm /\ \A f \in EdFiles : edDisk[f] = EdAbsent)
    /\ FtInit /\ (part # "transfer" => /\ ftSite = a /\ ftFolder = d /\ ftWaits
                                       /\ \A s \in FtSites, p \in FtPaths : ftStore[s][p] = FtNone)
    /\ FlInit /\ (part # "listing" => /\ flShown = [target |-> a, folder |-> 1] /\ flPatient
                                      /\ \A p \in FlPlaces : flHeld[p] = {1})
    /\ PsInit

FilesNext ==
    /\ UNCHANGED part
    /\ \/ part = "editor" /\ EdNext /\ UNCHANGED <<ftVars, flVars, psVars>>
       \/ part = "transfer" /\ FtNext /\ UNCHANGED <<edVars, flVars, psVars>>
       \/ part = "listing" /\ FlNext /\ UNCHANGED <<edVars, ftVars, psVars>>
       \/ part = "session" /\ PsNext /\ UNCHANGED <<edVars, ftVars, flVars>>

FilesSpec == FilesInit /\ [][FilesNext]_<<part, edVars, ftVars, flVars, psVars>>
=============================================================================
