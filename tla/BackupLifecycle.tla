-------------------------- MODULE BackupLifecycle --------------------------
(***************************************************************************)
(* What the backup subsystem promises about each backup, without worker,    *)
(* reconciler or engine: a backup is submitted, it ends done or failed, a   *)
(* failed one may still turn out done, and a done one stays done, with the  *)
(* content it was finished with, until it is removed.                       *)
(***************************************************************************)
EXTENDS Naturals

CONSTANT MaxBackup

VARIABLES
  phase,   \* phase[b]: where backup b is in its life
  needs    \* needs[b]: the backup that b's files are relative to, 0 if none

vars == <<phase, needs>>

Backup == 1 .. MaxBackup

Init ==
  /\ phase = [b \in Backup |-> "unborn"]
  /\ needs = [b \in Backup |-> 0]

Become(b, p) == phase' = [phase EXCEPT ![b] = p]

Submit(b) ==
  /\ phase[b] = "unborn"
  /\ Become(b, "pending")
  /\ UNCHANGED needs

(* An increment is finished only on top of a backup that is itself done, or *)
(* was until it was removed.                                                *)
Finish(b) ==
  /\ phase[b] \in {"pending", "failed"}
  /\ Become(b, "done")
  /\ \E p \in {0} \cup {q \in Backup : q < b /\ phase[q] \in {"done", "removed"}} :
       needs' = [needs EXCEPT ![b] = p]

Fail(b) ==
  /\ phase[b] = "pending"
  /\ Become(b, "failed")
  /\ UNCHANGED needs

Resubmit(b) ==
  /\ phase[b] = "failed"
  /\ Become(b, "pending")
  /\ UNCHANGED needs

Remove(b) ==
  /\ phase[b] \in {"pending", "done", "failed"}
  /\ Become(b, "removed")
  /\ needs' = [needs EXCEPT ![b] = 0]

Next ==
  \E b \in Backup :
    Submit(b) \/ Finish(b) \/ Fail(b) \/ Resubmit(b) \/ Remove(b)

Spec == Init /\ [][Next]_vars
=============================================================================
