-------------------------- MODULE PanelPagesProofs --------------------------
(***************************************************************************)
(* What TLAPS proves of the other pages of the panel, those of backups,    *)
(* plugins, deployments, two-factor authentication, e-mail, databases,     *)
(* mail settings and monitoring, and of all the pages together.  The       *)
(* variables of the page that is open are v1, v2, ... in the order of its  *)
(* VARIABLES.                                                              *)
(***************************************************************************)
EXTENDS PanelSitesProofs


-----------------------------------------------------------------------------
(* The backups.  v1: operations, v2: the dialog of one, v3: their timers,    *)
(* v4: how many so far, v5: a result was closed by hand; v6: the site, v7:   *)
(* the backups, v8: the lists, v9: the one being read, v10: the creation;    *)
(* v11: the names are known, v12: the files on Drive, v13: they were asked   *)
(* for without a name; v14: the form, v15: saves, v16: the schedules.        *)

LEMMA BackupsInit == Bk!BkInit => Bk!BkInv
<1> SUFFICES ASSUME Bk!BkInit PROVE Bk!BkInv
  OBVIOUS
<1>1. PICK list : list = [rows |-> {}, state |-> "unread"]
  OBVIOUS
<1>2. /\ list \in [rows : SUBSET Bk!BkBackups, state : {"unread", "stale", "fresh"}]
      /\ list.rows = {}
  BY <1>1
<1>3. v8 = [s \in Sites |-> list]
  BY <1>1 DEF Bk!BkInit
<1>4. /\ v8 \in [Sites -> [rows : SUBSET Bk!BkBackups, state : {"unread", "stale", "fresh"}]]
      /\ \A s \in Sites : v8[s].rows = {}
  BY <1>2, <1>3
<1>5. v7 = {} /\ IsFiniteSet(v7) /\ Bk!IsFiniteSet(v7)
  BY FS_EmptySet DEF Bk!BkInit, Bk!IsFiniteSet, IsFiniteSet
<1>6. Bk!BkTypeOK
  BY <1>4, <1>5 DEF Bk!BkInit, Bk!BkTypeOK
<1>7. Bk!BkOneAfterAnother /\ Bk!BkGhostsAreAwaited
  BY <1>4 DEF Bk!BkInit, Bk!BkOneAfterAnother, Bk!BkGhostsAreAwaited
<1>8. Bk!BkFilesOwn /\ Bk!BkAddsAnew /\ Bk!AddNeverOverwrites
  BY DEF Bk!BkInit, Bk!BkFilesOwn, Bk!BkAddsAnew, Bk!AddNeverOverwrites
<1>9. QED  BY <1>6, <1>7, <1>8 DEF Bk!BkInv

LEMMA BackupsFinite == \A S : Bk!IsFiniteSet(S) <=> IsFiniteSet(S)
  BY DEF Bk!IsFiniteSet, IsFiniteSet

LEMMA BackupsCardinality == \A S : Bk!Cardinality(S) = Cardinality(S)
  BY DEF Bk!Cardinality, Cardinality

(* Downloads and restores, which leave the lists and the form alone.         *)
LEMMA BackupsOperation ==
  ASSUME Bk!BkInv, v2' # none => v2' \in Bk!BkUis, v4' \in Nat, v5' \in BOOLEAN,
         v5' \/ Bk!BkOneAfterAnother',
         v6' = v6, UNCHANGED Bk!bkListVars, UNCHANGED Bk!bkDriveVars, UNCHANGED Bk!bkFormVars
  PROVE  Bk!BkInv'
<1>1. UNCHANGED <<v6, v7, v8, v9, v10, v11, v12, v13, v14, v15, v16>>
  BY DEF Bk!bkListVars, Bk!bkDriveVars, Bk!bkFormVars
<1>2. Bk!BkTypeOK'
  BY <1>1 DEF Bk!BkInv, Bk!BkTypeOK
<1>3. Bk!BkGhostsAreAwaited' /\ Bk!BkFilesOwn' /\ Bk!BkAddsAnew' /\ Bk!AddNeverOverwrites'
  BY <1>1 DEF Bk!BkInv, Bk!BkGhostsAreAwaited, Bk!BkFilesOwn, Bk!BkAddsAnew, Bk!AddNeverOverwrites
<1>4. QED  BY <1>2, <1>3 DEF Bk!BkInv

LEMMA BackupsOpStep ==
  ASSUME Bk!BkInv, Bk!BkOpNext
  PROVE  Bk!BkInv'
<1>0. /\ v2 # none => v2 \in Bk!BkUis
      /\ v4 \in Nat /\ v5 \in BOOLEAN /\ (v5 \/ Bk!BkOneAfterAnother)
  BY DEF Bk!BkInv, Bk!BkTypeOK
<1>1. CASE Bk!BkStart
  <2>1. PICK n : n = v4'
    OBVIOUS
  <2>2. /\ v2 = none /\ n = v4 + 1 /\ v4' = n /\ v1' = v1 \cup {n}
        /\ v2' = [op |-> n, phase |-> "running"] /\ UNCHANGED <<v3, v5, v6>>
        /\ UNCHANGED Bk!bkListVars /\ UNCHANGED Bk!bkDriveVars /\ UNCHANGED Bk!bkFormVars
    BY <1>1, <2>1 DEF Bk!BkStart, Bk!BkStartable, Bk!BkFree
  <2>3. PICK ui : ui = [op |-> n, phase |-> "running"]
    OBVIOUS
  <2>4. ui \in Bk!BkUis /\ ui # none /\ ui.phase = "running" /\ n \in Nat
    BY <1>0, <2>2, <2>3, PagesAssumption DEF Bk!BkUis
  <2>5. v5' \/ Bk!BkOneAfterAnother'
    BY <1>0, <2>2, <2>3, <2>4 DEF Bk!BkOneAfterAnother
  <2>6. QED  BY <1>0, <2>2, <2>3, <2>4, <2>5, BackupsOperation
<1>2. ASSUME NEW op \in 1..MaxMade, Bk!BkFinish(op) PROVE Bk!BkInv'
  <2>1. /\ op \in v1 /\ v1' = v1 \ {op} /\ v3' = v3 \cup {op}
        /\ v2' = IF v2 = none THEN none ELSE [v2 EXCEPT !.phase = "ended"]
        /\ UNCHANGED <<v4, v5, v6>>
        /\ UNCHANGED Bk!bkListVars /\ UNCHANGED Bk!bkDriveVars /\ UNCHANGED Bk!bkFormVars
    BY <1>2 DEF Bk!BkFinish
  <2>2. PICK ui : ui = [v2 EXCEPT !.phase = "ended"]
    OBVIOUS
  <2>3. v2 # none => ui \in Bk!BkUis /\ ui # none /\ ui.phase = "ended"
    BY <1>0, <2>2, PagesAssumption DEF Bk!BkUis
  <2>4. v5' \/ Bk!BkOneAfterAnother'
    BY <1>0, <2>1, <2>2, <2>3 DEF Bk!BkOneAfterAnother
  <2>5. QED  BY <1>0, <2>1, <2>2, <2>3, <2>4, BackupsOperation
<1>3. ASSUME NEW op \in 1..MaxMade, Bk!BkTimer(op) PROVE Bk!BkInv'
  <2>1. /\ op \in v3 /\ v3' = v3 \ {op} /\ v2' = none /\ UNCHANGED <<v1, v4, v5, v6>>
        /\ UNCHANGED Bk!bkListVars /\ UNCHANGED Bk!bkDriveVars /\ UNCHANGED Bk!bkFormVars
    BY <1>3 DEF Bk!BkTimer
  <2>2. v5' \/ Bk!BkOneAfterAnother'
    BY <1>0, <2>1 DEF Bk!BkOneAfterAnother
  <2>3. QED  BY <1>0, <2>1, <2>2, BackupsOperation
<1>4. CASE Bk!BkClose
  <2>1. /\ v2' = none /\ v5' = TRUE /\ v4' = v4 /\ v6' = v6
        /\ UNCHANGED Bk!bkListVars /\ UNCHANGED Bk!bkDriveVars /\ UNCHANGED Bk!bkFormVars
    BY <1>4 DEF Bk!BkClose
  <2>2. QED  BY <1>0, <2>1, BackupsOperation
<1>5. QED  BY <1>1, <1>2, <1>3, <1>4 DEF Bk!BkOpNext

(* The form of a schedule.                                                   *)
LEMMA BackupsForm ==
  ASSUME Bk!BkInv, v14' # none => v14' \in Bk!BkForms, v15' \subseteq Bk!BkForms,
         Bk!BkAddsAnew', v16' = v16,
         UNCHANGED Bk!bkOpVars, v6' = v6, UNCHANGED Bk!bkListVars, UNCHANGED Bk!bkDriveVars
  PROVE  Bk!BkInv'
<1>1. UNCHANGED <<v1, v2, v3, v4, v5, v6, v7, v8, v9, v10, v11, v12, v13, v16>>
  BY DEF Bk!bkOpVars, Bk!bkListVars, Bk!bkDriveVars
<1>2. Bk!BkTypeOK'
  BY <1>1 DEF Bk!BkInv, Bk!BkTypeOK
<1>3. (v5' \/ Bk!BkOneAfterAnother') /\ Bk!BkFilesOwn' /\ Bk!AddNeverOverwrites'
  BY <1>1 DEF Bk!BkInv, Bk!BkOneAfterAnother, Bk!BkFilesOwn, Bk!AddNeverOverwrites
<1>4. Bk!BkGhostsAreAwaited'
  BY <1>1 DEF Bk!BkInv, Bk!BkGhostsAreAwaited
<1>5. QED  BY <1>2, <1>3, <1>4 DEF Bk!BkInv

LEMMA BackupsFormStep ==
  ASSUME Bk!BkInv, Bk!BkFormNext
  PROVE  Bk!BkInv'
<1>0. /\ (v14 # none => v14 \in Bk!BkForms) /\ v15 \subseteq Bk!BkForms /\ Bk!BkAddsAnew
  BY DEF Bk!BkInv, Bk!BkTypeOK
<1>1. ASSUME NEW id \in 1..2, Bk!BkEditSchedule(id) PROVE Bk!BkInv'
  <2>1. /\ v14' = [id |-> id, adding |-> FALSE] /\ UNCHANGED <<v15, v16, v6>>
        /\ UNCHANGED Bk!bkOpVars /\ UNCHANGED Bk!bkListVars /\ UNCHANGED Bk!bkDriveVars
    BY <1>1 DEF Bk!BkEditSchedule
  <2>2. v14' \in Bk!BkForms /\ ~v14'.adding
    BY <2>1 DEF Bk!BkForms
  <2>3. Bk!BkAddsAnew'
    BY <1>0, <2>1, <2>2 DEF Bk!BkAddsAnew
  <2>4. QED  BY <1>0, <2>1, <2>2, <2>3, BackupsForm
<1>2. CASE Bk!BkAddSchedule
  <2>1. /\ v14' = [id |-> 0, adding |-> TRUE] /\ UNCHANGED <<v15, v16, v6>>
        /\ UNCHANGED Bk!bkOpVars /\ UNCHANGED Bk!bkListVars /\ UNCHANGED Bk!bkDriveVars
    BY <1>2 DEF Bk!BkAddSchedule, Bk!BkFormToAdd, Bk!BkBlankForm
  <2>2. v14' \in Bk!BkForms /\ v14'.id = 0
    BY <2>1 DEF Bk!BkForms
  <2>3. Bk!BkAddsAnew'
    BY <1>0, <2>1, <2>2 DEF Bk!BkAddsAnew
  <2>4. QED  BY <1>0, <2>1, <2>2, <2>3, BackupsForm
<1>3. CASE Bk!BkSaveSchedule
  <2>1. /\ v14 # none /\ v15' = {v14} /\ UNCHANGED <<v14, v16, v6>>
        /\ UNCHANGED Bk!bkOpVars /\ UNCHANGED Bk!bkListVars /\ UNCHANGED Bk!bkDriveVars
    BY <1>3 DEF Bk!BkSaveSchedule
  <2>2. Bk!BkAddsAnew'
    BY <1>0, <2>1 DEF Bk!BkAddsAnew
  <2>3. QED  BY <1>0, <2>1, <2>2, BackupsForm
<1>4. ASSUME NEW f \in v15, Bk!BkScheduleSaved(f) PROVE Bk!BkInv'
  <2>1. f.adding => f.id = 0
    BY <1>0 DEF Bk!BkAddsAnew
  <2>2. /\ v14' \in {v14, none} /\ v15' = {} /\ v16' = v16 /\ v6' = v6
        /\ UNCHANGED Bk!bkOpVars /\ UNCHANGED Bk!bkListVars /\ UNCHANGED Bk!bkDriveVars
    BY <1>4, <2>1 DEF Bk!BkScheduleSaved
  <2>3. Bk!BkAddsAnew'
    BY <1>0, <2>2 DEF Bk!BkAddsAnew
  <2>4. QED  BY <1>0, <2>2, <2>3, BackupsForm
<1>5. CASE Bk!BkCancelForm
  <2>1. /\ v14' = none /\ UNCHANGED <<v15, v16, v6>>
        /\ UNCHANGED Bk!bkOpVars /\ UNCHANGED Bk!bkListVars /\ UNCHANGED Bk!bkDriveVars
    BY <1>5 DEF Bk!BkCancelForm
  <2>2. Bk!BkAddsAnew'
    BY <1>0, <2>1 DEF Bk!BkAddsAnew
  <2>3. QED  BY <1>0, <2>1, <2>2, BackupsForm
<1>6. QED  BY <1>1, <1>2, <1>3, <1>4, <1>5 DEF Bk!BkFormNext

(* The list, which leaves the operations and the form alone.                 *)
LEMMA BackupsList ==
  ASSUME Bk!BkInv, v6' \in Sites, v9' \in Sites \cup {none},
         v7' \subseteq Bk!BkBackups, IsFiniteSet(v7'),
         v8' \in [Sites -> [rows : SUBSET Bk!BkBackups, state : {"unread", "stale", "fresh"}]],
         v10' # none => v10' \in Bk!BkCreations, Bk!BkGhostsAreAwaited',
         UNCHANGED Bk!bkOpVars, UNCHANGED Bk!bkDriveVars, UNCHANGED Bk!bkFormVars
  PROVE  Bk!BkInv'
<1>1. UNCHANGED <<v1, v2, v3, v4, v5, v11, v12, v13, v14, v15, v16>>
  BY DEF Bk!bkOpVars, Bk!bkDriveVars, Bk!bkFormVars
<1>2. Bk!IsFiniteSet(v7')
  BY BackupsFinite
<1>3. Bk!BkTypeOK'
  BY <1>1, <1>2 DEF Bk!BkInv, Bk!BkTypeOK
<1>4. (v5' \/ Bk!BkOneAfterAnother') /\ Bk!BkFilesOwn' /\ Bk!BkAddsAnew' /\ Bk!AddNeverOverwrites'
  BY <1>1 DEF Bk!BkInv, Bk!BkOneAfterAnother, Bk!BkFilesOwn, Bk!BkAddsAnew, Bk!AddNeverOverwrites
<1>5. QED  BY <1>3, <1>4 DEF Bk!BkInv

LEMMA BackupsTypes ==
  ASSUME Bk!BkInv
  PROVE  /\ v6 \in Sites /\ v9 \in Sites \cup {none}
         /\ v7 \subseteq Bk!BkBackups /\ IsFiniteSet(v7) /\ Cardinality(v7) \in Nat
         /\ v8 \in [Sites -> [rows : SUBSET Bk!BkBackups, state : {"unread", "stale", "fresh"}]]
         /\ (v10 # none => v10 \in Bk!BkCreations) /\ Bk!BkGhostsAreAwaited
<1>1. Bk!IsFiniteSet(v7)
  BY DEF Bk!BkInv, Bk!BkTypeOK
<1>2. IsFiniteSet(v7) /\ Cardinality(v7) \in Nat
  BY <1>1, BackupsFinite, FS_CardinalityType
<1>3. QED  BY <1>2 DEF Bk!BkInv, Bk!BkTypeOK

(* A list of which the rows are others, and which was read.                  *)
LEMMA BackupsListRow ==
  ASSUME NEW old \in [rows : SUBSET Bk!BkBackups, state : {"unread", "stale", "fresh"}],
         NEW rows \in SUBSET Bk!BkBackups
  PROVE  /\ [old EXCEPT !.rows = rows] \in [rows : SUBSET Bk!BkBackups, state : {"unread", "stale", "fresh"}]
         /\ [old EXCEPT !.rows = rows].rows = rows /\ [old EXCEPT !.rows = rows].state = old.state
  OBVIOUS

LEMMA BackupsShown ==
  ASSUME Bk!BkInv, NEW s \in Sites, Bk!BkShow(s)
  PROVE  v6' \in Sites /\ v9' \in Sites \cup {none}
  BY DEF Bk!BkShow

LEMMA BackupsBegun ==
  ASSUME Bk!BkInv, NEW s \in Sites, Bk!BkCreateBackup(s)
  PROVE  Bk!BkInv'
<1>1. PICK ghost : ghost = Bk!BkOptimistic(s)
  OBVIOUS
<1>2. ghost \in Bk!BkBackups
  BY <1>1 DEF Bk!BkOptimistic, Bk!BkBackups
<1>3. /\ v8' = [x \in Sites |-> IF v8[x].state # "unread"
                                THEN [v8[x] EXCEPT !.rows = v8[x].rows \cup {ghost}] ELSE v8[x]]
      /\ v7' = v7 /\ UNCHANGED Bk!bkOpVars /\ UNCHANGED Bk!bkDriveVars /\ UNCHANGED Bk!bkFormVars
  BY <1>1 DEF Bk!BkCreateBackup, Bk!BkRead
<1>4. v6' \in Sites /\ v9' \in Sites \cup {none}
  BY BackupsTypes, BackupsShown DEF Bk!BkCreateBackup
<1>5. PICK c : c = [site |-> s, id |-> 0]
  OBVIOUS
<1>6. c \in Bk!BkCreations /\ c # none
  BY <1>5, PagesAssumption DEF Bk!BkCreations
<1>7. v10' = c
  BY <1>5 DEF Bk!BkCreateBackup, Bk!BkSubmit
<1>8. ASSUME NEW x \in Sites
      PROVE  /\ v8'[x] \in [rows : SUBSET Bk!BkBackups, state : {"unread", "stale", "fresh"}]
             /\ v8'[x].state = v8[x].state
             /\ v8[x].state = "unread" => v8'[x].rows = v8[x].rows
  <2>1. v8[x] \in [rows : SUBSET Bk!BkBackups, state : {"unread", "stale", "fresh"}]
    BY BackupsTypes
  <2>2. v8[x].rows \cup {ghost} \in SUBSET Bk!BkBackups
    BY <1>2, <2>1
  <2>3. v8'[x] = IF v8[x].state # "unread" THEN [v8[x] EXCEPT !.rows = v8[x].rows \cup {ghost}] ELSE v8[x]
    BY <1>3
  <2>4. QED  BY <2>1, <2>2, <2>3, BackupsListRow
<1>9. v8' \in [Sites -> [rows : SUBSET Bk!BkBackups, state : {"unread", "stale", "fresh"}]]
  BY <1>3, <1>8
<1>10. Bk!BkGhostsAreAwaited'
  BY <1>3, <1>6, <1>7, <1>8, BackupsTypes DEF Bk!BkGhostsAreAwaited
<1>11. QED  BY <1>3, <1>4, <1>6, <1>7, <1>9, <1>10, BackupsTypes, BackupsList

LEMMA BackupsStored ==
  ASSUME Bk!BkInv, Bk!BkStore
  PROVE  Bk!BkInv'
<1>1. PICK n : n = Cardinality(v7) + 1
  OBVIOUS
<1>2. n \in Nat /\ n # 0
  BY <1>1, BackupsTypes
<1>3. PICK c : c = [v10 EXCEPT !.id = n]
  OBVIOUS
<1>4. v10 \in Bk!BkCreations /\ v10.site \in Sites
  BY BackupsTypes DEF Bk!BkStore, Bk!BkCreations
<1>5. c \in Bk!BkCreations /\ c.id = n /\ c # none
  BY <1>2, <1>3, <1>4, PagesAssumption DEF Bk!BkCreations
<1>6. v10' = c
  BY <1>1, <1>3, BackupsCardinality DEF Bk!BkStore
<1>7. PICK row : row = [id |-> n, site |-> v10.site, active |-> TRUE]
  OBVIOUS
<1>8. row \in Bk!BkBackups /\ row.id # 0
  BY <1>2, <1>4, <1>7 DEF Bk!BkBackups
<1>9. /\ v7' = v7 \cup {row} /\ UNCHANGED <<v6, v8, v9>>
      /\ UNCHANGED Bk!bkOpVars /\ UNCHANGED Bk!bkDriveVars /\ UNCHANGED Bk!bkFormVars
  BY <1>5, <1>6, <1>7 DEF Bk!BkStore
<1>10. IsFiniteSet(v7')
  BY <1>9, BackupsTypes, FS_AddElement
<1>11. Bk!BkGhostsAreAwaited'
  BY <1>5, <1>6, <1>8, <1>9, BackupsTypes DEF Bk!BkGhostsAreAwaited
<1>12. QED  BY <1>5, <1>6, <1>8, <1>9, <1>10, <1>11, BackupsTypes, BackupsList

LEMMA BackupsCreated ==
  ASSUME Bk!BkInv, Bk!BkCreated
  PROVE  Bk!BkInv'
<1>1. PICK made : made = [id |-> v10.id, site |-> v10.site, active |-> TRUE]
  OBVIOUS
<1>2. v10 \in Bk!BkCreations /\ v10.id # 0
  BY BackupsTypes DEF Bk!BkCreated
<1>3. made \in Bk!BkBackups /\ made.id # 0
  BY <1>1, <1>2 DEF Bk!BkBackups, Bk!BkCreations
<1>4. /\ v8' = [x \in Sites |->
                  IF v8[x].state # "unread"
                  THEN [rows |-> {r \in v8[x].rows : r.id > 0 /\ r.id # made.id} \cup {made},
                        state |-> "stale"]
                  ELSE v8[x]]
      /\ v9' = v6 /\ v10' = none /\ UNCHANGED <<v6, v7>>
      /\ UNCHANGED Bk!bkOpVars /\ UNCHANGED Bk!bkDriveVars /\ UNCHANGED Bk!bkFormVars
  BY <1>1 DEF Bk!BkCreated, Bk!BkRead
<1>5. ASSUME NEW x \in Sites
      PROVE  /\ v8'[x] \in [rows : SUBSET Bk!BkBackups, state : {"unread", "stale", "fresh"}]
             /\ \A r \in v8'[x].rows : r.id # 0
  <2>1. v8[x] \in [rows : SUBSET Bk!BkBackups, state : {"unread", "stale", "fresh"}]
    BY BackupsTypes
  <2>2. CASE v8[x].state = "unread"
    <3>1. v8'[x] = v8[x]
      BY <1>4, <2>2
    <3>2. QED  BY <2>1, <2>2, <3>1, BackupsTypes DEF Bk!BkGhostsAreAwaited
  <2>3. CASE v8[x].state # "unread"
    <3>1. PICK rows : rows = {r \in v8[x].rows : r.id > 0 /\ r.id # made.id} \cup {made}
      OBVIOUS
    <3>2. rows \in SUBSET Bk!BkBackups /\ \A r \in rows : r.id # 0
      BY <1>3, <2>1, <3>1 DEF Bk!BkBackups
    <3>3. v8'[x] = [rows |-> rows, state |-> "stale"]
      BY <1>4, <2>3, <3>1
    <3>4. QED  BY <3>2, <3>3
  <2>4. QED  BY <2>2, <2>3
<1>6. v8' \in [Sites -> [rows : SUBSET Bk!BkBackups, state : {"unread", "stale", "fresh"}]]
  BY <1>4, <1>5
<1>7. Bk!BkGhostsAreAwaited'
  BY <1>4, <1>5, BackupsTypes DEF Bk!BkGhostsAreAwaited
<1>8. QED  BY <1>4, <1>6, <1>7, BackupsTypes, BackupsList

LEMMA BackupsNotCreated ==
  ASSUME Bk!BkInv, Bk!BkCreateFails
  PROVE  Bk!BkInv'
<1>1. /\ v8' = [x \in Sites |-> [v8[x] EXCEPT !.rows = {r \in v8[x].rows : r.id # 0}]]
      /\ v10' = none /\ UNCHANGED <<v6, v7, v9>>
      /\ UNCHANGED Bk!bkOpVars /\ UNCHANGED Bk!bkDriveVars /\ UNCHANGED Bk!bkFormVars
  BY DEF Bk!BkCreateFails, Bk!BkUndo, Bk!BkRowBack
<1>2. ASSUME NEW x \in Sites
      PROVE  /\ v8'[x] \in [rows : SUBSET Bk!BkBackups, state : {"unread", "stale", "fresh"}]
             /\ \A r \in v8'[x].rows : r.id # 0
  <2>1. v8[x] \in [rows : SUBSET Bk!BkBackups, state : {"unread", "stale", "fresh"}]
    BY BackupsTypes
  <2>2. PICK rows : rows = {r \in v8[x].rows : r.id # 0}
    OBVIOUS
  <2>3. rows \in SUBSET Bk!BkBackups
    BY <2>1, <2>2
  <2>4. v8'[x] = [v8[x] EXCEPT !.rows = rows]
    BY <1>1, <2>2
  <2>5. QED  BY <2>1, <2>2, <2>3, <2>4, BackupsListRow
<1>3. v8' \in [Sites -> [rows : SUBSET Bk!BkBackups, state : {"unread", "stale", "fresh"}]]
  BY <1>1, <1>2
<1>4. Bk!BkGhostsAreAwaited'
  BY <1>1, <1>2, BackupsTypes DEF Bk!BkGhostsAreAwaited
<1>5. QED  BY <1>1, <1>3, <1>4, BackupsTypes, BackupsList

LEMMA BackupsListed ==
  ASSUME Bk!BkInv, Bk!BkListed
  PROVE  Bk!BkInv'
<1>1. v9 \in Sites
  BY BackupsTypes DEF Bk!BkListed
<1>2. PICK list : list = [rows |-> Bk!BkOfSite(v9), state |-> "fresh"]
  OBVIOUS
<1>3. /\ list \in [rows : SUBSET Bk!BkBackups, state : {"unread", "stale", "fresh"}]
      /\ \A r \in list.rows : r.id # 0
  BY <1>2, BackupsTypes DEF Bk!BkOfSite, Bk!BkGhostsAreAwaited
<1>4. /\ v8' = [v8 EXCEPT ![v9] = list] /\ v9' = none /\ UNCHANGED <<v6, v7, v10>>
      /\ UNCHANGED Bk!bkOpVars /\ UNCHANGED Bk!bkDriveVars /\ UNCHANGED Bk!bkFormVars
  BY <1>2 DEF Bk!BkListed
<1>5. v8' \in [Sites -> [rows : SUBSET Bk!BkBackups, state : {"unread", "stale", "fresh"}]]
  BY <1>1, <1>3, <1>4, BackupsTypes
<1>6. v8'[v9] = list /\ \A x \in Sites : x # v9 => v8'[x] = v8[x]
  BY <1>1, <1>4, BackupsTypes
<1>7. Bk!BkGhostsAreAwaited'
  BY <1>3, <1>4, <1>6, BackupsTypes DEF Bk!BkGhostsAreAwaited
<1>8. QED  BY <1>4, <1>5, <1>7, BackupsTypes, BackupsList

LEMMA BackupsDone ==
  ASSUME Bk!BkInv, NEW r \in v7, Bk!BkDone(r)
  PROVE  Bk!BkInv'
<1>1. PICK q : q = [r EXCEPT !.active = FALSE]
  OBVIOUS
<1>2. q \in Bk!BkBackups /\ q.id = r.id
  BY <1>1, BackupsTypes DEF Bk!BkBackups
<1>3. /\ v7' = (v7 \ {r}) \cup {q} /\ UNCHANGED <<v6, v8, v9, v10>>
      /\ UNCHANGED Bk!bkOpVars /\ UNCHANGED Bk!bkDriveVars /\ UNCHANGED Bk!bkFormVars
  BY <1>1 DEF Bk!BkDone
<1>4. IsFiniteSet(v7')
  BY <1>3, BackupsTypes, FS_AddElement, FS_RemoveElement
<1>5. Bk!BkGhostsAreAwaited'
  BY <1>2, <1>3, BackupsTypes DEF Bk!BkGhostsAreAwaited
<1>6. QED  BY <1>2, <1>3, <1>4, <1>5, BackupsTypes, BackupsList

(* The files on Drive.                                                       *)
LEMMA BackupsFiles ==
  ASSUME Bk!BkInv, Bk!BkNamesRead \/ Bk!BkFilesRead
  PROVE  Bk!BkInv'
<1>1. UNCHANGED <<v1, v2, v3, v4, v5, v6, v7, v8, v9, v10, v14, v15, v16>>
  BY DEF Bk!BkNamesRead, Bk!BkFilesRead, Bk!bkOpVars, Bk!bkListVars, Bk!bkFormVars
<1>2. v11 \in BOOLEAN /\ v13 \in BOOLEAN /\ Bk!BkFilesOwn /\ v6 \in Sites
  BY DEF Bk!BkInv, Bk!BkTypeOK
<1>3. v11' \in BOOLEAN /\ v13' \in BOOLEAN /\ Bk!BkFilesOwn'
  <2>1. CASE Bk!BkNamesRead
    BY <1>2, <2>1 DEF Bk!BkNamesRead, Bk!BkFilesOwn
  <2>2. CASE Bk!BkFilesRead
    <3>1. /\ v12' = [v12 EXCEPT ![v6] = IF v11 THEN {v6} ELSE Sites]
          /\ v13' = (v13 \/ ~v11) /\ v11' = v11
      BY <2>2 DEF Bk!BkFilesRead, Bk!BkFilesKey, Bk!BkPerSite
    <3>2. v11' \in BOOLEAN /\ v13' \in BOOLEAN
      BY <1>2, <3>1
    <3>3. CASE v13 \/ ~v11
      <4>1. v13'
        BY <3>1, <3>3
      <4>2. QED  BY <3>2, <4>1 DEF Bk!BkFilesOwn
    <3>4. CASE ~v13 /\ v11
      <4>1. v12' = [v12 EXCEPT ![v6] = {v6}]
        BY <3>1, <3>4
      <4>2. \A s \in Sites : v12'[s] \in {v12[s], {s}}
        BY <4>1
      <4>3. QED  BY <1>2, <3>2, <3>4, <4>2 DEF Bk!BkFilesOwn
    <3>5. QED  BY <3>2, <3>3, <3>4
  <2>3. QED  BY <2>1, <2>2
<1>4. Bk!BkTypeOK'
  BY <1>1, <1>3 DEF Bk!BkInv, Bk!BkTypeOK
<1>5. (v5' \/ Bk!BkOneAfterAnother') /\ Bk!BkAddsAnew' /\ Bk!AddNeverOverwrites'
  BY <1>1 DEF Bk!BkInv, Bk!BkOneAfterAnother, Bk!BkAddsAnew, Bk!AddNeverOverwrites
<1>6. Bk!BkGhostsAreAwaited'
  BY <1>1 DEF Bk!BkInv, Bk!BkGhostsAreAwaited
<1>7. QED  BY <1>3, <1>4, <1>5, <1>6 DEF Bk!BkInv

LEMMA BackupsStep == Bk!BkInv /\ (Bk!BkOpNext \/ Bk!BkListNext \/ Bk!BkFormNext) => Bk!BkInv'
<1> SUFFICES ASSUME Bk!BkInv, Bk!BkOpNext \/ Bk!BkListNext \/ Bk!BkFormNext PROVE Bk!BkInv'
  OBVIOUS
<1>1. ASSUME NEW s \in Sites, Bk!BkPick(s) PROVE Bk!BkInv'
  <2>1. /\ UNCHANGED <<v7, v8, v10>> /\ Bk!BkShow(s)
        /\ UNCHANGED Bk!bkOpVars /\ UNCHANGED Bk!bkDriveVars /\ UNCHANGED Bk!bkFormVars
    BY <1>1 DEF Bk!BkPick
  <2>2. Bk!BkGhostsAreAwaited'
    BY <2>1, BackupsTypes DEF Bk!BkGhostsAreAwaited
  <2>3. QED  BY <2>1, <2>2, BackupsTypes, BackupsShown, BackupsList
<1>2. CASE Bk!BkPoll
  <2>1. /\ UNCHANGED <<v6, v7, v8, v10>> /\ v9' = v6
        /\ UNCHANGED Bk!bkOpVars /\ UNCHANGED Bk!bkDriveVars /\ UNCHANGED Bk!bkFormVars
    BY <1>2 DEF Bk!BkPoll
  <2>2. Bk!BkGhostsAreAwaited'
    BY <2>1, BackupsTypes DEF Bk!BkGhostsAreAwaited
  <2>3. QED  BY <2>1, <2>2, BackupsTypes, BackupsList
<1>3. CASE Bk!BkListNext
  BY <1>1, <1>2, <1>3, BackupsBegun, BackupsListed, BackupsStored, BackupsCreated,
     BackupsNotCreated, BackupsDone, BackupsFiles DEF Bk!BkListNext
<1>4. QED  BY <1>3, BackupsOpStep, BackupsFormStep

LEMMA BackupsHolds ==
  ASSUME Bk!BkInv
  PROVE  Bk!OneOperation /\ Bk!NoGhostRow /\ Bk!FilesOfPicked /\ Bk!AddNeverOverwrites
<1>1. Bk!OneOperation
  <2>1. CASE v5
    BY <2>1 DEF Bk!OneOperation
  <2>2. CASE ~v5
    <3>1. Bk!BkOneAfterAnother
      BY <2>2 DEF Bk!BkInv
    <3>2. Cardinality(v1) <= 1
      <4>1. v1 = {} \/ \E op : v1 = {op}
        BY <3>1 DEF Bk!BkOneAfterAnother
      <4>2. CASE v1 = {}
        BY <4>2, FS_EmptySet
      <4>3. ASSUME NEW op, v1 = {op} PROVE Cardinality(v1) <= 1
        <5>1. Cardinality({op}) = 1
          BY FS_Singleton
        <5>2. QED  BY <4>3, <5>1
      <4>4. QED  BY <4>1, <4>2, <4>3
    <3>3. v1 # {} <=> v2 # none /\ v2.phase = "running"
      BY <3>1 DEF Bk!BkOneAfterAnother
    <3>4. QED  BY <3>2, <3>3, BackupsCardinality DEF Bk!OneOperation
  <2>3. QED  BY <2>1, <2>2 DEF Bk!BkInv, Bk!BkTypeOK
<1>2. Bk!NoGhostRow
  BY BackupsTypes DEF Bk!NoGhostRow, Bk!BkGhostsAreAwaited
<1>3. Bk!FilesOfPicked
  BY DEF Bk!BkInv, Bk!BkTypeOK, Bk!BkFilesOwn, Bk!FilesOfPicked, Bk!BkFilesKey, Bk!BkPerSite
<1>4. QED  BY <1>1, <1>2, <1>3 DEF Bk!BkInv

-----------------------------------------------------------------------------
(* The plugins.  v1: the modules, v2: their list, v3: the active ones, v4:   *)
(* requests under way, v5: the account under way, v6: requests so far, v7:   *)
(* an answer was lost; v8: the module of the wizard, v10: its form, v12: a   *)
(* discovery on show, v13: what is under way, v14: a discovery was answered  *)
(* in another wizard, v15: the migrations, v16: their list.                  *)

LEMMA PluginsFinite == \A S : Pl!IsFiniteSet(S) <=> IsFiniteSet(S)
  BY DEF Pl!IsFiniteSet, IsFiniteSet

LEMMA PluginsCardinality == \A S : Pl!Cardinality(S) = Cardinality(S)
  BY DEF Pl!Cardinality, Cardinality

LEMMA PluginsOffered == DOMAIN Pl!PlOffered = {"install", "activate", "deactivate"}
  BY DEF Pl!PlOffered

LEMMA PluginsInit == Pl!PlInit => Pl!PlInv
<1> SUFFICES ASSUME Pl!PlInit PROVE Pl!PlInv
  OBVIOUS
<1>1. v1 \in Pl!PlStatuses
  BY DEF Pl!PlInit, Pl!PlStatuses
<1>2. PICK status \in Pl!PlStatuses : status = v1
  BY <1>1
<1>3. v2 = [fresh |-> TRUE, rows |-> status]
  BY <1>2 DEF Pl!PlInit
<1>4. v2 \in [fresh : BOOLEAN, rows : Pl!PlStatuses] /\ v2.rows = v1
  BY <1>2, <1>3
<1>5. Pl!PlStoreTypes
  BY <1>1, <1>4 DEF Pl!PlInit, Pl!PlStoreTypes
<1>6. /\ v15 = {} /\ Pl!IsFiniteSet(v15) /\ Pl!Cardinality(v15) = 0
  BY FS_EmptySet, PluginsFinite, PluginsCardinality DEF Pl!PlInit
<1>7. /\ v10 \in [path : Pl!PlOwn, secret : Pl!PlOwn, dry : BOOLEAN]
      /\ v16 \in [fresh : BOOLEAN, number : Nat] /\ v16.number = 0
  BY DEF Pl!PlInit, Pl!PlFormEmpty, Pl!PlOwn
<1>8. Pl!PlWizardTypes
  BY <1>6, <1>7 DEF Pl!PlInit, Pl!PlWizardTypes, Pl!PlOwn
<1>9. Pl!PlListsLead
  BY <1>4 DEF Pl!PlInit, Pl!PlListsLead
<1>10. Pl!PlRunsLead /\ Pl!PlFilledIn
  BY <1>6, <1>7 DEF Pl!PlInit, Pl!PlRunsLead, Pl!PlFilledIn
<1>11. QED  BY <1>5, <1>8, <1>9, <1>10 DEF Pl!PlInv

-----------------------------------------------------------------------------
(* The store, which leaves the wizard alone.                                 *)

LEMMA PluginsStore ==
  ASSUME Pl!PlInv, v6' \in Nat, UNCHANGED Pl!plWizardVars, Pl!PlStoreTypes', Pl!PlListsLead'
  PROVE  Pl!PlInv'
<1>1. UNCHANGED <<v8, v10, v12, v13, v14, v15, v16>>
  BY DEF Pl!plWizardVars
<1>2. Pl!PlWizardTypes'
  BY <1>1 DEF Pl!PlInv, Pl!PlWizardTypes
<1>3. Pl!PlRunsLead' /\ Pl!PlFilledIn'
  BY <1>1 DEF Pl!PlInv, Pl!PlRunsLead, Pl!PlFilledIn
<1>4. QED  BY <1>2, <1>3 DEF Pl!PlInv

LEMMA PluginsStoreTypes ==
  ASSUME Pl!PlInv
  PROVE  /\ v1 \in [Sites -> {"none", "installed", "active"}]
         /\ v2 \in [fresh : BOOLEAN, rows : Pl!PlStatuses]
         /\ (v5 # none => v5 \in SUBSET Sites) /\ v6 \in Nat /\ v7 \in BOOLEAN
         /\ v4 \subseteq [kind : DOMAIN Pl!PlOffered, of : Sites, done : BOOLEAN]
         /\ Pl!PlStoreTypes /\ Pl!PlListsLead
  BY DEF Pl!PlInv, Pl!PlStoreTypes, Pl!PlWizardTypes, Pl!PlStatuses

LEMMA PluginsCarriedOut ==
  ASSUME Pl!PlInv, NEW r \in v4, Pl!PlCarriedOut(r)
  PROVE  Pl!PlInv'
<1>0. r \in [kind : {"install", "activate", "deactivate"}, of : Sites, done : BOOLEAN]
  BY PluginsStoreTypes, PluginsOffered
<1>1. PICK q : q = [r EXCEPT !.done = TRUE]
  OBVIOUS
<1>2. /\ q \in [kind : DOMAIN Pl!PlOffered, of : Sites, done : BOOLEAN]
      /\ q.done /\ q.kind = r.kind
  BY <1>0, <1>1, PluginsOffered
<1>3. PICK s : s = Pl!PlStatusAfter(r)
  OBVIOUS
<1>4. /\ v1' = [v1 EXCEPT ![r.of] = s] /\ v4' = (v4 \ {r}) \cup {q} /\ ~r.done
      /\ UNCHANGED <<v2, v3, v5, v6, v7>> /\ UNCHANGED Pl!plWizardVars
  BY <1>1, <1>3 DEF Pl!PlCarriedOut
<1>5. /\ s \in {"none", "installed", "active"}
      /\ r.kind = "install" => (s = "active" <=> v1[r.of] = "active")
  BY <1>0, <1>3, PluginsStoreTypes DEF Pl!PlStatusAfter
<1>6. /\ v1' \in [Sites -> {"none", "installed", "active"}]
      /\ v1'[r.of] = s /\ \A m \in Sites : m # r.of => v1'[m] = v1[m]
  BY <1>0, <1>4, <1>5, PluginsStoreTypes
<1>7. r.kind = "install" => Pl!PlActive(v1') = Pl!PlActive(v1)
  BY <1>0, <1>5, <1>6 DEF Pl!PlActive
<1>8. Pl!PlStoreTypes'
  BY <1>2, <1>4, <1>6, PluginsStoreTypes DEF Pl!PlStoreTypes, Pl!PlStatuses
<1>9. Pl!PlListsLead'
  <2>1. \E x \in v4' : x.done
    BY <1>2, <1>4
  <2>2. ASSUME r.kind = "install", ~v7, \A x \in v4' : ~(x.done /\ x.kind \in Pl!PlRefreshing)
        PROVE  (IF v5' = none THEN v3' ELSE v5') = Pl!PlActive(v1')
    <3>1. \A x \in v4 : ~(x.done /\ x.kind \in Pl!PlRefreshing)
      BY <1>4, <2>2
    <3>2. (IF v5 = none THEN v3 ELSE v5) = Pl!PlActive(v1)
      BY <2>2, <3>1, PluginsStoreTypes DEF Pl!PlListsLead
    <3>3. QED  BY <1>4, <1>7, <2>2, <3>2
  <2>3. r.kind # "install" => \E x \in v4' : x.done /\ x.kind \in Pl!PlRefreshing
    BY <1>0, <1>2, <1>4 DEF Pl!PlRefreshing
  <2>4. QED  BY <1>4, <2>1, <2>2, <2>3 DEF Pl!PlListsLead
<1>10. v6' \in Nat
  BY <1>4, PluginsStoreTypes
<1>11. QED  BY <1>4, <1>8, <1>9, <1>10, PluginsStore

LEMMA PluginsAnswered ==
  ASSUME Pl!PlInv, NEW r \in v4, Pl!PlAnswered(r)
  PROVE  Pl!PlInv'
<1>1. PICK list : list = [v2 EXCEPT !.fresh = FALSE]
  OBVIOUS
<1>2. list \in [fresh : BOOLEAN, rows : Pl!PlStatuses] /\ ~list.fresh
  BY <1>1, PluginsStoreTypes
<1>3. /\ v4' = v4 \ {r} /\ v2' = list /\ UNCHANGED <<v1, v3, v6>> /\ UNCHANGED Pl!plWizardVars
  BY <1>1 DEF Pl!PlAnswered
<1>4. PICK active : active = Pl!PlActive(v1)
  OBVIOUS
<1>5. active \in SUBSET Sites /\ active # none
  BY <1>4, PagesAssumption DEF Pl!PlActive
<1>6. v6' \in Nat
  BY <1>3, PluginsStoreTypes
<1>7. CASE r.kind \in Pl!PlRefreshing
  <2>1. v5' = active /\ v7' = (v7 \/ v5 # none)
    BY <1>4, <1>7 DEF Pl!PlAnswered, Pl!PlRefreshed
  <2>2. Pl!PlStoreTypes'
    <3>1. v7' \in BOOLEAN
      BY <2>1
    <3>2. QED  BY <1>2, <1>3, <1>5, <2>1, <3>1, PluginsStoreTypes DEF Pl!PlStoreTypes
  <2>3. Pl!PlListsLead'
    BY <1>2, <1>3, <1>4, <1>5, <2>1 DEF Pl!PlListsLead
  <2>4. QED  BY <1>3, <1>6, <2>2, <2>3, PluginsStore
<1>8. CASE r.kind \notin Pl!PlRefreshing
  <2>1. UNCHANGED <<v5, v7>>
    BY <1>8 DEF Pl!PlAnswered, Pl!PlRefreshed
  <2>2. Pl!PlStoreTypes'
    BY <1>2, <1>3, <2>1, PluginsStoreTypes DEF Pl!PlStoreTypes
  <2>3. Pl!PlListsLead'
    BY <1>2, <1>3, <1>8, <2>1, PluginsStoreTypes DEF Pl!PlListsLead
  <2>4. QED  BY <1>3, <1>6, <2>2, <2>3, PluginsStore
<1>9. QED  BY <1>7, <1>8

LEMMA PluginsStoreStep ==
  ASSUME Pl!PlInv, Pl!PlStoreNext
  PROVE  Pl!PlInv'
<1>1. CASE Pl!PlReadStore
  <2>1. PICK status \in Pl!PlStatuses : status = v1
    BY PluginsStoreTypes DEF Pl!PlStoreTypes
  <2>2. /\ v2' = [fresh |-> TRUE, rows |-> status] /\ UNCHANGED <<v1, v3, v4, v5, v6, v7>>
        /\ UNCHANGED Pl!plWizardVars
    BY <1>1, <2>1 DEF Pl!PlReadStore
  <2>3. v2' \in [fresh : BOOLEAN, rows : Pl!PlStatuses] /\ v2'.rows = v1
    BY <2>1, <2>2
  <2>4. Pl!PlStoreTypes'
    BY <2>2, <2>3, PluginsStoreTypes DEF Pl!PlStoreTypes
  <2>5. Pl!PlListsLead'
    BY <2>2, <2>3, PluginsStoreTypes DEF Pl!PlListsLead
  <2>6. QED  BY <2>2, <2>4, <2>5, PluginsStoreTypes, PluginsStore
<1>2. ASSUME NEW m \in Sites, NEW kind \in DOMAIN Pl!PlOffered, Pl!PlClick(kind, m) PROVE Pl!PlInv'
  <2>1. PICK q : q = [kind |-> kind, of |-> m, done |-> FALSE]
    OBVIOUS
  <2>2. q \in [kind : DOMAIN Pl!PlOffered, of : Sites, done : BOOLEAN] /\ ~q.done
    BY <2>1
  <2>3. /\ v4' = v4 \cup {q} /\ v6' = v6 + 1 /\ UNCHANGED <<v1, v2, v3, v5, v7>>
        /\ UNCHANGED Pl!plWizardVars
    BY <1>2, <2>1 DEF Pl!PlClick
  <2>4. Pl!PlStoreTypes'
    BY <2>2, <2>3, PluginsStoreTypes DEF Pl!PlStoreTypes
  <2>5. Pl!PlListsLead'
    BY <2>2, <2>3, PluginsStoreTypes DEF Pl!PlListsLead
  <2>6. v6' \in Nat
    BY <2>3, PluginsStoreTypes
  <2>7. QED  BY <2>3, <2>4, <2>5, <2>6, PluginsStore
<1>3. ASSUME NEW r \in v4, Pl!PlFails(r) PROVE Pl!PlInv'
  <2>1. /\ v4' = v4 \ {r} /\ v7' = (v7 \/ r.done) /\ UNCHANGED <<v1, v2, v3, v5, v6>>
        /\ UNCHANGED Pl!plWizardVars
    BY <1>3 DEF Pl!PlFails
  <2>2. Pl!PlStoreTypes'
    <3>1. v7' \in BOOLEAN
      BY <2>1
    <3>2. QED  BY <2>1, <3>1, PluginsStoreTypes DEF Pl!PlStoreTypes
  <2>3. Pl!PlListsLead'
    BY <2>1, PluginsStoreTypes DEF Pl!PlListsLead
  <2>4. QED  BY <2>1, <2>2, <2>3, PluginsStoreTypes, PluginsStore
<1>4. CASE Pl!PlMeAnswered
  <2>1. /\ v5 # none /\ v3' = v5 /\ v5' = none /\ UNCHANGED <<v1, v2, v4, v6, v7>>
        /\ UNCHANGED Pl!plWizardVars
    BY <1>4 DEF Pl!PlMeAnswered
  <2>2. Pl!PlStoreTypes'
    BY <2>1, PluginsStoreTypes DEF Pl!PlStoreTypes
  <2>3. Pl!PlListsLead'
    BY <2>1, PluginsStoreTypes DEF Pl!PlListsLead
  <2>4. QED  BY <2>1, <2>2, <2>3, PluginsStoreTypes, PluginsStore
<1>5. CASE Pl!PlMeFails
  <2>1. /\ v5' = none /\ v7' = TRUE /\ UNCHANGED <<v1, v2, v3, v4, v6>>
        /\ UNCHANGED Pl!plWizardVars
    BY <1>5 DEF Pl!PlMeFails
  <2>2. Pl!PlStoreTypes'
    BY <2>1, PluginsStoreTypes DEF Pl!PlStoreTypes
  <2>3. Pl!PlListsLead'
    BY <2>1 DEF Pl!PlListsLead
  <2>4. QED  BY <2>1, <2>2, <2>3, PluginsStoreTypes, PluginsStore
<1>6. QED
  BY <1>1, <1>2, <1>3, <1>4, <1>5, PluginsCarriedOut, PluginsAnswered DEF Pl!PlStoreNext

-----------------------------------------------------------------------------
(* The wizard, which leaves the store alone.                                 *)

LEMMA PluginsWizard ==
  ASSUME Pl!PlInv, UNCHANGED Pl!plStoreVars, Pl!PlWizardTypes', Pl!PlRunsLead', Pl!PlFilledIn'
  PROVE  Pl!PlInv'
<1>1. UNCHANGED <<v1, v2, v3, v4, v5, v7>>
  BY DEF Pl!plStoreVars
<1>2. Pl!PlStoreTypes'
  BY <1>1, PluginsStoreTypes DEF Pl!PlStoreTypes
<1>3. Pl!PlListsLead'
  BY <1>1, PluginsStoreTypes DEF Pl!PlListsLead, Pl!PlActive
<1>4. QED  BY <1>2, <1>3 DEF Pl!PlInv

LEMMA PluginsWizardTypes ==
  ASSUME Pl!PlInv
  PROVE  /\ v8 \in Pl!PlOwn /\ v12 \in Pl!PlOwn /\ v6 \in Nat /\ v14 \in BOOLEAN
         /\ v10 \in [path : Pl!PlOwn, secret : Pl!PlOwn, dry : BOOLEAN]
         /\ v13 \subseteq [kind : {"discover", "preflight", "start"}, of : Sites, path : Pl!PlOwn,
                           secret : Pl!PlOwn, dry : BOOLEAN, done : BOOLEAN]
         /\ v15 \subseteq [of : Sites, path : Pl!PlOwn, secret : Pl!PlOwn, dry : BOOLEAN,
                           status : {"queued", "running", "success", "failed"}, n : Nat]
         /\ IsFiniteSet(v15) /\ Cardinality(v15) \in Nat /\ Pl!Cardinality(v15) = Cardinality(v15)
         /\ \A run \in v15 : run.n < Cardinality(v15)
         /\ \A a, b \in v15 : a.n = b.n => a = b
         /\ v16 \in [fresh : BOOLEAN, number : Nat]
         /\ Pl!PlWizardTypes /\ Pl!PlRunsLead /\ Pl!PlFilledIn
<1>1. Pl!PlWizardTypes /\ Pl!PlRunsLead /\ Pl!PlFilledIn
  BY DEF Pl!PlInv
<1>2. IsFiniteSet(v15)
  BY <1>1, PluginsFinite DEF Pl!PlWizardTypes
<1>3. Cardinality(v15) \in Nat /\ Pl!Cardinality(v15) = Cardinality(v15)
  BY <1>2, FS_CardinalityType, PluginsCardinality
<1>4. QED  BY <1>1, <1>2, <1>3 DEF Pl!PlWizardTypes

(* What is filled in or asked for, while the migrations stay as they are.    *)
LEMMA PluginsFilling ==
  ASSUME Pl!PlInv, UNCHANGED Pl!plStoreVars, UNCHANGED v15,
         v6' \in Nat, v8' \in Pl!PlOwn, v12' \in Pl!PlOwn, v14' \in BOOLEAN, v14 => v14',
         v10' \in [path : Pl!PlOwn, secret : Pl!PlOwn, dry : BOOLEAN],
         v13' \subseteq [kind : {"discover", "preflight", "start"}, of : Sites, path : Pl!PlOwn,
                         secret : Pl!PlOwn, dry : BOOLEAN, done : BOOLEAN],
         \A r \in v13' : \/ r \in v13
                         \/ /\ ~r.done /\ {r.path, r.secret} \subseteq {r.of, none}
                            /\ r.kind = "start" => r.path = r.of /\ r.secret = r.of
                         \/ ~r.done /\ v14',
         \A r \in v13 : r.done => r \in v13' \/ v14' \/ ~v16'.fresh,
         \/ v16' = v16
         \/ v16'.fresh = FALSE /\ v16' \in [fresh : BOOLEAN, number : Nat]
         \/ v16'.number = Cardinality(v15) /\ v16' \in [fresh : BOOLEAN, number : Nat],
         v14' \/ v8' = none \/ {v10'.path, v10'.secret} \subseteq {v8', none}
  PROVE  Pl!PlInv'
<1>1. v15' = v15 /\ Pl!Cardinality(v15') = Pl!Cardinality(v15)
  OBVIOUS
<1>2. v16' \in [fresh : BOOLEAN, number : Nat]
  BY PluginsWizardTypes
<1>3. Pl!PlWizardTypes'
  BY <1>1, <1>2, PluginsWizardTypes DEF Pl!PlWizardTypes
<1>4. Pl!PlRunsLead'
  <2>1. \A r \in v13' : r.done => r.kind = "start"
    BY PluginsWizardTypes DEF Pl!PlRunsLead
  <2>2. ASSUME ~v14', v16'.fresh, \A r \in v13' : ~r.done
        PROVE  v16'.number = Pl!Cardinality(v15')
    <3>1. CASE v16' = v16
      <4>1. ~v14 /\ v16.fresh /\ \A r \in v13 : ~r.done
        BY <2>2, <3>1
      <4>2. v16.number = Pl!Cardinality(v15)
        BY <4>1, PluginsWizardTypes DEF Pl!PlRunsLead
      <4>3. QED  BY <1>1, <3>1, <4>2
    <3>2. CASE v16'.number = Cardinality(v15)
      BY <1>1, <3>2, PluginsWizardTypes
    <3>3. QED  BY <2>2, <3>1, <3>2
  <2>3. QED  BY <2>1, <2>2 DEF Pl!PlRunsLead
<1>5. Pl!PlFilledIn'
  <2>1. CASE v14'
    BY <2>1 DEF Pl!PlFilledIn
  <2>2. CASE ~v14'
    <3>1. /\ \A r \in v13 : /\ {r.path, r.secret} \subseteq {r.of, none}
                            /\ r.kind = "start" => r.path = r.of /\ r.secret = r.of
          /\ \A run \in v15 : run.path = run.of /\ run.secret = run.of
      BY <2>2, PluginsWizardTypes DEF Pl!PlFilledIn
    <3>2. \A r \in v13' : /\ {r.path, r.secret} \subseteq {r.of, none}
                          /\ r.kind = "start" => r.path = r.of /\ r.secret = r.of
      BY <2>2, <3>1
    <3>3. v8' # none => {v10'.path, v10'.secret} \subseteq {v8', none}
      BY <2>2
    <3>4. QED  BY <1>1, <3>1, <3>2, <3>3 DEF Pl!PlFilledIn
  <2>3. QED  BY <2>1, <2>2
<1>6. QED  BY <1>3, <1>4, <1>5, PluginsWizard

(* What is filled in for the module of the wizard stays so.                  *)
LEMMA PluginsFilled ==
  ASSUME Pl!PlInv
  PROVE  v14 \/ v8 = none \/ {v10.path, v10.secret} \subseteq {v8, none}
  BY PluginsWizardTypes DEF Pl!PlFilledIn

LEMMA PluginsSent ==
  ASSUME Pl!PlInv, NEW kind \in {"discover", "preflight", "start"}, Pl!PlSend(kind),
         kind = "start" => v10.path # none /\ v10.secret # none
  PROVE  Pl!PlInv'
<1>1. PICK q : q = [kind |-> kind, of |-> v8, path |-> v10.path, secret |-> v10.secret,
                    dry |-> v10.dry, done |-> FALSE]
  OBVIOUS
<1>2. /\ v13' = v13 \cup {q} /\ v6' = v6 + 1 /\ v8 # none
      /\ UNCHANGED <<v8, v10, v12, v14, v15, v16>> /\ UNCHANGED Pl!plStoreVars
  BY <1>1 DEF Pl!PlSend
<1>3. v8 \in Sites
  BY <1>2, PluginsWizardTypes DEF Pl!PlOwn
<1>4. /\ q \in [kind : {"discover", "preflight", "start"}, of : Sites, path : Pl!PlOwn,
                secret : Pl!PlOwn, dry : BOOLEAN, done : BOOLEAN]
      /\ q.kind = kind /\ q.of = v8 /\ q.path = v10.path /\ q.secret = v10.secret /\ ~q.done
  <2>1. v10.path \in Pl!PlOwn /\ v10.secret \in Pl!PlOwn /\ v10.dry \in BOOLEAN
    BY PluginsWizardTypes
  <2>2. QED  BY <1>1, <1>3, <2>1
<1>5. v14 \/ (/\ {q.path, q.secret} \subseteq {q.of, none}
              /\ q.kind = "start" => q.path = q.of /\ q.secret = q.of)
  BY <1>2, <1>4, PluginsFilled
<1>6. v13' \subseteq [kind : {"discover", "preflight", "start"}, of : Sites, path : Pl!PlOwn,
                      secret : Pl!PlOwn, dry : BOOLEAN, done : BOOLEAN]
  BY <1>2, <1>4, PluginsWizardTypes
<1>7. \A r \in v13' : \/ r \in v13
                      \/ /\ ~r.done /\ {r.path, r.secret} \subseteq {r.of, none}
                         /\ r.kind = "start" => r.path = r.of /\ r.secret = r.of
                      \/ ~r.done /\ v14'
  BY <1>2, <1>4, <1>5
<1>8. QED  BY <1>2, <1>6, <1>7, PluginsFilled, PluginsWizardTypes, PluginsFilling

LEMMA PluginsStored ==
  ASSUME Pl!PlInv, NEW r \in v13, Pl!PlStored(r)
  PROVE  Pl!PlInv'
<1>0. r \in [kind : {"discover", "preflight", "start"}, of : Sites, path : Pl!PlOwn,
             secret : Pl!PlOwn, dry : BOOLEAN, done : BOOLEAN]
  BY PluginsWizardTypes
<1>1. PICK run : run = [of |-> r.of, path |-> r.path, secret |-> r.secret, dry |-> r.dry,
                        status |-> "queued", n |-> Cardinality(v15)]
  OBVIOUS
<1>2. /\ run \in [of : Sites, path : Pl!PlOwn, secret : Pl!PlOwn, dry : BOOLEAN,
                  status : {"queued", "running", "success", "failed"}, n : Nat]
      /\ run.n = Cardinality(v15) /\ run.path = r.path /\ run.secret = r.secret /\ run.of = r.of
  BY <1>0, <1>1, PluginsWizardTypes
<1>3. PICK q : q = [r EXCEPT !.done = TRUE]
  OBVIOUS
<1>4. /\ q \in [kind : {"discover", "preflight", "start"}, of : Sites, path : Pl!PlOwn,
                secret : Pl!PlOwn, dry : BOOLEAN, done : BOOLEAN]
      /\ q.done /\ q.kind = r.kind /\ q.of = r.of /\ q.path = r.path /\ q.secret = r.secret
  BY <1>0, <1>3
<1>5. /\ r.kind = "start" /\ v15' = v15 \cup {run} /\ v13' = (v13 \ {r}) \cup {q}
      /\ UNCHANGED <<v6, v8, v10, v12, v14, v16>> /\ UNCHANGED Pl!plStoreVars
  BY <1>1, <1>3, PluginsWizardTypes DEF Pl!PlStored
<1>6. run \notin v15
  BY <1>2, PluginsWizardTypes
<1>7. IsFiniteSet(v15') /\ Cardinality(v15') = Cardinality(v15) + 1
  BY <1>5, <1>6, PluginsWizardTypes, FS_AddElement
<1>8. Pl!IsFiniteSet(v15') /\ Pl!Cardinality(v15') = Cardinality(v15) + 1
  BY <1>7, PluginsFinite, PluginsCardinality
<1>9. /\ \A x \in v15' : x.n < Pl!Cardinality(v15')
      /\ \A a, b \in v15' : a.n = b.n => a = b
  <2>1. \A x \in v15 : x.n \in Nat /\ x.n < Cardinality(v15)
    BY PluginsWizardTypes
  <2>2. \A x \in v15' : x.n < Cardinality(v15) + 1
    BY <1>2, <1>5, <2>1, PluginsWizardTypes
  <2>3. \A a, b \in v15' : a.n = b.n => a = b
    BY <1>2, <1>5, <2>1, PluginsWizardTypes
  <2>4. QED  BY <1>8, <2>2, <2>3
<1>10. v15' \subseteq [of : Sites, path : Pl!PlOwn, secret : Pl!PlOwn, dry : BOOLEAN,
                       status : {"queued", "running", "success", "failed"}, n : Nat]
  BY <1>2, <1>5, PluginsWizardTypes
<1>11. Pl!PlWizardTypes'
  BY <1>4, <1>5, <1>8, <1>9, <1>10, PluginsWizardTypes DEF Pl!PlWizardTypes
<1>12. Pl!PlRunsLead'
  BY <1>4, <1>5, PluginsWizardTypes DEF Pl!PlRunsLead
<1>13. Pl!PlFilledIn'
  <2>1. CASE v14
    BY <1>5, <2>1 DEF Pl!PlFilledIn
  <2>2. CASE ~v14
    BY <1>2, <1>4, <1>5, <2>2, PluginsWizardTypes DEF Pl!PlFilledIn
  <2>3. QED  BY <2>1, <2>2
<1>14. QED  BY <1>5, <1>11, <1>12, <1>13, PluginsWizard

LEMMA PluginsGoes ==
  ASSUME Pl!PlInv, NEW run \in v15, Pl!PlRunGoes(run)
  PROVE  Pl!PlInv'
<1>0. run \in [of : Sites, path : Pl!PlOwn, secret : Pl!PlOwn, dry : BOOLEAN,
               status : {"queued", "running", "success", "failed"}, n : Nat]
  BY PluginsWizardTypes
<1>1. PICK s \in {"running", "success", "failed"} :
         v15' = (v15 \ {run}) \cup {[run EXCEPT !.status = s]}
  BY DEF Pl!PlRunGoes
<1>2. PICK q : q = [run EXCEPT !.status = s]
  OBVIOUS
<1>3. /\ q \in [of : Sites, path : Pl!PlOwn, secret : Pl!PlOwn, dry : BOOLEAN,
                status : {"queued", "running", "success", "failed"}, n : Nat]
      /\ q.n = run.n /\ q.path = run.path /\ q.secret = run.secret /\ q.of = run.of
  BY <1>0, <1>2
<1>4. /\ v15' = (v15 \ {run}) \cup {q}
      /\ UNCHANGED <<v6, v8, v10, v12, v13, v14, v16>> /\ UNCHANGED Pl!plStoreVars
  BY <1>1, <1>2 DEF Pl!PlRunGoes
<1>5. q \notin v15 \ {run}
  BY <1>3, PluginsWizardTypes
<1>6. IsFiniteSet(v15') /\ Cardinality(v15') = Cardinality(v15)
  <2>1. IsFiniteSet(v15 \ {run}) /\ Cardinality(v15 \ {run}) = Cardinality(v15) - 1
    BY PluginsWizardTypes, FS_RemoveElement
  <2>2. /\ IsFiniteSet((v15 \ {run}) \cup {q})
        /\ Cardinality((v15 \ {run}) \cup {q}) = Cardinality(v15 \ {run}) + 1
    BY <1>5, <2>1, FS_AddElement
  <2>3. QED  BY <1>4, <2>1, <2>2, PluginsWizardTypes
<1>7. Pl!IsFiniteSet(v15') /\ Pl!Cardinality(v15') = Cardinality(v15)
  BY <1>6, PluginsFinite, PluginsCardinality
<1>8. /\ \A x \in v15' : x.n < Pl!Cardinality(v15')
      /\ \A a, b \in v15' : a.n = b.n => a = b
      /\ v15' \subseteq [of : Sites, path : Pl!PlOwn, secret : Pl!PlOwn, dry : BOOLEAN,
                         status : {"queued", "running", "success", "failed"}, n : Nat]
  BY <1>3, <1>4, <1>7, PluginsWizardTypes
<1>9. Pl!PlWizardTypes'
  BY <1>4, <1>7, <1>8, PluginsWizardTypes DEF Pl!PlWizardTypes
<1>10. Pl!PlRunsLead'
  BY <1>4, <1>7, PluginsWizardTypes DEF Pl!PlRunsLead
<1>11. Pl!PlFilledIn'
  BY <1>3, <1>4, PluginsWizardTypes DEF Pl!PlFilledIn
<1>12. QED  BY <1>4, <1>9, <1>10, <1>11, PluginsWizard

(* An answer that fills the wizard, or an error.                             *)
LEMMA PluginsHeard ==
  ASSUME Pl!PlInv, NEW r \in v13,
         Pl!PlDiscovered(r) \/ Pl!PlPreflown(r) \/ Pl!PlStarted(r) \/ Pl!PlMoveFails(r)
  PROVE  Pl!PlInv'
<1>0. /\ r.of \in Sites /\ r.done \in BOOLEAN /\ (r.done => r.kind = "start")
      /\ r.of \in Pl!PlOwn /\ none \in Pl!PlOwn
  BY PluginsWizardTypes DEF Pl!PlRunsLead, Pl!PlOwn
<1>1. CASE Pl!PlDiscovered(r)
  <2>1. PICK form : form = [v10 EXCEPT !.path = r.of]
    OBVIOUS
  <2>2. /\ form \in [path : Pl!PlOwn, secret : Pl!PlOwn, dry : BOOLEAN]
        /\ form.path = r.of /\ form.secret = v10.secret
    BY <1>0, <2>1, PluginsWizardTypes
  <2>3. /\ r.kind = "discover" /\ v13' = v13 \ {r} /\ v12' = r.of /\ v10' \in {form, v10}
        /\ v14' = (v14 \/ r.of # v8) /\ UNCHANGED <<v6, v8, v15, v16>> /\ UNCHANGED Pl!plStoreVars
    BY <1>1, <2>1 DEF Pl!PlDiscovered
  <2>4. v14' \in BOOLEAN /\ (v14 => v14')
    BY <2>3
  <2>5. v10' \in [path : Pl!PlOwn, secret : Pl!PlOwn, dry : BOOLEAN]
    BY <2>2, <2>3, PluginsWizardTypes
  <2>6. v14' \/ v8' = none \/ {v10'.path, v10'.secret} \subseteq {v8', none}
    BY <2>2, <2>3, PluginsFilled
  <2>7. \A x \in v13 : x.done => x \in v13'
    BY <1>0, <2>3
  <2>8. QED  BY <1>0, <2>3, <2>4, <2>5, <2>6, <2>7, PluginsWizardTypes, PluginsFilling
<1>2. CASE Pl!PlPreflown(r)
  <2>1. /\ r.kind = "preflight" /\ v13' = v13 \ {r}
        /\ UNCHANGED <<v6, v8, v10, v12, v14, v15, v16>> /\ UNCHANGED Pl!plStoreVars
    BY <1>2 DEF Pl!PlPreflown
  <2>2. \A x \in v13 : x.done => x \in v13'
    BY <1>0, <2>1
  <2>3. QED  BY <2>1, <2>2, PluginsFilled, PluginsWizardTypes, PluginsFilling
<1>3. CASE Pl!PlStarted(r)
  <2>1. PICK form : form = [v10 EXCEPT !.secret = none]
    OBVIOUS
  <2>2. form \in [path : Pl!PlOwn, secret : Pl!PlOwn, dry : BOOLEAN]
    BY <1>0, <2>1, PluginsWizardTypes
  <2>3. PICK list : list = [v16 EXCEPT !.fresh = FALSE]
    OBVIOUS
  <2>4. list \in [fresh : BOOLEAN, number : Nat] /\ list.fresh = FALSE
    BY <2>3, PluginsWizardTypes
  <2>5. /\ v13' = v13 \ {r} /\ v8' = none /\ v10' = form /\ v16' = list
        /\ UNCHANGED <<v6, v12, v14, v15>> /\ UNCHANGED Pl!plStoreVars
    BY <1>3, <2>1, <2>3 DEF Pl!PlStarted
  <2>6. QED  BY <1>0, <2>2, <2>4, <2>5, PluginsWizardTypes, PluginsFilling
<1>4. CASE Pl!PlMoveFails(r)
  <2>1. /\ v13' = v13 \ {r} /\ v14' = (v14 \/ r.done)
        /\ UNCHANGED <<v6, v8, v10, v12, v15, v16>> /\ UNCHANGED Pl!plStoreVars
    BY <1>4 DEF Pl!PlMoveFails
  <2>2. v14' \in BOOLEAN /\ (v14 => v14')
    BY <2>1
  <2>3. \A x \in v13 : x.done => x \in v13' \/ v14'
    BY <2>1
  <2>4. QED  BY <2>1, <2>2, <2>3, PluginsFilled, PluginsWizardTypes, PluginsFilling
<1>5. QED  BY <1>1, <1>2, <1>3, <1>4

LEMMA PluginsWizardStep ==
  ASSUME Pl!PlInv, Pl!PlWizardNext
  PROVE  Pl!PlInv'
<1>1. ASSUME NEW m \in Sites, Pl!PlConfigure(m) PROVE Pl!PlInv'
  <2>1. /\ v8' = m /\ v10' = [path |-> none, secret |-> none, dry |-> TRUE] /\ v12' = none
        /\ UNCHANGED <<v6, v13, v14, v15, v16>> /\ UNCHANGED Pl!plStoreVars
    BY <1>1 DEF Pl!PlConfigure, Pl!PlFormOpened, Pl!PlFormEmpty
  <2>2. /\ v10' \in [path : Pl!PlOwn, secret : Pl!PlOwn, dry : BOOLEAN]
        /\ v10'.path = none /\ v10'.secret = none /\ v8' \in Pl!PlOwn /\ v12' \in Pl!PlOwn
    BY <2>1 DEF Pl!PlOwn
  <2>3. QED  BY <2>1, <2>2, PluginsWizardTypes, PluginsFilling
<1>2. CASE Pl!PlClose
  <2>1. v8' = none /\ UNCHANGED <<v6, v10, v12, v13, v14, v15, v16>> /\ UNCHANGED Pl!plStoreVars
    BY <1>2 DEF Pl!PlClose
  <2>2. v8' \in Pl!PlOwn
    BY <2>1 DEF Pl!PlOwn
  <2>3. QED  BY <2>1, <2>2, PluginsWizardTypes, PluginsFilling
<1>3. ASSUME NEW f \in {"path", "secret"}, Pl!PlType(f) PROVE Pl!PlInv'
  <2>1. PICK form : form = [v10 EXCEPT ![f] = v8]
    OBVIOUS
  <2>2. /\ form \in [path : Pl!PlOwn, secret : Pl!PlOwn, dry : BOOLEAN]
        /\ form.path \in {v10.path, v8} /\ form.secret \in {v10.secret, v8}
    BY <2>1, PluginsWizardTypes
  <2>3. /\ v10' = form /\ UNCHANGED <<v6, v8, v12, v13, v14, v15, v16>> /\ UNCHANGED Pl!plStoreVars
    BY <1>3, <2>1 DEF Pl!PlType
  <2>4. QED  BY <2>2, <2>3, PluginsFilled, PluginsWizardTypes, PluginsFilling
<1>4. CASE Pl!PlToggleDry
  <2>1. PICK form : form = [v10 EXCEPT !.dry = ~v10.dry]
    OBVIOUS
  <2>2. /\ form \in [path : Pl!PlOwn, secret : Pl!PlOwn, dry : BOOLEAN]
        /\ form.path = v10.path /\ form.secret = v10.secret
    BY <2>1, PluginsWizardTypes
  <2>3. /\ v10' = form /\ UNCHANGED <<v6, v8, v12, v13, v14, v15, v16>> /\ UNCHANGED Pl!plStoreVars
    BY <1>4, <2>1 DEF Pl!PlToggleDry
  <2>4. QED  BY <2>2, <2>3, PluginsFilled, PluginsWizardTypes, PluginsFilling
<1>5. ASSUME UNCHANGED <<v6, v8, v10, v12, v13, v14, v15, v16>>, UNCHANGED Pl!plStoreVars
      PROVE  Pl!PlInv'
  BY <1>5, PluginsFilled, PluginsWizardTypes, PluginsFilling
<1>6. ASSUME NEW step \in 1..3, Pl!PlGoTo(step) PROVE Pl!PlInv'
  BY <1>5, <1>6 DEF Pl!PlGoTo
<1>7. CASE Pl!PlDiscover \/ Pl!PlPreflight
  BY <1>7, PluginsSent DEF Pl!PlDiscover, Pl!PlPreflight
<1>8. CASE Pl!PlStart
  <2>1. CASE Pl!PlMayStart
    BY <1>8, <2>1, PluginsSent DEF Pl!PlStart, Pl!PlMayStart, Pl!PlComplete
  <2>2. CASE ~Pl!PlMayStart
    BY <1>5, <1>8, <2>2 DEF Pl!PlStart
  <2>3. QED  BY <2>1, <2>2
<1>9. CASE Pl!PlReadRuns
  <2>1. PICK list : list = [fresh |-> TRUE, number |-> Cardinality(v15)]
    OBVIOUS
  <2>2. list \in [fresh : BOOLEAN, number : Nat] /\ list.number = Cardinality(v15)
    BY <2>1, PluginsWizardTypes
  <2>3. /\ v16' = list /\ UNCHANGED <<v6, v8, v10, v12, v13, v14, v15>> /\ UNCHANGED Pl!plStoreVars
    BY <1>9, <2>1, PluginsWizardTypes DEF Pl!PlReadRuns
  <2>4. QED  BY <2>2, <2>3, PluginsFilled, PluginsWizardTypes, PluginsFilling
<1>10. QED
  BY <1>1, <1>2, <1>3, <1>4, <1>6, <1>7, <1>8, <1>9, PluginsStored, PluginsGoes, PluginsHeard
     DEF Pl!PlWizardNext

LEMMA PluginsStep == Pl!PlInv /\ (Pl!PlStoreNext \/ Pl!PlWizardNext) => Pl!PlInv'
  BY PluginsStoreStep, PluginsWizardStep

LEMMA PluginsHolds ==
  ASSUME Pl!PlInv
  PROVE  Pl!PluginsListTrue /\ Pl!MigratesOwnSource
<1>1. Pl!PluginsListTrue
  <2>1. v4 = {} /\ v5 = none /\ ~v7 => (v2.fresh => v2.rows = v1) /\ v3 = Pl!PlActive(v1)
    BY PluginsStoreTypes DEF Pl!PlListsLead
  <2>2. v13 = {} /\ ~v14 /\ v16.fresh => v16.number = Pl!Cardinality(v15)
    BY PluginsWizardTypes DEF Pl!PlRunsLead
  <2>3. QED  BY <2>1, <2>2 DEF Pl!PluginsListTrue
<1>2. Pl!MigratesOwnSource
  BY PluginsWizardTypes DEF Pl!PlFilledIn, Pl!MigratesOwnSource
<1>3. QED  BY <1>1, <1>2

-----------------------------------------------------------------------------
(* The deploy page.  v1: the configurations, v3: the commits checked out,    *)
(* v4: the runs, v5: the run of a site begun last, v6: the cache, v7: the    *)
(* site picked, v8: the form, v10: the requests under way, v12: the sites    *)
(* whose answer was missed, v13: a form was filled late, v14: the sites two  *)
(* runs of which met.                                                        *)

LEMMA DeployInit == Dp!DpInit => Dp!DpInv
<1> SUFFICES ASSUME Dp!DpInit PROVE Dp!DpInv
  OBVIOUS
<1>1. Dp!DpConfigTypes
  BY DEF Dp!DpInit, Dp!DpConfigTypes, Dp!DpOrNone, Dp!DpCached, Dp!DpRequest
<1>2. Dp!DpRunTypes
  BY DEF Dp!DpInit, Dp!DpRunTypes
<1>3. Dp!DpOwnOnly
  BY DEF Dp!DpInit, Dp!DpOwnOnly
<1>4. Dp!DpFreshIsTrue
  BY DEF Dp!DpInit, Dp!DpFreshIsTrue
<1>5. Dp!DpLastOfSite /\ Dp!DpRunsInTurn /\ Dp!LiveIsRecorded
  BY DEF Dp!DpInit, Dp!DpLastOfSite, Dp!DpRunsInTurn, Dp!LiveIsRecorded
<1>6. QED  BY <1>1, <1>2, <1>3, <1>4, <1>5 DEF Dp!DpInv

(* What a step does to the configurations: nothing, or one of these.        *)
LEMMA DeployConfigStill ==
  ASSUME \/ Dp!DpPush \/ Dp!DpCloseRun \/ \E d \in Sites : Dp!DpWebhook(d)
         \/ \E n \in 1..Len(v4) :
                Dp!DpStart(n) \/ Dp!DpCheckOut(n) \/ Dp!DpSucceeds(n) \/ Dp!DpEndsBadly(n) \/ Dp!DpOpenRun(n)
  PROVE  UNCHANGED <<v1, v6, v7, v8, v10, v12, v13>>
  BY DEF Dp!DpPush, Dp!DpCloseRun, Dp!DpWebhook, Dp!DpStart, Dp!DpCheckOut, Dp!DpSucceeds,
         Dp!DpEndsBadly, Dp!DpOpenRun, Dp!dpServer, Dp!dpPage, Dp!dpHistory

LEMMA DeployConfigStep ==
  ASSUME Dp!DpConfigTypes, ~v13 => Dp!DpOwnOnly, Dp!DpFreshIsTrue, Dp!DpConfigNext \/ Dp!DpRunNext
  PROVE  Dp!DpConfigTypes' /\ (~v13' => Dp!DpOwnOnly') /\ Dp!DpFreshIsTrue'
<1> DEFINE Goal == Dp!DpConfigTypes' /\ (~v13' => Dp!DpOwnOnly') /\ Dp!DpFreshIsTrue'
<1>0. /\ v1 \in [Sites -> Dp!DpOrNone] /\ v6 \in [Sites -> Dp!DpCached] /\ v7 \in Dp!DpOrNone
      /\ v8 \in Dp!DpOrNone /\ v10 \subseteq Dp!DpRequest /\ v12 \subseteq Sites /\ v13 \in BOOLEAN
      /\ none \notin Sites /\ Dp!DpOrNone = Sites \cup {none}
  BY PagesAssumption DEF Dp!DpConfigTypes, Dp!DpOrNone
<1>01. /\ \A r \in v10 : /\ r.site \in Sites /\ r.form \in Dp!DpOrNone /\ r.done \in BOOLEAN
                         /\ r.kind \in {"save", "rotate", "run", "rollback"}
       /\ \A d \in Sites : v6[d] \in Dp!DpCached /\ v6[d].conf \in Dp!DpOrNone
  BY <1>0 DEF Dp!DpRequest, Dp!DpCached
<1>1. ASSUME UNCHANGED <<v1, v6, v7, v8, v10, v12, v13>> PROVE Goal
  BY <1>1 DEF Dp!DpConfigTypes, Dp!DpOwnOnly, Dp!DpFreshIsTrue
<1>2. ASSUME NEW d \in Sites \cup {none}, Dp!DpPick(d) PROVE Goal
  <2>1. /\ v7' = d /\ UNCHANGED <<v1, v6, v10, v12, v13>>
        /\ v8' = IF d = none \/ v6[d].read = "none" THEN v8 ELSE v6[d].conf
    BY <1>2 DEF Dp!DpPick, Dp!dpServer, Dp!dpHistory
  <2>2. v8' \in Dp!DpOrNone
    BY <1>0, <1>01, <2>1
  <2>3. Dp!DpConfigTypes'
    BY <1>0, <2>1, <2>2 DEF Dp!DpConfigTypes
  <2>4. ~v13' => Dp!DpOwnOnly'
    BY <1>0, <2>1 DEF Dp!DpOwnOnly
  <2>5. Dp!DpFreshIsTrue'
    BY <2>1 DEF Dp!DpFreshIsTrue
  <2>6. QED  BY <2>3, <2>4, <2>5
<1>3. ASSUME Dp!DpRead PROVE Goal
  <2>1. PICK new : new = [read |-> "fresh", conf |-> v1[v7]]
    OBVIOUS
  <2>2. /\ v7 # none /\ v6' = [v6 EXCEPT ![v7] = new] /\ UNCHANGED <<v1, v7, v10, v12, v13>>
        /\ new.read = "fresh" /\ new.conf = v1[v7]
        /\ \/ v8' = v8 /\ v6[v7].read = "stale"
           \/ v8' = v1[v7]
    BY <1>3, <2>1 DEF Dp!DpRead, Dp!dpServer, Dp!dpHistory
  <2>3. v7 \in Sites /\ v1[v7] \in Dp!DpOrNone /\ new \in Dp!DpCached
    BY <1>0, <2>1, <2>2 DEF Dp!DpCached
  <2>4. Dp!DpConfigTypes'
    BY <1>0, <2>2, <2>3 DEF Dp!DpConfigTypes
  <2>5. \A d \in Sites : v6'[d] = IF d = v7 THEN new ELSE v6[d]
    BY <1>0, <2>2
  <2>6. ~v13' => Dp!DpOwnOnly'
    BY <2>2, <2>3, <2>5 DEF Dp!DpOwnOnly
  <2>7. Dp!DpFreshIsTrue'
    BY <2>2, <2>3, <2>5 DEF Dp!DpFreshIsTrue
  <2>8. QED  BY <2>4, <2>6, <2>7
<1>4. ASSUME Dp!DpType PROVE Goal
  <2>1. v7 # none /\ v8' = v7 /\ UNCHANGED <<v1, v6, v7, v10, v12, v13>>
    BY <1>4 DEF Dp!DpType, Dp!DpFormShown, Dp!dpServer, Dp!dpHistory
  <2>2. QED  BY <1>0, <2>1 DEF Dp!DpConfigTypes, Dp!DpOwnOnly, Dp!DpFreshIsTrue
<1>5. ASSUME NEW kind \in {"save", "rotate", "run", "rollback"}, Dp!DpAsk(kind) PROVE Goal
  <2>1. PICK q : q = [kind |-> kind, site |-> v7, form |-> v8, done |-> FALSE]
    OBVIOUS
  <2>2. /\ v10' = v10 \cup {q} /\ v7 # none /\ UNCHANGED <<v1, v6, v7, v8, v12, v13>>
        /\ q.kind = kind /\ q.site = v7 /\ q.form = v8 /\ q.done = FALSE
        /\ kind = "save" => v6[v7].read # "none"
    BY <1>5, <2>1 DEF Dp!DpAsk, Dp!DpFormShown, Dp!DpOffered, Dp!DpSavable, Dp!DpConfigKnown,
                      Dp!dpServer, Dp!dpPage, Dp!dpHistory
  <2>3. v7 \in Sites /\ q \in Dp!DpRequest
    BY <1>0, <2>1, <2>2 DEF Dp!DpRequest
  <2>4. Dp!DpConfigTypes'
    BY <1>0, <2>2, <2>3 DEF Dp!DpConfigTypes
  <2>5. ~v13' => Dp!DpOwnOnly'
    BY <2>2 DEF Dp!DpOwnOnly
  <2>6. Dp!DpFreshIsTrue'
    BY <2>2 DEF Dp!DpFreshIsTrue
  <2>7. QED  BY <2>4, <2>5, <2>6
\* A request is done: a save has written its configuration.
<1>6. ASSUME NEW r \in v10, ~r.done, Dp!DpDone(r), UNCHANGED <<v6, v7, v8, v12, v13>>,
             v1' = IF r.kind = "save" THEN [v1 EXCEPT ![r.site] = r.form] ELSE v1
      PROVE  Goal
  <2>1. PICK q : q = [r EXCEPT !.done = TRUE]
    OBVIOUS
  <2>2. r \in Dp!DpRequest
    BY <1>0
  <2>3. /\ q \in Dp!DpRequest /\ q.kind = r.kind /\ q.site = r.site /\ q.form = r.form /\ q.done
        /\ v10' = (v10 \ {r}) \cup {q}
    BY <1>6, <2>1, <2>2 DEF Dp!DpRequest, Dp!DpDone
  <2>4. /\ v1' \in [Sites -> Dp!DpOrNone]
        /\ \A d \in Sites : v1'[d] = IF r.kind = "save" /\ d = r.site THEN r.form ELSE v1[d]
    BY <1>0, <1>01, <1>6
  <2>5. Dp!DpConfigTypes'
    BY <1>0, <1>6, <2>3, <2>4 DEF Dp!DpConfigTypes
  <2>6. ~v13' => Dp!DpOwnOnly'
    BY <1>6, <2>3, <2>4 DEF Dp!DpOwnOnly
  <2>7. Dp!DpFreshIsTrue'
    <3>1. ASSUME NEW d \in Sites \ v12, v6[d].read = "fresh", v6[d].conf # v1'[d]
          PROVE  \E x \in v10' : x.site = d /\ x.kind = "save" /\ x.done
      <4>1. CASE r.kind = "save" /\ d = r.site
        BY <2>3, <4>1
      <4>2. CASE ~(r.kind = "save" /\ d = r.site)
        <5>1. v6[d].conf # v1[d]
          BY <2>4, <3>1, <4>2
        <5>2. PICK x \in v10 : x.site = d /\ x.kind = "save" /\ x.done
          BY <3>1, <5>1 DEF Dp!DpFreshIsTrue
        <5>3. QED  BY <1>6, <2>3, <5>2
      <4>3. QED  BY <4>1, <4>2
    <3>2. QED  BY <1>6, <3>1 DEF Dp!DpFreshIsTrue
  <2>8. QED  BY <2>5, <2>6, <2>7
<1>7. ASSUME NEW r \in v10, Dp!DpAnswered(r) PROVE Goal
  <2>1. /\ r.done /\ v10' = v10 \ {r} /\ UNCHANGED <<v1, v7>>
        /\ v6' = (IF r.kind \in {"save", "rotate"} THEN Dp!DpForgotten ELSE v6)
        /\ v8' = (IF r.kind = "save" THEN r.form ELSE v8)
        /\ v13' = (v13 \/ (r.kind = "save" /\ r.site # v7))
        /\ v12' = (IF r.kind = "save" /\ r.site # v7 THEN v12 \cup {r.site} ELSE v12)
    BY <1>7 DEF Dp!DpAnswered, Dp!DpForget, Dp!dpServer
  <2>2. \A d \in Sites : [v6[d] EXCEPT !.read = "stale"] \in Dp!DpCached
    BY <1>01 DEF Dp!DpCached
  <2>3. /\ v6' \in [Sites -> Dp!DpCached]
        /\ \A d \in Sites : /\ v6'[d].conf = v6[d].conf
                            /\ v6'[d].read = "none" <=> v6[d].read = "none"
                            /\ v6'[d].read = "fresh" =>
                                   v6[d].read = "fresh" /\ ~(r.kind = "save" /\ d = v7)
    <3>1. CASE r.kind \in {"save", "rotate"}
      <4>1. v6' = [d \in Sites |-> IF d = v7 /\ v6[d].read = "fresh"
                                   THEN [v6[d] EXCEPT !.read = "stale"] ELSE v6[d]]
        BY <2>1, <3>1 DEF Dp!DpForgotten
      <4>2. v6' \in [Sites -> Dp!DpCached]
        BY <1>01, <2>2, <4>1
      <4>3. ASSUME NEW d \in Sites
            PROVE  /\ v6'[d].conf = v6[d].conf
                   /\ v6'[d].read = "none" <=> v6[d].read = "none"
                   /\ v6'[d].read = "fresh" => v6[d].read = "fresh" /\ d # v7
        BY <1>01, <4>1 DEF Dp!DpCached
      <4>4. QED  BY <4>2, <4>3
    <3>2. CASE r.kind \notin {"save", "rotate"}
      BY <1>0, <2>1, <3>2
    <3>3. QED  BY <3>1, <3>2
  <2>4. v8' \in Dp!DpOrNone /\ v12' \subseteq Sites /\ v13' \in BOOLEAN /\ v12 \subseteq v12' /\ (v13 => v13')
    BY <1>0, <1>01, <2>1
  <2>5. Dp!DpConfigTypes'
    BY <1>0, <2>1, <2>3, <2>4 DEF Dp!DpConfigTypes
  <2>6. ~v13' => Dp!DpOwnOnly'
    <3>1. SUFFICES ASSUME ~v13' PROVE Dp!DpOwnOnly'
      OBVIOUS
    <3>2. Dp!DpOwnOnly /\ (r.kind = "save" => r.site = v7)
      BY <2>1, <3>1
    <3>3. \A d \in Sites : v1'[d] \in {d, none} /\ v6'[d].conf \in {d, none}
      BY <2>1, <2>3, <3>2 DEF Dp!DpOwnOnly
    <3>4. v7' # none => (v6'[v7'].read # "none" => v8' \in {v7', none})
      BY <1>0, <2>1, <2>3, <3>2 DEF Dp!DpOwnOnly
    <3>5. QED  BY <2>1, <3>2, <3>3, <3>4 DEF Dp!DpOwnOnly
  <2>7. Dp!DpFreshIsTrue'
    <3>1. ASSUME NEW d \in Sites \ v12', v6'[d].read = "fresh", v6'[d].conf # v1'[d]
          PROVE  \E x \in v10' : x.site = d /\ x.kind = "save" /\ x.done
      <4>1. PICK x \in v10 : x.site = d /\ x.kind = "save" /\ x.done
        BY <2>1, <2>3, <2>4, <3>1 DEF Dp!DpFreshIsTrue
      <4>2. x # r
        BY <2>1, <2>3, <3>1, <4>1
      <4>3. QED  BY <2>1, <4>1, <4>2
    <3>2. QED  BY <3>1 DEF Dp!DpFreshIsTrue
  <2>8. QED  BY <2>5, <2>6, <2>7
<1>8. ASSUME NEW r \in v10, Dp!DpFails(r) PROVE Goal
  <2>1. /\ v10' = v10 \ {r} /\ UNCHANGED <<v1, v6, v7, v8, v13>>
        /\ v12' = IF r.done THEN v12 \cup {r.site} ELSE v12
    BY <1>8 DEF Dp!DpFails, Dp!dpServer, Dp!dpPage
  <2>2. Dp!DpConfigTypes'
    BY <1>0, <1>01, <2>1 DEF Dp!DpConfigTypes
  <2>3. ~v13' => Dp!DpOwnOnly'
    BY <2>1 DEF Dp!DpOwnOnly
  <2>4. Dp!DpFreshIsTrue'
    BY <1>01, <2>1 DEF Dp!DpFreshIsTrue
  <2>5. QED  BY <2>2, <2>3, <2>4
<1>9. ASSUME NEW r \in v10, Dp!DpSave(r) \/ Dp!DpQueue(r) PROVE Goal
  <2>1. ~r.done /\ Dp!DpDone(r) /\ UNCHANGED <<v6, v7, v8, v12, v13>>
    BY <1>9 DEF Dp!DpSave, Dp!DpQueue, Dp!dpPage, Dp!dpHistory
  <2>2. v1' = IF r.kind = "save" THEN [v1 EXCEPT ![r.site] = r.form] ELSE v1
    BY <1>9 DEF Dp!DpSave, Dp!DpQueue
  <2>3. QED  BY <1>6, <2>1, <2>2
<1> HIDE DEF Goal
<1>10. ASSUME Dp!DpConfigNext PROVE Goal
  BY <1>2, <1>3, <1>4, <1>5, <1>7, <1>8, <1>9, <1>10 DEF Dp!DpConfigNext
<1>11. ASSUME Dp!DpRunNext PROVE Goal
  BY <1>1, <1>3, <1>5, <1>7, <1>8, <1>9, <1>11, DeployConfigStill DEF Dp!DpRunNext
<1>12. QED  BY <1>10, <1>11 DEF Goal

(* What a step does to the runs: nothing, or one of these.                  *)
LEMMA DeployRunsStill ==
  ASSUME Dp!DpConfigNext \/ Dp!DpRead \/ Dp!DpCloseRun \/ (\E kind \in {"run", "rollback"} : Dp!DpAsk(kind))
         \/ (\E r \in v10 : Dp!DpAnswered(r) \/ Dp!DpFails(r)) \/ \E n \in 1..Len(v4) : Dp!DpOpenRun(n)
  PROVE  UNCHANGED <<v2, v3, v4, v5, v14>>
  BY DEF Dp!DpConfigNext, Dp!DpRead, Dp!DpType, Dp!DpPick, Dp!DpAsk, Dp!DpSave, Dp!DpAnswered, Dp!DpFails,
         Dp!DpCloseRun, Dp!DpOpenRun, Dp!dpServer, Dp!dpPage, Dp!dpHistory

LEMMA DeployBegun ==
  ASSUME Dp!DpRunTypes, Dp!DpLastOfSite, Dp!DpRunsInTurn, Dp!LiveIsRecorded,
         NEW d \in Sites, NEW kind \in {"deploy", "rollback"}, NEW target \in Nat,
         Dp!DpBegin(d, kind, target), UNCHANGED <<v2, v3, v5, v14>>
  PROVE  Dp!DpRunTypes' /\ Dp!DpLastOfSite' /\ Dp!DpRunsInTurn' /\ Dp!LiveIsRecorded'
<1>1. PICK new : new = [site |-> d, kind |-> kind, target |-> target, status |-> "queued",
                        commit |-> 0, at |-> "due"]
  OBVIOUS
<1>2. new \in Dp!DpRow /\ new.status = "queued" /\ new.at = "due" /\ v4' = Append(v4, new)
  BY <1>1 DEF Dp!DpRow, Dp!DpBegin
<1>3. v4 \in Seq(Dp!DpRow) /\ v5 \in [Sites -> Nat]
  BY DEF Dp!DpRunTypes
<1>4. /\ v4' \in Seq(Dp!DpRow) /\ Len(v4) \in Nat /\ Len(v4') = Len(v4) + 1
      /\ \A n \in 1..Len(v4) : v4'[n] = v4[n]
      /\ v4'[Len(v4) + 1] = new
  BY <1>2, <1>3
<1>5. /\ \A n \in 1..Len(v4') : n \in 1..Len(v4) \/ v4'[n] = new
      /\ \A n \in 1..Len(v4) : n \in 1..Len(v4')
  BY <1>4
<1>6. Dp!DpRunTypes'
  BY <1>4 DEF Dp!DpRunTypes
<1>7. Dp!DpLastOfSite'
  BY <1>4, <1>5 DEF Dp!DpLastOfSite
<1>8. Dp!DpRunsInTurn'
  <2>1. ASSUME NEW n \in 1..Len(v4)
        PROVE  /\ v4'[n].status = "success" => v4'[n].at = "over"
               /\ Dp!DpAlive(n)' => v4'[n].status = "running"
               /\ Dp!DpAlive(n)' /\ v4'[n].site \notin v14' =>
                      /\ v5'[v4'[n].site] = n
                      /\ v4'[n].at = "checked out" /\ v4'[n].kind = "rollback" =>
                             v3'[v4'[n].site] = v4'[n].target
    <3>1. v4'[n] = v4[n] /\ v3' = v3 /\ v5' = v5 /\ v14' = v14
      BY <1>4
    <3>2. Dp!DpAlive(n)' <=> Dp!DpAlive(n)
      BY <3>1 DEF Dp!DpAlive
    <3>3. QED  BY <3>1, <3>2 DEF Dp!DpRunsInTurn
  <2>2. ASSUME NEW n \in 1..Len(v4'), v4'[n] = new
        PROVE  v4'[n].status # "success" /\ ~Dp!DpAlive(n)'
    BY <1>2, <2>2 DEF Dp!DpAlive
  <2>3. QED  BY <1>5, <2>1, <2>2 DEF Dp!DpRunsInTurn
<1>9. Dp!LiveIsRecorded'
  BY <1>4 DEF Dp!LiveIsRecorded, Dp!DpLastOfSite
<1>10. QED  BY <1>6, <1>7, <1>8, <1>9

(* A run that is under way, or due, goes on: the rest of the rows stay.     *)
LEMMA DeployRow ==
  ASSUME Dp!DpRunTypes, NEW n \in 1..Len(v4), NEW row \in Dp!DpRow, v4' = [v4 EXCEPT ![n] = row]
  PROVE  /\ v4' \in Seq(Dp!DpRow) /\ Len(v4') = Len(v4)
         /\ \A k \in 1..Len(v4) : v4'[k] = IF k = n THEN row ELSE v4[k]
  BY DEF Dp!DpRunTypes

LEMMA DeployRunGoesOn ==
  ASSUME Dp!DpRunTypes, Dp!DpLastOfSite, Dp!DpRunsInTurn, Dp!LiveIsRecorded, NEW n \in 1..Len(v4),
         Dp!DpStart(n) \/ Dp!DpCheckOut(n) \/ Dp!DpSucceeds(n) \/ Dp!DpEndsBadly(n)
  PROVE  Dp!DpRunTypes' /\ Dp!DpLastOfSite' /\ Dp!DpRunsInTurn' /\ Dp!LiveIsRecorded'
<1> DEFINE Goal == Dp!DpRunTypes' /\ Dp!DpLastOfSite' /\ Dp!DpRunsInTurn' /\ Dp!LiveIsRecorded'
           old == v4[n]
           d == v4[n].site
<1>0. /\ v4 \in Seq(Dp!DpRow) /\ v5 \in [Sites -> Nat] /\ v3 \in [Sites -> Nat] /\ v2 \in Nat
      /\ v14 \subseteq Sites
  BY DEF Dp!DpRunTypes
<1>01. /\ old \in Dp!DpRow /\ d \in Sites /\ old.commit \in Nat /\ old.target \in Nat
       /\ \A k \in 1..Len(v4) : v4[k] \in Dp!DpRow
  <2>1. \A k \in 1..Len(v4) : v4[k] \in Dp!DpRow
    BY <1>0
  <2>2. QED  BY <2>1 DEF Dp!DpRow
<1>02. /\ old.status = "success" => old.at = "over"
       /\ Dp!DpAlive(n) => old.status = "running" /\ (d \notin v14 => v5[d] = n)
  BY DEF Dp!DpRunsInTurn
<1>1. ASSUME Dp!DpStart(n) PROVE Goal
  <2>1. PICK row : row = [old EXCEPT !.status = "running", !.at = "begun"]
    OBVIOUS
  <2>2. row \in Dp!DpRow /\ row.site = d /\ row.status = "running" /\ row.at = "begun"
    BY <1>01, <2>1 DEF Dp!DpRow
  <2>3. /\ v4' = [v4 EXCEPT ![n] = row] /\ v5' = [v5 EXCEPT ![d] = n] /\ UNCHANGED <<v2, v3>>
        /\ old.at = "due"
        /\ v14' = IF \E k \in 1..Len(v4) : Dp!DpAlive(k) /\ v4[k].site = d THEN v14 \cup {d} ELSE v14
    BY <1>0, <1>1, <1>01, <2>1 DEF Dp!DpStart
  <2>4. /\ v4' \in Seq(Dp!DpRow) /\ Len(v4') = Len(v4)
        /\ \A k \in 1..Len(v4) : v4'[k] = IF k = n THEN row ELSE v4[k]
    BY <2>2, <2>3, DeployRow
  <2>5. v5' \in [Sites -> Nat] /\ \A e \in Sites : v5'[e] = IF e = d THEN n ELSE v5[e]
    <3>1. n \in Nat
      BY <1>0
    <3>2. QED  BY <1>0, <1>01, <2>3, <3>1
  <2>6. v14 \subseteq v14' /\ v14' \subseteq Sites
        /\ (d \notin v14' => \A k \in 1..Len(v4) : Dp!DpAlive(k) => v4[k].site # d)
    BY <1>0, <1>01, <2>3
  <2>7. Dp!DpRunTypes'
    BY <1>0, <2>3, <2>4, <2>5, <2>6 DEF Dp!DpRunTypes
  <2>8. Dp!DpLastOfSite'
    BY <2>2, <2>4, <2>5 DEF Dp!DpLastOfSite
  <2>9. Dp!DpRunsInTurn'
    <3>1. ASSUME NEW k \in 1..Len(v4)
          PROVE  /\ v4'[k].status = "success" => v4'[k].at = "over"
                 /\ Dp!DpAlive(k)' => v4'[k].status = "running"
                 /\ Dp!DpAlive(k)' /\ v4'[k].site \notin v14' =>
                        /\ v5'[v4'[k].site] = k
                        /\ v4'[k].at = "checked out" /\ v4'[k].kind = "rollback" =>
                               v3'[v4'[k].site] = v4'[k].target
      <4>1. CASE k = n
        <5>1. v4'[k] = row /\ v5'[d] = k
          BY <1>01, <2>4, <2>5, <4>1
        <5>2. QED  BY <2>2, <5>1
      <4>2. CASE k # n
        <5>1. v4'[k] = v4[k] /\ v4[k].site \in Sites /\ v3' = v3
          BY <1>01, <2>3, <2>4, <4>2 DEF Dp!DpRow
        <5>2. Dp!DpAlive(k)' <=> Dp!DpAlive(k)
          BY <5>1 DEF Dp!DpAlive
        <5>3. Dp!DpAlive(k) /\ v4[k].site \notin v14' => v4[k].site # d /\ v4[k].site \notin v14
          BY <2>6
        <5>4. v4[k].site # d => v5'[v4[k].site] = v5[v4[k].site]
          BY <2>5, <5>1
        <5>5. QED  BY <5>1, <5>2, <5>3, <5>4 DEF Dp!DpRunsInTurn
      <4>3. QED  BY <4>1, <4>2
    <3>2. QED  BY <2>4, <3>1 DEF Dp!DpRunsInTurn
  <2>10. Dp!LiveIsRecorded'
    BY <1>02, <2>2, <2>3, <2>4, <2>5, <2>6 DEF Dp!LiveIsRecorded, Dp!DpLastOfSite
  <2>11. QED  BY <2>7, <2>8, <2>9, <2>10
\* The runs of other sites, and what is checked out there, stay as they are.
<1>2. ASSUME NEW row \in Dp!DpRow, v4' = [v4 EXCEPT ![n] = row], UNCHANGED <<v2, v5, v14>>,
             row.site = d, row.kind = old.kind, row.target = old.target, row.at # "due",
             old.at # "over",
             row.at \in {"begun", "checked out"} => Dp!DpAlive(n) /\ row.status = old.status,
             row.status = "success" => row.at = "over",
             v3' \in [Sites -> Nat], \A e \in Sites : e # d => v3'[e] = v3[e],
             v3'[d] # v3[d] => Dp!DpAlive(n),
             row.at = "checked out" /\ row.kind = "rollback" => v3'[d] = row.target,
             row.status = "success" /\ d \notin v14 => v3'[d] = row.commit
      PROVE  Goal
  <2>1. /\ v4' \in Seq(Dp!DpRow) /\ Len(v4') = Len(v4)
        /\ \A k \in 1..Len(v4) : v4'[k] = IF k = n THEN row ELSE v4[k]
    BY <1>2, DeployRow
  <2>2. Dp!DpRunTypes'
    BY <1>0, <1>2, <2>1 DEF Dp!DpRunTypes
  <2>3. Dp!DpLastOfSite'
    <3>1. \A k \in 1..Len(v4) : v4'[k].site = v4[k].site
      BY <1>2, <2>1
    <3>2. QED  BY <1>2, <2>1, <3>1 DEF Dp!DpLastOfSite
  <2>4. ASSUME NEW k \in 1..Len(v4), k # n, Dp!DpAlive(k), v4[k].site = d, d \notin v14
        PROVE  ~Dp!DpAlive(n)
    BY <1>02, <2>4 DEF Dp!DpRunsInTurn
  <2>5. Dp!DpRunsInTurn'
    <3>1. ASSUME NEW k \in 1..Len(v4)
          PROVE  /\ v4'[k].status = "success" => v4'[k].at = "over"
                 /\ Dp!DpAlive(k)' => v4'[k].status = "running"
                 /\ Dp!DpAlive(k)' /\ v4'[k].site \notin v14' =>
                        /\ v5'[v4'[k].site] = k
                        /\ v4'[k].at = "checked out" /\ v4'[k].kind = "rollback" =>
                               v3'[v4'[k].site] = v4'[k].target
      <4>1. CASE k = n
        <5>1. v4'[k] = row
          BY <2>1, <4>1
        <5>2. Dp!DpAlive(k)' => Dp!DpAlive(n) /\ row.status = old.status
          BY <1>2, <5>1 DEF Dp!DpAlive
        <5>3. /\ row.site = d /\ v5' = v5 /\ v14' = v14
              /\ row.status = "success" => row.at = "over"
              /\ row.at = "checked out" /\ row.kind = "rollback" => v3'[d] = row.target
          BY <1>2
        <5>4. Dp!DpAlive(n) => old.status = "running" /\ (d \notin v14 => v5[d] = k)
          BY <1>02, <4>1
        <5>5. QED  BY ONLY <5>1, <5>2, <5>3, <5>4
      <4>2. CASE k # n
        <5>1. v4'[k] = v4[k] /\ v4[k].site \in Sites
          BY <1>01, <2>1, <4>2 DEF Dp!DpRow
        <5>2. /\ v4[k].status = "success" => v4[k].at = "over"
              /\ Dp!DpAlive(k) => v4[k].status = "running"
              /\ Dp!DpAlive(k) /\ v4[k].site \notin v14 =>
                        /\ v5[v4[k].site] = k
                        /\ v4[k].at = "checked out" /\ v4[k].kind = "rollback" =>
                               v3[v4[k].site] = v4[k].target
          BY DEF Dp!DpRunsInTurn
        <5>3. Dp!DpAlive(k)' <=> Dp!DpAlive(k)
          BY <5>1 DEF Dp!DpAlive
        <5>4. Dp!DpAlive(k) /\ v4[k].site \notin v14 => v3'[v4[k].site] = v3[v4[k].site]
          BY <1>2, <2>4, <4>2, <5>1
        <5>5. v5' = v5 /\ v14' = v14
          BY <1>2
        <5>6. QED  BY ONLY <5>1, <5>2, <5>3, <5>4, <5>5
      <4>3. QED  BY <4>1, <4>2
    <3>2. QED  BY <2>1, <3>1 DEF Dp!DpRunsInTurn
  <2>6. Dp!LiveIsRecorded'
    <3>1. ASSUME NEW e \in Sites \ v14, v5[e] # 0, v4'[v5[e]].status = "success"
          PROVE  v3'[e] = v4'[v5[e]].commit
      <4>1. v5[e] \in 1..Len(v4) /\ v4[v5[e]].site = e
        BY <3>1 DEF Dp!DpLastOfSite
      <4>2. CASE v5[e] = n
        BY <1>2, <2>1, <3>1, <4>1, <4>2
      <4>3. CASE v5[e] # n
        <5>1. v4'[v5[e]] = v4[v5[e]] /\ v3[e] = v4[v5[e]].commit
          BY <2>1, <3>1, <4>1, <4>3 DEF Dp!LiveIsRecorded
        <5>2. v3'[e] = v3[e]
          BY <1>02, <1>2, <3>1, <4>3
        <5>3. QED  BY <5>1, <5>2
      <4>4. QED  BY <4>2, <4>3
    <3>2. QED  BY <1>2, <3>1 DEF Dp!LiveIsRecorded
  <2>7. QED  BY <2>2, <2>3, <2>5, <2>6
<1> HIDE DEF Goal
<1>3. ASSUME Dp!DpCheckOut(n) PROVE Goal
  <2>1. PICK row : row = [old EXCEPT !.at = "checked out", !.commit = v3[d]]
    OBVIOUS
  <2>2. v3[d] \in Nat
    BY <1>0, <1>01
  <2>3. /\ row \in Dp!DpRow /\ row.site = d /\ row.status = old.status /\ row.at = "checked out"
        /\ row.kind = old.kind /\ row.target = old.target
    BY <1>01, <2>1, <2>2 DEF Dp!DpRow
  <2>4. /\ v4' = [v4 EXCEPT ![n] = row] /\ UNCHANGED <<v2, v5, v14>> /\ old.at = "begun"
        /\ v3' = [v3 EXCEPT ![d] = IF old.kind = "rollback" THEN old.target ELSE v2]
    BY <1>0, <1>3, <2>1 DEF Dp!DpCheckOut, Dp!dpHistory
  <2>5. /\ v3' \in [Sites -> Nat] /\ \A e \in Sites : e # d => v3'[e] = v3[e]
        /\ old.kind = "rollback" => v3'[d] = old.target
    BY <1>0, <1>01, <2>4
  <2>6. Dp!DpAlive(n) /\ old.status = "running"
    BY <1>02, <2>4 DEF Dp!DpAlive
  <2>7. QED  BY <1>2, <2>3, <2>4, <2>5, <2>6
<1>4. ASSUME Dp!DpSucceeds(n) PROVE Goal
  <2>1. PICK c : c = Dp!DpCommitAtEnd(n)
    OBVIOUS
  <2>2. PICK row : row = [old EXCEPT !.status = "success", !.at = "over", !.commit = c]
    OBVIOUS
  <2>3. c = (IF old.kind = "rollback" THEN old.target ELSE v3[d])
    BY <2>1 DEF Dp!DpCommitAtEnd
  <2>4. c \in Nat
    BY <1>0, <1>01, <2>3
  <2>5. /\ row \in Dp!DpRow /\ row.site = d /\ row.status = "success" /\ row.at = "over" /\ row.commit = c
        /\ row.kind = old.kind /\ row.target = old.target
    BY <1>01, <2>2, <2>4 DEF Dp!DpRow
  <2>6. v4' = [v4 EXCEPT ![n] = row] /\ UNCHANGED <<v2, v3, v5, v14>> /\ old.at = "checked out"
    BY <1>0, <1>4, <2>1, <2>2 DEF Dp!DpSucceeds, Dp!DpCommit, Dp!dpHistory
  <2>7. d \notin v14 => v3[d] = c
    BY <2>3, <2>6 DEF Dp!DpRunsInTurn, Dp!DpAlive
  <2>8. QED  BY <1>0, <1>2, <2>5, <2>6, <2>7
<1>5. ASSUME Dp!DpEndsBadly(n) PROVE Goal
  <2>1. /\ old.at # "over" /\ UNCHANGED <<v2, v3, v5, v14>>
        /\ \/ v4' = [v4 EXCEPT ![n] = [old EXCEPT !.status = "failed", !.at = "over", !.commit = 0]]
           \/ v4' = [v4 EXCEPT ![n] = [old EXCEPT !.at = "over", !.commit = 0]]
    BY <1>0, <1>5 DEF Dp!DpEndsBadly, Dp!dpHistory
  <2>2. PICK row : /\ row = [old EXCEPT !.status = "failed", !.at = "over", !.commit = 0]
                      \/ row = [old EXCEPT !.at = "over", !.commit = 0]
                   /\ v4' = [v4 EXCEPT ![n] = row]
    BY <2>1
  <2>3. /\ row \in Dp!DpRow /\ row.site = d /\ row.status \in {old.status, "failed"} /\ row.at = "over"
        /\ row.kind = old.kind /\ row.target = old.target
    <3>1. CASE row = [old EXCEPT !.status = "failed", !.at = "over", !.commit = 0]
      BY <1>01, <3>1 DEF Dp!DpRow
    <3>2. CASE row = [old EXCEPT !.at = "over", !.commit = 0]
      BY <1>01, <3>2 DEF Dp!DpRow
    <3>3. QED  BY <2>2, <3>1, <3>2
  <2>4. row.status # "success"
    BY <1>02, <2>1, <2>3
  <2>5. QED  BY <1>0, <1>2, <2>1, <2>2, <2>3, <2>4
<1>6. QED  BY <1>1, <1>3, <1>4, <1>5 DEF Goal

LEMMA DeployStep ==
  ASSUME Dp!DpInv, Dp!DpConfigNext \/ Dp!DpRunNext
  PROVE  Dp!DpInv'
<1> DEFINE Runs == Dp!DpRunTypes' /\ Dp!DpLastOfSite' /\ Dp!DpRunsInTurn' /\ Dp!LiveIsRecorded'
<1>0. /\ Dp!DpConfigTypes /\ Dp!DpRunTypes /\ (~v13 => Dp!DpOwnOnly) /\ Dp!DpFreshIsTrue
      /\ Dp!DpLastOfSite /\ Dp!DpRunsInTurn /\ Dp!LiveIsRecorded
  BY DEF Dp!DpInv
<1>1. Dp!DpConfigTypes' /\ (~v13' => Dp!DpOwnOnly') /\ Dp!DpFreshIsTrue'
  BY <1>0, DeployConfigStep
<1>2. ASSUME UNCHANGED <<v2, v3, v4, v5, v14>> PROVE Runs
  BY <1>0, <1>2 DEF Dp!DpRunTypes, Dp!DpLastOfSite, Dp!DpRunsInTurn, Dp!LiveIsRecorded, Dp!DpAlive
<1>3. ASSUME NEW d \in Sites, Dp!DpWebhook(d) PROVE Runs
  <2>1. Dp!DpBegin(d, "deploy", 0) /\ UNCHANGED <<v2, v3, v5, v14>>
    BY <1>3 DEF Dp!DpWebhook, Dp!dpHistory
  <2>2. QED  BY <1>0, <2>1, DeployBegun
<1>4. ASSUME NEW r \in v10, Dp!DpQueue(r) PROVE Runs
  <2>1. PICK d : d = r.site
    OBVIOUS
  <2>2. d \in Sites
    BY <1>0, <2>1 DEF Dp!DpConfigTypes, Dp!DpRequest
  <2>3. /\ UNCHANGED <<v2, v3, v5, v14>>
        /\ \/ Dp!DpBegin(d, "deploy", 0)
           \/ \E n \in 1..Len(v4) : Dp!DpBegin(d, "rollback", v4[n].commit)
    BY <1>4, <2>1 DEF Dp!DpQueue, Dp!dpHistory
  <2>4. \A n \in 1..Len(v4) : v4[n].commit \in Nat
    <3>1. v4 \in Seq(Dp!DpRow)
      BY <1>0 DEF Dp!DpRunTypes
    <3>2. \A n \in 1..Len(v4) : v4[n] \in Dp!DpRow
      BY <3>1
    <3>3. QED  BY <3>2 DEF Dp!DpRow
  <2>5. QED  BY <1>0, <2>2, <2>3, <2>4, DeployBegun
<1>5. ASSUME Dp!DpPush PROVE Runs
  <2>1. UNCHANGED <<v3, v4, v5, v14>> /\ v2' = 2
    BY <1>5 DEF Dp!DpPush, Dp!dpHistory
  <2>2. Dp!DpRunTypes'
    BY <1>0, <2>1 DEF Dp!DpRunTypes
  <2>3. QED
    BY <1>0, <2>1, <2>2 DEF Dp!DpLastOfSite, Dp!DpRunsInTurn, Dp!LiveIsRecorded, Dp!DpAlive
<1>6. ASSUME NEW n \in 1..Len(v4), Dp!DpStart(n) \/ Dp!DpCheckOut(n) \/ Dp!DpSucceeds(n) \/ Dp!DpEndsBadly(n)
      PROVE  Runs
  BY <1>0, <1>6, DeployRunGoesOn
<1> HIDE DEF Runs
<1>7. ASSUME Dp!DpConfigNext PROVE Runs
  BY <1>2, <1>7, DeployRunsStill
<1>8. ASSUME Dp!DpRunNext PROVE Runs
  BY <1>2, <1>3, <1>4, <1>5, <1>6, <1>8, DeployRunsStill DEF Dp!DpRunNext
<1>9. QED  BY <1>1, <1>7, <1>8 DEF Dp!DpInv, Runs

LEMMA DeployHolds ==
  ASSUME Dp!DpInv
  PROVE  Dp!LiveIsRecorded /\ Dp!DeploysOwnRepository /\ Dp!DeployConfigTrue
<1>1. Dp!DeploysOwnRepository
  BY DEF Dp!DpInv, Dp!DeploysOwnRepository, Dp!DpOwnOnly
<1>2. Dp!DeployConfigTrue
  BY DEF Dp!DpInv, Dp!DeployConfigTrue, Dp!DpFreshIsTrue
<1>3. QED  BY <1>1, <1>2 DEF Dp!DpInv

-----------------------------------------------------------------------------
(* Two-factor authentication.  v1 and v2: the secret and the flag of the     *)
(* user, v3: the cached secret, v4: the backup codes, v5: the status in the  *)
(* cache, v6: the user of the session, v7: the secret shown, v8 and v9: its  *)
(* picture, v10: the codes shown, v11: the requests under way, v13: the      *)
(* secret confirmed, v14: those expired, v15: two requests met, v16: one     *)
(* ended in an error.                                                        *)

LEMMA TwoFactorInit == Tf!TfInit => Tf!TfInv
<1> SUFFICES ASSUME Tf!TfInit PROVE Tf!TfInv
  OBVIOUS
<1>1. Tf!TfTypeOK
  <2>1. /\ v1 \in {0, 1} /\ v2 \in BOOLEAN /\ v4 \in {{}, {1}} /\ v5 = [fresh |-> TRUE, on |-> v2]
        /\ v13 = v1 /\ v6 = v2
    BY DEF Tf!TfInit
  <2>2. v5 \in [fresh : BOOLEAN, on : BOOLEAN]
    BY <2>1
  <2>3. /\ v3 = 0 /\ v7 = 0 /\ v8 = 0 /\ v9 = {} /\ v10 = 0 /\ v11 = {} /\ v12 = 0
        /\ v15 = FALSE /\ v16 = FALSE
    BY DEF Tf!TfInit
  <2>4. v1 \in Nat /\ v4 \subseteq Nat /\ v13 \in Nat /\ v6 \in BOOLEAN
    BY <2>1
  <2>5. {v7, v8, v10, v12, v13} \subseteq Nat
    BY <2>3, <2>4
  <2>6. v15 \in BOOLEAN /\ v16 \in BOOLEAN
    BY <2>3, Zenon
  <2>7. v9 \subseteq Nat /\ v11 \subseteq Tf!TfRequest /\ v3 \in Nat
    BY <2>3
  <2>8. v2 \in BOOLEAN
    BY <2>1
  <2>9. QED  BY ONLY <2>2, <2>4, <2>5, <2>7, <2>8, <2>6 DEF Tf!TfTypeOK
<1>2. Tf!TfPictureFollows /\ Tf!AuthenticatorWorks
  BY DEF Tf!TfInit, Tf!TfPictureFollows, Tf!AuthenticatorWorks
<1>3. Tf!TfOneRequest /\ Tf!TfShownLeads /\ Tf!TfSecretLeads
  BY DEF Tf!TfInit, Tf!TfOneRequest, Tf!TfShownLeads, Tf!TfSecretLeads
<1>4. QED  BY <1>1, <1>2, <1>3 DEF Tf!TfInv

(* What becomes of the requests: one is asked for, one goes on or one ends. *)
LEMMA TwoFactorAsks ==
  ASSUME Tf!TfTypeOK, NEW kind \in {"setup", "verify", "regenerate", "disable"}, Tf!TfAsk(kind)
  PROVE  /\ \E q \in Tf!TfRequest : v11' = v11 \cup {q} /\ q.step = "sent"
         /\ v12' = v12 + 1 /\ v15' = (v15 \/ v11 # {})
         /\ UNCHANGED <<v1, v2, v3, v4, v5, v6, v7, v8, v9, v10, v13, v14, v16>>
<1>1. PICK q : q = [kind |-> kind, password |-> v5.on, new |-> v12 + 2, otp |-> v7,
                    step |-> "sent", user |-> 0, on |-> FALSE, held |-> 0]
  OBVIOUS
<1>2. v5.on \in BOOLEAN /\ v12 + 2 \in Nat \ {0} /\ v7 \in Nat
  BY DEF Tf!TfTypeOK
<1>3. q \in Tf!TfRequest /\ q.step = "sent"
  BY <1>1, <1>2 DEF Tf!TfRequest
<1>4. v11' = v11 \cup {q}
  BY <1>1 DEF Tf!TfAsk
<1>5. QED
  BY <1>3, <1>4 DEF Tf!TfAsk, Tf!tfServer, Tf!tfPage, Tf!tfPicture

LEMMA TwoFactorGoesOn ==
  ASSUME Tf!TfTypeOK, NEW r \in v11, NEW step \in {"loaded", "saved", "dropped", "done"}, Tf!TfStep(r, step)
  PROVE  /\ \E q \in Tf!TfRequest : /\ v11' = (v11 \ {r}) \cup {q}
                                    /\ q.kind = r.kind /\ q.new = r.new /\ q.step = step
         /\ UNCHANGED <<v5, v6, v7, v8, v9, v10, v12, v14, v15, v16>>
<1>1. PICK q : q = [r EXCEPT !.step = step]
  OBVIOUS
<1>2. r \in Tf!TfRequest
  BY DEF Tf!TfTypeOK
<1>3. q \in Tf!TfRequest /\ q.kind = r.kind /\ q.new = r.new /\ q.step = step
  BY <1>1, <1>2 DEF Tf!TfRequest
<1>4. v11' = (v11 \ {r}) \cup {q}
  BY <1>1 DEF Tf!TfStep
<1>5. QED  BY <1>3, <1>4 DEF Tf!TfStep, Tf!tfPage, Tf!tfPicture

LEMMA TwoFactorLoads ==
  ASSUME Tf!TfTypeOK, NEW r \in v11, Tf!TfLoad(r)
  PROVE  /\ \E q \in Tf!TfRequest :
              /\ v11' = (v11 \ {r}) \cup {q} /\ q.kind = r.kind /\ q.new = r.new
              /\ q.step = IF r.kind = "regenerate" THEN "saved" ELSE "loaded"
              /\ q.user = v1 /\ q.on = v2
         /\ r.step = "sent" /\ (r.kind = "regenerate" => v2)
         /\ UNCHANGED <<v1, v2, v3, v4, v5, v6, v7, v8, v9, v10, v12, v13, v14, v15, v16>>
<1>1. PICK held : held = Tf!TfToVerify
  OBVIOUS
<1>2. PICK q : q = [r EXCEPT !.step = IF r.kind = "regenerate" THEN "saved" ELSE "loaded",
                             !.user = v1, !.on = v2, !.held = held]
  OBVIOUS
<1>3. r \in Tf!TfRequest /\ v1 \in Nat /\ v2 \in BOOLEAN /\ held \in Nat
  BY <1>1 DEF Tf!TfTypeOK, Tf!TfToVerify
<1>4. /\ q \in Tf!TfRequest /\ q.kind = r.kind /\ q.new = r.new /\ q.user = v1 /\ q.on = v2
      /\ q.step = IF r.kind = "regenerate" THEN "saved" ELSE "loaded"
  BY <1>2, <1>3 DEF Tf!TfRequest
<1>5. v11' = (v11 \ {r}) \cup {q}
  BY <1>1, <1>2 DEF Tf!TfLoad
<1>6. r.step = "sent" /\ (r.kind = "regenerate" => v2)
  BY DEF Tf!TfLoad, Tf!TfAccepted
<1>7. QED
  BY <1>4, <1>5, <1>6 DEF Tf!TfLoad, Tf!tfServer, Tf!tfPage, Tf!tfPicture, Tf!tfHistory

(* The types, and the picture: what a step does to what is shown.            *)
LEMMA TwoFactorEnds ==
  ASSUME Tf!TfTypeOK, NEW r \in v11, Tf!TfAnswered(r)
  PROVE  /\ v11' = v11 \ {r} /\ r.step = "done"
         /\ v10' = (IF r.kind \in {"verify", "regenerate"} THEN r.new ELSE 0)
         /\ v5' \in [fresh : BOOLEAN, on : BOOLEAN] /\ v5'.on = v5.on
         /\ IF r.kind = "regenerate" THEN v5' = v5 ELSE v5'.fresh = FALSE
         /\ v6' = (IF r.kind = "verify" THEN TRUE ELSE IF r.kind = "disable" THEN FALSE ELSE v6)
         /\ v7' = (IF r.kind = "setup" THEN r.new ELSE IF r.kind = "regenerate" THEN v7 ELSE 0)
         /\ v8' = (IF v7' = 0 THEN 0 ELSE v8)
         /\ v9' = (IF v7' \in {0, v7} THEN v9 ELSE v9 \cup {v7'})
         /\ UNCHANGED <<v1, v2, v3, v4, v12, v13, v14, v15, v16>>
<1>1. r \in Tf!TfRequest /\ v5 \in [fresh : BOOLEAN, on : BOOLEAN]
  BY DEF Tf!TfTypeOK
<1>2. r.kind \in {"setup", "verify", "regenerate", "disable"}
  BY <1>1 DEF Tf!TfRequest
<1>3. /\ v11' = v11 \ {r} /\ r.step = "done" /\ UNCHANGED <<v1, v2, v3, v4, v12, v13, v14, v15, v16>>
      /\ v10' = (IF r.kind \in {"verify", "regenerate"} THEN r.new ELSE 0)
  BY DEF Tf!TfAnswered, Tf!TfCodesShown, Tf!TfShownAfter, Tf!tfServer, Tf!tfHistory
<1>4. v5' = IF r.kind = "regenerate" THEN v5 ELSE [v5 EXCEPT !.fresh = FALSE]
  BY DEF Tf!TfAnswered, Tf!TfStatusAfter, Tf!TfStatusStale
<1>5. /\ v5' \in [fresh : BOOLEAN, on : BOOLEAN] /\ v5'.on = v5.on
      /\ IF r.kind = "regenerate" THEN v5' = v5 ELSE v5'.fresh = FALSE
  BY <1>1, <1>4
<1>6. /\ v6' = (IF r.kind = "verify" THEN TRUE ELSE IF r.kind = "disable" THEN FALSE ELSE v6)
      /\ v7' = (IF r.kind = "setup" THEN r.new ELSE IF r.kind = "regenerate" THEN v7 ELSE 0)
      /\ v8' = (IF v7' = 0 THEN 0 ELSE v8)
      /\ v9' = (IF v7' \in {0, v7} THEN v9 ELSE v9 \cup {v7'})
  BY <1>2 DEF Tf!TfAnswered, Tf!TfShow
<1>7. QED  BY <1>3, <1>5, <1>6

(* What a handler writes.                                                    *)
LEMMA TwoFactorWrites ==
  ASSUME Tf!TfTypeOK, NEW r \in v11,
         \/ Tf!TfSetupSave(r) \/ Tf!TfVerifySave(r) \/ Tf!TfDisableSave(r)
         \/ Tf!TfDropCodes(r) \/ Tf!TfInsertCodes(r)
  PROVE  /\ \E q \in Tf!TfRequest :
              /\ v11' = (v11 \ {r}) \cup {q} /\ q.kind = r.kind /\ q.new = r.new
              /\ \/ /\ r.step = "loaded" /\ r.kind = "setup" /\ r.on /\ q.step = "done"
                    /\ v3' = r.new /\ UNCHANGED <<v1, v2, v4, v13>>
                 \/ /\ r.step = "loaded" /\ r.kind = "setup" /\ ~r.on /\ q.step = "saved"
                    /\ v1' = (IF r.user = r.new THEN v1 ELSE r.new) /\ UNCHANGED <<v2, v3, v4, v13>>
                 \/ /\ r.step = "loaded" /\ r.kind = "verify" /\ q.step = "saved"
                    /\ v1' = (IF r.user = r.held THEN v1 ELSE r.held) /\ v13' = r.held
                    /\ v2' = (IF r.on THEN v2 ELSE TRUE) /\ UNCHANGED <<v3, v4>>
                 \/ /\ r.step = "loaded" /\ r.kind = "disable" /\ q.step = "saved"
                    /\ v1' = (IF r.user = 0 THEN v1 ELSE 0) /\ UNCHANGED <<v3, v4, v13>>
                    /\ v2' = (IF r.on THEN FALSE ELSE v2)
                 \/ /\ r.step = "saved" /\ v4' = {} /\ UNCHANGED <<v1, v2, v13>>
                    /\ q.step = (IF r.kind \in {"verify", "regenerate"} THEN "dropped" ELSE "done")
                    /\ v3' = (IF r.kind \in {"verify", "disable"} THEN 0 ELSE v3)
                 \/ /\ r.step = "dropped" /\ v4' = v4 \cup {r.new} /\ q.step = "done"
                    /\ UNCHANGED <<v1, v2, v3, v13>>
         /\ UNCHANGED <<v5, v6, v7, v8, v9, v10, v12, v14, v15, v16>>
<1>0. r \in Tf!TfRequest /\ r.on \in BOOLEAN /\ v2 \in BOOLEAN
  BY DEF Tf!TfTypeOK, Tf!TfRequest
<1>1. CASE Tf!TfSetupSave(r)
  <2>1. CASE r.on
    <3>1. /\ Tf!TfStep(r, "done") /\ v3' = r.new /\ UNCHANGED <<v1, v2, v4, v13>>
          /\ r.step = "loaded" /\ r.kind = "setup"
      BY <1>1, <2>1 DEF Tf!TfSetupSave, Tf!TfRenew, Tf!TfKeepUntilVerified
    <3>2. QED  BY <2>1, <3>1, TwoFactorGoesOn
  <2>2. CASE ~r.on
    <3>1. /\ Tf!TfStep(r, "saved") /\ v1' = (IF r.user = r.new THEN v1 ELSE r.new)
          /\ v2' = (IF r.on = FALSE THEN v2 ELSE FALSE) /\ UNCHANGED <<v3, v4, v13>>
          /\ r.step = "loaded" /\ r.kind = "setup"
      BY <1>1, <2>2 DEF Tf!TfSetupSave, Tf!TfSaveUser, Tf!TfSaved
    <3>2. v2' = v2
      BY <2>2, <3>1
    <3>3. QED  BY <2>2, <3>1, <3>2, TwoFactorGoesOn
  <2>3. QED  BY <2>1, <2>2
<1>2. CASE Tf!TfVerifySave(r)
  <2>1. /\ Tf!TfStep(r, "saved") /\ v1' = (IF r.user = r.held THEN v1 ELSE r.held)
        /\ v2' = (IF r.on = TRUE THEN v2 ELSE TRUE) /\ UNCHANGED <<v3, v4>> /\ v13' = r.held
        /\ r.step = "loaded" /\ r.kind = "verify"
    BY <1>2 DEF Tf!TfVerifySave, Tf!TfSaveUser, Tf!TfSaved
  <2>2. v2' = (IF r.on THEN v2 ELSE TRUE)
    BY <1>0, <2>1
  <2>3. QED  BY <2>1, <2>2, TwoFactorGoesOn
<1>3. CASE Tf!TfDisableSave(r)
  <2>1. /\ Tf!TfStep(r, "saved") /\ v1' = (IF r.user = 0 THEN v1 ELSE 0)
        /\ v2' = (IF r.on = FALSE THEN v2 ELSE FALSE) /\ UNCHANGED <<v3, v4, v13>>
        /\ r.step = "loaded" /\ r.kind = "disable"
    BY <1>3 DEF Tf!TfDisableSave, Tf!TfSaveUser, Tf!TfSaved
  <2>2. v2' = (IF r.on THEN FALSE ELSE v2)
    BY <1>0, <2>1
  <2>3. QED  BY <2>1, <2>2, TwoFactorGoesOn
<1>4. CASE Tf!TfDropCodes(r)
  <2>1. PICK step \in {"dropped", "done"} : /\ step = (IF r.kind \in {"verify", "regenerate"} THEN "dropped" ELSE "done")
                                           /\ Tf!TfStep(r, step)
    BY <1>4 DEF Tf!TfDropCodes
  <2>2. /\ r.step = "saved" /\ v4' = {} /\ UNCHANGED <<v1, v2, v13>>
        /\ v3' = (IF r.kind \in {"verify", "disable"} THEN 0 ELSE v3)
    BY <1>4 DEF Tf!TfDropCodes, Tf!TfPendingAfter, Tf!TfForgetPending
  <2>3. QED  BY <2>1, <2>2, TwoFactorGoesOn
<1>5. CASE Tf!TfInsertCodes(r)
  <2>1. r.step = "dropped" /\ Tf!TfStep(r, "done") /\ v4' = v4 \cup {r.new} /\ UNCHANGED <<v1, v2, v3, v13>>
    BY <1>5 DEF Tf!TfInsertCodes
  <2>2. QED  BY <2>1, TwoFactorGoesOn
<1>6. QED  BY <1>1, <1>2, <1>3, <1>4, <1>5

LEMMA TwoFactorPage ==
  ASSUME Tf!TfInv,
         Tf!TfReadStatus \/ Tf!TfCancel \/ Tf!TfExpire \/ \E secret \in v9 : Tf!TfDrawn(secret)
  PROVE  Tf!TfInv'
<1>0. Tf!TfTypeOK /\ Tf!TfPictureFollows /\ Tf!AuthenticatorWorks
  BY DEF Tf!TfInv
<1>1. CASE Tf!TfReadStatus
  <2>1. v5' = [fresh |-> TRUE, on |-> v2] /\ UNCHANGED <<v1, v2, v3, v4, v6, v7, v8, v9, v10, v11, v12, v13, v14, v15, v16>>
    BY <1>1 DEF Tf!TfReadStatus, Tf!tfServer, Tf!tfPicture, Tf!tfHistory
  <2>2. v5' \in [fresh : BOOLEAN, on : BOOLEAN] /\ v5'.on = v2
    BY <1>0, <2>1 DEF Tf!TfTypeOK
  <2>3. Tf!TfTypeOK'
    BY <1>0, <2>1, <2>2 DEF Tf!TfTypeOK
  <2>4. Tf!TfPictureFollows' /\ Tf!AuthenticatorWorks'
    BY <1>0, <2>1 DEF Tf!TfPictureFollows, Tf!AuthenticatorWorks
  <2>5. ~v15' => Tf!TfOneRequest'
    BY <2>1 DEF Tf!TfInv, Tf!TfOneRequest, Tf!TfBefore
  <2>6. ~v15' /\ ~v16' => Tf!TfShownLeads'
    BY <2>1, <2>2 DEF Tf!TfInv, Tf!TfShownLeads, Tf!TfBefore
  <2>7. ~v15' /\ ~v16' => Tf!TfSecretLeads'
    BY <2>1 DEF Tf!TfInv, Tf!TfSecretLeads, Tf!TfToVerify, Tf!TfBefore
  <2>8. QED  BY <2>3, <2>4, <2>5, <2>6, <2>7 DEF Tf!TfInv
<1>2. CASE Tf!TfCancel
  <2>1. v7' = 0 /\ v8' = 0 /\ UNCHANGED <<v1, v2, v3, v4, v5, v6, v9, v10, v11, v12, v13, v14, v15, v16>>
    BY <1>2 DEF Tf!TfCancel, Tf!TfShow, Tf!tfServer, Tf!tfHistory
  <2>2. Tf!TfTypeOK'
    BY <1>0, <2>1 DEF Tf!TfTypeOK
  <2>3. Tf!TfPictureFollows' /\ Tf!AuthenticatorWorks'
    BY <1>0, <2>1 DEF Tf!TfPictureFollows, Tf!AuthenticatorWorks
  <2>4. ~v15' => Tf!TfOneRequest'
    BY <2>1 DEF Tf!TfInv, Tf!TfOneRequest, Tf!TfBefore
  <2>5. ~v15' /\ ~v16' => Tf!TfShownLeads'
    BY <2>1 DEF Tf!TfInv, Tf!TfShownLeads, Tf!TfBefore
  <2>6. ~v15' /\ ~v16' => Tf!TfSecretLeads'
    BY <2>1 DEF Tf!TfInv, Tf!TfSecretLeads, Tf!TfToVerify, Tf!TfBefore
  <2>7. QED  BY <2>2, <2>3, <2>4, <2>5, <2>6 DEF Tf!TfInv
<1>3. CASE Tf!TfExpire
  <2>1. /\ v3 # 0 /\ v3' = 0 /\ v14' = v14 \cup {v3}
        /\ UNCHANGED <<v1, v2, v4, v5, v6, v7, v8, v9, v10, v11, v12, v13, v15, v16>>
    BY <1>3 DEF Tf!TfExpire, Tf!tfPage, Tf!tfPicture
  <2>2. Tf!TfTypeOK'
    BY <1>0, <2>1 DEF Tf!TfTypeOK
  <2>3. Tf!TfPictureFollows' /\ Tf!AuthenticatorWorks'
    BY <1>0, <2>1 DEF Tf!TfPictureFollows, Tf!AuthenticatorWorks
  <2>4. ~v15' => Tf!TfOneRequest'
    BY <2>1 DEF Tf!TfInv, Tf!TfOneRequest, Tf!TfBefore
  <2>5. ~v15' /\ ~v16' => Tf!TfShownLeads'
    BY <2>1 DEF Tf!TfInv, Tf!TfShownLeads, Tf!TfBefore
  <2>6. ~v15' /\ ~v16' => Tf!TfSecretLeads'
    <3>1. Tf!TfToVerify = v3
      BY <2>1 DEF Tf!TfToVerify
    <3>2. QED  BY <2>1, <3>1 DEF Tf!TfInv, Tf!TfSecretLeads, Tf!TfBefore
  <2>7. QED  BY <2>2, <2>3, <2>4, <2>5, <2>6 DEF Tf!TfInv
<1>4. ASSUME NEW secret \in v9, Tf!TfDrawn(secret) PROVE Tf!TfInv'
  <2>1. /\ v9' = v9 \ {secret}
        /\ IF secret = v7 THEN v8' \in {secret, 0} ELSE v8' = v8
        /\ UNCHANGED <<v1, v2, v3, v4, v5, v6, v7, v10, v11, v12, v13, v14, v15, v16>>
    BY <1>4 DEF Tf!TfDrawn, Tf!TfDrawingCounts, Tf!TfStillShown, Tf!tfServer, Tf!tfHistory
  <2>2. v8' \in Nat
    BY <1>0, <2>1 DEF Tf!TfTypeOK
  <2>3. Tf!TfTypeOK'
    BY <1>0, <2>1, <2>2 DEF Tf!TfTypeOK
  <2>4. Tf!TfPictureFollows' /\ Tf!AuthenticatorWorks'
    BY <1>0, <2>1 DEF Tf!TfPictureFollows, Tf!AuthenticatorWorks
  <2>5. ~v15' => Tf!TfOneRequest'
    BY <2>1 DEF Tf!TfInv, Tf!TfOneRequest, Tf!TfBefore
  <2>6. ~v15' /\ ~v16' => Tf!TfShownLeads'
    BY <2>1 DEF Tf!TfInv, Tf!TfShownLeads, Tf!TfBefore
  <2>7. ~v15' /\ ~v16' => Tf!TfSecretLeads'
    BY <2>1 DEF Tf!TfInv, Tf!TfSecretLeads, Tf!TfToVerify, Tf!TfBefore
  <2>8. QED  BY <2>3, <2>4, <2>5, <2>6, <2>7 DEF Tf!TfInv
<1>5. QED  BY <1>1, <1>2, <1>3, <1>4

LEMMA TwoFactorAsked ==
  ASSUME Tf!TfInv, NEW kind \in {"setup", "verify", "regenerate", "disable"}, Tf!TfAsk(kind)
  PROVE  Tf!TfInv'
<1>0. Tf!TfTypeOK /\ Tf!TfPictureFollows /\ Tf!AuthenticatorWorks
  BY DEF Tf!TfInv
<1>1. PICK q \in Tf!TfRequest : v11' = v11 \cup {q} /\ q.step = "sent"
  BY <1>0, TwoFactorAsks
<1>2. /\ v12' = v12 + 1 /\ v15' = (v15 \/ v11 # {})
      /\ UNCHANGED <<v1, v2, v3, v4, v5, v6, v7, v8, v9, v10, v13, v14, v16>>
  BY <1>0, TwoFactorAsks
<1>3. Tf!TfTypeOK'
  BY <1>0, <1>1, <1>2 DEF Tf!TfTypeOK
<1>4. Tf!TfPictureFollows' /\ Tf!AuthenticatorWorks'
  BY <1>0, <1>2 DEF Tf!TfPictureFollows, Tf!AuthenticatorWorks
<1>5. ~v15' => ~v15 /\ v11 = {} /\ v11' = {q}
  BY <1>1, <1>2
<1>6. ~v15' => Tf!TfOneRequest'
  BY <1>1, <1>5 DEF Tf!TfOneRequest, Tf!TfBefore
<1>7. ~v15' /\ ~v16' => Tf!TfShownLeads'
  BY <1>1, <1>2, <1>5 DEF Tf!TfInv, Tf!TfShownLeads, Tf!TfBefore
<1>8. ~v15' /\ ~v16' => Tf!TfSecretLeads'
  BY <1>1, <1>2, <1>5 DEF Tf!TfInv, Tf!TfSecretLeads, Tf!TfToVerify, Tf!TfBefore
<1>9. QED  BY <1>3, <1>4, <1>6, <1>7, <1>8 DEF Tf!TfInv

LEMMA TwoFactorLoaded ==
  ASSUME Tf!TfInv, NEW r \in v11, Tf!TfLoad(r)
  PROVE  Tf!TfInv'
<1>0. Tf!TfTypeOK /\ Tf!TfPictureFollows /\ Tf!AuthenticatorWorks
  BY DEF Tf!TfInv
<1>1. PICK q \in Tf!TfRequest :
        /\ v11' = (v11 \ {r}) \cup {q} /\ q.kind = r.kind /\ q.new = r.new
        /\ q.step = IF r.kind = "regenerate" THEN "saved" ELSE "loaded"
        /\ q.user = v1 /\ q.on = v2
  BY <1>0, TwoFactorLoads
<1>2. /\ r.step = "sent" /\ (r.kind = "regenerate" => v2)
      /\ UNCHANGED <<v1, v2, v3, v4, v5, v6, v7, v8, v9, v10, v12, v13, v14, v15, v16>>
  BY <1>0, TwoFactorLoads
<1>3. Tf!TfTypeOK'
  BY <1>0, <1>1, <1>2 DEF Tf!TfTypeOK
<1>4. Tf!TfPictureFollows' /\ Tf!AuthenticatorWorks'
  BY <1>0, <1>2 DEF Tf!TfPictureFollows, Tf!AuthenticatorWorks
<1>5. ~v15' => ~v15 /\ v11 = {r} /\ v11' = {q}
  BY <1>1, <1>2 DEF Tf!TfInv, Tf!TfOneRequest
<1>6. ~v15' => Tf!TfOneRequest'
  BY <1>1, <1>2, <1>5 DEF Tf!TfOneRequest, Tf!TfBefore
<1>7. ~v15' /\ ~v16' => Tf!TfShownLeads'
  BY <1>1, <1>2, <1>5 DEF Tf!TfInv, Tf!TfShownLeads, Tf!TfBefore
<1>8. ~v15' /\ ~v16' => Tf!TfSecretLeads'
  BY <1>1, <1>2, <1>5 DEF Tf!TfInv, Tf!TfSecretLeads, Tf!TfToVerify, Tf!TfBefore
<1>9. QED  BY <1>3, <1>4, <1>6, <1>7, <1>8 DEF Tf!TfInv

LEMMA TwoFactorWritten ==
  ASSUME Tf!TfInv, NEW r \in v11,
         \/ Tf!TfSetupSave(r) \/ Tf!TfVerifySave(r) \/ Tf!TfDisableSave(r)
         \/ Tf!TfDropCodes(r) \/ Tf!TfInsertCodes(r)
  PROVE  Tf!TfInv'
<1>0. Tf!TfTypeOK /\ Tf!TfPictureFollows /\ Tf!AuthenticatorWorks
  BY DEF Tf!TfInv
<1>1. PICK q \in Tf!TfRequest :
              /\ v11' = (v11 \ {r}) \cup {q} /\ q.kind = r.kind /\ q.new = r.new
              /\ \/ /\ r.step = "loaded" /\ r.kind = "setup" /\ r.on /\ q.step = "done"
                    /\ v3' = r.new /\ UNCHANGED <<v1, v2, v4, v13>>
                 \/ /\ r.step = "loaded" /\ r.kind = "setup" /\ ~r.on /\ q.step = "saved"
                    /\ v1' = (IF r.user = r.new THEN v1 ELSE r.new) /\ UNCHANGED <<v2, v3, v4, v13>>
                 \/ /\ r.step = "loaded" /\ r.kind = "verify" /\ q.step = "saved"
                    /\ v1' = (IF r.user = r.held THEN v1 ELSE r.held) /\ v13' = r.held
                    /\ v2' = (IF r.on THEN v2 ELSE TRUE) /\ UNCHANGED <<v3, v4>>
                 \/ /\ r.step = "loaded" /\ r.kind = "disable" /\ q.step = "saved"
                    /\ v1' = (IF r.user = 0 THEN v1 ELSE 0) /\ UNCHANGED <<v3, v4, v13>>
                    /\ v2' = (IF r.on THEN FALSE ELSE v2)
                 \/ /\ r.step = "saved" /\ v4' = {} /\ UNCHANGED <<v1, v2, v13>>
                    /\ q.step = (IF r.kind \in {"verify", "regenerate"} THEN "dropped" ELSE "done")
                    /\ v3' = (IF r.kind \in {"verify", "disable"} THEN 0 ELSE v3)
                 \/ /\ r.step = "dropped" /\ v4' = v4 \cup {r.new} /\ q.step = "done"
                    /\ UNCHANGED <<v1, v2, v3, v13>>
  BY <1>0, TwoFactorWrites
<1>2. UNCHANGED <<v5, v6, v7, v8, v9, v10, v12, v14, v15, v16>>
  BY <1>0, TwoFactorWrites
<1>3. /\ r \in Tf!TfRequest /\ r.new \in Nat \ {0} /\ r.held \in Nat /\ r.on \in BOOLEAN
      /\ v2 \in BOOLEAN /\ v15 \in BOOLEAN /\ v16 \in BOOLEAN
      /\ q.kind \in {"setup", "verify", "regenerate", "disable"}
  BY <1>0 DEF Tf!TfTypeOK, Tf!TfRequest
<1>4. Tf!TfTypeOK'
  <2>1. v1' \in Nat /\ v2' \in BOOLEAN /\ v3' \in Nat /\ v13' \in Nat /\ v4' \subseteq Nat
    <3>1. v1 \in Nat /\ v3 \in Nat /\ v13 \in Nat /\ v4 \subseteq Nat
      BY <1>0 DEF Tf!TfTypeOK
    <3>2. v1' \in {v1, r.new, r.held, 0} /\ v3' \in {v3, r.new, 0} /\ v13' \in {v13, r.held}
      BY <1>1
    <3>3. v2' \in BOOLEAN
      BY <1>1, <1>3
    <3>4. v4' \in {v4, {}, v4 \cup {r.new}}
      BY <1>1
    <3>5. QED  BY ONLY <1>3, <3>1, <3>2, <3>3, <3>4
  <2>2. QED  BY <1>0, <1>1, <1>2, <2>1 DEF Tf!TfTypeOK
<1>5. ~v15' => /\ ~v15 /\ v11 = {r} /\ v11' = {q} /\ Tf!TfOneRequest
               /\ r.step = "loaded" => r.user = v1 /\ r.on = v2
               /\ r.step \in {"saved", "dropped"} =>
                      /\ r.kind \in {"verify", "regenerate"} => v2
                      /\ r.kind = "disable" => ~v2
               /\ r.step = "dropped" => v4 = {}
  BY <1>1, <1>2 DEF Tf!TfInv, Tf!TfOneRequest, Tf!TfBefore
<1>6. Tf!TfPictureFollows'
  BY <1>0, <1>2 DEF Tf!TfPictureFollows
<1>7. Tf!AuthenticatorWorks'
  BY <1>0, <1>1, <1>3, <1>5 DEF Tf!AuthenticatorWorks
<1>8. ~v15' => Tf!TfOneRequest'
  BY <1>1, <1>3, <1>5 DEF Tf!TfOneRequest, Tf!TfBefore
<1>9. ~v15' /\ ~v16' => Tf!TfShownLeads /\ Tf!TfSecretLeads
  BY <1>2 DEF Tf!TfInv
<1>10. ~v15' /\ ~v16' => Tf!TfShownLeads'
  <2>1. q.step \notin {"sent", "loaded"}
    BY <1>1
  <2>2. ~v15' /\ q.kind \notin {"verify", "disable"} => v2' = v2 /\ r.kind \notin {"verify", "disable"}
    BY <1>1
  <2>3. QED  BY <1>2, <1>5, <1>9, <2>1, <2>2 DEF Tf!TfShownLeads, Tf!TfBefore
<1>11. ASSUME ~v15', ~v16' PROVE Tf!TfSecretLeads'
  <2>1. q.step \notin {"sent", "loaded"} /\ v11 = {r} /\ v11' = {q} /\ Tf!TfSecretLeads
    BY <1>1, <1>5, <1>9, <1>11
  <2>2. q.kind = "regenerate" => v1' = v1 /\ v3' = v3 /\ r.kind = "regenerate"
    BY <1>1
  <2>3. (q.kind = "regenerate" => (v7 # 0 /\ v7 \notin v14 => v7 = Tf!TfToVerify'))
    BY <2>1, <2>2 DEF Tf!TfSecretLeads, Tf!TfToVerify
  <2>4. ~v2 => v3 = 0 \/ (r.kind = "disable" /\ r.step = "saved")
    BY <2>1 DEF Tf!TfSecretLeads
  <2>5. q.kind = "setup" => Tf!TfToVerify' = q.new \/ q.new \in v14
    <3>1. CASE r.step = "loaded"
      BY <1>1, <1>3, <1>5, <1>11, <2>4, <3>1 DEF Tf!TfToVerify
    <3>2. CASE r.step # "loaded"
      <4>1. q.kind = "setup" => v1' = v1 /\ v3' = v3 /\ r.step \in {"saved", "dropped"}
        BY <1>1, <3>2
      <4>2. QED  BY <1>1, <2>1, <4>1 DEF Tf!TfSecretLeads, Tf!TfToVerify, Tf!TfBefore
    <3>3. QED  BY <3>1, <3>2
  <2>6. ~v2' => v3' = 0 \/ (q.kind = "disable" /\ q.step = "saved")
    BY <1>1, <1>3, <1>5, <1>11, <2>4
  <2>7. QED  BY <1>2, <2>1, <2>3, <2>5, <2>6 DEF Tf!TfSecretLeads, Tf!TfBefore
<1>12. QED  BY <1>4, <1>6, <1>7, <1>8, <1>10, <1>11 DEF Tf!TfInv

LEMMA TwoFactorEnded ==
  ASSUME Tf!TfInv, NEW r \in v11, Tf!TfAnswered(r)
  PROVE  Tf!TfInv'
<1>0. Tf!TfTypeOK /\ Tf!TfPictureFollows /\ Tf!AuthenticatorWorks
  BY DEF Tf!TfInv
<1>1. /\ v11' = v11 \ {r} /\ r.step = "done"
      /\ v10' = (IF r.kind \in {"verify", "regenerate"} THEN r.new ELSE 0)
      /\ v5' \in [fresh : BOOLEAN, on : BOOLEAN] /\ v5'.on = v5.on
      /\ IF r.kind = "regenerate" THEN v5' = v5 ELSE v5'.fresh = FALSE
      /\ v6' = (IF r.kind = "verify" THEN TRUE ELSE IF r.kind = "disable" THEN FALSE ELSE v6)
      /\ v7' = (IF r.kind = "setup" THEN r.new ELSE IF r.kind = "regenerate" THEN v7 ELSE 0)
      /\ v8' = (IF v7' = 0 THEN 0 ELSE v8)
      /\ v9' = (IF v7' \in {0, v7} THEN v9 ELSE v9 \cup {v7'})
      /\ UNCHANGED <<v1, v2, v3, v4, v12, v13, v14, v15, v16>>
  BY <1>0, TwoFactorEnds
<1>2. /\ r \in Tf!TfRequest /\ r.new \in Nat \ {0}
      /\ r.kind \in {"setup", "verify", "regenerate", "disable"} /\ v6 \in BOOLEAN /\ v2 \in BOOLEAN
  BY <1>0 DEF Tf!TfTypeOK, Tf!TfRequest
<1>3. Tf!TfTypeOK'
  <2>1. v6' \in BOOLEAN /\ v7' \in Nat /\ v8' \in Nat /\ v9' \subseteq Nat /\ v10' \in Nat
    BY <1>0, <1>1, <1>2 DEF Tf!TfTypeOK
  <2>2. QED  BY <1>0, <1>1, <2>1 DEF Tf!TfTypeOK
<1>4. Tf!TfPictureFollows' /\ Tf!AuthenticatorWorks'
  BY <1>0, <1>1 DEF Tf!TfPictureFollows, Tf!AuthenticatorWorks
<1>5. ~v15' => /\ v11 = {r} /\ v11' = {}
               /\ r.kind \in {"verify", "regenerate"} => v2 /\ v4 = {r.new}
               /\ r.kind = "disable" => ~v2
  BY <1>1 DEF Tf!TfInv, Tf!TfOneRequest, Tf!TfBefore
<1>6. ~v15' => Tf!TfOneRequest'
  BY <1>5 DEF Tf!TfOneRequest
<1>7. ASSUME ~v15', ~v16' PROVE Tf!TfShownLeads' /\ Tf!TfSecretLeads'
  <2>1. Tf!TfShownLeads /\ Tf!TfSecretLeads /\ v11 = {r} /\ v11' = {}
    BY <1>1, <1>5, <1>7 DEF Tf!TfInv
  <2>2. v5'.fresh => v5'.on = v2
    BY <1>1, <2>1 DEF Tf!TfShownLeads
  <2>3. v6' = v2
    BY <1>1, <1>2, <1>5, <1>7, <2>1 DEF Tf!TfShownLeads
  <2>4. v10' # 0 => v2 /\ v4 = {v10'}
    BY <1>1, <1>5, <1>7
  <2>5. v7' # 0 /\ v7' \notin v14 => v7' = Tf!TfToVerify
    BY <1>1, <2>1 DEF Tf!TfSecretLeads, Tf!TfBefore
  <2>6. ~v2 => v3 = 0
    BY <1>1, <2>1 DEF Tf!TfSecretLeads
  <2>7. Tf!TfToVerify' = Tf!TfToVerify
    BY <1>1 DEF Tf!TfToVerify
  <2>8. QED  BY <1>1, <2>1, <2>2, <2>3, <2>4, <2>5, <2>6, <2>7 DEF Tf!TfShownLeads, Tf!TfSecretLeads
<1>8. QED  BY <1>3, <1>4, <1>6, <1>7 DEF Tf!TfInv

LEMMA TwoFactorFailed ==
  ASSUME Tf!TfInv, NEW r \in v11, Tf!TfFails(r)
  PROVE  Tf!TfInv'
<1>0. Tf!TfTypeOK /\ Tf!TfPictureFollows /\ Tf!AuthenticatorWorks
  BY DEF Tf!TfInv
<1>1. /\ v11' = v11 \ {r} /\ v16' = (v16 \/ r.step \notin {"sent", "loaded"})
      /\ UNCHANGED <<v1, v2, v3, v4, v5, v6, v7, v8, v9, v10, v12, v13, v14, v15>>
  BY DEF Tf!TfFails, Tf!tfServer, Tf!tfPage, Tf!tfPicture
<1>2. Tf!TfTypeOK'
  BY <1>0, <1>1 DEF Tf!TfTypeOK
<1>3. Tf!TfPictureFollows' /\ Tf!AuthenticatorWorks'
  BY <1>0, <1>1 DEF Tf!TfPictureFollows, Tf!AuthenticatorWorks
<1>4. ~v15' => v11 = {r} /\ v11' = {}
  BY <1>1 DEF Tf!TfInv, Tf!TfOneRequest
<1>5. ~v15' => Tf!TfOneRequest'
  BY <1>4 DEF Tf!TfOneRequest
<1>6. ASSUME ~v15', ~v16' PROVE Tf!TfShownLeads' /\ Tf!TfSecretLeads'
  <2>1. /\ Tf!TfShownLeads /\ Tf!TfSecretLeads /\ v11 = {r} /\ v11' = {} /\ r.step \in {"sent", "loaded"}
    BY <1>1, <1>4, <1>6 DEF Tf!TfInv
  <2>2. Tf!TfShownLeads'
    BY <1>1, <2>1 DEF Tf!TfShownLeads, Tf!TfBefore
  <2>3. Tf!TfSecretLeads'
    BY <1>1, <2>1 DEF Tf!TfSecretLeads, Tf!TfToVerify, Tf!TfBefore
  <2>4. QED  BY <2>2, <2>3
<1>7. QED  BY <1>2, <1>3, <1>5, <1>6 DEF Tf!TfInv

LEMMA TwoFactorStep ==
  ASSUME Tf!TfInv, Tf!TfNext
  PROVE  Tf!TfInv'
  BY TwoFactorPage, TwoFactorAsked, TwoFactorLoaded, TwoFactorWritten, TwoFactorEnded, TwoFactorFailed
     DEF Tf!TfNext

LEMMA TwoFactorHolds ==
  ASSUME Tf!TfInv
  PROVE  /\ Tf!AuthenticatorWorks /\ Tf!ShownSecretIsChecked /\ Tf!ShownCodesWork
         /\ Tf!TwoFactorStatusTrue
<1>1. v11 = {} /\ ~v15 /\ ~v16 => Tf!TfShownLeads /\ Tf!TfSecretLeads
  BY DEF Tf!TfInv
<1>2. Tf!ShownSecretIsChecked
  BY <1>1 DEF Tf!TfInv, Tf!ShownSecretIsChecked, Tf!TfSecretLeads, Tf!TfPictureFollows
<1>3. Tf!ShownCodesWork
  BY <1>1 DEF Tf!ShownCodesWork, Tf!TfShownLeads
<1>4. Tf!TwoFactorStatusTrue
  BY <1>1 DEF Tf!TwoFactorStatusTrue, Tf!TfShownLeads
<1>5. QED  BY <1>2, <1>3, <1>4 DEF Tf!TfInv

-----------------------------------------------------------------------------
(* The e-mail page.  v1: the domain picked, v2: the rows of the server, v3:  *)
(* the lists in the cache, v4: the requests under way, v7: the edit form,    *)
(* v9: the passwords of the mailboxes, v10: passwords made, v11: the one     *)
(* shown, v12: an answer crossed.                                            *)

LEMMA EmailInit == Em!EmInit => Em!EmInv
<1> SUFFICES ASSUME Em!EmInit PROVE Em!EmInv
  OBVIOUS
<1>1. Em!EmTypeOK
  <2>1. v2 \in [Sites -> SUBSET Em!EmAllSorts]
    BY DEF Em!EmInit, Em!EmAllSorts, Em!EmSorts
  <2>2. v3 \in [Sites -> [read : BOOLEAN, fresh : BOOLEAN, rows : SUBSET Em!EmAllSorts]]
    BY DEF Em!EmInit, Em!EmUnread
  <2>3. v7 \in [site : Sites \cup {none}, typed : Sites \cup {none}]
    BY DEF Em!EmInit
  <2>4. v9 \in [Sites -> Int]
    BY DEF Em!EmInit
  <2>5. QED  BY <2>1, <2>2, <2>3, <2>4 DEF Em!EmInit, Em!EmTypeOK
<1>2. Em!EmTypedForOne /\ Em!EmOthersCarryNone /\ Em!EmOneCarries /\ Em!EmPasswordsLead
  BY DEF Em!EmInit, Em!EmTypedForOne, Em!EmOthersCarryNone, Em!EmOneCarries, Em!EmPasswordsLead
<1>3. Em!EmListsLead
  BY DEF Em!EmInit, Em!EmListsLead, Em!EmUnread
<1>4. QED  BY <1>1, <1>2, <1>3 DEF Em!EmInv

(* A change of the page that asks for nothing: the form may be opened or     *)
(* typed into, another domain picked, a list read, a password hidden.        *)
LEMMA EmailPageStep ==
  ASSUME Em!EmInv, UNCHANGED <<v2, v4, v5, v9, v10, v12>>, v1' \in Sites,
         v3' = v3 \/ v3' = [v3 EXCEPT ![v1] = [read |-> TRUE, fresh |-> TRUE, rows |-> v2[v1]]],
         v7' = v7 \/ v7' = [site |-> v1, typed |-> none] \/ v7' = [v7 EXCEPT !.typed = v7.site],
         v11' = v11 \/ v11' = none
  PROVE  Em!EmInv'
<1>0. /\ Em!EmTypeOK /\ v1 \in Sites /\ v2 \in [Sites -> SUBSET Em!EmAllSorts]
      /\ v3 \in [Sites -> [read : BOOLEAN, fresh : BOOLEAN, rows : SUBSET Em!EmAllSorts]]
      /\ v7 \in [site : Sites \cup {none}, typed : Sites \cup {none}]
  BY DEF Em!EmInv, Em!EmTypeOK
<1>1. v3' \in [Sites -> [read : BOOLEAN, fresh : BOOLEAN, rows : SUBSET Em!EmAllSorts]]
  <2>1. PICK new : new = [read |-> TRUE, fresh |-> TRUE, rows |-> v2[v1]]
    OBVIOUS
  <2>2. v2[v1] \in SUBSET Em!EmAllSorts
    BY <1>0
  <2>3. new \in [read : BOOLEAN, fresh : BOOLEAN, rows : SUBSET Em!EmAllSorts]
    BY ONLY <2>1, <2>2
  <2>4. v3' = v3 \/ v3' = [v3 EXCEPT ![v1] = new]
    BY <2>1
  <2>5. QED  BY ONLY <1>0, <2>3, <2>4
<1>2. \A d \in Sites : v3'[d] = v3[d] \/ v3'[d].rows = v2[d]
  BY <1>0
<1>3. v7' \in [site : Sites \cup {none}, typed : Sites \cup {none}] /\ Em!EmTypedForOne'
  BY <1>0 DEF Em!EmInv, Em!EmTypedForOne
<1>4. Em!EmTypeOK'
  BY <1>0, <1>1, <1>3 DEF Em!EmTypeOK
<1>5. Em!EmListsLead => Em!EmListsLead'
  BY <1>2 DEF Em!EmListsLead
<1>6. /\ Em!EmOneCarries => Em!EmOneCarries'
      /\ Em!EmPasswordsLead => Em!EmPasswordsLead'
      /\ Em!EmOthersCarryNone => Em!EmOthersCarryNone'
  BY DEF Em!EmOneCarries, Em!EmPasswordsLead, Em!EmOthersCarryNone, Em!EmCarriesNew
<1>7. QED  BY <1>3, <1>4, <1>5, <1>6 DEF Em!EmInv

LEMMA EmailAsked ==
  ASSUME Em!EmInv, NEW kind \in {"createBox", "createForwarder", "deleteBox", "deleteForwarder", "update", "dns"},
         NEW how \in {"none", "typed", "new"}, Em!EmAsk(kind, how), v7' = v7,
         kind # "update" => how = "none",
         kind \in Em!EmCarries => ~Em!EmPending(kind) /\ v11 = none
  PROVE  Em!EmInv'
<1>0. Em!EmTypeOK /\ Em!EmOthersCarryNone
  BY DEF Em!EmInv
<1>1. PICK q : q = [kind |-> kind, site |-> v1, how |-> how, secret |-> 0, done |-> FALSE, n |-> v5]
  OBVIOUS
<1>2. /\ v4' = v4 \cup {q} /\ v5' = v5 + 1 /\ UNCHANGED <<v1, v2, v3, v9, v10, v11>>
      /\ v12' = (v12 \/ \E k \in Em!EmCarries \ {kind} : kind \in Em!EmCarries /\ Em!EmPending(k))
  BY <1>1 DEF Em!EmAsk
<1>3. q \in Em!EmRequest /\ q.kind = kind /\ q.how = how /\ q.secret = 0 /\ ~q.done
  BY <1>0, <1>1 DEF Em!EmRequest, Em!EmTypeOK
<1>4. Em!EmTypeOK'
  BY <1>0, <1>2, <1>3 DEF Em!EmTypeOK
<1>5. Em!EmTypedForOne'
  BY DEF Em!EmInv, Em!EmTypedForOne
<1>6. Em!EmOthersCarryNone'
  BY <1>0, <1>2, <1>3 DEF Em!EmOthersCarryNone, Em!EmCarriesNew, Em!EmCarries
<1>7. ~v12' => ~v12 /\ (kind \in Em!EmCarries => \A r \in v4 : ~Em!EmCarriesNew(r))
  BY <1>2 DEF Em!EmCarriesNew, Em!EmPending
<1>8. ASSUME ~v12' PROVE Em!EmListsLead' /\ Em!EmOneCarries' /\ Em!EmPasswordsLead'
  <2>1. Em!EmListsLead /\ Em!EmOneCarries /\ Em!EmPasswordsLead
    BY <1>7, <1>8 DEF Em!EmInv
  <2>2. Em!EmListsLead'
    BY <1>2, <1>3, <2>1 DEF Em!EmListsLead
  <2>3. Em!EmOneCarries'
    BY <1>2, <1>3, <1>7, <1>8, <2>1 DEF Em!EmOneCarries, Em!EmCarriesNew
  <2>4. Em!EmPasswordsLead'
    BY <1>2, <1>3, <2>1 DEF Em!EmPasswordsLead, Em!EmCarriesNew
  <2>5. QED  BY <2>2, <2>3, <2>4
<1>9. QED  BY <1>4, <1>5, <1>6, <1>8 DEF Em!EmInv

LEMMA EmailCarriedOut ==
  ASSUME Em!EmInv, NEW r \in v4, Em!EmCarriedOut(r)
  PROVE  Em!EmInv'
<1>0. /\ Em!EmTypeOK /\ Em!EmOthersCarryNone /\ Em!EmTypedForOne
      /\ v2 \in [Sites -> SUBSET Em!EmAllSorts] /\ v4 \subseteq Em!EmRequest /\ v10 \in Nat
      /\ v9 \in [Sites -> Int] /\ v12 \in BOOLEAN
  BY DEF Em!EmInv, Em!EmTypeOK
<1>1. r \in Em!EmRequest /\ r.site \in Sites /\ ~r.done
  BY <1>0 DEF Em!EmRequest, Em!EmCarriedOut
<1>2. PICK rows : rows = Em!EmRowsAfter(v2[r.site], r)
  OBVIOUS
<1>3. rows \subseteq Em!EmAllSorts
  BY <1>0, <1>1, <1>2 DEF Em!EmRowsAfter, Em!EmAllSorts, Em!EmSorts
<1>4. v2' = [v2 EXCEPT ![r.site] = rows] /\ UNCHANGED <<v1, v3, v5, v7, v11, v12>>
  BY <1>2 DEF Em!EmCarriedOut
<1>5. \E q \in Em!EmRequest :
        /\ v4' = (v4 \ {r}) \cup {q} /\ q.kind = r.kind /\ q.site = r.site /\ q.how = r.how /\ q.done
        /\ \/ /\ r.kind = "createBox" \/ r.how = "new"
              /\ v10' = v10 + 1 /\ q.secret = v10 + 1
              /\ v9' = [v9 EXCEPT ![r.site] = v10 + 1]
           \/ /\ ~(r.kind = "createBox" \/ r.how = "new")
              /\ v10' = v10 /\ q.secret = r.secret
              /\ v9' = IF r.how = "typed" THEN [v9 EXCEPT ![r.site] = -1] ELSE v9
  <2>1. CASE r.kind = "createBox" \/ r.how = "new"
    <3>1. PICK q : q = [r EXCEPT !.done = TRUE, !.secret = v10 + 1]
      OBVIOUS
    <3>2. v10' = v10 + 1
      BY <2>1 DEF Em!EmCarriedOut
    <3>3. v9' = [v9 EXCEPT ![r.site] = v10 + 1] /\ v4' = (v4 \ {r}) \cup {q}
      BY <2>1, <3>1, <3>2 DEF Em!EmCarriedOut
    <3>4. q \in Em!EmRequest /\ q.kind = r.kind /\ q.site = r.site /\ q.how = r.how /\ q.done /\ q.secret = v10 + 1
      <4>1. v10 + 1 \in Nat
        BY <1>0
      <4>2. QED  BY <1>1, <3>1, <4>1 DEF Em!EmRequest
    <3>5. QED  BY <2>1, <3>2, <3>3, <3>4
  <2>2. CASE ~(r.kind = "createBox" \/ r.how = "new")
    <3>1. PICK q : q = [r EXCEPT !.done = TRUE]
      OBVIOUS
    <3>2. /\ v10' = v10 /\ v4' = (v4 \ {r}) \cup {q}
          /\ v9' = IF r.how = "typed" THEN [v9 EXCEPT ![r.site] = -1] ELSE v9
      BY <2>2, <3>1 DEF Em!EmCarriedOut
    <3>3. q \in Em!EmRequest /\ q.kind = r.kind /\ q.site = r.site /\ q.how = r.how /\ q.done /\ q.secret = r.secret
      BY <1>1, <3>1 DEF Em!EmRequest
    <3>4. QED  BY <2>2, <3>2, <3>3
  <2>3. QED  BY <2>1, <2>2
<1>6. PICK q \in Em!EmRequest :
        /\ v4' = (v4 \ {r}) \cup {q} /\ q.kind = r.kind /\ q.site = r.site /\ q.how = r.how /\ q.done
        /\ \/ /\ r.kind = "createBox" \/ r.how = "new"
              /\ v10' = v10 + 1 /\ q.secret = v10 + 1
              /\ v9' = [v9 EXCEPT ![r.site] = v10 + 1]
           \/ /\ ~(r.kind = "createBox" \/ r.how = "new")
              /\ v10' = v10 /\ q.secret = r.secret
              /\ v9' = IF r.how = "typed" THEN [v9 EXCEPT ![r.site] = -1] ELSE v9
  BY <1>5
<1>7. /\ v2' \in [Sites -> SUBSET Em!EmAllSorts] /\ v9' \in [Sites -> Int] /\ v10' \in Nat
      /\ \A d \in Sites \ {r.site} : v2'[d] = v2[d]
  BY <1>0, <1>1, <1>3, <1>4, <1>6
<1>8. Em!EmTypeOK'
  BY <1>0, <1>4, <1>6, <1>7 DEF Em!EmTypeOK
<1>9. Em!EmTypedForOne'
  BY <1>0, <1>4 DEF Em!EmTypedForOne
<1>10. ~Em!EmCarriesNew(r) => r.kind # "createBox" /\ r.how = "none" /\ r.secret = 0
  BY <1>0 DEF Em!EmOthersCarryNone, Em!EmCarriesNew, Em!EmCarries
<1>11. Em!EmOthersCarryNone'
  <2>1. Em!EmCarriesNew(q) <=> Em!EmCarriesNew(r)
    BY <1>6 DEF Em!EmCarriesNew
  <2>2. ~Em!EmCarriesNew(q) => q.secret = 0 /\ q.how = "none"
    BY <1>6, <1>10, <2>1
  <2>3. QED  BY <1>0, <1>6, <2>2 DEF Em!EmOthersCarryNone, Em!EmCarriesNew
<1>12. ASSUME ~v12' PROVE Em!EmListsLead' /\ Em!EmOneCarries' /\ Em!EmPasswordsLead'
  <2>1. Em!EmListsLead /\ Em!EmOneCarries /\ Em!EmPasswordsLead
    BY <1>4, <1>12 DEF Em!EmInv
  <2>2. Em!EmListsLead'
    BY <1>1, <1>4, <1>6, <1>7, <2>1 DEF Em!EmListsLead
  <2>3. Em!EmOneCarries'
    BY <1>6, <2>1 DEF Em!EmOneCarries, Em!EmCarriesNew
  <2>4. Em!EmPasswordsLead'
    <3>1. CASE Em!EmCarriesNew(r)
      <4>1. v11 = none /\ \A x \in v4 \ {r} : x.secret = 0
        BY <1>0, <2>1, <3>1 DEF Em!EmPasswordsLead, Em!EmOneCarries, Em!EmOthersCarryNone
      <4>2. r.secret = 0
        BY <1>1, <2>1 DEF Em!EmPasswordsLead
      <4>3. q.secret # 0 => v9'[q.site] = q.secret
        BY <1>0, <1>1, <1>6, <4>2
      <4>4. QED  BY <1>4, <1>6, <4>1, <4>3 DEF Em!EmPasswordsLead
    <3>2. CASE ~Em!EmCarriesNew(r)
      <4>1. v9' = v9 /\ q.secret = 0 /\ ~Em!EmCarriesNew(q)
        BY <1>6, <1>10, <3>2 DEF Em!EmCarriesNew
      <4>2. QED  BY <1>4, <1>6, <2>1, <4>1 DEF Em!EmPasswordsLead, Em!EmCarriesNew
    <3>3. QED  BY <3>1, <3>2
  <2>5. QED  BY <2>2, <2>3, <2>4
<1>13. QED  BY <1>8, <1>9, <1>11, <1>12 DEF Em!EmInv

LEMMA EmailEnded ==
  ASSUME Em!EmInv, NEW r \in v4, Em!EmAnswered(r) \/ Em!EmFails(r)
  PROVE  Em!EmInv'
<1>0. /\ Em!EmTypeOK /\ Em!EmOthersCarryNone /\ Em!EmTypedForOne /\ v4 \subseteq Em!EmRequest
      /\ v3 \in [Sites -> [read : BOOLEAN, fresh : BOOLEAN, rows : SUBSET Em!EmAllSorts]]
      /\ v7 \in [site : Sites \cup {none}, typed : Sites \cup {none}] /\ v1 \in Sites /\ v12 \in BOOLEAN
  BY DEF Em!EmInv, Em!EmTypeOK
<1>1. r.site \in Sites
  BY <1>0 DEF Em!EmRequest
<1>2. /\ v4' = v4 \ {r} /\ UNCHANGED <<v1, v2, v5, v9, v10>>
      /\ v7' = v7 \/ v7' = [v7 EXCEPT !.typed = none]
      /\ \/ /\ r.done /\ v3' = [v3 EXCEPT ![v1].fresh = FALSE] /\ v12' = (v12 \/ r.site # v1)
            /\ v11' = IF r.secret # 0 THEN [site |-> r.site, secret |-> r.secret] ELSE v11
         \/ v3' = v3 /\ v11' = v11 /\ v12' = (v12 \/ r.done)
  BY DEF Em!EmAnswered, Em!EmFails, Em!EmSettled, Em!EmCacheAfter, Em!EmCacheStale, Em!EmStaleHere
<1>3. /\ v3' \in [Sites -> [read : BOOLEAN, fresh : BOOLEAN, rows : SUBSET Em!EmAllSorts]]
      /\ \A d \in Sites : v3'[d] = v3[d] \/ (d = v1 /\ ~v3'[d].fresh)
  <2>1. PICK new : new = [v3[v1] EXCEPT !.fresh = FALSE]
    OBVIOUS
  <2>2. v3[v1] \in [read : BOOLEAN, fresh : BOOLEAN, rows : SUBSET Em!EmAllSorts]
    BY <1>0
  <2>3. new \in [read : BOOLEAN, fresh : BOOLEAN, rows : SUBSET Em!EmAllSorts] /\ new.fresh = FALSE
    BY ONLY <2>1, <2>2
  <2>4. v3' = v3 \/ v3' = [v3 EXCEPT ![v1] = new]
    BY <1>2, <2>1
  <2>5. QED  BY ONLY <1>0, <2>3, <2>4
<1>4. v7' \in [site : Sites \cup {none}, typed : Sites \cup {none}] /\ Em!EmTypedForOne'
  BY <1>0, <1>2 DEF Em!EmTypedForOne
<1>5. v12' \in BOOLEAN /\ (v12 => v12')
  BY <1>0, <1>2
<1>6. Em!EmTypeOK'
  BY <1>0, <1>2, <1>3, <1>4, <1>5 DEF Em!EmTypeOK
<1>7. Em!EmOthersCarryNone'
  BY <1>0, <1>2 DEF Em!EmOthersCarryNone, Em!EmCarriesNew
<1>8. ASSUME ~v12' PROVE Em!EmListsLead' /\ Em!EmOneCarries' /\ Em!EmPasswordsLead'
  <2>1. Em!EmListsLead /\ Em!EmOneCarries /\ Em!EmPasswordsLead
    BY <1>5, <1>8 DEF Em!EmInv
  <2>2. \/ r.done /\ r.site = v1 /\ ~v3'[v1].fresh
        \/ ~r.done
    BY <1>0, <1>2, <1>8
  <2>3. Em!EmListsLead'
    BY <1>2, <1>3, <2>1, <2>2 DEF Em!EmListsLead
  <2>4. Em!EmOneCarries'
    BY <1>2, <2>1 DEF Em!EmOneCarries, Em!EmCarriesNew
  <2>5. Em!EmPasswordsLead'
    <3>1. CASE v11' = v11
      BY <1>2, <2>1, <3>1 DEF Em!EmPasswordsLead, Em!EmCarriesNew
    <3>2. CASE r.secret # 0 /\ v11' = [site |-> r.site, secret |-> r.secret]
      <4>1. v9[r.site] = r.secret /\ Em!EmCarriesNew(r)
        BY <1>0, <2>1, <3>2 DEF Em!EmPasswordsLead, Em!EmOthersCarryNone
      <4>2. \A x \in v4' : ~Em!EmCarriesNew(x)
        BY <1>2, <2>1, <4>1 DEF Em!EmOneCarries
      <4>3. v11'.site = r.site /\ v11'.secret = r.secret
        BY <3>2
      <4>4. QED  BY <1>1, <1>2, <2>1, <4>1, <4>2, <4>3 DEF Em!EmPasswordsLead, Em!EmCarriesNew
    <3>3. QED  BY <1>2, <3>1, <3>2
  <2>6. QED  BY <2>3, <2>4, <2>5
<1>9. QED  BY <1>4, <1>6, <1>7, <1>8 DEF Em!EmInv

LEMMA EmailStep ==
  ASSUME Em!EmInv, Em!EmNext
  PROVE  Em!EmInv'
<1>1. ASSUME \/ Em!EmRead \/ Em!EmClose \/ Em!EmOpenEdit \/ Em!EmTypePassword \/ Em!EmHide
             \/ (\E d \in Sites : Em!EmPick(d)) \/ \E s \in Em!EmSorts : Em!EmOpenAdd(s)
      PROVE  Em!EmInv'
  <2>0. v1 \in Sites
    BY DEF Em!EmInv, Em!EmTypeOK
  <2>1. UNCHANGED <<v2, v4, v5, v9, v10, v12>> /\ v1' \in Sites
    BY <1>1, <2>0 DEF Em!EmRead, Em!EmClose, Em!EmOpenEdit, Em!EmTypePassword, Em!EmHide, Em!EmPick, Em!EmOpenAdd
  <2>2. v3' = v3 \/ v3' = [v3 EXCEPT ![v1] = [read |-> TRUE, fresh |-> TRUE, rows |-> v2[v1]]]
    BY <1>1 DEF Em!EmRead, Em!EmClose, Em!EmOpenEdit, Em!EmTypePassword, Em!EmHide, Em!EmPick, Em!EmOpenAdd
  <2>3. v7' = v7 \/ v7' = [site |-> v1, typed |-> none] \/ v7' = [v7 EXCEPT !.typed = v7.site]
    BY <1>1 DEF Em!EmRead, Em!EmClose, Em!EmOpenEdit, Em!EmTypePassword, Em!EmHide, Em!EmPick, Em!EmOpenAdd,
                Em!EmFormOpened, Em!EmFormOfRow
  <2>4. v11' = v11 \/ v11' = none
    BY <1>1 DEF Em!EmRead, Em!EmClose, Em!EmOpenEdit, Em!EmTypePassword, Em!EmHide, Em!EmPick, Em!EmOpenAdd
  <2>5. QED  BY <2>1, <2>2, <2>3, <2>4, EmailPageStep
<1>2. ASSUME Em!EmSubmitAdd PROVE Em!EmInv'
  <2>1. PICK kind \in {"createBox", "createForwarder"} : kind = Em!EmMade[v6]
    BY <1>2 DEF Em!EmSubmitAdd, Em!EmSorts, Em!EmMade
  <2>2. Em!EmAsk(kind, "none") /\ v7' = v7 /\ ~Em!EmPending(kind) /\ v11 = none
    BY <1>2, <2>1 DEF Em!EmSubmitAdd
  <2>3. QED  BY <2>2, EmailAsked
<1>3. ASSUME NEW how \in {"none", "typed", "new"}, Em!EmSubmitEdit(how) PROVE Em!EmInv'
  <2>1. Em!EmAsk("update", how) /\ v7' = v7 /\ ~Em!EmPending("update") /\ v11 = none
    BY <1>3 DEF Em!EmSubmitEdit, Em!EmSavePending
  <2>2. QED  BY <2>1, EmailAsked
<1>4. ASSUME NEW s \in Em!EmSorts, Em!EmDelete(s) PROVE Em!EmInv'
  <2>1. PICK kind \in {"deleteBox", "deleteForwarder"} : kind = Em!EmGone[s]
    BY DEF Em!EmSorts, Em!EmGone
  <2>2. Em!EmAsk(kind, "none") /\ v7' = v7 /\ kind \notin Em!EmCarries
    BY <1>4, <2>1 DEF Em!EmDelete, Em!EmCarries
  <2>3. QED  BY <2>2, EmailAsked
<1>5. ASSUME Em!EmEnsureDns PROVE Em!EmInv'
  <2>1. Em!EmAsk("dns", "none") /\ v7' = v7 /\ "dns" \notin Em!EmCarries
    BY <1>5 DEF Em!EmEnsureDns, Em!EmCarries
  <2>2. QED  BY <2>1, EmailAsked
<1>6. QED
  BY <1>1, <1>2, <1>3, <1>4, <1>5, EmailCarriedOut, EmailEnded DEF Em!EmNext

LEMMA EmailHolds ==
  ASSUME Em!EmInv
  PROVE  Em!MailListTrue /\ Em!ShownPasswordWorks /\ Em!TypedForThisMailbox
<1>1. Em!MailListTrue
  BY DEF Em!EmInv, Em!MailListTrue, Em!EmListsLead, Em!EmTypeOK
<1>2. Em!ShownPasswordWorks
  BY DEF Em!EmInv, Em!ShownPasswordWorks, Em!EmPasswordsLead
<1>3. Em!TypedForThisMailbox
  BY DEF Em!EmInv, Em!TypedForThisMailbox, Em!EmTypedForOne
<1>4. QED  BY <1>1, <1>2, <1>3

-----------------------------------------------------------------------------
(* The databases page.  v1: the databases of the server, v2: the page shown, *)
(* v3: the pages in the cache, v4: the requests under way, v6: an answer was *)
(* lost, v7: the passwords, v8: those made, v9: the changes under way, v10:  *)
(* the row that rotates, v11: the password shown, v12: two changes crossed,  *)
(* v13: the import runs, v14: the import dialog, v15: the import requests,   *)
(* v17: one was given up.                                                    *)

LEMMA DatabasesInit == Db!DbInit => Db!DbInv
<1> SUFFICES ASSUME Db!DbInit PROVE Db!DbInv
  OBVIOUS
<1>1. Db!DbListInv
  BY DEF Db!DbInit, Db!DbListInv, Db!DbListTypes, Db!DbListLeads, Db!DbUnread
<1>2. Db!DbSecretInv
  BY DEF Db!DbInit, Db!DbSecretInv, Db!DbSecretTypes, Db!DbOneChange, Db!RevealedWorks
<1>3. Db!DbImportInv
  <2>1. v13 = [r \in 1..MaxMade |-> "none"] /\ v15 = {} /\ v17 = FALSE
    BY DEF Db!DbInit
  <2>2. Db!DbImportTypes
    BY <2>1 DEF Db!DbImportTypes
  <2>3. Db!DbCreated = {}
    BY <2>1 DEF Db!DbCreated
  <2>4. QED  BY <2>1, <2>2, <2>3 DEF Db!DbImportInv, Db!DbOneImport, Db!OneImport
<1>4. QED  BY <1>1, <1>2, <1>3 DEF Db!DbInv

(* The list. *)
LEMMA DatabasesList ==
  ASSUME Db!DbListInv, Db!DbListNext
  PROVE  Db!DbListInv'
<1>0. /\ DOMAIN v3 = Db!DbPages /\ v4 \subseteq Db!DbRequest /\ Db!DbListLeads
      /\ \A p \in Db!DbPages : DOMAIN v3[p] = {"fresh", "read", "rows", "last"}
  BY DEF Db!DbListInv, Db!DbListTypes
<1>1. ASSUME Db!DbList PROVE Db!DbListInv'
  <2>1. PICK new : new = Db!DbAnswer(v1, v2)
    OBVIOUS
  <2>2. /\ v3' = [v3 EXCEPT ![v2] = new] /\ UNCHANGED <<v1, v4, v6>>
        /\ DOMAIN new = {"fresh", "read", "rows", "last"} /\ new.rows = Db!DbRowsOf(v1, v2)
    BY <1>1, <2>1 DEF Db!DbList, Db!DbAnswer
  <2>3. DOMAIN v3' = Db!DbPages /\ \A p \in Db!DbPages : v3'[p] = IF p = v2 THEN new ELSE v3[p]
    BY <1>0, <2>2
  <2>4. Db!DbPages' = Db!DbPages /\ \A p : Db!DbRowsOf(v1, p)' = Db!DbRowsOf(v1, p)
    BY <2>2 DEF Db!DbPages, Db!DbRowsOf
  <2>5. QED  BY <1>0, <2>2, <2>3 DEF Db!DbListInv, Db!DbListTypes, Db!DbListLeads, Db!DbPages
<1>2. ASSUME UNCHANGED <<v1, v3, v6>>, NEW q \in Db!DbRequest, ~q.done, v4' = v4 \/ v4' = v4 \cup {q}
      PROVE  Db!DbListInv'
  BY <1>0, <1>2 DEF Db!DbListInv, Db!DbListTypes, Db!DbListLeads, Db!DbPages
<1>3. ASSUME NEW p \in Db!DbPages, Db!DbTurn(p) PROVE Db!DbListInv'
  BY <1>0, <1>3 DEF Db!DbTurn, Db!DbListInv, Db!DbListTypes, Db!DbListLeads, Db!DbPages
<1>4. ASSUME NEW d \in Sites, NEW kind \in {"create", "delete"}, UNCHANGED <<v1, v3, v6>>,
             v4' = v4 \cup {[kind |-> kind, db |-> d, done |-> FALSE]}
      PROVE  Db!DbListInv'
  <2>1. PICK q : q = [kind |-> kind, db |-> d, done |-> FALSE]
    OBVIOUS
  <2>2. q \in Db!DbRequest /\ ~q.done
    BY <2>1 DEF Db!DbRequest
  <2>3. QED  BY <1>2, <1>4, <2>1, <2>2
<1>5. ASSUME NEW d \in Sites, Db!DbDelete(d) \/ Db!DbCreate(d) PROVE Db!DbListInv'
  BY <1>4, <1>5 DEF Db!DbDelete, Db!DbCreate
<1>6. ASSUME NEW x \in v4, Db!DbCarriedOut(x) PROVE Db!DbListInv'
  <2>1. PICK q : q = [x EXCEPT !.done = TRUE]
    OBVIOUS
  <2>2. x \in Db!DbRequest
    BY <1>0
  <2>3. q \in Db!DbRequest /\ q.done /\ v4' = (v4 \ {x}) \cup {q} /\ v3' = v3
    BY <1>6, <2>1, <2>2 DEF Db!DbRequest, Db!DbCarriedOut
  <2>4. QED  BY <1>0, <2>3 DEF Db!DbListInv, Db!DbListTypes, Db!DbListLeads, Db!DbPages
<1>7. ASSUME NEW x \in v4, Db!DbListAnswered(x) PROVE Db!DbListInv'
  <2>1. /\ v4' = v4 \ {x} /\ UNCHANGED <<v1, v6>>
        /\ v3' = [p \in Db!DbPages |-> [v3[p] EXCEPT !.fresh = FALSE]]
    BY <1>7 DEF Db!DbListAnswered, Db!DbInvalidated, Db!DbAllStale
  <2>2. /\ DOMAIN v3' = Db!DbPages
        /\ \A p \in Db!DbPages : DOMAIN v3'[p] = {"fresh", "read", "rows", "last"} /\ ~v3'[p].fresh
    BY <1>0, <2>1
  <2>3. QED  BY <1>0, <2>1, <2>2 DEF Db!DbListInv, Db!DbListTypes, Db!DbListLeads, Db!DbPages
<1>8. ASSUME NEW x \in v4, Db!DbListError(x) PROVE Db!DbListInv'
  <2>1. v4' = v4 \ {x} /\ UNCHANGED <<v1, v3>> /\ v6' = (v6 \/ x.done)
    BY <1>8 DEF Db!DbListError
  <2>2. QED  BY <1>0, <2>1 DEF Db!DbListInv, Db!DbListTypes, Db!DbListLeads, Db!DbPages
<1>9. QED  BY <1>1, <1>3, <1>5, <1>6, <1>7, <1>8 DEF Db!DbListNext

(* Passwords. *)
LEMMA DatabasesSecrets ==
  ASSUME Db!DbSecretInv, Db!DbSecretNext
  PROVE  Db!DbSecretInv'
<1>0. v7 \in [Sites -> Nat] /\ v8 \in Nat /\ v9 \subseteq Db!DbChangeRequest /\ Db!DbOneChange /\ Db!RevealedWorks
  BY DEF Db!DbSecretInv, Db!DbSecretTypes
<1>1. ASSUME NEW d \in Sites, NEW kind \in {"rotate", "edit"}, Db!DbSends(d, kind), UNCHANGED <<v7, v8, v11>>,
             kind = "rotate" => v10 # d /\ v10' = d,
             kind = "edit" => v10' = v10 /\ \A x \in v9 : x.kind # "edit"
      PROVE  Db!DbSecretInv'
  <2>1. PICK n \in {0, 1} : v9' = v9 \cup {[db |-> d, kind |-> kind, made |-> 0, n |-> n]}
    BY <1>1 DEF Db!DbSends
  <2>2. PICK q : q = [db |-> d, kind |-> kind, made |-> 0, n |-> n]
    OBVIOUS
  <2>3. q \in Db!DbChangeRequest /\ q.db = d /\ q.kind = kind /\ q.made = 0
    BY <2>2 DEF Db!DbChangeRequest
  <2>4. v9' = v9 \cup {q} /\ v11 = none /\ v12' = (v12 \/ \E x \in v9 : x.db # d \/ x.kind # kind)
    BY <1>1, <2>1, <2>2 DEF Db!DbSends
  <2>5. ~v12' => ~v12 /\ v9 = {}
    <3>1. ASSUME ~v12', NEW x \in v9 PROVE FALSE
      <4>1. ~v12 /\ x.db = d /\ x.kind = kind
        BY <2>4, <3>1
      <4>2. kind = "rotate" => v10 = d
        BY <1>0, <4>1 DEF Db!DbOneChange
      <4>3. QED  BY <1>1, <4>1, <4>2
    <3>2. QED  BY <2>4, <3>1
  <2>6. Db!DbSecretTypes'
    BY <1>0, <1>1, <2>3, <2>4 DEF Db!DbSecretTypes
  <2>7. Db!DbOneChange'
    BY <1>1, <2>3, <2>4, <2>5 DEF Db!DbOneChange
  <2>8. Db!RevealedWorks'
    BY <1>1, <2>4 DEF Db!RevealedWorks
  <2>9. QED  BY <2>6, <2>7, <2>8 DEF Db!DbSecretInv
<1>2. ASSUME NEW d \in Sites, Db!DbRotate(d) \/ Db!DbEdit(d) PROVE Db!DbSecretInv'
  <2>1. CASE Db!DbRotate(d)
    <3>1. Db!DbSends(d, "rotate") /\ UNCHANGED <<v7, v8, v11>> /\ v10 # d /\ v10' = d
      BY <2>1 DEF Db!DbRotate, Db!DbRotateBusy, Db!DbUnderWay
    <3>2. QED  BY <1>1, <3>1
  <2>2. CASE Db!DbEdit(d)
    <3>1. Db!DbSends(d, "edit") /\ UNCHANGED <<v7, v8, v10, v11>> /\ \A x \in v9 : x.kind # "edit"
      BY <2>2 DEF Db!DbEdit
    <3>2. QED  BY <1>1, <3>1
  <2>3. QED  BY <1>2, <2>1, <2>2
<1>3. ASSUME NEW c \in v9, Db!DbMake(c) PROVE Db!DbSecretInv'
  <2>1. PICK q : q = [c EXCEPT !.made = v8 + 1]
    OBVIOUS
  <2>2. c \in Db!DbChangeRequest /\ c.db \in Sites /\ v8 + 1 \in Nat \ {0}
    BY <1>0 DEF Db!DbChangeRequest
  <2>3. v8' = v8 + 1 /\ UNCHANGED <<v10, v11, v12>>
    BY <1>3 DEF Db!DbMake
  <2>4. v7' = [v7 EXCEPT ![c.db] = v8 + 1] /\ v9' = (v9 \ {c}) \cup {q}
    BY <1>3, <2>1, <2>3 DEF Db!DbMake
  <2>5. q \in Db!DbChangeRequest /\ q.db = c.db /\ q.kind = c.kind /\ q.made = v8 + 1
    BY <2>1, <2>2 DEF Db!DbChangeRequest
  <2>6. v7' \in [Sites -> Nat] /\ v7'[q.db] = q.made
    BY <1>0, <2>2, <2>4, <2>5
  <2>7. Db!DbSecretTypes'
    BY <1>0, <2>2, <2>3, <2>4, <2>5, <2>6 DEF Db!DbSecretTypes
  <2>8. ~v12' => v9' = {q} /\ v11 = none /\ (c.kind = "rotate" => v10 = c.db)
    BY <1>0, <2>3, <2>4 DEF Db!DbOneChange
  <2>9. Db!DbOneChange'
    BY <2>3, <2>5, <2>6, <2>8 DEF Db!DbOneChange
  <2>10. Db!RevealedWorks'
    BY <2>3, <2>8 DEF Db!RevealedWorks
  <2>11. QED  BY <2>7, <2>9, <2>10 DEF Db!DbSecretInv
<1>4. ASSUME NEW c \in v9, Db!DbMadeAnswered(c) \/ Db!DbChangeFailed(c) PROVE Db!DbSecretInv'
  <2>1. /\ v9' = v9 \ {c} /\ UNCHANGED <<v7, v8, v12>>
        /\ v11' = v11 \/ (c.made # 0 /\ v11' = [db |-> c.db, password |-> c.made])
    BY <1>4 DEF Db!DbMadeAnswered, Db!DbChangeFailed
  <2>2. Db!DbSecretTypes'
    BY <1>0, <2>1 DEF Db!DbSecretTypes
  <2>3. ~v12' => v9' = {} /\ (c.made # 0 => v7[c.db] = c.made)
    BY <1>0, <2>1 DEF Db!DbOneChange
  <2>4. Db!DbOneChange'
    BY <2>3 DEF Db!DbOneChange
  <2>5. Db!RevealedWorks'
    <3>1. CASE v11' = v11
      BY <1>0, <2>1, <3>1 DEF Db!RevealedWorks
    <3>2. CASE c.made # 0 /\ v11' = [db |-> c.db, password |-> c.made]
      <4>1. v11'.db = c.db /\ v11'.password = c.made
        BY <3>2
      <4>2. QED  BY <2>1, <2>3, <3>2, <4>1 DEF Db!RevealedWorks
    <3>3. QED  BY <2>1, <3>1, <3>2
  <2>6. QED  BY <2>2, <2>4, <2>5 DEF Db!DbSecretInv
<1>5. ASSUME Db!DbHide PROVE Db!DbSecretInv'
  <2>1. v11' = none /\ UNCHANGED <<v7, v8, v9, v10, v12>>
    BY <1>5 DEF Db!DbHide
  <2>2. QED  BY <1>0, <2>1 DEF Db!DbSecretInv, Db!DbSecretTypes, Db!DbOneChange, Db!RevealedWorks
<1>6. QED  BY <1>2, <1>3, <1>4, <1>5 DEF Db!DbSecretNext

(* Imports. *)
LEMMA DatabasesImports ==
  ASSUME Db!DbImportInv, Db!DbImportNext
  PROVE  Db!DbImportInv'
<1> DEFINE Statuses == {"none", "queued", "running", "completed", "failed"}
<1>0. /\ v13 \in [1..MaxMade -> Statuses] /\ v15 \subseteq Db!DbPost /\ Db!DbOneImport /\ Db!OneImport
     /\ v17 \in BOOLEAN
  BY DEF Db!DbImportInv, Db!DbImportTypes
<1>01. DOMAIN v13 = 1..MaxMade /\ Db!DbCreated = {r \in 1..MaxMade : v13[r] # "none"}
  BY <1>0 DEF Db!DbCreated
<1>02. Db!DbAnyLive <=> \E r \in 1..MaxMade : Db!DbLive(v13[r])
  BY <1>01 DEF Db!DbAnyLive, Db!DbLive
\* The runs stay.
<1>1. ASSUME UNCHANGED <<v13, v17>>, v15' \subseteq Db!DbPost,
             \A q, p \in v15' : q.kept /\ p.kept => q = p,
             \A q \in v15' : q.kept => v14' = "posting",
             ~v17 => \A q \in v15' : ~q.kept => q.run # 0,
             ~v17 /\ (\E q \in v15' : q.looked /\ q.run = 0) =>
                 (\E q \in v15 : q.looked /\ q.run = 0) \/ ~Db!DbAnyLive
      PROVE  Db!DbImportInv'
  <2>1. Db!DbImportTypes'
    BY <1>0, <1>1 DEF Db!DbImportTypes
  <2>2. (Db!DbAnyLive' <=> Db!DbAnyLive) /\ Db!DbCreated' = Db!DbCreated
    BY <1>1 DEF Db!DbAnyLive, Db!DbCreated
  <2>3. Db!DbOneImport'
    BY <1>0, <1>1, <2>2 DEF Db!DbOneImport
  <2>4. Db!OneImport'
    BY <1>0, <1>1, <2>2 DEF Db!OneImport
  <2>5. QED  BY <2>1, <2>3, <2>4 DEF Db!DbImportInv
<1>2. ASSUME Db!DbOpenImport \/ Db!DbPoll PROVE Db!DbImportInv'
  <2>1. UNCHANGED <<v13, v15, v17>> /\ v14 # "posting"
    BY <1>2 DEF Db!DbOpenImport, Db!DbPoll
  <2>2. QED  BY <1>0, <1>1, <2>1 DEF Db!DbOneImport
<1>3. ASSUME Db!DbSubmit PROVE Db!DbImportInv'
  <2>1. PICK n \in {0, 1} : v15' = v15 \cup {[n |-> n, run |-> 0, looked |-> FALSE, kept |-> TRUE]}
    BY <1>3 DEF Db!DbSubmit
  <2>2. PICK q : q = [n |-> n, run |-> 0, looked |-> FALSE, kept |-> TRUE]
    OBVIOUS
  <2>3. q \in Db!DbPost /\ q.kept /\ ~q.looked /\ v15' = v15 \cup {q}
    BY <2>1, <2>2 DEF Db!DbPost
  <2>4. UNCHANGED <<v13, v17>> /\ v14 = "open" /\ v14' = "posting"
    BY <1>3 DEF Db!DbSubmit
  <2>5. \A p \in v15 : ~p.kept
    BY <1>0, <2>4 DEF Db!DbOneImport
  <2>6. QED  BY <1>0, <1>1, <2>3, <2>4, <2>5 DEF Db!DbOneImport
\* A request is over, or its flags change.
<1>4. ASSUME NEW q \in v15, v15' = v15 \ {q}, UNCHANGED <<v13, v17>>, q.kept \/ v14' = v14
      PROVE  Db!DbImportInv'
  BY <1>0, <1>1, <1>4 DEF Db!DbOneImport
<1>5. ASSUME NEW q \in v15, Db!DbLook(q) PROVE Db!DbImportInv'
  <2>1. CASE Db!DbRefused(q)
    BY <1>4, <1>5, <2>1 DEF Db!DbLook, Db!DbRefused
  <2>2. CASE ~Db!DbAnyLive /\ v15' = (v15 \ {q}) \cup {[q EXCEPT !.looked = TRUE]} /\ v14' = v14
    <3>1. PICK p : p = [q EXCEPT !.looked = TRUE]
      OBVIOUS
    <3>2. q \in Db!DbPost
      BY <1>0
    <3>3. p \in Db!DbPost /\ p.kept = q.kept /\ p.run = q.run /\ v15' = (v15 \ {q}) \cup {p}
      BY <2>2, <3>1, <3>2 DEF Db!DbPost
    <3>4. UNCHANGED <<v13, v17>>
      BY <1>5 DEF Db!DbLook
    <3>5. QED  BY <1>0, <1>1, <2>2, <3>3, <3>4 DEF Db!DbOneImport
  <2>3. QED  BY <1>5, <2>1, <2>2 DEF Db!DbLook, Db!DbActive
<1>6. ASSUME NEW q \in v15, Db!DbStore(q) PROVE Db!DbImportInv'
  <2>1. CASE Db!DbRefused(q) /\ v13' = v13
    BY <1>4, <1>6, <2>1 DEF Db!DbStore, Db!DbRefused
  <2>2. ASSUME NEW r \in DOMAIN v13, v13' = [v13 EXCEPT ![r] = "queued"],
               v15' = (v15 \ {q}) \cup {[q EXCEPT !.run = r]}, v14' = v14
        PROVE  Db!DbImportInv'
    <3>1. PICK p : p = [q EXCEPT !.run = r]
      OBVIOUS
    <3>2. q \in Db!DbPost /\ r \in Nat /\ r # 0 /\ r \in 1..MaxMade
      BY <1>0, <1>01, <2>2
    <3>3. p \in Db!DbPost /\ p.kept = q.kept /\ p.run # 0 /\ v15' = (v15 \ {q}) \cup {p}
      BY <2>2, <3>1, <3>2 DEF Db!DbPost
    <3>4. v17' = v17 /\ q.looked /\ q.run = 0
      BY <1>6 DEF Db!DbStore
    <3>5. v13' \in [1..MaxMade -> Statuses] /\ \A k \in 1..MaxMade : k # r => v13'[k] = v13[k]
      BY <1>0, <1>01, <2>2, <3>2
    <3>6. ~v17 => \A k \in 1..MaxMade : ~Db!DbLive(v13[k])
      BY <1>0, <1>02, <3>4 DEF Db!DbOneImport
    <3>7. Db!DbImportTypes'
      BY <1>0, <3>3, <3>4, <3>5 DEF Db!DbImportTypes
    <3>8. Db!OneImport'
      <4>1. Db!DbCreated' \subseteq 1..MaxMade
        BY <3>5 DEF Db!DbCreated
      <4>2. ~v17 => \A k \in 1..MaxMade : Db!DbLive(v13'[k]) => k = r
        BY <3>5, <3>6
      <4>3. QED  BY <3>4, <4>1, <4>2 DEF Db!OneImport
    <3>9. Db!DbOneImport'
      <4>1. ~v17 => \A x \in v15' : ~(x.looked /\ x.run = 0)
        <5>1. ASSUME ~v17, NEW x \in v15, x # q, x.looked, x.run = 0 PROVE FALSE
          <6>1. x.kept /\ q.kept
            BY <1>0, <3>4, <5>1 DEF Db!DbOneImport
          <6>2. QED  BY <1>0, <5>1, <6>1 DEF Db!DbOneImport
        <5>2. QED  BY <3>3, <5>1
      <4>2. \A x, y \in v15' : x.kept /\ y.kept => x = y
        BY <1>0, <3>3 DEF Db!DbOneImport
      <4>3. \A x \in v15' : x.kept => v14' = "posting"
        BY <1>0, <2>2, <3>3 DEF Db!DbOneImport
      <4>4. ~v17 => \A x \in v15' : ~x.kept => x.run # 0
        BY <1>0, <3>3 DEF Db!DbOneImport
      <4>5. QED  BY <3>4, <4>1, <4>2, <4>3, <4>4 DEF Db!DbOneImport
    <3>10. QED  BY <3>7, <3>8, <3>9 DEF Db!DbImportInv
  <2>3. QED  BY <1>6, <2>1, <2>2 DEF Db!DbStore
<1>7. ASSUME NEW q \in v15, Db!DbAccepted(q) PROVE Db!DbImportInv'
  BY <1>4, <1>7 DEF Db!DbAccepted
<1>8. ASSUME NEW q \in v15, Db!DbPostLost(q) PROVE Db!DbImportInv'
  <2>1. PICK p : p = [q EXCEPT !.kept = FALSE]
    OBVIOUS
  <2>2. q \in Db!DbPost
    BY <1>0
  <2>3. /\ p \in Db!DbPost /\ ~p.kept /\ p.run = q.run /\ p.looked = q.looked /\ v15' = (v15 \ {q}) \cup {p}
        /\ q.kept /\ v13' = v13 /\ v17' = (v17 \/ q.run = 0)
    BY <1>8, <2>1, <2>2 DEF Db!DbPost, Db!DbPostLost
  <2>4. \A x \in v15' : ~x.kept
    BY <1>0, <2>3 DEF Db!DbOneImport
  <2>5. CASE q.run # 0
    <3>1. UNCHANGED <<v13, v17>> /\ v15' \subseteq Db!DbPost
      <4>1. v17' = v17
        BY <1>0, <2>3, <2>5, Zenon
      <4>2. v15' \subseteq Db!DbPost
        BY <1>0, <2>3
      <4>3. QED  BY <2>3, <4>1, <4>2
    <3>2. \A x \in v15' : x = p \/ (x \in v15 /\ ~x.kept)
      BY <2>3, <2>4
    <3>3. ~v17 => \A x \in v15' : ~x.kept => x.run # 0
      BY <1>0, <2>3, <2>5, <3>2 DEF Db!DbOneImport
    <3>4. ~v17 /\ (\E x \in v15' : x.looked /\ x.run = 0) => \E x \in v15 : x.looked /\ x.run = 0
      BY <3>2, <2>3, <2>5
    <3>5. QED  BY ONLY <1>1, <2>4, <3>1, <3>3, <3>4
  <2>6. CASE q.run = 0
    <3>1. v17'
      BY <2>3, <2>6
    <3>2. QED
      BY <1>0, <2>3, <2>4, <3>1 DEF Db!DbImportInv, Db!DbImportTypes, Db!DbOneImport, Db!OneImport
  <2>7. QED  BY <2>5, <2>6
<1>9. ASSUME NEW r \in Db!DbCreated, Db!DbJob(r) PROVE Db!DbImportInv'
  <2>1. PICK status \in {"running", "completed", "failed"} : v13' = [v13 EXCEPT ![r] = status]
    BY <1>9 DEF Db!DbJob
  <2>2. UNCHANGED <<v14, v15, v17>> /\ v13[r] \in {"queued", "running"}
    BY <1>9 DEF Db!DbJob
  <2>3. r \in 1..MaxMade /\ v13' \in [1..MaxMade -> Statuses]
    BY <1>0, <1>01, <2>1
  <2>4. \A k \in 1..MaxMade : (Db!DbLive(v13'[k]) => Db!DbLive(v13[k]))
    BY <1>0, <2>1, <2>2, <2>3 DEF Db!DbLive
  <2>5. DOMAIN v13' = 1..MaxMade /\ Db!DbCreated' \subseteq 1..MaxMade
    BY <2>3 DEF Db!DbCreated
  <2>6. Db!DbAnyLive' => Db!DbAnyLive
    BY <1>02, <2>4, <2>5 DEF Db!DbAnyLive
  <2>7. Db!DbImportTypes'
    BY <1>0, <2>2, <2>3 DEF Db!DbImportTypes
  <2>8. Db!DbOneImport'
    BY <1>0, <2>2, <2>6 DEF Db!DbOneImport
  <2>9. Db!OneImport'
    <3>1. \A k \in 1..MaxMade : Db!DbLive(v13[k]) => k \in Db!DbCreated
      BY <1>01 DEF Db!DbLive
    <3>2. QED  BY <1>0, <2>2, <2>4, <2>5, <3>1 DEF Db!OneImport
  <2>10. QED  BY <2>7, <2>8, <2>9 DEF Db!DbImportInv
<1>10. QED
  BY <1>2, <1>3, <1>5, <1>6, <1>7, <1>8, <1>9 DEF Db!DbImportNext

LEMMA DatabasesStep ==
  ASSUME Db!DbInv, Db!DbListNext \/ Db!DbSecretNext \/ Db!DbImportNext
  PROVE  Db!DbInv'
<1>1. UNCHANGED Db!dbListVars => Db!DbListInv'
  BY DEF Db!DbInv, Db!DbListInv, Db!DbListTypes, Db!DbListLeads, Db!DbPages, Db!DbRowsOf, Db!dbListVars
<1>2. UNCHANGED Db!dbSecretVars => Db!DbSecretInv'
  BY DEF Db!DbInv, Db!DbSecretInv, Db!DbSecretTypes, Db!DbOneChange, Db!RevealedWorks, Db!dbSecretVars
<1>3. UNCHANGED Db!dbImportVars => Db!DbImportInv'
  BY DEF Db!DbInv, Db!DbImportInv, Db!DbImportTypes, Db!DbOneImport, Db!OneImport, Db!DbAnyLive,
         Db!DbCreated, Db!dbImportVars
<1>4. Db!DbListNext => UNCHANGED <<Db!dbSecretVars, Db!dbImportVars>>
  BY DEF Db!DbListNext, Db!DbList, Db!DbTurn, Db!DbDelete, Db!DbCreate, Db!DbCarriedOut,
         Db!DbListAnswered, Db!DbListError
<1>5. Db!DbSecretNext => UNCHANGED <<Db!dbListVars, Db!dbImportVars>>
  BY DEF Db!DbSecretNext, Db!DbRotate, Db!DbEdit, Db!DbMake, Db!DbMadeAnswered, Db!DbChangeFailed, Db!DbHide
<1>6. Db!DbImportNext => UNCHANGED <<Db!dbListVars, Db!dbSecretVars>>
  BY DEF Db!DbImportNext, Db!DbOpenImport, Db!DbSubmit, Db!DbPoll, Db!DbLook, Db!DbStore, Db!DbAccepted,
         Db!DbPostLost, Db!DbJob
<1>7. QED
  BY <1>1, <1>2, <1>3, <1>4, <1>5, <1>6, DatabasesList, DatabasesSecrets, DatabasesImports DEF Db!DbInv

LEMMA DatabasesHolds ==
  ASSUME Db!DbInv
  PROVE  Db!DbListTrue /\ Db!RevealedWorks /\ Db!OneImport
<1>1. Db!DbListTrue
  BY DEF Db!DbInv, Db!DbListInv, Db!DbListTrue, Db!DbListLeads
<1>2. QED  BY <1>1 DEF Db!DbInv, Db!DbSecretInv, Db!DbImportInv

-----------------------------------------------------------------------------
(* The mail settings.  v1: the rows, v2: the cache, v3: rows read by         *)
(* processes, v4: the cache was kept late, v6: the form, v7: the page's      *)
(* read, v8: the saves, v10: how many of everything, v11: the domain typed,  *)
(* v15: records, v16: the panel's work, v17: sites additions crossed at.     *)

LEMMA MailKeptInit == Ml!MlInit => Ml!MlKeptInv
<1> SUFFICES ASSUME Ml!MlInit PROVE Ml!MlKeptInv
  OBVIOUS
<1>1. Ml!MlTypeOK
  <2>1. v15 \in [Sites -> Nat]
    BY DEF Ml!MlInit
  <2>2. v6 \in Ml!MlForms /\ v7 \in [on : BOOLEAN, got : SUBSET Ml!MlRows]
    BY DEF Ml!MlInit, Ml!MlForms, Ml!MlFilled, Ml!MlReading
  <2>3. QED  BY <2>1, <2>2 DEF Ml!MlInit, Ml!MlTypeOK
<1>2. Ml!MlCreatesMissing /\ Ml!MailCacheTrue /\ Ml!MailRecordsOnce
  BY DEF Ml!MlInit, Ml!MlCreatesMissing, Ml!MailCacheTrue, Ml!MailRecordsOnce
<1>3. QED  BY <1>1, <1>2 DEF Ml!MlKeptInv

(* The page and the mailing processes, as long as no save takes a step.      *)
LEMMA MailProcessStep ==
  ASSUME Ml!MlKeptInv, UNCHANGED <<v1, v8, v11, v15, v16, v17>>,
         UNCHANGED <<v2, v4>> \/ v2' = {} \/ (\E row \in v3 : Ml!MlPut(row)),
         v6' \in Ml!MlForms, v7' \in [on : BOOLEAN, got : SUBSET Ml!MlRows], v10' \in Nat
  PROVE  Ml!MlKeptInv'
<1>1. Ml!MlTypeOK'
  BY DEF Ml!MlKeptInv, Ml!MlTypeOK
<1>2. Ml!MlCreatesMissing' /\ Ml!MailRecordsOnce'
  BY DEF Ml!MlKeptInv, Ml!MlCreatesMissing, Ml!MailRecordsOnce
<1>3. Ml!MailCacheTrue'
  BY DEF Ml!MlKeptInv, Ml!MailCacheTrue, Ml!MlPut
<1>4. QED  BY <1>1, <1>2, <1>3 DEF Ml!MlKeptInv

(* A save takes a step: rows that are written are forgotten later, and what  *)
(* is kept at the end is late where the rows have changed.                   *)
LEMMA MailSaveStep ==
  ASSUME Ml!MlKeptInv, NEW s \in v8, NEW q \in Ml!MlSaveSet, q.form = s.form,
         v8' = (v8 \ {s}) \cup {q}, UNCHANGED <<v6, v7, v10, v11, v15, v16, v17>>,
         v1' \in Ml!MlRows,
         \/ q.step \in {"settings", "password"} /\ UNCHANGED <<v2, v4>>
         \/ s.step \notin {"settings", "password"} /\ UNCHANGED <<v1, v2, v4>>
         \/ q.step = s.step /\ UNCHANGED <<v1, v2, v4>>
         \/ v2' = {}
         \/ v1' = v1 /\ \E row \in s.got : Ml!MlPut(row)
  PROVE  Ml!MlKeptInv'
<1>1. Ml!MlTypeOK'
  BY DEF Ml!MlKeptInv, Ml!MlTypeOK
<1>2. Ml!MlCreatesMissing' /\ Ml!MailRecordsOnce'
  BY DEF Ml!MlKeptInv, Ml!MlCreatesMissing, Ml!MailRecordsOnce
<1>3. Ml!MailCacheTrue'
  BY DEF Ml!MlKeptInv, Ml!MailCacheTrue, Ml!MlPut
<1>4. QED  BY <1>1, <1>2, <1>3 DEF Ml!MlKeptInv

(* A step the panel takes for the wizard.                                    *)
LEMMA MailWorkStep ==
  ASSUME Ml!MlKeptInv, NEW w \in v16, NEW step \in {"look", "create", "done", "failed"},
         Ml!MlWorkStep(w, step),
         \/ step # "create" /\ UNCHANGED <<v15, v17>>
         \/ v15[w.site] = 0 /\ UNCHANGED <<v15, v17>>
         \/ /\ step = "done" /\ w.step = "create"
            /\ v15' = [v15 EXCEPT ![w.site] = @ + 1]
            /\ v17' = v17 \cup {d \in {w.site} : \E u \in v16 \ {w} : u.site = d /\ u.step = "create"}
  PROVE  Ml!MlKeptInv'
<1>0. v15 \in [Sites -> Nat] /\ v16 \subseteq Ml!MlWorkSet /\ w \in Ml!MlWorkSet
  BY DEF Ml!MlKeptInv, Ml!MlTypeOK
<1>1. PICK q : q = [w EXCEPT !.step = step]
  OBVIOUS
<1>2. q \in Ml!MlWorkSet /\ q.step = step /\ q.site = w.site /\ w.site \in Sites
  BY <1>0, <1>1 DEF Ml!MlWorkSet
<1>3. /\ v16' = (v16 \ {w}) \cup {q}
      /\ UNCHANGED <<v1, v2, v3, v4, v5, v6, v7, v8, v9, v10, v11>>
  BY <1>1 DEF Ml!MlWorkStep, Ml!mlPanel, Ml!mlPage
<1>4. v15' \in [Sites -> Nat]
  BY <1>0, <1>2
<1>5. Ml!MlTypeOK'
  BY <1>0, <1>2, <1>3, <1>4 DEF Ml!MlKeptInv, Ml!MlTypeOK
<1>6. Ml!MailCacheTrue'
  BY <1>3 DEF Ml!MlKeptInv, Ml!MailCacheTrue
<1>7. Ml!MlCreatesMissing' /\ Ml!MailRecordsOnce'
  <2>1. Ml!MlCreatesMissing /\ Ml!MailRecordsOnce
    BY DEF Ml!MlKeptInv
  <2>2. CASE step # "create" /\ UNCHANGED <<v15, v17>>
    BY <1>2, <1>3, <2>1, <2>2 DEF Ml!MlCreatesMissing, Ml!MailRecordsOnce
  <2>3. CASE v15[w.site] = 0 /\ UNCHANGED <<v15, v17>>
    BY <1>2, <1>3, <2>1, <2>3 DEF Ml!MlCreatesMissing, Ml!MailRecordsOnce
  <2>4. ASSUME step = "done", w.step = "create",
               v15' = [v15 EXCEPT ![w.site] = @ + 1],
               v17' = v17 \cup {d \in {w.site} : \E u \in v16 \ {w} : u.site = d /\ u.step = "create"}
        PROVE  Ml!MlCreatesMissing' /\ Ml!MailRecordsOnce'
    <3>1. \A d \in Sites : d # w.site => v15'[d] = v15[d]
      BY <1>0, <2>4
    <3>2. v15'[w.site] = v15[w.site] + 1 /\ v15[w.site] \in Nat
      BY <1>0, <1>2, <2>4
    <3>3. v17 \subseteq v17'
      BY <2>4
    <3>4. \A u \in v16 \ {w} : u.site = w.site /\ u.step = "create" => w.site \in v17'
      BY <2>4
    <3>5. w.site \notin v17' => v15[w.site] = 0
      BY <2>1, <2>4, <3>3 DEF Ml!MlCreatesMissing
    <3>6. \A u \in v16 : u.site \in Sites
      BY <1>0 DEF Ml!MlWorkSet
    <3>7. Ml!MlCreatesMissing'
      BY <1>2, <1>3, <2>1, <2>4, <3>1, <3>3, <3>4, <3>6 DEF Ml!MlCreatesMissing
    <3>8. Ml!MailRecordsOnce'
      BY <2>1, <3>1, <3>2, <3>3, <3>5 DEF Ml!MailRecordsOnce
    <3>9. QED  BY <3>7, <3>8
  <2>5. QED  BY <2>2, <2>3, <2>4
<1>8. QED  BY <1>5, <1>6, <1>7 DEF Ml!MlKeptInv

(* What the wizard does in the browser: work may be begun, and what is over  *)
(* is forgotten.                                                             *)
LEMMA MailWizardStep ==
  ASSUME Ml!MlKeptInv, UNCHANGED <<v1, v2, v4, v7, v8, v15, v17>>,
         v6' \in Ml!MlForms, v10' \in Nat, v11' \in Sites \cup {none},
         v16' \subseteq v16 \cup {w \in Ml!MlWorkSet : w.step # "create"}
  PROVE  Ml!MlKeptInv'
<1>1. Ml!MlTypeOK'
  BY DEF Ml!MlKeptInv, Ml!MlTypeOK
<1>2. Ml!MlCreatesMissing' /\ Ml!MailRecordsOnce'
  BY DEF Ml!MlKeptInv, Ml!MlCreatesMissing, Ml!MailRecordsOnce
<1>3. Ml!MailCacheTrue'
  BY DEF Ml!MlKeptInv, Ml!MailCacheTrue
<1>4. QED  BY <1>1, <1>2, <1>3 DEF Ml!MlKeptInv

LEMMA MailSettingsStep ==
  ASSUME Ml!MlKeptInv, Ml!MlSettingsNext
  PROVE  Ml!MlKeptInv'
<1>0. /\ v1 \in Ml!MlRows /\ v6 \in Ml!MlForms /\ v8 \subseteq Ml!MlSaveSet
      /\ v7 \in [on : BOOLEAN, got : SUBSET Ml!MlRows] /\ v10 \in Nat
  BY DEF Ml!MlKeptInv, Ml!MlTypeOK
<1>1. ASSUME \/ Ml!MlRead \/ Ml!MlExpires \/ Ml!MlShow \/ Ml!MlShown \/ Ml!MlShowFails \/ Ml!MlTest
             \/ (\E row \in v3 : Ml!MlKeep(row)) \/ \E form \in Ml!MlForms : Ml!MlType(form)
      PROVE  Ml!MlKeptInv'
  <2>1. UNCHANGED <<v1, v8, v11, v15, v16, v17>> /\ v10' = v10
    BY <1>1 DEF Ml!MlRead, Ml!MlExpires, Ml!MlShow, Ml!MlShown, Ml!MlShowFails, Ml!MlTest, Ml!MlKeep,
                Ml!MlType, Ml!mlPanel, Ml!mlPage, Ml!mlWizard
  <2>2. UNCHANGED <<v2, v4>> \/ v2' = {} \/ (\E row \in v3 : Ml!MlPut(row))
    BY <1>1 DEF Ml!MlRead, Ml!MlExpires, Ml!MlShow, Ml!MlShown, Ml!MlShowFails, Ml!MlTest, Ml!MlKeep,
                Ml!MlType, Ml!MlForgetCache, Ml!mlPanel
  <2>3. v6' \in Ml!MlForms
    <3>1. CASE Ml!MlShown
      <4>1. PICK row \in v7.got : v6' = IF row \in v5 THEN v6 ELSE Ml!MlFilled(row)
        BY <3>1 DEF Ml!MlShown
      <4>2. Ml!MlFilled(row) \in Ml!MlForms
        BY <1>0, <4>1 DEF Ml!MlFilled, Ml!MlForms, Ml!MlRows
      <4>3. QED  BY <1>0, <4>1, <4>2
    <3>2. CASE ~Ml!MlShown
      BY <1>0, <1>1, <3>2 DEF Ml!MlRead, Ml!MlExpires, Ml!MlShow, Ml!MlShowFails, Ml!MlTest, Ml!MlKeep,
                              Ml!MlType, Ml!mlPage
    <3>3. QED  BY <3>1, <3>2
  <2>4. v7' \in [on : BOOLEAN, got : SUBSET Ml!MlRows]
    <3>1. CASE Ml!MlShow
      BY <1>0, <3>1 DEF Ml!MlShow
    <3>2. CASE Ml!MlShown \/ Ml!MlShowFails
      <4>1. v7' = Ml!MlIdle
        BY <3>2 DEF Ml!MlShown, Ml!MlShowFails
      <4>2. Ml!MlIdle \in [on : BOOLEAN, got : SUBSET Ml!MlRows]
        BY DEF Ml!MlIdle
      <4>3. QED  BY <4>1, <4>2
    <3>3. CASE ~Ml!MlShow /\ ~Ml!MlShown /\ ~Ml!MlShowFails
      BY <1>0, <1>1, <3>3 DEF Ml!MlRead, Ml!MlExpires, Ml!MlTest, Ml!MlKeep, Ml!MlType, Ml!mlPage
    <3>4. QED  BY <3>1, <3>2, <3>3
  <2>5. QED  BY <1>0, <2>1, <2>2, <2>3, <2>4, MailProcessStep
<1>2. ASSUME Ml!MlSave PROVE Ml!MlKeptInv'
  <2>1. PICK q : q = [form |-> v6, step |-> "sent", heard |-> TRUE, got |-> {}]
    OBVIOUS
  <2>2. q \in Ml!MlSaveSet
    BY <1>0, <2>1 DEF Ml!MlSaveSet, Ml!MlSaveSteps
  <2>3. /\ UNCHANGED <<v1, v2, v3, v4, v5, v6, v7, v9, v11, v15, v16, v17>>
        /\ v8' = v8 \cup {q} /\ v10' \in Nat
    BY <1>0, <1>2, <2>1 DEF Ml!MlSave, Ml!mlPanel, Ml!mlWizard
  <2>4. Ml!MlTypeOK'
    BY <2>2, <2>3 DEF Ml!MlKeptInv, Ml!MlTypeOK
  <2>5. Ml!MlCreatesMissing' /\ Ml!MailRecordsOnce'
    BY <2>3 DEF Ml!MlKeptInv, Ml!MlCreatesMissing, Ml!MailRecordsOnce
  <2>6. Ml!MailCacheTrue'
    BY <2>3 DEF Ml!MlKeptInv, Ml!MailCacheTrue
  <2>7. QED  BY <2>4, <2>5, <2>6 DEF Ml!MlKeptInv
<1>3. ASSUME NEW s \in v8, NEW step \in Ml!MlSaveSteps, NEW got \in SUBSET Ml!MlRows,
             Ml!MlSaveStep(s, step, got), v1' \in Ml!MlRows,
             \/ step \in {"settings", "password"} /\ UNCHANGED <<v2, v4>>
             \/ s.step \notin {"settings", "password"} /\ UNCHANGED <<v1, v2, v4>>
             \/ v2' = {}
             \/ v1' = v1 /\ \E row \in s.got : Ml!MlPut(row)
      PROVE  Ml!MlKeptInv'
  <2>1. PICK q : q = [s EXCEPT !.step = step, !.got = got]
    OBVIOUS
  <2>2. q \in Ml!MlSaveSet /\ q.form = s.form /\ q.step = step
    BY <1>0, <2>1 DEF Ml!MlSaveSet
  <2>3. v8' = (v8 \ {s}) \cup {q} /\ UNCHANGED <<v6, v7, v10, v11, v15, v16, v17>>
    BY <1>3, <2>1 DEF Ml!MlSaveStep, Ml!mlWizard
  <2>4. QED  BY <1>3, <2>2, <2>3, MailSaveStep
<1>4. ASSUME NEW s \in v8, Ml!MlWriteSettings(s) PROVE Ml!MlKeptInv'
  <2>0. s.step = "sent" /\ UNCHANGED <<v2, v4>> /\ s.form \in Ml!MlForms
    BY <1>0, <1>4 DEF Ml!MlWriteSettings, Ml!MlSaveSet
  <2>1. CASE Ml!MlSaveStep(s, "refused", {}) /\ UNCHANGED v1
    BY <1>0, <1>3, <2>0, <2>1 DEF Ml!MlSaveSteps
  <2>2. CASE Ml!MlSaveStep(s, "settings", {}) /\ v1' = [v1 EXCEPT !.host = s.form.host]
    <3>1. v1' \in Ml!MlRows
      BY <1>0, <2>0, <2>2 DEF Ml!MlRows, Ml!MlForms
    <3>2. QED  BY <1>3, <2>0, <2>2, <3>1 DEF Ml!MlSaveSteps
  <2>3. QED  BY <1>4, <2>1, <2>2 DEF Ml!MlWriteSettings
<1>5. ASSUME NEW s \in v8, Ml!MlWritePassword(s) PROVE Ml!MlKeptInv'
  <2>1. /\ UNCHANGED <<v2, v4>> /\ Ml!MlSaveStep(s, "password", {})
        /\ v1' = [v1 EXCEPT !.pass = ~s.form.clear /\ (@ \/ s.form.pass)]
    BY <1>5 DEF Ml!MlWritePassword
  <2>2. PICK pass \in BOOLEAN : pass = (~s.form.clear /\ (v1.pass \/ s.form.pass))
    OBVIOUS
  <2>3. v1' \in Ml!MlRows
    BY <1>0, <2>1, <2>2 DEF Ml!MlRows
  <2>4. QED  BY <1>3, <2>1, <2>3 DEF Ml!MlSaveSteps
<1>6. ASSUME NEW s \in v8, Ml!MlForget(s) PROVE Ml!MlKeptInv'
  BY <1>0, <1>3, <1>6 DEF Ml!MlForget, Ml!MlForgetCache, Ml!MlSaveSteps
<1>7. ASSUME NEW s \in v8, Ml!MlApply(s) PROVE Ml!MlKeptInv'
  <2>1. ASSUME s.step = "forgotten", NEW step \in {"done", "applying"}, NEW got \in {{}, {v1}},
               Ml!MlSaveStep(s, step, got), UNCHANGED Ml!mlPanel
        PROVE  Ml!MlKeptInv'
    BY <1>0, <1>3, <2>1 DEF Ml!mlPanel, Ml!MlSaveSteps
  <2>2. ASSUME Ml!MlSaveStep(s, "done", {}), \E row \in s.got : Ml!MlPut(row), v1' = v1
        PROVE  Ml!MlKeptInv'
    BY <1>0, <1>3, <2>2 DEF Ml!MlSaveSteps
  <2>3. QED  BY <1>7, <2>1, <2>2 DEF Ml!MlApply
<1>8. ASSUME NEW s \in v8, Ml!MlSaved(s) PROVE Ml!MlKeptInv'
  <2>1. /\ UNCHANGED <<v1, v2, v3, v4, v5, v6, v9, v10, v11, v15, v16, v17>>
        /\ v8' = v8 \ {s} /\ s.step \in {"done", "refused"}
    BY <1>8 DEF Ml!MlSaved, Ml!mlPanel, Ml!mlWizard
  <2>2. v7' \in [on : BOOLEAN, got : SUBSET Ml!MlRows]
    BY <1>0, <1>8 DEF Ml!MlSaved, Ml!MlInvalidated, Ml!MlReading
  <2>3. Ml!MlTypeOK'
    BY <2>1, <2>2 DEF Ml!MlKeptInv, Ml!MlTypeOK
  <2>4. Ml!MlCreatesMissing' /\ Ml!MailRecordsOnce' /\ Ml!MailCacheTrue'
    BY <2>1 DEF Ml!MlKeptInv, Ml!MlCreatesMissing, Ml!MailRecordsOnce, Ml!MailCacheTrue
  <2>5. QED  BY <2>3, <2>4 DEF Ml!MlKeptInv
<1>9. ASSUME NEW s \in v8, Ml!MlSaveLost(s) PROVE Ml!MlKeptInv'
  <2>1. PICK q : q = [s EXCEPT !.heard = FALSE]
    OBVIOUS
  <2>2. q \in Ml!MlSaveSet /\ q.form = s.form /\ q.step = s.step
    BY <1>0, <2>1 DEF Ml!MlSaveSet
  <2>3. /\ v8' = (v8 \ {s}) \cup {q} /\ UNCHANGED <<v1, v2, v4, v6, v7, v10, v11, v15, v16, v17>>
    BY <1>9, <2>1 DEF Ml!MlSaveLost, Ml!mlPanel, Ml!mlWizard
  <2>4. QED  BY <1>0, <2>2, <2>3, MailSaveStep
<1>10. QED
  BY <1>1, <1>2, <1>4, <1>5, <1>6, <1>7, <1>8, <1>9 DEF Ml!MlSettingsNext

LEMMA MailWizardNextStep ==
  ASSUME Ml!MlKeptInv, Ml!MlWizardNext
  PROVE  Ml!MlKeptInv'
<1>0. /\ v6 \in Ml!MlForms /\ v10 \in Nat /\ v11 \in Sites \cup {none} /\ v16 \subseteq Ml!MlWorkSet
  BY DEF Ml!MlKeptInv, Ml!MlTypeOK
<1>1. ASSUME Ml!MlCheck \/ Ml!MlChecked \/ Ml!MlLeave \/ (\E d \in Sites \cup {none} : Ml!MlTypeDomain(d))
             \/ (\E id \in v13 \cup v14 : Ml!MlWorkLost(id))
      PROVE  Ml!MlKeptInv'
  <2>1. UNCHANGED <<v1, v2, v4, v6, v7, v8, v10, v15, v16, v17>> /\ v11' \in Sites \cup {none}
    BY <1>0, <1>1 DEF Ml!MlCheck, Ml!MlChecked, Ml!MlLeave, Ml!MlTypeDomain, Ml!MlWorkLost, Ml!mlPanel, Ml!mlPage
  <2>2. QED  BY <1>0, <2>1, MailWizardStep
<1>2. ASSUME NEW host \in Bundles, Ml!MlUseRecommended(host) PROVE Ml!MlKeptInv'
  <2>1. UNCHANGED <<v1, v2, v4, v7, v8, v10, v11, v15, v16, v17>>
    BY <1>2 DEF Ml!MlUseRecommended, Ml!mlPanel, Ml!mlWizard
  <2>2. v6' \in Ml!MlForms
    BY <1>0, <1>2 DEF Ml!MlUseRecommended, Ml!MlForms
  <2>3. QED  BY <1>0, <2>1, <2>2, MailWizardStep
<1>3. ASSUME NEW install \in BOOLEAN, Ml!MlStart(install) PROVE Ml!MlKeptInv'
  <2>1. PICK w : w = [id |-> v10 + 1, install |-> install, site |-> v11,
                      step |-> IF install THEN "install" ELSE "look"]
    OBVIOUS
  <2>2. v11 # none /\ v16' = v16 \cup {w} /\ v10' = v10 + 1
    BY <1>3, <2>1 DEF Ml!MlStart, Ml!MlBegun
  <2>3. w \in Ml!MlWorkSet /\ w.step # "create"
    BY <1>0, <2>1, <2>2 DEF Ml!MlWorkSet
  <2>4. UNCHANGED <<v1, v2, v4, v6, v7, v8, v11, v15, v17>>
    BY <1>3 DEF Ml!MlStart, Ml!mlPanel, Ml!mlPage
  <2>5. QED  BY <1>0, <2>2, <2>3, <2>4, MailWizardStep
<1>4. ASSUME Ml!MlSetupStart \/ Ml!MlAddRecords PROVE Ml!MlKeptInv'
  BY <1>3, <1>4 DEF Ml!MlSetupStart, Ml!MlAddRecords
<1>5. ASSUME NEW w \in v16, Ml!MlInstall(w) \/ Ml!MlLook(w) \/ Ml!MlCreate(w) PROVE Ml!MlKeptInv'
  <2>1. CASE Ml!MlInstall(w)
    BY <2>1, MailWorkStep DEF Ml!MlInstall
  <2>2. CASE Ml!MlLook(w)
    <3>1. CASE Ml!MlMissing(w.site)
      BY <2>2, <3>1, MailWorkStep DEF Ml!MlLook, Ml!MlMissing
    <3>2. CASE ~Ml!MlMissing(w.site)
      BY <2>2, <3>2, MailWorkStep DEF Ml!MlLook
    <3>3. QED  BY <3>1, <3>2
  <2>3. CASE Ml!MlCreate(w)
    BY <2>3, MailWorkStep DEF Ml!MlCreate
  <2>4. QED  BY <1>5, <2>1, <2>2, <2>3
<1>6. ASSUME NEW w \in v16, Ml!MlOver(w) PROVE Ml!MlKeptInv'
  <2>1. UNCHANGED <<v1, v2, v4, v6, v7, v8, v10, v11, v15, v17>> /\ v16' \subseteq v16
    BY <1>6 DEF Ml!MlOver, Ml!mlPanel, Ml!mlPage
  <2>2. QED  BY <1>0, <2>1, MailWizardStep
<1>7. QED
  BY <1>1, <1>2, <1>4, <1>5, <1>6 DEF Ml!MlWizardNext

LEMMA MailKeptStep ==
  ASSUME Ml!MlKeptInv, Ml!MlSettingsNext \/ Ml!MlWizardNext
  PROVE  Ml!MlKeptInv'
  BY MailSettingsStep, MailWizardNextStep

-----------------------------------------------------------------------------
(* What the page shows.  v5: the settings shown, v9: an answer was missed.   *)

LEMMA MailInit == Ml!MlInit => Ml!MlInv
<1> SUFFICES ASSUME Ml!MlInit PROVE Ml!MlInv
  OBVIOUS
<1>1. PICK f : f = Ml!MlReading
  OBVIOUS
<1>2. f.on /\ f.got = {}
  BY <1>1 DEF Ml!MlReading
<1>3. v7 = f /\ v8 = {}
  BY <1>1 DEF Ml!MlInit
<1>4. QED  BY <1>2, <1>3, MailKeptInit DEF Ml!MlInv, Ml!MlShowLeads

LEMMA MailShowStays ==
  ASSUME Ml!MlShowLeads, UNCHANGED <<v1, v5, v7, v8, v9>>
  PROVE  Ml!MlShowLeads'
  BY DEF Ml!MlShowLeads, Ml!MlReadsAgain

LEMMA MailShowRead ==
  ASSUME Ml!MlInv, Ml!MlShow \/ Ml!MlShown \/ Ml!MlShowFails
  PROVE  Ml!MlShowLeads'
<1>0. Ml!MlShowLeads /\ v7 \in [on : BOOLEAN, got : SUBSET Ml!MlRows]
  BY DEF Ml!MlInv, Ml!MlKeptInv, Ml!MlTypeOK
<1>1. UNCHANGED <<v1, v8>>
  BY DEF Ml!MlShow, Ml!MlShown, Ml!MlShowFails, Ml!mlPanel
<1>2. PICK idle : idle = Ml!MlIdle
  OBVIOUS
<1>3. ~idle.on /\ idle.got = {}
  BY <1>2 DEF Ml!MlIdle
<1>4. CASE Ml!MlShow
  <2>1. PICK f : f = [v7 EXCEPT !.got = {v1}]
    OBVIOUS
  <2>2. f.on = v7.on /\ f.got = {v1}
    BY <1>0, <2>1
  <2>3. v7' = f /\ UNCHANGED <<v5, v9>> /\ v7.on
    BY <1>4, <2>1 DEF Ml!MlShow
  <2>4. QED  BY <1>0, <1>1, <2>2, <2>3 DEF Ml!MlShowLeads, Ml!MlReadsAgain
<1>5. CASE Ml!MlShown
  <2>1. v7' = idle /\ v5' = v7.got /\ v9' = v9 /\ v7.got # {}
    BY <1>2, <1>5 DEF Ml!MlShown
  <2>2. QED  BY <1>0, <1>1, <1>3, <2>1 DEF Ml!MlShowLeads, Ml!MlReadsAgain
<1>6. CASE Ml!MlShowFails
  <2>1. v7' = idle /\ v9'
    BY <1>2, <1>6 DEF Ml!MlShowFails
  <2>2. QED  BY <1>3, <2>1 DEF Ml!MlShowLeads
<1>7. QED  BY <1>4, <1>5, <1>6

(* A save: from its first write on the settings will be read again.          *)
LEMMA MailShowSave ==
  ASSUME Ml!MlInv, NEW s \in v8,
         \/ Ml!MlWriteSettings(s) \/ Ml!MlWritePassword(s) \/ Ml!MlForget(s) \/ Ml!MlApply(s)
         \/ Ml!MlSaved(s) \/ Ml!MlSaveLost(s)
  PROVE  Ml!MlShowLeads'
<1>0. Ml!MlShowLeads /\ v8 \subseteq Ml!MlSaveSet
  BY DEF Ml!MlInv, Ml!MlKeptInv, Ml!MlTypeOK
<1>1. ASSUME NEW step \in Ml!MlSaveSteps, NEW got, Ml!MlSaveStep(s, step, got),
             \/ step \notin {"sent", "refused"}
             \/ s.step \in {"sent", "refused"} /\ v1' = v1
      PROVE  Ml!MlShowLeads'
  <2>1. PICK q : q = [s EXCEPT !.step = step, !.got = got]
    OBVIOUS
  <2>2. q.step = step /\ q.heard = s.heard
    BY <1>0, <2>1 DEF Ml!MlSaveSet
  <2>3. v8' = (v8 \ {s}) \cup {q} /\ UNCHANGED <<v5, v7, v9>>
    BY <1>1, <2>1 DEF Ml!MlSaveStep
  <2>4. (\A u \in v8 : u.heard) => \A u \in v8' : u.heard
    BY <2>2, <2>3
  <2>5. CASE step \notin {"sent", "refused"}
    BY <1>0, <2>2, <2>3, <2>4, <2>5 DEF Ml!MlShowLeads, Ml!MlReadsAgain
  <2>6. CASE s.step \in {"sent", "refused"} /\ v1' = v1
    <3>1. Ml!MlReadsAgain => Ml!MlReadsAgain'
      BY <2>3, <2>6 DEF Ml!MlReadsAgain
    <3>2. QED  BY <1>0, <2>3, <2>4, <2>6, <3>1 DEF Ml!MlShowLeads
  <2>7. QED  BY <1>1, <2>5, <2>6
<1>2. CASE Ml!MlWriteSettings(s)
  BY <1>1, <1>2 DEF Ml!MlWriteSettings, Ml!MlSaveSteps
<1>3. CASE Ml!MlWritePassword(s) \/ Ml!MlForget(s) \/ Ml!MlApply(s)
  BY <1>1, <1>3 DEF Ml!MlWritePassword, Ml!MlForget, Ml!MlApply, Ml!MlSaveSteps
<1>4. CASE Ml!MlSaved(s)
  <2>1. /\ s.step \in {"done", "refused"} /\ v8' = v8 \ {s} /\ UNCHANGED <<v1, v5, v9>>
        /\ v7' = IF s.heard /\ s.step = "done" THEN Ml!MlReading ELSE v7
    BY <1>4 DEF Ml!MlSaved, Ml!MlInvalidated, Ml!mlPanel
  <2>2. CASE s.heard /\ s.step = "done"
    <3>1. PICK f : f = Ml!MlReading
      OBVIOUS
    <3>2. f.on /\ f.got = {}
      BY <3>1 DEF Ml!MlReading
    <3>3. v7' = f
      BY <2>1, <2>2, <3>1
    <3>4. QED  BY <1>0, <2>1, <3>2, <3>3 DEF Ml!MlShowLeads
  <2>3. CASE ~s.heard
    BY <1>0, <2>1, <2>3 DEF Ml!MlShowLeads
  <2>4. CASE s.step = "refused"
    <3>1. v7' = v7
      BY <2>1, <2>4
    <3>2. Ml!MlReadsAgain => Ml!MlReadsAgain'
      BY <2>1, <2>4 DEF Ml!MlReadsAgain
    <3>3. QED  BY <1>0, <2>1, <3>1, <3>2 DEF Ml!MlShowLeads
  <2>5. QED  BY <2>1, <2>2, <2>3, <2>4
<1>5. CASE Ml!MlSaveLost(s)
  BY <1>0, <1>5 DEF Ml!MlSaveLost, Ml!MlShowLeads
<1>6. QED  BY <1>2, <1>3, <1>4, <1>5

LEMMA MailStep ==
  ASSUME Ml!MlInv, Ml!MlSettingsNext \/ Ml!MlWizardNext
  PROVE  Ml!MlInv'
<1>0. Ml!MlKeptInv /\ Ml!MlShowLeads
  BY DEF Ml!MlInv
<1>1. Ml!MlKeptInv'
  BY <1>0, MailKeptStep
<1>2. ASSUME \/ Ml!MlRead \/ Ml!MlExpires \/ Ml!MlTest
             \/ (\E row \in v3 : Ml!MlKeep(row)) \/ \E form \in Ml!MlForms : Ml!MlType(form)
      PROVE  Ml!MlShowLeads'
  <2>1. UNCHANGED <<v1, v5, v7, v8, v9>>
    BY <1>2 DEF Ml!MlRead, Ml!MlExpires, Ml!MlTest, Ml!MlKeep, Ml!MlType, Ml!mlPanel, Ml!mlPage
  <2>2. QED  BY <1>0, <2>1, MailShowStays
<1>3. ASSUME Ml!MlSave PROVE Ml!MlShowLeads'
  <2>1. PICK q : q = [form |-> v6, step |-> "sent", heard |-> TRUE, got |-> {}]
    OBVIOUS
  <2>2. q.heard /\ v8' = v8 \cup {q} /\ UNCHANGED <<v1, v5, v7, v9>>
    BY <1>3, <2>1 DEF Ml!MlSave, Ml!mlPanel
  <2>3. (\A u \in v8 : u.heard) => \A u \in v8' : u.heard
    BY <2>2
  <2>4. Ml!MlReadsAgain => Ml!MlReadsAgain'
    BY <2>2 DEF Ml!MlReadsAgain
  <2>5. QED  BY <1>0, <2>2, <2>3, <2>4 DEF Ml!MlShowLeads
<1>4. ASSUME Ml!MlWizardNext PROVE Ml!MlShowLeads'
  <2>1. UNCHANGED <<v1, v5, v7, v8, v9>>
    BY <1>4
    DEF Ml!MlWizardNext, Ml!MlCheck, Ml!MlChecked, Ml!MlSetupStart, Ml!MlAddRecords, Ml!MlLeave,
        Ml!MlTypeDomain, Ml!MlUseRecommended, Ml!MlInstall, Ml!MlLook, Ml!MlCreate, Ml!MlOver,
        Ml!MlWorkLost, Ml!MlStart, Ml!MlWorkStep, Ml!mlPanel, Ml!mlPage
  <2>2. QED  BY <1>0, <2>1, MailShowStays
<1>5. Ml!MlShowLeads'
  BY <1>2, <1>3, <1>4, MailShowRead, MailShowSave DEF Ml!MlSettingsNext
<1>6. QED  BY <1>1, <1>5 DEF Ml!MlInv

LEMMA MailHolds ==
  ASSUME Ml!MlInv
  PROVE  Ml!MailCacheTrue /\ Ml!MailRecordsOnce /\ Ml!MailSettingsTrue
<1>1. Ml!MailSettingsTrue
  BY DEF Ml!MlInv, Ml!MlShowLeads, Ml!MlReadsAgain, Ml!MailSettingsTrue
<1>2. QED  BY <1>1 DEF Ml!MlInv, Ml!MlKeptInv

-----------------------------------------------------------------------------
(* The monitoring page.  v1: the sites there are; v2, v3: the panel's two    *)
(* caches, v4: refreshes to come; v5: the list, v6: the scope picked, v7:    *)
(* payloads read, v8: reads that failed, v10: requests; v12: the load, v13:  *)
(* the sample the panel keeps, v14: the gauges, v15: the charts' samples.    *)

LEMMA MonitoringTypes ==
  ASSUME Mo!MoInv
  PROVE  /\ v1 \subseteq Sites /\ v4 \subseteq Mo!MoScopes
         /\ v2 \in [Mo!MoScopes -> Mo!MoPayloads] /\ v3 \in [Mo!MoScopes -> Mo!MoPayloads]
         /\ v7 \in [Mo!MoScopes -> Mo!MoPayloads] /\ v5 \subseteq Sites /\ v6 \in Mo!MoScopes
         /\ v10 \subseteq Mo!MoRequests /\ v11 \in Nat /\ v12 \in Nat /\ v15 \in Seq(Nat)
         /\ Mo!MoPayloadsOwn /\ Mo!MoNothingIsAwaited /\ Mo!MoStatsAreLast
         /\ Mo!MoScopes = Sites \cup {none}
  BY DEF Mo!MoInv, Mo!MoTypeOK, Mo!MoScopes

LEMMA MonitoringParts ==
  ASSUME v1' \subseteq Sites, v4' \subseteq Mo!MoScopes,
         v2' \in [Mo!MoScopes -> Mo!MoPayloads], v3' \in [Mo!MoScopes -> Mo!MoPayloads],
         v7' \in [Mo!MoScopes -> Mo!MoPayloads], v5' \subseteq Sites, v6' \in Mo!MoScopes,
         v10' \subseteq Mo!MoRequests, v11' \in Nat, v12' \in Nat, v15' \in Seq(Nat),
         Mo!MoPayloadsOwn', Mo!MoNothingIsAwaited', Mo!MoStatsAreLast'
  PROVE  Mo!MoInv'
  BY DEF Mo!MoInv, Mo!MoTypeOK, Mo!MoScopes, Mo!MoPayloads, Mo!MoRequests

LEMMA MonitoringServerStays ==
  ASSUME Mo!MoInv, UNCHANGED Mo!moServer
  PROVE  v12' \in Nat /\ v15' \in Seq(Nat) /\ Mo!MoStatsAreLast'
<1>1. UNCHANGED <<v12, v13, v14, v15>>
  BY DEF Mo!moServer
<1>2. v12' \in Nat /\ v15' \in Seq(Nat)
  BY <1>1, MonitoringTypes
<1>3. Mo!MoStatsAreLast'
  BY <1>1, MonitoringTypes DEF Mo!MoStatsAreLast
<1>4. QED  BY <1>2, <1>3

LEMMA MonitoringOwn ==
  ASSUME Mo!MoInv
  PROVE  /\ \A k \in Mo!MoScopes : k \in v1 \cup {none} =>
                v2[k] \in {{}, {k}} /\ v3[k] \in {{}, {k}} /\ v7[k] \in {{}, {k}}
         /\ \A r \in v10 : r.key \in v1 \cup {none} =>
                r.got \in {{}, {r.key}} /\ (r.step \in {"built", "answered"} => r.got # {})
  BY MonitoringTypes DEF Mo!MoPayloadsOwn, Mo!MoOwn, Mo!MoThere

(* What is kept and under way stays of its own scope, and the scope picked    *)
(* awaited, if these do.                                                      *)
LEMMA MonitoringHealth ==
  ASSUME v1' \subseteq Sites, v4' \subseteq Mo!MoScopes,
         v2' \in [Mo!MoScopes -> Mo!MoPayloads], v3' \in [Mo!MoScopes -> Mo!MoPayloads],
         v7' \in [Mo!MoScopes -> Mo!MoPayloads], v5' \subseteq Sites, v6' \in Mo!MoScopes,
         v10' \subseteq Mo!MoRequests, v11' \in Nat, v12' \in Nat, v15' \in Seq(Nat),
         Mo!MoStatsAreLast',
         \A k \in Mo!MoScopes : k \in v1' \cup {none} =>
                v2'[k] \in {{}, {k}} /\ v3'[k] \in {{}, {k}} /\ v7'[k] \in {{}, {k}},
         \A r \in v10' : r.key \in v1' \cup {none} =>
                r.got \in {{}, {r.key}} /\ (r.step \in {"built", "answered"} => r.got # {}),
         v6' \in v1' \cup {none} /\ v7'[v6'] = {} /\ v6' \notin v8' =>
                \E r \in v10' : r.key = v6' /\ r.heard
  PROVE  Mo!MoInv'
<1>1. Mo!MoPayloadsOwn'
  BY DEF Mo!MoPayloadsOwn, Mo!MoOwn, Mo!MoThere, Mo!MoScopes
<1>2. Mo!MoNothingIsAwaited'
  BY DEF Mo!MoNothingIsAwaited, Mo!MoThere, Mo!MoWaits
<1>3. QED  BY <1>1, <1>2, MonitoringParts

LEMMA MonitoringAwaited ==
  ASSUME Mo!MoInv, v6 \in v1 \cup {none}, v7[v6] = {}, v6 \notin v8
  PROVE  \E r \in v10 : r.key = v6 /\ r.heard
  BY MonitoringTypes DEF Mo!MoNothingIsAwaited, Mo!MoThere, Mo!MoWaits

LEMMA MonitoringRequest ==
  ASSUME NEW k \in Mo!MoScopes
  PROVE  /\ Mo!MoRequest(k) \in Mo!MoRequests /\ Mo!MoRequest(k).key = k
         /\ Mo!MoRequest(k).heard /\ Mo!MoRequest(k).got = {} /\ Mo!MoRequest(k).step = "sent"
<1>1. PICK e : e = [key |-> k, step |-> "sent", heard |-> TRUE, got |-> {}]
  OBVIOUS
<1>2. {} \in Mo!MoPayloads
  BY DEF Mo!MoPayloads
<1>3. e \in Mo!MoRequests /\ e.key = k /\ e.heard /\ e.got = {} /\ e.step = "sent"
  BY <1>1, <1>2 DEF Mo!MoRequests
<1>4. QED  BY <1>1, <1>3 DEF Mo!MoRequest

LEMMA MonitoringInit == Mo!MoInit => Mo!MoInv
<1> SUFFICES ASSUME Mo!MoInit PROVE Mo!MoInv
  OBVIOUS
<1>1. PICK empty : empty = [k \in Mo!MoScopes |-> {}]
  OBVIOUS
<1>2. empty \in [Mo!MoScopes -> Mo!MoPayloads] /\ \A k \in Mo!MoScopes : empty[k] = {}
  BY <1>1 DEF Mo!MoPayloads
<1>3. v3 \in [Mo!MoScopes -> Mo!MoPayloads] /\ \A k \in Mo!MoScopes : v3[k] \in {{}, {k}}
  <2>1. PICK kept : v3 = [k \in Mo!MoScopes |-> IF k \in kept THEN {k} ELSE {}]
    BY DEF Mo!MoInit
  <2>2. \A k \in Mo!MoScopes : v3[k] \in {{}, {k}} /\ v3[k] \in Mo!MoPayloads
    BY <2>1 DEF Mo!MoPayloads
  <2>3. QED  BY <2>1, <2>2
<1>4. v6 \in Mo!MoScopes /\ v10 = {Mo!MoRequest(v6)}
  BY DEF Mo!MoInit
<1>5. /\ v1 = Sites /\ v2 = empty /\ v7 = empty /\ v4 = {} /\ v5 = {} /\ v11 = 0 /\ v12 = 1
      /\ v13 = {} /\ v14 = {} /\ v15 = <<>>
  BY <1>1 DEF Mo!MoInit
<1>6. Mo!MoTypeOK
  <2>1. {v2, v3, v7} \subseteq [Mo!MoScopes -> Mo!MoPayloads]
    BY <1>2, <1>3, <1>5
  <2>2. v10 \subseteq Mo!MoRequests
    BY <1>4, MonitoringRequest
  <2>3. v15 \in Seq(Nat)
    BY <1>5
  <2>4. QED  BY <1>4, <1>5, <2>1, <2>2, <2>3 DEF Mo!MoTypeOK
<1>7. Mo!MoPayloadsOwn
  <2>1. \A k \in Mo!MoScopes : v2[k] \in {{}, {k}} /\ v3[k] \in {{}, {k}} /\ v7[k] \in {{}, {k}}
    BY <1>2, <1>3, <1>5
  <2>2. \A r \in v10 : r.got = {} /\ r.step = "sent"
    BY <1>4, MonitoringRequest
  <2>3. QED  BY <2>1, <2>2 DEF Mo!MoPayloadsOwn, Mo!MoOwn
<1>8. Mo!MoNothingIsAwaited
  BY <1>4, MonitoringRequest DEF Mo!MoNothingIsAwaited, Mo!MoWaits
<1>9. Mo!MoStatsAreLast
  <2>1. Len(v15) <= MaxMade
    BY <1>5, PagesAssumption
  <2>2. QED  BY <1>5, <2>1 DEF Mo!MoStatsAreLast
<1>10. QED  BY <1>6, <1>7, <1>8, <1>9 DEF Mo!MoInv

-----------------------------------------------------------------------------
(* The pick: the scope it ends at is read, unless it is awaited already.      *)

LEMMA MonitoringRead ==
  ASSUME Mo!MoInv, NEW keys \in SUBSET Mo!MoScopes, NEW old, Mo!MoRead(keys, old)
  PROVE  /\ v11' \in Nat /\ v10' \subseteq Mo!MoRequests
         /\ \A r \in v10' : r.key \in v1 \cup {none} =>
                r.got \in {{}, {r.key}} /\ (r.step \in {"built", "answered"} => r.got # {})
         /\ \A k \in keys : v7[k] = {} => \E r \in v10' : r.key = k /\ r.heard
<1>1. PICK more : more = Mo!MoUnread(keys, old)
  OBVIOUS
<1>2. more \subseteq keys /\ \A k \in keys : v7[k] = {} /\ ~Mo!MoWaits(k) => k \in more
  BY <1>1 DEF Mo!MoUnread
<1>3. v11' = v11 + 1 /\ v10' = v10 \cup {Mo!MoRequest(k) : k \in more}
  BY <1>1 DEF Mo!MoRead
<1>4. \A r \in v10' : r \in v10 \/ \E k \in more : r = Mo!MoRequest(k)
  BY <1>3
<1>5. \A k \in more : Mo!MoRequest(k) \in v10'
  BY <1>3
<1>6. v10' \subseteq Mo!MoRequests
  BY <1>2, <1>4, MonitoringTypes, MonitoringRequest
<1>7. ASSUME NEW r \in v10', r.key \in v1 \cup {none}
      PROVE  r.got \in {{}, {r.key}} /\ (r.step \in {"built", "answered"} => r.got # {})
  <2>1. CASE r \in v10
    BY <1>7, <2>1, MonitoringOwn
  <2>2. CASE \E k \in more : r = Mo!MoRequest(k)
    BY <1>2, <2>2, MonitoringRequest
  <2>3. QED  BY <1>4, <2>1, <2>2
<1>8. ASSUME NEW k \in keys, v7[k] = {} PROVE \E r \in v10' : r.key = k /\ r.heard
  <2>1. CASE Mo!MoWaits(k)
    BY <1>3, <2>1 DEF Mo!MoWaits
  <2>2. CASE ~Mo!MoWaits(k)
    <3>1. k \in more
      BY <1>2, <1>8, <2>2
    <3>2. QED  BY <1>5, <3>1, MonitoringRequest
  <2>3. QED  BY <2>1, <2>2
<1>9. QED  BY <1>3, <1>6, <1>7, <1>8, MonitoringTypes

(* A read that includes the scope picked by then.                             *)
LEMMA MonitoringReads ==
  ASSUME Mo!MoInv, NEW keys \in SUBSET Mo!MoScopes, NEW old, Mo!MoRead(keys, old),
         v6' \in keys, UNCHANGED <<v1, v2, v3, v4, v7>>, v5' \subseteq Sites,
         v12' \in Nat, v15' \in Seq(Nat), Mo!MoStatsAreLast'
  PROVE  Mo!MoInv'
<1>1. /\ v1' \subseteq Sites /\ v4' \subseteq Mo!MoScopes /\ v6' \in Mo!MoScopes
      /\ v2' \in [Mo!MoScopes -> Mo!MoPayloads] /\ v3' \in [Mo!MoScopes -> Mo!MoPayloads]
      /\ v7' \in [Mo!MoScopes -> Mo!MoPayloads]
  BY MonitoringTypes
<1>2. /\ v11' \in Nat /\ v10' \subseteq Mo!MoRequests
      /\ \A r \in v10' : r.key \in v1' \cup {none} =>
                r.got \in {{}, {r.key}} /\ (r.step \in {"built", "answered"} => r.got # {})
      /\ v7'[v6'] = {} => \E r \in v10' : r.key = v6' /\ r.heard
  BY MonitoringRead
<1>3. \A k \in Mo!MoScopes : k \in v1' \cup {none} =>
                v2'[k] \in {{}, {k}} /\ v3'[k] \in {{}, {k}} /\ v7'[k] \in {{}, {k}}
  BY MonitoringOwn
<1>4. QED  BY <1>1, <1>2, <1>3, MonitoringHealth

LEMMA MonitoringGo ==
  ASSUME Mo!MoInv, NEW k \in Mo!MoScopes, NEW d \in Mo!MoScopes, Mo!MoGo(k, d), v5' \subseteq Sites
  PROVE  Mo!MoInv'
<1>1. PICK old : Mo!MoRead({k, d}, old)
  BY DEF Mo!MoGo
<1>2. {k, d} \in SUBSET Mo!MoScopes /\ v6' \in {k, d} /\ UNCHANGED <<v1, v2, v3, v4, v7>>
  BY DEF Mo!MoGo, Mo!moPanel
<1>3. UNCHANGED Mo!moServer
  BY DEF Mo!MoGo
<1>4. QED  BY <1>1, <1>2, <1>3, MonitoringReads, MonitoringServerStays

LEMMA MonitoringPicks ==
  ASSUME Mo!MoInv,
         \/ \E k \in Mo!MoScopes : Mo!MoSelect(k)
         \/ \E k \in Sites : Mo!MoClick(k)
         \/ Mo!MoListRead \/ Mo!MoPoll \/ Mo!MoVisit
  PROVE  Mo!MoInv'
<1>1. ASSUME NEW k \in Mo!MoScopes, Mo!MoChoose(k) PROVE Mo!MoInv'
  <2>1. PICK d \in Mo!MoFollowed(v5, k) : Mo!MoGo(k, d)
    BY <1>1 DEF Mo!MoChoose
  <2>2. d \in Mo!MoScopes
    BY <2>1, MonitoringTypes DEF Mo!MoFollowed
  <2>3. v5' \subseteq Sites
    BY <1>1, MonitoringTypes DEF Mo!MoChoose
  <2>4. QED  BY <2>1, <2>2, <2>3, MonitoringGo
<1>2. CASE Mo!MoListRead
  <2>1. v5' = v1 /\ v5' \subseteq Sites
    BY <1>2, MonitoringTypes DEF Mo!MoListRead
  <2>2. PICK d \in Mo!MoFollowed(v1, v6) :
           IF d # v6 THEN Mo!MoGo(d, d)
           ELSE UNCHANGED <<Mo!moPanel, v6, v7, v8, v9, v10, v11, Mo!moServer>>
    BY <1>2 DEF Mo!MoListRead
  <2>3. d \in Mo!MoScopes
    BY <2>2, MonitoringTypes DEF Mo!MoFollowed
  <2>4. CASE d # v6
    BY <2>1, <2>2, <2>3, <2>4, MonitoringGo
  <2>5. CASE d = v6
    <3>1. UNCHANGED <<v1, v2, v3, v4, v6, v7, v8, v10, v11>> /\ UNCHANGED Mo!moServer
      BY <2>2, <2>5 DEF Mo!moPanel
    <3>2. Mo!MoPayloadsOwn' /\ Mo!MoNothingIsAwaited'
      BY <3>1, MonitoringTypes DEF Mo!MoPayloadsOwn, Mo!MoNothingIsAwaited, Mo!MoOwn, Mo!MoThere,
         Mo!MoWaits
    <3>3. QED  BY <2>1, <3>1, <3>2, MonitoringTypes, MonitoringServerStays, MonitoringParts
  <2>6. QED  BY <2>4, <2>5
<1>3. CASE Mo!MoPoll
  <2>1. {v6} \in SUBSET Mo!MoScopes /\ v6' \in {v6} /\ UNCHANGED <<v1, v2, v3, v4, v7>>
        /\ v5' \subseteq Sites
    BY <1>3, MonitoringTypes DEF Mo!MoPoll, Mo!moPanel
  <2>2. Mo!MoRead({v6}, {v6}) /\ UNCHANGED Mo!moServer
    BY <1>3 DEF Mo!MoPoll
  <2>3. QED  BY <2>1, <2>2, MonitoringReads, MonitoringServerStays
<1>4. CASE Mo!MoVisit
  <2>1. PICK d \in Mo!MoFollowed(v5, none) :
           v6' = d /\ \E old \in SUBSET {none, d} : Mo!MoRead({none, d}, old)
    BY <1>4 DEF Mo!MoVisit
  <2>2. PICK old : Mo!MoRead({none, d}, old)
    BY <2>1
  <2>3. {none, d} \in SUBSET Mo!MoScopes /\ v6' \in {none, d}
    BY <2>1, MonitoringTypes DEF Mo!MoFollowed
  <2>4. UNCHANGED <<v1, v2, v3, v4, v7>> /\ v5' \subseteq Sites /\ v12' \in Nat
        /\ UNCHANGED <<v12, v13, v14>>
    BY <1>4, MonitoringTypes DEF Mo!MoVisit, Mo!moPanel
  <2>5. v15' \in Seq(Nat) /\ Mo!MoStatsAreLast'
    <3>1. CASE v14 = {}
      <4>1. v15' = <<>>
        BY <1>4, <3>1 DEF Mo!MoVisit
      <4>2. Len(<<>>) = 0 /\ 0 <= MaxMade /\ <<>> \in Seq(Nat)
        BY PagesAssumption
      <4>3. QED  BY <2>4, <3>1, <4>1, <4>2, MonitoringTypes DEF Mo!MoStatsAreLast
    <3>2. CASE v14 # {}
      <4>1. PICK s \in v14 : v15' = <<s.stats>>
        BY <1>4, <3>2 DEF Mo!MoVisit
      <4>2. s \in Mo!MoSample /\ v14 = {s}
        BY <3>2, <4>1, MonitoringTypes DEF Mo!MoStatsAreLast
      <4>3. PICK n \in Nat : n = s.stats
        BY <4>2 DEF Mo!MoSample
      <4>4. v15' = <<n>> /\ <<n>> \in Seq(Nat) /\ Len(<<n>>) = 1 /\ <<n>>[1] = n /\ <<n>> # <<>>
        BY <4>1, <4>3
      <4>5. 1 <= MaxMade
        BY PagesAssumption
      <4>6. QED  BY <2>4, <4>2, <4>3, <4>4, <4>5, MonitoringTypes DEF Mo!MoStatsAreLast
    <3>3. QED  BY <3>1, <3>2
  <2>6. QED  BY <2>2, <2>3, <2>4, <2>5, MonitoringReads
<1>5. QED
  BY <1>1, <1>2, <1>3, <1>4 DEF Mo!MoSelect, Mo!MoClick, Mo!MoScopes

-----------------------------------------------------------------------------
(* The request at the panel.                                                 *)

LEMMA MonitoringStepped ==
  ASSUME Mo!MoInv, NEW r \in v10, NEW step \in {"built", "answered", "refused"},
         NEW got \in Mo!MoPayloads, Mo!MoStep(r, step, got), UNCHANGED <<v1, v6, v7, v8>>,
         r.key \in v1 \cup {none} => got \in {{}, {r.key}} /\ (step # "refused" => got # {})
  PROVE  /\ v10' \subseteq Mo!MoRequests
         /\ \A q \in v10' : q.key \in v1' \cup {none} =>
                q.got \in {{}, {q.key}} /\ (q.step \in {"built", "answered"} => q.got # {})
         /\ v6' \in v1' \cup {none} /\ v7'[v6'] = {} /\ v6' \notin v8' =>
                \E q \in v10' : q.key = v6' /\ q.heard
<1>1. PICK e : e = [r EXCEPT !.step = step, !.got = got]
  OBVIOUS
<1>2. /\ e \in Mo!MoRequests /\ e.key = r.key /\ e.heard = r.heard
      /\ e.step = step /\ e.got = got
  BY <1>1, MonitoringTypes DEF Mo!MoRequests
<1>3. v10' = (v10 \ {r}) \cup (IF r.heard \/ step = "built" THEN {e} ELSE {})
  BY <1>1 DEF Mo!MoStep
<1>4. \A q \in v10' : q \in v10 \/ q = e
  BY <1>3
<1>5. r.heard => e \in v10'
  BY <1>3
<1>6. \A q \in v10 : q # r => q \in v10'
  BY <1>3
<1>7. v10' \subseteq Mo!MoRequests
  BY <1>2, <1>4, MonitoringTypes
<1>8. \A q \in v10' : q.key \in v1 \cup {none} =>
                q.got \in {{}, {q.key}} /\ (q.step \in {"built", "answered"} => q.got # {})
  BY <1>2, <1>4, MonitoringOwn
<1>9. ASSUME v6 \in v1 \cup {none}, v7[v6] = {}, v6 \notin v8
      PROVE  \E q \in v10' : q.key = v6 /\ q.heard
  BY <1>2, <1>5, <1>6, <1>9, MonitoringAwaited
<1>10. QED  BY <1>7, <1>8, <1>9

(* The panel answers from what it keeps, or keeps what it has computed.      *)
LEMMA MonitoringServed ==
  ASSUME Mo!MoInv, NEW r \in v10, Mo!MoServe(r)
  PROVE  Mo!MoInv'
<1>1. r.key \in Mo!MoScopes /\ {} \in Mo!MoPayloads
  BY MonitoringTypes DEF Mo!MoRequests, Mo!MoPayloads
<1>2. PICK k \in Mo!MoScopes : k = r.key
  BY <1>1
<1>3. PICK step \in {"built", "answered", "refused"}, got \in Mo!MoPayloads :
         /\ Mo!MoStep(r, step, got)
         /\ k \in v1 \cup {none} => got \in {{}, {k}} /\ (step # "refused" => got # {})
  <2>1. v2[k] \in Mo!MoPayloads /\ v3[k] \in Mo!MoPayloads /\ {k} \in Mo!MoPayloads
    BY MonitoringTypes DEF Mo!MoPayloads
  <2>2. k \in v1 \cup {none} => v2[k] \in {{}, {k}} /\ v3[k] \in {{}, {k}}
    BY MonitoringOwn
  <2>3. \/ k \notin v1 \cup {none} /\ Mo!MoStep(r, "refused", {})
        \/ v2[k] # {} /\ Mo!MoStep(r, "answered", v2[k])
        \/ v3[k] # {} /\ Mo!MoStep(r, "answered", v3[k])
        \/ Mo!MoStep(r, "built", {k})
    BY <1>2 DEF Mo!MoServe, Mo!MoThere
  <2>4. QED  BY <1>1, <2>1, <2>2, <2>3
<1>4. /\ UNCHANGED <<v1, v2, v3, v5, v6, v7, v8, v11>> /\ UNCHANGED Mo!moServer
      /\ v4' \subseteq Mo!MoScopes
  BY <1>1, MonitoringTypes DEF Mo!MoServe
<1>5. /\ v10' \subseteq Mo!MoRequests
      /\ \A q \in v10' : q.key \in v1' \cup {none} =>
                q.got \in {{}, {q.key}} /\ (q.step \in {"built", "answered"} => q.got # {})
      /\ v6' \in v1' \cup {none} /\ v7'[v6'] = {} /\ v6' \notin v8' =>
                \E q \in v10' : q.key = v6' /\ q.heard
  BY <1>2, <1>3, <1>4, MonitoringStepped
<1>6. QED  BY <1>4, <1>5, MonitoringTypes, MonitoringOwn, MonitoringServerStays, MonitoringHealth

(* A payload put into both caches of the panel.                              *)
LEMMA MonitoringPut ==
  ASSUME Mo!MoInv, NEW k \in Mo!MoScopes, NEW payload \in Mo!MoPayloads, Mo!MoPut(k, payload),
         k \in v1 \cup {none} => payload \in {{}, {k}}
  PROVE  /\ v2' \in [Mo!MoScopes -> Mo!MoPayloads] /\ v3' \in [Mo!MoScopes -> Mo!MoPayloads]
         /\ \A x \in Mo!MoScopes : x \in v1 \cup {none} => v2'[x] \in {{}, {x}} /\ v3'[x] \in {{}, {x}}
<1>1. v2' = [v2 EXCEPT ![k] = payload] /\ v3' = [v3 EXCEPT ![k] = payload]
  BY DEF Mo!MoPut
<1>2. v2' \in [Mo!MoScopes -> Mo!MoPayloads] /\ v3' \in [Mo!MoScopes -> Mo!MoPayloads]
  BY <1>1, MonitoringTypes
<1>3. ASSUME NEW x \in Mo!MoScopes, x \in v1 \cup {none}
      PROVE  v2'[x] \in {{}, {x}} /\ v3'[x] \in {{}, {x}}
  <2>1. CASE x = k
    BY <1>1, <1>3, <2>1, MonitoringTypes
  <2>2. CASE x # k
    BY <1>1, <1>3, <2>2, MonitoringTypes, MonitoringOwn
  <2>3. QED  BY <2>1, <2>2
<1>4. QED  BY <1>2, <1>3

LEMMA MonitoringKept ==
  ASSUME Mo!MoInv, NEW r \in v10, Mo!MoKeep(r)
  PROVE  Mo!MoInv'
<1>1. PICK k \in Mo!MoScopes, got \in Mo!MoPayloads : k = r.key /\ got = r.got
  BY MonitoringTypes DEF Mo!MoRequests
<1>2. k \in v1 \cup {none} => got \in {{}, {k}} /\ got # {}
  BY <1>1, MonitoringOwn DEF Mo!MoKeep
<1>3. Mo!MoStep(r, "answered", got) /\ Mo!MoPut(k, got)
      /\ UNCHANGED <<v1, v4, v5, v6, v7, v8, v11>> /\ UNCHANGED Mo!moServer
  BY <1>1 DEF Mo!MoKeep
<1>4. /\ v10' \subseteq Mo!MoRequests
      /\ \A q \in v10' : q.key \in v1' \cup {none} =>
                q.got \in {{}, {q.key}} /\ (q.step \in {"built", "answered"} => q.got # {})
      /\ v6' \in v1' \cup {none} /\ v7'[v6'] = {} /\ v6' \notin v8' =>
                \E q \in v10' : q.key = v6' /\ q.heard
  BY <1>1, <1>2, <1>3, MonitoringStepped
<1>5. /\ v2' \in [Mo!MoScopes -> Mo!MoPayloads] /\ v3' \in [Mo!MoScopes -> Mo!MoPayloads]
      /\ \A x \in Mo!MoScopes : x \in v1 \cup {none} => v2'[x] \in {{}, {x}} /\ v3'[x] \in {{}, {x}}
  BY <1>2, <1>3, MonitoringPut
<1>6. QED
  BY <1>3, <1>4, <1>5, MonitoringTypes, MonitoringOwn, MonitoringServerStays, MonitoringHealth

(* Steps of the panel alone: no request and nothing of the page changes.     *)
LEMMA MonitoringPanel ==
  ASSUME Mo!MoInv, UNCHANGED Mo!moPage, UNCHANGED Mo!moServer,
         v1' \subseteq v1, v4' \subseteq v4,
         v2' \in [Mo!MoScopes -> Mo!MoPayloads], v3' \in [Mo!MoScopes -> Mo!MoPayloads],
         \A x \in Mo!MoScopes : x \in v1 \cup {none} => v2'[x] \in {{}, {x}} /\ v3'[x] \in {{}, {x}}
  PROVE  Mo!MoInv'
<1>1. UNCHANGED <<v5, v6, v7, v8, v10, v11>>
  BY DEF Mo!moPage
<1>2. /\ v1' \subseteq Sites /\ v4' \subseteq Mo!MoScopes /\ v5' \subseteq Sites
      /\ v6' \in Mo!MoScopes /\ v7' \in [Mo!MoScopes -> Mo!MoPayloads]
      /\ v10' \subseteq Mo!MoRequests /\ v11' \in Nat
  BY <1>1, MonitoringTypes
<1>3. \A x \in Mo!MoScopes : x \in v1' \cup {none} =>
                v2'[x] \in {{}, {x}} /\ v3'[x] \in {{}, {x}} /\ v7'[x] \in {{}, {x}}
  BY <1>1, MonitoringOwn
<1>4. \A r \in v10' : r.key \in v1' \cup {none} =>
                r.got \in {{}, {r.key}} /\ (r.step \in {"built", "answered"} => r.got # {})
  BY <1>1, MonitoringOwn
<1>5. v6' \in v1' \cup {none} /\ v7'[v6'] = {} /\ v6' \notin v8' =>
                \E r \in v10' : r.key = v6' /\ r.heard
  BY <1>1, MonitoringAwaited
<1>6. QED  BY <1>2, <1>3, <1>4, <1>5, MonitoringServerStays, MonitoringHealth

LEMMA MonitoringCaches ==
  ASSUME Mo!MoInv,
         \/ \E k \in Mo!MoScopes : Mo!MoRefresh(k) \/ Mo!MoFreshExpires(k) \/ Mo!MoStaleExpires(k)
         \/ \E k \in Sites : Mo!MoDelete(k)
  PROVE  Mo!MoInv'
<1>1. ASSUME NEW k \in Mo!MoScopes, Mo!MoRefresh(k) PROVE Mo!MoInv'
  <2>1. PICK payload : payload = Mo!MoComputed(k)
    OBVIOUS
  <2>2. payload \in Mo!MoPayloads
    BY <2>1, MonitoringTypes DEF Mo!MoComputed, Mo!MoPayloads
  <2>3. k \in v1 \cup {none} => payload = {k}
    BY <2>1 DEF Mo!MoComputed
  <2>4. /\ Mo!MoPut(k, payload) /\ UNCHANGED v1 /\ v4' \subseteq v4
        /\ UNCHANGED Mo!moPage /\ UNCHANGED Mo!moServer
    BY <1>1, <2>1 DEF Mo!MoRefresh
  <2>5. /\ v2' \in [Mo!MoScopes -> Mo!MoPayloads] /\ v3' \in [Mo!MoScopes -> Mo!MoPayloads]
        /\ \A x \in Mo!MoScopes : x \in v1 \cup {none} =>
                v2'[x] \in {{}, {x}} /\ v3'[x] \in {{}, {x}}
    BY <2>2, <2>3, <2>4, MonitoringPut
  <2>6. QED  BY <2>4, <2>5, MonitoringPanel
<1>2. ASSUME NEW k \in Mo!MoScopes, Mo!MoFreshExpires(k) \/ Mo!MoStaleExpires(k) PROVE Mo!MoInv'
  <2>1. /\ v2' \in {v2, [v2 EXCEPT ![k] = {}]} /\ v3' \in {v3, [v3 EXCEPT ![k] = {}]}
        /\ UNCHANGED <<v1, v4>> /\ UNCHANGED Mo!moPage /\ UNCHANGED Mo!moServer
    BY <1>2 DEF Mo!MoFreshExpires, Mo!MoStaleExpires
  <2>2. {} \in Mo!MoPayloads
    BY DEF Mo!MoPayloads
  <2>3. \A x \in Mo!MoScopes : v2'[x] \in {v2[x], {}} /\ v3'[x] \in {v3[x], {}}
    BY <2>1, MonitoringTypes
  <2>4. v2' \in [Mo!MoScopes -> Mo!MoPayloads] /\ v3' \in [Mo!MoScopes -> Mo!MoPayloads]
    BY <2>1, <2>2, MonitoringTypes
  <2>5. \A x \in Mo!MoScopes : x \in v1 \cup {none} => v2'[x] \in {{}, {x}} /\ v3'[x] \in {{}, {x}}
    BY <2>3, MonitoringOwn
  <2>6. QED  BY <2>1, <2>4, <2>5, MonitoringPanel
<1>3. ASSUME NEW k \in Sites, Mo!MoDelete(k) PROVE Mo!MoInv'
  <2>1. v1' \subseteq v1 /\ UNCHANGED <<v2, v3, v4>> /\ UNCHANGED Mo!moPage /\ UNCHANGED Mo!moServer
    BY <1>3 DEF Mo!MoDelete
  <2>2. /\ v2' \in [Mo!MoScopes -> Mo!MoPayloads] /\ v3' \in [Mo!MoScopes -> Mo!MoPayloads]
        /\ \A x \in Mo!MoScopes : x \in v1 \cup {none} => v2'[x] \in {{}, {x}} /\ v3'[x] \in {{}, {x}}
    BY <2>1, MonitoringTypes, MonitoringOwn
  <2>3. QED  BY <2>1, <2>2, MonitoringPanel
<1>4. QED  BY <1>1, <1>2, <1>3

(* The answer, and a browser that waits no longer.                           *)
LEMMA MonitoringHeard ==
  ASSUME Mo!MoInv, NEW r \in v10, Mo!MoAnswered(r) \/ Mo!MoGivenUp(r)
  PROVE  Mo!MoInv'
<1>1. PICK k \in Mo!MoScopes, got \in Mo!MoPayloads : k = r.key /\ got = r.got
  BY MonitoringTypes DEF Mo!MoRequests
<1>2. PICK e : e = [r EXCEPT !.heard = FALSE]
  OBVIOUS
<1>3. e \in Mo!MoRequests /\ e.key = r.key /\ e.step = r.step /\ e.got = r.got
  BY <1>2, MonitoringTypes DEF Mo!MoRequests
<1>4. /\ \A q \in v10' : q \in v10 \/ q = e
      /\ \A q \in v10 : q # r => q \in v10'
      /\ UNCHANGED <<v1, v2, v3, v4, v5, v6, v11>> /\ UNCHANGED Mo!moServer
  BY <1>2 DEF Mo!MoAnswered, Mo!MoGivenUp, Mo!moPanel
<1>5. /\ v7' \in [Mo!MoScopes -> Mo!MoPayloads]
      /\ \A x \in Mo!MoScopes : x # k => v7'[x] = v7[x] /\ (x \in v8' <=> x \in v8)
      /\ v7'[k] = v7[k] \/ v7'[k] = got
      /\ k \in v1 \cup {none} => k \in v8' \/ v7'[k] # {}
  <2>1. CASE Mo!MoAnswered(r) /\ r.step = "answered"
    <3>1. v7' = [v7 EXCEPT ![k] = got] /\ v8' = v8 \ {k}
      BY <1>1, <2>1 DEF Mo!MoAnswered
    <3>2. k \in v1 \cup {none} => got # {}
      BY <1>1, <2>1, MonitoringOwn
    <3>3. v7'[k] = got
      BY <3>1, MonitoringTypes
    <3>4. QED  BY <3>1, <3>2, <3>3, MonitoringTypes
  <2>2. CASE ~(Mo!MoAnswered(r) /\ r.step = "answered")
    <3>1. v7' = v7 /\ v8' = v8 \cup {k}
      BY <1>1, <2>2 DEF Mo!MoAnswered, Mo!MoGivenUp
    <3>2. QED  BY <3>1, MonitoringTypes
  <2>3. QED  BY <2>1, <2>2
<1>6. v10' \subseteq Mo!MoRequests
  BY <1>3, <1>4, MonitoringTypes
<1>7. \A q \in v10' : q.key \in v1' \cup {none} =>
                q.got \in {{}, {q.key}} /\ (q.step \in {"built", "answered"} => q.got # {})
  BY <1>3, <1>4, MonitoringOwn
<1>8. \A x \in Mo!MoScopes : x \in v1' \cup {none} =>
                v2'[x] \in {{}, {x}} /\ v3'[x] \in {{}, {x}} /\ v7'[x] \in {{}, {x}}
  <2>1. k \in v1 \cup {none} => got \in {{}, {k}}
    BY <1>1, MonitoringOwn
  <2>2. QED  BY <1>4, <1>5, <2>1, MonitoringOwn
<1>9. v6' \in v1' \cup {none} /\ v7'[v6'] = {} /\ v6' \notin v8' =>
                \E q \in v10' : q.key = v6' /\ q.heard
  <2>1. SUFFICES ASSUME v6 \in v1 \cup {none}, v7'[v6] = {}, v6 \notin v8'
                 PROVE  \E q \in v10' : q.key = v6 /\ q.heard
    BY <1>4
  <2>2. v6 # k
    BY <1>5, <2>1
  <2>3. PICK q \in v10 : q.key = v6 /\ q.heard
    BY <1>5, <2>1, <2>2, MonitoringTypes, MonitoringAwaited
  <2>4. QED  BY <1>1, <1>4, <2>2, <2>3
<1>10. QED
  BY <1>4, <1>5, <1>6, <1>7, <1>8, <1>9, MonitoringTypes, MonitoringServerStays, MonitoringHealth

-----------------------------------------------------------------------------
(* The gauges and the samples of the charts.                                 *)

LEMMA MonitoringGauges ==
  ASSUME Mo!MoInv, UNCHANGED Mo!moPanel, UNCHANGED Mo!moPage, v12' \in Nat, v15' \in Seq(Nat),
         Mo!MoStatsAreLast'
  PROVE  Mo!MoInv'
<1>1. UNCHANGED <<v1, v2, v3, v4, v5, v6, v7, v8, v10, v11>>
  BY DEF Mo!moPanel, Mo!moPage
<1>2. Mo!MoPayloadsOwn' /\ Mo!MoNothingIsAwaited'
  BY <1>1, MonitoringTypes DEF Mo!MoPayloadsOwn, Mo!MoNothingIsAwaited, Mo!MoOwn, Mo!MoThere,
     Mo!MoWaits
<1>3. QED  BY <1>1, <1>2, MonitoringTypes, MonitoringParts

(* The last of the points: no more than the bound, and they end as before.   *)
LEMMA LastPoints ==
  ASSUME NEW s \in Seq(Nat), Len(s) > 0
  PROVE  /\ Mo!MoLastPoints(s) \in Seq(Nat) /\ Len(Mo!MoLastPoints(s)) \in 1 .. MaxMade
         /\ Mo!MoLastPoints(s)[Len(Mo!MoLastPoints(s))] = s[Len(s)]
<1>1. MaxMade \in Nat /\ MaxMade > 0 /\ Len(s) \in Nat
  BY PagesAssumption
<1>2. CASE Len(s) <= MaxMade
  BY <1>1, <1>2 DEF Mo!MoLastPoints
<1>3. CASE Len(s) > MaxMade
  <2>0. Len(s) - MaxMade + 1 \in 1 .. Len(s) + 1
    BY <1>1, <1>3
  <2>1. PICK m, n : m = Len(s) - MaxMade + 1 /\ n = Len(s) /\ m \in 1 .. Len(s) + 1
    BY <2>0
  <2>2. PICK t : t = SubSeq(s, m, n)
    OBVIOUS
  <2>3. t \in Seq(Nat) /\ Len(t) = MaxMade
    BY <1>1, <1>3, <2>1, <2>2
  <2>4. t[MaxMade] = s[n]
    BY <1>1, <1>3, <2>1, <2>2
  <2>5. Mo!MoLastPoints(s) = t
    BY <1>1, <1>3, <2>1, <2>2 DEF Mo!MoLastPoints
  <2>6. QED  BY <1>1, <2>1, <2>3, <2>4, <2>5
<1>4. QED  BY <1>1, <1>2, <1>3

LEMMA MonitoringServer ==
  ASSUME Mo!MoInv,
         \/ Mo!MoLoadChanges \/ Mo!MoStatsRead \/ Mo!MoKeptExpires \/ Mo!MoSummaryRead
         \/ \E section \in {"summary", "server"} : Mo!MoReadFails(section)
  PROVE  Mo!MoInv'
<1>1. UNCHANGED Mo!moPanel /\ UNCHANGED Mo!moPage
  BY DEF Mo!MoLoadChanges, Mo!MoStatsRead, Mo!MoKeptExpires, Mo!MoSummaryRead, Mo!MoReadFails
<1>2. CASE Mo!MoStatsRead
  <2>1. PICK s \in IF v13 = {} THEN Mo!MoTake ELSE v13 :
           v13' = {s} /\ v14' = {s} /\ v15' = Mo!MoLastPoints(Append(v15, s.stats))
    BY <1>2 DEF Mo!MoStatsRead
  <2>2. s \in Mo!MoSample
    <3>1. CASE v13 = {}
      <4>1. PICK a \in {0, v12}, b \in {0, v12} : s = [stats |-> a, services |-> b]
        BY <2>1, <3>1 DEF Mo!MoTake
      <4>2. a \in Nat /\ b \in Nat
        BY <4>1, MonitoringTypes
      <4>3. QED  BY <4>1, <4>2 DEF Mo!MoSample
    <3>2. CASE v13 # {}
      BY <2>1, <3>2, MonitoringTypes DEF Mo!MoStatsAreLast
    <3>3. QED  BY <3>1, <3>2
  <2>3. PICK n \in Nat : n = s.stats
    BY <2>2 DEF Mo!MoSample
  <2>4. PICK t : t = Append(v15, n)
    OBVIOUS
  <2>5. t \in Seq(Nat) /\ Len(t) > 0 /\ t[Len(t)] = n
    BY <2>4, MonitoringTypes
  <2>6. PICK u : u = Mo!MoLastPoints(t)
    OBVIOUS
  <2>7. u \in Seq(Nat) /\ Len(u) \in 1 .. MaxMade /\ u[Len(u)] = n
    BY <2>5, <2>6, LastPoints
  <2>8. v15' = u /\ u # <<>> /\ Len(u) <= MaxMade
    BY <2>1, <2>3, <2>4, <2>6, <2>7, PagesAssumption
  <2>9. Mo!MoStatsAreLast'
    BY <2>1, <2>2, <2>3, <2>7, <2>8 DEF Mo!MoStatsAreLast
  <2>10. v12' \in Nat
    BY <1>2, MonitoringTypes DEF Mo!MoStatsRead
  <2>11. QED  BY <1>1, <2>7, <2>8, <2>9, <2>10, MonitoringGauges
<1>3. CASE ~Mo!MoStatsRead
  <2>1. v12' \in Nat /\ v13' \in {v13, {}} /\ UNCHANGED <<v14, v15>>
    BY <1>3, MonitoringTypes
    DEF Mo!MoLoadChanges, Mo!MoKeptExpires, Mo!MoSummaryRead, Mo!MoReadFails
  <2>2. Mo!MoStatsAreLast'
    BY <2>1, MonitoringTypes DEF Mo!MoStatsAreLast
  <2>3. QED  BY <1>1, <2>1, <2>2, MonitoringTypes, MonitoringGauges
<1>4. QED  BY <1>2, <1>3

LEMMA MonitoringStep == Mo!MoInv /\ (Mo!MoHealthNext \/ Mo!MoServerNext) => Mo!MoInv'
<1> SUFFICES ASSUME Mo!MoInv, Mo!MoHealthNext \/ Mo!MoServerNext PROVE Mo!MoInv'
  OBVIOUS
<1>1. CASE Mo!MoHealthNext
  BY <1>1, MonitoringPicks, MonitoringServed, MonitoringKept, MonitoringCaches, MonitoringHeard
  DEF Mo!MoHealthNext
<1>2. CASE Mo!MoServerNext
  BY <1>2, MonitoringPicks, MonitoringServer DEF Mo!MoServerNext
<1>3. QED  BY <1>1, <1>2

LEMMA MonitoringHolds == Mo!MoInv => Mo!HealthOfPicked /\ Mo!ChartsEndAtGauges
<1> SUFFICES ASSUME Mo!MoInv PROVE Mo!HealthOfPicked /\ Mo!ChartsEndAtGauges
  OBVIOUS
<1>1. Mo!HealthOfPicked
  <2>1. SUFFICES ASSUME v6 \in v1 \cup {none}, Mo!MoCard # "error", Mo!MoHealthShown # {v6}
                 PROVE  Mo!MoWaits(v6)
    BY DEF Mo!HealthOfPicked, Mo!MoThere
  <2>2. v6 \notin v8
    BY <2>1 DEF Mo!MoCard
  <2>3. v7[v6] = {}
    BY <2>1, MonitoringTypes, MonitoringOwn DEF Mo!MoHealthShown
  <2>4. QED  BY <2>1, <2>2, <2>3, MonitoringAwaited DEF Mo!MoWaits
<1>2. Mo!ChartsEndAtGauges
  <2>1. Len(v15) <= MaxMade /\ v15 \in Seq(Nat) /\ Len(v15) \in Nat
    BY MonitoringTypes DEF Mo!MoStatsAreLast
  <2>2. CASE v15 = <<>>
    <3>1. v14 = {} /\ Len(v15) = 0
      BY <2>2, MonitoringTypes DEF Mo!MoStatsAreLast
    <3>2. Mo!MoGauges = {} /\ Mo!MoCharts = <<>>
      BY <3>1 DEF Mo!MoGauges, Mo!MoCharts
    <3>3. {v15[i] : i \in {Len(v15)} \ {0}} = {}
      BY <3>1
    <3>4. QED  BY <2>1, <3>2, <3>3 DEF Mo!ChartsEndAtGauges
  <2>3. CASE v15 # <<>>
    <3>1. PICK s \in v14 : s \in Mo!MoSample /\ v14 = {s} /\ v15[Len(v15)] = s.stats
      BY <2>3, MonitoringTypes DEF Mo!MoStatsAreLast
    <3>2. Len(v15) # 0
      BY <2>1, <2>3
    <3>3. Mo!MoGauges = {s.stats}
      BY <3>1 DEF Mo!MoGauges
    <3>4. {v15[i] : i \in {Len(v15)} \ {0}} = {s.stats}
      BY <3>1, <3>2
    <3>5. "processes" \in Mo!MoTables <=> s.stats # 0
      <4>1. Mo!MoTables = Mo!MoBars(s) \cup Mo!MoTiles(s)
        BY <3>1 DEF Mo!MoTables
      <4>2. "processes" \notin Mo!MoTiles(s)
        BY DEF Mo!MoTiles
      <4>3. "processes" \in Mo!MoBars(s) <=> s.stats # 0
        BY DEF Mo!MoBars
      <4>4. QED  BY <4>1, <4>2, <4>3
    <3>6. Mo!MoCharts # <<>> => Mo!MoCharts = v15
      BY DEF Mo!MoCharts, Mo!MoDrawn
    <3>7. QED  BY <2>1, <3>1, <3>3, <3>4, <3>5, <3>6 DEF Mo!ChartsEndAtGauges
  <2>4. QED  BY <2>2, <2>3
<1>3. QED  BY <1>1, <1>2

-----------------------------------------------------------------------------
(* All of it: the invariant of the page that is open holds.                  *)

PagesInv ==
    /\ open = "stack" => Sk!SkInv
    /\ open = "advisor" => Ai!AiInv
    /\ open = "ssl" => Sl!SlInv
    /\ open = "dns" => Dn!DnInv
    /\ open = "deploy" => Dp!DpInv
    /\ open = "two-factor" => Tf!TfInv
    /\ open = "email" => Em!EmInv
    /\ open = "databases" => Db!DbInv
    /\ open = "mail settings" => Ml!MlInv
    /\ open = "php" => Ph!PhInv
    /\ open = "installer" => In!InInv
    /\ open = "backups" => Bk!BkInv
    /\ open = "quick settings" => Qs!QsInv
    /\ open = "domains" => Dm!DmInv
    /\ open = "cron" => Cn!CnInv
    /\ open = "plugins" => Pl!PlInv
    /\ open = "node" => Na!NaInv
    /\ open = "monitoring" => Mo!MoInv

(* A step in which nothing changes.                                          *)
LEMMA StackStill == Sk!SkInv /\ UNCHANGED pageVars => Sk!SkInv'
  BY DEF Sk!SkInv, Sk!ToldNeverSucceeds, Sk!SkToldIsHeeded, Sk!SkIds, Sk!SkOlderIsTold,
         Sk!SkAlive, Sk!SkAliveIsSeen, Sk!SkBusyStatus, Sk!SkTypeOK, Sk!SkJob, Sk!SkRow,
         Sk!SkOver, pageVars

LEMMA AdvisorStill == Ai!AiInv /\ UNCHANGED pageVars => Ai!AiInv'
  BY DEF Ai!AiInv, Ai!AiWillBeOne, Ai!AiRows, Ai!AiShownLives, Ai!AiThere,
         Ai!AiDeletesAlone, Ai!AiLive, Ai!AiUsageLeads, Ai!AiAnswers, Ai!AiHasChanged,
         Ai!AiMsgsLead, Ai!AiListLeads, Ai!AiDeletedIsGone, Ai!AiPendingIsSent,
         Ai!AiOneOfAKind, Ai!AiAtMostOne, Ai!AiTypeOK, Ai!AiRequest, pageVars

LEMMA SslStill == Sl!SlInv /\ UNCHANGED pageVars => Sl!SlInv'
  BY DEF Sl!SlInv, Sl!SlListsLead, Sl!SlRead, Sl!UploadedToOwnSite, Sl!SlTextIsOwn,
         Sl!SlBarIsFull, Sl!SlJobIsAwaited, Sl!SlIsJob, Sl!SlFlagsLead, Sl!SlInstalled,
         Sl!SlOneEach, Sl!SlTypeOK, Sl!SlRequest, Sl!SlSwitches, Sl!SlRows, pageVars

LEMMA DnsStill == Dn!DnInv /\ UNCHANGED pageVars => Dn!DnInv'
  BY DEF Dn!DnInv, Dn!DnZonesLead, Dn!DnOwed, Dn!DnWritten, Dn!DnOneSync, Dn!DnOwnSyncs,
         Dn!DnListsLead, Dn!DnTypeOK, Dn!DnRequest, Dn!DnLive, Dn!DnZoneSet, Dn!DnJob, pageVars

LEMMA DeployStill == Dp!DpInv /\ UNCHANGED pageVars => Dp!DpInv'
<1> SUFFICES ASSUME Dp!DpInv, UNCHANGED pageVars PROVE Dp!DpInv'
  OBVIOUS
<1>1. UNCHANGED <<v1, v2, v3, v4, v5, v6, v7, v8, v10, v12, v13, v14>>
  BY DEF pageVars
<1>2. Dp!DpConfigTypes' /\ Dp!DpRunTypes'
  BY <1>1 DEF Dp!DpInv, Dp!DpConfigTypes, Dp!DpRunTypes
<1>3. (~v13' => Dp!DpOwnOnly') /\ Dp!DpFreshIsTrue'
  BY <1>1 DEF Dp!DpInv, Dp!DpOwnOnly, Dp!DpFreshIsTrue
<1>4. Dp!DpLastOfSite' /\ Dp!LiveIsRecorded'
  BY <1>1 DEF Dp!DpInv, Dp!DpLastOfSite, Dp!LiveIsRecorded
<1>5. Dp!DpRunsInTurn'
  BY <1>1 DEF Dp!DpInv, Dp!DpRunsInTurn, Dp!DpAlive
<1>6. QED  BY <1>2, <1>3, <1>4, <1>5 DEF Dp!DpInv

LEMMA TwoFactorStill == Tf!TfInv /\ UNCHANGED pageVars => Tf!TfInv'
  BY DEF Tf!TfInv, Tf!TfTypeOK, Tf!TfPictureFollows, Tf!AuthenticatorWorks, Tf!TfOneRequest,
         Tf!TfShownLeads, Tf!TfSecretLeads, Tf!TfBefore, Tf!TfToVerify, Tf!TfRequest, pageVars

LEMMA EmailStill == Em!EmInv /\ UNCHANGED pageVars => Em!EmInv'
  BY DEF Em!EmInv, Em!EmTypeOK, Em!EmTypedForOne, Em!EmOthersCarryNone, Em!EmListsLead,
         Em!EmOneCarries, Em!EmPasswordsLead, Em!EmCarriesNew, Em!EmRequest, Em!EmAllSorts,
         Em!EmSorts, Em!EmCarries, pageVars

LEMMA DatabasesStill == Db!DbInv /\ UNCHANGED pageVars => Db!DbInv'
<1> SUFFICES ASSUME Db!DbInv, UNCHANGED pageVars PROVE Db!DbInv'
  OBVIOUS
<1>1. Db!DbListInv'
  BY DEF Db!DbInv, Db!DbListInv, Db!DbListTypes, Db!DbListLeads, Db!DbPages, Db!DbRowsOf, pageVars
<1>2. Db!DbSecretInv'
  BY DEF Db!DbInv, Db!DbSecretInv, Db!DbSecretTypes, Db!DbOneChange, Db!RevealedWorks, pageVars
<1>3. Db!DbImportInv'
  BY DEF Db!DbInv, Db!DbImportInv, Db!DbImportTypes, Db!DbOneImport, Db!OneImport, Db!DbAnyLive,
         Db!DbCreated, pageVars
<1>4. QED  BY <1>1, <1>2, <1>3 DEF Db!DbInv

LEMMA MailStill == Ml!MlInv /\ UNCHANGED pageVars => Ml!MlInv'
<1> SUFFICES ASSUME Ml!MlInv, UNCHANGED pageVars PROVE Ml!MlInv'
  OBVIOUS
<1>1. Ml!MlTypeOK'
  BY DEF Ml!MlInv, Ml!MlKeptInv, Ml!MlTypeOK, pageVars
<1>2. Ml!MlCreatesMissing'
  BY DEF Ml!MlInv, Ml!MlKeptInv, Ml!MlCreatesMissing, pageVars
<1>3. Ml!MailCacheTrue'
  BY DEF Ml!MlInv, Ml!MlKeptInv, Ml!MailCacheTrue, pageVars
<1>4. Ml!MailRecordsOnce'
  BY DEF Ml!MlInv, Ml!MlKeptInv, Ml!MailRecordsOnce, pageVars
<1>5. Ml!MlShowLeads'
  BY DEF Ml!MlInv, Ml!MlShowLeads, Ml!MlReadsAgain, pageVars
<1>6. QED  BY <1>1, <1>2, <1>3, <1>4, <1>5 DEF Ml!MlInv, Ml!MlKeptInv

LEMMA PhpStill == Ph!PhInv /\ UNCHANGED pageVars => Ph!PhInv'
<1> SUFFICES ASSUME Ph!PhInv, UNCHANGED pageVars PROVE Ph!PhInv'
  OBVIOUS
<1>1. Ph!PhTypeOK'
  BY DEF Ph!PhInv, Ph!PhTypeOK, pageVars
<1>2. Ph!PhCachesLead'
  BY DEF Ph!PhInv, Ph!PhCachesLead, pageVars
<1>3. Ph!PhBareIsNoted'
  BY DEF Ph!PhInv, Ph!PhBareIsNoted, pageVars
<1>4. Ph!PhFormsAreOwn'
  BY DEF Ph!PhInv, Ph!PhFormsAreOwn, Ph!PhRead, pageVars
<1>5. Ph!PhSyncIsFollowed'
  BY DEF Ph!PhInv, Ph!PhSyncIsFollowed, Ph!PhSyncAlive, pageVars
<1>6. Ph!SavedToOwnVersion'
  BY DEF Ph!PhInv, Ph!SavedToOwnVersion, pageVars
<1>7. QED  BY <1>1, <1>2, <1>3, <1>4, <1>5, <1>6 DEF Ph!PhInv

LEMMA InstallerStill == In!InInv /\ UNCHANGED pageVars => In!InInv'
<1> SUFFICES ASSUME In!InInv, UNCHANGED pageVars PROVE In!InInv'
  OBVIOUS
<1>1. In!InTypeOK'
  BY DEF In!InInv, In!InTypeOK, pageVars
<1>2. In!InInTurn'
  BY DEF In!InInv, In!InInTurn, pageVars
<1>3. In!InWas(v2)'
  BY DEF In!InInv, In!InWas, pageVars
<1>4. In!InWas(v4)'
  BY DEF In!InInv, In!InWas, pageVars
<1>5. In!InLatestOnly'
  BY DEF In!InInv, In!InLatestOnly, pageVars
<1>6. (v11 = v10)'
  BY DEF In!InInv, pageVars
<1>7. In!RootOfPicked'
  BY DEF In!InInv, In!RootOfPicked, pageVars
<1>8. QED  BY <1>1, <1>2, <1>3, <1>4, <1>5, <1>6, <1>7 DEF In!InInv

LEMMA BackupsStill == Bk!BkInv /\ UNCHANGED pageVars => Bk!BkInv'
<1> SUFFICES ASSUME Bk!BkInv, UNCHANGED pageVars PROVE Bk!BkInv'
  OBVIOUS
<1>1. Bk!BkTypeOK'
  BY DEF Bk!BkInv, Bk!BkTypeOK, pageVars
<1>2. (v5 \/ Bk!BkOneAfterAnother)'
  BY DEF Bk!BkInv, Bk!BkOneAfterAnother, pageVars
<1>3. Bk!BkGhostsAreAwaited'
  BY DEF Bk!BkInv, Bk!BkGhostsAreAwaited, pageVars
<1>4. Bk!BkFilesOwn'
  BY DEF Bk!BkInv, Bk!BkFilesOwn, pageVars
<1>5. Bk!BkAddsAnew'
  BY DEF Bk!BkInv, Bk!BkAddsAnew, pageVars
<1>6. Bk!AddNeverOverwrites'
  BY DEF Bk!BkInv, Bk!AddNeverOverwrites, pageVars
<1>7. QED  BY <1>1, <1>2, <1>3, <1>4, <1>5, <1>6 DEF Bk!BkInv

LEMMA QuickStill == Qs!QsInv /\ UNCHANGED pageVars => Qs!QsInv'
<1> SUFFICES ASSUME Qs!QsInv, UNCHANGED pageVars PROVE Qs!QsInv'
  OBVIOUS
<1>1. Qs!QsEditorTypes'
  BY DEF Qs!QsInv, Qs!QsEditorInv, Qs!QsEditorTypes, pageVars
<1>2. Qs!QsCacheIsOwn'
  BY DEF Qs!QsInv, Qs!QsEditorInv, Qs!QsCacheIsOwn, pageVars
<1>3. Qs!QsEditorIsOwn'
  BY DEF Qs!QsInv, Qs!QsEditorInv, Qs!QsEditorIsOwn, pageVars
<1>4. Qs!QsPostIsOwn'
  BY DEF Qs!QsInv, Qs!QsEditorInv, Qs!QsPostIsOwn, pageVars
<1>5. Qs!QsChangeTypes'
  BY DEF Qs!QsInv, Qs!QsChangeInv, Qs!QsChangeTypes, pageVars
<1>6. Qs!QsPickIsOwn'
  BY DEF Qs!QsInv, Qs!QsChangeInv, Qs!QsPickIsOwn, pageVars
<1>7. Qs!QsIssueOnce'
  BY DEF Qs!QsInv, Qs!QsChangeInv, Qs!QsIssueOnce, pageVars
<1>8. Qs!AppliedToOwnSite'
  BY DEF Qs!QsInv, Qs!QsChangeInv, Qs!AppliedToOwnSite, pageVars
<1>9. Qs!QsSwitchTypes'
  BY DEF Qs!QsInv, Qs!QsSwitchInv, Qs!QsSwitchTypes, pageVars
<1>10. Qs!QsTurnIsSet'
  BY DEF Qs!QsInv, Qs!QsSwitchInv, Qs!QsTurnIsSet, Qs!QsTurnedOn, pageVars
<1>11. Qs!QsSwitchLeads'
  BY DEF Qs!QsInv, Qs!QsSwitchInv, Qs!QsSwitchLeads, Qs!QsTurnedOn, pageVars
<1>12. QED  BY <1>1, <1>2, <1>3, <1>4, <1>5, <1>6, <1>7, <1>8, <1>9, <1>10, <1>11 DEF Qs!QsInv, Qs!QsEditorInv, Qs!QsChangeInv, Qs!QsSwitchInv

LEMMA DomainsStill == Dm!DmInv /\ UNCHANGED pageVars => Dm!DmInv'
<1> SUFFICES ASSUME Dm!DmInv, UNCHANGED pageVars PROVE Dm!DmInv'
  OBVIOUS
<1>1. Dm!DmTypeOK'
  BY DEF Dm!DmInv, Dm!DmTypeOK, Dm!DmRequest, pageVars
<1>2. Dm!DmListLeads'
  BY DEF Dm!DmInv, Dm!DmListLeads, pageVars
<1>3. Dm!DmOneEach'
  BY DEF Dm!DmInv, Dm!DmOneEach, pageVars
<1>4. Dm!DmReportsOwn'
  BY DEF Dm!DmInv, Dm!DmReportsOwn, pageVars
<1>5. Dm!BusyIsUnderWay'
  BY DEF Dm!DmInv, Dm!BusyIsUnderWay, pageVars
<1>6. Dm!PhraseForThisDomain'
  BY DEF Dm!DmInv, Dm!PhraseForThisDomain, pageVars
<1>7. QED  BY <1>1, <1>2, <1>3, <1>4, <1>5, <1>6 DEF Dm!DmInv

LEMMA CronStill == Cn!CnInv /\ UNCHANGED pageVars => Cn!CnInv'
<1> SUFFICES ASSUME Cn!CnInv, UNCHANGED pageVars PROVE Cn!CnInv'
  OBVIOUS
<1>1. Cn!CnTypeOK'
  BY DEF Cn!CnInv, Cn!CnTypeOK, pageVars
<1>2. Cn!CnListsLead'
  BY DEF Cn!CnInv, Cn!CnListsLead, pageVars
<1>3. Cn!CnFormIsOfDialog'
  BY DEF Cn!CnInv, Cn!CnFormIsOfDialog, pageVars
<1>4. Cn!CnFoundOwn'
  BY DEF Cn!CnInv, Cn!CnFoundOwn, pageVars
<1>5. Cn!SavedToOwnJob'
  BY DEF Cn!CnInv, Cn!SavedToOwnJob, pageVars
<1>6. QED  BY <1>1, <1>2, <1>3, <1>4, <1>5 DEF Cn!CnInv

LEMMA PluginsStill == Pl!PlInv /\ UNCHANGED pageVars => Pl!PlInv'
<1> SUFFICES ASSUME Pl!PlInv, UNCHANGED pageVars PROVE Pl!PlInv'
  OBVIOUS
<1>1. Pl!PlStoreTypes'
  BY DEF Pl!PlInv, Pl!PlStoreTypes, pageVars
<1>2. Pl!PlWizardTypes'
  BY DEF Pl!PlInv, Pl!PlWizardTypes, pageVars
<1>3. Pl!PlListsLead'
  BY DEF Pl!PlInv, Pl!PlListsLead, pageVars
<1>4. Pl!PlRunsLead'
  BY DEF Pl!PlInv, Pl!PlRunsLead, pageVars
<1>5. Pl!PlFilledIn'
  BY DEF Pl!PlInv, Pl!PlFilledIn, pageVars
<1>6. QED  BY <1>1, <1>2, <1>3, <1>4, <1>5 DEF Pl!PlInv

LEMMA NodeStill == Na!NaInv /\ UNCHANGED pageVars => Na!NaInv'
<1> SUFFICES ASSUME Na!NaInv, UNCHANGED pageVars PROVE Na!NaInv'
  OBVIOUS
<1>1. Na!NaTypeOK'
  BY DEF Na!NaInv, Na!NaTypeOK, pageVars
<1>2. Na!NaCacheLeads'
  BY DEF Na!NaInv, Na!NaCacheLeads, pageVars
<1>3. Na!NaFormIsOwn'
  BY DEF Na!NaInv, Na!NaFormIsOwn, pageVars
<1>4. Na!NaOutIsOfLast'
  BY DEF Na!NaInv, Na!NaOutIsOfLast, pageVars
<1>5. Na!SavedToOwnApp'
  BY DEF Na!NaInv, Na!SavedToOwnApp, pageVars
<1>6. QED  BY <1>1, <1>2, <1>3, <1>4, <1>5 DEF Na!NaInv

LEMMA MonitoringStill == Mo!MoInv /\ UNCHANGED pageVars => Mo!MoInv'
<1> SUFFICES ASSUME Mo!MoInv, UNCHANGED pageVars PROVE Mo!MoInv'
  OBVIOUS
<1>1. Mo!MoTypeOK'
  BY DEF Mo!MoInv, Mo!MoTypeOK, pageVars
<1>2. Mo!MoPayloadsOwn'
  BY DEF Mo!MoInv, Mo!MoPayloadsOwn, Mo!MoOwn, Mo!MoThere, pageVars
<1>3. Mo!MoNothingIsAwaited'
  BY DEF Mo!MoInv, Mo!MoNothingIsAwaited, Mo!MoThere, Mo!MoWaits, pageVars
<1>4. Mo!MoStatsAreLast'
  BY DEF Mo!MoInv, Mo!MoStatsAreLast, pageVars
<1>5. QED  BY <1>1, <1>2, <1>3, <1>4 DEF Mo!MoInv

LEMMA PagesStart == PagesInit => PagesInv
  BY StackInit, AdvisorInit, SslInit, DnsInit, DeployInit, TwoFactorInit,
     EmailInit, DatabasesInit, MailInit, PhpInit, InstallerInit, BackupsInit, QuickInit, DomainsInit, CronInit, PluginsInit, NodeInit, MonitoringInit
     DEF PagesInit, PagesInv

LEMMA PagesStep == PagesInv /\ [PagesNext]_<<open, group, pageVars>> => PagesInv'
<1> SUFFICES ASSUME PagesInv, [PagesNext]_<<open, group, pageVars>> PROVE PagesInv'
  OBVIOUS
<1>1. open' = open
  BY DEF PagesNext, Part
<1>2. ASSUME open = "stack" PROVE Sk!SkInv'
  <2>1. UNCHANGED pageVars \/ Sk!SkNext
    BY <1>2 DEF PagesNext, Part
  <2>2. Sk!SkInv
    BY <1>2 DEF PagesInv
  <2>3. QED  BY ONLY <2>1, <2>2, StackStep, StackStill
<1>3. ASSUME open = "advisor" PROVE Ai!AiInv'
  <2>1. UNCHANGED pageVars \/ Ai!AiChatNext \/ Ai!AiSettingsNext
    BY <1>3 DEF PagesNext, Part
  <2>2. Ai!AiInv
    BY <1>3 DEF PagesInv
  <2>3. QED  BY ONLY <2>1, <2>2, AdvisorStep, AdvisorStill
<1>4. ASSUME open = "ssl" PROVE Sl!SlInv'
  <2>1. UNCHANGED pageVars \/ Sl!SlNext
    BY <1>4 DEF PagesNext, Part
  <2>2. Sl!SlInv
    BY <1>4 DEF PagesInv
  <2>3. QED  BY ONLY <2>1, <2>2, SslStep, SslStill
<1>5. ASSUME open = "dns" PROVE Dn!DnInv'
  <2>1. UNCHANGED pageVars \/ Dn!DnNext
    BY <1>5 DEF PagesNext, Part
  <2>2. Dn!DnInv
    BY <1>5 DEF PagesInv
  <2>3. QED  BY ONLY <2>1, <2>2, DnsStep, DnsStill
<1>6. ASSUME open = "deploy" PROVE Dp!DpInv'
  <2>1. UNCHANGED pageVars \/ Dp!DpConfigNext \/ Dp!DpRunNext
    BY <1>6 DEF PagesNext, Part
  <2>2. Dp!DpInv
    BY <1>6 DEF PagesInv
  <2>3. QED  BY ONLY <2>1, <2>2, DeployStep, DeployStill
<1>7. ASSUME open = "two-factor" PROVE Tf!TfInv'
  <2>1. UNCHANGED pageVars \/ Tf!TfNext
    BY <1>7 DEF PagesNext, Part
  <2>2. Tf!TfInv
    BY <1>7 DEF PagesInv
  <2>3. QED  BY ONLY <2>1, <2>2, TwoFactorStep, TwoFactorStill
<1>8. ASSUME open = "email" PROVE Em!EmInv'
  <2>1. UNCHANGED pageVars \/ Em!EmNext
    BY <1>8 DEF PagesNext, Part
  <2>2. Em!EmInv
    BY <1>8 DEF PagesInv
  <2>3. QED  BY ONLY <2>1, <2>2, EmailStep, EmailStill
<1>9. ASSUME open = "databases" PROVE Db!DbInv'
  <2>1. UNCHANGED pageVars \/ Db!DbListNext \/ Db!DbSecretNext \/ Db!DbImportNext
    BY <1>9 DEF PagesNext, Part
  <2>2. Db!DbInv
    BY <1>9 DEF PagesInv
  <2>3. QED  BY ONLY <2>1, <2>2, DatabasesStep, DatabasesStill
<1>10. ASSUME open = "mail settings" PROVE Ml!MlInv'
  <2>1. UNCHANGED pageVars \/ Ml!MlSettingsNext \/ Ml!MlWizardNext
    BY <1>10 DEF PagesNext, Part
  <2>2. Ml!MlInv
    BY <1>10 DEF PagesInv
  <2>3. QED  BY ONLY <2>1, <2>2, MailStep, MailStill
<1>11. ASSUME open = "php" PROVE Ph!PhInv'
  <2>1. UNCHANGED pageVars \/ Ph!PhConfigNext \/ Ph!PhSyncNext
    BY <1>11 DEF PagesNext, Part
  <2>2. Ph!PhInv
    BY <1>11 DEF PagesInv
  <2>3. QED  BY ONLY <2>1, <2>2, PhpStep, PhpStill
<1>12. ASSUME open = "installer" PROVE In!InInv'
  <2>1. UNCHANGED pageVars \/ In!InRunNext \/ In!InGuideNext
    BY <1>12 DEF PagesNext, Part
  <2>2. In!InInv
    BY <1>12 DEF PagesInv
  <2>3. QED  BY ONLY <2>1, <2>2, InstallerStep, InstallerStill
<1>13. ASSUME open = "backups" PROVE Bk!BkInv'
  <2>1. UNCHANGED pageVars \/ Bk!BkOpNext \/ Bk!BkListNext \/ Bk!BkFormNext
    BY <1>13 DEF PagesNext, Part
  <2>2. Bk!BkInv
    BY <1>13 DEF PagesInv
  <2>3. QED  BY ONLY <2>1, <2>2, BackupsStep, BackupsStill
<1>14. ASSUME open = "quick settings" PROVE Qs!QsInv'
  <2>1. UNCHANGED pageVars \/ Qs!QsEditorNext \/ Qs!QsChangeNext \/ Qs!QsSwitchNext
    BY <1>14 DEF PagesNext, Part
  <2>2. Qs!QsInv
    BY <1>14 DEF PagesInv
  <2>3. QED  BY ONLY <2>1, <2>2, QuickStep, QuickStill
<1>15. ASSUME open = "domains" PROVE Dm!DmInv'
  <2>1. UNCHANGED pageVars \/ Dm!DmListNext \/ Dm!DmReportNext
    BY <1>15 DEF PagesNext, Part
  <2>2. Dm!DmInv
    BY <1>15 DEF PagesInv
  <2>3. QED  BY ONLY <2>1, <2>2, DomainsStep, DomainsStill
<1>16. ASSUME open = "cron" PROVE Cn!CnInv'
  <2>1. UNCHANGED pageVars \/ Cn!CnListNext \/ Cn!CnScanNext
    BY <1>16 DEF PagesNext, Part
  <2>2. Cn!CnInv
    BY <1>16 DEF PagesInv
  <2>3. QED  BY ONLY <2>1, <2>2, CronStep, CronStill
<1>17. ASSUME open = "plugins" PROVE Pl!PlInv'
  <2>1. UNCHANGED pageVars \/ Pl!PlStoreNext \/ Pl!PlWizardNext
    BY <1>17 DEF PagesNext, Part
  <2>2. Pl!PlInv
    BY <1>17 DEF PagesInv
  <2>3. QED  BY ONLY <2>1, <2>2, PluginsStep, PluginsStill
<1>18. ASSUME open = "node" PROVE Na!NaInv'
  <2>1. UNCHANGED pageVars \/ Na!NaNext
    BY <1>18 DEF PagesNext, Part
  <2>2. Na!NaInv
    BY <1>18 DEF PagesInv
  <2>3. QED  BY ONLY <2>1, <2>2, NodeStep, NodeStill
<1>19. ASSUME open = "monitoring" PROVE Mo!MoInv'
  <2>1. UNCHANGED pageVars \/ Mo!MoHealthNext \/ Mo!MoServerNext
    BY <1>19 DEF PagesNext, Part
  <2>2. Mo!MoInv
    BY <1>19 DEF PagesInv
  <2>3. QED  BY ONLY <2>1, <2>2, MonitoringStep, MonitoringStill
<1>20.  /\ open' = "stack" => Sk!SkInv'
        /\ open' = "advisor" => Ai!AiInv'
        /\ open' = "ssl" => Sl!SlInv'
        /\ open' = "dns" => Dn!DnInv'
        /\ open' = "deploy" => Dp!DpInv'
        /\ open' = "two-factor" => Tf!TfInv'
        /\ open' = "email" => Em!EmInv'
        /\ open' = "databases" => Db!DbInv'
        /\ open' = "mail settings" => Ml!MlInv'
  BY ONLY <1>1, <1>2, <1>3, <1>4, <1>5, <1>6, <1>7, <1>8, <1>9, <1>10
<1>21.  /\ open' = "php" => Ph!PhInv'
        /\ open' = "installer" => In!InInv'
        /\ open' = "backups" => Bk!BkInv'
        /\ open' = "quick settings" => Qs!QsInv'
        /\ open' = "domains" => Dm!DmInv'
        /\ open' = "cron" => Cn!CnInv'
        /\ open' = "plugins" => Pl!PlInv'
        /\ open' = "node" => Na!NaInv'
        /\ open' = "monitoring" => Mo!MoInv'
  BY ONLY <1>1, <1>11, <1>12, <1>13, <1>14, <1>15, <1>16, <1>17, <1>18, <1>19
<1>22. QED  BY ONLY <1>20, <1>21 DEF PagesInv

(* The rows of the server tell what is so.                                   *)
THEOREM RowsTellTheTruth == PagesSpec => []RowsAreTrue
<1>1. PagesInv => RowsAreTrue
  BY StackHolds, AdvisorHolds, SslHolds, DnsHolds, DeployHolds, MailHolds DEF PagesInv, RowsAreTrue
<1>2. QED  BY <1>1, PagesStart, PagesStep, PTL DEF PagesSpec

(* What is on show of passwords, secrets and codes works.                    *)
THEOREM SecretsOnShowWork == PagesSpec => []ShownSecretsWork
<1>1. PagesInv => ShownSecretsWork
  BY DatabasesHolds, EmailHolds, TwoFactorHolds DEF PagesInv, ShownSecretsWork
<1>2. QED  BY <1>1, PagesStart, PagesStep, PTL DEF PagesSpec

(* Work that must not overlap does not, on any page.                         *)
THEOREM WorkDoesNotOverlap == PagesSpec => []OneAtATime
<1>1. PagesInv => OneAtATime
  BY InstallerHolds, DatabasesHolds, BackupsHolds, QuickHolds, DomainsHolds, AdvisorHolds, SslHolds,
     StackHolds, PhpHolds DEF PagesInv, OneAtATime
<1>2. QED  BY <1>1, PagesStart, PagesStep, PTL DEF PagesSpec

(* What a form sends was read or typed for the thing it is sent to.          *)
THEOREM FormsSendTheirOwn == PagesSpec => []FormsKeepTheirOwn
<1>1. PagesInv => FormsKeepTheirOwn
  BY BackupsHolds, QuickHolds, DomainsHolds, EmailHolds, CronHolds, PluginsHolds, SslHolds,
     NodeHolds, DeployHolds, PhpHolds DEF PagesInv, FormsKeepTheirOwn
<1>2. QED  BY <1>1, PagesStart, PagesStep, PTL DEF PagesSpec

(* What a page shows is of the site, the session or the job picked.          *)
THEOREM PagesShowThePicked == PagesSpec => []ShownIsOfPicked
<1>1. PagesInv => ShownIsOfPicked
  BY InstallerHolds, BackupsHolds, DomainsHolds, CronHolds, AdvisorHolds, NodeHolds, MonitoringHolds
  DEF PagesInv, ShownIsOfPicked
<1>2. QED  BY <1>1, PagesStart, PagesStep, PTL DEF PagesSpec

(* What a page lists as fresh is what the server has.                        *)
THEOREM ListsTellTheTruth == PagesSpec => []ListsAreTrue
<1>1. PagesInv => /\ open = "databases" => Db!DbListTrue
                  /\ open = "backups" => Bk!NoGhostRow
                  /\ open = "quick settings" => Qs!SwitchIsTrue
                  /\ open = "domains" => Dm!DomainsListTrue
                  /\ open = "email" => Em!MailListTrue
                  /\ open = "cron" => Cn!CronListTrue
                  /\ open = "plugins" => Pl!PluginsListTrue
                  /\ open = "advisor" => Ai!ChatListTrue
  BY DatabasesHolds, BackupsHolds, QuickHolds, DomainsHolds, EmailHolds, CronHolds, PluginsHolds,
     AdvisorHolds DEF PagesInv
<1>2. PagesInv => /\ open = "ssl" => Sl!CertListTrue
                  /\ open = "node" => Na!AppConfigTrue
                  /\ open = "two-factor" => Tf!TwoFactorStatusTrue
                  /\ open = "dns" => Dn!DnsListTrue
                  /\ open = "deploy" => Dp!DeployConfigTrue
                  /\ open = "php" => Ph!IniShownTrue
                  /\ open = "monitoring" => Mo!ChartsEndAtGauges
                  /\ open = "mail settings" => Ml!MailSettingsTrue
  BY SslHolds, NodeHolds, TwoFactorHolds, DnsHolds, DeployHolds, PhpHolds, MonitoringHolds,
     MailHolds DEF PagesInv
<1>3. PagesInv => ListsAreTrue
  BY ONLY <1>1, <1>2 DEF ListsAreTrue
<1>4. QED  BY <1>3, PagesStart, PagesStep, PTL DEF PagesSpec
=============================================================================
