----------------------------- MODULE FileEditor -----------------------------
(***************************************************************************)
(* The editor of the file manager page: its tabs, the one read that counts *)
(* (an opened file aborts the read before it), the writes in flight, and   *)
(* the file being created, which opens itself when the answer comes.       *)
(*                                                                         *)
(* While the editor shows a tab its overlay covers the page, so a file is  *)
(* opened by hand only when it is closed; a created file opens itself at   *)
(* any time.  One site is shown throughout.                                *)
(***************************************************************************)
EXTENDS Naturals, Sequences, FiniteSets, SequencesExt

CONSTANTS
    EdFiles,      \* files of the shown site that the editor can open
    EdAbsent,     \* what the disk holds for a file that does not exist
    EdMaxText,    \* texts the user can type into one file
    EdMaxReads    \* bound: files opened in one visit

ASSUME MaxTextAssumption == EdMaxText \in Nat \ {0}

VARIABLES
    edDisk,       \* file -> the text stored on the server, or Absent
    edTabs,       \* tabs of the editor, left to right
    edActiveTab,
    edEditorOpen,
    edReads,      \* reads whose answer has not been handled
    edOpenSeq,    \* openFileSeqRef: number of the last read asked for
    edCreating,   \* createFileM: at most one at a time (bound)
    edSaves,      \* saveOne calls in flight
    edSavingAll,  \* saveAllM
    edCalm        \* a calm session (see EdWaitsFor and EdAnswerLost)

edVars == <<edDisk, edTabs, edActiveTab, edEditorOpen, edReads, edOpenSeq, edCreating,
            edSaves, edSavingAll, edCalm>>

\* A text remembers the file it was typed for or read from; v = 0 is empty.
EdText == [of : EdFiles, v : 0..EdMaxText]
EdEmptyText(f) == [of |-> f, v |-> 0]

EdEditorTab == [path : EdFiles, content : EdText, original : EdText, loading : BOOLEAN]

EdModified(tab) == ~tab.loading /\ tab.content # tab.original

EdNotCreating == [phase |-> "no"]
EdNotSavingAll == [phase |-> "no"]

\* The first tab of file f, or 0; and the tabs whose indices are in K.
EdFirstTab(ts, f) == SelectInSeq(ts, LAMBDA tab : tab.path = f)
EdNth(K, k) == CHOOSE i \in K : Cardinality({j \in K : j < i}) = k - 1
EdOnly(ts, K) == [k \in 1..Cardinality(K) |-> ts[EdNth(K, k)]]

EdSaving == edSaves # {} \/ edSavingAll # EdNotSavingAll

\* In a calm session the user types, saves and closes only when no write is in
\* flight and opens nothing by hand while a file is being created, and no write
\* is carried out without its answer arriving.
EdWaitsFor(busy) == edCalm => ~busy
EdAnswerLost == ~edCalm

EdInit ==
    /\ edDisk \in [EdFiles -> {EdAbsent} \cup EdText]
    /\ \A f \in EdFiles : edDisk[f] \in {EdAbsent, [of |-> f, v |-> 1]}
    /\ edTabs = <<>>
    /\ edActiveTab = 1
    /\ edEditorOpen = FALSE
    /\ edReads = {}
    /\ edOpenSeq = 0
    /\ edCreating = EdNotCreating
    /\ edSaves = {}
    /\ edSavingAll = EdNotSavingAll
    /\ edCalm \in BOOLEAN

-----------------------------------------------------------------------------
(* Opening.  The callback reads the tabs of the render it was made in       *)
(* ("seen") and appends to the tabs there are now.                          *)

EdAskToRead(f) ==
    /\ edOpenSeq' = edOpenSeq + 1
    /\ edReads' = edReads \cup {[seq |-> edOpenSeq + 1, file |-> f]}

EdOpenFile(f, seen) ==
    LET i == EdFirstTab(seen, f) IN
    /\ edOpenSeq < EdMaxReads
    /\ edEditorOpen' = TRUE
    /\ \/ /\ i = 0
          /\ edTabs' = Append(edTabs, [path |-> f, content |-> EdEmptyText(f),
                                   original |-> EdEmptyText(f), loading |-> TRUE])
          /\ edActiveTab' = Len(seen) + 1
          /\ EdAskToRead(f)
       \/ /\ i # 0
          /\ edActiveTab' = i
          /\ \/ /\ ~seen[i].loading /\ seen[i].content.v > 0
                /\ UNCHANGED <<edTabs, edReads, edOpenSeq>>
             \/ /\ seen[i].loading \/ seen[i].content.v = 0
                /\ edTabs' = [j \in DOMAIN edTabs |->
                              IF j = i THEN [edTabs[j] EXCEPT !.loading = TRUE]
                                       ELSE edTabs[j]]
                /\ EdAskToRead(f)

\* A row, a search hit or a shortcut: reachable only when no overlay is shown.
EdOpenByHand(f) ==
    /\ ~(edEditorOpen /\ edTabs # <<>>)
    /\ EdWaitsFor(edCreating # EdNotCreating)
    /\ EdOpenFile(f, edTabs)
    /\ UNCHANGED <<edDisk, edCreating, edSaves, edSavingAll, edCalm>>

\* The answer fills the first tab of its file and clears its loading mark; the
\* answer of a read that a later one replaced is dropped.
EdReadAnswer(r) ==
    LET i == EdFirstTab(edTabs, r.file) IN
    /\ r \in edReads
    /\ edDisk[r.file] # EdAbsent
    /\ r.seq = edOpenSeq
    /\ edReads' = edReads \ {r}
    /\ edTabs' = IF i = 0 THEN edTabs
               ELSE [edTabs EXCEPT ![i] = [path |-> r.file, loading |-> FALSE,
                                         content |-> edDisk[r.file],
                                         original |-> edDisk[r.file]]]
    /\ UNCHANGED <<edDisk, edActiveTab, edEditorOpen, edOpenSeq, edCreating, edSaves,
                   edSavingAll, edCalm>>

EdReadSuperseded(r) ==
    /\ r \in edReads
    /\ r.seq # edOpenSeq
    /\ edReads' = edReads \ {r}
    /\ UNCHANGED <<edDisk, edTabs, edActiveTab, edEditorOpen, edOpenSeq, edCreating, edSaves,
                   edSavingAll, edCalm>>

EdErrorLeavesTabs(r) == edTabs              \* mutant: the tab waits on
EdTabsAfterError(r) ==
    EdOnly(edTabs, {i \in DOMAIN edTabs : ~(edTabs[i].path = r.file /\ edTabs[i].loading)})

\* A read that fails (no such file, too big, unreachable) drops its tab.
EdReadError(r) ==
    /\ r \in edReads
    /\ r.seq = edOpenSeq
    /\ edReads' = edReads \ {r}
    /\ edTabs' = EdTabsAfterError(r)
    /\ edEditorOpen' = (edEditorOpen /\ edTabs' # <<>>)
    /\ UNCHANGED <<edDisk, edActiveTab, edOpenSeq, edCreating, edSaves, edSavingAll, edCalm>>

-----------------------------------------------------------------------------
(* Creating a file: the POST, then the listing is fetched again, then the    *)
(* file is opened with the tabs as they were when the POST was answered.     *)

EdCreateFile(f) ==
    /\ ~(edEditorOpen /\ edTabs # <<>>)
    /\ edCreating = EdNotCreating
    /\ edCreating' = [phase |-> "post", file |-> f]
    /\ UNCHANGED <<edDisk, edTabs, edActiveTab, edEditorOpen, edReads, edOpenSeq, edSaves,
                   edSavingAll, edCalm>>

EdCreated ==
    /\ edCreating.phase = "post"
    /\ \/ /\ edDisk[edCreating.file] = EdAbsent
          /\ edDisk' = [edDisk EXCEPT ![edCreating.file] = EdEmptyText(edCreating.file)]
          /\ edCreating' = [phase |-> "list", file |-> edCreating.file, seen |-> edTabs]
       \/ /\ edCreating' = EdNotCreating          \* it exists already, or an error
          /\ UNCHANGED edDisk
    /\ UNCHANGED <<edTabs, edActiveTab, edEditorOpen, edReads, edOpenSeq, edSaves,
                   edSavingAll, edCalm>>

EdOpenCreated ==
    /\ edCreating.phase = "list"
    /\ EdOpenFile(edCreating.file, edCreating.seen)
    /\ edCreating' = EdNotCreating
    /\ UNCHANGED <<edDisk, edSaves, edSavingAll, edCalm>>

-----------------------------------------------------------------------------
(* Typing, saving, closing.                                                  *)

EdShown(i) == edEditorOpen /\ i \in DOMAIN edTabs /\ ~edTabs[i].loading

EdSelectTab(i) ==
    /\ edEditorOpen
    /\ i \in DOMAIN edTabs
    /\ edActiveTab' = i
    /\ UNCHANGED <<edDisk, edTabs, edEditorOpen, edReads, edOpenSeq, edCreating, edSaves,
                   edSavingAll, edCalm>>

EdType(v) ==
    /\ EdShown(edActiveTab)
    /\ EdWaitsFor(EdSaving)
    /\ edTabs' = [edTabs EXCEPT ![edActiveTab].content =
                              [of |-> edTabs[edActiveTab].path, v |-> v]]
    /\ UNCHANGED <<edDisk, edActiveTab, edEditorOpen, edReads, edOpenSeq, edCreating, edSaves,
                   edSavingAll, edCalm>>

\* What saveOne does to the tab at its index when the answer comes.
EdMarkedSaved(i) ==
    IF i \in DOMAIN edTabs THEN [edTabs EXCEPT ![i].original = edTabs[i].content]
                         ELSE edTabs

EdTabsWhileSaving(i) == edTabs
EdTabsMarkedAtOnce(i) == EdMarkedSaved(i)   \* mutant: marked before the answer
EdTabsOnSave(i) == EdTabsWhileSaving(i)

EdSaveOne ==
    /\ EdShown(edActiveTab)
    /\ EdModified(edTabs[edActiveTab])
    /\ EdWaitsFor(EdSaving)
    /\ edSaves' = edSaves \cup {[idx |-> edActiveTab, path |-> edTabs[edActiveTab].path,
                             content |-> edTabs[edActiveTab].content]}
    /\ edTabs' = EdTabsOnSave(edActiveTab)
    /\ UNCHANGED <<edDisk, edActiveTab, edEditorOpen, edReads, edOpenSeq, edCreating,
                   edSavingAll, edCalm>>

EdSaveAnswer(s) ==
    /\ s \in edSaves
    /\ edSaves' = edSaves \ {s}
    /\ \/ /\ edDisk' = [edDisk EXCEPT ![s.path] = s.content]
          /\ \/ edTabs' = EdMarkedSaved(s.idx)
             \/ EdAnswerLost /\ UNCHANGED edTabs
       \/ UNCHANGED <<edDisk, edTabs>>                  \* refused
    /\ UNCHANGED <<edActiveTab, edEditorOpen, edReads, edOpenSeq, edCreating, edSavingAll,
                   edCalm>>

\* What saveAllM sends for the k-th tab it found modified.
EdByIndex(k) == IF edSavingAll.idx[k] \in DOMAIN edTabs     \* mutant: read again late
              THEN edTabs[edSavingAll.idx[k]].content
              ELSE edSavingAll.todo[k].content
EdCaptured(k) == edSavingAll.todo[k].content

EdSaveAll ==
    /\ EdShown(edActiveTab)
    /\ EdWaitsFor(EdSaving)
    /\ edSavingAll = EdNotSavingAll
    /\ \E i \in DOMAIN edTabs : EdModified(edTabs[i])
    /\ LET changed == {i \in DOMAIN edTabs : EdModified(edTabs[i])}
       IN  edSavingAll' = [phase |-> "write", next |-> 1, todo |-> EdOnly(edTabs, changed),
                           idx |-> [k \in 1..Cardinality(changed) |-> EdNth(changed, k)]]
    /\ UNCHANGED <<edDisk, edTabs, edActiveTab, edEditorOpen, edReads, edOpenSeq, edCreating,
                   edSaves, edCalm>>

\* One write after the other; the first that fails ends the loop.
EdSaveAllWrite ==
    /\ edSavingAll.phase = "write"
    /\ edSavingAll.next <= Len(edSavingAll.todo)
    /\ \E landed, answered \in BOOLEAN :
        /\ answered => landed
        /\ landed => answered \/ EdAnswerLost
        /\ edDisk' = IF landed
                   THEN [edDisk EXCEPT ![edSavingAll.todo[edSavingAll.next].path] =
                                        EdCaptured(edSavingAll.next)]
                   ELSE edDisk
        /\ edSavingAll' = IF answered THEN [edSavingAll EXCEPT !.next = @ + 1]
                                    ELSE EdNotSavingAll
    /\ UNCHANGED <<edTabs, edActiveTab, edEditorOpen, edReads, edOpenSeq, edCreating, edSaves,
                   edCalm>>

EdSaveAllDone ==
    /\ edSavingAll.phase = "write"
    /\ edSavingAll.next > Len(edSavingAll.todo)
    /\ edTabs' = [i \in DOMAIN edTabs |-> [edTabs[i] EXCEPT !.original = edTabs[i].content]]
    /\ edSavingAll' = EdNotSavingAll
    /\ UNCHANGED <<edDisk, edActiveTab, edEditorOpen, edReads, edOpenSeq, edCreating, edSaves,
                   edCalm>>

\* The prompt about unsaved changes is shown when a tab is marked; either way
\* the tabs are gone and the read in flight is aborted.
EdCloseEditor ==
    /\ edEditorOpen
    /\ edTabs # <<>>
    /\ EdWaitsFor(EdSaving)
    /\ edEditorOpen' = FALSE
    /\ edTabs' = <<>>
    /\ edReads' = {r \in edReads : r.seq # edOpenSeq}
    /\ UNCHANGED <<edDisk, edActiveTab, edOpenSeq, edCreating, edSaves, edSavingAll, edCalm>>

EdNext ==
    \/ \E f \in EdFiles : EdOpenByHand(f) \/ EdCreateFile(f)
    \/ \E r \in edReads : EdReadAnswer(r) \/ EdReadSuperseded(r) \/ EdReadError(r)
    \/ EdCreated \/ EdOpenCreated
    \/ \E i \in DOMAIN edTabs : EdSelectTab(i)
    \/ \E v \in 1..EdMaxText : EdType(v)
    \/ EdSaveOne \/ EdSaveAll \/ EdSaveAllWrite \/ EdSaveAllDone
    \/ \E s \in edSaves : EdSaveAnswer(s)
    \/ EdCloseEditor

EdSpec == EdInit /\ [][EdNext]_edVars

-----------------------------------------------------------------------------
\* No text ever reaches the tab or the disk of another file, whatever is saved,
\* closed and opened again while reads and writes are in flight: every write
\* carries the path and the text of one tab (writes of saveOne and saveAllM).
OwnText ==
    /\ \A f \in EdFiles : edDisk[f] # EdAbsent => edDisk[f].of = f
    /\ \A i \in DOMAIN edTabs : edTabs[i].content.of = edTabs[i].path

\* A tab without the mark of a change holds what the server has: the mark
\* decides whether closing the editor asks first.
UnsavedIsMarked ==
    \A i \in DOMAIN edTabs :
        ~edTabs[i].loading /\ ~EdModified(edTabs[i]) => edDisk[edTabs[i].path] = edTabs[i].content

\* It does in a calm session, though saves may be refused.  A calm session has
\* one tab: a second one comes only by a file that was being created.
CalmUnsavedIsMarked == edCalm => UnsavedIsMarked

\* In a calm session a tab that shows "loading" is waiting for an answer that
\* will be used (edOpenSeq has not moved on).
CalmTabsLoad ==
    edCalm => \A i \in DOMAIN edTabs :
        edTabs[i].loading => \E r \in edReads : r.seq = edOpenSeq /\ r.file = edTabs[i].path

\* In a calm session the tabs tell what is so: which are unsaved, which will load.
CalmTabs == CalmUnsavedIsMarked /\ CalmTabsLoad
=============================================================================
