---------------------------- MODULE FileListing ----------------------------
(***************************************************************************)
(* The listing of the file manager page: the folder and page of it shown,  *)
(* the query cache behind it, the rows ticked, search hits, the recycle    *)
(* bin, and the operations that change files and then refresh the listing. *)
(*                                                                         *)
(* A cached listing is fresh for 15 s, the bin's for 5 min; a refresh names *)
(* the folder shown when the answer of an operation comes.                 *)
(***************************************************************************)
EXTENDS Integers, FiniteSets

CONSTANTS
    FlTargets,    \* hosting targets: domains and their subdomains
    FlDomainOf,   \* Targets -> the domain of each
    FlFolders,    \* folders of a target
    FlRows,       \* names, in the order they are listed
    FlPageSize,
    FlNoRows,     \* nothing is cached, nothing is searched
    FlMaxChanges, \* bound: operations in one visit of a patient user
    FlMaxHasty    \* bound: the same of a user who does not wait

ASSUME RowsAssumption == FlRows \subseteq Nat /\ FlPageSize \in Nat \ {0}

FlPlaces == [target : FlTargets, folder : FlFolders]
FlOffsets == {0, FlPageSize}

VARIABLES
    flHeld,       \* place -> names on the server
    flBin,        \* target -> recycle bin: <<folder, name>>
    flShown,      \* place shown: domainId, subdomainId and path
    flOffset,
    flListing,    \* query cache: <<place, offset>> -> [rows, total, fresh] or FlNoRows
    flAsking,     \* the shown query is being fetched
    flTicked,     \* selectedIds, each with the place it was ticked at (history)
    flChange,     \* the operation in flight, or [kind |-> "none"]
    flChanges,
    flHits,       \* search hits: target they are of, or FlNoRows
    flSearching,  \* target of the search in flight, or FlNoRows
    flBinOpen,
    flBinList,    \* target -> cached list of the bin, or FlNoRows
    flBinAsked,   \* targets whose bin is being listed, open or not
    flBehind,     \* history: places changed by an operation shown elsewhere
    flPatient     \* a user who starts nothing while an answer is awaited

flVars == <<flHeld, flBin, flShown, flOffset, flListing, flAsking, flTicked, flChange, flChanges,
            flHits, flSearching, flBinOpen, flBinList, flBinAsked, flBehind, flPatient>>
flServer == <<flHeld, flBin>>
flView == <<flShown, flOffset, flListing, flAsking, flTicked, flBehind>>
flOps == <<flChange, flChanges>>
flSearch == <<flHits, flSearching>>
flBinVars == <<flBinOpen, flBinList, flBinAsked>>

FlNoChange == [kind |-> "none"]

\* Rows of one page of a folder, as the engine lists it.
FlPageOf(names, off) ==
    {n \in names : Cardinality({m \in names : m < n}) \in off..(off + FlPageSize - 1)}

FlCurrent == flListing[<<flShown, flOffset>>]
FlEntries == IF FlCurrent = FlNoRows THEN {} ELSE FlCurrent.rows
FlTotal == IF FlCurrent = FlNoRows THEN 0 ELSE FlCurrent.total

FlWaiting == flChange # FlNoChange \/ flAsking \/ flSearching # FlNoRows \/ flBinAsked # {}
FlUserActs == flPatient => ~FlWaiting
FlBudget == IF flPatient THEN FlMaxChanges ELSE FlMaxHasty

\* The effect that keeps the offset inside the folder runs before the user can
\* act again.
FlOffsetSettled == IF FlTotal = 0 THEN flOffset = 0 ELSE flOffset < FlTotal

FlInit ==
    /\ flHeld \in {[p \in FlPlaces |-> names] : names \in {{1}, FlRows}}
    /\ flBin = [t \in FlTargets |-> {}]
    /\ flShown \in FlPlaces
    /\ flOffset = 0
    /\ flListing = [k \in FlPlaces \X FlOffsets |-> FlNoRows]
    /\ flAsking = TRUE
    /\ flTicked = {}
    /\ flChange = FlNoChange
    /\ flChanges = 0
    /\ flHits = FlNoRows
    /\ flSearching = FlNoRows
    /\ flBinOpen = FALSE
    /\ flBinList = [t \in FlTargets |-> FlNoRows]
    /\ flBinAsked = {}
    /\ flBehind = {}
    /\ flPatient \in BOOLEAN

-----------------------------------------------------------------------------
(* The listing.                                                              *)

\* Showing a key: served from the cache, fetched unless fresh.  A fetch whose
\* key is no longer shown is aborted.
\* Of the other keys the cache keeps the one shown before (bound; an unused one
\* is dropped after 120 s).
FlDisplay(place, off) ==
    /\ flShown' = place
    /\ flOffset' = off
    /\ flListing' = [k \in DOMAIN flListing |->
                     IF k \in {<<place, off>>, <<flShown, flOffset>>} THEN flListing[k]
                     ELSE FlNoRows]
    /\ LET found == flListing[<<place, off>>]
       IN flAsking' = IF <<place, off>> = <<flShown, flOffset>> THEN flAsking
                    ELSE IF found = FlNoRows THEN TRUE ELSE ~found.fresh

\* The reset effect: keyed on path, sort, page size and domain, not subdomain.
FlResetKeys(place) == <<FlDomainOf[place.target], place.folder>>
FlPathOnly(place) == place.folder                 \* mutant: domain forgotten
FlResetOn(place) == FlResetKeys(place)

FlReset(place) ==
    flTicked' = IF FlResetOn(place) = FlResetOn(flShown) THEN flTicked ELSE {}

\* Rows, "..", breadcrumbs, the tree, shortcuts.
FlGoToFolder(f) ==
    /\ FlUserActs /\ FlOffsetSettled /\ ~flBinOpen
    /\ f # flShown.folder
    /\ LET place == [flShown EXCEPT !.folder = f]
       IN FlDisplay(place, 0) /\ FlReset(place)
    /\ UNCHANGED <<flServer, flOps, flSearch, flBinVars, flBehind, flPatient>>

FlKeepHits == flHits                                \* mutant: not cleared
FlClearHits == FlNoRows
FlHitsAfterSwitch == FlClearHits

\* onTargetSelectChange: the root folder of another target.
FlSwitchTarget(t) ==
    /\ FlUserActs /\ FlOffsetSettled /\ ~flBinOpen
    /\ t # flShown.target
    /\ \E root \in FlFolders :
         LET place == [target |-> t, folder |-> root]
         IN /\ FlDisplay(place, IF FlResetOn(place) = FlResetOn(flShown) THEN flOffset ELSE 0)
            /\ FlReset(place)
    /\ flHits' = FlHitsAfterSwitch
    /\ UNCHANGED <<flServer, flOps, flSearching, flBinVars, flBehind, flPatient>>

\* Previous, next and the page number: not while a fetch is under way.
FlTurnPage(off) ==
    /\ FlUserActs /\ FlOffsetSettled /\ ~flBinOpen
    /\ ~flAsking
    /\ off < FlTotal
    /\ off # flOffset
    /\ FlDisplay(flShown, off)
    /\ UNCHANGED <<flServer, flTicked, flOps, flSearch, flBinVars, flBehind, flPatient>>

\* The effect on total: nothing is known of a page while it loads.
FlClampOffset ==
    /\ ~FlOffsetSettled
    /\ FlDisplay(flShown, 0)
    /\ UNCHANGED <<flServer, flTicked, flOps, flSearch, flBinVars, flBehind, flPatient>>

FlListed ==
    /\ flAsking
    /\ FlOffsetSettled
    /\ flListing' = [flListing EXCEPT ![<<flShown, flOffset>>] =
                     [rows |-> FlPageOf(flHeld[flShown], flOffset),
                      total |-> Cardinality(flHeld[flShown]), fresh |-> TRUE]]
    /\ flAsking' = FALSE
    /\ flBehind' = flBehind \ {flShown}
    /\ UNCHANGED <<flServer, flShown, flOffset, flTicked, flOps, flSearch, flBinVars, flPatient>>

\* 15 s pass since a listing no longer shown was fetched.
FlGrowStale(k) ==
    /\ k # <<flShown, flOffset>>
    /\ flListing[k] # FlNoRows
    /\ flListing[k].fresh
    /\ flListing' = [flListing EXCEPT ![k].fresh = FALSE]
    /\ UNCHANGED <<flServer, flShown, flOffset, flAsking, flTicked, flOps, flSearch, flBinVars,
                   flBehind, flPatient>>

\* The refresh buttons.
FlRefetch ==
    /\ FlUserActs /\ FlOffsetSettled /\ ~flBinOpen
    /\ ~flAsking
    /\ flAsking' = TRUE
    /\ UNCHANGED <<flServer, flShown, flOffset, flListing, flTicked, flOps, flSearch, flBinVars,
                   flBehind, flPatient>>

\* A checkbox of a row, not while a bulk archive's folder is being chosen.
FlTick(n) ==
    /\ FlUserActs /\ FlOffsetSettled /\ ~flBinOpen
    /\ n \in FlEntries
    /\ flTicked' = IF n \in {x.row : x \in flTicked} THEN {x \in flTicked : x.row # n}
                 ELSE flTicked \cup {[row |-> n, at |-> flShown]}
    /\ UNCHANGED <<flServer, flShown, flOffset, flListing, flAsking, flOps, flSearch, flBinVars,
                   flBehind, flPatient>>

-----------------------------------------------------------------------------
(* Operations: a request for the place shown, then the answer.               *)

FlStart(op) ==
    /\ FlUserActs /\ FlOffsetSettled /\ ~flBinOpen
    /\ flChange = FlNoChange            \* bound: one at a time
    /\ flChanges < FlBudget
    /\ flChange' = op
    /\ flChanges' = flChanges + 1
    /\ UNCHANGED <<flServer, flView, flSearch, flBinVars, flPatient>>

\* mkdirM, createFileM, copyM, zipM, unzipM: a name appears in this folder.
FlAddRow(n) ==
    n \notin FlEntries /\ FlStart([kind |-> "add", done |-> FALSE, at |-> flShown, rows |-> {n}, to |-> flShown])

\* renameM: the dialog computes the new name in the folder of the old one.
FlRenameRow(n, m) ==
    /\ n \in FlEntries
    /\ m \notin FlEntries
    /\ FlStart([kind |-> "rename", done |-> FALSE, at |-> flShown, rows |-> {n}, new |-> m, to |-> flShown])

\* moveM, and zipBulkM to a folder chosen by going there.
FlMoveRow(n, f) ==
    /\ n \in FlEntries
    /\ FlStart([kind |-> "move", done |-> FALSE, at |-> flShown, rows |-> {n},
              to |-> [flShown EXCEPT !.folder = f]])

FlTrashRow(n) ==
    n \in FlEntries /\ FlStart([kind |-> "trash", done |-> FALSE, at |-> flShown, rows |-> {n}, to |-> flShown])

\* confirmBulkTrashSelection: the rows shown whose key is ticked.
FlBulkTrash ==
    /\ FlEntries \cap {x.row : x \in flTicked} # {}
    /\ FlStart([kind |-> "bulkTrash", done |-> FALSE, at |-> flShown, to |-> flShown,
              rows |-> FlEntries \cap {x.row : x \in flTicked}])

\* What the engine does with the request of operation op.
FlEffect(op) ==
    LET here == flHeld[op.at]
        gone == op.rows \cap here
    IN CASE op.kind = "add" ->
              flHeld' = [flHeld EXCEPT ![op.at] = @ \cup op.rows] /\ UNCHANGED flBin
         [] op.kind = "rename" ->
              /\ flHeld' = [flHeld EXCEPT ![op.at] = IF gone = {} THEN @
                                                 ELSE (@ \ gone) \cup {op.new}]
              /\ UNCHANGED flBin
         [] op.kind = "move" ->
              /\ flHeld' = [flHeld EXCEPT ![op.at] = @ \ gone,
                                      ![op.to] = @ \cup gone]
              /\ UNCHANGED flBin
         [] op.kind \in {"trash", "bulkTrash"} ->
              /\ flHeld' = [flHeld EXCEPT ![op.at] = @ \ gone]
              /\ flBin' = [flBin EXCEPT ![op.at.target] = @ \cup ({op.at.folder} \X gone)]

\* invalidateQueries(['files', domain, subdomain, path]) of the place shown.
FlRefresh ==
    /\ flListing' = [k \in DOMAIN flListing |->
                     IF k[1] = flShown /\ flListing[k] # FlNoRows
                     THEN [flListing[k] EXCEPT !.fresh = FALSE] ELSE flListing[k]]
    /\ flAsking' = TRUE

FlNoRefresh == UNCHANGED <<flListing, flAsking>>      \* mutant: not invalidated
FlAfterChange == FlRefresh

FlCarry ==
    /\ flChange # FlNoChange
    /\ ~flChange.done
    /\ FlEffect(flChange)
    /\ flChange' = [flChange EXCEPT !.done = TRUE]
    /\ flBehind' = flBehind \cup ({flChange.to} \ {flChange.at})
    /\ UNCHANGED <<flShown, flOffset, flListing, flAsking, flTicked, flChanges, flSearch, flBinVars,
                   flPatient>>

FlAnswer ==
    /\ flChange # FlNoChange
    /\ flChange.done
    /\ flOffset' = 0
    /\ flTicked' = IF flChange.kind = "bulkTrash" THEN {} ELSE flTicked
    /\ FlAfterChange
    /\ flChange' = FlNoChange
    /\ UNCHANGED <<flServer, flShown, flChanges, flSearch, flBinVars, flBehind, flPatient>>

FlRefused ==
    /\ flChange # FlNoChange
    /\ ~flChange.done
    /\ flChange' = FlNoChange
    /\ UNCHANGED <<flServer, flView, flChanges, flSearch, flBinVars, flPatient>>

-----------------------------------------------------------------------------
(* Search and the recycle bin.                                               *)

FlSearch ==
    /\ FlUserActs /\ FlOffsetSettled /\ ~flBinOpen
    /\ flSearching = FlNoRows
    /\ flChanges < FlBudget
    /\ flChanges' = flChanges + 1
    /\ flSearching' = flShown.target
    /\ UNCHANGED <<flServer, flView, flChange, flHits, flBinVars, flPatient>>

FlFound ==
    /\ flSearching # FlNoRows
    /\ flHits' \in {flHits, flSearching}            \* failed, or answered
    /\ flSearching' = FlNoRows
    /\ UNCHANGED <<flServer, flView, flOps, flBinVars, flPatient>>

FlOpenBin ==
    /\ FlUserActs /\ FlOffsetSettled /\ ~flBinOpen
    /\ flBinOpen' = TRUE
    /\ flBinAsked' = flBinAsked \cup
                     IF flBinList[flShown.target] = FlNoRows THEN {flShown.target} ELSE {}
    /\ UNCHANGED <<flServer, flView, flOps, flSearch, flBinList, flPatient>>

FlCloseBin ==
    /\ FlUserActs
    /\ flBinOpen
    /\ flBinOpen' = FALSE
    /\ UNCHANGED <<flServer, flView, flOps, flSearch, flBinList, flBinAsked, flPatient>>

FlBinListed(t) ==
    /\ t \in flBinAsked
    /\ flBinAsked' = flBinAsked \ {t}
    /\ flBinList' = [flBinList EXCEPT ![t] = flBin[t]]
    /\ UNCHANGED <<flServer, flView, flOps, flSearch, flBinOpen, flPatient>>

FlAskAgain == flBinAsked \cup {flShown.target}
FlBinListKept == flBinAsked                         \* mutant: not invalidated
FlBinInvalidated == FlAskAgain

\* The three operations of the bin are carried out and answered in one step.
FlBinStep(items) ==
    /\ FlUserActs
    /\ flBinOpen
    /\ flBinList[flShown.target] # FlNoRows
    /\ flChanges < FlBudget
    /\ flChanges' = flChanges + 1
    /\ flBin' = [flBin EXCEPT ![flShown.target] = @ \ items]
    /\ flBinAsked' = FlBinInvalidated
    /\ UNCHANGED <<flShown, flOffset, flTicked, flChange, flSearch, flBinOpen, flBinList,
                   flPatient>>

\* trashRestoreM: back to the folder it came from.
FlRestore(item) ==
    /\ FlBinStep({item})
    /\ item \in flBinList[flShown.target]
    /\ LET home == [flShown EXCEPT !.folder = item[1]]
       IN /\ flHeld' = [flHeld EXCEPT ![home] = @ \cup {item[2]}]
          /\ flBehind' = flBehind \cup ({home} \ {flShown})
    /\ FlRefresh

\* trashDeleteM and trashEmptyM, each after a confirmation.
FlDeleteForGood(items) ==
    /\ FlBinStep(items)
    /\ UNCHANGED <<flHeld, flListing, flAsking, flBehind>>

FlDeleteItem(item) ==
    FlDeleteForGood({item}) /\ item \in flBinList[flShown.target]
FlEmptyBin == FlDeleteForGood(flBin[flShown.target])

FlNext ==
    \/ \E f \in FlFolders : FlGoToFolder(f)
    \/ \E t \in FlTargets : FlSwitchTarget(t)
    \/ \E off \in FlOffsets : FlTurnPage(off)
    \/ FlClampOffset \/ FlListed \/ FlRefetch
    \/ \E k \in FlPlaces \X FlOffsets : FlGrowStale(k)
    \/ \E n \in FlRows : FlTick(n) \/ FlAddRow(n) \/ FlTrashRow(n)
    \/ \E n, m \in FlRows : FlRenameRow(n, m)
    \/ \E n \in FlRows, f \in FlFolders : FlMoveRow(n, f)
    \/ FlBulkTrash \/ FlCarry \/ FlAnswer \/ FlRefused
    \/ FlSearch \/ FlFound
    \/ FlOpenBin \/ FlCloseBin \/ FlEmptyBin
    \/ \E t \in flBinAsked : FlBinListed(t)
    \/ \E item \in flBin[flShown.target] : FlRestore(item) \/ FlDeleteItem(item)

FlSpec == FlInit /\ [][FlNext]_flVars

-----------------------------------------------------------------------------
\* A user who waits for answers is never shown, as fresh, a folder that differs
\* from the server's, except one that an operation changed while another folder
\* was shown (moves, restores): the refresh names the folder shown.
FreshIsTrue ==
    /\ flPatient /\ flChange = FlNoChange /\ flShown \notin flBehind
    /\ FlCurrent # FlNoRows /\ ~flAsking
    => (FlCurrent.fresh => FlCurrent.rows = FlPageOf(flHeld[flShown], flOffset))

\* Rows ticked in one domain or folder are never ticked in another: a bulk
\* delete takes what was ticked where it is shown.  (A domain and its subdomain
\* share their ticks.)
TicksStay ==
    \A x \in flTicked : /\ FlDomainOf[x.at.target] = FlDomainOf[flShown.target]
                      /\ x.at.folder = flShown.folder

\* Search hits shown to a user who waits are of the target shown.
HitsOfTarget == flPatient /\ flHits # FlNoRows => flHits = flShown.target

\* The bin shown lists only what is in it, once its answers are in.
BinListsItsItems ==
    flBinOpen /\ flShown.target \notin flBinAsked /\ flBinList[flShown.target] # FlNoRows
        => flBinList[flShown.target] \subseteq flBin[flShown.target]

\* What the file manager lists and lets one act on is what is there: of the folder,
\* of the search, of the bin, and of the ticks of a bulk operation.
ListingTrue == FreshIsTrue /\ TicksStay /\ HitsOfTarget /\ BinListsItsItems
=============================================================================
