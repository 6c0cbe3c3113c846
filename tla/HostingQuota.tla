---------------------------- MODULE HostingQuota ----------------------------
(***************************************************************************)
(* A package limit of one account: the rows are counted when the request   *)
(* comes in, and the row is there only when the engine has answered.       *)
(***************************************************************************)
EXTENDS Integers, FiniteSets

CONSTANTS
    HqNames,     \* names of domains, databases, backups ...
    HqRequests,  \* requests to create one
    HqMax        \* the limit of the package

ASSUME HqAssumption == HqMax \in Nat /\ IsFiniteSet(HqNames) /\ IsFiniteSet(HqRequests)

VARIABLES
    hqRows,    \* names the account has
    hqPassed,  \* requests that passed the check and have no row yet
    hqFor,     \* request -> name
    hqPeak     \* history: most requests in that state at once, at least one

hqVars == <<hqRows, hqPassed, hqFor, hqPeak>>

HqInit ==
    /\ hqRows \in {S \in SUBSET HqNames : Cardinality(S) <= HqMax}
    /\ hqPassed = {}
    /\ hqFor \in [HqRequests -> HqNames]
    /\ hqPeak = 1

\* ensureCanCreateDomain and the others: refused when the count has reached it.
HqBelow == Cardinality(hqRows) < HqMax
HqNotAbove == Cardinality(hqRows) <= HqMax      \* mutant
HqMayCreate == HqBelow

HqCheck(r) ==
    /\ r \notin hqPassed
    /\ HqMayCreate
    /\ hqPassed' = hqPassed \cup {r}
    /\ hqPeak' = IF Cardinality(hqPassed') > hqPeak THEN Cardinality(hqPassed') ELSE hqPeak
    /\ UNCHANGED <<hqRows, hqFor>>

\* The transaction commits; a name the account has is made anew, not twice.
HqCommit(r) ==
    /\ r \in hqPassed
    /\ hqPassed' = hqPassed \ {r}
    /\ hqRows' = hqRows \cup {hqFor[r]}
    /\ UNCHANGED <<hqFor, hqPeak>>

\* The engine fails, or the name is someone else's: rolled back.
HqRollBack(r) ==
    /\ r \in hqPassed
    /\ hqPassed' = hqPassed \ {r}
    /\ UNCHANGED <<hqRows, hqFor, hqPeak>>

HqDelete(n) ==
    /\ n \in hqRows
    /\ hqRows' = hqRows \ {n}
    /\ UNCHANGED <<hqPassed, hqFor, hqPeak>>

HqNext ==
    \/ \E r \in HqRequests : HqCheck(r) \/ HqCommit(r) \/ HqRollBack(r)
    \/ \E n \in HqNames : HqDelete(n)

HqSpec == HqInit /\ [][HqNext]_hqVars

-----------------------------------------------------------------------------
\* The limit is passed by no more than the requests that were between check and
\* row at once, less one: never by requests one after the other.
OverrunBounded == Cardinality(hqRows) <= HqMax + hqPeak - 1

\* Why: from the moment the limit is reached nothing passes the check any more,
\* so the rows and the requests still to make one only shrink together.
QuotaInv ==
    /\ hqRows \subseteq HqNames
    /\ hqPassed \subseteq HqRequests
    /\ hqFor \in [HqRequests -> HqNames]
    /\ hqPeak \in Nat \ {0}
    /\ Cardinality(hqPassed) <= hqPeak
    /\ Cardinality(hqRows) >= HqMax =>
          Cardinality(hqRows) + Cardinality(hqPassed) <= HqMax + hqPeak - 1
=============================================================================
