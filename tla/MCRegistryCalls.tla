-------------------------- MODULE MCRegistryCalls --------------------------
(***************************************************************************)
(* Calls of the registry at a finer grain, in one instance for TLC: the    *)
(* steps of the search that runs under the lock, and what callers do when  *)
(* the lock has been released.  They share no state: a behaviour moves the *)
(* one that is its subject.                                                *)
(***************************************************************************)
EXTENDS CycleSearch, SharedRecords

VARIABLE subject   \* what the behaviour moves

AtMostOne == {ds \in SUBSET Id : Cardinality(ds) <= 1}

\* The graph is any, when the search is the subject.
CallsInit ==
    /\ subject \in {"search", "records"}
    /\ Init /\ CallersInit
    /\ subject = "records" => g = EmptyGraph

SearchNext == subject = "search" /\ Next /\ UNCHANGED <<subject, sharedVars>>

RecordsNext == subject = "records" /\ CallersNext /\ UNCHANGED <<subject, searchVars>>

\* A search that has begun goes on, as in FairSpec.
CallsSpec == /\ CallsInit
             /\ [][SearchNext \/ RecordsNext]_<<subject, sharedVars, searchVars>>
             /\ WF_searchVars(SearchNext)

\* The search ends (dfs_cycle, registry.cpp:73-114).
SearchTerminates == subject = "search" => Terminates
=============================================================================
