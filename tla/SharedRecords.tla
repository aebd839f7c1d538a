--------------------------- MODULE SharedRecords ---------------------------
(***************************************************************************)
(* Callers on several threads.  find_profile returns a pointer to a record *)
(* of the registry (src/compat/registry.cpp:204-218), and its fields are   *)
(* read when the lock has been released, while other threads register,     *)
(* supersede, invalidate and propagate.                                    *)
(*                                                                         *)
(* Calls of the profile lifecycle are those of Profiles.tla: they hold the *)
(* lock, and of a record that is in a history they write flags only, one   *)
(* word each.  A pointer is <<id, n>>, the n-th record of the deque: no    *)
(* record is ever taken out, and neither the deque nor the map moves what  *)
(* it holds.                                                               *)
(***************************************************************************)
EXTENDS DependencyGraph, Integers, Sequences, FiniteSets

CONSTANTS Kind, Payload, DependencySets, MaxRegistryGen,   \* of Profiles.tla
          Reader      \* threads that hold what they have found

VARIABLES profiles, deps, reverse, invalidations, registryGen,   \* of Profiles.tla
          calls       \* what each reader has found, evaluated and found again

P == INSTANCE Profiles

store == <<profiles, deps, reverse, invalidations, registryGen>>

sharedVars == <<store, calls>>

-----------------------------------------------------------------------------
(* A reader finds a profile, has the pair it belongs to evaluated, and     *)
(* finds the profile again.  Steps it has not taken are {}.                *)

Idle == [pointer |-> {}, found |-> {}, used |-> {}, again |-> {}]

\* What a decision, or a caller with a pointer, can tell of a record.
Version(rec) == [generation |-> rec.generation, content |-> rec.content]

Resolved(id) == {Version(rec) : rec \in P!NewestActive(profiles[id])}

\* Fault: the position of the newest record, which may be out of use.
PointerToLast(id) == {<<id, n>> : n \in {k \in DOMAIN profiles[id] : k = Len(profiles[id])}}

Pointer(id) ==
    {<<id, n>> : n \in {k \in DOMAIN profiles[id] :
                           profiles[id][k] \in P!NewestActive(profiles[id])}}

\* find_profile of the record in use, as callers ask by default.
Find(t, id) ==
    /\ calls[t] = Idle
    /\ Pointer(id) # {}
    /\ calls' = [calls EXCEPT ![t].pointer = Pointer(id), ![t].found = Resolved(id)]
    /\ UNCHANGED store

Target(t) == (CHOOSE at \in calls[t].pointer : TRUE)[1]

\* evaluate_pair, with any profile on the other side.
Evaluate(t) ==
    /\ calls[t].found # {} /\ calls[t].used = {}
    /\ calls' = [calls EXCEPT ![t].used = {Resolved(Target(t))}]
    /\ UNCHANGED store

FindAgain(t) ==
    /\ calls[t].used # {} /\ calls[t].again = {}
    /\ calls' = [calls EXCEPT ![t].again = {Resolved(Target(t))}]
    /\ UNCHANGED store

-----------------------------------------------------------------------------

CallersInit == /\ P!Init
               /\ calls = [t \in Reader |-> Idle]

ProfileCall == P!Next /\ UNCHANGED calls

CallersNext == \/ ProfileCall
               \/ \E t \in Reader : \/ \E id \in Id : Find(t, id)
                                    \/ Evaluate(t) \/ FindAgain(t)

CallersSpec == CallersInit /\ [][CallersNext]_sharedVars

-----------------------------------------------------------------------------
(* Properties.                                                             *)

\* "Immutable by generation" (README.md:86) holds of what a pointer shows:
\* whatever other threads do, its generation, payload and dependencies are
\* those of the profile that was found.
PointersKeepTheirRecord ==
    \A t \in Reader : \A at \in calls[t].pointer :
        /\ at[2] \in DOMAIN profiles[at[1]]
        /\ calls[t].found = {Version(profiles[at[1]][at[2]])}

\* A decision that was made between two finds that showed one generation is
\* about the profile they showed, although each call took the lock anew.
EqualFindsBracketEvaluation ==
    \A t \in Reader : \A before \in calls[t].found :
        \A used \in calls[t].used, after \in calls[t].again :
            (\E v \in after : v.generation = before.generation)
                => used = {before} /\ after = {before}
=============================================================================
