------------------------------ MODULE Profiles ------------------------------
(***************************************************************************)
(* The profile lifecycle of CompatibilityRegistry (src/compat/             *)
(* registry.cpp:39-239 and 573-613): the history of every identity, the    *)
(* dependency graph with its reverse index, the invalidation log and the   *)
(* registry generation.                                                    *)
(*                                                                         *)
(* Every public method holds mutex_ from its first to its last statement,  *)
(* so a call is one action.  A call that throws is an action too: what it  *)
(* wrote before the throw stays written.  A call that returns without      *)
(* writing (an idempotent registration, an unknown identity) is a          *)
(* stuttering step.                                                        *)
(*                                                                         *)
(* Abstractions.  A payload stands for its canonical bytes and for its     *)
(* fingerprint, so equal payloads are equal fingerprints.  The flag        *)
(* "superseded" is the negation of "active" in every record the code       *)
(* stores and is left out, as are the provenance texts.                    *)
(***************************************************************************)
EXTENDS DependencyGraph, Integers, Sequences

CONSTANTS Kind,            \* the ProfileKind values
          Payload,         \* the profile contents
          DependencySets,  \* the dependency lists callers pass
          MaxRegistryGen   \* bound on registryGen

ASSUME DependencySetsAssumption == DependencySets \subseteq SUBSET Id

ASSUME MaxRegistryGenAssumption == MaxRegistryGen \in Nat

VARIABLES profiles,        \* profiles_: the records of each identity, oldest first
          deps,            \* deps_
          reverse,         \* reverse_
          invalidations,   \* invalidations_
          registryGen      \* registry_gen_

profileVars == <<profiles, deps, reverse, invalidations, registryGen>>

Content == [kind : Kind, payload : Payload, deps : DependencySets]

Record == [content : Content, generation : Nat, active : BOOLEAN]

\* "propagated" stands for the reason: what the caller gave, or that of
\* propagate_invalidation.
Invalidation == [target : Id, generation : Nat, propagated : BOOLEAN,
                 fingerprint_before : Payload]

-----------------------------------------------------------------------------
(* Helpers on a history, the deque of an identity.                         *)

Latest(hist) == hist[Len(hist)]

\* for (auto& p : hist) p.active = false
Retire(hist) == [i \in DOMAIN hist |-> [hist[i] EXCEPT !.active = FALSE]]

\* Fault: a generation that is out of use is given out again.
NextGenerationReused(hist) ==
    IF hist = <<>> THEN 1
    ELSE IF Latest(hist).active THEN Latest(hist).generation + 1
    ELSE Latest(hist).generation

NextGeneration(hist) == IF hist = <<>> THEN 1 ELSE Latest(hist).generation + 1

\* Fault: the records in use are not retired by the new one.
KeepsFormerActive(hist, c, isActive) ==
    Append(hist, [content |-> c, generation |-> NextGeneration(hist), active |-> isActive])

\* Fault: the newest record is overwritten by the new generation.
OverwritesHistory(hist, c, isActive) ==
    Append(SubSeq(Retire(hist), 1, Len(hist) - 1),
           [content |-> c, generation |-> NextGeneration(hist), active |-> isActive])

NewGeneration(hist, c, isActive) ==
    Append(Retire(hist),
           [content |-> c, generation |-> NextGeneration(hist), active |-> isActive])

\* The test of register_profile for an idempotent call.
SameRegistration(hist, c) ==
    hist # <<>> /\ Latest(hist).active /\ Latest(hist).content = c

\* The test of supersede_profile: the kind is not compared.
SameSemantics(hist, c) ==
    /\ Latest(hist).active
    /\ Latest(hist).content.payload = c.payload
    /\ Latest(hist).content.deps = c.deps

\* The record find_profile and the evaluator resolve an identity to: the
\* newest active one, none when there is none.
NewestActive(hist) ==
    {hist[i] : i \in {j \in DOMAIN hist :
        hist[j].active /\ \A k \in DOMAIN hist : hist[k].active => k <= j}}

Log(hist, id, wasPropagated) ==
    [target |-> id, generation |-> Latest(hist).generation,
     propagated |-> wasPropagated,
     fingerprint_before |-> Latest(hist).content.payload]

-----------------------------------------------------------------------------

Init == /\ profiles = [id \in Id |-> <<>>]
        /\ deps = EmptyGraph
        /\ reverse = EmptyGraph
        /\ invalidations = {}
        /\ registryGen = 0

AdvanceGeneration == /\ registryGen < MaxRegistryGen
                     /\ registryGen' = registryGen + 1

\* register_profile up to the append.  isActive is the field of the caller's
\* record: TRUE unless the caller passes on a record of history_of.
RegisterAccepted(id, c, isActive) ==
    /\ ~SameRegistration(profiles[id], c)
    /\ ~CreateCycle(deps, id, c.deps)
    /\ AdvanceGeneration
    /\ profiles' = [profiles EXCEPT ![id] = NewGeneration(@, c, isActive)]
    /\ deps' = ReplaceEdges(deps, id, c.deps)
    /\ reverse' = ReplaceReverse(reverse, id, deps[id], c.deps)
    /\ UNCHANGED invalidations

\* register_profile when create_cycle answers true: it throws after the
\* active record of the identity has been marked superseded.
RegisterRejected(id, c) ==
    /\ ~SameRegistration(profiles[id], c)
    /\ CreateCycle(deps, id, c.deps)
    /\ profiles' = [profiles EXCEPT ![id] = Retire(@)]
    /\ UNCHANGED <<deps, reverse, invalidations, registryGen>>

\* Fault: supersede_profile without its cycle test.
SupersedeUntested(id, c) ==
    /\ profiles[id] # <<>>
    /\ ~SameSemantics(profiles[id], c)
    /\ AdvanceGeneration
    /\ profiles' = [profiles EXCEPT ![id] = NewGeneration(@, c, TRUE)]
    /\ deps' = ReplaceEdges(deps, id, c.deps)
    /\ reverse' = ReplaceReverse(reverse, id, deps[id], c.deps)
    /\ UNCHANGED invalidations

\* supersede_profile drops the edges of the identity before the cycle test.
SupersedeAccepted(id, c) ==
    /\ profiles[id] # <<>>
    /\ ~SameSemantics(profiles[id], c)
    /\ ~CreateCycle(ReplaceEdges(deps, id, {}), id, c.deps)
    /\ AdvanceGeneration
    /\ profiles' = [profiles EXCEPT ![id] = NewGeneration(@, c, TRUE)]
    /\ deps' = ReplaceEdges(deps, id, c.deps)
    /\ reverse' = ReplaceReverse(reverse, id, deps[id], c.deps)
    /\ UNCHANGED invalidations

\* Fault: the edges go before the cycle test, the record is kept in use.
SupersedeRejectedInUse(id, c) ==
    /\ profiles[id] # <<>>
    /\ ~SameSemantics(profiles[id], c)
    /\ CreateCycle(ReplaceEdges(deps, id, {}), id, c.deps)
    /\ deps' = ReplaceEdges(deps, id, {})
    /\ reverse' = DropReverse(reverse, id, deps[id])
    /\ UNCHANGED <<profiles, invalidations, registryGen>>

\* supersede_profile when it throws: the record is superseded and the edges
\* of the identity are gone.
SupersedeRejected(id, c) ==
    /\ profiles[id] # <<>>
    /\ ~SameSemantics(profiles[id], c)
    /\ CreateCycle(ReplaceEdges(deps, id, {}), id, c.deps)
    /\ profiles' = [profiles EXCEPT ![id] = Retire(@)]
    /\ deps' = ReplaceEdges(deps, id, {})
    /\ reverse' = DropReverse(reverse, id, deps[id])
    /\ UNCHANGED <<invalidations, registryGen>>

\* Fault: the invalidation is logged, the record stays in use.
InvalidateLogOnly(id) ==
    /\ profiles[id] # <<>>
    /\ AdvanceGeneration
    /\ invalidations' = invalidations \cup {Log(profiles[id], id, FALSE)}
    /\ UNCHANGED <<profiles, deps, reverse>>

\* Fault: an identity without a history is logged too, with no fingerprint.
InvalidateUnknown(id) ==
    /\ AdvanceGeneration
    /\ profiles' = [profiles EXCEPT ![id] = Retire(@)]
    /\ invalidations' = invalidations \cup
           {IF profiles[id] # <<>> THEN Log(profiles[id], id, FALSE)
            ELSE [target |-> id, generation |-> 0, propagated |-> FALSE,
                  fingerprint_before |-> ""]}
    /\ UNCHANGED <<deps, reverse>>

InvalidateProfile(id) ==
    /\ profiles[id] # <<>>
    /\ AdvanceGeneration
    /\ profiles' = [profiles EXCEPT ![id] = Retire(@)]
    /\ invalidations' = invalidations \cup {Log(profiles[id], id, FALSE)}
    /\ UNCHANGED <<deps, reverse>>

\* Fault: only the direct dependents are reached.
PropagateOneLevel(id) ==
    LET reached == {x \in {id} \cup reverse[id] : profiles[x] # <<>>}
    IN  /\ AdvanceGeneration
        /\ profiles' = [x \in Id |-> IF x \in reached THEN Retire(profiles[x])
                                                       ELSE profiles[x]]
        /\ invalidations' = invalidations \cup {Log(profiles[x], x, TRUE) : x \in reached}
        /\ UNCHANGED <<deps, reverse>>

\* propagate_invalidation: the worklist of the code visits exactly the
\* closure of the seed under the reverse index, each identity once.
PropagateInvalidation(id) ==
    LET reached == {x \in Closure(reverse, id) : profiles[x] # <<>>}
    IN  /\ AdvanceGeneration
        /\ profiles' = [x \in Id |-> IF x \in reached THEN Retire(profiles[x])
                                                       ELSE profiles[x]]
        /\ invalidations' = invalidations \cup {Log(profiles[x], x, TRUE) : x \in reached}
        /\ UNCHANGED <<deps, reverse>>

\* The other mutations of the registry (rules, evidence, policy): they
\* advance the registry generation and touch nothing here.
OtherMutation == /\ AdvanceGeneration
                 /\ UNCHANGED <<profiles, deps, reverse, invalidations>>

\* A call of one of the methods modelled above.
ProfileCall ==
    \/ \E id \in Id, c \in Content :
           \/ \E isActive \in BOOLEAN : RegisterAccepted(id, c, isActive)
           \/ RegisterRejected(id, c)
           \/ SupersedeAccepted(id, c)
           \/ SupersedeRejected(id, c)
    \/ \E id \in Id : InvalidateProfile(id) \/ PropagateInvalidation(id)

Next == ProfileCall \/ OtherMutation

Spec == Init /\ [][Next]_profileVars

-----------------------------------------------------------------------------
(* Properties.                                                             *)

TypeOK == /\ profiles \in [Id -> Seq(Record)]
          /\ deps \in Graph
          /\ reverse \in Graph
          /\ invalidations \subseteq Invalidation
          /\ registryGen \in 0 .. MaxRegistryGen

\* The generations of an identity are 1, 2, ... in the order of its history
\* and only the newest can be active, whatever mix of registrations,
\* rejected calls, invalidations and re-registered historical records came
\* before (registry.cpp:141-157 and 177-183).
HistoryWellFormed ==
    \A id \in Id : \A i \in DOMAIN profiles[id] :
        /\ profiles[id][i].generation = i
        /\ profiles[id][i].active => i = Len(profiles[id])

\* reverse_ holds id under d exactly when deps_ holds d under id: the two
\* maps are updated apart, by add_dependency and remove_dependency.
ReverseIndexExact ==
    \A d \in Id : reverse[d] = {id \in Id : d \in deps[id]}

\* No sequence of accepted and rejected calls builds a dependency cycle.
DependencyGraphAcyclic == ~HasCycle(deps)

\* An identity that resolves to a record has the edges that record names: a
\* rejected call may drop edges only of an identity it takes out of use.
ActiveEdgesMatchRecord ==
    \A id \in Id : \A rec \in NewestActive(profiles[id]) :
        deps[id] = rec.content.deps \ {id}

\* An Invalidation names a generation that exists, with the fingerprint that
\* generation has, and that generation is never active again.
InvalidatedNeverServed ==
    \A inv \in invalidations :
        /\ inv.generation \in DOMAIN profiles[inv.target]
        /\ LET rec == profiles[inv.target][inv.generation]
           IN  ~rec.active /\ rec.content.payload = inv.fingerprint_before

\* register_profile runs create_cycle on a graph that still has the former
\* edges of the identity.  The answer is nevertheless the right one: it says
\* whether the graph the registration would leave has a cycle.
CycleCheckExact ==
    \A id \in Id, ds \in SUBSET Id :
        CreateCycle(deps, id, ds) <=> HasCycle(ReplaceEdges(deps, id, ds))

\* The dependencies named by the records in use.
RecordedGraph ==
    [x \in Id |-> UNION {rec.content.deps : rec \in NewestActive(profiles[x])}]

\* After propagate_invalidation nothing is in use whose record led, through
\* records in use, to the seed: the walk goes over reverse_, the claim is
\* about the records.
PropagationReachesDependents ==
    [][\A id \in Id : PropagateInvalidation(id) =>
          \A x \in Id : id \in Closure(RecordedGraph, x)
                          => NewestActive(profiles'[x]) = {}]_profileVars

\* The promise of the store: append-only versions, at most the newest live,
\* the clock ticking with each version (VersionedLedger.tla).
LedgerOf(hist) == [i \in DOMAIN hist |-> hist[i].content]

InUse(hist) == \E i \in DOMAIN hist : hist[i].active

Ledger == INSTANCE VersionedLedger
              WITH ledger <- [id \in Id |-> LedgerOf(profiles[id])],
                   live   <- [id \in Id |-> InUse(profiles[id])],
                   clock  <- registryGen

ImplementsLedger == Ledger!Spec

\* What the documentation says of a rejected registration: nothing changes.
\* The code refutes it (run rejection_mutates).
RejectionMutatesNothing ==
    [][\A id \in Id, c \in Content :
          RegisterRejected(id, c) \/ SupersedeRejected(id, c)
              => UNCHANGED profileVars]_profileVars
=============================================================================
