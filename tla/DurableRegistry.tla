-------------------------- MODULE DurableRegistry --------------------------
(***************************************************************************)
(* The registry with its file: save and load, crashes between any two      *)
(* calls and in the middle of a save (src/compat/registry.cpp:868-890 and  *)
(* 997-1049).                                                              *)
(*                                                                         *)
(* A file that is absent, truncated or cut short is <<>>: load throws for  *)
(* all of them.  A whole file is the sequence of one snapshot.  The        *)
(* encoding of a snapshot is exact for what is modelled: the records of a  *)
(* history keep their order, the generations and the ids are plain values. *)
(***************************************************************************)
EXTENDS Registry, FiniteSetsExt, SequencesExt

\* An unordered_map has finitely many keys.
ASSUME IdAssumption == IsFiniteSet(Id)

VARIABLES running,  \* whether there is a process with the registry
          disk      \* the file: <<>>, or <<snapshot>>

memory == <<profiles, deps, reverse, invalidations, registryGen, rules, ruleGen,
            policy, evidence, decisions>>

durableVars == <<memory, issued, running, disk>>

-----------------------------------------------------------------------------

\* snapshot(): all the state but the dependency maps and rule_gen_.
Snapshot == [registryGen |-> registryGen, policy |-> policy, profiles |-> profiles,
             rules |-> rules, evidence |-> evidence, invalidations |-> invalidations,
             decisions |-> decisions]

NoEdges == [deps |-> P!EmptyGraph, reverse |-> P!EmptyGraph]

\* add_dependency, on both maps at once.
AddDependency(g, id, ds) ==
    [deps    |-> P!ReplaceEdges(g.deps, id, ds),
     reverse |-> P!ReplaceReverse(g.reverse, id, g.deps[id], ds)]

\* Fault: only the first record of a history is looked at.
AddHistoryFirst(g, id, hist) ==
    IF hist = <<>> THEN g ELSE AddDependency(g, id, hist[1].content.deps)

\* recover() calls add_dependency for every record of a history in turn.
AddHistory(g, id, hist) ==
    FoldLeft(LAMBDA acc, rec : AddDependency(acc, id, rec.content.deps), g, hist)

Rebuilt(hists) == FoldSet(LAMBDA id, acc : AddHistory(acc, id, hists[id]), NoEdges, Id)

Recoverable(snapshot) == ~P!HasCycle(Rebuilt(snapshot.profiles).deps)

\* What the constructor leaves.
EmptySnapshot ==
    [registryGen |-> 0, policy |-> ZeroPolicy, profiles |-> [id \in Id |-> <<>>],
     rules |-> [i \in {} |-> {}], evidence |-> [e \in {} |-> 0],
     invalidations |-> {}, decisions |-> {}]

\* Fault: the number of the last mutation is taken for that of the next one.
RestoredAsNext(snapshot) == IF snapshot.registryGen = 0 THEN 0 ELSE snapshot.registryGen - 1

RestoredGeneration(snapshot) == snapshot.registryGen

\* A registry filled from a snapshot.  rule_gen_ starts again at 0.
Restore(snapshot) ==
    LET edges == Rebuilt(snapshot.profiles)
    IN  /\ profiles' = snapshot.profiles
        /\ deps' = edges.deps /\ reverse' = edges.reverse
        /\ invalidations' = snapshot.invalidations
        /\ registryGen' = RestoredGeneration(snapshot)
        /\ rules' = snapshot.rules /\ ruleGen' = 0
        /\ policy' = snapshot.policy
        /\ evidence' = snapshot.evidence
        /\ decisions' = snapshot.decisions

-----------------------------------------------------------------------------

DurableInit == Init /\ running = TRUE /\ disk = <<>>

RegistryStep == running /\ Next /\ UNCHANGED <<running, disk>>

\* save() that writes all its bytes.
Save == /\ running
        /\ disk' = <<Snapshot>>
        /\ UNCHANGED <<memory, issued, running>>

\* save() that opens the file, which truncates it, and then cannot write.
SaveFails == /\ running
             /\ disk' = <<>>
             /\ UNCHANGED <<memory, issued, running>>

\* The process ends; the file is as the last save left it, or cut short when
\* the process was in a save.
Crash == /\ running
         /\ running' = FALSE
         /\ disk' \in {disk, <<>>}
         /\ Restore(EmptySnapshot)
         /\ UNCHANGED issued

\* load() of a whole file whose edges have no cycle; otherwise it throws and
\* there is no registry.
Load == /\ ~running /\ disk # <<>>
        /\ Recoverable(disk[1])
        /\ running' = TRUE
        /\ Restore(disk[1])
        /\ UNCHANGED <<issued, disk>>

DurableNext == RegistryStep \/ Save \/ SaveFails \/ Crash \/ Load

DurableSpec == DurableInit /\ [][DurableNext]_durableVars

-----------------------------------------------------------------------------
(* Properties.                                                             *)

\* A registry that comes back from any file keeps what Profiles.tla promises
\* of one that never went away, and goes on keeping it: also that the two maps
\* of dependencies, which recover() builds anew, agree.
RecoveredProfilesSound ==
    /\ P!HistoryWellFormed /\ P!InvalidatedNeverServed
    /\ P!DependencyGraphAcyclic /\ P!ActiveEdgesMatchRecord /\ P!ReverseIndexExact

\* replay_decision scans an unordered map for the first decision with the id:
\* there is one at most, also when the cache comes from a file, and decisions
\* are made at the generation the file stopped at.
ReplayUnambiguous ==
    \A d, e \in decisions :
        d.decision_id = e.decision_id /\ d.decision_id # Zero => d = e

\* "`recover` ... regenerates dependency edges ... exactly as before"
\* (README.md:119).  The code refutes it: a supersede that is rejected drops
\* edges that recover() finds again in the record, where they may close a
\* cycle, and then the file cannot be loaded at all.
SnapshotsAreRecoverable == disk # <<>> => Recoverable(disk[1])
=============================================================================
