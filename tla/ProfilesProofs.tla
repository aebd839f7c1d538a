--------------------------- MODULE ProfilesProofs ---------------------------
(***************************************************************************)
(* Proofs about Profiles.tla, for every set of identities, kinds and       *)
(* payloads, every choice of dependency lists and every bound on the       *)
(* registry generation.                                                    *)
(***************************************************************************)
EXTENDS Profiles, SequenceTheorems, TLAPS

-----------------------------------------------------------------------------
(* Lemmas about the dependency graph.                                      *)

\* Adding edges keeps every cycle.
LEMMA CycleMonotone ==
    ASSUME NEW g \in Graph, NEW h \in Graph,
           \A x \in Id : g[x] \subseteq h[x],
           HasCycle(g)
    PROVE  HasCycle(h)
<1>1. PICK S \in SUBSET Id : IsCore(g, S)
  BY DEF HasCycle
<1>2. IsCore(h, S)
  BY <1>1 DEF IsCore, Graph
<1>. QED  BY <1>2 DEF HasCycle

LEMMA ReplaceEdgesType ==
    ASSUME NEW g \in Graph, NEW id \in Id, NEW ds \in SUBSET Id
    PROVE  /\ ReplaceEdges(g, id, ds) \in Graph
           /\ ReplaceEdges(g, id, ds)[id] = ds \ {id}
           /\ \A x \in Id \ {id} : ReplaceEdges(g, id, ds)[x] = g[x]
BY DEF ReplaceEdges, Graph

\* create_cycle sees the former edges of id besides the new ones, and yet
\* answers whether the graph with the new edges alone has a cycle: a cycle
\* leaves id by one edge, and by a former one it would have been there.
LEMMA CycleCheckIsExact ==
    ASSUME NEW g \in Graph, ~HasCycle(g), NEW id \in Id, NEW ds \in SUBSET Id
    PROVE  CreateCycle(g, id, ds) <=> HasCycle(ReplaceEdges(g, id, ds))
<1> DEFINE both == [g EXCEPT ![id] = @ \cup (ds \ {id})]
           new  == ReplaceEdges(g, id, ds)
<1>1. both \in Graph /\ new \in Graph
  BY DEF Graph, ReplaceEdges
<1>2. ASSUME HasCycle(new) PROVE HasCycle(both)
  <2>1. \A x \in Id : new[x] \subseteq both[x]
    BY DEF Graph, ReplaceEdges
  <2>. QED  BY <1>1, <1>2, <2>1, CycleMonotone
<1>3. ASSUME HasCycle(both) PROVE HasCycle(new)
  <2>1. PICK S \in SUBSET Id : IsCore(both, S)
    BY <1>3 DEF HasCycle
  <2>2. CASE id \in S /\ (ds \ {id}) \cap S = {}
    <3>1. \A x \in S : g[x] \cap S # {}
      BY <2>1, <2>2 DEF IsCore, Graph
    <3>2. IsCore(g, S)
      BY <2>1, <3>1 DEF IsCore
    <3>. QED  BY <3>2 DEF HasCycle
  <2>3. CASE ~(id \in S /\ (ds \ {id}) \cap S = {})
    <3>1. \A x \in S : new[x] \cap S # {}
      BY <2>1, <2>3 DEF IsCore, Graph, ReplaceEdges
    <3>2. IsCore(new, S)
      BY <2>1, <3>1 DEF IsCore
    <3>. QED  BY <3>2 DEF HasCycle
  <2>. QED  BY <2>2, <2>3
<1>. QED  BY <1>2, <1>3 DEF CreateCycle

\* Taking the edges of an identity away closes no cycle.
LEMMA DroppingEdgesKeepsAcyclic ==
    ASSUME NEW g \in Graph, ~HasCycle(g), NEW id \in Id
    PROVE  ~HasCycle(ReplaceEdges(g, id, {}))
<1>1. \A x \in Id : ReplaceEdges(g, id, {})[x] \subseteq g[x]
  BY DEF Graph, ReplaceEdges
<1>. QED  BY <1>1, ReplaceEdgesType, CycleMonotone

-----------------------------------------------------------------------------
(* Lemmas about the reverse index.                                         *)

Reverses(r, g) == \A d \in Id : r[d] = {x \in Id : d \in g[x]}

LEMMA ReplaceReverseExact ==
    ASSUME NEW g \in Graph, NEW r \in Graph, Reverses(r, g),
           NEW id \in Id, NEW ds \in SUBSET Id
    PROVE  /\ ReplaceReverse(r, id, g[id], ds) \in Graph
           /\ Reverses(ReplaceReverse(r, id, g[id], ds), ReplaceEdges(g, id, ds))
BY DEF Graph, Reverses, ReplaceReverse, DropReverse, ReplaceEdges

LEMMA DropReverseExact ==
    ASSUME NEW g \in Graph, NEW r \in Graph, Reverses(r, g), NEW id \in Id
    PROVE  /\ DropReverse(r, id, g[id]) \in Graph
           /\ Reverses(DropReverse(r, id, g[id]), ReplaceEdges(g, id, {}))
BY DEF Graph, Reverses, DropReverse, ReplaceEdges

-----------------------------------------------------------------------------
(* Lemmas about one history.                                               *)

WellFormed(hist) == \A i \in DOMAIN hist : /\ hist[i].generation = i
                                           /\ hist[i].active => i = Len(hist)

LEMMA RetireProperties ==
    ASSUME NEW hist \in Seq(Record)
    PROVE  /\ Retire(hist) \in Seq(Record)
           /\ Len(Retire(hist)) = Len(hist)
           /\ DOMAIN Retire(hist) = DOMAIN hist
           /\ \A i \in DOMAIN hist :
                /\ Retire(hist)[i].content = hist[i].content
                /\ Retire(hist)[i].generation = hist[i].generation
                /\ Retire(hist)[i].active = FALSE
           /\ ~InUse(Retire(hist))
<1> DEFINE n == Len(hist)
           out == [i \in 1 .. n |-> [hist[i] EXCEPT !.active = FALSE]]
<1>1. n \in Nat /\ DOMAIN hist = 1 .. n /\ \A i \in 1 .. n : hist[i] \in Record
  BY ElementOfSeq
<1>2. Retire(hist) = out
  BY <1>1 DEF Retire
<1>3. \A i \in 1 .. n : [hist[i] EXCEPT !.active = FALSE] \in Record
  BY <1>1 DEF Record
<1>4. out \in Seq(Record) /\ Len(out) = n
  <2>1. out \in [1 .. n -> Record]
    BY <1>3
  <2>. QED  BY <1>1, <2>1, SeqDef
<1>5. \A i \in 1 .. n : /\ out[i].content = hist[i].content
                        /\ out[i].generation = hist[i].generation
                        /\ out[i].active = FALSE
  BY <1>1 DEF Record
<1>. QED  BY <1>1, <1>2, <1>4, <1>5 DEF InUse

LEMMA NewGenerationProperties ==
    ASSUME NEW hist \in Seq(Record), WellFormed(hist),
           NEW c \in Content, NEW isActive \in BOOLEAN
    PROVE  LET new == NewGeneration(hist, c, isActive)
           IN  /\ new \in Seq(Record)
               /\ Len(new) = Len(hist) + 1
               /\ new[Len(hist) + 1] = [content |-> c, generation |-> Len(hist) + 1,
                                        active |-> isActive]
               /\ \A i \in DOMAIN hist :
                    /\ new[i].content = hist[i].content
                    /\ new[i].generation = hist[i].generation
                    /\ new[i].active = FALSE
               /\ WellFormed(new)
<1>1. NextGeneration(hist) = Len(hist) + 1
  BY DEF NextGeneration, Latest, WellFormed
<1> DEFINE rec == [content |-> c, generation |-> NextGeneration(hist), active |-> isActive]
<1>2. rec \in Record
  BY <1>1 DEF Record
<1>3. NewGeneration(hist, c, isActive) = Append(Retire(hist), rec)
  BY DEF NewGeneration
<1> HIDE DEF rec
<1>4. /\ Append(Retire(hist), rec) \in Seq(Record)
      /\ Len(Append(Retire(hist), rec)) = Len(hist) + 1
      /\ Append(Retire(hist), rec)[Len(hist) + 1] = rec
      /\ \A i \in DOMAIN hist : Append(Retire(hist), rec)[i] = Retire(hist)[i]
  <2>1. Retire(hist) \in Seq(Record) /\ Len(Retire(hist)) = Len(hist)
    BY RetireProperties
  <2>. QED  BY <1>2, <2>1, AppendProperties
<1>5. \A i \in DOMAIN hist :
         /\ Append(Retire(hist), rec)[i].content = hist[i].content
         /\ Append(Retire(hist), rec)[i].generation = hist[i].generation
         /\ Append(Retire(hist), rec)[i].active = FALSE
  <2>1. \A i \in DOMAIN hist : /\ Retire(hist)[i].content = hist[i].content
                               /\ Retire(hist)[i].generation = hist[i].generation
                               /\ Retire(hist)[i].active = FALSE
    BY RetireProperties
  <2>. QED  BY <1>4, <2>1
<1>6. rec = [content |-> c, generation |-> Len(hist) + 1, active |-> isActive]
  BY <1>1 DEF rec
<1>7. WellFormed(Append(Retire(hist), rec))
  BY <1>4, <1>5, <1>6 DEF WellFormed
<1>. QED  BY <1>3, <1>4, <1>5, <1>6, <1>7

\* An identity resolves to a record exactly when one of its records is in
\* use, and of a well-formed history that is the newest one.
LEMMA ResolutionOfWellFormed ==
    ASSUME NEW hist \in Seq(Record), WellFormed(hist), NEW rec \in NewestActive(hist)
    PROVE  hist # <<>> /\ rec = hist[Len(hist)] /\ rec.active
BY DEF NewestActive, WellFormed

-----------------------------------------------------------------------------
(* The inductive invariant.                                                *)

IInv == /\ TypeOK
        /\ HistoryWellFormed
        /\ ReverseIndexExact
        /\ DependencyGraphAcyclic
        /\ ActiveEdgesMatchRecord
        /\ InvalidatedNeverServed

\* What a step does to the histories: no record is lost, changed or brought
\* back into use.
HistoriesGrow ==
    \A x \in Id : \A i \in DOMAIN profiles[x] :
        /\ i \in DOMAIN profiles'[x]
        /\ profiles'[x][i].content = profiles[x][i].content
        /\ profiles'[x][i].generation = profiles[x][i].generation
        /\ profiles'[x][i].active => profiles[x][i].active

\* The histories of a set R of identities are retired.
LEMMA RetiringHistories ==
    ASSUME IInv, NEW R \in SUBSET Id,
           profiles' = [x \in Id |-> IF x \in R THEN Retire(profiles[x]) ELSE profiles[x]]
    PROVE  /\ profiles' \in [Id -> Seq(Record)]
           /\ HistoryWellFormed'
           /\ HistoriesGrow
           /\ \A x \in R : ~InUse(profiles'[x])
           /\ \A x \in Id \ R : profiles'[x] = profiles[x]
<1>1. \A x \in Id : profiles[x] \in Seq(Record) /\ WellFormed(profiles[x])
  BY DEF IInv, TypeOK, HistoryWellFormed, WellFormed
<1>2. \A x \in R :
         /\ profiles'[x] \in Seq(Record)
         /\ WellFormed(profiles'[x])
         /\ ~InUse(profiles'[x])
         /\ \A i \in DOMAIN profiles[x] :
              /\ i \in DOMAIN profiles'[x]
              /\ profiles'[x][i].content = profiles[x][i].content
              /\ profiles'[x][i].generation = profiles[x][i].generation
              /\ profiles'[x][i].active = FALSE
  <2> TAKE x \in R
  <2>1. profiles'[x] = Retire(profiles[x])
    OBVIOUS
  <2>2. profiles[x] \in Seq(Record) /\ WellFormed(profiles[x])
    BY <1>1
  <2>3. /\ Retire(profiles[x]) \in Seq(Record)
        /\ DOMAIN Retire(profiles[x]) = DOMAIN profiles[x]
        /\ ~InUse(Retire(profiles[x]))
        /\ \A i \in DOMAIN profiles[x] :
             /\ Retire(profiles[x])[i].content = profiles[x][i].content
             /\ Retire(profiles[x])[i].generation = profiles[x][i].generation
             /\ Retire(profiles[x])[i].active = FALSE
    BY <2>2, RetireProperties
  <2>4. WellFormed(Retire(profiles[x]))
    BY <2>2, <2>3 DEF WellFormed
  <2>. QED  BY <2>1, <2>3, <2>4
<1>3. \A x \in Id \ R : profiles'[x] = profiles[x]
  OBVIOUS
<1>4. profiles' \in [Id -> Seq(Record)]
  BY <1>1, <1>2, <1>3
<1>5. HistoryWellFormed'
  BY <1>1, <1>2, <1>3 DEF HistoryWellFormed, WellFormed
<1>6. HistoriesGrow
  BY <1>2, <1>3 DEF HistoriesGrow
<1>. QED  BY <1>2, <1>3, <1>4, <1>5, <1>6

\* One identity gets a new generation.
LEMMA ExtendingHistory ==
    ASSUME IInv, NEW id \in Id, NEW c \in Content, NEW isActive \in BOOLEAN,
           profiles' = [profiles EXCEPT ![id] = NewGeneration(@, c, isActive)]
    PROVE  /\ profiles' \in [Id -> Seq(Record)]
           /\ HistoryWellFormed'
           /\ HistoriesGrow
           /\ profiles'[id] # <<>> /\ profiles'[id][Len(profiles'[id])].content = c
           /\ \A x \in Id \ {id} : profiles'[x] = profiles[x]
<1>1. \A x \in Id : profiles[x] \in Seq(Record) /\ WellFormed(profiles[x])
  BY DEF IInv, TypeOK, HistoryWellFormed, WellFormed
<1>2. profiles'[id] = NewGeneration(profiles[id], c, isActive)
  BY DEF IInv, TypeOK
<1>3. /\ profiles'[id] \in Seq(Record)
      /\ Len(profiles'[id]) = Len(profiles[id]) + 1
      /\ profiles'[id][Len(profiles[id]) + 1].content = c
      /\ \A i \in DOMAIN profiles[id] :
           /\ profiles'[id][i].content = profiles[id][i].content
           /\ profiles'[id][i].generation = profiles[id][i].generation
           /\ profiles'[id][i].active = FALSE
      /\ WellFormed(profiles'[id])
  <2> DEFINE new == NewGeneration(profiles[id], c, isActive)
  <2>1. /\ new \in Seq(Record)
        /\ Len(new) = Len(profiles[id]) + 1
        /\ new[Len(profiles[id]) + 1] =
             [content |-> c, generation |-> Len(profiles[id]) + 1, active |-> isActive]
        /\ \A i \in DOMAIN profiles[id] :
             /\ new[i].content = profiles[id][i].content
             /\ new[i].generation = profiles[id][i].generation
             /\ new[i].active = FALSE
        /\ WellFormed(new)
    BY <1>1, NewGenerationProperties
  <2>. QED  BY <1>2, <2>1
<1>4. \A i \in DOMAIN profiles[id] : i \in DOMAIN profiles'[id]
  BY <1>1, <1>3
<1>5. \A x \in Id \ {id} : profiles'[x] = profiles[x]
  BY DEF IInv, TypeOK
<1>6. profiles' \in [Id -> Seq(Record)]
  BY <1>3 DEF IInv, TypeOK
<1>7. HistoryWellFormed'
  BY <1>1, <1>3, <1>5 DEF HistoryWellFormed, WellFormed
<1>8. HistoriesGrow
  BY <1>3, <1>4, <1>5 DEF HistoriesGrow
<1>9. profiles'[id] # <<>>
  BY <1>1, <1>3
<1>. QED  BY <1>3, <1>5, <1>6, <1>7, <1>8, <1>9

\* What the log says of a generation stays true as the histories grow.
LEMMA LogUnchanged ==
    ASSUME IInv, HistoriesGrow, NEW inv \in invalidations
    PROVE  /\ inv \in Invalidation
           /\ inv.generation \in DOMAIN profiles'[inv.target]
           /\ ~profiles'[inv.target][inv.generation].active
           /\ profiles'[inv.target][inv.generation].content.payload
                  = inv.fingerprint_before
<1>1. /\ inv \in Invalidation
      /\ inv.generation \in DOMAIN profiles[inv.target]
      /\ ~profiles[inv.target][inv.generation].active
      /\ profiles[inv.target][inv.generation].content.payload = inv.fingerprint_before
  BY DEF IInv, TypeOK, InvalidatedNeverServed
<1>2. inv.target \in Id
  BY <1>1 DEF Invalidation
<1>. QED  BY <1>1, <1>2 DEF HistoriesGrow

\* What an invalidation adds to the log is true of the histories it leaves.
LEMMA LogStaysTrue ==
    ASSUME IInv, HistoriesGrow, NEW R \in SUBSET Id, NEW b \in BOOLEAN,
           \A x \in R : profiles[x] # <<>> /\ ~InUse(profiles'[x]),
           invalidations' = invalidations \cup {Log(profiles[x], x, b) : x \in R}
    PROVE  invalidations' \subseteq Invalidation /\ InvalidatedNeverServed'
<1>1. \A x \in R : /\ profiles[x] \in Seq(Record) /\ profiles[x] # <<>>
                   /\ WellFormed(profiles[x])
  BY DEF IInv, TypeOK, HistoryWellFormed, WellFormed
<1>2. ASSUME NEW x \in R
      PROVE  LET inv == Log(profiles[x], x, b)
             IN  /\ inv \in Invalidation
                 /\ inv.target = x
                 /\ inv.generation \in DOMAIN profiles[x]
                 /\ inv.fingerprint_before = profiles[x][inv.generation].content.payload
  <2>1. Len(profiles[x]) \in DOMAIN profiles[x] /\ Latest(profiles[x]) \in Record
    BY <1>1 DEF Latest
  <2>2. Latest(profiles[x]).generation = Len(profiles[x])
    BY <1>1, <2>1 DEF Latest, WellFormed
  <2>. QED  BY <2>1, <2>2 DEF Log, Invalidation, Record, Content, Latest
<1>3. ASSUME NEW inv \in invalidations'
      PROVE  /\ inv \in Invalidation
             /\ inv.generation \in DOMAIN profiles'[inv.target]
             /\ ~profiles'[inv.target][inv.generation].active
             /\ profiles'[inv.target][inv.generation].content.payload
                    = inv.fingerprint_before
  <2>1. CASE inv \in invalidations
    BY <2>1, LogUnchanged
  <2>2. CASE inv \notin invalidations
    <3>1. PICK x \in R : inv = Log(profiles[x], x, b)
      BY <2>2
    <3>2. /\ inv \in Invalidation
          /\ inv.target = x
          /\ inv.generation \in DOMAIN profiles[x]
          /\ inv.fingerprint_before = profiles[x][inv.generation].content.payload
      BY <1>2, <3>1
    <3>3. /\ inv.generation \in DOMAIN profiles'[x]
          /\ profiles'[x][inv.generation].content = profiles[x][inv.generation].content
      BY <3>2 DEF HistoriesGrow
    <3>. QED  BY <3>2, <3>3 DEF InUse
  <2>. QED  BY <2>1, <2>2
<1>. QED  BY <1>3 DEF InvalidatedNeverServed

\* An identity none of whose records is in use resolves to nothing.
LEMMA NothingInUse ==
    ASSUME NEW hist, ~InUse(hist)
    PROVE  NewestActive(hist) = {}
BY DEF InUse, NewestActive

-----------------------------------------------------------------------------
(* The invariant is inductive.                                             *)

LEMMA IInvInit == Init => IInv
<1> SUFFICES ASSUME Init PROVE IInv
  OBVIOUS
<1>1. \A id \in Id : profiles[id] = <<>>
  BY DEF Init
<1>2. TypeOK
  BY MaxRegistryGenAssumption DEF Init, TypeOK, EmptyGraph, Graph
<1>3. HistoryWellFormed /\ ActiveEdgesMatchRecord
  BY <1>1 DEF HistoryWellFormed, ActiveEdgesMatchRecord, NewestActive
<1>4. ReverseIndexExact
  BY DEF Init, EmptyGraph, ReverseIndexExact
<1>5. DependencyGraphAcyclic
  BY DEF Init, EmptyGraph, DependencyGraphAcyclic, HasCycle, IsCore
<1>6. InvalidatedNeverServed
  BY DEF Init, InvalidatedNeverServed
<1>. QED  BY <1>2, <1>3, <1>4, <1>5, <1>6 DEF IInv

\* The conjuncts about the graph, for the two ways a step changes it.
LEMMA EdgesReplaced ==
    ASSUME IInv, NEW id \in Id, NEW ds \in SUBSET Id,
           ~HasCycle(ReplaceEdges(deps, id, ds)),
           deps' = ReplaceEdges(deps, id, ds),
           reverse' = ReplaceReverse(reverse, id, deps[id], ds)
    PROVE  /\ deps' \in Graph /\ reverse' \in Graph
           /\ ReverseIndexExact' /\ DependencyGraphAcyclic'
<1>1. Reverses(reverse, deps) /\ deps \in Graph /\ reverse \in Graph
  BY DEF IInv, TypeOK, ReverseIndexExact, Reverses
<1>2. reverse' \in Graph /\ Reverses(reverse', deps')
  BY <1>1, ReplaceReverseExact
<1>3. deps' \in Graph
  BY <1>1, ReplaceEdgesType
<1>. QED  BY <1>2, <1>3 DEF ReverseIndexExact, Reverses, DependencyGraphAcyclic

LEMMA EdgesDropped ==
    ASSUME IInv, NEW id \in Id,
           deps' = ReplaceEdges(deps, id, {}),
           reverse' = DropReverse(reverse, id, deps[id])
    PROVE  /\ deps' \in Graph /\ reverse' \in Graph
           /\ ReverseIndexExact' /\ DependencyGraphAcyclic'
<1>1. Reverses(reverse, deps) /\ deps \in Graph /\ reverse \in Graph /\ ~HasCycle(deps)
  BY DEF IInv, TypeOK, ReverseIndexExact, Reverses, DependencyGraphAcyclic
<1>2. reverse' \in Graph /\ Reverses(reverse', deps')
  BY <1>1, DropReverseExact
<1>3. deps' \in Graph /\ ~HasCycle(deps')
  BY <1>1, ReplaceEdgesType, DroppingEdgesKeepsAcyclic
<1>. QED  BY <1>2, <1>3 DEF ReverseIndexExact, Reverses, DependencyGraphAcyclic

LEMMA EdgesUnchanged ==
    ASSUME IInv, UNCHANGED <<deps, reverse>>
    PROVE  /\ deps' \in Graph /\ reverse' \in Graph
           /\ ReverseIndexExact' /\ DependencyGraphAcyclic'
BY DEF IInv, TypeOK, ReverseIndexExact, DependencyGraphAcyclic

\* A new generation of id whose edges are its dependencies.
LEMMA PublishingStep ==
    ASSUME IInv, NEW id \in Id, NEW c \in Content, NEW isActive \in BOOLEAN,
           ~HasCycle(ReplaceEdges(deps, id, c.deps)),
           AdvanceGeneration,
           profiles' = [profiles EXCEPT ![id] = NewGeneration(@, c, isActive)],
           deps' = ReplaceEdges(deps, id, c.deps),
           reverse' = ReplaceReverse(reverse, id, deps[id], c.deps),
           UNCHANGED invalidations
    PROVE  IInv'
<1>1. c.deps \in SUBSET Id
  BY DependencySetsAssumption DEF Content
<1>2. /\ profiles' \in [Id -> Seq(Record)]
      /\ HistoryWellFormed'
      /\ HistoriesGrow
      /\ profiles'[id] # <<>> /\ profiles'[id][Len(profiles'[id])].content = c
      /\ \A x \in Id \ {id} : profiles'[x] = profiles[x]
  BY ExtendingHistory
<1>3. /\ deps' \in Graph /\ reverse' \in Graph
      /\ ReverseIndexExact' /\ DependencyGraphAcyclic'
  BY <1>1, EdgesReplaced
<1>4. invalidations' \subseteq Invalidation /\ InvalidatedNeverServed'
  BY <1>2, LogUnchanged DEF InvalidatedNeverServed
<1>5. registryGen' \in 0 .. MaxRegistryGen
  BY MaxRegistryGenAssumption DEF IInv, TypeOK, AdvanceGeneration
<1>6. ActiveEdgesMatchRecord'
  <2> SUFFICES ASSUME NEW x \in Id, NEW rec \in NewestActive(profiles'[x])
               PROVE  deps'[x] = rec.content.deps \ {x}
    BY DEF ActiveEdgesMatchRecord
  <2>1. CASE x = id
    <3>1. profiles'[id] \in Seq(Record) /\ WellFormed(profiles'[id])
      BY <1>2 DEF HistoryWellFormed, WellFormed
    <3>2. rec.content = c
      BY <1>2, <2>1, <3>1, ResolutionOfWellFormed
    <3>. QED  BY <1>1, <2>1, <3>2, ReplaceEdgesType DEF IInv, TypeOK
  <2>2. CASE x # id
    <3>1. deps'[x] = deps[x]
      BY <1>1, <2>2, ReplaceEdgesType DEF IInv, TypeOK
    <3>. QED  BY <1>2, <2>2, <3>1 DEF IInv, ActiveEdgesMatchRecord
  <2>. QED  BY <2>1, <2>2
<1>. QED  BY <1>2, <1>3, <1>4, <1>5, <1>6 DEF IInv, TypeOK

\* The identities in R are retired and nothing else changes in the histories;
\* only identities in R lose edges.
LEMMA RetiringStep ==
    ASSUME IInv, NEW R \in SUBSET Id,
           profiles' = [x \in Id |-> IF x \in R THEN Retire(profiles[x]) ELSE profiles[x]],
           \A x \in Id \ R : deps'[x] = deps[x],
           deps' \in Graph /\ reverse' \in Graph,
           ReverseIndexExact' /\ DependencyGraphAcyclic',
           registryGen' \in 0 .. MaxRegistryGen,
           invalidations' \subseteq Invalidation /\ InvalidatedNeverServed'
    PROVE  IInv'
<1>1. /\ profiles' \in [Id -> Seq(Record)]
      /\ HistoryWellFormed'
      /\ \A x \in R : ~InUse(profiles'[x])
      /\ \A x \in Id \ R : profiles'[x] = profiles[x]
  BY RetiringHistories
<1>2. ActiveEdgesMatchRecord'
  <2> SUFFICES ASSUME NEW x \in Id, NEW rec \in NewestActive(profiles'[x])
               PROVE  deps'[x] = rec.content.deps \ {x}
    BY DEF ActiveEdgesMatchRecord
  <2>1. x \notin R
    BY <1>1, NothingInUse
  <2>. QED  BY <1>1, <2>1 DEF IInv, ActiveEdgesMatchRecord
<1>. QED  BY <1>1, <1>2 DEF IInv, TypeOK

\* One identity is retired, as an EXCEPT says it.
LEMMA RetireOne ==
    ASSUME TypeOK, NEW id \in Id, profiles' = [profiles EXCEPT ![id] = Retire(@)]
    PROVE  profiles' = [x \in Id |-> IF x \in {id} THEN Retire(profiles[x])
                                                   ELSE profiles[x]]
BY DEF TypeOK

LEMMA IInvStep == IInv /\ [Next]_profileVars => IInv'
<1> SUFFICES ASSUME IInv, [Next]_profileVars PROVE IInv'
  OBVIOUS
<1>1. TypeOK /\ deps \in Graph /\ ~HasCycle(deps) /\ registryGen \in 0 .. MaxRegistryGen
  BY DEF IInv, TypeOK, DependencyGraphAcyclic
<1>2. ASSUME NEW id \in Id, NEW c \in Content, NEW isActive \in BOOLEAN,
             RegisterAccepted(id, c, isActive)
      PROVE  IInv'
  <2>1. c.deps \in SUBSET Id
    BY DependencySetsAssumption DEF Content
  <2>2. ~HasCycle(ReplaceEdges(deps, id, c.deps))
    BY <1>1, <1>2, <2>1, CycleCheckIsExact DEF RegisterAccepted
  <2>. QED  BY <1>2, <2>2, PublishingStep DEF RegisterAccepted
<1>3. ASSUME NEW id \in Id, NEW c \in Content, RegisterRejected(id, c)
      PROVE  IInv'
  <2>1. profiles' = [x \in Id |-> IF x \in {id} THEN Retire(profiles[x]) ELSE profiles[x]]
    BY <1>1, <1>3, RetireOne DEF RegisterRejected
  <2>2. HistoriesGrow
    BY <2>1, RetiringHistories
  <2>3. invalidations' \subseteq Invalidation /\ InvalidatedNeverServed'
    BY <1>3, <2>2, LogUnchanged DEF RegisterRejected, InvalidatedNeverServed
  <2>4. UNCHANGED <<deps, reverse, registryGen>>
    BY <1>3 DEF RegisterRejected
  <2>. QED  BY <1>1, <2>1, <2>3, <2>4, EdgesUnchanged, RetiringStep
<1>4. ASSUME NEW id \in Id, NEW c \in Content, SupersedeAccepted(id, c)
      PROVE  IInv'
  <2> DEFINE dropped == ReplaceEdges(deps, id, {})
  <2>1. c.deps \in SUBSET Id /\ dropped \in Graph /\ ~HasCycle(dropped)
    BY <1>1, DependencySetsAssumption, ReplaceEdgesType, DroppingEdgesKeepsAcyclic DEF Content
  <2>2. ~HasCycle(ReplaceEdges(dropped, id, c.deps))
    BY <1>4, <2>1, CycleCheckIsExact DEF SupersedeAccepted
  <2>3. ReplaceEdges(dropped, id, c.deps) = ReplaceEdges(deps, id, c.deps)
    BY <1>1 DEF ReplaceEdges, Graph
  <2>. QED  BY <1>4, <2>2, <2>3, PublishingStep DEF SupersedeAccepted
<1>5. ASSUME NEW id \in Id, NEW c \in Content, SupersedeRejected(id, c)
      PROVE  IInv'
  <2>1. profiles' = [x \in Id |-> IF x \in {id} THEN Retire(profiles[x]) ELSE profiles[x]]
    BY <1>1, <1>5, RetireOne DEF SupersedeRejected
  <2>2. HistoriesGrow
    BY <2>1, RetiringHistories
  <2>3. invalidations' \subseteq Invalidation /\ InvalidatedNeverServed'
    BY <1>5, <2>2, LogUnchanged DEF SupersedeRejected, InvalidatedNeverServed
  <2>4. /\ deps' \in Graph /\ reverse' \in Graph
        /\ ReverseIndexExact' /\ DependencyGraphAcyclic'
    BY <1>5, EdgesDropped DEF SupersedeRejected
  <2>5. \A x \in Id \ {id} : deps'[x] = deps[x]
    BY <1>1, <1>5, ReplaceEdgesType DEF SupersedeRejected
  <2>6. registryGen' = registryGen
    BY <1>5 DEF SupersedeRejected
  <2>. QED  BY <1>1, <2>1, <2>3, <2>4, <2>5, <2>6, RetiringStep
<1>6. ASSUME NEW id \in Id, InvalidateProfile(id)
      PROVE  IInv'
  <2>1. profiles' = [x \in Id |-> IF x \in {id} THEN Retire(profiles[x]) ELSE profiles[x]]
    BY <1>1, <1>6, RetireOne DEF InvalidateProfile
  <2>2. HistoriesGrow /\ ~InUse(profiles'[id]) /\ profiles[id] # <<>>
    BY <1>6, <2>1, RetiringHistories DEF InvalidateProfile
  <2>3. invalidations' = invalidations \cup {Log(profiles[x], x, FALSE) : x \in {id}}
    BY <1>6 DEF InvalidateProfile
  <2>4. invalidations' \subseteq Invalidation /\ InvalidatedNeverServed'
    <3>1. \A x \in {id} : profiles[x] # <<>> /\ ~InUse(profiles'[x])
      BY <2>2
    <3>2. {id} \in SUBSET Id /\ FALSE \in BOOLEAN
      OBVIOUS
    <3> HIDE <1>6
    <3>. QED  BY <2>2, <2>3, <3>1, <3>2, LogStaysTrue
  <2>5. UNCHANGED <<deps, reverse>> /\ registryGen' \in 0 .. MaxRegistryGen
    BY <1>1, <1>6, MaxRegistryGenAssumption DEF InvalidateProfile, AdvanceGeneration
  <2>. QED  BY <1>1, <2>1, <2>4, <2>5, EdgesUnchanged, RetiringStep
<1>7. ASSUME NEW id \in Id, PropagateInvalidation(id)
      PROVE  IInv'
  <2> DEFINE reached == {x \in Closure(reverse, id) : profiles[x] # <<>>}
  <2>1. reached \in SUBSET Id /\ \A x \in reached : profiles[x] # <<>>
    BY DEF Closure
  <2>2. /\ profiles' = [x \in Id |-> IF x \in reached THEN Retire(profiles[x])
                                                       ELSE profiles[x]]
        /\ invalidations' = invalidations \cup {Log(profiles[x], x, TRUE) : x \in reached}
        /\ UNCHANGED <<deps, reverse>>
        /\ AdvanceGeneration
    BY <1>7 DEF PropagateInvalidation
  <2> HIDE DEF reached
  <2>3. HistoriesGrow /\ \A x \in reached : ~InUse(profiles'[x])
    BY <2>1, <2>2, RetiringHistories
  <2>4. invalidations' \subseteq Invalidation /\ InvalidatedNeverServed'
    BY <2>1, <2>2, <2>3, LogStaysTrue
  <2>5. registryGen' \in 0 .. MaxRegistryGen
    BY <1>1, <2>2, MaxRegistryGenAssumption DEF AdvanceGeneration
  <2>. QED  BY <1>1, <2>1, <2>2, <2>4, <2>5, EdgesUnchanged, RetiringStep
<1>8. CASE OtherMutation
  <2>1. UNCHANGED <<profiles, deps, reverse, invalidations>>
    BY <1>8 DEF OtherMutation
  <2>2. registryGen' \in 0 .. MaxRegistryGen
    BY <1>1, <1>8, MaxRegistryGenAssumption DEF OtherMutation, AdvanceGeneration
  <2>. QED  BY <2>1, <2>2 DEF IInv, TypeOK, HistoryWellFormed, ReverseIndexExact,
                DependencyGraphAcyclic, ActiveEdgesMatchRecord, InvalidatedNeverServed
<1>9. CASE UNCHANGED profileVars
  BY <1>9 DEF profileVars, IInv, TypeOK, HistoryWellFormed, ReverseIndexExact,
              DependencyGraphAcyclic, ActiveEdgesMatchRecord, InvalidatedNeverServed
<1>. QED  BY <1>2, <1>3, <1>4, <1>5, <1>6, <1>7, <1>8, <1>9 DEF Next, ProfileCall

-----------------------------------------------------------------------------
(* The theorems.                                                           *)

\* The inductive invariant holds of every reachable state.
THEOREM InductiveInvariant == Spec => []IInv
BY IInvInit, IInvStep, PTL DEF Spec

\* Type correctness.
THEOREM TypeCorrect == Spec => []TypeOK
<1>1. IInv => TypeOK
  BY DEF IInv
<1>. QED  BY <1>1, InductiveInvariant, PTL

\* Generations are consecutive and only the newest is in use, through
\* rejected calls and historical records registered again (registry.cpp:130-187).
THEOREM HistoriesAreWellFormed == Spec => []HistoryWellFormed
<1>1. IInv => HistoryWellFormed
  BY DEF IInv
<1>. QED  BY <1>1, InductiveInvariant, PTL

\* No sequence of calls leaves a cycle in deps_ (registry.cpp:101-114).
THEOREM AlwaysAcyclic == Spec => []DependencyGraphAcyclic
<1>1. IInv => DependencyGraphAcyclic
  BY DEF IInv
<1>. QED  BY <1>1, InductiveInvariant, PTL

\* reverse_ is the inverse of deps_ (registry.cpp:39-71).
THEOREM ReverseIndexStaysExact == Spec => []ReverseIndexExact
<1>1. IInv => ReverseIndexExact
  BY DEF IInv
<1>. QED  BY <1>1, InductiveInvariant, PTL

\* An identity in use has the edges its record names.
THEOREM EdgesOfRecordsInUse == Spec => []ActiveEdgesMatchRecord
<1>1. IInv => ActiveEdgesMatchRecord
  BY DEF IInv
<1>. QED  BY <1>1, InductiveInvariant, PTL

\* A generation an Invalidation names exists, has the fingerprint the
\* Invalidation holds, and is out of use for good (registry.cpp:189-202, 590-613).
THEOREM InvalidatedGenerationsStayOut == Spec => []InvalidatedNeverServed
<1>1. IInv => InvalidatedNeverServed
  BY DEF IInv
<1>. QED  BY <1>1, InductiveInvariant, PTL

\* The cycle test of register_profile, run on a graph with stale edges,
\* rejects exactly the registrations that would leave a cycle.
THEOREM CycleTestNeverWrong == Spec => []CycleCheckExact
<1>1. IInv => CycleCheckExact
  BY CycleCheckIsExact DEF IInv, TypeOK, DependencyGraphAcyclic, CycleCheckExact
<1>. QED  BY <1>1, InductiveInvariant, PTL

-----------------------------------------------------------------------------
(* Propagation and refinement.                                             *)

\* A chain of records in use that leads from x to id is a chain of the
\* reverse index from id to x.
LEMMA RecordedChainIsReversed ==
    ASSUME IInv, NEW id \in Id, NEW x \in Id, id \in Closure(RecordedGraph, x)
    PROVE  x \in Closure(reverse, id)
<1> SUFFICES ASSUME NEW T \in SUBSET Id, id \in T, \A y \in T : reverse[y] \subseteq T,
                    x \notin T
             PROVE  FALSE
  BY DEF Closure
<1> DEFINE S == Id \ T
<1>1. \A y \in Id : RecordedGraph[y] \subseteq deps[y] \cup {y}
  <2> SUFFICES ASSUME NEW y \in Id, NEW z \in RecordedGraph[y]
               PROVE  z \in deps[y] \cup {y}
    OBVIOUS
  <2>1. PICK rec \in NewestActive(profiles[y]) : z \in rec.content.deps
    BY DEF RecordedGraph
  <2>2. deps[y] = rec.content.deps \ {y}
    BY DEF IInv, ActiveEdgesMatchRecord
  <2>. QED  BY <2>1, <2>2
<1>2. \A y \in S : RecordedGraph[y] \subseteq S
  <2> SUFFICES ASSUME NEW y \in S, NEW z \in RecordedGraph[y], z # y
               PROVE  z \in S
    OBVIOUS
  <2>1. z \in deps[y] /\ z \in Id
    BY <1>1 DEF IInv, TypeOK, Graph
  <2>2. y \in reverse[z]
    BY <2>1 DEF IInv, ReverseIndexExact
  <2>. QED  BY <2>1, <2>2
<1>3. id \in S
  BY <1>2 DEF Closure
<1>. QED  BY <1>3

\* propagate_invalidation takes out of use everything whose record led to
\* the seed through records in use (registry.cpp:590-613).
THEOREM PropagationIsComplete == Spec => PropagationReachesDependents
<1>1. ASSUME IInv, NEW id \in Id, PropagateInvalidation(id),
             NEW x \in Id, id \in Closure(RecordedGraph, x)
      PROVE  NewestActive(profiles'[x]) = {}
  <2>1. x \in Closure(reverse, id)
    BY <1>1, RecordedChainIsReversed
  <2>2. CASE profiles[x] = <<>>
    <3>1. profiles'[x] = <<>>
      BY <1>1, <2>2 DEF PropagateInvalidation
    <3>. QED  BY <3>1 DEF NewestActive
  <2>3. CASE profiles[x] # <<>>
    <3>1. profiles'[x] = Retire(profiles[x])
      BY <1>1, <2>1, <2>3 DEF PropagateInvalidation
    <3>2. profiles[x] \in Seq(Record)
      BY <1>1 DEF IInv, TypeOK
    <3>. QED  BY <3>1, <3>2, RetireProperties, NothingInUse
  <2>. QED  BY <2>2, <2>3
<1>2. IInv => [\A id \in Id : PropagateInvalidation(id) =>
                 \A x \in Id : id \in Closure(RecordedGraph, x)
                               => NewestActive(profiles'[x]) = {}]_profileVars
  BY <1>1
<1>. QED  BY <1>2, InductiveInvariant, PTL DEF PropagationReachesDependents

LEMMA LedgerOfRetired ==
    ASSUME NEW hist \in Seq(Record)
    PROVE  LedgerOf(Retire(hist)) = LedgerOf(hist)
BY RetireProperties DEF LedgerOf

LEMMA LedgerOfNewGeneration ==
    ASSUME NEW hist \in Seq(Record), WellFormed(hist),
           NEW c \in Content, NEW isActive \in BOOLEAN
    PROVE  /\ LedgerOf(NewGeneration(hist, c, isActive)) = Append(LedgerOf(hist), c)
           /\ InUse(NewGeneration(hist, c, isActive)) = isActive
<1> DEFINE new == NewGeneration(hist, c, isActive)
           n   == Len(hist)
<1>0. \A r \in Record : r.content \in Content
  BY DEF Record
<1>1. /\ new \in Seq(Record)
      /\ Len(new) = n + 1
      /\ new[n + 1] = [content |-> c, generation |-> n + 1, active |-> isActive]
      /\ \A i \in DOMAIN hist : new[i].content = hist[i].content /\ new[i].active = FALSE
  BY NewGenerationProperties
<1> HIDE DEF new
<1>2. /\ n \in Nat /\ n = Len(hist)
      /\ DOMAIN hist = 1 .. n /\ DOMAIN new = 1 .. n + 1
  BY <1>1
<1> HIDE DEF n
<1>3. LedgerOf(hist) \in Seq(Content) /\ Len(LedgerOf(hist)) = n
  <2>1. \A i \in 1 .. n : hist[i].content \in Content
    BY <1>0, <1>2, ElementOfSeq
  <2>2. LedgerOf(hist) \in [1 .. n -> Content]
    BY <1>2, <2>1 DEF LedgerOf
  <2>. QED  BY <1>2, <2>2, SeqDef
<1>4. LedgerOf(new) \in Seq(Content) /\ Len(LedgerOf(new)) = n + 1
  <2>1. \A i \in 1 .. n + 1 : new[i].content \in Content
    BY <1>0, <1>1, <1>2, ElementOfSeq
  <2>2. LedgerOf(new) \in [1 .. n + 1 -> Content]
    BY <1>2, <2>1 DEF LedgerOf
  <2>. QED  BY <1>2, <2>2, SeqDef
<1>5. /\ Append(LedgerOf(hist), c) \in Seq(Content)
      /\ Len(Append(LedgerOf(hist), c)) = n + 1
      /\ \A i \in 1 .. n : Append(LedgerOf(hist), c)[i] = LedgerOf(hist)[i]
      /\ Append(LedgerOf(hist), c)[n + 1] = c
  BY <1>3, AppendProperties
<1>6. \A i \in 1 .. n + 1 : LedgerOf(new)[i] = Append(LedgerOf(hist), c)[i]
  <2> TAKE i \in 1 .. n + 1
  <2>1. CASE i = n + 1
    BY <1>1, <1>2, <1>5, <2>1 DEF LedgerOf
  <2>2. CASE i \in 1 .. n
    BY <1>1, <1>2, <1>5, <2>2 DEF LedgerOf
  <2>3. i = n + 1 \/ i \in 1 .. n
    BY <1>2
  <2>. QED  BY <2>1, <2>2, <2>3
<1>7. LedgerOf(new) = Append(LedgerOf(hist), c)
  BY <1>4, <1>5, <1>6, SeqEqual
<1>8. InUse(new) = isActive
  <2>1. \A i \in 1 .. n + 1 : new[i].active <=> (i = n + 1 /\ isActive)
    BY <1>1, <1>2
  <2>2. n + 1 \in DOMAIN new
    BY <1>2
  <2>3. InUse(new) <=> isActive
    BY <1>2, <2>1, <2>2 DEF InUse
  <2>. QED  BY <2>3 DEF InUse
<1>. QED  BY <1>7, <1>8 DEF new

\* The variables of the abstract ledger, as Profiles.tla maps them.
LedgerMap == [id \in Id |-> LedgerOf(profiles[id])]
LiveMap   == [id \in Id |-> InUse(profiles[id])]

LEMMA LedgerPublishes ==
    ASSUME IInv, NEW id \in Id, NEW c \in Content, NEW isActive \in BOOLEAN,
           profiles' = [profiles EXCEPT ![id] = NewGeneration(@, c, isActive)],
           AdvanceGeneration
    PROVE  Ledger!Publish(id, c, isActive)
<1>1. /\ profiles[id] \in Seq(Record) /\ WellFormed(profiles[id])
      /\ profiles'[id] = NewGeneration(profiles[id], c, isActive)
      /\ \A x \in Id \ {id} : profiles'[x] = profiles[x]
  BY DEF IInv, TypeOK, HistoryWellFormed, WellFormed
<1>2. LedgerMap' = [LedgerMap EXCEPT ![id] = Append(@, c)]
  <2>1. LedgerOf(profiles'[id]) = Append(LedgerOf(profiles[id]), c)
    BY <1>1, LedgerOfNewGeneration
  <2>2. \A x \in Id : x # id => LedgerOf(profiles'[x]) = LedgerOf(profiles[x])
    BY <1>1
  <2>. QED  BY <2>1, <2>2 DEF LedgerMap
<1>3. LiveMap' = [LiveMap EXCEPT ![id] = isActive]
  <2>1. InUse(profiles'[id]) = isActive
    BY <1>1, LedgerOfNewGeneration
  <2>2. \A x \in Id : x # id => InUse(profiles'[x]) = InUse(profiles[x])
    BY <1>1
  <2>. QED  BY <2>1, <2>2 DEF LiveMap
<1>. QED  BY <1>2, <1>3 DEF Ledger!Publish, LedgerMap, LiveMap, AdvanceGeneration

LEMMA LedgerWithdraws ==
    ASSUME IInv, NEW R \in SUBSET Id,
           profiles' = [x \in Id |-> IF x \in R THEN Retire(profiles[x]) ELSE profiles[x]],
           registryGen' \in {registryGen, registryGen + 1}
    PROVE  Ledger!Withdraw(R)
<1>1. \A x \in Id : profiles[x] \in Seq(Record)
  BY DEF IInv, TypeOK
<1>2. \A x \in R : LedgerOf(profiles'[x]) = LedgerOf(profiles[x]) /\ ~InUse(profiles'[x])
  BY <1>1, LedgerOfRetired, RetireProperties
<1>3. \A x \in Id \ R : profiles'[x] = profiles[x]
  OBVIOUS
<1>4. LedgerMap' = LedgerMap
  BY <1>2, <1>3 DEF LedgerMap
<1>5. LiveMap' = [x \in Id |-> LiveMap[x] /\ x \notin R]
  <2>1. \A x \in Id : InUse(profiles'[x]) <=> (InUse(profiles[x]) /\ x \notin R)
    BY <1>2, <1>3
  <2>. QED  BY <2>1 DEF LiveMap, InUse
<1>. QED  BY <1>4, <1>5 DEF Ledger!Withdraw, LedgerMap, LiveMap

LEMMA LedgerInit == Init => Ledger!Init
BY DEF Init, Ledger!Init, LedgerOf, InUse

LEMMA LedgerStep == IInv /\ [Next]_profileVars => [Ledger!Next]_(Ledger!ledgerVars)
<1> SUFFICES ASSUME IInv, [Next]_profileVars
             PROVE  [Ledger!Next]_(Ledger!ledgerVars)
  OBVIOUS
<1>1. TypeOK
  BY DEF IInv
<1>2. ASSUME NEW id \in Id, NEW c \in Content, NEW isActive \in BOOLEAN,
             RegisterAccepted(id, c, isActive)
      PROVE  Ledger!Next
  <2>1. Ledger!Publish(id, c, isActive)
    BY <1>2, LedgerPublishes DEF RegisterAccepted
  <2>. QED  BY <2>1 DEF Ledger!Next
<1>3. ASSUME NEW id \in Id, NEW c \in Content, SupersedeAccepted(id, c)
      PROVE  Ledger!Next
  <2>1. Ledger!Publish(id, c, TRUE)
    BY <1>3, LedgerPublishes DEF SupersedeAccepted
  <2>. QED  BY <2>1 DEF Ledger!Next
<1>4. ASSUME NEW id \in Id, profiles' = [profiles EXCEPT ![id] = Retire(@)],
             registryGen' \in {registryGen, registryGen + 1}
      PROVE  Ledger!Next
  <2>1. Ledger!Withdraw({id})
    BY <1>1, <1>4, RetireOne, LedgerWithdraws
  <2>. QED  BY <2>1 DEF Ledger!Next
<1>5. ASSUME NEW id \in Id, NEW c \in Content,
             RegisterRejected(id, c) \/ SupersedeRejected(id, c)
      PROVE  Ledger!Next
  BY <1>4, <1>5 DEF RegisterRejected, SupersedeRejected
<1>6. ASSUME NEW id \in Id, InvalidateProfile(id)
      PROVE  Ledger!Next
  BY <1>4, <1>6 DEF InvalidateProfile, AdvanceGeneration
<1>7. ASSUME NEW id \in Id, PropagateInvalidation(id)
      PROVE  Ledger!Next
  <2> DEFINE reached == {x \in Closure(reverse, id) : profiles[x] # <<>>}
  <2>1. reached \in SUBSET Id
    BY DEF Closure
  <2>2. Ledger!Withdraw(reached)
    BY <1>7, <2>1, LedgerWithdraws DEF PropagateInvalidation, AdvanceGeneration
  <2>. QED  BY <2>1, <2>2 DEF Ledger!Next
<1>8. CASE OtherMutation
  <2>1. profiles' = [x \in Id |-> IF x \in {} THEN Retire(profiles[x]) ELSE profiles[x]]
    BY <1>1, <1>8 DEF OtherMutation, TypeOK
  <2>2. Ledger!Withdraw({})
    BY <1>8, <2>1, LedgerWithdraws DEF OtherMutation, AdvanceGeneration
  <2>. QED  BY <2>2 DEF Ledger!Next
<1>9. CASE UNCHANGED profileVars
  BY <1>9 DEF profileVars, Ledger!ledgerVars
<1>. QED  BY <1>2, <1>3, <1>5, <1>6, <1>7, <1>8, <1>9 DEF Next, ProfileCall

\* The profile store implements the append-only ledger: every call, one that
\* throws included, is a publication, a withdrawal or nothing.
THEOREM StoreImplementsLedger == Spec => ImplementsLedger
<1>1. Init => Ledger!Init
  BY LedgerInit
<1>2. IInv /\ [Next]_profileVars => [Ledger!Next]_(Ledger!ledgerVars)
  BY LedgerStep
<1>. QED  BY <1>1, <1>2, InductiveInvariant, PTL DEF Spec, ImplementsLedger, Ledger!Spec

=============================================================================
