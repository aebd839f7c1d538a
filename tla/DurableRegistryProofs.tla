----------------------- MODULE DurableRegistryProofs -----------------------
(***************************************************************************)
(* Proofs about DurableRegistry.tla: what recover() builds from a snapshot *)
(* is what the registry that saved it had, as far as its promises go, for  *)
(* any number of crashes, failed saves and loads.                          *)
(***************************************************************************)
EXTENDS DurableRegistry, RegistryProofs

-----------------------------------------------------------------------------
(* Induction and recursion on the subsets of a finite set, by their least  *)
(* counterexamples.                                                        *)

LEMMA LeastNumber ==
    ASSUME NEW B \in SUBSET Nat, B # {}
    PROVE  \E m \in B : \A n \in B : m <= n
<1>1. PICK b \in B : TRUE
  OBVIOUS
<1> DEFINE upTo(k) == 1 .. k
           whole == upTo(b)
           initial == {upTo(k) : k \in {n \in B : n <= b}}
<1>2. initial \in SUBSET SUBSET whole /\ initial # {}
  BY <1>1
<1>3. IsFiniteSet(whole)
  BY FS_Interval
<1>4. PICK T \in initial : \A U \in initial : U \subseteq T => U = T
  <2> HIDE DEF initial, whole
  <2>. QED  BY <1>2, <1>3, LeastSubset
<1>5. PICK m \in B : m <= b /\ T = upTo(m)
  BY <1>4
<1>6. ASSUME NEW n \in B, n < m PROVE FALSE
  <2>1. upTo(n) \in initial
    BY <1>5, <1>6
  <2>2. upTo(n) \subseteq upTo(m)
    BY <1>6
  <2>3. upTo(n) = upTo(m)
    <3> HIDE DEF initial, upTo
    <3>. QED  BY <1>4, <1>5, <2>1, <2>2
  <2>4. m \in upTo(m) /\ m \notin upTo(n)
    BY <1>6
  <2>. QED  BY <2>3, <2>4
<1>. QED  BY <1>6

\* The largest number of a sequence's index set.
LEMMA LargestIndex ==
    ASSUME NEW n \in Nat, NEW S \in SUBSET (1 .. n), S # {}
    PROVE  Max(S) \in S /\ \A i \in S : i <= Max(S)
<1> DEFINE bounds == {k \in Nat : \A i \in S : i <= k}
<1>1. PICK m \in bounds : \A k \in bounds : m <= k
  <2>1. n \in bounds
    OBVIOUS
  <2> HIDE DEF bounds
  <2>2. bounds \in SUBSET Nat
    BY DEF bounds
  <2>. QED  BY <2>1, <2>2, LeastNumber
<1>2. m \in S
  <2> SUFFICES ASSUME m \notin S PROVE FALSE
    OBVIOUS
  <2>1. \A i \in S : i \in Nat /\ i <= m - 1
    BY <1>1
  <2>3. m - 1 \in Nat
    <3>1. PICK i \in S : i \in Nat /\ i <= m - 1
      BY <2>1
    <3>. QED  BY <1>1, <3>1
  <2>2. m - 1 \in bounds
    BY <2>1, <2>3
  <2>. QED  BY <1>1, <2>2
<1>. QED  BY <1>1, <1>2 DEF Max

PicksMember(pick, D) == \A S \in SUBSET D : S # {} => pick[S] \in S

Recursion(f, D, base, pick, next) ==
    \A S \in SUBSET D :
        f[S] = IF S = {} THEN base ELSE next[pick[S]][f[S \ {pick[S]}]]

\* A function on the subsets of D whose value at a set is made of the value
\* at the set without one picked element: it exists, as the relation that is
\* contained in every relation closed under the recursion.
LEMMA RecursionOnSubsets ==
    ASSUME NEW D, IsFiniteSet(D), NEW V, NEW base \in V,
           NEW pick, PicksMember(pick, D), NEW next \in [D -> [V -> V]]
    PROVE  \E f \in [SUBSET D -> V] : Recursion(f, D, base, pick, next)
<1>. \A S \in SUBSET D : S # {} => pick[S] \in S
  BY DEF PicksMember
<1> DEFINE Closed(Q) ==
               /\ <<{}, base>> \in Q
               /\ \A S \in SUBSET D, v \in V :
                     S # {} /\ <<S \ {pick[S]}, v>> \in Q => <<S, next[pick[S]][v]>> \in Q
           pairs == (SUBSET D) \X V
           graph == {p \in pairs : \A Q \in SUBSET pairs : Closed(Q) => p \in Q}
           Value(S) == {v \in V : <<S, v>> \in graph}
<1>1. Closed(graph)
  <2>1. <<{}, base>> \in graph
    OBVIOUS
  <2>2. ASSUME NEW S \in SUBSET D, NEW v \in V, S # {}, <<S \ {pick[S]}, v>> \in graph
        PROVE  <<S, next[pick[S]][v]>> \in graph
    <3>1. next[pick[S]][v] \in V
      BY <2>2
    <3>2. ASSUME NEW Q \in SUBSET pairs, Closed(Q)
          PROVE  <<S, next[pick[S]][v]>> \in Q
      BY <2>2, <3>2
    <3>. QED  BY <3>1, <3>2
  <2> HIDE DEF graph
  <2>. QED  BY <2>1, <2>2
<1>2. graph \subseteq pairs /\ \A Q \in SUBSET pairs : Closed(Q) => graph \subseteq Q
  OBVIOUS
<1> HIDE DEF graph
<1>3. Value({}) = {base}
  <2>1. base \in Value({})
    BY <1>1
  <2>2. ASSUME NEW v \in Value({}), v # base PROVE FALSE
    <3> DEFINE fewer == graph \ {<<{}, v>>}
    <3>1. Closed(fewer)
      BY <1>1, <2>2
    <3>. QED  BY <1>2, <3>1
  <2>. QED  BY <2>1, <2>2
<1>4. ASSUME NEW S \in SUBSET D, S # {}, NEW u \in V, Value(S \ {pick[S]}) = {u}
      PROVE  Value(S) = {next[pick[S]][u]}
  <2>1. next[pick[S]][u] \in Value(S)
    <3>1. <<S \ {pick[S]}, u>> \in graph
      BY <1>4
    <3>2. <<S, next[pick[S]][u]>> \in graph
      BY <1>1, <1>4, <3>1
    <3>3. next[pick[S]] \in [V -> V]
      BY <1>4
    <3>. QED  BY <3>2, <3>3
  <2>2. ASSUME NEW v \in Value(S), v # next[pick[S]][u] PROVE FALSE
    <3> DEFINE fewer == graph \ {<<S, v>>}
    <3>1. <<{}, base>> \in fewer
      BY <1>1, <1>4
    <3>2. ASSUME NEW T \in SUBSET D, NEW w \in V, T # {}, <<T \ {pick[T]}, w>> \in fewer
          PROVE  <<T, next[pick[T]][w]>> \in fewer
      <4>1. <<T, next[pick[T]][w]>> \in graph
        BY <1>1, <3>2
      <4>2. T = S => w = u
        BY <1>4, <3>2
      <4>. QED  BY <2>2, <4>1, <4>2
    <3>3. Closed(fewer)
      BY <3>1, <3>2
    <3>. QED  BY <1>2, <3>3
  <2>. QED  BY <2>1, <2>2
<1>5. \A S \in SUBSET D : \E v \in V : Value(S) = {v}
  <2> DEFINE many == {S \in SUBSET D : ~ \E v \in V : Value(S) = {v}}
  <2> SUFFICES ASSUME many # {} PROVE FALSE
    OBVIOUS
  <2>1. PICK S \in many : \A T \in many : T \subseteq S => T = S
    <3>1. many \in SUBSET SUBSET D
      OBVIOUS
    <3> HIDE DEF many
    <3>. QED  BY <3>1, LeastSubset
  <2>2. S # {}
    BY <1>3
  <2>3. S \ {pick[S]} \in SUBSET D /\ S \ {pick[S]} # S
    BY <2>2
  <2>4. PICK u \in V : Value(S \ {pick[S]}) = {u}
    <3>1. S \ {pick[S]} \notin many
      <4> HIDE DEF many
      <4>. QED  BY <2>1, <2>3
    <3> HIDE DEF Value
    <3>. QED  BY <2>3, <3>1
  <2>5. Value(S) = {next[pick[S]][u]}
    BY <1>4, <2>2, <2>4
  <2>. QED  BY <2>2, <2>5
<1> DEFINE f == [S \in SUBSET D |-> CHOOSE v \in V : Value(S) = {v}]
<1>6. \A S \in SUBSET D : f[S] \in V /\ Value(S) = {f[S]}
  BY <1>5
<1>. f \in [SUBSET D -> V]
  BY <1>6
<1> HIDE DEF Value, f
<1>7. ASSUME NEW S \in SUBSET D
      PROVE  f[S] = IF S = {} THEN base ELSE next[pick[S]][f[S \ {pick[S]}]]
  <2>1. CASE S = {}
    BY <1>3, <1>6, <2>1
  <2>2. CASE S # {}
    <3> DEFINE rest == S \ {pick[S]}
    <3>1. f[rest] \in V /\ Value(rest) = {f[rest]}
      BY <1>6
    <3>2. Value(S) = {next[pick[S]][f[rest]]}
      BY <1>4, <2>2, <3>1
    <3>3. Value(S) = {f[S]}
      BY <1>6
    <3>. QED  BY <2>2, <3>2, <3>3
  <2>. QED  BY <2>1, <2>2
<1>. QED  BY <1>7 DEF Recursion

-----------------------------------------------------------------------------
(* The edges recover() builds.                                             *)

Edges == [deps : P!Graph, reverse : P!Graph]

\* Both maps, agreeing.
Exact(g) == /\ g \in Edges
            /\ \A d \in Id : g.reverse[d] = {x \in Id : d \in g.deps[x]}

LEMMA AddDependencyKeeps ==
    ASSUME NEW g, Exact(g), NEW id \in Id, NEW ds \in SUBSET Id
    PROVE  /\ Exact(AddDependency(g, id, ds))
           /\ AddDependency(g, id, ds).deps[id] = ds \ {id}
           /\ \A x \in Id \ {id} : AddDependency(g, id, ds).deps[x] = g.deps[x]
<1> DEFINE h == AddDependency(g, id, ds)
<1>1. g.deps \in P!Graph /\ g.reverse \in P!Graph
  BY DEF Exact, Edges
<1>2. /\ h.deps = P!ReplaceEdges(g.deps, id, ds)
      /\ h.reverse = P!ReplaceReverse(g.reverse, id, g.deps[id], ds)
      /\ h = [deps |-> h.deps, reverse |-> h.reverse]
  BY DEF AddDependency
<1>3. /\ h.deps \in P!Graph
      /\ h.deps[id] = ds \ {id}
      /\ \A x \in Id \ {id} : h.deps[x] = g.deps[x]
  BY <1>1, <1>2 DEF P!Graph, P!ReplaceEdges
<1>4. h.reverse \in P!Graph
  BY <1>1, <1>2 DEF P!Graph, P!ReplaceReverse, P!DropReverse
<1>5. \A d \in Id : h.reverse[d] = {x \in Id : d \in h.deps[x]}
  BY <1>1, <1>2, <1>3 DEF Exact, P!Graph, P!ReplaceReverse, P!DropReverse
<1>6. h \in Edges
  <2> HIDE DEF h
  <2>. QED  BY <1>2, <1>3, <1>4 DEF Edges
<1>. QED  BY <1>3, <1>5, <1>6 DEF Exact

\* h is g with the edges of the newest record of a history, if it has one.
LeavesNewest(h, g, id, hist) ==
    /\ Exact(h)
    /\ h.deps[id] = IF hist = <<>> THEN g.deps[id]
                    ELSE hist[Len(hist)].content.deps \ {id}
    /\ \A x \in Id \ {id} : h.deps[x] = g.deps[x]

\* The fold over a history leaves the edges of its last record.
LEMMA AddHistoryEffect ==
    ASSUME NEW g, Exact(g), NEW id \in Id, NEW hist \in Seq(P!Record)
    PROVE  LeavesNewest(AddHistory(g, id, hist), g, id, hist)
<1> DEFINE D == DOMAIN hist
           V == {h \in Edges : Exact(h) /\ \A x \in Id \ {id} : h.deps[x] = g.deps[x]}
           Add(d, v) == AddDependency(v, id, hist[d].content.deps)
           pick == [S \in (SUBSET D) \ {{}} |-> Max(S)]
           next == [d \in D |-> [v \in V |-> Add(d, v)]]
<1>1. Len(hist) \in Nat /\ D = 1 .. Len(hist) /\ \A d \in D : hist[d] \in P!Record
  BY ElementOfSeq
<1>2. IsFiniteSet(D)
  BY <1>1, FS_Interval
<1>3. \A S \in SUBSET D : S # {} => Max(S) \in S /\ \A i \in S : i <= Max(S)
  BY <1>1, LargestIndex
<1>4. \A d \in D, v \in V : Add(d, v) \in V /\ Add(d, v).deps[id]
                                                 = hist[d].content.deps \ {id}
  <2> TAKE d \in D, v \in V
  <2>1. hist[d].content.deps \in SUBSET Id
    BY <1>1, ProfileConstantsAssumption DEF P!Record, P!Content
  <2>. QED  BY <2>1, AddDependencyKeeps DEF Exact
<1>5. g \in V
  BY DEF Exact
<1>6. \E f : f = [S \in SUBSET D |-> IF S = {} THEN g
                                     ELSE Add(Max(S), f[S \ {Max(S)}])]
  <2>1. PicksMember(pick, D)
    BY <1>3 DEF PicksMember
  <2>2. next \in [D -> [V -> V]]
    BY <1>4
  <2>3. PICK f \in [SUBSET D -> V] : Recursion(f, D, g, pick, next)
    <3> HIDE DEF pick, next, V, D
    <3>. QED  BY <1>2, <1>5, <2>1, <2>2, RecursionOnSubsets, Zenon
  <2>4. \A S \in SUBSET D : f[S] = IF S = {} THEN g ELSE Add(Max(S), f[S \ {Max(S)}])
    <3> TAKE S \in SUBSET D
    <3>1. CASE S = {}
      BY <2>3, <3>1 DEF Recursion
    <3>2. CASE S # {}
      <4>1. pick[S] = Max(S) /\ Max(S) \in D
        BY <1>3, <3>2
      <4>2. f[S \ {Max(S)}] \in V
        OBVIOUS
      <4>3. f[S] = next[Max(S)][f[S \ {Max(S)}]]
        BY <2>3, <3>2, <4>1 DEF Recursion
      <4>. QED  BY <3>2, <4>1, <4>2, <4>3
    <3>. QED  BY <3>1, <3>2
  <2>5. f = [S \in SUBSET D |-> f[S]]
    OBVIOUS
  <2>. QED  BY <2>4, <2>5, Zenon
<1>7. PICK f : /\ f = [S \in SUBSET D |-> IF S = {} THEN g
                                          ELSE Add(Max(S), f[S \ {Max(S)}])]
               /\ AddHistory(g, id, hist) = f[D]
  BY <1>6, Zenon DEF AddHistory, FoldLeft, MapThenFoldSet
<1>8. \A S \in SUBSET D : f[S] = IF S = {} THEN g ELSE Add(Max(S), f[S \ {Max(S)}])
  BY <1>7
<1> HIDE DEF Add
<1>9. \A S \in SUBSET D : f[S] \in V
  <2> DEFINE others == {S \in SUBSET D : f[S] \notin V}
  <2> SUFFICES ASSUME others # {} PROVE FALSE
    OBVIOUS
  <2>1. PICK S \in others : \A T \in others : T \subseteq S => T = S
    <3>1. others \in SUBSET SUBSET D
      OBVIOUS
    <3> HIDE DEF others, D
    <3>. QED  BY <1>2, <3>1, LeastSubset
  <2>2. S \in SUBSET D /\ S # {}
    BY <1>5, <1>8
  <2>3. Max(S) \in S
    BY <1>3, <2>2
  <2>4. f[S \ {Max(S)}] \in V
    <3>1. S \ {Max(S)} \notin others
      <4> HIDE DEF others
      <4>. QED  BY <2>1, <2>3
    <3> HIDE DEF V
    <3>. QED  BY <2>2, <3>1
  <2> HIDE DEF V
  <2>. QED  BY <1>4, <1>8, <2>2, <2>3, <2>4
<1>10. hist # <<>> => f[D].deps[id] = hist[Len(hist)].content.deps \ {id}
  <2> HAVE hist # <<>>
  <2>1. D # {} /\ Len(hist) \in D
    BY <1>1, EmptySeq
  <2> HIDE DEF D
  <2>2. Max(D) \in D /\ \A i \in D : i <= Max(D)
    BY <1>3, <2>1
  <2>3. Max(D) = Len(hist)
    BY <1>1, <2>1, <2>2
  <2>4. f[D] = Add(Max(D), f[D \ {Max(D)}])
    BY <1>8, <2>1
  <2> HIDE DEF V
  <2>5. f[D \ {Max(D)}] \in V
    BY <1>9
  <2>. QED  BY <1>4, <2>1, <2>3, <2>4, <2>5
<1>11. f[D] \in V
  <2> HIDE DEF V
  <2>. QED  BY <1>9
<1>12. hist = <<>> => f[D] = g
  <2>1. hist = <<>> => D = {}
    BY <1>1
  <2> HIDE DEF D
  <2>. QED  BY <1>8, <2>1
<1>. QED  BY <1>7, <1>10, <1>11, <1>12 DEF LeavesNewest

\* The edges of the newest record.
NewestEdges(hist, id) ==
    IF hist = <<>> THEN {} ELSE hist[Len(hist)].content.deps \ {id}

\* What recover() builds: two maps that agree, with the edges of the newest
\* record of every identity, and no other edge.
LEMMA RebuiltEffect ==
    ASSUME NEW hists \in [Id -> Seq(P!Record)]
    PROVE  /\ Exact(Rebuilt(hists))
           /\ \A x \in Id : Rebuilt(hists).deps[x] = NewestEdges(hists[x], x)
<1> DEFINE V == {h \in Edges : Exact(h)}
           Chosen(S) == CHOOSE x \in S : TRUE
           Add(x, v) == AddHistory(v, x, hists[x])
           pick == [S \in (SUBSET Id) \ {{}} |-> Chosen(S)]
           next == [x \in Id |-> [v \in V |-> Add(x, v)]]
           Newest(S, h) == \A x \in Id :
                              h.deps[x] = IF x \in S THEN NewestEdges(hists[x], x) ELSE {}
<1>1. IsFiniteSet(Id)
  BY IdAssumption
<1>2. \A S \in SUBSET Id : S # {} => Chosen(S) \in S
  OBVIOUS
<1>3. \A x \in Id, v \in V :
         /\ Add(x, v) \in V
         /\ v.deps[x] = {} => Add(x, v).deps[x] = NewestEdges(hists[x], x)
         /\ \A y \in Id \ {x} : Add(x, v).deps[y] = v.deps[y]
  <2> TAKE x \in Id, v \in V
  <2>1. /\ Exact(Add(x, v))
        /\ Add(x, v).deps[x] = IF hists[x] = <<>> THEN v.deps[x]
                               ELSE hists[x][Len(hists[x])].content.deps \ {x}
        /\ \A y \in Id \ {x} : Add(x, v).deps[y] = v.deps[y]
    <3>1. PICK hist \in Seq(P!Record) : hist = hists[x]
      OBVIOUS
    <3>2. Exact(v)
      OBVIOUS
    <3>3. LeavesNewest(AddHistory(v, x, hist), v, x, hist)
      BY <3>2, AddHistoryEffect
    <3>. QED  BY <3>1, <3>3 DEF LeavesNewest
  <2>2. Add(x, v) \in V
    BY <2>1 DEF Exact
  <2> HIDE DEF Add
  <2>. QED  BY <2>1, <2>2 DEF NewestEdges
<1>4. NoEdges \in V /\ Newest({}, NoEdges)
  BY DEF NoEdges, Edges, Exact, P!EmptyGraph, P!Graph
<1>5. \E f : f = [S \in SUBSET Id |-> IF S = {} THEN NoEdges
                                      ELSE Add(Chosen(S), f[S \ {Chosen(S)}])]
  <2>1. PicksMember(pick, Id)
    BY <1>2 DEF PicksMember
  <2>2. next \in [Id -> [V -> V]]
    BY <1>3
  <2>3. PICK f \in [SUBSET Id -> V] : Recursion(f, Id, NoEdges, pick, next)
    <3> HIDE DEF pick, next, V
    <3>. QED  BY <1>1, <1>4, <2>1, <2>2, RecursionOnSubsets, Zenon
  <2> HIDE DEF Chosen
  <2>4. \A S \in SUBSET Id : f[S] = IF S = {} THEN NoEdges
                                    ELSE Add(Chosen(S), f[S \ {Chosen(S)}])
    <3> TAKE S \in SUBSET Id
    <3>1. CASE S = {}
      BY <2>3, <3>1 DEF Recursion
    <3>2. CASE S # {}
      <4>1. pick[S] = Chosen(S) /\ Chosen(S) \in Id
        BY <1>2, <3>2
      <4>2. f[S \ {Chosen(S)}] \in V
        OBVIOUS
      <4>3. f[S] = next[Chosen(S)][f[S \ {Chosen(S)}]]
        BY <2>3, <3>2, <4>1 DEF Recursion
      <4>. QED  BY <3>2, <4>1, <4>2, <4>3
    <3>. QED  BY <3>1, <3>2
  <2>5. f = [S \in SUBSET Id |-> f[S]]
    OBVIOUS
  <2>. QED  BY <2>4, <2>5, Zenon
<1>6. PICK f : /\ f = [S \in SUBSET Id |-> IF S = {} THEN NoEdges
                                           ELSE Add(Chosen(S), f[S \ {Chosen(S)}])]
               /\ Rebuilt(hists) = f[Id]
  BY <1>5, Zenon DEF Rebuilt, FoldSet, MapThenFoldSet
<1> HIDE DEF Chosen
<1>7. \A S \in SUBSET Id : f[S] = IF S = {} THEN NoEdges
                                  ELSE Add(Chosen(S), f[S \ {Chosen(S)}])
  BY <1>6
<1> HIDE DEF Add
<1>8. \A S \in SUBSET Id : f[S] \in V /\ Newest(S, f[S])
  <2> DEFINE others == {S \in SUBSET Id : ~(f[S] \in V /\ Newest(S, f[S]))}
  <2> SUFFICES ASSUME others # {} PROVE FALSE
    OBVIOUS
  <2>1. PICK S \in others : \A T \in others : T \subseteq S => T = S
    <3>1. others \in SUBSET SUBSET Id
      OBVIOUS
    <3> HIDE DEF others
    <3>. QED  BY <1>1, <3>1, LeastSubset
  <2>2. S \in SUBSET Id /\ S # {}
    BY <1>4, <1>7
  <2> DEFINE x == Chosen(S)
             rest == S \ {x}
  <2>3. x \in S /\ x \in Id
    BY <1>2, <2>2
  <2>4. f[rest] \in V /\ Newest(rest, f[rest])
    <3>1. rest \notin others
      <4> HIDE DEF others
      <4>. QED  BY <2>1, <2>3
    <3> HIDE DEF V, Newest
    <3>. QED  BY <2>2, <3>1
  <2>5. f[S] = Add(x, f[rest])
    BY <1>7, <2>2
  <2>6. f[S] \in V
    BY <1>3, <2>3, <2>4, <2>5
  <2>7. Newest(S, f[S])
    <3> HIDE DEF V, x
    <3>1. PICK r \in V : r = f[rest] /\ Newest(rest, r)
      BY <2>4
    <3>2. r.deps[x] = {}
      BY <2>3, <3>1
    <3>3. /\ Add(x, r).deps[x] = NewestEdges(hists[x], x)
          /\ \A y \in Id \ {x} : Add(x, r).deps[y] = r.deps[y]
      BY <1>3, <2>3, <3>2
    <3>4. f[S] = Add(x, r)
      BY <2>5, <3>1
    <3>. QED  BY <2>2, <2>3, <3>1, <3>3, <3>4
  <2>. QED  BY <2>6, <2>7
<1>9. f[Id] \in V /\ Newest(Id, f[Id])
  <2> HIDE DEF V, Newest
  <2>. QED  BY <1>8
<1>. QED  BY <1>6, <1>9

-----------------------------------------------------------------------------
(* The inductive invariant: of the memory, and of the file.                *)

\* The decisions of a cache, with the scope their ids name.
Cache(ds) == {<<d.decision_id[4], d>> : d \in {e \in ds : e.decision_id # Zero}}

MemoryInv == PP!IInv /\ HistoriesTyped /\ RulesTyped /\ Sound(Cache(decisions))

\* The registry a whole file describes, before its edges are built.
Saved == INSTANCE RegistryProofs
             WITH profiles <- disk[1].profiles, deps <- P!EmptyGraph,
                  reverse <- P!EmptyGraph, invalidations <- disk[1].invalidations,
                  registryGen <- disk[1].registryGen, rules <- disk[1].rules,
                  ruleGen <- 0, policy <- disk[1].policy, evidence <- disk[1].evidence,
                  decisions <- disk[1].decisions, issued <- {}

FileInv == disk # <<>> =>
    /\ Saved!PP!TypeOK /\ Saved!PP!HistoryWellFormed /\ Saved!PP!InvalidatedNeverServed
    /\ Saved!HistoriesTyped /\ Saved!RulesTyped /\ Saved!Sound(Cache(disk[1].decisions))

DurableInv == MemoryInv /\ FileInv

-----------------------------------------------------------------------------
(* What the file says of a registry in the words of Saved is what the      *)
(* registry itself says, once it has been saved or loaded.                 *)

AsSaved == /\ disk[1].profiles = profiles /\ disk[1].invalidations = invalidations
           /\ disk[1].registryGen = registryGen /\ disk[1].rules = rules
           /\ disk[1].policy = policy /\ disk[1].decisions = decisions

LEMMA SavedDecide ==
    ASSUME NEW S, NEW ev
    PROVE  Saved!Decide(S, ev) = Decide(S, ev)
<1>1. \A rule : Saved!EvalRule(rule, ev) = EvalRule(rule, ev)
  BY DEF EvalRule, VetoHolds, SkippedVetoes, RequiredHold, AlternativeHolds, KindOutcome,
         UnknownConditions, Result, RequiredResult, AlternativesResult, KindResult, With,
         Saved!EvalRule, Saved!VetoHolds, Saved!SkippedVetoes, Saved!RequiredHold,
         Saved!AlternativeHolds, Saved!KindOutcome, Saved!UnknownConditions,
         Saved!Result, Saved!RequiredResult, Saved!AlternativesResult,
         Saved!KindResult, Saved!With
<1>2. \A T : Saved!First(T) = First(T)
  BY DEF First, Before, Saved!First, Saved!Before
<1>3. Saved!Definite(S, ev) = Definite(S, ev)
  BY <1>1 DEF Definite, Saved!Definite
<1>4. Saved!NoDefiniteOutcome(S, ev) = NoDefiniteOutcome(S, ev)
  BY <1>1 DEF NoDefiniteOutcome, Saved!NoDefiniteOutcome
<1>. QED  BY <1>1, <1>2, <1>3, <1>4 DEF Decide, Saved!Decide

LEMMA SavedCandidates ==
    ASSUME disk'[1].rules = rules', NEW scope, NEW l, NEW r
    PROVE  Saved!Candidates(scope, l, r)' = Candidates(scope, l, r)'
BY DEF Candidates, Saved!Candidates

LEMMA SavedAnswer ==
    ASSUME AsSaved', NEW left, NEW right, NEW scope
    PROVE  /\ Saved!Evaluate(left, right, scope)' = Evaluate(left, right, scope)'
           /\ Saved!Unresolved(left)' <=> Unresolved(left)'
           /\ Saved!Unresolved(right)' <=> Unresolved(right)'
<1>1. PICK l, r : l = Resolved(profiles'[left]) /\ r = Resolved(profiles'[right])
  OBVIOUS
<1>2. /\ Saved!Resolved(disk'[1].profiles[left]) = l
      /\ Saved!Resolved(disk'[1].profiles[right]) = r
  BY <1>1 DEF AsSaved, Resolved, Saved!Resolved, P!NewestActive, Saved!P!NewestActive
<1>3. /\ Saved!Unresolved(left)' <=> Unresolved(left)'
      /\ Saved!Unresolved(right)' <=> Unresolved(right)'
  BY DEF AsSaved, Unresolved, Saved!Unresolved, P!NewestActive, Saved!P!NewestActive
<1>4. Saved!NoDecision(left, right)' = NoDecision(left, right)'
  BY DEF AsSaved, NoDecision, Saved!NoDecision, Zero, Saved!Zero
<1>5. Saved!RuleDecision(left, right, l, r, scope)' = RuleDecision(left, right, l, r, scope)'
  <2>1. Saved!Candidates(scope, l, r)' = Candidates(scope, l, r)'
    BY SavedCandidates DEF AsSaved
  <2>2. Judgement[<<Saved!View(l), Saved!View(r)>>] = Judgement[<<View(l), View(r)>>]
    BY DEF View, Saved!View
  <2>. QED  BY <2>1, <2>2, SavedDecide DEF AsSaved, RuleDecision, Saved!RuleDecision
<1>. QED  BY <1>1, <1>2, <1>3, <1>4, <1>5 DEF Evaluate, Saved!Evaluate

LEMMA SavedSound ==
    ASSUME AsSaved', NEW S
    PROVE  Saved!Sound(S)' <=> Sound(S)'
<1>1. Saved!Dated(S)' <=> Dated(S)'
  BY DEF AsSaved, Dated, Saved!Dated
<1>2. Saved!IdsNameInputs(S)' <=> IdsNameInputs(S)'
  BY DEF IdsNameInputs, Saved!IdsNameInputs, Zero, Saved!Zero
<1>3. Saved!AnswersStand(S)' <=> AnswersStand(S)'
  BY SavedAnswer DEF AsSaved, AnswersStand, Saved!AnswersStand, Zero, Saved!Zero
<1>4. Saved!Governed(S)' <=> Governed(S)'
  BY DEF AsSaved, Governed, Saved!Governed, Held, Saved!Held
<1>5. Saved!Unambiguous(S)' <=> Unambiguous(S)'
  BY DEF Unambiguous, Saved!Unambiguous, Zero, Saved!Zero
<1>. QED  BY <1>1, <1>2, <1>3, <1>4, <1>5 DEF Sound, Saved!Sound

LEMMA SavedProfiles ==
    ASSUME AsSaved'
    PROVE  /\ Saved!HistoriesTyped' <=> HistoriesTyped'
           /\ Saved!PP!HistoryWellFormed' <=> PP!HistoryWellFormed'
           /\ Saved!PP!InvalidatedNeverServed' <=> PP!InvalidatedNeverServed'
           /\ Saved!PP!TypeOK' <=> /\ profiles' \in [Id -> Seq(PP!Record)]
                                   /\ invalidations' \subseteq PP!Invalidation
                                   /\ registryGen' \in 0 .. MaxRegistryGen
<1>1. Saved!HistoriesTyped' <=> HistoriesTyped'
  BY DEF AsSaved, HistoriesTyped, Saved!HistoriesTyped, P!Record, Saved!P!Record,
         P!Content, Saved!P!Content
<1>2. Saved!PP!HistoryWellFormed' <=> PP!HistoryWellFormed'
  BY DEF AsSaved, PP!HistoryWellFormed, Saved!PP!HistoryWellFormed
<1>3. Saved!PP!InvalidatedNeverServed' <=> PP!InvalidatedNeverServed'
  BY DEF AsSaved, PP!InvalidatedNeverServed, Saved!PP!InvalidatedNeverServed
<1>4. Saved!PP!TypeOK' <=> /\ profiles' \in [Id -> Seq(PP!Record)]
                           /\ invalidations' \subseteq PP!Invalidation
                           /\ registryGen' \in 0 .. MaxRegistryGen
  BY DEF AsSaved, PP!Record, Saved!PP!Record, PP!Content, Saved!PP!Content,
         PP!Invalidation, Saved!PP!Invalidation, Saved!PP!TypeOK, P!EmptyGraph,
         Saved!PP!Graph
<1>. QED  BY <1>1, <1>2, <1>3, <1>4

LEMMA SavedRules ==
    ASSUME AsSaved', RulesTyped'
    PROVE  Saved!RulesTyped'
BY DEF AsSaved, RulesTyped, Saved!RulesTyped, RuleRecord, Saved!RuleRecord

-----------------------------------------------------------------------------
(* The steps.                                                              *)

\* Whatever the registry does with its decisions, those in its cache stay
\* sound: a decision that displaces one with its digest is sound beside all.
LEMMA MemoryStep == MemoryInv /\ [Next]_registryVars => MemoryInv'
<1> SUFFICES ASSUME MemoryInv, [Next]_registryVars PROVE MemoryInv'
  OBVIOUS
<1>1. PP!IInv'
  BY ProfilesInvStep DEF MemoryInv
<1>2. HistoriesTyped /\ RulesTyped /\ HistoriesTyped' /\ RulesTyped'
  BY StepEffect DEF MemoryInv
<1>3. PICK S, U : S = Cache(decisions) /\ U = Cache(decisions')
  OBVIOUS
<1>4. Sound(S)
  BY <1>3 DEF MemoryInv
<1>5. Sound(U)
  <2>1. CASE UNCHANGED decisions
    BY <1>3, <1>4, <2>1
  <2>2. ASSUME NEW q \in Request, EvaluateAndCache(q[1], q[2], q[3])
        PROVE  Sound(U)
    <3> DEFINE d == Evaluate(q[1], q[2], q[3])
               y == <<q[3], d>>
    <3>1. d.decision_id # Zero => d.decision_id[4] = q[3]
      BY <1>2, DecisionFacts
    <3>2. decisions' \subseteq decisions \cup {d}
      BY <2>2 DEF EvaluateAndCache, Cached
    <3>3. Sound(S \cup {y})
      BY <1>2, <1>4, EvaluationKeepsSound
    <3> HIDE DEF d
    <3>4. U \subseteq S \cup {y}
      BY <1>3, <3>1, <3>2 DEF Cache
    <3> HIDE DEF y
    <3>. QED  BY <3>3, <3>4, SoundSubset
  <2>3. UNCHANGED decisions \/ \E q \in Request : EvaluateAndCache(q[1], q[2], q[3])
    BY DEF Next, registryVars, decisionVars, ProfileStep, RegisterRule, SupersedeRule,
           DisableRule, SetPolicy, RegisterEvidence
  <2>. QED  BY <2>1, <2>2, <2>3
<1>6. Sound(U)'
  BY <1>2, <1>5, SoundStep
<1>. QED  BY <1>1, <1>2, <1>3, <1>6 DEF MemoryInv

\* The answers a file gives depend on the file alone.
LEMMA SavedAnswerStands ==
    ASSUME UNCHANGED disk, NEW left, NEW right, NEW scope
    PROVE  /\ Saved!Evaluate(left, right, scope)' = Saved!Evaluate(left, right, scope)
           /\ Saved!Unresolved(left)' <=> Saved!Unresolved(left)
           /\ Saved!Unresolved(right)' <=> Saved!Unresolved(right)
<1>1. PICK l, r : /\ l = Saved!Resolved(disk[1].profiles[left])
                  /\ r = Saved!Resolved(disk[1].profiles[right])
  OBVIOUS
<1>2. Saved!Candidates(scope, l, r)' = Saved!Candidates(scope, l, r)
  BY DEF Saved!Candidates
<1>3. Saved!NoDecision(left, right)' = Saved!NoDecision(left, right)
  BY DEF Saved!NoDecision
<1>4. Saved!RuleDecision(left, right, l, r, scope)'
         = Saved!RuleDecision(left, right, l, r, scope)
  BY <1>2 DEF Saved!RuleDecision
<1>5. /\ Saved!Unresolved(left)' <=> Saved!Unresolved(left)
      /\ Saved!Unresolved(right)' <=> Saved!Unresolved(right)
  BY DEF Saved!Unresolved
<1>. QED  BY <1>1, <1>3, <1>4, <1>5 DEF Saved!Evaluate

\* What is true of a file stays true of it as long as nobody writes to it, and
\* nothing is asked of a file that is not whole.
LEMMA FileStep == FileInv /\ (UNCHANGED disk \/ disk' = <<>>) => FileInv'
<1> SUFFICES ASSUME FileInv, UNCHANGED disk, disk # <<>> PROVE FileInv'
  BY DEF FileInv
<1>1. PICK S : S = Cache(disk[1].decisions)
  OBVIOUS
<1>2. Saved!Sound(S)'
  <2>1. Saved!Sound(S)
    BY <1>1 DEF FileInv
  <2>2. /\ Saved!Dated(S)' /\ Saved!IdsNameInputs(S)' /\ Saved!Governed(S)'
        /\ Saved!Unambiguous(S)'
    BY <2>1 DEF Saved!Sound, Saved!Dated, Saved!IdsNameInputs, Saved!Governed,
                Saved!Held, Saved!Unambiguous
  <2>3. Saved!AnswersStand(S)'
    BY <2>1, SavedAnswerStands DEF Saved!Sound, Saved!AnswersStand
  <2>. QED  BY <2>2, <2>3 DEF Saved!Sound
<1>3. Saved!PP!TypeOK' /\ Saved!HistoriesTyped' /\ Saved!RulesTyped'
  BY DEF FileInv, Saved!PP!TypeOK, Saved!HistoriesTyped, Saved!RulesTyped
<1>4. Saved!PP!HistoryWellFormed' /\ Saved!PP!InvalidatedNeverServed'
  BY DEF FileInv, Saved!PP!HistoryWellFormed, Saved!PP!InvalidatedNeverServed
<1>. QED  BY <1>1, <1>2, <1>3, <1>4 DEF FileInv

LEMMA DurableRegistryStep == DurableInv /\ RegistryStep => DurableInv'
BY MemoryStep, FileStep DEF DurableInv, RegistryStep

\* save() that succeeds.
LEMMA SaveStep == DurableInv /\ Save => DurableInv'
<1> SUFFICES ASSUME DurableInv, Save PROVE DurableInv'
  OBVIOUS
<1>1. AsSaved' /\ UNCHANGED registryVars
  BY DEF Save, Snapshot, AsSaved, memory, registryVars, profileVars, ruleVars, decisionVars
<1>2. MemoryInv'
  BY <1>1, MemoryStep DEF DurableInv
<1>3. PICK S : S = Cache(decisions')
  OBVIOUS
<1>4. Saved!HistoriesTyped' /\ Saved!RulesTyped' /\ Saved!Sound(S)'
  BY <1>1, <1>2, <1>3, SavedProfiles, SavedRules, SavedSound DEF MemoryInv
<1>5. /\ Saved!PP!TypeOK' /\ Saved!PP!HistoryWellFormed'
      /\ Saved!PP!InvalidatedNeverServed'
  <2>1. /\ PP!HistoryWellFormed' /\ PP!InvalidatedNeverServed'
        /\ profiles' \in [Id -> Seq(PP!Record)]
        /\ invalidations' \subseteq PP!Invalidation
        /\ registryGen' \in 0 .. MaxRegistryGen
    BY <1>2 DEF MemoryInv, PP!IInv, PP!TypeOK
  <2>. QED  BY <1>1, <2>1, SavedProfiles
<1>6. S = Cache(disk'[1].decisions)
  BY <1>1, <1>3 DEF AsSaved
<1>. QED  BY <1>2, <1>4, <1>5, <1>6 DEF DurableInv, FileInv

\* The lifecycle of profiles with the edges recover() builds for them: the
\* edges of the newest records are those of the records in use, and no others
\* can close a cycle, for recover() refuses to go on when they do.
LEMMA RestoredProfiles ==
    ASSUME NEW hists \in [Id -> Seq(P!Record)], profiles' = hists,
           deps' = Rebuilt(hists).deps, reverse' = Rebuilt(hists).reverse,
           ~P!HasCycle(Rebuilt(hists).deps),
           PP!HistoryWellFormed', PP!InvalidatedNeverServed',
           invalidations' \subseteq PP!Invalidation, registryGen' \in 0 .. MaxRegistryGen
    PROVE  PP!IInv'
<1>1. /\ deps' \in P!Graph /\ reverse' \in P!Graph
      /\ \A d \in Id : reverse'[d] = {x \in Id : d \in deps'[x]}
      /\ \A x \in Id : deps'[x] = NewestEdges(hists[x], x)
  BY RebuiltEffect DEF Exact, Edges
<1>2. PP!TypeOK'
  BY <1>1 DEF PP!TypeOK, P!Graph, PP!Graph, P!Record, PP!Record, P!Content, PP!Content
<1>3. PP!ReverseIndexExact'
  BY <1>1 DEF PP!ReverseIndexExact
<1>4. PP!DependencyGraphAcyclic'
  BY DEF PP!DependencyGraphAcyclic, P!HasCycle, PP!HasCycle, P!IsCore, PP!IsCore
<1>5. ASSUME NEW id \in Id, NEW rec \in PP!NewestActive(hists[id])
      PROVE  deps'[id] = rec.content.deps \ {id}
  <2>1. hists[id] # <<>> /\ rec = hists[id][Len(hists[id])]
    BY <1>5 DEF PP!NewestActive, PP!HistoryWellFormed
  <2>. QED  BY <1>1, <2>1 DEF NewestEdges
<1>6. PP!ActiveEdgesMatchRecord'
  BY <1>5 DEF PP!ActiveEdgesMatchRecord
<1>. QED  BY <1>2, <1>3, <1>4, <1>6 DEF PP!IInv

\* The process is gone: what a constructor leaves is in order.
LEMMA CrashStep == DurableInv /\ Crash => DurableInv'
<1> SUFFICES ASSUME DurableInv, Crash PROVE DurableInv'
  OBVIOUS
<1> DEFINE hists == [id \in Id |-> <<>>]
<1>1. /\ profiles' = hists /\ registryGen' = 0 /\ invalidations' = {}
      /\ rules' = [i \in {} |-> {}] /\ ruleGen' = 0 /\ decisions' = {}
      /\ deps' = Rebuilt(hists).deps /\ reverse' = Rebuilt(hists).reverse
  BY DEF Crash, Restore, EmptySnapshot, RestoredGeneration
<1>2. hists \in [Id -> Seq(P!Record)]
  OBVIOUS
<1>3. ~P!HasCycle(Rebuilt(hists).deps)
  <2>1. \A x \in Id : Rebuilt(hists).deps[x] = {}
    BY <1>2, RebuiltEffect DEF NewestEdges
  <2>. QED  BY <2>1 DEF P!HasCycle, P!IsCore
<1>4. PP!HistoryWellFormed' /\ PP!InvalidatedNeverServed'
  BY <1>1 DEF PP!HistoryWellFormed, PP!InvalidatedNeverServed
<1>5. registryGen' \in 0 .. MaxRegistryGen
  BY <1>1, ProfileConstantsAssumption
<1>6. PP!IInv'
  <2> HIDE DEF hists
  <2>. QED  BY <1>1, <1>2, <1>3, <1>4, <1>5, RestoredProfiles
<1>7. HistoriesTyped' /\ RulesTyped'
  BY <1>1, <1>2 DEF HistoriesTyped, RulesTyped
<1>8. PICK S : S = {} /\ S = Cache(decisions')
  BY <1>1 DEF Cache
<1>9. Sound(S)'
  BY <1>8 DEF Sound, Dated, IdsNameInputs, AnswersStand, Governed, Unambiguous
<1>10. FileInv'
  BY FileStep DEF DurableInv, Crash
<1>. QED  BY <1>6, <1>7, <1>8, <1>9, <1>10 DEF DurableInv, MemoryInv

\* load() that does not throw.
LEMMA LoadStep == DurableInv /\ Load => DurableInv'
<1> SUFFICES ASSUME DurableInv, Load PROVE DurableInv'
  OBVIOUS
<1>1. FileInv' /\ disk' # <<>>
  BY FileStep DEF DurableInv, Load
<1>2. AsSaved' /\ ruleGen' = 0
  BY DEF Load, Restore, RestoredGeneration, AsSaved
<1>3. PICK hists : hists = disk[1].profiles
  OBVIOUS
<1>4. /\ profiles' = hists /\ deps' = Rebuilt(hists).deps
      /\ reverse' = Rebuilt(hists).reverse /\ ~P!HasCycle(Rebuilt(hists).deps)
  BY <1>3 DEF Load, Restore, Recoverable
<1>5. HistoriesTyped' /\ hists \in [Id -> Seq(P!Record)]
  BY <1>1, <1>2, <1>4, SavedProfiles DEF FileInv, HistoriesTyped
<1>6. /\ PP!HistoryWellFormed' /\ PP!InvalidatedNeverServed'
      /\ invalidations' \subseteq PP!Invalidation /\ registryGen' \in 0 .. MaxRegistryGen
  BY <1>1, <1>2, SavedProfiles DEF FileInv
<1>7. PP!IInv'
  BY <1>4, <1>5, <1>6, RestoredProfiles
<1>8. RulesTyped'
  BY <1>1, <1>2 DEF FileInv, AsSaved, RulesTyped, Saved!RulesTyped, RuleRecord,
                    Saved!RuleRecord
<1>9. PICK S : S = Cache(decisions')
  OBVIOUS
<1>10. Sound(S)'
  <2>1. S = Cache(disk'[1].decisions)
    BY <1>2, <1>9 DEF AsSaved
  <2>2. Saved!Sound(S)'
    BY <1>1, <2>1 DEF FileInv
  <2>. QED  BY <1>2, <2>2, SavedSound
<1>. QED  BY <1>1, <1>5, <1>7, <1>8, <1>9, <1>10 DEF DurableInv, MemoryInv

LEMMA DurableInvStep == DurableInv /\ [DurableNext]_durableVars => DurableInv'
<1> SUFFICES ASSUME DurableInv, [DurableNext]_durableVars PROVE DurableInv'
  OBVIOUS
<1>1. ASSUME UNCHANGED <<memory, issued>>, UNCHANGED disk \/ disk' = <<>>
      PROVE  DurableInv'
  <2>1. UNCHANGED registryVars
    BY <1>1 DEF memory, registryVars, profileVars, ruleVars, decisionVars
  <2>. QED  BY <1>1, <2>1, MemoryStep, FileStep DEF DurableInv
<1>2. CASE UNCHANGED durableVars
  BY <1>1, <1>2 DEF durableVars
<1>3. CASE SaveFails
  BY <1>1, <1>3 DEF SaveFails
<1>. QED  BY <1>2, <1>3, DurableRegistryStep, SaveStep, CrashStep, LoadStep
          DEF DurableNext

LEMMA DurableInvInit == DurableInit => DurableInv
<1> SUFFICES ASSUME DurableInit PROVE DurableInv
  OBVIOUS
<1>1. PP!IInv /\ HistoriesTyped /\ RulesTyped
  BY ProfilesInvInit, DecisionInvInit DEF DurableInit, DecisionInv
<1>2. decisions = {} /\ disk = <<>>
  BY DEF DurableInit, Init
<1>3. Cache(decisions) = {}
  BY <1>2 DEF Cache
<1>4. Sound({})
  BY DEF Sound, Dated, IdsNameInputs, AnswersStand, Governed, Unambiguous
<1>. QED  BY <1>1, <1>2, <1>3, <1>4 DEF DurableInv, MemoryInv, FileInv

\* The invariant of memory and file, whatever mix of calls, saves, failed
\* saves, crashes and loads.
THEOREM DurableInvariant == DurableSpec => []DurableInv
BY DurableInvInit, DurableInvStep, PTL DEF DurableSpec

\* A registry that comes back from any file keeps the promises of Profiles.tla
\* and goes on keeping them: the edges recover() builds anew from the records
\* are exact in both directions and have no cycle, for any number of crashes,
\* failed saves and loads.
THEOREM RecoveredProfilesAreSound == DurableSpec => []RecoveredProfilesSound
<1>1. DurableInv => RecoveredProfilesSound
  BY DEF DurableInv, MemoryInv, PP!IInv, RecoveredProfilesSound,
         P!HistoryWellFormed, PP!HistoryWellFormed,
         P!InvalidatedNeverServed, PP!InvalidatedNeverServed,
         P!DependencyGraphAcyclic, PP!DependencyGraphAcyclic, P!HasCycle, PP!HasCycle,
         P!IsCore, PP!IsCore, P!ActiveEdgesMatchRecord, PP!ActiveEdgesMatchRecord,
         P!NewestActive, PP!NewestActive, P!ReverseIndexExact, PP!ReverseIndexExact
<1>. QED  BY <1>1, DurableInvariant, PTL

\* replay_decision has one decision to find under an id, also in a cache that
\* comes from a file and is added to at the generation the file stopped at.
THEOREM ReplayIsUnambiguous == DurableSpec => []ReplayUnambiguous
<1>1. ASSUME DurableInv PROVE ReplayUnambiguous
  <2> SUFFICES ASSUME NEW d \in decisions, NEW e \in decisions,
                      d.decision_id = e.decision_id, d.decision_id # Zero
               PROVE  d = e
    BY DEF ReplayUnambiguous
  <2> DEFINE x == <<d.decision_id[4], d>>
             y == <<e.decision_id[4], e>>
  <2>1. x \in Cache(decisions) /\ y \in Cache(decisions)
    BY DEF Cache
  <2>2. x = y
    BY <1>1, <2>1 DEF DurableInv, MemoryInv, Sound, Unambiguous
  <2>. QED  BY <2>2
<1>. QED  BY <1>1, DurableInvariant, PTL

\* A decision of the cache that is dated by the current generation names a
\* rule that is still in use as it was, also when cache, rules and generation
\* come from a file that was saved any number of crashes ago.
CachedRulesGovern ==
    \A d \in decisions :
        d.decision_id # Zero /\ d.registry_generation = registryGen /\ d.rule_id # 0 =>
            /\ Held(d.rule_id) /\ rules[d.rule_id].active
            /\ rules[d.rule_id].generation = d.rule_generation

THEOREM RestoredRulesGovern == DurableSpec => []CachedRulesGovern
<1>1. ASSUME DurableInv PROVE CachedRulesGovern
  <2> SUFFICES ASSUME NEW d \in decisions, d.decision_id # Zero,
                      d.registry_generation = registryGen, d.rule_id # 0
               PROVE  /\ Held(d.rule_id) /\ rules[d.rule_id].active
                      /\ rules[d.rule_id].generation = d.rule_generation
    BY DEF CachedRulesGovern
  <2>1. <<d.decision_id[4], d>> \in Cache(decisions)
    BY DEF Cache
  <2>. QED  BY <1>1, <2>1 DEF DurableInv, MemoryInv, Sound, Governed
<1>. QED  BY <1>1, DurableInvariant, PTL
=============================================================================
