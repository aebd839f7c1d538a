------------------------- MODULE CycleSearchProofs -------------------------
(***************************************************************************)
(* Partial correctness of the depth-first search of CycleSearch.tla, for   *)
(* every graph, and the number of steps it has left, for finitely many     *)
(* identities.                                                             *)
(***************************************************************************)
EXTENDS CycleSearch, SequenceTheorems, FiniteSetTheorems, TLAPS

IInv == TypeOK /\ StackIsPath /\ SuccessorsAccounted /\ DoneIsSafe /\ AnswerExact

\* The facts about a non-empty stack the steps need.
LEMMA StackFacts ==
    ASSUME TypeOK, stack # <<>>
    PROVE  /\ Len(stack) \in Nat \ {0}
           /\ DOMAIN stack = 1 .. Len(stack)
           /\ Len(stack) \in DOMAIN stack
           /\ Top \in Activation /\ Top.node \in Id /\ Top.todo \in SUBSET Id
           /\ \A i \in DOMAIN stack : stack[i] \in Activation /\ stack[i].node \in Id
<1>1. stack \in Seq(Activation)
  BY DEF TypeOK
<1>2. \A f \in Activation : f.node \in Id /\ f.todo \in SUBSET Id
  BY DEF Activation
<1>3. Len(stack) \in Nat \ {0} /\ DOMAIN stack = 1 .. Len(stack)
  BY <1>1, EmptySeq
<1>4. \A i \in 1 .. Len(stack) : stack[i] \in Activation
  BY <1>1, ElementOfSeq
<1>. QED  BY <1>2, <1>3, <1>4 DEF Top

\* Calling dfs_cycle puts an activation on top and leaves the others.
LEMMA CallFacts ==
    ASSUME g \in Graph, NEW s \in Seq(Activation), NEW n \in Id
    PROVE  /\ Call(s, n) \in Seq(Activation)
           /\ DOMAIN Call(s, n) = 1 .. Len(s) + 1
           /\ Call(s, n)[Len(s) + 1].node = n
           /\ Call(s, n)[Len(s) + 1].todo = g[n]
           /\ \A i \in 1 .. Len(s) : Call(s, n)[i] = s[i]
<1>1. [node |-> n, todo |-> g[n]] \in Activation
  BY DEF Activation, Graph
<1>. QED  BY <1>1, AppendProperties DEF Call

\* Taking a successor off the list of the top activation.
LEMMA TodoFacts ==
    ASSUME TypeOK, stack # <<>>, NEW todo \in SUBSET Id
    PROVE  /\ SetTodo(todo) \in Seq(Activation)
           /\ Len(SetTodo(todo)) = Len(stack)
           /\ DOMAIN SetTodo(todo) = DOMAIN stack
           /\ \A i \in DOMAIN stack :
                /\ SetTodo(todo)[i].node = stack[i].node
                /\ SetTodo(todo)[i].todo = IF i = Len(stack) THEN todo ELSE stack[i].todo
<1>1. /\ Len(stack) \in 1 .. Len(stack)
      /\ DOMAIN stack = 1 .. Len(stack)
      /\ \A i \in 1 .. Len(stack) : stack[i] \in Activation
  BY StackFacts
<1> DEFINE new == [stack[Len(stack)] EXCEPT !.todo = todo]
<1>2. new \in Activation /\ new.node = stack[Len(stack)].node /\ new.todo = todo
  BY <1>1 DEF Activation
<1>3. SetTodo(todo) = [stack EXCEPT ![Len(stack)] = new]
  BY DEF SetTodo
<1> HIDE DEF new
<1>4. /\ [stack EXCEPT ![Len(stack)] = new] \in Seq(Activation)
      /\ Len([stack EXCEPT ![Len(stack)] = new]) = Len(stack)
      /\ \A j \in 1 .. Len(stack) : [stack EXCEPT ![Len(stack)] = new][j]
                                       = IF j = Len(stack) THEN new ELSE stack[j]
  BY <1>1, <1>2, ExceptSeq DEF TypeOK
<1>. QED  BY <1>1, <1>2, <1>3, <1>4

\* The activations from the one that visits next up to the top are a cycle.
LEMMA PathIsCycle ==
    ASSUME IInv, stack # <<>>, NEW next \in Top.todo, color[next] = 1
    PROVE  HasCycle(g)
<1>0. /\ DOMAIN stack = 1 .. Len(stack) /\ Len(stack) \in Nat \ {0}
      /\ next \in Id
      /\ \A i \in DOMAIN stack : stack[i].node \in Id
  BY StackFacts DEF IInv
<1>1. PICK k \in DOMAIN stack : stack[k].node = next
  BY <1>0 DEF IInv, StackIsPath, Visiting
<1> DEFINE S == {stack[i].node : i \in {j \in DOMAIN stack : j >= k}}
<1>2. S \in SUBSET Id /\ next \in S
  BY <1>0, <1>1
<1>3. ASSUME NEW i \in DOMAIN stack, i >= k
      PROVE  g[stack[i].node] \cap S # {}
  <2>1. CASE i = Len(stack)
    <3>1. next \in g[stack[i].node]
      BY <1>0, <2>1 DEF IInv, SuccessorsAccounted, Top
    <3>. QED  BY <1>2, <3>1
  <2>2. CASE i # Len(stack)
    <3>1. i + 1 \in DOMAIN stack /\ i + 1 > 1 /\ i + 1 >= k /\ (i + 1) - 1 = i
      BY <1>0, <1>1, <1>3, <2>2
    <3>2. stack[i + 1].node \in g[stack[i].node]
      BY <3>1 DEF IInv, StackIsPath
    <3>3. stack[i + 1].node \in S
      BY <3>1
    <3>. QED  BY <3>2, <3>3
  <2>. QED  BY <2>1, <2>2
<1>4. IsCore(g, S)
  BY <1>2, <1>3 DEF IsCore
<1>. QED  BY <1>2, <1>4 DEF HasCycle

\* An activation without successors left may be done: all its successors are.
LEMMA DoneGrows ==
    ASSUME IInv, stack # <<>>, Top.todo = {}
    PROVE  /\ g[Top.node] \subseteq Done
           /\ Top.node \notin Done
           /\ \A n \in Done \cup {Top.node} : g[n] \subseteq Done
           /\ ~ \E S \in SUBSET (Done \cup {Top.node}) : IsCore(g, S)
<1>0. /\ DOMAIN stack = 1 .. Len(stack) /\ Len(stack) \in Nat \ {0}
      /\ Len(stack) \in DOMAIN stack
      /\ Top.node \in Id
  BY StackFacts DEF IInv
<1>1. g[Top.node] \subseteq Done
  <2>1. {k \in DOMAIN stack : k = Len(stack) + 1} = {}
    BY <1>0
  <2>. QED  BY <1>0, <2>1 DEF IInv, SuccessorsAccounted, Top
<1>2. Top.node \notin Done
  <2>1. Top.node \in Visiting
    BY <1>0 DEF IInv, StackIsPath, Top
  <2>. QED  BY <2>1 DEF Visiting, Done
<1>3. \A n \in Done \cup {Top.node} : g[n] \subseteq Done
  BY <1>1 DEF IInv, DoneIsSafe
<1>4. ASSUME NEW S \in SUBSET (Done \cup {Top.node}), IsCore(g, S)
      PROVE  FALSE
  <2> DEFINE T == S \ {Top.node}
  <2>1. T \in SUBSET Done
    OBVIOUS
  <2>2. \A x \in S : g[x] \cap T # {}
    BY <1>2, <1>3, <1>4 DEF IsCore
  <2>3. IsCore(g, T)
    BY <1>4, <2>2 DEF IsCore
  <2>. QED  BY <2>1, <2>3 DEF IInv, DoneIsSafe
<1>. QED  BY <1>1, <1>2, <1>3, <1>4

-----------------------------------------------------------------------------

LEMMA IInvInit == Init => IInv
<1> SUFFICES ASSUME Init PROVE IInv
  OBVIOUS
<1>1. stack = <<>> /\ DOMAIN stack = {} /\ Visiting = {} /\ Done = {}
  BY DEF Init, Visiting, Done
<1>2. TypeOK
  BY DEF Init, TypeOK
<1>3. StackIsPath /\ SuccessorsAccounted /\ DoneIsSafe
  BY <1>1 DEF StackIsPath, SuccessorsAccounted, DoneIsSafe, IsCore
<1>4. AnswerExact
  BY DEF Init, AnswerExact
<1>. QED  BY <1>2, <1>3, <1>4 DEF IInv

\* An identity that was not met is put on the stack, above the activations
\* in s, of which the last one has it among its successors.
LEMMA CallStep ==
    ASSUME IInv, answer = "searching", UNCHANGED <<g, answer>>,
           NEW n \in Id, color[n] = 0, color' = [color EXCEPT ![n] = 1],
           NEW s \in Seq(Activation), Len(s) = Len(stack),
           \A i \in 1 .. Len(s) :
               /\ s[i].node = stack[i].node
               /\ s[i].todo \subseteq stack[i].todo
               /\ stack[i].todo \subseteq s[i].todo \cup
                                          {x \in {n} : i = Len(s)},
           Len(s) > 0 => n \in g[s[Len(s)].node],
           stack' = Call(s, n)
    PROVE  IInv'
<1> DEFINE m == Len(s)
<1>0. /\ m \in Nat /\ DOMAIN stack = 1 .. m /\ DOMAIN stack' = 1 .. m + 1
      /\ stack' \in Seq(Activation)
      /\ stack'[m + 1].node = n /\ stack'[m + 1].todo = g[n]
      /\ \A i \in 1 .. m : /\ stack'[i].node = stack[i].node
                           /\ stack'[i].todo = s[i].todo
      /\ \A i \in 1 .. m + 1 : i \in 1 .. m \/ i = m + 1
  <2>1. g \in Graph /\ stack \in Seq(Activation)
    BY DEF IInv, TypeOK
  <2>2. m \in Nat /\ DOMAIN stack = 1 .. m
    BY <2>1, LenProperties
  <2>3. /\ Call(s, n) \in Seq(Activation)
        /\ DOMAIN Call(s, n) = 1 .. m + 1
        /\ Call(s, n)[m + 1].node = n
        /\ Call(s, n)[m + 1].todo = g[n]
        /\ \A i \in 1 .. m : Call(s, n)[i] = s[i]
    BY <2>1, CallFacts
  <2> HIDE DEF m
  <2>4. \A i \in 1 .. m + 1 : i \in 1 .. m \/ i = m + 1
    BY <2>2
  <2>5. \A i \in 1 .. m : stack'[i].node = stack[i].node /\ stack'[i].todo = s[i].todo
    BY <2>3 DEF m
  <2>. QED  BY <2>2, <2>3, <2>4, <2>5
<1> HIDE DEF m
<1>1. TypeOK'
  BY <1>0 DEF IInv, TypeOK
<1>2. Done' = Done /\ Visiting' = Visiting \cup {n}
  BY DEF IInv, TypeOK, Done, Visiting
<1>3. n \notin Visiting /\ n \notin Done
  BY DEF Visiting, Done
<1>4. StackIsPath'
  <2>1. Visiting' = {stack'[i].node : i \in DOMAIN stack'}
    <3>1. Visiting = {stack[i].node : i \in DOMAIN stack}
      BY DEF IInv, StackIsPath
    <3>2. \A x : x \in {stack'[i].node : i \in DOMAIN stack'} <=>
                 (x \in {stack[i].node : i \in DOMAIN stack} \/ x = n)
      BY <1>0
    <3>. QED  BY <1>2, <3>1, <3>2
  <2>2. \A i \in 1 .. m : stack'[i].node # n
    <3>1. \A i \in DOMAIN stack : stack[i].node \in Visiting
      BY DEF IInv, StackIsPath
    <3>. QED  BY <1>0, <1>3, <3>1
  <2>3. ASSUME NEW i \in DOMAIN stack', NEW j \in DOMAIN stack',
               stack'[i].node = stack'[j].node
        PROVE  i = j
    <3>1. CASE i \in 1 .. m /\ j \in 1 .. m
      BY <1>0, <2>3, <3>1 DEF IInv, StackIsPath
    <3>2. CASE ~(i \in 1 .. m /\ j \in 1 .. m)
      BY <1>0, <2>2, <2>3, <3>2
    <3>. QED  BY <3>1, <3>2
  <2>4. ASSUME NEW i \in DOMAIN stack', i > 1
        PROVE  stack'[i].node \in g'[stack'[i - 1].node]
    <3>1. i - 1 \in 1 .. m
      BY <1>0, <2>4
    <3>2. CASE i \in 1 .. m
      <4>1. stack[i].node \in g[stack[i - 1].node]
        BY <1>0, <2>4, <3>2 DEF IInv, StackIsPath
      <4>. QED  BY <1>0, <3>1, <3>2, <4>1
    <3>3. CASE i = m + 1
      <4>1. i - 1 = m /\ m > 0
        BY <1>0, <2>4, <3>3
      <4>2. n \in g[s[m].node]
        BY <4>1 DEF m
      <4>3. stack'[m].node = s[m].node
        BY <1>0, <3>1, <4>1 DEF m
      <4>. QED  BY <1>0, <3>3, <4>1, <4>2, <4>3
    <3>. QED  BY <1>0, <3>2, <3>3
  <2>. QED  BY <2>1, <2>3, <2>4 DEF StackIsPath
<1>5. SuccessorsAccounted'
  <2> SUFFICES ASSUME NEW i \in DOMAIN stack'
               PROVE  /\ stack'[i].todo \subseteq g[stack'[i].node]
                      /\ \A x \in g[stack'[i].node] :
                           \/ x \in stack'[i].todo \/ x \in Done
                           \/ i + 1 \in DOMAIN stack' /\ x = stack'[i + 1].node
    BY <1>2 DEF SuccessorsAccounted
  <2>1. CASE i = m + 1
    BY <1>0, <2>1
  <2>2. CASE i \in 1 .. m
    <3>1. /\ stack[i].todo \subseteq g[stack[i].node]
          /\ \A x \in g[stack[i].node] :
                \/ x \in stack[i].todo \/ x \in Done
                \/ i + 1 \in DOMAIN stack /\ x = stack[i + 1].node
      BY <1>0, <2>2 DEF IInv, SuccessorsAccounted
    <3>2. /\ stack'[i].todo \subseteq stack[i].todo
          /\ \A x \in stack[i].todo : x \in stack'[i].todo \/ (i = m /\ x = n)
      BY <1>0, <2>2 DEF m
    <3>3. i + 1 \in DOMAIN stack => i + 1 \in DOMAIN stack' /\ i + 1 \in 1 .. m
      BY <1>0
    <3>4. i = m => i + 1 \in DOMAIN stack' /\ stack'[i + 1].node = n
      BY <1>0
    <3>. QED  BY <1>0, <2>2, <3>1, <3>2, <3>3, <3>4
  <2>. QED  BY <1>0, <2>1, <2>2
<1>6. DoneIsSafe'
  BY <1>2 DEF IInv, DoneIsSafe, IsCore
<1>7. AnswerExact'
  BY DEF AnswerExact
<1>. QED  BY <1>1, <1>4, <1>5, <1>6, <1>7 DEF IInv

LEMMA VisitRootStep ==
    ASSUME IInv, NEW n \in Id, VisitRoot(n) PROVE IInv'
<1>1. stack \in Seq(Activation) /\ Len(stack) = 0 /\ 1 .. Len(stack) = {}
  BY DEF VisitRoot, IInv, TypeOK
<1>2. /\ stack' = Call(stack, n) /\ color[n] = 0 /\ color' = [color EXCEPT ![n] = 1]
      /\ answer = "searching" /\ UNCHANGED <<g, answer>>
  BY DEF VisitRoot
<1>3. \A i \in 1 .. Len(stack) :
          /\ stack[i].node = stack[i].node
          /\ stack[i].todo \subseteq stack[i].todo
          /\ stack[i].todo \subseteq stack[i].todo \cup {x \in {n} : i = Len(stack)}
  OBVIOUS
<1>4. Len(stack) > 0 => n \in g[stack[Len(stack)].node]
  BY <1>1
<1>. QED  BY <1>1, <1>2, <1>3, <1>4, CallStep

LEMMA DescendStep ==
    ASSUME IInv, NEW n \in Id, Descend(n) PROVE IInv'
<1> DEFINE rest == Top.todo \ {n}
           s == SetTodo(rest)
<1>1. TypeOK /\ stack # <<>> /\ n \in Top.todo
  BY DEF IInv, Descend
<1>2. /\ Len(stack) \in Nat \ {0} /\ DOMAIN stack = 1 .. Len(stack)
      /\ Len(stack) \in DOMAIN stack
      /\ rest \in SUBSET Id
  BY <1>1, StackFacts
<1>3. /\ s \in Seq(Activation) /\ Len(s) = Len(stack)
      /\ \A i \in DOMAIN stack :
           /\ s[i].node = stack[i].node
           /\ s[i].todo = IF i = Len(stack) THEN rest ELSE stack[i].todo
  BY <1>1, <1>2, TodoFacts
<1>4. n \in g[stack[Len(stack)].node]
  BY <1>1, <1>2 DEF IInv, SuccessorsAccounted, Top
<1>5. stack' = Call(s, n) /\ color[n] = 0 /\ color' = [color EXCEPT ![n] = 1]
      /\ answer = "searching" /\ UNCHANGED <<g, answer>>
  BY DEF Descend
<1> HIDE DEF s
<1>6. \A i \in 1 .. Len(s) :
          /\ s[i].node = stack[i].node
          /\ s[i].todo \subseteq stack[i].todo
          /\ stack[i].todo \subseteq s[i].todo \cup {x \in {n} : i = Len(s)}
  BY <1>2, <1>3 DEF Top
<1>7. n \in g[s[Len(s)].node]
  BY <1>2, <1>3, <1>4
<1>. QED  BY <1>3, <1>5, <1>6, <1>7, CallStep

LEMMA FindCycleStep ==
    ASSUME IInv, NEW n \in Id, FindCycle(n) PROVE IInv'
<1>1. HasCycle(g)
  BY PathIsCycle DEF FindCycle
<1>2. TypeOK' /\ AnswerExact'
  BY <1>1 DEF FindCycle, IInv, TypeOK, AnswerExact
<1>3. Visiting' = Visiting /\ Done' = Done
  BY DEF FindCycle, Visiting, Done
<1>4. StackIsPath' /\ SuccessorsAccounted' /\ DoneIsSafe'
  BY <1>3 DEF FindCycle, IInv, StackIsPath, SuccessorsAccounted, DoneIsSafe, IsCore
<1>. QED  BY <1>2, <1>4 DEF IInv

\* A successor that is done leaves the list.
LEMMA SkipStep ==
    ASSUME IInv, NEW n \in Id, Skip(n) PROVE IInv'
<1> DEFINE rest == Top.todo \ {n}
<1>1. TypeOK /\ stack # <<>>
  BY DEF IInv, Skip
<1>2. /\ Len(stack) \in Nat \ {0} /\ DOMAIN stack = 1 .. Len(stack)
      /\ rest \in SUBSET Id
  BY <1>1, StackFacts
<1>3. /\ stack' \in Seq(Activation) /\ DOMAIN stack' = DOMAIN stack
      /\ \A i \in DOMAIN stack :
           /\ stack'[i].node = stack[i].node
           /\ stack'[i].todo = IF i = Len(stack) THEN rest ELSE stack[i].todo
  BY <1>1, <1>2, TodoFacts DEF Skip
<1>4. Visiting' = Visiting /\ Done' = Done /\ n \in Done
  BY DEF Skip, Visiting, Done
<1>5. TypeOK' /\ AnswerExact'
  BY <1>3 DEF Skip, IInv, TypeOK, AnswerExact
<1>6. StackIsPath'
  <2>1. {stack'[i].node : i \in DOMAIN stack'} = {stack[i].node : i \in DOMAIN stack}
    BY <1>3
  <2>2. \A i \in DOMAIN stack : i > 1 => i - 1 \in DOMAIN stack
    BY <1>2
  <2>. QED  BY <1>3, <1>4, <2>1, <2>2 DEF Skip, IInv, StackIsPath
<1>7. SuccessorsAccounted'
  <2> SUFFICES ASSUME NEW i \in DOMAIN stack
               PROVE  /\ stack'[i].todo \subseteq g[stack[i].node]
                      /\ \A x \in g[stack[i].node] :
                           \/ x \in stack'[i].todo \/ x \in Done
                           \/ i + 1 \in DOMAIN stack /\ x = stack'[i + 1].node
    <3>1. SuccessorsAccounted' <=>
            \A i \in DOMAIN stack' :
              /\ stack'[i].todo \subseteq g'[stack'[i].node]
              /\ \A x \in g'[stack'[i].node] :
                   \/ x \in stack'[i].todo \/ x \in Done'
                   \/ i + 1 \in DOMAIN stack' /\ x = stack'[i + 1].node
      BY DEF SuccessorsAccounted
    <3>2. g' = g
      BY DEF Skip
    <3>. QED  BY <1>3, <1>4, <3>1, <3>2
  <2>1. /\ stack[i].todo \subseteq g[stack[i].node]
        /\ \A x \in g[stack[i].node] :
             \/ x \in stack[i].todo \/ x \in Done
             \/ i + 1 \in DOMAIN stack /\ x = stack[i + 1].node
    BY DEF IInv, SuccessorsAccounted
  <2>2. /\ stack'[i].todo \subseteq stack[i].todo
        /\ \A x \in stack[i].todo : x \in stack'[i].todo \/ x \in Done
    BY <1>3, <1>4 DEF Top
  <2>. QED  BY <1>3, <2>1, <2>2
<1>8. DoneIsSafe'
  BY <1>4 DEF Skip, IInv, DoneIsSafe, IsCore
<1>. QED  BY <1>5, <1>6, <1>7, <1>8 DEF IInv

\* The top activation returns: its identity is done.
LEMMA ReturnStep ==
    ASSUME IInv, Return PROVE IInv'
<1> DEFINE m == Len(stack) - 1
           n == Top.node
<1>1. TypeOK /\ stack # <<>> /\ Top.todo = {}
  BY DEF IInv, Return
<1>2. /\ m \in Nat /\ DOMAIN stack = 1 .. m + 1 /\ n \in Id
      /\ n = stack[m + 1].node
      /\ \A i \in DOMAIN stack : stack[i] \in Activation
  BY <1>1, StackFacts DEF Top
<1>3. /\ g[n] \subseteq Done
      /\ \A x \in Done \cup {n} : g[x] \subseteq Done
      /\ ~ \E S \in SUBSET (Done \cup {n}) : IsCore(g, S)
  BY <1>1, DoneGrows
<1>4. /\ stack' \in Seq(Activation) /\ DOMAIN stack' = 1 .. m
      /\ \A i \in 1 .. m : stack'[i] = stack[i]
  <2>1. stack' = SubSeq(stack, 1, m)
    BY DEF Return
  <2>2. \A i \in 1 .. m : stack[i] \in Activation
    BY <1>2
  <2> HIDE DEF m
  <2>3. /\ SubSeq(stack, 1, m) \in Seq(Activation)
        /\ Len(SubSeq(stack, 1, m)) = IF 1 <= m THEN m - 1 + 1 ELSE 0
        /\ \A i \in 1 .. m - 1 + 1 : SubSeq(stack, 1, m)[i] = stack[1 + i - 1]
    BY <1>2, <2>2, SubSeqProperties
  <2>4. Len(SubSeq(stack, 1, m)) = m
    BY <1>2, <2>3
  <2>. QED  BY <1>2, <2>1, <2>3, <2>4, LenProperties
<1> HIDE DEF m
<1>5. /\ g' = g /\ answer' = answer /\ color' = [color EXCEPT ![n] = 2]
      /\ answer = "searching"
  BY DEF Return
<1> HIDE DEF n
<1>6. Visiting' = Visiting \ {n} /\ Done' = Done \cup {n}
  BY <1>1, <1>2, <1>5 DEF TypeOK, Visiting, Done
<1>7. TypeOK' /\ AnswerExact'
  <2>1. color' \in [Id -> 0 .. 2]
    BY <1>1, <1>2, <1>5 DEF TypeOK
  <2>2. TypeOK'
    BY <1>1, <1>4, <1>5, <2>1 DEF TypeOK
  <2>3. AnswerExact'
    BY <1>5 DEF AnswerExact
  <2>. QED  BY <2>2, <2>3
<1>8. StackIsPath'
  <2>1. /\ Visiting = {stack[i].node : i \in DOMAIN stack}
        /\ \A i, j \in DOMAIN stack : stack[i].node = stack[j].node => i = j
        /\ \A i \in DOMAIN stack : i > 1 => stack[i].node \in g[stack[i - 1].node]
    BY DEF IInv, StackIsPath
  <2>2. \A i \in 1 .. m : i \in DOMAIN stack /\ i # m + 1
    BY <1>2
  <2>3. \A i \in 1 .. m + 1 : i \in 1 .. m \/ i = m + 1
    BY <1>2
  <2>4. Visiting' = {stack'[i].node : i \in DOMAIN stack'}
    <3>1. \A i \in 1 .. m : stack'[i].node = stack[i].node /\ stack[i].node # n
      BY <1>2, <1>4, <2>1, <2>2
    <3>2. \A x : x \in {stack[i].node : i \in DOMAIN stack} <=>
                 (x = n \/ \E i \in 1 .. m : x = stack[i].node)
      BY <1>2, <2>2, <2>3
    <3>3. \A x : x \in {stack'[i].node : i \in DOMAIN stack'} <=>
                 \E i \in 1 .. m : x = stack[i].node
      BY <1>4, <3>1
    <3>4. \A x : x \in Visiting <=> (x = n \/ \E i \in 1 .. m : x = stack[i].node)
      BY <2>1, <3>2
    <3>5. \A x : (\E i \in 1 .. m : x = stack[i].node) => x # n
      BY <3>1
    <3>6. \A x : x \in Visiting' <=> \E i \in 1 .. m : x = stack[i].node
      BY <1>6, <3>4, <3>5
    <3>7. \A x : x \in Visiting' <=> x \in {stack'[i].node : i \in DOMAIN stack'}
      BY <3>3, <3>6
    <3>. QED  BY <3>7
  <2>5. \A i \in 1 .. m : i > 1 => i - 1 \in 1 .. m
    BY <1>2
  <2>. QED  BY <1>4, <1>5, <2>1, <2>2, <2>4, <2>5 DEF StackIsPath
<1>9. SuccessorsAccounted'
  <2> SUFFICES ASSUME NEW i \in 1 .. m
               PROVE  /\ stack'[i].todo \subseteq g[stack'[i].node]
                      /\ \A x \in g[stack'[i].node] :
                           \/ x \in stack'[i].todo \/ x \in Done \/ x = n
                           \/ i + 1 \in 1 .. m /\ x = stack'[i + 1].node
    <3>1. SuccessorsAccounted' <=>
            \A i \in DOMAIN stack' :
              /\ stack'[i].todo \subseteq g'[stack'[i].node]
              /\ \A x \in g'[stack'[i].node] :
                   \/ x \in stack'[i].todo \/ x \in Done'
                   \/ i + 1 \in DOMAIN stack' /\ x = stack'[i + 1].node
      BY DEF SuccessorsAccounted
    <3>. QED  BY <1>4, <1>5, <1>6, <3>1
  <2>1. i \in DOMAIN stack /\ (i + 1 \in 1 .. m \/ i + 1 = m + 1)
    BY <1>2
  <2>2. /\ stack[i].todo \subseteq g[stack[i].node]
        /\ \A x \in g[stack[i].node] :
             \/ x \in stack[i].todo \/ x \in Done
             \/ i + 1 \in DOMAIN stack /\ x = stack[i + 1].node
    BY <2>1 DEF IInv, SuccessorsAccounted
  <2>. QED  BY <1>2, <1>4, <2>1, <2>2
<1>10. DoneIsSafe'
  BY <1>3, <1>5, <1>6 DEF DoneIsSafe, IsCore
<1>. QED  BY <1>7, <1>8, <1>9, <1>10 DEF IInv

\* No identity is being visited and all are met: all are done, none on a cycle.
LEMMA ExhaustStep ==
    ASSUME IInv, Exhaust PROVE IInv'
<1>1. Visiting = {}
  BY DEF Exhaust, IInv, StackIsPath
<1>2. Done = Id
  BY <1>1 DEF Exhaust, IInv, TypeOK, Visiting, Done
<1>3. ~HasCycle(g)
  BY <1>2 DEF IInv, DoneIsSafe, HasCycle
<1>4. TypeOK' /\ AnswerExact'
  BY <1>3 DEF Exhaust, IInv, TypeOK, AnswerExact
<1>5. Visiting' = Visiting /\ Done' = Done
  BY DEF Exhaust, Visiting, Done
<1>6. StackIsPath' /\ SuccessorsAccounted' /\ DoneIsSafe'
  BY <1>5 DEF Exhaust, IInv, StackIsPath, SuccessorsAccounted, DoneIsSafe, IsCore
<1>. QED  BY <1>4, <1>6 DEF IInv

LEMMA StutterStep ==
    ASSUME IInv, UNCHANGED searchVars PROVE IInv'
<1>1. Visiting' = Visiting /\ Done' = Done
  BY DEF searchVars, Visiting, Done
<1>2. TypeOK' /\ AnswerExact'
  BY DEF searchVars, IInv, TypeOK, AnswerExact
<1>3. StackIsPath' /\ SuccessorsAccounted' /\ DoneIsSafe'
  BY <1>1 DEF searchVars, IInv, StackIsPath, SuccessorsAccounted, DoneIsSafe, IsCore
<1>. QED  BY <1>2, <1>3 DEF IInv

\* Every step of the search keeps the invariant, whatever the set of
\* identities and the graph over it.
THEOREM SearchInvariant == Spec => []IInv
<1>1. IInv /\ [Next]_searchVars => IInv'
  BY VisitRootStep, DescendStep, FindCycleStep, SkipStep, ReturnStep, ExhaustStep,
     StutterStep DEF Next
<1>. QED  BY <1>1, IInvInit, PTL DEF Spec

\* dfs_cycle, as has_cycle and create_cycle run it, answers true exactly of
\* the graphs with a cycle: the test that DependencyGraph.tla and Profiles.tla
\* take for granted as HasCycle.
THEOREM SearchIsExact == Spec => []AnswerExact
BY SearchInvariant, PTL DEF IInv

\* The colours of registry.cpp:73-115 are what the search takes them for: an
\* identity that is being visited lies on the path to the one in hand.
THEOREM StackIsAlwaysPath == Spec => []StackIsPath
BY SearchInvariant, PTL DEF IInv

\* An activation that goes on has forgotten no successor.
THEOREM NoSuccessorIsForgotten == Spec => []SuccessorsAccounted
BY SearchInvariant, PTL DEF IInv

\* An identity that is done, and is passed over from then on, leads to no
\* cycle.
THEOREM DoneIsDone == Spec => []DoneIsSafe
BY SearchInvariant, PTL DEF IInv

-----------------------------------------------------------------------------
(* The search ends: it has a number of steps left, and each takes one.     *)

\* What the search has left to do: identities to meet, identities to finish,
\* and the successors (of what is not met, or of an activation) to look at.
Unmet == {n \in Id : color[n] = 0}
Unfinished == {n \in Id : color[n] # 2}
Owed == {e \in Id \X Id :
            \/ color[e[1]] = 0 /\ e[2] \in g[e[1]]
            \/ \E i \in DOMAIN stack : stack[i].node = e[1] /\ e[2] \in stack[i].todo}

\* A step adds nothing to that, and answers or takes something away.
GetsOn == /\ answer = "searching"
          /\ Unmet' \subseteq Unmet /\ Unfinished' \subseteq Unfinished /\ Owed' \subseteq Owed
          /\ \/ answer' # "searching"
             \/ Unmet' # Unmet \/ Unfinished' # Unfinished \/ Owed' # Owed

\* An identity is met: the search owes no more than before.
LEMMA CallGetsOn ==
    ASSUME TypeOK, answer = "searching", g' = g, answer' = answer,
           NEW n \in Id, color[n] = 0, color' = [color EXCEPT ![n] = 1],
           NEW s \in Seq(Activation), Len(s) = Len(stack), stack' = Call(s, n),
           \A i \in 1 .. Len(s) : s[i].node = stack[i].node /\ s[i].todo \subseteq stack[i].todo
    PROVE  GetsOn
<1>1. /\ DOMAIN stack = 1 .. Len(s) /\ Len(s) \in Nat /\ DOMAIN stack' = 1 .. Len(s) + 1
      /\ stack'[Len(s) + 1].node = n /\ stack'[Len(s) + 1].todo = g[n]
      /\ \A i \in 1 .. Len(s) : stack'[i] = s[i]
  <2>1. g \in Graph /\ stack \in Seq(Activation)
    BY DEF TypeOK
  <2>2. DOMAIN stack = 1 .. Len(s) /\ Len(s) \in Nat
    BY <2>1, LenProperties
  <2>3. /\ DOMAIN Call(s, n) = 1 .. Len(s) + 1
        /\ Call(s, n)[Len(s) + 1].node = n /\ Call(s, n)[Len(s) + 1].todo = g[n]
        /\ \A i \in 1 .. Len(s) : Call(s, n)[i] = s[i]
    BY <2>1, CallFacts
  <2>. QED  BY <2>2, <2>3
<1>2. \A x \in Id : color'[x] = IF x = n THEN 1 ELSE color[x]
  BY DEF TypeOK
<1>3. Unmet' \subseteq Unmet /\ n \in Unmet /\ n \notin Unmet'
  BY <1>2 DEF Unmet
<1>4. Unfinished' \subseteq Unfinished
  BY <1>2 DEF Unfinished
<1>5. ASSUME NEW e \in Owed' PROVE e \in Owed
  <2>1. e \in Id \X Id /\ e[1] \in Id
    BY DEF Owed
  <2>2. CASE color'[e[1]] = 0 /\ e[2] \in g'[e[1]]
    <3>1. color[e[1]] = 0 /\ e[2] \in g[e[1]]
      BY <1>2, <2>1, <2>2
    <3>. QED  BY <2>1, <3>1 DEF Owed
  <2>3. ASSUME NEW i \in DOMAIN stack', stack'[i].node = e[1], e[2] \in stack'[i].todo
        PROVE  e \in Owed
    <3>1. CASE i = Len(s) + 1
      <4>1. e[1] = n /\ e[2] \in g[n]
        BY <1>1, <2>3, <3>1
      <4>. QED  BY <2>1, <4>1 DEF Owed
    <3>2. CASE i \in 1 .. Len(s)
      <4>1. i \in DOMAIN stack /\ stack[i].node = e[1] /\ e[2] \in stack[i].todo
        BY <1>1, <2>3, <3>2
      <4>. QED  BY <2>1, <4>1 DEF Owed
    <3>. QED  BY <1>1, <3>1, <3>2
  <2>. QED  BY <2>2, <2>3 DEF Owed
<1>. QED  BY <1>3, <1>4, <1>5 DEF GetsOn

LEMMA VisitRootGetsOn ==
    ASSUME IInv, NEW n \in Id, VisitRoot(n) PROVE GetsOn
<1>1. stack \in Seq(Activation) /\ TypeOK
  BY DEF IInv, TypeOK
<1>2. /\ stack' = Call(stack, n) /\ color[n] = 0 /\ color' = [color EXCEPT ![n] = 1]
      /\ answer = "searching" /\ g' = g /\ answer' = answer
  BY DEF VisitRoot
<1>3. \A i \in 1 .. Len(stack) :
          stack[i].node = stack[i].node /\ stack[i].todo \subseteq stack[i].todo
  OBVIOUS
<1>. QED  BY <1>1, <1>2, <1>3, CallGetsOn

LEMMA DescendGetsOn ==
    ASSUME IInv, NEW n \in Id, Descend(n) PROVE GetsOn
<1> DEFINE rest == Top.todo \ {n}
           s == SetTodo(rest)
<1>1. TypeOK /\ stack # <<>>
  BY DEF IInv, Descend
<1>2. DOMAIN stack = 1 .. Len(stack) /\ rest \in SUBSET Id
  BY <1>1, StackFacts
<1>3. /\ s \in Seq(Activation) /\ Len(s) = Len(stack)
      /\ \A i \in DOMAIN stack :
           /\ s[i].node = stack[i].node
           /\ s[i].todo = IF i = Len(stack) THEN rest ELSE stack[i].todo
  BY <1>1, <1>2, TodoFacts
<1>4. /\ stack' = Call(s, n) /\ color[n] = 0 /\ color' = [color EXCEPT ![n] = 1]
      /\ answer = "searching" /\ g' = g /\ answer' = answer
  BY DEF Descend
<1> HIDE DEF s
<1>5. \A i \in 1 .. Len(s) : s[i].node = stack[i].node /\ s[i].todo \subseteq stack[i].todo
  BY <1>2, <1>3 DEF Top
<1>. QED  BY <1>1, <1>3, <1>4, <1>5, CallGetsOn

\* The successor that is passed over is owed by the top activation alone.
LEMMA SkipGetsOn ==
    ASSUME IInv, NEW n \in Id, Skip(n) PROVE GetsOn
<1> DEFINE rest == Top.todo \ {n}
           edge == <<Top.node, n>>
<1>1. TypeOK /\ StackIsPath /\ stack # <<>> /\ n \in Top.todo
  BY DEF IInv, Skip
<1>2. /\ DOMAIN stack = 1 .. Len(stack) /\ Len(stack) \in DOMAIN stack
      /\ rest \in SUBSET Id /\ Top.node \in Id
  BY <1>1, StackFacts
<1>3. /\ DOMAIN stack' = DOMAIN stack
      /\ \A i \in DOMAIN stack :
           /\ stack'[i].node = stack[i].node
           /\ stack'[i].todo = IF i = Len(stack) THEN rest ELSE stack[i].todo
  BY <1>1, <1>2, TodoFacts DEF Skip
<1>4. answer = "searching" /\ g' = g /\ color' = color
  BY DEF Skip
<1>5. Unmet' = Unmet /\ Unfinished' = Unfinished
  BY <1>4 DEF Unmet, Unfinished
<1>6. ASSUME NEW e \in Owed' PROVE e \in Owed
  <2>1. e \in Id \X Id
    BY DEF Owed
  <2>2. CASE color'[e[1]] = 0 /\ e[2] \in g'[e[1]]
    BY <1>4, <2>1, <2>2 DEF Owed
  <2>3. ASSUME NEW i \in DOMAIN stack', stack'[i].node = e[1], e[2] \in stack'[i].todo
        PROVE  e \in Owed
    <3>1. i \in DOMAIN stack /\ stack[i].node = e[1] /\ e[2] \in stack[i].todo
      BY <1>3, <2>3 DEF Top
    <3>. QED  BY <2>1, <3>1 DEF Owed
  <2>. QED  BY <2>2, <2>3 DEF Owed
<1>7. edge \in Owed
  <2>1. edge \in Id \X Id /\ edge[1] = stack[Len(stack)].node /\ edge[2] \in stack[Len(stack)].todo
    BY <1>1, <1>2 DEF Top
  <2> HIDE DEF edge
  <2>. QED  BY <1>2, <2>1 DEF Owed
<1>8. edge \notin Owed'
  <2>1. color[Top.node] = 1
    BY <1>1, <1>2 DEF StackIsPath, Visiting, Top
  <2>2. ASSUME NEW i \in DOMAIN stack', stack'[i].node = Top.node PROVE n \notin stack'[i].todo
    <3>1. i = Len(stack)
      BY <1>1, <1>2, <1>3, <2>2 DEF StackIsPath, Top
    <3>. QED  BY <1>2, <1>3, <3>1
  <2>3. edge[1] = Top.node /\ edge[2] = n
    OBVIOUS
  <2> HIDE DEF edge
  <2>. QED  BY <1>4, <2>1, <2>2, <2>3 DEF Owed
<1>. QED  BY <1>4, <1>5, <1>6, <1>7, <1>8 DEF GetsOn

\* The identity of the activation that returns is finished.
LEMMA ReturnGetsOn ==
    ASSUME IInv, Return PROVE GetsOn
<1> DEFINE m == Len(stack) - 1
           n == Top.node
<1>1. TypeOK /\ StackIsPath /\ stack # <<>>
  BY DEF IInv, Return
<1>2. /\ m \in Nat /\ DOMAIN stack = 1 .. m + 1 /\ n \in Id /\ Len(stack) \in DOMAIN stack
      /\ \A i \in DOMAIN stack : stack[i] \in Activation
  BY <1>1, StackFacts
<1>3. /\ answer = "searching" /\ g' = g /\ color' = [color EXCEPT ![n] = 2]
      /\ stack' = SubSeq(stack, 1, m)
  BY DEF Return
<1>4. DOMAIN stack' = 1 .. m /\ \A i \in 1 .. m : stack'[i] = stack[i]
  <2>1. \A i \in 1 .. m : stack[i] \in Activation
    BY <1>2
  <2> HIDE DEF m
  <2>2. /\ SubSeq(stack, 1, m) \in Seq(Activation)
        /\ Len(SubSeq(stack, 1, m)) = IF 1 <= m THEN m - 1 + 1 ELSE 0
        /\ \A i \in 1 .. m - 1 + 1 : SubSeq(stack, 1, m)[i] = stack[1 + i - 1]
    BY <1>2, <2>1, SubSeqProperties
  <2>3. Len(SubSeq(stack, 1, m)) = m
    BY <1>2, <2>2
  <2>. QED  BY <1>2, <1>3, <2>2, <2>3, LenProperties
<1>5. color[n] = 1
  BY <1>1, <1>2 DEF StackIsPath, Visiting, Top
<1> HIDE DEF m, n
<1>6. \A x \in Id : color'[x] = IF x = n THEN 2 ELSE color[x]
  BY <1>1, <1>3 DEF TypeOK
<1>7. Unmet' = Unmet
  BY <1>5, <1>6 DEF Unmet
<1>8. Unfinished' \subseteq Unfinished /\ n \in Unfinished /\ n \notin Unfinished'
  BY <1>2, <1>5, <1>6 DEF Unfinished
<1>9. ASSUME NEW e \in Owed' PROVE e \in Owed
  <2>1. e \in Id \X Id /\ e[1] \in Id
    BY DEF Owed
  <2>2. CASE color'[e[1]] = 0 /\ e[2] \in g'[e[1]]
    <3>1. color[e[1]] = 0 /\ e[2] \in g[e[1]]
      BY <1>3, <1>6, <2>1, <2>2
    <3>. QED  BY <2>1, <3>1 DEF Owed
  <2>3. ASSUME NEW i \in DOMAIN stack', stack'[i].node = e[1], e[2] \in stack'[i].todo
        PROVE  e \in Owed
    <3>1. i \in DOMAIN stack /\ stack[i].node = e[1] /\ e[2] \in stack[i].todo
      BY <1>2, <1>4, <2>3
    <3>. QED  BY <2>1, <3>1 DEF Owed
  <2>. QED  BY <2>2, <2>3 DEF Owed
<1>. QED  BY <1>3, <1>7, <1>8, <1>9 DEF GetsOn

\* A step that answers leaves the rest as it is.
LEMMA AnswerGetsOn ==
    ASSUME answer = "searching", answer' # "searching", UNCHANGED <<g, color, stack>>
    PROVE  GetsOn
BY DEF GetsOn, Unmet, Unfinished, Owed

\* The steps that the search has left, at most.
StepsLeft == Cardinality(Unmet) + Cardinality(Unfinished) + Cardinality(Owed)
             + (IF answer = "searching" THEN 1 ELSE 0)

LEMMA SmallerSet ==
    ASSUME NEW S, NEW T, IsFiniteSet(S), T \subseteq S
    PROVE  /\ Cardinality(S) \in Nat /\ Cardinality(T) \in Nat
           /\ Cardinality(T) <= Cardinality(S)
           /\ T # S => Cardinality(T) # Cardinality(S)
<1>1. IsFiniteSet(T) /\ Cardinality(T) <= Cardinality(S) /\ (Cardinality(S) = Cardinality(T) => S = T)
  BY FS_Subset
<1>. QED  BY <1>1, FS_CardinalityType

\* The search makes no step for ever: of finitely many identities it has a
\* number of steps left, and every iteration, call and return of dfs_cycle
\* takes at least one of them, in whatever order it meets roots and successors
\* (registry.cpp:73).
THEOREM SearchGetsOn ==
    ASSUME IsFiniteSet(Id)
    PROVE  Spec => [][/\ StepsLeft \in Nat /\ StepsLeft' \in Nat
                      /\ StepsLeft' < StepsLeft]_searchVars
<1>1. ASSUME IInv, [Next]_searchVars
      PROVE  [/\ StepsLeft \in Nat /\ StepsLeft' \in Nat
              /\ StepsLeft' < StepsLeft]_searchVars
  <2> SUFFICES ASSUME Next
               PROVE  StepsLeft \in Nat /\ StepsLeft' \in Nat /\ StepsLeft' < StepsLeft
    BY <1>1
  <2>1. GetsOn
    <3>1. ASSUME NEW n \in Id, FindCycle(n) PROVE GetsOn
      BY <3>1, AnswerGetsOn DEF FindCycle
    <3>2. CASE Exhaust
      BY <3>2, AnswerGetsOn DEF Exhaust
    <3>. QED  BY <1>1, <3>1, <3>2, VisitRootGetsOn, DescendGetsOn, SkipGetsOn, ReturnGetsOn DEF Next
  <2>2. IsFiniteSet(Unmet) /\ IsFiniteSet(Unfinished) /\ IsFiniteSet(Owed)
    <3>1. IsFiniteSet(Id \X Id)
      BY FS_Product
    <3>2. Unmet \subseteq Id /\ Unfinished \subseteq Id /\ Owed \subseteq Id \X Id
      BY DEF Unmet, Unfinished, Owed
    <3>. QED  BY <3>1, <3>2, FS_Subset
  <2>3. /\ Unmet' \subseteq Unmet /\ Unfinished' \subseteq Unfinished /\ Owed' \subseteq Owed
        /\ answer = "searching"
        /\ \/ answer' # "searching"
           \/ Unmet' # Unmet \/ Unfinished' # Unfinished \/ Owed' # Owed
    BY <2>1 DEF GetsOn
  <2> DEFINE a == Cardinality(Unmet)
             b == Cardinality(Unfinished)
             c == Cardinality(Owed)
             a1 == Cardinality(Unmet')
             b1 == Cardinality(Unfinished')
             c1 == Cardinality(Owed')
  <2>4. a \in Nat /\ a1 \in Nat /\ a1 <= a /\ (Unmet' # Unmet => a1 # a)
    BY <2>2, <2>3, SmallerSet
  <2>5. b \in Nat /\ b1 \in Nat /\ b1 <= b /\ (Unfinished' # Unfinished => b1 # b)
    BY <2>2, <2>3, SmallerSet
  <2>6. c \in Nat /\ c1 \in Nat /\ c1 <= c /\ (Owed' # Owed => c1 # c)
    BY <2>2, <2>3, SmallerSet
  <2>7. /\ StepsLeft = a + b + c + 1
        /\ StepsLeft' = a1 + b1 + c1 + (IF answer' = "searching" THEN 1 ELSE 0)
    BY <2>3 DEF StepsLeft
  <2> HIDE DEF a, b, c, a1, b1, c1
  <2>. QED  BY <2>3, <2>4, <2>5, <2>6, <2>7
<1>. QED  BY <1>1, SearchInvariant, PTL DEF Spec
=============================================================================
