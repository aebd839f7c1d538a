---------------------------- MODULE CycleSearch ----------------------------
(***************************************************************************)
(* The depth-first search of the dependency graph, dfs_cycle, with the     *)
(* loop over its roots that has_cycle and create_cycle share (src/compat/  *)
(* registry.cpp:73-114), one step per loop iteration, call and return.     *)
(*                                                                         *)
(* The recursion is a stack of activations.  The order in which the code   *)
(* meets roots and successors is that of a hash map and of a vector: any.  *)
(***************************************************************************)
EXTENDS DependencyGraph, Integers, Sequences

VARIABLES g,        \* the graph searched
          color,    \* 0 not met, 1 being visited, 2 done
          stack,    \* the activations of dfs_cycle, outermost first
          answer    \* "searching", or what the search returned

searchVars == <<g, color, stack, answer>>

Activation == [node : Id, todo : SUBSET Id]

Top == stack[Len(stack)]

SetTodo(todo) == [stack EXCEPT ![Len(stack)].todo = todo]

Call(s, n) == Append(s, [node |-> n, todo |-> g[n]])

Init == /\ g \in Graph
        /\ color = [n \in Id |-> 0]
        /\ stack = <<>>
        /\ answer = "searching"

\* The outer loop calls dfs_cycle on an identity that was not met.
VisitRoot(n) ==
    /\ answer = "searching" /\ stack = <<>> /\ color[n] = 0
    /\ color' = [color EXCEPT ![n] = 1]
    /\ stack' = Call(stack, n)
    /\ UNCHANGED <<g, answer>>

\* The outer loop ends.
Exhaust ==
    /\ answer = "searching" /\ stack = <<>> /\ \A n \in Id : color[n] # 0
    /\ answer' = "acyclic"
    /\ UNCHANGED <<g, color, stack>>

\* Fault: a successor that is done counts as being visited.
FindCycleAtDone(next) ==
    /\ answer = "searching" /\ stack # <<>> /\ next \in Top.todo /\ color[next] # 0
    /\ answer' = "cycle"
    /\ UNCHANGED <<g, color, stack>>

\* The next successor is being visited: every activation returns true.
FindCycle(next) ==
    /\ answer = "searching" /\ stack # <<>> /\ next \in Top.todo /\ color[next] = 1
    /\ answer' = "cycle"
    /\ UNCHANGED <<g, color, stack>>

\* Fault: the successor stays in the list of the activation that calls.
DescendKeepsTodo(next) ==
    /\ answer = "searching" /\ stack # <<>> /\ next \in Top.todo /\ color[next] \in {0, 2}
    /\ stack' = Call(stack, next)
    /\ UNCHANGED <<g, color, answer>>

\* The next successor was not met: dfs_cycle calls itself.
Descend(next) ==
    /\ answer = "searching" /\ stack # <<>> /\ next \in Top.todo /\ color[next] = 0
    /\ color' = [color EXCEPT ![next] = 1]
    /\ stack' = Call(SetTodo(Top.todo \ {next}), next)
    /\ UNCHANGED <<g, answer>>

\* The next successor is done.
Skip(next) ==
    /\ answer = "searching" /\ stack # <<>> /\ next \in Top.todo /\ color[next] = 2
    /\ stack' = SetTodo(Top.todo \ {next})
    /\ UNCHANGED <<g, color, answer>>

\* No successor is left: the activation returns false.
Return ==
    /\ answer = "searching" /\ stack # <<>> /\ Top.todo = {}
    /\ color' = [color EXCEPT ![Top.node] = 2]
    /\ stack' = SubSeq(stack, 1, Len(stack) - 1)
    /\ UNCHANGED <<g, answer>>

Next == \/ \E n \in Id : \/ VisitRoot(n) \/ FindCycle(n) \/ Descend(n) \/ Skip(n)
        \/ Exhaust \/ Return

Spec == Init /\ [][Next]_searchVars

\* A thread in the search holds the registry lock and runs on.
FairSpec == Spec /\ WF_searchVars(Next)

-----------------------------------------------------------------------------

Visiting == {n \in Id : color[n] = 1}
Done     == {n \in Id : color[n] = 2}

TypeOK == /\ g \in Graph
          /\ color \in [Id -> 0 .. 2]
          /\ stack \in Seq(Activation)
          /\ answer \in {"searching", "cycle", "acyclic"}

\* The identities being visited are those of the activations, each in one
\* activation, and each activation was called by the one below it.
StackIsPath ==
    /\ Visiting = {stack[i].node : i \in DOMAIN stack}
    /\ \A i, j \in DOMAIN stack : stack[i].node = stack[j].node => i = j
    /\ \A i \in DOMAIN stack : i > 1 => stack[i].node \in g[stack[i - 1].node]

\* What an activation has dealt with is done or, of the last one called, at
\* the activation above; what it has left is still to come.
SuccessorsAccounted ==
    \A i \in DOMAIN stack :
        /\ stack[i].todo \subseteq g[stack[i].node]
        /\ g[stack[i].node] \subseteq
             stack[i].todo \cup Done \cup
             {stack[j].node : j \in {k \in DOMAIN stack : k = i + 1}}

\* An identity that is done leads only to identities that are done, and no
\* cycle runs through them.
DoneIsSafe ==
    /\ \A n \in Done : g[n] \subseteq Done
    /\ ~ \E S \in SUBSET Done : IsCore(g, S)

\* The search answers "cycle" exactly of the graphs that have one: what
\* create_cycle rejects is what must be rejected, and nothing else.
AnswerExact == /\ answer = "cycle" => HasCycle(g)
               /\ answer = "acyclic" => ~HasCycle(g)

\* The search ends: it runs under the registry lock.
Terminates == <>(answer # "searching")
=============================================================================
