---------------------------- MODULE EvaluationOrder ----------------------------
(***************************************************************************)
(* The order in which the variables of a match are evaluated: the graph of *)
(* their dependencies is walked depth first from the body of the match.    *)
(* The dependencies of a node are a hash set, so they are met in any order.*)
(***************************************************************************)
EXTENDS Naturals, Sequences

CONSTANTS Root,   \* the node of the body of the match
          Graphs  \* the graphs a walk may start with: [name -> [deps, ...]]

ASSUME GraphsAssumption == \A g \in Graphs : Root \in DOMAIN g

VARIABLES
    graph,   \* the nodes of the walk under way
    path,    \* the nodes entered and not left yet, the innermost last
    seen,    \* the nodes entered so far
    order,   \* the nodes left so far, in that order
    problem  \* why the walk ended early: [kind, from, to], or NoProblem
orderVars == <<graph, path, seen, order, problem>>

NoProblem == [kind |-> "none"]
Ids(s) == {s[i] : i \in 1 .. Len(s)}
Resolved == Ids(order)
Node == path[Len(path)]
Walking == path # <<>> /\ problem = NoProblem

StartWalk(g) ==
    /\ graph' = g
    /\ path' = <<Root>>
    /\ seen' = {Root}
    /\ order' = <<>>
    /\ problem' = NoProblem

\* A dependency that was not resolved is resolved first.
Descend(d) ==
    /\ Walking
    /\ d \in graph[Node].deps \ Resolved
    /\ d \notin seen
    /\ d \in DOMAIN graph
    /\ path' = Append(path, d)
    /\ seen' = seen \cup {d}
    /\ UNCHANGED <<graph, order, problem>>

\* It was entered but is not resolved: it waits for this node.
Circular(d) ==
    /\ Walking
    /\ d \in graph[Node].deps \ Resolved
    /\ d \in seen
    /\ problem' = [kind |-> "circular", from |-> Node, to |-> d]
    /\ UNCHANGED <<graph, path, seen, order>>

Missing(d) ==
    /\ Walking
    /\ d \in graph[Node].deps \ Resolved
    /\ d \notin seen
    /\ d \notin DOMAIN graph
    /\ problem' = [kind |-> "missing", from |-> Node, to |-> d]
    /\ UNCHANGED <<graph, path, seen, order>>

\* Mutant: a node is left while one of its dependencies is not resolved.
AscendEarly ==
    /\ Walking
    /\ order' = Append(order, Node)
    /\ path' = SubSeq(path, 1, Len(path) - 1)
    /\ UNCHANGED <<graph, seen, problem>>

Ascend ==
    /\ Walking
    /\ graph[Node].deps \subseteq Resolved
    /\ order' = Append(order, Node)
    /\ path' = SubSeq(path, 1, Len(path) - 1)
    /\ UNCHANGED <<graph, seen, problem>>

Walk ==
    /\ Walking
    /\ \/ Ascend
       \/ \E d \in graph[Node].deps : Descend(d) \/ Circular(d) \/ Missing(d)

OrderInit == \E g \in Graphs : graph = g /\ path = <<>> /\ seen = {} /\ order = <<>>
                               /\ problem = NoProblem
OrderNext == (\E g \in Graphs : StartWalk(g)) \/ Walk
OrderSpec == OrderInit /\ [][OrderNext]_orderVars
-----------------------------------------------------------------------------
\* Whatever order the hash sets give, a variable is evaluated after all of those it
\* depends on, and only once: resolve_dependencies leaves a node after its
\* dependencies, and a node that was left is not entered again.
DependenciesFirst ==
    /\ \A i \in 1 .. Len(order) :
          graph[order[i]].deps \subseteq {order[j] : j \in 1 .. (i - 1)}
    /\ \A i, j \in 1 .. Len(order) : order[i] = order[j] => i = j

\* A match is refused as circular only if it is: from the node reported there is a
\* chain of dependencies that leads back to the node that was being resolved.
CycleIsReal ==
    problem.kind = "circular" =>
        /\ problem.to \in graph[problem.from].deps
        /\ \E i \in 1 .. Len(path) :
              /\ path[i] = problem.to
              /\ path[Len(path)] = problem.from
              /\ \A j \in i .. (Len(path) - 1) : path[j + 1] \in graph[path[j]].deps
=============================================================================
