---------------------------- MODULE RenderingProofs ----------------------------
(***************************************************************************)
(* The order in which the variables of a match are evaluated, for every    *)
(* set of matches and every order of the dependencies: about the walk by   *)
(* itself, and about the renderer that uses it.                            *)
(***************************************************************************)
EXTENDS RenderingProperties, FiniteSetTheorems, SequenceLemmas

\* The inductive invariant.  DependenciesFirst alone is not inductive: a node is
\* left once only because no node is on the path twice or after it was left, and a
\* cycle is real because the path is a chain and holds all that was seen but not
\* left.
WalkInv ==
    /\ Root \in DOMAIN graph
    /\ path \in Seq(DOMAIN graph)
    /\ order \in Seq(DOMAIN graph)
    /\ seen = Ids(path) \cup Ids(order)
    /\ \A i, j \in 1 .. Len(path) : path[i] = path[j] => i = j
    /\ Ids(path) \cap Ids(order) = {}
    /\ \A j \in 1 .. (Len(path) - 1) : path[j + 1] \in graph[path[j]].deps
    /\ DependenciesFirst
    /\ CycleIsReal

-----------------------------------------------------------------------------

\* A walk begins with nothing but the body.
LEMMA StartKeeps ==
    ASSUME NEW g, Root \in DOMAIN g, StartWalk(g)
    PROVE  WalkInv'
BY DEF StartWalk, WalkInv, DependenciesFirst, CycleIsReal, Ids, NoProblem

\* The last node of the path.
LEMMA NodeFacts ==
    ASSUME WalkInv, Walking
    PROVE  /\ Len(path) \in Nat \ {0}
           /\ Node \in DOMAIN graph
           /\ Node \in Ids(path)
           /\ Node \notin Ids(order)
<1>1. path \in Seq(DOMAIN graph) /\ path # <<>>
  BY DEF WalkInv, Walking
<1>2. Len(path) \in Nat \ {0}
  BY <1>1
<1>3. Node \in Ids(path) /\ Node \in DOMAIN graph
  BY <1>1, <1>2 DEF Node, Ids
<1>. QED
  BY <1>2, <1>3 DEF WalkInv

\* A step that changes none of the walk but its problem.
LEMMA ProblemKeeps ==
    ASSUME WalkInv, UNCHANGED <<graph, path, seen, order>>, CycleIsReal'
    PROVE  WalkInv'
<1>1. UNCHANGED <<Ids(path), Ids(order)>>
  BY DEF Ids
<1>2. DependenciesFirst'
  BY DEF WalkInv, DependenciesFirst
<1>. QED
  BY <1>1, <1>2 DEF WalkInv

\* A dependency that was not seen is entered.
LEMMA DescendKeeps ==
    ASSUME WalkInv, NEW d, Descend(d)
    PROVE  WalkInv'
<1>. DEFINE n == Len(path)
<1>1. n \in Nat \ {0} /\ Walking
  BY NodeFacts DEF Descend
<1>2. path' = Append(path, d) /\ seen' = seen \cup {d} /\ UNCHANGED <<graph, order, problem>>
  BY DEF Descend
<1>3. d \in DOMAIN graph /\ d \notin seen /\ d \in graph[path[n]].deps
  BY DEF Descend, Node
<1>4. path \in Seq(DOMAIN graph) /\ order \in Seq(DOMAIN graph)
  BY DEF WalkInv
<1>5. path' \in Seq(DOMAIN graph) /\ Len(path') = n + 1
  BY <1>2, <1>3, <1>4
<1>6. /\ \A i \in 1 .. n : path'[i] = path[i]
      /\ path'[n + 1] = d
  BY <1>2, <1>4
<1>7. Ids(path') = Ids(path) \cup {d}
  BY <1>1, <1>5, <1>6 DEF Ids
<1>8. d \notin Ids(path) /\ d \notin Ids(order)
  BY <1>3 DEF WalkInv
<1>9. \A i, j \in 1 .. Len(path') : path'[i] = path'[j] => i = j
  <2>. SUFFICES ASSUME NEW i \in 1 .. (n + 1), NEW j \in 1 .. (n + 1), path'[i] = path'[j]
                PROVE  i = j
    BY <1>5
  <2>1. CASE i \in 1 .. n /\ j \in 1 .. n
    BY <2>1, <1>6 DEF WalkInv
  <2>2. CASE i = n + 1 \/ j = n + 1
    BY <2>2, <1>1, <1>6, <1>8 DEF Ids
  <2>. QED
    BY <2>1, <2>2, <1>1
<1>10. \A j \in 1 .. (Len(path') - 1) : path'[j + 1] \in graph[path'[j]].deps
  <2>. SUFFICES ASSUME NEW j \in 1 .. n
                PROVE  path'[j + 1] \in graph[path'[j]].deps
    BY <1>5, <1>1
  <2>1. CASE j = n
    BY <2>1, <1>1, <1>3, <1>6
  <2>2. CASE j \in 1 .. (n - 1)
    <3>1. j + 1 \in 1 .. n
      BY <2>2, <1>1
    <3>. QED
      BY <2>2, <3>1, <1>6 DEF WalkInv
  <2>. QED
    BY <2>1, <2>2, <1>1
<1>11. DependenciesFirst'
  BY <1>2 DEF WalkInv, DependenciesFirst
<1>12. problem = NoProblem
  BY <1>1 DEF Walking
<1>13. CycleIsReal'
  BY <1>2, <1>12 DEF CycleIsReal, NoProblem
<1>14. Ids(order)' = Ids(order) /\ Ids(path)' = Ids(path) \cup {d}
  BY <1>2, <1>7 DEF Ids
<1>15. /\ seen' = Ids(path)' \cup Ids(order)'
       /\ Ids(path)' \cap Ids(order)' = {}
  BY <1>2, <1>8, <1>14 DEF WalkInv
<1>16. /\ Root \in DOMAIN graph' /\ order' \in Seq(DOMAIN graph')
       /\ path' \in Seq(DOMAIN graph')
       /\ \A j \in 1 .. (Len(path') - 1) : path'[j + 1] \in graph'[path'[j]].deps
  BY <1>2, <1>4, <1>5, <1>10 DEF WalkInv
<1>. QED
  BY <1>9, <1>11, <1>13, <1>15, <1>16 DEF WalkInv

\* A dependency that was seen but not left is on the path.
LEMMA CircularKeeps ==
    ASSUME WalkInv, NEW d, Circular(d)
    PROVE  WalkInv'
<1>. DEFINE n == Len(path)
<1>1. n \in Nat \ {0} /\ Walking
  BY NodeFacts DEF Circular
<1>2. d \in graph[Node].deps /\ d \notin Ids(order) /\ d \in seen
  BY DEF Circular, Resolved
<1>3. PICK i \in 1 .. n : path[i] = d
  BY <1>2 DEF WalkInv, Ids
<1>4. /\ problem' = [kind |-> "circular", from |-> Node, to |-> d]
      /\ UNCHANGED <<graph, path, seen, order>>
  BY DEF Circular
<1>5. \A j \in i .. (n - 1) : path[j + 1] \in graph[path[j]].deps
  BY <1>1, <1>3 DEF WalkInv
<1>6. CycleIsReal'
  BY <1>2, <1>3, <1>4, <1>5 DEF CycleIsReal, Node
<1>. QED
  BY <1>4, <1>6, ProblemKeeps

\* A dependency that is not declared is skipped (resolve.rs, get_dependencies).
LEMMA MissingKeeps ==
    ASSUME WalkInv, NEW d, Missing(d)
    PROVE  WalkInv'
<1>1. /\ problem' = [kind |-> "missing", from |-> Node, to |-> d]
      /\ UNCHANGED <<graph, path, seen, order>>
  BY DEF Missing
<1>2. CycleIsReal'
  BY <1>1 DEF CycleIsReal
<1>. QED
  BY <1>1, <1>2, ProblemKeeps

\* A node is left once its dependencies are.
LEMMA AscendKeeps ==
    ASSUME WalkInv, Ascend
    PROVE  WalkInv'
<1>. DEFINE n == Len(path)
            k == Len(order)
<1>1. /\ Walking /\ n \in Nat \ {0}
      /\ Node \in DOMAIN graph /\ Node \in Ids(path) /\ Node \notin Ids(order)
  BY NodeFacts DEF Ascend
<1>2. /\ graph[Node].deps \subseteq Ids(order)
      /\ order' = Append(order, Node)
      /\ path' = SubSeq(path, 1, n - 1)
      /\ UNCHANGED <<graph, seen, problem>>
  BY DEF Ascend, Resolved
<1>3. path \in Seq(DOMAIN graph) /\ order \in Seq(DOMAIN graph)
  BY DEF WalkInv
<1>4. /\ order' \in Seq(DOMAIN graph) /\ Len(order') = k + 1 /\ k \in Nat
      /\ \A i \in 1 .. k : order'[i] = order[i]
      /\ order'[k + 1] = Node
  BY <1>1, <1>2, <1>3
<1>5. /\ path' \in Seq(DOMAIN graph) /\ Len(path') = n - 1
      /\ \A i \in 1 .. (n - 1) : path'[i] = path[i]
  <2>. DEFINE front == SubSeq(path, 1, n - 1)
  <2>1. n - 1 \in Int /\ 1 \in Int /\ \A i \in 1 .. (n - 1) : path[i] \in DOMAIN graph
    BY <1>1, <1>3
  <2>2. /\ front \in Seq(DOMAIN graph)
        /\ Len(front) = IF 1 <= n - 1 THEN (n - 1) - 1 + 1 ELSE 0
        /\ \A i \in 1 .. ((n - 1) - 1 + 1) : front[i] = path[1 + i - 1]
    <3>. HIDE DEF n
    <3>. QED
      BY <2>1, SubSeqProperties
  <2>3. path' = front
    BY <1>2
  <2>. HIDE DEF front, n
  <2>4. Len(front) = n - 1
    BY <2>2, <1>1
  <2>5. \A i \in 1 .. (n - 1) : front[i] = path[i]
    <3>1. ASSUME NEW i \in 1 .. (n - 1)
          PROVE  i \in 1 .. ((n - 1) - 1 + 1) /\ 1 + i - 1 = i
      BY <1>1
    <3>. QED
      BY <2>2, <3>1
  <2>. QED
    BY <2>2, <2>3, <2>4, <2>5
<1>6. Ids(order') = Ids(order) \cup {Node}
  BY <1>4 DEF Ids
<1>7. Ids(path') = Ids(path) \ {Node}
  <2>1. \A i \in 1 .. (n - 1) : path[i] # Node
    BY <1>1 DEF WalkInv, Node
  <2>2. \A x \in Ids(path) : x # Node => \E i \in 1 .. (n - 1) : path[i] = x
    BY <1>1 DEF Ids, Node
  <2>. QED
    BY <2>1, <2>2, <1>1, <1>5 DEF Ids
<1>8. seen' = Ids(path') \cup Ids(order') /\ Ids(path') \cap Ids(order') = {}
  BY <1>1, <1>2, <1>6, <1>7 DEF WalkInv
<1>9. \A i, j \in 1 .. Len(path') : path'[i] = path'[j] => i = j
  BY <1>1, <1>5 DEF WalkInv
<1>10. \A j \in 1 .. (Len(path') - 1) : path'[j + 1] \in graph'[path'[j]].deps
  BY <1>1, <1>2, <1>5 DEF WalkInv
<1>11. DependenciesFirst'
  <2>1. \A i \in 1 .. Len(order') :
           graph'[order'[i]].deps \subseteq {order'[j] : j \in 1 .. (i - 1)}
    <3>. SUFFICES ASSUME NEW i \in 1 .. (k + 1)
                  PROVE  graph[order'[i]].deps \subseteq {order'[j] : j \in 1 .. (i - 1)}
      BY <1>2, <1>4
    <3>1. CASE i = k + 1
      BY <3>1, <1>2, <1>4 DEF Ids
    <3>2. CASE i \in 1 .. k
      <4>1. graph[order[i]].deps \subseteq {order[j] : j \in 1 .. (i - 1)}
        BY <3>2 DEF WalkInv, DependenciesFirst
      <4>2. \A j \in 1 .. (i - 1) : order'[j] = order[j]
        BY <3>2, <1>4
      <4>. QED
        BY <4>1, <4>2, <3>2, <1>4
    <3>. QED
      BY <3>1, <3>2, <1>4
  <2>2. \A i, j \in 1 .. Len(order') : order'[i] = order'[j] => i = j
    <3>. SUFFICES ASSUME NEW i \in 1 .. (k + 1), NEW j \in 1 .. (k + 1), order'[i] = order'[j]
                  PROVE  i = j
      BY <1>4
    <3>1. CASE i \in 1 .. k /\ j \in 1 .. k
      BY <3>1, <1>4 DEF WalkInv, DependenciesFirst
    <3>2. CASE i = k + 1 \/ j = k + 1
      BY <3>2, <1>1, <1>4 DEF Ids
    <3>. QED
      BY <3>1, <3>2, <1>4
  <2>. QED
    BY <2>1, <2>2 DEF DependenciesFirst
<1>12. CycleIsReal'
  BY <1>1, <1>2 DEF CycleIsReal, NoProblem, Walking
<1>. QED
  BY <1>2, <1>4, <1>5, <1>8, <1>9, <1>10, <1>11, <1>12 DEF WalkInv

\* Every step of the depth-first walk keeps the invariant.
LEMMA WalkKeeps == WalkInv /\ Walk => WalkInv'
BY DescendKeeps, CircularKeeps, MissingKeeps, AscendKeeps DEF Walk

\* What does not touch the walk keeps it.
LEMMA StutterKeeps == WalkInv /\ UNCHANGED orderVars => WalkInv'
<1>. SUFFICES ASSUME WalkInv, UNCHANGED orderVars
              PROVE  WalkInv'
  OBVIOUS
<1>1. CycleIsReal'
  BY DEF WalkInv, orderVars, CycleIsReal
<1>. QED
  BY <1>1, ProblemKeeps DEF orderVars

\* The walk starts with an empty order and stack.
LEMMA OrderInitKeeps == OrderInit => WalkInv
BY GraphsAssumption DEF OrderInit, WalkInv, DependenciesFirst, CycleIsReal, Ids, NoProblem

-----------------------------------------------------------------------------

\* The walk by itself, from any graph: a variable is evaluated after all those it
\* depends on and once, and only a real cycle is refused.
THEOREM WalkIsTopological == OrderSpec => [](DependenciesFirst /\ CycleIsReal)
<1>1. OrderInit => WalkInv
  BY OrderInitKeeps
<1>2. WalkInv /\ [OrderNext]_orderVars => WalkInv'
  BY StartKeeps, WalkKeeps, StutterKeeps, GraphsAssumption DEF OrderNext
<1>3. WalkInv => DependenciesFirst /\ CycleIsReal
  BY DEF WalkInv
<1>. QED
  BY <1>1, <1>2, <1>3, PTL DEF OrderSpec

\* The graph of a template has a node for its body.
LEMMA NodeMapHasRoot ==
    ASSUME NEW body, NEW locals, NEW globals
    PROVE  Root \in DOMAIN NodeMap(body, locals, globals)
BY DEF NodeMap

\* The renderer enters templates, and otherwise only walks.
LEMMA EnterKeeps ==
    ASSUME WalkInv, NEW template, NEW outer, NEW context, Enter(template, outer, context)
    PROVE  WalkInv'
BY NodeMapHasRoot, StartKeeps, StutterKeeps DEF Enter

LEMMA RenderStep == WalkInv /\ [Next]_vars => WalkInv'
<1>. SUFFICES ASSUME WalkInv, [Next]_vars
              PROVE  WalkInv'
  OBVIOUS
<1>1. ASSUME NEW r \in Requests, Render(r)
      PROVE  WalkInv'
  BY <1>1, EnterKeeps, StutterKeeps DEF Render
<1>2. CASE ResolveStep
  BY <1>2, WalkKeeps DEF ResolveStep
<1>3. ASSUME NEW v \in Current, EvaluateMatch(v)
      PROVE  WalkInv'
  BY <1>3, EnterKeeps, StutterKeeps DEF EvaluateMatch
<1>4. ASSUME NEW v \in Current, EvaluateExtension(v) \/ EvaluateUnknown(v)
      PROVE  WalkInv'
  BY <1>4, StutterKeeps DEF EvaluateExtension, EvaluateUnknown
<1>5. CASE Plan \/ Refuse \/ Finish \/ Answer
  BY <1>5, StutterKeeps DEF Plan, Refuse, Finish, Answer
<1>6. CASE UNCHANGED vars
  BY <1>6, StutterKeeps DEF vars, orderVars
<1>. QED
  BY <1>1, <1>2, <1>3, <1>4, <1>5, <1>6 DEF Next

\* The renderer evaluates every variable after those it depends on and once,
\* whatever matches are inside matches, and refuses only what is circular.
THEOREM RenderingIsTopological == Spec => [](DependenciesFirst /\ CycleIsReal)
<1>1. Init => WalkInv
  BY OrderInitKeeps DEF Init
<1>2. WalkInv => DependenciesFirst /\ CycleIsReal
  BY DEF WalkInv
<1>. QED
  BY <1>1, <1>2, RenderStep, PTL DEF Spec

-----------------------------------------------------------------------------
(* What is evaluated.                                                      *)

\* The walk enters only what can be reached, and leaves the body last.
WalkReaches ==
    seen # {} =>
        /\ Root \in seen
        /\ path # <<>> => path[1] = Root
        /\ path = <<>> => order # <<>> /\ order[Len(order)] = Root
        /\ Ids(path) \cup Ids(order) \subseteq Reachable(graph)

ProblemKinds == problem = NoProblem \/ problem.kind \in {"circular", "missing"}

\* A request has one configuration, whose context is the one generated.
ContextInv ==
    /\ request # {} =>
          \E r \in request : /\ request = {r}
                             /\ frames # <<>> => r.config \in DOMAIN cache
    /\ request = {} => frames = <<>>
    /\ \A c \in DOMAIN cache : c \in Configs /\ cache[c] = GenerateContext(c)

\* The variables that a frame may have to evaluate, and the names of those that
\* nobody can.
Available(f, globals) == Range(f.template.vars) \cup Range(globals)
Unknown(f, globals) ==
    {v.name : v \in {w \in Available(f, globals) : w.type \notin Extensions \cup {"match"}}}

\* What has a value, or will have one before the i-th of the variables to evaluate.
Before(f, i, globals) ==
    DOMAIN f.scope \cup {f.todo[j].name : j \in 1 .. (i - 1)} \cup Unknown(f, globals)

\* Everything that is referred to comes first.
Ordered(f, globals) ==
    /\ \A i \in 1 .. Len(f.todo) :
          /\ f.todo[i] \in Available(f, globals)
          /\ f.todo[i].injectVars => ParamNames(f.todo[i].params) \subseteq Before(f, i, globals)
    /\ BodyNames(f.template.body) \subseteq Before(f, Len(f.todo) + 1, globals)

IsFrame(f) ==
    f = [template |-> f.template, scope |-> f.scope, todo |-> f.todo, phase |-> f.phase]
FrameOK(f, globals) ==
    /\ IsFrame(f)
    /\ Variables(f.template.vars)
    /\ f.todo \in Seq(Range(f.todo))
    /\ f.phase \in {"resolve", "evaluate", "finish"}
    /\ f.phase = "finish" => BodyNames(f.template.body) = {} /\ f.todo = <<>>
    /\ f.phase = "evaluate" => Ordered(f, globals)

\* The frames around the innermost one wait for it.
Waiting(f) == f.phase = "evaluate" /\ f.todo # <<>>
Nested(fs, globals) ==
    /\ fs \in Seq(Range(fs))
    /\ \A k \in 1 .. Len(fs) : FrameOK(fs[k], globals) /\ (k < Len(fs) => Waiting(fs[k]))

\* The walk under way is the one of the innermost frame.
Walked(f, globals) ==
    f.phase = "resolve" =>
        /\ seen # {}
        /\ graph = NodeMap(f.template.body, LocalVariables(f.template, globals), globals)

FramesInv ==
    frames # <<>> =>
        Nested(frames, Context.globals) /\ Walked(frames[Len(frames)], Context.globals)

RenderInv ==
    WalkInv /\ WalkReaches /\ ProblemKinds /\ ContextInv /\ FramesInv /\ ResolvedNeverMissing

-----------------------------------------------------------------------------

LEMMA RootIsReachable == ASSUME NEW g PROVE Root \in Reachable(g)
BY DEF Reachable, Closed

\* What a reachable node depends on can be reached.
LEMMA ReachableIsClosed ==
    ASSUME NEW g, NEW m \in Reachable(g) \cap DOMAIN g, NEW d \in g[m].deps
    PROVE  d \in Reachable(g)
BY DEF Reachable, Closed

LEMMA StartReaches ==
    ASSUME NEW g, StartWalk(g)
    PROVE  WalkReaches' /\ ProblemKinds' /\ seen' # {} /\ graph' = g
<1>1. Ids(path') \cup Ids(order') = {Root}
  BY DEF StartWalk, Ids
<1>. QED
  BY <1>1, RootIsReachable DEF StartWalk, WalkReaches, ProblemKinds

LEMMA DescendReaches ==
    ASSUME WalkInv, WalkReaches, NEW d, Descend(d)
    PROVE  WalkReaches'
<1>. DEFINE n == Len(path)
<1>1. /\ Walking /\ n \in Nat \ {0} /\ path \in Seq(DOMAIN graph)
      /\ Node \in DOMAIN graph /\ Node \in Ids(path)
  BY NodeFacts DEF Descend, WalkInv
<1>2. /\ path' = Append(path, d) /\ seen' = seen \cup {d} /\ order' = order /\ graph' = graph
      /\ d \in graph[Node].deps /\ d \in DOMAIN graph
  BY DEF Descend
<1>3. seen # {}
  BY <1>1 DEF WalkInv
<1>4. /\ Root \in seen /\ path[1] = Root
      /\ Ids(path) \cup Ids(order) \subseteq Reachable(graph)
  BY <1>1, <1>3 DEF WalkReaches, Walking
<1>5. d \in Reachable(graph)
  BY <1>1, <1>2, <1>4, ReachableIsClosed
<1>6. /\ path' # <<>> /\ path'[1] = Root
      /\ Ids(path') \subseteq Ids(path) \cup {d}
  BY <1>1, <1>2, <1>4 DEF Ids
<1>7. Ids(path)' = Ids(path') /\ Ids(order)' = Ids(order) /\ Reachable(graph)' = Reachable(graph)
  BY <1>2 DEF Ids
<1>. QED
  BY <1>2, <1>4, <1>5, <1>6, <1>7 DEF WalkReaches

LEMMA AscendReaches ==
    ASSUME WalkInv, WalkReaches, Ascend
    PROVE  WalkReaches'
<1>. DEFINE n == Len(path)
<1>1. /\ Walking /\ n \in Nat \ {0} /\ path \in Seq(DOMAIN graph) /\ order \in Seq(DOMAIN graph)
      /\ Node \in DOMAIN graph /\ Node \in Ids(path)
  BY NodeFacts DEF Ascend, WalkInv
<1>0. n = 1 \/ n > 1
  <2>1. n \in Nat \ {0}
    BY <1>1
  <2>. HIDE DEF n
  <2>. QED
    BY <2>1
<1>2. /\ order' = Append(order, Node) /\ path' = SubSeq(path, 1, n - 1)
      /\ UNCHANGED <<graph, seen>>
  BY DEF Ascend
<1>3. seen # {}
  BY <1>1 DEF WalkInv
<1>4. /\ Root \in seen /\ path[1] = Root
      /\ Ids(path) \cup Ids(order) \subseteq Reachable(graph)
  BY <1>1, <1>3 DEF WalkReaches, Walking
<1>5. order' # <<>> /\ order'[Len(order')] = Node /\ Ids(order') \subseteq Ids(order) \cup {Node}
  BY <1>1, <1>2 DEF Ids
<1>6. /\ n = 1 => Node = Root /\ path' = <<>>
      /\ n > 1 => path' # <<>> /\ path'[1] = Root
      /\ Ids(path') \subseteq Ids(path)
  <2>1. CASE n = 1
    BY <1>1, <1>2, <1>4, <2>1 DEF Node, Ids
  <2>2. CASE n > 1
    <3>1. path' \in Seq(DOMAIN graph) /\ Len(path') = n - 1 /\ \A i \in 1 .. n - 1 : path'[i] = path[i]
      BY <1>1, <1>2, <2>2
    <3>. QED
      BY <1>1, <1>4, <2>2, <3>1 DEF Ids
  <2>. QED
    BY <1>0, <2>1, <2>2
<1>7. Ids(path)' = Ids(path') /\ Ids(order)' = Ids(order') /\ Reachable(graph)' = Reachable(graph)
  BY <1>2 DEF Ids
<1>8. Root \in seen' /\ Ids(path)' \cup Ids(order)' \subseteq Reachable(graph)'
  BY <1>1, <1>2, <1>4, <1>5, <1>6, <1>7
<1>9. /\ path' # <<>> => path'[1] = Root
      /\ path' = <<>> => order' # <<>> /\ order'[Len(order')] = Root
  <2>. HIDE DEF n
  <2>. QED
    BY <1>0, <1>5, <1>6
<1>. QED
  BY <1>8, <1>9 DEF WalkReaches

\* Every step of the walk.
LEMMA WalkStepReaches ==
    ASSUME WalkInv, WalkReaches, ProblemKinds, Walk
    PROVE  WalkReaches' /\ ProblemKinds' /\ (seen # {} => seen' # {}) /\ graph' = graph
<1>1. ASSUME NEW d, Descend(d) PROVE WalkReaches' /\ ProblemKinds' /\ graph' = graph /\ seen' # {}
  BY <1>1, DescendReaches DEF Descend, ProblemKinds
<1>2. ASSUME NEW d, Circular(d) \/ Missing(d)
      PROVE  WalkReaches' /\ ProblemKinds' /\ graph' = graph /\ seen' = seen
  <2>1. UNCHANGED <<graph, path, seen, order>>
    BY <1>2 DEF Circular, Missing
  <2>2. Ids(path)' = Ids(path) /\ Ids(order)' = Ids(order) /\ Reachable(graph)' = Reachable(graph)
    BY <2>1 DEF Ids
  <2>3. WalkReaches'
    BY <2>1, <2>2 DEF WalkReaches
  <2>4. ProblemKinds'
    BY <1>2 DEF Circular, Missing, ProblemKinds
  <2>. QED
    BY <2>1, <2>3, <2>4
<1>3. CASE Ascend
  BY <1>3, AscendReaches DEF Ascend, ProblemKinds
<1>. QED
  BY <1>1, <1>2, <1>3 DEF Walk

\* When the walk is over, what was left is what can be reached, the body last.
LEMMA WalkEnds ==
    ASSUME WalkInv, WalkReaches, seen # {}, path = <<>>
    PROVE  /\ Len(order) \in Nat \ {0} /\ order[Len(order)] = Root
           /\ \A i \in 1 .. Len(order) : order[i] = Root => i = Len(order)
           /\ Ids(order) = Reachable(graph)
<1>1. order \in Seq(DOMAIN graph) /\ order # <<>> /\ order[Len(order)] = Root
      /\ Ids(order) \subseteq Reachable(graph)
  BY DEF WalkInv, WalkReaches
<1>2. Len(order) \in Nat \ {0}
  BY <1>1
<1>3. \A i \in 1 .. Len(order) : order[i] = Root => i = Len(order)
  BY <1>1, <1>2 DEF WalkInv, DependenciesFirst
<1>4. Closed(graph, Ids(order))
  <2>1. Root \in Ids(order)
    <3>1. Len(order) \in 1 .. Len(order) /\ order[Len(order)] = Root
      BY <1>1, <1>2
    <3>2. \A i \in 1 .. Len(order) : order[i] \in Ids(order)
      BY DEF Ids
    <3>. QED
      BY <3>1, <3>2
  <2>2. ASSUME NEW i \in 1 .. Len(order) PROVE graph[order[i]].deps \subseteq Ids(order)
    BY <1>2 DEF WalkInv, DependenciesFirst, Ids
  <2>. QED
    BY <2>1, <2>2 DEF Closed, Ids
<1>5. Reachable(graph) \subseteq Ids(order)
  BY <1>1, <1>4 DEF Reachable
<1>. QED
  BY <1>1, <1>2, <1>3, <1>5

-----------------------------------------------------------------------------

\* The last variable of a name.
LEMMA LastNamedIs ==
    ASSUME NEW X, NEW s \in Seq(X), NEW n \in Named(s)
    PROVE  /\ LastNamed(s, n) \in 1 .. Len(s)
           /\ s[LastNamed(s, n)].name = n
           /\ \A i \in 1 .. Len(s) : s[i].name = n => i <= LastNamed(s, n)
<1>. DEFINE I == {i \in 1 .. Len(s) : s[i].name = n}
<1>1. LastNamed(s, n) = IF I # {} THEN Max(I) ELSE 0
  BY DEF LastNamed, SelectLastInSeq
<1>2. I # {}
  BY DEF Named, Range
<1>3. Max(I) \in I /\ \A i \in I : i <= Max(I)
  <2>1. Len(s) \in Nat /\ I \in SUBSET (1 .. Len(s))
    OBVIOUS
  <2>. HIDE DEF I
  <2>. QED
    BY <1>2, <2>1, LastPosition
<1>. QED
  BY <1>1, <1>2, <1>3

\* The place in the order.
LEMMA PlaceIs ==
    ASSUME WalkInv, NEW n \in Ids(order)
    PROVE  Place(n) \in 1 .. Len(order) /\ order[Place(n)] = n
<1>. DEFINE I == {i \in 1 .. Len(order) : order[i] = n}
<1>1. Place(n) = IF I # {} THEN Min(I) ELSE 0
  BY DEF Place, SelectInSeq
<1>2. I # {} /\ I \in SUBSET Nat
  BY DEF Ids
<1>3. Min(I) \in I
  <2>. HIDE DEF I
  <2>. QED
    BY <1>2, FirstPosition
<1>. QED
  BY <1>1, <1>2, <1>3

\* The local variables are those of the template, or the globals they stand for.
LEMMA LocalsType ==
    ASSUME NEW template, NEW globals, Variables(template.vars), Variables(globals)
    PROVE  LocalVariables(template, globals) \in Seq(Range(template.vars) \cup Range(globals))
<1>. DEFINE X == Range(template.vars) \cup Range(globals)
            piece(v) == IF v.type # "global" THEN <<v>>
                        ELSE IF v.name \in Named(globals) THEN <<globals[LastNamed(globals, v.name)]>>
                        ELSE <<>>
            pieces == [i \in DOMAIN template.vars |-> piece(template.vars[i])]
<1>1. template.vars \in Seq(Range(template.vars)) /\ globals \in Seq(Range(globals))
  BY DEF Variables
<1>2. ASSUME NEW v \in Range(template.vars) PROVE piece(v) \in Seq(X)
  <2>1. ASSUME v.name \in Named(globals) PROVE globals[LastNamed(globals, v.name)] \in X
    <3>1. LastNamed(globals, v.name) \in 1 .. Len(globals)
      BY <1>1, <2>1, LastNamedIs
    <3>. QED
      BY <1>1, <3>1
  <2>2. v \in X
    OBVIOUS
  <2>3. \A x \in X : <<x>> \in Seq(X)
    OBVIOUS
  <2>. HIDE DEF X
  <2>4. <<>> \in Seq(X)
    OBVIOUS
  <2>. QED
    BY <2>1, <2>2, <2>3, <2>4
<1>3. pieces \in Seq(Seq(X))
  <2>1. DOMAIN template.vars = 1 .. Len(template.vars) /\ Len(template.vars) \in Nat
        /\ \A i \in 1 .. Len(template.vars) : template.vars[i] \in Range(template.vars)
    BY <1>1
  <2>. HIDE DEF X, piece
  <2>. QED
    BY <1>2, <2>1
<1>4. FlattenSeq(pieces) \in Seq(X)
  <2>. HIDE DEF X, pieces
  <2>. QED
    BY <1>3, FlattenType
<1>5. LocalVariables(template, globals) = FlattenSeq(pieces)
  BY DEF LocalVariables
<1>. QED
  BY <1>4, <1>5

\* What is in a sequence of variables has a name there.
LEMMA NamedHolds ==
    ASSUME NEW X, NEW s \in Seq(X)
    PROVE  Len(s) \in Nat /\ \A i \in 1 .. Len(s) : s[i] \in Range(s) /\ s[i].name \in Named(s)
BY DEF Named, Range

\* The nodes of a template: each variable, and the body that needs the local ones.
Nodes(g, body, locals, globals) ==
    /\ DOMAIN g = {Root} \cup Named(locals) \cup Named(globals)
    /\ g[Root].variable = <<>> /\ g[Root].deps = Named(locals) \cup BodyNames(body)
    /\ \A n \in Named(locals) \cup Named(globals) :
          \E v \in Range(locals) \cup Range(globals) :
             /\ v.name = n /\ g[n].variable = <<v>>
             /\ DeclaredDependencies(v) \subseteq g[n].deps
    /\ \A n \in Named(locals) :
          LastNamed(locals, n) > 1 => locals[LastNamed(locals, n) - 1].name \in g[n].deps

LEMMA NodeMapIs ==
    ASSUME NEW body, NEW X, NEW Y, NEW locals \in Seq(X), NEW globals \in Seq(Y),
           Root \notin Named(locals) \cup Named(globals)
    PROVE  Nodes(NodeMap(body, locals, globals), body, locals, globals)
<1>. DEFINE g == NodeMap(body, locals, globals)
<1>1. /\ DOMAIN g = {Root} \cup Named(locals) \cup Named(globals)
      /\ g[Root].variable = <<>> /\ g[Root].deps = Named(locals) \cup BodyNames(body)
  BY DEF NodeMap
<1>2. ASSUME NEW n \in Named(locals)
      PROVE  /\ \E v \in Range(locals) :
                   /\ v.name = n /\ g[n].variable = <<v>>
                   /\ DeclaredDependencies(v) \subseteq g[n].deps
             /\ LastNamed(locals, n) > 1 => locals[LastNamed(locals, n) - 1].name \in g[n].deps
  <2>. DEFINE l == LastNamed(locals, n)
  <2>1. l \in 1 .. Len(locals) /\ locals[l].name = n
    BY LastNamedIs
  <2>2. g[n] = LocalNode(locals, l)
    BY DEF NodeMap
  <2>3. locals[l] \in Range(locals)
    BY <2>1 DEF Range
  <2>. HIDE DEF l
  <2>4. /\ g[n].variable = <<locals[l]>>
        /\ DeclaredDependencies(locals[l]) \subseteq g[n].deps
        /\ l > 1 => locals[l - 1].name \in g[n].deps
    BY <2>2 DEF LocalNode
  <2>. QED
    BY <2>1, <2>3, <2>4 DEF l
<1>3. ASSUME NEW n \in Named(globals), n \notin Named(locals)
      PROVE  \E v \in Range(globals) :
                /\ v.name = n /\ g[n].variable = <<v>>
                /\ DeclaredDependencies(v) \subseteq g[n].deps
  <2>. DEFINE l == LastNamed(globals, n)
  <2>1. l \in 1 .. Len(globals) /\ globals[l].name = n
    BY LastNamedIs
  <2>2. g[n] = GlobalNode(globals[l])
    BY <1>3 DEF NodeMap
  <2>3. globals[l] \in Range(globals)
    BY <2>1 DEF Range
  <2>. HIDE DEF l
  <2>. QED
    BY <2>1, <2>2, <2>3 DEF GlobalNode
<1>. HIDE DEF g
<1>4. Nodes(g, body, locals, globals)
  BY <1>1, <1>2, <1>3 DEF Nodes
<1>. QED
  BY <1>4 DEF g

\* In a complete order what a node depends on has its place before it.
LEMMA DependencyPlaced ==
    ASSUME WalkInv, NEW n \in Ids(order), NEW d \in graph[n].deps
    PROVE  d \in Ids(order) /\ Place(d) < Place(n)
<1>1. Place(n) \in 1 .. Len(order) /\ order[Place(n)] = n
  BY PlaceIs
<1>2. PICK j \in 1 .. (Place(n) - 1) : order[j] = d
  BY <1>1 DEF WalkInv, DependenciesFirst
<1>3. Len(order) \in Nat
  BY DEF WalkInv
<1>4. j \in 1 .. Len(order) /\ j < Place(n)
  BY <1>1, <1>2, <1>3
<1>5. d \in Ids(order)
  BY <1>2, <1>4 DEF Ids
<1>6. Place(d) \in 1 .. Len(order) /\ order[Place(d)] = d
  BY <1>5, PlaceIs
<1>7. Place(d) = j
  BY <1>2, <1>4, <1>6 DEF WalkInv, DependenciesFirst
<1>. QED
  BY <1>4, <1>5, <1>7

\* The local variables are evaluated as they are declared.  No two have the same
\* name: the one that counts would wait for itself.
LEMMA DeclaredOrder ==
    ASSUME WalkInv, WalkReaches, seen # {}, path = <<>>,
           NEW body, NEW X, NEW Y, NEW locals \in Seq(X), NEW globals \in Seq(Y),
           Root \notin Named(locals) \cup Named(globals),
           graph = NodeMap(body, locals, globals)
    PROVE  \A i, j \in 1 .. Len(locals) :
              i < j => Place(locals[i].name) < Place(locals[j].name)
<1>. DEFINE N == Len(locals)
            p(i) == Place(locals[i].name)
            l(i) == LastNamed(locals, locals[i].name)
<1>. DEFINE nodes == Nodes(graph, body, locals, globals)
<1>0. /\ N \in Nat /\ \A i \in 1 .. N : locals[i].name \in Named(locals)
      /\ nodes
  BY NamedHolds, NodeMapIs
<1>1. Named(locals) \subseteq Ids(order)
  <2>1. Root \in Ids(order)
    BY WalkEnds, RootIsReachable
  <2>2. Named(locals) \subseteq graph[Root].deps
    BY <1>0 DEF Nodes
  <2>. QED
    BY <2>1, <2>2, DependencyPlaced
<1>2. ASSUME NEW i \in 1 .. N
      PROVE  /\ p(i) \in Nat /\ l(i) \in i .. N
             /\ l(i) > 1 => p(l(i) - 1) < p(i)
  <2>1. locals[i].name \in Named(locals) /\ locals[i].name \in Ids(order)
    BY <1>0, <1>1
  <2>2. p(i) \in Nat
    BY <2>1, PlaceIs DEF WalkInv
  <2>3. l(i) \in 1 .. N /\ i <= l(i)
    BY <2>1, LastNamedIs
  <2>4. l(i) > 1 => locals[l(i) - 1].name \in graph[locals[i].name].deps
    BY <1>0, <2>1 DEF Nodes
  <2>5. l(i) > 1 => Place(locals[l(i) - 1].name) < Place(locals[i].name)
    BY <2>1, <2>4, DependencyPlaced
  <2>. HIDE DEF N, l
  <2>. QED
    BY <1>0, <2>2, <2>3, <2>5
<1>. HIDE DEF N, p, l, nodes
<1>3. ASSUME NEW a \in 1 .. N PROVE l(a) = a
  <2>. SUFFICES ASSUME l(a) # a PROVE FALSE
    OBVIOUS
  <2>. DEFINE K == {p(k) : k \in a .. N}
  <2>1. a \in a .. N /\ \A k \in a .. N : k \in 1 .. N
    BY <1>0
  <2>2. K # {} /\ K \in SUBSET Nat
    BY <1>2, <2>1
  <2>3. PICK k \in a .. N : \A m \in a .. N : p(k) <= p(m)
    <3>1. Min(K) \in K /\ \A x \in K : Min(K) <= x
      <4>. HIDE DEF K
      <4>. QED
        BY <2>2, FirstPosition
    <3>. QED
      BY <3>1
  <2>4. /\ k \in 1 .. N /\ l(k) \in k .. N /\ p(k) \in Nat
        /\ l(k) > 1 => p(l(k) - 1) < p(k)
    BY <1>2, <2>1
  <2>5. ~(l(k) - 1 >= a)
    <3>. SUFFICES ASSUME l(k) - 1 >= a PROVE FALSE
      OBVIOUS
    <3>1. l(k) - 1 \in a .. N /\ l(k) > 1
      BY <1>0, <2>4
    <3>2. p(k) <= p(l(k) - 1) /\ p(l(k) - 1) \in Nat
      BY <1>2, <2>1, <2>3, <3>1
    <3>. QED
      BY <2>4, <3>1, <3>2
  <2>6. k = a /\ l(k) = k
    BY <1>0, <2>4, <2>5
  <2>. QED
    BY <2>6
<1>4. ASSUME NEW i \in 2 .. N PROVE p(i - 1) < p(i)
  BY <1>0, <1>2, <1>3
<1>5. ASSUME NEW i \in 1 .. N, NEW j \in 1 .. N, i < j PROVE p(i) < p(j)
  <2>. DEFINE B == {k \in i + 1 .. N : ~(p(i) < p(k))}
  <2>. SUFFICES ASSUME B # {} PROVE FALSE
    BY <1>0, <1>5
  <2>1. B \in SUBSET Nat
    BY <1>0
  <2>2. PICK k \in B : \A m \in B : k <= m
    <3>. HIDE DEF B
    <3>. QED
      BY <2>1, FirstPosition
  <2>3. p(k - 1) < p(k) /\ ~(p(i) < p(k)) /\ k \in i + 1 .. N /\ k - 1 \in 1 .. N
    BY <1>0, <1>4
  <2>4. CASE k = i + 1
    BY <2>3, <2>4
  <2>5. CASE k # i + 1
    <3>1. k - 1 \in i + 1 .. N /\ ~(k <= k - 1)
      BY <1>0, <2>3, <2>5
    <3>2. k - 1 \notin B
      BY <2>2, <3>1
    <3>3. p(i) < p(k - 1)
      BY <3>1, <3>2
    <3>. QED
      BY <1>2, <2>3, <3>3
  <2>. QED
    BY <2>4, <2>5
<1>. QED
  BY <1>5 DEF N, p

\* The names of variables, of the template and of what its local ones stand for.
LEMMA LocalNames ==
    ASSUME NEW template, NEW globals, Variables(template.vars), Variables(globals)
    PROVE  Root \notin Named(LocalVariables(template, globals)) \cup Named(globals)
<1>. DEFINE locals == LocalVariables(template, globals)
            X == Range(template.vars) \cup Range(globals)
<1>1. \A v \in X : v.name # Root
  BY DEF Variables
<1>2. locals \in Seq(X)
  BY LocalsType
<1>3. \A v \in Range(locals) : v \in X
  <2>. HIDE DEF locals, X
  <2>. QED
    BY <1>2 DEF Range
<1>. QED
  BY <1>1, <1>3 DEF Named

\* The frame of a template whose graph was walked, when the order is complete.
Planning(f, globals) ==
    /\ Variables(f.template.vars) /\ Variables(globals)
    /\ graph = NodeMap(f.template.body, LocalVariables(f.template, globals), globals)
    /\ f.todo = FlattenSeq([i \in DOMAIN order |-> graph[order[i]].variable])

\* The variables of a complete order: what each refers to was put before it, and
\* what the body refers to is there.
LEMMA PlanOrdered ==
    ASSUME WalkInv, WalkReaches, seen # {}, path = <<>>,
           NEW globals, NEW f, Planning(f, globals)
    PROVE  f.todo \in Seq(Range(f.todo)) /\ Ordered(f, globals)
<1>. DEFINE X == Available(f, globals)
            todo == f.todo
            locals == LocalVariables(f.template, globals)
            pieces == [i \in DOMAIN order |-> graph[order[i]].variable]
<1>1. locals \in Seq(X) /\ globals \in Seq(Range(globals))
  BY LocalsType DEF Planning, Available, Variables
<1>2. Nodes(graph, f.template.body, locals, globals)
  BY <1>1, LocalNames, NodeMapIs DEF Planning
<1>3. Range(locals) \cup Range(globals) \subseteq X
  <2>1. Range(globals) \subseteq X
    BY DEF Available
  <2>. HIDE DEF X, locals
  <2>. QED
    BY <1>1, <2>1 DEF Range
<1>4. PICK n \in Nat \ {0} :
         /\ DOMAIN order = 1 .. n /\ order[n] = Root
         /\ \A i \in 1 .. n : order[i] = Root => i = n
         /\ \A i \in 1 .. n : order[i] \in DOMAIN graph
         /\ \A i \in 1 .. n : \A d \in graph[order[i]].deps : \E j \in 1 .. (i - 1) : order[j] = d
  <2>1. Len(order) \in Nat \ {0} /\ DOMAIN order = 1 .. Len(order) /\ order[Len(order)] = Root
    BY WalkEnds DEF WalkInv
  <2>2. \A i \in 1 .. Len(order) : order[i] = Root => i = Len(order)
    BY WalkEnds
  <2>3. \A i \in 1 .. Len(order) : order[i] \in DOMAIN graph
    BY DEF WalkInv
  <2>4. \A i \in 1 .. Len(order) : \A d \in graph[order[i]].deps :
           \E j \in 1 .. (i - 1) : order[j] = d
    BY DEF WalkInv, DependenciesFirst
  <2>. QED
    BY <2>1, <2>2, <2>3, <2>4, Zenon
<1>5. ASSUME NEW i \in 1 .. n, NEW d \in graph[order[i]].deps
      PROVE  \E j \in 1 .. (i - 1) : order[j] = d /\ j \in 1 .. n /\ d # Root
  BY <1>4
<1>. HIDE DEF X, locals
<1>6. ASSUME NEW i \in 1 .. n, order[i] # Root
      PROVE  \E v \in X : /\ v.name = order[i] /\ pieces[i] = <<v>>
                          /\ DeclaredDependencies(v) \subseteq graph[order[i]].deps
  <2>1. order[i] \in Named(locals) \cup Named(globals)
    BY <1>2, <1>4, <1>6 DEF Nodes
  <2>2. PICK v \in Range(locals) \cup Range(globals) :
           /\ v.name = order[i] /\ graph[order[i]].variable = <<v>>
           /\ DeclaredDependencies(v) \subseteq graph[order[i]].deps
    BY <1>2, <2>1 DEF Nodes
  <2>3. pieces[i] = <<v>>
    BY <1>4, <2>2
  <2>. HIDE DEF pieces
  <2>. QED
    BY <1>3, <2>2, <2>3
<1>7. pieces[n] = <<>>
  <2>1. graph[order[n]].variable = <<>> /\ n \in DOMAIN order
    BY <1>2, <1>4 DEF Nodes
  <2>. QED
    BY <2>1
<1>8. pieces \in Seq(Seq(X)) /\ Len(pieces) = n /\ DOMAIN pieces = 1 .. n
  <2>1. ASSUME NEW i \in 1 .. n PROVE pieces[i] \in Seq(X)
    <3>. HIDE DEF pieces
    <3>1. CASE order[i] = Root
      <4>1. i = n
        BY <1>4, <3>1
      <4>2. <<>> \in Seq(X)
        OBVIOUS
      <4>. QED
        BY <1>7, <4>1, <4>2
    <3>2. CASE order[i] # Root
      <4>1. PICK v \in X : pieces[i] = <<v>>
        BY <1>6, <3>2
      <4>. QED
        BY <4>1
    <3>. QED
      BY <3>1, <3>2
  <2>2. pieces = [i \in 1 .. n |-> pieces[i]]
    BY <1>4
  <2>. HIDE DEF pieces
  <2>. QED
    BY <1>4, <2>1, <2>2
<1>9. todo = FlattenSeq(pieces)
  BY DEF Planning
<1>. HIDE DEF pieces, todo
<1>a. todo \in Seq(X)
  BY <1>8, <1>9, FlattenType
<1>b. \A i \in 1 .. n : \A x : pieces[i] = <<x>> => ToSet(pieces[i]) = {x}
  BY DEF ToSet
<1>10. ASSUME NEW t \in 1 .. Len(todo)
       PROVE  /\ todo[t] \in X
              /\ todo[t].injectVars => ParamNames(todo[t].params) \subseteq Before(f, t, globals)
  <2>0. t \in 1 .. Len(FlattenSeq(pieces)) /\ pieces \in Seq(Seq(X))
    BY <1>8, <1>9
  <2>1. PICK i \in 1 .. n :
           /\ todo[t] \in ToSet(pieces[i])
           /\ \A j \in 1 .. i - 1 : \A x \in ToSet(pieces[j]) : \E u \in 1 .. t - 1 : todo[u] = x
    <3>1. \E i \in 1 .. Len(pieces) :
            /\ FlattenSeq(pieces)[t] \in ToSet(pieces[i])
            /\ \A j \in 1 .. i - 1 : \A x \in ToSet(pieces[j]) :
                  \E u \in 1 .. t - 1 : FlattenSeq(pieces)[u] = x
      BY <2>0, FlattenOrder
    <3>. QED
      BY <1>8, <1>9, <3>1
  <2>2. order[i] # Root
    <3>1. ToSet(<<>>) = {}
      BY DEF ToSet
    <3>. QED
      BY <1>4, <1>7, <2>1, <3>1
  <2>3. /\ todo[t].name = order[i] /\ todo[t] \in X
        /\ DeclaredDependencies(todo[t]) \subseteq graph[order[i]].deps
    BY <1>6, <1>b, <2>1, <2>2
  <2>4. ASSUME NEW d \in graph[order[i]].deps
        PROVE  d \in {todo[u].name : u \in 1 .. t - 1}
    <3>1. PICK j \in 1 .. (i - 1) : order[j] = d /\ j \in 1 .. n /\ d # Root
      BY <1>5
    <3>2. PICK w \in X : w.name = d /\ pieces[j] = <<w>>
      BY <1>6, <3>1
    <3>3. w \in ToSet(pieces[j])
      BY <1>b, <3>1, <3>2
    <3>4. PICK u \in 1 .. t - 1 : todo[u] = w
      BY <2>1, <3>1, <3>3
    <3>. QED
      BY <3>2, <3>4
  <2>5. todo[t].injectVars => ParamNames(todo[t].params) \subseteq {todo[u].name : u \in 1 .. t - 1}
    BY <2>3, <2>4 DEF DeclaredDependencies
  <2>. QED
    BY <2>3, <2>5 DEF Before, todo
<1>11. BodyNames(f.template.body) \subseteq Before(f, Len(todo) + 1, globals)
  <2>. SUFFICES ASSUME NEW d \in BodyNames(f.template.body)
                PROVE  d \in {todo[u].name : u \in 1 .. (Len(todo) + 1) - 1}
    BY DEF Before, todo
  <2>1. d \in graph[order[n]].deps /\ n \in 1 .. n
    BY <1>2, <1>4 DEF Nodes
  <2>2. PICK j \in 1 .. n : order[j] = d /\ d # Root
    BY <1>5, <2>1
  <2>3. PICK w \in X : w.name = d /\ pieces[j] = <<w>>
    BY <1>6, <2>2
  <2>4. w \in ToSet(pieces[j]) /\ j \in DOMAIN pieces
    BY <1>8, <1>b, <2>3
  <2>5. w \in ToSet(todo)
    <3>1. ToSet(todo) = UNION {ToSet(pieces[i]) : i \in DOMAIN pieces}
      BY <1>8, <1>9, FlattenElements
    <3>. QED
      BY <2>4, <3>1
  <2>6. PICK u \in DOMAIN todo : todo[u] = w
    BY <2>5 DEF ToSet
  <2>7. u \in 1 .. (Len(todo) + 1) - 1
    BY <1>a
  <2>. QED
    BY <2>3, <2>6, <2>7
<1>12. todo \in Seq(Range(todo))
  BY <1>a DEF Range
<1>. QED
  BY <1>10, <1>11, <1>12 DEF Ordered, X, todo

-----------------------------------------------------------------------------

\* The contexts that are generated.
LEMMA GeneratedContext ==
    ASSUME NEW c \in Configs
    PROVE  /\ Variables(GenerateContext(c).globals)
           /\ \A i \in 1 .. Len(GenerateContext(c).templates) :
                 Variables(GenerateContext(c).templates[i].vars)
<1>. DEFINE ids == MatchSets[c].matches
            X == {Template(id) : id \in {i \in DOMAIN MatchesById : HasTemplate(i)}}
            piece(id) == IF HasTemplate(id) THEN <<Template(id)>> ELSE <<>>
            pieces == [i \in DOMAIN ids |-> piece(ids[i])]
<1>1. ids \in Seq(Range(ids)) /\ Variables(MatchSets[c].vars)
  BY RenderingAssumption
<1>2. \A t \in X : Variables(t.vars)
  BY RenderingAssumption DEF Template, HasTemplate
<1>3. \A id : piece(id) \in Seq(X)
  <2>1. ASSUME NEW id, HasTemplate(id) PROVE Template(id) \in X
    BY <2>1 DEF HasTemplate
  <2>2. \A x \in X : <<x>> \in Seq(X)
    OBVIOUS
  <2>3. <<>> \in Seq(X)
    OBVIOUS
  <2>. HIDE DEF X
  <2>. QED
    BY <2>1, <2>2, <2>3
<1>4. pieces \in Seq(Seq(X))
  <2>1. DOMAIN ids = 1 .. Len(ids) /\ Len(ids) \in Nat
    BY <1>1
  <2>. HIDE DEF X, piece, ids
  <2>. QED
    BY <1>3, <2>1
<1>5. FlattenSeq(pieces) \in Seq(X)
  <2>. HIDE DEF X, pieces
  <2>. QED
    BY <1>4, FlattenType
<1>6. /\ GenerateContext(c).templates = FlattenSeq(pieces)
      /\ GenerateContext(c).globals = MatchSets[c].vars
  BY DEF GenerateContext
<1>. HIDE DEF X, pieces
<1>7. \A i \in 1 .. Len(FlattenSeq(pieces)) : FlattenSeq(pieces)[i] \in X
  BY <1>5
<1>. QED
  BY <1>1, <1>2, <1>6, <1>7

\* The context of the request under way.
LEMMA ContextIs ==
    ASSUME ContextInv, request # {}, frames # <<>>
    PROVE  /\ Variables(Context.globals)
           /\ \A i \in 1 .. Len(Context.templates) : Variables(Context.templates[i].vars)
<1>1. PICK r \in request : request = {r} /\ r.config \in DOMAIN cache
  BY DEF ContextInv
<1>2. Context = cache[r.config]
  BY <1>1 DEF Context
<1>3. r.config \in Configs /\ cache[r.config] = GenerateContext(r.config)
  BY <1>1 DEF ContextInv
<1>. QED
  BY <1>2, <1>3, GeneratedContext

LEMMA OfItsRange == ASSUME NEW X, NEW s \in Seq(X) PROVE s \in Seq(Range(s))
BY DEF Range

\* What is left of a frame when its next variable has a value, or cannot have one.
LEMMA Advance ==
    ASSUME NEW f, NEW g, NEW globals, NEW scope,
           f.todo \in Seq(Range(f.todo)), f.todo # <<>>, Ordered(f, globals),
           g.template = f.template, g.scope = scope, g.todo = Tail(f.todo),
           DOMAIN f.scope \cup {Head(f.todo).name} \subseteq DOMAIN scope \cup Unknown(f, globals)
    PROVE  g.todo \in Seq(Range(g.todo)) /\ Ordered(g, globals)
<1>. DEFINE X == Range(f.todo)
            n == Len(f.todo)
<1>1. /\ f.todo \in Seq(X) /\ n \in Nat \ {0} /\ g.todo \in Seq(X) /\ Len(g.todo) = n - 1
      /\ \A i \in 1 .. n - 1 : g.todo[i] = f.todo[i + 1]
      /\ Head(f.todo) = f.todo[1]
  <2>1. f.todo \in Seq(X) /\ f.todo # <<>> /\ g.todo = Tail(f.todo)
    OBVIOUS
  <2>2. n \in Nat \ {0} /\ Head(f.todo) = f.todo[1]
    BY <2>1
  <2>. HIDE DEF X
  <2>3. Tail(f.todo) \in Seq(X) /\ Len(Tail(f.todo)) = n - 1
        /\ \A i \in 1 .. n - 1 : Tail(f.todo)[i] = f.todo[i + 1]
    BY <2>1, HeadTailProperties
  <2>. QED
    BY <2>1, <2>2, <2>3
<1>2. Unknown(g, globals) = Unknown(f, globals) /\ Available(g, globals) = Available(f, globals)
  BY DEF Unknown, Available
<1>. HIDE DEF X, n
<1>3. ASSUME NEW i \in 1 .. n PROVE Before(f, i + 1, globals) \subseteq Before(g, i, globals)
  <2>. SUFFICES ASSUME NEW j \in 1 .. i
                PROVE  f.todo[j].name \in Before(g, i, globals)
    <3>1. DOMAIN f.scope \subseteq Before(g, i, globals) /\ Unknown(f, globals) \subseteq Before(g, i, globals)
      BY <1>2 DEF Before
    <3>2. (i + 1) - 1 = i
      BY <1>1
    <3>. QED
      BY <3>1, <3>2 DEF Before
  <2>1. CASE j = 1
    BY <1>1, <1>2, <2>1 DEF Before
  <2>2. CASE j # 1
    <3>1. j - 1 \in 1 .. (i - 1) /\ j - 1 \in 1 .. n - 1 /\ (j - 1) + 1 = j
      BY <1>1, <2>2
    <3>2. g.todo[j - 1] = f.todo[j]
      BY <1>1, <3>1
    <3>. QED
      BY <3>1, <3>2 DEF Before
  <2>. QED
    BY <2>1, <2>2
<1>4. ASSUME NEW i \in 1 .. n - 1
      PROVE  /\ g.todo[i] \in Available(g, globals)
             /\ g.todo[i].injectVars => ParamNames(g.todo[i].params) \subseteq Before(g, i, globals)
  <2>1. i \in 1 .. n /\ i + 1 \in 1 .. n /\ g.todo[i] = f.todo[i + 1]
    BY <1>1
  <2>2. /\ f.todo[i + 1] \in Available(f, globals)
        /\ f.todo[i + 1].injectVars =>
              ParamNames(f.todo[i + 1].params) \subseteq Before(f, i + 1, globals)
    BY <2>1 DEF Ordered, n
  <2>. QED
    BY <1>2, <1>3, <2>1, <2>2
<1>5. BodyNames(g.template.body) \subseteq Before(g, n, globals)
  <2>1. n \in 1 .. n
    BY <1>1
  <2>2. BodyNames(f.template.body) \subseteq Before(f, n + 1, globals)
    BY DEF Ordered, n
  <2>. QED
    BY <1>3, <2>1, <2>2
<1>6. (n - 1) + 1 = n
  BY <1>1
<1>7. g.todo \in Seq(Range(g.todo))
  BY <1>1, OfItsRange
<1>. QED
  BY <1>1, <1>4, <1>5, <1>6, <1>7 DEF Ordered

-----------------------------------------------------------------------------
(* The frames.                                                             *)

LEMMA Innermost ==
    ASSUME NEW fs, NEW globals, Nested(fs, globals), fs # <<>>
    PROVE  /\ Len(fs) \in Nat \ {0} /\ Len(fs) \in DOMAIN fs
           /\ fs[Len(fs)] \in Range(fs)
           /\ FrameOK(fs[Len(fs)], globals)
<1>1. fs \in Seq(Range(fs)) /\ fs # <<>>
  BY DEF Nested
<1>. DEFINE X == Range(fs)
<1>2. Len(fs) \in 1 .. Len(fs) /\ Len(fs) \in Nat \ {0} /\ DOMAIN fs = 1 .. Len(fs)
      /\ fs[Len(fs)] \in X
  <2>. fs \in Seq(X)
    BY <1>1
  <2>. HIDE DEF X
  <2>. QED
    BY <1>1
<1>. QED
  BY <1>2 DEF Nested

\* A template is entered.
LEMMA Pushed ==
    ASSUME NEW fs, NEW globals, NEW f,
           fs = <<>> \/ (Nested(fs, globals) /\ Waiting(fs[Len(fs)])), FrameOK(f, globals)
    PROVE  Nested(Append(fs, f), globals) /\ Append(fs, f) # <<>>
           /\ Append(fs, f)[Len(Append(fs, f))] = f
<1>. DEFINE X == Range(fs) \cup {f}
            gs == Append(fs, f)
            n == Len(fs)
<1>1. fs \in Seq(X)
  <2>1. CASE fs = <<>>
    BY <2>1
  <2>2. CASE fs # <<>>
    <3>. DEFINE Y == Range(fs)
    <3>1. fs \in Seq(Y) /\ Y \subseteq X
      BY <2>2 DEF Nested
    <3>. HIDE DEF X, Y
    <3>. QED
      BY <3>1
  <2>. QED
    BY <2>1, <2>2
<1>2. f \in X
  OBVIOUS
<1>. HIDE DEF X
<1>3. /\ gs \in Seq(X) /\ Len(gs) = n + 1 /\ n \in Nat /\ gs[n + 1] = f
      /\ \A k \in 1 .. n : gs[k] = fs[k]
      /\ gs # <<>>
  BY <1>1, <1>2
<1>4. \A k \in 1 .. n : FrameOK(fs[k], globals) /\ Waiting(fs[k])
  <2>1. CASE fs = <<>>
    BY <2>1
  <2>2. CASE fs # <<>>
    <3>1. n \in Nat /\ \A k \in 1 .. n : k = n \/ k < n
      BY <1>3
    <3>. QED
      BY <2>2, <3>1 DEF Nested
  <2>. QED
    BY <2>1, <2>2
<1>. HIDE DEF gs, n
<1>5. \A k \in 1 .. Len(gs) : k \in 1 .. n \/ (k = n + 1 /\ ~(k < Len(gs)))
  BY <1>3
<1>6. \A k \in 1 .. Len(gs) : FrameOK(gs[k], globals) /\ (k < Len(gs) => Waiting(gs[k]))
  BY <1>3, <1>4, <1>5
<1>7. gs \in Seq(Range(gs))
  BY <1>3, OfItsRange
<1>. QED
  BY <1>3, <1>6, <1>7 DEF Nested, gs

\* The innermost frame goes on.
LEMMA Replaced ==
    ASSUME NEW fs, NEW globals, NEW f, Nested(fs, globals), fs # <<>>, FrameOK(f, globals)
    PROVE  LET gs == [fs EXCEPT ![Len(fs)] = f]
           IN  Nested(gs, globals) /\ gs # <<>> /\ gs[Len(gs)] = f
<1>. DEFINE X == Range(fs) \cup {f}
            gs == [fs EXCEPT ![Len(fs)] = f]
            n == Len(fs)
<1>1. fs \in Seq(X) /\ f \in X
  <2>. DEFINE Y == Range(fs)
  <2>1. fs \in Seq(Y) /\ Y \subseteq X /\ f \in X
    BY DEF Nested
  <2>. HIDE DEF X, Y
  <2>. QED
    BY <2>1
<1>. HIDE DEF X
<1>2. /\ gs \in Seq(X) /\ Len(gs) = n /\ n \in Nat \ {0} /\ gs[n] = f
      /\ \A k \in 1 .. n : k # n => gs[k] = fs[k]
      /\ gs # <<>>
  BY <1>1
<1>. HIDE DEF gs, n
<1>3. \A k \in 1 .. n : FrameOK(gs[k], globals) /\ (k < n => Waiting(gs[k]))
  BY <1>2 DEF Nested, n
<1>4. gs \in Seq(Range(gs))
  BY <1>2, OfItsRange
<1>. QED
  BY <1>2, <1>3, <1>4 DEF Nested, gs

\* The innermost frame is left.
LEMMA Popped ==
    ASSUME NEW fs, NEW globals, Nested(fs, globals), fs # <<>>,
           SubSeq(fs, 1, Len(fs) - 1) # <<>>
    PROVE  LET gs == SubSeq(fs, 1, Len(fs) - 1)
           IN  Nested(gs, globals) /\ Waiting(gs[Len(gs)])
<1>. DEFINE X == Range(fs)
            gs == SubSeq(fs, 1, Len(fs) - 1)
            n == Len(fs)
<1>1. fs \in Seq(X)
  BY DEF Nested
<1>. HIDE DEF X
<1>2. /\ gs \in Seq(X) /\ Len(gs) = n - 1 /\ n \in Nat \ {0}
      /\ \A k \in 1 .. n - 1 : gs[k] = fs[k]
  BY <1>1
<1>3. n - 1 \in 1 .. n - 1
  <2>1. n # 1
    <3>1. gs # <<>>
      OBVIOUS
    <3>. HIDE DEF gs, n
    <3>2. Len(gs) # 0
      BY <1>2, <3>1
    <3>. QED
      BY <1>2, <3>2
  <2>. HIDE DEF gs, n
  <2>. QED
    BY <1>2, <2>1
<1>. HIDE DEF gs, n
<1>4. \A k \in 1 .. n - 1 : k \in 1 .. n /\ k < n
  BY <1>2
<1>5. \A k \in 1 .. n - 1 : FrameOK(gs[k], globals) /\ Waiting(gs[k])
  BY <1>2, <1>4 DEF Nested, n
<1>6. gs \in Seq(Range(gs))
  BY <1>2, OfItsRange
<1>. QED
  BY <1>2, <1>3, <1>5, <1>6 DEF Nested, gs

\* A frame with another scope and other variables to evaluate.
With(f, todo, scope) ==
    [template |-> f.template, scope |-> scope, todo |-> todo, phase |-> f.phase]
Changed(fs, n, todo, scope) == [fs EXCEPT ![n].todo = todo, ![n].scope = scope]

LEMMA ChangedIs ==
    ASSUME NEW X, NEW fs \in Seq(X), NEW n \in DOMAIN fs, NEW t, NEW u,
           IsFrame(fs[n])
    PROVE  Changed(fs, n, t, u) = [fs EXCEPT ![n] = With(fs[n], t, u)]
<1>. DEFINE g == [fs[n] EXCEPT !.todo = t]
            gs == [fs EXCEPT ![n] = g]
<1>1. g = [template |-> fs[n].template, scope |-> fs[n].scope, todo |-> t,
           phase |-> fs[n].phase]
  BY DEF IsFrame
<1>2. gs[n] = g
  OBVIOUS
<1>3. [gs[n] EXCEPT !.scope = u] = With(fs[n], t, u)
  <2>. HIDE DEF g, gs
  <2>. QED
    BY <1>1, <1>2 DEF With
<1>4. ASSUME NEW x PROVE [gs EXCEPT ![n] = x] = [fs EXCEPT ![n] = x]
  <2>. HIDE DEF g
  <2>. QED
    OBVIOUS
<1>. QED
  BY <1>3, <1>4 DEF Changed

\* The next variable of the innermost frame has a value.
LEMMA DoneIs ==
    ASSUME NEW fs, NEW globals, NEW output, Nested(fs, globals), fs # <<>>,
           Waiting(fs[Len(fs)])
    PROVE  LET gs == Done(fs, Head(fs[Len(fs)].todo).name, output)
           IN  Nested(gs, globals) /\ gs # <<>> /\ gs[Len(gs)].phase = "evaluate"
<1>. DEFINE f == fs[Len(fs)]
            name == Head(f.todo).name
            scope == Insert(f.scope, name, output)
            g == With(f, Tail(f.todo), scope)
<1>1. /\ Len(fs) \in DOMAIN fs /\ FrameOK(f, globals) /\ IsFrame(f)
      /\ f.phase = "evaluate" /\ f.todo # <<>>
      /\ fs \in Seq(Range(fs))
  BY Innermost DEF Waiting, Nested, FrameOK
<1>3. Done(fs, name, output) = [fs EXCEPT ![Len(fs)] = g]
  <2>1. Done(fs, name, output) = Changed(fs, Len(fs), Tail(f.todo), scope)
    BY DEF Done, Changed
  <2>. DEFINE X == Range(fs)
  <2>2. fs \in Seq(X)
    BY <1>1
  <2>. HIDE DEF name, scope, X
  <2>. QED
    BY <1>1, <2>1, <2>2, ChangedIs
<1>. HIDE DEF f
<1>4. DOMAIN scope = DOMAIN f.scope \cup {name}
  BY DEF Insert
<1>. HIDE DEF scope
<1>2. g.template = f.template /\ g.scope = scope /\ g.todo = Tail(f.todo) /\ g.phase = "evaluate"
      /\ IsFrame(g)
  BY <1>1 DEF With, IsFrame
<1>. HIDE DEF g
<1>5. g.todo \in Seq(Range(g.todo)) /\ Ordered(g, globals)
  BY <1>1, <1>2, <1>4, Advance DEF FrameOK
<1>6. FrameOK(g, globals)
  BY <1>1, <1>2, <1>5 DEF FrameOK
<1>. QED
  BY <1>2, <1>3, <1>6, Replaced DEF name, f

-----------------------------------------------------------------------------
(* The steps.                                                              *)

\* All but the walk itself, which RenderStep is about.
Rest == WalkReaches /\ ProblemKinds /\ ContextInv /\ FramesInv /\ ResolvedNeverMissing

LEMMA WalkSame ==
    ASSUME WalkReaches, ProblemKinds, UNCHANGED orderVars
    PROVE  WalkReaches' /\ ProblemKinds'
BY DEF orderVars, WalkReaches, ProblemKinds, Ids

LEMMA ContextSame ==
    ASSUME ContextInv, request # {}, frames # <<>>, UNCHANGED <<request, cache>>
    PROVE  ContextInv' /\ Context' = Context
<1>1. Context' = Context
  BY DEF Context
<1>2. ContextInv'
  BY DEF ContextInv
<1>. QED
  BY <1>1, <1>2

\* The renderer gives its answer.
LEMMA Ends ==
    ASSUME Rest, request # {}, frames # <<>>,
           UNCHANGED <<orderVars, frames, request, cache>>, ResolvedNeverMissing'
    PROVE  Rest'
<1>1. WalkReaches' /\ ProblemKinds'
  BY WalkSame DEF Rest
<1>2. ContextInv' /\ Context' = Context
  BY ContextSame DEF Rest
<1>3. UNCHANGED <<seen, graph, frames>>
  BY DEF orderVars
<1>4. Nested(frames, Context.globals) /\ Walked(frames[Len(frames)], Context.globals)
  BY DEF Rest, FramesInv
<1>5. Nested(frames, Context.globals)' /\ Walked(frames[Len(frames)], Context.globals)'
  BY <1>2, <1>3, <1>4 DEF Walked
<1>. QED
  BY <1>1, <1>2, <1>5 DEF Rest, FramesInv

\* The rendering goes on in the frames that there are.
LEMMA GoesOn ==
    ASSUME Rest, request # {}, frames # <<>>, outcome = Busy,
           UNCHANGED <<orderVars, request, cache, outcome>>,
           Nested(frames', Context.globals), frames'[Len(frames')].phase # "resolve"
    PROVE  Rest'
<1>1. WalkReaches' /\ ProblemKinds'
  BY WalkSame DEF Rest
<1>2. ContextInv' /\ Context' = Context
  BY ContextSame DEF Rest
<1>3. Nested(frames, Context.globals)' /\ Walked(frames[Len(frames)], Context.globals)'
  BY <1>2 DEF Walked
<1>4. ResolvedNeverMissing'
  BY DEF ResolvedNeverMissing, Busy, Failed
<1>. QED
  BY <1>1, <1>2, <1>3, <1>4 DEF Rest, FramesInv

\* A template is entered, within those that there are.
LEMMA Enters ==
    ASSUME WalkReaches, ProblemKinds, NEW template, NEW outer, NEW context,
           Enter(template, outer, context), Variables(template.vars),
           outer = <<>> \/ (Nested(outer, context.globals) /\ Waiting(outer[Len(outer)])),
           Context' = context, ContextInv', outcome' = Busy
    PROVE  Rest'
<1>. DEFINE refs == BodyNames(template.body) # {}
            f == [template |-> template, scope |-> <<>>, todo |-> <<>>,
                  phase |-> IF refs THEN "resolve" ELSE "finish"]
            g == NodeMap(template.body, LocalVariables(template, context.globals),
                         context.globals)
<1>1. frames' = Append(outer, f)
  BY DEF Enter
<1>2. FrameOK(f, context.globals)
  <2>1. IsFrame(f)
    BY DEF IsFrame
  <2>2. <<>> \in Seq(Range(<<>>))
    OBVIOUS
  <2>. QED
    BY <2>1, <2>2 DEF FrameOK
<1>3. Nested(frames', context.globals) /\ frames' # <<>> /\ frames'[Len(frames')] = f
  <2>. HIDE DEF f
  <2>. QED
    BY <1>1, <1>2, Pushed
<1>4. WalkReaches' /\ ProblemKinds' /\ Walked(f, context.globals)'
  <2>1. CASE refs
    <3>1. StartWalk(g)
      BY <2>1 DEF Enter
    <3>2. WalkReaches' /\ ProblemKinds' /\ seen' # {} /\ graph' = g
      <4>. HIDE DEF g
      <4>. QED
        BY <3>1, StartReaches
    <3>. QED
      BY <3>2 DEF Walked
  <2>2. CASE ~refs
    <3>1. UNCHANGED orderVars
      BY <2>2 DEF Enter
    <3>. QED
      BY <2>2, <3>1, WalkSame DEF Walked
  <2>. QED
    BY <2>1, <2>2
<1>5. Nested(frames, Context.globals)' /\ Walked(frames[Len(frames)], Context.globals)'
  <2>. HIDE DEF f
  <2>. QED
    BY <1>3, <1>4 DEF Walked
<1>6. ResolvedNeverMissing'
  BY DEF ResolvedNeverMissing, Busy, Failed
<1>. QED
  BY <1>4, <1>5, <1>6 DEF Rest, FramesInv

\* The frame under way.
LEMMA TopIs ==
    ASSUME Rest, NEW phase, Rendering(phase)
    PROVE  /\ request # {} /\ frames # <<>> /\ outcome = Busy
           /\ Nested(frames, Context.globals) /\ FrameOK(Top, Context.globals)
           /\ Walked(Top, Context.globals) /\ Top.phase = phase
           /\ Len(frames) \in DOMAIN frames
           /\ Variables(Context.globals)
           /\ \A i \in 1 .. Len(Context.templates) : Variables(Context.templates[i].vars)
<1>1. /\ request # {} /\ frames # <<>> /\ outcome = Busy /\ Top.phase = phase
  BY DEF Rendering
<1>2. Nested(frames, Context.globals) /\ Walked(Top, Context.globals) /\ ContextInv
  BY <1>1 DEF Rest, FramesInv, Top
<1>3. FrameOK(Top, Context.globals) /\ Len(frames) \in DOMAIN frames
  BY <1>1, <1>2, Innermost DEF Top
<1>. QED
  BY <1>1, <1>2, <1>3, ContextIs

LEMMA ResolveKeeps ==
    ASSUME RenderInv, ResolveStep
    PROVE  Rest'
<1>1. /\ Rendering("resolve") /\ Walk /\ UNCHANGED <<frames, request, cache, outcome>>
      /\ Rest
  BY DEF ResolveStep, renderVars, RenderInv, Rest
<1>2. /\ request # {} /\ frames # <<>> /\ outcome = Busy
      /\ Nested(frames, Context.globals) /\ Walked(Top, Context.globals)
      /\ Top.phase = "resolve"
  BY <1>1, TopIs
<1>3. WalkReaches' /\ ProblemKinds' /\ (seen # {} => seen' # {}) /\ graph' = graph
  BY <1>1, WalkStepReaches DEF RenderInv
<1>4. ContextInv' /\ Context' = Context
  BY <1>1, <1>2, ContextSame DEF Rest
<1>5. Walked(Top, Context.globals)'
  BY <1>1, <1>2, <1>3, <1>4 DEF Walked, Top
<1>6. Nested(frames, Context.globals)'
  BY <1>1, <1>2, <1>4
<1>7. ResolvedNeverMissing'
  BY <1>1, <1>2 DEF ResolvedNeverMissing, Busy, Failed
<1>. QED
  BY <1>3, <1>4, <1>5, <1>6, <1>7 DEF Rest, FramesInv, Top

LEMMA PlanKeeps ==
    ASSUME RenderInv, Plan
    PROVE  Rest'
<1>. DEFINE todo == FlattenSeq([i \in DOMAIN order |-> graph[order[i]].variable])
            n == Len(frames)
            g == [template |-> Top.template, scope |-> Top.scope, todo |-> todo,
                  phase |-> "evaluate"]
<1>1. /\ Rendering("resolve") /\ path = <<>> /\ WalkInv /\ WalkReaches /\ Rest
      /\ UNCHANGED <<orderVars, request, cache, outcome>>
      /\ frames' = [frames EXCEPT ![n].phase = "evaluate", ![n].todo = todo]
  BY DEF Plan, RenderInv, Rest
<1>2. /\ request # {} /\ frames # <<>> /\ outcome = Busy /\ n \in DOMAIN frames
      /\ Nested(frames, Context.globals) /\ FrameOK(Top, Context.globals)
      /\ Variables(Context.globals) /\ seen # {}
      /\ graph = NodeMap(Top.template.body, LocalVariables(Top.template, Context.globals),
                         Context.globals)
  BY <1>1, TopIs DEF Walked
<1>3. IsFrame(Top) /\ Variables(Top.template.vars)
  BY <1>2 DEF FrameOK
<1>4. frames' = [frames EXCEPT ![n] = g]
  <2>. DEFINE one == [frames EXCEPT ![n].phase = "evaluate"]
  <2>1. one[n] = [template |-> Top.template, scope |-> Top.scope, todo |-> Top.todo,
                  phase |-> "evaluate"]
    BY <1>2, <1>3 DEF IsFrame, Top
  <2>2. [one[n] EXCEPT !.todo = todo] = g
    <3>. HIDE DEF one, todo
    <3>. QED
      BY <2>1
  <2>3. ASSUME NEW x PROVE [one EXCEPT ![n] = x] = [frames EXCEPT ![n] = x]
    OBVIOUS
  <2>4. frames' = [one EXCEPT ![n] = [one[n] EXCEPT !.todo = todo]]
    BY <1>1
  <2>. HIDE DEF one, g, n, todo
  <2>. QED
    BY <2>2, <2>3, <2>4
<1>5. /\ IsFrame(g) /\ g.template = Top.template /\ g.todo = todo /\ g.phase = "evaluate"
  BY DEF IsFrame
<1>6. Planning(g, Context.globals)
  <2>. HIDE DEF g
  <2>. QED
    BY <1>2, <1>3, <1>5 DEF Planning
<1>. HIDE DEF g, todo
<1>7. g.todo \in Seq(Range(g.todo)) /\ Ordered(g, Context.globals)
  BY <1>1, <1>2, <1>6, PlanOrdered
<1>8. FrameOK(g, Context.globals)
  BY <1>3, <1>5, <1>7 DEF FrameOK
<1>9. Nested(frames', Context.globals) /\ frames'[Len(frames')].phase # "resolve"
  BY <1>2, <1>4, <1>5, <1>8, Replaced
<1>. QED
  BY <1>1, <1>2, <1>9, GoesOn

LEMMA RefuseKeeps ==
    ASSUME RenderInv, Refuse
    PROVE  Rest'
<1>1. /\ Rest /\ request # {} /\ frames # <<>> /\ ProblemKinds /\ problem # NoProblem
      /\ UNCHANGED <<orderVars, frames, request, cache>> /\ outcome' = Failed(problem.kind)
  BY DEF Refuse, End, RenderInv, Rest, Rendering
<1>2. ResolvedNeverMissing'
  BY <1>1 DEF ProblemKinds, ResolvedNeverMissing, Failed
<1>. QED
  BY <1>1, <1>2, Ends

\* The next variable.
LEMMA CurrentIs ==
    ASSUME Rest, NEW v \in Current
    PROVE  /\ Rendering("evaluate") /\ Top.todo # <<>> /\ v = Head(Top.todo)
           /\ Waiting(Top)
<1>1. Rendering("evaluate") /\ Top.todo # <<>> /\ v = Head(Top.todo)
  BY DEF Current
<1>. QED
  BY <1>1 DEF Rendering, Waiting

LEMMA EvaluateMatchKeeps ==
    ASSUME RenderInv, NEW v \in Current, EvaluateMatch(v)
    PROVE  Rest'
<1>. DEFINE i == MatchingTemplate(v, Context.templates)
<1>1. /\ Rest /\ Rendering("evaluate") /\ Waiting(Top) /\ ContextInv
      /\ WalkReaches /\ ProblemKinds
  BY CurrentIs DEF RenderInv, Rest
<1>2. /\ request # {} /\ frames # <<>> /\ outcome = Busy
      /\ Nested(frames, Context.globals)
      /\ \A k \in 1 .. Len(Context.templates) : Variables(Context.templates[k].vars)
  BY <1>1, TopIs
<1>3. UNCHANGED <<request, cache>>
  BY DEF EvaluateMatch
<1>4. CASE /\ UNCHANGED <<orderVars, frames>>
           /\ outcome' = Failed("sub-match") \/ outcome' = Crashed
  <2>1. ResolvedNeverMissing'
    BY <1>4 DEF ResolvedNeverMissing, Failed, Crashed
  <2>. QED
    BY <1>1, <1>2, <1>3, <1>4, <2>1, Ends
<1>5. CASE i # 0 /\ Enter(Context.templates[i], frames, Context) /\ outcome' = outcome
  <2>1. i \in 1 .. Len(Context.templates)
    <3>. DEFINE s == Context.templates
    <3>1. ASSUME NEW P, P \in SUBSET (1 .. Len(s)), P # {} PROVE Min(P) \in 1 .. Len(s)
      <4>1. P \in SUBSET Nat
        BY <3>1
      <4>2. Min(P) \in P
        BY <3>1, <4>1, FirstPosition
      <4>. QED
        BY <3>1, <4>2
    <3>2. i = SelectInSeq(s, LAMBDA t : Written(v.params["trigger"].of) \in t.ids)
      BY <1>5 DEF MatchingTemplate
    <3>3. i # 0
      BY <1>5
    <3>. DEFINE P == {k \in 1 .. Len(s) : Written(v.params["trigger"].of) \in s[k].ids}
    <3>4. i = IF P # {} THEN Min(P) ELSE 0
      BY <3>2 DEF SelectInSeq
    <3>5. P \in SUBSET (1 .. Len(s))
      OBVIOUS
    <3>. HIDE DEF P, s, i
    <3>. QED
      BY <3>1, <3>3, <3>4, <3>5 DEF s
  <2>2. Variables(Context.templates[i].vars)
    BY <1>2, <2>1
  <2>3. ContextInv' /\ Context' = Context
    BY <1>1, <1>2, <1>3, ContextSame
  <2>. HIDE DEF i
  <2>. QED
    BY <1>1, <1>2, <1>5, <2>2, <2>3, Enters DEF Top
<1>. QED
  BY <1>4, <1>5, <1>2 DEF EvaluateMatch, End

\* The extensions have errors of their own.
LEMMA CalculateIs ==
    ASSUME NEW type \in Extensions, NEW params, NEW result \in Calculate(type, params)
    PROVE  result # Failed("unfilled")
<1>1. CASE type = "choice"
  BY <1>1 DEF Calculate, Choice, Failed, Single, Aborted
<1>2. CASE type = "form"
  BY <1>2 DEF Calculate, Form, Failed, Multiple, Aborted
<1>3. CASE type = "echo"
  BY <1>3 DEF Calculate, Echo, Failed, Single
<1>4. CASE type = "random"
  BY <1>4 DEF Calculate, Random, Failed, Single
<1>5. CASE type = "clipboard"
  BY <1>5 DEF Calculate, Clipboard, Failed, Single
<1>6. CASE type = "shell"
  BY <1>6 DEF Calculate, Shell, Failed, Single
<1>7. CASE type = "script"
  BY <1>7 DEF Calculate, Script, Failed, Single, Crashed
<1>8. CASE type = "date"
  BY <1>8 DEF Calculate, Date, Failed, Single, Crashed
<1>. QED
  BY <1>1, <1>2, <1>3, <1>4, <1>5, <1>6, <1>7, <1>8 DEF Extensions

\* A reference that is not filled in, although what it refers to was planned.
LEMMA NotFilled ==
    ASSUME NEW p, ~Fills(p, Top.scope), p.name \in Before(Top, 1, Context.globals)
    PROVE  NoValue(p, Top, Context.globals)
<1>1. p.name \in DOMAIN Top.scope \cup Unknown(Top, Context.globals)
  BY DEF Before
<1>2. CASE p.name \in DOMAIN Top.scope
  BY <1>2 DEF Fills, NoValue
<1>3. CASE p.name \notin DOMAIN Top.scope
  BY <1>1, <1>3 DEF Unknown, Available, NoValue
<1>. QED
  BY <1>2, <1>3

\* The renderer gives up because of a reference.
LEMMA GivesUp ==
    ASSUME Rest, request # {}, frames # <<>>,
           UNCHANGED <<orderVars, frames, request, cache>>, LacksValue(Top, Context.globals)
    PROVE  Rest'
<1>1. Context' = Context /\ Top' = Top
  BY ContextSame DEF Rest, Top
<1>2. LacksValue(Top, Context.globals)'
  BY <1>1
<1>. QED
  BY <1>2, Ends DEF ResolvedNeverMissing

LEMMA EvaluateExtensionKeeps ==
    ASSUME RenderInv, NEW v \in Current, EvaluateExtension(v)
    PROVE  Rest'
<1>1. /\ Rest /\ Rendering("evaluate") /\ Waiting(Top) /\ Top.todo # <<>> /\ v = Head(Top.todo)
  BY CurrentIs DEF RenderInv, Rest
<1>2. /\ request # {} /\ frames # <<>> /\ outcome = Busy
      /\ Nested(frames, Context.globals) /\ FrameOK(Top, Context.globals)
      /\ Top.phase = "evaluate"
  BY <1>1, TopIs
<1>3. UNCHANGED <<orderVars, request, cache>> /\ v.type \in Extensions
  BY DEF EvaluateExtension
<1>4. CASE v.injectVars /\ ~Injectable(v.params, Top.scope) /\ frames' = frames
  <2>1. PICK k \in DOMAIN v.params : \E s \in Strings(v.params[k]) : ~Renders(s, Top.scope)
    BY <1>4 DEF Injectable
  <2>2. PICK s \in Strings(v.params[k]) : ~Renders(s, Top.scope)
    BY <2>1
  <2>3. PICK p \in Range(s) : IsRef(p) /\ ~Fills(p, Top.scope)
    BY <2>2 DEF Renders
  <2>4. p.name \in ParamNames(v.params)
    BY <2>3 DEF ParamNames, BodyNames
  <2>5. ParamNames(v.params) \subseteq Before(Top, 1, Context.globals)
    <3>. DEFINE X == Range(Top.todo)
    <3>1. Ordered(Top, Context.globals) /\ Top.todo \in Seq(X) /\ Top.todo # <<>>
      BY <1>1, <1>2 DEF FrameOK
    <3>. HIDE DEF X
    <3>2. 1 \in 1 .. Len(Top.todo) /\ v = Top.todo[1]
      BY <1>1, <3>1
    <3>. QED
      BY <1>4, <3>1, <3>2 DEF Ordered
  <2>6. NoValue(p, Top, Context.globals)
    BY <2>3, <2>4, <2>5, NotFilled
  <2>7. LacksValue(Top, Context.globals)
    BY <1>1, <2>2, <2>3, <2>6 DEF LacksValue
  <2>. QED
    BY <1>1, <1>2, <1>3, <1>4, <2>7, GivesUp
<1>5. ASSUME NEW params, NEW result \in Calculate(v.type, params),
             result.kind = "success", frames' = Done(frames, v.name, result.output),
             outcome' = outcome
      PROVE  Rest'
  <2>1. /\ Nested(frames', Context.globals) /\ frames'[Len(frames')].phase = "evaluate"
    BY <1>1, <1>2, <1>5, DoneIs DEF Top
  <2>. QED
    BY <1>1, <1>2, <1>3, <1>5, <2>1, GoesOn
<1>6. ASSUME NEW params, NEW result \in Calculate(v.type, params),
             frames' = frames, outcome' = result
      PROVE  Rest'
  <2>1. ResolvedNeverMissing'
    BY <1>3, <1>6, CalculateIs DEF ResolvedNeverMissing
  <2>. QED
    BY <1>1, <1>2, <1>3, <1>6, <2>1, Ends
<1>7. CASE ~(v.injectVars /\ ~Injectable(v.params, Top.scope))
  <2>1. PICK params : \E result \in Calculate(v.type, params) :
           IF result.kind = "success"
           THEN frames' = Done(frames, v.name, result.output) /\ UNCHANGED outcome
           ELSE End(result)
    BY <1>7 DEF EvaluateExtension
  <2>. QED
    BY <1>5, <1>6, <2>1 DEF End
<1>. QED
  BY <1>4, <1>7 DEF EvaluateExtension, End

LEMMA OtherTodo ==
    ASSUME NEW f, IsFrame(f), NEW todo
    PROVE  [f EXCEPT !.todo = todo] = With(f, todo, f.scope)
BY DEF IsFrame, With

LEMMA EvaluateUnknownKeeps ==
    ASSUME RenderInv, NEW v \in Current, EvaluateUnknown(v)
    PROVE  Rest'
<1>. DEFINE n == Len(frames)
            g == With(Top, Tail(Top.todo), Top.scope)
<1>1. /\ Rest /\ Rendering("evaluate") /\ Top.todo # <<>> /\ v = Head(Top.todo)
  BY CurrentIs DEF RenderInv, Rest
<1>2. /\ request # {} /\ frames # <<>> /\ outcome = Busy /\ n \in DOMAIN frames
      /\ Nested(frames, Context.globals) /\ FrameOK(Top, Context.globals)
      /\ Top.phase = "evaluate" /\ IsFrame(Top)
  BY <1>1, TopIs DEF FrameOK
<1>3. /\ UNCHANGED <<orderVars, request, cache, outcome>>
      /\ v.type \notin Extensions \cup {"match"}
      /\ frames' = [frames EXCEPT ![n].todo = Tail(@)]
  BY DEF EvaluateUnknown
<1>4. frames' = [frames EXCEPT ![n] = g]
  <2>1. [frames[n] EXCEPT !.todo = Tail(@)] = g
    <3>1. frames[n] = Top
      BY DEF Top
    <3>2. [Top EXCEPT !.todo = Tail(@)] = g
      <4>. HIDE DEF n
      <4>. QED
        BY <1>2, OtherTodo
    <3>. QED
      BY <3>1, <3>2
  <2>2. frames' = [frames EXCEPT ![n] = [frames[n] EXCEPT !.todo = Tail(@)]]
    BY <1>2, <1>3
  <2>. HIDE DEF g, n
  <2>. QED
    BY <2>1, <2>2
<1>5. /\ g.template = Top.template /\ g.scope = Top.scope /\ g.todo = Tail(Top.todo)
      /\ g.phase = "evaluate" /\ IsFrame(g)
  BY <1>2 DEF With, IsFrame
<1>6. v.name \in Unknown(Top, Context.globals)
  <2>. DEFINE X == Range(Top.todo)
  <2>1. Ordered(Top, Context.globals) /\ Top.todo \in Seq(X) /\ Top.todo # <<>>
    BY <1>1, <1>2 DEF FrameOK
  <2>. HIDE DEF X
  <2>2. 1 \in 1 .. Len(Top.todo) /\ v = Top.todo[1]
    BY <1>1, <2>1
  <2>. QED
    BY <1>3, <2>1, <2>2 DEF Ordered, Unknown
<1>. HIDE DEF g
<1>7. g.todo \in Seq(Range(g.todo)) /\ Ordered(g, Context.globals)
  BY <1>1, <1>2, <1>5, <1>6, Advance DEF FrameOK
<1>8. FrameOK(g, Context.globals)
  BY <1>2, <1>5, <1>7 DEF FrameOK
<1>9. Nested(frames', Context.globals) /\ frames'[Len(frames')].phase # "resolve"
  BY <1>2, <1>4, <1>5, <1>8, Replaced
<1>. QED
  BY <1>1, <1>2, <1>3, <1>9, GoesOn

LEMMA FinishKeeps ==
    ASSUME RenderInv, Finish
    PROVE  Rest'
<1>. DEFINE outer == SubSeq(frames, 1, Len(frames) - 1)
            text == Unescape(RenderVariables(Top.template.body, Top.scope))
<1>1. Rest /\ (Rendering("finish") \/ (Rendering("evaluate") /\ Top.todo = <<>>))
  BY DEF Finish, RenderInv, Rest
<1>2. /\ request # {} /\ frames # <<>> /\ outcome = Busy
      /\ Nested(frames, Context.globals) /\ FrameOK(Top, Context.globals)
  BY <1>1, TopIs
<1>3. UNCHANGED <<orderVars, request, cache>>
  BY DEF Finish
<1>4. CASE ~Renders(Top.template.body, Top.scope) /\ frames' = frames
  <2>1. PICK p \in Range(Top.template.body) : IsRef(p) /\ ~Fills(p, Top.scope)
    BY <1>4 DEF Renders
  <2>2. p.name \in BodyNames(Top.template.body)
    BY <2>1 DEF BodyNames
  <2>3. Top.phase = "evaluate" /\ Top.todo = <<>>
    <3>1. CASE Rendering("finish")
      <4>1. Top.phase = "finish"
        BY <3>1 DEF Rendering
      <4>. QED
        BY <1>2, <2>2, <4>1 DEF FrameOK
    <3>2. CASE Rendering("evaluate")
      <4>1. ~Rendering("finish")
        BY <3>2 DEF Rendering
      <4>. QED
        BY <1>1, <4>1 DEF Rendering
    <3>. QED
      BY <1>1, <3>1, <3>2
  <2>4. BodyNames(Top.template.body) \subseteq Before(Top, 1, Context.globals)
    <3>1. Ordered(Top, Context.globals) /\ Len(Top.todo) + 1 = 1
      BY <1>2, <2>3 DEF FrameOK
    <3>. QED
      BY <3>1 DEF Ordered
  <2>5. NoValue(p, Top, Context.globals)
    BY <2>1, <2>2, <2>4, NotFilled
  <2>6. LacksValue(Top, Context.globals)
    BY <2>1, <2>5 DEF LacksValue
  <2>. QED
    BY <1>1, <1>2, <1>3, <1>4, <2>6, GivesUp
<1>5. CASE frames' = frames /\ outcome' # Failed("unfilled")
  <2>1. ResolvedNeverMissing'
    BY <1>5 DEF ResolvedNeverMissing
  <2>. QED
    BY <1>1, <1>2, <1>3, <1>5, <2>1, Ends
<1>6. ASSUME NEW output, outer # <<>>, outcome' = outcome,
             frames' = Done(outer, Head(outer[Len(outer)].todo).name, output)
      PROVE  Rest'
  <2>1. Nested(outer, Context.globals) /\ Waiting(outer[Len(outer)])
    BY <1>2, <1>6, Popped
  <2>. HIDE DEF outer
  <2>2. Nested(frames', Context.globals) /\ frames'[Len(frames')].phase = "evaluate"
    BY <1>6, <2>1, DoneIs
  <2>. QED
    BY <1>1, <1>2, <1>3, <1>6, <2>2, GoesOn
<1>7. \/ ~Renders(Top.template.body, Top.scope) /\ frames' = frames
      \/ frames' = frames /\ (outcome' = Crashed \/ \E x : outcome' = [kind |-> "success", text |-> x])
      \/ /\ outer # <<>> /\ outcome' = outcome
         /\ \E output : frames' = Done(outer, Head(outer[Len(outer)].todo).name, output)
  <2>1. CASE ~Renders(Top.template.body, Top.scope)
    BY <2>1 DEF Finish, End
  <2>2. CASE /\ Renders(Top.template.body, Top.scope)
             /\ casing = "capitalize" /\ text = <<>>
    BY <2>2 DEF Finish, End
  <2>3. CASE /\ Renders(Top.template.body, Top.scope)
             /\ ~(casing = "capitalize" /\ text = <<>>) /\ outer = <<>>
    BY <2>3 DEF Finish, End
  <2>4. CASE /\ Renders(Top.template.body, Top.scope)
             /\ ~(casing = "capitalize" /\ text = <<>>) /\ outer # <<>>
    BY <2>4 DEF Finish, End
  <2>. QED
    BY <2>1, <2>2, <2>3, <2>4
<1>8. Crashed # Failed("unfilled") /\ \A x : [kind |-> "success", text |-> x] # Failed("unfilled")
  BY DEF Crashed, Failed
<1>. HIDE DEF outer
<1>. QED
  BY <1>4, <1>5, <1>6, <1>7, <1>8

\* The values captured by a regex are variables of the template.
LEMMA AugmentedIs ==
    ASSUME NEW r \in Requests, HasTemplate(r.match), NEW names \in SetToSeqs(DOMAIN r.args)
    PROVE  Variables(Augmented(Template(r.match), r.args, names).vars)
<1>. DEFINE t == Template(r.match)
            var(name) == [name |-> name, type |-> "echo", injectVars |-> FALSE, dependsOn |-> {},
                          params |-> [echo |-> [kind |-> "string", of |-> PieceText(r.args[name])]]]
            first == [i \in DOMAIN names |-> var(names[i])]
            X == Range(t.vars) \cup {var(name) : name \in DOMAIN r.args}
<1>1. /\ t.vars \in Seq(Range(t.vars)) /\ \A v \in Range(t.vars) : v.name # Root
  BY RenderingAssumption DEF Variables, Template, HasTemplate
<1>2. Root \notin DOMAIN r.args /\ IsFiniteSet(DOMAIN r.args)
  BY RenderingAssumption
<1>3. Cardinality(DOMAIN r.args) \in Nat
  BY <1>2, FS_CardinalityType
<1>4. /\ DOMAIN names = 1 .. Cardinality(DOMAIN r.args)
      /\ \A i \in DOMAIN names : names[i] \in DOMAIN r.args
  BY DEF SetToSeqs
<1>5. \A v \in X : v.name # Root
  <2>1. \A name : var(name).name = name
    OBVIOUS
  <2>. HIDE DEF var
  <2>. QED
    BY <1>1, <1>2, <2>1
<1>6. first \in Seq(X)
  <2>1. \A name \in DOMAIN r.args : var(name) \in X
    OBVIOUS
  <2>. HIDE DEF var, X
  <2>. QED
    BY <1>3, <1>4, <2>1
<1>7. t.vars \in Seq(X)
  <2>. DEFINE Y == Range(t.vars)
  <2>1. t.vars \in Seq(Y) /\ Y \subseteq X
    BY <1>1
  <2>. HIDE DEF X, Y, t
  <2>. QED
    BY <2>1
<1>8. Augmented(t, r.args, names).vars = first \o t.vars
  BY DEF Augmented, Template
<1>. HIDE DEF X, first, t
<1>9. first \o t.vars \in Seq(X)
  BY <1>6, <1>7, ConcatProperties
<1>10. (first \o t.vars) \in Seq(Range(first \o t.vars)) /\ Range(first \o t.vars) \subseteq X
  <2>. DEFINE all == first \o t.vars
  <2>. HIDE DEF all
  <2>1. all \in Seq(X)
    BY <1>9 DEF all
  <2>2. all \in Seq(Range(all))
    BY <2>1, OfItsRange
  <2>3. Range(all) \subseteq X
    BY <2>1 DEF Range
  <2>. QED
    BY <2>2, <2>3 DEF all
<1>. QED
  BY <1>5, <1>8, <1>10 DEF Variables, t

LEMMA RenderKeeps ==
    ASSUME RenderInv, NEW r \in Requests, Render(r)
    PROVE  Rest'
<1>1. /\ Rest /\ request = {} /\ outcome = Busy /\ frames = <<>>
      /\ WalkReaches /\ ProblemKinds
      /\ \A c \in DOMAIN cache : c \in Configs /\ cache[c] = GenerateContext(c)
  BY DEF Render, RenderInv, Rest, ContextInv
<1>2. PICK c \in Configs :
        /\ request' = {[right |-> r.right, config |-> c, match |-> r.match]}
        /\ IF ~HasTemplate(r.match)
           THEN /\ outcome' = Failed("not found")
                /\ UNCHANGED <<orderVars, frames, casing, cache>>
           ELSE /\ cache' = IF c \in DOMAIN cache THEN cache
                             ELSE Insert(cache, c, GenerateContext(c))
                /\ casing' = CasingOf(r.match, r.trigger)
                /\ \E names \in SetToSeqs(DOMAIN r.args) :
                      Enter(Augmented(Template(r.match), r.args, names), <<>>, cache'[c])
                /\ UNCHANGED outcome
  BY DEF Render
<1>. DEFINE q == [right |-> r.right, config |-> c, match |-> r.match]
<1>3. request' = {q} /\ q.config = c
  BY <1>2
<1>. HIDE DEF q
<1>4. CASE ~HasTemplate(r.match)
  <2>1. /\ outcome' = Failed("not found") /\ UNCHANGED <<orderVars, frames, cache>>
    BY <1>2, <1>4
  <2>2. WalkReaches' /\ ProblemKinds'
    BY <1>1, <2>1, WalkSame
  <2>3. ContextInv'
    BY <1>1, <1>3, <2>1 DEF ContextInv
  <2>4. FramesInv' /\ ResolvedNeverMissing'
    BY <1>1, <2>1 DEF FramesInv, ResolvedNeverMissing, Failed
  <2>. QED
    BY <2>2, <2>3, <2>4 DEF Rest
<1>5. CASE HasTemplate(r.match)
  <2>1. /\ cache' = IF c \in DOMAIN cache THEN cache ELSE Insert(cache, c, GenerateContext(c))
        /\ outcome' = Busy
    BY <1>1, <1>2, <1>5
  <2>2. PICK names \in SetToSeqs(DOMAIN r.args) :
           Enter(Augmented(Template(r.match), r.args, names), <<>>, cache'[c])
    BY <1>2, <1>5
  <2>3. /\ c \in DOMAIN cache'
        /\ \A d \in DOMAIN cache' : d \in Configs /\ cache'[d] = GenerateContext(d)
    BY <1>1, <2>1 DEF Insert
  <2>4. ContextInv'
    BY <1>3, <2>3 DEF ContextInv
  <2>5. Context' = cache'[c]
    BY <1>3 DEF Context
  <2>6. Variables(Augmented(Template(r.match), r.args, names).vars)
    BY <1>5, AugmentedIs
  <2>. QED
    BY <1>1, <2>1, <2>2, <2>4, <2>5, <2>6, Enters
<1>. QED
  BY <1>4, <1>5

LEMMA AnswerKeeps ==
    ASSUME RenderInv, Answer
    PROVE  Rest'
<1>1. /\ WalkReaches /\ ProblemKinds /\ ContextInv
      /\ UNCHANGED <<orderVars, cache>>
      /\ request' = {} /\ outcome' = Busy /\ frames' = <<>>
  BY DEF Answer, RenderInv
<1>2. WalkReaches' /\ ProblemKinds'
  BY <1>1, WalkSame
<1>3. ContextInv' /\ FramesInv' /\ ResolvedNeverMissing'
  BY <1>1 DEF ContextInv, FramesInv, ResolvedNeverMissing, Busy, Failed
<1>. QED
  BY <1>2, <1>3 DEF Rest

LEMMA UnchangedKeeps ==
    ASSUME RenderInv, UNCHANGED vars
    PROVE  Rest'
<1>1. UNCHANGED <<orderVars, graph, seen, frames, request, outcome, cache>>
  BY DEF vars, orderVars
<1>2. WalkReaches' /\ ProblemKinds'
  BY <1>1, WalkSame DEF RenderInv
<1>3. Context' = Context /\ Top' = Top
  BY <1>1 DEF Context, Top
<1>4. ContextInv'
  BY <1>1 DEF RenderInv, ContextInv
<1>5. FramesInv'
  BY <1>1, <1>3 DEF RenderInv, FramesInv, Walked
<1>6. ResolvedNeverMissing'
  BY <1>1, <1>3 DEF RenderInv, ResolvedNeverMissing
<1>. QED
  BY <1>2, <1>4, <1>5, <1>6 DEF Rest

LEMMA RenderInvInitially == Init => RenderInv
<1>. SUFFICES ASSUME Init PROVE RenderInv
  OBVIOUS
<1>1. WalkInv
  BY OrderInitKeeps DEF Init
<1>2. WalkReaches /\ ProblemKinds
  BY DEF Init, OrderInit, WalkReaches, ProblemKinds
<1>3. ContextInv /\ FramesInv /\ ResolvedNeverMissing
  BY DEF Init, ContextInv, FramesInv, ResolvedNeverMissing, Busy, Failed
<1>. QED
  BY <1>1, <1>2, <1>3 DEF RenderInv

LEMMA RenderInvKept == RenderInv /\ [Next]_vars => RenderInv'
<1>. SUFFICES ASSUME RenderInv, [Next]_vars PROVE RenderInv'
  OBVIOUS
<1>1. WalkInv'
  BY RenderStep DEF RenderInv
<1>2. Rest'
  BY RenderKeeps, ResolveKeeps, PlanKeeps, RefuseKeeps, EvaluateMatchKeeps,
     EvaluateExtensionKeeps, EvaluateUnknownKeeps, FinishKeeps, AnswerKeeps, UnchangedKeeps
     DEF Next
<1>. QED
  BY <1>1, <1>2 DEF RenderInv, Rest

\* A complete order is exact.
LEMMA Exact ==
    ASSUME RenderInv
    PROVE  PlanIsExact
<1>. SUFFICES ASSUME Planned
              PROVE  LET locals == LocalVariables(Top.template, Context.globals)
                     IN  /\ Ids(order) = Reachable(graph)
                         /\ \A i, j \in DOMAIN locals :
                               i < j => Place(locals[i].name) < Place(locals[j].name)
  BY DEF PlanIsExact
<1>. DEFINE locals == LocalVariables(Top.template, Context.globals)
            globals == Context.globals
<1>1. /\ Rest /\ WalkInv /\ WalkReaches /\ path = <<>> /\ Rendering("resolve")
  BY DEF RenderInv, Rest, Planned, Rendering
<1>2. /\ seen # {} /\ graph = NodeMap(Top.template.body, locals, globals)
      /\ Variables(Top.template.vars) /\ Variables(globals)
  BY <1>1, TopIs DEF Walked, FrameOK
<1>3. /\ locals \in Seq(Range(Top.template.vars) \cup Range(globals))
      /\ globals \in Seq(Range(globals))
  BY <1>2, LocalsType DEF Variables
<1>4. Root \notin Named(locals) \cup Named(globals)
  BY <1>2, LocalNames
<1>. DEFINE X == Range(Top.template.vars) \cup Range(globals)
            Y == Range(globals)
<1>5. locals \in Seq(X) /\ globals \in Seq(Y)
  BY <1>3
<1>. HIDE DEF X, Y, locals, globals
<1>6. \A i, j \in 1 .. Len(locals) : i < j => Place(locals[i].name) < Place(locals[j].name)
  BY <1>1, <1>2, <1>4, <1>5, DeclaredOrder
<1>7. DOMAIN locals = 1 .. Len(locals)
  BY <1>5
<1>8. Ids(order) = Reachable(graph)
  BY <1>1, <1>2, WalkEnds
<1>. QED
  BY <1>6, <1>7, <1>8 DEF locals, globals

\* What will be evaluated is what the match needs and nothing else, its own variables
\* in the order they are declared, whatever matches are inside matches and in whatever
\* order the hash sets give the dependencies.
THEOREM PlansAreExact == Spec => []PlanIsExact
<1>. QED
  BY RenderInvInitially, RenderInvKept, Exact, PTL DEF Spec

\* A variable that was planned has a value when it is referred to, unless nobody
\* evaluates its type or a form is asked for as a whole.
THEOREM NothingIsMissing == Spec => []ResolvedNeverMissing
<1>1. RenderInv => ResolvedNeverMissing
  BY DEF RenderInv
<1>. QED
  BY <1>1, RenderInvInitially, RenderInvKept, PTL DEF Spec
=============================================================================
