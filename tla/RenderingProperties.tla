-------------------------- MODULE RenderingProperties --------------------------
(***************************************************************************)
(* What the renderer promises, about the module Rendering.                 *)
(***************************************************************************)
EXTENDS Rendering

\* A set of nodes that holds the body and what its nodes depend on.
Closed(g, s) == Root \in s /\ \A m \in s \cap DOMAIN g : g[m].deps \subseteq s

\* The nodes that can be reached from the body: those in every such set.
Reachable(g) ==
    LET nodes == {Root} \cup UNION {g[m].deps : m \in DOMAIN g}
    IN  {n \in nodes : \A s \in SUBSET nodes : Closed(g, s) => n \in s}

Planned ==
    request # {} /\ outcome = Busy /\ frames # <<>> /\ Top.phase = "resolve"
    /\ path = <<>> /\ problem = NoProblem

Place(n) == SelectInSeq(order, LAMBDA m : m = n)

\* What will be evaluated is what the match needs and nothing else: the dialogs and
\* commands of its own variables, in the order they are declared, and of the globals
\* it reaches, however the dependencies are ordered.
PlanIsExact ==
    Planned =>
        LET locals == LocalVariables(Top.template, Context.globals) IN
        /\ Ids(order) = Reachable(graph)
        /\ \A i, j \in DOMAIN locals : i < j => Place(locals[i].name) < Place(locals[j].name)

\* A variable without a value, although it was planned, is one whose type nobody
\* evaluates, or is a form's that was asked for without a field.
NoValue(p, frame, globals) ==
    \/ p.name \in DOMAIN frame.scope /\ frame.scope[p.name].kind = "multiple" /\ p.sub = ""
    \/ /\ p.name \notin DOMAIN frame.scope
       /\ \E v \in Range(frame.template.vars) \cup Range(globals) :
             v.name = p.name /\ v.type \notin Extensions \cup {"match"}

\* The template being rendered, or its next variable, refers to such a variable.
LacksValue(frame, globals) ==
    LET strings == {frame.template.body} \cup
                   (IF frame.todo = <<>> THEN {}
                    ELSE LET params == Head(frame.todo).params
                         IN  UNION {Strings(params[k]) : k \in DOMAIN params})
    IN  \E s \in strings : \E p \in Range(s) : IsRef(p) /\ NoValue(p, frame, globals)

\* Once the order is known, rendering never lacks a variable: everything the body
\* and the parameters refer to was evaluated before.
ResolvedNeverMissing == outcome = Failed("unfilled") => LacksValue(Top, Context.globals)
=============================================================================
