------------------------------- MODULE Rendering -------------------------------
(***************************************************************************)
(* The rendering of a match: the adapter picks the template and the        *)
(* context of the focused application, the renderer evaluates the          *)
(* variables in an order that respects their dependencies (matches used as *)
(* variables are rendered inside), puts the results into the body and      *)
(* applies the case of the trigger; the render middleware sends the answer.*)
(*                                                                         *)
(* A text is a sequence of characters; the string of a body or a parameter *)
(* is a sequence of pieces, texts and references.  The answers of users,   *)
(* commands and the clipboard come from small sets.                        *)
(***************************************************************************)
EXTENDS EvaluationOrder, SequencesExt

CONSTANTS
    MatchesById, \* the matches: [id -> [cause, effect]]
    Configs,     \* configurations that may be active
    MatchSets,   \* the matches and the global variables of each, in order
    Requests,    \* the rendering requests: [match, trigger, args, right]
    Upper,       \* upper case of a character
    WordChars,   \* characters of words
    Alphabetic,  \* letters
    Blank,       \* characters that trimming removes
    Texts,       \* texts that a command or the clipboard may give
    FormFields,  \* the fields of a form
    Shells,      \* the shells that are known
    MaxDepth     \* matches inside matches until the stack is exhausted

\* Variables come in the order they are declared.  None has the name that the graph
\* gives to the body: nothing checks it, the name is merely an odd one.
Variables(s) == s \in Seq(Range(s)) /\ \A v \in Range(s) : v.name # Root

ASSUME RenderingAssumption ==
    /\ \A i \in DOMAIN MatchesById :
          MatchesById[i].effect.kind = "text" => Variables(MatchesById[i].effect.vars)
    /\ \A c \in Configs : /\ Variables(MatchSets[c].vars)
                          /\ MatchSets[c].matches \in Seq(Range(MatchSets[c].matches))
    /\ \A r \in Requests : IsFiniteSet(DOMAIN r.args) /\ Root \notin DOMAIN r.args

VARIABLES
    frames,  \* the templates being rendered, the innermost last
    casing,  \* the style applied to all of them
    request, \* the request being served: {} or one
    outcome, \* of the renderer: "busy", "success", "aborted", "error" or "crash"
    cache,   \* the context of each configuration, once it was active
    sent     \* what the middleware sent for the last request

renderVars == <<frames, casing, request, outcome, cache, sent>>
vars == <<graph, path, seen, order, problem, frames, casing, request, outcome, cache, sent>>

Busy == [kind |-> "busy"]
-----------------------------------------------------------------------------
(* Values and references.                                                  *)

IsRef(p) == p.kind = "ref"
BodyNames(pieces) == {p.name : p \in {q \in Range(pieces) : IsRef(q)}}

\* Values nest at most twice here: arrays of objects of strings.
Compound(value) == value.kind \in {"array", "object"}
Inner(value) == IF Compound(value) THEN Range(value.of) ELSE {}
Strings(value) ==
    {v.of : v \in {w \in {value} \cup Inner(value) \cup UNION {Inner(x) : x \in Inner(value)} :
                      w.kind = "string"}}
ParamNames(params) == UNION {BodyNames(s) : s \in UNION {Strings(params[k]) : k \in DOMAIN params}}

Unescape(text) == [i \in DOMAIN text |-> IF text[i] = "escaped" THEN "{{" ELSE text[i]]

\* A reference is filled in when its variable has the value the reference asks for.
Fills(p, scope) ==
    /\ p.name \in DOMAIN scope
    /\ scope[p.name].kind = "multiple" => p.sub # ""
Filled(p, scope) ==
    LET output == scope[p.name] IN
    IF output.kind = "single" THEN output.text
    ELSE IF p.sub \in DOMAIN output.fields THEN output.fields[p.sub] ELSE <<>>

Renders(pieces, scope) == \A p \in Range(pieces) : IsRef(p) => Fills(p, scope)
RenderVariables(pieces, scope) ==
    Unescape(FlattenSeq([i \in DOMAIN pieces |->
        IF IsRef(pieces[i]) THEN Filled(pieces[i], scope) ELSE pieces[i].text]))

PieceText(text) == <<[kind |-> "text", text |-> text]>>
Injectable(params, scope) ==
    \A k \in DOMAIN params : \A s \in Strings(params[k]) : Renders(s, scope)
InjectedString(value, scope) ==
    IF value.kind = "string"
    THEN [value EXCEPT !.of = PieceText(RenderVariables(@, scope))] ELSE value
InjectedInner(value, scope) ==
    IF Compound(value)
    THEN [value EXCEPT !.of = [i \in DOMAIN @ |-> InjectedString(@[i], scope)]]
    ELSE InjectedString(value, scope)
InjectVariables(params, scope) ==
    [k \in DOMAIN params |->
        IF Compound(params[k])
        THEN [params[k] EXCEPT !.of = [i \in DOMAIN @ |-> InjectedInner(@[i], scope)]]
        ELSE InjectedString(params[k], scope)]

\* A string as it is written: what was not injected keeps its braces.
Written(pieces) ==
    FlattenSeq([i \in DOMAIN pieces |->
        IF IsRef(pieces[i]) THEN <<"{{", pieces[i].name, "}}">> ELSE pieces[i].text])
-----------------------------------------------------------------------------
(* The nodes of a template.                                                *)

LastNamed(variables, name) == SelectLastInSeq(variables, LAMBDA v : v.name = name)
Named(variables) == {v.name : v \in Range(variables)}

\* A variable of type "global" stands for the global of its name, if there is one.
LocalVariables(template, globals) ==
    FlattenSeq([i \in DOMAIN template.vars |->
        LET v == template.vars[i] IN
        IF v.type # "global" THEN <<v>>
        ELSE IF v.name \in Named(globals) THEN <<globals[LastNamed(globals, v.name)]>>
        ELSE <<>>])

\* Mutant: the references in the parameters do not count.
DeclaredOnly(v) == v.dependsOn

DeclaredDependencies(v) ==
    (IF v.injectVars THEN ParamNames(v.params) ELSE {}) \cup v.dependsOn

\* Mutant: a local variable does not wait for the one before it.
LocalNodeAlone(locals, i) ==
    [variable |-> <<locals[i]>>, deps |-> DeclaredDependencies(locals[i])]

\* A local variable also waits for the one before it.
LocalNode(locals, i) ==
    [variable |-> <<locals[i]>>,
     deps |-> DeclaredDependencies(locals[i])
              \cup (IF i > 1 THEN {locals[i - 1].name} ELSE {})]
GlobalNode(v) == [variable |-> <<v>>, deps |-> DeclaredDependencies(v)]

\* A local variable hides a global of its name, and the last of a name counts.
NodeMap(body, locals, globals) ==
    [n \in {Root} \cup Named(locals) \cup Named(globals) |->
        IF n \in Named(locals) THEN LocalNode(locals, LastNamed(locals, n))
        ELSE IF n \in Named(globals) THEN GlobalNode(globals[LastNamed(globals, n)])
        ELSE [variable |-> <<>>, deps |-> Named(locals) \cup BodyNames(body)]]

\* The template used as a variable: the first one with that trigger.
MatchingTemplate(v, templates) ==
    IF "trigger" \in DOMAIN v.params /\ v.params["trigger"].kind = "string"
    THEN SelectInSeq(templates, LAMBDA t : Written(v.params["trigger"].of) \in t.ids)
    ELSE 0
-----------------------------------------------------------------------------
(* The extensions: the results each may give.                              *)

Single(text) == [kind |-> "success", output |-> [kind |-> "single", text |-> text]]
Multiple(fields) == [kind |-> "success", output |-> [kind |-> "multiple", fields |-> fields]]
Aborted == [kind |-> "aborted"]
Failed(why) == [kind |-> "error", why |-> why]
Crashed == [kind |-> "crash"]

Has(params, k, kind) == k \in DOMAIN params /\ params[k].kind = kind
Text(params, k) == Written(params[k].of)
Flag(params, k, default) == IF Has(params, k, "bool") THEN params[k].of ELSE default

Lines(text) ==
    FoldLeft(LAMBDA acc, c : IF c = "newline" THEN Append(acc, <<>>)
                             ELSE [acc EXCEPT ![Len(acc)] = Append(@, c)], <<<<>>>>, text)
Trim(text) ==
    LET kept == {i \in DOMAIN text : text[i] \notin Blank}
    IN  IF kept = {} THEN <<>> ELSE SubSeq(text, Min(kept), Max(kept))

\* The non-empty lines of a string, or the ids of the items.
ChoiceItem(v) ==
    \/ v.kind = "string"
    \/ v.kind = "object" /\ Has(v.of, "id", "string") /\ Has(v.of, "label", "string")
ChoiceIds(value) ==
    IF value.kind = "string"
    THEN {Trim(l) : l \in Range(Lines(Written(value.of)))} \ {<<>>}
    ELSE {IF v.kind = "string" THEN Written(v.of) ELSE Text(v.of, "id") : v \in Range(value.of)}

Choice(params) ==
    IF ~ \/ Has(params, "values", "string")
         \/ Has(params, "values", "array") /\ \A v \in Range(params["values"].of) : ChoiceItem(v)
    THEN {Failed("choice")}
    ELSE {Single(id) : id \in ChoiceIds(params["values"])} \cup {Aborted, Failed("choice")}

Form(params) ==
    IF ~Has(params, "layout", "string") THEN {Failed("form")}
    ELSE {Multiple([f \in FormFields |-> t]) : t \in Texts} \cup {Aborted, Failed("form")}

Echo(params) == IF Has(params, "echo", "string") THEN {Single(Text(params, "echo"))} ELSE {Failed("echo")}

Random(params) ==
    LET choices == IF Has(params, "choices", "array")
                   THEN {v \in Range(params["choices"].of) : v.kind = "string"} ELSE {}
    IN  IF choices = {} THEN {Failed("random")} ELSE {Single(Written(v.of)) : v \in choices}

Clipboard(params) == {Single(t) : t \in Texts} \cup {Failed("clipboard")}

Trimmed(params, text) == IF Flag(params, "trim", TRUE) THEN Trim(text) ELSE text

\* The exit status decides.
Shell(params) ==
    IF \/ ~Has(params, "cmd", "string")
       \/ Has(params, "shell", "string") /\ Text(params, "shell") \notin Shells
    THEN {Failed("shell")}
    ELSE {Failed("shell")} \cup {Single(Trimmed(params, t)) : t \in Texts}

\* The first argument is taken without looking; an exit status or an output to
\* standard error is an error unless errors are ignored, a failure to start always.
Script(params) ==
    IF ~Has(params, "args", "array") THEN {Failed("script")}
    ELSE IF ~ \E v \in Range(params["args"].of) : v.kind = "string" THEN {Crashed}
    ELSE {Failed("script")} \cup {Single(Trimmed(params, t)) : t \in Texts}

\* Adding an offset that is too large to the date panics.
Date(params) ==
    IF \/ Has(params, "offset", "number") /\ params["offset"].of = "huge"
       \/ Has(params, "offset", "string") /\ Text(params, "offset") = <<"huge">>
    THEN {Crashed}
    ELSE {Single(t) : t \in Texts}
         \cup (IF Has(params, "format", "string") THEN {Failed("date")} ELSE {})

Extensions == {"choice", "form", "echo", "random", "clipboard", "shell", "script", "date"}
Calculate(type, params) ==
    CASE type = "choice"    -> Choice(params)
      [] type = "form"      -> Form(params)
      [] type = "echo"      -> Echo(params)
      [] type = "random"    -> Random(params)
      [] type = "clipboard" -> Clipboard(params)
      [] type = "shell"     -> Shell(params)
      [] type = "script"    -> Script(params)
      [] type = "date"      -> Date(params)
-----------------------------------------------------------------------------
(* The case of the trigger.                                                *)

CalculateCasingStyle(trigger, style) ==
    LET letters == SelectSeq(trigger, LAMBDA c : c \in Alphabetic)
        up(i) == Upper[letters[i]] = letters[i]
    IN  IF letters = <<>> \/ ~up(1) THEN "none"
        ELSE IF Len(letters) = 1
        THEN IF style \in {"capitalize", "capitalize_words"} THEN style ELSE "uppercase"
        ELSE IF up(2) THEN "uppercase"
        ELSE IF style = "capitalize_words" THEN style ELSE "capitalize"

ApplyCasing(style, text) ==
    LET starts(i) == text[i] \in WordChars /\ (i > 1 => text[i - 1] \notin WordChars)
        raised(i) == \/ style = "uppercase"
                     \/ style = "capitalize" /\ i = 1
                     \/ style = "capitalize_words" /\ starts(i)
    IN  [i \in DOMAIN text |-> IF raised(i) THEN Upper[text[i]] ELSE text[i]]
-----------------------------------------------------------------------------
(* The renderer.                                                           *)

Top == frames[Len(frames)]
Rendering(phase) == request # {} /\ outcome = Busy /\ frames # <<>> /\ Top.phase = phase
Context == LET r == CHOOSE r \in request : TRUE IN cache[r.config]

End(result) == outcome' = result /\ UNCHANGED frames

Insert(f, key, value) == [x \in DOMAIN f \cup {key} |-> IF x = key THEN value ELSE f[x]]

\* A body without references is taken as it is, and no variable is evaluated.
Enter(template, outer, context) ==
    LET refs == BodyNames(template.body) # {} IN
    /\ frames' = Append(outer, [template |-> template, scope |-> <<>>, todo |-> <<>>,
                                phase |-> IF refs THEN "resolve" ELSE "finish"])
    /\ IF refs
       THEN StartWalk(NodeMap(template.body, LocalVariables(template, context.globals),
                              context.globals))
       ELSE UNCHANGED orderVars

ResolveStep == Rendering("resolve") /\ Walk /\ UNCHANGED renderVars

\* The order is complete.
Plan ==
    /\ Rendering("resolve") /\ path = <<>> /\ problem = NoProblem
    /\ frames' = [frames EXCEPT ![Len(frames)].phase = "evaluate",
                     ![Len(frames)].todo = FlattenSeq([i \in DOMAIN order |-> graph[order[i]].variable])]
    /\ UNCHANGED <<orderVars, casing, request, outcome, cache, sent>>

Refuse ==
    /\ Rendering("resolve") /\ problem # NoProblem
    /\ End(Failed(problem.kind))
    /\ UNCHANGED <<orderVars, casing, request, cache, sent>>

\* The variable to evaluate next.
Current == IF Rendering("evaluate") /\ Top.todo # <<>> THEN {Head(Top.todo)} ELSE {}

\* The frames once the innermost one has evaluated its next variable.
Done(outer, name, output) ==
    [outer EXCEPT ![Len(outer)].todo = Tail(@),
                  ![Len(outer)].scope = Insert(@, name, output)]

\* A match inside: nothing looks for a match that is already being rendered.
EvaluateMatch(v) ==
    /\ v \in Current /\ v.type = "match"
    /\ LET i == MatchingTemplate(v, Context.templates) IN
       IF i = 0 THEN End(Failed("sub-match")) /\ UNCHANGED orderVars
       ELSE IF Len(frames) = MaxDepth THEN End(Crashed) /\ UNCHANGED orderVars
       ELSE Enter(Context.templates[i], frames, Context) /\ UNCHANGED outcome
    /\ UNCHANGED <<casing, request, cache, sent>>

EvaluateExtension(v) ==
    /\ v \in Current /\ v.type \in Extensions
    /\ IF v.injectVars /\ ~Injectable(v.params, Top.scope) THEN End(Failed("unfilled"))
       ELSE LET params == IF v.injectVars THEN InjectVariables(v.params, Top.scope) ELSE v.params
            IN  \E result \in Calculate(v.type, params) :
                    IF result.kind = "success"
                    THEN frames' = Done(frames, v.name, result.output) /\ UNCHANGED outcome
                    ELSE End(result)
    /\ UNCHANGED <<orderVars, casing, request, cache, sent>>

\* A type without an extension is only logged.
EvaluateUnknown(v) ==
    /\ v \in Current /\ v.type \notin Extensions \cup {"match"}
    /\ frames' = [frames EXCEPT ![Len(frames)].todo = Tail(@)]
    /\ UNCHANGED <<orderVars, casing, request, outcome, cache, sent>>

\* The body with its variables and its case; to capitalize nothing panics.
Finish ==
    /\ Rendering("finish") \/ (Rendering("evaluate") /\ Top.todo = <<>>)
    /\ LET outer == SubSeq(frames, 1, Len(frames) - 1)
           text == Unescape(RenderVariables(Top.template.body, Top.scope))
       IN  IF ~Renders(Top.template.body, Top.scope) THEN End(Failed("unfilled"))
           ELSE IF casing = "capitalize" /\ text = <<>> THEN End(Crashed)
           ELSE LET output == ApplyCasing(casing, text) IN
                IF outer = <<>> THEN End([kind |-> "success", text |-> output])
                ELSE /\ frames' = Done(outer, Head(outer[Len(outer)].todo).name,
                                       [kind |-> "single", text |-> output])
                     /\ UNCHANGED outcome
    /\ UNCHANGED <<orderVars, casing, request, cache, sent>>
-----------------------------------------------------------------------------
(* The adapter and the middleware.                                         *)

\* Images have no template; only triggers give a template its names.
Template(id) ==
    LET m == MatchesById[id] IN
    [ids |-> IF m.cause.kind = "trigger" THEN m.cause.triggers ELSE {},
     body |-> m.effect.body, vars |-> m.effect.vars]
HasTemplate(id) == id \in DOMAIN MatchesById /\ MatchesById[id].effect.kind = "text"

GenerateContext(c) ==
    LET ids == MatchSets[c].matches
    IN  [templates |-> FlattenSeq([i \in DOMAIN ids |->
                           IF HasTemplate(ids[i]) THEN <<Template(ids[i])>> ELSE <<>>]),
         globals |-> MatchSets[c].vars]

\* The values captured by a regex come before the template's own variables, in any order.
Augmented(template, args, names) ==
    [template EXCEPT !.vars =
        [i \in DOMAIN names |->
            [name |-> names[i], type |-> "echo", injectVars |-> FALSE, dependsOn |-> {},
             params |-> [echo |-> [kind |-> "string", of |-> PieceText(args[names[i]])]]]] \o @]

CasingOf(id, trigger) ==
    LET m == MatchesById[id] IN
    IF m.cause.kind = "trigger" /\ m.cause.propagateCase /\ trigger # <<>>
    THEN CalculateCasingStyle(trigger, m.cause.style) ELSE "none"

\* The configuration is the one of the application that has the focus now; its
\* context is generated once.
Render(r) ==
    /\ request = {} /\ outcome = Busy
    /\ \E c \in Configs :
        /\ request' = {[right |-> r.right, config |-> c, match |-> r.match]}
        /\ IF ~HasTemplate(r.match)
           THEN /\ outcome' = Failed("not found")
                /\ UNCHANGED <<orderVars, frames, casing, cache>>
           ELSE /\ cache' = IF c \in DOMAIN cache THEN cache
                             ELSE Insert(cache, c, GenerateContext(c))
                /\ casing' = CasingOf(r.match, r.trigger)
                /\ \E names \in SetToSeqs(DOMAIN r.args) :
                      Enter(Augmented(Template(r.match), r.args, names), <<>>, cache'[c])
                /\ UNCHANGED outcome
    /\ UNCHANGED sent

\* The middleware: an error leaves a message in the text.
Answer ==
    /\ request # {} /\ outcome.kind \in {"success", "aborted", "error"}
    /\ LET r == CHOOSE r \in request : TRUE IN
       sent' = CASE outcome.kind = "success" ->
                      <<[type |-> "Rendered", match |-> r.match, body |-> outcome.text \o r.right]>>
                 [] outcome.kind = "aborted" -> <<[type |-> "NOOP"]>>
                 [] OTHER -> <<[type |-> "TextInject"], [type |-> "RenderingError"]>>
    /\ request' = {} /\ outcome' = Busy /\ frames' = <<>>
    /\ UNCHANGED <<orderVars, casing, cache>>

Init ==
    /\ OrderInit
    /\ frames = <<>> /\ casing = "none" /\ request = {} /\ outcome = Busy
    /\ cache = <<>> /\ sent = <<>>

Next ==
    \/ \E r \in Requests : Render(r)
    \/ ResolveStep \/ Plan \/ Refuse
    \/ \E v \in Current : EvaluateMatch(v) \/ EvaluateExtension(v) \/ EvaluateUnknown(v)
    \/ Finish
    \/ Answer

Spec == Init /\ [][Next]_vars
=============================================================================
