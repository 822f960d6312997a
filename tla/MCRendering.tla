------------------------------ MODULE MCRendering ------------------------------
(***************************************************************************)
(* An instance of Rendering for TLC: matches with forms, commands, nested  *)
(* and recursive matches, globals, a cycle and a regex's own variables.    *)
(***************************************************************************)
EXTENDS RenderingProperties

MCUpper == [c \in {"a", "b", "A", "B", " ", "escaped", "{{", "}}"} |->
              CASE c = "a" -> "A" [] c = "b" -> "B" [] OTHER -> c]
Piece(t) == [kind |-> "text", text |-> t]
Ref(n) == [kind |-> "ref", name |-> n, sub |-> ""]
Field(n) == [kind |-> "ref", name |-> n, sub |-> "n"]
Str(pieces) == [kind |-> "string", of |-> pieces]
Arr(values) == [kind |-> "array", of |-> values]

Var(n, t, params) == [name |-> n, type |-> t, params |-> params, injectVars |-> TRUE, dependsOn |-> {}]
After(v, names) == [v EXCEPT !.dependsOn = names]

Trigger(t, propagate, style) ==
    [kind |-> "trigger", triggers |-> {t}, propagateCase |-> propagate, style |-> style]
Match(cause, body, variables) ==
    [cause |-> cause, effect |-> [kind |-> "text", body |-> body, vars |-> variables]]
Regex == [kind |-> "regex"]
Item(i) == [kind |-> "object", of |-> [id |-> Str(<<Piece(i)>>), label |-> Str(<<Ref("f")>>)]]

MCMatches == [i \in 1 .. 10 |->
    CASE i = 1 -> Match(Trigger(<<"a">>, TRUE, "uppercase"), <<Ref("x"), Piece(<<"escaped", " ", "b">>)>>,
                        <<Var("x", "clipboard", <<>>)>>)
      [] i = 2 -> Match(Trigger(<<"b">>, FALSE, "uppercase"), <<Ref("s"), Ref("g")>>,
                        <<Var("f", "form", [layout |-> Str(<<Piece(<<"a">>)>>)]),
                          Var("s", "shell", [cmd |-> Str(<<Field("f")>>)])>>)
      [] i = 3 -> Match(Trigger(<<"a", "b">>, TRUE, "capitalize_words"), <<Ref("m"), Ref("h")>>,
                        <<Var("m", "match", [trigger |-> Str(<<Piece(<<"a">>)>>)])>>)
      [] i = 4 -> Match(Trigger(<<"b", "b">>, FALSE, "uppercase"), <<Ref("m")>>,
                        <<Var("m", "match", [trigger |-> Str(<<Piece(<<"b", "b">>)>>)])>>)
      [] i = 5 -> Match(Regex, <<Ref("u"), Ref("nobody")>>,
                        <<Var("u", "echo", [echo |-> Str(<<Ref("w")>>)]), Var("w", "global", <<>>)>>)
      [] i = 6 -> Match(Regex, <<Ref("k"), Ref("l"), Ref("h")>>,
                        <<Var("l", "choice", [values |-> Arr(<<Item(<<"a">>), Str(<<Ref("k")>>)>>)]),
                          Var("g", "global", <<>>)>>)
      [] i = 7 -> Match(Regex, <<Ref("c"), Ref("d")>>,
                        <<Var("d", "date", [offset |-> [kind |-> "number", of |-> "huge"]]),
                          Var("c", "script", [args |-> Arr(<<>>)])>>)
      [] i = 8 -> Match(Regex, <<Ref("z"), Field("z"), Ref("r")>>,
                        <<Var("z", "form", [layout |-> Str(<<>>)]),
                          Var("r", "random", [choices |-> Arr(<<Str(<<Piece(<<"b">>)>>)>>)])>>)
      [] i = 9 -> [cause |-> Regex, effect |-> [kind |-> "image"]]
      [] i = 10 -> Match(Regex, <<Ref("q"), Ref("o")>>,
                        <<Var("q", "missing", <<>>),
                          Var("o", "match", [trigger |-> Str(<<Piece(<<"A">>)>>)])>>)]

G == After(Var("g", "echo", [echo |-> Str(<<Field("f")>>)]), {"s"})
H == Var("h", "echo", [echo |-> Str(<<Ref("p")>>)])
P == [Var("p", "choice", [values |-> Str(<<Piece(<<"a", "newline", " ">>)>>)]) EXCEPT !.injectVars = FALSE]
W == Var("w", "echo", [echo |-> Str(<<Ref("u")>>)])

MCMatchSets ==
    [all |-> [matches |-> <<1, 2, 3, 4, 5, 6, 7, 8, 9, 10>>, vars |-> <<G, H, P, W>>],
     some |-> [matches |-> <<9, 2>>, vars |-> <<P>>]]

NoArgs == [n \in {} |-> <<>>]
Request(m, trigger, args) == [match |-> m, trigger |-> trigger, args |-> args, right |-> <<" ">>]
MCRequests ==
    {Request(m, <<>>, NoArgs) : m \in 2 .. 11}
    \cup {Request(1, t, NoArgs) : t \in {<<"a">>, <<"A">>, <<"A", "b">>}}
    \cup {Request(3, t, NoArgs) : t \in {<<"A", "B">>, <<"A", "b">>}}
    \cup {Request(6, <<>>, [k |-> <<"b">>, j |-> <<"a">>]), Request(6, <<>>, [l |-> <<"b">>])}

MCGraphs == {[n \in {"__match_body"} |-> [variable |-> <<>>, deps |-> {}]]}
MCTexts == {<<>>, <<" ", "a">>}
MCShells == {<<"sh">>}
=============================================================================
