------------------------------ MODULE MCMatching ------------------------------
(***************************************************************************)
(* An instance of Matching for TLC: triggers that share a position, hide   *)
(* each other, differ in case or in their separators, and two regexes.     *)
(***************************************************************************)
EXTENDS MatchingProperties

\* "e" stands for a letter of two bytes, "_" for a space.
MCLetters == {"a", "A", "e", "_"}
MCLower == [l \in MCLetters |-> IF l = "A" THEN "a" ELSE l]
MCBytes == [l \in MCLetters |-> IF l = "e" THEN 2 ELSE 1]

Typed(id, triggers, propagate, left, right) ==
    [id |-> id, cause |-> "trigger", triggers |-> triggers,
     propagateCase |-> propagate, leftWord |-> left, rightWord |-> right]
Pattern(id, words, compiles) ==
    [id |-> id, cause |-> "regex", words |-> words, compiles |-> compiles]

MCUserMatches ==
    {Typed(1, {<<"a", "e">>}, FALSE, FALSE, FALSE),
     Typed(2, {<<"a", "e">>, <<"A", "A">>}, FALSE, FALSE, FALSE),
     Typed(3, {<<"a", "e", "a">>}, FALSE, FALSE, FALSE),
     Typed(4, {<<"a", "a">>}, TRUE, FALSE, FALSE),
     Typed(5, {<<"e">>}, FALSE, TRUE, TRUE),
     Typed(6, {<<"e", "a">>}, FALSE, TRUE, FALSE),
     Pattern(7, {<<"e", "e">>, <<"A", "_", "A">>}, TRUE),
     Pattern(8, {<<"a">>}, FALSE),
     [id |-> 9, cause |-> "none"]}
MCBuiltins == {[id |-> 100, triggers |-> {<<"_", "a">>}]}
MCSeparators == {<<"_">>}
MCItemRules == {[id |-> 10, items |-> <<[kind |-> "key", of |-> "Tab"],
                                        [kind |-> "char", of |-> <<"e">>]>>]}
MCRules == RollingMatches \cup MCItemRules

Key(k, chars) == [kind |-> "key", key |-> k, chars |-> chars]
MCInputs ==
    {Key("Other", <<l>>) : l \in MCLetters}
    \cup {Key("Other", <<"e", "a">>), Key("Tab", <<>>)}
    \cup {[kind |-> "virtual", chars |-> <<>>]}
=============================================================================
