-------------------------- MODULE MatchingProperties --------------------------
(***************************************************************************)
(* What the matchers promise, about the module Matching.                   *)
(***************************************************************************)
EXTENDS Matching

\* Every text that fits in the regex buffer and was just typed is in the buffer:
\* RegexMatcher drops one letter per event, by bytes, and never too much.
RegexWindow ==
    \A i \in DOMAIN states :
        LET text == past[i].text
            buffer == states[i].buffer
        IN  /\ IsSuffix(buffer, text)
            /\ \A k \in 1 .. Len(text) + 1 :
                  LET recent == SubSeq(text, k, Len(text))
                  IN  Width(recent) <= MaxBuffer => IsSuffix(recent, buffer)

\* What was found leads back to the match it came from: the trigger reported,
\* without its separators, is one of that match's own, in the case that was typed
\* only if the match propagates it, and its id resolves to exactly one match.
HitsResolve ==
    \A h \in Range(found.rolling) :
        h.id \in {r.id : r \in ItemRules} \/
        LET core == SubSeq(h.trigger, Len(h.left) + 1, Len(h.trigger) - Len(h.right)) IN
        \E m \in Resolve(h.id) : \E t \in m.triggers :
            /\ Resolve(h.id) = {m}
            /\ h.id \in FindMatchesFromTrigger(t)
            /\ Fold(core) = Fold(t)
            /\ core # t => m \in UserMatches /\ m.propagateCase

-----------------------------------------------------------------------------
\* Does an event match an item, whatever the tree looks like.
Consumes(e, item) ==
    \/ item.kind = "separator" /\ IsWordSeparator(e)
    \/ item.kind = "key" /\ e.kind = "key" /\ e.key = item.of
    \/ item.kind = "char" /\ e.chars = item.of
    \/ item.kind = "insensitive" /\ Fold(e.chars) = item.of

IsSeparatorItem(item) == item = WordSeparator

Promise == INSTANCE Triggers WITH
    Rules <- Visible(Rules),
    IsSeparator <- IsSeparatorItem,
    texts <- [i \in DOMAIN past |-> [events |-> past[i].since, fresh |-> past[i].fresh]],
    hits <- {[id |-> h.id, trigger |-> h.trigger] : h \in Range(found.rolling)}

\* The matcher tree, its partial matches and the popped states implement the plain
\* reading: a match is found exactly when the events since the last one end with
\* its trigger, and the one that began first wins.
DetectsTriggers == Promise!Spec
=============================================================================
