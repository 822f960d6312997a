----------------------------- MODULE MatcherTree -----------------------------
(***************************************************************************)
(* The tree the rolling matcher walks, built from the matches one by one.  *)
(*                                                                         *)
(* The order of the matches comes from a hash set of file paths, so any    *)
(* order is possible.  A position in the tree is the sequence of items     *)
(* that leads to it; `tree' maps the positions that hold matches to their  *)
(* ids, and the inner nodes are the prefixes of those positions.           *)
(***************************************************************************)
EXTENDS Naturals, Sequences, FiniteSets

CONSTANTS
    Letters,   \* what a keystroke may produce, one character each
    KeyNames,  \* keys a match may be bound to
    Rules      \* the rolling matches: [id, items]

\* A character of a keystroke or of a trigger: a sequence of letters.
Item == [kind : {"separator"}, of : {<<>>}]
        \cup [kind : {"key"}, of : KeyNames]
        \cup [kind : {"char", "insensitive"}, of : Seq(Letters) \ {<<>>}]

WordSeparator == [kind |-> "separator", of |-> <<>>]

ASSUME RulesAssumption == \A r \in Rules : r.items \in Seq(Item)

VARIABLES pending, tree
treeVars == <<pending, tree>>

StrictPrefix(p, q) == Len(p) < Len(q) /\ \A i \in 1 .. Len(p) : p[i] = q[i]

IsLeaf(p) == p \in DOMAIN tree
IsNode(p) == \E q \in DOMAIN tree : StrictPrefix(p, q)

TreeInit ==
    /\ pending = Rules
    /\ tree = [p \in {} |-> <<>>]

\* Mutant: the longer matches below the position are kept.
InsertKeepsLonger(r) ==
    /\ r \in pending
    /\ pending' = pending \ {r}
    /\ tree' = [p \in DOMAIN tree \cup {r.items} |->
                 IF p # r.items THEN tree[p]
                 ELSE Append(IF IsLeaf(p) THEN tree[p] ELSE <<>>, r.id)]

\* A leaf on the way hides the match for good, the leaves below its position are
\* replaced, and a match at a position that is taken is added to it.
Insert(r) ==
    /\ r \in pending
    /\ pending' = pending \ {r}
    /\ tree' =
         IF r.items = <<>> \/ \E p \in DOMAIN tree : StrictPrefix(p, r.items)
         THEN tree
         ELSE [p \in {q \in DOMAIN tree : ~StrictPrefix(r.items, q)} \cup {r.items} |->
                 IF p # r.items THEN tree[p]
                 ELSE Append(IF IsLeaf(p) THEN tree[p] ELSE <<>>, r.id)]

Build == \E r \in pending : Insert(r)

TreeSpec == TreeInit /\ [][Build]_treeVars
-----------------------------------------------------------------------------
Ids(s) == {s[i] : i \in 1 .. Len(s)}

\* The matches with a trigger of which no other trigger is a proper prefix.
Visible(S) ==
    {r \in S : r.items # <<>> /\ ~ \E q \in S : q.items # <<>> /\ StrictPrefix(q.items, r.items)}

\* However the matches are ordered, the tree holds exactly those that no shorter
\* trigger hides, each at its own position and with every match that shares its
\* trigger: insert_items_recursively drops and replaces branches on the way.
TreeHoldsVisible ==
    LET inserted == Rules \ pending IN
    /\ DOMAIN tree = {r.items : r \in Visible(inserted)}
    /\ \A p \in DOMAIN tree : Ids(tree[p]) = {r.id : r \in {q \in inserted : q.items = p}}
=============================================================================
