------------------------------- MODULE Matching -------------------------------
(***************************************************************************)
(* The detection of triggers: the matches of the configuration and the     *)
(* built-in ones become rolling and regex matches, the matchers are run on *)
(* every event, and the matcher middleware keeps their last states so that *)
(* a deleted character can be taken back.                                  *)
(*                                                                         *)
(* A character is a sequence of letters (one keystroke may produce more    *)
(* than one).  A regex is the set of texts it matches.  `past' is history: *)
(* what was typed since the rolling and the regex matcher were last reset. *)
(***************************************************************************)
EXTENDS MatcherTree, SequencesExt

CONSTANTS
    UserMatches, \* the active match set, by id
    Builtins,    \* the built-in matches: [id, triggers]
    ItemRules,   \* matches given by their items
    Lower,       \* case folding of letters
    Bytes,       \* the length of a letter in UTF-8
    Separators,  \* characters that end a word
    Inputs,      \* the events that reach the matchers
    MaxBuffer,   \* max_regex_buffer_size, in bytes
    MaxHistory,  \* backspace_limit: states kept
    MaxTyped     \* bound: events since the last reset

Fold(chars) == [i \in DOMAIN chars |-> Lower[chars[i]]]

\* Mutant: the options of the case and of the left word are swapped.
FromStringSwapped(id, string, opt) ==
    [id |-> id,
     items |-> (IF opt.caseInsensitive THEN <<WordSeparator>> ELSE <<>>)
            \o [i \in DOMAIN string |->
                  IF opt.leftWord
                  THEN [kind |-> "insensitive", of |-> Fold(<<string[i]>>)]
                  ELSE [kind |-> "char", of |-> <<string[i]>>]]
            \o (IF opt.rightWord THEN <<WordSeparator>> ELSE <<>>)]

\* One item per letter, between the separators its options ask for.
FromString(id, string, opt) ==
    [id |-> id,
     items |-> (IF opt.leftWord THEN <<WordSeparator>> ELSE <<>>)
            \o [i \in DOMAIN string |->
                  IF opt.caseInsensitive
                  THEN [kind |-> "insensitive", of |-> Fold(<<string[i]>>)]
                  ELSE [kind |-> "char", of |-> <<string[i]>>]]
            \o (IF opt.rightWord THEN <<WordSeparator>> ELSE <<>>)]

DefaultOptions == [caseInsensitive |-> FALSE, leftWord |-> FALSE, rightWord |-> FALSE]

RollingMatches ==
    (UNION {{FromString(m.id, t, [caseInsensitive |-> m.propagateCase,
                                  leftWord |-> m.leftWord,
                                  rightWord |-> m.rightWord]) : t \in m.triggers} :
            m \in {u \in UserMatches : u.cause = "trigger"}})
    \cup (UNION {{FromString(m.id, t, DefaultOptions) : t \in m.triggers} : m \in Builtins})

\* A regex that does not compile is left out.
RegexMatches == {m \in UserMatches : m.cause = "regex" /\ m.compiles}

ASSUME MatchingAssumption ==
    /\ Rules = RollingMatches \cup ItemRules
    /\ IsFiniteSet(UserMatches)
    /\ \A m \in UserMatches : m.cause = "trigger" => m.triggers \subseteq Seq(Letters)
    /\ \A b \in Builtins : b.triggers \subseteq Seq(Letters)
    /\ \A m, n \in UserMatches \cup Builtins : m.id = n.id => m = n
    /\ \A e \in Inputs : e.chars \in Seq(Letters) /\ (e.kind = "key" => e.key \in KeyNames)
    /\ Lower \in [Letters -> Letters]
    /\ Bytes \in [Letters -> 1 .. 4]
    /\ MaxBuffer \in Nat /\ MaxHistory \in Nat

VARIABLES states, past, found
vars == <<pending, tree, states, past, found>>

NoState == [paths |-> <<>>, buffer |-> <<>>]
NoPast  == [since |-> <<>>, fresh |-> TRUE, text |-> <<>>]

Init ==
    /\ TreeInit
    /\ states = <<>>
    /\ past = <<>>
    /\ found = [rolling |-> <<>>, regex |-> <<>>]
-----------------------------------------------------------------------------
IsWordSeparator(e) == e.kind = "virtual" \/ e.chars \in Separators

\* The items of a child that an event leads to, in the order they are tried.
Accepted(e) ==
    (IF e.kind = "key" THEN <<[kind |-> "key", of |-> e.key]>> ELSE <<>>)
    \o (IF e.chars # <<>>
        THEN <<[kind |-> "char", of |-> e.chars],
               [kind |-> "insensitive", of |-> Fold(e.chars)]>>
        ELSE <<>>)
    \o (IF IsWordSeparator(e) THEN <<WordSeparator>> ELSE <<>>)

Children(p, e) ==
    LET Child(item) == [at |-> Append(p, item), separator |-> item = WordSeparator]
        all == [i \in DOMAIN Accepted(e) |-> Child(Accepted(e)[i])]
    IN  FlattenSeq([i \in DOMAIN all |->
            IF IsLeaf(all[i].at) \/ IsNode(all[i].at) THEN <<all[i]>> ELSE <<>>])

\* Mutant: a word trigger is only found behind a separator that was typed.
FindRefsTyped(p, e, hasPrevious) == Children(p, e)

\* Without a previous state the text before counts as a separator.
FindRefs(p, e, hasPrevious) ==
    Children(p, e)
    \o (IF ~hasPrevious /\ IsNode(Append(p, WordSeparator))
        THEN Children(Append(p, WordSeparator), e) ELSE <<>>)

Extend(events, refs, e) ==
    [i \in DOMAIN refs |->
        [at |-> refs[i].at,
         events |-> Append(events, [event |-> e, separator |-> refs[i].separator])]]

ExtractString(events) ==
    LET first == Head(events)
        last  == Last(events)
    IN  [trigger |-> FlattenSeq([i \in DOMAIN events |-> events[i].event.chars]),
         left    |-> IF first.separator THEN first.event.chars ELSE <<>>,
         right   |-> IF Len(events) > 1 /\ last.separator THEN last.event.chars ELSE <<>>]

\* The first path that arrives at matches ends the search: all the other partial
\* matches are given up.
RollingProcess(paths, hasPrevious, e) ==
    LET old  == [i \in DOMAIN paths |->
                   Extend(paths[i].events, FindRefs(paths[i].at, e, TRUE), e)]
        next == FlattenSeq(old) \o Extend(<<>>, FindRefs(<<>>, e, hasPrevious), e)
        hit  == SelectInSeq(next, LAMBDA n : IsLeaf(n.at))
        text == ExtractString(next[hit].events)
    IN  IF hit = 0 THEN [paths |-> next, results |-> <<>>]
        ELSE [paths |-> <<>>,
              results |-> [i \in DOMAIN tree[next[hit].at] |->
                             [id |-> tree[next[hit].at][i], trigger |-> text.trigger,
                              left |-> text.left, right |-> text.right]]]

\* The bytes of a string, each by its letter and its place there.
Octets(s) == {o \in (DOMAIN s) \X (1 .. 4) : o[2] <= Bytes[s[o[1]]]}
Width(s) == Cardinality(Octets(s))

\* Where a regex matches a buffer, the leftmost place first.
Occurrences(words, buffer) ==
    {o \in (1 .. Len(buffer) + 1) \X words :
        /\ o[1] + Len(o[2]) <= Len(buffer) + 1
        /\ SubSeq(buffer, o[1], o[1] + Len(o[2]) - 1) = o[2]}
FullMatch(words, buffer) ==
    (CHOOSE o \in Occurrences(words, buffer) :
        \A p \in Occurrences(words, buffer) : o[1] <= p[1])[2]

\* Mutant: a buffer that is too long is emptied.
RegexEmpties(buffer, e) ==
    [buffer |-> IF Width(buffer \o e.chars) > MaxBuffer THEN <<>> ELSE buffer \o e.chars,
     results |-> <<>>]

\* One letter is dropped when the buffer is too long, however much came in.
RegexProcess(buffer, e) ==
    LET pushed == buffer \o e.chars
        kept == IF Width(pushed) > MaxBuffer THEN Tail(pushed) ELSE pushed
        matching == {m \in RegexMatches : /\ Occurrences(m.words, kept) # {}
                                          /\ FullMatch(m.words, kept) # <<>>}
        results == {[id |-> m.id, trigger |-> FullMatch(m.words, kept),
                     left |-> <<>>, right |-> <<>>] : m \in matching}
    IN  [buffer |-> IF results = {} THEN kept ELSE <<>>, results |-> SetToSeq(results)]
-----------------------------------------------------------------------------
Capped(s) == IF Len(s) > MaxHistory THEN Tail(s) ELSE s

Process(e) ==
    LET prev    == IF states = <<>> THEN NoState ELSE Last(states)
        was     == IF past = <<>> THEN NoPast ELSE Last(past)
        rolling == RollingProcess(prev.paths, states # <<>>, e)
        regex   == RegexProcess(prev.buffer, e)
    IN  /\ pending = {}
        /\ Len(was.since) < MaxTyped /\ Len(was.text) < MaxTyped
        /\ states' = Capped(Append(states, [paths |-> rolling.paths, buffer |-> regex.buffer]))
        /\ found' = [rolling |-> rolling.results, regex |-> regex.results]
        /\ past' = Capped(Append(past,
             [since |-> IF rolling.results = <<>> THEN Append(was.since, e) ELSE <<>>,
              fresh |-> rolling.results = <<>> /\ was.fresh,
              text  |-> IF regex.results = <<>> THEN was.text \o e.chars ELSE <<>>]))
        /\ UNCHANGED treeVars

\* The last state is popped without running the matchers.
Backspace ==
    /\ pending = {}
    /\ states # <<>>
    /\ states' = Front(states)
    /\ past' = Front(past)
    /\ found' = [rolling |-> <<>>, regex |-> <<>>]
    /\ UNCHANGED treeVars

\* A key that moves the cursor, or a click.
Invalidate ==
    /\ pending = {}
    /\ states' = <<>>
    /\ past' = <<>>
    /\ found' = [rolling |-> <<>>, regex |-> <<>>]
    /\ UNCHANGED treeVars

BuildTree == Build /\ UNCHANGED <<states, past, found>>

Next == BuildTree \/ (\E e \in Inputs : Process(e)) \/ Backspace \/ Invalidate

Spec == Init /\ [][Next]_vars
-----------------------------------------------------------------------------
\* The match an id stands for: the caches of the user's and the built-in matches.
Resolve(id) ==
    {m \in UserMatches : m.id = id}
    \cup {b \in Builtins : b.id = id /\ \A m \in UserMatches : m.id # id}

\* The matches a trigger stands for when it is executed by name.
FindMatchesFromTrigger(t) ==
    {m.id : m \in {u \in UserMatches : u.cause = "trigger" /\ t \in u.triggers}}
    \cup {b.id : b \in {c \in Builtins : t \in c.triggers}}
=============================================================================
