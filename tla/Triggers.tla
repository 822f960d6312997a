------------------------------- MODULE Triggers -------------------------------
(***************************************************************************)
(* What the detection of typed triggers promises, without the tree and the *)
(* partial matches: a match is found as soon as the events since the last  *)
(* one end with its trigger, and the one that began first wins.  Deleting  *)
(* the last character takes the detection back by one event, as long as    *)
(* the history reaches.                                                    *)
(***************************************************************************)
EXTENDS SequencesExt

CONSTANTS
    Rules,      \* the matches that can be found: [id, items]
    Consumes(_, _), \* does an event match an item
    IsSeparator(_), \* is an item the word separator
    Inputs,     \* the events that reach the matchers
    MaxHistory  \* events that can be taken back

VARIABLES
    texts,  \* the events since the last match, after each of the last events
    hits    \* what the last event completed

\* Nothing is known of what comes before: that counts as a word separator.
Unknown == [events |-> <<>>, fresh |-> TRUE]
Current == IF texts = <<>> THEN Unknown ELSE Last(texts)

Matches(items, events) ==
    /\ Len(items) = Len(events)
    /\ \A i \in DOMAIN items : Consumes(events[i], items[i])

\* The events from the i-th on are the trigger; the separator in front of it may
\* be the unknown text the events began in.
Completes(r, text, i) ==
    LET events == SubSeq(text.events, i, Len(text.events)) IN
    \/ Matches(r.items, events)
    \/ /\ text.fresh
       /\ i = 1
       /\ Len(r.items) > 1
       /\ IsSeparator(Head(r.items))
       /\ Matches(Tail(r.items), events)

Text(events) == FlattenSeq([i \in DOMAIN events |-> events[i].chars])

Hit(r, text, i) ==
    [id |-> r.id, trigger |-> Text(SubSeq(text.events, i, Len(text.events)))]

Remember(text) ==
    texts' = LET all == Append(texts, text) IN
             IF Len(all) > MaxHistory THEN Tail(all) ELSE all

Type(e) ==
    LET text == [Current EXCEPT !.events = Append(@, e)]
        Begin == {b \in Rules \X DOMAIN text.events : Completes(b[1], text, b[2])}
    IN  IF Begin = {}
        THEN hits' = {} /\ Remember(text)
        ELSE /\ Remember([events |-> <<>>, fresh |-> FALSE])
             /\ \E b \in Begin :
                   /\ \A c \in Begin : b[2] <= c[2]
                   /\ hits' = {Hit(r, text, b[2]) : r \in {q \in Rules : q.items = b[1].items}}

TakeBack ==
    /\ texts # <<>>
    /\ texts' = Front(texts)
    /\ hits' = {}

Forget == texts' = <<>> /\ hits' = {}

Init == texts = <<>> /\ hits = {}
Next == (\E e \in Inputs : Type(e)) \/ TakeBack \/ Forget
Spec == Init /\ [][Next]_<<texts, hits>>
=============================================================================
