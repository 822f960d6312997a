-------------------------- MODULE EngineProperties --------------------------
(***************************************************************************)
(* What the engine promises, stated over the variables of Engine.          *)
(***************************************************************************)
EXTENDS Engine

Record == {NoRecord} \cup [id : Nat, complete : BOOLEAN, empty : BOOLEAN]

\* What the detect thread enqueues.
DetectEvent ==
    KeyEvent \cup MouseEvent
    \cup [kind : {"HotKey"}, id : Nat, matches : SUBSET Matches]
    \cup [kind : {"AllModifiersReleased"}, id : Nat]

FunnelTypes ==
    /\ nextId \in Nat
    /\ keyboard \in Seq(DetectEvent)
    /\ chan \in [Sources -> Seq(SourceEvent)]
    /\ metaDown \in BOOLEAN

ChainTypes ==
    /\ pc \in {"receive", "process", "selecting", "dispatch", "exited",
               "crashed"}
    /\ queue \in Seq(Event)
    /\ cur \in Event
    /\ stage \in 0..chainEnd
    /\ emitted \in Seq(Event)
    /\ processed \in Seq(Event)
    /\ selection \in [start : Nat, valid : SUBSET Matches]

StatusTypes ==
    /\ minId \in Nat /\ maxId \in Nat
    /\ enabled \in BOOLEAN /\ lastToggle \in BOOLEAN
    /\ icon \in TrayStatus /\ menu \in TrayStatus /\ menuReady \in BOOLEAN
    /\ trayIcon \in IconStatus /\ trayMenu \in TrayStatus

MatchTypes ==
    /\ altBuffer \in {"none", "empty", "digits"}
    /\ history \in Seq(MStates) /\ Len(history) <= MaxHistory
    /\ pending \in SUBSET Nat
    /\ IsFiniteSet(pending) /\ Cardinality(pending) <= PendingCap + 1
    /\ record \in Record

HistoryTypes ==
    /\ window \in [start : Nat, end : Nat]
    /\ recorded \in SUBSET Nat
    /\ swallowed \in BOOLEAN

\* Every variable has the type its Rust counterpart is declared with, and the
\* two buffers that could grow for ever keep their bounds.
TypeOK ==
    FunnelTypes /\ ChainTypes /\ StatusTypes /\ MatchTypes /\ HistoryTypes

-----------------------------------------------------------------------------
(* Numbering and discarding                                                *)

\* The discard thresholds stay in order and never run ahead of the sequencer,
\* so that an event numbered from now on is never taken for an old one.
ThresholdsBehindSequencer ==
    /\ minId <= maxId
    /\ maxId <= nextId

\* The events of the batch that have not started down the chain, next first.
Waiting == queue \o emitted

IsDiscard(e) == e.kind \in {"DiscardPrevious", "DiscardBetween"}
UpTo(e) == IF e.kind = "DiscardPrevious" THEN e.min ELSE e.end

\* A discard request that is still to be read concerns ids already taken, and
\* asks for no less than what has been discarded so far.
Timely(e) ==
    IsDiscard(e) => /\ maxId <= UpTo(e) /\ UpTo(e) < nextId
                    /\ e.kind = "DiscardBetween" => e.start <= e.end

Before(e, f) == IsDiscard(e) /\ IsDiscard(f) => UpTo(e) <= UpTo(f)

\* The discard requests of a batch reach the discard middleware in the order of
\* the ids they were made with: none makes an earlier one undone.
DiscardOrder ==
    /\ ThresholdsBehindSequencer
    /\ \A i \in DOMAIN Waiting : Timely(Waiting[i])
    /\ \A i, j \in DOMAIN Waiting : i < j => Before(Waiting[i], Waiting[j])
    /\ stage = 0 => /\ Timely(cur)
                    /\ \A i \in DOMAIN Waiting : Before(cur, Waiting[i])
    /\ pc = "selecting" => selection.start < nextId

\* What the user asks for through the tray, the command line or a signal.
Commands == {"EnableRequest", "DisableRequest", "ToggleRequest",
             "ContextMenuClicked", "ExitRequested", "MatchExecRequest",
             "ShowSearchBar", "Enabled", "Disabled", "SecureInputEnabled",
             "SecureInputDisabled"}

\* A command, and the change of status it causes, is never thrown away as an
\* old event by the discard middleware, whatever was expanded or searched.
CommandsNeverDiscarded ==
    pc = "process" /\ cur.kind \in Commands => ~Discarded(cur.id)

\* The upper discard threshold only grows: an event that was to be discarded
\* is not let through by a later expansion.
ThresholdGrows == [][maxId' >= maxId]_vars

\* No key typed while the latest search bar was open gets past the discard
\* middleware after the bar has closed (match_select, lines 113-115).
LastSearchKeysDiscarded ==
    pc = "process" /\ cur.kind = "Keyboard" /\ stage >= discard
        => ~(window.start <= cur.id /\ cur.id < window.end)

-----------------------------------------------------------------------------
(* Status                                                                  *)

\* Whenever the engine waits for the next event the tray icon, the tray menu
\* and the middlewares that feed them agree with the flag that decides whether
\* keys are handled at all.
StatusAgreement ==
    pc = "receive" =>
        /\ icon.enabled = enabled
        /\ icon = menu
        /\ trayIcon = IF enabled /\ menu.secure THEN "SecureInputDisabled"
                       ELSE IF enabled THEN "Enabled" ELSE "Disabled"
        /\ trayMenu = menu

-----------------------------------------------------------------------------
(* Expansions                                                              *)

Typing  == {"TextInject", "HtmlInject", "ImageInject", "KeySequenceInject"}

DeletesTrigger(e) == e.kind = "KeySequenceInject" /\ e.why = "trigger"

ReplacesTrigger(e) ==
    \/ e.kind \in {"HtmlInject", "ImageInject"}
    \/ e.kind = "TextInject" /\ e.why \in {"body", "error", "builtin"}

\* When a trigger is deleted, the very next thing typed is what replaces it,
\* unless the match has nothing to type or its form was cancelled.
ExpansionFollowsCompensation ==
    pc = "dispatch" =>
        \A i \in DOMAIN processed :
            DeletesTrigger(processed[i]) /\ ~swallowed =>
                \E j \in i + 1 .. Len(processed) :
                    /\ ReplacesTrigger(processed[j])
                    /\ processed[j].id = processed[i].id
                    /\ \A k \in i + 1 .. j - 1 : processed[k].kind \notin Typing

\* The usage of a trigger is recorded for every expansion that is injected in
\* its place: the entry made before rendering is not purged before it is used.
\* (A match that opens the search bar types nothing; what is chosen there is
\* not counted for its trigger.)
UsageRecorded ==
    pc = "dispatch" /\ ~swallowed =>
        \A i \in DOMAIN processed : \A j \in i + 1 .. Len(processed) :
            /\ DeletesTrigger(processed[i])
            /\ processed[j].id = processed[i].id
            /\ \/ processed[j].kind \in {"HtmlInject", "ImageInject"}
               \/ processed[j].kind = "TextInject" /\ processed[j].why = "body"
            => processed[i].id \in recorded

-----------------------------------------------------------------------------
(* Progress                                                                *)

\* An event that goes through the chain, with everything it causes, is done
\* with after finitely many steps or waits for the user.
ProcessingEnds == pc = "process" ~> pc # "process"

\* An exit request stops the engine, unless the user keeps the search bar open.
ExitObeyed ==
    (\E s \in Sources : \E i \in DOMAIN chan[s] :
        chan[s][i].kind = "ExitRequested")
    ~> pc \in {"exited", "crashed", "selecting"}
=============================================================================
