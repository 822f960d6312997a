------------------------------- MODULE Engine -------------------------------
(***************************************************************************)
(* The engine of the worker process: the detect thread that numbers and    *)
(* enqueues what the user types, the other event sources, the funnel that  *)
(* picks one of them, the chain of middlewares an event and everything it  *)
(* causes go through, and the dispatcher that carries out the result.      *)
(*                                                                         *)
(* The engine runs on one thread; the detect thread, the tray, the IPC     *)
(* server, the secure-input watcher and the user in front of the search    *)
(* bar run beside it and are interleaved between any two of its steps.     *)
(* What depends on the configuration or on the focused application (which  *)
(* matches are active, what a match renders to) is chosen freely.          *)
(***************************************************************************)
EXTENDS Events, FiniteSets

CONSTANTS
    Effect,       \* what the multiplexer makes of each match
    MStates,      \* states of the matchers, all of them together
    MatcherStep,  \* the matchers' transition function
    ModifierExpires, \* may a modifier stay down for 30 seconds
    MaxHistory,   \* backspace_limit: matcher states kept
    PendingCap,   \* capacity of the stats middleware's table
    ConfigEnabled, \* what `enable' may be in the active configuration
    AltCodes,     \* is the Alt code synthesizer enabled
    Typed,        \* the <<key, status>> pairs the detect thread may see
    MouseButtons, \* the mouse statuses it may see
    HotKeys,      \* the matches bound to a hotkey
    Sources,      \* the funnel's sources beside the detect channel
    Requests,     \* the events each of them may produce
    MaxId,        \* bound: the environment stops when this many ids are taken
    ChanCap       \* bound: requests waiting in one channel

NoState   == "NoState"
Separator == "VirtualSeparator"
MatcherInput == Chars \cup {Separator}

\* "plain", "html" and "markdown" are texts; "paste", "show", "logs", "exit",
\* "restart" and "search" are the built-in matches; "none" has no effect.
Effects == {"plain", "html", "markdown", "image", "none", "paste", "show",
            "logs", "exit", "restart", "search"}

\* What the sources produce: a click on the tray, a request of the command line,
\* a change of secure input, the exit signal; "BlackListed" is an IPC event
\* that is not on the white list.
SourceEvent ==
    [kind : {"TrayIconClicked", "EnableRequest", "DisableRequest",
             "ToggleRequest", "ShowSearchBar", "ShowConfigFolder",
             "SecureInputEnabled", "SecureInputDisabled", "Heartbeat",
             "BlackListed"}, id : Nat]
    \cup MenuEvent
    \cup [kind : {"MatchExecRequest"}, id : Nat, matches : SUBSET Matches]
    \cup [kind : {"ExitRequested"}, id : Nat, mode : ExitModes]

ASSUME EngineAssumption ==
    /\ Effect \in [Matches -> Effects]
    /\ NoState \notin MStates
    /\ MatcherStep \in [(MStates \cup {NoState}) \X MatcherInput ->
                        [state : MStates, hits : SUBSET Matches]]
    /\ ModifierExpires \in BOOLEAN
    /\ MaxHistory \in Nat
    /\ PendingCap \in Nat
    /\ ConfigEnabled \subseteq BOOLEAN
    /\ AltCodes \in BOOLEAN
    /\ Typed \subseteq Keys \X Status
    /\ MouseButtons \subseteq Status
    /\ HotKeys \subseteq Matches
    /\ "detect" \notin Sources
    /\ Requests \in [Sources -> SUBSET SourceEvent]
    /\ MaxId \in Nat
    /\ ChanCap \in Nat

VARIABLES
    nextId,     \* Sequencer.current_id
    keyboard,   \* detect channel
    chan,       \* channels of the other sources
    metaDown,   \* ModifierStateStore: a modifier that hides keys is down
    pc,         \* what the engine thread is doing
    queue,      \* DefaultProcessor.event_queue
    cur,        \* the event that goes through the chain
    stage,      \* the last middleware that handled it
    emitted,    \* what the middlewares dispatched meanwhile (current_queue)
    processed,  \* processed_events, those an executor or Engine::run acts on
    selection,  \* the search bar: its start id and the matches it offers
    minId, maxId,   \* EventsDiscardMiddleware
    enabled, lastToggle,    \* DisableMiddleware
    icon,       \* IconStatusMiddleware
    menu, menuReady,    \* ContextMenuMiddleware
    altBuffer,  \* AltCodeSynthesizerMiddleware
    history,    \* MatcherMiddleware.matcher_states
    pending,    \* StatsMiddleware.pending: the source ids in the table
    record,     \* UndoMiddleware.record
    trayIcon, trayMenu, \* what the tray shows
    window,     \* history: the ids taken while the last search bar was open
    recorded,   \* history: the ids recorded as used in this batch
    swallowed   \* history: a match of this batch had no text to inject

funnelVars == <<nextId, keyboard, chan, metaDown>>
chainVars  == <<pc, queue, cur, stage, emitted, processed, selection>>
discardVars == <<minId, maxId>>
statusVars == <<enabled, lastToggle, icon, menu, menuReady>>
matchVars  == <<altBuffer, history, pending, record>>
trayVars   == <<trayIcon, trayMenu>>
ghostVars  == <<window, recorded, swallowed>>
vars == <<funnelVars, chainVars, discardVars, statusVars, matchVars, trayVars,
          ghostVars>>

NoRecord    == [id |-> NoId, complete |-> FALSE, empty |-> FALSE]
NoSelection == [start |-> 0, valid |-> {}]
NoWindow    == [start |-> 0, end |-> 0]
UnsetMenu   == [enabled |-> TRUE, secure |-> FALSE]

Init ==
    /\ nextId = 0 /\ keyboard = <<>> /\ metaDown = FALSE
    /\ chan = [s \in Sources |-> <<>>]
    /\ pc = "receive" /\ queue = <<>> /\ cur = Plain("NOOP", 0) /\ stage = 0
    /\ emitted = <<>> /\ processed = <<>> /\ selection = NoSelection
    /\ minId = 0 /\ maxId = 0
    /\ enabled = TRUE /\ lastToggle = FALSE
    /\ icon = UnsetMenu /\ menu = UnsetMenu /\ menuReady = FALSE
    /\ altBuffer = "none" /\ history = <<>> /\ pending = {}
    /\ record = NoRecord
    /\ trayIcon = "Enabled" /\ trayMenu = UnsetMenu
    /\ window = NoWindow /\ recorded = {}
    /\ swallowed = FALSE

-----------------------------------------------------------------------------
(* The detect thread: it updates the modifier store, takes an id and sends *)
(* the event, in this order, whatever the engine is doing.                 *)

Enqueue(event) ==
    /\ nextId < MaxId
    /\ nextId' = nextId + 1
    /\ keyboard' = Append(keyboard, event)
    /\ UNCHANGED <<chan, chainVars, discardVars, statusVars, matchVars,
                   trayVars, window, recorded, swallowed>>

\* A key pressed while the search bar is open goes to the search bar.
DetectKey(key, status) ==
    /\ metaDown' = IF key = "Meta" THEN status = Pressed ELSE metaDown
    /\ Enqueue([kind |-> "Keyboard", id |-> nextId, key |-> key,
                status |-> status])

DetectMouse(status) ==
    /\ Enqueue([kind |-> "Mouse", id |-> nextId, status |-> status])
    /\ UNCHANGED metaDown

DetectHotKey(m) ==
    /\ Enqueue([kind |-> "HotKey", id |-> nextId, matches |-> {m}])
    /\ UNCHANGED metaDown

DetectAllModifiersReleased ==
    /\ metaDown
    /\ metaDown' = FALSE
    /\ Enqueue(Plain("AllModifiersReleased", nextId))

Detect ==
    \/ \E k \in Typed : DetectKey(k[1], k[2])
    \/ \E status \in MouseButtons : DetectMouse(status)
    \/ \E m \in HotKeys : DetectHotKey(m)
    \/ DetectAllModifiersReleased

\* The entries of the tray menu that is on display.
Shown(item) ==
    CASE item = "Enable"  -> ~trayMenu.enabled
      [] item = "Disable" -> trayMenu.enabled
      [] item \in {"SecureInputExplain", "SecureInputWorkaround"} ->
            trayMenu.secure
      [] OTHER -> TRUE

\* The tray, the IPC server, the secure-input watcher and the owner of the
\* exit signal send a request; it has no id before the funnel receives it.
Send(s, request) ==
    /\ nextId < MaxId
    /\ Len(chan[s]) < ChanCap
    /\ request.kind = "ContextMenuClicked" => Shown(request.item)
    /\ chan' = [chan EXCEPT ![s] = Append(@, request)]
    /\ UNCHANGED <<nextId, keyboard, metaDown, chainVars, discardVars,
                   statusVars, matchVars, trayVars, ghostVars>>

\* A modifier whose release was missed is forgotten after a while.
ModifierOutdated ==
    /\ ModifierExpires
    /\ metaDown
    /\ metaDown' = FALSE
    /\ UNCHANGED <<nextId, keyboard, chan, chainVars, discardVars, statusVars,
                   matchVars, trayVars, ghostVars>>

-----------------------------------------------------------------------------
(* The funnel and DefaultProcessor                                         *)

\* process: the event is alone in the queue and starts down the chain.
Start(event) ==
    /\ pc' = "process"
    /\ cur' = event
    /\ stage' = 0
    /\ recorded' = {}
    /\ swallowed' = FALSE
    /\ UNCHANGED <<queue, emitted, processed, selection>>

Skipped == UNCHANGED <<chainVars, recorded, swallowed>>

ReceiveDetected ==
    /\ pc = "receive"
    /\ keyboard # <<>>
    /\ keyboard' = Tail(keyboard)
    /\ IF Head(keyboard).kind = "AllModifiersReleased"
         THEN Skipped
         ELSE Start(Head(keyboard))
    /\ UNCHANGED <<nextId, chan, metaDown, discardVars, statusVars, matchVars,
                   trayVars, window>>

\* Mutant: the request keeps the id it was sent with.
NotNumbered(request) == request

Numbered(request) == [request EXCEPT !.id = nextId]

\* The id is taken here, not when the request was sent; an IPC event that is
\* not on the white list is dropped without one.
ReceiveRequest(s) ==
    /\ pc = "receive"
    /\ chan[s] # <<>>
    /\ chan' = [chan EXCEPT ![s] = Tail(@)]
    /\ IF Head(chan[s]).kind = "BlackListed"
         THEN Skipped /\ nextId' = nextId
         ELSE /\ Start(Numbered(Head(chan[s])))
              /\ nextId' = nextId + 1
    /\ UNCHANGED <<keyboard, metaDown, discardVars, statusVars, matchVars,
                   trayVars, window>>

\* The positions of the middlewares in the chain.
discard == 1
disable == 2
icon_status == 3
alt_code == 4
matcher == 5
match_exec == 6
suppress == 7
context_menu == 8
hotkey == 9
match_select == 10
cause == 11
open_config == 12
multiplex == 13
stats == 14
render == 15
image_resolve == 16
cursor_hint == 17
exit == 18
undo == 19
action == 20
search == 21
markdown == 22
chainEnd == 23

\* The changes of status that the icon and the menu follow.
StatusChanges == {"Enabled", "Disabled", "SecureInputEnabled",
                  "SecureInputDisabled"}

\* The kinds of events each middleware looks at: all the others it returns as
\* they are.  The last two of the chain, notification and delay_modifiers,
\* only notify the user and wait.
Subjects == [p \in discard..markdown |->
    CASE p = disable ->
           {"Keyboard", "EnableRequest", "DisableRequest", "ToggleRequest"}
      [] p = icon_status   -> StatusChanges
      [] p = alt_code      -> IF AltCodes THEN {"Keyboard"} ELSE {}
      [] p = matcher       -> {"Keyboard", "Mouse", "MatchInjected"}
      [] p = match_exec    -> {"MatchExecRequest"}
      [] p = suppress      -> {"MatchesDetected"}
      [] p = context_menu  ->
           StatusChanges \cup {"TrayIconClicked", "ContextMenuClicked"}
      [] p = hotkey        -> {"HotKey"}
      [] p = match_select  -> {"MatchesDetected"}
      [] p = cause         -> {"MatchSelected"}
      [] p = open_config   -> {"ShowConfigFolder"}
      [] p = multiplex     -> {"CauseCompensatedMatch"}
      [] p = stats         -> {"RenderingRequested", "ImageRequested",
                               "MatchInjected", "DiscardPrevious",
                               "DiscardBetween"}
      [] p = render        -> {"RenderingRequested"}
      [] p = image_resolve -> {"ImageRequested"}
      [] p = cursor_hint   -> {"Rendered"}
      [] p = exit          -> {"ExitRequested"}
      [] p = undo          -> {"Keyboard", "Mouse", "TriggerCompensation",
                               "Rendered", "CursorHintCompensation"}
      [] p = action        -> {"Rendered", "ImageResolved", "Undo",
                               "TriggerCompensation", "CursorHintCompensation"}
      [] p = search        -> {"ShowSearchBar"}
      [] p = markdown      -> {"MarkdownInject"}
      [] OTHER -> {}]

\* The discard middleware looks at every event, and the context menu's at the
\* first one it gets.
LooksAt(p) ==
    \/ p = discard
    \/ p = context_menu /\ ~menuReady
    \/ cur.kind \in Subjects[p]

\* The current event has reached the middleware at position p, which is the
\* next one that looks at it.
At(p) ==
    /\ pc = "process"
    /\ stage < p
    /\ LooksAt(p)
    /\ \A q \in stage + 1 .. p - 1 : ~LooksAt(q)

\* Middleware p returns the event e after it dispatched the events in out; a
\* NOOP interrupts the chain.
Returns(p, e, out) ==
    /\ cur' = e
    /\ stage' = IF e.kind = "NOOP" THEN chainEnd ELSE p
    /\ emitted' = emitted \o out

Consume(p) == Returns(p, Plain("NOOP", cur.id), <<>>)
Pass(p)    == Returns(p, cur, <<>>)

\* What the processor's own steps and most middlewares leave alone.
ChainStep == UNCHANGED <<pc, queue, processed, selection>>

\* The events an executor acts on, and the one Engine::run stops at.
Executed == {"TextInject", "KeySequenceInject", "HtmlInject", "ImageInject",
             "ShowContextMenu", "IconStatusChange", "ShowText", "ShowLogs",
             "DisplaySecureInputTroubleshoot", "LaunchSecureInputAutoFix",
             "Exit"}

\* The end of process_one: what was dispatched is queued behind the rest and
\* the next event is taken, until the queue is empty and the batch complete.
EndOfChain ==
    /\ pc = "process"
    /\ \A q \in stage + 1 .. markdown : ~LooksAt(q)
    /\ LET rest  == queue \o emitted
           batch == IF cur.kind \in Executed THEN Append(processed, cur)
                                             ELSE processed
       IN  /\ processed' = batch
           /\ IF rest # <<>>
                THEN /\ cur' = Head(rest)
                     /\ queue' = Tail(rest)
                     /\ pc' = pc
                ELSE /\ cur' = Plain("NOOP", 0)
                     /\ queue' = <<>>
                     /\ pc' = IF batch = <<>> THEN "receive" ELSE "dispatch"
    /\ stage' = 0
    /\ emitted' = <<>>
    /\ UNCHANGED <<selection, funnelVars, discardVars, statusVars, matchVars,
                   trayVars, ghostVars>>

-----------------------------------------------------------------------------
(* The middlewares, in the order of the chain                              *)

Discarded(id) == minId <= id /\ id < maxId

\* Mutant: the keys typed in the search bar do not raise the upper threshold.
MaxKeptBetween(e) == IF e.kind = "DiscardPrevious" THEN e.min ELSE maxId

\* DiscardPrevious leaves the lower threshold where it is.
MinAfter(e) == IF e.kind = "DiscardBetween" THEN e.start ELSE minId
MaxAfter(e) ==
    CASE e.kind = "DiscardPrevious" -> e.min
      [] e.kind = "DiscardBetween"  -> e.end
      [] OTHER -> maxId

Discard ==
    /\ At(discard)
    /\ \/ /\ Discarded(cur.id)
          /\ Consume(discard)
          /\ UNCHANGED discardVars
       \/ /\ ~Discarded(cur.id)
          /\ Pass(discard)
          /\ minId' = MinAfter(cur)
          /\ maxId' = MaxAfter(cur)
    /\ ChainStep
    /\ UNCHANGED <<funnelVars, statusVars, matchVars, trayVars, ghostVars>>

\* What the disable middleware does to an event when the flag becomes `on'.
ToggledTo(on, changed) ==
    LET out == IF changed
                 THEN <<Plain(IF on THEN "Enabled" ELSE "Disabled", cur.id)>>
                 ELSE <<>>
    IN  /\ enabled' = on
        /\ IF cur.kind = "Keyboard" /\ ~on
             THEN Returns(disable, Plain("NOOP", cur.id), out)
             ELSE Returns(disable, cur, out)
        /\ ChainStep
        /\ UNCHANGED <<funnelVars, discardVars, icon, menu, menuReady,
                       matchVars, trayVars, ghostVars>>

\* The release of the toggle key counts as the second press of a double press
\* when the first one was recent enough, which is left open; the release of
\* any other key forgets the first press.
DisableOnKey ==
    /\ At(disable)
    /\ cur.kind = "Keyboard"
    /\ \/ /\ cur.status = Pressed
          /\ lastToggle' = lastToggle
          /\ ToggledTo(enabled, FALSE)
       \/ /\ cur.status = Released /\ cur.key # ToggleKey
          /\ lastToggle' = FALSE
          /\ ToggledTo(enabled, FALSE)
       \/ /\ cur.status = Released /\ cur.key = ToggleKey
          /\ lastToggle' = TRUE
          /\ ToggledTo(enabled, FALSE)
       \/ /\ cur.status = Released /\ cur.key = ToggleKey /\ lastToggle
          /\ lastToggle' = FALSE
          /\ ToggledTo(~enabled, TRUE)

DisableOnRequest ==
    /\ At(disable)
    /\ cur.kind # "Keyboard"
    /\ lastToggle' = lastToggle
    /\ ToggledTo(CASE cur.kind = "EnableRequest"  -> TRUE
                    [] cur.kind = "DisableRequest" -> FALSE
                    [] cur.kind = "ToggleRequest"  -> ~enabled,
                 TRUE)

\* The two flags of the icon and of the menu follow the same four events.
Follow(flags, kind) ==
    CASE kind = "Enabled"  -> [flags EXCEPT !.enabled = TRUE]
      [] kind = "Disabled" -> [flags EXCEPT !.enabled = FALSE]
      [] kind = "SecureInputEnabled"  -> [flags EXCEPT !.secure = TRUE]
      [] kind = "SecureInputDisabled" -> [flags EXCEPT !.secure = FALSE]
      [] OTHER -> flags

\* Mutant: secure input hides that the user disabled the program.
SecureFirst(flags) ==
    IF flags.secure THEN "SecureInputDisabled"
    ELSE IF ~flags.enabled THEN "Disabled" ELSE "Enabled"

IconOf(flags) ==
    IF ~flags.enabled THEN "Disabled"
    ELSE IF flags.secure THEN "SecureInputDisabled" ELSE "Enabled"

IconUpdate ==
    /\ At(icon_status)
    /\ icon' = Follow(icon, cur.kind)
    /\ Returns(icon_status, cur,
               <<[kind |-> "IconStatusChange", id |-> cur.id,
                  icon |-> IconOf(icon')]>>)
    /\ ChainStep
    /\ UNCHANGED <<funnelVars, discardVars, enabled, lastToggle, menu,
                   menuReady, matchVars, trayVars, ghostVars>>

\* The code typed since Alt was pressed may stand for no character.
AltCodeSynthesizer ==
    /\ At(alt_code)
    /\ altBuffer' = CASE cur.status = Pressed /\ cur.key = "Alt" -> "empty"
                      [] cur.status = Pressed /\ cur.key \in Digits
                            /\ altBuffer # "none" -> "digits"
                      [] cur.status = Released /\ cur.key = "Alt" -> "none"
                      [] OTHER -> altBuffer
    /\ \/ Pass(alt_code)
       \/ /\ cur.status = Released /\ cur.key = "Alt"
          /\ altBuffer = "digits"
          /\ Returns(alt_code, cur, <<Inject("TextInject", cur.id, "altcode")>>)
    /\ ChainStep
    /\ UNCHANGED <<funnelVars, discardVars, statusVars, history, pending,
                   record, trayVars, ghostVars>>

LastState == IF history = <<>> THEN NoState ELSE history[Len(history)]

\* At most backspace_limit states are kept, the oldest is forgotten first.
LatestStates(states) ==
    IF Len(states) > MaxHistory THEN Tail(states) ELSE states

\* The matchers advance on a typed character or a virtual separator.
Advance(input) ==
    LET step == MatcherStep[LastState, input]
    IN  /\ history' = LatestStates(Append(history, step.state))
        /\ Returns(matcher,
                   IF step.hits = {} THEN cur
                   ELSE [kind |-> "MatchesDetected", id |-> cur.id,
                         matches |-> step.hits, trig |-> TRUE],
                   <<>>)

MatcherRest ==
    /\ ChainStep
    /\ UNCHANGED <<funnelVars, discardVars, statusVars, altBuffer, pending,
                   record, trayVars, ghostVars>>

\* The modifier store is read now, not when the key was typed.
MatcherOnKey ==
    /\ At(matcher)
    /\ cur.kind = "Keyboard"
    /\ IF cur.status = Released \/ cur.key \in Modifiers
         THEN Pass(matcher) /\ UNCHANGED history
         ELSE \/ /\ cur.key = "Backspace"
                 /\ history' = IF history = <<>> THEN <<>>
                               ELSE SubSeq(history, 1, Len(history) - 1)
                 /\ Pass(matcher)
              \/ /\ cur.key # "Backspace"
                 /\ metaDown
                 /\ Pass(matcher) /\ UNCHANGED history
              \/ /\ cur.key = "ArrowLeft"
                 /\ ~metaDown
                 /\ history' = <<>>
                 /\ Pass(matcher)
              \/ /\ cur.key \in Chars
                 /\ ~metaDown
                 /\ Advance(cur.key)
    /\ MatcherRest

MatcherOnMouse ==
    /\ At(matcher)
    /\ cur.kind = "Mouse"
    /\ history' = IF cur.status = Pressed THEN <<>> ELSE history
    /\ Pass(matcher)
    /\ MatcherRest

MatcherOnInjection ==
    /\ At(matcher)
    /\ cur.kind = "MatchInjected"
    /\ Advance(Separator)
    /\ MatcherRest

\* Middlewares that only replace the event or add to what is dispatched.
Stateless ==
    /\ ChainStep
    /\ UNCHANGED <<funnelVars, discardVars, statusVars, matchVars, trayVars,
                   ghostVars>>

Detected(matches, trig) ==
    [kind |-> "MatchesDetected", id |-> cur.id, matches |-> matches,
     trig |-> trig]

\* The matches of the request carry the trigger it names.
MatchExec ==
    /\ At(match_exec)
    /\ IF cur.matches = {} THEN Consume(match_exec)
       ELSE Returns(match_exec, Detected(cur.matches, TRUE), <<>>)
    /\ Stateless

Suppress ==
    /\ At(suppress)
    /\ \E on \in ConfigEnabled :
          IF on THEN Pass(suppress) ELSE Consume(suppress)
    /\ Stateless

ShowMenu(flags) ==
    [kind |-> "ShowContextMenu", id |-> cur.id, tray |-> flags]

\* What a click on an entry of the menu makes of the event, and dispatches.
Clicked(item, first) ==
    CASE item = "Exit" ->
           Returns(context_menu, [kind |-> "ExitRequested", id |-> cur.id,
                                  mode |-> "ExitAllProcesses"], first)
      [] item \in {"OpenEditor", "StatusHeader"} ->
           Returns(context_menu, Plain("NOOP", cur.id), first)
      [] OTHER ->
           Returns(context_menu, Plain("NOOP", cur.id),
             Append(first,
               Plain(CASE item = "Enable" -> "EnableRequest"
                       [] item = "Disable" -> "DisableRequest"
                       [] item = "SecureInputExplain" ->
                            "DisplaySecureInputTroubleshoot"
                       [] item = "SecureInputWorkaround" ->
                            "LaunchSecureInputAutoFix"
                       [] item = "OpenSearch" -> "ShowSearchBar",
                     cur.id)))

\* The first event of all makes the middleware push the menu, whatever it is.
ContextMenu ==
    /\ At(context_menu)
    /\ menuReady' = TRUE
    /\ menu' = Follow(menu, cur.kind)
    /\ LET first == IF menuReady THEN <<>> ELSE <<ShowMenu(menu)>>
       IN  CASE cur.kind = "TrayIconClicked" ->
                  Returns(context_menu, ShowMenu(menu), first)
             [] cur.kind = "ContextMenuClicked" -> Clicked(cur.item, first)
             [] cur.kind \in StatusChanges ->
                  Returns(context_menu, cur, Append(first, ShowMenu(menu')))
             [] OTHER -> Returns(context_menu, cur, first)
    /\ ChainStep
    /\ UNCHANGED <<funnelVars, discardVars, enabled, lastToggle, icon,
                   matchVars, trayVars, ghostVars>>

HotKey ==
    /\ At(hotkey)
    /\ Returns(hotkey, Detected(cur.matches, FALSE), <<>>)
    /\ Stateless

Selected(m, trig, id) ==
    [kind |-> "MatchSelected", id |-> id, m |-> m, trig |-> trig]

\* Which of the matches are active depends on the focused application.
MatchSelectAtOnce ==
    /\ At(match_select)
    /\ \/ Consume(match_select)
       \/ \E m \in cur.matches :
             Returns(match_select, Selected(m, cur.trig, cur.id), <<>>)
    /\ Stateless

\* Two or more: the search bar opens and the engine thread waits for it.
MatchSelectOpen ==
    /\ At(match_select)
    /\ \E valid \in SUBSET cur.matches :
          /\ Cardinality(valid) > 1
          /\ selection' = [start |-> nextId, valid |-> valid]
    /\ nextId' = nextId + 1
    /\ pc' = "selecting"
    /\ UNCHANGED <<keyboard, chan, metaDown, queue, cur, stage, emitted,
                   processed, discardVars, statusVars, matchVars, trayVars,
                   ghostVars>>

\* Mutant: the ids of the window are swapped.
DiscardWindowSwapped(start, end) ==
    [kind |-> "DiscardBetween", id |-> cur.id, start |-> end, end |-> start]

DiscardWindow(start, end) ==
    [kind |-> "DiscardBetween", id |-> cur.id, start |-> start, end |-> end]

\* The user picks a match or dismisses the search bar, which on macOS clears
\* the modifier store on the way out.
MatchSelectClose ==
    /\ pc = "selecting"
    /\ \E e \in {Selected(m, cur.trig, cur.id) : m \in selection.valid}
               \cup {Plain("NOOP", cur.id)} :
          Returns(match_select, e, <<DiscardWindow(selection.start, nextId)>>)
    /\ window' = [start |-> selection.start, end |-> nextId]
    /\ nextId' = nextId + 1
    /\ metaDown' \in {metaDown, FALSE}
    /\ pc' = "process"
    /\ selection' = NoSelection
    /\ UNCHANGED <<keyboard, chan, queue, processed, discardVars, statusVars,
                   matchVars, trayVars, recorded, swallowed>>

Compensated == [cur EXCEPT !.kind = "CauseCompensatedMatch"]

\* Mutant: the match goes on before its trigger is deleted.
MatchFirst ==
    Returns(cause, Compensated, <<Plain("TriggerCompensation", cur.id)>>)

\* A trigger is deleted before the match goes on, in an event of its own.
TriggerFirst ==
    Returns(cause, Plain("TriggerCompensation", cur.id), <<Compensated>>)

Cause ==
    /\ At(cause)
    /\ IF cur.trig THEN TriggerFirst ELSE Returns(cause, Compensated, <<>>)
    /\ Stateless

OpenConfig ==
    /\ At(open_config)
    /\ Consume(open_config)
    /\ Stateless

ExitRequest(mode) == [kind |-> "ExitRequested", id |-> cur.id, mode |-> mode]

\* What the match is: a text or an image of the user, or a built-in action.
Multiplexed(effect) ==
    CASE effect \in {"plain", "html", "markdown"} ->
           [cur EXCEPT !.kind = "RenderingRequested"]
      [] effect = "image"   -> [cur EXCEPT !.kind = "ImageRequested"]
      [] effect = "none"    -> Plain("NOOP", cur.id)
      [] effect = "paste"   -> Inject("TextInject", cur.id, "builtin")
      [] effect = "show"    -> Plain("ShowText", cur.id)
      [] effect = "logs"    -> Plain("ShowLogs", cur.id)
      [] effect = "exit"    -> ExitRequest("ExitAllProcesses")
      [] effect = "restart" -> ExitRequest("RestartWorker")
      [] effect = "search"  -> Plain("ShowSearchBar", cur.id)

Multiplex ==
    /\ At(multiplex)
    /\ Returns(multiplex, Multiplexed(Effect[cur.m]), <<>>)
    /\ swallowed' = (swallowed \/ Effect[cur.m] \in
                        {"none", "show", "logs", "exit", "restart", "search"})
    /\ ChainStep
    /\ UNCHANGED <<funnelVars, discardVars, statusVars, matchVars, trayVars,
                   window, recorded>>

StatsRest ==
    /\ Pass(stats)
    /\ ChainStep
    /\ UNCHANGED <<funnelVars, discardVars, statusVars, altBuffer, history,
                   record, trayVars, window, swallowed>>

\* A table over its capacity is emptied before the entry is made.
StatsOnRequest ==
    /\ At(stats)
    /\ cur.kind \in {"RenderingRequested", "ImageRequested"}
    /\ pending' = IF ~cur.trig THEN pending
                  ELSE {cur.id} \cup (IF Cardinality(pending) > PendingCap
                                        THEN {} ELSE pending)
    /\ recorded' = recorded
    /\ StatsRest

StatsOnDiscard ==
    /\ At(stats)
    /\ cur.kind \in {"DiscardPrevious", "DiscardBetween"}
    /\ pending' = IF cur.kind = "DiscardPrevious"
                    THEN {k \in pending : k >= cur.min}
                    ELSE {k \in pending : k < cur.start \/ k >= cur.end}
    /\ recorded' = recorded
    /\ StatsRest

StatsOnInjection ==
    /\ At(stats)
    /\ cur.kind = "MatchInjected"
    /\ recorded' = IF cur.id \in pending THEN recorded \cup {cur.id}
                                         ELSE recorded
    /\ pending' = pending \ {cur.id}
    /\ StatsRest

FormatOf(m) ==
    CASE Effect[m] = "html"     -> "Html"
      [] Effect[m] = "markdown" -> "Markdown"
      [] OTHER -> "Plain"

\* The match renders to a body, which may be empty and may hold a cursor hint;
\* or a form is cancelled; or an extension fails.
Render ==
    /\ At(render)
    /\ \/ /\ \E empty, hint \in BOOLEAN :
              Returns(render, [kind |-> "Rendered", id |-> cur.id,
                               fmt |-> FormatOf(cur.m), empty |-> empty,
                               hint |-> hint], <<>>)
          /\ swallowed' = swallowed
       \/ /\ Consume(render)
          /\ swallowed' = TRUE
       \/ /\ Returns(render, Plain("RenderingError", cur.id),
                     <<Inject("TextInject", cur.id, "error")>>)
          /\ swallowed' = swallowed
    /\ ChainStep
    /\ UNCHANGED <<funnelVars, discardVars, statusVars, matchVars, trayVars,
                   window, recorded>>

\* Mutant: the request is dispatched again, as if it had not been resolved.
ImageUnresolved == Returns(image_resolve, Plain("NOOP", cur.id), <<cur>>)

ImageResolved == Returns(image_resolve, Plain("ImageResolved", cur.id), <<>>)

ImageResolve ==
    /\ At(image_resolve)
    /\ ImageResolved
    /\ Stateless

CursorHint ==
    /\ At(cursor_hint)
    /\ Returns(cursor_hint, [cur EXCEPT !.hint = FALSE],
               IF cur.hint THEN <<Plain("CursorHintCompensation", cur.id)>>
                           ELSE <<>>)
    /\ Stateless

\* Mutant: the request is let through as it is.
ExitIgnored ==
    /\ At(exit)
    /\ Pass(exit)
    /\ Stateless

Exit ==
    /\ At(exit)
    /\ Returns(exit, [cur EXCEPT !.kind = "Exit"], <<>>)
    /\ Stateless

UndoRest ==
    /\ ChainStep
    /\ UNCHANGED <<funnelVars, discardVars, statusVars, altBuffer, history,
                   pending, trayVars, ghostVars>>

\* The record of an injection: opened by the compensation of its trigger,
\* completed by its plain body, dropped by whatever may move the cursor.
UndoOnExpansion ==
    /\ At(undo)
    /\ cur.kind \in {"TriggerCompensation", "Rendered",
                     "CursorHintCompensation", "Mouse"}
    /\ record' =
         CASE cur.kind = "TriggerCompensation" ->
                [id |-> cur.id, complete |-> FALSE, empty |-> FALSE]
           [] cur.kind = "Rendered" ->
                IF cur.fmt = "Plain" /\ record.id = cur.id
                  THEN [id |-> cur.id, complete |-> TRUE, empty |-> cur.empty]
                  ELSE record
           [] OTHER -> NoRecord
    /\ Pass(undo)
    /\ UndoRest

\* undo_backspace is an option of the active configuration.
UndoOnKey ==
    /\ At(undo)
    /\ cur.kind = "Keyboard"
    /\ record' = IF cur.status = Pressed THEN NoRecord ELSE record
    /\ \/ Pass(undo)
       \/ /\ cur.status = Pressed /\ cur.key = "Backspace"
          /\ record.complete
          /\ Returns(undo, [kind |-> "Undo", id |-> cur.id,
                            empty |-> record.empty], <<>>)
    /\ UndoRest

DiscardBefore(id) ==
    [kind |-> "DiscardPrevious", id |-> cur.id, min |-> id]

InjectionOf(e) ==
    CASE e.kind = "ImageResolved" -> Plain("ImageInject", e.id)
      [] e.kind = "Rendered" ->
           CASE e.fmt = "Plain"    -> Inject("TextInject", e.id, "body")
             [] e.fmt = "Html"     -> Plain("HtmlInject", e.id)
             [] e.fmt = "Markdown" -> Plain("MarkdownInject", e.id)

\* Mutant: the events typed so far are discarded before the usage is reported.
DiscardedThenInjected(id) ==
    <<DiscardBefore(id), Plain("MatchInjected", cur.id)>>

\* The usage is reported before the events typed so far are discarded.
InjectedThenDiscarded(id) ==
    <<Plain("MatchInjected", cur.id), DiscardBefore(id)>>

ActionRest ==
    /\ UNCHANGED <<queue, processed, selection>>
    /\ UNCHANGED <<keyboard, chan, metaDown, discardVars, statusVars,
                   matchVars, trayVars, ghostVars>>

ActionOnBody ==
    /\ At(action)
    /\ cur.kind \in {"Rendered", "ImageResolved"}
    /\ Returns(action, InjectionOf(cur), InjectedThenDiscarded(nextId))
    /\ nextId' = nextId + 1
    /\ pc' = pc
    /\ ActionRest

ActionOnHint ==
    /\ At(action)
    /\ cur.kind = "CursorHintCompensation"
    /\ Returns(action, Inject("KeySequenceInject", cur.id, "hint"),
               <<DiscardBefore(nextId)>>)
    /\ nextId' = nextId + 1
    /\ pc' = pc
    /\ ActionRest

ActionOnTrigger ==
    /\ At(action)
    /\ cur.kind = "TriggerCompensation"
    /\ Returns(action, Inject("KeySequenceInject", cur.id, "trigger"), <<>>)
    /\ nextId' = nextId
    /\ pc' = pc
    /\ ActionRest

\* One backspace less than the expansion has characters: when it has none the
\* count wraps around and the thread dies, on the subtraction or on the list.
ActionOnUndo ==
    /\ At(action)
    /\ cur.kind = "Undo"
    /\ Returns(action, Inject("KeySequenceInject", cur.id, "undo"),
               <<Inject("TextInject", cur.id, "undo")>>)
    /\ pc' = IF cur.empty THEN "crashed" ELSE pc
    /\ nextId' = nextId
    /\ ActionRest

\* The search bar is about all the matches, none of them typed.
Search ==
    /\ At(search)
    /\ Returns(search, Plain("NOOP", cur.id), <<Detected(Matches, FALSE)>>)
    /\ Stateless

Markdown ==
    /\ At(markdown)
    /\ Returns(markdown, Plain("HtmlInject", cur.id), <<>>)
    /\ Stateless

-----------------------------------------------------------------------------
(* Engine::run: the batch is dispatched in order, up to an exit            *)

\* The executors' effects on the tray.
Dispatch ==
    /\ pc = "dispatch"
    /\ LET e == Head(processed)
       IN  /\ trayIcon' = IF e.kind = "IconStatusChange" THEN e.icon ELSE trayIcon
           /\ trayMenu' = IF e.kind = "ShowContextMenu" THEN e.tray ELSE trayMenu
           /\ pc' = CASE e.kind = "Exit" -> "exited"
                      [] e.kind # "Exit" /\ Len(processed) > 1 -> "dispatch"
                      [] OTHER -> "receive"
           /\ processed' = IF e.kind = "Exit" THEN <<>> ELSE Tail(processed)
    /\ UNCHANGED <<funnelVars, queue, cur, stage, emitted, selection,
                   discardVars, statusVars, matchVars, window, recorded,
                   swallowed>>

-----------------------------------------------------------------------------

Environment ==
    \/ Detect
    \/ ModifierOutdated
    \/ \E s \in Sources : \E request \in Requests[s] : Send(s, request)

Middleware ==
    \/ Discard \/ DisableOnKey \/ DisableOnRequest \/ IconUpdate
    \/ AltCodeSynthesizer \/ MatcherOnKey \/ MatcherOnMouse
    \/ MatcherOnInjection \/ MatchExec \/ Suppress \/ ContextMenu \/ HotKey
    \/ MatchSelectAtOnce \/ MatchSelectOpen \/ Cause \/ OpenConfig
    \/ Multiplex \/ StatsOnRequest \/ StatsOnDiscard \/ StatsOnInjection
    \/ Render \/ ImageResolve \/ CursorHint \/ Exit \/ UndoOnExpansion
    \/ UndoOnKey \/ ActionOnBody \/ ActionOnHint \/ ActionOnTrigger
    \/ ActionOnUndo \/ Search \/ Markdown

\* Steps of the engine thread that wait for nobody.
EngineStep == Middleware \/ EndOfChain \/ Dispatch

Receive == ReceiveDetected \/ \E s \in Sources : ReceiveRequest(s)

Next == Environment \/ EngineStep \/ Receive \/ MatchSelectClose

Spec == Init /\ [][Next]_vars

\* The engine thread is scheduled; Select::select picks one of the ready
\* channels at random, so none that is ready again and again is passed over
\* for ever.  Nothing is assumed of the user: the search bar may stay open.
Fairness ==
    /\ WF_vars(EngineStep)
    /\ SF_vars(ReceiveDetected)
    /\ \A s \in Sources : SF_vars(ReceiveRequest(s))

FairSpec == Spec /\ Fairness
=============================================================================
