------------------------------- MODULE Events -------------------------------
(***************************************************************************)
(* The events that travel through the Expandr engine: what the `event'     *)
(* module of espanso-engine declares, with every text, label and path      *)
(* abstracted away.                                                        *)
(***************************************************************************)
EXTENDS Integers, Sequences

CONSTANTS
    Matches,    \* ids of the matches, user-defined and built-in
    Chars,      \* keys that type a character
    Digits,     \* those of Chars that are on the numeric pad
    ToggleKey   \* the configured toggle key, or NoKey

NoKey == "NoKey"
NoId  == -1

\* The keys the middlewares tell apart, besides those that type a character:
\* ArrowLeft stands for all the keys that invalidate the matcher's buffer and
\* Meta for the modifiers under which typed keys do not reach the matchers.
SpecialKeys == {"Backspace", "ArrowLeft", "Meta", "Alt"}
Keys        == Chars \cup SpecialKeys
Modifiers   == {"Meta", "Alt"}

ASSUME EventsAssumption ==
    /\ Matches \subseteq Int
    /\ Chars \subseteq STRING
    /\ Digits \subseteq Chars
    /\ Chars \cap SpecialKeys = {}
    /\ ToggleKey \in Keys \cup {NoKey}

Pressed  == "Pressed"
Released == "Released"
Status   == {Pressed, Released}

ExitModes  == {"Exit", "ExitAllProcesses", "RestartWorker"}
IconStatus == {"Enabled", "Disabled", "SecureInputDisabled"}
Formats    == {"Plain", "Html", "Markdown"}

\* What the tray menu shows: the check mark of its toggle and its header.
TrayStatus == [enabled : BOOLEAN, secure : BOOLEAN]

\* The entries of the tray menu (the item ids of the context_menu middleware).
MenuItems == {"Exit", "OpenEditor", "Enable", "Disable", "SecureInputExplain",
              "SecureInputWorkaround", "OpenSearch", "StatusHeader"}

\* Why a text or a key sequence is typed: the body of a match, a rendering
\* error, an undo, a synthesized Alt code, a built-in match; a trigger to
\* delete, an expansion to delete, a cursor to move back.
Purposes == {"body", "error", "undo", "altcode", "builtin", "trigger", "hint"}

\* Events without a payload the model needs.
PlainKinds ==
    {"NOOP", "Heartbeat", "AllModifiersReleased", "BlackListed",
     "EnableRequest", "DisableRequest", "ToggleRequest", "Enabled", "Disabled",
     "SecureInputEnabled", "SecureInputDisabled", "TrayIconClicked",
     "ShowSearchBar", "ShowConfigFolder", "TriggerCompensation",
     "CursorHintCompensation", "ImageResolved", "MatchInjected",
     "RenderingError", "HtmlInject", "MarkdownInject", "ImageInject",
     "ShowText", "ShowLogs", "DisplaySecureInputTroubleshoot",
     "LaunchSecureInputAutoFix"}

PlainEvent   == [kind : PlainKinds, id : Nat]
KeyEvent     == [kind : {"Keyboard"}, id : Nat, key : Keys, status : Status]
MouseEvent   == [kind : {"Mouse"}, id : Nat, status : Status]
MenuEvent    == [kind : {"ContextMenuClicked"}, id : Nat, item : MenuItems]
RequestEvent == [kind : {"HotKey", "MatchExecRequest"}, id : Nat,
                 matches : SUBSET Matches]
DetectedEvent == [kind : {"MatchesDetected"}, id : Nat,
                  matches : SUBSET Matches, trig : BOOLEAN]
MatchEvent   == [kind : {"MatchSelected", "CauseCompensatedMatch",
                         "RenderingRequested", "ImageRequested"},
                 id : Nat, m : Matches, trig : BOOLEAN]
RenderedEvent == [kind : {"Rendered"}, id : Nat, fmt : Formats,
                  empty : BOOLEAN, hint : BOOLEAN]
UndoEvent    == [kind : {"Undo"}, id : Nat, empty : BOOLEAN]
InjectEvent  == [kind : {"TextInject", "KeySequenceInject"}, id : Nat,
                 why : Purposes]
DiscardPreviousEvent == [kind : {"DiscardPrevious"}, id : Nat, min : Nat]
DiscardBetweenEvent  == [kind : {"DiscardBetween"}, id : Nat,
                         start : Nat, end : Nat]
IconEvent    == [kind : {"IconStatusChange"}, id : Nat, icon : IconStatus]
ShowMenuEvent == [kind : {"ShowContextMenu"}, id : Nat, tray : TrayStatus]
ExitEvent    == [kind : {"ExitRequested", "Exit"}, id : Nat, mode : ExitModes]

Event == PlainEvent \cup KeyEvent \cup MouseEvent \cup MenuEvent
         \cup RequestEvent \cup DetectedEvent \cup MatchEvent
         \cup RenderedEvent \cup UndoEvent \cup InjectEvent
         \cup DiscardPreviousEvent \cup DiscardBetweenEvent \cup IconEvent
         \cup ShowMenuEvent \cup ExitEvent

\* Event::caused_by for an event without a payload.
Plain(kind, id) == [kind |-> kind, id |-> id]

Inject(kind, id, why) == [kind |-> kind, id |-> id, why |-> why]

=============================================================================
