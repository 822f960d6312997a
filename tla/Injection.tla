----------------------------- MODULE Injection -----------------------------
(***************************************************************************)
(* Injection: what the dispatcher does with an injection request           *)
(* (espanso-engine/src/dispatch), the adapters of the worker               *)
(* (engine/dispatch/executor) and the injectors of espanso-inject, next to *)
(* the keyboards of the user and the detection thread.                     *)
(*                                                                         *)
(* A request becomes a program, the calls an injector makes one after the  *)
(* other; every call is a step, between which the user types, the          *)
(* detection thread runs and the application reads.  An error ends the     *)
(* program, except for the clipboard guard, which is dropped in any case.  *)
(***************************************************************************)
EXTENDS Detection, SequencesExt

CONSTANTS
  Requests,        \* the injection requests of the run, by platform
  MaxCombination,  \* evdev_max_modifier_combination_len
  Enter,           \* the symbol of the Enter key
  MaxRequests      \* bound on the requests

ASSUME InjectionAssumption ==
  /\ Platforms \subseteq {"evdev", "x11", "mac", "win32"}
  /\ Layout \in [Keys \X SUBSET ModifierKeys -> STRING]
  /\ \A p \in Platforms : Requests[p] # {}
  /\ \A p \in Platforms : \A r \in Requests[p] :
       /\ r.kind \in {"text", "keys", "html", "image"}
       /\ r.kind = "keys" => r.lines # <<>>
       /\ r.lines \in Seq(Seq(STRING)) /\ r.paste \in Seq(STRING)
       /\ {r.fast, r.restore, r.settable} \subseteq BOOLEAN
  /\ Enter \in STRING
  /\ MaxCombination \in Nat /\ MaxRequests \in Nat

VARIABLES
  pc,              \* "idle", "delay" or "run": where the engine thread is
  request,         \* the request being served, or the last one
  served,          \* requests so far
  program,         \* the calls left
  pressed,         \* evdev: keys down on the virtual device; others: keys
                   \* down for the server, whoever pressed them
  typed,           \* what the application got of the injection
  stuck,           \* keys that a program which waited in vain has left pressed
  failed,          \* whether the injector reported an error
  clipboard,       \* the content of the clipboard
  before,          \* what it was when the request came
  guard,           \* the content that the clipboard guard will restore
  pasting,         \* whether the application was told to paste and has not yet
  again,           \* keys pressed again during the current wait
  disturbed        \* whether something the injectors do not guard against happened

injectionVars == <<pc, request, served, program, pressed, typed, stuck, failed, clipboard,
                   before, guard, pasting, again, disturbed>>
given == <<request, served, before, stuck>>
vars == <<detectionVars, injectionVars>>

NoGuard == "no guard"
UserText == "text of the user"    \* the clipboard as the user left it
UserImage == "image of the user"  \* get_text finds nothing
UserCopy == "copied meanwhile"

----------------------------------------------------------------------------
(* The reverse lookup tables: the first key code that gives the symbol      *)
(* under any combination of modifiers, with the smallest combination.       *)

Combinations == {m \in SUBSET ModifierKeys : Cardinality(m) =< MaxCombination}
Codes(symbol) == {k \in Keys : \E m \in Combinations : Symbol(k, m) = symbol}
Fitting(k, symbol) == {m \in Combinations : Symbol(k, m) = symbol}
Symbols == {Layout[p] : p \in Keys \X Combinations}
Lookup ==
  [symbol \in Symbols |->
     LET k == CHOOSE k \in Codes(symbol) : \A l \in Codes(symbol) : k =< l
     IN [code |-> k,
         mods |-> CHOOSE m \in Fitting(k, symbol) :
                    \A n \in Fitting(k, symbol) : Cardinality(m) =< Cardinality(n)]]
Record(symbol) == Lookup[symbol]
Mapped(symbols) == \A i \in DOMAIN symbols : symbols[i] \in Symbols

----------------------------------------------------------------------------
(* The calls of the injectors, as sequences of one call; to press or        *)
(* release no key is no call.                                               *)

Wait(k)          == <<[op |-> "wait", key |-> k]>>
PressAwaiting(ks, await) ==
  IF ks = {} THEN <<>> ELSE <<[op |-> "press", keys |-> ks, await |-> await]>>
Press(ks)          == PressAwaiting(ks, {})
PressWhenUp(ks, k) == PressAwaiting(ks, {k})
Release(ks)      == IF ks = {} THEN <<>> ELSE <<[op |-> "release", keys |-> ks]>>
ReleaseAll       == <<[op |-> "release all"]>>
SendEvent(s)     == <<[op |-> "send", symbol |-> s]>>
Fail             == <<[op |-> "fail"]>>
Count(n)         == <<[op |-> "count", number |-> n]>>
SaveClipboard    == <<[op |-> "save"]>>
SetClipboard(ok) == <<[op |-> "set", ok |-> ok]>>
RestoreClipboard == <<[op |-> "restore"]>>

(* EVDEVInjector::send_string: modifiers the next character needs no more   *)
(* are released, those it needs in addition pressed, and every press waits  *)
(* until the user has released the key of the character.                    *)
EvdevCharForgets(mods, r) ==
  PressWhenUp(r.mods \ mods, r.code) \o Wait(r.code) \o Press({r.code}) \o Release({r.code})
EvdevChar(mods, r) ==
  Release(mods \ r.mods) \o PressWhenUp(r.mods \ mods, r.code) \o Wait(r.code)
  \o Press({r.code}) \o Release({r.code})
EvdevString(symbols) ==
  LET mods(i) == IF i = 0 THEN {} ELSE Record(symbols[i]).mods
      parts   == [i \in DOMAIN symbols |-> EvdevChar(mods(i - 1), Record(symbols[i]))]
  IN IF ~Mapped(symbols) THEN Fail ELSE FlattenSeq(parts) \o Release(mods(Len(symbols)))

(* send_keys and send_key_combination do not wait for the user.             *)
EvdevKey(r) == Press(r.mods) \o Press({r.code}) \o Release({r.code}) \o Release(r.mods)
EvdevKeys(symbols) ==
  IF ~Mapped(symbols) THEN Fail
  ELSE FlattenSeq([i \in DOMAIN symbols |-> EvdevKey(Record(symbols[i]))])
(* The keys of a combination are released in the reverse order.             *)
Chord(down, up) == FlattenSeq(down) \o FlattenSeq(Reverse(up))
EvdevCombination(symbols) ==
  LET r(i) == Record(symbols[i])
  IN IF ~Mapped(symbols) THEN Fail
     ELSE Chord([i \in DOMAIN symbols |-> Press(r(i).mods) \o Press({r(i).code})],
                [i \in DOMAIN symbols |-> Release({r(i).code}) \o Release(r(i).mods)])

(* X11: either events sent to the window, which carry their own modifiers,  *)
(* or, with disable_x11_fast_inject, fake key events of the server, after   *)
(* all keys the server believes down have been released.                    *)
XTestKey(r) == Press(r.mods) \o Press({r.code}) \o Release(r.mods) \o Release({r.code})
XTestKeys(symbols) == FlattenSeq([i \in DOMAIN symbols |-> XTestKey(Record(symbols[i]))])
SendEvents(symbols) == FlattenSeq([i \in DOMAIN symbols |-> SendEvent(symbols[i])])
X11StringHeld(symbols, fast) ==
  IF ~Mapped(symbols) THEN Fail
  ELSE IF fast THEN SendEvents(symbols) ELSE XTestKeys(symbols)
X11String(symbols, fast) ==
  (IF fast THEN <<>> ELSE ReleaseAll)
  \o (IF ~Mapped(symbols) THEN Fail
      ELSE IF fast THEN SendEvents(symbols) ELSE XTestKeys(symbols))
X11Keys(symbols, fast) ==
  IF ~Mapped(symbols) THEN Fail
  ELSE IF fast THEN SendEvents(symbols) ELSE ReleaseAll \o XTestKeys(symbols)
\* the modifiers of a combination are the modifier keys before the key
X11Combination(symbols, fast) ==
  LET code(i)  == Record(symbols[i]).code
      state(i) == {code(j) : j \in 1..(i - 1)} \cap ModifierKeys
      sent(i)  == IF code(i) \in ModifierKeys THEN "none" ELSE Symbol(code(i), state(i))
  IN IF ~Mapped(symbols) THEN Fail
     ELSE IF fast THEN SendEvents([i \in DOMAIN symbols |-> sent(i)])
     ELSE ReleaseAll
          \o Chord([i \in DOMAIN symbols |-> Press(state(i)) \o Press({code(i)})],
                   [i \in DOMAIN symbols |-> Release(state(i)) \o Release({code(i)})])

(* Windows and macOS: the operating system is given the whole array; the    *)
(* events of an array of keys are counted on Windows.                       *)
NativeString(symbols) == SendEvents(symbols)
NativeKeys(symbols) ==
  LET code(i) == Record(symbols[i]).code
  IN IF ~Mapped(symbols) THEN Fail
     ELSE (IF platform = "win32" THEN Count(2 * Len(symbols)) ELSE <<>>)
          \o FlattenSeq([i \in DOMAIN symbols |-> Press({code(i)}) \o Release({code(i)})])
NativeCombination(symbols) ==
  LET code(i) == Record(symbols[i]).code
  IN IF ~Mapped(symbols) THEN Fail
     ELSE Chord([i \in DOMAIN symbols |-> Press({code(i)})],
                [i \in DOMAIN symbols |-> Release({code(i)})])

SendString(symbols, fast) ==
  CASE platform = "evdev" -> EvdevString(symbols)
    [] platform = "x11"   -> X11String(symbols, fast)
    [] OTHER              -> NativeString(symbols)
SendKeys(symbols, fast) ==
  CASE platform = "evdev" -> EvdevKeys(symbols)
    [] platform = "x11"   -> X11Keys(symbols, fast)
    [] OTHER              -> NativeKeys(symbols)
SendCombination(symbols, fast) ==
  CASE platform = "evdev" -> EvdevCombination(symbols)
    [] platform = "x11"   -> X11Combination(symbols, fast)
    [] OTHER              -> NativeCombination(symbols)

(* EventInjectorAdapter: an Enter between the lines of a text.              *)
EventText(lines, fast) ==
  FlattenSeq([i \in DOMAIN lines |->
    (IF i > 1 THEN SendKeys(<<Enter>>, fast) ELSE <<>>) \o SendString(lines[i], fast)])

(* ClipboardInjectorAdapter: the guard saves the content and restores it    *)
(* when the injection is over, in the order of its declaration.             *)
Pasted(r) ==
  (IF r.restore THEN SaveClipboard ELSE <<>>)
  \o SetClipboard(r.settable) \o SendCombination(r.paste, r.fast)
  \o (IF r.restore THEN RestoreClipboard ELSE <<>>)

(* TextInjectExecutor: the mode of the match, then that of the              *)
(* configuration; the automatic one pastes what is long and, on Linux, what *)
(* is not ASCII.                                                            *)
UsesClipboard(r) ==
  \/ r.force = "clipboard"
  \/ r.force = "none" /\ r.mode = "clipboard"
  \/ r.force = "none" /\ r.mode = "auto"
     /\ (r.long \/ (platform \in {"evdev", "x11"} /\ ~r.ascii))

(* DefaultDispatcher: the first executor that takes the event.              *)
ProgramOf(r) ==
  CASE r.kind = "text" /\ UsesClipboard(r)  -> Pasted(r)
    [] r.kind = "text" /\ ~UsesClipboard(r) -> EventText(r.lines, r.fast)
    [] r.kind = "keys"  -> SendKeys(r.lines[1], r.fast)
    [] r.kind = "html"  -> Pasted(r)
    [] r.kind = "image" -> IF r.settable THEN Pasted(r) ELSE Fail

----------------------------------------------------------------------------
(* The keyboards.                                                           *)

Down == IF platform = "evdev" THEN HeldKeys \cup pressed ELSE pressed
OwnPressed == IF platform = "evdev" THEN pressed ELSE pressed \ HeldKeys
Level(ks) == ks \cap ModifierKeys

UserPresses(d, k) ==
  /\ presses < MaxPresses /\ Room /\ d \in plugged /\ k \in UserKeys[platform, d] \ held[d]
  /\ held' = [held EXCEPT ![d] = @ \cup {k}]
  /\ presses' = presses + 1
  /\ queue' = Append1(d, KeyEvent(k, TRUE, Symbol(k, Level(Down)),
                                  Level(Down) = Level(held[d]) /\ ~lost, FALSE,
                                  d \in SoftDevices, Flags(ModifiersHeld)))
  /\ pressed' = IF platform = "evdev" THEN pressed ELSE pressed \cup {k}
  /\ again' = again \cup {k}
  /\ disturbed' = (disturbed \/ pc # "idle")
  /\ UNCHANGED <<platform, exclude, plugged, stores, lost, pc, given, program, typed,
                 failed, clipboard, guard, pasting>>

UserReleases(d, k) ==
  /\ d \in plugged /\ k \in held[d] /\ Room
  /\ held' = [held EXCEPT ![d] = @ \ {k}]
  /\ \/ /\ queue' = Append1(d, KeyEvent(k, FALSE, "none", FALSE, FALSE, d \in SoftDevices,
                                        Flags(ModifiersHeld \ {ModifierOf[x] : x \in {k} \cap DOMAIN ModifierOf})))
        /\ UNCHANGED lost
     \/ \* the release of a modifier may be missing (mac)
        /\ platform = "mac" /\ k \in DOMAIN ModifierOf
        /\ UNCHANGED queue
        /\ lost' = TRUE
  /\ pressed' = IF platform = "evdev" THEN pressed ELSE pressed \ {k}
  /\ UNCHANGED <<platform, exclude, plugged, stores, presses, pc, given, program,
                 typed, failed, clipboard, guard, pasting, again, disturbed>>

\* A global shortcut of another program swallows its keys and leaves an event
\* without a key (mac).
ShortcutReleased ==
  /\ platform = "mac" /\ ModifiersHeld # {} /\ presses < MaxPresses /\ Room
  /\ presses' = presses + 1
  /\ queue' = Append1(AnyDevice, ClearEvent)
  /\ lost' = TRUE
  /\ disturbed' = (disturbed \/ pc # "idle")
  /\ UNCHANGED <<platform, exclude, held, plugged, stores, pc, given, program, pressed,
                 typed, failed, clipboard, guard, pasting, again>>

Unplug(d) ==
  /\ platform = "evdev" /\ d \in plugged /\ plugged # {d}
  /\ held[d] # {} \/ queue[d] # <<>>
  /\ plugged' = plugged \ {d}
  /\ queue' = [queue EXCEPT ![d] = <<>>]
  /\ lost' = TRUE
  /\ disturbed' = (disturbed \/ pc # "idle")
  /\ UNCHANGED <<platform, exclude, held, stores, presses, pc, given, program, pressed,
                 typed, failed, clipboard, guard, pasting, again>>

\* The user copies an image before, or some text meanwhile.
UserCopies ==
  /\ presses < MaxPresses
  /\ \/ /\ pc = "idle" /\ ~pasting /\ served < MaxRequests /\ clipboard # UserImage
        /\ clipboard' = UserImage
     \/ /\ pc # "idle" \/ pasting
        /\ clipboard' = UserCopy
  /\ presses' = presses + 1
  /\ disturbed' = (disturbed \/ pc # "idle" \/ pasting)
  /\ UNCHANGED <<platform, exclude, held, plugged, queue, stores, lost, pc, given,
                 program, pressed, typed, failed, guard, pasting, again>>

\* The application handles the paste shortcut some time after it was sent.
ApplicationPastes ==
  /\ pasting
  /\ pasting' = FALSE
  /\ typed' = Append(typed, clipboard)
  /\ UNCHANGED <<platform, exclude, held, plugged, queue, stores, presses, lost, pc,
                 given, program, pressed, failed, clipboard, guard, again, disturbed>>

----------------------------------------------------------------------------
(* The engine thread.                                                       *)

engineIdle == <<platform, exclude, held, plugged, xkb, keys, modifiers, memory, current,
                presses, misread>>

\* What the injectors count on: that the detection knows what is held (on
\* macOS one modifier at most), on evdev that no key the program presses
\* without waiting is held, no level modifier that it does not know of, and
\* no key on two keyboards.
Unawaited(r) ==
  LET calls == Range(SendKeys(<<Enter>>, r.fast)) \cup Range(SendCombination(r.paste, r.fast))
                 \cup (IF r.kind = "keys" THEN Range(ProgramOf(r)) ELSE {})
  IN UNION {c.keys : c \in {x \in calls : x.op = "press"}}
KnownState(r) ==
  /\ ModifiersHeld = modifiers
  /\ \A d \in Devices : \A i \in DOMAIN queue[d] :
       platform # "mac" /\ ~queue[d][i].down /\ queue[d][i].key \notin HeldKeys
  /\ platform = "mac" => Cardinality(ModifiersHeld) =< 1
  /\ platform = "evdev" =>
       /\ HeldKeys = keys
       /\ HeldKeys \cap (Unawaited(r) \ DOMAIN ModifierOf) = {}
       /\ \A d, e \in plugged : d # e => held[d] \cap held[e] = {}
       /\ pressed = {}
  /\ platform \in {"evdev", "win32"} => HeldKeys \cap ModifierKeys \subseteq DOMAIN ModifierOf
  /\ platform = "win32" => HeldKeys \subseteq DOMAIN ModifierOf

Requested(r) ==
  /\ pc = "idle" /\ ~pasting /\ served < MaxRequests
  /\ pc' = "delay" /\ request' = r /\ served' = served + 1
  /\ before' = clipboard /\ typed' = <<>>
  /\ disturbed' = ~KnownState(r)
  /\ failed' = FALSE
  /\ UNCHANGED <<engineIdle, queue, remaining, lost, program, pressed, stuck, clipboard,
                 guard, pasting, again>>

\* The middleware that delays injections until no modifier is pressed, and
\* gives up after 3 seconds.
Begin == /\ pc' = "run" /\ program' = ProgramOf(request) /\ again' = {}
ModifiersReleased ==
  /\ pc = "delay" /\ modifiers = {}
  /\ Begin
  /\ UNCHANGED <<engineIdle, queue, remaining, lost, given, pressed, typed, failed,
                 clipboard, guard, pasting, disturbed>>
DelayTimesOut ==
  /\ pc = "delay" /\ modifiers # {}
  /\ Begin
  /\ disturbed' = TRUE
  /\ UNCHANGED <<engineIdle, queue, remaining, lost, given, pressed, typed, failed,
                 clipboard, guard, pasting>>

Call == Head(program)
Awaited == IF Call.op = "wait" THEN {Call.key} ELSE IF Call.op = "press" THEN Call.await ELSE {}
Running(op) == pc = "run" /\ program # <<>> /\ Call.op = op
Done == program' = Tail(program) /\ again' = {}
\* An error leaves the program; the guard is dropped.
NoGuardLeft(calls) == <<>>
OnlyGuard(calls) ==
  IF \E i \in DOMAIN calls : calls[i].op = "restore" THEN RestoreClipboard ELSE <<>>
Abort == program' = OnlyGuard(program) /\ failed' = TRUE /\ again' = {}

\* The stores are read by the wait for a key, and by that for the modifiers.
RecordLapses ==
  /\ \/ /\ pc = "run" /\ program # <<>>
        /\ \E k \in Awaited : KeyLapses(k) /\ disturbed' = (disturbed \/ k \in HeldKeys)
     \/ /\ pc \in {"idle", "delay"}
        /\ \E m \in ModifierNames :
             /\ ModifierLapses(m)
             /\ disturbed' = (disturbed \/ (pc = "delay" /\ m \in ModifiersHeld))
  /\ UNCHANGED <<platform, exclude, held, plugged, queue, xkb, memory, current, remaining,
                 presses, taken, unread, pc, given, program, pressed, typed, failed, clipboard, guard,
                 pasting, again>>

WaitsForKey ==
  /\ Running("wait") /\ Call.key \notin keys
  /\ Done
  /\ UNCHANGED <<engineIdle, queue, remaining, lost, pc, given, pressed, typed, failed,
                 clipboard, guard, pasting, disturbed>>

\* wait_until_key_is_released gives up after 4 seconds.  A record of the key
\* store is dropped after 3, so that only a key pressed again since the wait
\* began can make it last.
WaitTimesOut ==
  /\ pc = "run" /\ program # <<>>
  /\ Awaited \cap keys \cap again # {}
  /\ Abort
  /\ stuck' = OwnPressed
  /\ UNCHANGED <<engineIdle, queue, remaining, lost, pc, request, served, before, pressed,
                 typed, clipboard, guard, pasting, disturbed>>

\* A key that is down already, on whatever keyboard, is not registered again.
Typed(k) ==
  LET s == Symbol(k, Level(Down)) IN
  IF k \in Down \cup ModifierKeys THEN UNCHANGED <<typed, pasting>>
  ELSE IF s = "paste" THEN pasting' = TRUE /\ UNCHANGED typed
  ELSE typed' = Append(typed, s) /\ UNCHANGED pasting
\* Windows and the X server show the keys of the program to the detection
\* thread, the virtual keyboard of evdev is opened after the keyboards were
\* listed, and macOS marks the events.
Own(k, down) ==
  KeyEvent(k, down, IF down THEN Symbol(k, Level(Down)) ELSE "none", FALSE, TRUE, FALSE, {})
Echo(events) ==
  queue' = IF platform \in {"win32", "x11"}
             THEN [queue EXCEPT ![AnyDevice] = @ \o events] ELSE queue

PressesKey ==
  /\ Running("press") /\ Room /\ Call.await \cap keys = {}
  /\ \E k \in Call.keys :
       /\ pressed' = pressed \cup {k}
       /\ Typed(k)
       /\ Echo(<<Own(k, TRUE)>>)
       /\ program' = (IF Call.keys = {k} THEN <<>> ELSE <<[Call EXCEPT !.keys = @ \ {k}]>>)
                       \o Tail(program)
  /\ again' = {}
  /\ UNCHANGED <<engineIdle, remaining, lost, pc, given, failed, clipboard, guard,
                 disturbed>>
ReleasesKey ==
  /\ Running("release") /\ Room
  /\ \E k \in Call.keys :
       /\ pressed' = pressed \ {k} /\ stuck' = stuck \ {k}
       /\ Echo(<<Own(k, FALSE)>>)
       /\ program' = (IF Call.keys = {k} THEN <<>> ELSE <<[Call EXCEPT !.keys = @ \ {k}]>>)
                       \o Tail(program)
  /\ UNCHANGED <<engineIdle, remaining, lost, pc, request, served, before, typed, failed,
                 clipboard, guard, pasting, again, disturbed>>
\* every key the server has down, in an order that nothing depends on
ReleasesAllKeys ==
  /\ Running("release all") /\ Room
  /\ pressed' = {}
  /\ LET up == SetToSeq(pressed)
     IN Echo([i \in DOMAIN up |-> Own(up[i], FALSE)])
  /\ Done
  /\ UNCHANGED <<engineIdle, remaining, lost, pc, given, typed, failed,
                 clipboard, guard, pasting, disturbed>>
SendsEvent ==
  /\ Running("send")
  /\ IF Call.symbol = "paste" THEN pasting' = TRUE /\ UNCHANGED typed
     ELSE typed' = (IF Call.symbol = "none" THEN typed ELSE Append(typed, Call.symbol))
          /\ UNCHANGED pasting
  /\ Done
  /\ UNCHANGED <<engineIdle, queue, remaining, lost, pc, given, pressed, failed,
                 clipboard, guard, disturbed>>
CountsEvents ==
  /\ Running("count")
  /\ remaining' = remaining + Call.number
  /\ Done
  /\ UNCHANGED <<engineIdle, queue, lost, pc, given, pressed, typed, failed, clipboard,
                 guard, pasting, disturbed>>
Fails ==
  /\ Running("fail")
  /\ Abort
  /\ UNCHANGED <<engineIdle, queue, remaining, lost, pc, given, pressed, typed,
                 clipboard, guard, pasting, disturbed>>

SavesClipboard ==
  /\ Running("save")
  /\ guard' = IF clipboard = UserImage THEN NoGuard ELSE clipboard
  /\ Done
  /\ UNCHANGED <<engineIdle, queue, remaining, lost, pc, given, pressed, typed, failed,
                 clipboard, pasting, disturbed>>
SetsClipboard ==
  /\ Running("set")
  /\ IF Call.ok THEN clipboard' = "body" /\ Done /\ UNCHANGED failed
     ELSE Abort /\ UNCHANGED clipboard
  /\ UNCHANGED <<engineIdle, queue, remaining, lost, pc, given, pressed, typed, guard,
                 pasting, disturbed>>
\* The guard waits a while for the application and restores the text it saved.
RestoresClipboard ==
  /\ Running("restore")
  /\ clipboard' = IF guard = NoGuard THEN clipboard ELSE guard
  /\ guard' = NoGuard
  /\ disturbed' = (disturbed \/ pasting)
  /\ Done
  /\ UNCHANGED <<engineIdle, queue, remaining, lost, pc, given, pressed, typed, failed,
                 pasting>>

Ends ==
  /\ pc = "run" /\ program = <<>>
  /\ pc' = "idle"
  /\ UNCHANGED <<engineIdle, queue, remaining, lost, given, program, pressed, typed,
                 failed, clipboard, guard, pasting, again, disturbed>>

EngineStep ==
  /\ \/ ModifiersReleased \/ DelayTimesOut \/ RecordLapses \/ WaitsForKey \/ WaitTimesOut
     \/ PressesKey \/ ReleasesKey \/ ReleasesAllKeys \/ SendsEvent
     \/ CountsEvents \/ Fails \/ SavesClipboard \/ SetsClipboard \/ RestoresClipboard \/ Ends
  /\ delivered' = NoDelivery

----------------------------------------------------------------------------
InjectionInit ==
  /\ pc = "idle" /\ request = (CHOOSE r \in Requests[platform] : TRUE) /\ served = 0 /\ program = <<>>
  /\ pressed = {}
  /\ typed = <<>> /\ stuck = {} /\ failed = FALSE
  /\ clipboard = UserText /\ before = clipboard
  /\ guard = NoGuard /\ pasting = FALSE /\ again = {} /\ disturbed = FALSE

Init == DetectionInit /\ InjectionInit

User ==
  /\ \/ \E d \in Devices, k \in Keys : UserPresses(d, k) \/ UserReleases(d, k)
     \/ \E d \in Devices : Unplug(d)
     \/ \E r \in Requests[platform] : Requested(r)
     \/ ShortcutReleased \/ UserCopies \/ ApplicationPastes
  /\ delivered' = NoDelivery
DetectionThread == (\E d \in Devices : Deliver(d)) /\ UNCHANGED injectionVars
Next == User \/ DetectionThread \/ EngineStep

Spec == Init /\ [][Next]_vars
=============================================================================
