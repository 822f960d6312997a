----------------------------- MODULE Detection -----------------------------
(***************************************************************************)
(* Key detection: what the keyboards do, what the operating system hands   *)
(* to the detection source of the platform (espanso-detect), and what the  *)
(* callback of the funnel makes of it: the store of pressed modifiers, the *)
(* store of pressed keys the evdev injector waits for, and the hotkeys.    *)
(*                                                                         *)
(* The platforms differ in the way events come and go:                     *)
(*   evdev  every keyboard is a queue and a keyboard state of its own; an  *)
(*          unplugged keyboard takes its unread events with it; hotkeys    *)
(*          are recognised from a memory of pressed keys                   *)
(*   x11    one stream for all keyboards                                   *)
(*   mac    one stream; the release of a modifier may get lost, which the  *)
(*          modifier flags of later events are used to notice              *)
(*   win32  one stream, which has the events of software as well: a count  *)
(*          of injected events tells those of the program apart            *)
(* Key repetitions change none of the states and are left out, and so are  *)
(* mouse buttons, which are passed on as they come.  A timer may be up at  *)
(* any time; where two of them race, their lengths are in the guards.      *)
(*                                                                         *)
(***************************************************************************)
EXTENDS Naturals, Sequences, FiniteSets

CONSTANTS
  Platforms,       \* the platforms of the run
  Devices,         \* keyboards
  SoftDevices,     \* those that are software, without a HID device (win32)
  Keys,            \* key codes, numbers
  ModifierKeys,    \* those that change the level of the others
  Modifiers,       \* the modifiers the program knows, in the order of the flags
  ModifierNamed,   \* the modifier a symbol names, as a function of symbols
  Layout,          \* symbol of a key under a set of pressed modifier keys, or "none"
  HotKeys,         \* registered hotkeys, sets of keys
  UserKeys,        \* keys the user presses, by platform and keyboard
  MaxPresses,      \* bound on what the user does besides releasing keys
  MaxQueue         \* bound on the events that wait for the detection thread

ASSUME DetectionAssumption ==
  /\ Devices # {}                   \* the sources refuse to run without a keyboard
  /\ Keys \subseteq Nat /\ IsFiniteSet(Keys)
  /\ ModifierKeys \subseteq Keys /\ SoftDevices \subseteq Devices
  /\ "none" \notin DOMAIN ModifierNamed
  /\ \A s \in DOMAIN ModifierNamed : \E i \in DOMAIN Modifiers : Modifiers[i] = ModifierNamed[s]
  /\ HotKeys \subseteq SUBSET Keys
  /\ MaxPresses \in Nat /\ MaxQueue \in Nat

Symbol(k, ks) == Layout[<<k, ks>>]
\* The symbol of a key that no modifier changes: what X11 decides the key by
\* (XLookupKeysym of index 0), and what a key code stands for elsewhere.
BaseSymbol(k) == Symbol(k, {})
ModifierOf ==
  [k \in {x \in Keys : BaseSymbol(x) \in DOMAIN ModifierNamed} |-> ModifierNamed[BaseSymbol(k)]]

VARIABLES
  platform,        \* fixed by Init
  exclude,         \* win32_exclude_orphan_events, fixed by Init
  held,            \* keys held down on each keyboard
  plugged,         \* keyboards still there
  queue,           \* events not yet read by the detection thread
  xkb,             \* modifier keys down in the keyboard state of each device (evdev)
  keys,            \* KeyStateStore: keys taken to be pressed (evdev)
  modifiers,       \* ModifierStateStore: modifiers taken to be pressed
  memory,          \* HotKeyFilter: keys in memory (evdev)
  current,         \* MODIFIER_STATE (mac)
  remaining,       \* EXPANSION_NUM_EVENTS_REMAINING (win32)
  delivered,       \* the event the last step gave to the engine, with what fired
  presses,         \* presses so far
  taken,           \* the modifier that each key of a device was taken for when its
                   \* press was read (evdev, history)
  stale,           \* modifiers whose key was taken for something else when its
                   \* release was read (evdev, history)
  unread,          \* keys with a release that had no symbol (evdev, history)
  lost             \* whether an event of the user was lost or a record lapsed

detectionVars == <<platform, exclude, held, plugged, queue, xkb, keys, modifiers,
                   memory, current, remaining, delivered, presses, taken, stale, unread,
                   lost>>
misread == <<taken, stale, unread>>
stores == <<xkb, keys, modifiers, memory, current, remaining, misread>>

ModifierNames == {Modifiers[i] : i \in DOMAIN Modifiers}
NoDelivery == [kind |-> "none"]
AnyDevice == CHOOSE d \in Devices : TRUE
\* evdev has a queue per keyboard, the other platforms have one
Stream(d) == IF platform = "evdev" THEN d ELSE AnyDevice
HeldKeys == UNION {held[d] : d \in plugged}
ModifiersHeld == {ModifierOf[k] : k \in HeldKeys \cap DOMAIN ModifierOf}

\* The flag of the native callback of macOS: the first modifier that is down.
Flags(ms) ==
  {Modifiers[i] : i \in {j \in DOMAIN Modifiers :
     Modifiers[j] \in ms /\ \A l \in 1..(j - 1) : Modifiers[l] \notin ms}}

KeyEvent(k, down, symbol, alone, own, soft, flags) ==
  [kind |-> "key", key |-> k, down |-> down, symbol |-> symbol, alone |-> alone,
   own |-> own, soft |-> soft, flags |-> flags]
ClearEvent == [kind |-> "clear"]
Room == \A d \in Devices : Len(queue[d]) < MaxQueue
Append1(d, e) == [queue EXCEPT ![Stream(d)] = Append(@, e)]

----------------------------------------------------------------------------
(* The stores of the worker, as the callback of the funnel updates them.   *)

\* The modifier that a symbol names, if it does (key_sym_to_key).
Named(symbol) == {ModifierNamed[s] : s \in {symbol} \cap DOMAIN ModifierNamed}
AfterModifier(known, symbol, down) ==
  IF down THEN known \cup Named(symbol) ELSE known \ Named(symbol)
AfterKey(known, k, down) ==
  IF platform # "evdev" THEN known ELSE IF down THEN known \cup {k} ELSE known \ {k}

\* Mutant: a release removes nothing.
RememberedLong(e, old) ==
  IF e.down THEN (memory \ old) \cup {e.key} ELSE memory \ old
(* HotKeyFilter::process_event: a release forgets the key, entries older    *)
(* than 5 seconds are dropped (here all of them or none), and a press may   *)
(* complete a hotkey, whichever key it is.                                  *)
Remembered(e, old) ==
  IF e.down THEN (memory \ old) \cup {e.key} ELSE memory \ (old \cup {e.key})
Fired(e) == IF e.down THEN {h \in HotKeys : h \subseteq memory'} ELSE {}

(* Every keyboard has a state of its own, which only its keys change.       *)
DeviceState(d, e) ==
  [xkb EXCEPT ![d] = IF e.key \notin ModifierKeys THEN @
                     ELSE IF e.down THEN @ \cup {e.key} ELSE @ \ {e.key}]
(* A release under another level than that of the press: the key means      *)
(* another modifier, or none.                                               *)
Misread(d, e, value) ==
  /\ taken' = [taken EXCEPT ![d][e.key] = IF e.down THEN Named(value) ELSE {}]
  /\ stale' = (stale \cup taken[d][e.key]) \ Named(value)
  /\ unread' = IF e.down THEN unread
               ELSE IF value = "none" THEN unread \cup {e.key} ELSE unread \ {e.key}
(* One event of a device: the symbol is looked up in the keyboard state of  *)
(* this device before the key changes it, the modifier is the one that this *)
(* symbol names, and an event without a symbol is dropped.                  *)
DeliverEvdev(d) ==
  LET e == Head(queue[d])
      value == Symbol(e.key, xkb[d])
  IN
  /\ e.kind = "key"
  /\ \/ /\ value = "none"
        /\ delivered' = NoDelivery
        /\ lost' = (lost \/ e.key \in ModifierKeys)
        /\ UNCHANGED <<xkb, memory, keys, modifiers>>
     \/ /\ value # "none"
        /\ xkb' = DeviceState(d, e)
        /\ \E old \in {{}, memory} : memory' = Remembered(e, old)
        /\ \E h \in IF Fired(e) = {} THEN {{}} ELSE Fired(e) :
             delivered' = [kind |-> "key", event |-> e, value |-> value, hotkey |-> h]
        /\ keys' = AfterKey(keys, e.key, e.down)
        /\ modifiers' = AfterModifier(modifiers, value, e.down)
        /\ UNCHANGED lost
  /\ Misread(d, e, value)
  /\ UNCHANGED <<current, remaining>>

(* macOS: an event that is no modifier tells which modifier is down; those  *)
(* believed down that it does not mention are released first.               *)
Compensated(e) == IF e.key \in DOMAIN ModifierOf THEN {} ELSE current \ e.flags
DeliverMac(d) ==
  LET e == Head(queue[d]) IN
  /\ \/ /\ e.kind = "key"
        /\ current' = AfterModifier(current, BaseSymbol(e.key), e.down) \ Compensated(e)
        /\ modifiers' = AfterModifier(modifiers \ Compensated(e), BaseSymbol(e.key), e.down)
     \/ /\ e.kind = "clear"
        /\ modifiers' = {}
        /\ UNCHANGED current
  /\ delivered' = [kind |-> "key", event |-> e, value |-> "none", hotkey |-> {}]
  /\ UNCHANGED <<xkb, keys, memory, remaining, misread, lost>>

DeliverX11(d) ==
  LET e == Head(queue[d]) IN
  /\ modifiers' = AfterModifier(modifiers, BaseSymbol(e.key), e.down)
  /\ delivered' = [kind |-> "key", event |-> e, value |-> e.symbol, hotkey |-> {}]
  /\ UNCHANGED <<xkb, keys, memory, current, remaining, misread, lost>>

(* Windows: events without a device are those of software, which are the    *)
(* program's own while an expansion is under way.                           *)
CountedKeys == {k \in Keys : BaseSymbol(k) \in {"backspace", "enter"}}
IsOrphan(e) == e.own \/ e.soft
DeliverWin32(d) ==
  LET e == Head(queue[d]) IN
  /\ \/ /\ IsOrphan(e) /\ (exclude \/ remaining > 0)
        /\ remaining' = IF e.key \in CountedKeys /\ remaining > 0
                          THEN remaining - 1 ELSE remaining
        /\ delivered' = NoDelivery
        /\ UNCHANGED modifiers
     \/ /\ ~(IsOrphan(e) /\ (exclude \/ remaining > 0))
        /\ modifiers' = AfterModifier(modifiers, BaseSymbol(e.key), e.down)
        /\ delivered' = [kind |-> "key", event |-> e, value |-> e.symbol, hotkey |-> {}]
        /\ UNCHANGED remaining
  /\ UNCHANGED <<xkb, keys, memory, current, misread, lost>>

Deliver(d) ==
  /\ queue[d] # <<>>
  /\ queue' = [queue EXCEPT ![d] = Tail(@)]
  /\ CASE platform = "evdev" -> DeliverEvdev(d)
       [] platform = "mac"   -> DeliverMac(d)
       [] platform = "x11"   -> DeliverX11(d)
       [] platform = "win32" -> DeliverWin32(d)
  /\ UNCHANGED <<platform, exclude, held, plugged, presses>>

----------------------------------------------------------------------------
(* A record of the stores is dropped when it is read too late, that of a key *)
(* after 3 seconds, that of a modifier after 30.                             *)

KeyLapses(k) ==
  /\ k \in keys
  /\ keys' = keys \ {k}
  /\ lost' = (lost \/ k \in HeldKeys)
  /\ UNCHANGED <<modifiers, stale>>
ModifierLapses(m) ==
  /\ m \in modifiers
  /\ modifiers' = modifiers \ {m} /\ stale' = stale \ {m}
  /\ lost' = (lost \/ m \in ModifiersHeld)
  /\ UNCHANGED keys

----------------------------------------------------------------------------
(* The modifiers that are held when the program starts are applied to the   *)
(* keyboard state of every device, whichever of them holds them             *)
(* (Device::update_modifier_state).                                         *)

Synced(h) == UNION {h[d] : d \in Devices} \cap ModifierKeys \cap DOMAIN ModifierOf

DetectionInit ==
  /\ platform \in Platforms
  /\ exclude \in (IF platform = "win32" THEN BOOLEAN ELSE {TRUE})
  /\ held \in {h \in [Devices -> SUBSET ModifierKeys] :
                 /\ Cardinality({d \in Devices : h[d] # {}}) =< 1
                 /\ \A d \in Devices :
                      h[d] \subseteq IF platform = "evdev" THEN UserKeys[platform, d] ELSE {}}
  /\ plugged = Devices
  /\ queue = [d \in Devices |-> <<>>]
  /\ xkb = [d \in Devices |-> Synced(held)]
  /\ keys = {} /\ modifiers = {} /\ memory = {} /\ current = {} /\ remaining = 0
  /\ delivered = NoDelivery
  /\ presses = 0
  /\ taken = [d \in Devices |-> [k \in Keys |-> {}]] /\ stale = {} /\ unread = {}
  /\ lost = (\E d \in Devices : held[d] # {})
=============================================================================
