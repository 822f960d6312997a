------------------------------ MODULE HotKeys ------------------------------
(***************************************************************************)
(* Hotkeys, from the text in a match file to the event the engine gets:    *)
(* HotKey::new parses the shortcut, convert_hotkey_to_raw and the          *)
(* initialize of each detection source register it with the system (or,    *)
(* on evdev, with the HotKeyFilter), and a press of a key may fire one.    *)
(*                                                                         *)
(* A shortcut is a sequence of tokens, <<kind, n>> as in KeyCodes, in the  *)
(* spellings that parse accepts: "Option" and "Cmd" are second names, and  *)
(* a kind that is no ShortcutKey does not parse.  Case and blanks are left *)
(* out.  The match of the i-th shortcut has the id i.  A system matches a  *)
(* code and the modifiers held, whichever their side.  On Linux the code   *)
(* of a shortcut is a symbol, and a keymap says which keys have it: X11    *)
(* looks on every level of the keys, the HotKeyFilter only at what a key   *)
(* types with nothing held.  A press that types no symbol, which evdev     *)
(* drops, is left out.                                                     *)
(***************************************************************************)
EXTENDS KeyCodes, FiniteSets, SequencesExt

CONSTANTS
  Systems,         \* a subset of {"mac", "win32", "x11", "evdev"}
  Keymap,          \* of Linux, by keycode: [key |-> a physical key or NoPress,
                   \*   syms |-> its symbols by level, 0 where it has none]
  Shortcuts,       \* the shortcuts a match file may hold
  UserHeld,        \* physical keys <<key, side>> held together with others
  MaxShortcuts,    \* bound on the hotkeys of a configuration
  MaxHeld          \* bound on the keys held at once

VARIABLES
  system,          \* fixed by Init
  shortcuts,       \* of the matches, by id; fixed by Init
  toRegister,      \* ids still to register
  registered,      \* records [id, code, modifiers]
  held,            \* physical keys that are down
  memory,          \* codes in memory of the HotKeyFilter (evdev), the oldest first
  lapsed,          \* whether a key that is down has left the memory
  pressed,         \* the last physical key pressed, of the last step only
  fired            \* id of the hotkey that fires, or 0

hotKeyVars == <<system, shortcuts, toRegister, registered, held, memory, lapsed, pressed,
                fired>>
NoKey == <<"None", 0>>
NoPress == <<NoKey, "none">>
PhysicalKeys == (InjectorKeys \X {"left"}) \cup (Single(KeyModifiers) \X {"right"})

\* A token is a kind and a number.
ASSUME HotKeysAssumption ==
  /\ Systems \subseteq {"mac", "win32", "x11", "evdev"}
  /\ Keymap \in Seq([key : {NoPress} \cup PhysicalKeys, syms : Seq(Nat)])
  /\ MaxShortcuts \in Nat
  /\ \A tokens \in Shortcuts :
       /\ tokens \in Seq(STRING \X Nat)
       /\ \A i \in DOMAIN tokens : tokens[i][1] # "None"

----------------------------------------------------------------------------
(* The text of a shortcut.                                                  *)

Aliases == [Option |-> "Alt", Cmd |-> "Meta"]
\* ShortcutKey::parse, as the set of what it finds
ParseKey(token) ==
  CASE token[1] \in DOMAIN Aliases -> {<<Aliases[token[1]], 0>>}
    [] token[1] = "Raw"            -> {token}
    [] OTHER                       -> {token} \cap ShortcutKeys
IsModifier(k) == k \in Single(KeyModifiers)
\* HotKey::new: the last key that is no modifier is the main one.
NewHotKey(tokens) ==
  LET keyAt == [i \in DOMAIN tokens |-> ParseKey(tokens[i])]
      found == UNION {keyAt[i] : i \in DOMAIN tokens}
      mains == {i \in DOMAIN tokens : \E k \in keyAt[i] : ~IsModifier(k)}
      modifiers == {k \in found : IsModifier(k)}
  IN IF (\E i \in DOMAIN tokens : keyAt[i] = {}) \/ modifiers = {} \/ mains = {} THEN {}
     ELSE {[key |-> CHOOSE k \in keyAt[CHOOSE i \in mains : \A j \in mains : j =< i] : TRUE,
            modifiers |-> modifiers]}

----------------------------------------------------------------------------
(* Registration.                                                            *)

OnLinux == system \in {"x11", "evdev"}
\* The levels on which the key of a keycode is known to have a symbol.
LevelsOf(keycode, sym) ==
  {level \in DOMAIN Keymap[keycode].syms :
     Keymap[keycode].syms[level] = sym /\ (system = "evdev" => level = 1 /\ sym # 0)}
KeycodesOf(sym) == {keycode \in DOMAIN Keymap : LevelsOf(keycode, sym) # {}}
(* The map of the HotKeyFilter keeps the last keycode of a symbol;            *)
(* XKeysymToKeycode goes through the keycodes level by level.                 *)
KeycodeForSym(sym) ==
  IF KeycodesOf(sym) = {} THEN NoCode
  ELSE IF system = "evdev" THEN Code(Max(KeycodesOf(sym)))
  ELSE LET first == Min(UNION {LevelsOf(c, sym) : c \in DOMAIN Keymap})
       IN Code(Min({c \in DOMAIN Keymap : first \in LevelsOf(c, sym)}))

ModifierFlags(hk) == hk.modifiers
MaxMacCode == 65535          \* u16
HotKeyCode(k) ==
  LET code == ShortcutCode(Numbering(system), k) IN
  IF code = NoCode \/ (system = "mac" /\ code.code > MaxMacCode) THEN NoCode
  ELSE IF OnLinux THEN KeycodeForSym(code.code) ELSE code
\* On evdev the modifiers are keys like the main one.
RawHotKey(id, hk) ==
  LET code == HotKeyCode(hk.key)
      modifiers == {HotKeyCode(m) : m \in ModifierFlags(hk)}
  IN IF code = NoCode \/ (system = "evdev" /\ NoCode \in modifiers) THEN {}
     ELSE {[id |-> id, code |-> code.code,
            modifiers |-> IF system = "evdev" THEN {c.code : c \in modifiers}
                          ELSE ModifierFlags(hk)]}
SameCombination(r, s) == r.code = s.code /\ r.modifiers = s.modifiers
(* A combination that is taken is refused by Windows and macOS; on X11 the  *)
(* map entry of the earlier hotkey is replaced; evdev keeps both.           *)
Registration(r) ==
  LET same == {s \in registered : SameCombination(r, s)} IN
  CASE system \in {"mac", "win32"} -> IF same = {} THEN registered \cup {r} ELSE registered
    [] system = "x11"   -> (registered \ same) \cup {r}
    [] system = "evdev" -> registered \cup {r}
RegisterHotKey ==
  /\ toRegister # <<>>
  /\ toRegister' = Tail(toRegister)
  /\ LET id == Head(toRegister)
         raw == UNION {RawHotKey(id, hk) : hk \in NewHotKey(shortcuts[id])}
     IN registered' = IF raw = {} THEN registered
                      ELSE Registration(CHOOSE r \in raw : TRUE)
  /\ UNCHANGED <<system, shortcuts, held, memory, lapsed, pressed, fired>>

----------------------------------------------------------------------------
(* Keys.                                                                    *)

RightCodes ==                 \* what the systems report for modifiers at the right
  [mac   |-> [Alt |-> 61, Control |-> 62, Meta |-> 54, Shift |-> 60],
   win32 |-> [Alt |-> 165, Control |-> 163, Meta |-> 92, Shift |-> 161]]
SystemCode(numbering, p) ==
  IF p[2] = "right" THEN Code(RightCodes[numbering][p[1][1]])
  ELSE InjectorCode(numbering, p[1])
KeycodeOf(p) ==
  IF \E c \in DOMAIN Keymap : Keymap[c].key = p
    THEN Code(CHOOSE c \in DOMAIN Keymap : Keymap[c].key = p) ELSE NoCode
PhysicalCode(p) == IF OnLinux THEN KeycodeOf(p) ELSE SystemCode(system, p)
\* No two keys of a keyboard have the same code.
ASSUME CodesDistinct ==
  \A numbering \in {"mac", "win32"} : \A p, q \in PhysicalKeys :
    SystemCode(numbering, p) = SystemCode(numbering, q) =>
      p = q \/ SystemCode(numbering, p) = NoCode
ModifiersHeld(ps) == {p[1] : p \in {q \in ps : IsModifier(q[1])}}

(* evdev: a press fires any hotkey whose codes are all in memory; elsewhere *)
(* the hotkey of exactly this code under exactly these modifiers.           *)
FiresAnyModifiers(r, code) ==
  IF system = "evdev" THEN {r.code} \cup r.modifiers \subseteq ToSet(memory')
  ELSE r.code = code.code /\ r.modifiers \subseteq ModifiersHeld(held)
FiresOn(r, code) ==
  IF system = "evdev" THEN {r.code} \cup r.modifiers \subseteq ToSet(memory')
  ELSE r.code = code.code /\ r.modifiers = ModifiersHeld(held)
PressKey(p) ==
  LET code == PhysicalCode(p)
      hit == {r \in registered : FiresOn(r, code)}
  IN
  /\ toRegister = <<>>
  /\ p \notin held /\ (held = {} \/ held \cup {p} \subseteq UserHeld)
  /\ Cardinality(held) < MaxHeld
  /\ code.is = "code"
  /\ held' = held \cup {p}
  /\ \E old \in 0..Len(memory) :     \* the oldest are forgotten after 5 seconds
       /\ memory' = IF system = "evdev"
                      THEN Append(SubSeq(memory, old + 1, Len(memory)), code.code) ELSE <<>>
       /\ lapsed' = (held # {} /\ (lapsed \/ old > 0))
  /\ pressed' = p
  /\ fired' \in IF hit = {} THEN {0} ELSE {r.id : r \in hit}
  /\ UNCHANGED <<system, shortcuts, toRegister, registered>>
Without(codes, code) ==
  FlattenSeq([i \in DOMAIN codes |-> IF codes[i] = code THEN <<>> ELSE <<codes[i]>>])
ReleaseKey(p) ==
  /\ p \in held
  /\ held' = held \ {p}
  /\ memory' = Without(memory, PhysicalCode(p).code)
  /\ pressed' = NoPress /\ fired' = 0
  /\ UNCHANGED <<system, shortcuts, toRegister, registered, lapsed>>

HotKeysInit ==
  /\ system \in Systems
  /\ shortcuts \in UNION {[1..n -> Shortcuts] : n \in 0..MaxShortcuts}
  /\ toRegister = [i \in DOMAIN shortcuts |-> i]
  /\ registered = {} /\ held = {} /\ memory = <<>> /\ lapsed = FALSE
  /\ pressed = NoPress /\ fired = 0
HotKeysNext == RegisterHotKey \/ \E p \in PhysicalKeys : PressKey(p) \/ ReleaseKey(p)
HotKeysSpec == HotKeysInit /\ [][HotKeysNext]_hotKeyVars

----------------------------------------------------------------------------
(* Properties.                                                              *)

\* What a shortcut says, read as a set of keys: one main key, some modifiers.
Written(tokens) ==
  {IF t[1] \in DOMAIN Aliases THEN <<Aliases[t[1]], 0>> ELSE t :
     t \in {tokens[i] : i \in DOMAIN tokens}}
MainKeys(tokens) == Written(tokens) \ Single(KeyModifiers)
WellFormed(tokens) ==
  /\ Written(tokens) \subseteq ShortcutKeys \cup {k \in Written(tokens) : k[1] = "Raw"}
  /\ Cardinality(MainKeys(tokens)) = 1
  /\ Written(tokens) \cap Single(KeyModifiers) # {}
\* A key that is a key of a shortcut: on Linux one that has its symbol.
IsKey(p, k) ==
  IF ~OnLinux \/ (system = "x11" /\ IsModifier(k))
    THEN p[1] = k \/ (k[1] = "Raw" /\ PhysicalCode(p) = Code(k[2]))
    ELSE \E c \in KeycodesOf(LinuxShortcutCode(k).code) : PhysicalCode(p) = Code(c)
\* One that no other key could be taken for.
IsOnlyKey(p, k) ==
  IF ~OnLinux THEN p = <<k, "left">>
  ELSE /\ IsKey(p, k)
       /\ system = "evdev" \/ ~IsModifier(k) =>
            \A c \in KeycodesOf(LinuxShortcutCode(k).code) : PhysicalCode(p) = Code(c)
KeyDown(k) == \E p \in held : IsKey(p, k)
Completed(keys) ==
  /\ \A k \in keys : \E p \in held : IsOnlyKey(p, k)
  /\ \A p \in held : \E k \in keys : IsOnlyKey(p, k)

(* A hotkey fires only when every key of its shortcut is down, outside evdev *)
(* on the press of its main key with no other modifier; and a press that     *)
(* makes the keys down exactly those of a shortcut, the modifiers first, and *)
(* those at the left or the only ones with their symbols, fires one (on      *)
(* evdev unless a key was held for more than five seconds).                  *)
FiredAsWritten ==
  /\ fired # 0 /\ WellFormed(shortcuts[fired]) =>
       LET keys == Written(shortcuts[fired]) IN
       /\ \A k \in keys : KeyDown(k)
       /\ system # "evdev" =>
            /\ ModifiersHeld(held \ {pressed}) = keys \cap Single(KeyModifiers)
            /\ \E k \in MainKeys(shortcuts[fired]) : IsKey(pressed, k)
  /\ pressed # NoPress /\ ~lapsed =>
       \A i \in DOMAIN shortcuts :
         WellFormed(shortcuts[i]) /\ Completed(Written(shortcuts[i]))
           /\ ~IsModifier(pressed[1])
         => fired # 0
=============================================================================
