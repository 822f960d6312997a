------------------------------ MODULE KeyCodes ------------------------------
(***************************************************************************)
(* The keys the program knows by name and the five ways it numbers them:   *)
(* the codes a shortcut is registered with (hotkey/keys.rs), the codes the *)
(* injector presses (raw_keys.rs of each system), and the codes the        *)
(* detection turns back into keys (key_code_to_key, key_sym_to_key).       *)
(*                                                                         *)
(* A key is a pair <<kind, n>>: <<"F", 3>> is F3, <<"Letter", 1>> is A,    *)
(* <<"Digit", 0>> and <<"Numpad", 0>> are the zeros, <<"Raw", c>> is the   *)
(* key of code c; a kind that is one key has n = 0.  The three numberings  *)
(* are of the systems "mac", "win32" and "linux" (keysyms).                *)
(***************************************************************************)
EXTENDS Naturals, Sequences

KeyModifiers == {"Alt", "Control", "Meta", "Shift"}
\* What both the shortcuts and the injector can name.
CommonNames == KeyModifiers \cup
  {"Enter", "Tab", "Space", "Insert", "ArrowDown", "ArrowLeft", "ArrowRight",
   "ArrowUp", "End", "Home", "PageDown", "PageUp"}
Single(names) == {<<name, 0>> : name \in names}
Families == ({"F"} \X (1..20)) \cup ({"Letter"} \X (1..26))
              \cup ({"Digit", "Numpad"} \X (0..9))

ShortcutKeys == Single(CommonNames) \cup Families          \* and <<"Raw", c>>
InjectorKeys ==
  Single(CommonNames \cup {"CapsLock", "NumLock", "Escape", "Backspace", "Delete"})
    \cup Families
DetectedKeys ==    \* any other key is <<"Other", code>>
  Single((CommonNames \ {"Insert"}) \cup {"CapsLock", "NumLock", "Escape", "Backspace"})
    \cup ({"F"} \X (1..20)) \cup ({"Numpad"} \X (0..9))

NoCode == [is |-> "none"]
Code(c) == [is |-> "code", code |-> c]

----------------------------------------------------------------------------
(* The codes of shortcuts: ShortcutKey::to_code, one per system.           *)

MacLetters == <<0, 11, 8, 2, 14, 3, 5, 4, 34, 38, 40, 37, 46, 45, 31, 35, 12, 15, 1, 17,
                32, 9, 13, 7, 16, 6>>
MacFunctionKeys == <<122, 120, 99, 118, 96, 97, 98, 100, 101, 109, 103, 111, 105, 107,
                     113, 106, 64, 79, 80, 90>>
MacDigits == <<29, 18, 19, 20, 21, 23, 22, 26, 28, 25>>
MacNumpad == <<82, 83, 84, 85, 86, 87, 88, 89, 91, 92>>
MacShortcutNames ==
  [Alt |-> 58, Control |-> 59, Meta |-> 55, Shift |-> 56, Enter |-> 36, Tab |-> 48,
   Space |-> 49, ArrowDown |-> 125, ArrowLeft |-> 123, ArrowRight |-> 124,
   ArrowUp |-> 126, End |-> 119, Home |-> 115, PageDown |-> 121, PageUp |-> 116]
MacShortcutCode(k) ==
  CASE k[1] = "F" -> Code(MacFunctionKeys[k[2]])
    [] k[1] = "Letter" -> Code(MacLetters[k[2]])
    [] k[1] = "Digit" -> Code(MacDigits[k[2] + 1])
    [] k[1] = "Numpad" -> Code(MacNumpad[k[2] + 1])
    [] k[1] = "Raw" -> Code(k[2])
    [] k[1] = "Insert" -> NoCode
    [] OTHER -> Code(MacShortcutNames[k[1]])

WinShortcutNames ==
  [Alt |-> 18, Control |-> 17, Meta |-> 91, Shift |-> 160, Enter |-> 13, Tab |-> 9,
   Space |-> 32, ArrowDown |-> 40, ArrowLeft |-> 37, ArrowRight |-> 39, ArrowUp |-> 38,
   End |-> 35, Home |-> 36, PageDown |-> 34, PageUp |-> 33, Insert |-> 45]
WinShortcutCode(k) ==
  CASE k[1] = "F" -> Code(111 + k[2])
    [] k[1] = "Letter" -> Code(64 + k[2])
    [] k[1] = "Digit" -> Code(48 + k[2])
    [] k[1] = "Numpad" -> Code(96 + k[2])
    [] k[1] = "Raw" -> Code(k[2])
    [] OTHER -> Code(WinShortcutNames[k[1]])

LinuxShortcutNames ==
  [Alt |-> 65513, Control |-> 65507, Meta |-> 65515, Shift |-> 65505, Enter |-> 65293,
   Tab |-> 65289, Space |-> 32, ArrowDown |-> 65364, ArrowLeft |-> 65361,
   ArrowRight |-> 65363, ArrowUp |-> 65362, End |-> 65367, Home |-> 65360,
   PageDown |-> 65366, PageUp |-> 65365, Insert |-> 65379]
LinuxShortcutCode(k) ==
  CASE k[1] = "F" -> Code(65469 + k[2])
    [] k[1] = "Letter" -> Code(96 + k[2])
    [] k[1] = "Digit" -> Code(48 + k[2])
    [] k[1] = "Numpad" -> Code(65456 + k[2])
    [] k[1] = "Raw" -> Code(k[2])
    [] OTHER -> Code(LinuxShortcutNames[k[1]])

ShortcutCode(numbering, k) ==
  CASE numbering = "mac"   -> MacShortcutCode(k)
    [] numbering = "win32" -> WinShortcutCode(k)
    [] numbering = "linux" -> LinuxShortcutCode(k)

----------------------------------------------------------------------------
(* The codes the injector presses: convert_key_to_vkey, convert_key_to_sym. *)

MacVkeyNames ==
  [Alt |-> 58, CapsLock |-> 57, Control |-> 59, Meta |-> 55, Shift |-> 56, Enter |-> 36,
   Tab |-> 48, Space |-> 49, ArrowDown |-> 125, ArrowLeft |-> 123, ArrowRight |-> 124,
   ArrowUp |-> 126, End |-> 119, Home |-> 115, PageDown |-> 121, PageUp |-> 116,
   Escape |-> 53, Backspace |-> 51, Delete |-> 117]
MacVkeys ==
  [F |-> <<122, 120, 99, 118, 96, 97, 98, 100, 101, 109, 103, 111, 105, 107, 113, 106,
           64, 79, 80, 90>>,
   Letter |-> <<0, 11, 8, 2, 14, 3, 5, 4, 34, 38, 40, 37, 46, 45, 31, 35, 12, 15, 1, 17,
                32, 9, 13, 7, 16, 6>>,
   Digit  |-> <<29, 18, 19, 20, 21, 23, 22, 26, 28, 25>>,
   Numpad |-> <<82, 83, 84, 85, 86, 87, 88, 89, 91, 92>>]
MacVkey(k) ==
  CASE k[1] \in {"Digit", "Numpad"} -> Code(MacVkeys[k[1]][k[2] + 1])
    [] k[1] \in {"F", "Letter"} -> Code(MacVkeys[k[1]][k[2]])
    [] k[1] \in {"Insert", "NumLock"} -> NoCode
    [] k[1] = "Raw" -> Code(k[2])
    [] OTHER -> Code(MacVkeyNames[k[1]])

WinVkeyNames ==
  [Alt |-> 18, CapsLock |-> 20, Control |-> 17, Meta |-> 91, NumLock |-> 144,
   Shift |-> 160, Enter |-> 13, Tab |-> 9, Space |-> 32, ArrowDown |-> 40,
   ArrowLeft |-> 37, ArrowRight |-> 39, ArrowUp |-> 38, End |-> 35, Home |-> 36,
   PageDown |-> 34, PageUp |-> 33, Escape |-> 27, Backspace |-> 8, Insert |-> 45,
   Delete |-> 46]
WinVkey(k) ==
  CASE k[1] = "F" -> Code(111 + k[2])
    [] k[1] = "Letter" -> Code(64 + k[2])
    [] k[1] = "Digit" -> Code(48 + k[2])
    [] k[1] = "Numpad" -> Code(96 + k[2])
    [] k[1] = "Raw" -> Code(k[2])
    [] OTHER -> Code(WinVkeyNames[k[1]])

LinuxSymNames ==
  [Alt |-> 65513, CapsLock |-> 65509, Control |-> 65507, Meta |-> 65515,
   NumLock |-> 65407, Shift |-> 65505, Enter |-> 65293, Tab |-> 65289, Space |-> 32,
   ArrowDown |-> 65364, ArrowLeft |-> 65361, ArrowRight |-> 65363, ArrowUp |-> 65362,
   End |-> 65367, Home |-> 65360, PageDown |-> 65366, PageUp |-> 65365,
   Escape |-> 65307, Backspace |-> 65288, Insert |-> 65379, Delete |-> 65535]
LinuxSym(k) ==
  CASE k[1] = "F" -> Code(65469 + k[2])
    [] k[1] = "Letter" -> Code(96 + k[2])
    [] k[1] = "Digit" -> Code(48 + k[2])
    [] k[1] = "Numpad" -> Code(65456 + k[2])
    [] k[1] = "Raw" -> Code(k[2])
    [] OTHER -> Code(LinuxSymNames[k[1]])

InjectorCode(numbering, k) ==
  CASE numbering = "mac"   -> MacVkey(k)
    [] numbering = "win32" -> WinVkey(k)
    [] numbering = "linux" -> LinuxSym(k)

----------------------------------------------------------------------------
(* The keys the detection reads codes back as, with the side of a modifier: *)
(* rows <<code, kind, side>>, and the ranges of the numbered kinds.         *)

Row(rows, c, numbered) ==
  IF \E row \in rows : row[1] = c
    THEN LET row == CHOOSE row \in rows : row[1] = c IN [key |-> <<row[2], 0>>, side |-> row[3]]
    ELSE [key |-> numbered, side |-> "none"]
Other(c) == <<"Other", c>>

MacRows ==
  {<<58, "Alt", "left">>, <<61, "Alt", "right">>, <<57, "CapsLock", "none">>,
   <<59, "Control", "left">>, <<62, "Control", "right">>, <<55, "Meta", "left">>,
   <<54, "Meta", "right">>, <<56, "Shift", "left">>, <<60, "Shift", "right">>,
   <<36, "Enter", "none">>, <<48, "Tab", "none">>, <<49, "Space", "none">>,
   <<125, "ArrowDown", "none">>, <<123, "ArrowLeft", "none">>,
   <<124, "ArrowRight", "none">>, <<126, "ArrowUp", "none">>, <<119, "End", "none">>,
   <<115, "Home", "none">>, <<121, "PageDown", "none">>, <<116, "PageUp", "none">>,
   <<53, "Escape", "none">>, <<51, "Backspace", "none">>}
MacNumbered ==
  [F |-> <<122, 120, 99, 118, 96, 97, 98, 100, 101, 109, 103, 111, 105, 107, 113, 106,
           64, 79, 80, 90>>,
   Numpad |-> <<82, 83, 84, 85, 86, 87, 88, 89, 91, 92>>]
MacKey(c) ==
  Row(MacRows, c,
      CASE \E i \in 1..20 : MacNumbered.F[i] = c ->
             <<"F", CHOOSE i \in 1..20 : MacNumbered.F[i] = c>>
        [] \E i \in 1..10 : MacNumbered.Numpad[i] = c ->
             <<"Numpad", (CHOOSE i \in 1..10 : MacNumbered.Numpad[i] = c) - 1>>
        [] OTHER -> Other(c))

WinRows ==
  {<<18, "Alt", "none">>, <<164, "Alt", "left">>, <<165, "Alt", "right">>,
   <<20, "CapsLock", "none">>, <<17, "Control", "none">>, <<162, "Control", "left">>,
   <<163, "Control", "right">>, <<91, "Meta", "left">>, <<92, "Meta", "right">>,
   <<144, "NumLock", "none">>, <<16, "Shift", "none">>, <<160, "Shift", "left">>,
   <<161, "Shift", "right">>, <<13, "Enter", "none">>, <<9, "Tab", "none">>,
   <<32, "Space", "none">>, <<40, "ArrowDown", "none">>, <<37, "ArrowLeft", "none">>,
   <<39, "ArrowRight", "none">>, <<38, "ArrowUp", "none">>, <<35, "End", "none">>,
   <<36, "Home", "none">>, <<34, "PageDown", "none">>, <<33, "PageUp", "none">>,
   <<27, "Escape", "none">>, <<8, "Backspace", "none">>}
WinKey(c) ==
  Row(WinRows, c, CASE c \in 112..131 -> <<"F", c - 111>>
                    [] c \in 96..105  -> <<"Numpad", c - 96>>
                    [] OTHER -> Other(c))

LinuxRows ==
  {<<65513, "Alt", "left">>, <<65514, "Alt", "right">>, <<65509, "CapsLock", "none">>,
   <<65507, "Control", "left">>, <<65508, "Control", "right">>,
   <<65511, "Meta", "left">>, <<65515, "Meta", "left">>, <<65512, "Meta", "right">>,
   <<65516, "Meta", "right">>, <<65407, "NumLock", "none">>, <<65505, "Shift", "left">>,
   <<65506, "Shift", "right">>, <<65293, "Enter", "none">>, <<65289, "Tab", "none">>,
   <<32, "Space", "none">>, <<65364, "ArrowDown", "none">>,
   <<65361, "ArrowLeft", "none">>, <<65363, "ArrowRight", "none">>,
   <<65362, "ArrowUp", "none">>, <<65367, "End", "none">>, <<65360, "Home", "none">>,
   <<65366, "PageDown", "none">>, <<65365, "PageUp", "none">>,
   <<65307, "Escape", "none">>, <<65288, "Backspace", "none">>}
LinuxNumbered(c) ==
  CASE c \in 65470..65489 -> <<"F", c - 65469>>
    [] c \in 65456..65465 -> <<"Numpad", c - 65456>>
    [] OTHER -> Other(c)
X11Key(c) == Row(LinuxRows, c, LinuxNumbered(c))
EvdevKey(c) == Row(LinuxRows, c, LinuxNumbered(c))

KeyOfCode(system, c) ==
  CASE system = "mac"   -> MacKey(c)
    [] system = "win32" -> WinKey(c)
    [] system = "x11"   -> X11Key(c)
    [] system = "evdev" -> EvdevKey(c)
Numbering(system) == IF system \in {"x11", "evdev"} THEN "linux" ELSE system

(* The eleven tables were written one by one.  They agree: the injector presses *)
(* the code that a shortcut is registered with, and a key that is pressed by its *)
(* code is read back as that key wherever the detection has a name for it.      *)
ASSUME TablesAgree ==
  \A system \in {"mac", "win32", "x11", "evdev"} : \A k \in InjectorKeys :
    LET c == InjectorCode(Numbering(system), k) IN
    /\ k \in ShortcutKeys => ShortcutCode(Numbering(system), k) = c
    /\ c # NoCode => KeyOfCode(system, c.code).key =
                       IF k \in DetectedKeys THEN k ELSE Other(c.code)
=============================================================================
