------------------------------ MODULE MCDevices ------------------------------
(***************************************************************************)
(* Two keyboards, the second of which is software on Windows, and a layout  *)
(* of six keys: 1 Shift, 2 AltGr, 3 a letter that has no symbol with AltGr,  *)
(* 4 Enter, 5 Insert, 6 Alt, which is Meta with Shift.                       *)
(***************************************************************************)
EXTENDS DeviceProperties

MCPlatforms == {"evdev", "x11", "mac", "win32"}
MCDevices == 1..2

Shift == 1
AltGr == 2
Letter == 3
EnterKey == 4
Insert == 5
Alt == 6

MCKeys == 1..6
MCModifierKeys == {Shift, AltGr, Alt}
MCModifiers == <<"shift", "alt", "meta">>
MCModifierNamed == ("shift" :> "shift") @@ ("alt" :> "alt") @@ ("meta" :> "meta")
MCLayout == [p \in MCKeys \X SUBSET MCModifierKeys |->
  LET level == p[2] \ {Alt} IN
  CASE p[1] = Shift -> "shift"
    [] p[1] = AltGr -> "altgr"
    [] p[1] = Alt -> IF Shift \in level THEN "meta" ELSE "alt"
    [] p[1] = Letter -> IF level = {} THEN "a" ELSE IF level = {Shift} THEN "A" ELSE "none"
    [] p[1] = EnterKey -> "enter"
    [] p[1] = Insert -> IF level = {Shift} THEN "paste" ELSE "insert"]
MCHotKeys == {{Shift, Letter}}
PlainKeys ==
  [p \in MCPlatforms \X MCDevices |->
     CASE p[1] = "evdev" -> IF p[2] = 1 THEN {Shift, Letter} ELSE {Letter}
       [] p[1] = "x11"   -> IF p[2] = 1 THEN {Shift, Letter} ELSE {}
       [] p[1] = "mac"   -> IF p[2] = 1 THEN {Shift, Alt, Letter} ELSE {}
       [] p[1] = "win32" -> IF p[2] = 1 THEN {Shift, Letter} ELSE {EnterKey, Letter}]
\* On evdev Alt under Shift is another modifier, and the letter under AltGr has no
\* symbol.
LevelKeys == [d \in MCDevices |-> IF d = 1 THEN {Shift, Alt, Letter} ELSE {AltGr, Letter}]
MCUserKeys ==
  [p \in MCPlatforms \X MCDevices |-> IF p[1] = "evdev" THEN LevelKeys[p[2]] ELSE PlainKeys[p]]
Text(lines) == [kind |-> "text", force |-> "none", mode |-> "auto", long |-> FALSE,
                ascii |-> TRUE, fast |-> FALSE, restore |-> TRUE, settable |-> TRUE,
                paste |-> <<"shift", "insert">>, lines |-> lines]
Lines == Text(<<<<"A">>, <<"a">>>>)
Unmapped == [Text(<<<<"a">>, <<"x">>>>) EXCEPT !.force = "keys", !.ascii = FALSE]
Long == [Text(<<<<"a">>>>) EXCEPT !.long = TRUE]
Html == [Text(<<<<"a">>>>) EXCEPT !.kind = "html", !.restore = FALSE]
NoImage == [Text(<<<<"a">>>>) EXCEPT !.kind = "image", !.settable = FALSE]
NotSet == [Text(<<<<"a">>>>) EXCEPT !.mode = "clipboard", !.settable = FALSE]
KeySequence == [Text(<<<<"enter", "a">>>>) EXCEPT !.kind = "keys"]
NoShortcut == [Long EXCEPT !.paste = <<"shift", "x">>]
Fast(r) == [r EXCEPT !.fast = TRUE]
MCRequests ==
  [evdev |-> {Text(<<<<"A", "a">>>>), Unmapped, Long},
   x11   |-> {Lines, Fast(Unmapped), Long, Fast(Html), KeySequence},
   mac   |-> {Lines, NotSet, NoShortcut},
   win32 |-> {Lines, Html, NoImage, KeySequence}]

----------------------------------------------------------------------------
(* A behaviour either serves requests while the user types two of the keys  *)
(* that are plain, or, on evdev, has a user who presses three of all keys   *)
(* and no request.                                                          *)

VARIABLE levels
MCInit ==
  /\ Init
  /\ levels \in (IF platform = "evdev" THEN BOOLEAN ELSE {FALSE})
  /\ levels \/ \A d \in Devices : held[d] \subseteq PlainKeys[platform, d]
MCNext ==
  /\ Next
  /\ UNCHANGED levels
  /\ IF levels THEN pc' = "idle"
     ELSE /\ presses' < MaxPresses
          /\ \A d \in Devices : held'[d] \ held[d] \subseteq PlainKeys[platform, d]
MCSpec == MCInit /\ [][MCNext]_<<vars, levels>>
=============================================================================
