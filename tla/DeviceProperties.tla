-------------------------- MODULE DeviceProperties --------------------------
(***************************************************************************)
(* What the detection and the injection of keys promise, with a user at    *)
(* the keyboards and an application that reads at its own pace.            *)
(***************************************************************************)
EXTENDS Injection

----------------------------------------------------------------------------
(* Detection *)

Pending(k) == \E d \in Devices : \E i \in DOMAIN queue[d] :
                 queue[d][i].kind = "key" /\ queue[d][i].key = k /\ ~queue[d][i].down

(* The stores hold no phantoms: what the worker takes to be pressed is held  *)
(* on some keyboard, or its release is on the way.  The injector of evdev    *)
(* waits for the keys of the first, expansions wait for the modifiers, and   *)
(* a key that stays in the memory of hotkeys completes one that nobody       *)
(* presses.  (lost: a keyboard was unplugged, a release was never sent.      *)
(* exclude: where the keys of software are let through, the count of events  *)
(* that are the program's own may swallow the release of one whose press it  *)
(* let through, the paste shortcut of the request before.)                   *)
(* On evdev a key is what its symbol says at the time: a modifier is missed  *)
(* when its key is released under another level than it was pressed under,   *)
(* as the Meta of an Alt pressed after Shift and released after it, and a    *)
(* release without a symbol is dropped.  Those, and nothing else, stay       *)
(* behind: keys that do not change with the level never do.                  *)
TakenFor(k, m) ==
  IF platform = "evdev" THEN \E d \in Devices : m \in taken[d][k]
  ELSE k \in DOMAIN ModifierOf /\ ModifierOf[k] = m
Fickle(k, m) ==
  \E ks, ls \in SUBSET ModifierKeys : m \in Named(Symbol(k, ks)) \ Named(Symbol(k, ls))
Symbolless(k) == \E ks \in SUBSET ModifierKeys : Symbol(k, ks) = "none"
NoPhantoms ==
  /\ ~lost /\ exclude =>
       /\ \A k \in (keys \cup memory) \ unread : k \in HeldKeys \cup pressed \/ Pending(k)
       /\ \A m \in modifiers \ stale :
            \E k \in Keys : TakenFor(k, m) /\ (k \in HeldKeys \cup pressed \/ Pending(k))
  /\ \A m \in stale : \E k \in Keys : Fickle(k, m)
  /\ \A k \in unread : Symbolless(k)
(* A key means to the matchers what it meant to the application: the symbol *)
(* found in the keyboard state of the device, which follows the events of   *)
(* that device only, is the one the whole keyboard gave, provided that the  *)
(* modifiers were held on the same keyboard as the key.                     *)
SymbolAsTyped ==
  delivered.kind = "key" /\ platform = "evdev" /\ ~lost /\ delivered.event.down /\ delivered.event.alone
    => delivered.value = delivered.event.symbol
(* On macOS a release that was never sent is noticed with the next key: no  *)
(* modifier is taken to be pressed that the flags of the key do not name,   *)
(* whatever was lost before (native_callback).                              *)
LostReleasesNoticed ==
  [][platform = "mac" /\ delivered'.kind = "key" /\ delivered'.event.kind = "key"
       /\ delivered'.event.key \notin DOMAIN ModifierOf
     => modifiers' \subseteq delivered'.event.flags]_vars
(* What the detection remembers and tells of the keys is what the user does *)
(* at the keyboards: the three above.                                       *)
KeysAsTyped == [](NoPhantoms /\ SymbolAsTyped) /\ LostReleasesNoticed

----------------------------------------------------------------------------
(* Injection *)

Served == pc = "idle" /\ served > 0 /\ ~pasting

Pastes(r) == r.kind \in {"html", "image"} \/ (r.kind = "text" /\ UsesClipboard(r))
JoinLines(lines) == FoldLeft(LAMBDA acc, l : (IF acc = <<>> THEN acc ELSE Append(acc, Enter)) \o l,
                        <<>>, lines)
Expected(r) ==
  IF r.kind = "keys" THEN r.lines[1] ELSE IF Pastes(r) THEN <<"body">> ELSE JoinLines(r.lines)

(* The application gets what was asked for, symbol by symbol, in spite of   *)
(* the keys that the user still holds, or of an error a part of it, whole   *)
(* lines and what separates them.  (disturbed: the user typed, copied or    *)
(* kept a modifier down for longer than an injection waits, the clipboard   *)
(* was restored before the application read it, or keys were held that the  *)
(* injectors do not guard against, see KnownState.)                         *)
InjectedAsRequested ==
  Served /\ ~disturbed =>
    IF ~failed THEN typed = Expected(request)
    ELSE IF Pastes(request) THEN typed = <<>>
    ELSE \E n \in 0..Len(request.lines) :
           typed \in {JoinLines(SubSeq(request.lines, 1, n)),
                      JoinLines(SubSeq(request.lines, 1, n)) \o <<Enter>>}

(* No key is left pressed by a request that was served or refused: neither  *)
(* on the virtual keyboard of evdev nor, on the other platforms, for the    *)
(* server.  Only a wait for the user that ends in vain breaks off between a *)
(* press and its release (send_string of EVDEVInjector), and what it has    *)
(* left pressed then is all that can be (stuck).                            *)
NothingLeftPressed == pc = "idle" => OwnPressed \subseteq stuck

(* The text the user had copied is in the clipboard again when the request  *)
(* is over, whether the injection succeeded or not, unless the user copied  *)
(* something else meanwhile or since.                                       *)
ClipboardRestored ==
  Served /\ Pastes(request) /\ request.restore /\ before # UserImage
    => clipboard \in {before, UserCopy, UserImage}

=============================================================================
