----------------------------- MODULE MCSources -----------------------------
(***************************************************************************)
(* Instances for TLC of what comes to the engine from outside: hotkeys,    *)
(* Alt codes, Secure Input, the commands of other processes and those on   *)
(* the statistics.  The five share no state, so a behaviour runs one of    *)
(* them and the others stay as they start, which for Secure Input is held  *)
(* by nobody.                                                              *)
(***************************************************************************)
EXTENDS HotKeys, AltCodes, SecureInput, Ipc, Statistics

VARIABLE part

vars == <<part, hotKeyVars, altCodeVars, secureInputVars, ipcVars, statisticsVars>>

K(kind) == <<kind, 0>>
\* A raw code that is the key A, on Linux the symbol on its second level, one
\* that is too large for macOS, a key that macOS lacks, one whose symbol is on
\* a second level, and a key that is none for a shortcut.
SomeShortcuts ==
  {<<K("Control"), <<"Letter", 1>>>>, <<K("Option"), K("Control"), <<"Letter", 1>>>>,
   <<<<"F", 2>>, K("Alt")>>, <<K("Control"), <<"Raw", 65>>>>,
   <<K("Alt"), <<"Raw", 70000>>>>, <<K("Cmd"), K("Insert")>>,
   <<K("Alt"), <<"Numpad", 1>>>>, <<K("Control"), K("Escape")>>}
SomeHeld ==
  {<<K("Alt"), "left">>, <<K("Control"), "left">>, <<K("Control"), "right">>,
   <<<<"Letter", 1>>, "left">>, <<<<"F", 2>>, "left">>}

\* A keymap with a key that types nothing, codes with symbols of F2 and
\* Insert that no key of the keyboard sends, a key that is Alt and Meta, and a
\* keypad that has its digits on the second level.
Key(kind, side, symbols) == [key |-> <<kind, side>>, syms |-> symbols]
SomeKeymap ==
  <<[key |-> NoPress, syms |-> <<>>],
    Key(<<"Letter", 1>>, "left", <<97, 65>>),
    Key(K("Control"), "left", <<65507>>),
    Key(K("Alt"), "left", <<65513, 65511>>),
    Key(<<"F", 2>>, "left", <<65471>>),
    Key(<<"Numpad", 1>>, "left", <<65436, 65457>>),
    Key(K("Insert"), "left", <<65379>>),
    Key(K("Meta"), "left", <<65515>>),
    Key(K("Control"), "right", <<65508>>),
    [key |-> NoPress, syms |-> <<0, 65471>>],
    [key |-> NoPress, syms |-> <<65379>>]>>

\* All of it, and what is recent of one trigger.
SomeQuestions ==
  {[recent |-> FALSE, names |-> {"x", "y"}, count |-> 1],
   [recent |-> TRUE, names |-> {"x"}, count |-> 2]}

\* A part that does not run starts in one of its initial states.
Still(p) == part # p
Init ==
  /\ part \in {"hotkeys", "altcodes", "secure", "ipc", "statistics"}
  /\ HotKeysInit
  /\ Still("hotkeys") => system = "x11" /\ shortcuts = <<>>
  /\ AltCodesInit
  /\ SecureInputInit
  /\ Still("secure") => holder = NoProcess
  /\ IpcInit
  /\ Still("ipc") => pipe = "unix" /\ event = [c \in Clients |-> "request"]
  /\ StatisticsInit
Next ==
  /\ UNCHANGED part
  /\ \/ /\ part = "hotkeys" /\ HotKeysNext
        /\ UNCHANGED <<altCodeVars, secureInputVars, ipcVars, statisticsVars>>
     \/ /\ part = "altcodes" /\ AltCodesNext
        /\ UNCHANGED <<hotKeyVars, secureInputVars, ipcVars, statisticsVars>>
     \/ /\ part = "secure" /\ SecureInputNext
        /\ UNCHANGED <<hotKeyVars, altCodeVars, ipcVars, statisticsVars>>
     \/ /\ part = "ipc" /\ IpcNext
        /\ UNCHANGED <<hotKeyVars, altCodeVars, secureInputVars, statisticsVars>>
     \/ /\ part = "statistics" /\ StatisticsNext
        /\ UNCHANGED <<hotKeyVars, altCodeVars, secureInputVars, ipcVars>>
Spec == Init /\ [][Next]_vars /\ SecureInputFairness /\ IpcFairness /\ StatisticsFairness
=============================================================================
