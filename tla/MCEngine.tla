------------------------------ MODULE MCEngine ------------------------------
(***************************************************************************)
(* Instances of Engine for TLC: a handful of keys, matches and requests.   *)
(***************************************************************************)
EXTENDS EngineProperties

\* Matchers without memory: the key "x" is the trigger of every match.
OneState == {"s"}
OneKeyStep ==
    [y \in {"s", NoState} \X MatcherInput |->
        [state |-> "s", hits |-> IF y[2] = "x" THEN Matches ELSE {}]]

\* Expand: match 1 is a plain text and 2 an HTML text; the search bar opens on
\* the ambiguous trigger and from the command line.
ExpandEffect == [m \in {1, 2} |-> IF m = 1 THEN "plain" ELSE "html"]
TypedExpand  == {<<"x", Pressed>>, <<"Backspace", Pressed>>}
IpcOnly      == {"ipc"}
IpcSearch    == [s \in IpcOnly |-> {Plain("ShowSearchBar", 0)}]

\* Status: a double press of Alt toggles; Alt also starts a numeric code, and
\* "x" is on the numeric pad and the trigger of an image.
StatusEffect  == [m \in {1} |-> "image"]
TypedStatus   == {<<"Alt", Pressed>>, <<"Alt", Released>>, <<"x", Pressed>>}
StatusSources == {"ui", "ipc", "secure_input"}
StatusRequests ==
    [s \in StatusSources |->
       CASE s = "ui" ->
              {[kind |-> "ContextMenuClicked", id |-> 0, item |-> i] :
                    i \in {"Enable", "Disable"}}
              \cup {Plain("TrayIconClicked", 0)}
         [] s = "ipc" -> {Plain("ToggleRequest", 0), Plain("ShowConfigFolder", 0)}
         [] s = "secure_input" -> {Plain("SecureInputEnabled", 0),
                                   Plain("SecureInputDisabled", 0)}]

\* Progress: the word trigger "w" of match 1 is completed by a separator that
\* is typed or virtual; 2 has a hotkey and 3 is run from the command line.
ProgressEffect == [m \in {1, 2, 3} |-> CASE m = 1 -> "plain" [] m = 2 -> "image"
                                         [] m = 3 -> "markdown"]
WordStates == {"idle", "word"}
WordStep ==
    [y \in (WordStates \cup {NoState}) \X MatcherInput |->
        [state |-> IF y[2] = "w" /\ y[1] # "word" THEN "word" ELSE "idle",
         hits  |-> IF y[1] = "word" /\ y[2] = Separator THEN {1} ELSE {}]]
TypedProgress == {<<"w", Pressed>>, <<"Meta", Pressed>>, <<"ArrowLeft", Pressed>>}
ProgressSources == {"ipc", "exit"}
ProgressRequests ==
    [s \in ProgressSources |->
       CASE s = "ipc"  -> {Plain("BlackListed", 0),
                           [kind |-> "MatchExecRequest", id |-> 0,
                            matches |-> {3}]}
         [] s = "exit" -> {[kind |-> "ExitRequested", id |-> 0, mode |-> "Exit"]}]
=============================================================================
