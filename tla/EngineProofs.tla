---------------------------- MODULE EngineProofs ----------------------------
(***************************************************************************)
(* Theorems about Engine, for every value of its constants: the types, the *)
(* order of the discard requests and the thresholds, that no command is    *)
(* thrown away with what is discarded, and what a batch leaves behind: a   *)
(* tray that shows the status, no key typed in a search bar, and for every *)
(* trigger deleted what replaces it and its usage recorded.                *)
(***************************************************************************)
EXTENDS EngineProperties, FiniteSetTheorems, SequenceTheorems, TLAPS

(* The record types of Events, told apart by the kind *)

\* An event of one of these kinds has the fields that its payload declares.
LEMMA EventFields ==
    ASSUME NEW e \in Event
    PROVE  /\ e.id \in Nat
           /\ e.kind = "Keyboard" => e \in KeyEvent
           /\ e.kind = "Mouse" => e \in MouseEvent
           /\ e.kind = "ContextMenuClicked" => e \in MenuEvent
           /\ e.kind \in {"HotKey", "MatchExecRequest"} => e \in RequestEvent
           /\ e.kind = "MatchesDetected" => e \in DetectedEvent
           /\ e.kind \in {"MatchSelected", "CauseCompensatedMatch",
                          "RenderingRequested", "ImageRequested"}
                => e \in MatchEvent
           /\ e.kind = "Rendered" => e \in RenderedEvent
           /\ e.kind = "Undo" => e \in UndoEvent
           /\ e.kind = "DiscardPrevious" => e \in DiscardPreviousEvent
           /\ e.kind = "DiscardBetween" => e \in DiscardBetweenEvent
           /\ e.kind = "IconStatusChange" => e \in IconEvent
           /\ e.kind = "ShowContextMenu" => e \in ShowMenuEvent
           /\ e.kind \in {"ExitRequested", "Exit"} => e \in ExitEvent
  BY DEF Event, PlainEvent, PlainKinds, KeyEvent, MouseEvent, MenuEvent,
         RequestEvent, DetectedEvent, MatchEvent, RenderedEvent, UndoEvent,
         InjectEvent, DiscardPreviousEvent, DiscardBetweenEvent, IconEvent,
         ShowMenuEvent, ExitEvent

LEMMA PlainIsEvent ==
    ASSUME NEW kind \in PlainKinds, NEW id \in Nat
    PROVE  Plain(kind, id) \in Event
  BY DEF Plain, Event, PlainEvent

LEMMA InjectIsEvent ==
    ASSUME NEW id \in Nat, NEW why \in Purposes,
           NEW kind \in {"TextInject", "KeySequenceInject"}
    PROVE  Inject(kind, id, why) \in Event
  BY DEF Inject, Event, InjectEvent

\* What a source sends is an event, also with another id.
LEMMA SourceEventIsEvent ==
    ASSUME NEW e \in SourceEvent
    PROVE  /\ e \in Event
           /\ \A n \in Nat : [e EXCEPT !.id = n] \in SourceEvent
  BY DEF SourceEvent, Event, PlainEvent, PlainKinds, MenuEvent, RequestEvent,
         ExitEvent

LEMMA DetectEventIsEvent == DetectEvent \subseteq Event
  BY DEF DetectEvent, Event, PlainEvent, PlainKinds, RequestEvent

\* The subjects of the middlewares, one by one.
LEMMA SubjectOf ==
    /\ At(disable) => cur.kind \in {"Keyboard", "EnableRequest",
                                    "DisableRequest", "ToggleRequest"}
    /\ At(icon_status) => cur.kind \in StatusChanges
    /\ At(alt_code) => cur.kind = "Keyboard"
    /\ At(match_exec) => cur.kind = "MatchExecRequest"
    /\ At(suppress) => cur.kind = "MatchesDetected"
    /\ At(hotkey) => cur.kind = "HotKey"
    /\ At(match_select) => cur.kind = "MatchesDetected"
    /\ At(cause) => cur.kind = "MatchSelected"
    /\ At(multiplex) => cur.kind = "CauseCompensatedMatch"
    /\ At(render) => cur.kind = "RenderingRequested"
    /\ At(image_resolve) => cur.kind = "ImageRequested"
    /\ At(cursor_hint) => cur.kind = "Rendered"
    /\ At(exit) => cur.kind = "ExitRequested"
    /\ At(search) => cur.kind = "ShowSearchBar"
    /\ At(markdown) => cur.kind = "MarkdownInject"
  BY DEF At, LooksAt, Subjects, discard, disable, icon_status, alt_code,
         matcher, match_exec, suppress, context_menu, hotkey, match_select,
         cause, open_config, multiplex, stats, render, image_resolve,
         cursor_hint, exit, undo, action, search, markdown, chainEnd

-----------------------------------------------------------------------------
(* Type correctness *)

LEMMA Positions ==
    /\ discard = 1 /\ disable = 2 /\ icon_status = 3 /\ alt_code = 4
    /\ matcher = 5 /\ match_exec = 6 /\ suppress = 7 /\ context_menu = 8
    /\ hotkey = 9 /\ match_select = 10 /\ cause = 11 /\ open_config = 12
    /\ multiplex = 13 /\ stats = 14 /\ render = 15 /\ image_resolve = 16
    /\ cursor_hint = 17 /\ exit = 18 /\ undo = 19 /\ action = 20
    /\ search = 21 /\ markdown = 22 /\ chainEnd = 23
  BY DEF discard, disable, icon_status, alt_code, matcher, match_exec,
         suppress, context_menu, hotkey, match_select, cause, open_config,
         multiplex, stats, render, image_resolve, cursor_hint, exit, undo,
         action, search, markdown, chainEnd

LEMMA InChain ==
    /\ discard \in 1..22 /\ disable \in 1..22 /\ icon_status \in 1..22
    /\ alt_code \in 1..22 /\ matcher \in 1..22 /\ match_exec \in 1..22
    /\ suppress \in 1..22 /\ context_menu \in 1..22 /\ hotkey \in 1..22
    /\ match_select \in 1..22 /\ cause \in 1..22 /\ open_config \in 1..22
    /\ multiplex \in 1..22 /\ stats \in 1..22 /\ render \in 1..22
    /\ image_resolve \in 1..22 /\ cursor_hint \in 1..22 /\ exit \in 1..22
    /\ undo \in 1..22 /\ action \in 1..22 /\ search \in 1..22
    /\ markdown \in 1..22
  BY Positions

\* The variables of the chain that Returns sets.
Flow == cur' \in Event /\ stage' \in 0..chainEnd /\ emitted' \in Seq(Event)

LEMMA OutTypes ==
    /\ <<>> \in Seq(Event)
    /\ \A x \in Event : <<x>> \in Seq(Event)
    /\ \A x, y \in Event : <<x, y>> \in Seq(Event)
  OBVIOUS

\* What a middleware returns keeps the chain's types when it is an event.
LEMMA ReturnsTypes ==
    ASSUME ChainTypes, NEW p \in 1..22, NEW e \in Event,
           NEW out \in Seq(Event), Returns(p, e, out)
    PROVE  Flow
  BY Positions DEF ChainTypes, Returns, Flow

LEMMA PassTypes ==
    ASSUME ChainTypes, NEW p \in 1..22, Pass(p) \/ Consume(p)
    PROVE  Flow
  <1>1. cur \in Event /\ cur.id \in Nat
    BY EventFields DEF ChainTypes
  <1>2. Plain("NOOP", cur.id) \in Event
    BY <1>1, PlainIsEvent DEF PlainKinds
  <1>3. Returns(p, cur, <<>>) \/ Returns(p, Plain("NOOP", cur.id), <<>>)
    BY DEF Pass, Consume
  <1>4. QED
    BY <1>1, <1>2, <1>3, OutTypes, ReturnsTypes

LEMMA ChainStepTypes == ASSUME ChainTypes, Flow, ChainStep PROVE ChainTypes'
  BY DEF ChainTypes, Flow, ChainStep

LEMMA StatelessTypes == ASSUME TypeOK, Stateless, Flow PROVE TypeOK'
  BY ChainStepTypes
     DEF TypeOK, FunnelTypes, StatusTypes, MatchTypes, HistoryTypes,
         Stateless, funnelVars, discardVars, statusVars, matchVars, trayVars,
         ghostVars

LEMMA DiscardTypes == ASSUME TypeOK, Discard PROVE TypeOK'
  <1>1. ChainTypes'
    BY PassTypes, ChainStepTypes, InChain DEF Discard, TypeOK
  <1>2. minId' \in Nat /\ maxId' \in Nat
    BY EventFields
       DEF Discard, TypeOK, ChainTypes, StatusTypes, MinAfter, MaxAfter,
           DiscardPreviousEvent, DiscardBetweenEvent, discardVars
  <1>3. QED
    BY <1>1, <1>2
       DEF Discard, TypeOK, FunnelTypes, StatusTypes, MatchTypes,
           HistoryTypes, funnelVars, statusVars, matchVars, trayVars,
           ghostVars

LEMMA ToggledTypes ==
    ASSUME TypeOK, NEW on \in BOOLEAN, NEW changed \in BOOLEAN,
           ToggledTo(on, changed), lastToggle' \in BOOLEAN
    PROVE  TypeOK'
  <1>1. cur \in Event /\ cur.id \in Nat
    BY EventFields DEF TypeOK, ChainTypes
  <1>2. /\ Plain("NOOP", cur.id) \in Event
        /\ Plain("Enabled", cur.id) \in Event
        /\ Plain("Disabled", cur.id) \in Event
    BY <1>1, PlainIsEvent DEF PlainKinds
  <1> DEFINE out == IF changed
                     THEN <<Plain(IF on THEN "Enabled" ELSE "Disabled", cur.id)>>
                     ELSE <<>>
  <1>3. out \in Seq(Event)
    BY <1>2, OutTypes
  <1>4. \/ Returns(disable, Plain("NOOP", cur.id), out)
        \/ Returns(disable, cur, out)
    BY DEF ToggledTo
  <1> HIDE DEF out
  <1>5. Flow
    BY <1>1, <1>2, <1>3, <1>4, ReturnsTypes, InChain DEF TypeOK
  <1>6. ChainTypes'
    BY <1>5, ChainStepTypes DEF ToggledTo, TypeOK
  <1>7. QED
    BY <1>6
       DEF ToggledTo, TypeOK, FunnelTypes, StatusTypes, MatchTypes,
           HistoryTypes, funnelVars, discardVars, matchVars, trayVars,
           ghostVars

LEMMA DisableTypes ==
    ASSUME TypeOK, DisableOnKey \/ DisableOnRequest
    PROVE  TypeOK'
  <1>1. enabled \in BOOLEAN /\ lastToggle \in BOOLEAN
    BY DEF TypeOK, StatusTypes
  <1>2. CASE DisableOnKey
    BY <1>1, <1>2, ToggledTypes DEF DisableOnKey
  <1>3. CASE DisableOnRequest
    <2>1. cur.kind \in {"EnableRequest", "DisableRequest", "ToggleRequest"}
      BY <1>3, SubjectOf DEF DisableOnRequest
    <2>2. QED
      BY <1>1, <1>3, <2>1, ToggledTypes DEF DisableOnRequest
  <1>4. QED
    BY <1>2, <1>3

LEMMA IconTypes == ASSUME TypeOK, IconUpdate PROVE TypeOK'
  <1>1. cur \in Event /\ cur.id \in Nat /\ icon \in TrayStatus
    BY EventFields DEF TypeOK, ChainTypes, StatusTypes
  <1>2. icon' \in TrayStatus
    BY <1>1 DEF IconUpdate, Follow, TrayStatus
  <1> DEFINE change == [kind |-> "IconStatusChange", id |-> cur.id,
                        icon |-> IconOf(icon')]
  <1>3. change \in Event
    BY <1>1 DEF Event, IconEvent, IconOf, IconStatus
  <1>4. Returns(icon_status, cur, <<change>>)
    BY DEF IconUpdate
  <1> HIDE DEF change
  <1>5. Flow
    BY <1>1, <1>3, <1>4, OutTypes, ReturnsTypes, InChain DEF TypeOK
  <1>6. ChainTypes'
    BY <1>5, ChainStepTypes DEF IconUpdate, TypeOK
  <1>7. QED
    BY <1>2, <1>6
       DEF IconUpdate, TypeOK, FunnelTypes, StatusTypes, MatchTypes,
           HistoryTypes, funnelVars, discardVars, matchVars, trayVars,
           ghostVars

LEMMA AltCodeTypes == ASSUME TypeOK, AltCodeSynthesizer PROVE TypeOK'
  <1>1. cur \in Event /\ cur.id \in Nat
    BY EventFields DEF TypeOK, ChainTypes
  <1>2. Inject("TextInject", cur.id, "altcode") \in Event
    BY <1>1, InjectIsEvent DEF Purposes
  <1>3. \/ Pass(alt_code)
        \/ Returns(alt_code, cur, <<Inject("TextInject", cur.id, "altcode")>>)
    BY DEF AltCodeSynthesizer
  <1>4. Flow
    BY <1>1, <1>2, <1>3, OutTypes, PassTypes, ReturnsTypes, InChain
       DEF TypeOK
  <1>5. ChainTypes'
    BY <1>4, ChainStepTypes DEF AltCodeSynthesizer, TypeOK
  <1>6. altBuffer' \in {"none", "empty", "digits"}
    BY DEF AltCodeSynthesizer, TypeOK, MatchTypes
  <1>7. QED
    BY <1>5, <1>6
       DEF AltCodeSynthesizer, TypeOK, FunnelTypes, StatusTypes, MatchTypes,
           HistoryTypes, funnelVars, discardVars, statusVars, trayVars,
           ghostVars

\* The matcher's history is a sequence of states that never outgrows its limit.
HistoryOK == history \in Seq(MStates) /\ Len(history) <= MaxHistory

LEMMA LatestStatesBounded ==
    ASSUME HistoryOK, NEW s \in MStates
    PROVE  /\ LatestStates(Append(history, s)) \in Seq(MStates)
           /\ Len(LatestStates(Append(history, s))) <= MaxHistory
  <1>1. MaxHistory \in Nat
    BY EngineAssumption
  <1>2. /\ Append(history, s) \in Seq(MStates)
        /\ Len(Append(history, s)) = Len(history) + 1
        /\ Len(history) \in Nat
    BY DEF HistoryOK
  <1>3. CASE Len(Append(history, s)) > MaxHistory
    <2>1. Append(history, s) # <<>>
      BY <1>2
    <2>2. /\ Tail(Append(history, s)) \in Seq(MStates)
          /\ Len(Tail(Append(history, s))) = Len(history)
      BY <1>2, <2>1, HeadTailProperties
    <2>3. QED
      BY <1>3, <2>2 DEF LatestStates, HistoryOK
  <1>4. CASE ~(Len(Append(history, s)) > MaxHistory)
    BY <1>1, <1>2, <1>4 DEF LatestStates
  <1>5. QED
    BY <1>3, <1>4

LEMMA AdvanceTypes ==
    ASSUME TypeOK, NEW input \in MatcherInput, Advance(input)
    PROVE  Flow /\ HistoryOK'
  <1> DEFINE step == MatcherStep[LastState, input]
  <1>1. LastState \in MStates \cup {NoState}
    BY DEF TypeOK, MatchTypes, LastState
  <1>2. step.state \in MStates /\ step.hits \subseteq Matches
    BY <1>1, EngineAssumption
  <1>3. HistoryOK'
    BY <1>2, LatestStatesBounded
       DEF Advance, TypeOK, MatchTypes, HistoryOK
  <1>4. cur \in Event /\ cur.id \in Nat
    BY EventFields DEF TypeOK, ChainTypes
  <1> DEFINE hit == [kind |-> "MatchesDetected", id |-> cur.id,
                     matches |-> step.hits, trig |-> TRUE]
  <1>5. hit \in Event
    BY <1>2, <1>4 DEF Event, DetectedEvent
  <1>6. Returns(matcher, cur, <<>>) \/ Returns(matcher, hit, <<>>)
    BY DEF Advance
  <1> HIDE DEF hit
  <1>7. Flow
    BY <1>4, <1>5, <1>6, OutTypes, ReturnsTypes, InChain DEF TypeOK
  <1>8. QED
    BY <1>3, <1>7

LEMMA MatcherTypes ==
    ASSUME TypeOK, MatcherOnKey \/ MatcherOnMouse \/ MatcherOnInjection
    PROVE  TypeOK'
  <1>1. HistoryOK
    BY DEF TypeOK, MatchTypes, HistoryOK
  <1>2. Flow /\ HistoryOK'
    <2>1. CASE Pass(matcher) /\ UNCHANGED history
      BY <1>1, <2>1, PassTypes, InChain DEF HistoryOK, TypeOK
    <2>2. CASE Pass(matcher) /\ history' = <<>>
      <3>1. MaxHistory \in Nat
        BY EngineAssumption
      <3>2. QED
        BY <2>2, <3>1, PassTypes, InChain DEF HistoryOK, TypeOK
    <2>3. CASE /\ Pass(matcher) /\ history # <<>>
               /\ history' = SubSeq(history, 1, Len(history) - 1)
      <3> DEFINE n == Len(history) - 1
      <3>a. n \in Nat /\ \A i \in 1..n : history[i] \in MStates
        BY <1>1, <2>3 DEF HistoryOK
      <3>b. 1 \in Int /\ n \in Int
        BY <3>a
      <3>1. /\ SubSeq(history, 1, n) \in Seq(MStates)
            /\ Len(SubSeq(history, 1, n)) = n
        <4> HIDE DEF n
        <4>1. SubSeq(history, 1, n) \in Seq(MStates)
          BY <3>a, <3>b, SubSeqProperties
        <4>2. Len(SubSeq(history, 1, n)) = IF 1 <= n THEN n - 1 + 1 ELSE 0
          BY <3>a, <3>b, SubSeqProperties
        <4>3. QED
          BY <3>a, <4>1, <4>2
      <3>2. QED
        BY SMTT(30), <1>1, <2>3, <3>1, PassTypes, InChain, EngineAssumption
           DEF HistoryOK, TypeOK
    <2>4. CASE \E input \in MatcherInput : Advance(input)
      BY <2>4, AdvanceTypes
    <2>5. QED
      BY <2>1, <2>2, <2>3, <2>4
         DEF MatcherOnKey, MatcherOnMouse, MatcherOnInjection, MatcherInput
  <1>3. MatcherRest
    BY DEF MatcherOnKey, MatcherOnMouse, MatcherOnInjection
  <1>4. ChainTypes'
    BY <1>2, <1>3, ChainStepTypes DEF MatcherRest, TypeOK
  <1>5. QED
    BY <1>2, <1>3, <1>4
       DEF MatcherRest, HistoryOK, TypeOK, FunnelTypes, StatusTypes,
           MatchTypes, HistoryTypes, funnelVars, discardVars, statusVars,
           trayVars, ghostVars

LEMMA DetectedIsEvent ==
    ASSUME cur \in Event, NEW matches \in SUBSET Matches, NEW trig \in BOOLEAN
    PROVE  Detected(matches, trig) \in Event
  <1>1. cur.id \in Nat
    BY EventFields
  <1>2. Detected(matches, trig) \in DetectedEvent
    BY <1>1 DEF Detected, DetectedEvent
  <1>3. QED
    BY <1>2 DEF Event

LEMMA SelectedIsEvent ==
    ASSUME NEW m \in Matches, NEW trig \in BOOLEAN, NEW id \in Nat
    PROVE  Selected(m, trig, id) \in Event
  <1>1. Selected(m, trig, id) \in MatchEvent
    BY DEF Selected, MatchEvent
  <1>2. QED
    BY <1>1 DEF Event

\* The middlewares without a state of their own.
LEMMA StatelessMiddlewareTypes ==
    ASSUME TypeOK,
           \/ MatchExec \/ Suppress \/ HotKey \/ MatchSelectAtOnce \/ Cause
           \/ OpenConfig \/ ImageResolve \/ CursorHint \/ Exit \/ Search
           \/ Markdown
    PROVE  TypeOK'
  <1>1. ChainTypes /\ cur \in Event /\ cur.id \in Nat
    BY EventFields DEF TypeOK, ChainTypes
  <1>2. \A kind \in PlainKinds : Plain(kind, cur.id) \in Event
    BY <1>1, PlainIsEvent
  <1>3. Stateless
    BY DEF MatchExec, Suppress, HotKey, MatchSelectAtOnce, Cause, OpenConfig,
           ImageResolve, CursorHint, Exit, Search, Markdown
  <1>4. CASE MatchExec
    <2>1. cur \in RequestEvent
      BY <1>1, <1>4, SubjectOf, EventFields DEF MatchExec
    <2>2. Detected(cur.matches, TRUE) \in Event
      BY <1>1, <2>1, DetectedIsEvent DEF RequestEvent
    <2>3. \/ Consume(match_exec)
          \/ Returns(match_exec, Detected(cur.matches, TRUE), <<>>)
      BY <1>4 DEF MatchExec
    <2>4. Flow
      BY <1>1, <2>2, <2>3, OutTypes, PassTypes, ReturnsTypes, InChain
    <2>5. QED
      BY <1>3, <2>4, StatelessTypes
  <1>5. CASE Suppress \/ OpenConfig
    <2>1. \/ Pass(suppress) \/ Consume(suppress) \/ Consume(open_config)
      BY <1>5 DEF Suppress, OpenConfig
    <2>2. Flow
      BY <1>1, <2>1, PassTypes, InChain
    <2>3. QED
      BY <1>3, <2>2, StatelessTypes
  <1>6. CASE HotKey
    <2>1. cur \in RequestEvent
      BY <1>1, <1>6, SubjectOf, EventFields DEF HotKey
    <2>2. Detected(cur.matches, FALSE) \in Event
      BY <1>1, <2>1, DetectedIsEvent DEF RequestEvent
    <2>3. Returns(hotkey, Detected(cur.matches, FALSE), <<>>)
      BY <1>6 DEF HotKey
    <2>4. Flow
      BY <1>1, <2>2, <2>3, OutTypes, ReturnsTypes, InChain
    <2>5. QED
      BY <1>3, <2>4, StatelessTypes
  <1>7. CASE MatchSelectAtOnce
    <2>1. cur \in DetectedEvent
      BY <1>1, <1>7, SubjectOf, EventFields DEF MatchSelectAtOnce
    <2>2. \A m \in cur.matches : Selected(m, cur.trig, cur.id) \in Event
      BY <1>1, <2>1, SelectedIsEvent DEF DetectedEvent
    <2>3. \/ Consume(match_select)
          \/ \E m \in cur.matches :
                Returns(match_select, Selected(m, cur.trig, cur.id), <<>>)
      BY <1>7 DEF MatchSelectAtOnce
    <2>4. Flow
      BY <1>1, <2>2, <2>3, OutTypes, PassTypes, ReturnsTypes, InChain
    <2>5. QED
      BY <1>3, <2>4, StatelessTypes
  <1>8. CASE Cause
    <2>1. cur \in MatchEvent
      BY <1>1, <1>8, SubjectOf, EventFields DEF Cause
    <2>2. Compensated \in Event
      BY <2>1 DEF Compensated, Event, MatchEvent
    <2>3. \/ Returns(cause, Plain("TriggerCompensation", cur.id),
                      <<Compensated>>)
          \/ Returns(cause, Compensated, <<>>)
      BY <1>8 DEF Cause, TriggerFirst
    <2>4. Plain("TriggerCompensation", cur.id) \in Event
      BY <1>2 DEF PlainKinds
    <2>5. Flow
      BY <1>1, <2>2, <2>3, <2>4, OutTypes, ReturnsTypes, InChain
    <2>6. QED
      BY <1>3, <2>5, StatelessTypes
  <1>9. CASE ImageResolve \/ Markdown
    <2>1. \/ Returns(image_resolve, Plain("ImageResolved", cur.id), <<>>)
          \/ Returns(markdown, Plain("HtmlInject", cur.id), <<>>)
      BY <1>9 DEF ImageResolve, ImageResolved, Markdown
    <2>2. /\ Plain("ImageResolved", cur.id) \in Event
          /\ Plain("HtmlInject", cur.id) \in Event
      BY <1>2 DEF PlainKinds
    <2>3. Flow
      BY <1>1, <2>1, <2>2, OutTypes, ReturnsTypes, InChain
    <2>4. QED
      BY <1>3, <2>3, StatelessTypes
  <1>10. CASE CursorHint
    <2>1. cur \in RenderedEvent
      BY <1>1, <1>10, SubjectOf, EventFields DEF CursorHint
    <2>2. [cur EXCEPT !.hint = FALSE] \in Event
      BY <2>1 DEF Event, RenderedEvent
    <2>3. Plain("CursorHintCompensation", cur.id) \in Event
      BY <1>2 DEF PlainKinds
    <2>4. \/ Returns(cursor_hint, [cur EXCEPT !.hint = FALSE],
                      <<Plain("CursorHintCompensation", cur.id)>>)
          \/ Returns(cursor_hint, [cur EXCEPT !.hint = FALSE], <<>>)
      BY <1>10 DEF CursorHint
    <2>5. Flow
      BY <1>1, <2>2, <2>3, <2>4, OutTypes, ReturnsTypes, InChain
    <2>6. QED
      BY <1>3, <2>5, StatelessTypes
  <1>11. CASE Exit
    <2>1. cur \in ExitEvent
      BY <1>1, <1>11, SubjectOf, EventFields DEF Exit
    <2>2. [cur EXCEPT !.kind = "Exit"] \in Event
      BY <2>1 DEF Event, ExitEvent
    <2>3. Returns(exit, [cur EXCEPT !.kind = "Exit"], <<>>)
      BY <1>11 DEF Exit
    <2>4. Flow
      BY <1>1, <2>2, <2>3, OutTypes, ReturnsTypes, InChain
    <2>5. QED
      BY <1>3, <2>4, StatelessTypes
  <1>12. CASE Search
    <2>1. Detected(Matches, FALSE) \in Event
      BY <1>1, DetectedIsEvent
    <2>2. Plain("NOOP", cur.id) \in Event
      BY <1>2 DEF PlainKinds
    <2>3. Returns(search, Plain("NOOP", cur.id), <<Detected(Matches, FALSE)>>)
      BY <1>12 DEF Search
    <2>4. Flow
      BY <1>1, <2>1, <2>2, <2>3, OutTypes, ReturnsTypes, InChain
    <2>5. QED
      BY <1>3, <2>4, StatelessTypes
  <1>13. QED
    BY <1>4, <1>5, <1>6, <1>7, <1>8, <1>9, <1>10, <1>11, <1>12

LEMMA ClickedTypes ==
    ASSUME ChainTypes, NEW item \in MenuItems, NEW first \in Seq(Event),
           Clicked(item, first)
    PROVE  Flow
  <1>1. cur.id \in Nat
    BY EventFields DEF ChainTypes
  <1>2. \A kind \in PlainKinds : Plain(kind, cur.id) \in Event
    BY <1>1, PlainIsEvent
  <1>3. CASE item = "Exit"
    <2> DEFINE request == [kind |-> "ExitRequested", id |-> cur.id,
                           mode |-> "ExitAllProcesses"]
    <2>1. request \in Event
      BY <1>1 DEF Event, ExitEvent, ExitModes
    <2>2. Returns(context_menu, request, first)
      BY <1>3 DEF Clicked
    <2> HIDE DEF request
    <2>3. QED
      BY <2>1, <2>2, ReturnsTypes, InChain
  <1>4. CASE item # "Exit"
    <2>1. Plain("NOOP", cur.id) \in Event
      BY <1>2 DEF PlainKinds
    <2>2. \E out \in Seq(Event) :
             Returns(context_menu, Plain("NOOP", cur.id), out)
      <3>1. CASE item \in {"OpenEditor", "StatusHeader"}
        BY <3>1 DEF Clicked
      <3>2. CASE item \notin {"Exit", "OpenEditor", "StatusHeader"}
        <4> DEFINE kind ==
              CASE item = "Enable" -> "EnableRequest"
                [] item = "Disable" -> "DisableRequest"
                [] item = "SecureInputExplain" ->
                     "DisplaySecureInputTroubleshoot"
                [] item = "SecureInputWorkaround" -> "LaunchSecureInputAutoFix"
                [] item = "OpenSearch" -> "ShowSearchBar"
        <4>1. kind \in PlainKinds
          BY <3>2 DEF MenuItems, PlainKinds
        <4>2. Append(first, Plain(kind, cur.id)) \in Seq(Event)
          <5> HIDE DEF kind
          <5>1. QED
            BY <1>2, <4>1
        <4>3. Returns(context_menu, Plain("NOOP", cur.id),
                      Append(first, Plain(kind, cur.id)))
          BY <3>2 DEF Clicked
        <4>4. QED
          BY <4>2, <4>3
      <3>3. QED
        BY <1>4, <3>1, <3>2
    <2>3. QED
      BY <2>1, <2>2, ReturnsTypes, InChain
  <1>5. QED
    BY <1>3, <1>4

LEMMA ContextMenuTypes == ASSUME TypeOK, ContextMenu PROVE TypeOK'
  <1>1. ChainTypes /\ cur \in Event /\ cur.id \in Nat /\ menu \in TrayStatus
    BY EventFields DEF TypeOK, ChainTypes, StatusTypes
  <1>2. menu' \in TrayStatus
    BY <1>1 DEF ContextMenu, Follow, TrayStatus
  <1>3. ShowMenu(menu) \in Event /\ ShowMenu(menu') \in Event
    BY <1>1, <1>2 DEF ShowMenu, Event, ShowMenuEvent
  <1> DEFINE first == IF menuReady THEN <<>> ELSE <<ShowMenu(menu)>>
  <1>4. /\ first \in Seq(Event)
        /\ Append(first, ShowMenu(menu')) \in Seq(Event)
    BY <1>3, OutTypes
  <1>5. \/ Returns(context_menu, ShowMenu(menu), first)
        \/ /\ cur.kind = "ContextMenuClicked"
           /\ Clicked(cur.item, first)
        \/ Returns(context_menu, cur, Append(first, ShowMenu(menu')))
        \/ Returns(context_menu, cur, first)
    BY DEF ContextMenu
  <1>6. cur.kind = "ContextMenuClicked" => cur.item \in MenuItems
    BY <1>1, EventFields DEF MenuEvent
  <1> HIDE DEF first
  <1>7. Flow
    BY <1>1, <1>3, <1>4, <1>5, <1>6, ReturnsTypes, ClickedTypes, InChain
  <1>8. ChainTypes'
    BY <1>1, <1>7, ChainStepTypes DEF ContextMenu
  <1>9. QED
    BY <1>2, <1>8
       DEF ContextMenu, TypeOK, FunnelTypes, StatusTypes, MatchTypes,
           HistoryTypes, funnelVars, discardVars, matchVars, trayVars,
           ghostVars

LEMMA MatchSelectOpenTypes == ASSUME TypeOK, MatchSelectOpen PROVE TypeOK'
  <1>1. cur \in DetectedEvent
    BY SubjectOf, EventFields DEF MatchSelectOpen, TypeOK, ChainTypes
  <1>2. selection' \in [start : Nat, valid : SUBSET Matches]
    BY <1>1 DEF MatchSelectOpen, TypeOK, FunnelTypes, DetectedEvent
  <1>3. QED
    BY <1>2
       DEF MatchSelectOpen, TypeOK, FunnelTypes, ChainTypes, StatusTypes,
           MatchTypes, HistoryTypes, discardVars, statusVars, matchVars,
           trayVars, ghostVars

\* Where the engine thread waits for the search bar or carries out a batch it
\* has something to wait for or to carry out.
ControlOK ==
    /\ pc = "selecting" => cur.kind = "MatchesDetected"
    /\ pc = "dispatch" => processed # <<>>

LEMMA MatchSelectCloseTypes ==
    ASSUME TypeOK, ControlOK, MatchSelectClose
    PROVE  TypeOK'
  <1>1. ChainTypes /\ cur \in DetectedEvent /\ nextId \in Nat
    BY EventFields
       DEF MatchSelectClose, ControlOK, TypeOK, ChainTypes, FunnelTypes
  <1>2. selection.start \in Nat /\ selection.valid \subseteq Matches
    BY <1>1 DEF ChainTypes
  <1>3. \A m \in selection.valid : Selected(m, cur.trig, cur.id) \in Event
    BY <1>1, <1>2, SelectedIsEvent DEF DetectedEvent
  <1>4. Plain("NOOP", cur.id) \in Event
    BY <1>1, PlainIsEvent DEF PlainKinds, DetectedEvent
  <1>5. DiscardWindow(selection.start, nextId) \in Event
    BY <1>1, <1>2 DEF DiscardWindow, Event, DiscardBetweenEvent, DetectedEvent
  <1>6. \E e \in Event :
           Returns(match_select, e, <<DiscardWindow(selection.start, nextId)>>)
    BY <1>3, <1>4 DEF MatchSelectClose
  <1>7. Flow
    BY <1>1, <1>5, <1>6, OutTypes, ReturnsTypes, InChain
  <1>8. ChainTypes'
    BY <1>1, <1>7 DEF MatchSelectClose, ChainTypes, Flow, NoSelection
  <1>9. window' \in [start : Nat, end : Nat]
    BY <1>1, <1>2 DEF MatchSelectClose
  <1>10. FunnelTypes'
    <2>1. metaDown' = metaDown \/ metaDown' = FALSE
      BY DEF MatchSelectClose
    <2>2. metaDown' \in BOOLEAN
      BY <2>1 DEF TypeOK, FunnelTypes
    <2>3. nextId' \in Nat /\ keyboard' = keyboard /\ chan' = chan
      BY <1>1 DEF MatchSelectClose
    <2>4. QED
      BY <2>2, <2>3 DEF TypeOK, FunnelTypes
  <1>11. StatusTypes' /\ MatchTypes'
    BY DEF MatchSelectClose, TypeOK, StatusTypes, MatchTypes, discardVars,
           statusVars, matchVars, trayVars
  <1>12. HistoryTypes'
    BY <1>9 DEF MatchSelectClose, TypeOK, HistoryTypes
  <1>13. QED
    BY <1>8, <1>10, <1>11, <1>12 DEF TypeOK

LEMMA MultiplexTypes == ASSUME TypeOK, Multiplex PROVE TypeOK'
  <1>1. ChainTypes /\ cur \in MatchEvent
    BY SubjectOf, EventFields DEF Multiplex, TypeOK, ChainTypes
  <1>2. cur.id \in Nat /\ Effect[cur.m] \in Effects
    BY <1>1, EngineAssumption DEF MatchEvent
  <1>3. /\ [cur EXCEPT !.kind = "RenderingRequested"] \in Event
        /\ [cur EXCEPT !.kind = "ImageRequested"] \in Event
    BY <1>1 DEF Event, MatchEvent
  <1>4. /\ Plain("NOOP", cur.id) \in Event
        /\ Plain("ShowText", cur.id) \in Event
        /\ Plain("ShowLogs", cur.id) \in Event
        /\ Plain("ShowSearchBar", cur.id) \in Event
    BY <1>2, PlainIsEvent DEF PlainKinds
  <1>5. Inject("TextInject", cur.id, "builtin") \in Event
    BY <1>2, InjectIsEvent DEF Purposes
  <1>6. \A mode \in ExitModes : ExitRequest(mode) \in Event
    BY <1>2 DEF ExitRequest, Event, ExitEvent
  <1>7. Multiplexed(Effect[cur.m]) \in Event
    BY <1>2, <1>3, <1>4, <1>5, <1>6 DEF Multiplexed, Effects, ExitModes
  <1>8. Returns(multiplex, Multiplexed(Effect[cur.m]), <<>>)
    BY DEF Multiplex
  <1>9. Flow
    BY <1>1, <1>7, <1>8, OutTypes, ReturnsTypes, InChain
  <1>10. ChainTypes'
    BY <1>1, <1>9, ChainStepTypes DEF Multiplex
  <1>11. swallowed' \in BOOLEAN
    BY DEF Multiplex
  <1>12. QED
    BY <1>10, <1>11
       DEF Multiplex, TypeOK, FunnelTypes, StatusTypes, MatchTypes,
           HistoryTypes, funnelVars, discardVars, statusVars, matchVars,
           trayVars

PendingOK ==
    /\ pending \subseteq Nat
    /\ IsFiniteSet(pending)
    /\ Cardinality(pending) <= PendingCap + 1

LEMMA StatsTypes ==
    ASSUME TypeOK, StatsOnRequest \/ StatsOnDiscard \/ StatsOnInjection
    PROVE  TypeOK'
  <1>1. ChainTypes /\ PendingOK /\ cur.id \in Nat /\ recorded \subseteq Nat
    BY EventFields
       DEF TypeOK, ChainTypes, MatchTypes, HistoryTypes, PendingOK
  <1>2. StatsRest
    BY DEF StatsOnRequest, StatsOnDiscard, StatsOnInjection
  <1>3. ChainTypes'
    BY <1>1, <1>2, PassTypes, ChainStepTypes, InChain DEF StatsRest
  <1>4. recorded' \subseteq Nat
    BY <1>1 DEF StatsOnRequest, StatsOnDiscard, StatsOnInjection
  <1>5. PendingOK'
    <2>1. CASE pending' \subseteq pending
      <3>1. IsFiniteSet(pending') /\ Cardinality(pending') <= Cardinality(pending)
        BY <1>1, <2>1, FS_Subset DEF PendingOK
      <3>2. Cardinality(pending') \in Nat /\ Cardinality(pending) \in Nat
        BY <1>1, <3>1, FS_CardinalityType DEF PendingOK
      <3>3. QED
        BY <1>1, <2>1, <3>1, <3>2, EngineAssumption DEF PendingOK
    <2>2. CASE StatsOnRequest /\ cur.trig
      <3> DEFINE kept == IF Cardinality(pending) > PendingCap
                           THEN {} ELSE pending
      <3>1. pending' = kept \cup {cur.id}
        BY <2>2 DEF StatsOnRequest
      <3>2. /\ IsFiniteSet(kept) /\ kept \subseteq Nat
            /\ Cardinality(kept) \in Nat /\ Cardinality(kept) <= PendingCap
        <4>1. PendingCap \in Nat /\ Cardinality(pending) \in Nat
          BY <1>1, FS_CardinalityType, EngineAssumption DEF PendingOK
        <4>2. CASE Cardinality(pending) > PendingCap
          <5>1. IsFiniteSet({}) /\ Cardinality({}) = 0
            BY FS_EmptySet
          <5>2. kept = {}
            BY <4>2
          <5>3. QED
            BY <4>1, <5>1, <5>2
        <4>3. CASE ~(Cardinality(pending) > PendingCap)
          BY <1>1, <4>1, <4>3 DEF PendingOK
        <4>4. QED
          BY <4>2, <4>3
      <3> HIDE DEF kept
      <3>3. /\ IsFiniteSet(kept \cup {cur.id})
            /\ \/ Cardinality(kept \cup {cur.id}) = Cardinality(kept)
               \/ Cardinality(kept \cup {cur.id}) = Cardinality(kept) + 1
        BY <3>2, FS_AddElement
      <3>4. PendingCap \in Nat /\ kept \cup {cur.id} \subseteq Nat
        BY <1>1, <3>2, EngineAssumption
      <3>5. Cardinality(kept \cup {cur.id}) <= PendingCap + 1
        BY <3>2, <3>3, <3>4
      <3>6. QED
        BY <3>1, <3>3, <3>4, <3>5 DEF PendingOK
    <2>3. QED
      BY <2>1, <2>2 DEF StatsOnRequest, StatsOnDiscard, StatsOnInjection
  <1>6. QED
    BY <1>2, <1>3, <1>4, <1>5
       DEF StatsRest, PendingOK, TypeOK, FunnelTypes, StatusTypes, MatchTypes,
           HistoryTypes, funnelVars, discardVars, statusVars, trayVars

LEMMA RenderTypes == ASSUME TypeOK, Render PROVE TypeOK'
  <1>1. ChainTypes /\ cur \in Event /\ cur.id \in Nat
    BY EventFields DEF TypeOK, ChainTypes
  <1> DEFINE body(empty, hint) ==
               [kind |-> "Rendered", id |-> cur.id, fmt |-> FormatOf(cur.m),
                empty |-> empty, hint |-> hint]
  <1>2. \A empty, hint \in BOOLEAN : body(empty, hint) \in Event
    <2>1. FormatOf(cur.m) \in Formats
      BY DEF FormatOf, Formats
    <2>2. \A empty, hint \in BOOLEAN : body(empty, hint) \in RenderedEvent
      BY <1>1, <2>1 DEF RenderedEvent
    <2>3. QED
      BY <2>2 DEF Event
  <1>3. /\ Plain("RenderingError", cur.id) \in Event
        /\ Inject("TextInject", cur.id, "error") \in Event
    BY <1>1, PlainIsEvent, InjectIsEvent DEF PlainKinds, Purposes
  <1>4. \/ \E empty, hint \in BOOLEAN :
              Returns(render, body(empty, hint), <<>>)
        \/ Consume(render)
        \/ Returns(render, Plain("RenderingError", cur.id),
                   <<Inject("TextInject", cur.id, "error")>>)
    BY DEF Render
  <1> HIDE DEF body
  <1>5. Flow
    BY <1>1, <1>2, <1>3, <1>4, OutTypes, PassTypes, ReturnsTypes, InChain
  <1>6. ChainTypes'
    BY <1>1, <1>5, ChainStepTypes DEF Render
  <1>7. swallowed' \in BOOLEAN
    BY DEF Render, TypeOK, HistoryTypes
  <1>8. QED
    BY <1>6, <1>7
       DEF Render, TypeOK, FunnelTypes, StatusTypes, MatchTypes,
           HistoryTypes, funnelVars, discardVars, statusVars, matchVars,
           trayVars

LEMMA UndoTypes ==
    ASSUME TypeOK, UndoOnExpansion \/ UndoOnKey
    PROVE  TypeOK'
  <1>1. /\ ChainTypes /\ cur \in Event /\ cur.id \in Nat /\ record \in Record
        /\ NoRecord \in Record
    BY EventFields DEF TypeOK, ChainTypes, MatchTypes, NoRecord, Record
  <1>2. UndoRest
    BY DEF UndoOnExpansion, UndoOnKey
  <1>3. Flow /\ record' \in Record
    <2>1. CASE UndoOnExpansion
      <3>1. Flow
        <4>1. Pass(undo)
          BY <2>1 DEF UndoOnExpansion
        <4>2. QED
          BY <1>1, <4>1, PassTypes, InChain
      <3>2. CASE cur.kind = "TriggerCompensation"
        BY <1>1, <2>1, <3>1, <3>2 DEF UndoOnExpansion, Record
      <3>3. CASE cur.kind = "Rendered"
        <4>1. cur.empty \in BOOLEAN
          BY <1>1, <3>3, EventFields DEF RenderedEvent
        <4>2. \/ record' = record
              \/ record' = [id |-> cur.id, complete |-> TRUE,
                            empty |-> cur.empty]
          BY <2>1, <3>3 DEF UndoOnExpansion
        <4>3. \A empty \in BOOLEAN :
                 [id |-> cur.id, complete |-> TRUE, empty |-> empty] \in Record
          BY <1>1 DEF Record
        <4>4. QED
          BY <1>1, <3>1, <4>1, <4>2, <4>3
      <3>4. CASE cur.kind \notin {"TriggerCompensation", "Rendered"}
        BY <1>1, <2>1, <3>1, <3>4 DEF UndoOnExpansion
      <3>5. QED
        BY <3>2, <3>3, <3>4
    <2>2. CASE UndoOnKey
      <3> DEFINE revert == [kind |-> "Undo", id |-> cur.id,
                            empty |-> record.empty]
      <3>1. record' \in Record
        BY <1>1, <2>2 DEF UndoOnKey
      <3>3. Pass(undo) \/ (record.complete /\ Returns(undo, revert, <<>>))
        BY <2>2 DEF UndoOnKey
      <3>4. CASE Pass(undo)
        BY <1>1, <3>1, <3>4, PassTypes, InChain
      <3>5. CASE record.complete /\ Returns(undo, revert, <<>>)
        <4>1. record.empty \in BOOLEAN /\ record.id \in Nat
          BY <1>1, <3>5 DEF Record, NoRecord
        <4>2. revert \in UndoEvent
          BY <1>1, <4>1 DEF UndoEvent
        <4>3. revert \in Event
          BY <4>2 DEF Event
        <4> HIDE DEF revert
        <4>4. QED
          BY <1>1, <3>1, <3>5, <4>3, OutTypes, ReturnsTypes, InChain
      <3>6. QED
        BY <3>3, <3>4, <3>5
    <2>3. QED
      BY <2>1, <2>2
  <1>4. ChainTypes'
    BY <1>1, <1>2, <1>3, ChainStepTypes DEF UndoRest
  <1>5. QED
    BY <1>2, <1>3, <1>4
       DEF UndoRest, TypeOK, FunnelTypes, StatusTypes, MatchTypes,
           HistoryTypes, funnelVars, discardVars, statusVars, trayVars,
           ghostVars

LEMMA ActionTypes ==
    ASSUME TypeOK,
           ActionOnBody \/ ActionOnHint \/ ActionOnTrigger \/ ActionOnUndo
    PROVE  TypeOK'
  <1>1. ChainTypes /\ cur \in Event /\ cur.id \in Nat /\ nextId \in Nat
    BY EventFields DEF TypeOK, ChainTypes, FunnelTypes
  <1>2. \A why \in Purposes :
          /\ Inject("TextInject", cur.id, why) \in Event
          /\ Inject("KeySequenceInject", cur.id, why) \in Event
    BY <1>1, InjectIsEvent
  <1>3. \A kind \in PlainKinds : Plain(kind, cur.id) \in Event
    BY <1>1, PlainIsEvent
  <1>4. DiscardBefore(nextId) \in Event
    BY <1>1 DEF DiscardBefore, Event, DiscardPreviousEvent
  <1>5. Flow
    <2>1. CASE ActionOnBody
      <3>1. InjectionOf(cur) \in Event
        <4>1. CASE cur.kind = "ImageResolved"
          BY <1>3, <4>1 DEF InjectionOf, PlainKinds
        <4>2. CASE cur.kind = "Rendered"
          <5>1. cur.fmt \in Formats
            BY <1>1, <4>2, EventFields DEF RenderedEvent
          <5>2. /\ Plain("HtmlInject", cur.id) \in Event
                /\ Plain("MarkdownInject", cur.id) \in Event
                /\ Inject("TextInject", cur.id, "body") \in Event
            BY <1>2, <1>3 DEF PlainKinds, Purposes
          <5>3. QED
            BY <4>2, <5>1, <5>2 DEF InjectionOf, Formats
        <4>3. QED
          BY <2>1, <4>1, <4>2 DEF ActionOnBody
      <3>2. InjectedThenDiscarded(nextId) \in Seq(Event)
        BY <1>3, <1>4, OutTypes DEF InjectedThenDiscarded, PlainKinds
      <3>3. Returns(action, InjectionOf(cur), InjectedThenDiscarded(nextId))
        BY <2>1 DEF ActionOnBody
      <3>4. QED
        BY <1>1, <3>1, <3>2, <3>3, ReturnsTypes, InChain
    <2>2. CASE ActionOnHint \/ ActionOnTrigger \/ ActionOnUndo
      <3>1. \/ Returns(action, Inject("KeySequenceInject", cur.id, "hint"),
                       <<DiscardBefore(nextId)>>)
            \/ Returns(action, Inject("KeySequenceInject", cur.id, "trigger"),
                       <<>>)
            \/ Returns(action, Inject("KeySequenceInject", cur.id, "undo"),
                       <<Inject("TextInject", cur.id, "undo")>>)
        BY <2>2 DEF ActionOnHint, ActionOnTrigger, ActionOnUndo
      <3>2. {"hint", "trigger", "undo"} \subseteq Purposes
        BY DEF Purposes
      <3>3. QED
        BY <1>1, <1>2, <1>4, <3>1, <3>2, OutTypes, ReturnsTypes, InChain
    <2>3. QED
      BY <2>1, <2>2
  <1>6. ActionRest
    BY DEF ActionOnBody, ActionOnHint, ActionOnTrigger, ActionOnUndo
  <1>7. /\ nextId' \in Nat
        /\ pc' \in {"receive", "process", "selecting", "dispatch", "exited",
                    "crashed"}
    BY <1>1
       DEF ActionOnBody, ActionOnHint, ActionOnTrigger, ActionOnUndo,
           ChainTypes
  <1>8. ChainTypes'
    BY <1>1, <1>5, <1>6, <1>7 DEF ActionRest, ChainTypes, Flow
  <1>9. QED
    BY <1>6, <1>7, <1>8
       DEF ActionRest, TypeOK, FunnelTypes, StatusTypes, MatchTypes,
           HistoryTypes, discardVars, statusVars, matchVars, trayVars,
           ghostVars

LEMMA MiddlewareTypes == ASSUME TypeOK, Middleware PROVE TypeOK'
  BY DiscardTypes, DisableTypes, IconTypes, AltCodeTypes, MatcherTypes,
     StatelessMiddlewareTypes, ContextMenuTypes, MatchSelectOpenTypes,
     MultiplexTypes, StatsTypes, RenderTypes, UndoTypes, ActionTypes
     DEF Middleware

LEMMA EndOfChainTypes == ASSUME TypeOK, EndOfChain PROVE TypeOK'
  <1>1. /\ queue \in Seq(Event) /\ emitted \in Seq(Event) /\ cur \in Event
        /\ processed \in Seq(Event)
    BY DEF TypeOK, ChainTypes
  <1> DEFINE rest == queue \o emitted
  <1>2. rest \in Seq(Event)
    BY <1>1, ConcatProperties
  <1>3. processed' \in Seq(Event)
    <2>1. processed' = processed \/ processed' = Append(processed, cur)
      BY DEF EndOfChain
    <2>2. Append(processed, cur) \in Seq(Event)
      BY <1>1
    <2>3. QED
      BY <1>1, <2>1, <2>2
  <1>4. Plain("NOOP", 0) \in Event
    BY PlainIsEvent DEF PlainKinds
  <1>5. cur' \in Event /\ queue' \in Seq(Event)
    <2>1. CASE rest # <<>>
      <3>1. cur' = Head(rest) /\ queue' = Tail(rest)
        BY <2>1 DEF EndOfChain
      <3> HIDE DEF rest
      <3>2. Head(rest) \in Event /\ Tail(rest) \in Seq(Event)
        BY <1>2, <2>1, HeadTailProperties
      <3>3. QED
        BY <3>1, <3>2
    <2>2. CASE rest = <<>>
      BY <1>4, <2>2, OutTypes DEF EndOfChain
    <2>3. QED
      BY <2>1, <2>2
  <1>6. /\ pc' \in {"receive", "process", "dispatch"}
        /\ stage' = 0 /\ emitted' = <<>> /\ selection' = selection
    BY DEF EndOfChain
  <1>7. ChainTypes'
    BY <1>3, <1>5, <1>6, OutTypes, Positions DEF TypeOK, ChainTypes
  <1>8. QED
    BY <1>7
       DEF EndOfChain, TypeOK, FunnelTypes, StatusTypes, MatchTypes,
           HistoryTypes, funnelVars, discardVars, statusVars, matchVars,
           trayVars, ghostVars

LEMMA DispatchTypes == ASSUME TypeOK, ControlOK, Dispatch PROVE TypeOK'
  <1> DEFINE e == Head(processed)
  <1>1. /\ e \in Event /\ e.id \in Nat
        /\ Tail(processed) \in Seq(Event)
    <2>1. processed # <<>> /\ processed \in Seq(Event)
      BY DEF Dispatch, ControlOK, TypeOK, ChainTypes
    <2>2. QED
      BY <2>1, HeadTailProperties, EventFields
  <1>2. trayIcon' \in IconStatus
    <2>1. CASE e.kind = "IconStatusChange"
      BY <1>1, <2>1, EventFields DEF Dispatch, IconEvent
    <2>2. CASE e.kind # "IconStatusChange"
      BY <2>2 DEF Dispatch, TypeOK, StatusTypes
    <2>3. QED
      BY <2>1, <2>2
  <1>3. trayMenu' \in TrayStatus
    <2>1. CASE e.kind = "ShowContextMenu"
      BY <1>1, <2>1, EventFields DEF Dispatch, ShowMenuEvent
    <2>2. CASE e.kind # "ShowContextMenu"
      BY <2>2 DEF Dispatch, TypeOK, StatusTypes
    <2>3. QED
      BY <2>1, <2>2
  <1>5. processed' \in Seq(Event)
    <2>1. processed' = <<>> \/ processed' = Tail(processed)
      BY DEF Dispatch
    <2>2. QED
      BY <1>1, <2>1, OutTypes
  <1>6. pc' \in {"exited", "dispatch", "receive"}
    BY DEF Dispatch
  <1>7. ChainTypes'
    BY <1>5, <1>6 DEF Dispatch, TypeOK, ChainTypes
  <1>8. QED
    BY <1>2, <1>3, <1>7
       DEF Dispatch, TypeOK, FunnelTypes, StatusTypes, MatchTypes,
           HistoryTypes, funnelVars, discardVars, statusVars, matchVars

LEMMA DetectTypes == ASSUME TypeOK, Detect PROVE TypeOK'
  <1>1. nextId \in Nat /\ keyboard \in Seq(DetectEvent)
    BY DEF TypeOK, FunnelTypes, HistoryTypes
  <1>2. /\ metaDown' \in BOOLEAN
        /\ \E e \in DetectEvent : Enqueue(e)
    <2>1. ASSUME NEW k \in Typed, DetectKey(k[1], k[2])
          PROVE  /\ metaDown' \in BOOLEAN
                 /\ \E e \in DetectEvent : Enqueue(e)
      <3>1. k[1] \in Keys /\ k[2] \in Status
        BY EngineAssumption
      <3> DEFINE e == [kind |-> "Keyboard", id |-> nextId, key |-> k[1],
                       status |-> k[2]]
      <3>2. e \in DetectEvent
        <4>1. e \in KeyEvent
          BY <1>1, <3>1 DEF KeyEvent
        <4>2. QED
          BY <4>1 DEF DetectEvent
      <3>3. Enqueue(e)
        BY <2>1 DEF DetectKey
      <3>4. metaDown' \in BOOLEAN
        BY <2>1 DEF DetectKey, TypeOK, FunnelTypes
      <3>6. QED
        BY <3>2, <3>3, <3>4
    <2>2. ASSUME NEW status \in MouseButtons, DetectMouse(status)
          PROVE  /\ metaDown' \in BOOLEAN
                 /\ \E e \in DetectEvent : Enqueue(e)
      <3> DEFINE e == [kind |-> "Mouse", id |-> nextId, status |-> status]
      <3>1. e \in DetectEvent
        BY <1>1, EngineAssumption DEF DetectEvent, MouseEvent
      <3>2. Enqueue(e) /\ metaDown' = metaDown
        BY <2>2 DEF DetectMouse
      <3>3. QED
        BY <3>1, <3>2 DEF TypeOK, FunnelTypes
    <2>3. ASSUME NEW m \in HotKeys, DetectHotKey(m)
          PROVE  /\ metaDown' \in BOOLEAN
                 /\ \E e \in DetectEvent : Enqueue(e)
      <3> DEFINE e == [kind |-> "HotKey", id |-> nextId, matches |-> {m}]
      <3>1. e \in DetectEvent
        BY <1>1, EngineAssumption DEF DetectEvent
      <3>2. Enqueue(e) /\ metaDown' = metaDown
        BY <2>3 DEF DetectHotKey
      <3>3. QED
        BY <1>1, <3>1, <3>2 DEF TypeOK, FunnelTypes
    <2>4. ASSUME DetectAllModifiersReleased
          PROVE  /\ metaDown' \in BOOLEAN
                 /\ \E e \in DetectEvent : Enqueue(e)
      <3>1. Plain("AllModifiersReleased", nextId) \in DetectEvent
        BY <1>1 DEF Plain, DetectEvent
      <3>2. /\ Enqueue(Plain("AllModifiersReleased", nextId))
            /\ metaDown' = FALSE
        BY <2>4 DEF DetectAllModifiersReleased
      <3>3. QED
        BY <1>1, <3>1, <3>2
    <2>5. QED
      BY <2>1, <2>2, <2>3, <2>4 DEF Detect
  <1>3. PICK e \in DetectEvent : Enqueue(e)
    BY <1>2
  <1>4. keyboard' \in Seq(DetectEvent) /\ nextId' \in Nat
    BY <1>1, <1>3 DEF Enqueue
  <1>5. QED
    BY <1>2, <1>3, <1>4
       DEF Enqueue, TypeOK, FunnelTypes, ChainTypes, StatusTypes, MatchTypes,
           HistoryTypes, chainVars, discardVars, statusVars, matchVars,
           trayVars

LEMMA EnvironmentTypes == ASSUME TypeOK, Environment PROVE TypeOK'
  <1>1. CASE Detect
    BY <1>1, DetectTypes
  <1>2. CASE ModifierOutdated
    BY <1>2
       DEF ModifierOutdated, TypeOK, FunnelTypes, ChainTypes, StatusTypes,
           MatchTypes, HistoryTypes, chainVars, discardVars, statusVars,
           matchVars, trayVars, ghostVars
  <1>3. ASSUME NEW s \in Sources, NEW request \in Requests[s],
               Send(s, request)
        PROVE  TypeOK'
    <2>1. request \in SourceEvent /\ chan \in [Sources -> Seq(SourceEvent)]
      BY EngineAssumption DEF TypeOK, FunnelTypes
    <2>2. Append(chan[s], request) \in Seq(SourceEvent)
      BY <2>1
    <2>3. chan' = [chan EXCEPT ![s] = Append(chan[s], request)]
      BY <1>3 DEF Send
    <2>4. chan' \in [Sources -> Seq(SourceEvent)]
      BY <2>1, <2>2, <2>3
    <2>5. QED
      BY <1>3, <2>4
         DEF Send, TypeOK, FunnelTypes, ChainTypes, StatusTypes, MatchTypes,
             HistoryTypes, chainVars, discardVars, statusVars, matchVars,
             trayVars, ghostVars
  <1>4. QED
    BY <1>1, <1>2, <1>3 DEF Environment

LEMMA StartTypes ==
    ASSUME ChainTypes, NEW e \in Event, Start(e)
    PROVE  ChainTypes' /\ recorded' \in SUBSET Nat /\ swallowed' \in BOOLEAN
  <1>1. /\ pc' = "process" /\ cur' = e /\ stage' = 0
        /\ recorded' = {} /\ swallowed' = FALSE
        /\ UNCHANGED <<queue, emitted, processed, selection>>
    BY DEF Start
  <1>2. ChainTypes'
    BY <1>1, Positions DEF ChainTypes
  <1>3. QED
    BY <1>1, <1>2

LEMMA SkippedTypes ==
    ASSUME ChainTypes, HistoryTypes, Skipped
    PROVE  ChainTypes' /\ recorded' \in SUBSET Nat /\ swallowed' \in BOOLEAN
  BY DEF ChainTypes, HistoryTypes, Skipped, chainVars

LEMMA ReceiveTypes == ASSUME TypeOK, Receive PROVE TypeOK'
  <1>1. /\ FunnelTypes /\ ChainTypes /\ HistoryTypes
        /\ nextId \in Nat /\ keyboard \in Seq(DetectEvent)
        /\ chan \in [Sources -> Seq(SourceEvent)]
    BY DEF TypeOK, FunnelTypes
  <1>2. CASE ReceiveDetected
    <2>1. /\ Head(keyboard) \in Event
          /\ Tail(keyboard) \in Seq(DetectEvent)
      BY <1>1, <1>2, HeadTailProperties, DetectEventIsEvent
         DEF ReceiveDetected
    <2>2. Skipped \/ Start(Head(keyboard))
      BY <1>2 DEF ReceiveDetected
    <2>3. ChainTypes' /\ recorded' \in SUBSET Nat /\ swallowed' \in BOOLEAN
      BY <1>1, <2>1, <2>2, StartTypes, SkippedTypes
    <2>4. QED
      BY <1>2, <2>1, <2>3
         DEF ReceiveDetected, TypeOK, FunnelTypes, StatusTypes, MatchTypes,
             HistoryTypes, discardVars, statusVars, matchVars, trayVars
  <1>3. ASSUME NEW s \in Sources, ReceiveRequest(s) PROVE TypeOK'
    <2>1. chan[s] \in Seq(SourceEvent) /\ chan[s] # <<>>
      BY <1>1, <1>3 DEF ReceiveRequest
    <2>2. /\ Head(chan[s]) \in SourceEvent
          /\ Tail(chan[s]) \in Seq(SourceEvent)
      BY <2>1, HeadTailProperties
    <2>3. chan' = [chan EXCEPT ![s] = Tail(chan[s])]
      BY <1>3 DEF ReceiveRequest
    <2>4. chan' \in [Sources -> Seq(SourceEvent)]
      BY <1>1, <2>2, <2>3
    <2>5. Numbered(Head(chan[s])) \in Event
      <3>1. [Head(chan[s]) EXCEPT !.id = nextId] \in SourceEvent
        BY <1>1, <2>2, SourceEventIsEvent
      <3>2. QED
        BY <3>1, SourceEventIsEvent DEF Numbered
    <2>6. Skipped \/ Start(Numbered(Head(chan[s])))
      BY <1>3 DEF ReceiveRequest
    <2>7. ChainTypes' /\ recorded' \in SUBSET Nat /\ swallowed' \in BOOLEAN
      BY <1>1, <2>5, <2>6, StartTypes, SkippedTypes
    <2>8. nextId' \in Nat
      BY <1>1, <1>3 DEF ReceiveRequest
    <2>9. QED
      BY <1>3, <2>4, <2>7, <2>8
         DEF ReceiveRequest, TypeOK, FunnelTypes, StatusTypes, MatchTypes,
             HistoryTypes, discardVars, statusVars, matchVars, trayVars
  <1>4. QED
    BY <1>2, <1>3 DEF Receive

LEMMA InitTypes == Init => TypeOK /\ ControlOK
  <1> SUFFICES ASSUME Init PROVE TypeOK /\ ControlOK
    OBVIOUS
  <1>1. FunnelTypes
    <2>1. /\ \A s \in Sources : <<>> \in Seq(SourceEvent)
          /\ <<>> \in Seq(DetectEvent)
      OBVIOUS
    <2>2. QED
      BY <2>1 DEF Init, FunnelTypes
  <1>2. ChainTypes
    <2>1. Plain("NOOP", 0) \in Event
      BY PlainIsEvent DEF PlainKinds
    <2>2. QED
      BY <2>1, OutTypes, Positions DEF Init, ChainTypes, NoSelection
  <1>3. StatusTypes
    BY DEF Init, StatusTypes, UnsetMenu, TrayStatus, IconStatus
  <1>4. MatchTypes
    <2>1. IsFiniteSet({}) /\ Cardinality({}) = 0
      BY FS_EmptySet
    <2>2. PendingCap \in Nat /\ MaxHistory \in Nat
      BY EngineAssumption
    <2>3. QED
      BY <2>1, <2>2 DEF Init, MatchTypes, Record
  <1>5. HistoryTypes
    BY DEF Init, HistoryTypes, NoWindow, NoId
  <1>6. QED
    BY <1>1, <1>2, <1>3, <1>4, <1>5 DEF TypeOK, ControlOK, Init

\* Every middleware runs while an event is processed.
LEMMA MiddlewareControl ==
    ASSUME Middleware
    PROVE  /\ pc = "process"
           /\ \/ pc' \in {"process", "crashed"}
              \/ pc' = "selecting" /\ cur' = cur /\ At(match_select)
  BY DEF Middleware, Discard, DisableOnKey, DisableOnRequest, ToggledTo,
         IconUpdate, AltCodeSynthesizer, MatcherOnKey, MatcherOnMouse,
         MatcherOnInjection, MatcherRest, MatchExec, Suppress, ContextMenu,
         HotKey, MatchSelectAtOnce, MatchSelectOpen, Cause, OpenConfig,
         Multiplex, StatsOnRequest, StatsOnDiscard, StatsOnInjection,
         StatsRest, Render, ImageResolve, CursorHint, Exit, UndoOnExpansion,
         UndoOnKey, UndoRest, ActionOnBody, ActionOnHint, ActionOnTrigger,
         ActionOnUndo, Search, Markdown, Stateless, ChainStep, At

LEMMA ControlNext ==
    ASSUME TypeOK, ControlOK, [Next]_vars
    PROVE  ControlOK'
  <1>1. CASE Middleware
    <2>1. pc' = "selecting" => cur'.kind = "MatchesDetected"
      BY <1>1, MiddlewareControl, SubjectOf
    <2>2. pc' # "dispatch"
      BY <1>1, MiddlewareControl
    <2>3. QED
      BY <2>1, <2>2 DEF ControlOK
  <1>2. CASE EndOfChain
    BY <1>2 DEF EndOfChain, ControlOK
  <1>3. CASE Dispatch
    <2>1. processed \in Seq(Event) /\ processed # <<>>
      BY <1>3 DEF Dispatch, TypeOK, ChainTypes, ControlOK
    <2>2. pc' # "selecting"
      BY <1>3 DEF Dispatch
    <2>3. pc' = "dispatch" => /\ Len(processed) > 1
                             /\ processed' = Tail(processed)
      BY <1>3 DEF Dispatch
    <2>4. Len(processed) > 1 => Tail(processed) # <<>>
      <3>1. Len(Tail(processed)) = Len(processed) - 1
        BY <2>1, HeadTailProperties
      <3>2. Len(<<>>) = 0 /\ Len(processed) \in Nat
        BY <2>1
      <3>3. QED
        BY SMTT(30), <3>1, <3>2
    <2>5. QED
      BY <2>2, <2>3, <2>4 DEF ControlOK
  <1>4. CASE MatchSelectClose
    BY <1>4 DEF MatchSelectClose, ControlOK
  <1>5. CASE Receive
    BY <1>5
       DEF Receive, ReceiveDetected, ReceiveRequest, Start, Skipped,
           chainVars, ControlOK
  <1>6. CASE Environment
    BY <1>6
       DEF Environment, Detect, DetectKey, DetectMouse, DetectHotKey,
           DetectAllModifiersReleased, Enqueue, Send, ModifierOutdated,
           chainVars, ControlOK
  <1>7. CASE UNCHANGED vars
    BY <1>7 DEF vars, chainVars, ControlOK
  <1>8. QED
    BY <1>1, <1>2, <1>3, <1>4, <1>5, <1>6, <1>7 DEF Next, EngineStep

LEMMA TypeNext ==
    ASSUME TypeOK, ControlOK, [Next]_vars
    PROVE  TypeOK'
  <1>1. CASE Environment
    BY <1>1, EnvironmentTypes
  <1>2. CASE Receive
    BY <1>2, ReceiveTypes
  <1>3. CASE Middleware
    BY <1>3, MiddlewareTypes
  <1>4. CASE EndOfChain
    BY <1>4, EndOfChainTypes
  <1>5. CASE Dispatch
    BY <1>5, DispatchTypes
  <1>6. CASE MatchSelectClose
    BY <1>6, MatchSelectCloseTypes
  <1>7. CASE UNCHANGED vars
    BY <1>7
       DEF vars, funnelVars, chainVars, discardVars, statusVars, matchVars,
           trayVars, ghostVars, TypeOK, FunnelTypes, ChainTypes, StatusTypes,
           MatchTypes, HistoryTypes
  <1>8. QED
    BY <1>1, <1>2, <1>3, <1>4, <1>5, <1>6, <1>7 DEF Next, EngineStep

\* In every reachable state every variable has its type, the matcher keeps at
\* most backspace_limit states and the table of pending usages is bounded.
THEOREM TypeCorrect == Spec => [](TypeOK /\ ControlOK)
  <1>1. Init => TypeOK /\ ControlOK
    BY InitTypes
  <1>2. TypeOK /\ ControlOK /\ [Next]_vars => (TypeOK /\ ControlOK)'
    BY TypeNext, ControlNext
  <1>3. QED
    BY <1>1, <1>2, PTL DEF Spec

-----------------------------------------------------------------------------
(* Sequences that grow at their end *)

\* A sequence that grows by one element.
LEMMA GrowByOne ==
    ASSUME NEW S, NEW s \in Seq(S), NEW x
    PROVE  /\ Len(s \o <<x>>) = Len(s) + 1
           /\ \A i \in 1..Len(s) : (s \o <<x>>)[i] = s[i]
           /\ (s \o <<x>>)[Len(s) + 1] = x
  <1> DEFINE T == S \cup {x}
             t == <<x>>
  <1>1. s \in Seq(T) /\ t \in Seq(T) /\ Len(t) = 1 /\ t[1] = x /\ Len(s) \in Nat
    OBVIOUS
  <1> HIDE DEF t, T
  <1>2. /\ Len(s \o t) = Len(s) + Len(t)
        /\ \A i \in 1 .. Len(s) + Len(t) :
              (s \o t)[i] = IF i <= Len(s) THEN s[i] ELSE t[i - Len(s)]
    BY <1>1, ConcatProperties
  <1>3. /\ Len(s \o t) = Len(s) + 1
        /\ \A i \in 1..Len(s) : (s \o t)[i] = s[i]
        /\ (s \o t)[Len(s) + 1] = x
    BY <1>1, <1>2
  <1>4. QED
    BY <1>3 DEF t

\* A sequence that grows by two elements.
LEMMA GrowByTwo ==
    ASSUME NEW S, NEW s \in Seq(S), NEW x, NEW y
    PROVE  /\ Len(s \o <<x, y>>) = Len(s) + 2
           /\ \A i \in 1..Len(s) : (s \o <<x, y>>)[i] = s[i]
           /\ (s \o <<x, y>>)[Len(s) + 1] = x
           /\ (s \o <<x, y>>)[Len(s) + 2] = y
  <1> DEFINE T == S \cup {x, y}
             t == <<x, y>>
  <1>1. /\ s \in Seq(T) /\ t \in Seq(T) /\ Len(s) \in Nat
        /\ Len(t) = 2 /\ t[1] = x /\ t[2] = y
    OBVIOUS
  <1> HIDE DEF t, T
  <1>2. /\ Len(s \o t) = Len(s) + Len(t)
        /\ \A i \in 1 .. Len(s) + Len(t) :
              (s \o t)[i] = IF i <= Len(s) THEN s[i] ELSE t[i - Len(s)]
    BY <1>1, ConcatProperties
  <1>3. /\ Len(s \o t) = Len(s) + 2
        /\ \A i \in 1..Len(s) : (s \o t)[i] = s[i]
        /\ (s \o t)[Len(s) + 1] = x /\ (s \o t)[Len(s) + 2] = y
    BY <1>1, <1>2
  <1>4. QED
    BY <1>3 DEF t

-----------------------------------------------------------------------------
(* What the middlewares dispatch *)

\* A discard request made by this step: it is about an id that the step takes.
Fresh(e) ==
    /\ UpTo(e) = nextId
    /\ nextId' = nextId + 1
    /\ e.kind = "DiscardBetween" => e.start <= e.end

\* The step adds to emitted, and at most its last addition is a discard request.
Emits ==
    /\ Len(emitted) <= Len(emitted')
    /\ \A i \in 1..Len(emitted) : emitted'[i] = emitted[i]
    /\ \A i \in Len(emitted) + 1 .. Len(emitted') :
          IsDiscard(emitted'[i]) => i = Len(emitted') /\ Fresh(emitted'[i])

\* A step that leaves emitted as it is.
LEMMA EmitsNothing ==
    ASSUME emitted \in Seq(Event), emitted' = emitted \o <<>>
    PROVE  Emits
  <1>1. emitted' = emitted /\ Len(emitted) \in Nat
    OBVIOUS
  <1>2. QED
    BY <1>1 DEF Emits

\* A step that dispatches one event.
LEMMA EmitsOne ==
    ASSUME emitted \in Seq(Event), NEW x, emitted' = emitted \o <<x>>,
           IsDiscard(x) => Fresh(x)
    PROVE  Emits
  <1>1. /\ Len(emitted') = Len(emitted) + 1 /\ Len(emitted) \in Nat
        /\ \A i \in 1..Len(emitted) : emitted'[i] = emitted[i]
        /\ emitted'[Len(emitted) + 1] = x
    BY GrowByOne
  <1>2. QED
    BY <1>1 DEF Emits

\* A step that dispatches two events.
LEMMA EmitsTwo ==
    ASSUME emitted \in Seq(Event), NEW x, NEW y,
           emitted' = emitted \o <<x, y>>,
           ~IsDiscard(x), IsDiscard(y) => Fresh(y)
    PROVE  Emits
  <1>1. /\ Len(emitted') = Len(emitted) + 2 /\ Len(emitted) \in Nat
        /\ \A i \in 1..Len(emitted) : emitted'[i] = emitted[i]
        /\ emitted'[Len(emitted) + 1] = x
        /\ emitted'[Len(emitted) + 2] = y
    BY GrowByTwo
  <1>2. QED
    BY <1>1 DEF Emits

\* Every middleware but the discard middleware adds to emitted.
LEMMA MiddlewareEmits ==
    ASSUME TypeOK, Middleware
    PROVE  Emits
  <1>1. emitted \in Seq(Event) /\ nextId \in Nat
    BY DEF TypeOK, ChainTypes, FunnelTypes
  <1>2. CASE \/ Discard \/ DisableOnKey \/ MatcherOnKey \/ MatcherOnMouse
             \/ MatcherOnInjection \/ MatchExec \/ Suppress \/ HotKey
             \/ MatchSelectAtOnce \/ OpenConfig \/ Multiplex
             \/ StatsOnRequest \/ StatsOnDiscard \/ StatsOnInjection
             \/ ImageResolve \/ Exit \/ UndoOnExpansion \/ UndoOnKey
             \/ ActionOnTrigger \/ Markdown
    <2>1. \/ emitted' = emitted \o <<>>
          \/ DisableOnKey /\ \E kind \in {"Enabled", "Disabled"} :
                emitted' = emitted \o <<Plain(kind, cur.id)>>
      BY <1>2
         DEF Discard, DisableOnKey, ToggledTo, MatcherOnKey, MatcherOnMouse,
             MatcherOnInjection, Advance, MatchExec, Suppress, HotKey,
             MatchSelectAtOnce, OpenConfig, Multiplex, StatsOnRequest,
             StatsOnDiscard, StatsOnInjection, StatsRest, ImageResolve,
             ImageResolved, Exit, UndoOnExpansion, UndoOnKey, ActionOnTrigger,
             Markdown, Pass, Consume, Returns
    <2>2. QED
      BY <1>1, <2>1, EmitsNothing, EmitsOne DEF Plain, IsDiscard
  <1>3. CASE DisableOnRequest
    <2>1. \E kind \in {"Enabled", "Disabled"} :
             emitted' = emitted \o <<Plain(kind, cur.id)>>
      BY <1>3 DEF DisableOnRequest, ToggledTo, Returns
    <2>2. QED
      BY <1>1, <2>1, EmitsOne DEF Plain, IsDiscard
  <1>4. CASE IconUpdate
    <2> DEFINE change == [kind |-> "IconStatusChange", id |-> cur.id,
                          icon |-> IconOf(icon')]
    <2>1. emitted' = emitted \o <<change>>
      BY <1>4 DEF IconUpdate, Returns
    <2>2. ~IsDiscard(change)
      BY DEF IsDiscard
    <2> HIDE DEF change
    <2>3. QED
      BY <1>1, <2>1, <2>2, EmitsOne
  <1>5. CASE AltCodeSynthesizer
    <2>1. \/ emitted' = emitted \o <<>>
          \/ emitted' = emitted \o <<Inject("TextInject", cur.id, "altcode")>>
      BY <1>5 DEF AltCodeSynthesizer, Pass, Returns
    <2>2. QED
      BY <1>1, <2>1, EmitsNothing, EmitsOne DEF Inject, IsDiscard
  <1>6. CASE ContextMenu
    <2>1. \E x, y : /\ ~IsDiscard(x) /\ ~IsDiscard(y)
                    /\ \/ emitted' = emitted \o <<>>
                       \/ emitted' = emitted \o <<x>>
                       \/ emitted' = emitted \o <<x, y>>
      <3> DEFINE first == IF menuReady THEN <<>> ELSE <<ShowMenu(menu)>>
      <3>1. \/ emitted' = emitted \o first
            \/ emitted' = emitted \o Append(first, ShowMenu(menu'))
            \/ \E kind \in {"EnableRequest", "DisableRequest",
                             "DisplaySecureInputTroubleshoot",
                             "LaunchSecureInputAutoFix", "ShowSearchBar"} :
                 emitted' = emitted \o Append(first, Plain(kind, cur.id))
        <4>1. \/ \E e : Returns(context_menu, e, first)
              \/ \E e : Returns(context_menu, e,
                                Append(first, ShowMenu(menu')))
              \/ /\ cur.kind = "ContextMenuClicked"
                 /\ Clicked(cur.item, first)
          BY <1>6 DEF ContextMenu
        <4>2. cur.kind = "ContextMenuClicked" => cur.item \in MenuItems
          BY EventFields DEF TypeOK, ChainTypes, MenuEvent
        <4> HIDE DEF first
        <4>3. QED
          BY <4>1, <4>2 DEF Clicked, Returns, MenuItems
      <3>2. /\ ~IsDiscard(ShowMenu(menu)) /\ ~IsDiscard(ShowMenu(menu'))
            /\ \A kind \in {"EnableRequest", "DisableRequest",
                             "DisplaySecureInputTroubleshoot",
                             "LaunchSecureInputAutoFix", "ShowSearchBar"} :
                 ~IsDiscard(Plain(kind, cur.id))
        BY DEF ShowMenu, Plain, IsDiscard
      <3>3. \A z : /\ Append(<<>>, z) = <<z>>
                   /\ Append(<<ShowMenu(menu)>>, z) = <<ShowMenu(menu), z>>
        <4>1. ASSUME NEW a, NEW z
              PROVE  Append(<<>>, z) = <<z>> /\ Append(<<a>>, z) = <<a, z>>
          <5> DEFINE S == {a, z}
                     none == <<>>
                     one  == <<a>>
                     last == <<z>>
                     two  == <<a, z>>
          <5>1. /\ none \in Seq(S) /\ one \in Seq(S)
                /\ last \in Seq(S) /\ two \in Seq(S) /\ z \in S
                /\ Len(none) = 0 /\ Len(one) = 1 /\ one[1] = a
                /\ Len(last) = 1 /\ last[1] = z
                /\ Len(two) = 2 /\ two[1] = a /\ two[2] = z
            OBVIOUS
          <5> HIDE DEF S, none, one, last, two
          <5>2. Append(none, z) = last
            <6>1. /\ Append(none, z) \in Seq(S) /\ Len(Append(none, z)) = 1
                  /\ Append(none, z)[1] = z
              BY <5>1, AppendProperties
            <6>2. QED
              BY <5>1, <6>1, SeqEqual
          <5>3. Append(one, z) = two
            <6>1. /\ Append(one, z) \in Seq(S)
                  /\ Len(Append(one, z)) = Len(one) + 1
                  /\ \A i \in 1..Len(one) : Append(one, z)[i] = one[i]
                  /\ Append(one, z)[Len(one) + 1] = z
              <7>1. one \in Seq(S) /\ z \in S
                BY <5>1
              <7>2. QED
                BY <7>1, AppendProperties
            <6>2. /\ Len(Append(one, z)) = Len(two)
                  /\ \A i \in 1..Len(Append(one, z)) :
                        Append(one, z)[i] = two[i]
              <7>1. \A i \in 1..2 : i = 1 \/ i = 2
                OBVIOUS
              <7>2. Append(one, z)[1] = a /\ Append(one, z)[2] = z
                BY <5>1, <6>1
              <7>3. QED
                BY <5>1, <6>1, <7>1, <7>2
            <6>3. QED
              BY <5>1, <6>1, <6>2, SeqEqual
          <5>4. QED
            BY <5>2, <5>3 DEF none, one, last, two
        <4>2. QED
          BY <4>1
      <3>4. QED
        BY <3>1, <3>2, <3>3
    <2>2. QED
      BY <1>1, <2>1, EmitsNothing, EmitsOne, EmitsTwo
  <1>7. CASE MatchSelectOpen
    BY <1>1, <1>7 DEF MatchSelectOpen, Emits
  <1>8. CASE Cause
    <2>1. cur.kind = "MatchSelected"
      BY <1>8, SubjectOf DEF Cause
    <2>2. cur \in MatchEvent
      BY <2>1, EventFields DEF TypeOK, ChainTypes
    <2>3. ~IsDiscard(Compensated)
      BY <2>2 DEF Compensated, IsDiscard, MatchEvent
    <2>4. \/ emitted' = emitted \o <<>>
          \/ emitted' = emitted \o <<Compensated>>
      BY <1>8 DEF Cause, TriggerFirst, Returns
    <2>5. QED
      BY <1>1, <2>3, <2>4, EmitsNothing, EmitsOne
  <1>9. CASE Render
    <2>1. \/ emitted' = emitted \o <<>>
          \/ emitted' = emitted \o <<Inject("TextInject", cur.id, "error")>>
      BY <1>9 DEF Render, Consume, Returns
    <2>2. QED
      BY <1>1, <2>1, EmitsNothing, EmitsOne DEF Inject, IsDiscard
  <1>10. CASE CursorHint
    <2>1. \/ emitted' = emitted \o <<>>
          \/ emitted' = emitted \o <<Plain("CursorHintCompensation", cur.id)>>
      BY <1>10 DEF CursorHint, Returns
    <2>2. QED
      BY <1>1, <2>1, EmitsNothing, EmitsOne DEF Plain, IsDiscard
  <1>11. CASE ActionOnBody
    <2>1. emitted' = emitted \o <<Plain("MatchInjected", cur.id),
                                  DiscardBefore(nextId)>>
      BY <1>11 DEF ActionOnBody, InjectedThenDiscarded, Returns
    <2>2. Fresh(DiscardBefore(nextId)) /\ ~IsDiscard(Plain("MatchInjected", cur.id))
      BY <1>11 DEF ActionOnBody, Fresh, DiscardBefore, UpTo, Plain, IsDiscard
    <2>3. QED
      BY <1>1, <2>1, <2>2, EmitsTwo
  <1>12. CASE ActionOnHint
    <2>1. emitted' = emitted \o <<DiscardBefore(nextId)>>
      BY <1>12 DEF ActionOnHint, Returns
    <2>2. Fresh(DiscardBefore(nextId))
      BY <1>12 DEF ActionOnHint, Fresh, DiscardBefore, UpTo
    <2>3. QED
      BY <1>1, <2>1, <2>2, EmitsOne
  <1>13. CASE ActionOnUndo
    <2>1. emitted' = emitted \o <<Inject("TextInject", cur.id, "undo")>>
      BY <1>13 DEF ActionOnUndo, Returns
    <2>2. QED
      BY <1>1, <2>1, EmitsOne DEF Inject, IsDiscard
  <1>14. CASE Search
    <2>1. emitted' = emitted \o <<Detected(Matches, FALSE)>>
      BY <1>14 DEF Search, Returns
    <2>2. QED
      BY <1>1, <2>1, EmitsOne DEF Detected, IsDiscard
  <1>15. QED
    BY <1>2, <1>3, <1>4, <1>5, <1>6, <1>7, <1>8, <1>9, <1>10, <1>11, <1>12,
       <1>13, <1>14 DEF Middleware

\* When the search bar closes, the window it was open in is asked to be
\* discarded.
LEMMA CloseEmits ==
    ASSUME TypeOK, DiscardOrder, MatchSelectClose
    PROVE  Emits
  <1>1. /\ emitted \in Seq(Event) /\ nextId \in Nat
        /\ selection.start \in Nat /\ selection.start < nextId
    BY DEF TypeOK, ChainTypes, FunnelTypes, MatchSelectClose, DiscardOrder
  <1> DEFINE d == DiscardWindow(selection.start, nextId)
  <1>2. emitted' = emitted \o <<d>>
    BY DEF MatchSelectClose, Returns
  <1>3. Fresh(d)
    BY <1>1 DEF MatchSelectClose, Fresh, DiscardWindow, UpTo
  <1> HIDE DEF d
  <1>4. QED
    BY <1>1, <1>2, <1>3, EmitsOne

-----------------------------------------------------------------------------
(* The order of the discard requests *)

\* The ids that a discard request is about are numbers.
LEMMA UpToType ==
    ASSUME NEW e \in Event, IsDiscard(e)
    PROVE  /\ UpTo(e) \in Nat
           /\ e.kind = "DiscardBetween" =>
                 e.start \in Nat /\ e.end \in Nat /\ UpTo(e) = e.end
  BY EventFields DEF IsDiscard, UpTo, DiscardPreviousEvent, DiscardBetweenEvent

\* The elements of a concatenation.
LEMMA ConcatShape ==
    ASSUME NEW q \in Seq(Event), NEW e \in Seq(Event)
    PROVE  /\ Len(q \o e) = Len(q) + Len(e)
           /\ Len(q) \in Nat /\ Len(e) \in Nat
           /\ DOMAIN (q \o e) = 1 .. Len(q \o e)
           /\ \A i \in 1..Len(q \o e) :
                 /\ (q \o e)[i] \in Event
                 /\ (q \o e)[i] = IF i <= Len(q) THEN q[i]
                                  ELSE e[i - Len(q)]
  <1>1. /\ q \o e \in Seq(Event)
        /\ Len(q \o e) = Len(q) + Len(e)
        /\ \A i \in 1 .. Len(q) + Len(e) :
              (q \o e)[i] = IF i <= Len(q) THEN q[i] ELSE e[i - Len(q)]
    BY ConcatProperties
  <1>2. /\ DOMAIN (q \o e) = 1 .. Len(q \o e)
        /\ \A i \in 1..Len(q \o e) : (q \o e)[i] \in Event
    BY <1>1
  <1>3. QED
    BY <1>1, <1>2

\* The events that wait are events.
LEMMA WaitingTypes ==
    ASSUME TypeOK
    PROVE  /\ Len(Waiting) = Len(queue) + Len(emitted)
           /\ Len(queue) \in Nat /\ Len(emitted) \in Nat
           /\ DOMAIN Waiting = 1 .. Len(Waiting)
           /\ \A i \in 1..Len(Waiting) :
                 /\ Waiting[i] \in Event
                 /\ Waiting[i] = IF i <= Len(queue) THEN queue[i]
                                 ELSE emitted[i - Len(queue)]
  <1>1. queue \in Seq(Event) /\ emitted \in Seq(Event)
    BY DEF TypeOK, ChainTypes
  <1>2. QED
    BY <1>1, ConcatShape DEF Waiting

\* A step that leaves the chain and the thresholds alone keeps the order.
LEMMA LaterKeepsOrder ==
    ASSUME TypeOK, DiscardOrder,
           UNCHANGED <<queue, emitted, cur, stage, minId, maxId>>,
           nextId' \in {nextId, nextId + 1},
           pc' = "selecting" => pc = "selecting" /\ selection' = selection
    PROVE  DiscardOrder'
  <1>1. nextId \in Nat /\ minId \in Nat /\ maxId \in Nat /\ cur \in Event
        /\ selection.start \in Nat
    BY DEF TypeOK, FunnelTypes, StatusTypes, ChainTypes
  <1>2. Waiting' = Waiting
    BY DEF Waiting
  <1>3. \A e \in Event : Timely(e) /\ IsDiscard(e) =>
            /\ maxId' <= UpTo(e) /\ UpTo(e) < nextId'
            /\ e.kind = "DiscardBetween" => e.start <= e.end
    BY <1>1, UpToType DEF Timely
  <1>4. \A i \in DOMAIN Waiting : Waiting[i] \in Event
    BY WaitingTypes
  <1>5. /\ \A i \in DOMAIN Waiting' : Timely(Waiting[i])'
        /\ stage' = 0 => Timely(cur)'
    BY <1>1, <1>2, <1>3, <1>4 DEF DiscardOrder, Timely
  <1>6. ThresholdsBehindSequencer'
    BY <1>1 DEF DiscardOrder, ThresholdsBehindSequencer
  <1>7. pc' = "selecting" => selection'.start < nextId'
    BY <1>1 DEF DiscardOrder
  <1>8. /\ \A i, j \in DOMAIN Waiting' : i < j => Before(Waiting[i], Waiting[j])'
        /\ stage' = 0 => \A i \in DOMAIN Waiting' : Before(cur, Waiting[i])'
    BY <1>2 DEF DiscardOrder
  <1>9. QED
    BY <1>5, <1>6, <1>7, <1>8 DEF DiscardOrder

\* A middleware that adds a discard request last, about an id it takes, keeps
\* the order.
LEMMA EmitsKeepsOrder ==
    ASSUME TypeOK, TypeOK', DiscardOrder, Emits,
           UNCHANGED <<queue, minId, maxId>>, stage' # 0,
           nextId' \in {nextId, nextId + 1},
           pc' = "selecting" => selection'.start < nextId'
    PROVE  DiscardOrder'
  <1>1. nextId \in Nat /\ minId \in Nat /\ maxId \in Nat
    BY DEF TypeOK, FunnelTypes, StatusTypes
  <1> DEFINE n == Len(Waiting)
             m == Len(Waiting')
  <1>2. /\ n \in Nat /\ m \in Nat /\ n <= m
        /\ DOMAIN Waiting = 1..n /\ DOMAIN Waiting' = 1..m
        /\ \A i \in 1..n : Waiting[i] \in Event /\ Waiting'[i] = Waiting[i]
        /\ \A i \in 1..m : Waiting'[i] \in Event
        /\ \A i \in n + 1 .. m :
              IsDiscard(Waiting'[i]) => i = m /\ Fresh(Waiting'[i])
    <2>1. /\ Len(queue) \in Nat /\ Len(emitted) \in Nat
          /\ n = Len(queue) + Len(emitted)
          /\ DOMAIN Waiting = 1..n
          /\ \A i \in 1..n :
                /\ Waiting[i] \in Event
                /\ Waiting[i] = IF i <= Len(queue) THEN queue[i]
                                ELSE emitted[i - Len(queue)]
      BY WaitingTypes
    <2>2. /\ Len(emitted') \in Nat
          /\ m = Len(queue') + Len(emitted')
          /\ DOMAIN Waiting' = 1..m
          /\ \A i \in 1..m :
                /\ Waiting'[i] \in Event
                /\ Waiting'[i] = IF i <= Len(queue') THEN queue'[i]
                                 ELSE emitted'[i - Len(queue')]
      <3>1. queue' \in Seq(Event) /\ emitted' \in Seq(Event)
        BY DEF TypeOK, ChainTypes
      <3>2. QED
        BY <3>1, ConcatShape DEF Waiting
    <2> HIDE DEF n, m
    <2>3. n \in Nat /\ m \in Nat /\ n <= m
      BY <2>1, <2>2 DEF Emits
    <2>4. ASSUME NEW i \in 1..n PROVE Waiting'[i] = Waiting[i]
      <3>1. i \in 1..m
        BY <2>3
      <3>2. CASE i <= Len(queue)
        BY <2>1, <2>2, <3>1, <3>2
      <3>3. CASE ~(i <= Len(queue))
        <4>1. i - Len(queue) \in 1..Len(emitted)
          BY <2>1, <3>3
        <4>2. emitted'[i - Len(queue)] = emitted[i - Len(queue)]
          BY <4>1 DEF Emits
        <4>3. QED
          BY <2>1, <2>2, <3>1, <3>3, <4>2
      <3>4. QED
        BY <3>2, <3>3
    <2>5. ASSUME NEW i \in n + 1 .. m, IsDiscard(Waiting'[i])
          PROVE  i = m /\ Fresh(Waiting'[i])
      <3>1. Waiting'[i] = emitted'[i - Len(queue)]
        BY <2>1, <2>2, <2>3
      <3>2. i - Len(queue) \in Len(emitted) + 1 .. Len(emitted')
        BY <2>1, <2>2, <2>3
      <3>3. i - Len(queue) = Len(emitted') /\ Fresh(Waiting'[i])
        BY <2>5, <3>1, <3>2 DEF Emits
      <3>4. QED
        BY <2>1, <2>2, <2>3, <3>3
    <2>6. QED
      BY <2>1, <2>2, <2>3, <2>4, <2>5
  <1> HIDE DEF n, m
  <1>3. \A i \in 1..n : Timely(Waiting[i])
    BY <1>2 DEF DiscardOrder
  <1>4. ThresholdsBehindSequencer /\ ThresholdsBehindSequencer'
    BY <1>1 DEF DiscardOrder, ThresholdsBehindSequencer
  <1>5. ASSUME NEW i \in 1..m PROVE Timely(Waiting[i])'
    <2> SUFFICES ASSUME IsDiscard(Waiting'[i])
                 PROVE  /\ maxId' <= UpTo(Waiting'[i])
                        /\ UpTo(Waiting'[i]) < nextId'
                        /\ Waiting'[i].kind = "DiscardBetween" =>
                              Waiting'[i].start <= Waiting'[i].end
      BY DEF Timely, IsDiscard, UpTo
    <2>1. Waiting'[i] \in Event /\ UpTo(Waiting'[i]) \in Nat
      BY <1>2, UpToType
    <2>2. CASE i \in 1..n
      BY <1>1, <1>2, <1>3, <2>1, <2>2 DEF Timely
    <2>3. CASE i \in n + 1 .. m
      BY <1>1, <1>2, <1>4, <2>1, <2>3 DEF Fresh, ThresholdsBehindSequencer
    <2>4. QED
      BY <1>2, <2>2, <2>3
  <1>6. ASSUME NEW i \in 1..m, NEW j \in 1..m, i < j
        PROVE  Before(Waiting[i], Waiting[j])'
    <2> SUFFICES ASSUME IsDiscard(Waiting'[i]), IsDiscard(Waiting'[j])
                 PROVE  UpTo(Waiting'[i]) <= UpTo(Waiting'[j])
      BY DEF Before, IsDiscard, UpTo
    <2>1. i \in 1..n
      BY <1>2, <1>6
    <2>2. /\ Waiting'[i] = Waiting[i] /\ Waiting[i] \in Event
          /\ UpTo(Waiting[i]) \in Nat /\ UpTo(Waiting[i]) < nextId
      BY <1>2, <1>3, <2>1, UpToType DEF Timely
    <2>3. CASE j \in 1..n
      BY <1>2, <1>6, <2>1, <2>2, <2>3 DEF DiscardOrder, Before
    <2>4. CASE j \in n + 1 .. m
      BY <1>1, <1>2, <2>2, <2>4 DEF Fresh
    <2>5. QED
      BY <1>2, <2>3, <2>4
  <1>7. QED
    BY <1>2, <1>4, <1>5, <1>6 DEF DiscardOrder

-----------------------------------------------------------------------------
(* The steps, one by one *)

\* The discard middleware reads the request it gets first, and no later one
\* falls behind it.
LEMMA DiscardKeepsOrder ==
    ASSUME TypeOK, DiscardOrder, Discard
    PROVE  DiscardOrder' /\ maxId' >= maxId
  <1>1. /\ nextId \in Nat /\ minId \in Nat /\ maxId \in Nat /\ cur \in Event
        /\ emitted \in Seq(Event) /\ stage \in 0..chainEnd
    BY DEF TypeOK, FunnelTypes, StatusTypes, ChainTypes
  <1>2. stage = 0
    BY <1>1, Positions DEF Discard, At
  <1>3. /\ Timely(cur) /\ minId <= maxId /\ maxId <= nextId
        /\ \A i \in DOMAIN Waiting : Before(cur, Waiting[i])
    BY <1>2 DEF DiscardOrder, ThresholdsBehindSequencer
  <1>4. \/ minId' = minId /\ maxId' = maxId
        \/ minId' = MinAfter(cur) /\ maxId' = MaxAfter(cur)
    BY DEF Discard, discardVars
  <1>5. /\ nextId' = nextId /\ queue' = queue /\ pc' = "process"
        /\ emitted' = emitted \o <<>> /\ stage' # 0
    BY Positions
       DEF Discard, At, Pass, Consume, Returns, ChainStep, funnelVars
  <1>6. Waiting' = Waiting
    <2>1. emitted' = emitted
      BY <1>1, <1>5
    <2>2. QED
      BY <1>5, <2>1 DEF Waiting
  <1>7. \/ minId' = minId /\ maxId' = maxId
        \/ /\ IsDiscard(cur)
           /\ minId' \in Nat /\ maxId' = UpTo(cur) /\ maxId' \in Nat
           /\ maxId <= maxId' /\ maxId' < nextId
           /\ minId' = minId \/ minId' <= maxId'
    <2>1. CASE ~IsDiscard(cur)
      BY <1>4, <2>1 DEF MinAfter, MaxAfter, IsDiscard
    <2>2. CASE IsDiscard(cur)
      <3>1. /\ UpTo(cur) \in Nat /\ maxId <= UpTo(cur) /\ UpTo(cur) < nextId
            /\ cur.kind = "DiscardBetween" =>
                  cur.start \in Nat /\ cur.start <= UpTo(cur)
        BY <1>1, <1>3, <2>2, UpToType DEF Timely
      <3>2. MaxAfter(cur) = UpTo(cur)
        BY <2>2 DEF MaxAfter, UpTo, IsDiscard
      <3>3. \/ cur.kind = "DiscardBetween" /\ MinAfter(cur) = cur.start
            \/ MinAfter(cur) = minId
        BY DEF MinAfter
      <3>4. QED
        BY <1>1, <1>4, <2>2, <3>1, <3>2, <3>3
    <2>3. QED
      BY <2>1, <2>2
  <1>8. ThresholdsBehindSequencer' /\ maxId' >= maxId
    BY <1>1, <1>3, <1>5, <1>7 DEF ThresholdsBehindSequencer
  <1>9. ASSUME NEW i \in DOMAIN Waiting PROVE Timely(Waiting[i])'
    <2> SUFFICES ASSUME IsDiscard(Waiting[i])
                 PROVE  /\ maxId' <= UpTo(Waiting[i])
                        /\ UpTo(Waiting[i]) < nextId
                        /\ Waiting[i].kind = "DiscardBetween" =>
                              Waiting[i].start <= Waiting[i].end
      BY <1>5, <1>6 DEF Timely, IsDiscard, UpTo
    <2>1. /\ maxId <= UpTo(Waiting[i]) /\ UpTo(Waiting[i]) < nextId
          /\ Waiting[i].kind = "DiscardBetween" =>
                Waiting[i].start <= Waiting[i].end
      BY DEF DiscardOrder, Timely
    <2>2. IsDiscard(cur) => UpTo(cur) <= UpTo(Waiting[i])
      BY <1>3 DEF Before
    <2>3. QED
      BY <1>7, <2>1, <2>2
  <1>10. \A i, j \in DOMAIN Waiting' : i < j => Before(Waiting[i], Waiting[j])'
    BY <1>6 DEF DiscardOrder
  <1>11. QED
    BY <1>5, <1>6, <1>8, <1>9, <1>10 DEF DiscardOrder

\* What the other middlewares do besides adding to emitted.
LEMMA MiddlewareFrame ==
    ASSUME TypeOK, Middleware, ~Discard
    PROVE  /\ UNCHANGED <<queue, minId, maxId>> /\ stage' # 0
           /\ nextId' \in {nextId, nextId + 1}
           /\ pc' = "selecting" => selection'.start < nextId'
  <1>1. nextId \in Nat /\ stage \in 0..chainEnd
    BY DEF TypeOK, FunnelTypes, ChainTypes
  <1>2. CASE MatchSelectOpen
    <2>1. stage # 0
      BY <1>2, Positions DEF MatchSelectOpen, At, LooksAt
    <2>2. selection'.start = nextId
      BY <1>2 DEF MatchSelectOpen
    <2>3. QED
      BY <1>1, <1>2, <2>1, <2>2 DEF MatchSelectOpen, discardVars
  <1>3. CASE ~MatchSelectOpen
    <2>1. /\ UNCHANGED <<queue, minId, maxId>>
          /\ nextId' \in {nextId, nextId + 1}
      BY <1>3
         DEF Middleware, Discard, DisableOnKey, DisableOnRequest, ToggledTo,
             IconUpdate, AltCodeSynthesizer, MatcherOnKey, MatcherOnMouse,
             MatcherOnInjection, MatcherRest, MatchExec, Suppress,
             ContextMenu, HotKey, MatchSelectAtOnce, Cause, OpenConfig,
             Multiplex, StatsOnRequest, StatsOnDiscard, StatsOnInjection,
             StatsRest, Render, ImageResolve, CursorHint, Exit,
             UndoOnExpansion, UndoOnKey, UndoRest, ActionOnBody,
             ActionOnHint, ActionOnTrigger, ActionOnUndo, ActionRest,
             Search, Markdown, Stateless, ChainStep, funnelVars, discardVars
    <2>2. pc' # "selecting"
      BY <1>3
         DEF Middleware, Discard, DisableOnKey, DisableOnRequest, ToggledTo,
             IconUpdate, AltCodeSynthesizer, MatcherOnKey, MatcherOnMouse,
             MatcherOnInjection, MatcherRest, MatchExec, Suppress,
             ContextMenu, HotKey, MatchSelectAtOnce, Cause, OpenConfig,
             Multiplex, StatsOnRequest, StatsOnDiscard, StatsOnInjection,
             StatsRest, Render, ImageResolve, CursorHint, Exit,
             UndoOnExpansion, UndoOnKey, UndoRest, ActionOnBody,
             ActionOnHint, ActionOnTrigger, ActionOnUndo, Search, Markdown,
             Stateless, ChainStep, At
    <2>3. \E p \in 1..22 : \E e, out : Returns(p, e, out)
      <3>1. /\ DisableOnKey \/ DisableOnRequest =>
                  \E e, out : Returns(disable, e, out)
            /\ IconUpdate => \E e, out : Returns(icon_status, e, out)
            /\ AltCodeSynthesizer => \E e, out : Returns(alt_code, e, out)
            /\ MatcherOnKey \/ MatcherOnMouse \/ MatcherOnInjection =>
                  \E e, out : Returns(matcher, e, out)
            /\ MatchExec => \E e, out : Returns(match_exec, e, out)
            /\ Suppress => \E e, out : Returns(suppress, e, out)
            /\ HotKey => \E e, out : Returns(hotkey, e, out)
            /\ MatchSelectAtOnce =>
                  \E e, out : Returns(match_select, e, out)
        BY DEF DisableOnKey, DisableOnRequest, ToggledTo, IconUpdate,
               AltCodeSynthesizer, MatcherOnKey, MatcherOnMouse,
               MatcherOnInjection, Advance, MatchExec, Suppress, HotKey,
               MatchSelectAtOnce, Pass, Consume
      <3>2. ContextMenu => \E e, out : Returns(context_menu, e, out)
        <4>1. \A item, first :
                 Clicked(item, first) => \E e, out : Returns(context_menu, e, out)
          BY DEF Clicked
        <4>2. QED
          BY <4>1 DEF ContextMenu
      <3>3. /\ Cause => \E e, out : Returns(cause, e, out)
            /\ OpenConfig => \E e, out : Returns(open_config, e, out)
            /\ Multiplex => \E e, out : Returns(multiplex, e, out)
            /\ StatsOnRequest \/ StatsOnDiscard \/ StatsOnInjection =>
                  \E e, out : Returns(stats, e, out)
            /\ Render => \E e, out : Returns(render, e, out)
            /\ ImageResolve => \E e, out : Returns(image_resolve, e, out)
            /\ CursorHint => \E e, out : Returns(cursor_hint, e, out)
            /\ Exit => \E e, out : Returns(exit, e, out)
            /\ UndoOnExpansion \/ UndoOnKey =>
                  \E e, out : Returns(undo, e, out)
            /\ ActionOnBody \/ ActionOnHint \/ ActionOnTrigger
                  \/ ActionOnUndo => \E e, out : Returns(action, e, out)
            /\ Search => \E e, out : Returns(search, e, out)
            /\ Markdown => \E e, out : Returns(markdown, e, out)
        BY DEF Cause, TriggerFirst, OpenConfig, Multiplex, StatsOnRequest,
               StatsOnDiscard, StatsOnInjection, StatsRest, Render,
               ImageResolve, ImageResolved, CursorHint, Exit,
               UndoOnExpansion, UndoOnKey, ActionOnBody, ActionOnHint,
               ActionOnTrigger, ActionOnUndo, Search, Markdown, Pass, Consume
      <3>4. QED
        BY <1>3, <3>1, <3>2, <3>3, InChain DEF Middleware
    <2>4. stage' # 0
      BY <2>3, Positions DEF Returns
    <2>5. QED
      BY <2>1, <2>2, <2>4
  <1>4. QED
    BY <1>2, <1>3

\* So the middlewares keep the order.
LEMMA MiddlewareKeepsOrder ==
    ASSUME TypeOK, ControlOK, DiscardOrder, Middleware
    PROVE  DiscardOrder' /\ maxId' >= maxId
  <1>1. CASE Discard
    BY <1>1, DiscardKeepsOrder
  <1>2. CASE ~Discard
    <2>1. TypeOK' /\ Emits
      BY MiddlewareTypes, MiddlewareEmits
    <2>2. DiscardOrder'
      BY <1>2, <2>1, MiddlewareFrame, EmitsKeepsOrder
    <2>3. maxId' = maxId /\ maxId \in Nat
      BY <1>2, MiddlewareFrame DEF TypeOK, StatusTypes
    <2>4. QED
      BY <2>2, <2>3
  <1>3. QED
    BY <1>1, <1>2

\* So does the answer of the search bar.
LEMMA CloseKeepsOrder ==
    ASSUME TypeOK, ControlOK, DiscardOrder, MatchSelectClose
    PROVE  DiscardOrder' /\ maxId' >= maxId
  <1>1. TypeOK' /\ Emits
    BY MatchSelectCloseTypes, CloseEmits
  <1>2. /\ UNCHANGED <<queue, minId, maxId>> /\ stage' # 0
        /\ nextId' = nextId + 1 /\ pc' = "process"
    BY Positions DEF MatchSelectClose, Returns, discardVars
  <1>3. DiscardOrder'
    BY <1>1, <1>2, EmitsKeepsOrder
  <1>4. QED
    BY <1>2, <1>3 DEF TypeOK, StatusTypes

\* The event that is taken next was the first of those waiting.
LEMMA EndOfChainKeepsOrder ==
    ASSUME TypeOK, DiscardOrder, EndOfChain
    PROVE  DiscardOrder' /\ maxId' >= maxId
  <1>1. /\ queue \in Seq(Event) /\ emitted \in Seq(Event) /\ maxId \in Nat
    BY DEF TypeOK, ChainTypes, StatusTypes
  <1>2. /\ UNCHANGED <<nextId, minId, maxId>> /\ emitted' = <<>>
        /\ pc' # "selecting"
    BY DEF EndOfChain, funnelVars, discardVars
  <1>3. Waiting \in Seq(Event)
    BY <1>1, ConcatProperties DEF Waiting
  <1>4. CASE Waiting = <<>>
    <2>1. queue' = <<>> /\ cur' = Plain("NOOP", 0)
      BY <1>4 DEF EndOfChain, Waiting
    <2>2. Waiting' = <<>> /\ DOMAIN <<>> = {}
      BY <1>2, <2>1 DEF Waiting
    <2>3. ~IsDiscard(cur')
      BY <2>1 DEF Plain, IsDiscard
    <2>4. QED
      BY <1>1, <1>2, <2>2, <2>3
         DEF DiscardOrder, ThresholdsBehindSequencer, Timely, Before,
             IsDiscard
  <1>5. CASE Waiting # <<>>
    <2>1. cur' = Head(Waiting) /\ queue' = Tail(Waiting)
      BY <1>5 DEF EndOfChain, Waiting
    <2>2. Waiting' = Tail(Waiting)
      <3>1. Tail(Waiting) \in Seq(Event)
        BY <1>3, <1>5, HeadTailProperties
      <3>2. Tail(Waiting) \o <<>> = Tail(Waiting)
        BY <3>1, ConcatEmptySeq
      <3>3. QED
        BY <1>2, <2>1, <3>2 DEF Waiting
    <2> DEFINE w == Waiting
               n == Len(Waiting)
    <2>3. /\ n \in Nat /\ n >= 1 /\ DOMAIN w = 1..n
          /\ cur' = w[1] /\ Waiting' \in Seq(Event)
          /\ Len(Waiting') = n - 1
          /\ \A i \in 1..Len(Waiting') : Waiting'[i] = w[i + 1]
      BY <1>3, <1>5, <2>1, <2>2, HeadTailProperties
    <2> HIDE DEF n
    <2>4. /\ DOMAIN Waiting' = 1..n - 1
          /\ \A i \in DOMAIN Waiting' :
                i + 1 \in DOMAIN w /\ Waiting'[i] = w[i + 1]
      BY <2>3
    <2>5. /\ Timely(cur)'
          /\ \A i \in DOMAIN Waiting' : Timely(Waiting[i])'
      BY <1>2, <2>3, <2>4
         DEF DiscardOrder, Timely, IsDiscard, UpTo
    <2>6. ASSUME NEW i \in DOMAIN Waiting'
          PROVE  Before(cur, Waiting[i])'
      <3>1. /\ 1 \in DOMAIN w /\ i + 1 \in DOMAIN w /\ 1 < i + 1
            /\ cur' = w[1] /\ Waiting'[i] = w[i + 1]
        BY <2>3, <2>4
      <3>2. Before(w[1], w[i + 1])
        BY <3>1 DEF DiscardOrder
      <3>3. QED
        BY <3>1, <3>2 DEF Before, IsDiscard, UpTo
    <2>7. ASSUME NEW i \in DOMAIN Waiting', NEW j \in DOMAIN Waiting', i < j
          PROVE  Before(Waiting[i], Waiting[j])'
      <3>1. /\ i + 1 \in DOMAIN w /\ j + 1 \in DOMAIN w /\ i + 1 < j + 1
            /\ Waiting'[i] = w[i + 1] /\ Waiting'[j] = w[j + 1]
        BY <2>3, <2>4, <2>7
      <3>2. Before(w[i + 1], w[j + 1])
        BY <3>1 DEF DiscardOrder
      <3>3. QED
        BY <3>1, <3>2 DEF Before, IsDiscard, UpTo
    <2>8. ThresholdsBehindSequencer'
      BY <1>2 DEF DiscardOrder, ThresholdsBehindSequencer
    <2>9. QED
      BY <1>1, <1>2, <2>5, <2>6, <2>7, <2>8 DEF DiscardOrder
  <1>6. QED
    BY <1>4, <1>5

\* What is received from outside the engine is never a discard request.
LEMMA NoDiscardReceived ==
    /\ \A e \in DetectEvent : ~IsDiscard(e)
    /\ \A e \in SourceEvent : ~IsDiscard(e)
  BY DEF DetectEvent, KeyEvent, MouseEvent, SourceEvent, MenuEvent, IsDiscard

LEMMA ReceiveKeepsOrder ==
    ASSUME TypeOK, DiscardOrder, Receive
    PROVE  DiscardOrder' /\ maxId' >= maxId
  <1>1. /\ nextId \in Nat /\ maxId \in Nat
        /\ keyboard \in Seq(DetectEvent) /\ chan \in [Sources -> Seq(SourceEvent)]
    BY DEF TypeOK, FunnelTypes, StatusTypes
  <1>2. /\ nextId' \in {nextId, nextId + 1}
        /\ UNCHANGED <<minId, maxId>> /\ pc = "receive"
    BY DEF Receive, ReceiveDetected, ReceiveRequest, discardVars
  <1>3. ASSUME Skipped PROVE DiscardOrder'
    <2>1. UNCHANGED <<queue, emitted, cur, stage, pc, selection>>
      BY <1>3 DEF Skipped, chainVars
    <2>2. QED
      BY <1>2, <2>1, LaterKeepsOrder
  <1>4. ASSUME NEW e \in Event, ~IsDiscard(e), Start(e) PROVE DiscardOrder'
    <2>1. /\ cur' = e /\ stage' = 0 /\ pc' = "process"
          /\ queue' = queue /\ emitted' = emitted
      BY <1>4 DEF Start
    <2>2. Waiting' = Waiting
      BY <2>1 DEF Waiting
    <2>3. \A i \in DOMAIN Waiting : Timely(Waiting[i])'
      <3> TAKE i \in DOMAIN Waiting
      <3>1. Timely(Waiting[i]) /\ Waiting[i] \in Event
        BY WaitingTypes DEF DiscardOrder
      <3>2. IsDiscard(Waiting[i]) => UpTo(Waiting[i]) \in Nat
        BY <3>1, UpToType
      <3>3. QED
        BY <1>1, <1>2, <2>2, <3>1, <3>2 DEF Timely, IsDiscard, UpTo
    <2>4. Timely(cur)' /\ \A i \in DOMAIN Waiting : Before(cur, Waiting[i])'
      BY <1>4, <2>1 DEF Timely, Before, IsDiscard
    <2>5. \A i, j \in DOMAIN Waiting : i < j => Before(Waiting[i], Waiting[j])'
      BY <2>2 DEF DiscardOrder
    <2>6. ThresholdsBehindSequencer'
      BY <1>1, <1>2
         DEF DiscardOrder, ThresholdsBehindSequencer, TypeOK, StatusTypes
    <2>7. QED
      BY <2>1, <2>2, <2>3, <2>4, <2>5, <2>6 DEF DiscardOrder
  <1>5. DiscardOrder'
    <2>1. CASE ReceiveDetected
      <3>1. Head(keyboard) \in DetectEvent
        BY <1>1, <2>1, HeadTailProperties DEF ReceiveDetected
      <3>2. Head(keyboard) \in Event /\ ~IsDiscard(Head(keyboard))
        BY <3>1, DetectEventIsEvent, NoDiscardReceived
      <3>3. Skipped \/ Start(Head(keyboard))
        BY <2>1 DEF ReceiveDetected
      <3>4. QED
        BY <1>3, <1>4, <3>2, <3>3
    <2>2. ASSUME NEW s \in Sources, ReceiveRequest(s) PROVE DiscardOrder'
      <3>1. Head(chan[s]) \in SourceEvent
        BY <1>1, <2>2, HeadTailProperties DEF ReceiveRequest
      <3>2. Numbered(Head(chan[s])) \in SourceEvent
        BY <1>1, <3>1, SourceEventIsEvent DEF Numbered
      <3>3. /\ Numbered(Head(chan[s])) \in Event
            /\ ~IsDiscard(Numbered(Head(chan[s])))
        BY <3>2, SourceEventIsEvent, NoDiscardReceived
      <3>4. Skipped \/ Start(Numbered(Head(chan[s])))
        BY <2>2 DEF ReceiveRequest
      <3>5. QED
        BY <1>3, <1>4, <3>3, <3>4
    <2>3. QED
      BY <2>1, <2>2 DEF Receive
  <1>6. QED
    BY <1>1, <1>2, <1>5

LEMMA OtherStepsKeepOrder ==
    ASSUME TypeOK, DiscardOrder, Environment \/ Dispatch \/ UNCHANGED vars
    PROVE  DiscardOrder' /\ maxId' >= maxId
  <1>1. nextId \in Nat /\ maxId \in Nat
    BY DEF TypeOK, FunnelTypes, StatusTypes
  <1>2. /\ UNCHANGED <<queue, emitted, cur, stage, minId, maxId>>
        /\ nextId' \in {nextId, nextId + 1}
        /\ pc' = "selecting" => pc = "selecting" /\ selection' = selection
    <2>1. CASE Environment
      BY <2>1
         DEF Environment, Detect, DetectKey, DetectMouse, DetectHotKey,
             DetectAllModifiersReleased, Enqueue, Send, ModifierOutdated,
             chainVars, discardVars
    <2>2. CASE Dispatch
      BY <2>2 DEF Dispatch, funnelVars, discardVars
    <2>3. CASE UNCHANGED vars
      BY <2>3 DEF vars, funnelVars, chainVars, discardVars
    <2>4. QED
      BY <2>1, <2>2, <2>3
  <1>3. QED
    BY <1>1, <1>2, LaterKeepsOrder

\* Every step keeps the order and raises the upper threshold only.
LEMMA OrderNext ==
    ASSUME TypeOK, ControlOK, DiscardOrder, [Next]_vars
    PROVE  DiscardOrder' /\ maxId' >= maxId
  BY MiddlewareKeepsOrder, CloseKeepsOrder, EndOfChainKeepsOrder,
     ReceiveKeepsOrder, OtherStepsKeepOrder
     DEF Next, EngineStep

\* At first nothing is to be discarded.
LEMMA OrderInit == Init => DiscardOrder
  <1> SUFFICES ASSUME Init PROVE DiscardOrder
    OBVIOUS
  <1>1. /\ minId = 0 /\ maxId = 0 /\ nextId = 0 /\ pc = "receive"
        /\ queue = <<>> /\ emitted = <<>> /\ cur = Plain("NOOP", 0)
    BY DEF Init
  <1>2. Waiting = <<>> /\ DOMAIN <<>> = {}
    BY <1>1 DEF Waiting
  <1>3. ~IsDiscard(cur)
    BY <1>1 DEF Plain, IsDiscard
  <1>4. QED
    BY <1>1, <1>2, <1>3
       DEF DiscardOrder, ThresholdsBehindSequencer, Timely, Before

-----------------------------------------------------------------------------

\* The requests to discard reach the discard middleware in the order of the
\* ids they were made with, and its thresholds stay in order and behind the
\* sequencer, however the threads interleave.
THEOREM DiscardsInOrder == Spec => []DiscardOrder
  <1>1. Init => DiscardOrder
    BY OrderInit
  <1>2. TypeOK /\ ControlOK /\ DiscardOrder /\ [Next]_vars => DiscardOrder'
    BY OrderNext
  <1>3. QED
    BY <1>1, <1>2, TypeCorrect, PTL DEF Spec

\* No step of any thread lowers the upper threshold of the discard middleware:
\* what was discarded as old stays discarded.
THEOREM ThresholdNeverFalls == Spec => ThresholdGrows
  <1>1. TypeOK /\ ControlOK /\ DiscardOrder /\ [Next]_vars
            => [maxId' >= maxId]_vars
    BY OrderNext
  <1>2. QED
    BY <1>1, TypeCorrect, DiscardsInOrder, PTL DEF Spec, ThresholdGrows

-----------------------------------------------------------------------------
(* What the middlewares make of an event *)

OnOff   == {"Enabled", "Disabled"}
OnOffOf(on) == IF on THEN "Enabled" ELSE "Disabled"
Toggles == {"EnableRequest", "DisableRequest", "ToggleRequest"}
IsKey(e, status) == e.kind = "Keyboard" /\ e.status = status

\* The events that middleware p consumes.
Consumed(p) ==
    \/ p = disable      /\ cur.kind = "Keyboard"
    \/ p = match_exec   /\ cur.kind = "MatchExecRequest"
    \/ p = suppress     /\ cur.kind = "MatchesDetected"
    \/ p = context_menu /\ cur.kind = "ContextMenuClicked"
    \/ p = match_select /\ cur.kind = "MatchesDetected"
    \/ p = open_config  /\ cur.kind = "ShowConfigFolder"
    \/ p = multiplex    /\ cur.kind = "CauseCompensatedMatch" /\ swallowed'
    \/ p = render       /\ cur.kind = "RenderingRequested" /\ swallowed'
    \/ p = search       /\ cur.kind = "ShowSearchBar"

\* The middlewares that may let the event through as it is: the others only
\* look at events that they replace.
Passing == {discard, disable, icon_status, alt_code, matcher, suppress,
            context_menu, stats, undo}

\* What middleware p makes of the current event, if anything.
Becomes(p) ==
    \/ cur' = cur /\ p \in Passing
    \/ cur' = Plain("NOOP", cur.id) /\ Consumed(p)
    \/ /\ p = matcher /\ cur'.kind = "MatchesDetected"
       /\ IsKey(cur, Pressed) \/ cur.kind = "MatchInjected"
    \/ /\ p \in {match_exec, hotkey} /\ cur'.kind = "MatchesDetected"
       /\ cur.kind \in {"MatchExecRequest", "HotKey"}
    \/ /\ p = context_menu /\ cur' = ShowMenu(menu)
       /\ cur.kind = "TrayIconClicked"
    \/ /\ p = context_menu /\ cur'.kind = "ExitRequested"
       /\ cur.kind = "ContextMenuClicked"
    \/ /\ p = match_select /\ cur'.kind = "MatchSelected"
       /\ cur.kind = "MatchesDetected"
    \/ /\ p = cause /\ cur.kind = "MatchSelected"
       /\ cur' = IF cur.trig THEN Plain("TriggerCompensation", cur.id)
                             ELSE Compensated
    \/ /\ p = multiplex /\ cur.kind = "CauseCompensatedMatch"
       /\ \/ /\ cur'.kind \in {"RenderingRequested", "ImageRequested"}
             /\ cur'.trig = cur.trig
          \/ cur' = Inject("TextInject", cur.id, "builtin")
          \/ /\ cur'.kind \in {"ShowText", "ShowLogs", "ExitRequested",
                               "ShowSearchBar"}
             /\ swallowed'
    \/ /\ p = render /\ cur'.kind \in {"Rendered", "RenderingError"}
       /\ cur.kind = "RenderingRequested"
    \/ /\ p = image_resolve /\ cur'.kind = "ImageResolved"
       /\ cur.kind = "ImageRequested"
    \/ /\ p = cursor_hint /\ cur'.kind = "Rendered" /\ cur.kind = "Rendered"
    \/ /\ p = exit /\ cur'.kind = "Exit" /\ cur.kind = "ExitRequested"
    \/ /\ p = undo /\ cur'.kind = "Undo" /\ IsKey(cur, Pressed)
    \/ /\ p = action /\ cur.kind \in {"Rendered", "ImageResolved"}
       /\ \/ cur'.kind \in {"HtmlInject", "ImageInject", "MarkdownInject"}
          \/ cur' = Inject("TextInject", cur.id, "body")
    \/ \E why \in {"hint", "trigger", "undo"} :
          /\ p = action /\ cur' = Inject("KeySequenceInject", cur.id, why)
          /\ cur.kind = CASE why = "hint"    -> "CursorHintCompensation"
                          [] why = "trigger" -> "TriggerCompensation"
                          [] why = "undo"    -> "Undo"
    \/ /\ p = markdown /\ cur'.kind = "HtmlInject"
       /\ cur.kind = "MarkdownInject"

\* The events that middleware p dispatches while it handles the current one.
Spawns(p, x) ==
    \/ /\ p = disable /\ x.kind = OnOffOf(enabled')
       /\ cur.kind \in Toggles \/ IsKey(cur, Released)
    \/ /\ p = icon_status /\ x.kind = "IconStatusChange"
       /\ cur.kind \in StatusChanges
    \/ /\ p = alt_code /\ x = Inject("TextInject", cur.id, "altcode")
       /\ IsKey(cur, Released)
    \/ /\ p = context_menu /\ x.kind = "ShowContextMenu"
       /\ cur.kind \in StatusChanges \/ ~menuReady
    \/ /\ p = context_menu /\ cur'.kind = "NOOP"
       /\ x.kind \in {"EnableRequest", "DisableRequest", "ShowSearchBar",
                      "DisplaySecureInputTroubleshoot",
                      "LaunchSecureInputAutoFix"}
       /\ cur.kind = "ContextMenuClicked"
    \/ /\ p = match_select /\ x.kind = "DiscardBetween"
       /\ cur.kind = "MatchesDetected"
    \/ /\ p = cause /\ x = Compensated /\ cur.trig
       /\ cur.kind = "MatchSelected"
       /\ cur' = Plain("TriggerCompensation", cur.id)
    \/ /\ p = render /\ x = Inject("TextInject", cur.id, "error")
       /\ cur.kind = "RenderingRequested" /\ cur'.kind = "RenderingError"
    \/ /\ p = cursor_hint /\ x.kind = "CursorHintCompensation"
       /\ cur.kind = "Rendered"
    \/ /\ p = action /\ x.kind \in {"MatchInjected", "DiscardPrevious"}
       /\ cur.kind \in {"Rendered", "ImageResolved"}
    \/ /\ p = action /\ x.kind = "DiscardPrevious"
       /\ cur.kind = "CursorHintCompensation"
    \/ /\ p = action /\ x = Inject("TextInject", cur.id, "undo")
       /\ cur.kind = "Undo"
    \/ /\ p = search /\ x.kind = "MatchesDetected"
       /\ cur.kind = "ShowSearchBar" /\ cur'.kind = "NOOP"

\* Two events are dispatched at once by the menu, whose first one makes it
\* show itself, and by an injection.
Pairs(out) ==
    /\ Len(out) <= 2
    /\ Len(out) = 2 =>
          \/ /\ out[1].kind = "ShowContextMenu" /\ ~menuReady
             /\ ~IsDiscard(out[2])
          \/ /\ out[1].kind = "MatchInjected"
             /\ out[2].kind = "DiscardPrevious"

\* What middleware p makes of the current event while it dispatches out.
Makes(p, out) ==
    /\ Becomes(p) /\ cur'.id = cur.id
    /\ \A k \in 1..Len(out) : Spawns(p, out[k]) /\ out[k].id = cur.id
    /\ Pairs(out)

\* An event that stays as it is comes back alone.
LEMMA Silent == ASSUME NEW p PROVE Becomes(p) /\ cur'.id = cur.id => Makes(p, <<>>)
  <1>1. Len(<<>>) = 0 /\ \A k \in 1..0 : FALSE
    OBVIOUS
  <1>2. QED
    BY <1>1 DEF Makes, Pairs

\* One event is dispatched, with the id of the current one.
LEMMA SpawnsOne ==
    ASSUME NEW p, Becomes(p), cur'.id = cur.id,
           NEW x, Spawns(p, x), x.id = cur.id
    PROVE  Makes(p, <<x>>)
  <1>1. Len(<<x>>) = 1 /\ <<x>>[1] = x /\ \A k \in 1..1 : k = 1
    OBVIOUS
  <1>2. QED
    BY <1>1 DEF Makes, Pairs

\* Two events are dispatched, in this order.
LEMMA SpawnsTwo ==
    ASSUME NEW p, Becomes(p), cur'.id = cur.id,
           NEW x, Spawns(p, x), x.id = cur.id,
           NEW y, Spawns(p, y), y.id = cur.id,
           \/ x.kind = "ShowContextMenu" /\ ~menuReady /\ ~IsDiscard(y)
           \/ x.kind = "MatchInjected" /\ y.kind = "DiscardPrevious"
    PROVE  Makes(p, <<x, y>>)
  <1>1. /\ Len(<<x, y>>) = 2 /\ <<x, y>>[1] = x /\ <<x, y>>[2] = y
        /\ \A k \in 1..2 : k = 1 \/ k = 2
    OBVIOUS
  <1>2. QED
    BY <1>1 DEF Makes, Pairs

\* The middleware at position p has returned the event, and dispatched out.
Made(p, out) == At(p) /\ Returns(p, cur', out) /\ Makes(p, out)

\* The matchers and the hotkeys dispatch nothing and may detect a match.
LEMMA MatchersMake ==
    ASSUME TypeOK, MatcherOnKey \/ MatcherOnMouse \/ MatcherOnInjection
    PROVE  Made(matcher, <<>>)
  <1>1. /\ cur \in Event /\ history \in Seq(MStates)
    BY DEF TypeOK, ChainTypes, MatchTypes
  <1>2. At(matcher)
    BY DEF MatcherOnKey, MatcherOnMouse, MatcherOnInjection
  <1>3. CASE Pass(matcher)
    BY <1>2, <1>3, Silent DEF Made, Pass, Becomes, Passing, Returns
  <1>4. ASSUME NEW input \in MatcherInput, Advance(input),
               IsKey(cur, Pressed) \/ cur.kind = "MatchInjected"
        PROVE  Made(matcher, <<>>)
    <2> DEFINE step == MatcherStep[LastState, input]
               hit == [kind |-> "MatchesDetected", id |-> cur.id,
                       matches |-> step.hits, trig |-> TRUE]
    <2>1. Returns(matcher, IF step.hits = {} THEN cur ELSE hit, <<>>)
      BY <1>4 DEF Advance
    <2>2. hit.kind = "MatchesDetected" /\ hit.id = cur.id
      OBVIOUS
    <2> HIDE DEF step, hit
    <2>3. Becomes(matcher) /\ cur'.id = cur.id
      BY <1>4, <2>1, <2>2 DEF Becomes, Passing, Returns
    <2>4. Returns(matcher, cur', <<>>)
      BY <2>1 DEF Returns
    <2>5. QED
      BY <1>2, <2>3, <2>4, Silent DEF Made
  <1>5. CASE MatcherOnKey
    <2>1. cur.status \in Status
      BY <1>1, <1>5, EventFields DEF MatcherOnKey, KeyEvent
    <2>2. Pass(matcher) \/ (cur.key \in MatcherInput /\ IsKey(cur, Pressed) /\ Advance(cur.key))
      BY <1>5, <2>1 DEF MatcherOnKey, IsKey, Status, MatcherInput
    <2>3. QED
      BY <1>3, <1>4, <2>2
  <1>6. CASE MatcherOnMouse
    BY <1>3, <1>6 DEF MatcherOnMouse
  <1>7. CASE MatcherOnInjection
    BY <1>4, <1>7 DEF MatcherOnInjection, MatcherInput
  <1>8. QED
    BY <1>5, <1>6, <1>7

\* The middlewares that only replace, or only look, dispatch nothing.
LEMMA SilentOnesMake ==
    ASSUME TypeOK,
           \/ MatchExec \/ Suppress \/ HotKey \/ MatchSelectAtOnce
           \/ OpenConfig \/ Multiplex \/ StatsOnRequest \/ StatsOnDiscard
           \/ StatsOnInjection \/ ImageResolve \/ Exit \/ UndoOnExpansion
           \/ UndoOnKey \/ ActionOnTrigger \/ Markdown
    PROVE  \E p \in 1..22 : Made(p, <<>>)
  <1>1. cur \in Event /\ cur.id \in Nat
    BY EventFields DEF TypeOK, ChainTypes
  <1>2. ASSUME NEW p \in 1..22, At(p), Returns(p, cur', <<>>), Becomes(p),
               cur'.id = cur.id
        PROVE  \E q \in 1..22 : Made(q, <<>>)
    BY <1>2, Silent DEF Made
  <1>3. ASSUME NEW p \in 1..22, p \in Passing, At(p), Pass(p)
        PROVE  \E q \in 1..22 : Made(q, <<>>)
    BY <1>2, <1>3 DEF Pass, Returns, Becomes
  <1>4. ASSUME NEW p \in 1..22, At(p), Consume(p), Consumed(p)
        PROVE  \E q \in 1..22 : Made(q, <<>>)
    BY <1>2, <1>4 DEF Consume, Returns, Becomes, Plain
  <1>5. CASE MatchExec
    <2>1. At(match_exec) /\ cur.kind = "MatchExecRequest"
      BY <1>5, SubjectOf DEF MatchExec
    <2>2. \/ Consume(match_exec)
          \/ Returns(match_exec, Detected(cur.matches, TRUE), <<>>)
      BY <1>5 DEF MatchExec
    <2>3. CASE Consume(match_exec)
      BY <1>4, <2>1, <2>3, InChain DEF Consumed
    <2>4. CASE Returns(match_exec, Detected(cur.matches, TRUE), <<>>)
      BY <1>2, <2>1, <2>4, InChain DEF Returns, Detected, Becomes
    <2>5. QED
      BY <2>2, <2>3, <2>4
  <1>6. CASE Suppress
    BY <1>3, <1>4, <1>6, SubjectOf, InChain DEF Suppress, Consumed, Passing
  <1>7. CASE HotKey
    BY <1>2, <1>7, SubjectOf, InChain
       DEF HotKey, Returns, Detected, Becomes
  <1>8. CASE MatchSelectAtOnce
    <2>1. At(match_select) /\ cur.kind = "MatchesDetected"
      BY <1>8, SubjectOf DEF MatchSelectAtOnce
    <2>2. CASE Consume(match_select)
      BY <1>4, <2>1, <2>2, InChain DEF Consumed
    <2>3. ASSUME NEW m,
                 Returns(match_select, Selected(m, cur.trig, cur.id), <<>>)
          PROVE  \E p \in 1..22 : Made(p, <<>>)
      BY <1>2, <2>1, <2>3, InChain DEF Returns, Selected, Becomes
    <2>4. QED
      BY <1>8, <2>2, <2>3 DEF MatchSelectAtOnce
  <1>9. CASE OpenConfig
    <2>1. At(open_config) => cur.kind = "ShowConfigFolder"
      BY Positions DEF At, LooksAt, Subjects
    <2>2. QED
      BY <1>4, <1>9, <2>1, InChain DEF OpenConfig, Consumed
  <1>10. CASE Multiplex
    <2>1. /\ At(multiplex) /\ cur.kind = "CauseCompensatedMatch"
          /\ Returns(multiplex, Multiplexed(Effect[cur.m]), <<>>)
          /\ swallowed' = (swallowed \/ Effect[cur.m] \in
                  {"none", "show", "logs", "exit", "restart", "search"})
      BY <1>10, SubjectOf DEF Multiplex
    <2>2. cur \in MatchEvent
      BY <1>1, <2>1, EventFields
    <2>3. Effect[cur.m] \in Effects
      BY <2>2, EngineAssumption DEF MatchEvent
    <2> DEFINE e == Multiplexed(Effect[cur.m])
    <2>4. /\ e.id = cur.id
          /\ \/ e = Plain("NOOP", cur.id) /\ Effect[cur.m] = "none"
             \/ /\ e.kind \in {"RenderingRequested", "ImageRequested"}
                /\ e.trig = cur.trig
             \/ e = Inject("TextInject", cur.id, "builtin")
             \/ /\ e.kind \in {"ShowText", "ShowLogs", "ExitRequested",
                               "ShowSearchBar"}
                /\ Effect[cur.m] \in {"show", "logs", "exit", "restart",
                                      "search"}
      BY ZenonT(60), <2>2, <2>3
         DEF Multiplexed, Effects, Plain, Inject, ExitRequest, MatchEvent
    <2> HIDE DEF e
    <2>5. cur' = e /\ Returns(multiplex, cur', <<>>)
      BY <2>1 DEF Returns, e
    <2>6. Becomes(multiplex) /\ cur'.id = cur.id
      BY <2>1, <2>4, <2>5 DEF Becomes, Consumed
    <2>7. QED
      BY <1>2, <2>1, <2>5, <2>6, InChain
  <1>11. CASE StatsOnRequest \/ StatsOnDiscard \/ StatsOnInjection
    BY <1>3, <1>11, InChain
       DEF StatsOnRequest, StatsOnDiscard, StatsOnInjection, StatsRest,
           Passing
  <1>12. CASE ImageResolve
    BY <1>2, <1>12, SubjectOf, InChain
       DEF ImageResolve, ImageResolved, Returns, Plain, Becomes
  <1>13. CASE Exit
    <2>1. At(exit) /\ cur.kind = "ExitRequested"
      BY <1>13, SubjectOf DEF Exit
    <2>2. [cur EXCEPT !.kind = "Exit"].kind = "Exit"
          /\ [cur EXCEPT !.kind = "Exit"].id = cur.id
      BY <1>1, <2>1, EventFields DEF ExitEvent
    <2>3. QED
      BY <1>2, <1>13, <2>1, <2>2, InChain DEF Exit, Returns, Becomes
  <1>14. CASE UndoOnExpansion
    BY <1>3, <1>14, InChain DEF UndoOnExpansion, Passing
  <1>15. CASE UndoOnKey
    <2>1. \/ Pass(undo)
          \/ IsKey(cur, Pressed)
             /\ Returns(undo, [kind |-> "Undo", id |-> cur.id,
                               empty |-> record.empty], <<>>)
      BY <1>15 DEF UndoOnKey, IsKey
    <2>2. QED
      BY <1>2, <1>3, <1>15, <2>1, InChain
         DEF UndoOnKey, Returns, Becomes, Passing
  <1>16. CASE ActionOnTrigger
    <2>1. /\ At(action) /\ cur.kind = "TriggerCompensation"
          /\ Returns(action, Inject("KeySequenceInject", cur.id, "trigger"),
                     <<>>)
      BY <1>16 DEF ActionOnTrigger
    <2>2. Becomes(action) /\ cur'.id = cur.id
      BY <2>1 DEF Returns, Inject, Becomes
    <2>3. QED
      BY <1>2, <2>1, <2>2, InChain DEF Returns
  <1>17. CASE Markdown
    BY <1>2, <1>17, SubjectOf, InChain DEF Markdown, Returns, Plain, Becomes
  <1>18. QED
    BY <1>5, <1>6, <1>7, <1>8, <1>9, <1>10, <1>11, <1>12, <1>13, <1>14,
       <1>15, <1>16, <1>17

\* Sequences of one and of two events, as they are built.
LEMMA AppendShape ==
    ASSUME NEW a, NEW z
    PROVE  Append(<<>>, z) = <<z>> /\ Append(<<a>>, z) = <<a, z>>
  <1> DEFINE S == {a, z}
             none == <<>>
             one  == <<a>>
             last == <<z>>
             two  == <<a, z>>
  <1>1. /\ none \in Seq(S) /\ one \in Seq(S)
        /\ last \in Seq(S) /\ two \in Seq(S) /\ z \in S
        /\ Len(none) = 0 /\ Len(one) = 1 /\ one[1] = a
        /\ Len(last) = 1 /\ last[1] = z
        /\ Len(two) = 2 /\ two[1] = a /\ two[2] = z
    OBVIOUS
  <1> HIDE DEF S, none, one, last, two
  <1>2. Append(none, z) = last
    <2>1. /\ Append(none, z) \in Seq(S) /\ Len(Append(none, z)) = 1
          /\ Append(none, z)[1] = z
      BY <1>1, AppendProperties
    <2>2. QED
      BY <1>1, <2>1, SeqEqual
  <1>3. Append(one, z) = two
    <2>1. /\ Append(one, z) \in Seq(S)
          /\ Len(Append(one, z)) = Len(one) + 1
          /\ \A i \in 1..Len(one) : Append(one, z)[i] = one[i]
          /\ Append(one, z)[Len(one) + 1] = z
      <3>1. one \in Seq(S) /\ z \in S
        BY <1>1
      <3>2. QED
        BY <3>1, AppendProperties
    <2>2. /\ Len(Append(one, z)) = Len(two)
          /\ \A i \in 1..Len(Append(one, z)) :
                Append(one, z)[i] = two[i]
      <3>1. \A i \in 1..2 : i = 1 \/ i = 2
        OBVIOUS
      <3>2. Append(one, z)[1] = a /\ Append(one, z)[2] = z
        BY <1>1, <2>1
      <3>3. QED
        BY <1>1, <2>1, <3>1, <3>2
    <2>3. QED
      BY <1>1, <2>1, <2>2, SeqEqual
  <1>4. QED
    BY <1>2, <1>3 DEF none, one, last, two

\* What the disable middleware makes: the change of status it announces.
LEMMA DisableMakes ==
    ASSUME TypeOK, DisableOnKey \/ DisableOnRequest
    PROVE  \E out \in Seq(Event) : Made(disable, out)
  <1>1. cur \in Event /\ cur.id \in Nat /\ <<>> \in Seq(Event)
    BY EventFields DEF TypeOK, ChainTypes
  <1>2. At(disable)
    BY DEF DisableOnKey, DisableOnRequest
  <1>3. \E on, changed \in BOOLEAN :
           /\ ToggledTo(on, changed)
           /\ changed => cur.kind \in Toggles \/ IsKey(cur, Released)
    <2>1. CASE DisableOnKey
      <3>1. \/ ToggledTo(enabled, FALSE)
            \/ ToggledTo(~enabled, TRUE) /\ IsKey(cur, Released)
        BY <2>1 DEF DisableOnKey, IsKey
      <3>2. enabled \in BOOLEAN
        BY DEF TypeOK, StatusTypes
      <3>3. QED
        BY <3>1, <3>2
    <2>2. CASE DisableOnRequest
      <3>1. cur.kind \in Toggles
        BY <2>2, SubjectOf DEF DisableOnRequest, Toggles
      <3>2. enabled \in BOOLEAN
        BY DEF TypeOK, StatusTypes
      <3>3. ToggledTo(TRUE, TRUE) \/ ToggledTo(FALSE, TRUE) \/ ToggledTo(~enabled, TRUE)
        BY <2>2, <3>1 DEF DisableOnRequest, Toggles
      <3>4. QED
        BY <3>1, <3>2, <3>3
    <2>3. QED
      BY <2>1, <2>2
  <1>4. PICK on, changed \in BOOLEAN :
           /\ ToggledTo(on, changed)
           /\ changed => cur.kind \in Toggles \/ IsKey(cur, Released)
    BY <1>3
  <1> DEFINE x == Plain(OnOffOf(on), cur.id)
  <1>5. /\ enabled' = on
        /\ cur' = cur \/ (cur' = Plain("NOOP", cur.id) /\ cur.kind = "Keyboard")
        /\ Returns(disable, cur', IF changed THEN <<x>> ELSE <<>>)
    BY <1>4 DEF ToggledTo, Returns, OnOffOf
  <1>6. Becomes(disable) /\ cur'.id = cur.id
    BY <1>5 DEF Becomes, Passing, Consumed, Plain
  <1>7. CASE ~changed
    BY <1>1, <1>2, <1>5, <1>6, <1>7, Silent DEF Made
  <1>8. CASE changed
    <2>1. x \in Event /\ x.kind = OnOffOf(enabled') /\ x.id = cur.id
      BY <1>1, <1>5, PlainIsEvent DEF OnOffOf, PlainKinds, Plain
    <2>2. Spawns(disable, x)
      BY <1>4, <1>8, <2>1 DEF Spawns
    <2> HIDE DEF x
    <2>3. Makes(disable, <<x>>) /\ <<x>> \in Seq(Event)
      BY <1>6, <2>1, <2>2, SpawnsOne
    <2>4. QED
      BY <1>2, <1>5, <1>8, <2>3 DEF Made
  <1>9. QED
    BY <1>7, <1>8

\* What the icon middleware makes: the notice for the icon.
LEMMA IconMakes ==
    ASSUME TypeOK, IconUpdate
    PROVE  \E out \in Seq(Event) : Made(icon_status, out)
  <1> DEFINE x == [kind |-> "IconStatusChange", id |-> cur.id,
                   icon |-> IconOf(icon')]
  <1>1. /\ cur \in Event /\ cur.id \in Nat
        /\ At(icon_status) /\ cur.kind \in StatusChanges
        /\ Returns(icon_status, cur, <<x>>)
    BY EventFields, SubjectOf DEF TypeOK, ChainTypes, IconUpdate
  <1>2. x \in Event /\ x.kind = "IconStatusChange" /\ x.id = cur.id
    BY <1>1 DEF Event, IconEvent, IconOf, IconStatus
  <1> HIDE DEF x
  <1>3. cur' = cur /\ Becomes(icon_status)
    BY <1>1 DEF Returns, Becomes, Passing
  <1>4. Makes(icon_status, <<x>>) /\ <<x>> \in Seq(Event)
    BY <1>1, <1>2, <1>3, SpawnsOne DEF Spawns
  <1>5. QED
    BY <1>1, <1>3, <1>4 DEF Made

\* What the alt code middleware makes: the character, if digits were typed.
LEMMA AltCodeMakes ==
    ASSUME TypeOK, AltCodeSynthesizer
    PROVE  \E out \in Seq(Event) : Made(alt_code, out)
  <1> DEFINE x == Inject("TextInject", cur.id, "altcode")
  <1>1. /\ cur \in Event /\ cur.id \in Nat /\ At(alt_code)
        /\ cur.kind = "Keyboard" /\ <<>> \in Seq(Event)
    BY EventFields, SubjectOf DEF TypeOK, ChainTypes, AltCodeSynthesizer
  <1>2. x \in Event /\ x.id = cur.id
    BY <1>1, InjectIsEvent DEF Purposes, Inject
  <1>3. \/ Returns(alt_code, cur, <<>>)
        \/ IsKey(cur, Released) /\ Returns(alt_code, cur, <<x>>)
    BY <1>1 DEF AltCodeSynthesizer, Pass, IsKey
  <1>4. cur' = cur /\ Becomes(alt_code)
    BY <1>3 DEF Returns, Becomes, Passing
  <1>5. CASE Returns(alt_code, cur, <<>>)
    BY <1>1, <1>4, <1>5, Silent DEF Made
  <1>6. CASE IsKey(cur, Released) /\ Returns(alt_code, cur, <<x>>)
    <2>1. Spawns(alt_code, x)
      BY <1>6 DEF Spawns
    <2> HIDE DEF x
    <2>2. Makes(alt_code, <<x>>) /\ <<x>> \in Seq(Event)
      BY <1>2, <1>4, <2>1, SpawnsOne
    <2>3. QED
      BY <1>1, <1>4, <1>6, <2>2 DEF Made
  <1>7. QED
    BY <1>3, <1>5, <1>6

\* The last menu shown is the one of the new status.
ShowsMenu(out) ==
    /\ menu' = Follow(menu, cur.kind)
    /\ \A k \in 1..Len(out) : out[k].kind = "ShowContextMenu" =>
          \/ out[k].tray = menu'
          \/ \E l \in 1..Len(out) : k < l /\ out[l].kind = "ShowContextMenu"
    /\ \/ menu' = menu
       \/ \E k \in 1..Len(out) : out[k].kind = "ShowContextMenu"
    /\ cur'.kind = "ShowContextMenu" => cur' = cur \/ cur'.tray = menu'

\* What the context menu middleware makes: the menu, or the command chosen.
LEMMA MenuMakes ==
    ASSUME TypeOK, ContextMenu
    PROVE  \E out \in Seq(Event) : Made(context_menu, out) /\ ShowsMenu(out)
  <1>1. /\ cur \in Event /\ cur.id \in Nat /\ At(context_menu)
        /\ menu \in TrayStatus /\ menu' \in TrayStatus
        /\ menu' = Follow(menu, cur.kind)
    BY EventFields, ContextMenuTypes
       DEF TypeOK, ChainTypes, StatusTypes, ContextMenu
  <1> DEFINE s == ShowMenu(menu)
             t == ShowMenu(menu')
             first == IF menuReady THEN <<>> ELSE <<s>>
  <1>2. /\ s \in Event /\ t \in Event /\ s.id = cur.id /\ t.id = cur.id
        /\ s.kind = "ShowContextMenu" /\ t.kind = "ShowContextMenu"
        /\ s.tray = menu /\ t.tray = menu'
    BY <1>1 DEF ShowMenu, Event, ShowMenuEvent
  <1>3. \/ /\ Returns(context_menu, cur', first)
           /\ cur.kind \notin StatusChanges
           /\ \/ cur' = cur
              \/ cur' = s /\ cur.kind = "TrayIconClicked"
              \/ /\ cur.kind = "ContextMenuClicked" /\ cur'.id = cur.id
                 /\ \/ cur'.kind = "ExitRequested"
                    \/ cur' = Plain("NOOP", cur.id)
        \/ /\ Returns(context_menu, cur', Append(first, t))
           /\ cur.kind \in StatusChanges /\ cur' = cur
        \/ \E kind \in {"EnableRequest", "DisableRequest", "ShowSearchBar",
                        "DisplaySecureInputTroubleshoot",
                        "LaunchSecureInputAutoFix"} :
             /\ Returns(context_menu, cur', Append(first, Plain(kind, cur.id)))
             /\ cur.kind = "ContextMenuClicked"
             /\ cur' = Plain("NOOP", cur.id)
    <2>1. \/ cur.kind = "TrayIconClicked" /\ Returns(context_menu, s, first)
          \/ cur.kind = "ContextMenuClicked" /\ Clicked(cur.item, first)
          \/ cur.kind \in StatusChanges /\ Returns(context_menu, cur, Append(first, t))
          \/ Returns(context_menu, cur, first) /\ cur.kind \notin StatusChanges
      BY DEF ContextMenu
    <2>2. cur.kind = "ContextMenuClicked" => cur.item \in MenuItems
      BY <1>1, EventFields DEF MenuEvent
    <2> HIDE DEF first, s, t
    <2>3. \A e, out : Returns(context_menu, e, out) =>
             cur' = e /\ Returns(context_menu, cur', out)
      BY DEF Returns
    <2>4. cur.kind = "ContextMenuClicked" /\ Clicked(cur.item, first) =>
            \/ /\ Returns(context_menu, cur', first) /\ cur'.id = cur.id
               /\ \/ cur'.kind = "ExitRequested"
                  \/ cur' = Plain("NOOP", cur.id)
            \/ \E kind \in {"EnableRequest", "DisableRequest", "ShowSearchBar",
                        "DisplaySecureInputTroubleshoot",
                        "LaunchSecureInputAutoFix"} :
               /\ Returns(context_menu, cur', Append(first, Plain(kind, cur.id)))
               /\ cur' = Plain("NOOP", cur.id)
      <3> SUFFICES ASSUME Clicked(cur.item, first), cur.item \in MenuItems
                   PROVE
            \/ /\ Returns(context_menu, cur', first) /\ cur'.id = cur.id
               /\ \/ cur'.kind = "ExitRequested"
                  \/ cur' = Plain("NOOP", cur.id)
            \/ \E kind \in {"EnableRequest", "DisableRequest", "ShowSearchBar",
                        "DisplaySecureInputTroubleshoot",
                        "LaunchSecureInputAutoFix"} :
               /\ Returns(context_menu, cur', Append(first, Plain(kind, cur.id)))
               /\ cur' = Plain("NOOP", cur.id)
        BY <2>2
      <3>1. cur.item = "Exit" => Returns(context_menu, [kind |-> "ExitRequested", id |-> cur.id,
                                  mode |-> "ExitAllProcesses"], first)
        BY DEF Clicked
      <3>2. cur.item \in {"OpenEditor", "StatusHeader"} => Returns(context_menu, Plain("NOOP", cur.id), first)
        BY DEF Clicked
      <3>3. cur.item \in MenuItems \ {"Exit", "OpenEditor", "StatusHeader"} =>
         \E kind \in {"EnableRequest", "DisableRequest", "ShowSearchBar",
                        "DisplaySecureInputTroubleshoot",
                        "LaunchSecureInputAutoFix"} :
               Returns(context_menu, Plain("NOOP", cur.id), Append(first, Plain(kind, cur.id)))
        BY DEF Clicked, MenuItems
      <3>4. QED
        BY <2>3, <3>1, <3>2, <3>3 DEF Plain
    <2>5. /\ cur.kind \in {"TrayIconClicked", "ContextMenuClicked"} =>
               cur.kind \notin StatusChanges
      BY DEF StatusChanges
    <2>6. QED
      BY <2>1, <2>2, <2>3, <2>4, <2>5
  <1>4. Becomes(context_menu) /\ cur'.id = cur.id
    BY <1>2, <1>3 DEF Becomes, Passing, Consumed, Plain
  <1>5. ~menuReady => Spawns(context_menu, s)
    BY <1>2 DEF Spawns
  <1>6. \A z : /\ Append(<<>>, z) = <<z>>
               /\ Append(<<s>>, z) = <<s, z>>
    BY AppendShape
  <1>7. CASE /\ Returns(context_menu, cur', first)
             /\ cur.kind \notin StatusChanges
             /\ cur' = cur \/ cur' = s \/ cur'.kind # "ShowContextMenu"
    <2>3. menu' = menu
      BY <1>1, <1>7 DEF Follow, StatusChanges
    <2>4. cur'.kind = "ShowContextMenu" => cur' = cur \/ cur'.tray = menu'
      BY <1>2, <1>7, <2>3
    <2>1. CASE menuReady
      <3>1. Len(<<>>) = 0 /\ \A k \in 1..0 : FALSE
        OBVIOUS
      <3>2. ShowsMenu(<<>>)
        BY <1>1, <2>3, <2>4, <3>1 DEF ShowsMenu
      <3>3. QED
        BY <1>1, <1>4, <1>7, <2>1, <3>2, Silent, OutTypes DEF Made
    <2>2. CASE ~menuReady
      <3> HIDE DEF s
      <3>1. Makes(context_menu, <<s>>) /\ <<s>> \in Seq(Event)
        BY <1>2, <1>4, <1>5, <2>2, SpawnsOne
      <3>2. Len(<<s>>) = 1 /\ <<s>>[1] = s /\ \A k \in 1..1 : k = 1
        OBVIOUS
      <3>3. ShowsMenu(<<s>>)
        BY <1>1, <1>2, <2>3, <2>4, <3>2 DEF ShowsMenu
      <3>4. QED
        BY <1>1, <1>7, <2>2, <3>1, <3>3 DEF Made
    <2>5. QED
      BY <2>1, <2>2
  <1>8. ASSUME NEW z \in Event, z.id = cur.id, ~IsDiscard(z),
               Spawns(context_menu, z),
               Returns(context_menu, cur', Append(first, z)),
               \/ z.kind = "ShowContextMenu" /\ z.tray = menu'
               \/ z.kind # "ShowContextMenu" /\ menu' = menu,
               cur' = cur \/ cur'.kind # "ShowContextMenu"
        PROVE  \E out \in Seq(Event) :
                  Made(context_menu, out) /\ ShowsMenu(out)
    <2>1. CASE menuReady
      <3>4. Len(<<z>>) = 1 /\ <<z>>[1] = z /\ \A k \in 1..1 : k = 1
        OBVIOUS
      <3>5. ShowsMenu(<<z>>)
        BY <1>1, <1>8, <3>4 DEF ShowsMenu
      <3>1. Makes(context_menu, <<z>>) /\ <<z>> \in Seq(Event)
        BY <1>4, <1>8, SpawnsOne
      <3>2. Returns(context_menu, cur', <<z>>)
        BY <1>6, <1>8, <2>1
      <3>3. QED
        BY <1>1, <3>1, <3>2, <3>5 DEF Made
    <2>2. CASE ~menuReady
      <3>1. Returns(context_menu, cur', <<s, z>>)
        BY <1>6, <1>8, <2>2
      <3> HIDE DEF s
      <3>2. Makes(context_menu, <<s, z>>) /\ <<s, z>> \in Seq(Event)
        BY <1>2, <1>4, <1>5, <1>8, <2>2, SpawnsTwo
      <3>3. /\ Len(<<s, z>>) = 2 /\ <<s, z>>[1] = s /\ <<s, z>>[2] = z
            /\ 1 \in 1..2 /\ 2 \in 1..2 /\ 1 < 2
            /\ \A k \in 1..2 : k = 1 \/ k = 2
        OBVIOUS
      <3>4. ShowsMenu(<<s, z>>)
        BY <1>1, <1>2, <1>8, <3>3 DEF ShowsMenu
      <3>5. QED
        BY <1>1, <3>1, <3>2, <3>4 DEF Made
    <2>3. QED
      BY <2>1, <2>2
  <1>9. CASE /\ Returns(context_menu, cur', Append(first, t))
             /\ cur.kind \in StatusChanges /\ cur' = cur
    <2>1. Spawns(context_menu, t) /\ ~IsDiscard(t)
      BY <1>2, <1>9 DEF Spawns, IsDiscard
    <2> HIDE DEF t, first
    <2>2. QED
      BY <1>2, <1>8, <1>9, <2>1
  <1>10. ASSUME NEW kind \in {"EnableRequest", "DisableRequest",
                         "ShowSearchBar", "DisplaySecureInputTroubleshoot",
                         "LaunchSecureInputAutoFix"},
                Returns(context_menu, cur', Append(first, Plain(kind, cur.id))),
                cur.kind = "ContextMenuClicked", cur' = Plain("NOOP", cur.id)
         PROVE  \E out \in Seq(Event) :
                   Made(context_menu, out) /\ ShowsMenu(out)
    <2> DEFINE z == Plain(kind, cur.id)
    <2>1. /\ z \in Event /\ z.id = cur.id /\ ~IsDiscard(z)
          /\ Spawns(context_menu, z) /\ z.kind # "ShowContextMenu"
          /\ cur'.kind = "NOOP" /\ menu' = menu
      BY <1>1, <1>10, PlainIsEvent
         DEF PlainKinds, Plain, IsDiscard, Spawns, Follow
    <2> HIDE DEF z, first
    <2>2. QED
      BY <1>8, <1>10, <2>1 DEF z
  <1>11. QED
    BY <1>2, <1>3, <1>7, <1>9, <1>10 DEF Plain

\* What the cause middleware makes: the compensation before the match.
LEMMA CauseMakes ==
    ASSUME TypeOK, Cause
    PROVE  \E out \in Seq(Event) : Made(cause, out)
  <1>1. /\ cur \in Event /\ cur.id \in Nat
        /\ At(cause) /\ cur.kind = "MatchSelected"
    BY EventFields, SubjectOf DEF TypeOK, ChainTypes, Cause
  <1>2. cur \in MatchEvent
    BY <1>1, EventFields
  <1> DEFINE x == Compensated
  <1>3. x \in Event /\ x.id = cur.id
    BY <1>2 DEF Compensated, MatchEvent, Event
  <1>4. CASE ~cur.trig
    <2>1. Returns(cause, Compensated, <<>>) /\ cur' = Compensated
      BY <1>4 DEF Cause, Returns
    <2>2. Becomes(cause) /\ cur'.id = cur.id
      BY <1>1, <1>3, <1>4, <2>1 DEF Becomes
    <2>3. QED
      BY <1>1, <2>1, <2>2, Silent, OutTypes DEF Made
  <1>5. CASE cur.trig
    <2>1. /\ Returns(cause, Plain("TriggerCompensation", cur.id), <<x>>)
          /\ cur' = Plain("TriggerCompensation", cur.id)
      BY <1>5 DEF Cause, TriggerFirst, Returns
    <2>2. /\ Becomes(cause) /\ cur'.id = cur.id
          /\ Spawns(cause, x)
      BY <1>1, <1>5, <2>1 DEF Becomes, Plain, Spawns
    <2> HIDE DEF x
    <2>3. Makes(cause, <<x>>) /\ <<x>> \in Seq(Event)
      BY <1>3, <2>2, SpawnsOne
    <2>4. QED
      BY <1>1, <2>1, <2>3 DEF Made
  <1>6. QED
    BY <1>4, <1>5

\* What the render middleware makes: the rendered match, or an error.
LEMMA RenderMakes ==
    ASSUME TypeOK, Render
    PROVE  \E out \in Seq(Event) : Made(render, out)
  <1>1. /\ cur \in Event /\ cur.id \in Nat
        /\ At(render) /\ cur.kind = "RenderingRequested"
    BY EventFields, SubjectOf DEF TypeOK, ChainTypes, Render
  <1> DEFINE x == Inject("TextInject", cur.id, "error")
  <1>2. x \in Event /\ x.id = cur.id
    BY <1>1, InjectIsEvent DEF Purposes, Inject
  <1>3. CASE Returns(render, Plain("RenderingError", cur.id), <<x>>)
    <2>1. Becomes(render) /\ cur'.id = cur.id /\ Spawns(render, x)
      BY <1>1, <1>3 DEF Returns, Becomes, Plain, Spawns
    <2> HIDE DEF x
    <2>2. Makes(render, <<x>>) /\ <<x>> \in Seq(Event)
      BY <1>2, <2>1, SpawnsOne
    <2>3. QED
      BY <1>1, <1>3, <2>2 DEF Made, Returns
  <1>4. CASE ~Returns(render, Plain("RenderingError", cur.id), <<x>>)
    <2>1. \/ cur' = Plain("NOOP", cur.id) /\ swallowed'
          \/ cur'.kind = "Rendered" /\ cur'.id = cur.id
      BY <1>4 DEF Render, Consume, Returns
    <2>2. Returns(render, cur', <<>>)
      BY <1>4 DEF Render, Consume, Returns
    <2>3. Becomes(render) /\ cur'.id = cur.id
      BY <1>1, <2>1 DEF Becomes, Consumed, Plain
    <2>4. QED
      BY <1>1, <2>2, <2>3, Silent, OutTypes DEF Made
  <1>5. QED
    BY <1>3, <1>4

\* What the cursor hint middleware makes: the movement after the text.
LEMMA CursorHintMakes ==
    ASSUME TypeOK, CursorHint
    PROVE  \E out \in Seq(Event) : Made(cursor_hint, out)
  <1>1. /\ cur \in Event /\ cur.id \in Nat
        /\ At(cursor_hint) /\ cur.kind = "Rendered"
    BY EventFields, SubjectOf DEF TypeOK, ChainTypes, CursorHint
  <1> DEFINE x == Plain("CursorHintCompensation", cur.id)
             e == [cur EXCEPT !.hint = FALSE]
  <1>2. x \in Event /\ x.id = cur.id
    BY <1>1, PlainIsEvent DEF PlainKinds, Plain
  <1>3. e.kind = "Rendered" /\ e.id = cur.id
    BY <1>1, EventFields DEF RenderedEvent
  <1>4. Returns(cursor_hint, e, <<x>>) \/ Returns(cursor_hint, e, <<>>)
    BY DEF CursorHint
  <1> HIDE DEF e
  <1>5. cur' = e
    BY <1>4 DEF Returns
  <1>6. Becomes(cursor_hint) /\ cur'.id = cur.id
    BY <1>1, <1>3, <1>5 DEF Becomes
  <1>7. Spawns(cursor_hint, x)
    BY <1>1 DEF Spawns, Plain
  <1> HIDE DEF x
  <1>8. /\ Makes(cursor_hint, <<x>>) /\ <<x>> \in Seq(Event)
        /\ Makes(cursor_hint, <<>>) /\ <<>> \in Seq(Event)
    BY <1>2, <1>6, <1>7, SpawnsOne, Silent
  <1>9. QED
    BY <1>1, <1>4, <1>5, <1>8 DEF Made

\* What the action middleware makes: the end of the injection, with the discard of
\* what was typed before it, and the text of an undo.
LEMMA ActionsMake ==
    ASSUME TypeOK, ActionOnBody \/ ActionOnHint \/ ActionOnUndo
    PROVE  \E out \in Seq(Event) : Made(action, out)
  <1>1. cur \in Event /\ cur.id \in Nat /\ nextId \in Nat /\ At(action)
    BY EventFields
       DEF TypeOK, ChainTypes, FunnelTypes, ActionOnBody, ActionOnHint,
           ActionOnUndo
  <1> DEFINE x == Plain("MatchInjected", cur.id)
             y == DiscardBefore(nextId)
             z == Inject("TextInject", cur.id, "undo")
  <1>2. /\ x \in Event /\ x.id = cur.id /\ x.kind = "MatchInjected"
        /\ y \in Event /\ y.id = cur.id /\ y.kind = "DiscardPrevious"
        /\ z \in Event /\ z.id = cur.id
    BY <1>1, PlainIsEvent, InjectIsEvent
       DEF PlainKinds, Purposes, Plain, Inject, DiscardBefore, Event,
           DiscardPreviousEvent
  <1>3. CASE ActionOnBody
    <2>1. /\ cur.kind \in {"Rendered", "ImageResolved"}
          /\ Returns(action, InjectionOf(cur), <<x, y>>)
      BY <1>3 DEF ActionOnBody, InjectedThenDiscarded
    <2>2. cur.kind = "Rendered" => cur.fmt \in Formats
      BY <1>1, EventFields DEF RenderedEvent
    <2>3. cur' = InjectionOf(cur)
      BY <2>1 DEF Returns
    <2>4. Becomes(action) /\ cur'.id = cur.id
      BY <2>1, <2>2, <2>3
         DEF InjectionOf, Formats, Plain, Inject, Becomes
    <2>5. Spawns(action, x) /\ Spawns(action, y)
      BY <1>2, <2>1 DEF Spawns
    <2> HIDE DEF x, y
    <2>6. Makes(action, <<x, y>>) /\ <<x, y>> \in Seq(Event)
      BY <1>2, <2>4, <2>5, SpawnsTwo
    <2>7. QED
      BY <1>1, <2>1, <2>3, <2>6 DEF Made
  <1>4. CASE ActionOnHint
    <2>1. /\ cur.kind = "CursorHintCompensation"
          /\ Returns(action, Inject("KeySequenceInject", cur.id, "hint"), <<y>>)
      BY <1>4 DEF ActionOnHint
    <2>2. cur' = Inject("KeySequenceInject", cur.id, "hint")
      BY <2>1 DEF Returns
    <2>3. Becomes(action) /\ cur'.id = cur.id /\ Spawns(action, y)
      BY <1>2, <2>1, <2>2 DEF Inject, Becomes, Spawns
    <2> HIDE DEF y
    <2>4. Makes(action, <<y>>) /\ <<y>> \in Seq(Event)
      BY <1>2, <2>3, SpawnsOne
    <2>5. QED
      BY <1>1, <2>1, <2>2, <2>4 DEF Made
  <1>5. CASE ActionOnUndo
    <2>1. /\ cur.kind = "Undo"
          /\ Returns(action, Inject("KeySequenceInject", cur.id, "undo"), <<z>>)
      BY <1>5 DEF ActionOnUndo
    <2>2. cur' = Inject("KeySequenceInject", cur.id, "undo")
      BY <2>1 DEF Returns
    <2>3. Becomes(action) /\ cur'.id = cur.id /\ Spawns(action, z)
      BY <1>2, <2>1, <2>2 DEF Inject, Becomes, Spawns
    <2> HIDE DEF z
    <2>4. Makes(action, <<z>>) /\ <<z>> \in Seq(Event)
      BY <1>2, <2>3, SpawnsOne
    <2>5. QED
      BY <1>1, <2>1, <2>2, <2>4 DEF Made
  <1>6. QED
    BY <1>3, <1>4, <1>5

\* What the search middleware makes: the matches to choose from.
LEMMA SearchMakes ==
    ASSUME TypeOK, Search
    PROVE  \E out \in Seq(Event) : Made(search, out)
  <1>1. /\ cur \in Event /\ cur.id \in Nat
        /\ At(search) /\ cur.kind = "ShowSearchBar"
    BY EventFields, SubjectOf DEF TypeOK, ChainTypes, Search
  <1> DEFINE x == Detected(Matches, FALSE)
  <1>2. x \in Event /\ x.id = cur.id /\ x.kind = "MatchesDetected"
    BY <1>1, DetectedIsEvent DEF Detected
  <1>3. Returns(search, Plain("NOOP", cur.id), <<x>>)
    BY DEF Search
  <1>4. cur' = Plain("NOOP", cur.id)
    BY <1>3 DEF Returns
  <1>5. Becomes(search) /\ cur'.id = cur.id /\ Spawns(search, x)
    BY <1>1, <1>2, <1>4 DEF Becomes, Consumed, Plain, Spawns
  <1> HIDE DEF x
  <1>6. Makes(search, <<x>>) /\ <<x>> \in Seq(Event)
    BY <1>2, <1>5, SpawnsOne
  <1>7. QED
    BY <1>1, <1>3, <1>4, <1>6 DEF Made

\* Every step of a middleware but the opening of the search bar, and but the
\* discard middleware's, is one of those of the table.
LEMMA MiddlewareMakes ==
    ASSUME TypeOK, Middleware, ~Discard, ~MatchSelectOpen
    PROVE  \E p \in 1..22 : \E out \in Seq(Event) : Made(p, out)
  <1>1. <<>> \in Seq(Event)
    OBVIOUS
  <1>2. QED
    BY <1>1, MatchersMake, SilentOnesMake, DisableMakes, IconMakes,
       AltCodeMakes, MenuMakes, CauseMakes, RenderMakes, CursorHintMakes,
       ActionsMake, SearchMakes, InChain
       DEF Middleware

\* So is the closing of the search bar.
LEMMA CloseMakes ==
    ASSUME TypeOK, ControlOK, MatchSelectClose
    PROVE  \E out \in Seq(Event) :
              /\ Returns(match_select, cur', out) /\ Makes(match_select, out)
              /\ out = <<DiscardWindow(selection.start, nextId)>>
  <1>1. /\ cur \in Event /\ cur.id \in Nat /\ cur.kind = "MatchesDetected"
        /\ nextId \in Nat /\ selection.start \in Nat
    BY EventFields
       DEF TypeOK, ChainTypes, FunnelTypes, ControlOK, MatchSelectClose
  <1> DEFINE x == DiscardWindow(selection.start, nextId)
  <1>2. x \in Event /\ x.id = cur.id /\ x.kind = "DiscardBetween"
    BY <1>1 DEF DiscardWindow, Event, DiscardBetweenEvent
  <1>3. /\ Returns(match_select, cur', <<x>>)
        /\ \/ cur' = Plain("NOOP", cur.id)
           \/ cur'.kind = "MatchSelected" /\ cur'.id = cur.id
    BY DEF MatchSelectClose, Returns, Selected
  <1>4. /\ Becomes(match_select) /\ cur'.id = cur.id
        /\ Spawns(match_select, x)
    BY <1>1, <1>2, <1>3 DEF Becomes, Consumed, Plain, Spawns
  <1> HIDE DEF x
  <1>5. Makes(match_select, <<x>>) /\ <<x>> \in Seq(Event)
    BY <1>2, <1>4, SpawnsOne
  <1>6. QED
    BY <1>3, <1>5 DEF x

-----------------------------------------------------------------------------
(* Commands *)

IsCommand(e) == e.kind \in Commands
IsNotice(e)  == e.kind \in {"IconStatusChange", "ShowContextMenu"}

\* Kinds that may lead to a discard request in the same batch.
ExpandingKinds ==
    {"HotKey", "MatchExecRequest", "ShowSearchBar", "MatchesDetected",
     "MatchSelected", "CauseCompensatedMatch", "RenderingRequested",
     "ImageRequested", "Rendered", "ImageResolved", "CursorHintCompensation",
     "MatchInjected", "DiscardPrevious", "DiscardBetween"}
Expanding(e) == e.kind \in ExpandingKinds \/ IsKey(e, Pressed)

\* What the middlewares dispatch.
WaitingKinds ==
    {"Enabled", "Disabled", "EnableRequest", "DisableRequest",
     "ShowSearchBar", "IconStatusChange", "ShowContextMenu",
     "DisplaySecureInputTroubleshoot", "LaunchSecureInputAutoFix",
     "TextInject", "CursorHintCompensation", "MatchInjected",
     "DiscardPrevious", "DiscardBetween", "CauseCompensatedMatch",
     "MatchesDetected"}

\* Between two batches nothing waits; a batch has the id of its first event.
BatchOK ==
    /\ pc \in {"receive", "dispatch"} => Waiting = <<>> /\ cur.kind = "NOOP"
    /\ pc = "receive" => processed = <<>>
    /\ pc = "selecting" => 1 <= stage /\ stage < match_select
    /\ stage = chainEnd => cur.kind = "NOOP"
    /\ \A i \in DOMAIN Waiting :
          Waiting[i].id = cur.id /\ Waiting[i].kind \in WaitingKinds

\* At most one command waits, and none beside an expansion.
OneCommand ==
    \A i, j \in DOMAIN Waiting :
        IsCommand(Waiting[j]) /\ (IsCommand(Waiting[i]) \/ Expanding(Waiting[i]))
            => i = j

\* The current event is about an expansion or about a command.
Alone ==
    /\ \/ Expanding(cur) \/ cur.kind = "ContextMenuClicked"
       \/ stage < disable /\ cur.kind \in Toggles \cup {"Keyboard"}
       => \A i \in DOMAIN Waiting : ~IsCommand(Waiting[i])
    /\ cur.kind \in Toggles \cup StatusChanges
                    \cup {"Keyboard", "ContextMenuClicked"}
       => \A i \in DOMAIN Waiting : ~Expanding(Waiting[i])

\* The menu is shown before anything can be discarded.
MenuFirst ==
    ~menuReady =>
        /\ stage < context_menu \/ stage = chainEnd
        /\ pc # "selecting"
        /\ ~IsDiscard(cur)
        /\ \A i \in DOMAIN Waiting : ~IsDiscard(Waiting[i])

NoticesFirst ==
    /\ \A i, j \in DOMAIN Waiting :
          i < j /\ IsDiscard(Waiting[i]) => ~IsNotice(Waiting[j])
    /\ IsDiscard(cur) => \A i \in DOMAIN Waiting : ~IsNotice(Waiting[i])

\* Commands and notices are not discarded, nor is what passed the middleware.
Kept ==
    /\ \A i \in DOMAIN Waiting :
          IsCommand(Waiting[i]) \/ IsNotice(Waiting[i])
              => ~Discarded(Waiting[i].id)
    /\ pc = "process" /\ (IsCommand(cur) \/ IsNotice(cur))
          => ~Discarded(cur.id)
    /\ stage \in 1..22 /\ ~IsDiscard(cur) => ~Discarded(cur.id)

CommandsOK ==
    BatchOK /\ OneCommand /\ Alone /\ MenuFirst /\ NoticesFirst /\ Kept

-----------------------------------------------------------------------------

\* What is dispatched comes behind everything that waits.
LEMMA WaitingGrows ==
    ASSUME TypeOK, NEW out \in Seq(Event), emitted' = emitted \o out,
           queue' = queue
    PROVE  /\ Len(Waiting) \in Nat /\ Len(out) \in Nat
           /\ DOMAIN Waiting = 1..Len(Waiting)
           /\ DOMAIN Waiting' = 1 .. Len(Waiting) + Len(out)
           /\ \A i \in 1..Len(Waiting) : Waiting'[i] = Waiting[i]
           /\ \A i \in 1 .. Len(Waiting) + Len(out) :
                 i \notin 1..Len(Waiting) =>
                     /\ i - Len(Waiting) \in 1..Len(out)
                     /\ Waiting'[i] = out[i - Len(Waiting)]
  <1>1. /\ queue \in Seq(Event) /\ emitted \in Seq(Event)
        /\ emitted \o out \in Seq(Event)
    BY ConcatProperties DEF TypeOK, ChainTypes
  <1>2. Waiting' = queue \o (emitted \o out)
    BY DEF Waiting
  <1>3. /\ Waiting \in Seq(Event)
        /\ Waiting' = Waiting \o out
    BY <1>1, <1>2, ConcatAssociative, ConcatProperties DEF Waiting
  <1>4. QED
    BY <1>3, ConcatShape

\* Only one middleware is the next to look at the event.
LEMMA AtUnique ==
    ASSUME TypeOK, NEW p \in 1..22, NEW q \in 1..22, At(p), At(q)
    PROVE  p = q
  <1>1. stage \in 0..23
    BY Positions DEF TypeOK, ChainTypes
  <1>2. ASSUME NEW a \in 1..22, NEW b \in 1..22, At(a), At(b), a < b
        PROVE  FALSE
    <2>1. a \in stage + 1 .. b - 1
      BY <1>1, <1>2 DEF At
    <2>2. QED
      BY <1>2, <2>1 DEF At
  <1>3. QED
    BY <1>2

\* Middleware p handles the current event and dispatches out.
Handles(p, out) ==
    /\ 1 <= stage /\ stage < p
    /\ Returns(p, cur', out) /\ Makes(p, out)
    /\ UNCHANGED <<queue, processed, minId, maxId>>
    /\ pc' \in {"process", "crashed"}
    /\ p > context_menu => menuReady
    /\ menuReady' = IF p = context_menu THEN TRUE ELSE menuReady

\* The position of the middleware that takes each step.
LEMMA StepAt ==
    /\ Discard => At(discard)
    /\ DisableOnKey \/ DisableOnRequest => At(disable)
    /\ IconUpdate => At(icon_status)
    /\ AltCodeSynthesizer => At(alt_code)
    /\ MatcherOnKey \/ MatcherOnMouse \/ MatcherOnInjection => At(matcher)
    /\ MatchExec => At(match_exec)
    /\ Suppress => At(suppress)
    /\ ContextMenu => At(context_menu)
    /\ HotKey => At(hotkey)
    /\ MatchSelectAtOnce \/ MatchSelectOpen => At(match_select)
    /\ Cause => At(cause)
    /\ OpenConfig => At(open_config)
    /\ Multiplex => At(multiplex)
    /\ StatsOnRequest \/ StatsOnDiscard \/ StatsOnInjection => At(stats)
    /\ Render => At(render)
    /\ ImageResolve => At(image_resolve)
    /\ CursorHint => At(cursor_hint)
    /\ Exit => At(exit)
    /\ UndoOnExpansion \/ UndoOnKey => At(undo)
    /\ ActionOnBody \/ ActionOnHint \/ ActionOnTrigger \/ ActionOnUndo
           => At(action)
    /\ Search => At(search)
    /\ Markdown => At(markdown)
  <1>1. /\ Discard => At(discard)
        /\ DisableOnKey \/ DisableOnRequest => At(disable)
        /\ IconUpdate => At(icon_status)
        /\ AltCodeSynthesizer => At(alt_code)
        /\ MatcherOnKey \/ MatcherOnMouse \/ MatcherOnInjection
               => At(matcher)
        /\ MatchExec => At(match_exec)
        /\ Suppress => At(suppress)
        /\ ContextMenu => At(context_menu)
        /\ HotKey => At(hotkey)
        /\ MatchSelectAtOnce \/ MatchSelectOpen => At(match_select)
    BY DEF Discard, DisableOnKey, DisableOnRequest, IconUpdate,
           AltCodeSynthesizer, MatcherOnKey, MatcherOnMouse,
           MatcherOnInjection, MatchExec, Suppress, ContextMenu, HotKey,
           MatchSelectAtOnce, MatchSelectOpen
  <1>2. /\ Cause => At(cause)
        /\ OpenConfig => At(open_config)
        /\ Multiplex => At(multiplex)
        /\ StatsOnRequest \/ StatsOnDiscard \/ StatsOnInjection => At(stats)
        /\ Render => At(render)
        /\ ImageResolve => At(image_resolve)
        /\ CursorHint => At(cursor_hint)
        /\ Exit => At(exit)
        /\ UndoOnExpansion \/ UndoOnKey => At(undo)
        /\ ActionOnBody \/ ActionOnHint \/ ActionOnTrigger \/ ActionOnUndo
               => At(action)
        /\ Search => At(search)
        /\ Markdown => At(markdown)
    BY DEF Cause, OpenConfig, Multiplex, StatsOnRequest, StatsOnDiscard,
           StatsOnInjection, Render, ImageResolve, CursorHint, Exit,
           UndoOnExpansion, UndoOnKey, ActionOnBody, ActionOnHint,
           ActionOnTrigger, ActionOnUndo, Search, Markdown
  <1>3. QED
    BY <1>1, <1>2

\* Every step of a middleware but the discard middleware's is the handling of
\* the event at one position.
LEMMA MiddlewareHandles ==
    ASSUME TypeOK, CommandsOK, Middleware, ~Discard, ~MatchSelectOpen
    PROVE  \E p \in 1..22 : \E out \in Seq(Event) : Handles(p, out) /\ At(p)
  <1>1. PICK p \in 1..22 : \E out \in Seq(Event) : Made(p, out)
    BY MiddlewareMakes
  <1>2. At(p) /\ stage \in 0..23 /\ menuReady \in BOOLEAN /\ p > stage
    BY <1>1, Positions DEF Made, At, TypeOK, ChainTypes, StatusTypes
  <1>3. p # discard /\ (~ContextMenu => p # context_menu)
    <2>1. \E q \in 1..22 :
             /\ At(q) /\ q # discard
             /\ q = context_menu => ContextMenu
      <3>1. \/ At(disable) \/ At(icon_status) \/ At(alt_code)
            \/ At(matcher) \/ At(match_exec) \/ At(suppress)
            \/ (ContextMenu /\ At(context_menu)) \/ At(hotkey)
            \/ At(match_select) \/ At(cause) \/ At(open_config)
            \/ At(multiplex) \/ At(stats) \/ At(render)
            \/ At(image_resolve) \/ At(cursor_hint) \/ At(exit)
            \/ At(undo) \/ At(action) \/ At(search) \/ At(markdown)
        BY StepAt DEF Middleware
      <3>2. QED
        BY <3>1, Positions
    <2>2. QED
      BY <1>2, <2>1, AtUnique
  <1>4. stage >= 1
    <2> SUFFICES ASSUME stage = 0 PROVE FALSE
      BY <1>2
    <2>1. 1 \in stage + 1 .. p - 1
      BY <1>2, <1>3, Positions
    <2>2. QED
      BY <1>2, <2>1, Positions DEF At, LooksAt
  <1>5. p > context_menu => menuReady
    <2> SUFFICES ASSUME p > context_menu, ~menuReady PROVE FALSE
      OBVIOUS
    <2>1. stage < context_menu
      BY <1>2, Positions DEF CommandsOK, MenuFirst
    <2>2. context_menu \in stage + 1 .. p - 1
      BY <1>2, <2>1, Positions
    <2>3. ~LooksAt(context_menu)
      BY <1>2, <2>2 DEF At
    <2>4. QED
      BY <2>3 DEF LooksAt
  <1>6. menuReady' = IF p = context_menu THEN TRUE ELSE menuReady
    <2>1. CASE ContextMenu
      <3>1. At(context_menu) /\ menuReady'
        BY <2>1 DEF ContextMenu
      <3>2. p = context_menu
        BY SMTT(30), <1>1, <3>1, AtUnique, Positions DEF Made
      <3>3. menuReady' = TRUE
        BY <2>1 DEF ContextMenu
      <3>4. QED
        BY <3>2, <3>3
    <2>2. CASE ~ContextMenu
      <3>1. menuReady' = menuReady
        BY <2>2
         DEF Middleware, Discard, DisableOnKey, DisableOnRequest, ToggledTo,
             IconUpdate, AltCodeSynthesizer, MatcherOnKey, MatcherOnMouse,
             MatcherOnInjection, MatcherRest, MatchExec, Suppress,
             HotKey, MatchSelectAtOnce, Cause, OpenConfig,
             Multiplex, StatsOnRequest, StatsOnDiscard, StatsOnInjection,
             StatsRest, Render, ImageResolve, CursorHint, Exit,
             UndoOnExpansion, UndoOnKey, UndoRest, ActionOnBody,
             ActionOnHint, ActionOnTrigger, ActionOnUndo, ActionRest,
             Search, Markdown, Stateless, statusVars
      <3>2. QED
        BY <1>3, <2>2, <3>1
    <2>3. QED
      BY <2>1, <2>2
  <1>7. UNCHANGED <<queue, processed, minId, maxId>>
    <2>1. processed' = processed
      BY DEF Middleware, Discard, DisableOnKey, DisableOnRequest, ToggledTo,
             IconUpdate, AltCodeSynthesizer, MatcherOnKey, MatcherOnMouse,
             MatcherOnInjection, MatcherRest, MatchExec, Suppress,
             ContextMenu, HotKey, MatchSelectAtOnce, Cause, OpenConfig,
             Multiplex, StatsOnRequest, StatsOnDiscard, StatsOnInjection,
             StatsRest, Render, ImageResolve, CursorHint, Exit,
             UndoOnExpansion, UndoOnKey, UndoRest, ActionOnBody,
             ActionOnHint, ActionOnTrigger, ActionOnUndo, ActionRest,
             Search, Markdown, Stateless, ChainStep
    <2>2. QED
      BY <2>1, MiddlewareFrame
  <1>8. pc' \in {"process", "crashed"}
      BY DEF Middleware, Discard, DisableOnKey, DisableOnRequest, ToggledTo,
             IconUpdate, AltCodeSynthesizer, MatcherOnKey, MatcherOnMouse,
             MatcherOnInjection, MatcherRest, MatchExec, Suppress,
             ContextMenu, HotKey, MatchSelectAtOnce, Cause, OpenConfig,
             Multiplex, StatsOnRequest, StatsOnDiscard, StatsOnInjection,
             StatsRest, Render, ImageResolve, CursorHint, Exit,
             UndoOnExpansion, UndoOnKey, UndoRest, ActionOnBody,
             ActionOnHint, ActionOnTrigger, ActionOnUndo, ActionRest,
             Search, Markdown, Stateless, ChainStep, At
  <1>9. QED
    BY <1>1, <1>2, <1>4, <1>5, <1>6, <1>7, <1>8 DEF Made, Handles

\* So is the answer of the search bar.
LEMMA CloseHandles ==
    ASSUME TypeOK, ControlOK, CommandsOK, MatchSelectClose
    PROVE  \E out \in Seq(Event) :
              /\ Handles(match_select, out)
              /\ out = <<DiscardWindow(selection.start, nextId)>>
  <1>1. PICK out \in Seq(Event) :
              /\ Returns(match_select, cur', out) /\ Makes(match_select, out)
              /\ out = <<DiscardWindow(selection.start, nextId)>>
    BY CloseMakes
  <1>2. /\ pc = "selecting" /\ pc' = "process"
        /\ UNCHANGED <<queue, processed, minId, maxId, menuReady>>
    BY DEF MatchSelectClose, discardVars, statusVars
  <1>3. /\ menuReady /\ 1 <= stage /\ stage < match_select
    BY <1>2 DEF CommandsOK, MenuFirst, BatchOK
  <1>4. QED
    BY <1>1, <1>2, <1>3, Positions DEF Handles

\* The kinds of events that make a middleware dispatch one that expands.
LEMMA Outcome ==
    ASSUME TypeOK, NEW p \in 1..22, NEW out \in Seq(Event), Handles(p, out)
    PROVE  /\ Expanding(cur') => Expanding(cur)
           /\ cur' = cur \/ cur'.kind \notin Toggles \cup StatusChanges
                              \cup {"Keyboard", "ContextMenuClicked"}
           /\ IsDiscard(cur') \/ IsDiscard(cur) => cur' = cur
           /\ IsCommand(cur') /\ cur' # cur =>
                 cur.kind \in {"ContextMenuClicked", "CauseCompensatedMatch"}
  <1>1. cur \in Event
    BY DEF TypeOK, ChainTypes
  <1>2. \/ cur' = cur
        \/ cur'.kind = "NOOP"
        \/ cur'.kind = "MatchesDetected" /\ Expanding(cur)
        \/ cur'.kind \in {"ShowContextMenu", "TriggerCompensation", "Undo",
                          "TextInject", "ShowText", "ShowLogs",
                          "RenderingError", "Exit", "HtmlInject",
                          "ImageInject", "MarkdownInject",
                          "KeySequenceInject"}
        \/ /\ cur'.kind \in {"ExitRequested", "ShowSearchBar"}
           /\ cur.kind \in {"ContextMenuClicked", "CauseCompensatedMatch"}
           /\ cur.kind = "ContextMenuClicked" => cur'.kind = "ExitRequested"
        \/ /\ cur'.kind \in {"MatchSelected", "CauseCompensatedMatch",
                             "RenderingRequested", "ImageRequested",
                             "Rendered", "ImageResolved"}
           /\ cur.kind \in {"MatchesDetected", "MatchSelected",
                            "CauseCompensatedMatch", "RenderingRequested",
                            "ImageRequested", "Rendered"}
    <2>1. cur.kind = "MatchSelected" =>
              Compensated.kind = "CauseCompensatedMatch"
      BY <1>1, EventFields DEF Compensated, MatchEvent
    <2>2. /\ \A kind, id : Plain(kind, id).kind = kind
          /\ \A kind, id, why : Inject(kind, id, why).kind = kind
          /\ \A flags : ShowMenu(flags).kind = "ShowContextMenu"
      BY DEF Plain, Inject, ShowMenu
    <2>3. Becomes(p)
      BY DEF Handles, Makes
    <2>4. IsKey(cur, Pressed) \/ cur.kind \in {"MatchInjected", "HotKey",
                                               "MatchExecRequest"}
              => Expanding(cur)
      BY DEF Expanding, ExpandingKinds
    <2>5. QED
      BY <2>1, <2>2, <2>3, <2>4 DEF Becomes
  <1>3. Expanding(cur') => Expanding(cur)
    BY <1>2 DEF Expanding, ExpandingKinds, IsKey
  <1>4. /\ cur' = cur \/ cur'.kind \notin Toggles \cup StatusChanges
                              \cup {"Keyboard", "ContextMenuClicked"}
        /\ IsDiscard(cur') => cur' = cur
    BY <1>2 DEF Toggles, StatusChanges, IsDiscard
  <1>5. IsDiscard(cur) => cur' = cur
    <2> SUFFICES ASSUME IsDiscard(cur) PROVE cur' = cur
      OBVIOUS
    <2>1. Becomes(p) /\ cur.kind \in {"DiscardPrevious", "DiscardBetween"}
      BY DEF Handles, Makes, IsDiscard
    <2>2. ~Consumed(p)
      BY <2>1 DEF Consumed
    <2>3. QED
      BY <2>1, <2>2 DEF Becomes, IsKey
  <1>6. IsCommand(cur') /\ cur' # cur =>
            cur.kind \in {"ContextMenuClicked", "CauseCompensatedMatch"}
    BY <1>2 DEF IsCommand, Commands
  <1>7. QED
    BY <1>3, <1>4, <1>5, <1>6

\* What kinds of events are dispatched, and for which event.
LEMMA Dispatched ==
    ASSUME TypeOK, NEW p \in 1..22, NEW out \in Seq(Event), Handles(p, out),
           NEW k \in 1..Len(out)
    PROVE  /\ out[k].id = cur.id /\ out[k].kind \in WaitingKinds
           /\ Expanding(out[k]) =>
                 \/ cur.kind \in {"MatchesDetected", "MatchSelected",
                                  "Rendered", "ImageResolved",
                                  "CursorHintCompensation", "ShowSearchBar"}
                 \/ cur.kind = "ContextMenuClicked" /\ cur'.kind = "NOOP"
           /\ IsCommand(out[k]) =>
                 \/ cur.kind \in Toggles /\ p = disable
                 \/ IsKey(cur, Released) /\ p = disable
                 \/ cur.kind = "ContextMenuClicked" /\ cur'.kind = "NOOP"
           /\ IsNotice(out[k]) =>
                 cur.kind \in StatusChanges \/ (~menuReady /\ p = context_menu)
           /\ IsDiscard(out[k]) => p >= match_select
  <1>1. cur \in Event /\ Spawns(p, out[k]) /\ out[k].id = cur.id
    BY DEF TypeOK, ChainTypes, Handles, Makes
  <1>2. cur.kind = "MatchSelected" =>
            Compensated.kind = "CauseCompensatedMatch"
    BY <1>1, EventFields DEF Compensated, MatchEvent
  <1>3. /\ out[k].kind \in WaitingKinds
        /\ Expanding(out[k]) =>
                 \/ cur.kind \in {"MatchesDetected", "MatchSelected",
                                  "Rendered", "ImageResolved",
                                  "CursorHintCompensation", "ShowSearchBar"}
                 \/ cur.kind = "ContextMenuClicked" /\ cur'.kind = "NOOP"
    BY <1>1, <1>2, Positions
       DEF Spawns, WaitingKinds, Expanding, ExpandingKinds, IsKey, Inject,
           OnOffOf
  <1>4. IsCommand(out[k]) =>
                 \/ cur.kind \in Toggles /\ p = disable
                 \/ IsKey(cur, Released) /\ p = disable
                 \/ cur.kind = "ContextMenuClicked" /\ cur'.kind = "NOOP"
    <2> SUFFICES ASSUME IsCommand(out[k])
                 PROVE  \/ cur.kind \in Toggles /\ p = disable
                        \/ IsKey(cur, Released) /\ p = disable
                        \/ cur.kind = "ContextMenuClicked" /\ cur'.kind = "NOOP"
      OBVIOUS
    <2>1. out[k].kind \in Commands
      BY DEF IsCommand
    <2>2. /\ out[k] = Compensated /\ cur.kind = "MatchSelected" =>
               out[k].kind = "CauseCompensatedMatch"
          /\ \A why : out[k] = Inject("TextInject", cur.id, why) =>
               out[k].kind = "TextInject"
      BY <1>2 DEF Inject
    <2>3. QED
      BY <1>1, <2>1, <2>2 DEF Spawns, Commands
  <1>5. IsNotice(out[k]) =>
            cur.kind \in StatusChanges \/ (~menuReady /\ p = context_menu)
    <2> SUFFICES ASSUME IsNotice(out[k])
                 PROVE  cur.kind \in StatusChanges
                        \/ (~menuReady /\ p = context_menu)
      OBVIOUS
    <2>1. out[k].kind \in {"IconStatusChange", "ShowContextMenu"}
      BY DEF IsNotice
    <2>2. /\ out[k] = Compensated /\ cur.kind = "MatchSelected" =>
               out[k].kind = "CauseCompensatedMatch"
          /\ \A why : out[k] = Inject("TextInject", cur.id, why) =>
               out[k].kind = "TextInject"
          /\ OnOffOf(enabled') \in {"Enabled", "Disabled"}
      BY <1>2 DEF Inject, OnOffOf
    <2>3. QED
      BY <1>1, <2>1, <2>2 DEF Spawns
  <1>6. IsDiscard(out[k]) => p >= match_select
    BY <1>1, <1>2, Positions DEF Spawns, IsDiscard, Inject, OnOffOf
  <1>7. QED
    BY <1>1, <1>3, <1>4, <1>5, <1>6

\* A middleware dispatches one command at most.
LEMMA AtMostOneCommand ==
    ASSUME NEW p, NEW out, Makes(p, out), NEW n \in Nat, n = Len(out),
           NEW i \in 1..n, NEW j \in 1..n,
           IsCommand(out[j]), IsCommand(out[i]) \/ Expanding(out[i])
    PROVE  i = j
  <1>1. n <= 2
    BY DEF Makes, Pairs
  <1>2. CASE n = 2
    <2>1. ~IsCommand(out[1])
      BY <1>2 DEF Makes, Pairs, IsCommand, Commands
    <2>2. j = 2
      BY <1>2, <2>1
    <2>3. ~Expanding(out[1])
      BY <1>2, <2>2
         DEF Makes, Pairs, IsCommand, Commands, Expanding, ExpandingKinds,
             IsKey
    <2>4. QED
      BY <1>2, <2>1, <2>2, <2>3
  <1>3. CASE n # 2
    BY <1>1, <1>3
  <1>4. QED
    BY <1>2, <1>3

\* A middleware leaves the commands and the notices on their way to the tray
\* ahead of what could discard them.
LEMMA HandlesKeepsCommands ==
    ASSUME TypeOK, CommandsOK, NEW p \in 1..22, NEW out \in Seq(Event),
           Handles(p, out)
    PROVE  CommandsOK'
  <1> DEFINE n == Len(Waiting)
             m == Len(out)
             w == Waiting
             v == Waiting'
  <1>1. /\ n \in Nat /\ m \in Nat
        /\ DOMAIN w = 1..n /\ DOMAIN v = 1 .. n + m
        /\ \A i \in 1..n : v[i] = w[i]
        /\ \A i \in 1 .. n + m : i \notin 1..n =>
              i - n \in 1..m /\ v[i] = out[i - n]
    BY WaitingGrows DEF Handles, Returns
  <1>2. /\ Expanding(cur') => Expanding(cur)
        /\ cur' = cur \/ cur'.kind \notin Toggles \cup StatusChanges
                              \cup {"Keyboard", "ContextMenuClicked"}
        /\ IsDiscard(cur') \/ IsDiscard(cur) => cur' = cur
    BY Outcome
  <1>3. /\ 1 <= stage /\ stage < p /\ stage \in 1..22
        /\ stage' \in {p, chainEnd} /\ cur'.id = cur.id
        /\ stage' = chainEnd => cur'.kind = "NOOP"
        /\ UNCHANGED <<queue, minId, maxId>>
        /\ pc' \in {"process", "crashed"}
        /\ p > context_menu => menuReady
        /\ menuReady' = IF p = context_menu THEN TRUE ELSE menuReady
    <2>1. /\ 1 <= stage /\ stage < p /\ stage \in 0..23
          /\ stage' = (IF cur'.kind = "NOOP" THEN chainEnd ELSE p)
          /\ cur'.id = cur.id
          /\ UNCHANGED <<queue, minId, maxId>>
          /\ pc' \in {"process", "crashed"}
          /\ p > context_menu => menuReady
          /\ menuReady' = IF p = context_menu THEN TRUE ELSE menuReady
      BY Positions DEF Handles, Makes, Returns, TypeOK, ChainTypes
    <2>2. QED
      BY <2>1, Positions
  <1>4. \A k \in 1..m :
           /\ out[k].id = cur.id /\ out[k].kind \in WaitingKinds
           /\ Expanding(out[k]) =>
                 \/ cur.kind \in {"MatchesDetected", "MatchSelected",
                                  "Rendered", "ImageResolved",
                                  "CursorHintCompensation", "ShowSearchBar"}
                 \/ cur.kind = "ContextMenuClicked" /\ cur'.kind = "NOOP"
           /\ IsCommand(out[k]) =>
                 \/ cur.kind \in Toggles /\ p = disable
                 \/ IsKey(cur, Released) /\ p = disable
                 \/ cur.kind = "ContextMenuClicked" /\ cur'.kind = "NOOP"
           /\ IsNotice(out[k]) =>
                 cur.kind \in StatusChanges \/ (~menuReady /\ p = context_menu)
           /\ IsDiscard(out[k]) => p >= match_select
    BY Dispatched
  <1>5. \A i, j \in 1..m :
            IsCommand(out[j]) /\ (IsCommand(out[i]) \/ Expanding(out[i]))
                => i = j
    BY <1>1, AtMostOneCommand DEF Handles
  <1> HIDE DEF n, m, w, v
  <1>6. BatchOK'
    <2>1. \A i \in 1..n : w[i].id = cur.id /\ w[i].kind \in WaitingKinds
      BY <1>1 DEF CommandsOK, BatchOK, w
    <2>2. \A i \in 1 .. n + m :
             v[i].id = cur'.id /\ v[i].kind \in WaitingKinds
      BY <1>1, <1>3, <1>4, <2>1
    <2>3. QED
      BY <1>1, <1>3, <2>2 DEF BatchOK, v
  \* What is dispatched beside a command that waits, or the other way round.
  <1>7. ASSUME NEW k \in 1..m, IsCommand(out[k]), NEW i \in 1..n
        PROVE  ~IsCommand(w[i]) /\ ~Expanding(w[i])
    BY <1>1, <1>3, <1>4, <1>7
       DEF CommandsOK, Alone, IsKey, w
  <1>8. ASSUME NEW k \in 1..m, Expanding(out[k]), NEW i \in 1..n
        PROVE  ~IsCommand(w[i])
    <2>1. Expanding(cur) \/ cur.kind = "ContextMenuClicked"
      BY <1>4, <1>8 DEF Expanding, ExpandingKinds
    <2>2. QED
      BY <1>1, <2>1 DEF CommandsOK, Alone, w
  <1>9. OneCommand'
    <2> SUFFICES ASSUME NEW i \in 1 .. n + m, NEW j \in 1 .. n + m,
                        IsCommand(v[j]), IsCommand(v[i]) \/ Expanding(v[i])
                 PROVE  i = j
      BY <1>1 DEF OneCommand, IsCommand, Expanding, IsKey, v
    <2>1. CASE i \in 1..n /\ j \in 1..n
      BY <1>1, <2>1 DEF CommandsOK, OneCommand, w
    <2>2. CASE i \notin 1..n /\ j \in 1..n
      BY <1>1, <1>7, <1>8, <2>2
    <2>3. CASE i \in 1..n /\ j \notin 1..n
      BY <1>1, <1>7, <2>3
    <2>4. CASE i \notin 1..n /\ j \notin 1..n
      <3>1. /\ i - n \in 1..m /\ v[i] = out[i - n]
            /\ j - n \in 1..m /\ v[j] = out[j - n]
        BY <1>1, <2>4
      <3>2. i - n = j - n
        BY <1>5, <3>1
      <3>3. QED
        BY <1>1, <3>2
    <2>5. QED
      BY <2>1, <2>2, <2>3, <2>4
  <1>10. Alone'
    <2>1. ASSUME \/ Expanding(cur') \/ cur'.kind = "ContextMenuClicked"
                 \/ stage' < disable
                    /\ cur'.kind \in Toggles \cup {"Keyboard"},
                 NEW i \in 1 .. n + m
          PROVE  ~IsCommand(v[i])
      <3>1. \/ Expanding(cur)
            \/ cur.kind = "ContextMenuClicked" /\ cur' = cur
            \/ stage < disable /\ cur.kind \in Toggles \cup {"Keyboard"}
               /\ p < disable
        BY <1>2, <1>3, <2>1, Positions DEF Toggles
      <3>2. CASE i \in 1..n
        BY <1>1, <3>1, <3>2 DEF CommandsOK, Alone, w
      <3>3. CASE i \notin 1..n
        <4>1. cur.kind = "NOOP" => ~Expanding(cur)
          BY DEF Expanding, ExpandingKinds, IsKey
        <4>2. /\ Expanding(cur) => cur.kind # "ContextMenuClicked"
              /\ Expanding(cur) => cur.kind \notin Toggles
              /\ Expanding(cur) => ~IsKey(cur, Released)
          BY DEF Expanding, ExpandingKinds, IsKey, Toggles, Pressed, Released
        <4>3. ~IsCommand(out[i - n])
          BY <1>1, <1>4, <3>1, <3>3, <4>1, <4>2, Positions DEF Toggles, IsKey
        <4>4. QED
          BY <1>1, <3>3, <4>3
      <3>4. QED
        BY <3>2, <3>3
    <2>2. ASSUME cur'.kind \in Toggles \cup StatusChanges
                               \cup {"Keyboard", "ContextMenuClicked"},
                 NEW i \in 1 .. n + m
          PROVE  ~Expanding(v[i])
      <3>1. cur' = cur
        BY <1>2, <2>2
      <3>2. CASE i \in 1..n
        BY <1>1, <2>2, <3>1, <3>2 DEF CommandsOK, Alone, w
      <3>3. CASE i \notin 1..n
        <4>1. ~Expanding(out[i - n])
          BY <1>1, <1>4, <2>2, <3>1, <3>3 DEF Toggles, StatusChanges
        <4>2. QED
          BY <1>1, <3>3, <4>1
      <3>4. QED
        BY <3>2, <3>3
    <2>3. QED
      BY <1>1, <2>1, <2>2
         DEF Alone, IsCommand, Expanding, IsKey, v
  <1>11. MenuFirst'
    <2> SUFFICES ASSUME ~menuReady'
                 PROVE  /\ stage' < context_menu \/ stage' = chainEnd
                        /\ pc' # "selecting" /\ ~IsDiscard(cur')
                        /\ \A i \in 1 .. n + m : ~IsDiscard(v[i])
      BY <1>1 DEF MenuFirst, IsDiscard, v
    <2>1. ~menuReady /\ p < context_menu
      BY <1>3, Positions
    <2>2. ~IsDiscard(cur) /\ \A i \in 1..n : ~IsDiscard(w[i])
      BY <1>1, <2>1 DEF CommandsOK, MenuFirst, w
    <2>3. \A k \in 1..m : ~IsDiscard(out[k])
      BY <1>4, <2>1, Positions
    <2>4. \A i \in 1 .. n + m : ~IsDiscard(v[i])
      BY <1>1, <2>2, <2>3
    <2>5. ~IsDiscard(cur')
      BY <1>2, <2>2
    <2>6. QED
      BY <1>3, <2>1, <2>4, <2>5
  <1>12. ASSUME IsDiscard(cur) \/ (\E i \in 1..n : IsDiscard(w[i])),
                NEW k \in 1..m
         PROVE  ~IsNotice(out[k])
    <2>1. menuReady
      BY <1>1, <1>12 DEF CommandsOK, MenuFirst, w
    <2>2. cur.kind \notin StatusChanges
      <3>1. ASSUME NEW i \in 1..n, IsDiscard(w[i]) PROVE Expanding(w[i])
        BY <3>1 DEF IsDiscard, Expanding, ExpandingKinds
      <3>2. CASE \E i \in 1..n : IsDiscard(w[i])
        BY <1>1, <3>1, <3>2 DEF CommandsOK, Alone, w
      <3>3. CASE IsDiscard(cur)
        BY <3>3 DEF IsDiscard, StatusChanges
      <3>4. QED
        BY <1>12, <3>2, <3>3
    <2>3. QED
      BY <1>4, <2>1, <2>2
  <1>13. NoticesFirst'
    <2>1. ASSUME NEW i \in 1 .. n + m, NEW j \in 1 .. n + m, i < j,
                 IsDiscard(v[i])
          PROVE  ~IsNotice(v[j])
      <3>1. CASE i \in 1..n /\ j \in 1..n
        BY <1>1, <2>1, <3>1 DEF CommandsOK, NoticesFirst, w
      <3>2. CASE i \in 1..n /\ j \notin 1..n
        BY <1>1, <1>12, <2>1, <3>2
      <3>3. CASE i \notin 1..n /\ j \notin 1..n
        <4>1. i - n \in 1..m /\ j - n \in 1..m /\ i - n < j - n
          BY <1>1, <2>1, <3>3
        <4>2. m = 2 /\ i - n = 1
          <5>1. m <= 2
            BY DEF Handles, Makes, Pairs, m
          <5>2. QED
            BY <1>1, <4>1, <5>1
        <4>3. ~IsDiscard(out[1])
          BY <4>2 DEF Handles, Makes, Pairs, IsDiscard, m
        <4>4. QED
          BY <1>1, <2>1, <3>3, <4>2, <4>3
      <3>4. QED
        BY <1>1, <2>1, <3>1, <3>2, <3>3
    <2>2. ASSUME IsDiscard(cur'), NEW i \in 1 .. n + m
          PROVE  ~IsNotice(v[i])
      <3>1. IsDiscard(cur)
        BY <1>2, <2>2
      <3>2. CASE i \in 1..n
        BY <1>1, <3>1, <3>2 DEF CommandsOK, NoticesFirst, w
      <3>3. CASE i \notin 1..n
        BY <1>1, <1>12, <3>1, <3>3
      <3>4. QED
        BY <3>2, <3>3
    <2>3. QED
      BY <1>1, <2>1, <2>2 DEF NoticesFirst, IsDiscard, IsNotice, v
  <1>14. Kept'
    <2>1. \A id : Discarded(id)' <=> Discarded(id)
      BY <1>3 DEF Discarded
    <2>2. ~IsDiscard(cur) => ~Discarded(cur.id)
      BY <1>3 DEF CommandsOK, Kept
    <2>3. ASSUME NEW i \in 1 .. n + m, IsCommand(v[i]) \/ IsNotice(v[i])
          PROVE  ~Discarded(v[i].id)
      <3>1. CASE i \in 1..n
        BY <1>1, <2>3, <3>1 DEF CommandsOK, Kept, w
      <3>2. CASE i \notin 1..n
        <4>1. i - n \in 1..m /\ v[i] = out[i - n]
          BY <1>1, <3>2
        <4>2. ~IsDiscard(cur)
          BY <1>4, <1>12, <2>3, <4>1 DEF IsDiscard, Toggles, IsKey
        <4>3. QED
          BY <1>4, <2>2, <4>1, <4>2
      <3>3. QED
        BY <3>1, <3>2
    <2>4. (IsCommand(cur') \/ IsNotice(cur')) => ~Discarded(cur'.id)
      <3>1. IsDiscard(cur') => ~IsCommand(cur') /\ ~IsNotice(cur')
        BY DEF IsDiscard, IsCommand, IsNotice, Commands
      <3>2. QED
        BY <1>2, <1>3, <2>2, <3>1
    <2>5. ~IsDiscard(cur') => ~Discarded(cur'.id)
      BY <1>2, <1>3, <2>2
    <2>6. QED
      BY <1>1, <2>1, <2>3, <2>4, <2>5
         DEF Kept, IsCommand, IsNotice, IsDiscard, Discarded, v
  <1>15. QED
    BY <1>6, <1>9, <1>10, <1>11, <1>13, <1>14 DEF CommandsOK

\* The end of the chain takes the first of the events that wait, if any.
NextTaken ==
    /\ pc = "process" /\ stage' = 0
    /\ \/ /\ DOMAIN Waiting = {} /\ DOMAIN Waiting' = {} /\ Waiting' = <<>>
          /\ cur' = Plain("NOOP", 0)
          /\ \/ pc' = "receive" /\ processed' = <<>>
             \/ pc' = "dispatch"
       \/ \E n \in Nat :
             /\ n >= 1 /\ DOMAIN Waiting = 1..n /\ DOMAIN Waiting' = 1..n - 1
             /\ cur' = Waiting[1] /\ pc' = "process"
             /\ \A i \in 1..n - 1 :
                   i + 1 \in 1..n /\ Waiting'[i] = Waiting[i + 1]

\* The end of the chain takes the next event, or ends the batch.
LEMMA EndOfChainTakes == ASSUME TypeOK, EndOfChain PROVE NextTaken
  <1>1. /\ queue \in Seq(Event) /\ emitted \in Seq(Event)
        /\ pc = "process" /\ stage' = 0 /\ emitted' = <<>>
    BY DEF TypeOK, ChainTypes, EndOfChain, At
  <1>2. Waiting \in Seq(Event)
    BY <1>1, ConcatProperties DEF Waiting
  <1>3. CASE Waiting = <<>>
    <2>1. /\ queue' = <<>> /\ cur' = Plain("NOOP", 0)
          /\ \/ pc' = "receive" /\ processed' = <<>>
             \/ pc' = "dispatch"
      BY <1>3 DEF EndOfChain, Waiting
    <2>2. Waiting' = <<>> /\ DOMAIN <<>> = {}
      BY <1>1, <2>1 DEF Waiting
    <2>3. QED
      BY <1>1, <1>3, <2>1, <2>2 DEF NextTaken
  <1>4. CASE Waiting # <<>>
    <2>1. cur' = Head(Waiting) /\ queue' = Tail(Waiting) /\ pc' = pc
      BY <1>4 DEF EndOfChain, Waiting
    <2>2. Waiting' = Tail(Waiting)
      <3>1. Tail(Waiting) \in Seq(Event)
        BY <1>2, <1>4, HeadTailProperties
      <3>2. Tail(Waiting) \o <<>> = Tail(Waiting)
        BY <3>1, ConcatEmptySeq
      <3>3. QED
        BY <1>1, <2>1, <3>2 DEF Waiting
    <2> DEFINE w == Waiting
               n == Len(Waiting)
    <2>3. /\ n \in Nat /\ n >= 1 /\ DOMAIN w = 1..n
          /\ cur' = w[1] /\ Waiting' \in Seq(Event)
          /\ Len(Waiting') = n - 1
          /\ \A i \in 1..Len(Waiting') : Waiting'[i] = w[i + 1]
      BY <1>2, <1>4, <2>1, <2>2, HeadTailProperties
    <2> HIDE DEF n
    <2>4. /\ DOMAIN Waiting' = 1..n - 1
          /\ \A i \in 1..n - 1 : i + 1 \in 1..n /\ Waiting'[i] = w[i + 1]
      BY <2>3
    <2>5. QED
      BY <1>1, <2>1, <2>3, <2>4 DEF NextTaken
  <1>5. QED
    BY <1>3, <1>4

\* Taking the next event keeps the invariant of the commands.
LEMMA EndOfChainKeepsCommands ==
    ASSUME TypeOK, CommandsOK, EndOfChain
    PROVE  CommandsOK'
  <1>1. /\ NextTaken /\ Discarded(0)' \in BOOLEAN
        /\ UNCHANGED <<minId, maxId, menuReady>>
    BY EndOfChainTakes DEF EndOfChain, discardVars, statusVars, Discarded
  <1>2. /\ stage' = 0 /\ \A id : Discarded(id)' <=> Discarded(id)
    BY <1>1 DEF NextTaken, Discarded
  <1>3. CASE /\ DOMAIN Waiting' = {} /\ Waiting' = <<>>
             /\ cur' = Plain("NOOP", 0)
             /\ \/ pc' = "receive" /\ processed' = <<>>
                \/ pc' = "dispatch"
    <2>1. /\ cur'.kind = "NOOP" /\ ~IsDiscard(cur') /\ ~Expanding(cur')
          /\ pc' # "selecting" /\ pc' # "process"
      BY <1>3 DEF Plain, IsDiscard, Expanding, ExpandingKinds, IsKey
    <2>2. BatchOK'
      BY <1>2, <1>3, <2>1 DEF BatchOK
    <2>3. OneCommand' /\ Alone' /\ NoticesFirst' /\ MenuFirst' /\ Kept'
      BY <1>2, <1>3, <2>1, Positions
         DEF OneCommand, Alone, NoticesFirst, MenuFirst, Kept, IsDiscard,
             Expanding, IsKey
    <2>4. QED
      BY <2>2, <2>3 DEF CommandsOK
  <1>4. ASSUME NEW n \in Nat,
               /\ n >= 1 /\ DOMAIN Waiting = 1..n
               /\ DOMAIN Waiting' = 1..n - 1
               /\ cur' = Waiting[1] /\ pc' = "process"
               /\ \A i \in 1..n - 1 :
                     i + 1 \in 1..n /\ Waiting'[i] = Waiting[i + 1]
        PROVE  CommandsOK'
    <2> DEFINE w == Waiting
               v == Waiting'
    <2>1. /\ 1 \in 1..n /\ cur' = w[1]
          /\ \A i \in 1..n - 1 :
                i + 1 \in 1..n /\ i + 1 # 1 /\ 1 < i + 1 /\ v[i] = w[i + 1]
      BY <1>4
    <2>2. /\ \A i \in 1..n : w[i].id = cur.id /\ w[i].kind \in WaitingKinds
          /\ \A i, j \in 1..n :
                IsCommand(w[j]) /\ (IsCommand(w[i]) \/ Expanding(w[i]))
                    => i = j
          /\ \A i, j \in 1..n : i < j /\ IsDiscard(w[i]) => ~IsNotice(w[j])
          /\ \A i \in 1..n : IsCommand(w[i]) \/ IsNotice(w[i])
                => ~Discarded(w[i].id)
          /\ ~menuReady => \A i \in 1..n : ~IsDiscard(w[i])
      BY <1>4 DEF CommandsOK, BatchOK, OneCommand, NoticesFirst, Kept,
                  MenuFirst
    <2> HIDE DEF w, v
    <2>3. BatchOK'
      <3>1. \A i \in 1..n - 1 : v[i].id = cur'.id /\ v[i].kind \in WaitingKinds
        BY <2>1, <2>2
      <3>2. QED
        BY <1>2, <1>4, <3>1, Positions DEF BatchOK, v
    <2>4. OneCommand'
      <3>1. \A i, j \in 1..n - 1 :
                IsCommand(v[j]) /\ (IsCommand(v[i]) \/ Expanding(v[i]))
                    => i + 1 = j + 1
        BY <2>1, <2>2
      <3>2. QED
        BY <1>4, <3>1 DEF OneCommand, IsCommand, Expanding, IsKey, v
    <2>5. Alone'
      <3>1. ASSUME \/ Expanding(cur') \/ cur'.kind = "ContextMenuClicked"
                   \/ cur'.kind \in Toggles \cup {"Keyboard"},
                   NEW i \in 1..n - 1
            PROVE  ~IsCommand(v[i])
        <4>1. IsCommand(cur') \/ Expanding(cur')
          BY <2>1, <2>2, <3>1 DEF WaitingKinds, IsCommand, Commands, Toggles
        <4>2. QED
          BY <2>1, <2>2, <4>1
      <3>2. ASSUME cur'.kind \in Toggles \cup StatusChanges
                                 \cup {"Keyboard", "ContextMenuClicked"},
                   NEW i \in 1..n - 1
            PROVE  ~Expanding(v[i])
        <4>1. IsCommand(cur')
          BY <2>1, <2>2, <3>2
             DEF WaitingKinds, IsCommand, Commands, Toggles, StatusChanges
        <4>2. QED
          BY <2>1, <2>2, <4>1
      <3>3. QED
        BY <1>4, <3>1, <3>2 DEF Alone, IsCommand, Expanding, IsKey, v
    <2>6. MenuFirst' /\ NoticesFirst'
      <3>1. ~menuReady => /\ ~IsDiscard(cur')
                          /\ \A i \in 1..n - 1 : ~IsDiscard(v[i])
        BY <2>1, <2>2
      <3>2. IsDiscard(cur') => \A i \in 1..n - 1 : ~IsNotice(v[i])
        BY <2>1, <2>2
      <3>3. \A i, j \in 1..n - 1 : i < j /\ IsDiscard(v[i]) => ~IsNotice(v[j])
        BY <2>1, <2>2
      <3>4. QED
        BY <1>1, <1>2, <1>4, <3>1, <3>2, <3>3, Positions
           DEF MenuFirst, NoticesFirst, IsDiscard, IsNotice, v
    <2>7. Kept'
      <3>1. \A i \in 1..n - 1 :
                IsCommand(v[i]) \/ IsNotice(v[i]) => ~Discarded(v[i].id)
        BY <2>1, <2>2
      <3>2. IsCommand(cur') \/ IsNotice(cur') => ~Discarded(cur'.id)
        BY <2>1, <2>2
      <3>3. QED
        BY <1>2, <1>4, <3>1, <3>2
           DEF Kept, IsCommand, IsNotice, Discarded, v
    <2>8. QED
      BY <2>3, <2>4, <2>5, <2>6, <2>7 DEF CommandsOK
  <1>5. QED
    BY <1>1, <1>3, <1>4 DEF NextTaken

\* So does the discard middleware, which meets no command that is old.
LEMMA DiscardKeepsCommands ==
    ASSUME TypeOK, CommandsOK, Discard
    PROVE  CommandsOK'
  <1>1. /\ emitted \in Seq(Event) /\ stage \in 0..chainEnd
        /\ pc = "process" /\ UNCHANGED <<pc, queue, processed, menuReady>>
        /\ emitted' = emitted \o <<>>
    BY DEF TypeOK, ChainTypes, Discard, At, Pass, Consume, Returns,
           ChainStep, statusVars
  <1>2. Waiting' = Waiting
    BY <1>1 DEF Waiting
  <1>3. \/ /\ cur' = cur /\ ~Discarded(cur.id)
           /\ stage' = IF cur.kind = "NOOP" THEN chainEnd ELSE 1
           /\ IsDiscard(cur) \/ UNCHANGED <<minId, maxId>>
        \/ /\ cur' = Plain("NOOP", cur.id) /\ stage' = chainEnd
           /\ UNCHANGED <<minId, maxId>>
    BY Positions
       DEF Discard, Pass, Consume, Returns, Plain, MinAfter, MaxAfter,
           IsDiscard, discardVars
  <1>4. /\ cur'.id = cur.id
        /\ cur' = cur \/ cur'.kind = "NOOP"
        /\ stage' \in {1, chainEnd}
        /\ stage' = chainEnd => cur'.kind = "NOOP"
    BY <1>3, Positions DEF Plain
  <1>5. /\ ~Expanding([kind |-> "NOOP", id |-> cur.id])
        /\ cur'.kind = "NOOP" =>
             ~Expanding(cur') /\ ~IsDiscard(cur') /\ ~IsCommand(cur')
             /\ ~IsNotice(cur')
        /\ stage = 0
    BY <1>1, Positions
       DEF Expanding, ExpandingKinds, IsKey, IsDiscard, IsCommand, Commands,
           IsNotice, Discard, At
  <1>6. BatchOK' /\ OneCommand'
    BY <1>1, <1>2, <1>4 DEF CommandsOK, BatchOK, OneCommand
  <1>7. Alone'
    <2>1. Expanding(cur') => Expanding(cur)
      BY <1>4, <1>5
    <2>2. QED
      BY <1>2, <1>4, <1>5, <2>1, Positions
         DEF CommandsOK, Alone, Toggles, StatusChanges, Expanding, IsKey
  <1>8. MenuFirst' /\ NoticesFirst'
    <2>1. IsDiscard(cur') => IsDiscard(cur)
      BY <1>4, <1>5
    <2>2. QED
      BY <1>1, <1>2, <1>4, <2>1, Positions
         DEF CommandsOK, MenuFirst, NoticesFirst, IsDiscard
  <1>9. Kept'
    <2>1. CASE IsDiscard(cur) /\ cur' = cur
      <3>1. Expanding(cur)
        BY <2>1 DEF IsDiscard, Expanding, ExpandingKinds
      <3>2. \A i \in DOMAIN Waiting :
               ~IsCommand(Waiting[i]) /\ ~IsNotice(Waiting[i])
        BY <2>1, <3>1 DEF CommandsOK, Alone, NoticesFirst
      <3>3. ~IsCommand(cur) /\ ~IsNotice(cur)
        BY <2>1 DEF IsDiscard, IsCommand, IsNotice, Commands
      <3>4. QED
        BY <1>2, <2>1, <3>2, <3>3
           DEF Kept, IsCommand, IsNotice, IsDiscard
    <2>2. CASE UNCHANGED <<minId, maxId>>
      <3>1. \A id : Discarded(id)' <=> Discarded(id)
        BY <2>2 DEF Discarded
      <3>2. \/ cur' = cur /\ ~Discarded(cur.id)
            \/ stage' = chainEnd /\ cur'.kind = "NOOP"
        BY <1>3 DEF Plain
      <3>3. QED
        BY <1>2, <1>4, <1>5, <3>1, <3>2, Positions
           DEF CommandsOK, Kept, IsCommand, IsNotice, IsDiscard, Discarded
    <2>3. QED
      BY <1>3, <2>1, <2>2
  <1>10. QED
    BY <1>6, <1>7, <1>8, <1>9 DEF CommandsOK

\* So does the opening of the search bar.
LEMMA OpenKeepsCommands ==
    ASSUME TypeOK, CommandsOK, MatchSelectOpen
    PROVE  CommandsOK'
  <1>1. /\ UNCHANGED <<queue, cur, stage, emitted, minId, maxId, menuReady>>
        /\ pc' = "selecting" /\ stage \in 0..chainEnd
    BY DEF MatchSelectOpen, discardVars, statusVars, TypeOK, ChainTypes
  <1>2. Waiting' = Waiting
    BY <1>1 DEF Waiting
  <1>3. At(match_select) /\ stage < match_select
    BY DEF MatchSelectOpen, At
  <1>4. 1 <= stage
    <2> SUFFICES ASSUME stage = 0 PROVE FALSE
      BY <1>1, Positions
    <2>1. 1 \in stage + 1 .. match_select - 1
      BY Positions
    <2>2. QED
      BY <1>3, <2>1, Positions DEF At, LooksAt
  <1>5. menuReady
    <2> SUFFICES ASSUME ~menuReady PROVE FALSE
      OBVIOUS
    <2>1. stage < context_menu
      BY <1>3, Positions DEF CommandsOK, MenuFirst
    <2>2. context_menu \in stage + 1 .. match_select - 1
      BY <1>1, <2>1, Positions
    <2>3. QED
      BY <1>3, <2>2 DEF At, LooksAt
  <1>6. BatchOK'
    BY <1>1, <1>2, <1>3, <1>4, Positions DEF CommandsOK, BatchOK
  <1>7. OneCommand' /\ Alone' /\ NoticesFirst' /\ MenuFirst'
    BY <1>1, <1>2, <1>5
       DEF CommandsOK, OneCommand, Alone, NoticesFirst, MenuFirst, IsCommand,
           IsDiscard, IsNotice, Expanding, IsKey
  <1>8. Kept'
    BY <1>1, <1>2
       DEF CommandsOK, Kept, IsCommand, IsNotice, IsDiscard, Discarded
  <1>9. QED
    BY <1>6, <1>7, <1>8 DEF CommandsOK

\* A step that leaves the chain and the thresholds alone.
LEMMA LaterKeepsCommands ==
    ASSUME CommandsOK,
           UNCHANGED <<queue, emitted, cur, stage, menuReady, minId, maxId>>,
           \/ UNCHANGED <<pc, processed>>
           \/ /\ pc = "dispatch" /\ pc' \in {"receive", "dispatch", "exited"}
              /\ pc' = "receive" => processed' = <<>>
    PROVE  CommandsOK'
  <1>1. Waiting' = Waiting
    BY DEF Waiting
  <1>2. BatchOK'
    BY <1>1 DEF CommandsOK, BatchOK
  <1>3. OneCommand' /\ Alone' /\ NoticesFirst' /\ MenuFirst'
    BY <1>1
       DEF CommandsOK, OneCommand, Alone, NoticesFirst, MenuFirst, IsCommand,
           IsDiscard, IsNotice, Expanding, IsKey
  <1>4. Kept'
    BY <1>1
       DEF CommandsOK, Kept, IsCommand, IsNotice, IsDiscard, Discarded
  <1>5. QED
    BY <1>2, <1>3, <1>4 DEF CommandsOK

\* What is received starts a batch of its own.
LEMMA StartKeepsCommands ==
    ASSUME TypeOK, CommandsOK, pc = "receive", NEW e \in Event, Start(e),
           UNCHANGED <<minId, maxId, menuReady>>,
           ~IsDiscard(e),
           IsCommand(e) \/ IsNotice(e) => ~Discarded(e.id)
    PROVE  CommandsOK'
  <1>1. /\ pc' = "process" /\ cur' = e /\ stage' = 0 /\ Waiting' = Waiting
    BY DEF Start, Waiting
  <1>2. Waiting = <<>> /\ DOMAIN <<>> = {}
    BY DEF CommandsOK, BatchOK
  <1>3. DOMAIN Waiting' = {}
    BY <1>1, <1>2
  <1>4. BatchOK' /\ OneCommand' /\ Alone' /\ NoticesFirst' /\ MenuFirst'
    BY <1>1, <1>3, Positions
       DEF BatchOK, OneCommand, Alone, NoticesFirst, MenuFirst, IsDiscard,
           Expanding, IsKey
  <1>5. Kept'
    BY <1>1, <1>3 DEF Kept, IsCommand, IsNotice, IsDiscard, Discarded
  <1>6. QED
    BY <1>4, <1>5 DEF CommandsOK

\* So does the event that starts a batch.
LEMMA ReceiveKeepsCommands ==
    ASSUME TypeOK, DiscardOrder, CommandsOK, Receive
    PROVE  CommandsOK'
  <1>1. /\ nextId \in Nat /\ maxId \in Nat /\ maxId <= nextId
        /\ keyboard \in Seq(DetectEvent) /\ chan \in [Sources -> Seq(SourceEvent)]
    BY DEF TypeOK, FunnelTypes, StatusTypes, DiscardOrder,
           ThresholdsBehindSequencer
  <1>2. /\ pc = "receive" /\ UNCHANGED <<minId, maxId, menuReady>>
    BY DEF Receive, ReceiveDetected, ReceiveRequest, discardVars, statusVars
  <1>3. CASE Skipped
    <2>1. UNCHANGED <<pc, queue, cur, stage, emitted, processed>>
      BY <1>3 DEF Skipped, chainVars
    <2>2. QED
      BY <1>2, <2>1, LaterKeepsCommands
  <1>4. ASSUME NEW e \in DetectEvent, Start(e) PROVE CommandsOK'
    <2>1. e \in Event /\ ~IsDiscard(e)
      BY DetectEventIsEvent, NoDiscardReceived
    <2>2. ~IsCommand(e) /\ ~IsNotice(e)
      BY DEF DetectEvent, KeyEvent, MouseEvent, IsCommand, Commands, IsNotice
    <2>3. QED
      BY <1>2, <1>4, <2>1, <2>2, StartKeepsCommands
  <1>5. ASSUME NEW e \in SourceEvent, e.id = nextId, Start(e)
        PROVE  CommandsOK'
    <2>1. e \in Event /\ ~IsDiscard(e)
      BY SourceEventIsEvent, NoDiscardReceived
    <2>2. ~Discarded(e.id)
      BY <1>1, <1>5 DEF Discarded
    <2>3. QED
      BY <1>2, <1>5, <2>1, <2>2, StartKeepsCommands
  <1>6. CASE ReceiveDetected
    <2>1. Head(keyboard) \in DetectEvent
      BY <1>1, <1>6, HeadTailProperties DEF ReceiveDetected
    <2>2. QED
      BY <1>3, <1>4, <1>6, <2>1 DEF ReceiveDetected
  <1>7. ASSUME NEW s \in Sources, ReceiveRequest(s) PROVE CommandsOK'
    <2>1. Head(chan[s]) \in SourceEvent
      BY <1>1, <1>7, HeadTailProperties DEF ReceiveRequest
    <2>2. /\ Numbered(Head(chan[s])) \in SourceEvent
          /\ Numbered(Head(chan[s])).id = nextId
      <3>1. Numbered(Head(chan[s])) \in SourceEvent
        BY <1>1, <2>1, SourceEventIsEvent DEF Numbered
      <3>2. \A e \in SourceEvent : [e EXCEPT !.id = nextId].id = nextId
        BY DEF SourceEvent, MenuEvent
      <3>3. QED
        BY <2>1, <3>1, <3>2 DEF Numbered
    <2>3. QED
      BY <1>3, <1>5, <1>7, <2>2 DEF ReceiveRequest
  <1>8. QED
    BY <1>6, <1>7 DEF Receive

\* So do the steps outside the chain.
LEMMA OtherStepsKeepCommands ==
    ASSUME TypeOK, ControlOK, CommandsOK,
           Environment \/ Dispatch \/ UNCHANGED vars
    PROVE  CommandsOK'
  <1>1. CASE Environment
    <2>1. UNCHANGED <<pc, queue, emitted, cur, stage, processed, menuReady,
                      minId, maxId>>
      BY <1>1
         DEF Environment, Detect, DetectKey, DetectMouse, DetectHotKey,
             DetectAllModifiersReleased, Enqueue, Send, ModifierOutdated,
             chainVars, discardVars, statusVars
    <2>2. QED
      BY <2>1, LaterKeepsCommands
  <1>2. CASE Dispatch
    <2>1. /\ UNCHANGED <<queue, emitted, cur, stage, menuReady, minId, maxId>>
          /\ pc = "dispatch" /\ pc' \in {"receive", "dispatch", "exited"}
      BY <1>2 DEF Dispatch, discardVars, statusVars
    <2>2. pc' = "receive" => processed' = <<>>
      <3>1. processed \in Seq(Event) /\ processed # <<>>
        BY <2>1 DEF TypeOK, ChainTypes, ControlOK
      <3>2. pc' = "receive" => /\ processed' = Tail(processed)
                               /\ ~(Len(processed) > 1)
        BY <1>2 DEF Dispatch
      <3>3. ~(Len(processed) > 1) => Tail(processed) = <<>>
        BY <3>1, HeadTailProperties, EmptySeq
      <3>4. QED
        BY <3>2, <3>3
    <2>3. QED
      BY <2>1, <2>2, LaterKeepsCommands
  <1>3. CASE UNCHANGED vars
    BY <1>3, LaterKeepsCommands
       DEF vars, chainVars, discardVars, statusVars
  <1>4. QED
    BY <1>1, <1>2, <1>3

\* So does every step.
LEMMA CommandsNext ==
    ASSUME TypeOK, ControlOK, DiscardOrder, CommandsOK, [Next]_vars
    PROVE  CommandsOK'
  <1>1. CASE Middleware
    <2>1. CASE ~Discard /\ ~MatchSelectOpen
      <3>1. PICK p \in 1..22 : \E out \in Seq(Event) : Handles(p, out)
        BY <1>1, <2>1, MiddlewareHandles
      <3>2. QED
        BY <3>1, HandlesKeepsCommands
    <2>2. QED
      BY <2>1, DiscardKeepsCommands, OpenKeepsCommands
  <1>2. CASE MatchSelectClose
    BY <1>2, CloseHandles, HandlesKeepsCommands, InChain
  <1>3. QED
    BY <1>1, <1>2, EndOfChainKeepsCommands, ReceiveKeepsCommands,
       OtherStepsKeepCommands
       DEF Next, EngineStep

\* At first nothing waits.
LEMMA CommandsInit == Init => CommandsOK
  <1> SUFFICES ASSUME Init PROVE CommandsOK
    OBVIOUS
  <1>1. /\ pc = "receive" /\ queue = <<>> /\ emitted = <<>> /\ stage = 0
        /\ cur = Plain("NOOP", 0) /\ processed = <<>>
    BY DEF Init
  <1>2. Waiting = <<>> /\ DOMAIN <<>> = {}
    BY <1>1 DEF Waiting
  <1>3. cur.kind = "NOOP" /\ ~IsDiscard(cur) /\ ~Expanding(cur)
    BY <1>1 DEF Plain, IsDiscard, Expanding, ExpandingKinds, IsKey
  <1>4. BatchOK /\ OneCommand /\ Kept
    BY <1>1, <1>2, <1>3, Positions DEF BatchOK, OneCommand, Kept
  <1>5. Alone /\ NoticesFirst /\ MenuFirst
    BY <1>1, <1>2, <1>3, Positions
       DEF Alone, NoticesFirst, MenuFirst
  <1>6. QED
    BY <1>4, <1>5 DEF CommandsOK

\* The invariant of the commands holds always.
LEMMA CommandsAlwaysOK == Spec => []CommandsOK
  <1>1. Init => CommandsOK
    BY CommandsInit
  <1>2. TypeOK /\ ControlOK /\ DiscardOrder /\ CommandsOK /\ [Next]_vars
            => CommandsOK'
    BY CommandsNext
  <1>3. QED
    BY <1>1, <1>2, TypeCorrect, DiscardsInOrder, PTL DEF Spec

\* No command of the tray, the command line or a signal, nor the change of
\* status that it causes, is thrown away by the discard middleware as an old event,
\* whatever is expanded or searched in the same batch and however the threads
\* interleave (discard.rs, disable.rs, context_menu.rs).
THEOREM CommandsKept == Spec => []CommandsNeverDiscarded
  <1>1. CommandsOK => CommandsNeverDiscarded
    BY DEF CommandsOK, Kept, CommandsNeverDiscarded, IsCommand
  <1>2. QED
    BY <1>1, CommandsAlwaysOK, PTL

-----------------------------------------------------------------------------
(* Status *)

\* What the two notices carry to the tray, what they should carry, and what
\* the tray shows.
Notices == {"IconStatusChange", "ShowContextMenu"}
Carried(e) == IF e.kind = "ShowContextMenu" THEN e.tray ELSE e.icon
Wanted(kind) == IF kind = "ShowContextMenu" THEN menu ELSE IconOf(icon)
OnTray(kind) == IF kind = "ShowContextMenu" THEN trayMenu ELSE trayIcon

\* The event at i is the last of its kind in s.
IsLast(s, kind, i) ==
    /\ i \in DOMAIN s /\ s[i].kind = kind
    /\ \A j \in DOMAIN s : j > i => s[j].kind # kind

NoneOf(s, kind) == \A i \in DOMAIN s : s[i].kind # kind

\* The last notice on its way to the tray, or else the tray, is right.
Reaches(kind) ==
    /\ \A i \in DOMAIN Waiting :
          IsLast(Waiting, kind, i) => Carried(Waiting[i]) = Wanted(kind)
    /\ NoneOf(Waiting, kind) =>
          /\ cur.kind = kind => Carried(cur) = Wanted(kind)
          /\ cur.kind # kind =>
                /\ \A i \in DOMAIN processed :
                      IsLast(processed, kind, i) =>
                          Carried(processed[i]) = Wanted(kind)
                /\ NoneOf(processed, kind) => OnTray(kind) = Wanted(kind)

\* The change of status that is on its way is the last one.
ChangeIsLast ==
    /\ \A i \in DOMAIN Waiting :
          Waiting[i].kind \in OnOff => Waiting[i].kind = OnOffOf(enabled)
    /\ cur.kind \in OnOff => cur.kind = OnOffOf(enabled)

\* The icon lags behind the flag while a change is on its way,
IconFollows ==
    icon.enabled # enabled =>
        \/ \E i \in DOMAIN Waiting : Waiting[i].kind \in OnOff
        \/ cur.kind \in OnOff /\ stage < icon_status

\* and the menu behind the icon while the change is between the two.
MenuFollows ==
    icon = IF /\ cur.kind \in StatusChanges
              /\ icon_status <= stage /\ stage < context_menu
             THEN Follow(menu, cur.kind)
             ELSE menu

StatusOK ==
    /\ ChangeIsLast /\ IconFollows /\ MenuFollows
    /\ pc # "exited" => \A kind \in Notices : Reaches(kind)

\* What middleware p does to the status beside dispatching out.
StatusFrame(p, out) ==
    /\ UNCHANGED trayVars
    /\ \/ enabled' = enabled
       \/ p = disable /\ \E k \in 1..Len(out) : out[k].kind \in OnOff
    /\ IF p = icon_status
         THEN /\ icon' = Follow(icon, cur.kind) /\ cur' = cur
              /\ Len(out) = 1 /\ out[1].kind = "IconStatusChange"
              /\ out[1].icon = IconOf(icon')
         ELSE icon' = icon
    /\ IF p = context_menu THEN ShowsMenu(out) ELSE menu' = menu

\* A middleware returns in one way only.
LEMMA SameOut ==
    ASSUME TypeOK, NEW p, NEW q, NEW e, NEW f,
           NEW out \in Seq(Event), NEW o \in Seq(Event),
           Returns(p, e, out), Returns(q, f, o)
    PROVE  out = o /\ e = f
  <1>1. emitted \in Seq(Event) /\ emitted \o out = emitted \o o /\ e = f
    BY DEF TypeOK, ChainTypes, Returns
  <1>2. QED
    BY <1>1, ConcatSimplifications

\* Every step of a middleware treats the status as its position says.
LEMMA MiddlewareStatus ==
    ASSUME TypeOK, CommandsOK, Middleware, ~Discard, ~MatchSelectOpen
    PROVE  \E p \in 1..22 : \E out \in Seq(Event) :
              Handles(p, out) /\ At(p) /\ StatusFrame(p, out)
  <1>1. PICK p \in 1..22 : \E out \in Seq(Event) : Handles(p, out) /\ At(p)
    BY MiddlewareHandles
  <1>2. PICK out \in Seq(Event) : Handles(p, out) /\ At(p)
    BY <1>1
  <1>3. cur \in Event /\ cur.id \in Nat
    BY EventFields DEF TypeOK, ChainTypes
  <1>4. CASE DisableOnKey \/ DisableOnRequest
    <2>1. p = disable
      BY <1>2, <1>4, StepAt, AtUnique, InChain
    <2>2. \E on, changed \in BOOLEAN :
             /\ ToggledTo(on, changed)
             /\ ~changed => on = enabled
      <3>1. enabled \in BOOLEAN
        BY DEF TypeOK, StatusTypes
      <3>2. DisableOnKey => ToggledTo(enabled, FALSE) \/ ToggledTo(~enabled, TRUE)
        BY DEF DisableOnKey
      <3>3. DisableOnRequest => \E on \in BOOLEAN : ToggledTo(on, TRUE)
        <4>1. DisableOnRequest => cur.kind \in Toggles
          BY SubjectOf DEF DisableOnRequest, Toggles
        <4>2. QED
          BY <3>1, <4>1 DEF DisableOnRequest, Toggles
      <3>4. QED
        BY <1>4, <3>1, <3>2, <3>3
    <2>3. PICK on, changed \in BOOLEAN :
             /\ ToggledTo(on, changed)
             /\ ~changed => on = enabled
      BY <2>2
    <2>4. enabled' = on /\ UNCHANGED <<icon, menu, trayVars>>
      BY <2>3 DEF ToggledTo
    <2>5. changed => \E k \in 1..Len(out) : out[k].kind \in OnOff
      <3> SUFFICES ASSUME changed
                   PROVE  \E k \in 1..Len(out) : out[k].kind \in OnOff
        OBVIOUS
      <3> DEFINE x == Plain(OnOffOf(on), cur.id)
      <3>1. x \in Event /\ x.kind \in OnOff
        BY <1>3, PlainIsEvent DEF OnOffOf, PlainKinds, Plain, OnOff
      <3>2. Returns(disable, cur', <<x>>)
        BY <2>3 DEF ToggledTo, Returns, OnOffOf
      <3> HIDE DEF x
      <3>3. <<x>> \in Seq(Event) /\ Len(<<x>>) = 1 /\ <<x>>[1] = x
        BY <3>1
      <3>4. out = <<x>>
        BY <1>2, <3>2, <3>3, SameOut DEF Handles
      <3>5. QED
        BY <3>1, <3>3, <3>4
    <2>6. QED
      BY <1>2, <2>1, <2>3, <2>4, <2>5, Positions DEF StatusFrame
  <1>5. CASE IconUpdate
    <2>1. p = icon_status
      BY <1>2, <1>5, StepAt, AtUnique, InChain
    <2> DEFINE x == [kind |-> "IconStatusChange", id |-> cur.id,
                     icon |-> IconOf(icon')]
    <2>2. /\ icon' = Follow(icon, cur.kind) /\ Returns(icon_status, cur, <<x>>)
          /\ UNCHANGED <<enabled, menu, trayVars>>
      BY <1>5 DEF IconUpdate
    <2>3. x \in Event /\ x.kind = "IconStatusChange" /\ x.icon = IconOf(icon')
      BY <1>3 DEF Event, IconEvent, IconOf, IconStatus
    <2> HIDE DEF x
    <2>4. <<x>> \in Seq(Event) /\ Len(<<x>>) = 1 /\ <<x>>[1] = x
      BY <2>3
    <2>5. out = <<x>> /\ cur' = cur
      <3>1. Returns(p, cur', out)
        BY <1>2 DEF Handles
      <3>2. cur' = cur /\ Returns(icon_status, cur', <<x>>)
        BY <2>2 DEF Returns
      <3>3. out = <<x>>
        BY <2>4, <3>1, <3>2, SameOut
      <3>4. QED
        BY <3>2, <3>3
    <2>6. /\ Len(out) = 1 /\ out[1].kind = "IconStatusChange"
          /\ out[1].icon = IconOf(icon')
      BY <2>3, <2>4, <2>5
    <2>7. icon_status # context_menu
      BY Positions
    <2>8. StatusFrame(p, out)
      BY <2>1, <2>2, <2>5, <2>6, <2>7 DEF StatusFrame
    <2>9. QED
      BY <1>2, <2>8
  <1>6. CASE ContextMenu
    <2>1. p = context_menu
      BY <1>2, <1>6, StepAt, AtUnique, InChain
    <2>2. PICK o \in Seq(Event) : Made(context_menu, o) /\ ShowsMenu(o)
      BY <1>6, MenuMakes
    <2>3. out = o
      BY <1>2, <2>2, SameOut DEF Handles, Made
    <2>4. UNCHANGED <<enabled, icon, trayVars>>
      BY <1>6 DEF ContextMenu
    <2>5. QED
      BY <1>2, <2>1, <2>2, <2>3, <2>4, Positions DEF StatusFrame
  <1>7. CASE ~(DisableOnKey \/ DisableOnRequest \/ IconUpdate \/ ContextMenu)
    <2>1. UNCHANGED <<enabled, icon, menu, trayVars>>
      BY <1>7
         DEF Middleware, Discard, AltCodeSynthesizer, MatcherOnKey,
             MatcherOnMouse, MatcherOnInjection, MatcherRest, MatchExec,
             Suppress, HotKey, MatchSelectAtOnce, Cause, OpenConfig,
             Multiplex, StatsOnRequest, StatsOnDiscard, StatsOnInjection,
             StatsRest, Render, ImageResolve, CursorHint, Exit,
             UndoOnExpansion, UndoOnKey, UndoRest, ActionOnBody,
             ActionOnHint, ActionOnTrigger, ActionOnUndo, ActionRest,
             Search, Markdown, Stateless, statusVars
    <2>2. \E q \in 1..22 : At(q) /\ q # icon_status /\ q # context_menu
      <3>1. \/ At(alt_code)
            \/ At(matcher) \/ At(match_exec) \/ At(suppress) \/ At(hotkey)
            \/ At(match_select) \/ At(cause) \/ At(open_config)
            \/ At(multiplex) \/ At(stats) \/ At(render)
            \/ At(image_resolve) \/ At(cursor_hint) \/ At(exit)
            \/ At(undo) \/ At(action) \/ At(search) \/ At(markdown)
        BY <1>7, StepAt DEF Middleware
      <3>2. QED
        BY <3>1, Positions
    <2>3. p # icon_status /\ p # context_menu
      BY <1>2, <2>2, AtUnique
    <2>4. QED
      BY <1>2, <2>1, <2>3 DEF StatusFrame
  <1>8. QED
    BY <1>4, <1>5, <1>6, <1>7

\* The position of the event before and after a status change goes by.
LEMMA PassesStatus ==
    ASSUME TypeOK, NEW p \in 1..22, stage < p,
           \/ At(p)
           \/ p = match_select /\ cur.kind = "MatchesDetected",
           cur.kind \in StatusChanges
    PROVE  /\ p # disable
           /\ stage < icon_status => p <= icon_status
           /\ stage < context_menu => p <= context_menu
  <1>1. At(p) /\ stage \in 0..23
    BY Positions DEF StatusChanges, TypeOK, ChainTypes
  <1>2. LooksAt(icon_status) /\ LooksAt(context_menu)
    BY Positions DEF LooksAt, Subjects
  <1>3. /\ stage < icon_status /\ icon_status < p =>
              icon_status \in stage + 1 .. p - 1
        /\ stage < context_menu /\ context_menu < p =>
              context_menu \in stage + 1 .. p - 1
    BY <1>1, Positions
  <1>4. p # disable
    BY <1>1, SubjectOf DEF StatusChanges
  <1>5. QED
    BY <1>1, <1>2, <1>3, <1>4, Positions DEF At

\* What the icon and the menu make of a change of status.
LEMMA FollowFacts ==
    ASSUME TypeOK
    PROVE  /\ cur.kind \in OnOff => Follow(icon, cur.kind).enabled = (cur.kind = "Enabled")
           /\ cur.kind \notin OnOff => Follow(icon, cur.kind).enabled = icon.enabled
           /\ cur.kind \notin StatusChanges => Follow(menu, cur.kind) = menu
  BY DEF TypeOK, StatusTypes, TrayStatus, Follow, OnOff, StatusChanges

\* A middleware keeps the change of status that is on its way the last one.
LEMMA HandlesKeepsChanges ==
    ASSUME TypeOK, CommandsOK, StatusOK, NEW p \in 1..22,
           NEW out \in Seq(Event), Handles(p, out), StatusFrame(p, out),
           \/ At(p)
           \/ p = match_select /\ cur.kind = "MatchesDetected"
    PROVE  ChangeIsLast' /\ IconFollows' /\ MenuFollows'
  <1> DEFINE n == Len(Waiting)
             m == Len(out)
             w == Waiting
             v == Waiting'
  <1>1. /\ n \in Nat /\ m \in Nat
        /\ DOMAIN w = 1..n /\ DOMAIN v = 1 .. n + m
        /\ \A i \in 1..n : v[i] = w[i]
        /\ \A i \in 1 .. n + m : i \notin 1..n =>
              i - n \in 1..m /\ v[i] = out[i - n]
    BY WaitingGrows DEF Handles, Returns
  <1>2. \A k \in 1..m : n + k \in 1 .. n + m /\ v[n + k] = out[k]
    BY <1>1
  <1>3. /\ cur' = cur \/ cur'.kind \notin Toggles \cup StatusChanges
        /\ stage < p /\ stage \in 0..23
        /\ stage' = p \/ (stage' = 23 /\ cur'.kind = "NOOP")
    BY Outcome, Positions DEF Handles, Returns, TypeOK, ChainTypes
  <1>4. /\ \A i \in 1..n : w[i].kind \in OnOff => w[i].kind = OnOffOf(enabled)
        /\ cur.kind \in OnOff => cur.kind = OnOffOf(enabled)
        /\ icon.enabled # enabled =>
              \/ \E i \in 1..n : w[i].kind \in OnOff
              \/ cur.kind \in OnOff /\ stage < icon_status
    BY <1>1 DEF StatusOK, ChangeIsLast, IconFollows
  <1>5. \A k \in 1..m : out[k].kind \in OnOff =>
           /\ out[k].kind = OnOffOf(enabled') /\ p = disable
           /\ cur.kind \in Toggles \cup {"Keyboard"}
    <2> SUFFICES ASSUME NEW k \in 1..m, out[k].kind \in OnOff
                 PROVE  /\ out[k].kind = OnOffOf(enabled') /\ p = disable
                        /\ cur.kind \in Toggles \cup {"Keyboard"}
      OBVIOUS
    <2>1. Spawns(p, out[k])
      BY DEF Handles, Makes
    <2>2. /\ out[k] = Compensated /\ cur.kind = "MatchSelected" =>
               out[k].kind = "CauseCompensatedMatch"
          /\ \A why : Inject("TextInject", cur.id, why).kind = "TextInject"
      BY EventFields
         DEF Compensated, MatchEvent, Inject, TypeOK, ChainTypes
    <2>3. QED
      BY <2>1, <2>2 DEF Spawns, OnOff, IsKey
  <1> HIDE DEF n, m, w, v
  <1>6. enabled' # enabled =>
           /\ p = disable /\ \E k \in 1..m : out[k].kind \in OnOff
           /\ cur.kind \in Toggles \cup {"Keyboard"}
           /\ \A i \in 1..n : w[i].kind \notin OnOff
    <2> SUFFICES ASSUME enabled' # enabled
                 PROVE  /\ p = disable /\ \E k \in 1..m : out[k].kind \in OnOff
                        /\ cur.kind \in Toggles \cup {"Keyboard"}
                        /\ \A i \in 1..n : w[i].kind \notin OnOff
      OBVIOUS
    <2>1. p = disable /\ \E k \in 1..m : out[k].kind \in OnOff
      BY DEF StatusFrame, m
    <2>2. cur.kind \in Toggles \cup {"Keyboard"}
      BY <1>5, <2>1
    <2>3. \A i \in 1..n : ~IsCommand(w[i])
      BY <1>1, <1>3, <2>1, <2>2 DEF CommandsOK, Alone, w
    <2>4. QED
      BY <2>1, <2>2, <2>3 DEF IsCommand, Commands, OnOff
  <1>7. OnOff \subseteq StatusChanges /\ OnOff \cap Toggles = {}
        /\ "Keyboard" \notin OnOff /\ "NOOP" \notin OnOff
        /\ "NOOP" \notin StatusChanges
    BY DEF OnOff, StatusChanges, Toggles
  <1>8. ChangeIsLast'
    <2>1. ASSUME NEW i \in 1 .. n + m, v[i].kind \in OnOff
          PROVE  v[i].kind = OnOffOf(enabled')
      <3>1. CASE i \in 1..n
        BY <1>1, <1>4, <1>6, <2>1, <3>1
      <3>2. CASE i \notin 1..n
        BY <1>1, <1>5, <2>1, <3>2
      <3>3. QED
        BY <3>1, <3>2
    <2>2. cur'.kind \in OnOff => cur'.kind = OnOffOf(enabled')
      <3> SUFFICES ASSUME cur'.kind \in OnOff
                   PROVE  cur'.kind = OnOffOf(enabled')
        OBVIOUS
      <3>1. cur' = cur
        BY <1>3, <1>7
      <3>2. enabled' = enabled
        BY <1>6, <1>7, <3>1
      <3>3. QED
        BY <1>4, <3>1, <3>2
    <2>3. QED
      BY <1>1, <2>1, <2>2 DEF ChangeIsLast, OnOffOf, v
  <1>9. p = icon_status => cur.kind \in StatusChanges
    BY SubjectOf, Positions
  <1>10. IconFollows'
    <2> SUFFICES ASSUME icon'.enabled # enabled'
                 PROVE  \/ \E i \in 1 .. n + m : v[i].kind \in OnOff
                        \/ cur'.kind \in OnOff /\ stage' < icon_status
      BY <1>1 DEF IconFollows, v
    <2>1. CASE enabled' # enabled
      BY <1>2, <1>6, <2>1
    <2>2. CASE enabled' = enabled /\ p # icon_status
      <3>1. icon' = icon
        BY <2>2 DEF StatusFrame
      <3>2. CASE \E i \in 1..n : w[i].kind \in OnOff
        <4>1. \A i \in 1..n : i \in 1 .. n + m
          BY <1>1
        <4>2. QED
          BY <1>1, <3>2, <4>1
      <3>3. CASE cur.kind \in OnOff /\ stage < icon_status
        <4>1. p # disable /\ p <= icon_status
          BY <1>3, <1>7, <3>3, PassesStatus
        <4>2. 1 <= stage
          BY DEF Handles
        <4>3. FALSE
          <5>1. p \in 2..3 /\ p # 2 /\ p # 3
            <6>1. stage < p /\ stage \in 0..23
              BY <1>3
            <6>2. disable = 2 /\ icon_status = 3
              BY Positions
            <6>3. QED
              BY <2>2, <4>1, <4>2, <6>1, <6>2
          <5>2. QED
            BY <5>1
        <4>4. QED
          BY <4>3
      <3>4. QED
        BY <1>4, <2>2, <3>1, <3>2, <3>3
    <2>3. CASE enabled' = enabled /\ p = icon_status
      <3>1. icon' = Follow(icon, cur.kind)
        BY <2>3 DEF StatusFrame
      <3>2. CASE cur.kind \in OnOff
        <4>1. icon'.enabled = (cur.kind = "Enabled") /\ enabled \in BOOLEAN
          BY <3>1, <3>2, FollowFacts DEF TypeOK, StatusTypes
        <4>2. (cur.kind = "Enabled") = enabled
          BY <1>4, <3>2, <4>1 DEF OnOffOf
        <4>3. QED
          BY <2>3, <4>1, <4>2
      <3>3. CASE cur.kind \notin OnOff
        <4>1. icon'.enabled = icon.enabled
          BY <3>1, <3>3, FollowFacts
        <4>2. \E i \in 1..n : w[i].kind \in OnOff
          BY <1>4, <2>3, <3>3, <4>1
        <4>3. \A i \in 1..n : i \in 1 .. n + m
          BY <1>1
        <4>4. QED
          BY <1>1, <4>2, <4>3
      <3>4. QED
        BY <3>2, <3>3
    <2>4. QED
      BY <2>1, <2>2, <2>3
  <1>11. MenuFollows'
    <2>1. icon = IF /\ cur.kind \in StatusChanges
                    /\ 3 <= stage /\ stage < 8
                   THEN Follow(menu, cur.kind)
                   ELSE menu
      BY Positions DEF StatusOK, MenuFollows
    <2> SUFFICES icon' = IF /\ cur'.kind \in StatusChanges
                            /\ 3 <= stage' /\ stage' < 8
                           THEN Follow(menu', cur'.kind)
                           ELSE menu'
      BY Positions DEF MenuFollows
    <2>2. CASE p = 3
      <3>1. /\ icon' = Follow(icon, cur.kind) /\ cur' = cur /\ menu' = menu
            /\ cur.kind \in StatusChanges /\ stage' = 3
        BY <1>3, <1>7, <1>9, <2>2, Positions DEF StatusFrame
      <3>2. icon = menu
        BY <1>3, <2>1, <2>2
      <3>3. QED
        BY <3>1, <3>2
    <2>3. CASE p = 8
      <3>1. icon' = icon /\ menu' = Follow(menu, cur.kind)
        BY <2>3, Positions DEF StatusFrame, ShowsMenu
      <3>2. ~(3 <= stage' /\ stage' < 8)
        BY <1>3, <2>3
      <3>3. CASE cur.kind \in StatusChanges
        <4>1. 3 <= stage /\ stage < 8
          BY <1>3, <2>3, <3>3, PassesStatus, Positions
        <4>2. QED
          BY <2>1, <3>1, <3>2, <3>3, <4>1
      <3>4. CASE cur.kind \notin StatusChanges
        BY <2>1, <3>1, <3>2, <3>4, FollowFacts
      <3>5. QED
        BY <3>3, <3>4
    <2>4. CASE p # 3 /\ p # 8
      <3>1. icon' = icon /\ menu' = menu
        BY <2>4, Positions DEF StatusFrame
      <3>2. CASE cur'.kind \in StatusChanges
        <4>1. cur' = cur /\ stage' = p
          BY <1>3, <1>7, <3>2
        <4>2. /\ stage < 3 => p < 3
              /\ stage < 8 => p < 8
          BY SMTT(30), <1>3, <2>4, <3>2, <4>1, PassesStatus, Positions
        <4>3. QED
          BY <1>3, <2>1, <3>1, <4>1, <4>2
      <3>3. CASE cur'.kind \notin StatusChanges
        <4>1. CASE cur.kind \in StatusChanges
          <5>1. cur'.kind = "NOOP" \/ cur' # cur
            BY <3>3, <4>1
          <5>2. cur' = cur
            BY <4>1 DEF Handles, Makes, Becomes, Consumed, IsKey,
                        StatusChanges
          <5>3. QED
            BY <3>3, <4>1, <5>2
        <4>2. CASE cur.kind \notin StatusChanges
          BY <2>1, <3>1, <3>3, <4>2
        <4>3. QED
          BY <4>1, <4>2
      <3>4. QED
        BY <3>2, <3>3
    <2>5. QED
      BY <2>2, <2>3, <2>4
  <1>12. QED
    BY <1>8, <1>10, <1>11

\* What middleware p makes of the notices on their way.
LEMMA NoticesMade ==
    ASSUME TypeOK, NEW p \in 1..22, NEW out \in Seq(Event), Handles(p, out),
           StatusFrame(p, out), NEW kind \in Notices,
           p = icon_status => cur.kind \in StatusChanges
    PROVE  /\ OnTray(kind)' = OnTray(kind)
           /\ \A k \in 1..Len(out) : out[k].kind = kind =>
                 \/ Carried(out[k]) = Wanted(kind)'
                 \/ \E l \in 1..Len(out) : k < l /\ out[l].kind = kind
           /\ \/ Wanted(kind)' = Wanted(kind)
              \/ \E k \in 1..Len(out) : out[k].kind = kind
           /\ \/ cur' = cur
              \/ cur.kind # kind /\ cur'.kind # kind
              \/ cur'.kind = kind /\ Carried(cur') = Wanted(kind)'
  <1>1. UNCHANGED <<trayIcon, trayMenu>>
    BY DEF StatusFrame, trayVars
  <1>2. OnTray(kind)' = OnTray(kind)
    BY <1>1 DEF OnTray
  <1>3. \/ cur' = cur
        \/ cur.kind \notin Notices /\ cur'.kind # "IconStatusChange"
    <2>1. cur \in Event /\ Becomes(p)
      BY DEF TypeOK, ChainTypes, Handles, Makes
    <2>2. cur.kind = "MatchSelected" =>
              Compensated.kind = "CauseCompensatedMatch"
      BY <2>1, EventFields DEF Compensated, MatchEvent
    <2>3. /\ \A k, id : Plain(k, id).kind = k
          /\ \A k, id, why : Inject(k, id, why).kind = k
          /\ \A flags : ShowMenu(flags).kind = "ShowContextMenu"
      BY DEF Plain, Inject, ShowMenu
    <2>4. cur' # cur => cur.kind \notin Notices
      BY <2>1 DEF Becomes, Consumed, IsKey, Notices
    <2>5. cur' # cur => cur'.kind # "IconStatusChange"
      BY <2>1, <2>2, <2>3 DEF Becomes
    <2>6. QED
      BY <2>4, <2>5
  <1>4. CASE kind = "IconStatusChange"
    <2>1. /\ Wanted(kind)' = IconOf(icon') /\ Wanted(kind) = IconOf(icon)
          /\ \A e : e.kind = kind => Carried(e) = e.icon
      BY <1>4 DEF Wanted, Carried
    <2>2. CASE p = icon_status
      <3>1. /\ cur' = cur /\ Len(out) = 1 /\ out[1].kind = kind
            /\ out[1].icon = IconOf(icon')
            /\ \A k \in 1..1 : k = 1
        BY <1>4, <2>2 DEF StatusFrame
      <3>2. QED
        BY <1>2, <2>1, <3>1
    <2>3. CASE p # icon_status
      <3>1. Wanted(kind)' = Wanted(kind)
        BY <2>1, <2>3 DEF StatusFrame
      <3>2. ASSUME NEW k \in 1..Len(out), out[k].kind = kind PROVE FALSE
        <4>1. Spawns(p, out[k]) /\ cur \in Event
          BY DEF Handles, Makes, TypeOK, ChainTypes
        <4>2. cur.kind = "MatchSelected" =>
                  Compensated.kind = "CauseCompensatedMatch"
          BY <4>1, EventFields DEF Compensated, MatchEvent
        <4>3. /\ \A why : Inject("TextInject", cur.id, why).kind = "TextInject"
              /\ OnOffOf(enabled') # "IconStatusChange"
          BY DEF Inject, OnOffOf
        <4>4. QED
          BY <1>4, <2>3, <3>2, <4>1, <4>2, <4>3 DEF Spawns
      <3>3. QED
        BY <1>2, <1>3, <1>4, <3>1, <3>2 DEF Notices
    <2>4. QED
      BY <2>2, <2>3
  <1>5. CASE kind = "ShowContextMenu"
    <2>1. /\ Wanted(kind)' = menu' /\ Wanted(kind) = menu
          /\ \A e : e.kind = kind => Carried(e) = e.tray
      BY <1>5 DEF Wanted, Carried
    <2>2. CASE p = context_menu
      <3>1. ShowsMenu(out)
        BY <2>2 DEF StatusFrame
      <3>2. \/ cur' = cur
            \/ cur.kind # kind /\ cur'.kind # kind
            \/ cur'.kind = kind /\ Carried(cur') = Wanted(kind)'
        BY <1>3, <1>5, <2>1, <3>1 DEF ShowsMenu, Notices
      <3>3. QED
        BY <1>2, <1>5, <2>1, <3>1, <3>2 DEF ShowsMenu
    <2>3. CASE p # context_menu
      <3>1. Wanted(kind)' = Wanted(kind)
        BY <2>1, <2>3 DEF StatusFrame
      <3>2. ASSUME NEW k \in 1..Len(out), out[k].kind = kind PROVE FALSE
        <4>1. Spawns(p, out[k]) /\ cur \in Event
          BY DEF Handles, Makes, TypeOK, ChainTypes
        <4>2. cur.kind = "MatchSelected" =>
                  Compensated.kind = "CauseCompensatedMatch"
          BY <4>1, EventFields DEF Compensated, MatchEvent
        <4>3. /\ \A why : Inject("TextInject", cur.id, why).kind = "TextInject"
              /\ OnOffOf(enabled') # "ShowContextMenu"
          BY DEF Inject, OnOffOf
        <4>4. QED
          BY <1>5, <2>3, <3>2, <4>1, <4>2, <4>3 DEF Spawns
      <3>3. cur' = cur \/ (cur.kind # kind /\ cur'.kind # kind)
        <4>1. Becomes(p) /\ cur \in Event
          BY DEF Handles, Makes, TypeOK, ChainTypes
        <4>2. cur.kind = "MatchSelected" =>
                  Compensated.kind = "CauseCompensatedMatch"
          BY <4>1, EventFields DEF Compensated, MatchEvent
        <4>3. /\ \A k, id : Plain(k, id).kind = k
              /\ \A k, id, why : Inject(k, id, why).kind = k
          BY DEF Plain, Inject
        <4>4. cur' # cur => cur'.kind # "ShowContextMenu"
          BY <2>3, <4>1, <4>2, <4>3 DEF Becomes
        <4>5. QED
          BY <1>3, <1>5, <4>4 DEF Notices
      <3>4. QED
        BY <1>2, <3>1, <3>2, <3>3
    <2>4. QED
      BY <2>2, <2>3
  <1>6. QED
    BY <1>4, <1>5 DEF Notices

\* A middleware keeps the last notice on its way right.
LEMMA HandlesReaches ==
    ASSUME TypeOK, NEW p \in 1..22, NEW out \in Seq(Event), Handles(p, out),
           StatusFrame(p, out), NEW kind \in Notices, Reaches(kind),
           p = icon_status => cur.kind \in StatusChanges
    PROVE  Reaches(kind)'
  <1> DEFINE n == Len(Waiting)
             m == Len(out)
             w == Waiting
             v == Waiting'
             want == Wanted(kind)'
  <1>1. /\ n \in Nat /\ m \in Nat
        /\ DOMAIN w = 1..n /\ DOMAIN v = 1 .. n + m
        /\ \A i \in 1..n : v[i] = w[i]
        /\ \A i \in 1 .. n + m : i \notin 1..n =>
              i - n \in 1..m /\ v[i] = out[i - n]
    BY WaitingGrows DEF Handles, Returns
  <1>2. \A k \in 1..m : n + k \in 1 .. n + m /\ v[n + k] = out[k]
    BY <1>1
  <1>3. /\ OnTray(kind)' = OnTray(kind)
        /\ \A k \in 1..m : out[k].kind = kind =>
              \/ Carried(out[k]) = want
              \/ \E l \in 1..m : k < l /\ out[l].kind = kind
        /\ \/ want = Wanted(kind)
           \/ \E k \in 1..m : out[k].kind = kind
        /\ \/ cur' = cur
           \/ cur.kind # kind /\ cur'.kind # kind
           \/ cur'.kind = kind /\ Carried(cur') = want
    BY NoticesMade
  <1>4. processed' = processed
    BY DEF Handles
  <1>5. /\ \A i \in 1..n : w[i].kind = kind
              /\ (\A j \in 1..n : j > i => w[j].kind # kind)
              => Carried(w[i]) = Wanted(kind)
        /\ (\A i \in 1..n : w[i].kind # kind) =>
              /\ cur.kind = kind => Carried(cur) = Wanted(kind)
              /\ cur.kind # kind =>
                /\ \A i \in DOMAIN processed :
                      IsLast(processed, kind, i) =>
                          Carried(processed[i]) = Wanted(kind)
                /\ NoneOf(processed, kind) => OnTray(kind) = Wanted(kind)
    BY <1>1 DEF Reaches, IsLast, NoneOf
  <1> HIDE DEF n, m, w, v, want
  <1>6. ASSUME NEW i \in 1 .. n + m, v[i].kind = kind,
               \A j \in 1 .. n + m : j > i => v[j].kind # kind
        PROVE  Carried(v[i]) = want
    <2>1. CASE i \in 1..n
      <3>1. \A k \in 1..m : out[k].kind # kind
        <4>1. \A k \in 1..m : n + k > i
          BY <1>1, <2>1
        <4>2. QED
          BY <1>2, <1>6, <4>1
      <3>2. \A j \in 1..n : j > i => w[j].kind # kind
        <4>1. \A j \in 1..n : j \in 1 .. n + m
          BY <1>1
        <4>2. QED
          BY <1>1, <1>6, <4>1
      <3>3. QED
        BY <1>1, <1>3, <1>5, <1>6, <2>1, <3>1, <3>2
    <2>2. CASE i \notin 1..n
      <3>1. i - n \in 1..m /\ v[i] = out[i - n] /\ i \in Int
        BY <1>1, <2>2
      <3>2. \A l \in 1..m : i - n < l => out[l].kind # kind
        <4>1. \A l \in 1..m : i - n < l => n + l > i
          BY <1>1, <3>1
        <4>2. QED
          BY <1>2, <1>6, <4>1
      <3>3. QED
        BY <1>3, <1>6, <3>1, <3>2
    <2>3. QED
      BY <2>1, <2>2
  <1>7. ASSUME \A i \in 1 .. n + m : v[i].kind # kind
        PROVE  /\ cur'.kind = kind => Carried(cur') = want
               /\ cur'.kind # kind =>
                 /\ \A i \in DOMAIN processed :
                      IsLast(processed, kind, i) => Carried(processed[i]) = want
                 /\ NoneOf(processed, kind) => OnTray(kind) = want
    <2>1. \A k \in 1..m : out[k].kind # kind
      BY <1>2, <1>7
    <2>2. \A i \in 1..n : w[i].kind # kind
      <3>1. \A i \in 1..n : i \in 1 .. n + m
        BY <1>1
      <3>2. QED
        BY <1>1, <1>7, <3>1
    <2>3. want = Wanted(kind)
      BY <1>3, <2>1
    <2>4. QED
      BY <1>3, <1>5, <2>2, <2>3
  <1>8. QED
    <2>1. \A i \in 1 .. n + m : IsLast(Waiting, kind, i)' =>
              Carried(v[i]) = want
      BY <1>1, <1>6 DEF IsLast, v
    <2>2. NoneOf(Waiting, kind)' => \A i \in 1 .. n + m : v[i].kind # kind
      BY <1>1 DEF NoneOf, v
    <2>3. /\ \A i : IsLast(processed, kind, i)' <=> IsLast(processed, kind, i)
          /\ NoneOf(processed, kind)' <=> NoneOf(processed, kind)
      BY <1>4 DEF IsLast, NoneOf
    <2>4. QED
      BY <1>1, <1>3, <1>4, <1>7, <2>1, <2>2, <2>3
         DEF Reaches, Carried, v, want

\* So does the end of the chain.
LEMMA EndOfChainReaches ==
    ASSUME TypeOK, NEW kind \in Notices, Reaches(kind), EndOfChain
    PROVE  Reaches(kind)'
  <1>1. NextTaken /\ UNCHANGED <<icon, menu, trayIcon, trayMenu>>
    BY EndOfChainTakes DEF EndOfChain, statusVars, trayVars
  <1>2. Wanted(kind)' = Wanted(kind) /\ OnTray(kind)' = OnTray(kind)
    BY <1>1 DEF Wanted, OnTray
  <1> DEFINE w == Waiting
             v == Waiting'
             want == Wanted(kind)
             old == processed
             new == processed'
  \* The notice that leaves the chain joins those to carry out.
  <1>3. /\ \A i \in DOMAIN w : IsLast(w, kind, i) => Carried(w[i]) = want
        /\ NoneOf(w, kind) =>
              /\ \A i \in DOMAIN new :
                    IsLast(new, kind, i) => Carried(new[i]) = want
              /\ NoneOf(new, kind) => OnTray(kind) = want
    <2>1. /\ \A i \in DOMAIN w : IsLast(w, kind, i) => Carried(w[i]) = want
          /\ NoneOf(w, kind) =>
                /\ cur.kind = kind => Carried(cur) = want
                /\ cur.kind # kind =>
                   /\ \A i \in DOMAIN old :
                         IsLast(old, kind, i) => Carried(old[i]) = want
                   /\ NoneOf(old, kind) => OnTray(kind) = want
      BY DEF Reaches
    <2>2. /\ old \in Seq(Event) /\ cur \in Event
          /\ new = IF cur.kind \in Executed THEN Append(old, cur) ELSE old
      BY DEF TypeOK, ChainTypes, EndOfChain
    <2>3. kind \in Executed
      BY DEF Notices, Executed
    <2> SUFFICES ASSUME NoneOf(w, kind)
                 PROVE  /\ \A i \in DOMAIN new :
                              IsLast(new, kind, i) => Carried(new[i]) = want
                        /\ NoneOf(new, kind) => OnTray(kind) = want
      BY <2>1
    <2> HIDE DEF w, want
    <2>4. CASE cur.kind \notin Executed
      BY <2>1, <2>2, <2>3, <2>4
    <2>5. CASE cur.kind \in Executed
      <3> DEFINE l == Len(old)
      <3>1. /\ l \in Nat /\ DOMAIN old = 1..l /\ DOMAIN new = 1 .. l + 1
            /\ \A i \in 1..l : new[i] = old[i]
            /\ new[l + 1] = cur
        <4>1. /\ new = Append(old, cur) /\ new \in Seq(Event)
              /\ Len(new) = l + 1 /\ l \in Nat
              /\ \A i \in 1..l : new[i] = old[i]
              /\ new[l + 1] = cur
          BY <2>2, <2>5, AppendProperties, LenProperties
        <4>2. DOMAIN old = 1..l /\ DOMAIN new = 1 .. Len(new)
          BY <2>2, <4>1, LenProperties
        <4>3. QED
          BY <4>1, <4>2
      <3> HIDE DEF l, old, new
      <3>2. /\ l + 1 \in 1 .. l + 1
            /\ \A i \in 1..l : i \in 1 .. l + 1 /\ l + 1 > i
            /\ \A i \in 1 .. l + 1 : i = l + 1 \/ i \in 1..l
        BY <3>1
      <3>3. CASE cur.kind = kind
        <4>1. \A i \in 1 .. l + 1 : IsLast(new, kind, i) => i = l + 1
          BY <3>1, <3>2, <3>3 DEF IsLast
        <4>2. ~NoneOf(new, kind)
          BY <3>1, <3>2, <3>3 DEF NoneOf
        <4>3. QED
          BY <2>1, <3>1, <3>3, <4>1, <4>2
      <3>4. CASE cur.kind # kind
        <4>1. \A i \in 1 .. l + 1 :
                 IsLast(new, kind, i) => i \in 1..l /\ IsLast(old, kind, i)
          BY <3>1, <3>2, <3>4 DEF IsLast
        <4>2. NoneOf(new, kind) => NoneOf(old, kind)
          BY <3>1, <3>2 DEF NoneOf
        <4>3. QED
          BY <2>1, <3>1, <3>4, <4>1, <4>2
      <3>5. QED
        BY <3>3, <3>4
    <2>6. QED
      BY <2>4, <2>5
  <1>4. CASE DOMAIN Waiting = {} /\ DOMAIN Waiting' = {}
             /\ cur' = Plain("NOOP", 0)
    <2>1. cur'.kind # kind /\ NoneOf(Waiting, kind)
      BY <1>4 DEF Plain, Notices, NoneOf
    <2>2. QED
      BY <1>2, <1>3, <1>4, <2>1 DEF Reaches, IsLast, NoneOf, Carried
  <1>5. ASSUME NEW n \in Nat,
               /\ n >= 1 /\ DOMAIN Waiting = 1..n
               /\ DOMAIN Waiting' = 1..n - 1
               /\ cur' = Waiting[1] /\ pc' = "process"
               /\ \A i \in 1..n - 1 :
                     i + 1 \in 1..n /\ Waiting'[i] = Waiting[i + 1]
        PROVE  Reaches(kind)'
    <2> HIDE DEF new, want
    <2>1. /\ 1 \in 1..n
          /\ \A j \in 1..n : j = 1 \/ (j - 1 \in 1..n - 1 /\ v[j - 1] = w[j])
      <3>1. \A j \in 1..n : j = 1 \/ (j - 1 \in 1..n - 1 /\ (j - 1) + 1 = j)
        BY <1>5
      <3>2. QED
        BY <1>5, <3>1
    <2>2. ASSUME NEW i \in 1..n - 1, IsLast(v, kind, i)
          PROVE  Carried(v[i]) = want
      <3>1. i + 1 \in 1..n /\ v[i] = w[i + 1]
        BY <1>5
      <3>2. IsLast(w, kind, i + 1)
        <4>1. ASSUME NEW j \in 1..n, j > i + 1 PROVE w[j].kind # kind
          <5>1. j - 1 \in 1..n - 1 /\ v[j - 1] = w[j] /\ j - 1 > i
            BY <2>1, <4>1
          <5>2. QED
            BY <1>5, <2>2, <5>1 DEF IsLast
        <4>2. QED
          BY <1>5, <2>2, <3>1, <4>1 DEF IsLast
      <3>3. QED
        BY <1>3, <1>5, <3>1, <3>2
    <2>3. ASSUME NoneOf(v, kind)
          PROVE  /\ cur'.kind = kind => IsLast(w, kind, 1)
                 /\ cur'.kind # kind => NoneOf(w, kind)
      <3>1. ASSUME NEW j \in 1..n, j > 1 PROVE w[j].kind # kind
        <4>1. j - 1 \in 1..n - 1 /\ v[j - 1] = w[j]
          BY <1>5, <2>1, <3>1
        <4>2. v[j - 1].kind # kind
          BY <1>5, <2>3, <4>1 DEF NoneOf
        <4>3. QED
          BY <4>1, <4>2
      <3>2. QED
        BY <1>5, <2>1, <2>3, <3>1 DEF NoneOf, IsLast
    <2>4. /\ cur'.kind = kind /\ NoneOf(v, kind) => Carried(cur') = want
          /\ cur'.kind # kind /\ NoneOf(v, kind) =>
                /\ \A i \in DOMAIN new :
                      IsLast(new, kind, i) => Carried(new[i]) = want
                /\ NoneOf(new, kind) => OnTray(kind) = want
      BY <1>3, <1>5, <2>1, <2>3
    <2>5. QED
      BY <1>2, <1>5, <2>2, <2>4
         DEF Reaches, IsLast, NoneOf, Carried, new, want
  <1>6. QED
    BY <1>1, <1>4, <1>5 DEF NextTaken

\* The executors show on the tray what the last notice of the batch carries.
LEMMA DispatchReaches ==
    ASSUME TypeOK, ControlOK, CommandsOK, NEW kind \in Notices,
           Reaches(kind), Dispatch, pc' # "exited"
    PROVE  Reaches(kind)'
  <1> DEFINE old == processed
             new == processed'
             l == Len(processed)
  <1>1. /\ pc = "dispatch" /\ UNCHANGED <<queue, emitted, cur, icon, menu>>
        /\ old \in Seq(Event) /\ old # <<>>
        /\ new = Tail(old)
        /\ trayIcon' = IF Head(old).kind = "IconStatusChange"
                         THEN Head(old).icon ELSE trayIcon
        /\ trayMenu' = IF Head(old).kind = "ShowContextMenu"
                         THEN Head(old).tray ELSE trayMenu
    BY DEF Dispatch, TypeOK, ChainTypes, ControlOK, statusVars
  <1>2. /\ Waiting' = Waiting /\ DOMAIN Waiting = {} /\ cur.kind = "NOOP"
        /\ Waiting = <<>>
    <2>1. DOMAIN <<>> = {}
      OBVIOUS
    <2>2. QED
      BY <1>1, <2>1 DEF CommandsOK, BatchOK, Waiting
  <1>3. NoneOf(Waiting, kind) /\ cur.kind # kind
    BY <1>2 DEF NoneOf, Notices
  <1>4. /\ \A i \in DOMAIN old : IsLast(old, kind, i) =>
              Carried(old[i]) = Wanted(kind)
        /\ NoneOf(old, kind) => OnTray(kind) = Wanted(kind)
    BY <1>3 DEF Reaches
  <1>5. /\ l \in Nat /\ l >= 1 /\ DOMAIN old = 1..l
        /\ DOMAIN new = 1..l - 1 /\ Head(old) = old[1]
        /\ \A i \in 1..l - 1 : i + 1 \in 1..l /\ new[i] = old[i + 1]
    <2>1. /\ new \in Seq(Event) /\ Len(new) = l - 1 /\ l \in Nat /\ l >= 1
          /\ DOMAIN old = 1..l /\ Head(old) = old[1]
          /\ \A i \in 1 .. l - 1 : new[i] = old[i + 1]
      BY <1>1, HeadTailProperties, LenProperties
    <2>2. DOMAIN new = 1 .. Len(new)
      BY <2>1, LenProperties
    <2>3. QED
      BY <2>1, <2>2
  <1> HIDE DEF old, new, l
  <1>6. /\ 1 \in 1..l
        /\ \A j \in 1..l : j = 1 \/ (j - 1 \in 1..l - 1 /\ new[j - 1] = old[j])
    <2>1. \A j \in 1..l : j = 1 \/ (j - 1 \in 1..l - 1 /\ (j - 1) + 1 = j)
      BY <1>5
    <2>2. QED
      BY <1>5, <2>1
  <1>7. ASSUME NEW i \in 1..l - 1, IsLast(new, kind, i)
        PROVE  Carried(new[i]) = Wanted(kind)
    <2>1. i + 1 \in 1..l /\ new[i] = old[i + 1]
      BY <1>5
    <2>2. IsLast(old, kind, i + 1)
      <3>1. ASSUME NEW j \in 1..l, j > i + 1 PROVE old[j].kind # kind
        <4>1. j - 1 \in 1..l - 1 /\ new[j - 1] = old[j] /\ j - 1 > i
          BY <1>6, <3>1
        <4>2. QED
          BY <1>5, <1>7, <4>1 DEF IsLast
      <3>2. QED
        BY <1>5, <1>7, <2>1, <3>1 DEF IsLast
    <2>3. QED
      BY <1>4, <1>5, <2>1, <2>2
  <1>8. ASSUME NoneOf(new, kind) PROVE OnTray(kind)' = Wanted(kind)
    <2>1. \A j \in 1..l : j > 1 => old[j].kind # kind
      BY <1>5, <1>6, <1>8 DEF NoneOf
    <2>2. CASE old[1].kind = kind
      <3>1. IsLast(old, kind, 1)
        BY <1>5, <1>6, <2>1, <2>2 DEF IsLast
      <3>2. Carried(old[1]) = Wanted(kind)
        BY <1>4, <1>5, <1>6, <3>1
      <3>3. OnTray(kind)' = Carried(old[1])
        BY <1>1, <1>5, <2>2 DEF OnTray, Carried, Notices
      <3>4. QED
        BY <3>2, <3>3
    <2>3. CASE old[1].kind # kind
      <3>1. NoneOf(old, kind)
        BY <1>5, <1>6, <2>1, <2>3 DEF NoneOf
      <3>2. OnTray(kind)' = OnTray(kind)
        BY <1>1, <1>5, <2>3 DEF OnTray, Notices
      <3>3. QED
        BY <1>4, <3>1, <3>2
    <2>4. QED
      BY <2>2, <2>3
  <1>9. Wanted(kind)' = Wanted(kind)
    BY <1>1 DEF Wanted
  <1>10. /\ \A i \in DOMAIN new : IsLast(new, kind, i) =>
               Carried(new[i]) = Wanted(kind)'
         /\ NoneOf(new, kind) => OnTray(kind)' = Wanted(kind)'
    BY <1>5, <1>7, <1>8, <1>9
  <1>11. QED
    BY <1>1, <1>2, <1>3, <1>10
       DEF Reaches, IsLast, NoneOf, Carried, new

\* A step that leaves the events on their way and the status alone.
LEMMA LaterReaches ==
    ASSUME NEW kind \in Notices, Reaches(kind), Waiting' = Waiting,
           cur' = cur \/ (cur.kind \notin Notices /\ cur'.kind \notin Notices),
           UNCHANGED <<processed, icon, menu, trayIcon, trayMenu>>
    PROVE  Reaches(kind)'
  <1>1. Wanted(kind)' = Wanted(kind) /\ OnTray(kind)' = OnTray(kind)
    BY DEF Wanted, OnTray
  <1>2. cur'.kind = kind <=> cur.kind = kind
    OBVIOUS
  <1>3. cur.kind = kind => cur' = cur
    OBVIOUS
  <1>4. QED
    BY <1>1, <1>2, <1>3 DEF Reaches, IsLast, NoneOf, Carried

\* The discard middleware lets every change and every notice pass.
LEMMA DiscardKeepsStatus ==
    ASSUME TypeOK, CommandsOK, StatusOK, Discard
    PROVE  StatusOK'
  <1>1. /\ emitted \in Seq(Event) /\ stage = 0
        /\ pc = "process" /\ UNCHANGED <<pc, queue, processed, enabled, icon,
                                         menu, trayIcon, trayMenu>>
        /\ emitted' = emitted \o <<>>
    BY Positions
       DEF TypeOK, ChainTypes, Discard, At, Pass, Consume, Returns,
           ChainStep, statusVars, trayVars
  <1>2. Waiting' = Waiting
    BY <1>1 DEF Waiting
  <1>3. \/ cur' = cur /\ stage' = IF cur.kind = "NOOP" THEN chainEnd ELSE 1
        \/ /\ cur'.kind = "NOOP" /\ stage' = chainEnd
           /\ Discarded(cur.id)
    BY Positions DEF Discard, Pass, Consume, Returns, Plain
  <1>4. \/ cur' = cur
        \/ /\ cur'.kind = "NOOP" /\ ~IsCommand(cur) /\ ~IsNotice(cur)
    BY <1>1, <1>3 DEF CommandsOK, Kept
  <1>5. OnOff \subseteq Commands /\ "NOOP" \notin OnOff
        /\ Notices = {"IconStatusChange", "ShowContextMenu"}
        /\ "NOOP" \notin StatusChanges /\ stage' \in {1, 23}
    BY <1>3, Positions DEF OnOff, Commands, Notices, StatusChanges
  <1>6. ChangeIsLast'
    BY <1>1, <1>2, <1>4, <1>5
       DEF StatusOK, ChangeIsLast, OnOffOf
  <1>7. IconFollows'
    <2>1. stage' = chainEnd => cur'.kind = "NOOP"
      BY <1>3, Positions
    <2>2. cur.kind \in OnOff => cur' = cur /\ stage' = 1
      BY <1>3, <1>4, <1>5, Positions DEF IsCommand
    <2>3. QED
      BY <1>1, <1>2, <2>2, Positions DEF StatusOK, IconFollows
  <1>8. MenuFollows'
    BY <1>1, <1>5, Positions DEF StatusOK, MenuFollows
  <1>9. ASSUME NEW kind \in Notices PROVE Reaches(kind)'
    <2>1. Reaches(kind)
      BY <1>1 DEF StatusOK
    <2>2. cur' = cur \/ (cur.kind \notin Notices /\ cur'.kind \notin Notices)
      BY <1>4, <1>5 DEF IsNotice
    <2>3. QED
      BY <1>1, <1>2, <2>1, <2>2, LaterReaches
  <1>10. QED
    BY <1>6, <1>7, <1>8, <1>9 DEF StatusOK

\* The end of the chain keeps the invariant of the status.
LEMMA EndOfChainKeepsStatus ==
    ASSUME TypeOK, CommandsOK, StatusOK, EndOfChain
    PROVE  StatusOK'
  <1>1. NextTaken /\ UNCHANGED <<enabled, icon, menu>>
    BY EndOfChainTakes DEF EndOfChain, statusVars
  <1>2. /\ pc = "process" /\ stage \in 0..23 /\ stage' = 0
        /\ \A q \in stage + 1 .. markdown : ~LooksAt(q)
    BY <1>1, Positions DEF NextTaken, EndOfChain, TypeOK, ChainTypes
  <1>3. cur.kind \in StatusChanges => ~(stage < context_menu)
    <2>1. cur.kind \in StatusChanges => LooksAt(context_menu)
      BY Positions DEF LooksAt, Subjects
    <2>2. stage < context_menu => context_menu \in stage + 1 .. markdown
      BY <1>2, Positions
    <2>3. QED
      BY <1>2, <2>1, <2>2
  <1>4. /\ icon = menu
        /\ icon.enabled # enabled =>
              \E i \in DOMAIN Waiting : Waiting[i].kind \in OnOff
    <2>1. OnOff \subseteq StatusChanges
      BY DEF OnOff, StatusChanges
    <2>2. stage < icon_status => stage < context_menu
      BY <1>2, Positions
    <2>3. QED
      BY <1>3, <2>1, <2>2 DEF StatusOK, MenuFollows, IconFollows
  <1>5. MenuFollows'
    BY <1>1, <1>2, <1>4, Positions DEF MenuFollows
  <1>6. ChangeIsLast' /\ IconFollows'
    <2>1. CASE DOMAIN Waiting = {} /\ DOMAIN Waiting' = {}
               /\ cur' = Plain("NOOP", 0)
      <3>1. cur'.kind \notin OnOff
        BY <2>1 DEF Plain, OnOff
      <3>2. QED
        BY <1>1, <1>4, <2>1, <3>1 DEF ChangeIsLast, IconFollows
    <2>2. ASSUME NEW n \in Nat,
                 /\ n >= 1 /\ DOMAIN Waiting = 1..n
                 /\ DOMAIN Waiting' = 1..n - 1
                 /\ cur' = Waiting[1] /\ pc' = "process"
                 /\ \A i \in 1..n - 1 :
                       i + 1 \in 1..n /\ Waiting'[i] = Waiting[i + 1]
          PROVE  ChangeIsLast' /\ IconFollows'
      <3> DEFINE w == Waiting
                 v == Waiting'
      <3>1. /\ 1 \in 1..n
            /\ \A j \in 1..n :
                  j = 1 \/ (j - 1 \in 1..n - 1 /\ v[j - 1] = w[j])
        <4>1. \A j \in 1..n : j = 1 \/ (j - 1 \in 1..n - 1 /\ (j - 1) + 1 = j)
          BY <2>2
        <4>2. QED
          BY <2>2, <4>1
      <3>2. \A i \in 1..n : w[i].kind \in OnOff => w[i].kind = OnOffOf(enabled)
        BY <2>2 DEF StatusOK, ChangeIsLast
      <3>3. icon.enabled # enabled => \E i \in 1..n : w[i].kind \in OnOff
        BY <1>4, <2>2
      <3> HIDE DEF w, v
      <3>4. /\ \A i \in 1..n - 1 :
                  v[i].kind \in OnOff => v[i].kind = OnOffOf(enabled)
            /\ cur'.kind \in OnOff => cur'.kind = OnOffOf(enabled)
        BY <2>2, <3>1, <3>2 DEF w, v
      <3>5. icon.enabled # enabled =>
               \/ \E i \in 1..n - 1 : v[i].kind \in OnOff
               \/ cur'.kind \in OnOff
        BY <2>2, <3>1, <3>3 DEF w
      <3>6. QED
        BY SMTT(30), <1>1, <1>2, <2>2, <3>4, <3>5, Positions
           DEF ChangeIsLast, IconFollows, v
    <2>3. QED
      BY <1>1, <2>1, <2>2 DEF NextTaken
  <1>7. \A kind \in Notices : Reaches(kind)'
    BY <1>2, EndOfChainReaches DEF StatusOK
  <1>8. QED
    BY <1>5, <1>6, <1>7 DEF StatusOK

\* So does a middleware.
LEMMA HandlesKeepsStatus ==
    ASSUME TypeOK, CommandsOK, StatusOK, pc # "exited", NEW p \in 1..22,
           NEW out \in Seq(Event), Handles(p, out), StatusFrame(p, out),
           \/ At(p)
           \/ p = match_select /\ cur.kind = "MatchesDetected"
    PROVE  StatusOK'
  <1>1. p = icon_status => cur.kind \in StatusChanges
    BY SubjectOf, Positions
  <1>2. \A kind \in Notices : Reaches(kind)'
    BY <1>1, HandlesReaches DEF StatusOK
  <1>3. QED
    BY <1>2, HandlesKeepsChanges DEF StatusOK

\* So does the answer of the search bar.
LEMMA CloseKeepsStatus ==
    ASSUME TypeOK, ControlOK, CommandsOK, StatusOK, MatchSelectClose
    PROVE  StatusOK'
  <1>1. /\ UNCHANGED <<enabled, icon, menu, trayVars>>
        /\ pc = "selecting" /\ cur.kind = "MatchesDetected"
    BY DEF MatchSelectClose, statusVars, ControlOK
  <1>2. PICK out \in Seq(Event) : Handles(match_select, out)
    BY CloseHandles
  <1>3. StatusFrame(match_select, out)
    BY <1>1, Positions DEF StatusFrame
  <1>4. QED
    BY <1>1, <1>2, <1>3, HandlesKeepsStatus, InChain

\* So does every step of the chain.
LEMMA MiddlewareKeepsStatus ==
    ASSUME TypeOK, CommandsOK, StatusOK, Middleware
    PROVE  StatusOK'
  <1>1. CASE MatchSelectOpen
    <2>1. UNCHANGED <<queue, emitted, cur, stage, processed, enabled, icon,
                      menu, trayIcon, trayMenu>>
          /\ pc = "process"
      BY <1>1 DEF MatchSelectOpen, At, statusVars, trayVars
    <2>2. Waiting' = Waiting
      BY <2>1 DEF Waiting
    <2>3. ChangeIsLast' /\ IconFollows' /\ MenuFollows'
      BY <2>1, <2>2
         DEF StatusOK, ChangeIsLast, IconFollows, MenuFollows
    <2>4. QED
      BY <2>1, <2>2, <2>3, LaterReaches DEF StatusOK
  <1>2. CASE ~Discard /\ ~MatchSelectOpen
    <2>1. pc # "exited"
      BY MiddlewareControl
    <2>2. PICK p \in 1..22 : \E out \in Seq(Event) :
              Handles(p, out) /\ At(p) /\ StatusFrame(p, out)
      BY <1>2, MiddlewareStatus
    <2>3. QED
      BY <2>1, <2>2, HandlesKeepsStatus
  <1>3. QED
    BY <1>1, <1>2, DiscardKeepsStatus

\* So do the steps outside the chain.
LEMMA OtherStepsKeepStatus ==
    ASSUME TypeOK, ControlOK, CommandsOK, StatusOK,
           Environment \/ Dispatch \/ UNCHANGED vars
    PROVE  StatusOK'
  <1>1. CASE Environment \/ UNCHANGED vars
    <2>1. UNCHANGED <<pc, queue, emitted, cur, stage, processed, enabled,
                      icon, menu, trayIcon, trayMenu>>
      <3>1. CASE Environment
        BY <3>1
           DEF Environment, Detect, DetectKey, DetectMouse, DetectHotKey,
               DetectAllModifiersReleased, Enqueue, Send, ModifierOutdated,
               chainVars, statusVars, trayVars
      <3>2. CASE UNCHANGED vars
        BY <3>2 DEF vars, chainVars, statusVars, trayVars
      <3>3. QED
        BY <1>1, <3>1, <3>2
    <2>2. Waiting' = Waiting
      BY <2>1 DEF Waiting
    <2>3. ChangeIsLast' /\ IconFollows' /\ MenuFollows'
      BY <2>1, <2>2
         DEF StatusOK, ChangeIsLast, IconFollows, MenuFollows
    <2>4. QED
      BY <2>1, <2>2, <2>3, LaterReaches DEF StatusOK
  <1>2. CASE Dispatch
    <2>1. /\ UNCHANGED <<queue, emitted, cur, stage, enabled, icon, menu>>
          /\ pc = "dispatch"
      BY <1>2 DEF Dispatch, statusVars
    <2>2. Waiting' = Waiting
      BY <2>1 DEF Waiting
    <2>3. ChangeIsLast' /\ IconFollows' /\ MenuFollows'
      BY <2>1, <2>2
         DEF StatusOK, ChangeIsLast, IconFollows, MenuFollows
    <2>4. QED
      BY <1>2, <2>1, <2>3, DispatchReaches DEF StatusOK
  <1>3. QED
    BY <1>1, <1>2

\* So does the event that starts a batch.
LEMMA ReceiveKeepsStatus ==
    ASSUME TypeOK, CommandsOK, StatusOK, Receive
    PROVE  StatusOK'
  <1>1. /\ nextId \in Nat
        /\ keyboard \in Seq(DetectEvent) /\ chan \in [Sources -> Seq(SourceEvent)]
    BY DEF TypeOK, FunnelTypes
  <1>2. /\ pc = "receive"
        /\ UNCHANGED <<enabled, icon, menu, trayIcon, trayMenu>>
        /\ Waiting = <<>> /\ cur.kind = "NOOP"
    BY DEF Receive, ReceiveDetected, ReceiveRequest, statusVars, trayVars,
           CommandsOK, BatchOK
  <1>3. CASE Skipped
    <2>1. UNCHANGED <<pc, queue, cur, stage, emitted, processed>>
      BY <1>3 DEF Skipped, chainVars
    <2>2. Waiting' = Waiting
      BY <2>1 DEF Waiting
    <2>3. ChangeIsLast' /\ IconFollows' /\ MenuFollows'
      BY <1>2, <2>1, <2>2
         DEF StatusOK, ChangeIsLast, IconFollows, MenuFollows
    <2>4. QED
      BY <1>2, <2>1, <2>2, <2>3, LaterReaches DEF StatusOK
  <1>4. ASSUME NEW e, e.kind \notin Notices, e.kind \notin OnOff, Start(e)
        PROVE  StatusOK'
    <2>1. /\ pc' = "process" /\ cur' = e /\ stage' = 0 /\ Waiting' = Waiting
          /\ processed' = processed
      BY <1>4 DEF Start, Waiting
    <2>2. DOMAIN Waiting = {}
      <3>1. DOMAIN <<>> = {}
        OBVIOUS
      <3>2. QED
        BY <1>2, <3>1
    <2>3. icon.enabled = enabled /\ icon = menu
      BY <1>2, <2>2
         DEF StatusOK, IconFollows, MenuFollows, OnOff, StatusChanges
    <2>4. ChangeIsLast' /\ IconFollows' /\ MenuFollows'
      BY <1>2, <1>4, <2>1, <2>2, <2>3, Positions
         DEF ChangeIsLast, IconFollows, MenuFollows
    <2>5. cur.kind \notin Notices
      BY <1>2 DEF Notices
    <2>6. QED
      BY <1>2, <1>4, <2>1, <2>4, <2>5, LaterReaches DEF StatusOK
  <1>5. CASE ReceiveDetected
    <2>1. Head(keyboard) \in DetectEvent
      BY <1>1, <1>5, HeadTailProperties DEF ReceiveDetected
    <2>2. Head(keyboard).kind \notin Notices \cup OnOff
      BY <2>1 DEF DetectEvent, KeyEvent, MouseEvent, Notices, OnOff
    <2>3. QED
      BY <1>3, <1>4, <1>5, <2>2 DEF ReceiveDetected
  <1>6. ASSUME NEW s \in Sources, ReceiveRequest(s) PROVE StatusOK'
    <2>1. Head(chan[s]) \in SourceEvent
      BY <1>1, <1>6, HeadTailProperties DEF ReceiveRequest
    <2>2. Numbered(Head(chan[s])) \in SourceEvent
      BY <1>1, <2>1, SourceEventIsEvent DEF Numbered
    <2>3. Numbered(Head(chan[s])).kind \notin Notices \cup OnOff
      BY <2>2 DEF SourceEvent, MenuEvent, Notices, OnOff
    <2>4. QED
      BY <1>3, <1>4, <1>6, <2>3 DEF ReceiveRequest
  <1>7. QED
    BY <1>5, <1>6 DEF Receive

\* So does every step.
LEMMA StatusNext ==
    ASSUME TypeOK, ControlOK, CommandsOK, StatusOK, [Next]_vars
    PROVE  StatusOK'
  BY MiddlewareKeepsStatus, CloseKeepsStatus, EndOfChainKeepsStatus,
     ReceiveKeepsStatus, OtherStepsKeepStatus
     DEF Next, EngineStep

\* At first the icon, the menu and the flag agree.
LEMMA StatusInit == Init => StatusOK
  <1> SUFFICES ASSUME Init PROVE StatusOK
    OBVIOUS
  <1>1. /\ queue = <<>> /\ emitted = <<>> /\ stage = 0
        /\ cur = Plain("NOOP", 0) /\ processed = <<>>
        /\ enabled = TRUE /\ icon = UnsetMenu /\ menu = UnsetMenu
        /\ trayIcon = "Enabled" /\ trayMenu = UnsetMenu
    BY DEF Init
  <1>2. Waiting = <<>> /\ DOMAIN <<>> = {}
    BY <1>1 DEF Waiting
  <1>3. cur.kind = "NOOP" /\ icon.enabled = enabled
        /\ IconOf(icon) = "Enabled"
    BY <1>1 DEF Plain, UnsetMenu, IconOf
  <1>4. ChangeIsLast /\ IconFollows /\ MenuFollows
    BY <1>1, <1>2, <1>3
       DEF ChangeIsLast, IconFollows, MenuFollows, OnOff, StatusChanges
  <1>5. \A kind \in Notices : Reaches(kind)
    BY <1>1, <1>2, <1>3
       DEF Reaches, IsLast, NoneOf, Wanted, OnTray, Notices
  <1>6. QED
    BY <1>4, <1>5 DEF StatusOK

\* Between two batches the tray icon, the tray menu and the middlewares that
\* feed them agree with the flag that decides whether keys are handled (disable.rs,
\* icon_status.rs, context_menu.rs and the executors), however commands, secure input
\* and expansions interleave: the notices are never lost and arrive in order.
THEOREM StatusAgrees == Spec => []StatusAgreement
  <1>1. Init => StatusOK
    BY StatusInit
  <1>2. TypeOK /\ ControlOK /\ CommandsOK /\ StatusOK /\ [Next]_vars
            => StatusOK'
    BY StatusNext
  <1>3. CommandsOK /\ StatusOK => StatusAgreement
    <2> SUFFICES ASSUME CommandsOK, StatusOK, pc = "receive"
                 PROVE  /\ icon.enabled = enabled
                        /\ icon = menu
                        /\ trayIcon =
                              IF enabled /\ menu.secure
                                THEN "SecureInputDisabled"
                              ELSE IF enabled THEN "Enabled" ELSE "Disabled"
                        /\ trayMenu = menu
      BY DEF StatusAgreement
    <2>1. /\ Waiting = <<>> /\ cur.kind = "NOOP" /\ processed = <<>>
          /\ DOMAIN <<>> = {}
      BY DEF CommandsOK, BatchOK
    <2>2. icon.enabled = enabled /\ icon = menu
      BY <2>1 DEF StatusOK, IconFollows, MenuFollows, OnOff, StatusChanges
    <2>3. trayIcon = IconOf(icon) /\ trayMenu = menu
      BY <2>1 DEF StatusOK, Reaches, IsLast, NoneOf, Wanted, OnTray, Notices
    <2>4. QED
      BY <2>2, <2>3 DEF IconOf
  <1>4. QED
    BY <1>1, <1>2, <1>3, TypeCorrect, CommandsAlwaysOK, PTL DEF Spec

-----------------------------------------------------------------------------
(* One expansion at a time *)

\* No trigger is completed by the virtual separator that the matchers are fed
\* after an injection.
NoneCompleted == MatcherOnInjection => cur'.kind # "MatchesDetected"

IsError(e) == e.kind = "TextInject" /\ e.why = "error"

\* The events that may still become an expansion or a search: before a match
\* is chosen, and after.
EarlyKinds ==
    {"HotKey", "MatchExecRequest", "ContextMenuClicked", "ShowSearchBar",
     "MatchesDetected", "MatchSelected"}
LateKinds ==
    {"CauseCompensatedMatch", "RenderingRequested", "ImageRequested",
     "Rendered", "ImageResolved"}
Early(e) == e.kind \in EarlyKinds \/ IsKey(e, Pressed)
Leads(e) == Early(e) \/ e.kind \in LateKinds \/ IsError(e)

\* What an injection leaves behind itself.
Trails(e) ==
    \/ e.kind \in {"CursorHintCompensation", "DiscardPrevious"}
    \/ e.kind = "TextInject" /\ e.why # "error"

OneLead ==
    /\ \A i, j \in DOMAIN Waiting :
          Leads(Waiting[i]) /\ Leads(Waiting[j]) => i = j
    /\ Leads(cur) => \A i \in DOMAIN Waiting : ~Leads(Waiting[i])

\* Kinds that may dispatch what trails.
TrailKinds == {"Keyboard", "Undo", "CursorHintCompensation", "DiscardPrevious"}

TrailsLast ==
    /\ \A i, j \in DOMAIN Waiting : Trails(Waiting[i]) => ~Leads(Waiting[j])
    /\ Leads(cur) => \A i \in DOMAIN Waiting :
          Trails(Waiting[i]) => /\ cur.kind = "Rendered"
                                /\ Waiting[i].kind = "CursorHintCompensation"
    /\ cur.kind \in TrailKinds => \A i \in DOMAIN Waiting : ~Leads(Waiting[i])

\* Nothing that DiscardPrevious could spoil comes behind it.
Spoilt == {"DiscardBetween", "MatchInjected"}

PurgeLast ==
    /\ \A i, j \in DOMAIN Waiting :
          i < j /\ Waiting[i].kind = "DiscardPrevious"
              => Waiting[j].kind \notin Spoilt
    /\ cur.kind = "DiscardPrevious" =>
          \A i \in DOMAIN Waiting : Waiting[i].kind \notin Spoilt

LeadsOK == OneLead /\ TrailsLast /\ PurgeLast

\* Whoever handles an event hands the lead on to one event at most.
LEMMA LeadsOn ==
    ASSUME TypeOK, NEW p \in 1..22, NEW out \in Seq(Event), Handles(p, out),
           cur.kind = "MatchInjected" => cur'.kind # "MatchesDetected"
    PROVE  /\ Leads(cur') => Leads(cur) /\ \A k \in 1..Len(out) : ~Leads(out[k])
           /\ \A k \in 1..Len(out) : Leads(out[k]) =>
                 cur.kind \in {"ContextMenuClicked", "ShowSearchBar",
                              "MatchSelected", "RenderingRequested"}
           /\ \A k, l \in 1..Len(out) : Leads(out[k]) /\ Leads(out[l]) => k = l
           /\ Leads(cur') /\ cur.kind = "Rendered" => cur'.kind = "Rendered"
           /\ Early(cur') => Early(cur)
                             \/ (cur.kind = "CauseCompensatedMatch" /\ swallowed')
           /\ \A k \in 1..Len(out) : Early(out[k]) => Early(cur)
           /\ cur'.kind \in TrailKinds => cur' = cur \/ IsKey(cur, Pressed)
  <1>1. /\ cur \in Event /\ Becomes(p) /\ Len(out) \in Nat
        /\ \A k \in 1..Len(out) : Spawns(p, out[k])
        /\ Pairs(out)
    BY DEF TypeOK, ChainTypes, Handles, Makes
  <1>2. /\ \A k, id : Plain(k, id).kind = k
        /\ \A k, id, why : Inject(k, id, why).kind = k
                           /\ Inject(k, id, why).why = why
        /\ \A flags : ShowMenu(flags).kind = "ShowContextMenu"
        /\ cur.kind = "MatchSelected" =>
              Compensated.kind = "CauseCompensatedMatch"
    BY <1>1, EventFields DEF Plain, Inject, ShowMenu, Compensated, MatchEvent
  <1>3. \/ cur' = cur
        \/ cur'.kind \in {"NOOP", "ShowContextMenu", "ExitRequested",
                          "TriggerCompensation", "ShowText", "ShowLogs",
                          "RenderingError", "Exit", "HtmlInject",
                          "ImageInject", "MarkdownInject",
                          "KeySequenceInject"}
        \/ cur'.kind = "TextInject" /\ cur'.why # "error"
        \/ cur'.kind = "Undo" /\ IsKey(cur, Pressed)
        \/ cur'.kind \in {"MatchesDetected", "MatchSelected"} /\ Early(cur)
        \/ cur'.kind = "ShowSearchBar" /\ swallowed'
           /\ cur.kind = "CauseCompensatedMatch"
        \/ cur'.kind = "CauseCompensatedMatch" /\ cur.kind = "MatchSelected"
           /\ p = cause
        \/ /\ cur'.kind \in LateKinds \ {"CauseCompensatedMatch"}
           /\ cur.kind \in LateKinds \ {"ImageResolved"}
           /\ cur.kind = "Rendered" => cur'.kind = "Rendered"
    BY <1>1, <1>2 DEF Becomes, Early, EarlyKinds, LateKinds
  <1>4. ASSUME NEW k \in 1..Len(out), Leads(out[k])
        PROVE  \/ /\ Early(out[k]) /\ cur'.kind = "NOOP"
                  /\ cur.kind \in {"ContextMenuClicked", "ShowSearchBar"}
               \/ /\ ~Early(out[k])
                  /\ \/ cur.kind = "MatchSelected"
                        /\ cur'.kind = "TriggerCompensation"
                     \/ cur.kind = "RenderingRequested"
                        /\ cur'.kind = "RenderingError"
    <2>1. Spawns(p, out[k])
      BY <1>1
    <2>2. \/ out[k].kind \in {"ShowSearchBar", "MatchesDetected"}
             /\ cur.kind \in {"ContextMenuClicked", "ShowSearchBar"}
             /\ cur'.kind = "NOOP"
          \/ /\ out[k] = Compensated /\ cur.kind = "MatchSelected"
             /\ cur' = Plain("TriggerCompensation", cur.id)
          \/ /\ out[k] = Inject("TextInject", cur.id, "error")
             /\ cur.kind = "RenderingRequested" /\ cur'.kind = "RenderingError"
      BY <1>2, <1>4, <2>1
         DEF Spawns, Leads, Early, EarlyKinds, LateKinds, IsError, IsKey,
             StatusChanges, Toggles, OnOffOf
    <2>3. QED
      BY <1>2, <2>2 DEF Early, EarlyKinds, IsKey
  <1>5. Leads(cur') => Leads(cur)
    BY <1>3 DEF Leads, Early, EarlyKinds, LateKinds, IsError, IsKey
  <1>6. ASSUME Leads(cur'), NEW k \in 1..Len(out) PROVE ~Leads(out[k])
    BY <1>4, <1>6 DEF Leads, Early, EarlyKinds, LateKinds, IsError, IsKey
  <1>7. \A k \in 1..Len(out) : Leads(out[k]) =>
           cur.kind \in {"ContextMenuClicked", "ShowSearchBar",
                        "MatchSelected", "RenderingRequested"}
    BY <1>4
  <1>8. ASSUME NEW k \in 1..Len(out), NEW l \in 1..Len(out),
               Leads(out[k]), Leads(out[l])
        PROVE  k = l
    <2>1. Len(out) <= 2
      BY <1>1 DEF Pairs
    <2>2. Len(out) = 2 => ~Leads(out[1])
      BY <1>1 DEF Pairs, Leads, Early, EarlyKinds, LateKinds, IsError, IsKey
    <2>3. \A n \in Nat : n <= 2 /\ k \in 1..n /\ l \in 1..n /\ k # l
                => n = 2 /\ (k = 1 \/ l = 1)
      OBVIOUS
    <2>4. QED
      BY <1>1, <1>8, <2>1, <2>2, <2>3
  <1>9. Leads(cur') /\ cur.kind = "Rendered" => cur'.kind = "Rendered"
    BY <1>3 DEF Leads, Early, EarlyKinds, LateKinds, IsError, IsKey
  <1>10. Early(cur') => Early(cur)
                        \/ (cur.kind = "CauseCompensatedMatch" /\ swallowed')
    BY <1>3 DEF Early, EarlyKinds, LateKinds, IsKey
  <1>11. \A k \in 1..Len(out) : Early(out[k]) => Early(cur)
    BY <1>4 DEF Leads, Early, EarlyKinds
  <1>12. cur'.kind \in TrailKinds => cur' = cur \/ IsKey(cur, Pressed)
    BY <1>3 DEF TrailKinds, LateKinds
  <1>13. QED
    BY <1>5, <1>6, <1>7, <1>8, <1>9, <1>10, <1>11, <1>12

\* What comes behind an injection, and what it could spoil.
LEMMA TrailsFrom ==
    ASSUME TypeOK, NEW p \in 1..22, NEW out \in Seq(Event), Handles(p, out)
    PROVE  /\ \A k \in 1..Len(out) : Trails(out[k]) =>
                 \/ /\ cur.kind \in {"Rendered", "ImageResolved"}
                    /\ Leads(cur') => /\ cur'.kind = "Rendered"
                                      /\ out[k].kind = "CursorHintCompensation"
                 \/ cur.kind \in TrailKinds /\ ~Leads(cur')
           /\ \A k \in 1..Len(out) : out[k].kind \in Spoilt =>
                 cur.kind \in {"MatchesDetected", "Rendered", "ImageResolved"}
           /\ \A k, l \in 1..Len(out) :
                 k < l /\ out[k].kind = "DiscardPrevious"
                     => out[l].kind \notin Spoilt
           /\ cur'.kind = "DiscardPrevious" => cur' = cur
  <1>1. /\ cur \in Event /\ Becomes(p) /\ Len(out) \in Nat
        /\ \A k \in 1..Len(out) : Spawns(p, out[k])
        /\ Pairs(out)
    BY DEF TypeOK, ChainTypes, Handles, Makes
  <1>2. /\ \A k, id : Plain(k, id).kind = k
        /\ \A k, id, why : Inject(k, id, why).kind = k
                           /\ Inject(k, id, why).why = why
        /\ \A flags : ShowMenu(flags).kind = "ShowContextMenu"
        /\ cur.kind = "MatchSelected" =>
              Compensated.kind = "CauseCompensatedMatch"
    BY <1>1, EventFields DEF Plain, Inject, ShowMenu, Compensated, MatchEvent
  <1>3. ASSUME NEW k \in 1..Len(out), Trails(out[k])
        PROVE  \/ /\ cur.kind \in {"Rendered", "ImageResolved"}
                  /\ Leads(cur') => /\ cur'.kind = "Rendered"
                                    /\ out[k].kind = "CursorHintCompensation"
               \/ cur.kind \in TrailKinds /\ ~Leads(cur')
    <2>1. Spawns(p, out[k])
      BY <1>1
    <2>2. \/ p = alt_code /\ IsKey(cur, Released)
          \/ p = cursor_hint /\ cur.kind = "Rendered"
             /\ out[k].kind = "CursorHintCompensation"
          \/ p = action /\ cur.kind \in {"Rendered", "ImageResolved",
                                         "CursorHintCompensation", "Undo"}
      BY <1>2, <1>3, <2>1 DEF Spawns, Trails, OnOffOf, StatusChanges, Toggles
    <2>3. CASE p = alt_code /\ IsKey(cur, Released)
      <3>1. cur' = cur
        BY <1>1, <2>3, Positions DEF Becomes, IsKey, Released, Pressed, Consumed
      <3>2. QED
        BY <2>3, <3>1
           DEF Leads, Early, EarlyKinds, LateKinds, IsError, IsKey, TrailKinds,
               Released, Pressed
    <2>4. CASE p = cursor_hint /\ cur.kind = "Rendered"
               /\ out[k].kind = "CursorHintCompensation"
      <3>1. cur'.kind = "Rendered"
        BY <1>1, <2>4, Positions DEF Becomes, Passing, Consumed
      <3>2. QED
        BY <2>4, <3>1
    <2>5. CASE p = action
               /\ cur.kind \in {"Rendered", "ImageResolved",
                                "CursorHintCompensation", "Undo"}
      <3>1. \/ cur'.kind \in {"HtmlInject", "ImageInject", "MarkdownInject",
                              "KeySequenceInject"}
            \/ cur'.kind = "TextInject" /\ cur'.why = "body"
        BY SMTT(30), <1>1, <1>2, <2>5, Positions DEF Becomes, Passing, Consumed
      <3>2. ~Leads(cur')
        BY <3>1 DEF Leads, Early, EarlyKinds, LateKinds, IsError, IsKey
      <3>3. QED
        BY <2>5, <3>2 DEF TrailKinds
    <2>6. QED
      BY <2>2, <2>3, <2>4, <2>5
  <1>4. ASSUME NEW k \in 1..Len(out), out[k].kind \in Spoilt
        PROVE  cur.kind \in {"MatchesDetected", "Rendered", "ImageResolved"}
    <2>1. Spawns(p, out[k])
      BY <1>1
    <2>2. QED
      BY <1>2, <1>4, <2>1 DEF Spawns, Spoilt, OnOffOf
  <1>5. ASSUME NEW k \in 1..Len(out), NEW l \in 1..Len(out), k < l,
               out[k].kind = "DiscardPrevious"
        PROVE  FALSE
    <2>1. \A n \in Nat : n <= 2 /\ k \in 1..n /\ l \in 1..n /\ k < l
              => n = 2 /\ k = 1
      OBVIOUS
    <2>2. Len(out) = 2 /\ k = 1
      BY <1>1, <1>5, <2>1 DEF Pairs
    <2>3. QED
      BY <1>1, <1>5, <2>2 DEF Pairs
  <1>6. cur'.kind = "DiscardPrevious" => cur' = cur
    BY <1>1, <1>2 DEF Becomes
  <1>7. QED
    BY <1>3, <1>4, <1>5, <1>6

\* A middleware leaves one lead at most.
LEMMA HandlesKeepsLeads ==
    ASSUME TypeOK, LeadsOK, NEW p \in 1..22, NEW out \in Seq(Event),
           Handles(p, out),
           cur.kind = "MatchInjected" => cur'.kind # "MatchesDetected"
    PROVE  LeadsOK'
  <1> DEFINE n == Len(Waiting)
             m == Len(out)
             w == Waiting
             v == Waiting'
  <1>1. /\ n \in Nat /\ m \in Nat
        /\ DOMAIN w = 1..n /\ DOMAIN v = 1 .. n + m
        /\ \A i \in 1..n : v[i] = w[i]
        /\ \A i \in 1 .. n + m : i \notin 1..n =>
              i - n \in 1..m /\ v[i] = out[i - n]
    BY WaitingGrows DEF Handles, Returns
  <1>2. /\ Leads(cur') => Leads(cur) /\ \A k \in 1..m : ~Leads(out[k])
        /\ \A k \in 1..m : Leads(out[k]) =>
              cur.kind \in {"ContextMenuClicked", "ShowSearchBar",
                           "MatchSelected", "RenderingRequested"}
        /\ \A k, l \in 1..m : Leads(out[k]) /\ Leads(out[l]) => k = l
        /\ Leads(cur') /\ cur.kind = "Rendered" => cur'.kind = "Rendered"
        /\ cur'.kind \in TrailKinds => cur' = cur \/ IsKey(cur, Pressed)
    BY LeadsOn
  <1>3. /\ \A k \in 1..m : Trails(out[k]) =>
              \/ /\ cur.kind \in {"Rendered", "ImageResolved"}
                 /\ Leads(cur') => /\ cur'.kind = "Rendered"
                                   /\ out[k].kind = "CursorHintCompensation"
              \/ cur.kind \in TrailKinds /\ ~Leads(cur')
        /\ \A k \in 1..m : out[k].kind \in Spoilt =>
              cur.kind \in {"MatchesDetected", "Rendered", "ImageResolved"}
        /\ \A k, l \in 1..m : k < l /\ out[k].kind = "DiscardPrevious"
              => out[l].kind \notin Spoilt
        /\ cur'.kind = "DiscardPrevious" => cur' = cur
    BY TrailsFrom
  <1>4. /\ cur.kind \in {"Rendered", "ImageResolved", "MatchesDetected",
                         "ContextMenuClicked", "ShowSearchBar",
                         "MatchSelected", "RenderingRequested"}
               => Leads(cur) /\ cur.kind \notin TrailKinds
        /\ \A k \in 1..m : Leads(out[k]) => Leads(cur)
        /\ IsKey(cur, Pressed) => Leads(cur) /\ cur.kind = "Keyboard"
    BY <1>2 DEF Leads, Early, EarlyKinds, LateKinds, TrailKinds, IsKey
  <1>5. \A i \in 1 .. n + m, j \in 1 .. n + m : i < j =>
            \/ i \in 1..n /\ j \in 1..n
            \/ i \in 1..n /\ j \notin 1..n
            \/ i \notin 1..n /\ j \notin 1..n /\ i - n < j - n
    BY <1>1
  <1> HIDE DEF n, m, w, v
  <1>6. /\ \A i, j \in 1..n : Leads(w[i]) /\ Leads(w[j]) => i = j
        /\ Leads(cur) => \A i \in 1..n : ~Leads(w[i])
        /\ \A i, j \in 1..n : Trails(w[i]) => ~Leads(w[j])
        /\ Leads(cur) => \A i \in 1..n : Trails(w[i]) =>
              cur.kind = "Rendered" /\ w[i].kind = "CursorHintCompensation"
        /\ cur.kind \in TrailKinds => \A i \in 1..n : ~Leads(w[i])
        /\ \A i, j \in 1..n : i < j /\ w[i].kind = "DiscardPrevious"
              => w[j].kind \notin Spoilt
        /\ cur.kind = "DiscardPrevious" =>
              \A i \in 1..n : w[i].kind \notin Spoilt
    BY <1>1 DEF LeadsOK, OneLead, TrailsLast, PurgeLast, w
  <1>7. OneLead'
    <2>1. ASSUME NEW i \in 1 .. n + m, NEW j \in 1 .. n + m,
                 Leads(v[i]), Leads(v[j])
          PROVE  i = j
      <3>1. CASE i \in 1..n /\ j \in 1..n
        BY <1>1, <1>6, <2>1, <3>1
      <3>2. CASE i \notin 1..n /\ j \notin 1..n
        <4>1. i - n = j - n
          BY <1>1, <1>2, <2>1, <3>2
        <4>2. QED
          BY <1>1, <4>1
      <3>3. CASE ~(i \in 1..n /\ j \in 1..n) /\ ~(i \notin 1..n /\ j \notin 1..n)
        BY <1>1, <1>2, <1>4, <1>6, <2>1, <3>3
      <3>4. QED
        BY <3>1, <3>2, <3>3
    <2>2. ASSUME Leads(cur'), NEW i \in 1 .. n + m PROVE ~Leads(v[i])
      BY <1>1, <1>2, <1>6, <2>2
    <2>3. QED
      BY <1>1, <2>1, <2>2
         DEF OneLead, Leads, Early, IsKey, IsError, v
  <1>8. TrailsLast'
    <2>1. ASSUME NEW i \in 1 .. n + m, NEW j \in 1 .. n + m, Trails(v[i]),
                 Leads(v[j])
          PROVE  FALSE
      <3>1. CASE i \in 1..n /\ j \in 1..n
        BY <1>1, <1>6, <2>1, <3>1
      <3>2. CASE i \in 1..n /\ j \notin 1..n
        <4>1. Trails(w[i]) /\ j - n \in 1..m /\ Leads(out[j - n])
          BY <1>1, <2>1, <3>2
        <4>2. Leads(cur) /\ cur.kind # "Rendered"
          BY <1>2, <1>4, <4>1
        <4>3. QED
          BY <1>6, <3>2, <4>1, <4>2
      <3>3. CASE i \notin 1..n /\ j \in 1..n
        <4>1. Leads(w[j]) /\ i - n \in 1..m /\ Trails(out[i - n])
          BY <1>1, <2>1, <3>3
        <4>2. QED
          BY <1>3, <1>4, <1>6, <3>3, <4>1
      <3>4. CASE i \notin 1..n /\ j \notin 1..n
        <4>1. /\ j - n \in 1..m /\ Leads(out[j - n])
              /\ i - n \in 1..m /\ Trails(out[i - n])
          BY <1>1, <2>1, <3>4
        <4>2. QED
          BY <1>2, <1>3, <1>4, <4>1
      <3>5. QED
        BY <3>1, <3>2, <3>3, <3>4
    <2>2. ASSUME Leads(cur'), NEW i \in 1 .. n + m, Trails(v[i])
          PROVE  cur'.kind = "Rendered" /\ v[i].kind = "CursorHintCompensation"
      <3>1. CASE i \in 1..n
        BY <1>1, <1>2, <1>6, <2>2, <3>1
      <3>2. CASE i \notin 1..n
        BY <1>1, <1>3, <2>2, <3>2
      <3>3. QED
        BY <3>1, <3>2
    <2>3. ASSUME cur'.kind \in TrailKinds, NEW i \in 1 .. n + m
          PROVE  ~Leads(v[i])
      <3>1. CASE i \in 1..n
        BY <1>1, <1>2, <1>4, <1>6, <2>3, <3>1
      <3>2. CASE i \notin 1..n
        <4>1. i - n \in 1..m /\ v[i] = out[i - n]
          BY <1>1, <3>2
        <4>2. SUFFICES ASSUME Leads(out[i - n]) PROVE FALSE
          BY <4>1
        <4>3. /\ Leads(cur) /\ cur.kind # "Keyboard" /\ ~Leads(cur')
          BY <1>2, <1>4, <4>1, <4>2
        <4>4. QED
          BY <1>2, <1>4, <2>3, <4>3
      <3>3. QED
        BY <3>1, <3>2
    <2>4. QED
      BY <1>1, <2>1, <2>2, <2>3
         DEF TrailsLast, Trails, Leads, Early, IsKey, IsError, v
  <1>9. PurgeLast'
    <2>1. ASSUME NEW i \in 1 .. n + m, NEW j \in 1 .. n + m, i < j,
                 v[i].kind = "DiscardPrevious"
          PROVE  v[j].kind \notin Spoilt
      <3>1. CASE i \in 1..n /\ j \in 1..n
        BY <1>1, <1>6, <2>1, <3>1
      <3>2. CASE i \in 1..n /\ j \notin 1..n
        <4>1. /\ j - n \in 1..m /\ v[j] = out[j - n]
              /\ w[i].kind = "DiscardPrevious"
          BY <1>1, <2>1, <3>2
        <4>2. Trails(w[i]) /\ w[i].kind # "CursorHintCompensation"
          BY <4>1 DEF Trails
        <4>3. ~Leads(cur)
          BY <1>6, <3>2, <4>2
        <4>4. QED
          BY <1>3, <1>4, <4>1, <4>3
      <3>3. CASE i \notin 1..n /\ j \notin 1..n /\ i - n < j - n
        BY <1>1, <1>3, <2>1, <3>3
      <3>4. QED
        BY <1>5, <2>1, <3>1, <3>2, <3>3
    <2>2. ASSUME cur'.kind = "DiscardPrevious", NEW i \in 1 .. n + m
          PROVE  v[i].kind \notin Spoilt
      <3>1. cur.kind = "DiscardPrevious"
        BY <1>3, <2>2
      <3>2. CASE i \in 1..n
        BY <1>1, <1>6, <3>1, <3>2
      <3>3. CASE i \notin 1..n
        BY <1>1, <1>3, <3>1, <3>3
      <3>4. QED
        BY <3>2, <3>3
    <2>3. QED
      BY <1>1, <2>1, <2>2 DEF PurgeLast, v
  <1>10. QED
    BY <1>7, <1>8, <1>9 DEF LeadsOK

\* So does the end of the chain.
LEMMA EndOfChainKeepsLeads ==
    ASSUME TypeOK, CommandsOK, LeadsOK, EndOfChain
    PROVE  LeadsOK'
  <1>1. NextTaken
    BY EndOfChainTakes
  <1>2. CASE DOMAIN Waiting' = {} /\ cur' = Plain("NOOP", 0)
    <2>1. cur'.kind = "NOOP"
      BY <1>2 DEF Plain
    <2>2. ~Leads(cur') /\ cur'.kind \notin TrailKinds
      BY <2>1
         DEF Leads, Early, EarlyKinds, LateKinds, IsError, IsKey, TrailKinds
    <2>3. QED
      BY <1>2, <2>1, <2>2
         DEF LeadsOK, OneLead, TrailsLast, PurgeLast, Leads, Early, IsKey,
             IsError
  <1>3. ASSUME NEW n \in Nat,
               /\ n >= 1 /\ DOMAIN Waiting = 1..n
               /\ DOMAIN Waiting' = 1..n - 1
               /\ cur' = Waiting[1] /\ pc' = "process"
               /\ \A i \in 1..n - 1 :
                     i + 1 \in 1..n /\ Waiting'[i] = Waiting[i + 1]
        PROVE  LeadsOK'
    <2> DEFINE w == Waiting
               v == Waiting'
    <2>1. /\ 1 \in 1..n /\ cur' = w[1]
          /\ \A i \in 1..n - 1 :
                i + 1 \in 1..n /\ i + 1 # 1 /\ 1 < i + 1 /\ v[i] = w[i + 1]
      BY <1>3
    <2>2. /\ \A i, j \in 1..n : Leads(w[i]) /\ Leads(w[j]) => i = j
          /\ \A i, j \in 1..n : Trails(w[i]) => ~Leads(w[j])
          /\ \A i, j \in 1..n : i < j /\ w[i].kind = "DiscardPrevious"
                => w[j].kind \notin Spoilt
          /\ w[1].kind \in WaitingKinds
      BY <1>3, <2>1 DEF LeadsOK, OneLead, TrailsLast, PurgeLast, CommandsOK, BatchOK
    <2> HIDE DEF w, v
    <2>3. OneLead'
      <3>1. \A i, j \in 1..n - 1 : Leads(v[i]) /\ Leads(v[j]) => i + 1 = j + 1
        BY <2>1, <2>2
      <3>2. Leads(cur') => \A i \in 1..n - 1 : ~Leads(v[i])
        BY <2>1, <2>2
      <3>3. QED
        BY <1>3, <3>1, <3>2 DEF OneLead, Leads, Early, IsKey, IsError, v
    <2>4. TrailsLast'
      <3>1. \A i, j \in 1..n - 1 : Trails(v[i]) => ~Leads(v[j])
        BY <2>1, <2>2
      <3>2. Leads(cur') => \A i \in 1..n - 1 : ~Trails(v[i])
        BY <2>1, <2>2
      <3>3. cur'.kind \in TrailKinds => \A i \in 1..n - 1 : ~Leads(v[i])
        <4>1. w[1].kind \in TrailKinds => Trails(w[1])
          BY <2>2 DEF TrailKinds, WaitingKinds, Trails
        <4>2. QED
          BY <2>1, <2>2, <4>1
      <3>4. QED
        BY <1>3, <3>1, <3>2, <3>3
           DEF TrailsLast, Trails, Leads, Early, IsKey, IsError, v
    <2>5. PurgeLast'
      <3>1. \A i, j \in 1..n - 1 : i < j /\ v[i].kind = "DiscardPrevious"
                => v[j].kind \notin Spoilt
        <4>1. \A i, j \in 1..n - 1 : i < j => i + 1 < j + 1
          OBVIOUS
        <4>2. QED
          BY <2>1, <2>2, <4>1
      <3>2. cur'.kind = "DiscardPrevious" =>
                \A i \in 1..n - 1 : v[i].kind \notin Spoilt
        BY <2>1, <2>2
      <3>3. QED
        BY <1>3, <3>1, <3>2 DEF PurgeLast, v
    <2>6. QED
      BY <2>3, <2>4, <2>5 DEF LeadsOK
  <1>4. QED
    BY <1>1, <1>2, <1>3 DEF NextTaken

\* Steps after which the same events wait behind the same one, or behind one
\* that leads to nothing.
LEMMA LaterKeepsLeads ==
    ASSUME LeadsOK, Waiting' = Waiting, cur' = cur \/ cur'.kind = "NOOP"
    PROVE  LeadsOK'
  <1>1. cur'.kind = "NOOP" => ~Leads(cur') /\ cur'.kind \notin TrailKinds
    BY DEF Leads, Early, EarlyKinds, LateKinds, IsError, IsKey, TrailKinds
  <1>2. QED
    BY <1>1
       DEF LeadsOK, OneLead, TrailsLast, PurgeLast, Leads, Early, IsKey,
           IsError, Trails

\* A batch starts with one event.
LEMMA StartKeepsLeads ==
    ASSUME CommandsOK, pc = "receive", NEW e, Start(e)
    PROVE  LeadsOK'
  <1>1. Waiting' = Waiting /\ Waiting = <<>> /\ DOMAIN <<>> = {}
    BY DEF Start, Waiting, CommandsOK, BatchOK
  <1>2. DOMAIN Waiting' = {}
    BY <1>1
  <1>3. QED
    BY <1>2 DEF LeadsOK, OneLead, TrailsLast, PurgeLast

-----------------------------------------------------------------------------
(* What was typed while the search bar was open *)

IsDB(e) == e.kind = "DiscardBetween"

\* What must reach its middleware for a batch to come out right.
Spared(e) == e.kind \in Spoilt \cup {"CauseCompensatedMatch"} \/ IsError(e)

SparedOK ==
    /\ \A i \in DOMAIN Waiting : Spared(Waiting[i]) => ~Discarded(cur.id)
    /\ stage = 0 /\ Spared(cur) => ~Discarded(cur.id)
    /\ \A i \in DOMAIN Waiting : IsDB(Waiting[i]) => cur.id < Waiting[i].start
    /\ IsDB(cur) => cur.id < cur.start

\* The ids in use have been taken from the sequencer.
IdsTaken ==
    /\ \A i \in DOMAIN keyboard : keyboard[i].id < nextId
    /\ pc \in {"process", "selecting"} => cur.id < nextId
    /\ pc = "selecting" => cur.id < selection.start

\* The last request to discard a window waits, is the current event, or has
\* been obeyed.
IsWindow(e) == e.start = window.start /\ e.end = window.end
WindowOK ==
    /\ \A i \in DOMAIN Waiting :
          IsLast(Waiting, "DiscardBetween", i) => IsWindow(Waiting[i])
    /\ NoneOf(Waiting, "DiscardBetween") =>
          IF IsDB(cur) /\ stage = 0 THEN IsWindow(cur)
             ELSE minId = window.start /\ window.end <= maxId

SearchOK == SparedOK /\ IdsTaken /\ WindowOK

\* What a middleware does to the window beside dispatching out.
SearchFrame(out) ==
    /\ keyboard' = keyboard /\ pc \in {"process", "selecting"}
    /\ nextId' \in {nextId, nextId + 1}
    /\ pc' # "selecting"
    /\ \/ window' = window /\ \A k \in 1..Len(out) : ~IsDB(out[k])
       \/ /\ pc = "selecting"
          /\ Len(out) = 1 /\ IsDB(out[1])
          /\ out[1].start = selection.start /\ window'.start = selection.start
          /\ out[1].end = nextId /\ window'.end = nextId

\* Every step of a middleware treats the window as its position says.
LEMMA MiddlewareSearches ==
    ASSUME TypeOK, CommandsOK, Middleware, ~Discard, ~MatchSelectOpen,
           NoneCompleted
    PROVE  \E p \in 1..22 : \E out \in Seq(Event) :
              /\ Handles(p, out) /\ At(p) /\ SearchFrame(out)
              /\ cur.kind = "MatchInjected" => cur'.kind # "MatchesDetected"
  <1>1. PICK p \in 1..22 : \E out \in Seq(Event) : Handles(p, out) /\ At(p)
    BY MiddlewareHandles
  <1>2. PICK out \in Seq(Event) : Handles(p, out) /\ At(p)
    BY <1>1
  <1>3. keyboard' = keyboard /\ window' = window
    BY DEF Middleware, Discard, DisableOnKey, DisableOnRequest, ToggledTo,
           IconUpdate, AltCodeSynthesizer, MatcherOnKey, MatcherOnMouse,
           MatcherOnInjection, MatcherRest, MatchExec, Suppress,
           ContextMenu, HotKey, MatchSelectAtOnce, Cause, OpenConfig,
           Multiplex, StatsOnRequest, StatsOnDiscard, StatsOnInjection,
           StatsRest, Render, ImageResolve, CursorHint, Exit,
           UndoOnExpansion, UndoOnKey, UndoRest, ActionOnBody,
           ActionOnHint, ActionOnTrigger, ActionOnUndo, ActionRest,
           Search, Markdown, Stateless, ghostVars, funnelVars
  <1>4. nextId' \in {nextId, nextId + 1} /\ pc' # "selecting"
    BY <1>2, MiddlewareFrame DEF Handles
  <1>5. \A k \in 1..Len(out) : ~IsDB(out[k])
    <2> SUFFICES ASSUME NEW k \in 1..Len(out), IsDB(out[k]) PROVE FALSE
      OBVIOUS
    <2>1. Spawns(p, out[k]) /\ out[k].kind = "DiscardBetween"
      BY <1>2 DEF Handles, Makes, IsDB
    <2>2. cur \in Event
      BY DEF TypeOK, ChainTypes
    <2>3. /\ \A kind, id, why : Inject(kind, id, why).kind = kind
          /\ cur.kind = "MatchSelected" =>
                Compensated.kind = "CauseCompensatedMatch"
      BY <2>2, EventFields DEF Inject, Compensated, MatchEvent
    <2>4. p = match_select /\ cur.kind = "MatchesDetected"
      BY <2>1, <2>3 DEF Spawns, OnOffOf
    <2>5. MatchSelectAtOnce
      <3>1. \/ MatchSelectAtOnce
            \/ \E q \in 1..22 : At(q) /\ q # match_select
        <4>1. \/ MatchSelectAtOnce
              \/ At(disable) \/ At(icon_status) \/ At(alt_code)
              \/ At(matcher) \/ At(match_exec) \/ At(suppress)
              \/ At(context_menu) \/ At(hotkey)
              \/ At(cause) \/ At(open_config)
              \/ At(multiplex) \/ At(stats) \/ At(render)
              \/ At(image_resolve) \/ At(cursor_hint) \/ At(exit)
              \/ At(undo) \/ At(action) \/ At(search) \/ At(markdown)
          BY StepAt DEF Middleware
        <4>2. QED
          BY <4>1, Positions
      <3>2. QED
        BY <1>2, <2>4, <3>1, AtUnique
    <2>6. \E e : Returns(match_select, e, <<>>)
      BY <2>5 DEF MatchSelectAtOnce, Consume
    <2>7. <<>> \in Seq(Event) /\ Returns(p, cur', out)
      BY <1>2 DEF Handles
    <2>8. out = <<>>
      BY <2>6, <2>7, SameOut
    <2>9. Len(<<>>) = 0 /\ 1..0 = {}
      OBVIOUS
    <2>10. QED
      BY <2>8, <2>9
  <1>6. cur.kind = "MatchInjected" => cur'.kind # "MatchesDetected"
    <2> SUFFICES ASSUME cur.kind = "MatchInjected",
                        cur'.kind = "MatchesDetected"
                 PROVE  FALSE
      OBVIOUS
    <2>1. Becomes(p)
      BY <1>2 DEF Handles, Makes
    <2>2. /\ \A k, id : Plain(k, id).kind = k
          /\ \A k, id, why : Inject(k, id, why).kind = k
      BY DEF Plain, Inject
    <2>3. p = matcher
      BY <2>1, <2>2 DEF Becomes, Consumed
    <2>4. MatcherOnInjection
      <3>1. \/ MatcherOnKey \/ MatcherOnMouse \/ MatcherOnInjection
            \/ \E q \in 1..22 : At(q) /\ q # matcher
        <4>1. \/ MatcherOnKey \/ MatcherOnMouse \/ MatcherOnInjection
              \/ At(disable) \/ At(icon_status) \/ At(alt_code)
              \/ At(match_exec) \/ At(suppress)
              \/ At(context_menu) \/ At(hotkey)
              \/ At(match_select) \/ At(cause) \/ At(open_config)
              \/ At(multiplex) \/ At(stats) \/ At(render)
              \/ At(image_resolve) \/ At(cursor_hint) \/ At(exit)
              \/ At(undo) \/ At(action) \/ At(search) \/ At(markdown)
          BY StepAt DEF Middleware
        <4>2. QED
          BY <4>1, Positions
      <3>2. QED
        BY <1>2, <2>3, <3>1, AtUnique DEF MatcherOnKey, MatcherOnMouse
    <2>5. QED
      BY <2>4 DEF NoneCompleted
  <1>7. pc = "process"
    BY <1>2 DEF At
  <1>8. QED
    BY <1>2, <1>3, <1>4, <1>5, <1>6, <1>7 DEF SearchFrame

\* The answer of the search bar makes the last window the one to discard.
LEMMA CloseSearches ==
    ASSUME TypeOK, ControlOK, CommandsOK, MatchSelectClose
    PROVE  \E out \in Seq(Event) :
              /\ Handles(match_select, out) /\ SearchFrame(out)
              /\ cur.kind # "MatchInjected"
  <1>1. PICK out \in Seq(Event) :
              /\ Handles(match_select, out)
              /\ out = <<DiscardWindow(selection.start, nextId)>>
    BY CloseHandles
  <1>2. /\ pc = "selecting" /\ pc' = "process" /\ keyboard' = keyboard
        /\ nextId' = nextId + 1
        /\ window' = [start |-> selection.start, end |-> nextId]
        /\ cur.kind = "MatchesDetected"
    BY DEF MatchSelectClose, ControlOK
  <1> DEFINE x == DiscardWindow(selection.start, nextId)
  <1>3. x.kind = "DiscardBetween" /\ x.start = selection.start /\ x.end = nextId
    BY DEF DiscardWindow
  <1>4. out = <<x>>
    BY <1>1
  <1> HIDE DEF x
  <1>5. Len(out) = 1 /\ out[1] = x
    BY <1>4
  <1>6. QED
    BY <1>1, <1>2, <1>3, <1>5 DEF SearchFrame, IsDB

\* Only an event that leads on has what must be spared dispatched or becomes it.
LEMMA SparedFrom ==
    ASSUME TypeOK, NEW p \in 1..22, NEW out \in Seq(Event), Handles(p, out)
    PROVE  /\ \A k \in 1..Len(out) : Spared(out[k]) => ~IsDiscard(cur)
           /\ IsDB(cur') => cur' = cur
           /\ cur'.id = cur.id /\ 1 <= stage' /\ stage \in 1..22
           /\ UNCHANGED <<minId, maxId>>
  <1>1. /\ 1 <= stage /\ stage < p /\ p \in 1..22 /\ stage \in 0..23
        /\ Returns(p, cur', out) /\ Becomes(p) /\ cur'.id = cur.id
        /\ \A k \in 1..Len(out) : Spawns(p, out[k])
        /\ UNCHANGED <<minId, maxId>>
    BY Positions DEF Handles, Makes, TypeOK, ChainTypes
  <1>2. 1 <= stage' /\ stage \in 1..22
    BY <1>1, Positions DEF Returns
  <1>3. IsDB(cur') => cur' = cur
    BY Outcome DEF IsDB, IsDiscard
  <1>4. ASSUME NEW k \in 1..Len(out), Spared(out[k]), IsDiscard(cur)
        PROVE  FALSE
    <2>1. Spawns(p, out[k]) /\ cur.kind \in {"DiscardPrevious", "DiscardBetween"}
      BY <1>1, <1>4 DEF IsDiscard
    <2>2. p = context_menu /\ out[k].kind = "ShowContextMenu"
      BY <2>1 DEF Spawns, Toggles, StatusChanges, IsKey
    <2>3. QED
      BY <1>4, <2>2 DEF Spared, Spoilt, IsError
  <1>5. QED
    BY <1>1, <1>2, <1>3, <1>4

\* A middleware keeps the last window on its way.
LEMMA HandlesKeepsSearch ==
    ASSUME TypeOK, CommandsOK, SearchOK,
           NEW p \in 1..22, NEW out \in Seq(Event),
           Handles(p, out), SearchFrame(out)
    PROVE  SearchOK'
  <1> DEFINE n == Len(Waiting)
             m == Len(out)
             w == Waiting
             v == Waiting'
  <1>1. /\ n \in Nat /\ m \in Nat
        /\ DOMAIN w = 1..n /\ DOMAIN v = 1 .. n + m
        /\ \A i \in 1..n : v[i] = w[i]
        /\ \A i \in 1 .. n + m : i \notin 1..n =>
              i - n \in 1..m /\ v[i] = out[i - n]
    BY WaitingGrows DEF Handles, Returns
  <1>2. /\ \A k \in 1..m : Spared(out[k]) => ~IsDiscard(cur)
        /\ IsDB(cur') => cur' = cur
        /\ cur'.id = cur.id /\ stage' # 0 /\ stage \in 1..22
        /\ UNCHANGED <<minId, maxId>>
        /\ \A id : Discarded(id)' <=> Discarded(id)
    BY SMTT(30), SparedFrom DEF Discarded
  <1>3. /\ nextId \in Nat /\ cur.id \in Nat /\ selection.start \in Nat
        /\ keyboard' = keyboard /\ nextId' \in {nextId, nextId + 1}
        /\ pc' # "selecting" /\ cur.id < nextId
    BY EventFields
       DEF TypeOK, ChainTypes, FunnelTypes, SearchFrame, SearchOK, IdsTaken
  <1>4. /\ \A i \in 1..n : Spared(w[i]) => ~Discarded(cur.id)
        /\ \A i \in 1..n : IsDB(w[i]) => cur.id < w[i].start
        /\ IsDB(cur) => cur.id < cur.start
        /\ \A i \in 1..n :
              IsLast(w, "DiscardBetween", i) => IsWindow(w[i])
        /\ NoneOf(w, "DiscardBetween") =>
              minId = window.start /\ window.end <= maxId
        /\ ~IsDiscard(cur) => ~Discarded(cur.id)
    BY SMTT(30), <1>1, <1>2 DEF SearchOK, SparedOK, WindowOK, CommandsOK, Kept, w
  <1>5. \/ window' = window /\ \A k \in 1..m : ~IsDB(out[k])
        \/ /\ pc = "selecting" /\ m = 1 /\ IsDB(out[1])
           /\ out[1].start = selection.start /\ window'.start = selection.start
           /\ out[1].end = nextId /\ window'.end = nextId
    BY DEF SearchFrame
  <1> HIDE DEF n, m, w, v
  <1>6. SparedOK'
    <2>1. ASSUME NEW i \in 1 .. n + m, Spared(v[i])
          PROVE  ~Discarded(cur.id)
      BY <1>1, <1>2, <1>4, <2>1
    <2>2. ASSUME NEW i \in 1 .. n + m, IsDB(v[i])
          PROVE  cur.id < v[i].start
      <3>1. CASE i \in 1..n
        BY <1>1, <1>4, <2>2, <3>1
      <3>2. CASE i \notin 1..n
        <4>1. i - n \in 1..m /\ v[i] = out[i - n] /\ IsDB(out[i - n])
          BY <1>1, <2>2, <3>2
        <4>2. pc = "selecting" /\ m = 1 /\ out[1].start = selection.start
          BY <1>5, <4>1
        <4>3. i - n = 1
          BY <1>1, <4>1, <4>2
        <4>4. cur.id < selection.start
          BY <4>2 DEF SearchOK, IdsTaken
        <4>5. QED
          BY <4>1, <4>2, <4>3, <4>4
      <3>3. QED
        BY <3>1, <3>2
    <2>3. IsDB(cur') => cur'.id < cur'.start
      BY <1>2, <1>4
    <2>4. QED
      BY <1>1, <1>2, <2>1, <2>2, <2>3
         DEF SparedOK, Spared, IsError, IsDB, Discarded, v
  <1>7. IdsTaken'
    <2>1. \A i \in DOMAIN keyboard' : keyboard'[i].id < nextId'
      <3>1. ASSUME NEW i \in DOMAIN keyboard
            PROVE  keyboard[i].id \in Nat /\ keyboard[i].id < nextId
        <4>1. keyboard \in Seq(DetectEvent)
          BY DEF TypeOK, FunnelTypes
        <4>2. keyboard[i] \in Event
          BY <3>1, <4>1, DetectEventIsEvent
        <4>3. QED
          BY <3>1, <4>2, EventFields DEF SearchOK, IdsTaken
      <3>2. QED
        BY <1>3, <3>1
    <2>2. QED
      BY <1>2, <1>3, <2>1 DEF IdsTaken
  <1>8. WindowOK'
    <2>1. CASE window' = window /\ \A k \in 1..m : ~IsDB(out[k])
      <3>1. ASSUME NEW i \in 1 .. n + m, IsLast(v, "DiscardBetween", i)
            PROVE  v[i].start = window.start /\ v[i].end = window.end
        <4>1. /\ v[i].kind = "DiscardBetween"
              /\ \A j \in 1 .. n + m : j > i => v[j].kind # "DiscardBetween"
          BY <1>1, <3>1 DEF IsLast, v
        <4>2. i \in 1..n
          BY <1>1, <2>1, <4>1 DEF IsDB
        <4>3. \A j \in 1..n : j \in 1 .. n + m
          BY <1>1
        <4>4. w[i].kind = "DiscardBetween" /\ \A j \in 1..n : j > i =>
                 w[j].kind # "DiscardBetween"
          BY <1>1, <4>1, <4>2, <4>3
        <4>5. IsLast(w, "DiscardBetween", i)
          BY <1>1, <4>2, <4>4 DEF IsLast, w
        <4>6. QED
          BY <1>1, <1>4, <4>2, <4>5 DEF IsWindow
      <3>2. ASSUME \A i \in 1 .. n + m : v[i].kind # "DiscardBetween"
            PROVE  minId = window.start /\ window.end <= maxId
        <4>1. \A j \in 1..n : j \in 1 .. n + m
          BY <1>1
        <4>2. \A i \in 1..n : w[i].kind # "DiscardBetween"
          BY <1>1, <3>2, <4>1
        <4>3. QED
          BY <1>1, <1>4, <4>2 DEF NoneOf, w
      <3>3. QED
        BY <1>1, <1>2, <2>1, <3>1, <3>2
           DEF WindowOK, IsLast, NoneOf, IsWindow, v
    <2>2. CASE /\ pc = "selecting" /\ m = 1 /\ IsDB(out[1])
               /\ out[1].start = selection.start
               /\ window'.start = selection.start
               /\ out[1].end = nextId /\ window'.end = nextId
      <3>1. /\ n + 1 \in 1 .. n + m /\ n + 1 \notin 1..n /\ (n + 1) - n = 1
            /\ \A i \in 1 .. n + m : i # n + 1 => i < n + 1
        BY <1>1, <2>2
      <3>2. v[n + 1] = out[1]
        BY <1>1, <3>1
      <3>3. \A i \in 1 .. n + m : IsLast(v, "DiscardBetween", i) => i = n + 1
        BY <1>1, <2>2, <3>1, <3>2 DEF IsLast, IsDB, v
      <3>4. ~NoneOf(v, "DiscardBetween")
        BY <1>1, <2>2, <3>1, <3>2 DEF NoneOf, IsDB, v
      <3>5. QED
        BY <1>1, <2>2, <3>2, <3>3, <3>4
           DEF WindowOK, IsLast, NoneOf, IsWindow, v
    <2>3. QED
      BY <1>5, <2>1, <2>2
  <1>9. QED
    BY <1>6, <1>7, <1>8 DEF SearchOK

\* The discard middleware obeys the request it meets.
LEMMA DiscardKeepsSearch ==
    ASSUME TypeOK, DiscardOrder, CommandsOK, LeadsOK, SearchOK, Discard
    PROVE  SearchOK'
  <1>1. /\ emitted \in Seq(Event) /\ stage = 0 /\ cur.id \in Nat
        /\ pc = "process" /\ UNCHANGED <<pc, queue, nextId, keyboard, window>>
        /\ emitted' = emitted \o <<>> /\ minId \in Nat /\ maxId \in Nat
    BY Positions, EventFields
       DEF TypeOK, ChainTypes, StatusTypes, Discard, At, Pass, Consume,
           Returns, ChainStep, funnelVars, ghostVars
  <1>2. Waiting' = Waiting
    BY <1>1 DEF Waiting
  <1>3. \/ /\ cur' = cur /\ ~Discarded(cur.id)
           /\ minId' = MinAfter(cur) /\ maxId' = MaxAfter(cur)
        \/ /\ cur'.kind = "NOOP" /\ cur'.id = cur.id /\ Discarded(cur.id)
           /\ UNCHANGED <<minId, maxId>>
    BY DEF Discard, Pass, Consume, Returns, Plain, discardVars
  <1>4. stage' # 0 /\ cur'.id = cur.id
    BY <1>3, Positions DEF Discard, Pass, Consume, Returns
  <1>5. /\ \A i \in DOMAIN Waiting : Spared(Waiting[i]) => ~Discarded(cur.id)
        /\ Spared(cur) => ~Discarded(cur.id)
        /\ \A i \in DOMAIN Waiting : IsDB(Waiting[i]) => cur.id < Waiting[i].start
        /\ IsDB(cur) => cur.id < cur.start /\ Spared(cur)
    BY <1>1 DEF SearchOK, SparedOK, Spared, Spoilt, IsDB
  <1>6. cur.kind = "DiscardPrevious" =>
            \A i \in DOMAIN Waiting : ~Spared(Waiting[i])
    <2> SUFFICES ASSUME cur.kind = "DiscardPrevious",
                        NEW i \in DOMAIN Waiting
                 PROVE  ~Spared(Waiting[i])
      OBVIOUS
    <2>1. ~Leads(Waiting[i]) /\ Waiting[i].kind \notin Spoilt
      BY DEF LeadsOK, TrailsLast, TrailKinds, PurgeLast
    <2>2. QED
      BY <2>1 DEF Spared, Leads, LateKinds
  <1>7. \/ UNCHANGED <<minId, maxId>> /\ (IsDB(cur) => cur' # cur)
           /\ (IsDB(cur') => cur' = cur)
        \/ IsDB(cur) /\ cur' = cur /\ minId' = cur.start /\ maxId' = cur.end
        \/ cur.kind = "DiscardPrevious" /\ cur' = cur /\ minId' = minId
           /\ maxId' = cur.min
    BY <1>3 DEF MinAfter, MaxAfter, IsDB
  <1>8. IsDB(cur') => IsDB(cur)
    BY <1>3 DEF IsDB
  <1>9. SparedOK'
    <2>1. ASSUME NEW i \in DOMAIN Waiting, Spared(Waiting[i])
          PROVE  ~Discarded(cur.id)'
      <3>1. CASE UNCHANGED <<minId, maxId>>
        BY <1>4, <1>5, <2>1, <3>1 DEF Discarded
      <3>2. CASE IsDB(cur) /\ cur' = cur /\ minId' = cur.start
        <4>1. cur.start \in Nat
          BY <3>2, EventFields DEF TypeOK, ChainTypes, IsDB, DiscardBetweenEvent
        <4>2. QED
          BY <1>1, <1>5, <3>2, <4>1 DEF Discarded
      <3>3. QED
        BY <1>6, <1>7, <2>1, <3>1, <3>2
    <2>2. IsDB(cur') => cur'.id < cur'.start
      BY <1>3, <1>5 DEF IsDB
    <2>3. QED
      BY <1>2, <1>4, <1>5, <2>1, <2>2
         DEF SparedOK, Spared, IsError, IsDB, Discarded
  <1>10. IdsTaken'
    BY <1>1, <1>4 DEF SearchOK, IdsTaken
  <1>11. WindowOK'
    <2> SUFFICES ASSUME NoneOf(Waiting, "DiscardBetween")
                 PROVE  minId' = window.start /\ window.end <= maxId'
      BY <1>1, <1>2, <1>4
         DEF SearchOK, WindowOK, IsLast, NoneOf, IsWindow, IsDB
    <2>1. IF IsDB(cur) THEN IsWindow(cur)
          ELSE minId = window.start /\ window.end <= maxId
      BY <1>1 DEF SearchOK, WindowOK
    <2>2. CASE IsDB(cur)
      <3>1. cur' = cur
        BY <1>3, <1>5, <2>2
      <3>2. minId' = cur.start /\ maxId' = cur.end
        BY <1>7, <2>2, <3>1 DEF IsDB
      <3>3. window.end \in Nat
        BY DEF TypeOK, HistoryTypes
      <3>4. QED
        BY <2>1, <2>2, <3>2, <3>3 DEF IsWindow
    <2>3. CASE ~IsDB(cur)
      <3>1. cur.kind = "DiscardPrevious" => maxId <= cur.min /\ cur.min \in Nat
        BY <1>1, EventFields
           DEF DiscardOrder, Timely, IsDiscard, UpTo, TypeOK, ChainTypes,
               DiscardPreviousEvent
      <3>2. window.end \in Nat
        BY DEF TypeOK, HistoryTypes
      <3>3. QED
        BY <1>1, <1>7, <2>1, <2>3, <3>1, <3>2
    <2>4. QED
      BY <2>2, <2>3
  <1>12. QED
    BY <1>9, <1>10, <1>11 DEF SearchOK

\* The opening of the search bar leaves the last window as it is.
LEMMA OpenKeepsSearch ==
    ASSUME TypeOK, CommandsOK, SearchOK, MatchSelectOpen
    PROVE  SearchOK'
  <1>1. /\ UNCHANGED <<queue, cur, stage, emitted, minId, maxId, keyboard,
                       window>>
        /\ pc = "process" /\ pc' = "selecting" /\ selection'.start = nextId
        /\ nextId' = nextId + 1 /\ nextId \in Nat /\ cur.id \in Nat
    BY EventFields
       DEF MatchSelectOpen, At, discardVars, ghostVars, TypeOK, FunnelTypes,
           ChainTypes
  <1>2. Waiting' = Waiting
    BY <1>1 DEF Waiting
  <1>3. SparedOK' /\ WindowOK'
    BY <1>1, <1>2
       DEF SearchOK, SparedOK, WindowOK, Spared, IsError, IsDB, Discarded,
           IsLast, NoneOf, IsWindow
  <1>4. ASSUME NEW i \in DOMAIN keyboard
        PROVE  keyboard[i].id < nextId'
    <2>1. keyboard[i] \in Event
      BY <1>4, DetectEventIsEvent DEF TypeOK, FunnelTypes
    <2>2. QED
      BY <1>1, <1>4, <2>1, EventFields DEF SearchOK, IdsTaken
  <1>5. IdsTaken'
    BY <1>1, <1>4 DEF SearchOK, IdsTaken
  <1>6. QED
    BY <1>3, <1>5 DEF SearchOK

\* The end of the chain keeps the last window on its way.
LEMMA EndOfChainKeepsSearch ==
    ASSUME TypeOK, CommandsOK, SearchOK, EndOfChain
    PROVE  SearchOK'
  <1>1. /\ NextTaken
        /\ UNCHANGED <<minId, maxId, nextId, keyboard, window>>
        /\ pc = "process" /\ pc' # "selecting" /\ stage' = 0
    BY EndOfChainTakes
       DEF EndOfChain, discardVars, funnelVars, ghostVars
  <1>2. stage # 0
    <2> SUFFICES ASSUME stage = 0 PROVE FALSE
      OBVIOUS
    <2>1. 1 \in stage + 1 .. markdown
      BY Positions
    <2>2. QED
      BY <2>1, Positions DEF EndOfChain, LooksAt
  <1>3. NoneOf(Waiting, "DiscardBetween") =>
            minId = window.start /\ window.end <= maxId
    BY <1>2 DEF SearchOK, WindowOK
  <1>4. CASE DOMAIN Waiting = {} /\ DOMAIN Waiting' = {}
             /\ cur' = Plain("NOOP", 0) /\ pc' # "process"
    <2>1. ~Spared(cur') /\ ~IsDB(cur')
      BY <1>4 DEF Plain, Spared, Spoilt, IsError, IsDB
    <2>2. SparedOK'
      BY <1>4, <2>1 DEF SparedOK, Spared, IsError, IsDB
    <2>3. IdsTaken'
      BY <1>1, <1>4 DEF SearchOK, IdsTaken
    <2>4. WindowOK'
      <3>1. NoneOf(Waiting, "DiscardBetween")
        BY <1>4 DEF NoneOf
      <3>2. QED
        BY <1>1, <1>3, <1>4, <2>1, <3>1 DEF WindowOK, IsLast, IsDB
    <2>5. QED
      BY <2>2, <2>3, <2>4 DEF SearchOK
  <1>5. ASSUME NEW n \in Nat,
               /\ n >= 1 /\ DOMAIN Waiting = 1..n
               /\ DOMAIN Waiting' = 1..n - 1
               /\ cur' = Waiting[1] /\ pc' = "process"
               /\ \A i \in 1..n - 1 :
                     i + 1 \in 1..n /\ Waiting'[i] = Waiting[i + 1]
        PROVE  SearchOK'
    <2> DEFINE w == Waiting
               v == Waiting'
    <2>1. /\ 1 \in 1..n /\ cur' = w[1] /\ DOMAIN w = 1..n
          /\ DOMAIN v = 1..n - 1
          /\ \A i \in 1..n - 1 :
                i + 1 \in 1..n /\ i + 1 # 1 /\ v[i] = w[i + 1]
      BY <1>5
    <2>2. /\ \A i \in 1..n : Spared(w[i]) => ~Discarded(cur.id)
          /\ \A i \in 1..n : IsDB(w[i]) => cur.id < w[i].start
          /\ \A i \in 1..n : w[i].id = cur.id
          /\ \A i \in 1..n :
                IsLast(w, "DiscardBetween", i) => IsWindow(w[i])
      BY <1>5 DEF SearchOK, SparedOK, WindowOK, CommandsOK, BatchOK
    <2>3. NoneOf(w, "DiscardBetween") =>
              minId = window.start /\ window.end <= maxId
      BY <1>3
    <2> HIDE DEF w, v
    <2>4. cur'.id = cur.id /\ \A id : Discarded(id)' <=> Discarded(id)
      BY <1>1, <2>1, <2>2 DEF Discarded
    <2>5. SparedOK'
      <3>1. \A i \in 1..n - 1 : Spared(v[i]) => ~Discarded(cur.id)
        BY <2>1, <2>2
      <3>2. \A i \in 1..n - 1 : IsDB(v[i]) => cur.id < v[i].start
        BY <2>1, <2>2
      <3>3. Spared(cur') => ~Discarded(cur.id)
        BY <2>1, <2>2
      <3>4. IsDB(cur') => cur.id < cur'.start
        BY <2>1, <2>2
      <3>5. QED
        BY <2>1, <2>4, <3>1, <3>2, <3>3, <3>4
           DEF SparedOK, Spared, IsError, IsDB, Discarded, v
    <2>6. IdsTaken'
      BY <1>1, <2>4 DEF SearchOK, IdsTaken
    <2>7. \A j \in 1..n : j = 1 \/ (j - 1 \in 1..n - 1 /\ (j - 1) + 1 = j)
      BY <1>5
    <2>8. ASSUME NEW i \in 1..n - 1, IsLast(v, "DiscardBetween", i)
          PROVE  v[i].start = window.start /\ v[i].end = window.end
      <3>1. /\ v[i].kind = "DiscardBetween"
            /\ \A j \in 1..n - 1 : j > i => v[j].kind # "DiscardBetween"
        BY <2>1, <2>8 DEF IsLast
      <3>2. ASSUME NEW j \in 1..n, j > i + 1
            PROVE  w[j].kind # "DiscardBetween"
        <4>1. j - 1 \in 1..n - 1 /\ (j - 1) + 1 = j /\ j - 1 > i
          BY <2>7, <3>2
        <4>2. QED
          BY <2>1, <3>1, <4>1
      <3>3. IsLast(w, "DiscardBetween", i + 1)
        BY <2>1, <3>1, <3>2 DEF IsLast
      <3>4. QED
        BY <2>1, <2>2, <3>3 DEF IsWindow
    <2>9. ASSUME \A i \in 1..n - 1 : v[i].kind # "DiscardBetween"
          PROVE  IF IsDB(cur') THEN cur'.start = window.start
                                    /\ cur'.end = window.end
                 ELSE minId = window.start /\ window.end <= maxId
      <3>1. ASSUME NEW j \in 1..n, j # 1
            PROVE  w[j].kind # "DiscardBetween"
        <4>1. j - 1 \in 1..n - 1 /\ (j - 1) + 1 = j
          BY <2>7, <3>1
        <4>2. v[j - 1] = w[j]
          BY <2>1, <4>1
        <4>3. QED
          BY <2>9, <4>1, <4>2
      <3>2. CASE IsDB(cur')
        <4>1. IsLast(w, "DiscardBetween", 1)
          BY <2>1, <3>1, <3>2 DEF IsLast, IsDB
        <4>2. QED
          BY <2>1, <2>2, <3>2, <4>1 DEF IsWindow
      <3>3. CASE ~IsDB(cur')
        <4>1. NoneOf(w, "DiscardBetween")
          BY <2>1, <3>1, <3>3 DEF NoneOf, IsDB
        <4>2. QED
          BY <2>3, <3>3, <4>1
      <3>4. QED
        BY <3>2, <3>3
    <2>10. WindowOK'
      BY <1>1, <2>1, <2>8, <2>9
         DEF WindowOK, IsLast, NoneOf, IsWindow, IsDB, v
    <2>11. QED
      BY <2>5, <2>6, <2>10 DEF SearchOK
  <1>6. QED
    BY <1>1, <1>4, <1>5 DEF NextTaken

\* A step that leaves the chain, the thresholds and the window alone.
LEMMA LaterKeepsSearch ==
    ASSUME SearchOK,
           UNCHANGED <<queue, emitted, cur, stage, minId, maxId, window>>,
           \/ UNCHANGED pc /\ UNCHANGED selection
           \/ pc' \notin {"process", "selecting"},
           \A i \in DOMAIN keyboard' : keyboard'[i].id < nextId',
           cur.id < nextId => cur.id < nextId'
    PROVE  SearchOK'
  <1>1. Waiting' = Waiting
    BY DEF Waiting
  <1>2. SparedOK' /\ WindowOK'
    BY <1>1
       DEF SearchOK, SparedOK, WindowOK, Spared, IsError, IsDB, Discarded,
           IsLast, NoneOf, IsWindow
  <1>3. IdsTaken'
    BY DEF SearchOK, IdsTaken
  <1>4. QED
    BY <1>2, <1>3 DEF SearchOK

\* So do the steps outside the chain.
LEMMA OtherStepsKeepSearch ==
    ASSUME TypeOK, SearchOK, Environment \/ Dispatch \/ UNCHANGED vars
    PROVE  SearchOK'
  <1>1. /\ nextId \in Nat /\ cur.id \in Nat /\ keyboard \in Seq(DetectEvent)
        /\ \A i \in DOMAIN keyboard :
              keyboard[i].id \in Nat /\ keyboard[i].id < nextId
    <2>1. keyboard \in Seq(DetectEvent) /\ cur \in Event /\ nextId \in Nat
      BY DEF TypeOK, FunnelTypes, ChainTypes
    <2>2. \A i \in DOMAIN keyboard : keyboard[i] \in Event
      BY <2>1, DetectEventIsEvent
    <2>3. QED
      BY <2>1, <2>2, EventFields DEF SearchOK, IdsTaken
  <1>2. CASE Dispatch
    BY <1>1, <1>2, LaterKeepsSearch
       DEF Dispatch, funnelVars, discardVars
  <1>3. CASE UNCHANGED vars
    BY <1>1, <1>3, LaterKeepsSearch
       DEF vars, funnelVars, chainVars, discardVars, ghostVars
  <1>4. ASSUME NEW e \in DetectEvent, e.id = nextId, Enqueue(e)
        PROVE  SearchOK'
    <2>1. /\ UNCHANGED <<queue, emitted, cur, stage, pc, selection, minId,
                         maxId, window>>
          /\ nextId' = nextId + 1 /\ keyboard' = Append(keyboard, e)
      BY <1>4 DEF Enqueue, chainVars, discardVars
    <2>2. ASSUME NEW i \in DOMAIN keyboard' PROVE keyboard'[i].id < nextId'
      <3>1. /\ DOMAIN keyboard = 1..Len(keyboard) /\ Len(keyboard) \in Nat
            /\ DOMAIN keyboard' = 1 .. Len(keyboard) + 1
            /\ \A j \in 1..Len(keyboard) : keyboard'[j] = keyboard[j]
            /\ keyboard'[Len(keyboard) + 1] = e
        BY <1>1, <2>1, AppendProperties
      <3>2. i \in 1..Len(keyboard) \/ i = Len(keyboard) + 1
        BY <3>1
      <3>3. QED
        BY <1>1, <1>4, <2>1, <3>1, <3>2
    <2>3. QED
      BY <1>1, <2>1, <2>2, LaterKeepsSearch
  <1>5. CASE Detect
    <2>1. ASSUME NEW k \in Keys, NEW status \in Status, DetectKey(k, status)
          PROVE  SearchOK'
      BY <1>1, <1>4, <2>1 DEF DetectKey, DetectEvent, KeyEvent
    <2>2. ASSUME NEW status \in Status, DetectMouse(status) PROVE SearchOK'
      BY <1>1, <1>4, <2>2 DEF DetectMouse, DetectEvent, MouseEvent
    <2>3. ASSUME NEW m \in Matches, DetectHotKey(m) PROVE SearchOK'
      BY <1>1, <1>4, <2>3 DEF DetectHotKey, DetectEvent
    <2>4. CASE DetectAllModifiersReleased
      BY <1>1, <1>4, <2>4 DEF DetectAllModifiersReleased, DetectEvent, Plain
    <2>5. \A k \in Typed : k[1] \in Keys /\ k[2] \in Status
      BY EngineAssumption
    <2>6. QED
      BY <1>5, <2>1, <2>2, <2>3, <2>4, <2>5, EngineAssumption DEF Detect
  <1>6. CASE ModifierOutdated \/ \E s \in Sources : \E request \in Requests[s] :
                                    Send(s, request)
    <2>1. UNCHANGED <<queue, emitted, cur, stage, pc, selection, minId, maxId,
                      window, keyboard, nextId>>
      BY <1>6
         DEF ModifierOutdated, Send, chainVars, discardVars, ghostVars
    <2>2. QED
      BY <1>1, <2>1, LaterKeepsSearch
  <1>7. QED
    BY <1>2, <1>3, <1>5, <1>6 DEF Environment

\* What is received is numbered, and is not a request to discard.
LEMMA ReceiveKeepsSearch ==
    ASSUME TypeOK, CommandsOK, SearchOK, Receive
    PROVE  SearchOK'
  <1>1. /\ nextId \in Nat /\ keyboard \in Seq(DetectEvent)
        /\ chan \in [Sources -> Seq(SourceEvent)] /\ cur.id \in Nat
    BY EventFields DEF TypeOK, FunnelTypes, ChainTypes
  <1>2. /\ pc = "receive" /\ UNCHANGED <<minId, maxId, window>>
    BY DEF Receive, ReceiveDetected, ReceiveRequest, discardVars
  <1>3. ASSUME NEW i \in DOMAIN keyboard
        PROVE  keyboard[i].id \in Nat /\ keyboard[i].id < nextId
    <2>1. keyboard[i] \in Event
      BY <1>1, <1>3, DetectEventIsEvent
    <2>2. QED
      BY <1>3, <2>1, EventFields DEF SearchOK, IdsTaken
  <1>4. Waiting = <<>> /\ cur.kind = "NOOP" /\ DOMAIN <<>> = {}
    BY <1>2 DEF CommandsOK, BatchOK
  <1>5. /\ nextId' \in {nextId, nextId + 1}
        /\ \A i \in DOMAIN keyboard' : keyboard'[i].id < nextId'
    <2>1. CASE ReceiveDetected
      <3>1. /\ nextId' = nextId /\ keyboard' = Tail(keyboard)
            /\ keyboard # <<>>
        BY <2>1 DEF ReceiveDetected
      <3>2. \A i \in DOMAIN keyboard' :
               i + 1 \in DOMAIN keyboard /\ keyboard'[i] = keyboard[i + 1]
        BY <1>1, <3>1, HeadTailProperties
      <3>3. QED
        BY <1>3, <3>1, <3>2
    <2>2. CASE \E s \in Sources : ReceiveRequest(s)
      BY <1>1, <1>3, <2>2 DEF ReceiveRequest
    <2>3. QED
      BY <2>1, <2>2 DEF Receive
  <1>6. CASE Skipped
    <2>1. UNCHANGED <<pc, queue, cur, stage, emitted, selection>>
      BY <1>6 DEF Skipped, chainVars
    <2>2. QED
      BY <1>1, <1>2, <1>5, <2>1, LaterKeepsSearch
  <1>7. ASSUME NEW e, Start(e), ~Spared(e), e.id < nextId'
        PROVE  SearchOK'
    <2>1. pc' = "process" /\ cur' = e /\ stage' = 0 /\ Waiting' = Waiting
      BY <1>7 DEF Start, Waiting
    <2>2. DOMAIN Waiting = {} /\ DOMAIN Waiting' = {}
      BY <1>4, <2>1
    <2>3. ~IsDB(cur) /\ ~IsDB(e)
      BY <1>4, <1>7 DEF IsDB, Spared, Spoilt
    <2>4. SparedOK'
      BY <1>7, <2>1, <2>2, <2>3 DEF SparedOK, Spared, IsError, IsDB
    <2>5. IdsTaken'
      BY <1>5, <1>7, <2>1 DEF IdsTaken
    <2>6. WindowOK'
      <3>1. minId = window.start /\ window.end <= maxId
        BY <2>2, <2>3 DEF SearchOK, WindowOK, NoneOf
      <3>2. QED
        BY <1>2, <2>1, <2>2, <2>3, <3>1 DEF WindowOK, IsLast, IsDB
    <2>7. QED
      BY <2>4, <2>5, <2>6 DEF SearchOK
  <1>8. CASE ReceiveDetected
    <2>1. Head(keyboard) = keyboard[1] /\ 1 \in DOMAIN keyboard
          /\ keyboard # <<>> /\ nextId' = nextId
      <3>1. keyboard # <<>> /\ nextId' = nextId
        BY <1>8 DEF ReceiveDetected
      <3>2. QED
        BY <1>1, <3>1, HeadTailProperties, EmptySeq
    <2>2. Head(keyboard) \in DetectEvent
      BY <1>1, <2>1, HeadTailProperties
    <2>3. ~Spared(Head(keyboard))
      BY <2>2
         DEF DetectEvent, KeyEvent, MouseEvent, Spared, Spoilt, IsError
    <2>4. Head(keyboard).id < nextId'
      BY <1>3, <2>1
    <2>5. QED
      BY <1>6, <1>7, <1>8, <2>3, <2>4 DEF ReceiveDetected
  <1>9. ASSUME NEW s \in Sources, ReceiveRequest(s) PROVE SearchOK'
    <2>1. Head(chan[s]) \in SourceEvent
      BY <1>1, <1>9, HeadTailProperties DEF ReceiveRequest
    <2>2. /\ Numbered(Head(chan[s])).id = nextId
          /\ ~Spared(Numbered(Head(chan[s])))
      <3>1. \A e \in SourceEvent :
               /\ [e EXCEPT !.id = nextId].id = nextId
               /\ [e EXCEPT !.id = nextId].kind = e.kind
               /\ e.kind \notin Spoilt \cup {"CauseCompensatedMatch",
                                             "TextInject"}
        BY DEF SourceEvent, MenuEvent, Spoilt
      <3>2. QED
        BY <2>1, <3>1 DEF Numbered, Spared, IsError
    <2>3. QED
      BY <1>1, <1>6, <1>7, <1>9, <2>2 DEF ReceiveRequest
  <1>10. QED
    BY <1>8, <1>9 DEF Receive

\* Every step leaves one lead at most.
LEMMA LeadsNext ==
    ASSUME TypeOK, ControlOK, CommandsOK, LeadsOK,
           [Next]_vars, [NoneCompleted]_vars
    PROVE  LeadsOK'
  <1>1. CASE UNCHANGED vars
    <2>1. Waiting' = Waiting /\ cur' = cur
      BY <1>1 DEF vars, chainVars, Waiting
    <2>2. QED
      BY <2>1, LaterKeepsLeads
  <1>2. CASE Middleware /\ NoneCompleted
    <2>1. CASE ~Discard /\ ~MatchSelectOpen
      <3>1. PICK p \in 1..22 : \E out \in Seq(Event) :
               /\ Handles(p, out)
               /\ cur.kind = "MatchInjected" => cur'.kind # "MatchesDetected"
        BY <1>2, <2>1, MiddlewareSearches
      <3>2. QED
        BY <3>1, HandlesKeepsLeads
    <2>2. CASE Discard
      <3>1. emitted \in Seq(Event) /\ emitted' = emitted \o <<>>
            /\ queue' = queue /\ (cur' = cur \/ cur'.kind = "NOOP")
        BY <2>2
           DEF TypeOK, ChainTypes, Discard, Pass, Consume, Returns, Plain,
               ChainStep
      <3>2. Waiting' = Waiting
        BY <3>1 DEF Waiting
      <3>3. QED
        BY <3>1, <3>2, LaterKeepsLeads
    <2>3. CASE MatchSelectOpen
      BY <2>3, LaterKeepsLeads DEF MatchSelectOpen, Waiting
    <2>4. QED
      BY <2>1, <2>2, <2>3
  <1>3. CASE MatchSelectClose
    <2>1. PICK out \in Seq(Event) :
             Handles(match_select, out) /\ cur.kind # "MatchInjected"
      BY <1>3, CloseSearches
    <2>2. QED
      BY <2>1, HandlesKeepsLeads, InChain
  <1>4. CASE EndOfChain
    BY <1>4, EndOfChainKeepsLeads
  <1>5. CASE Dispatch
    BY <1>5, LaterKeepsLeads DEF Dispatch, Waiting
  <1>6. CASE Environment
    BY <1>6, LaterKeepsLeads
       DEF Environment, Detect, DetectKey, DetectMouse, DetectHotKey,
           DetectAllModifiersReleased, Enqueue, Send, ModifierOutdated,
           chainVars, Waiting
  <1>7. CASE Receive
    <2>1. pc = "receive" /\ (Skipped \/ \E e : Start(e))
      BY <1>7 DEF Receive, ReceiveDetected, ReceiveRequest
    <2>2. CASE Skipped
      BY <2>2, LaterKeepsLeads DEF Skipped, chainVars, Waiting
    <2>3. QED
      BY <2>1, <2>2, StartKeepsLeads
  <1>8. QED
    BY <1>1, <1>2, <1>3, <1>4, <1>5, <1>6, <1>7 DEF Next, EngineStep

\* Every step keeps the last window on its way or obeyed.
LEMMA SearchNext ==
    ASSUME TypeOK, ControlOK, DiscardOrder, CommandsOK, LeadsOK, SearchOK,
           [Next]_vars, [NoneCompleted]_vars
    PROVE  SearchOK'
  <1>1. CASE UNCHANGED vars
    BY <1>1, OtherStepsKeepSearch
  <1>2. CASE Middleware /\ NoneCompleted
    <2>1. CASE ~Discard /\ ~MatchSelectOpen
      <3>1. PICK p \in 1..22 : \E out \in Seq(Event) :
               Handles(p, out) /\ SearchFrame(out)
        BY <1>2, <2>1, MiddlewareSearches
      <3>2. QED
        BY <3>1, HandlesKeepsSearch
    <2>2. QED
      BY <2>1, DiscardKeepsSearch, OpenKeepsSearch
  <1>3. CASE MatchSelectClose
    BY <1>3, CloseSearches, HandlesKeepsSearch, InChain
  <1>4. CASE EndOfChain
    BY <1>4, EndOfChainKeepsSearch
  <1>5. CASE Dispatch \/ Environment
    BY <1>5, OtherStepsKeepSearch
  <1>6. CASE Receive
    BY <1>6, ReceiveKeepsSearch
  <1>7. QED
    BY <1>1, <1>2, <1>3, <1>4, <1>5, <1>6 DEF Next, EngineStep

\* At first nothing waits and the window is empty.
LEMMA SearchInit == Init => LeadsOK /\ SearchOK
  <1> SUFFICES ASSUME Init PROVE LeadsOK /\ SearchOK
    OBVIOUS
  <1>1. /\ pc = "receive" /\ queue = <<>> /\ emitted = <<>> /\ stage = 0
        /\ cur.kind = "NOOP" /\ keyboard = <<>>
        /\ minId = 0 /\ maxId = 0 /\ window.start = 0 /\ window.end = 0
    BY DEF Init, Plain, NoWindow
  <1>2. Waiting = <<>> /\ DOMAIN <<>> = {}
    BY <1>1 DEF Waiting
  <1>3. DOMAIN Waiting = {} /\ DOMAIN keyboard = {}
    BY <1>1, <1>2
  <1>4. LeadsOK
    BY <1>1, <1>3
       DEF LeadsOK, OneLead, TrailsLast, PurgeLast
  <1>5. ~Spared(cur) /\ ~IsDB(cur)
    BY <1>1 DEF Spared, Spoilt, IsError, IsDB
  <1>6. SearchOK
    BY <1>1, <1>3, <1>5
       DEF SearchOK, SparedOK, IdsTaken, WindowOK, IsLast
  <1>7. QED
    BY <1>4, <1>6

\* The invariants of the leads and of the window hold always.
LEMMA SearchAlwaysOK ==
    Spec /\ [][NoneCompleted]_vars => [](LeadsOK /\ SearchOK)
  <1>1. Init => LeadsOK /\ SearchOK
    BY SearchInit
  <1>2. /\ TypeOK /\ ControlOK /\ DiscardOrder /\ CommandsOK
        /\ LeadsOK /\ SearchOK
        /\ [Next]_vars /\ [NoneCompleted]_vars
        => (LeadsOK /\ SearchOK)'
    BY LeadsNext, SearchNext
  <1>3. QED
    BY <1>1, <1>2, TypeCorrect, DiscardsInOrder, CommandsAlwaysOK, PTL
       DEF Spec

\* No key typed while the latest search bar was open gets past the discard
\* middleware once the bar has closed (match_select.rs, lines 113-115), whatever the
\* match chosen does, unless a separator fed after an injection completes a trigger.
THEOREM SearchKeysDiscarded ==
    Spec /\ [][NoneCompleted]_vars => []LastSearchKeysDiscarded
  <1>1. TypeOK /\ CommandsOK /\ SearchOK => LastSearchKeysDiscarded
    <2> SUFFICES ASSUME TypeOK, CommandsOK, SearchOK,
                        pc = "process", cur.kind = "Keyboard",
                        stage >= discard
                 PROVE  ~(window.start <= cur.id /\ cur.id < window.end)
      BY DEF LastSearchKeysDiscarded
    <2>1. /\ stage \in 1..22 /\ cur.id \in Nat /\ maxId \in Nat
          /\ window.end \in Nat
      BY Positions, EventFields
         DEF TypeOK, ChainTypes, StatusTypes, HistoryTypes, CommandsOK, BatchOK
    <2>2. ~Discarded(cur.id)
      BY <2>1 DEF CommandsOK, Kept, IsDiscard
    <2>3. NoneOf(Waiting, "DiscardBetween")
      BY DEF CommandsOK, Alone, Expanding, ExpandingKinds, NoneOf
    <2>4. minId = window.start /\ window.end <= maxId
      BY <2>1, <2>3 DEF SearchOK, WindowOK, IsDB
    <2>5. QED
      BY <2>1, <2>2, <2>4 DEF Discarded
  <1>2. QED
    BY <1>1, SearchAlwaysOK, TypeCorrect, CommandsAlwaysOK, PTL

-----------------------------------------------------------------------------
(* A trigger that is deleted is replaced *)

\* An event that is to be replaced has not passed the middleware that does it.
Stages ==
    /\ cur.kind = "CauseCompensatedMatch" => stage < multiplex
    /\ cur.kind = "RenderingRequested" => stage < render
    /\ cur.kind = "ImageRequested" => stage < image_resolve
    /\ cur.kind \in {"Rendered", "ImageResolved"} => stage < action
    /\ cur.kind = "MarkdownInject" => stage < markdown

\* The events on the way from a match to what is typed for it.
InFlight(e) ==
    e.kind \in LateKinds \cup {"MarkdownInject"} \/ ReplacesTrigger(e)

FlightSpared ==
    /\ \A i \in DOMAIN Waiting : InFlight(Waiting[i]) => Spared(Waiting[i])
    /\ stage = 0 /\ InFlight(cur) => Spared(cur)

\* The events that may still have something typed.
Yields(e) ==
    \/ Leads(e) \/ e.kind \in Typing
    \/ e.kind \in {"MarkdownInject", "Undo", "TriggerCompensation",
                   "CursorHintCompensation"}

\* The first of the events that wait to have something typed is a match on its
\* way, or the error it ended with.
NextTyped ==
    \E k \in DOMAIN Waiting :
        /\ Waiting[k].kind = "CauseCompensatedMatch" \/ IsError(Waiting[k])
        /\ \A i \in DOMAIN Waiting : i < k => ~Yields(Waiting[i])

OnTrigger(e) == e.kind = "TriggerCompensation" \/ DeletesTrigger(e)

Replaced(i) ==
    \E j \in i + 1 .. Len(processed) :
        /\ ReplacesTrigger(processed[j])
        /\ processed[j].id = processed[i].id
        /\ \A k \in i + 1 .. j - 1 : processed[k].kind \notin Typing

\* Nothing has been typed since the trigger was deleted, and what replaces it
\* is under way.
Awaited(i) ==
    /\ pc # "dispatch"
    /\ \A k \in i + 1 .. Len(processed) : processed[k].kind \notin Typing
    /\ processed[i].id = cur.id
    /\ InFlight(cur) \/ (~Yields(cur) /\ NextTyped)

Replacing ==
    ~swallowed => \A i \in DOMAIN processed :
        DeletesTrigger(processed[i]) => Replaced(i) \/ Awaited(i)

TriggerNext == OnTrigger(cur) /\ ~swallowed => NextTyped

ExpansionOK == Stages /\ FlightSpared /\ Replacing /\ TriggerNext

\* What a middleware does to an expansion beside handing it on.
ExpansionFrame(p, out) ==
    /\ pc # "dispatch"
    /\ swallowed => swallowed'
    /\ p \in Passing => LooksAt(p)
    /\ p = cause /\ cur'.kind = "TriggerCompensation" =>
          Len(out) = 1 /\ out[1].kind = "CauseCompensatedMatch"
    /\ p = render /\ cur'.kind = "RenderingError" =>
          Len(out) = 1 /\ IsError(out[1])

\* The action of the middleware at some positions of the chain.
LEMMA TakenAt ==
    ASSUME TypeOK, Middleware, NEW p \in 1..22, At(p)
    PROVE  /\ p = cause => Cause
           /\ p = multiplex => Multiplex
           /\ p = stats => StatsOnRequest \/ StatsOnDiscard \/ StatsOnInjection
           /\ p = render => Render
           /\ p = action => ActionOnBody \/ ActionOnHint \/ ActionOnTrigger
                            \/ ActionOnUndo
  <1>1. \/ At(discard) \/ At(disable) \/ At(icon_status) \/ At(alt_code)
        \/ At(matcher) \/ At(match_exec) \/ At(suppress)
        \/ At(context_menu) \/ At(hotkey) \/ At(match_select)
        \/ (At(cause) /\ Cause) \/ At(open_config)
        \/ (At(multiplex) /\ Multiplex)
        \/ /\ At(stats)
           /\ StatsOnRequest \/ StatsOnDiscard \/ StatsOnInjection
        \/ (At(render) /\ Render)
        \/ At(image_resolve) \/ At(cursor_hint) \/ At(exit) \/ At(undo)
        \/ /\ At(action)
           /\ ActionOnBody \/ ActionOnHint \/ ActionOnTrigger \/ ActionOnUndo
        \/ At(search) \/ At(markdown)
    BY StepAt DEF Middleware
  <1>2. \A q \in 1..22 : At(q) => q = p
    BY AtUnique
  <1>3. QED
    BY <1>1, <1>2, Positions

\* Every step of a middleware treats an expansion as its position says.
LEMMA MiddlewareExpands ==
    ASSUME TypeOK, CommandsOK, Middleware, ~Discard, ~MatchSelectOpen,
           NoneCompleted
    PROVE  \E p \in 1..22 : \E out \in Seq(Event) :
              /\ Handles(p, out) /\ At(p) /\ SearchFrame(out)
              /\ ExpansionFrame(p, out)
              /\ cur.kind = "MatchInjected" => cur'.kind # "MatchesDetected"
  <1>1. PICK p \in 1..22 : \E out \in Seq(Event) :
              /\ Handles(p, out) /\ At(p) /\ SearchFrame(out)
              /\ cur.kind = "MatchInjected" => cur'.kind # "MatchesDetected"
    BY MiddlewareSearches
  <1>2. PICK out \in Seq(Event) :
              /\ Handles(p, out) /\ At(p) /\ SearchFrame(out)
              /\ cur.kind = "MatchInjected" => cur'.kind # "MatchesDetected"
    BY <1>1
  <1>3. cur \in Event /\ cur.id \in Nat /\ Returns(p, cur', out)
    BY <1>2, EventFields DEF TypeOK, ChainTypes, Handles
  <1>4. pc # "dispatch" /\ (p \in Passing => LooksAt(p))
    BY <1>2 DEF At
  <1>5. swallowed => swallowed'
    BY DEF Middleware, Discard, DisableOnKey, DisableOnRequest, ToggledTo,
           IconUpdate, AltCodeSynthesizer, MatcherOnKey, MatcherOnMouse,
           MatcherOnInjection, MatcherRest, MatchExec, Suppress,
           ContextMenu, HotKey, MatchSelectAtOnce, Cause, OpenConfig,
           Multiplex, StatsOnRequest, StatsOnDiscard, StatsOnInjection,
           StatsRest, Render, ImageResolve, CursorHint, Exit,
           UndoOnExpansion, UndoOnKey, UndoRest, ActionOnBody,
           ActionOnHint, ActionOnTrigger, ActionOnUndo, ActionRest,
           Search, Markdown, Stateless, ghostVars
  <1>6. ASSUME NEW x \in Event, NEW q, Returns(q, cur', <<x>>)
        PROVE  Len(out) = 1 /\ out[1] = x
    <2>1. <<x>> \in Seq(Event) /\ Len(<<x>>) = 1 /\ <<x>>[1] = x
      OBVIOUS
    <2>2. out = <<x>>
      BY <1>3, <1>6, <2>1, SameOut
    <2>3. QED
      BY <2>1, <2>2
  <1>7. ASSUME p = cause, cur'.kind = "TriggerCompensation"
        PROVE  Len(out) = 1 /\ out[1].kind = "CauseCompensatedMatch"
    <2>1. Cause /\ cur.kind = "MatchSelected"
      BY <1>2, <1>7, TakenAt, SubjectOf
    <2>2. /\ Compensated \in Event
          /\ Compensated.kind = "CauseCompensatedMatch"
      BY <1>3, <2>1, EventFields DEF Compensated, MatchEvent, Event
    <2>3. Returns(cause, cur', <<Compensated>>)
      BY <1>7, <2>1, <2>2 DEF Cause, TriggerFirst, Returns
    <2>4. QED
      BY <1>6, <2>2, <2>3
  <1>8. ASSUME p = render, cur'.kind = "RenderingError"
        PROVE  Len(out) = 1 /\ IsError(out[1])
    <2>1. Render
      BY <1>2, <1>8, TakenAt
    <2> DEFINE x == Inject("TextInject", cur.id, "error")
    <2>2. x \in Event /\ IsError(x)
      BY <1>3, InjectIsEvent DEF Purposes, Inject, IsError
    <2>3. Returns(render, cur', <<x>>)
      BY <1>8, <2>1 DEF Render, Consume, Returns, Plain
    <2> HIDE DEF x
    <2>4. QED
      BY <1>6, <2>2, <2>3
  <1>9. QED
    BY <1>2, <1>4, <1>5, <1>7, <1>8 DEF ExpansionFrame

\* So does the answer of the search bar.
LEMMA CloseExpands ==
    ASSUME TypeOK, ControlOK, CommandsOK, MatchSelectClose
    PROVE  \E out \in Seq(Event) :
              /\ Handles(match_select, out) /\ SearchFrame(out)
              /\ ExpansionFrame(match_select, out)
              /\ cur.kind # "MatchInjected"
  <1>1. PICK out \in Seq(Event) :
              /\ Handles(match_select, out) /\ SearchFrame(out)
              /\ cur.kind # "MatchInjected"
    BY CloseSearches
  <1>2. pc = "selecting" /\ swallowed' = swallowed
    BY DEF MatchSelectClose
  <1>3. match_select \notin Passing /\ match_select # cause
        /\ match_select # render
    BY Positions DEF Passing
  <1>4. QED
    BY <1>1, <1>2, <1>3 DEF ExpansionFrame

\* What is on its way stays on its way, and what types nothing stays silent.
LEMMA FlightOn ==
    ASSUME TypeOK, NEW p \in 1..22, NEW out \in Seq(Event), Handles(p, out),
           cur.kind = "MatchInjected" => cur'.kind # "MatchesDetected"
    PROVE  /\ InFlight(cur) /\ ~swallowed' =>
                 \/ InFlight(cur')
                 \/ /\ p = render /\ cur.kind = "RenderingRequested"
                    /\ cur'.kind = "RenderingError"
           /\ ~Yields(cur) => ~Yields(cur')
           /\ OnTrigger(cur') =>
                 \/ OnTrigger(cur)
                 \/ /\ p = cause /\ cur.kind = "MatchSelected"
                    /\ cur'.kind = "TriggerCompensation"
           /\ \A k \in 1..Len(out) : InFlight(out[k]) => Spared(out[k])
  <1>1. /\ cur \in Event /\ Becomes(p)
        /\ \A k \in 1..Len(out) : Spawns(p, out[k])
    BY DEF TypeOK, ChainTypes, Handles, Makes
  <1>2. /\ \A k, id : Plain(k, id).kind = k
        /\ \A k, id, why : Inject(k, id, why).kind = k
                           /\ Inject(k, id, why).why = why
        /\ \A flags : ShowMenu(flags).kind = "ShowContextMenu"
        /\ cur.kind = "MatchSelected" =>
              Compensated.kind = "CauseCompensatedMatch"
    BY <1>1, EventFields DEF Plain, Inject, ShowMenu, Compensated, MatchEvent
  \* Everything that may happen to an event, by its kind.
  <1>3. \/ cur' = cur
        \/ /\ cur'.kind = "NOOP"
           /\ InFlight(cur) => swallowed'
        \/ /\ cur'.kind \in {"MatchesDetected", "MatchSelected"} /\ Early(cur)
        \/ /\ cur'.kind = "Undo" /\ IsKey(cur, Pressed)
        \/ /\ cur'.kind \in {"ShowContextMenu", "ExitRequested", "Exit"}
           /\ cur.kind \in {"TrayIconClicked", "ContextMenuClicked",
                            "ExitRequested"}
        \/ /\ cur'.kind = "TriggerCompensation" /\ p = cause
           /\ cur.kind = "MatchSelected"
        \/ /\ cur'.kind = "CauseCompensatedMatch" /\ cur.kind = "MatchSelected"
        \/ /\ cur.kind = "CauseCompensatedMatch"
           /\ \/ cur'.kind \in LateKinds
              \/ cur'.kind = "TextInject" /\ cur'.why = "builtin"
              \/ /\ cur'.kind \in {"ShowText", "ShowLogs", "ExitRequested",
                                   "ShowSearchBar"}
                 /\ swallowed'
        \/ /\ cur.kind = "RenderingRequested"
           /\ \/ cur'.kind = "Rendered"
              \/ cur'.kind = "RenderingError" /\ p = render
        \/ /\ cur.kind \in {"ImageRequested", "Rendered"}
           /\ cur'.kind \in LateKinds
        \/ /\ cur.kind \in {"Rendered", "ImageResolved"}
           /\ \/ cur'.kind \in {"HtmlInject", "ImageInject", "MarkdownInject"}
              \/ cur'.kind = "TextInject" /\ cur'.why = "body"
        \/ /\ cur'.kind = "KeySequenceInject"
           /\ \/ cur'.why = "trigger" /\ cur.kind = "TriggerCompensation"
              \/ /\ cur'.why # "trigger"
                 /\ cur.kind \in {"CursorHintCompensation", "Undo"}
        \/ cur'.kind = "HtmlInject" /\ cur.kind = "MarkdownInject"
    <2>1. cur' = Plain("NOOP", cur.id) /\ Consumed(p) =>
             cur'.kind = "NOOP" /\ (InFlight(cur) => swallowed')
      BY <1>2 DEF Consumed, InFlight, LateKinds, ReplacesTrigger
    <2>2. cur.kind = "MatchInjected" /\ cur'.kind = "MatchesDetected" => FALSE
      OBVIOUS
    <2> HIDE DEF Early
    <2>3. IsKey(cur, Pressed) \/ cur.kind \in EarlyKinds => Early(cur)
      BY DEF Early
    <2>4. \A why \in {"hint", "trigger", "undo"} :
             /\ cur' = Inject("KeySequenceInject", cur.id, why)
             /\ cur.kind = CASE why = "hint"    -> "CursorHintCompensation"
                             [] why = "trigger" -> "TriggerCompensation"
                             [] why = "undo"    -> "Undo"
             => /\ cur'.kind = "KeySequenceInject"
                /\ \/ cur'.why = "trigger" /\ cur.kind = "TriggerCompensation"
                   \/ /\ cur'.why # "trigger"
                      /\ cur.kind \in {"CursorHintCompensation", "Undo"}
      BY <1>2
    <2>5. QED
      BY <1>1, <1>2, <2>1, <2>2, <2>3, <2>4
         DEF Becomes, EarlyKinds, LateKinds
  <1>4. InFlight(cur) /\ ~swallowed' =>
           \/ InFlight(cur')
           \/ /\ p = render /\ cur.kind = "RenderingRequested"
              /\ cur'.kind = "RenderingError"
    BY <1>3 DEF InFlight, LateKinds, ReplacesTrigger, Early, EarlyKinds, IsKey
  <1>5. ~Yields(cur) => ~Yields(cur')
    BY <1>3
       DEF Yields, Leads, Early, EarlyKinds, LateKinds, IsError, IsKey, Typing
  <1>6. OnTrigger(cur') =>
           \/ OnTrigger(cur)
           \/ /\ p = cause /\ cur.kind = "MatchSelected"
              /\ cur'.kind = "TriggerCompensation"
    BY <1>3 DEF OnTrigger, DeletesTrigger, LateKinds
  <1>7. ASSUME NEW k \in 1..Len(out), InFlight(out[k])
        PROVE  Spared(out[k])
    <2>1. Spawns(p, out[k])
      BY <1>1
    <2>2. \/ out[k].kind = "CauseCompensatedMatch"
          \/ out[k].kind = "TextInject"
             /\ out[k].why \in {"error", "altcode", "undo"}
      BY <1>2, <1>7, <2>1
         DEF Spawns, InFlight, LateKinds, ReplacesTrigger, OnOffOf
    <2>3. QED
      BY <1>7, <2>2 DEF InFlight, LateKinds, ReplacesTrigger, Spared, IsError
  <1>8. QED
    BY <1>4, <1>5, <1>6, <1>7

\* An event that is to be replaced has not passed the middleware that does it.
LEMMA HandlesKeepsStages ==
    ASSUME TypeOK, Stages, NEW p \in 1..22, NEW out \in Seq(Event),
           Handles(p, out), ExpansionFrame(p, out)
    PROVE  Stages'
  <1>1. /\ cur \in Event /\ Becomes(p) /\ stage \in 0..23 /\ stage < p
        /\ stage' = (IF cur'.kind = "NOOP" THEN 23 ELSE p)
    <2>1. cur \in Event /\ stage \in 0..23
      BY Positions DEF TypeOK, ChainTypes
    <2>2. Becomes(p) /\ stage < p /\ Returns(p, cur', out)
      BY DEF Handles, Makes
    <2>3. QED
      BY <2>1, <2>2, Positions DEF Returns
  <1>2. /\ \A k, id : Plain(k, id).kind = k
        /\ \A k, id, why : Inject(k, id, why).kind = k
        /\ \A flags : ShowMenu(flags).kind = "ShowContextMenu"
        /\ cur.kind = "MatchSelected" =>
              Compensated.kind = "CauseCompensatedMatch"
    BY <1>1, EventFields DEF Plain, Inject, ShowMenu, Compensated, MatchEvent
  <1>3. CASE cur' = cur /\ p \in Passing
    <2>1. LooksAt(p)
      BY <1>3 DEF ExpansionFrame
    <2>2. /\ cur.kind = "CauseCompensatedMatch" => p < multiplex
          /\ cur.kind = "RenderingRequested" => p < render
          /\ cur.kind = "ImageRequested" => p < image_resolve
          /\ cur.kind \in {"Rendered", "ImageResolved"} => p < action
          /\ cur.kind = "MarkdownInject" => p < markdown
      BY SMTT(30), <1>3, <2>1, Positions DEF LooksAt, Subjects, Passing, StatusChanges
    <2>3. QED
      BY <1>1, <1>3, <2>2, Positions DEF Stages
  <1>4. CASE ~(cur' = cur /\ p \in Passing)
    <2>1. /\ cur'.kind = "CauseCompensatedMatch" => p = cause
          /\ cur'.kind = "RenderingRequested" => p = multiplex
          /\ cur'.kind = "ImageRequested" => p = multiplex
          /\ cur'.kind = "Rendered" => p \in {render, cursor_hint}
          /\ cur'.kind = "ImageResolved" => p = image_resolve
          /\ cur'.kind = "MarkdownInject" => p = action
      BY <1>1, <1>2, <1>4 DEF Becomes
    <2>2. QED
      BY <1>1, <2>1, Positions DEF Stages
  <1>5. QED
    BY <1>3, <1>4

\* Behind a match that is on its way nothing else waits to type.
LEMMA NothingYields ==
    ASSUME CommandsOK, LeadsOK, Leads(cur), cur.kind # "Rendered",
           NEW i \in DOMAIN Waiting
    PROVE  ~Yields(Waiting[i])
  <1>1. Waiting[i].kind \in WaitingKinds
    BY DEF CommandsOK, BatchOK
  <1>2. ~Leads(Waiting[i]) /\ ~Trails(Waiting[i])
    BY DEF LeadsOK, OneLead, TrailsLast
  <1>3. QED
    BY <1>1, <1>2 DEF Yields, Typing, WaitingKinds, Trails, Leads, IsError

\* A middleware keeps what replaces a trigger on its way.
LEMMA HandlesKeepsExpansion ==
    ASSUME TypeOK, CommandsOK, LeadsOK, ExpansionOK,
           NEW p \in 1..22, NEW out \in Seq(Event),
           Handles(p, out), ExpansionFrame(p, out),
           cur.kind = "MatchInjected" => cur'.kind # "MatchesDetected"
    PROVE  ExpansionOK'
  <1> DEFINE n == Len(Waiting)
             m == Len(out)
             w == Waiting
             v == Waiting'
  <1>1. /\ n \in Nat /\ m \in Nat
        /\ DOMAIN w = 1..n /\ DOMAIN v = 1 .. n + m
        /\ \A i \in 1..n : v[i] = w[i]
        /\ \A i \in 1 .. n + m : i \notin 1..n =>
              i - n \in 1..m /\ v[i] = out[i - n]
    BY WaitingGrows DEF Handles, Returns
  <1>2. /\ InFlight(cur) /\ ~swallowed' =>
              \/ InFlight(cur')
              \/ /\ p = render /\ cur.kind = "RenderingRequested"
                 /\ cur'.kind = "RenderingError"
        /\ ~Yields(cur) => ~Yields(cur')
        /\ OnTrigger(cur') =>
              \/ OnTrigger(cur)
              \/ /\ p = cause /\ cur.kind = "MatchSelected"
                 /\ cur'.kind = "TriggerCompensation"
        /\ \A k \in 1..m : InFlight(out[k]) => Spared(out[k])
    BY FlightOn
  <1>3. /\ cur'.id = cur.id /\ stage' # 0 /\ processed' = processed
        /\ pc' # "dispatch" /\ pc # "dispatch" /\ (swallowed => swallowed')
    BY Positions DEF Handles, Makes, Returns, ExpansionFrame
  <1>4. /\ p = cause /\ cur'.kind = "TriggerCompensation" =>
              m = 1 /\ out[1].kind = "CauseCompensatedMatch"
        /\ p = render /\ cur'.kind = "RenderingError" =>
              m = 1 /\ IsError(out[1])
    BY DEF ExpansionFrame
  <1>5. Leads(cur) /\ cur.kind # "Rendered" =>
            \A i \in 1..n : ~Yields(w[i])
    BY <1>1, NothingYields
  <1>6. Stages'
    BY HandlesKeepsStages DEF ExpansionOK
  <1>7. \A i \in 1..n : InFlight(w[i]) => Spared(w[i])
    BY <1>1 DEF ExpansionOK, FlightSpared
  <1> HIDE DEF n, m, w, v
  <1>8. FlightSpared'
    <2>1. \A i \in 1 .. n + m : InFlight(v[i]) => Spared(v[i])
      BY <1>1, <1>2, <1>7
    <2>2. QED
      BY <1>1, <1>3, <2>1
         DEF FlightSpared, InFlight, ReplacesTrigger, Spared, IsError, v
  <1>9. ASSUME NextTyped PROVE NextTyped'
    <2>1. PICK k \in 1..n :
             /\ w[k].kind = "CauseCompensatedMatch" \/ IsError(w[k])
             /\ \A i \in 1..n : i < k => ~Yields(w[i])
      BY <1>1, <1>9 DEF NextTyped, w
    <2>2. k \in 1 .. n + m /\ \A i \in 1 .. n + m : i < k => i \in 1..n
      BY <1>1
    <2>3. /\ v[k].kind = "CauseCompensatedMatch" \/ IsError(v[k])
          /\ \A i \in 1 .. n + m : i < k => ~Yields(v[i])
      BY <1>1, <2>1, <2>2
    <2>4. QED
      BY <1>1, <2>2, <2>3
         DEF NextTyped, IsError, Yields, Leads, Early, IsKey, v
  <1>10. ASSUME Leads(cur), cur.kind # "Rendered", m = 1,
                out[1].kind = "CauseCompensatedMatch" \/ IsError(out[1])
         PROVE  NextTyped'
    <2>1. /\ n + 1 \in 1 .. n + m /\ n + 1 \notin 1..n /\ (n + 1) - n = 1
          /\ \A i \in 1 .. n + m : i < n + 1 => i \in 1..n
      BY <1>1, <1>10
    <2>2. /\ v[n + 1].kind = "CauseCompensatedMatch" \/ IsError(v[n + 1])
          /\ \A i \in 1 .. n + m : i < n + 1 => ~Yields(v[i])
      BY <1>1, <1>5, <1>10, <2>1
    <2>3. QED
      BY <1>1, <2>1, <2>2
         DEF NextTyped, IsError, Yields, Leads, Early, IsKey, v
  <1>11. Replacing'
    <2> SUFFICES ASSUME ~swallowed', NEW i \in DOMAIN processed,
                        DeletesTrigger(processed[i]), ~Replaced(i)
                 PROVE  Awaited(i)'
      BY <1>3 DEF Replacing, Replaced, DeletesTrigger, ReplacesTrigger
    <2>1. Awaited(i)
      BY <1>3 DEF ExpansionOK, Replacing
    <2>2. InFlight(cur)' \/ (~Yields(cur)' /\ NextTyped')
      <3>1. CASE InFlight(cur)
        <4>1. CASE InFlight(cur')
          BY <4>1 DEF InFlight, ReplacesTrigger
        <4>2. CASE /\ p = render /\ cur.kind = "RenderingRequested"
                   /\ cur'.kind = "RenderingError"
          <5>1. Leads(cur) /\ cur.kind # "Rendered"
            BY <4>2 DEF Leads, LateKinds
          <5>2. NextTyped'
            BY <1>4, <1>10, <4>2, <5>1
          <5>3. ~Yields(cur)'
            BY <4>2
               DEF Yields, Leads, Early, EarlyKinds, LateKinds, IsError, IsKey,
                   Typing
          <5>4. QED
            BY <5>2, <5>3
        <4>3. QED
          BY <1>2, <3>1, <4>1, <4>2
      <3>2. CASE ~Yields(cur) /\ NextTyped
        <4>1. ~Yields(cur')
          BY <1>2, <3>2
        <4>2. ~Yields(cur)'
          BY <4>1 DEF Yields, Leads, Early, IsKey, IsError
        <4>3. QED
          BY <1>9, <3>2, <4>2
      <3>3. QED
        BY <2>1, <3>1, <3>2 DEF Awaited
    <2>3. QED
      BY <1>3, <2>1, <2>2 DEF Awaited
  <1>12. TriggerNext'
    <2> SUFFICES ASSUME OnTrigger(cur'), ~swallowed' PROVE NextTyped'
      BY DEF TriggerNext, OnTrigger, DeletesTrigger
    <2>1. CASE OnTrigger(cur)
      BY <1>3, <1>9, <2>1 DEF ExpansionOK, TriggerNext
    <2>2. CASE /\ p = cause /\ cur.kind = "MatchSelected"
               /\ cur'.kind = "TriggerCompensation"
      <3>1. Leads(cur) /\ cur.kind # "Rendered"
        BY <2>2 DEF Leads, Early, EarlyKinds
      <3>2. QED
        BY <1>4, <1>10, <2>2, <3>1
    <2>3. QED
      BY <1>2, <2>1, <2>2
  <1>13. QED
    BY <1>6, <1>8, <1>11, <1>12 DEF ExpansionOK

\* Steps after which the same events wait behind the same one, or behind one
\* that was not on its way.
LEMMA LaterKeepsExpansion ==
    ASSUME ExpansionOK, Waiting' = Waiting,
           UNCHANGED <<processed, swallowed>>,
           stage' = stage \/ stage' = 1 \/ cur'.kind = "NOOP",
           pc' # "dispatch" \/ pc = "dispatch",
           \/ cur' = cur
           \/ cur'.kind = "NOOP" /\ cur'.id = cur.id /\ ~InFlight(cur)
    PROVE  ExpansionOK'
  <1>1. cur'.kind = "NOOP" => ~Yields(cur') /\ ~InFlight(cur') /\ ~OnTrigger(cur')
    BY DEF Yields, Leads, Early, EarlyKinds, LateKinds, IsError, IsKey,
           Typing, InFlight, ReplacesTrigger, OnTrigger, DeletesTrigger
  <1>2. Stages'
    BY Positions DEF ExpansionOK, Stages
  <1>3. FlightSpared'
    <2>1. cur' = cur \/ ~InFlight(cur')
      BY <1>1
    <2>2. stage' = 0 => stage = 0 \/ ~InFlight(cur')
      BY <1>1
    <2>3. QED
      BY <2>1, <2>2
         DEF ExpansionOK, FlightSpared, InFlight, ReplacesTrigger, Spared,
             IsError
  <1>4. NextTyped => NextTyped'
    BY DEF NextTyped, IsError, Yields, Leads, Early, IsKey
  <1>5. TriggerNext'
    <2>1. OnTrigger(cur)' => OnTrigger(cur)
      BY <1>1 DEF OnTrigger, DeletesTrigger
    <2>2. QED
      BY <1>4, <2>1 DEF ExpansionOK, TriggerNext
  <1>6. Replacing'
    <2> SUFFICES ASSUME ~swallowed, NEW i \in DOMAIN processed,
                        DeletesTrigger(processed[i]), ~Replaced(i)
                 PROVE  Awaited(i)'
      BY DEF Replacing, Replaced, DeletesTrigger, ReplacesTrigger
    <2>1. Awaited(i)
      BY DEF ExpansionOK, Replacing
    <2>2. InFlight(cur) => InFlight(cur)'
      BY DEF InFlight, ReplacesTrigger
    <2>3. ~Yields(cur) => ~Yields(cur)'
      BY <1>1 DEF Yields, Leads, Early, IsKey, IsError
    <2>4. QED
      BY <1>4, <2>1, <2>2, <2>3 DEF Awaited
  <1>7. QED
    BY <1>2, <1>3, <1>5, <1>6 DEF ExpansionOK

\* So does the discard middleware, to which it is not old.
LEMMA DiscardKeepsExpansion ==
    ASSUME TypeOK, SearchOK, ExpansionOK, Discard
    PROVE  ExpansionOK'
  <1>1. /\ emitted \in Seq(Event) /\ emitted' = emitted \o <<>>
        /\ UNCHANGED <<queue, processed, swallowed>> /\ stage = 0
        /\ pc' = pc /\ stage \in 0..23
    BY Positions
       DEF TypeOK, ChainTypes, Discard, At, Pass, Consume, Returns, ChainStep,
           ghostVars
  <1>2. Waiting' = Waiting
    BY <1>1 DEF Waiting
  <1>3. InFlight(cur) => ~Discarded(cur.id)
    BY <1>1 DEF ExpansionOK, FlightSpared, SearchOK, SparedOK
  <1>4. \/ cur' = cur /\ (stage' = 1 \/ cur'.kind = "NOOP")
        \/ cur'.kind = "NOOP" /\ cur'.id = cur.id /\ ~InFlight(cur)
    BY <1>3, Positions DEF Discard, Pass, Consume, Returns, Plain
  <1>5. pc' # "dispatch" \/ pc = "dispatch"
    BY <1>1
  <1>6. QED
    BY <1>1, <1>2, <1>4, <1>5, LaterKeepsExpansion

\* A batch starts with nothing typed.
LEMMA StartKeepsExpansion ==
    ASSUME CommandsOK, pc = "receive", NEW e, Start(e),
           ~InFlight(e), ~OnTrigger(e)
    PROVE  ExpansionOK'
  <1>1. /\ Waiting' = Waiting /\ Waiting = <<>> /\ DOMAIN <<>> = {}
        /\ processed' = <<>> /\ cur' = e /\ stage' = 0
    BY DEF Start, Waiting, CommandsOK, BatchOK
  <1>2. DOMAIN Waiting' = {} /\ DOMAIN processed' = {}
    BY <1>1
  <1>3. ~InFlight(cur)' /\ ~OnTrigger(cur)'
    BY <1>1 DEF InFlight, ReplacesTrigger, OnTrigger, DeletesTrigger
  <1>4. Stages'
    BY <1>1, Positions DEF Stages
  <1>5. QED
    BY <1>2, <1>3, <1>4 DEF ExpansionOK, FlightSpared, Replacing, TriggerNext

\* The end of the chain takes what replaces the trigger before anything else
\* that types.
LEMMA EndOfChainKeepsExpansion ==
    ASSUME TypeOK, CommandsOK, ExpansionOK, EndOfChain
    PROVE  ExpansionOK'
  <1>1. /\ NextTaken /\ pc = "process" /\ stage' = 0
        /\ swallowed' = swallowed
        /\ processed' = IF cur.kind \in Executed THEN Append(processed, cur)
                                                  ELSE processed
        /\ \A q \in stage + 1 .. 22 : ~LooksAt(q)
    BY EndOfChainTakes, Positions DEF EndOfChain, ghostVars
  <1>2. Stages'
    BY <1>1, Positions DEF Stages
  <1>3. InFlight(cur) => ReplacesTrigger(cur) /\ cur.kind \in Executed
    <2>1. stage \in 0..23
      BY Positions DEF TypeOK, ChainTypes
    <2>2. ASSUME NEW q \in 1..22, stage < q PROVE ~LooksAt(q)
      BY <1>1, <2>1, <2>2
    <2>3. /\ cur.kind = "CauseCompensatedMatch" => LooksAt(multiplex)
          /\ cur.kind = "RenderingRequested" => LooksAt(render)
          /\ cur.kind = "ImageRequested" => LooksAt(image_resolve)
          /\ cur.kind \in {"Rendered", "ImageResolved"} => LooksAt(action)
          /\ cur.kind = "MarkdownInject" => LooksAt(markdown)
      BY Positions DEF LooksAt, Subjects
    <2>4. cur.kind \notin LateKinds \cup {"MarkdownInject"}
      BY SMTT(30), <2>2, <2>3, InChain DEF ExpansionOK, Stages, LateKinds
    <2>5. QED
      BY <2>4 DEF InFlight, ReplacesTrigger, Executed
  <1> DEFINE r == Len(processed)
             P == processed
             Q == processed'
  <1>4. /\ P \in Seq(Event) /\ r \in Nat /\ DOMAIN P = 1..r /\ cur \in Event
        /\ \/ Q = P /\ cur.kind \notin Executed /\ Len(Q) = r
           \/ /\ cur.kind \in Executed /\ Len(Q) = r + 1
              /\ DOMAIN Q = 1 .. r + 1 /\ Q[r + 1] = cur
              /\ \A i \in 1..r : Q[i] = P[i]
    <2>1. P \in Seq(Event) /\ r \in Nat /\ DOMAIN P = 1..r /\ cur \in Event
      BY DEF TypeOK, ChainTypes
    <2>2. /\ Append(P, cur) \in Seq(Event) /\ Len(Append(P, cur)) = r + 1
          /\ Append(P, cur)[r + 1] = cur
          /\ \A i \in 1..r : Append(P, cur)[i] = P[i]
      BY <2>1, AppendProperties
    <2>3. DOMAIN Append(P, cur) = 1 .. r + 1
      BY <2>2
    <2>4. QED
      BY <1>1, <2>1, <2>2, <2>3
  <1>5. swallowed \/ \A i \in 1..r :
            DeletesTrigger(P[i]) => Replaced(i) \/ Awaited(i)
    BY <1>4 DEF ExpansionOK, Replacing
  \* What was expected to replace the trigger is the next event, or still waits.
  <1>6. ASSUME NextTyped
        PROVE  /\ pc' = "process" /\ cur'.id = cur.id
               /\ InFlight(cur') \/ (~Yields(cur') /\ NextTyped')
    <2>1. DOMAIN Waiting # {}
      BY <1>6 DEF NextTyped
    <2>2. PICK n \in Nat :
             /\ n >= 1 /\ DOMAIN Waiting = 1..n
             /\ DOMAIN Waiting' = 1..n - 1
             /\ cur' = Waiting[1] /\ pc' = "process"
             /\ \A i \in 1..n - 1 :
                   i + 1 \in 1..n /\ Waiting'[i] = Waiting[i + 1]
      BY <1>1, <2>1 DEF NextTaken
    <2>3. 1 \in DOMAIN Waiting
      BY <2>2
    <2>4. cur'.id = cur.id
      BY <2>2, <2>3 DEF CommandsOK, BatchOK
    <2>5. PICK k \in 1..n :
             /\ Waiting[k].kind = "CauseCompensatedMatch" \/ IsError(Waiting[k])
             /\ \A i \in 1..n : i < k => ~Yields(Waiting[i])
      BY <1>6, <2>2 DEF NextTyped
    <2>6. CASE k = 1
      BY <2>2, <2>4, <2>5, <2>6
         DEF InFlight, LateKinds, ReplacesTrigger, IsError
    <2>7. CASE k # 1
      <3> DEFINE v == Waiting'
                 w == Waiting
      <3>1. /\ k - 1 \in 1..n - 1 /\ (k - 1) + 1 = k /\ 1 < k
            /\ \A i \in 1..n - 1 : i < k - 1 => i + 1 < k
        BY <2>2, <2>7
      <3>2. ~Yields(cur')
        BY <2>2, <2>3, <2>5, <3>1
      <3>3. /\ v[k - 1] = w[k]
            /\ \A i \in 1..n - 1 : i < k - 1 => ~Yields(v[i])
        BY <2>2, <2>5, <3>1
      <3>4. DOMAIN v = 1..n - 1
        BY <2>2
      <3>5. v[k - 1].kind = "CauseCompensatedMatch" \/ IsError(v[k - 1])
        BY <2>5, <3>3
      <3> HIDE DEF v, w
      <3>6. NextTyped'
        BY <3>1, <3>3, <3>4, <3>5
           DEF NextTyped, IsError, Yields, Leads, Early, IsKey, v
      <3>7. QED
        BY <2>2, <2>4, <3>2, <3>6
    <2>8. QED
      BY <2>6, <2>7
  <1> HIDE DEF r, P, Q
  <1>7. ASSUME NextTyped, NEW i \in 1..Len(Q), Q[i].id = cur.id,
               \A k \in i + 1 .. Len(Q) : Q[k].kind \notin Typing
        PROVE  Awaited(i)'
    <2>1. /\ pc' = "process" /\ cur'.id = cur.id
          /\ InFlight(cur') \/ (~Yields(cur') /\ NextTyped')
      BY <1>6, <1>7
    <2>2. /\ InFlight(cur') => InFlight(cur)'
          /\ ~Yields(cur') => ~Yields(cur)'
      BY DEF InFlight, ReplacesTrigger, Yields, Leads, Early, IsKey, IsError
    <2>3. QED
      BY <1>7, <2>1, <2>2 DEF Awaited, Q
  <1>8. Replacing'
    <2> SUFFICES ASSUME ~swallowed, NEW i \in DOMAIN Q, DeletesTrigger(Q[i])
                 PROVE  Replaced(i)' \/ Awaited(i)'
      BY <1>1 DEF Replacing, DeletesTrigger, Q
    <2>1. i \in 1..r \/ (i = r + 1 /\ cur.kind \in Executed)
      BY <1>4
    <2>2. CASE i \in 1..r /\ Replaced(i)
      <3>1. PICK j \in i + 1 .. r :
               /\ ReplacesTrigger(P[j]) /\ P[j].id = P[i].id
               /\ \A k \in i + 1 .. j - 1 : P[k].kind \notin Typing
        BY <2>2 DEF Replaced, P, r
      <3>2. /\ j \in 1..r /\ j \in i + 1 .. Len(Q)
            /\ \A k \in i + 1 .. j - 1 : k \in 1..r
        BY <1>4, <2>2
      <3>3. /\ ReplacesTrigger(Q[j]) /\ Q[j].id = Q[i].id
            /\ \A k \in i + 1 .. j - 1 : Q[k].kind \notin Typing
        BY <1>4, <2>2, <3>1, <3>2
      <3>4. Replaced(i)'
        BY <3>2, <3>3 DEF Replaced, ReplacesTrigger, Q
      <3>5. QED
        BY <3>4
    <2>3. CASE i \in 1..r /\ ~Replaced(i)
      <3>1. /\ \A k \in i + 1 .. r : P[k].kind \notin Typing
            /\ P[i].id = cur.id
            /\ InFlight(cur) \/ (~Yields(cur) /\ NextTyped)
        <4>1. DeletesTrigger(P[i])
          BY <1>4, <2>3
        <4>2. QED
          BY <1>5, <2>3, <4>1 DEF Awaited, P, r
      <3>2. CASE InFlight(cur)
        <4>1. ReplacesTrigger(cur) /\ cur.kind \in Executed
          BY <1>3, <3>2
        <4>2. /\ Len(Q) = r + 1 /\ Q[r + 1] = cur
              /\ \A k \in 1..r : Q[k] = P[k]
              /\ r + 1 \in i + 1 .. Len(Q)
              /\ \A k \in i + 1 .. (r + 1) - 1 : k \in 1..r /\ k \in i + 1 .. r
          BY <1>4, <2>3, <4>1
        <4>3. /\ ReplacesTrigger(Q[r + 1]) /\ Q[r + 1].id = Q[i].id
              /\ \A k \in i + 1 .. (r + 1) - 1 : Q[k].kind \notin Typing
          BY <2>3, <3>1, <4>1, <4>2
        <4>4. Replaced(i)'
          BY <4>2, <4>3 DEF Replaced, ReplacesTrigger, Q
        <4>5. QED
          BY <4>4
      <3>3. CASE ~Yields(cur) /\ NextTyped
        <4>1. cur.kind \notin Typing
          BY <3>3 DEF Yields
        <4>2. /\ i \in 1..Len(Q) /\ Q[i] = P[i]
              /\ \A k \in i + 1 .. Len(Q) :
                    \/ k \in i + 1 .. r /\ Q[k] = P[k]
                    \/ Q[k] = cur
          BY <1>4, <2>3
        <4>3. \A k \in i + 1 .. Len(Q) : Q[k].kind \notin Typing
          BY <3>1, <4>1, <4>2
        <4>4. QED
          BY <1>7, <3>1, <3>3, <4>2, <4>3
      <3>4. QED
        BY <3>1, <3>2, <3>3
    <2>4. CASE i = r + 1 /\ cur.kind \in Executed
      <3>1. /\ Len(Q) = r + 1 /\ Q[i] = cur /\ i \in 1..Len(Q)
            /\ \A k \in i + 1 .. Len(Q) : FALSE
        BY <1>4, <2>4
      <3>2. NextTyped
        BY <3>1 DEF ExpansionOK, TriggerNext, OnTrigger
      <3>3. QED
        BY <1>7, <3>1, <3>2
    <2>5. QED
      BY <2>1, <2>2, <2>3, <2>4
  \* What waits neither deletes a trigger nor has passed the chain.
  <1>9. FlightSpared' /\ TriggerNext'
    <2>1. CASE DOMAIN Waiting' = {} /\ cur' = Plain("NOOP", 0)
      <3>1. ~InFlight(cur)' /\ ~OnTrigger(cur)'
        BY <2>1
           DEF Plain, InFlight, LateKinds, ReplacesTrigger, OnTrigger,
               DeletesTrigger
      <3>2. QED
        BY <2>1, <3>1 DEF FlightSpared, TriggerNext
    <2>2. ASSUME NEW n \in Nat,
                 /\ n >= 1 /\ DOMAIN Waiting = 1..n
                 /\ DOMAIN Waiting' = 1..n - 1
                 /\ cur' = Waiting[1]
                 /\ \A i \in 1..n - 1 :
                       i + 1 \in 1..n /\ Waiting'[i] = Waiting[i + 1]
          PROVE  FlightSpared' /\ TriggerNext'
      <3> DEFINE v == Waiting'
                 w == Waiting
      <3>1. /\ 1 \in 1..n /\ cur' = w[1] /\ DOMAIN v = 1..n - 1
            /\ \A i \in 1..n - 1 : i + 1 \in 1..n /\ v[i] = w[i + 1]
            /\ \A i \in 1..n : InFlight(w[i]) => Spared(w[i])
            /\ w[1].kind \in WaitingKinds
        BY <2>2 DEF ExpansionOK, FlightSpared, CommandsOK, BatchOK
      <3> HIDE DEF v, w
      <3>2. \A i \in 1..n - 1 : InFlight(v[i]) => Spared(v[i])
        BY <3>1
      <3>3. FlightSpared'
        BY <3>1, <3>2
           DEF FlightSpared, InFlight, ReplacesTrigger, Spared, IsError, v
      <3>4. ~OnTrigger(cur)'
        BY <3>1 DEF OnTrigger, DeletesTrigger, WaitingKinds
      <3>5. QED
        BY <3>3, <3>4 DEF TriggerNext
    <2>3. QED
      BY <1>1, <2>1, <2>2 DEF NextTaken
  <1>10. QED
    BY <1>2, <1>8, <1>9 DEF ExpansionOK

\* The executors are given the batch in order, and empty it.
LEMMA DispatchKeepsExpansion ==
    ASSUME TypeOK, ControlOK, ExpansionOK, Dispatch
    PROVE  ExpansionOK'
  <1>1. /\ UNCHANGED <<queue, emitted, cur, stage, swallowed>>
        /\ pc = "dispatch" /\ processed \in Seq(Event) /\ processed # <<>>
        /\ processed' = <<>> \/ processed' = Tail(processed)
    BY DEF Dispatch, TypeOK, ChainTypes, ControlOK
  <1>2. Waiting' = Waiting
    BY <1>1 DEF Waiting
  <1>3. Stages' /\ FlightSpared' /\ TriggerNext'
    BY <1>1, <1>2
       DEF ExpansionOK, Stages, FlightSpared, TriggerNext, NextTyped, InFlight,
           ReplacesTrigger, Spared, IsError, OnTrigger, DeletesTrigger,
           Yields, Leads, Early, IsKey
  <1>4. Replacing'
    <2>1. CASE processed' = <<>>
      <3>1. DOMAIN <<>> = {}
        OBVIOUS
      <3>2. QED
        BY <2>1, <3>1 DEF Replacing
    <2>2. CASE processed' = Tail(processed)
      <3> DEFINE P == processed
                 Q == processed'
                 r == Len(processed)
      <3>1. /\ r \in Nat /\ r >= 1 /\ Len(Q) = r - 1 /\ Q \in Seq(Event)
            /\ \A i \in 1..Len(Q) : Q[i] = P[i + 1]
        BY <1>1, <2>2, HeadTailProperties, EmptySeq
      <3>2. DOMAIN Q = 1..r - 1 /\ \A i \in 1..r - 1 : Q[i] = P[i + 1]
        BY <3>1
      <3>3. ASSUME ~swallowed, NEW i \in 1..r - 1, DeletesTrigger(P[i + 1])
            PROVE  Replaced(i + 1)
        <4>1. i + 1 \in DOMAIN processed
          BY <1>1, <3>1
        <4>2. QED
          BY <1>1, <3>3, <4>1 DEF ExpansionOK, Replacing, Awaited
      <3> HIDE DEF P, Q, r
      <3>4. ASSUME ~swallowed, NEW i \in 1..r - 1, DeletesTrigger(Q[i])
            PROVE  Replaced(i)'
        <4>1. PICK j \in (i + 1) + 1 .. r :
                 /\ ReplacesTrigger(P[j]) /\ P[j].id = P[i + 1].id
                 /\ \A k \in (i + 1) + 1 .. j - 1 : P[k].kind \notin Typing
          <5>1. DeletesTrigger(P[i + 1])
            BY <3>2, <3>4
          <5>2. QED
            BY <3>3, <3>4, <5>1 DEF Replaced, P, r
        <4>2. /\ j - 1 \in i + 1 .. Len(Q) /\ j - 1 \in 1..r - 1
              /\ (j - 1) + 1 = j
              /\ \A k \in i + 1 .. (j - 1) - 1 :
                    k \in 1..r - 1 /\ k + 1 \in (i + 1) + 1 .. j - 1
          BY <3>1, <3>4
        <4>3. /\ ReplacesTrigger(Q[j - 1]) /\ Q[j - 1].id = Q[i].id
              /\ \A k \in i + 1 .. (j - 1) - 1 : Q[k].kind \notin Typing
          <5>1. Q[j - 1] = P[j] /\ Q[i] = P[i + 1]
            BY <3>2, <4>2
          <5>2. \A k \in i + 1 .. (j - 1) - 1 : Q[k] = P[k + 1]
            BY <3>2, <4>2
          <5>3. QED
            BY <4>1, <4>2, <5>1, <5>2
        <4>4. QED
          BY <4>2, <4>3 DEF Replaced, ReplacesTrigger, Q
      <3>5. QED
        BY <1>1, <3>2, <3>4 DEF Replacing, DeletesTrigger, Q
    <2>3. QED
      BY <1>1, <2>1, <2>2
  <1>5. QED
    BY <1>3, <1>4 DEF ExpansionOK

\* The event received starts a batch of its own.
LEMMA ReceiveKeepsExpansion ==
    ASSUME TypeOK, CommandsOK, ExpansionOK, Receive
    PROVE  ExpansionOK'
  <1>1. /\ pc = "receive" /\ keyboard \in Seq(DetectEvent)
        /\ chan \in [Sources -> Seq(SourceEvent)]
    BY DEF TypeOK, FunnelTypes, Receive, ReceiveDetected, ReceiveRequest
  <1>2. \/ Skipped
        \/ \E e : Start(e) /\ ~InFlight(e) /\ ~OnTrigger(e)
    <2>1. CASE ReceiveDetected
      <3>1. Head(keyboard) \in DetectEvent
        BY <1>1, <2>1, HeadTailProperties DEF ReceiveDetected
      <3>2. ~InFlight(Head(keyboard)) /\ ~OnTrigger(Head(keyboard))
        BY <3>1
           DEF DetectEvent, KeyEvent, MouseEvent, InFlight, LateKinds,
               ReplacesTrigger, OnTrigger, DeletesTrigger
      <3>3. QED
        BY <2>1, <3>2 DEF ReceiveDetected
    <2>2. ASSUME NEW s \in Sources, ReceiveRequest(s)
          PROVE  \/ Skipped
                 \/ \E e : Start(e) /\ ~InFlight(e) /\ ~OnTrigger(e)
      <3>1. Head(chan[s]) \in SourceEvent
        BY <1>1, <2>2, HeadTailProperties DEF ReceiveRequest
      <3>2. \A e \in SourceEvent :
               /\ [e EXCEPT !.id = nextId].kind = e.kind
               /\ e.kind \notin LateKinds \cup Typing
               /\ e.kind \notin {"MarkdownInject", "TriggerCompensation"}
        BY DEF SourceEvent, MenuEvent, LateKinds, Typing
      <3>3. /\ ~InFlight(Numbered(Head(chan[s])))
            /\ ~OnTrigger(Numbered(Head(chan[s])))
        BY <3>1, <3>2
           DEF Numbered, InFlight, ReplacesTrigger, OnTrigger, DeletesTrigger,
               Typing
      <3>4. QED
        BY <2>2, <3>3 DEF ReceiveRequest
    <2>3. QED
      BY <2>1, <2>2 DEF Receive
  <1>3. CASE Skipped
    <2>1. /\ UNCHANGED <<pc, queue, cur, stage, emitted, processed, swallowed>>
      BY <1>3 DEF Skipped, chainVars
    <2>2. QED
      BY <2>1, LaterKeepsExpansion DEF Waiting
  <1>4. QED
    BY <1>1, <1>2, <1>3, StartKeepsExpansion

\* Every step keeps what replaces a trigger on its way.
LEMMA ExpansionNext ==
    ASSUME TypeOK, ControlOK, CommandsOK, LeadsOK, SearchOK, ExpansionOK,
           [Next]_vars, [NoneCompleted]_vars
    PROVE  ExpansionOK'
  <1>1. CASE UNCHANGED vars
    BY <1>1, LaterKeepsExpansion DEF vars, chainVars, ghostVars, Waiting
  <1>2. CASE Middleware /\ NoneCompleted
    <2>1. CASE ~Discard /\ ~MatchSelectOpen
      <3>1. PICK p \in 1..22 : \E out \in Seq(Event) :
               /\ Handles(p, out) /\ ExpansionFrame(p, out)
               /\ cur.kind = "MatchInjected" => cur'.kind # "MatchesDetected"
        BY <1>2, <2>1, MiddlewareExpands
      <3>2. QED
        BY <3>1, HandlesKeepsExpansion
    <2>2. CASE MatchSelectOpen
      BY <2>2, LaterKeepsExpansion DEF MatchSelectOpen, ghostVars, Waiting
    <2>3. QED
      BY <2>1, <2>2, DiscardKeepsExpansion
  <1>3. CASE MatchSelectClose
    <2>1. PICK out \in Seq(Event) :
             /\ Handles(match_select, out) /\ ExpansionFrame(match_select, out)
             /\ cur.kind # "MatchInjected"
      BY <1>3, CloseExpands
    <2>2. QED
      BY <2>1, HandlesKeepsExpansion, InChain
  <1>4. CASE EndOfChain
    BY <1>4, EndOfChainKeepsExpansion
  <1>5. CASE Dispatch
    BY <1>5, DispatchKeepsExpansion
  <1>6. CASE Environment
    <2>1. UNCHANGED <<pc, queue, emitted, cur, stage, processed, swallowed>>
      BY <1>6
         DEF Environment, Detect, DetectKey, DetectMouse, DetectHotKey,
             DetectAllModifiersReleased, Enqueue, Send, ModifierOutdated,
             chainVars, ghostVars
    <2>2. QED
      BY <2>1, LaterKeepsExpansion DEF Waiting
  <1>7. CASE Receive
    BY <1>7, ReceiveKeepsExpansion
  <1>8. QED
    BY <1>1, <1>2, <1>3, <1>4, <1>5, <1>6, <1>7 DEF Next, EngineStep

\* At first nothing is typed.
LEMMA ExpansionInit == Init => ExpansionOK
  <1> SUFFICES ASSUME Init PROVE ExpansionOK
    OBVIOUS
  <1>1. /\ queue = <<>> /\ emitted = <<>> /\ processed = <<>> /\ stage = 0
        /\ cur.kind = "NOOP"
    BY DEF Init, Plain
  <1>2. Waiting = <<>> /\ DOMAIN <<>> = {}
    BY <1>1 DEF Waiting
  <1>3. DOMAIN Waiting = {} /\ DOMAIN processed = {}
    BY <1>1, <1>2
  <1>4. ~InFlight(cur) /\ ~OnTrigger(cur)
    BY <1>1
       DEF InFlight, LateKinds, ReplacesTrigger, OnTrigger, DeletesTrigger
  <1>5. Stages
    BY <1>1 DEF Stages
  <1>6. QED
    BY <1>3, <1>4, <1>5
       DEF ExpansionOK, FlightSpared, Replacing, TriggerNext

\* The invariant of the expansions holds always.
LEMMA ExpansionAlwaysOK == Spec /\ [][NoneCompleted]_vars => []ExpansionOK
  <1>1. Init => ExpansionOK
    BY ExpansionInit
  <1>2. /\ TypeOK /\ ControlOK /\ CommandsOK /\ LeadsOK /\ SearchOK
        /\ ExpansionOK /\ [Next]_vars /\ [NoneCompleted]_vars
        => ExpansionOK'
    BY ExpansionNext
  <1>3. QED
    BY <1>1, <1>2, TypeCorrect, CommandsAlwaysOK, SearchAlwaysOK, PTL DEF Spec

\* When a trigger is deleted the very next thing typed is what replaces it
\* (cause.rs, render.rs, markdown.rs, action.rs), unless the match has nothing to type
\* or its form was cancelled: neither an older discard nor another match comes in
\* between, unless a separator fed after an injection completes a trigger.
THEOREM TriggersReplaced ==
    Spec /\ [][NoneCompleted]_vars => []ExpansionFollowsCompensation
  <1>1. ExpansionOK => ExpansionFollowsCompensation
    BY DEF ExpansionOK, Replacing, Replaced, Awaited,
           ExpansionFollowsCompensation
  <1>2. QED
    BY <1>1, ExpansionAlwaysOK, PTL

-----------------------------------------------------------------------------
(* The usage of a trigger is recorded *)

\* What is typed or pasted for a match, when it has rendered.
Body(e) ==
    \/ e.kind \in {"HtmlInject", "ImageInject", "MarkdownInject"}
    \/ e.kind = "TextInject" /\ e.why = "body"

Deleted == \E i \in DOMAIN processed : DeletesTrigger(processed[i])

\* While a trigger is deleted, and from then on, no other match can be chosen.
OneMatch ==
    /\ OnTrigger(cur) => \A i \in DOMAIN Waiting : ~Early(Waiting[i])
    /\ ~swallowed /\ Deleted =>
          ~Early(cur) /\ \A i \in DOMAIN Waiting : ~Early(Waiting[i])

\* A match that waits is one whose trigger is being deleted.
MatchWaits == \A i \in DOMAIN Waiting :
    /\ Waiting[i].kind = "CauseCompensatedMatch" => Waiting[i].trig = TRUE
    /\ Waiting[i].kind = "TextInject" => Waiting[i].why # "body"

\* The usage is recorded, or its entry waits for the report of the injection.
Recording(id) ==
    \/ id \in recorded
    \/ /\ id \in pending /\ id = cur.id
       /\ \/ cur.kind = "MatchInjected" /\ stage < stats
          \/ \E k \in DOMAIN Waiting : Waiting[k].kind = "MatchInjected"

\* The entry is made on the way from the match to its body.
EntryMade == ~swallowed /\ Deleted =>
    /\ cur.kind \in {"CauseCompensatedMatch", "RenderingRequested",
                     "ImageRequested"} => cur.trig = TRUE
    /\ \/ cur.kind \in {"RenderingRequested", "ImageRequested"} /\ stage >= stats
       \/ cur.kind \in {"Rendered", "ImageResolved"}
       => cur.id \in pending
    /\ Body(cur) => Recording(cur.id)

BodiesRecorded == ~swallowed => \A i, j \in DOMAIN processed :
    /\ i < j /\ DeletesTrigger(processed[i]) /\ Body(processed[j])
    /\ processed[j].id = processed[i].id
    => Recording(processed[i].id)

UsageOK == OneMatch /\ MatchWaits /\ EntryMade /\ BodiesRecorded

\* What middleware p does to the usages beside dispatching out.
UsageFrame(p, out) ==
    /\ recorded \subseteq recorded'
    /\ p # stats => pending' = pending
    /\ p = stats => cur' = cur
    /\ p = stats /\ cur.kind \in {"RenderingRequested", "ImageRequested"}
          => cur.trig = FALSE \/ cur.id \in pending'
    /\ p = stats /\ cur.kind \notin {"MatchInjected", "DiscardPrevious"}
          => (cur.id \in pending => cur.id \in pending')
    /\ p = stats /\ cur.kind = "MatchInjected" /\ cur.id \in pending
          => cur.id \in recorded'
    /\ stage < stats /\ stats < p =>
          cur.kind \notin {"RenderingRequested", "ImageRequested",
                           "MatchInjected"}
    /\ p = action /\ cur.kind \in {"Rendered", "ImageResolved"} =>
          \E k \in 1..Len(out) : out[k].kind = "MatchInjected"

\* The statistics are the work of one middleware.
LEMMA StatsOnly ==
    ASSUME TypeOK, Middleware, ~MatchSelectOpen
    PROVE  \/ At(stats) /\ (StatsOnRequest \/ StatsOnDiscard \/ StatsOnInjection)
           \/ UNCHANGED <<pending, recorded>>
  <1>1. StatsOnRequest \/ StatsOnDiscard \/ StatsOnInjection => At(stats)
    BY StepAt
  <1>2. QED
    BY <1>1
       DEF Middleware, Discard, DisableOnKey, DisableOnRequest, ToggledTo,
           IconUpdate, AltCodeSynthesizer, MatcherOnKey, MatcherOnMouse,
           MatcherOnInjection, MatcherRest, MatchExec, Suppress,
           ContextMenu, HotKey, MatchSelectAtOnce, Cause, OpenConfig,
           Multiplex, Render, ImageResolve, CursorHint, Exit,
           UndoOnExpansion, UndoOnKey, UndoRest, ActionOnBody,
           ActionOnHint, ActionOnTrigger, ActionOnUndo, ActionRest,
           Search, Markdown, Stateless, ghostVars, matchVars

\* Every step of a middleware treats the usages as its position says.
LEMMA MiddlewareUses ==
    ASSUME TypeOK, CommandsOK, SearchOK, Middleware, ~Discard,
           ~MatchSelectOpen, NoneCompleted
    PROVE  \E p \in 1..22 : \E out \in Seq(Event) :
              /\ Handles(p, out) /\ SearchFrame(out)
              /\ ExpansionFrame(p, out) /\ UsageFrame(p, out)
              /\ cur.kind = "MatchInjected" => cur'.kind # "MatchesDetected"
  <1>1. PICK p \in 1..22 : \E out \in Seq(Event) :
              /\ Handles(p, out) /\ At(p) /\ SearchFrame(out)
              /\ ExpansionFrame(p, out)
              /\ cur.kind = "MatchInjected" => cur'.kind # "MatchesDetected"
    BY MiddlewareExpands
  <1>2. PICK out \in Seq(Event) :
              /\ Handles(p, out) /\ At(p) /\ SearchFrame(out)
              /\ ExpansionFrame(p, out)
              /\ cur.kind = "MatchInjected" => cur'.kind # "MatchesDetected"
    BY <1>1
  <1>3. cur \in Event /\ cur.id \in Nat /\ stage \in 0..23
        /\ Returns(p, cur', out)
    BY <1>2, EventFields, Positions DEF TypeOK, ChainTypes, Handles
  <1>4. p = stats => StatsOnRequest \/ StatsOnDiscard \/ StatsOnInjection
    BY <1>2, TakenAt
  <1>5. p # stats => UNCHANGED <<pending, recorded>>
    BY <1>2, StatsOnly, AtUnique, InChain
  <1>6. p = stats => cur' = cur
    BY <1>4
       DEF StatsOnRequest, StatsOnDiscard, StatsOnInjection, StatsRest, Pass,
           Returns
  <1>7. recorded \subseteq recorded'
    BY <1>4, <1>5 DEF StatsOnRequest, StatsOnDiscard, StatsOnInjection
  <1>8. ASSUME p = stats, cur.kind \in {"RenderingRequested", "ImageRequested"}
        PROVE  /\ cur.trig = FALSE \/ cur.id \in pending'
               /\ cur.id \in pending => cur.id \in pending'
    <2>1. StatsOnRequest
      BY <1>4, <1>8 DEF StatsOnDiscard, StatsOnInjection
    <2>2. cur.trig \in BOOLEAN
      BY <1>3, <1>8, EventFields DEF MatchEvent
    <2>3. QED
      BY <2>1, <2>2 DEF StatsOnRequest
  <1>9. ASSUME p = stats, cur.kind = "DiscardBetween", cur.id \in pending
        PROVE  cur.id \in pending'
    <2>1. StatsOnDiscard
      BY <1>4, <1>9 DEF StatsOnRequest, StatsOnInjection
    <2>2. cur.id < cur.start
      BY <1>9 DEF SearchOK, SparedOK, IsDB
    <2>3. QED
      BY <1>9, <2>1, <2>2 DEF StatsOnDiscard
  <1>10. p = stats => cur.kind \in {"RenderingRequested", "ImageRequested",
                          "DiscardBetween", "DiscardPrevious", "MatchInjected"}
    BY <1>4 DEF StatsOnRequest, StatsOnDiscard, StatsOnInjection
  <1>11. ASSUME p = stats, cur.kind = "MatchInjected", cur.id \in pending
         PROVE  cur.id \in recorded'
    <2>1. StatsOnInjection
      BY <1>4, <1>11 DEF StatsOnRequest, StatsOnDiscard
    <2>2. QED
      BY <1>11, <2>1 DEF StatsOnInjection
  <1>12. ASSUME stage < stats, stats < p
         PROVE  cur.kind \notin {"RenderingRequested", "ImageRequested",
                                 "MatchInjected"}
    <2>1. stats \in stage + 1 .. p - 1
      BY <1>3, <1>12, Positions
    <2>2. ~LooksAt(stats)
      BY <1>2, <2>1 DEF At
    <2>3. QED
      BY <2>2, Positions DEF LooksAt, Subjects
  <1>13. ASSUME p = action, cur.kind \in {"Rendered", "ImageResolved"}
         PROVE  \E k \in 1..Len(out) : out[k].kind = "MatchInjected"
    <2>1. ActionOnBody
      BY <1>2, <1>13, TakenAt DEF ActionOnHint, ActionOnTrigger, ActionOnUndo
    <2> DEFINE o == InjectedThenDiscarded(nextId)
    <2>2. nextId \in Nat
      BY DEF TypeOK, FunnelTypes
    <2>3. /\ Plain("MatchInjected", cur.id) \in Event
          /\ DiscardBefore(nextId) \in Event
      BY <1>3, <2>2
         DEF Plain, PlainKinds, PlainEvent, DiscardBefore,
             DiscardPreviousEvent, Event
    <2>4. o \in Seq(Event) /\ Len(o) = 2 /\ o[1] = Plain("MatchInjected", cur.id)
      BY <2>3 DEF InjectedThenDiscarded
    <2>5. Returns(action, cur', o)
      BY <2>1 DEF ActionOnBody, Returns
    <2> HIDE DEF o
    <2>6. out = o
      BY <1>3, <2>4, <2>5, SameOut
    <2>7. 1 \in 1..Len(out) /\ out[1].kind = "MatchInjected"
      BY <2>4, <2>6 DEF Plain
    <2>8. QED
      BY <2>7
  <1>14. UsageFrame(p, out)
    BY <1>5, <1>6, <1>7, <1>8, <1>9, <1>10, <1>11, <1>12, <1>13 DEF UsageFrame
  <1>15. QED
    BY <1>2, <1>14

\* So does the answer of the search bar.
LEMMA CloseUses ==
    ASSUME TypeOK, ControlOK, CommandsOK, MatchSelectClose
    PROVE  \E out \in Seq(Event) :
              /\ Handles(match_select, out) /\ SearchFrame(out)
              /\ ExpansionFrame(match_select, out)
              /\ UsageFrame(match_select, out)
              /\ cur.kind # "MatchInjected"
  <1>1. PICK out \in Seq(Event) :
              /\ Handles(match_select, out) /\ SearchFrame(out)
              /\ ExpansionFrame(match_select, out)
              /\ cur.kind # "MatchInjected"
    BY CloseExpands
  <1>2. UNCHANGED <<pending, recorded>>
    BY DEF MatchSelectClose, matchVars
  <1>3. UsageFrame(match_select, out)
    BY <1>2, Positions DEF UsageFrame
  <1>4. QED
    BY <1>1, <1>3

\* Who may still choose a match comes from one who may, and a match that waits
\* is one whose trigger is being deleted.
LEMMA EarlyOn ==
    ASSUME TypeOK, NEW p \in 1..22, NEW out \in Seq(Event), Handles(p, out),
           cur.kind = "MatchInjected" => cur'.kind # "MatchesDetected"
    PROVE  /\ Early(cur') => Early(cur) \/ swallowed'
           /\ \A k \in 1..Len(out) :
                 /\ Early(out[k]) => Early(cur) /\ cur.kind # "MatchSelected"
                 /\ out[k].kind = "CauseCompensatedMatch" => out[k].trig = TRUE
                 /\ out[k].kind = "TextInject" => out[k].why # "body"
           /\ cur'.kind = "CauseCompensatedMatch" => cur' = cur \/ Early(cur)
           /\ cur'.kind \in {"RenderingRequested", "ImageRequested"} =>
                 \/ cur' = cur /\ p \in Passing
                 \/ /\ p = multiplex /\ cur.kind = "CauseCompensatedMatch"
                    /\ cur'.trig = cur.trig
           /\ cur'.kind \in {"Rendered", "ImageResolved"} =>
                 \/ cur.kind \in {"Rendered", "ImageResolved"}
                 \/ p = render /\ cur.kind = "RenderingRequested"
                 \/ p = image_resolve /\ cur.kind = "ImageRequested"
           /\ Body(cur') =>
                 \/ Body(cur)
                 \/ p = action /\ cur.kind \in {"Rendered", "ImageResolved"}
  <1>1. /\ cur \in Event /\ Becomes(p)
        /\ \A k \in 1..Len(out) : Spawns(p, out[k])
    BY DEF TypeOK, ChainTypes, Handles, Makes
  <1>2. /\ \A k, id : Plain(k, id).kind = k
        /\ \A k, id, why : Inject(k, id, why).kind = k
                           /\ Inject(k, id, why).why = why
        /\ \A flags : ShowMenu(flags).kind = "ShowContextMenu"
    BY DEF Plain, Inject, ShowMenu
  <1>3. cur.kind = "MatchSelected" =>
           /\ Compensated.kind = "CauseCompensatedMatch"
           /\ Compensated.trig = cur.trig /\ cur.trig \in BOOLEAN
    BY <1>1, EventFields DEF Compensated, MatchEvent
  <1>4. Early(cur') => Early(cur) \/ swallowed'
    BY <1>1, <1>2, <1>3 DEF Becomes, Early, EarlyKinds, IsKey
  <1>5. cur'.kind = "CauseCompensatedMatch" => cur' = cur \/ Early(cur)
    BY <1>1, <1>2, <1>3 DEF Becomes, Early, EarlyKinds
  <1>6. cur'.kind \in {"RenderingRequested", "ImageRequested"} =>
           \/ cur' = cur /\ p \in Passing
           \/ /\ p = multiplex /\ cur.kind = "CauseCompensatedMatch"
              /\ cur'.trig = cur.trig
    BY <1>1, <1>2, <1>3 DEF Becomes
  <1>7. cur'.kind \in {"Rendered", "ImageResolved"} =>
           \/ cur.kind \in {"Rendered", "ImageResolved"}
           \/ p = render /\ cur.kind = "RenderingRequested"
           \/ p = image_resolve /\ cur.kind = "ImageRequested"
    BY <1>1, <1>2, <1>3 DEF Becomes
  <1>8. Body(cur') =>
           \/ Body(cur)
           \/ p = action /\ cur.kind \in {"Rendered", "ImageResolved"}
    BY <1>1, <1>2, <1>3 DEF Becomes, Body
  <1>9. ASSUME NEW k \in 1..Len(out)
        PROVE  /\ Early(out[k]) => Early(cur) /\ cur.kind # "MatchSelected"
               /\ out[k].kind = "CauseCompensatedMatch" => out[k].trig = TRUE
               /\ out[k].kind = "TextInject" => out[k].why # "body"
    <2>1. Spawns(p, out[k])
      BY <1>1
    <2>2. Early(out[k]) => Early(cur) /\ cur.kind # "MatchSelected"
      BY <1>2, <1>3, <2>1 DEF Spawns, Early, EarlyKinds, IsKey, OnOffOf
    <2>3. out[k].kind = "CauseCompensatedMatch" => out[k].trig = TRUE
      BY <1>2, <1>3, <2>1 DEF Spawns, OnOffOf
    <2>4. out[k].kind = "TextInject" => out[k].why # "body"
      BY <1>2, <1>3, <2>1 DEF Spawns, OnOffOf
    <2>5. QED
      BY <2>2, <2>3, <2>4
  <1>10. QED
    BY <1>4, <1>5, <1>6, <1>7, <1>8, <1>9

\* A middleware does not lose an entry that is still to be used.
LEMMA HandlesKeepsRecording ==
    ASSUME TypeOK, CommandsOK, LeadsOK,
           NEW p \in 1..22, NEW out \in Seq(Event),
           Handles(p, out), UsageFrame(p, out),
           cur.kind = "MatchInjected" => cur'.kind # "MatchesDetected",
           NEW id, Recording(id)
    PROVE  Recording(id)'
  <1>1. /\ cur \in Event /\ Becomes(p) /\ stage \in 0..23 /\ stage < p
        /\ stage' = (IF cur'.kind = "NOOP" THEN 23 ELSE p)
        /\ cur'.id = cur.id
    <2>1. cur \in Event /\ stage \in 0..23
      BY Positions DEF TypeOK, ChainTypes
    <2>2. Becomes(p) /\ stage < p /\ Returns(p, cur', out) /\ cur'.id = cur.id
      BY DEF Handles, Makes
    <2>3. QED
      BY <2>1, <2>2, Positions DEF Returns
  <1>2. \A k \in DOMAIN Waiting :
           k \in DOMAIN Waiting' /\ Waiting'[k] = Waiting[k]
    <2>1. /\ Len(Waiting) \in Nat /\ Len(out) \in Nat
          /\ DOMAIN Waiting = 1..Len(Waiting)
          /\ DOMAIN Waiting' = 1 .. Len(Waiting) + Len(out)
          /\ \A i \in 1..Len(Waiting) : Waiting'[i] = Waiting[i]
      BY WaitingGrows DEF Handles, Returns
    <2>2. 1..Len(Waiting) \subseteq 1 .. Len(Waiting) + Len(out)
      BY <2>1
    <2>3. QED
      BY <2>1, <2>2
  <1>3. recorded \subseteq recorded'
    BY DEF UsageFrame
  <1>4. CASE id \in recorded
    BY <1>3, <1>4 DEF Recording
  <1>5. CASE /\ id \in pending /\ id = cur.id
             /\ cur.kind = "MatchInjected" /\ stage < stats
    <2>1. cur' = cur
      BY <1>1, <1>5 DEF Becomes, Consumed, StatusChanges, IsKey
    <2>2. p = stats \/ p < stats
      BY <1>5, Positions DEF UsageFrame
    <2>3. CASE p = stats
      BY <1>5, <2>3 DEF UsageFrame, Recording
    <2>4. CASE p < stats
      <3>1. pending' = pending /\ stage' = p
        BY <1>1, <1>5, <2>1, <2>4, Positions DEF UsageFrame
      <3>2. QED
        BY <1>5, <2>1, <2>4, <3>1 DEF Recording
    <2>5. QED
      BY <2>2, <2>3, <2>4
  <1>6. CASE /\ id \in pending /\ id = cur.id
             /\ \E k \in DOMAIN Waiting : Waiting[k].kind = "MatchInjected"
    <2>1. cur.kind # "DiscardPrevious"
      BY <1>6 DEF LeadsOK, PurgeLast, Spoilt
    <2>2. id \in pending' \/ id \in recorded'
      BY <1>6, <2>1 DEF UsageFrame
    <2>3. \E k \in DOMAIN Waiting' : Waiting'[k].kind = "MatchInjected"
      BY <1>2, <1>6
    <2>4. QED
      BY <1>1, <1>6, <2>2, <2>3 DEF Recording
  <1>7. QED
    BY <1>4, <1>5, <1>6 DEF Recording

\* A middleware has the usage recorded.
LEMMA HandlesKeepsUsage ==
    ASSUME TypeOK, CommandsOK, LeadsOK, ExpansionOK, UsageOK,
           NEW p \in 1..22, NEW out \in Seq(Event),
           Handles(p, out), ExpansionFrame(p, out), UsageFrame(p, out),
           cur.kind = "MatchInjected" => cur'.kind # "MatchesDetected"
    PROVE  UsageOK'
  <1> DEFINE n == Len(Waiting)
             m == Len(out)
             w == Waiting
             v == Waiting'
  <1>1. /\ n \in Nat /\ m \in Nat
        /\ DOMAIN w = 1..n /\ DOMAIN v = 1 .. n + m
        /\ \A i \in 1..n : v[i] = w[i]
        /\ \A i \in 1 .. n + m : i \notin 1..n =>
              i - n \in 1..m /\ v[i] = out[i - n]
    BY WaitingGrows DEF Handles, Returns
  <1>2. /\ cur'.id = cur.id /\ processed' = processed
        /\ swallowed => swallowed'
        /\ stage < p /\ stage \in 0..23
        /\ stage' = IF cur'.kind = "NOOP" THEN 23 ELSE p
    BY Positions
       DEF Handles, Makes, Returns, ExpansionFrame, TypeOK, ChainTypes
  <1>3. /\ Early(cur') => Early(cur) \/ swallowed'
        /\ \A k \in 1..m :
              /\ Early(out[k]) => Early(cur) /\ cur.kind # "MatchSelected"
              /\ out[k].kind = "CauseCompensatedMatch" => out[k].trig = TRUE
              /\ out[k].kind = "TextInject" => out[k].why # "body"
    BY EarlyOn
  <1>4. /\ cur'.kind = "CauseCompensatedMatch" => cur' = cur \/ Early(cur)
        /\ cur'.kind \in {"RenderingRequested", "ImageRequested"} =>
              \/ cur' = cur /\ p \in Passing
              \/ /\ p = multiplex /\ cur.kind = "CauseCompensatedMatch"
                 /\ cur'.trig = cur.trig
        /\ cur'.kind \in {"Rendered", "ImageResolved"} =>
              \/ cur.kind \in {"Rendered", "ImageResolved"}
              \/ p = render /\ cur.kind = "RenderingRequested"
              \/ p = image_resolve /\ cur.kind = "ImageRequested"
        /\ Body(cur') =>
              \/ Body(cur)
              \/ p = action /\ cur.kind \in {"Rendered", "ImageResolved"}
    BY EarlyOn
  <1>5. OnTrigger(cur') => OnTrigger(cur) \/ cur.kind = "MatchSelected"
    BY FlightOn
  <1>6. cur.kind = "MatchSelected" => \A i \in 1..n : ~Early(w[i])
    BY <1>1 DEF LeadsOK, OneLead, Leads, Early, EarlyKinds
  <1>7. OnTrigger(cur) => ~Early(cur) /\ \A i \in 1..n : ~Early(w[i])
    BY <1>1 DEF UsageOK, OneMatch, OnTrigger, DeletesTrigger, Early,
               EarlyKinds, IsKey
  <1>8. ~swallowed /\ Deleted => ~Early(cur) /\ \A i \in 1..n : ~Early(w[i])
    BY <1>1 DEF UsageOK, OneMatch
  <1>9. Deleted' = Deleted
    BY <1>2 DEF Deleted, DeletesTrigger
  <1>10. \A i \in 1..n :
            /\ w[i].kind = "CauseCompensatedMatch" => w[i].trig = TRUE
            /\ w[i].kind = "TextInject" => w[i].why # "body"
    BY <1>1 DEF UsageOK, MatchWaits
  <1> HIDE DEF n, m, w, v
  <1>11. OneMatch'
    <2>1. ASSUME OnTrigger(cur'), NEW i \in 1 .. n + m PROVE ~Early(v[i])
      BY <1>1, <1>3, <1>5, <1>6, <1>7, <2>1
    <2>2. ASSUME ~swallowed', Deleted, NEW i \in 1 .. n + m
          PROVE  ~Early(cur') /\ ~Early(v[i])
      BY <1>1, <1>2, <1>3, <1>8, <2>2
    <2>3. ~swallowed' /\ Deleted => ~Early(cur')
      BY <1>2, <1>3, <1>8
    <2>4. QED
      BY <1>1, <1>9, <2>1, <2>2, <2>3
         DEF OneMatch, Early, IsKey, OnTrigger, DeletesTrigger, v
  <1>12. MatchWaits'
    <2>1. \A i \in 1 .. n + m :
             /\ v[i].kind = "CauseCompensatedMatch" => v[i].trig = TRUE
             /\ v[i].kind = "TextInject" => v[i].why # "body"
      BY <1>1, <1>3, <1>10
    <2>2. QED
      BY <1>1, <2>1 DEF MatchWaits, v
  <1>13. \A id : Recording(id) => Recording(id)'
    BY HandlesKeepsRecording
  <1>14. BodiesRecorded'
    BY <1>2, <1>13
       DEF UsageOK, BodiesRecorded, DeletesTrigger, Body
  <1>15. EntryMade'
    <2> SUFFICES ASSUME ~swallowed', Deleted PROVE EntryMade'
      BY <1>9 DEF EntryMade
    <2>1. ~swallowed /\ ~Early(cur)
      BY <1>2, <1>8
    <2>2. /\ cur.kind \in {"CauseCompensatedMatch", "RenderingRequested",
                           "ImageRequested"} => cur.trig = TRUE
          /\ \/ /\ cur.kind \in {"RenderingRequested", "ImageRequested"}
                /\ stage >= stats
             \/ cur.kind \in {"Rendered", "ImageResolved"}
             => cur.id \in pending
          /\ Body(cur) => Recording(cur.id)
      BY <2>1 DEF UsageOK, EntryMade
    <2>3. cur'.kind \in {"CauseCompensatedMatch", "RenderingRequested",
                         "ImageRequested"} => cur'.trig = TRUE
      BY <1>4, <2>1, <2>2
    <2>4. ASSUME cur'.kind \in {"RenderingRequested", "ImageRequested"},
                 stage' >= stats
          PROVE  cur.id \in pending'
      <3>1. cur' = cur /\ stage' = p /\ p >= stats
        BY <1>2, <1>4, <2>4, Positions
      <3>2. p = stats \/ stage >= stats
        <4>1. ~(stage < stats /\ stats < p)
          BY <2>4, <3>1 DEF UsageFrame
        <4>2. QED
          BY <1>2, <3>1, <4>1, Positions
      <3>3. CASE p = stats
        BY <2>2, <2>4, <3>1, <3>3 DEF UsageFrame
      <3>4. CASE p # stats /\ stage >= stats
        BY <2>2, <2>4, <3>1, <3>4 DEF UsageFrame
      <3>5. QED
        BY <3>2, <3>3, <3>4
    <2>5. ASSUME cur'.kind \in {"Rendered", "ImageResolved"}
          PROVE  cur.id \in pending'
      <3>1. cur.id \in pending
        BY <1>2, <1>4, <2>2, <2>5, Positions DEF UsageFrame
      <3>2. p = stats => cur' = cur
        BY DEF UsageFrame
      <3>3. QED
        BY <2>5, <3>1, <3>2 DEF UsageFrame
    <2>6. ASSUME Body(cur'), NEW id, id = cur.id PROVE Recording(id)'
      <3>1. CASE Body(cur)
        BY <1>13, <2>2, <2>6, <3>1
      <3>2. CASE p = action /\ cur.kind \in {"Rendered", "ImageResolved"}
        <4>1. id \in pending'
          BY <2>2, <2>6, <3>2, Positions DEF UsageFrame
        <4>2. PICK k \in 1..m : out[k].kind = "MatchInjected"
          BY <3>2 DEF UsageFrame, m
        <4>3. /\ n + k \in 1 .. n + m /\ n + k \notin 1..n
              /\ (n + k) - n = k
          BY <1>1, <4>2
        <4>4. n + k \in DOMAIN v /\ v[n + k].kind = "MatchInjected"
          BY <1>1, <4>2, <4>3
        <4>5. QED
          BY <1>2, <2>6, <4>1, <4>4 DEF Recording, v
      <3>3. QED
        BY <1>4, <2>6, <3>1, <3>2
    <2>7. Body(cur') => Recording(cur.id)'
      <3>1. PICK id : id = cur.id
        OBVIOUS
      <3>2. (id = cur.id)'
        BY <1>2, <3>1
      <3>3. Recording(id)' => Recording(cur.id)'
        BY <3>2 DEF Recording
      <3>4. QED
        BY <2>6, <3>1, <3>3
    <2>8. /\ cur.kind' \in {"CauseCompensatedMatch", "RenderingRequested",
                            "ImageRequested"} => cur.trig' = TRUE
          /\ \/ /\ cur.kind' \in {"RenderingRequested", "ImageRequested"}
                /\ stage' >= stats
             \/ cur.kind' \in {"Rendered", "ImageResolved"}
             => cur.id' \in pending'
      BY <1>2, <2>3, <2>4, <2>5
    <2>9. QED
      BY <2>7, <2>8 DEF EntryMade, Body
  <1>16. QED
    BY <1>11, <1>12, <1>14, <1>15 DEF UsageOK

\* Steps after which the same events wait behind the same one, or behind none.
LEMMA LaterKeepsUsage ==
    ASSUME UsageOK, Waiting' = Waiting,
           UNCHANGED <<processed, swallowed, pending, recorded>>,
           \/ cur' = cur /\ (stage' = stage \/ stage' = 1)
           \/ /\ cur'.kind = "NOOP" /\ cur'.id = cur.id
              /\ cur.kind # "MatchInjected"
    PROVE  UsageOK'
  <1>1. cur'.kind = "NOOP" => ~Early(cur') /\ ~OnTrigger(cur') /\ ~Body(cur')
    BY DEF Early, EarlyKinds, IsKey, OnTrigger, DeletesTrigger, Body
  <1>2. OneMatch'
    <2>1. /\ OnTrigger(cur') => OnTrigger(cur)
          /\ Early(cur') => Early(cur)
      BY <1>1
    <2>2. QED
      BY <2>1
         DEF UsageOK, OneMatch, Deleted, OnTrigger, DeletesTrigger, Early, IsKey
  <1>3. MatchWaits'
    BY DEF UsageOK, MatchWaits
  <1>4. ASSUME NEW id, Recording(id) PROVE Recording(id)'
    <2>1. cur'.id = cur.id
      OBVIOUS
    <2>2. QED
      BY <1>4, <2>1, Positions DEF Recording
  <1>5. BodiesRecorded'
    BY <1>4 DEF UsageOK, BodiesRecorded, DeletesTrigger, Body
  <1>6. EntryMade'
    <2>1. CASE cur' = cur /\ (stage' = stage \/ stage' = 1)
      <3>1. stage' >= stats => stage >= stats
        BY <2>1, Positions
      <3>2. Recording(cur.id) => Recording(cur.id)'
        BY <2>1, Positions DEF Recording
      <3>3. Deleted' = Deleted /\ (Body(cur)' => Body(cur))
        BY <2>1 DEF Deleted, DeletesTrigger, Body
      <3>4. QED
        BY <2>1, <3>1, <3>2, <3>3 DEF UsageOK, EntryMade
    <2>2. CASE cur'.kind = "NOOP"
      BY <2>2 DEF EntryMade, Body
    <2>3. QED
      BY <2>1, <2>2
  <1>7. QED
    BY <1>2, <1>3, <1>5, <1>6 DEF UsageOK

\* So does the discard middleware, which spares the report of an injection.
LEMMA DiscardKeepsUsage ==
    ASSUME TypeOK, SearchOK, UsageOK, Discard
    PROVE  UsageOK'
  <1>1. /\ emitted \in Seq(Event) /\ emitted' = emitted \o <<>>
        /\ UNCHANGED <<queue, processed, swallowed, pending, recorded>>
        /\ stage = 0
    BY Positions
       DEF TypeOK, ChainTypes, Discard, At, Pass, Consume, Returns, ChainStep,
           ghostVars, matchVars
  <1>2. Waiting' = Waiting
    BY <1>1 DEF Waiting
  <1>3. cur.kind = "MatchInjected" => ~Discarded(cur.id)
    BY <1>1 DEF SearchOK, SparedOK, Spared, Spoilt
  <1>4. \/ cur' = cur /\ (stage' = stage \/ stage' = 1)
        \/ /\ cur'.kind = "NOOP" /\ cur'.id = cur.id
           /\ cur.kind # "MatchInjected"
    BY <1>3, Positions DEF Discard, Pass, Consume, Returns, Plain
  <1>5. QED
    BY <1>1, <1>2, <1>4, LaterKeepsUsage

\* A batch starts with nothing typed.
LEMMA StartKeepsUsage ==
    ASSUME CommandsOK, pc = "receive", NEW e, Start(e), ~OnTrigger(e)
    PROVE  UsageOK'
  <1>1. /\ Waiting' = Waiting /\ Waiting = <<>> /\ DOMAIN <<>> = {}
        /\ processed' = <<>> /\ cur' = e
    BY DEF Start, Waiting, CommandsOK, BatchOK
  <1>2. DOMAIN Waiting' = {} /\ DOMAIN processed' = {}
    BY <1>1
  <1>3. ~OnTrigger(cur)'
    BY <1>1 DEF OnTrigger, DeletesTrigger
  <1>4. ~Deleted'
    BY <1>2 DEF Deleted
  <1>5. QED
    BY <1>2, <1>3, <1>4
       DEF UsageOK, OneMatch, MatchWaits, EntryMade, BodiesRecorded

\* The executors are given the batch in order, when no entry waits any more.
LEMMA DispatchKeepsUsage ==
    ASSUME TypeOK, ControlOK, CommandsOK, UsageOK, Dispatch
    PROVE  UsageOK'
  <1>1. /\ UNCHANGED <<queue, emitted, cur, stage, swallowed, pending, recorded>>
        /\ pc = "dispatch" /\ processed \in Seq(Event) /\ processed # <<>>
        /\ processed' = <<>> \/ processed' = Tail(processed)
    BY DEF Dispatch, TypeOK, ChainTypes, ControlOK, matchVars
  <1>2. /\ Waiting' = Waiting /\ Waiting = <<>> /\ DOMAIN <<>> = {}
        /\ cur.kind = "NOOP"
    BY <1>1 DEF Waiting, CommandsOK, BatchOK
  <1>3. ~Early(cur)' /\ ~OnTrigger(cur)' /\ ~Body(cur)'
    BY <1>1, <1>2
       DEF Early, EarlyKinds, IsKey, OnTrigger, DeletesTrigger, Body
  <1>4. DOMAIN Waiting' = {} /\ cur'.kind = "NOOP"
    BY <1>1, <1>2
  <1>5. OneMatch' /\ MatchWaits' /\ EntryMade'
    BY <1>3, <1>4 DEF OneMatch, MatchWaits, EntryMade
  <1>6. BodiesRecorded'
    <2>1. CASE processed' = <<>>
      <3>1. DOMAIN processed' = {}
        BY <1>2, <2>1
      <3>2. QED
        BY <3>1 DEF BodiesRecorded
    <2>2. CASE processed' = Tail(processed)
      <3> DEFINE P == processed
                 Q == processed'
                 r == Len(processed)
      <3>1. /\ r \in Nat /\ r >= 1 /\ Len(Q) = r - 1 /\ Q \in Seq(Event)
            /\ \A i \in 1..Len(Q) : Q[i] = P[i + 1]
        BY <1>1, <2>2, HeadTailProperties, EmptySeq
      <3>2. /\ DOMAIN Q = 1..r - 1 /\ DOMAIN P = 1..r
            /\ \A i \in 1..r - 1 : Q[i] = P[i + 1] /\ i + 1 \in 1..r
        BY <1>1, <3>1
      <3>3. ~swallowed => \A i, j \in 1..r :
               /\ i < j /\ DeletesTrigger(P[i]) /\ Body(P[j])
               /\ P[j].id = P[i].id
               => P[i].id \in recorded
        <4>1. ~(cur.kind = "MatchInjected") /\ DOMAIN Waiting = {}
          BY <1>2
        <4>2. \A id : Recording(id) => id \in recorded
          BY <4>1 DEF Recording
        <4>3. QED
          BY <3>2, <4>2 DEF UsageOK, BodiesRecorded
      <3> HIDE DEF P, Q, r
      <3>4. ASSUME ~swallowed, NEW i \in 1..r - 1, NEW j \in 1..r - 1, i < j,
                   DeletesTrigger(Q[i]), Body(Q[j]), Q[j].id = Q[i].id
            PROVE  Q[i].id \in recorded
        <4>1. /\ Q[i] = P[i + 1] /\ Q[j] = P[j + 1] /\ i + 1 < j + 1
              /\ i + 1 \in 1..r /\ j + 1 \in 1..r
          BY <3>1, <3>2, <3>4
        <4>2. QED
          BY <3>3, <3>4, <4>1
      <3>5. QED
        BY <1>1, <3>2, <3>4
           DEF BodiesRecorded, Recording, DeletesTrigger, Body, Q
    <2>3. QED
      BY <1>1, <2>1, <2>2
  <1>7. QED
    BY <1>5, <1>6 DEF UsageOK

\* The end of the chain leaves an entry to the report that still waits.
LEMMA EndOfChainKeepsRecording ==
    ASSUME TypeOK, CommandsOK, EndOfChain, NEW id, Recording(id)
    PROVE  Recording(id)'
  <1>1. /\ NextTaken /\ stage' = 0 /\ UNCHANGED <<pending, recorded>>
        /\ \A q \in stage + 1 .. 22 : ~LooksAt(q)
    BY EndOfChainTakes, Positions DEF EndOfChain, ghostVars, matchVars
  <1>2. ~(cur.kind = "MatchInjected" /\ stage < stats)
    <2>1. stage \in 0..23
      BY Positions DEF TypeOK, ChainTypes
    <2>2. stage < stats => ~LooksAt(stats)
      BY <1>1, <2>1, Positions
    <2>3. cur.kind = "MatchInjected" => LooksAt(stats)
      BY Positions DEF LooksAt, Subjects
    <2>4. QED
      BY <2>2, <2>3
  <1>3. CASE id \in recorded
    BY <1>1, <1>3 DEF Recording
  <1>4. CASE /\ id \in pending /\ id = cur.id
             /\ \E k \in DOMAIN Waiting : Waiting[k].kind = "MatchInjected"
    <2>1. PICK k \in DOMAIN Waiting : Waiting[k].kind = "MatchInjected"
      BY <1>4
    <2>2. PICK n \in Nat :
             /\ n >= 1 /\ DOMAIN Waiting = 1..n
             /\ DOMAIN Waiting' = 1..n - 1
             /\ cur' = Waiting[1]
             /\ \A i \in 1..n - 1 :
                   i + 1 \in 1..n /\ Waiting'[i] = Waiting[i + 1]
      BY <1>1, <2>1 DEF NextTaken
    <2>3. cur'.id = cur.id
      BY <2>2 DEF CommandsOK, BatchOK
    <2>4. CASE k = 1
      <3>1. cur'.kind = "MatchInjected" /\ stage' < stats
        BY <1>1, <2>1, <2>2, <2>4, Positions
      <3>2. QED
        BY <1>1, <1>4, <2>3, <3>1 DEF Recording
    <2>5. CASE k # 1
      <3>1. k - 1 \in 1..n - 1 /\ (k - 1) + 1 = k
        BY <2>1, <2>2, <2>5
      <3>2. Waiting'[k - 1] = Waiting[k]
        BY <2>2, <3>1
      <3>3. k - 1 \in DOMAIN Waiting' /\ Waiting'[k - 1].kind = "MatchInjected"
        BY <2>1, <2>2, <3>1, <3>2
      <3>4. QED
        BY <1>1, <1>4, <2>3, <3>3 DEF Recording
    <2>6. QED
      BY <2>4, <2>5
  <1>5. QED
    BY <1>2, <1>3, <1>4 DEF Recording

\* The end of the chain takes a body when its usage is recorded or about to be.
LEMMA EndOfChainKeepsUsage ==
    ASSUME TypeOK, CommandsOK, UsageOK, EndOfChain
    PROVE  UsageOK'
  <1>1. /\ NextTaken /\ UNCHANGED <<swallowed, pending, recorded>>
        /\ processed' = IF cur.kind \in Executed THEN Append(processed, cur)
                                                  ELSE processed
    BY SMTT(30), EndOfChainTakes DEF EndOfChain, ghostVars, matchVars
  <1> DEFINE r == Len(processed)
             P == processed
             Q == processed'
  <1>2. /\ r \in Nat /\ DOMAIN P = 1..r /\ cur \in Event
        /\ \/ Q = P /\ cur.kind \notin Executed
           \/ /\ cur.kind \in Executed
              /\ DOMAIN Q = 1 .. r + 1 /\ Q[r + 1] = cur
              /\ \A i \in 1..r : Q[i] = P[i]
    <2>1. P \in Seq(Event) /\ r \in Nat /\ DOMAIN P = 1..r /\ cur \in Event
      BY DEF TypeOK, ChainTypes
    <2>2. /\ Append(P, cur) \in Seq(Event) /\ Len(Append(P, cur)) = r + 1
          /\ Append(P, cur)[r + 1] = cur
          /\ \A i \in 1..r : Append(P, cur)[i] = P[i]
      BY <2>1, AppendProperties
    <2>3. DOMAIN Append(P, cur) = 1 .. r + 1
      BY <2>2
    <2>4. QED
      BY <1>1, <2>1, <2>2, <2>3
  <1>3. \A id : Recording(id) => Recording(id)'
    BY EndOfChainKeepsRecording
  <1>4. Deleted <=> \E i \in 1..r : DeletesTrigger(P[i])
    BY <1>2 DEF Deleted
  <1>5. ~swallowed => \A i, j \in 1..r :
           /\ i < j /\ DeletesTrigger(P[i]) /\ Body(P[j]) /\ P[j].id = P[i].id
           => Recording(P[i].id)
    BY <1>2 DEF UsageOK, BodiesRecorded
  <1>6. ~swallowed /\ Deleted /\ Body(cur) => Recording(cur.id)
    BY DEF UsageOK, EntryMade
  <1> HIDE DEF r, P, Q
  <1>7. Deleted' => Deleted \/ OnTrigger(cur)
    <2> SUFFICES ASSUME NEW i \in DOMAIN Q, DeletesTrigger(Q[i])
                 PROVE  Deleted \/ OnTrigger(cur)
      BY DEF Deleted, DeletesTrigger, Q
    <2>1. (i \in 1..r /\ Q[i] = P[i]) \/ Q[i] = cur
      BY <1>2
    <2>2. QED
      BY <1>4, <2>1 DEF OnTrigger
  <1>8. BodiesRecorded'
    <2> SUFFICES ASSUME ~swallowed, NEW i \in DOMAIN Q, NEW j \in DOMAIN Q,
                        i < j, DeletesTrigger(Q[i]), Body(Q[j]),
                        Q[j].id = Q[i].id,
                        NEW id, id = Q[i].id
                 PROVE  Recording(id)'
      <3>1. \A i \in DOMAIN Q : \E id : id = Q[i].id
        OBVIOUS
      <3>2. QED
        BY <1>1, <3>1 DEF BodiesRecorded, Recording, DeletesTrigger, Body, Q
    <2>1. i \in 1..r /\ Q[i] = P[i]
      BY <1>2
    <2>2. (j \in 1..r /\ Q[j] = P[j]) \/ Q[j] = cur
      BY <1>2
    <2>3. CASE j \in 1..r /\ Q[j] = P[j]
      <3>1. Recording(id)
        BY <1>5, <2>1, <2>3
      <3>2. QED
        BY <1>3, <3>1
    <2>4. CASE Q[j] = cur
      <3>1. Recording(id)
        BY <1>4, <1>6, <2>1, <2>4
      <3>2. QED
        BY <1>3, <3>1
    <2>5. QED
      BY <2>2, <2>3, <2>4
  \* What waits chooses no match, and of what is on its way only a match whose
  \* trigger is deleted.
  <1>9. ASSUME Deleted \/ OnTrigger(cur), ~swallowed
        PROVE  \A i \in DOMAIN Waiting : ~Early(Waiting[i])
    BY <1>9 DEF UsageOK, OneMatch
  <1>10. OneMatch' /\ MatchWaits' /\ EntryMade'
    <2>1. CASE DOMAIN Waiting' = {} /\ cur' = Plain("NOOP", 0)
      <3>1. ~Early(cur)' /\ ~OnTrigger(cur)' /\ ~Body(cur)' /\ cur'.kind = "NOOP"
        BY <2>1
           DEF Plain, Early, EarlyKinds, IsKey, OnTrigger, DeletesTrigger, Body
      <3>2. QED
        BY <2>1, <3>1 DEF OneMatch, MatchWaits, EntryMade
    <2>2. ASSUME NEW n \in Nat,
                 /\ n >= 1 /\ DOMAIN Waiting = 1..n
                 /\ DOMAIN Waiting' = 1..n - 1
                 /\ cur' = Waiting[1]
                 /\ \A i \in 1..n - 1 :
                       i + 1 \in 1..n /\ Waiting'[i] = Waiting[i + 1]
          PROVE  OneMatch' /\ MatchWaits' /\ EntryMade'
      <3> DEFINE v == Waiting'
                 w == Waiting
      <3>1. /\ 1 \in 1..n /\ cur' = w[1] /\ DOMAIN v = 1..n - 1
            /\ \A i \in 1..n - 1 : i + 1 \in 1..n /\ v[i] = w[i + 1]
            /\ w[1].kind \in WaitingKinds
            /\ \A i \in 1..n :
                  /\ w[i].kind = "CauseCompensatedMatch" => w[i].trig = TRUE
                  /\ w[i].kind = "TextInject" => w[i].why # "body"
        <4>1. 1 \in DOMAIN Waiting /\ DOMAIN Waiting = 1..n
          BY <2>2
        <4>2. w[1].kind \in WaitingKinds
          BY <4>1 DEF CommandsOK, BatchOK
        <4>3. \A i \in 1..n :
                 /\ w[i].kind = "CauseCompensatedMatch" => w[i].trig = TRUE
                 /\ w[i].kind = "TextInject" => w[i].why # "body"
          BY <4>1 DEF UsageOK, MatchWaits
        <4>4. QED
          BY <2>2, <4>1, <4>2, <4>3
      <3>2. (Deleted \/ OnTrigger(cur)) /\ ~swallowed =>
                \A i \in 1..n : ~Early(w[i])
        BY <1>9, <2>2
      <3> HIDE DEF v, w
      <3>3. ~OnTrigger(cur') /\ ~Body(cur')
        BY <3>1 DEF OnTrigger, DeletesTrigger, Body, WaitingKinds
      <3>4. Deleted' /\ ~swallowed =>
                ~Early(cur') /\ \A i \in 1..n - 1 : ~Early(v[i])
        BY <1>7, <3>1, <3>2
      <3>5. OneMatch'
        BY <1>1, <3>1, <3>3, <3>4
           DEF OneMatch, OnTrigger, DeletesTrigger, Early, IsKey, v
      <3>6. \A i \in 1..n - 1 :
               /\ v[i].kind = "CauseCompensatedMatch" => v[i].trig = TRUE
               /\ v[i].kind = "TextInject" => v[i].why # "body"
        BY <3>1
      <3>7. MatchWaits'
        BY <3>1, <3>6 DEF MatchWaits, v
      <3>8. /\ cur'.kind = "CauseCompensatedMatch" => cur'.trig = TRUE
            /\ cur'.kind \notin {"RenderingRequested", "ImageRequested",
                                 "Rendered", "ImageResolved"}
        BY <3>1 DEF WaitingKinds
      <3>9. EntryMade'
        BY <3>3, <3>8 DEF EntryMade, Body
      <3>10. QED
        BY <3>5, <3>7, <3>9
    <2>3. QED
      BY <1>1, <2>1, <2>2 DEF NextTaken
  <1>11. QED
    BY <1>8, <1>10 DEF UsageOK

\* The event received starts a batch of its own.
LEMMA ReceiveKeepsUsage ==
    ASSUME TypeOK, CommandsOK, UsageOK, Receive
    PROVE  UsageOK'
  <1>1. /\ pc = "receive" /\ keyboard \in Seq(DetectEvent)
        /\ chan \in [Sources -> Seq(SourceEvent)]
        /\ pending' = pending
    BY DEF TypeOK, FunnelTypes, Receive, ReceiveDetected, ReceiveRequest,
           matchVars
  <1>2. Skipped \/ \E e : Start(e) /\ ~OnTrigger(e)
    <2>1. CASE ReceiveDetected
      <3>1. Head(keyboard) \in DetectEvent
        BY <1>1, <2>1, HeadTailProperties DEF ReceiveDetected
      <3>2. ~OnTrigger(Head(keyboard))
        BY <3>1
           DEF DetectEvent, KeyEvent, MouseEvent, OnTrigger, DeletesTrigger
      <3>3. QED
        BY <2>1, <3>2 DEF ReceiveDetected
    <2>2. ASSUME NEW s \in Sources, ReceiveRequest(s)
          PROVE  Skipped \/ \E e : Start(e) /\ ~OnTrigger(e)
      <3>1. Head(chan[s]) \in SourceEvent
        BY <1>1, <2>2, HeadTailProperties DEF ReceiveRequest
      <3>2. \A e \in SourceEvent :
               /\ [e EXCEPT !.id = nextId].kind = e.kind
               /\ e.kind \notin {"KeySequenceInject", "TriggerCompensation"}
        BY DEF SourceEvent, MenuEvent
      <3>3. ~OnTrigger(Numbered(Head(chan[s])))
        BY <3>1, <3>2 DEF Numbered, OnTrigger, DeletesTrigger
      <3>4. QED
        BY <2>2, <3>3 DEF ReceiveRequest
    <2>3. QED
      BY <2>1, <2>2 DEF Receive
  <1>3. CASE Skipped
    <2>1. UNCHANGED <<queue, cur, stage, emitted, processed, swallowed,
                      pending, recorded>>
      BY <1>1, <1>3 DEF Skipped, chainVars
    <2>2. QED
      BY <2>1, LaterKeepsUsage DEF Waiting
  <1>4. QED
    BY <1>1, <1>2, <1>3, StartKeepsUsage

\* Every step has the usage recorded.
LEMMA UsageNext ==
    ASSUME TypeOK, ControlOK, CommandsOK, LeadsOK, SearchOK, ExpansionOK,
           UsageOK, [Next]_vars, [NoneCompleted]_vars
    PROVE  UsageOK'
  <1>1. CASE UNCHANGED vars
    BY <1>1, LaterKeepsUsage DEF vars, chainVars, ghostVars, matchVars, Waiting
  <1>2. CASE Middleware /\ NoneCompleted
    <2>1. CASE ~Discard /\ ~MatchSelectOpen
      <3>1. PICK p \in 1..22 : \E out \in Seq(Event) :
               /\ Handles(p, out) /\ ExpansionFrame(p, out)
               /\ UsageFrame(p, out)
               /\ cur.kind = "MatchInjected" => cur'.kind # "MatchesDetected"
        BY <1>2, <2>1, MiddlewareUses
      <3>2. QED
        BY <3>1, HandlesKeepsUsage
    <2>2. CASE MatchSelectOpen
      BY <2>2, LaterKeepsUsage DEF MatchSelectOpen, ghostVars, matchVars, Waiting
    <2>3. QED
      BY <2>1, <2>2, DiscardKeepsUsage
  <1>3. CASE MatchSelectClose
    <2>1. PICK out \in Seq(Event) :
             /\ Handles(match_select, out) /\ ExpansionFrame(match_select, out)
             /\ UsageFrame(match_select, out) /\ cur.kind # "MatchInjected"
      BY <1>3, CloseUses
    <2>2. QED
      BY <2>1, HandlesKeepsUsage, InChain
  <1>4. CASE EndOfChain
    BY <1>4, EndOfChainKeepsUsage
  <1>5. CASE Dispatch
    BY <1>5, DispatchKeepsUsage
  <1>6. CASE Environment
    <2>1. UNCHANGED <<queue, emitted, cur, stage, processed, swallowed,
                      pending, recorded>>
      BY <1>6
         DEF Environment, Detect, DetectKey, DetectMouse, DetectHotKey,
             DetectAllModifiersReleased, Enqueue, Send, ModifierOutdated,
             chainVars, ghostVars, matchVars
    <2>2. QED
      BY <2>1, LaterKeepsUsage DEF Waiting
  <1>7. CASE Receive
    BY <1>7, ReceiveKeepsUsage
  <1>8. QED
    BY <1>1, <1>2, <1>3, <1>4, <1>5, <1>6, <1>7 DEF Next, EngineStep

\* At first nothing is used.
LEMMA UsageInit == Init => UsageOK
  <1> SUFFICES ASSUME Init PROVE UsageOK
    OBVIOUS
  <1>1. queue = <<>> /\ emitted = <<>> /\ processed = <<>> /\ cur.kind = "NOOP"
    BY DEF Init, Plain
  <1>2. Waiting = <<>> /\ DOMAIN <<>> = {}
    BY <1>1 DEF Waiting
  <1>3. DOMAIN Waiting = {} /\ DOMAIN processed = {}
    BY <1>1, <1>2
  <1>4. ~OnTrigger(cur) /\ ~Deleted
    BY <1>1, <1>3 DEF OnTrigger, DeletesTrigger, Deleted
  <1>5. QED
    BY <1>3, <1>4 DEF UsageOK, OneMatch, MatchWaits, EntryMade, BodiesRecorded

\* The invariant of the usages holds always.
LEMMA UsageAlwaysOK == Spec /\ [][NoneCompleted]_vars => []UsageOK
  <1>1. Init => UsageOK
    BY UsageInit
  <1>2. /\ TypeOK /\ ControlOK /\ CommandsOK /\ LeadsOK /\ SearchOK
        /\ ExpansionOK /\ UsageOK /\ [Next]_vars /\ [NoneCompleted]_vars
        => UsageOK'
    BY UsageNext
  <1>3. QED
    BY <1>1, <1>2, TypeCorrect, CommandsAlwaysOK, SearchAlwaysOK,
       ExpansionAlwaysOK, PTL DEF Spec

\* The usage of a trigger that was deleted and replaced is recorded (stats.rs):
\* the entry made when its match goes to be rendered is purged neither by an
\* older discard request nor by a full table before the injection is reported
\* (action.rs), unless a separator fed after an injection completes a trigger.
THEOREM UsagesRecorded ==
    Spec /\ [][NoneCompleted]_vars => []UsageRecorded
  <1>1. TypeOK /\ CommandsOK /\ UsageOK => UsageRecorded
    <2> SUFFICES ASSUME TypeOK, CommandsOK, UsageOK, pc = "dispatch",
                        ~swallowed, NEW i \in DOMAIN processed,
                        NEW j \in i + 1 .. Len(processed),
                        DeletesTrigger(processed[i]), Body(processed[j]),
                        processed[j].id = processed[i].id
                 PROVE  processed[i].id \in recorded
      BY DEF UsageRecorded, Body
    <2>1. Waiting = <<>> /\ DOMAIN <<>> = {} /\ cur.kind = "NOOP"
      BY DEF CommandsOK, BatchOK
    <2>2. processed \in Seq(Event)
      BY DEF TypeOK, ChainTypes
    <2>3. j \in DOMAIN processed /\ i < j
      BY <2>2
    <2>4. Recording(processed[i].id)
      BY <2>3 DEF UsageOK, BodiesRecorded
    <2>5. QED
      BY <2>1, <2>4 DEF Recording
  <1>2. QED
    BY <1>1, UsageAlwaysOK, TypeCorrect, CommandsAlwaysOK, PTL
=============================================================================
