# Expandr: a TLA+ development

Expandr is a text expander derived from espanso: the user types a trigger in any
application, the program deletes it and types or pastes what the trigger stands
for.  This directory holds TLA+ modules translated from its source, the TLC
configurations that check them on small instances, and proofs of the results
that TLAPS verifies for every instance.  Paths below are relative to the root of
the repository.

## 1. Inventory

### Processes

    launcher / service command          the user, with keyboards and applications
         |  spawns                              |
         v                                      v
      daemon  <- daemon.lock, "daemonv2"   detection  (evdev, X11, macOS, Win32)
         |  spawns, restarts, waits             |
         v                                      v
      worker  <- worker.lock, "workerv2"
         |-- detect thread    modifier and key stores, numbers the key events
         |-- engine thread    funnel -> processor (middlewares) -> dispatcher
         |-- UI event loop    tray icon, menu, notifications
         |-- IPC server, daemon monitor, secure input monitor
         v
      rendering (of the files the daemon and the worker load) -> injection

### Components

| Component | State it keeps | Operations | Correct when | Module |
|---|---|---|---|---|
| Funnel, sequencer, stores (`espanso/src/cli/worker/engine/funnel`) | next id, a channel per source, pressed modifiers and keys | enqueue, `Select`, number | commands are newer than what was discarded; no phantom keys | `Engine`, `Detection` |
| Processor, middlewares (`espanso-engine`) | the events of a batch, the state of each middleware | one event and all it causes | batches end; deletion, text and cursor in order; copies of a flag agree | `Engine` |
| Alt codes (middleware) | digits since Alt went down | collect, convert | the character of the digits typed | `AltCodes` |
| Matching (`espanso-match`, `match_cache.rs`) | tree, partial paths, buffer of the regular expressions, history | `process`, pop, reset | a trigger is found exactly when typed | `MatcherTree`, `Matching` |
| Rendering (`espanso-render`, the render adapter) | graph of variables, scope, cache | resolve, evaluate, substitute, case | dependencies first, cycles refused, nothing missing | `EvaluationOrder`, `Rendering` |
| Configuration (`espanso-config`, `config.rs`, `patch`) | configs, match files and imports | load, reload, query, patch | what is on disk is loaded or reported, and reaches the worker | `Configuration` |
| Detection (`espanso-detect`) | per platform: keyboard states, modifier flags, hotkeys | read, convert, fire | keys mean what they meant to the application | `Detection`, `KeyCodes`, `HotKeys` |
| Injection, clipboard (`espanso-inject`, executors) | virtual keyboard, clipboard, guard | type, paste, restore | the text arrives, nothing stays pressed, the clipboard comes back | `Injection` |
| Secure input (`secure_input.rs`, `espanso-mac-utils`) | last pid, what is shown | poll, name, explain, fix | what is shown settles on the truth | `SecureInput` |
| Supervision (`cli/daemon`, `cli/worker`, `cli/service`, `lock.rs`) | two locks, exit codes, timeouts | start, stop, restart, monitor | one worker at a time; no orphan; changes are applied | `Supervision` |
| IPC (`espanso-ipc`) | a socket or pipe, one client served | connect, send, read | a command that was written arrives, once and in order | `Ipc` |
| Installation (`launcher`, `service/*.rs`, `path`, `env_path.rs`, `preferences`) | directories, entry of the service manager, link, preferences | first run, register, link | all processes agree on the directories; a registration starts the application | `Installation` |
| Packages (`espanso-package`, `cli/package`) | directories, backups, index cache | install, update, uninstall | no package is lost or set back | `Packages` |
| Statistics (`cli/stats.rs`, `stats_recorder.rs`) | the tables of an SQLite file, a channel to the writer thread | record, show, prune, clear | what is counted is what was expanded | `Statistics` |
| Info, tray, dialogs, command line parsing, the macOS app | native | I/O | environment of the models | none |

### What is hard

* **Interleaving**: the detect thread numbers keys while the engine thread is
  expanding or waits for the search bar; the user types, copies and unplugs while
  an injection runs; files change while they are loaded; two wizards run.
* **Ordering inside a batch**: middlewares communicate by events queued behind
  each other, and nothing states the order that results.
* **Replicated state**: flags in several middlewares and the tray; modifiers in
  the keyboard, the system, the worker and the virtual device; directories every
  process looks up for itself.
* **Crash and partial failure**: packages and registrations are several steps on
  the file system; locks are probed by taking them; clients die in a line.
* **Timeouts**: of restarts, of waits for keys, of the memory of pressed keys, of
  the index cache.

Every hazard is listed with its line under `hazards` in `PROJECT.json`, with the
properties that cover it or the reason none does.

## 2. Modules

| Module | Contents |
|---|---|
| `Events` | the events of `espanso-engine/src/event`, as records |
| `Engine` | detect thread, funnel, chain of middlewares, dispatcher; one action per middleware and kind of event |
| `EngineProperties`, `MCEngine` | its properties; finite instances |
| `EngineProofs` | `TypeCorrect`, `DiscardsInOrder`, `ThresholdNeverFalls`, `CommandsKept`, `StatusAgrees`, `SearchKeysDiscarded`, `TriggersReplaced`, `UsagesRecorded` |
| `Supervision` | launcher, daemons, workers and service command over the locks, the socket, the exit codes and the configuration |
| `MCSupervision`, `SupervisionProofs` | which disturbances may overlap; `SupervisionTypes`, `OneAtATimeAlways`, `ListenerAlwaysHoldsLock`, `StopAlwaysStops`, `DaemonAlwaysSurvives` |
| `MatcherTree` | the tree of the rolling matcher, built match by match in any order |
| `Matching` | conversion of matches, the walk of the tree, the regular expressions, the states of the middleware |
| `Triggers` | **abstract specification**: a match is found when what was typed ends with its trigger |
| `MatchingProperties`, `MCMatching` | its properties, among them that `Matching` implements `Triggers`; constants of an instance |
| `Configuration` | files, merges, imports, loading while they are edited, queries, patches |
| `ConfigurationProperties`, `MCConfiguration` | its properties; constants of an instance |
| `MCMatches` | the instances of `Configuration` and of `Matching`: a behaviour runs one of them |
| `EvaluationOrder` | the depth first walk that orders the variables |
| `Rendering` | templates, scopes, extensions, nested matches, case, the adapter and the middleware |
| `RenderingProperties`, `MCRendering`, `RenderingProofs` | its properties; instance; `RenderingIsTopological`, `PlansAreExact`, `NothingIsMissing` |
| `Detection`, `Injection` | keyboards, detection and stores of four platforms; injection call by call, which extends it |
| `DeviceProperties`, `MCDevices`, `DeviceProofs` | properties of the two together; instance; `NothingStaysPressed`, `ClipboardComesBack`, `KeysAreAsTyped` |
| `SequenceLemmas` | lemmas of the proofs about sequences of sequences and positions, found by induction |
| `KeyCodes` | the tables of key codes of the three crates, as functions, and the assumption that they agree |
| `HotKeys`, `AltCodes`, `SecureInput`, `Ipc` | what comes to the engine from outside, each with its properties |
| `Statistics` | the writer thread of the worker and the commands on its database, with their properties |
| `MCSources`, `SourcesProofs` | one behaviour runs one of these five; `HotKeysFire`, `AltCodesHold`, `CommandsInOrder`, `ExpansionsAttributed`, and, of `Matching`, `MatchingTreeIsExact`, `WindowIsKept`, `HitsLeadBack`, `DetectionIsExact` |
| `Packages`, `MCPackages`, `PackagesProofs` | the package manager with failures and kills; instance; `InstalledAreKept`, `FailuresAreUndone`, `UpdatesNeverGoBack` |
| `Installation`, `MCInstallation`, `InstallationProofs` | launcher, wizard, service commands and directories; instance; `InstallationTypes`, `RegistrationsHold`, `DirectoriesAgree`, and of `Configuration` `FilesAccountedFor`, `StoreIsExact`, `QueriesAreExact`, `ActiveIsDetectable` |

`Injection` EXTENDS `Detection`: the injectors wait for keys the detection takes to
be pressed, and what they press comes back through the same queues.  `Engine` and
`Supervision` model two levels of one worker and are not composed: to `Supervision`
a worker is the exit it is asked for and whether the search bar keeps its engine
thread (`busy`); to `Engine` the daemon is the source of signals that end it.
`Engine` takes the matchers as *any* transition function over its states
(`MatcherStep`), so that what it satisfies holds with those of `Matching`.

### Engine

| Variable | Source |
|---|---|
| `nextId` | `Sequencer.current_id` |
| `keyboard`, `chan` | the crossbeam channels of `DetectSource` and of the other sources |
| `metaDown` | `ModifierStateStore`, reduced to "a modifier that hides keys is down" |
| `pc` | what the engine thread does: `receive`, `process`, `selecting` (in the search bar), `dispatch`, `exited`, `crashed` |
| `queue`, `emitted`, `cur`, `stage`, `processed` | `DefaultProcessor.event_queue`, `current_queue`, the event in the chain, its place, `processed_events` |
| `minId`, `maxId` | `EventsDiscardMiddleware` thresholds |
| `enabled`, `lastToggle`, `icon`, `menu`, `menuReady` | disable, icon_status, context_menu |
| `altBuffer`, `history`, `pending`, `record` | alt_code_synthesizer, matcher, stats, undo |
| `trayIcon`, `trayMenu` | what the executors gave to the tray |
| `window`, `recorded`, `swallowed` | history variables that only properties read |

`At(p)` holds when the current event has reached `p` and `p` is the next middleware
that looks at it, so that the ignored stages take no steps.  An event that a
middleware dispatches is appended to `emitted`, which `EndOfChain` queues behind the
rest, as `DefaultProcessor` does.  `NOOP` interrupts the chain.  A batch is complete
when the queue is empty; `Dispatch` executes it in order and `Exit` drops what is
left, as `Engine::run` does.

The environment is free: `Typed`, `MouseButtons`, `HotKeys`, `Requests` are the
inputs, `Effect` says what each match is.  What depends on the configuration or on
the focused application is chosen at the moment the code asks.  Keys that behave
alike are one; delay_modifiers and notification only wait or notify and are stages
without effect; the double press of the toggle key is a flag with a free timeout.
An underflow of the backspace count of an undo ends in `crashed`: a debug build
panics, a release build asks for a list of 2^64-1 keys.

### Supervision

| Variable | Source |
|---|---|
| `daemonLock`, `workerLock` | `espanso-daemon.lock`, `espanso-worker.lock`: who has them locked |
| `daemon` | how far `daemon_main` is: locking, loading or troubleshooting, `terminate_worker_if_already_running`, the select loop (`ready`), `restart_worker`, `spawn_worker` |
| `auto` | `auto_restart` of the configuration loaded at the start |
| `watched`, `signals`, `codes` | `has_received_event` of the debouncer, the channels `watcher_signal` and `exit_signal` |
| `worker` | `spawned` (loads the configuration in `main`), `loaded`, `locked` (the engine runs), `running` (socket bound, monitor started), `ended` (`child.wait` not returned), `dead` |
| `parent`, `loaded`, `code` | the daemon whose thread waits for it, the revision it read, its exit code |
| `asked`, `busy`, `monitor`, `socket` | exits waiting in the worker, the search bar, the daemon-monitor thread, who has bound the socket last |
| `service`, `told`, `launcher` | `service_main` with its polls and the processes it has listed to kill (`doomed`), the worker it wrote to, `launcher_main` |

A lock is probed by taking it and dropping it, which are two steps: in between, a
process that starts finds it taken.  A process that ends lets go of its locks.  A
message is delivered if a worker is there that has bound the socket.  A `stop` that gives
up waiting lists the processes and kills them one by one (`ForceKill`, `Kill`); what
starts in between is not on the list.

The waits (3 s at the start of the daemon, 30 s in a restart, 3 s in `stop`) end by
their timeout only when the worker that holds the lock does not know that it should
exit, or is kept by the search bar (`Unresponsive`); a worker that was told and is
not kept is assumed to exit within the wait.  Left out: the relaunch by systemd
(`Restart=on-failure`), the unmanaged start, and the daemon's own IPC server, to
which nothing in the program writes.

### Matching

A character is a sequence of letters (a keystroke may produce more than one); `Lower`
folds case and `Bytes` gives the length in UTF-8 that the buffer is measured by.  A
position of the tree is the sequence of items that leads to it: `tree` maps the
positions that hold matches to ids, and a leaf on the way hides a longer match as in
`insert_items_recursively`.  The matches come from a hash set, so `Build` inserts them
in any order.  `RollingProcess` walks all paths at once and keeps the leftmost that
completes; `RegexProcess` drops one letter when the buffer is too long.  A regular
expression is the set of texts it accepts.  `states` is the deque of the middleware;
`past` is the history that the refinement mapping reads.

### Rendering

`graph`, `path`, `seen`, `order`, `problem` are `resolve_evaluation_order` one step at a
time, with hash sets met in any order.  `frames` is the stack of `render` calls, the
innermost last, with the scope of each; `casing` the style; `cache` the contexts the
adapter keeps per configuration; `sent` what the middleware dispatched.  A text is a
sequence of characters and a body a sequence of pieces, texts and references.  What a
command, the clipboard, a form or a date gives comes from small sets, failure
included; the formats of dates are left out.  A panic of the code (a body that is
empty when it should be capitalized, a script without arguments, a date offset out of
range, a match that renders itself until the stack ends) is the outcome `crash`.

### Configuration

`disk` maps files to their content: absent, torn (a YAML error) or a partial function
of options, as the parsers leave unset options out.  A load is `LoadDefault`,
`LoadCustom` per file in any order, `ListGroups`, `LoadGroup` per match file with its
imports depth first, `FinishLoad`, a file being read in one step and the user editing
between them.  `Query` is the query of the match store: its recursion is a walk with a
stack (`Visit` is one step of it), and the ids of what it collected, which the code keeps
as well, are left out because no two matches share one.  `Active` the choice of a
configuration with the built-in patches, whose seventeen tables are data.  A glob
stands for the set of files it names.  The worker's own load comes right after the
daemon's and is the same load here; `auto`, `watching`, `changed`, `signals` are the
watcher and `gui` the troubleshooter.

### Detection and injection

`held`, `plugged`, `queue` are the keyboards; `xkb`, `keys`, `modifiers`, `memory`,
`current`, `remaining` are `xkb_state` of each device, `KeyStateStore`,
`ModifierStateStore`, the memory of `HotKeyFilter`, `MODIFIER_STATE` of macOS and
`EXPANSION_NUM_EVENTS_REMAINING` of Windows.  `DeliverEvdev`, `DeliverX11` and their like
are the callbacks of each platform up to the event given to the engine.  A request becomes
a `program`, the calls of the injector in order; each call is a step, and an error drops
all but the clipboard guard (`Abort`).  `stuck` remembers what a wait that ended in vain
has left pressed.  The layout is a table of six keys.  Timers (3 and
10 seconds, waits for keys) may be up at any time.

On evdev a key is what its symbol says: it is looked up in the keyboard state of the device
before the key changes it, the symbol names the modifier (`Named`), and an event without a
symbol is dropped.  The symbol of a key may differ between its press and its release, so
three history variables say what that leaves in the stores: `taken`, the modifier a press was
read as, `stale`, the modifiers whose release was read as something else, and `unread`, the
keys whose release had no symbol.  X11 asks for the symbol without modifiers and the others
for the key code (`BaseSymbol`), which no level changes.

`disturbed` says that something happened that the injectors do not guard against: the
user typed or copied during the injection, held a modifier for longer than they wait,
or the application read the clipboard after it was restored.

### Sources

`KeyCodes` holds eleven tables of key codes; `TablesAgree` is an ASSUME that TLC
evaluates: the key that a shortcut names is the key the injector presses and the
detection reports, on each system.  `HotKeys` parses the shortcuts, registers them and
presses physical keys.  On Linux the code of a shortcut is a symbol that has to become a
keycode: a `Keymap` gives every keycode its symbols by level, X11 looks for the symbol on
every level (`XKeysymToKeycode`, level by level), the hotkey filter of evdev knows only what
a key types with nothing held and keeps the last keycode of each symbol.  A shortcut whose
symbol is on no such level is not registered, and the properties speak of the keys that have
the symbol.  `AltCodes` types digits of which the middleware may miss some.
`SecureInput` changes hands between the two queries of the monitor; the engine thread
is kept by the alert and by the auto-fix process.  `Ipc` has clients that check the
lock, connect, write, exit or are killed in the middle of a line, and workers that end
and are started again; the synchronous calls of `espanso-ipc` are never made.

`Statistics` begins where `UsageRecorded` of `Engine` ends: the records that the stats
middleware sends are stored by a thread with three statements each (`UpsertTrigger`,
`SelectTrigger`, `InsertExpansion`), while a command of another process runs its own.
Every statement is a transaction, those that create the tables too, so that a kill leaves
part of the schema for the next process to complete; SQLite is built with its foreign keys
on and gives out the id of a deleted trigger again.  `names` and `gone` are history: what
was recorded, and what was pruned, cleared or lost.  Options that a command refuses before
it opens the file are left out.

### Packages and installation

A package is a directory `n` and, while it is replaced, `n.old`; its manifest, matches
and source are written one after the other, each write may fail and the process may be
killed between any two (`Mishap`).  Failures go through the guard that restores the
backup (`Undo`), kills do not.  The new package is read back (`Read`) when the backup has
been removed already; when that fails there is nothing left to restore.

`Installation` has processes that resolve their directories for themselves, against what
exists by then.  The runtime directory takes up to three steps (`ResolveRuntime` looks for
the portable one, `OtherRuntime` for the others, `CreateRuntime` makes one), because which
one is made depends on the process: two applications may each find nothing and make
different ones.  For the configuration and the packages every process that finds nothing
makes the same default, so that a look and its creation are one step (`ResolveConfig`,
`ResolvePackages`).  The others are the pages of the wizard and the steps of registering with
launchd, systemd and the startup folder.  A launcher that is done starts a daemon, which
resolves the directories for itself (`Launch`) and takes the lock in the one it found
(`Serve`).  History: `used`, the directories each process settled on, `raced`, the portable
applications that were looking while another one made the default directory, and
`registered`.
Left out: the page of a wrong edition and the migration of a first release.

## 3. Runs

| Run | Question | Bounds |
|---|---|---|
| `expand` | are old events, and only they, discarded; is what is typed complete, in order and recorded; with typing, undo, two kinds of text and two openings of the search bar | `MaxId = 4`, one request waiting, two matches, history of 2, table of 1 |
| `status` | do the flags, the icon and the menu agree whenever the engine is idle | `MaxId = 3`; tray, command line, secure input, toggle key |
| `progress` | does every batch end, is an exit obeyed | `MaxId = 2`; word trigger, image, markdown, hotkey |
| `supervision` | one worker and one daemon; `stop` stops; a daemon survives changes; no worker dangles; changes are applied | two daemons, three workers, one poll, eight sets of disturbances |
| `matches` | is everything on disk loaded or reported, and does the last edit win; are triggers detected exactly as the abstract specification says | a default, an application's and a broken configuration, five match files with a diamond and a cycle, two edits; twelve matches that hide, share, fold and separate; four letters, one of two bytes; four events between resets, history 2, buffer 4 |
| `rendering` | dependencies first, exact plan, no missing value | ten matches, four globals, two configurations, seventeen requests, nesting 3 |
| `devices` | do keys mean what they meant, do texts arrive, is anything left behind; what stays of keys that mean something else when they are released | four platforms, two keyboards, six keys; two presses and two requests, or on evdev three presses, with an Alt that is Meta under Shift and a letter without a symbol under AltGr |
| `packages` | is a package lost, damaged or set back | two packages, two versions, two commands, two mishaps |
| `packages_restore` | a finding of section 6 | one package, two versions, two commands, one mishap |
| `installation` | same directories, registrations hold | two places, two processes; with a wizard three systems, two commands, one mishap; without one macOS, three launchers, two moves, a portable configuration |
| `sources` | hotkeys, Alt codes, secure input, IPC, statistics | two of eight shortcuts, a keymap of eleven keycodes, three keys held, five digits, one missed key; two processes, three changes, one question; three clients, two workers; two records, two commands, one failed statement |
| `search_restart` | the finding of section 6 | two disturbances |

Why these bounds are enough.

* `MaxId` bounds the ids the *environment* may take; the engine finishes what it has.
  Four ids are two expansions with a key queued between them, or a search bar, a key
  typed into it and an expansion after it: thresholds, window and record have each
  been overwritten once.  The table of stats and the history reach their limits.
* A disturbance of `Supervision` is what the user or the system does besides (an edit,
  a command, a crash, the search bar).  `MCSupervision` names the sets that may overlap.
  Two put every two steps of a restart, a stop or a start in every order; three let a
  worker come between the two waits of `stop`.  Two daemons and three workers are a
  crashed daemon, its successor, an orphan and the worker that replaces it.
* Four events are longer than the longest trigger with its separators and fill the
  regex buffer; a history of two is trimmed and emptied.
* Two edits are one during a load and one during the reload it asks for.
* In `devices` the second press meets the injection of the first expansion; a keyboard
  is unplugged with a modifier down; requests that fail half-way are among them, and the
  second request finds what the first has left.  Without requests a third press is
  allowed on evdev, of the keys that change with the level too: Shift down, Alt down, Shift
  up, Alt up takes two presses, and so does a letter that is released under AltGr; the third
  is a key that meets what they left.
* A mishap of `packages` may hit a command, and the next one the directory it left.  One
  mishap of `installation` is a kill in a registration that a second process repeats, or
  a move of the application between them.  Its link commands run alone, the permission is
  granted when asked for, and a unit cut short cannot be enabled.  A runtime directory is
  raced for by a portable application that has found nothing, one elsewhere that makes the
  default, and a second portable one that finds that; without a wizard the instance has all
  of it, the application being moved away and back.  A configuration given on the command
  line is left out on macOS, where it is looked up as on the other systems.
* The keymap of `sources` has a letter with two levels, a keypad key whose digit is on the
  second, a symbol on two keycodes, modifiers on both sides, an Alt key that is Meta too,
  and keycodes that no key sends: everything in which the look-ups of X11 and of evdev differ.
* Two records and two commands put a clear or a listing between any two statements of the
  writer, before and after an id is given out again.
* `DaemonSurvives` and `ConfigApplied` are claims about scenarios where a change or a
  restart comes when the last one has been dealt with.  When they overlap (`early`) the
  daemon may spawn a worker twice; the second finds the lock taken and its exit code ends
  the daemon.  That is a hazard listed as such; no document denies it.  `DaemonSurvives`
  also leaves out an exit together with another launch, which the attempt to prove it
  brought up (section 6); `Calm` in `Supervision` names the scenarios.
* `LastSearchKeysDiscarded`, `ExpansionFollowsCompensation` and `UsageRecorded` are checked
  with matchers in which no trigger is completed by a word separator.  With one, an
  expansion completes a second one inside its own batch and they fail (section 6).
  `UsageRecorded` and `ExpansionFollowsCompensation` speak of batches in which no part of
  an expansion was itself discarded (`swallowed`).

`CHECK_DEADLOCK FALSE` where it appears: the system really stops, after an exit or an
abort, and when the bounded environment has nothing left to do.

### Fairness

* `progress`: weak fairness of the steps of the engine thread that wait for nobody,
  strong fairness of receiving from each source: crossbeam's `Select::select` picks at
  random among the ready channels.  Nothing is assumed of the user, who may leave the
  search bar open (`ExitObeyed` allows for it).
* `supervision`: weak fairness of each process, which the system schedules and which
  polls; none of the user, of crashes or of the troubleshooter.
* `matches`: weak fairness of the launcher's and the daemon's steps, of the
  registration of the watcher and of the debouncer.
* `sources`: `SecureInput` assumes that the monitor polls for ever, the engine reads its
  channel, the auto-fix ends and the user answers an alert some time; `Ipc` that the
  server thread runs and that a client that connected writes and exits, unless killed;
  `Statistics` that the writer thread runs.
* `devices`, `rendering`, `packages`, `installation` and the matchers of `matches` check
  safety; the fairness `Installation` states is used by no property.

Every property of a passing run is paired in `PROJECT.json` with a mutant, a plausible
bug of a mapped definition under which TLC finds it violated.

## 4. Proofs

TLAPS checks, for arbitrary values of the constants that satisfy the named assumptions:

* `TypeCorrect` (`EngineProofs`): `Spec => [](TypeOK /\ ControlOK)`.  `TypeOK` is not
  inductive: that a middleware may be at a stage, that `queue` is empty when the engine
  receives, that the event at a stage has the kind the middleware looks at, are facts of
  the control flow, which `ControlOK` states.  A lemma per group of middlewares shows
  what one action does to the chain and to its own state.
* `DiscardsInOrder` (`EngineProofs`): `DiscardOrder` is inductive together with
  these: the thresholds are behind the sequencer, every discard request waiting in the
  batch concerns ids already taken and asks for no less than was discarded, and the
  waiting requests are in the order of their ids.  The proof classifies the steps: those
  that dispatch no discard request, those that take an id and dispatch one that is later
  than all others, and `Discard` itself, which consumes the first.
  `ThresholdNeverFalls` follows: the request that `Discard` reads is timely.
* `CommandsKept` (`EngineProofs`): `CommandsNeverDiscarded`, whatever is expanded.  A
  command enters with a fresh id and so above both thresholds; what has to be shown is that
  nothing raises them over it in its own batch.  `CommandsOK` says that at most one command
  waits, and none beside what may lead to a discard request (`OneCommand`, `Alone`), and
  that the icon and menu notices come before every such request (`NoticesFirst`), which
  for the first menu takes that it is shown before anything is discarded (`MenuFirst`).
* `StatusAgrees` (`EngineProofs`): `StatusAgreement`, for any number of toggles and
  commands.  The change of status under way is the last one; the icon lags behind the flag
  only while a change is on its way to it, and the menu behind the icon while it is between
  the two (`IconFollows`, `MenuFollows`); the last notice on its way, or else the tray, is
  right (`Reaches`).  It rests on `CommandsKept`: a notice thrown away would leave the tray
  behind for good.
* `SearchKeysDiscarded`, `TriggersReplaced`, `UsagesRecorded` (`EngineProofs`):
  `LastSearchKeysDiscarded`, `ExpansionFollowsCompensation` and `UsageRecorded`, for
  behaviours that also satisfy `[][NoneCompleted]_vars`: feeding a separator after an
  injection completes no trigger, without which all three are false (section 6).  The
  first follows the last window that waits; the second says that at any time one event at
  most in a batch leads on to an expansion (`OneLead`), that the others only trail behind
  it, and that the very next event that can yield something typed is what replaces the
  trigger.  The third adds that while a trigger is deleted no other match can be chosen
  (`OneMatch`), that its entry is made when the request passes the stats middleware, and
  that it stays until the injection is reported: the requests that could purge it concern
  later ids or come behind it (`UsageOK`).
* `SupervisionTypes`, `OneAtATimeAlways`, `ListenerAlwaysHoldsLock`, `StopAlwaysStops`
  (`SupervisionProofs`), for any sets of daemons and workers and any disturbances.  A
  worker enters when the lock is free, so `LocksInv` says that whoever is in holds the
  lock, and that whoever is about to let go of a lock is the one that took it; for the
  last it adds that the worker told to exit had passed the lock: a free lock then means
  that it is gone, and a `stop` that kills lets go of no lock but those of the processes
  it kills (`KillKeepsLocks`).
* `DaemonAlwaysSurvives` (`SupervisionProofs`): `DaemonSurvives`, in the scenarios it
  claims.  `CalmInv` accounts for every request a daemon may still answer by spawning: a
  change, an exit code or a restart under way are never there twice, so that the worker
  spawned for one finds the lock free.  It is inductive only without an exit next to a
  launch, which is how the case of section 6 was found.
* `MatchingTreeIsExact` (`SourcesProofs`): for any matches inserted in any order the tree
  holds exactly the triggers that no other one hides.  The invariant says of the matches
  inserted so far what the theorem says of all.
* `DetectionIsExact` (`SourcesProofs`): `Spec => DetectsTriggers`, that `Matching`
  implements `Triggers`, for any matches and any keystrokes, Backspaces and resets.
  `HistoryInv` accounts for every state that can be popped: its partial matches are
  `Exact`, that is, each is a living position of the tree that the events since the last
  match lead to from some event on, every such position is among them, none has arrived,
  and those that began first are in front.  One event keeps them exact (`ExactStep`)
  because the items it is accepted by are tried from every path and from the root; the
  unknown text before the first event is the separator that `Spells` lets a position begin
  with.  The first path that arrives (`FirstHit`) is then one that began first, which is
  how `Triggers` chooses, and an insensitive or a hidden trigger arrives where the tree
  says (`MatchingTreeIsExact`).  The steps are mapped one action at a time: an event to
  `Type`, a Backspace to `TakeBack`, an invalidation to `Forget`, the building of the tree
  to a stutter.
* `HitsLeadBack` (`SourcesProofs`): `HitsResolve`.  An exact path that arrived has the
  shape of the trigger it was made from, a separator before it and one behind it if it
  asks for words (`ShapeIs`), so that `ExtractString` cuts off these and no other letter;
  its id is that of one match.
* `WindowIsKept` (`SourcesProofs`): `RegexWindow`, for texts of any length.  The buffer is
  the typed text from some letter on, and every longer suffix is wider than the limit
  (`StartsAt`); the width of a text is the number of its bytes, so that a longer suffix is
  never narrower.
  `MatchingAssumption` says that no two matches share an id, which `next_id`
  (`espanso-config/src/counter.rs`) and the separate range of the built-in matches
  (`MIN_BUILTIN_MATCH_ID`) give, that there are finitely many, that triggers and what is
  typed are letters, and that a letter has one to four bytes.
* `RenderingIsTopological` (`RenderingProofs`): for any graphs, no node is resolved before
  its dependencies, and a cycle is reported only where there is one.  The invariant: `path`
  is a chain of dependencies, its nodes and those of `order` make up `seen`, and every
  resolved node has its dependencies resolved.  `Rendering` restarts the walk for nested
  matches, so the theorem is stated of its specification.
* `PlansAreExact`, `NothingIsMissing` (`RenderingProofs`): `PlanIsExact` and
  `ResolvedNeverMissing`, for any matches, configurations, requests and results of the
  extensions, and any depth of matches inside matches.  What can be reached from the body
  is the least set closed under dependencies: the walk only enters nodes of it and leaves
  the body last, and what it has left is closed (`WalkReaches`, `WalkEnds`).  The own
  variables come out as declared because each waits for the one before it; that needs that
  no two have one name, and they have not when the walk ends, since the one that counts
  would then wait for itself (`DeclaredOrder`).  `Ordered` carries the order to the
  evaluation: what the next variable or the body refers to has a value, or will have one
  before, or is of a type that nobody evaluates; it holds of every frame of the stack, of
  those that wait too (`Nested`), and the graph under way is that of the innermost one
  (`Walked`).  The plan is a concatenation, so its positions are found by induction over
  the length (`FlattenOrder` in `SequenceLemmas`).  `RenderingAssumption` gives the types
  of the matches and requests, and says that no variable is called `__match_body`: the
  code does not check it (section 6).
* `ExpansionsAttributed` (`SourcesProofs`): `Attributed` is inductive together with two
  facts: the records wait in the order of their numbers, so that the one the writer is busy
  with is taken out once, and the id the writer holds is that of its record or of nobody
  (`SelectedOK`), because only the writer gives out ids and gives none while it holds one.
  With the foreign key that is why a clear between the statements cannot make an expansion
  count for another trigger.
* `HotKeysFire` (`SourcesProofs`): `FiredAsWritten`, for any shortcuts and any keymap.
  What is registered is what the shortcuts say, one for each combination (`RegisteredOK`);
  the memory of evdev holds the codes of keys that are down, and of all of them while none
  has lapsed (`MemoryOK`).  The rest is the way from a text to a code and back to a key:
  the last of the main keys is the only one, a modifier that was not written is not
  registered, and a code is that of one key.  On Linux a code is the symbol of a key: a
  hotkey that fires has keys down that have its symbols, and one whose keys are the only
  ones with their symbols fires; what is claimed of the others is that they fire on
  nothing else.  It assumes that the tables agree and that no two keys of a keyboard have
  the same code (`TablesAgree`, `CodesDistinct`, evaluated by TLC).  The memory is a
  filter by `FlattenSeq`, whose elements are found by induction over its length.
* `AltCodesHold` (`SourcesProofs`): `AltCodesAsTyped`: the buffer is what was typed as long
  as the middleware has seen every key.
* `CommandsInOrder` (`SourcesProofs`): the half of `CommandsArrive` that is safety.  Who
  waits is served in the order of the connections, a client connects when those before it
  have exited, and what is unread is that of a client that waits or is served (`LinesOK`,
  `QueueOK`, `BeforeOK`).

* `InstalledAreKept`, `FailuresAreUndone`, `UpdatesNeverGoBack` (`PackagesProofs`), for any
  packages, branches and options and any number of commands, failures and kills, assumed
  only that there are finitely many packages and that what is installed has a source.
  `Covered` says which directory is whole at each step of a save: the backup until the
  source file is written, the new directory from then on, and what the backup was while it
  is removed.  `FailedSaveRestores` says that after an error the old package is back or, when
  only reading it back has failed, the new one whole, and no backup is left; that the old
  one is always back is false (section 6).  `Guarded` says that the backup is what was there
  before; `Counted` that
  errors and what is left to update stay below the total until the last one, without which
  a command that saved its last package could report failure.  `KnownDirs` and `Asked` say
  that nothing from the hub is later than the hub or than an index still in use, and that
  an update brings the version its index has; the third theorem rests on `Covered` too,
  which knows the version that was copied.
* `InstallationTypes`, `RegistrationsHold`, `DirectoriesAgree` (`InstallationProofs`), for
  any processes, places, keys and budgets of commands and mishaps.  For the registration:
  unless it is in doubt, one command at a time changes it, none while it is said to hold,
  and the one that enables a unit has written it for itself.  For the directories: what a
  process looked up is what a look would find now, although the others create and mark
  directories meanwhile.  `Stable` is the reason: what is made is a default, which comes
  after everything that could have been found, or lies inside a configuration, or was
  itself found missing, unless a race was lost; and a legacy directory that is not the
  default is marked only by a process that found it so (`Extended`).  Between its look and
  its creation a process knows what was missing; only a portable application can be
  disappointed by what others made meanwhile, and `raced` has recorded it by then.  Two
  assumptions say that no place is called as the two marks of a doubtful registration and
  that the commands are those of the program.

* `FilesAccountedFor`, `StoreIsExact` (`InstallationProofs`): `NothingSilentlyMissing` and
  `LoadedExactly`, for any files, templates, edits and number of loads.  `ConfigurationInv`
  says of a load at any point what the theorems say of the store: each file that is asked
  for is loaded, reported or still on the stack (`NoneMissing`), which edits do not
  disturb, since the groups remember the imports they were read with; and, while nothing
  was edited since the load began, the configs read are those on disk but for those to be
  read, and the groups are files that can be reached (`ConfigsRight`, `GroupsRight`).
  `Reached` is the least set closed under imports: what is loaded lies in it, and when the
  stack is empty what is loaded or reported is closed, so that it is all of it, also around
  a cycle.  An edit leaves only the first half (`EditedLater`).
* `QueriesAreExact` (`InstallationProofs`): `QueryOnceImportsFirst`.  A query ends, because
  each step visits one file more or takes one entry from the stack: the recursive function
  has a value (`SomeGoesOnUntil`) and the end is reached (`EndReached`), by induction over
  both counts.  `QueryInv` holds at every step: each visited file is collected once or its
  own matches wait on the stack once (`CollectedOnce`); what is asked for and what visited
  files import is visited or on the stack, and nothing else is (`VisitsReached`); and before
  the own matches of a file without imports only files that were not loaded are looked at,
  so that it is collected before any file that imports it, even when it was first met on
  another way (`LeavesFirst`).  In a cycle there is no such order, and none is claimed.
* `ActiveIsDetectable` (`InstallationProofs`): `ActiveAreDetectable`.  The paths of a config
  are among those of all configs, a patch does not change them, and what can be reached
  from fewer files can be reached from more (`ReachedMore`).

`ConfigurationAssumption` gives the types of what a file may hold, says that there are
finitely many files, and that the default configuration and the base match file are among
those the models know by name.

* `NothingStaysPressed` (`DeviceProofs`): `NothingLeftPressed`, for any layout, any table of
  requests and any user.  It is a fact about the programs of the injectors before it is one
  about their steps: in every program each key that is pressed is released behind it, with
  no call between the two at which the program may break off (`LeavesOnly`), a text of any
  length being put together character by character, a combination there and back.
  `ReleasesOwn` carries it to the steps: a key that is down now is released by what is left
  of the program, or was left so by a wait in vain.
* `ClipboardComesBack` (`DeviceProofs`): `ClipboardRestored`.  `GuardHolds`: before the
  content is saved the clipboard is the user's; from then on the guard is, and the program
  ends with the call that restores it, which is also what an error leaves of it.
* `KeysAreAsTyped` (`DeviceProofs`): `KeysAsTyped`, for any keyboards, layout and requests.
  `Stands` says of the queues what `NoPhantoms` says of the stores: a key whose press waits
  is down on a keyboard of that stream, or its release waits behind the press; `AllKnown`
  says it of the stores, by the events that reach them (`Heard`).  `Follows`: the levels
  the keyboard state of a device goes through with its queue are those under which the
  symbols of its keys were found.  On macOS the modifiers of the store are among those of
  the callback, whose flags correct both.  On evdev a modifier or a key may outlive its press
  in the stores, and the theorem says which: only a modifier that some key means on one level
  and not on another (`Fickle`), and only a key that has no symbol on some level
  (`Symbolless`).  A keyboard whose modifiers mean the same on all levels leaves nothing.

`InjectionAssumption` and `DetectionAssumption` give the types of the layout, the keyboards
and the requests; there is a keyboard, without which the sources refuse to start
(`NoDevices` in `espanso-detect/src/evdev/mod.rs`).

Only model-checked: liveness (out of the prover's reach, as is `ENABLED`), with it
`CommandsArrive`, whose safety half is proved; and
`InjectedAsRequested`, which depends on what the layout makes of every call.

## 5. Plan

Done: the modules above.  What would come next:

1. A proof of `InjectedAsRequested`, one platform at a time.
2. The executors of the tray and of the windows.
3. The daemon's and the worker's loads as two loads in `Configuration`.

## 6. Findings

* **A change while the search bar is open** (`search_restart`): the restart gives up after
  30 seconds, the worker obeys later and exits with code 0, which nobody reports: the
  daemon is left without a worker.
* **A package that cannot be read back** (`packages_restore`): the backup of the old package
  is removed before the new one is read back, and when that fails the error is reported
  although there is nothing left to restore, against the comment on the guard.

Seen in the models, claimed by no run:

* the discard middleware keeps one window: after a second search bar, queued keys typed
  into the first are let through;
* a match that was not triggered by typing leaves the undo record of the one before it,
  and the Backspace after it types the old trigger; undoing an empty expansion makes the
  count of backspaces wrap;
* an injection completes a word trigger whose deletion is executed and whose text is
  discarded;
* an exit that comes while the daemon restarts its worker may leave the new worker behind:
  a daemon launched then cannot reach it before it has bound its socket, and gives up;
* on Windows, when events of software are let through (`win32_exclude_orphan_events: false`),
  the count of the program's own events may swallow the release of the paste shortcut whose
  press it let through, and the modifier store keeps Control for 30 seconds: the attempt to
  prove `NoPhantoms` brought it up, and the run shows it with a second request; the property
  is claimed of `exclude` only;
* a wait for the user that ends in vain leaves the modifiers of the character before it
  pressed on the virtual keyboard of evdev, for the next request to meet (`stuck`);
* on evdev Alt is Meta while Shift is held: released after Shift, it leaves Meta in the
  modifier store, and with it every key hidden from the matcher, for up to 30 seconds; a key
  without a symbol at its release stays in the stores of keys for 3 and 5 seconds;
* a portable application whose first two processes start while another copy starts may use
  two runtime directories, and so two locks and sockets (`path/mod.rs`);
* the hotkey filter of evdev does not know a symbol that is not on the first level of a key
  (`CTRL+NUMPAD1` on the usual layouts): the hotkey is refused in the log; on X11
  `CTRL+RAW(65)` and `CTRL+A` are one key, and the later of two such matches replaces the
  earlier;
* the keys of a keyboard that is unplugged stay recorded until they lapse;
* a hotkey expands its match in an application with `enable: false`, and under evdev fires
  with further modifiers held;
* an application that could not be named is never notified as holding Secure Input
  (`secure_input.rs`);
* a preference file cut short by a kill makes every later launcher panic, until it is
  removed by hand (`preferences/default.rs`, `espanso-kvs/src/persistent.rs`);
* `stats clear` fails with an error of the foreign key, and leaves the triggers, when an
  expansion is stored between its two deletes; the total, the number of triggers and the
  list that `stats` shows are three queries that may disagree; records that wait for the
  writer when the worker exits are lost;
* two variables of a match with one name, or a captured value and a variable, are refused
  as a circular dependency, since each variable waits for the one before it (`resolve.rs`,
  `generate_nodes`); a variable called `__match_body` would take the place of the body in
  the graph: the body would then lack its values;
* in `cli/cmd.rs` the argument `search` is tested twice, so that the second branch, which
  opens the configuration folder, is never taken.

## 7. Not modelled

The native hooks, the clipboards, the tray and windows, and the parsing of YAML and of the
command line are input and output: the models choose what they deliver.  `espanso-info`,
`espanso-ui` and `espanso-modulo` are bindings to native code.  The macOS application
edits match files and runs the commands; a file it saves is an edit of `Configuration`.
`open_config` is modelled as consuming its event.  The wrap of the 32-bit source id, after
2^32 events of one worker, is out of any bound TLC can reach.
