---------------------------- MODULE Installation ----------------------------
(***************************************************************************)
(* The host an installation leaves its traces on: the directories every    *)
(* process looks up for itself (path), the preferences (espanso-kvs), the  *)
(* entry of the service manager (service register, unregister, start), the *)
(* command in the PATH (env-path), and the launcher that sets all of it up *)
(* on the first run, with its wizard or, without one, waiting for the      *)
(* Accessibility permission.                                               *)
(*                                                                         *)
(* Processes run side by side and may be killed between any two steps; the *)
(* user may move the application in the meantime.                          *)
(***************************************************************************)
EXTENDS Naturals, FiniteSets, SequencesExt

CONSTANTS
    Systems,        \* a subset of {"linux", "macos", "windows"}
    Builds,         \* "wizard" (feature modulo) and "native"
    Places,         \* where the application may be
    Translocated,   \* the places macOS runs an unmoved download from
    Procs,          \* slots for processes
    Commands,       \* what the user may run
    MaxCommands,    \* bound on the commands
    MaxMishaps      \* bound on failures, crashes and moves

ASSUME InstallationAssumption ==
    /\ Systems \subseteq {"linux", "macos", "windows"}
    /\ Builds \subseteq {"wizard", "native"}
    /\ Translocated \subseteq Places /\ Places \ Translocated # {}
    /\ {"nobody", "contested"} \cap Places = {}
    /\ Commands \subseteq {"launcher", "register", "unregister", "start", "link", "unlink"}
    /\ MaxCommands \in Nat /\ MaxMishaps \in Nat

Nobody == "nobody"
Contested == "contested"
Foreign == "foreign"    \* a file or PATH entry of somebody else

VARIABLES
    os, build, app,     \* the system, the build, where the application is
    dirs, marked,       \* the directories, and those with files of a process
    prefs,              \* the preferences kept in each runtime directory
    entry, enabled,     \* the unit, agent or shortcut, and whether it is on
    links,              \* what answers to `espanso' in the PATH
    granted,            \* the Accessibility permission
    running,            \* runtime directories whose daemon lock is held
    due,                \* the launchers the service manager is to start
    procs,              \* the processes
    used, raced,        \* history: directories in use, look-ups that were raced
    registered,         \* history: the last registration
    commands, mishaps   \* bounds

hostVars == <<os, build>>
traceVars == <<dirs, marked, prefs, entry, enabled, links>>
historyVars == <<used, raced, registered>>
boundVars == <<commands, mishaps>>
vars == <<os, build, app, dirs, marked, prefs, entry, enabled, links, granted,
          running, due, procs, used, raced, registered, commands, mishaps>>

-----------------------------------------------------------------------------
(* The directories                                                         *)

Dir(root, sub) == [root |-> root, sub |-> sub, packages |-> ""]
Within(dir, packages) == [dir EXCEPT !.packages = packages]

PortableConfig(place) == Dir(place, ".espanso")
PortableRuntime(place) == Dir(place, ".espanso-runtime")
DotConfig == Dir("~/.config", "espanso")
\* dirs::data_local_dir, which is dirs::config_dir on macOS and
\* dirs::cache_dir on Windows.
LegacyRuntime == Dir("data", "espanso")
DefaultConfig == CASE os = "linux" -> DotConfig
                   [] os = "macos" -> Dir("data", "espanso")
                   [] os = "windows" -> Dir("roaming", "espanso")
DefaultRuntime == IF os = "windows" THEN Dir("data", "espanso")
                  ELSE Dir("cache", "espanso")
DefaultPackages(config) == Within(config, "match/packages")
Custom == Dir("custom", "")     \* --config_dir

\* The first of the candidates that exists, else the last of them, which is
\* then created.
Found(candidates, existing) ==
    LET i == SelectInSeq(candidates, LAMBDA d : d \in existing)
    IN  IF i # 0 THEN candidates[i] ELSE Last(candidates)

ConfigDir(exe) ==
    Found(<<PortableConfig(exe), Dir("~", ".espanso"), DotConfig>>
            \o (IF os = "macos" THEN <<Dir("preferences", "espanso")>> ELSE <<>>)
            \o <<DefaultConfig>>,
          dirs)

IsPortable(exe) == PortableConfig(exe) \in dirs

\* Mutant: a directory is taken for a legacy one without a look into it.
ByName(d) == TRUE
\* "we really have to analyse the content to determine this information"
\* (path/mod.rs, line 339).
IsLegacyRuntime(d) == d \in marked

LegacyIsThere ==
    /\ LegacyRuntime \in dirs
    /\ LegacyRuntime # DefaultRuntime => IsLegacyRuntime(LegacyRuntime)

PackagesDir(config, runtime) ==
    Found(<<DefaultPackages(config), Within(config, "packages"),
            Within(runtime, "packages"), DefaultPackages(config)>>,
          dirs)

RuntimeDirs == {PortableRuntime(p) : p \in Places}
               \cup {LegacyRuntime, Dir("cache", "espanso")}
Keys == {"has_completed_wizard", "has_selected_auto_start_option"}

-----------------------------------------------------------------------------

\* `option' is --config_dir (for the commands of env-path: --prompt).
NoProc == [pc |-> "idle", cmd |-> "none", exe |-> Nobody, option |-> FALSE,
           config |-> Custom, runtime |-> Custom, pages |-> {},
           trusted |-> FALSE]
NoEntry == [state |-> "none", target |-> Nobody]

Init ==
    /\ os \in Systems /\ build \in Builds
    /\ app \in (IF os = "macos" THEN Places ELSE Places \ Translocated)
    /\ dirs \in {{}, {PortableConfig(app)}, {DefaultConfig},
                 {DefaultConfig, LegacyRuntime},
                 {Dir("~", ".espanso"), DefaultRuntime}}
    /\ marked \in {{}, {LegacyRuntime} \cap dirs}
    /\ prefs = [d \in RuntimeDirs |-> [k \in Keys |-> "unset"]]
    /\ entry = NoEntry /\ enabled = FALSE
    /\ links \in {{}, {Foreign}}
    /\ granted = (os # "macos")
    /\ running = {} /\ due = {}
    /\ procs = [p \in Procs |-> NoProc]
    /\ used = {} /\ raced = {} /\ registered = Nobody
    /\ commands = 0 /\ mishaps = 0

Mishap == mishaps < MaxMishaps /\ mishaps' = mishaps + 1

\* Process p goes on at `place'; the host stays what it is.
At(p, place) == procs[p].pc = place /\ UNCHANGED <<hostVars, commands>>
Goto(p, place) == procs' = [procs EXCEPT ![p].pc = place]
Stops(p) == procs' = [procs EXCEPT ![p] = NoProc]

Pages == <<"welcome", "move bundle", "auto start", "add path", "accessibility">>
Page(p) == Found(Pages \o <<"none">>, procs[p].pages)
Leaves(p, place) == procs' = [procs EXCEPT ![p].pages = @ \ {Page(p)}, ![p].pc = place]

\* A command that the wizard runs as a child answers to its page.
Ends(p, ok) == IF procs[p].cmd # "launcher" THEN Stops(p)
               ELSE IF ok THEN Leaves(p, "page") ELSE Goto(p, "retry")

Starts(p, cmd, exe, option) ==
    procs' = [procs EXCEPT ![p] =
                [NoProc EXCEPT !.cmd = cmd, !.exe = exe, !.option = option,
                               !.trusted = granted,
                               !.pc = IF cmd \in {"link", "unlink"} THEN cmd
                                      ELSE "config"]]

\* A command of the user, with or without the option; those of env-path, which
\* share nothing with the others but the links, run alone.
Run(p, cmd, option) ==
    /\ procs[p] = NoProc /\ commands < MaxCommands
    /\ cmd \in {"link", "unlink"} => \A q \in Procs : procs[q] = NoProc
    /\ commands' = commands + 1
    /\ Starts(p, cmd, app, option)
    /\ UNCHANGED <<hostVars, app, traceVars, granted, running, due, historyVars, mishaps>>

\* The service manager starts a launcher; nothing starts when the application
\* is no longer where the entry says.
Spawn(p, exe) ==
    /\ procs[p] = NoProc /\ exe \in due
    /\ due' = due \ {exe}
    /\ IF exe = app THEN Starts(p, "launcher", exe, FALSE) ELSE UNCHANGED procs
    /\ UNCHANGED <<hostVars, app, traceVars, granted, running, historyVars, boundVars>>

Registering(p) == procs[p].pc \in {"register", "enable", "write", "unload", "load",
                                 "unregister", "remove"}

\* The registration that was is in doubt until this one ends, and afterwards too
\* when two commands change it at the same time.
Registers(p) == registered' = IF \E q \in Procs \ {p} : Registering(q) THEN Contested
                              ELSE Nobody

\* resolve_paths, one directory after the other.  Of the configuration and the
\* packages only the default one is ever made, by everybody who finds none, so
\* that it does not matter what comes between the look and the creation.
ResolveConfig(p) ==
    /\ At(p, "config")
    /\ LET c == IF procs[p].option THEN Custom ELSE ConfigDir(procs[p].exe)
       IN  /\ dirs' = dirs \cup {c}
           /\ procs' = [procs EXCEPT ![p].config = c, ![p].pc = "runtime"]
    /\ UNCHANGED <<app, marked, prefs, entry, enabled, links, granted, running,
                   due, historyVars, mishaps>>

Uses(p, r) == procs' = [procs EXCEPT ![p].runtime = r, ![p].pc = "packages"]

\* get_runtime_dir looks for the portable directory, then for the others.
ResolveRuntime(p) ==
    /\ At(p, "runtime")
    /\ LET r == PortableRuntime(procs[p].exe)
       IN  IF r \in dirs THEN Uses(p, r) ELSE Goto(p, "other runtime")
    /\ UNCHANGED <<app, traceVars, granted, running, due, historyVars, mishaps>>

OtherRuntime(p) ==
    /\ At(p, "other runtime")
    /\ IF LegacyIsThere THEN Uses(p, LegacyRuntime)
       ELSE IF DefaultRuntime \in dirs THEN Uses(p, DefaultRuntime)
       ELSE Goto(p, "create runtime")
    /\ UNCHANGED <<app, traceVars, granted, running, due, historyVars, mishaps>>

\* The portable applications that are in the middle of that.
LookingOn == {procs[q].exe : q \in
                {q \in Procs : /\ procs[q].pc \in {"other runtime", "create runtime"}
                              /\ IsPortable(procs[q].exe)}}

\* Nothing was there when it was looked for; an application that is not portable
\* may by now have made the default directory.
CreateRuntime(p) ==
    /\ At(p, "create runtime")
    /\ LET exe == procs[p].exe
           r == IF IsPortable(exe) THEN PortableRuntime(exe) ELSE DefaultRuntime
       IN  /\ dirs' = dirs \cup {r}
           /\ Uses(p, r)
           /\ raced' = IF r \in dirs \/ IsPortable(exe) THEN raced
                       ELSE raced \cup LookingOn
    /\ UNCHANGED <<app, marked, prefs, entry, enabled, links, granted, running,
                   due, used, registered, mishaps>>

\* The log file and the locks mark the runtime directory.
ResolvePackages(p) ==
    /\ At(p, "packages")
    /\ LET q == procs[p]
           k == PackagesDir(q.config, q.runtime)
       IN  /\ dirs' = dirs \cup {k}
           /\ marked' = marked \cup {q.runtime}
           /\ used' = used \cup {[exe |-> q.exe, option |-> q.option,
                                  config |-> q.config, runtime |-> q.runtime,
                                  packages |-> k]}
           /\ Goto(p, q.cmd)
           /\ IF q.cmd \in {"register", "unregister"} THEN Registers(p)
              ELSE UNCHANGED registered
    /\ UNCHANGED <<app, prefs, entry, enabled, links, granted, running, due, raced,
                   mishaps>>

-----------------------------------------------------------------------------
(* The preferences: a file per key, written in place, and a cache that dies *)
(* with its process                                                         *)

Preference(p, key) == prefs[procs[p].runtime][key]

\* std::fs::write truncates the file first (an error is a panic: see Kill).
WritePreference(p, place, next, key) ==
    /\ At(p, place)
    /\ \/ /\ Preference(p, key) # "torn"
          /\ prefs' = [prefs EXCEPT ![procs[p].runtime][key] = "torn"]
          /\ UNCHANGED procs
       \/ /\ Preference(p, key) = "torn"
          /\ prefs' = [prefs EXCEPT ![procs[p].runtime][key] = "true"]
          /\ Goto(p, next)
    /\ UNCHANGED <<app, dirs, marked, entry, enabled, links, granted, running, due,
                   historyVars, mishaps>>

-----------------------------------------------------------------------------
(* The launcher                                                            *)

Probe(p) ==
    /\ At(p, "launcher")
    /\ IF procs[p].runtime \in running THEN Stops(p)     \* already running
       ELSE Goto(p, IF build = "wizard" THEN "preferences"
                    ELSE IF procs[p].trusted THEN "populate" ELSE "waiting")
    /\ UNCHANGED <<app, traceVars, granted, running, due, historyVars, mishaps>>

IsInPath == Foreign \in links \/ (IF os = "windows" THEN links # {} ELSE app \in links)

\* Which pages the wizard has; a preference that cannot be read is a panic.
Preferences(p) ==
    /\ At(p, "preferences")
    /\ LET q == procs[p]
           completed == Preference(p, "has_completed_wizard") = "true"
           selected == Preference(p, "has_selected_auto_start_option") = "true"
           pages ==
             (IF completed THEN {} ELSE {"welcome"})
             \cup (IF os = "macos" /\ q.exe \in Translocated THEN {"move bundle"} ELSE {})
             \cup (IF os # "linux" /\ ~selected THEN {"auto start"} ELSE {})
             \cup (IF /\ os # "linux" /\ ~completed /\ ~IsInPath
                      /\ ~(os = "windows" /\ IsPortable(q.exe) /\ ~q.option)
                     THEN {"add path"} ELSE {})
             \cup (IF ~granted THEN {"accessibility"} ELSE {})
       IN  IF \E k \in Keys : Preference(p, k) = "torn" THEN Stops(p)
           ELSE procs' = [procs EXCEPT ![p].pages = pages,
                                       ![p].pc = IF pages = {} THEN "populate" ELSE "page"]
    /\ UNCHANGED <<app, traceVars, granted, running, due, historyVars, mishaps>>

\* The user goes through the pages, or closes the window, which ends the launcher
\* (after populate_default_config, whose files nothing here reads); the page that asks
\* to move the bundle can only be closed, and whether the one that waits for the
\* permission notices it depends on the system.
Turn(p) ==
    /\ At(p, "page")
    /\ \/ /\ Page(p) = "welcome" /\ Leaves(p, "page")
       \/ /\ Page(p) = "auto start"
          /\ \/ Goto(p, "selected")
             \/ Leaves(p, "selected")
       \/ /\ Page(p) = "add path"
          /\ Leaves(p, "page") \/ Goto(p, "link")
       \/ /\ Page(p) = "accessibility" /\ granted /\ Leaves(p, "page")
       \/ /\ Page(p) = "none" /\ Goto(p, "completed")
       \/ /\ Page(p) # "none" /\ Stops(p)
    /\ UNCHANGED <<app, traceVars, granted, running, due, historyVars, mishaps>>

\* auto_start_handler: the option counts as selected before it is carried out.
Select(p) == WritePreference(p, "selected",
                             IF Page(p) = "auto start" THEN "auto start" ELSE "page",
                             "has_selected_auto_start_option")

\* The child of configure_auto_start is given no --config_dir.
AutoStart(p) ==
    /\ At(p, "auto start")
    /\ LET c == ConfigDir(procs[p].exe)
       IN  dirs' = dirs \cup {c, PackagesDir(c, procs[p].runtime)}
    /\ Goto(p, "register")
    /\ Registers(p)
    /\ UNCHANGED <<app, marked, prefs, entry, enabled, links, granted, running, due,
                   used, raced, mishaps>>

\* "Do you want to retry? You can always configure this option later".
Retry(p) ==
    /\ At(p, "retry")
    /\ \/ Leaves(p, "page")
       \/ Goto(p, IF Page(p) = "auto start" THEN "selected" ELSE "link")
    /\ UNCHANGED <<app, traceVars, granted, running, due, historyVars, mishaps>>

Complete(p) == WritePreference(p, "completed",
                               IF build = "wizard" THEN "populate" ELSE "launch",
                               "has_completed_wizard")

\* accessibility_granted_fresh: the answer a process gets for itself stays the
\* one it had when it started, so a child of the same binary is asked.
GrantedFresh(p) == procs[p].trusted \/ (granted /\ procs[p].exe = app)

Wait(p) ==
    /\ At(p, "waiting")
    /\ GrantedFresh(p)
    /\ Goto(p, "populate")
    /\ UNCHANGED <<app, traceVars, granted, running, due, historyVars, mishaps>>

\* populate_default_config creates the files that are missing.
Populate(p) ==
    /\ At(p, "populate")
    /\ Goto(p, IF build = "wizard" THEN "launch" ELSE "completed")
    /\ UNCHANGED <<app, traceVars, granted, running, due, historyVars, mishaps>>

\* launch_daemon: the daemon looks its directories up itself, given what was
\* given to the launcher, and keeps the lock it finds there; the launcher is over.
Launch(p) ==
    /\ At(p, "launch")
    /\ IF procs[p].exe = app THEN Starts(p, "daemon", app, procs[p].option)
       ELSE Stops(p)
    /\ UNCHANGED <<app, traceVars, granted, running, due, historyVars, mishaps>>

\* From here on the daemon is the lock that it holds.
Serve(p) ==
    /\ At(p, "daemon")
    /\ running' = running \cup {procs[p].runtime}
    /\ Stops(p)
    /\ UNCHANGED <<app, traceVars, granted, due, historyVars, mishaps>>

-----------------------------------------------------------------------------
(* The service                                                             *)

Registered(p) == registered' = IF registered = Contested THEN Contested
                               ELSE procs[p].exe

\* Mutant: an entry that exists is kept.
WriteUnitOnce(p) ==
    /\ At(p, "register") /\ os = "linux"
    /\ IF entry = NoEntry THEN entry' = [state |-> "whole", target |-> procs[p].exe]
       ELSE UNCHANGED entry
    /\ Goto(p, "enable")
    /\ UNCHANGED <<app, dirs, marked, prefs, enabled, links, granted, running, due,
                   historyVars, mishaps>>

\* linux.rs: the unit file is written anew, in place.
WriteUnit(p) ==
    /\ At(p, "register") /\ os = "linux"
    /\ \/ /\ entry.state # "torn"
          /\ entry' = [state |-> "torn", target |-> Nobody]
          /\ UNCHANGED <<procs, mishaps>>
       \/ /\ entry.state = "torn"
          /\ entry' = [state |-> "whole", target |-> procs[p].exe]
          /\ Goto(p, "enable") /\ UNCHANGED mishaps
       \/ Mishap /\ Ends(p, FALSE) /\ UNCHANGED entry
    /\ UNCHANGED <<app, dirs, marked, prefs, enabled, links, granted, running, due,
                   historyVars>>

EnableUnit(p) ==
    /\ At(p, "enable")
    /\ \/ /\ entry.state = "whole"
          /\ enabled' = TRUE /\ Ends(p, TRUE) /\ Registered(p) /\ UNCHANGED mishaps
       \/ /\ entry.state # "whole"
          /\ Ends(p, FALSE) /\ UNCHANGED <<enabled, registered, mishaps>>
       \/ Mishap /\ Ends(p, FALSE) /\ UNCHANGED <<enabled, registered>>
    /\ UNCHANGED <<app, dirs, marked, prefs, entry, links, granted, running, due,
                   used, raced>>

\* macos.rs: the agent is written when there is none, and loaded anew.
WriteAgent(p) ==
    /\ At(p, "register") /\ os = "macos"
    /\ IF procs[p].exe \in Translocated THEN Ends(p, FALSE) /\ UNCHANGED entry
       ELSE IF entry = NoEntry
         THEN /\ entry' = [state |-> "torn", target |-> procs[p].exe]
              /\ Goto(p, "write")
         ELSE Goto(p, "unload") /\ UNCHANGED entry
    /\ UNCHANGED <<app, dirs, marked, prefs, enabled, links, granted, running, due,
                   historyVars, mishaps>>

FinishAgent(p) ==
    /\ At(p, "write")
    /\ \/ /\ entry' = [state |-> "whole", target |-> procs[p].exe]
          /\ Goto(p, "unload") /\ UNCHANGED mishaps
       \/ Mishap /\ Ends(p, FALSE) /\ UNCHANGED entry
    /\ UNCHANGED <<app, dirs, marked, prefs, enabled, links, granted, running, due,
                   historyVars>>

\* The result of the unload is not looked at.
UnloadAgent(p) ==
    /\ At(p, "unload")
    /\ enabled' = FALSE
    /\ Goto(p, "load")
    /\ UNCHANGED <<app, dirs, marked, prefs, entry, links, granted, running, due,
                   historyVars, mishaps>>

\* RunAtLoad: what is loaded is started.
LoadAgent(p) ==
    /\ At(p, "load")
    /\ \/ /\ entry.state = "whole"
          /\ enabled' = TRUE /\ due' = due \cup {entry.target}
          /\ Ends(p, TRUE) /\ Registered(p) /\ UNCHANGED mishaps
       \/ /\ entry.state # "whole"
          /\ Ends(p, FALSE) /\ UNCHANGED <<enabled, due, registered, mishaps>>
       \/ Mishap /\ Ends(p, FALSE) /\ UNCHANGED <<enabled, due, registered>>
    /\ UNCHANGED <<app, dirs, marked, prefs, entry, links, granted, running, used, raced>>

\* win.rs: the shortcut is saved by PowerShell.
WriteShortcut(p) ==
    /\ At(p, "register") /\ os = "windows"
    /\ \/ /\ entry' = [state |-> "whole", target |-> procs[p].exe]
          /\ enabled' = TRUE
          /\ Ends(p, TRUE) /\ Registered(p) /\ UNCHANGED mishaps
       \/ Mishap /\ Ends(p, FALSE) /\ UNCHANGED <<entry, enabled, registered>>
    /\ UNCHANGED <<app, dirs, marked, prefs, links, granted, running, due, used, raced>>

\* The unit is disabled, which may fail (on macOS the agent is unloaded, whatever
\* comes of it), then removed.
Disable(p) ==
    /\ At(p, "unregister")
    /\ \/ /\ entry = NoEntry
          /\ Stops(p) /\ UNCHANGED <<enabled, mishaps>>
       \/ /\ entry # NoEntry
          /\ enabled' = (enabled /\ os = "windows")
          /\ Goto(p, "remove") /\ UNCHANGED mishaps
       \/ /\ entry # NoEntry /\ os = "linux"
          /\ Mishap /\ Stops(p) /\ UNCHANGED enabled
    /\ UNCHANGED <<app, dirs, marked, prefs, entry, links, granted, running, due,
                   historyVars>>

RemoveEntry(p) ==
    /\ At(p, "remove")
    /\ Stops(p)
    /\ entry' = NoEntry /\ enabled' = FALSE
    /\ UNCHANGED <<app, dirs, marked, prefs, links, granted, running, due, historyVars,
                   mishaps>>

\* Only Linux looks at both the unit and the binary it points to.
UnitEnabled(exe) == enabled /\ entry = [state |-> "whole", target |-> exe]
AgentExists == entry # NoEntry
ShortcutReadable == entry.state = "whole"

\* start_service: the launchers that the service manager is asked for.
SystemdStarts(exe) == IF UnitEnabled(exe) THEN {entry.target} ELSE {}
LaunchdStarts == IF AgentExists /\ enabled THEN {entry.target} ELSE {}
Started(exe) == CASE os = "linux" -> SystemdStarts(exe)
                  [] os = "macos" -> LaunchdStarts
                  [] os = "windows" -> {exe}

\* start_main; without the service manager (--unmanaged) it becomes a launcher
\* of its own.  (The lock of the worker, which it probes, is held while the
\* daemon runs: see Supervision.)
Start(p) ==
    /\ At(p, "start")
    /\ LET q == procs[p]
       IN  \/ /\ q.runtime \in running
              /\ Stops(p) /\ UNCHANGED due
           \/ /\ q.runtime \notin running /\ os # "windows"
              /\ Starts(p, "launcher", q.exe, q.option) /\ UNCHANGED due
           \/ /\ q.runtime \notin running
              /\ Stops(p)
              /\ due' = due \cup Started(q.exe)
    /\ UNCHANGED <<app, traceVars, granted, running, historyVars, mishaps>>

-----------------------------------------------------------------------------
(* The command in the PATH: a link in /usr/local/bin, or a directory in the *)
(* Path of the user                                                         *)

\* On macOS a script asks for the administrator, who may decline.
Elevates(p, change) ==
    \/ /\ os = "macos" /\ (procs[p].cmd = "launcher" \/ procs[p].option)
       /\ change /\ Ends(p, TRUE)
    \/ UNCHANGED links /\ Ends(p, FALSE)

\* The Path is read, extended and written back; one that cannot be read counts
\* as empty.
AddToPath(p) ==
    /\ At(p, "link") /\ os = "windows"
    /\ \/ links' = links \cup {procs[p].exe} /\ UNCHANGED mishaps
       \/ Mishap /\ links' = {procs[p].exe}
    /\ Ends(p, TRUE)
    /\ UNCHANGED <<app, dirs, marked, prefs, entry, enabled, granted, running, due,
                   historyVars>>

\* A link whose target is gone does not `exist', so that it is not removed
\* and stands in the way of the new one.
Link(p) ==
    /\ At(p, "link") /\ os # "windows"
    /\ LET exe == procs[p].exe
       IN  \/ /\ os = "macos" /\ exe \in Translocated
              /\ Ends(p, FALSE) /\ UNCHANGED links
           \/ /\ ~(os = "macos" /\ exe \in Translocated)
              /\ \/ /\ links \in {{}, {app}}
                    /\ links' = {exe} /\ Ends(p, TRUE)
                 \/ /\ links \notin {{}, {app}}
                    /\ Ends(p, FALSE) /\ UNCHANGED links
                 \/ Elevates(p, links' = {exe})
    /\ UNCHANGED <<app, dirs, marked, prefs, entry, enabled, granted, running, due,
                   historyVars, mishaps>>

\* Every entry of the Path that names the program goes.
RemoveFromPath(p) ==
    /\ At(p, "unlink") /\ os = "windows"
    /\ links' = links \cap {Foreign} /\ Ends(p, TRUE)
    /\ UNCHANGED <<app, dirs, marked, prefs, entry, enabled, granted, running, due,
                   historyVars, mishaps>>

Unlink(p) ==
    /\ At(p, "unlink") /\ os # "windows"
    /\ \/ links' = {} /\ Ends(p, links # {})
       \/ Elevates(p, links' = {})
    /\ UNCHANGED <<app, dirs, marked, prefs, entry, enabled, granted, running, due,
                   historyVars, mishaps>>

-----------------------------------------------------------------------------
(* The world                                                               *)

\* What the service manager does when the user logs in, or after a reboot.
Login ==
    /\ commands < MaxCommands /\ commands' = commands + 1
    /\ due' = IF entry.state = "whole" /\ enabled THEN due \cup {entry.target} ELSE due
    /\ UNCHANGED <<hostVars, app, traceVars, granted, running, procs, historyVars, mishaps>>

\* The user grants the permission when asked for it.
Grant ==
    /\ ~granted /\ granted' = TRUE
    /\ \E p \in Procs : procs[p].pc = "waiting" \/ Page(p) = "accessibility"
    /\ UNCHANGED <<hostVars, app, traceVars, running, due, procs, historyVars, boundVars>>

MoveApp(place) ==
    /\ place # app /\ Mishap
    /\ app' = place
    /\ UNCHANGED <<hostVars, traceVars, granted, running, due, procs, historyVars, commands>>

Kill(p) ==
    /\ procs[p] # NoProc /\ Mishap
    /\ Stops(p)
    /\ UNCHANGED <<hostVars, app, traceVars, granted, running, due, historyVars, commands>>

DaemonStops ==
    /\ running # {} /\ commands < MaxCommands
    /\ running' = {}
    /\ UNCHANGED <<hostVars, app, traceVars, granted, due, procs, historyVars, boundVars>>

ProcStep(p) ==
    \/ ResolveConfig(p) \/ ResolveRuntime(p) \/ OtherRuntime(p)
    \/ CreateRuntime(p) \/ ResolvePackages(p)
    \/ Probe(p) \/ Preferences(p) \/ Select(p) \/ AutoStart(p)
    \/ Complete(p) \/ Wait(p) \/ Populate(p) \/ Launch(p)
    \/ Serve(p)
    \/ WriteUnit(p) \/ EnableUnit(p) \/ WriteAgent(p) \/ FinishAgent(p)
    \/ UnloadAgent(p) \/ LoadAgent(p)
    \/ WriteShortcut(p) \/ Disable(p) \/ RemoveEntry(p) \/ Start(p)
    \/ AddToPath(p) \/ Link(p) \/ RemoveFromPath(p) \/ Unlink(p)

UserStep(p) ==
    \/ \E cmd \in Commands : Run(p, cmd, FALSE) \/ Run(p, cmd, TRUE)
    \/ Turn(p) \/ Retry(p)

World == \/ Login \/ Grant \/ DaemonStops
         \/ \E place \in Places : MoveApp(place)
         \/ \E p \in Procs : Kill(p) \/ \E exe \in Places : Spawn(p, exe)

Next == World \/ \E p \in Procs : ProcStep(p) \/ UserStep(p)

\* A process that can go on does; nothing is asked of the user.
Fairness == \A p \in Procs : WF_vars(ProcStep(p))

Spec == Init /\ [][Next]_vars /\ Fairness

-----------------------------------------------------------------------------
(* Properties                                                              *)

\* Every process looks its directories up for itself, and those that exist
\* decide; still all processes of one application agree on them, so that the
\* lock, the socket and the preferences of one are those of all.  With another
\* configuration directory only the runtime directory is the same.  Excepted
\* are the runtime directories of a portable application that was looking for
\* one while another application made the default one: a process that had found
\* nothing makes its own, one that came later uses the default one.
SameDirectories ==
    \A a, b \in used : a.exe = b.exe =>
        /\ a.exe \notin raced => a.runtime = b.runtime
        /\ a.option = b.option => a.config = b.config /\ a.packages = b.packages

\* A registration that has succeeded holds until another command touches it:
\* the next login starts a launcher and, except on macOS, where an entry that
\* exists is never rewritten, the one of the application that registered.
RegistrationHolds ==
    registered \in Places =>
        /\ entry.state = "whole" /\ enabled
        /\ os # "macos" => entry.target = registered
=============================================================================
