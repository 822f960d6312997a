----------------------------- MODULE Configuration -----------------------------
(***************************************************************************)
(* Loading the configuration: the launcher populates an empty directory,   *)
(* a process reads the default config, the configs of applications and the *)
(* match files with what they import, while the user edits any of them,    *)
(* and a watcher asks for another load when something has changed.         *)
(*                                                                         *)
(* A file is read in one step; directories and sets of paths are walked in *)
(* any order.  The options of a config and the fields of a match are       *)
(* partial functions: an option that is not in the domain is not set.      *)
(* A path is canonical: two spellings of it are the same.                  *)
(***************************************************************************)
EXTENDS SequencesExt

CONSTANTS
    ConfigFiles, \* files that may be in config/, the two defaults among them
    MatchFiles,  \* files a glob or an import may lead to
    Globs,       \* the match files each include pattern stands for
    Standard,    \* the patterns of the standard includes
    Apps,        \* applications that may have the focus: [title, exec, class]
    OS,          \* the operating system
    Patches,     \* the built-in patches, in order: [enabled, apps, options]
    DefaultSeparators, \* the characters that end a word unless the option is set
    BuiltinIds,  \* ids of the built-in matches
    Writes,      \* what the user may write: <<file, content>>
    Template,    \* the files the launcher writes into an empty directory
    InitialDisks,
    MaxEdits     \* bound: edits of the user

Absent    == [exists |-> FALSE]
EmptyFile == [exists |-> TRUE, parses |-> TRUE, body |-> <<>>]
Torn      == [exists |-> TRUE, parses |-> FALSE, body |-> <<>>]

Get(f, x, default) == IF x \in DOMAIN f THEN f[x] ELSE default
Put(f, x, value) == [y \in DOMAIN f \cup {x} |-> IF y = x THEN value ELSE f[y]]
-----------------------------------------------------------------------------
(* Configs.                                                                *)

\* An unset `key_delay' takes the value of the option it replaced.
ParsedConfig(y) ==
    LET kept == Restrict(y, DOMAIN y \ {"backspace_delay"})
    IN  IF "backspace_delay" \in DOMAIN y
        THEN kept @@ ("key_delay" :> y["backspace_delay"]) ELSE kept

\* The options the child leaves unset are the parent's, filters included.
Merged(child, parent) == child @@ parent

RegexFilters == {"filter_title", "filter_exec", "filter_class"}
FilterOptions == RegexFilters \cup {"filter_os"}

Includes(c) ==
    (IF Get(c, "use_standard_includes", TRUE) THEN Standard ELSE {})
    \cup Get(c, "includes", {}) \cup Get(c, "extra_includes", {})
Excludes(c) == Get(c, "excludes", {}) \cup Get(c, "extra_excludes", {})

CalculatePaths(d, patterns) ==
    {p \in MatchFiles : d[p].exists /\ \E g \in patterns : p \in Globs[g]}
MatchPaths(d, c) ==
    CalculatePaths(d, Includes(c)) \ CalculatePaths(d, Excludes(c))

\* The config of file f, or {} when it cannot be loaded.
ResolvedConfig(d, f, parent) ==
    LET options == Merged(ParsedConfig(d[f].body), parent)
    IN  {[file |-> f, options |-> options, paths |-> MatchPaths(d, options)] :
           ok \in {b \in {TRUE} :
             /\ d[f].exists /\ d[f].parses
             /\ \A r \in RegexFilters \cap DOMAIN options : options[r].compiles}}

\* Does a config apply to the application: all of its filters, and at least one.
IsMatch(c, app) ==
    LET attribute == [filter_title |-> app.title, filter_exec |-> app.exec,
                      filter_class |-> app.class]
    IN  /\ FilterOptions \cap DOMAIN c.options # {}
        /\ "filter_os" \in DOMAIN c.options => c.options["filter_os"] = OS
        /\ \A r \in RegexFilters \cap DOMAIN c.options :
              attribute[r] \in c.options[r].matches

\* The value an option has where nobody sets it; what is not listed is none.
Defaults ==
    [enable |-> TRUE, backend |-> "Auto", clipboard_threshold |-> 100,
     auto_restart |-> TRUE, apply_patch |-> TRUE, undo_backspace |-> TRUE,
     backspace_limit |-> 5, search_shortcut |-> "ALT+SPACE",
     preserve_clipboard |-> TRUE, restore_clipboard_delay |-> 300,
     pre_paste_delay |-> 100, paste_shortcut_event_delay |-> 10,
     disable_x11_fast_inject |-> FALSE, x11_use_xclip_backend |-> FALSE,
     x11_use_xdotool_backend |-> FALSE, show_icon |-> TRUE, show_notifications |-> TRUE,
     secure_input_notification |-> TRUE, stats_enabled |-> FALSE,
     emulate_alt_codes |-> OS = "windows", post_form_delay |-> 200,
     max_form_width |-> 700, max_form_height |-> 500, max_regex_buffer_size |-> 30,
     post_search_delay |-> 200, win32_exclude_orphan_events |-> TRUE,
     win32_keyboard_layout_cache_interval |-> 2000,
     word_separators |-> DefaultSeparators]
Unset == "Unset"

Backends == {"Auto", "Inject", "Clipboard"}
ToggleKeys == {"ctrl", "alt", "shift", "meta", "right_ctrl", "right_alt", "right_shift",
               "right_meta", "left_ctrl", "left_alt", "left_shift", "left_meta"}

\* An unknown backend falls back to the default; "off" is no shortcut and no trigger,
\* and neither it nor a key that is unknown is a toggle key.
Option(c, o) ==
    LET value == Get(c.options, o, Get(Defaults, o, Unset))
        none  == \/ o \in {"search_shortcut", "search_trigger"} /\ value = "off"
                 \/ o = "toggle_key" /\ value \notin ToggleKeys
    IN  IF o = "backend" /\ value \notin Backends THEN "Auto"
        ELSE IF none THEN Unset ELSE value
-----------------------------------------------------------------------------
(* Match files.                                                            *)

MatchFields == {"trigger", "triggers", "regex", "word", "left_word", "right_word",
                "propagate_case", "uppercase_style", "force_clipboard", "force_mode",
                "replace", "markdown", "html", "form", "image_path", "vars"}

\* `trigger' hides `triggers', blank triggers are dropped, and a regex counts only
\* when no trigger is left.
Cause(y) ==
    LET declared == IF "trigger" \in DOMAIN y THEN {y["trigger"]} ELSE Get(y, "triggers", {})
        triggers == declared \ {"blank"}
        word     == Get(y, "word", FALSE)
    IN  IF triggers # {}
        THEN [kind |-> "trigger", triggers |-> triggers,
              leftWord |-> Get(y, "left_word", word),
              rightWord |-> Get(y, "right_word", word),
              propagateCase |-> Get(y, "propagate_case", FALSE)]
        ELSE IF "regex" \in DOMAIN y THEN [kind |-> "regex", regex |-> y["regex"]]
        ELSE [kind |-> "none"]

ForceMode(y) ==
    IF Get(y, "force_clipboard", FALSE) THEN "clipboard"
    ELSE IF Get(y, "force_mode", Unset) \in {"clipboard", "keys"} THEN y["force_mode"]
    ELSE Unset

\* A form becomes a text whose controls are fields of the variable form1.
Effect(y) ==
    LET has(f) == f \in DOMAIN y
        text(format, body, vars) ==
          [kind |-> "text", format |-> format, replace |-> body, vars |-> vars,
           forceMode |-> ForceMode(y)]
    IN  CASE has("replace")    -> text("Plain", y["replace"], Get(y, "vars", <<>>))
          [] ~has("replace") /\ has("markdown") ->
                text("Markdown", y["markdown"], Get(y, "vars", <<>>))
          [] ~has("replace") /\ ~has("markdown") /\ has("html") ->
                text("Html", y["html"], Get(y, "vars", <<>>))
          [] OTHER -> IF has("form") THEN text("Plain", y["form"], <<"form1">>)
                      ELSE IF has("image_path") THEN [kind |-> "image"]
                      ELSE [kind |-> "none"]

\* A match without effect, or with a variable that cannot be converted, is an error.
Convertible(y) ==
    /\ Effect(y).kind # "none"
    /\ Effect(y).kind = "text" => "bad" \notin Range(Effect(y).vars)

\* A style without case propagation, a blank trigger and an unknown style are only
\* worth a warning.
Warned(y) ==
    \/ "uppercase_style" \in DOMAIN y /\ "propagate_case" \notin DOMAIN y
    \/ Get(y, "uppercase_style", "uppercase") = "unknown"
    \/ "blank" \in (IF "trigger" \in DOMAIN y THEN {y["trigger"]} ELSE Get(y, "triggers", {}))

ConvertedMatch(f, n, y) == [id |-> <<f, n>>, cause |-> Cause(y), effect |-> Effect(y)]

\* Imports that do not lead to a file are left out.
ResolveImports(d, imports) ==
    FlattenSeq([i \in DOMAIN imports |->
        IF d[imports[i]].exists THEN <<imports[i]>> ELSE <<>>])

\* What cannot be converted is left out and reported, like those imports.
MatchGroup(d, f) ==
    LET body == d[f].body
        declared == Get(body, "matches", <<>>)
        vars == Get(body, "global_vars", <<>>)
        imports == Get(body, "imports", <<>>)
    IN  [imports |-> ResolveImports(d, imports),
         matches |-> FlattenSeq([n \in DOMAIN declared |->
             IF Convertible(declared[n]) THEN <<ConvertedMatch(f, n, declared[n])>> ELSE <<>>]),
         vars    |-> SelectSeq(vars, LAMBDA v : v # "bad"),
         errors  |-> (\E n \in DOMAIN declared : ~Convertible(declared[n]))
                     \/ "bad" \in Range(vars)
                     \/ \E p \in Range(imports) : ~d[p].exists,
         warns   |-> \E n \in DOMAIN declared : Warned(declared[n])]

\* A file that is not YAML by its name is an error too: it is never `parses'.
Loadable(d, f) == d[f].exists /\ d[f].parses
-----------------------------------------------------------------------------
\* What a file may hold at any time, and what the models assume of it.
Contents ==
    {Absent, EmptyFile, Torn, Template["default.yml"], Template["base.yml"]}
    \cup {w[2] : w \in Writes} \cup UNION {Range(d) : d \in InitialDisks}

IsSequence(s) == s \in Seq(Range(s))

ASSUME ConfigurationAssumption ==
    /\ IsFiniteSet(ConfigFiles) /\ {"default.yml", "default.yaml"} \subseteq ConfigFiles
    /\ IsFiniteSet(MatchFiles) /\ {"base.yml", "base.yaml"} \subseteq MatchFiles
    /\ \A d \in InitialDisks : d \in [ConfigFiles \cup MatchFiles -> Range(d)]
    /\ \A w \in Writes : w[1] \in ConfigFiles \cup MatchFiles
    /\ \A c \in Contents : c.exists \in BOOLEAN
    /\ \A c \in {b \in Contents : b.exists} :
          /\ c.parses \in BOOLEAN
          /\ Get(c.body, "imports", <<>>) \in Seq(MatchFiles)
          /\ IsSequence(Get(c.body, "matches", <<>>))
-----------------------------------------------------------------------------
VARIABLES
    disk,     \* the content of every file
    setup,    \* the launcher populating the directory
    load,     \* the load in progress
    store,    \* what the last load that succeeded gave: {} or one store
    auto,     \* auto_restart as the daemon loaded it first; it is not read again
    gui,      \* the troubleshooter: "none", "warning", "fatal", or "aborted"
    changed,  \* has the watcher's debouncer seen an event
    signals,  \* notifications sent by the watcher
    watching, \* has the watcher's thread got as far as watching
    edits,    \* history: edits so far
    missed    \* history: was a file changed before the watcher watched

configurationVars == <<disk, setup, load, store, auto, gui, changed, signals, watching, edits, missed>>

NoLoad == [at |-> "none"]
Begin  == [at |-> "default"]

ConfigurationInit ==
    /\ disk \in InitialDisks
    /\ setup = "check"
    /\ load = NoLoad
    /\ store = {}
    /\ auto = TRUE
    /\ gui = "none"
    /\ changed = FALSE
    /\ signals = 0
    /\ watching = FALSE
    /\ edits = 0
    /\ missed = FALSE

\* The file of the default config, if there is one: a sequence of at most one.
DefaultFile(d) ==
    IF d["default.yml"].exists THEN <<"default.yml">>
    ELSE IF d["default.yaml"].exists THEN <<"default.yaml">> ELSE <<>>
-----------------------------------------------------------------------------
(* The launcher.                                                           *)

\* A file that is missing is created, then written.
PopulateDefault ==
    /\ setup = "check"
    /\ IF DefaultFile(disk) # <<>>
       THEN UNCHANGED disk /\ setup' = "base"
       ELSE disk' = [disk EXCEPT !["default.yml"] = EmptyFile] /\ setup' = "write default"
    /\ UNCHANGED <<auto, load, store, gui, changed, signals, edits, watching, missed>>

WriteDefault ==
    /\ setup = "write default"
    /\ disk' = [disk EXCEPT !["default.yml"] = Template["default.yml"]]
    /\ setup' = "base"
    /\ UNCHANGED <<auto, load, store, gui, changed, signals, edits, watching, missed>>

PopulateBase ==
    /\ setup = "base"
    /\ IF disk["base.yml"].exists \/ disk["base.yaml"].exists
       THEN UNCHANGED disk /\ setup' = "done"
       ELSE disk' = [disk EXCEPT !["base.yml"] = EmptyFile] /\ setup' = "write base"
    /\ UNCHANGED <<auto, load, store, gui, changed, signals, edits, watching, missed>>

WriteBase ==
    /\ setup = "write base"
    /\ disk' = [disk EXCEPT !["base.yml"] = Template["base.yml"]]
    /\ setup' = "done"
    /\ UNCHANGED <<auto, load, store, gui, changed, signals, edits, watching, missed>>

\* The launcher dies half way through a write and is started again: what it left
\* behind is taken for the user's.
LauncherCrash ==
    /\ setup \in {"write default", "write base"}
    /\ edits < MaxEdits
    /\ edits' = edits + 1
    /\ LET f == IF setup = "write default" THEN "default.yml" ELSE "base.yml" IN
       \E left \in {EmptyFile, Torn} : disk' = [disk EXCEPT ![f] = left]
    /\ setup' = "check"
    /\ UNCHANGED <<auto, load, store, gui, changed, signals, watching, missed>>
-----------------------------------------------------------------------------
(* A load, file by file.                                                   *)

StartLoad ==
    /\ setup = "done" /\ load = NoLoad /\ store = {} /\ gui = "none"
    /\ load' = Begin
    /\ UNCHANGED <<auto, disk, setup, store, gui, changed, signals, edits, watching, missed>>

\* A fatal error: the store in use, if any, stays, and the troubleshooter is shown.
Fatal == load' = NoLoad /\ gui' = "fatal"

LoadDefault ==
    /\ load.at = "default"
    /\ LET file == DefaultFile(disk)
           config == IF file = <<>> THEN {} ELSE ResolvedConfig(disk, Head(file), <<>>)
       IN  IF config = {} THEN Fatal
           ELSE /\ load' = [at |-> "customs", default |-> ChooseUnique(config, LAMBDA c : TRUE),
                            customs |-> <<>>, errors |-> {}, seen |-> edits,
                            todo |-> {f \in ConfigFiles : disk[f].exists} \ {Head(file)}]
                /\ UNCHANGED gui
    /\ UNCHANGED <<auto, disk, setup, store, changed, signals, edits, watching, missed>>

\* Mutant: the first config that cannot be loaded ends the directory.
LoadCustomStops(f) ==
    /\ load.at = "customs"
    /\ f \in load.todo
    /\ LET config == ResolvedConfig(disk, f, load.default.options)
       IN  load' = IF config = {} THEN [load EXCEPT !.todo = {}, !.errors = @ \cup {f}]
                   ELSE [load EXCEPT !.todo = @ \ {f},
                           !.customs = Append(@, ChooseUnique(config, LAMBDA c : TRUE))]
    /\ UNCHANGED <<auto, disk, setup, store, gui, changed, signals, edits, watching, missed>>

\* The configs of applications, best effort, in the order of the directory.
LoadCustom(f) ==
    /\ load.at = "customs"
    /\ f \in load.todo
    /\ LET config == ResolvedConfig(disk, f, load.default.options)
       IN  load' = [load EXCEPT !.todo = @ \ {f},
                       !.customs = IF config = {} THEN @
                                   ELSE Append(@, ChooseUnique(config, LAMBDA c : TRUE)),
                       !.errors = IF config = {} THEN @ \cup {f} ELSE @]
    /\ UNCHANGED <<auto, disk, setup, store, gui, changed, signals, edits, watching, missed>>

\* Mutant: only the default config's match files are loaded.
DefaultMatchPaths(default, customs) == default.paths

AllMatchPaths(default, customs) ==
    default.paths \cup UNION {customs[i].paths : i \in DOMAIN customs}

\* The match files of all the configs, as a set: in any order.
ListGroups ==
    /\ load.at = "customs"
    /\ load.todo = {}
    /\ \E order \in SetToSeqs(AllMatchPaths(load.default, load.customs)) :
          load' = [at |-> "groups", default |-> load.default, customs |-> load.customs,
                   errors |-> load.errors, seen |-> load.seen,
                   stack |-> order, groups |-> [p \in {} |-> <<>>]]
    /\ UNCHANGED <<auto, disk, setup, store, gui, changed, signals, edits, watching, missed>>

\* Mutant: the imports of a match file are not followed.
LoadGroupAlone ==
    /\ load.at = "groups"
    /\ load.stack # <<>>
    /\ LET p == Head(load.stack)
           group == MatchGroup(disk, p)
       IN  load' = IF p \in DOMAIN load.groups \/ ~Loadable(disk, p)
                   THEN [load EXCEPT !.stack = Tail(@)]
                   ELSE [load EXCEPT !.stack = Tail(@), !.groups = Put(@, p, group)]
    /\ UNCHANGED <<auto, disk, setup, store, gui, changed, signals, edits, watching, missed>>

\* The recursion over paths and their imports, depth first.  A file that could not
\* be loaded is tried again when it is met again.
LoadGroup ==
    /\ load.at = "groups"
    /\ load.stack # <<>>
    /\ LET p == Head(load.stack)
           group == MatchGroup(disk, p)
       IN  load' = IF p \in DOMAIN load.groups
                   THEN [load EXCEPT !.stack = Tail(@)]
                   ELSE IF ~Loadable(disk, p)
                   THEN [load EXCEPT !.stack = Tail(@), !.errors = @ \cup {p}]
                   ELSE [load EXCEPT !.stack = group.imports \o Tail(@),
                           !.groups = Put(@, p, group),
                           !.errors = IF group.errors \/ group.warns THEN @ \cup {p} ELSE @]
    /\ UNCHANGED <<auto, disk, setup, store, gui, changed, signals, edits, watching, missed>>

FinishLoad ==
    /\ load.at = "groups"
    /\ load.stack = <<>>
    /\ store' = {[default |-> load.default, customs |-> load.customs,
                  groups |-> load.groups, errors |-> load.errors, seen |-> load.seen]}
    /\ auto' = IF store = {} THEN Option(load.default, "auto_restart") ELSE auto
    /\ load' = NoLoad
    /\ gui' = IF load.errors = {} THEN "none" ELSE "warning"
    /\ UNCHANGED <<disk, setup, changed, signals, edits, watching, missed>>
-----------------------------------------------------------------------------
(* The watcher and the reloads.                                            *)

\* Mutant: nothing is loaded again while the troubleshooter shows a fatal error.
ReloadUnlessFatal ==
    /\ signals > 0 /\ load = NoLoad /\ gui # "fatal"
    /\ signals' = signals - 1
    /\ load' = Begin
    /\ UNCHANGED <<auto, disk, setup, store, gui, changed, edits, watching, missed>>

\* A notification: the load is tried again, or, once there is a store, it is
\* replaced, unless the default config that was loaded first says not to.
Reload ==
    /\ signals > 0 /\ load = NoLoad
    /\ store = {} => gui = "fatal"
    /\ signals' = signals - 1
    /\ load' = IF auto THEN Begin ELSE NoLoad
    /\ gui' = IF store = {} THEN "none" ELSE gui
    /\ UNCHANGED <<auto, disk, setup, store, changed, edits, watching, missed>>

\* A second without another event has passed.
Debounce ==
    /\ changed
    /\ changed' = FALSE
    /\ signals' = signals + 1
    /\ UNCHANGED <<auto, disk, setup, load, store, gui, edits, watching, missed>>

\* The user writes or removes a file.
Edit ==
    /\ edits < MaxEdits
    /\ edits' = edits + 1
    /\ \E w \in Writes : disk[w[1]] # w[2] /\ disk' = [disk EXCEPT ![w[1]] = w[2]]
    /\ changed' = (changed \/ watching)
    /\ missed' = (missed \/ ~watching)
    /\ UNCHANGED <<setup, load, store, auto, gui, signals, watching>>

\* The watcher's thread was spawned before the load, and may be slower.
Watch ==
    /\ ~watching
    /\ load # NoLoad \/ store # {} \/ gui # "none"
    /\ watching' = TRUE
    /\ UNCHANGED <<auto, disk, setup, load, store, gui, changed, signals, edits, missed>>

\* The user closes the troubleshooter of a fatal error: there is nothing to go on
\* with, and the daemon ends.
Abort ==
    /\ gui = "fatal" /\ store = {} /\ load = NoLoad
    /\ gui' = "aborted"
    /\ UNCHANGED <<auto, disk, setup, load, store, changed, signals, watching, edits, missed>>

Launcher == PopulateDefault \/ WriteDefault \/ PopulateBase \/ WriteBase
Daemon ==
    \/ StartLoad \/ LoadDefault \/ (\E f \in ConfigFiles : LoadCustom(f)) \/ ListGroups
    \/ LoadGroup \/ FinishLoad \/ Reload

ConfigurationNext == Launcher \/ LauncherCrash \/ Daemon \/ Watch \/ Debounce \/ Edit \/ Abort

ConfigurationSpec ==
    /\ ConfigurationInit /\ [][ConfigurationNext]_configurationVars
    /\ WF_configurationVars(Launcher) /\ WF_configurationVars(Daemon)
    /\ WF_configurationVars(Watch) /\ WF_configurationVars(Debounce)
-----------------------------------------------------------------------------
(* What the worker asks the store.                                         *)

Visits(paths) == [i \in DOMAIN paths |-> <<"visit", paths[i]>>]

\* Mutant: a file's own matches come before those it imports.
VisitOwnFirst(groups, w) ==
    LET p == Head(w.stack)[2]
        rest == Tail(w.stack)
    IN  IF Head(w.stack)[1] = "own" THEN [w EXCEPT !.stack = rest, !.order = Append(@, p)]
        ELSE [stack |-> IF p \in w.visited \/ p \notin DOMAIN groups THEN rest
                        ELSE <<<<"own", p>>>> \o (Visits(groups[p].imports) \o rest),
              visited |-> w.visited \cup {p}, order |-> w.order]

\* One step of the recursion over the paths, with what is left to do on a stack:
\* depth first, every file once, its own matches behind those it imports.  The ids of
\* what was collected are not kept: no two matches of the files share one.
Visit(groups, w) ==
    LET p == Head(w.stack)[2]
        rest == Tail(w.stack)
    IN  IF Head(w.stack)[1] = "own" THEN [w EXCEPT !.stack = rest, !.order = Append(@, p)]
        ELSE [stack |-> IF p \in w.visited \/ p \notin DOMAIN groups THEN rest
                        ELSE Visits(groups[p].imports) \o (<<<<"own", p>>>> \o rest),
              visited |-> w.visited \cup {p}, order |-> w.order]

Walks == [stack : Seq({"visit", "own"} \X MatchFiles), visited : SUBSET MatchFiles,
          order : Seq(MatchFiles)]
FirstVisit(paths) == [stack |-> Visits(paths), visited |-> {}, order |-> <<>>]

\* The files in the order in which what they define is collected.
QueryPaths(groups, paths) ==
    LET walk[w \in Walks] == IF w.stack = <<>> THEN w ELSE walk[Visit(groups, w)]
    IN  walk[FirstVisit(paths)].order

Query(s, paths) ==
    LET order == QueryPaths(s.groups, paths)
    IN  [matches |-> FlattenSeq([i \in DOMAIN order |-> s.groups[order[i]].matches]),
         vars    |-> FlattenSeq([i \in DOMAIN order |-> s.groups[order[i]].vars])]

\* The options that a patch does not set are those of the config.
Patched(config, options) == [config EXCEPT !.options = options @@ @]

\* The first config that matches the application, or the default one; a built-in
\* patch for the application overrides some of its options.
Unpatched(s, app) ==
    LET i == SelectInSeq(s.customs, LAMBDA c : IsMatch(c, app))
    IN  IF i = 0 THEN s.default ELSE s.customs[i]
Active(s, app) ==
    LET config == Unpatched(s, app)
        i == SelectInSeq(Patches, LAMBDA p : p.enabled /\ app \in p.apps)
    IN  IF i = 0 \/ ~Option(config, "apply_patch") THEN config
        ELSE Patched(config, Patches[i].options)

\* The matches the matchers are built from, whatever the application.
GlobalMatches(s, order) == Query(s, order).matches

\* How a text is injected: the default of the backend is decided by its length.
ActiveMode(s, app) == Option(Active(s, app), "backend")

\* Undo would loop on the keys injected by way of the X11 record interface.
UndoEnabled(s, app, wayland) ==
    /\ ~wayland
    /\ OS = "linux" => ~Option(Active(s, app), "disable_x11_fast_inject")
    /\ Option(Active(s, app), "undo_backspace")

\* Of the matches that were detected, those of the application's config.
FilterActive(s, app, ids) ==
    {i \in ids : i \in BuiltinIds
        \/ \E m \in Range(Query(s, SetToSeq(Active(s, app).paths)).matches) : m.id = i}
=============================================================================
