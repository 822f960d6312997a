------------------------ MODULE ConfigurationProperties ------------------------
(***************************************************************************)
(* What loading promises, about the module Configuration.                  *)
(***************************************************************************)
EXTENDS Configuration

Stores == store
Orders(S) == SetToSeqs(S)

\* Whatever is edited while a load is under way, each match file that a config
\* includes or a loaded file imports is either loaded or reported as an error.
NothingSilentlyMissing ==
    \A s \in Stores :
        \A p \in AllMatchPaths(s.default, s.customs)
                 \cup UNION {Range(s.groups[q].imports) : q \in DOMAIN s.groups} :
            p \in DOMAIN s.groups \/ p \in s.errors

\* The files that can be reached from some of them, where each leads to others.
Reached(next, from) ==
    {p \in MatchFiles : \A S \in SUBSET MatchFiles :
        from \subseteq S /\ (\A q \in S : next[q] \subseteq S) => p \in S}

\* The files that those on disk import, where there are such files.
ImportsOnDisk(d) ==
    [p \in MatchFiles |->
        IF Loadable(d, p)
        THEN {q \in Range(Get(d[p].body, "imports", <<>>)) : d[q].exists} ELSE {}]
ImportsLoaded(s) ==
    [p \in MatchFiles |-> IF p \in DOMAIN s.groups THEN Range(s.groups[p].imports) ELSE {}]

Undisturbed(s) == s.seen = edits

\* When nothing was edited meanwhile, the store is what is on disk: one bad file
\* costs that file only, import cycles end, and the errors name the bad files.
LoadedExactly ==
    \A s \in Stores : Undisturbed(s) =>
        LET customFiles == {f \in ConfigFiles : disk[f].exists} \ {s.default.file}
            good == {f \in customFiles : ResolvedConfig(disk, f, s.default.options) # {}}
            reached == Reached(ImportsOnDisk(disk), AllMatchPaths(s.default, s.customs))
        IN  /\ <<s.default.file>> = DefaultFile(disk)
            /\ {s.customs[i].file : i \in DOMAIN s.customs} = good
            /\ Len(s.customs) = Cardinality(good)
            /\ DOMAIN s.groups = {p \in reached : Loadable(disk, p)}
            /\ (customFiles \ good) \cup (reached \ DOMAIN s.groups) \subseteq s.errors

ImportsOf(s, p) == Range(s.groups[p].imports) \cap DOMAIN s.groups

\* A query returns each match of the files it reaches once, also around a diamond or
\* a cycle of imports, and what a file imports comes before what it defines itself.
QueryOnceImportsFirst ==
    \A s \in Stores : \A order \in Orders(s.default.paths) :
        LET ms == Query(s, order).matches IN
        /\ \A i, j \in DOMAIN ms : ms[i].id = ms[j].id => i = j
        /\ {m.id : m \in Range(ms)} =
             UNION {{m.id : m \in Range(s.groups[p].matches)} :
                      p \in DOMAIN s.groups \cap Reached(ImportsLoaded(s), s.default.paths)}
        /\ \A p \in DOMAIN s.groups : \A q \in ImportsOf(s, p) :
              ImportsOf(s, q) = {} =>
                \A i \in DOMAIN ms, n \in Range(s.groups[q].matches) :
                    ms[i] \in Range(s.groups[p].matches) => \E j \in 1 .. i - 1 : ms[j] = n

\* A trigger that is active in the focused application can be detected at all: the
\* matchers are built once from the matches of every config, and filtering what
\* they detect leaves exactly the application's own matches and the built-in ones.
ActiveAreDetectable ==
    \A s \in Stores : \A app \in Apps :
        LET global == {m.id : m \in Range(GlobalMatches(s, SetToSeq(AllMatchPaths(s.default, s.customs))))}
            active == {m.id : m \in Range(Query(s, SetToSeq(Active(s, app).paths)).matches)}
            reachable == UNION {{m.id : m \in Range(s.groups[p].matches)} :
                           p \in Unpatched(s, app).paths \cap DOMAIN s.groups}
        IN  /\ reachable \subseteq active
            /\ Unpatched(s, app).paths \subseteq DOMAIN s.groups \cup s.errors
            /\ FilterActive(s, app, global \cup BuiltinIds) = active \cup BuiltinIds

\* Once the user is done editing and the default config is right, what is in use is
\* what is on disk: no edit is lost while a load runs or fails, unless the watcher
\* was not watching yet, the first configuration disabled reloads, or the user
\* gave up.
ConfigConverges ==
    <>[](LET file == DefaultFile(disk) IN
         \/ missed
         \/ gui = "aborted"
         \/ ~auto
         \/ file = <<>> \/ ResolvedConfig(disk, Head(file), <<>>) = {}
         \/ \E s \in Stores : Undisturbed(s))
=============================================================================
