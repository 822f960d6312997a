------------------------------ MODULE Packages ------------------------------
(***************************************************************************)
(* The package manager (espanso-package and `espanso package'): commands   *)
(* that install, update, list and uninstall packages, one system call on   *)
(* the packages directory at a time, each of which may fail, in a process  *)
(* that may be killed between any two of them.                             *)
(*                                                                         *)
(* A package n is kept in the directory n, and while it is replaced in     *)
(* n.old as well.  Its files are its manifest, its matches (whatever else  *)
(* it contains) and the source it was installed from.                      *)
(***************************************************************************)
EXTENDS Naturals, FiniteSets

CONSTANTS
    Names,          \* packages
    MaxVersion,     \* versions are 1 .. MaxVersion
    Branches,       \* of the git repository
    GitHosts,       \* where it may be: "github", "gitlab", "other"
    Installs,       \* the options that `install' may be given
    MaxCommands,    \* bound on the commands
    MaxMishaps      \* bound on the failures and crashes

Versions == 1 .. MaxVersion
NoVersion == 0
Latest == NoVersion         \* no version is asked for
Default == "default"        \* no branch is asked for

\* PackageSource, and what a package asked for comes from.
Source  == [kind : {"none", "hub", "git"}, branch : Branches \cup {Default},
            native : BOOLEAN]
NoSource == [kind |-> "none", branch |-> Default, native |-> FALSE]

ASSUME PackagesAssumption ==
    /\ Installs \subseteq [version : Versions \cup {Latest}, source : Source \ {NoSource},
                           force : BOOLEAN, refresh : BOOLEAN, external : BOOLEAN]
    /\ MaxVersion \in Nat /\ MaxCommands \in Nat /\ MaxMishaps \in Nat
    /\ IsFiniteSet(Names) /\ Branches # {} /\ GitHosts # {}

Hub == [kind |-> "hub", branch |-> Default, native |-> FALSE]
Git(branch, native) == [kind |-> "git", branch |-> branch, native |-> native]

\* A directory: whether it exists, and the versions its manifest and its matches
\* are of; the one that create_dir_all has made is empty.
NoDir == [exists |-> FALSE, manifest |-> NoVersion, matches |-> NoVersion,
          source |-> NoSource]
Empty == [NoDir EXCEPT !.exists = TRUE]

Whole(c) == /\ c.manifest = c.matches /\ c.manifest # NoVersion
            /\ c.source # NoSource

NoIndex == [n \in Names |-> NoVersion]
NoCache == [state |-> "absent", index |-> NoIndex]
NoCommand == [op |-> "none", todo |-> {}, dir |-> "", version |-> Latest,
              source |-> NoSource, force |-> FALSE, refresh |-> FALSE,
              index |-> NoIndex, package |-> NoVersion, before |-> NoDir,
              guard |-> FALSE, errors |-> 0, total |-> 0]

VARIABLES
    live, old,  \* the directories n and n.old of each package
    hub,        \* the latest version of each package the hub has
    repo,       \* the version that each branch of the repository has
    host,       \* where the repository is
    cache,      \* package_index_cache.json, with how old it is
    cmd, pc,    \* the command that runs, and where it is
    installed,  \* history: a package was installed and not uninstalled since
    spoilt,     \* history: the removal of a backup failed half-way
    commands, mishaps   \* bounds

dirVars == <<live, old>>
worldVars == <<hub, repo, host>>
historyVars == <<installed, spoilt>>
boundVars == <<commands, mishaps>>
vars == <<live, old, hub, repo, host, cache, cmd, pc, installed, spoilt,
          commands, mishaps>>

\* A package of an old release has no manifest and no source file.
Legacy == [Empty EXCEPT !.matches = 1]
Stored(v, source) ==
    [exists |-> TRUE, manifest |-> v, matches |-> v, source |-> source]

Init ==
    /\ live \in [Names -> {NoDir, Legacy, Stored(1, Hub)}]
    /\ old = [n \in Names |-> NoDir]
    /\ hub \in [Names -> {1}] /\ repo = [b \in Branches |-> 1]
    /\ host \in GitHosts
    /\ cache \in {NoCache, [state |-> "fresh", index |-> hub]}
    /\ cmd = NoCommand /\ pc = "idle"
    /\ installed = {n \in Names : Whole(live[n])} /\ spoilt = {}
    /\ commands = 0 /\ mishaps = 0

-----------------------------------------------------------------------------
(* How a command ends                                                      *)

\* A package that could not be updated is an error among others; the rest is
\* updated nevertheless.
Result(c) == CASE c.errors = 0 -> "success"
               [] c.errors = c.total /\ c.errors # 0 -> "failure"
               [] OTHER -> "partial"

Finish(c) == /\ cmd' = c
             /\ pc' = IF c.todo # {} THEN "next" ELSE Result(c)

Succeeds == Finish(cmd)
Fails == Finish([cmd EXCEPT !.errors = @ + 1])

\* The guard of `save' runs when the function is left.
Unwinds == IF cmd.guard /\ old[cmd.dir] # NoDir
             THEN pc' = "undo" /\ cmd' = cmd
             ELSE Fails

Mishap == mishaps < MaxMishaps /\ mishaps' = mishaps + 1

\* A system call that fails, or a download that does.
Failing(outcome) == Mishap /\ outcome /\ UNCHANGED <<dirVars, cache>>

Step(place) ==
    /\ pc = place
    /\ UNCHANGED <<worldVars, commands>>

-----------------------------------------------------------------------------
(* The commands                                                            *)

Begin(command, place) ==
    /\ pc = "idle" /\ commands < MaxCommands
    /\ commands' = commands + 1
    /\ cmd' = command
    /\ pc' = place
    /\ UNCHANGED <<dirVars, worldVars, cache, historyVars, mishaps>>

\* A repository other than the hub has to be allowed (--external), else the
\* command ends here.
Install(n, o) ==
    IF o.source # Hub /\ ~o.external
      THEN Begin([NoCommand EXCEPT !.op = "install"], "failure")
      ELSE Begin([NoCommand EXCEPT !.op = "install", !.dir = n,
                                   !.version = o.version, !.source = o.source,
                                   !.force = o.force, !.refresh = o.refresh,
                                   !.total = 1],
                 IF o.source = Hub THEN "index" ELSE "fetch")

Update(n) ==
    Begin([NoCommand EXCEPT !.op = "update", !.dir = n, !.force = TRUE,
                            !.total = 1], "get")

\* DefaultArchiver::get: a directory without a manifest is a legacy package,
\* one with a manifest needs a source.
Unreadable(c) == c.manifest # NoVersion /\ c.source = NoSource

\* DefaultArchiver::list, which fails as a whole.  What a crash left in n.old
\* is listed under the name its manifest gives, or as a legacy package n.old.
Listed == {<<n, "live">> : n \in {m \in Names : live[m] # NoDir}}
          \cup {<<n, "old">> : n \in {m \in Names : old[m] # NoDir}}
ListFails == \E n \in Names : Unreadable(live[n]) \/ Unreadable(old[n])

UpdateAll ==
    IF ListFails
      THEN Begin([NoCommand EXCEPT !.op = "update", !.errors = 1, !.total = 1],
                 "failure")
      ELSE Begin([NoCommand EXCEPT !.op = "update", !.force = TRUE,
                                   !.todo = Listed, !.total = Cardinality(Listed)],
                 IF Listed = {} THEN "success" ELSE "next")

List == Begin([NoCommand EXCEPT !.op = "list"],
              IF ListFails THEN "failure" ELSE "success")

Uninstall(n) ==
    IF live[n] = NoDir
      THEN Begin([NoCommand EXCEPT !.op = "uninstall"], "failure")
      ELSE /\ pc = "idle" /\ commands < MaxCommands
           /\ commands' = commands + 1
           /\ cmd' = [NoCommand EXCEPT !.op = "uninstall", !.dir = n,
                                       !.total = 1]
           /\ pc' = "delete"
           /\ installed' = installed \ {n}
           /\ UNCHANGED <<dirVars, worldVars, cache, spoilt, mishaps>>

\* The process ends and its exit code is that of the result.
Report ==
    /\ pc \in {"success", "partial", "failure"}
    /\ pc' = "idle" /\ cmd' = NoCommand
    /\ UNCHANGED <<dirVars, worldVars, cache, historyVars, boundVars>>

\* The loop of update_package; its order is the one of read_dir.
NextUpdate ==
    /\ Step("next")
    /\ \E entry \in cmd.todo :
         LET c == [cmd EXCEPT !.todo = @ \ {entry}, !.dir = entry[1],
                              !.before = NoDir, !.guard = FALSE]
         IN  IF entry[2] = "old" /\ old[entry[1]] # NoDir
                  /\ old[entry[1]].manifest = NoVersion
               THEN Finish([c EXCEPT !.errors = @ + 1])   \* n.old is not in the hub
               ELSE pc' = "get" /\ cmd' = c
    /\ UNCHANGED <<dirVars, cache, historyVars, mishaps>>

\* perform_package_update asks for the latest version from where it came.
Get ==
    /\ Step("get")
    /\ LET stored == live[cmd.dir]
       IN  IF stored = NoDir \/ Unreadable(stored) THEN Fails
           ELSE LET source == IF stored.manifest = NoVersion THEN Hub
                              ELSE stored.source
                IN  /\ cmd' = [cmd EXCEPT !.source = source]
                    /\ pc' = IF source = Hub THEN "index" ELSE "fetch"
    /\ UNCHANGED <<dirVars, cache, historyVars, mishaps>>

-----------------------------------------------------------------------------
(* The providers                                                           *)

\* get_index: an index younger than an hour is used unless it is refreshed;
\* a cache that cannot be parsed is an error, whatever was asked for.
Index ==
    /\ Step("index")
    /\ \/ /\ cache.state = "torn"
          /\ Fails /\ UNCHANGED mishaps
       \/ /\ cache.state = "fresh" /\ ~cmd.refresh
          /\ cmd' = [cmd EXCEPT !.index = cache.index]
          /\ pc' = "fetch" /\ UNCHANGED mishaps
       \/ /\ cache.state # "torn" /\ ~(cache.state = "fresh" /\ ~cmd.refresh)
          /\ \/ cmd' = [cmd EXCEPT !.index = hub] /\ pc' = "cache" /\ UNCHANGED mishaps
             \/ Mishap /\ Fails
    /\ UNCHANGED <<dirVars, cache, historyVars>>

\* Mutant: an index that was asked for does not replace the cached one.
SaveIndexUnlessRefreshed ==
    /\ Step("cache")
    /\ \/ /\ cache' = IF cmd.refresh THEN cache
                      ELSE [state |-> "fresh", index |-> cmd.index]
          /\ pc' = "fetch" /\ UNCHANGED <<cmd, dirVars, mishaps>>
       \/ Failing(Fails)
    /\ UNCHANGED historyVars

\* save_index_to_cache, before the index is used.
SaveIndex ==
    /\ Step("cache")
    /\ \/ /\ cache' = [state |-> "fresh", index |-> cmd.index]
          /\ pc' = "fetch" /\ UNCHANGED <<cmd, dirVars, mishaps>>
       \/ Failing(Fails)
    /\ UNCHANGED historyVars

\* resolve_repo_scheme: the branch asked for, or main, or master.
Scheme(branch) ==
    IF branch # Default THEN {branch}
    ELSE IF "main" \in Branches THEN {"main"}
    ELSE Branches \cap {"master"}

KnownHosts == {"github", "gitlab"}

\* get_provider: the archive of GitHub or GitLab when it can be had without
\* authentication, a clone when it is private or elsewhere, or git is asked for.
Provider(source, public) ==
    CASE source = Hub -> "hub"
      [] source # Hub /\ ~source.native /\ host \in KnownHosts /\ public
           /\ Scheme(source.branch) # {} -> "archive"
      [] OTHER -> "git"

Archived(source) == {repo[b] : b \in Scheme(source.branch)}

\* A clone without a branch takes the one the repository says.
Cloned(source) == IF source.branch = Default THEN {repo[b] : b \in Branches}
                  ELSE {repo[source.branch]}

Brought(source, public) ==
    LET provider == Provider(source, public)
    IN  CASE provider = "hub" -> {cmd.index[cmd.dir]}
          [] provider = "archive" -> Archived(source)
          [] provider = "git" -> Cloned(source)

\* PackageIndex::get_package: the hub keeps the versions before the latest.
Indexed(latest) == IF cmd.version = Latest THEN latest
                   ELSE IF cmd.version <= latest THEN cmd.version ELSE NoVersion

\* resolve_package takes the highest version, or the one asked for.
Offered(v) == IF cmd.source = Hub THEN Indexed(v)
              ELSE IF cmd.version \in {Latest, v} THEN v ELSE NoVersion

\* A host that does not answer, an archive that does not have its hash.
FetchFails == Mishap /\ Fails

\* The package is extracted into a temporary directory.
Fetch ==
    /\ Step("fetch")
    /\ \/ /\ \E brought \in UNION {Brought(cmd.source, public) : public \in BOOLEAN} :
              LET v == Offered(brought)
              IN  IF v = NoVersion THEN Fails
                  ELSE IF cmd.op = "update" /\ live[cmd.dir].manifest = v
                    THEN Succeeds             \* already up to date
                    ELSE cmd' = [cmd EXCEPT !.package = v] /\ pc' = "backup"
          /\ UNCHANGED mishaps
       \/ FetchFails
    /\ UNCHANGED <<dirVars, cache, historyVars>>

-----------------------------------------------------------------------------
(* DefaultArchiver::save                                                   *)

\* A directory can be renamed onto an empty one only.
Backup ==
    /\ Step("backup")
    /\ LET n == cmd.dir
       IN  \/ /\ live[n] = NoDir
              /\ pc' = "create" /\ UNCHANGED <<cmd, dirVars, mishaps>>
           \/ /\ live[n] # NoDir /\ ~cmd.force
              /\ Fails /\ UNCHANGED <<dirVars, mishaps>>
           \/ /\ live[n] # NoDir /\ cmd.force /\ old[n] \in {NoDir, Empty}
              /\ live' = [live EXCEPT ![n] = NoDir]
              /\ old' = [old EXCEPT ![n] = live[n]]
              /\ cmd' = [cmd EXCEPT !.guard = TRUE, !.before = live[n]]
              /\ pc' = "create" /\ UNCHANGED mishaps
           \/ /\ live[n] # NoDir /\ cmd.force /\ old[n] \notin {NoDir, Empty}
              /\ Fails /\ UNCHANGED <<dirVars, mishaps>>
    /\ UNCHANGED <<cache, historyVars>>

Create ==
    /\ Step("create")
    /\ \/ /\ live' = [live EXCEPT ![cmd.dir] = Empty]
          /\ pc' = "copy" /\ UNCHANGED <<cmd, old, cache, mishaps>>
       \/ Failing(Unwinds)
    /\ UNCHANGED historyVars

\* The files are copied one by one, in the order of the directory.
Copy ==
    /\ Step("copy")
    /\ LET c == live[cmd.dir]
       IN  \/ /\ \/ /\ c.manifest = NoVersion
                    /\ live' = [live EXCEPT ![cmd.dir].manifest = cmd.package]
                 \/ /\ c.matches = NoVersion
                    /\ live' = [live EXCEPT ![cmd.dir].matches = cmd.package]
              /\ UNCHANGED <<cmd, pc, old, cache, mishaps>>
           \/ /\ c.manifest # NoVersion /\ c.matches # NoVersion
              /\ pc' = "source" /\ UNCHANGED <<cmd, dirVars, cache, mishaps>>
           \/ Failing(Unwinds)
    /\ UNCHANGED historyVars

\* Mutant: the backup goes before the source file is written.
WriteSourceLate ==
    /\ Step("source")
    /\ \/ /\ live' = [live EXCEPT ![cmd.dir].source = cmd.source]
          /\ pc' = "clean" /\ UNCHANGED <<cmd, old, cache, mishaps>>
       \/ /\ Mishap /\ Fails
          /\ old' = [old EXCEPT ![cmd.dir] = NoDir]
          /\ UNCHANGED <<live, cache>>
    /\ UNCHANGED historyVars

WriteSource ==
    /\ Step("source")
    /\ \/ /\ live' = [live EXCEPT ![cmd.dir].source = cmd.source]
          /\ pc' = "clean" /\ UNCHANGED <<cmd, old, cache, mishaps>>
       \/ Failing(Unwinds)
    /\ UNCHANGED historyVars

\* remove_dir_all takes the files away in any order, then the directory.
Less(c) == {[c EXCEPT !.manifest = NoVersion], [c EXCEPT !.matches = NoVersion],
            [c EXCEPT !.source = NoSource]} \ {c}
Removed(c) == IF c = Empty THEN {NoDir} ELSE Less(c)

\* The backup is removed; when that fails half-way the guard puts what is left
\* of it in the place of the new package.
Clean ==
    /\ Step("clean")
    /\ LET n == cmd.dir
       IN  \/ /\ old[n] # NoDir
              /\ \E c \in Removed(old[n]) : old' = [old EXCEPT ![n] = c]
              /\ UNCHANGED <<cmd, pc, live, cache, spoilt, mishaps>>
           \/ /\ old[n] = NoDir
              /\ pc' = "read" /\ UNCHANGED <<cmd, dirVars, cache, spoilt, mishaps>>
           \/ /\ old[n] # NoDir
              /\ Failing(Unwinds)
              /\ spoilt' = IF ~cmd.guard \/ old[n] = cmd.before THEN spoilt ELSE spoilt \cup {n}
    /\ UNCHANGED installed

\* read_archived_package: once the new package is read back the command has
\* succeeded.  That may fail as well, when the backup is gone already.
Read ==
    /\ Step("read")
    /\ \/ /\ installed' = installed \cup {cmd.dir}
          /\ spoilt' = spoilt \ {cmd.dir}
          /\ Succeeds
          /\ UNCHANGED <<dirVars, cache, mishaps>>
       \/ Failing(Unwinds) /\ UNCHANGED historyVars

\* Mutant: the new directory is kept when there is one.
UndoKeepsNew ==
    /\ Step("undo")
    /\ LET n == cmd.dir
       IN  /\ live' = [live EXCEPT ![n] = IF @ = NoDir THEN old[n] ELSE @]
           /\ old' = [old EXCEPT ![n] = NoDir]
           /\ Fails
    /\ UNCHANGED <<cache, historyVars, mishaps>>

\* The guard removes the new directory and renames the backup; it panics when
\* either fails, which ends the process.
Undo ==
    /\ Step("undo")
    /\ LET n == cmd.dir
       IN  \/ /\ live[n] # NoDir
              /\ \E c \in Removed(live[n]) : live' = [live EXCEPT ![n] = c]
              /\ UNCHANGED <<cmd, pc, old, cache, mishaps>>
           \/ /\ live[n] = NoDir
              /\ live' = [live EXCEPT ![n] = old[n]]
              /\ old' = [old EXCEPT ![n] = NoDir]
              /\ Fails /\ UNCHANGED <<cache, mishaps>>
           \/ Failing(pc' = "idle" /\ cmd' = NoCommand)
    /\ UNCHANGED historyVars

\* DefaultArchiver::delete, of an uninstall.
Delete ==
    /\ Step("delete")
    /\ \/ /\ \E c \in Removed(live[cmd.dir]) :
               /\ live' = [live EXCEPT ![cmd.dir] = c]
               /\ IF c = NoDir THEN Succeeds ELSE UNCHANGED <<cmd, pc>>
          /\ UNCHANGED <<old, cache, mishaps>>
       \/ Failing(Fails)
    /\ UNCHANGED historyVars

-----------------------------------------------------------------------------
(* The world                                                               *)

\* The process is killed; the cache is not written atomically.
Crash ==
    /\ pc \notin {"idle", "success", "partial", "failure"}
    /\ Mishap
    /\ cache' = IF pc = "cache" THEN [state |-> "torn", index |-> NoIndex]
                ELSE cache
    /\ pc' = "idle" /\ cmd' = NoCommand
    /\ UNCHANGED <<dirVars, worldVars, historyVars, commands>>

\* The world matters as long as a command is to come.
Calm == pc = "idle" /\ commands < MaxCommands

\* A new version in the hub, which never takes one back.
Publish(n) ==
    /\ hub[n] < MaxVersion /\ Calm
    /\ hub' = [hub EXCEPT ![n] = @ + 1]
    /\ UNCHANGED <<dirVars, repo, host, cache, cmd, pc, historyVars, boundVars>>

\* Any version in the repository.
Push(b, v) ==
    /\ repo[b] # v /\ Calm
    /\ repo' = [repo EXCEPT ![b] = v]
    /\ UNCHANGED <<dirVars, hub, host, cache, cmd, pc, historyVars, boundVars>>

HourPasses ==
    /\ cache.state = "fresh" /\ Calm
    /\ cache' = [cache EXCEPT !.state = "stale"]
    /\ UNCHANGED <<dirVars, worldVars, cmd, pc, historyVars, boundVars>>

Command ==
    \/ \E n \in Names :
         \/ \E options \in Installs : Install(n, options)
         \/ Update(n) \/ Uninstall(n)
    \/ UpdateAll \/ List

CommandStep ==
    \/ NextUpdate \/ Get \/ Index \/ SaveIndex \/ Fetch \/ Backup \/ Create
    \/ Copy \/ WriteSource \/ Clean \/ Read \/ Undo \/ Delete \/ Report

World == \/ Crash \/ HourPasses
         \/ \E n \in Names : Publish(n)
         \/ \E b \in Branches, v \in Versions : Push(b, v)

Next == Command \/ CommandStep \/ World

Spec == Init /\ [][Next]_vars

-----------------------------------------------------------------------------
(* Properties                                                              *)

\* A package that was installed is on disk, complete, in n or in n.old, until
\* it is uninstalled: whatever fails, and wherever a command is killed.  Only a
\* backup whose removal failed half-way is out of it (`spoilt').
NothingLost ==
    \A n \in installed \ spoilt : Whole(live[n]) \/ Whole(old[n])

\* An install or update that reports an error has not left a package between two
\* versions: what it was to replace is back as it was or, when all that failed
\* was to read the new package back, that one is there with every file; and no
\* backup is left behind.
FailedSaveRestores ==
    pc = "failure" /\ cmd.guard /\ cmd.dir \notin spoilt =>
        /\ live[cmd.dir] \in {cmd.before, Stored(cmd.package, cmd.source)}
        /\ old[cmd.dir] = NoDir

\* "If the function returns due to an error, restore the previous directory"
\* (default.rs, line 60): what the comment says of every error.
ErrorsRestore ==
    pc = "failure" /\ cmd.guard /\ cmd.dir \notin spoilt
        => live[cmd.dir] = cmd.before

\* An update from the hub replaces a package by a later version only, although
\* the index may come from a cache that is an hour old.
NoDowngrade ==
    pc = "read" /\ cmd.op = "update" /\ cmd.source = Hub
        => cmd.package >= cmd.before.manifest
=============================================================================
