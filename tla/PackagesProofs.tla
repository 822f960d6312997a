--------------------------- MODULE PackagesProofs ---------------------------
(***************************************************************************)
(* What the package manager keeps and restores, for any packages, versions *)
(* and options, any number of commands, failures and kills.                *)
(***************************************************************************)
EXTENDS Packages, FiniteSetTheorems, TLAPS

-----------------------------------------------------------------------------
(* Types                                                                   *)

Dirs == [exists : BOOLEAN, manifest : Nat, matches : Nat, source : Source]
Indexes == [Names -> Nat]
Entries == Names \X {"live", "old"}
CommandRecords ==
    [op : {"none", "install", "update", "list", "uninstall"},
     todo : SUBSET Entries, dir : Names \cup {""}, version : Nat,
     source : Source, force : BOOLEAN, refresh : BOOLEAN, index : Indexes,
     package : Nat, before : Dirs, guard : BOOLEAN, errors : Nat, total : Nat]

\* Where a command is about one package, and where it is between two or over.
Asking == {"get", "index", "cache", "fetch", "backup"}
Saving == {"create", "copy", "source", "clean", "read"}
Working == Asking \cup Saving \cup {"undo", "delete"}
Results == {"success", "partial", "failure"}

WorldTypes ==
    /\ hub \in Indexes /\ repo \in [Branches -> Nat] /\ host \in GitHosts
    /\ cache \in [state : {"absent", "fresh", "stale", "torn"}, index : Indexes]

TypeOK ==
    /\ live \in [Names -> Dirs] /\ old \in [Names -> Dirs]
    /\ WorldTypes
    /\ cmd \in CommandRecords
    /\ pc \in Working \cup Results \cup {"idle", "next"}
    /\ pc \in Working => cmd.dir \in Names

-----------------------------------------------------------------------------
(* The inductive invariants                                                *)

Unspoilt(n) == n \in installed \ spoilt

\* While a package is replaced its backup is whole, until the new directory is.
Covered ==
    /\ installed \subseteq Names
    /\ pc \in Asking => ~cmd.guard
    /\ pc \in {"create", "copy", "source", "undo"} /\ Unspoilt(cmd.dir)
         => Whole(old[cmd.dir])
    /\ pc \in {"create", "copy", "source", "clean"} /\ cmd.guard /\ Unspoilt(cmd.dir)
         => Whole(cmd.before)
    /\ pc \in {"index", "cache", "fetch", "backup"} \cup Saving => cmd.source # NoSource
    /\ pc \in {"backup"} \cup Saving => cmd.package # NoVersion
    /\ pc = "copy" => /\ live[cmd.dir].exists
                      /\ live[cmd.dir].manifest \in {NoVersion, cmd.package}
                      /\ live[cmd.dir].matches \in {NoVersion, cmd.package}
    /\ pc = "source" => /\ live[cmd.dir].exists
                        /\ live[cmd.dir].manifest = cmd.package
                        /\ live[cmd.dir].matches = cmd.package
    /\ pc \in {"clean", "read"} => live[cmd.dir] = Stored(cmd.package, cmd.source)
    /\ pc = "read" => old[cmd.dir] = NoDir
    /\ pc = "delete" => cmd.dir \notin installed

LossInv == TypeOK /\ Covered /\ NothingLost

\* The backup is what was there before.
Guarded ==
    /\ cmd.guard => cmd.before # NoDir
    /\ pc \in Asking \cup {"delete"} => ~cmd.guard
    /\ pc = "undo" => cmd.guard
    /\ pc \in {"create", "copy", "source", "undo"} /\ cmd.guard /\ cmd.dir \notin spoilt
         => old[cmd.dir] = cmd.before

\* What is left to do is counted, so that a command whose last package was saved
\* is no failure.
Counted ==
    /\ pc \in Working => cmd.errors + Cardinality(cmd.todo) < cmd.total
    /\ pc = "next" => cmd.errors + Cardinality(cmd.todo) =< cmd.total

RestoreInv == TypeOK /\ LossInv /\ Guarded /\ Counted /\ FailedSaveRestores

\* No package from the hub is newer than the hub, nor than an index that is
\* still in use.
Known(c, n) ==
    c.source = Hub => /\ c.manifest =< hub[n]
                      /\ cache.state = "fresh" => c.manifest =< cache.index[n]
KnownDirs ==
    \A n \in Names : /\ Known(live[n], n) /\ Known(old[n], n)
                     /\ cache.state = "fresh" => cache.index[n] =< hub[n]

\* A command that asks the hub brings what the index in use says, and an update
\* asks the hub for what came from it or for a legacy package.
FromHub == cmd.source = Hub
Asked ==
    /\ cmd.op = "update" => cmd.version = Latest
    /\ pc = "cache" => cmd.index = hub
    /\ pc = "fetch" /\ FromHub => cache.state = "fresh" /\ cmd.index = cache.index
    /\ pc \in {"backup"} \cup Saving /\ FromHub =>
         /\ cache.state = "fresh" /\ cmd.package =< cache.index[cmd.dir]
         /\ cmd.op = "update" => cmd.package = cache.index[cmd.dir]
    /\ pc \in Asking \ {"get"} /\ FromHub /\ cmd.op = "update"
         => live[cmd.dir].manifest = NoVersion \/ live[cmd.dir].source = Hub
    /\ pc \in Asking => cmd.before = NoDir
    /\ pc \in Saving /\ FromHub /\ cmd.op = "update"
         => cmd.before.manifest =< cache.index[cmd.dir]
    /\ pc \in {"copy", "source"} => live[cmd.dir].source = NoSource

VersionInv == TypeOK /\ KnownDirs /\ Asked

-----------------------------------------------------------------------------
(* What the commands and directories are made of                           *)

LEMMA ConstantTypes ==
    /\ Hub \in Source \ {NoSource} /\ NoSource \in Source
    /\ NoDir \in Dirs /\ Empty \in Dirs /\ Legacy \in Dirs
    /\ NoIndex \in Indexes /\ NoCommand \in CommandRecords
    /\ Empty # NoDir
    /\ \A v \in Nat, source \in Source : Stored(v, source) \in Dirs
  BY DEF Hub, Source, NoSource, NoDir, Empty, Legacy, Dirs, NoIndex, Indexes, NoCommand,
         CommandRecords, Stored, NoVersion, Latest, Default

\* What is left of a directory has no file it did not have.
LEMMA RemovedTypes ==
    ASSUME NEW c \in Dirs, NEW d \in Removed(c)
    PROVE  /\ d \in Dirs
           /\ d.manifest \in {NoVersion, c.manifest}
           /\ d.source \in {NoSource, c.source}
  <1>1. CASE c = Empty
    <2>1. d = NoDir
      BY <1>1 DEF Removed
    <2>2. QED
      BY <2>1, ConstantTypes DEF NoDir
  <1>2. CASE d = [c EXCEPT !.manifest = NoVersion]
    BY <1>2 DEF Dirs, NoVersion
  <1>3. CASE d = [c EXCEPT !.matches = NoVersion]
    BY <1>3 DEF Dirs, NoVersion
  <1>4. CASE d = [c EXCEPT !.source = NoSource]
    BY <1>4, ConstantTypes DEF Dirs
  <1>5. QED
    BY <1>1, <1>2, <1>3, <1>4 DEF Removed, Less

\* How a command goes on keeps its types.
LEMMA FinishTypes ==
    ASSUME NEW c \in CommandRecords, Finish(c)
    PROVE  cmd' \in CommandRecords /\ pc' \in Results \cup {"next"}
  BY DEF Finish, Result, Results

LEMMA FailsTypes ==
    ASSUME TypeOK, Fails
    PROVE  /\ cmd' \in CommandRecords /\ pc' \in Results \cup {"next"}
           /\ cmd' = [cmd EXCEPT !.errors = cmd.errors + 1]
           /\ cmd'.dir = cmd.dir /\ cmd'.guard = cmd.guard /\ cmd'.before = cmd.before
           /\ cmd'.op = cmd.op /\ cmd'.version = cmd.version /\ cmd'.todo = cmd.todo
           /\ cmd'.package = cmd.package /\ cmd'.source = cmd.source
           /\ cmd'.errors = cmd.errors + 1 /\ cmd'.total = cmd.total
  <1>1. cmd \in CommandRecords
    BY DEF TypeOK
  <1>2. cmd' = [cmd EXCEPT !.errors = cmd.errors + 1]
    BY DEF Fails, Finish
  <1>3. pc' \in Results \cup {"next"}
    BY DEF Fails, Finish, Result, Results
  <1>5. cmd.errors \in Nat
    BY <1>1 DEF CommandRecords
  <1>6. cmd.errors + 1 \in Nat
    BY <1>5
  <1>4. cmd' \in CommandRecords
    BY <1>1, <1>2, <1>6 DEF CommandRecords
  <1>7. QED
    BY <1>1, <1>2, <1>3, <1>4 DEF CommandRecords

LEMMA SucceedsTypes ==
    ASSUME TypeOK, Succeeds
    PROVE  cmd' = cmd /\ pc' \in Results \cup {"next"}
  BY DEF TypeOK, Succeeds, Finish, Result, Results

LEMMA UnwindsTypes ==
    ASSUME TypeOK, Unwinds
    PROVE  \/ pc' = "undo" /\ cmd' = cmd /\ cmd.guard /\ old[cmd.dir] # NoDir
           \/ Fails /\ ~(cmd.guard /\ old[cmd.dir] # NoDir)
  BY DEF Unwinds

-----------------------------------------------------------------------------
(* Types are kept                                                          *)

LEMMA InitTypes == Init => TypeOK
  <1>1. SUFFICES ASSUME Init PROVE TypeOK
    OBVIOUS
  <1>2. live \in [Names -> Dirs] /\ old \in [Names -> Dirs]
    BY <1>1, ConstantTypes DEF Init
  <1>3. hub \in Indexes /\ repo \in [Branches -> Nat] /\ host \in GitHosts
    BY <1>1 DEF Init, Indexes
  <1>4. cache \in [state : {"absent", "fresh", "stale", "torn"}, index : Indexes]
    BY <1>1, <1>3, ConstantTypes DEF Init, NoCache
  <1>5. QED
    BY <1>1, <1>2, <1>3, <1>4, ConstantTypes DEF Init, TypeOK, WorldTypes, Working, Asking, Saving

LEMMA BeginTypes ==
    ASSUME TypeOK, NEW c \in CommandRecords, NEW place \in Working \cup Results \cup {"next"},
           place \in Working => c.dir \in Names, Begin(c, place)
    PROVE  TypeOK'
  BY DEF TypeOK, WorldTypes, Begin, dirVars, worldVars

\* A package has two directories at most, so the loop has finitely many to do.
LEMMA EntriesFinite ==
    ASSUME NEW S \in SUBSET Entries
    PROVE  IsFiniteSet(S) /\ Cardinality(S) \in Nat
  <1>1. IsFiniteSet({"live"}) /\ {"live", "old"} = {"live"} \cup {"old"}
    BY FS_Singleton
  <1>2. IsFiniteSet({"live", "old"})
    BY <1>1, FS_AddElement
  <1>3. IsFiniteSet(Entries)
    BY <1>2, FS_Product, PackagesAssumption DEF Entries
  <1>4. QED
    BY <1>3, FS_Subset, FS_CardinalityType

\* The commands start with records of their type.
LEMMA CommandTypes ==
    ASSUME TypeOK, Command
    PROVE  TypeOK'
  <1>1. ASSUME NEW n \in Names, NEW o \in Installs, Install(n, o)
        PROVE  TypeOK'
    <2>1. o.version \in Nat /\ o.source \in Source /\ o.force \in BOOLEAN /\ o.refresh \in BOOLEAN
      BY PackagesAssumption DEF Versions, Latest, NoVersion
    <2>2. CASE o.source # Hub /\ ~o.external
      <3>1. [NoCommand EXCEPT !.op = "install"] \in CommandRecords
        BY ConstantTypes DEF CommandRecords
      <3>2. QED
        BY <1>1, <2>2, <3>1, BeginTypes DEF Install, Results, Working, Asking, Saving
    <2>3. CASE ~(o.source # Hub /\ ~o.external)
      <3> DEFINE c == [NoCommand EXCEPT !.op = "install", !.dir = n, !.version = o.version,
                                        !.source = o.source, !.force = o.force,
                                        !.refresh = o.refresh, !.total = 1]
      <3>1. c \in CommandRecords /\ c.dir \in Names
        BY <2>1, ConstantTypes DEF CommandRecords
      <3>2. Begin(c, IF o.source = Hub THEN "index" ELSE "fetch")
        BY <1>1, <2>3 DEF Install
      <3> HIDE DEF c
      <3>3. QED
        BY <3>1, <3>2, BeginTypes DEF Working, Asking
    <2>4. QED
      BY <2>2, <2>3
  <1>2. ASSUME NEW n \in Names, Update(n)
        PROVE  TypeOK'
    <2> DEFINE c == [NoCommand EXCEPT !.op = "update", !.dir = n, !.force = TRUE, !.total = 1]
    <2>1. c \in CommandRecords /\ c.dir \in Names
      BY ConstantTypes DEF CommandRecords
    <2>2. Begin(c, "get")
      BY <1>2 DEF Update
    <2> HIDE DEF c
    <2>3. QED
      BY <2>1, <2>2, BeginTypes DEF Working, Asking
  <1>3. ASSUME NEW n \in Names, Uninstall(n)
        PROVE  TypeOK'
    <2>1. CASE live[n] = NoDir
      <3>1. [NoCommand EXCEPT !.op = "uninstall"] \in CommandRecords
        BY ConstantTypes DEF CommandRecords
      <3>2. QED
        BY <1>3, <2>1, <3>1, BeginTypes DEF Uninstall, Results, Working, Asking, Saving
    <2>2. CASE live[n] # NoDir
      <3> DEFINE c == [NoCommand EXCEPT !.op = "uninstall", !.dir = n, !.total = 1]
      <3>1. c \in CommandRecords /\ c.dir \in Names
        BY ConstantTypes DEF CommandRecords
      <3>2. cmd' = c /\ pc' = "delete" /\ UNCHANGED <<dirVars, worldVars, cache>>
        BY <1>3, <2>2 DEF Uninstall
      <3> HIDE DEF c
      <3>3. QED
        BY <3>1, <3>2 DEF TypeOK, WorldTypes, Working, dirVars, worldVars
    <2>3. QED
      BY <2>1, <2>2
  <1>4. ASSUME UpdateAll
        PROVE  TypeOK'
    <2>1. Listed \in SUBSET Entries /\ Cardinality(Listed) \in Nat
      <3>1. Listed \in SUBSET Entries
        BY DEF Listed, Entries
      <3>2. QED
        BY <3>1, EntriesFinite
    <2>2. CASE ListFails
      <3>1. [NoCommand EXCEPT !.op = "update", !.errors = 1, !.total = 1] \in CommandRecords
        BY ConstantTypes DEF CommandRecords
      <3>2. QED
        BY <1>4, <2>2, <3>1, BeginTypes DEF UpdateAll, Results, Working, Asking, Saving
    <2>3. CASE ~ListFails
      <3> DEFINE c == [NoCommand EXCEPT !.op = "update", !.force = TRUE, !.todo = Listed,
                                        !.total = Cardinality(Listed)]
      <3>1. c \in CommandRecords
        BY <2>1, ConstantTypes DEF CommandRecords
      <3>2. Begin(c, IF Listed = {} THEN "success" ELSE "next")
        BY <1>4, <2>3 DEF UpdateAll
      <3> HIDE DEF c
      <3>3. QED
        BY <3>1, <3>2, BeginTypes DEF Results, Working, Asking, Saving
    <2>4. QED
      BY <2>2, <2>3
  <1>5. ASSUME List
        PROVE  TypeOK'
    <2>1. [NoCommand EXCEPT !.op = "list"] \in CommandRecords
      BY ConstantTypes DEF CommandRecords
    <2>2. QED
      BY <1>5, <2>1, BeginTypes DEF List, Results, Working, Asking, Saving
  <1>6. QED
    BY <1>1, <1>2, <1>3, <1>4, <1>5 DEF Command

\* A command that leaves a step, or goes on with it, keeps its types.
LEMMA LeavesTypes ==
    ASSUME TypeOK, pc \in Working, Fails \/ Succeeds \/ Unwinds
    PROVE  /\ cmd' \in CommandRecords /\ cmd'.dir \in Names
           /\ pc' \in Working \cup Results \cup {"next"}
  <1>1. cmd \in CommandRecords /\ cmd.dir \in Names
    BY DEF TypeOK
  <1>2. CASE Fails
    BY <1>1, <1>2, FailsTypes
  <1>3. CASE Succeeds
    BY <1>1, <1>3, SucceedsTypes
  <1>4. CASE Unwinds
    BY <1>1, <1>2, <1>4, UnwindsTypes DEF Working
  <1>5. QED
    BY <1>2, <1>3, <1>4

LEMMA ApartTypes ==
    ASSUME TypeOK, UNCHANGED <<dirVars, worldVars, cache>>, cmd' \in CommandRecords,
           pc' \in Working \cup Results \cup {"idle", "next"},
           pc' \in Working => cmd'.dir \in Names
    PROVE  TypeOK'
  BY DEF TypeOK, WorldTypes, dirVars, worldVars

LEMMA DirsTypes ==
    ASSUME TypeOK, UNCHANGED <<worldVars, cache>>, cmd' \in CommandRecords,
           pc' \in Working \cup Results \cup {"idle", "next"},
           pc' \in Working => cmd'.dir \in Names,
           live' \in [Names -> Dirs], old' \in [Names -> Dirs]
    PROVE  TypeOK'
  BY DEF TypeOK, WorldTypes, worldVars

LEMMA LoopTypes ==
    ASSUME TypeOK, Report \/ NextUpdate \/ Get
    PROVE  TypeOK'
  <1> USE DEF Step
  <1>1. CASE Report
    <2>1. cmd' = NoCommand /\ pc' = "idle" /\ UNCHANGED <<dirVars, worldVars, cache>>
      BY <1>1 DEF Report
    <2>2. QED
      BY <2>1, ConstantTypes, ApartTypes DEF Working, Asking, Saving
  <1>2. CASE NextUpdate
    <2>1. PICK entry \in cmd.todo :
            LET c == [cmd EXCEPT !.todo = @ \ {entry}, !.dir = entry[1],
                                 !.before = NoDir, !.guard = FALSE]
            IN  \/ Finish([c EXCEPT !.errors = @ + 1])
                \/ pc' = "get" /\ cmd' = c
      BY <1>2 DEF NextUpdate
    <2> DEFINE c == [cmd EXCEPT !.todo = @ \ {entry}, !.dir = entry[1],
                                !.before = NoDir, !.guard = FALSE]
    <2>2. entry[1] \in Names /\ cmd \in CommandRecords
      BY DEF TypeOK, CommandRecords, Entries
    <2>3. c \in CommandRecords /\ c.dir \in Names /\ c.errors \in Nat
      BY ZenonT(60), <2>2, ConstantTypes DEF CommandRecords
    <2>4. UNCHANGED <<dirVars, worldVars, cache>>
      BY <1>2 DEF NextUpdate
    <2>5. Finish([c EXCEPT !.errors = c.errors + 1]) \/ (pc' = "get" /\ cmd' = c)
      BY <2>1
    <2> HIDE DEF c
    <2>6. c.errors + 1 \in Nat
      BY <2>3
    <2>7. [c EXCEPT !.errors = c.errors + 1] \in CommandRecords
      BY <2>3, <2>6 DEF CommandRecords
    <2>8. CASE Finish([c EXCEPT !.errors = c.errors + 1])
      BY <2>4, <2>7, <2>8, FinishTypes, ApartTypes DEF Results, Working, Asking, Saving
    <2>9. CASE pc' = "get" /\ cmd' = c
      BY <2>3, <2>4, <2>9, ApartTypes DEF Working, Asking
    <2>10. QED
      BY SMTT(30), <2>5, <2>8, <2>9
  <1>3. CASE Get
    <2>1. UNCHANGED <<dirVars, worldVars, cache>> /\ pc = "get"
      BY <1>3 DEF Get
    <2>2. cmd \in CommandRecords /\ cmd.dir \in Names
      BY <2>1 DEF TypeOK, Working, Asking
    <2>3. CASE Fails
      BY <2>1, <2>3, LeavesTypes, ApartTypes DEF Working, Asking
    <2>4. CASE ~Fails
      <3>1. PICK source \in {Hub, live[cmd.dir].source} :
              cmd' = [cmd EXCEPT !.source = source] /\ pc' \in {"index", "fetch"}
        BY <1>3, <2>4 DEF Get
      <3>2. source \in Source
        BY <2>2, ConstantTypes DEF TypeOK, Dirs
      <3>3. cmd' \in CommandRecords /\ cmd'.dir \in Names
        BY <2>2, <3>1, <3>2 DEF CommandRecords
      <3>4. QED
        BY <2>1, <3>1, <3>3, ApartTypes DEF Working, Asking
    <2>5. QED
      BY <2>3, <2>4
  <1>4. QED
    BY <1>1, <1>2, <1>3

LEMMA BroughtTypes ==
    ASSUME TypeOK, pc \in Working, NEW public \in BOOLEAN,
           NEW v \in Brought(cmd.source, public)
    PROVE  v \in Nat
  <1>1. cmd \in CommandRecords /\ cmd.dir \in Names
    BY DEF TypeOK
  <1>2. repo \in [Branches -> Nat] /\ cmd.index[cmd.dir] \in Nat
    BY <1>1 DEF TypeOK, WorldTypes, CommandRecords, Indexes
  <1>3. cmd.source.branch \in Branches \cup {Default}
    BY <1>1 DEF CommandRecords, Source
  <1>4. Scheme(cmd.source.branch) \subseteq Branches
    BY <1>3 DEF Scheme
  <1>5. \A w \in Archived(cmd.source) : w \in Nat
    BY <1>2, <1>4 DEF Archived
  <1>6. \A w \in Cloned(cmd.source) : w \in Nat
    BY <1>2, <1>3 DEF Cloned
  <1>7. Brought(cmd.source, public) \in
           {{cmd.index[cmd.dir]}, Archived(cmd.source), Cloned(cmd.source)}
    BY DEF Brought, Provider
  <1>8. QED
    BY <1>2, <1>5, <1>6, <1>7

LEMMA OfferedTypes ==
    ASSUME TypeOK, NEW v \in Nat
    PROVE  Offered(v) \in Nat
  BY DEF TypeOK, CommandRecords, Offered, Indexed, NoVersion, Latest

LEMMA ProviderTypes ==
    ASSUME TypeOK, Index \/ SaveIndex \/ Fetch
    PROVE  TypeOK'
  <1> USE DEF Step
  <1>1. UNCHANGED <<dirVars, worldVars>> /\ pc \in Working
    BY DEF Index, SaveIndex, Fetch, Failing, Working, Asking
  <1>2. cmd \in CommandRecords /\ cmd.dir \in Names
    BY <1>1 DEF TypeOK
  <1>3. CASE (Fails \/ Succeeds) /\ UNCHANGED cache
    BY <1>1, <1>3, LeavesTypes, ApartTypes
  <1>4. CASE Index /\ ~Fails
    <2>1. PICK index \in {cache.index, hub} :
            cmd' = [cmd EXCEPT !.index = index] /\ pc' \in {"fetch", "cache"}
      BY <1>4 DEF Index
    <2>2. index \in Indexes
      BY DEF TypeOK, WorldTypes
    <2>3. cmd' \in CommandRecords /\ cmd'.dir \in Names
      BY <1>2, <2>1, <2>2 DEF CommandRecords
    <2>4. UNCHANGED cache
      BY <1>4 DEF Index
    <2>5. QED
      BY <1>1, <2>1, <2>3, <2>4, ApartTypes DEF Working, Asking
  <1>5. CASE SaveIndex
    <2>1. CASE Failing(Fails)
      BY <1>1, <2>1, LeavesTypes, ApartTypes DEF Failing
    <2>2. CASE ~Failing(Fails)
      <3>1. /\ cache' = [state |-> "fresh", index |-> cmd.index]
            /\ pc' = "fetch" /\ cmd' = cmd
        BY <1>5, <2>2 DEF SaveIndex
      <3>2. cmd.index \in Indexes
        BY <1>2 DEF CommandRecords
      <3>3. QED
        BY <1>1, <1>2, <3>1, <3>2 DEF TypeOK, WorldTypes, dirVars, worldVars, Working, Asking
    <2>3. QED
      BY <2>1, <2>2
  <1>6. CASE Fetch /\ ~Fails /\ ~Succeeds
    <2>1. PICK brought \in UNION {Brought(cmd.source, public) : public \in BOOLEAN} :
            cmd' = [cmd EXCEPT !.package = Offered(brought)] /\ pc' = "backup"
      BY <1>6 DEF Fetch, FetchFails
    <2>2. Offered(brought) \in Nat
      BY <1>1, BroughtTypes, OfferedTypes
    <2>3. cmd' \in CommandRecords /\ cmd'.dir \in Names
      BY <1>2, <2>1, <2>2 DEF CommandRecords
    <2>4. UNCHANGED cache
      BY <1>6 DEF Fetch
    <2>5. QED
      BY <1>1, <2>1, <2>3, <2>4, ApartTypes DEF Working, Asking
  <1>7. Index \/ Fetch => UNCHANGED cache
    BY DEF Index, Fetch
  <1>8. QED
    BY <1>3, <1>4, <1>5, <1>6, <1>7

\* What a step of `save' or of a removal makes of the directories.
LEMMA PutTypes ==
    ASSUME TypeOK, NEW n \in Names, NEW d \in Dirs
    PROVE  /\ [live EXCEPT ![n] = d] \in [Names -> Dirs]
           /\ [old EXCEPT ![n] = d] \in [Names -> Dirs]
           /\ live[n] \in Dirs /\ old[n] \in Dirs
  BY DEF TypeOK

LEMMA FileTypes ==
    ASSUME TypeOK, NEW n \in Names, NEW v \in Nat, NEW source \in Source
    PROVE  /\ [live EXCEPT ![n].manifest = v] \in [Names -> Dirs]
           /\ [live EXCEPT ![n].matches = v] \in [Names -> Dirs]
           /\ [live EXCEPT ![n].source = source] \in [Names -> Dirs]
  <1>1. live \in [Names -> Dirs]
    BY DEF TypeOK
  <1>2. /\ [live[n] EXCEPT !.manifest = v] \in Dirs
        /\ [live[n] EXCEPT !.matches = v] \in Dirs
        /\ [live[n] EXCEPT !.source = source] \in Dirs
    BY <1>1 DEF Dirs
  <1>3. QED
    BY <1>1, <1>2

LEMMA SaveTypes ==
    ASSUME TypeOK, Backup \/ Create \/ Copy \/ WriteSource
    PROVE  TypeOK'
  <1> USE DEF Step
  <1>1. UNCHANGED <<worldVars, cache>> /\ pc \in Working
    BY DEF Backup, Create, Copy, WriteSource, Failing, Working, Asking, Saving
  <1>2. cmd \in CommandRecords /\ cmd.dir \in Names /\ live[cmd.dir] \in Dirs
    BY <1>1 DEF TypeOK
  <1>3. CASE (Fails \/ Unwinds) /\ UNCHANGED dirVars
    BY <1>1, <1>3, LeavesTypes, ApartTypes
  <1>4. CASE Failing(Unwinds)
    BY <1>1, <1>4, LeavesTypes, ApartTypes DEF Failing
  <1>5. CASE Backup /\ ~Fails
    <2>1. CASE pc' = "create" /\ UNCHANGED <<cmd, dirVars>>
      BY <1>1, <1>2, <2>1, ApartTypes DEF Working, Saving
    <2>2. CASE ~(pc' = "create" /\ UNCHANGED <<cmd, dirVars>>)
      <3>1. /\ live' = [live EXCEPT ![cmd.dir] = NoDir]
            /\ old' = [old EXCEPT ![cmd.dir] = live[cmd.dir]]
            /\ cmd' = [cmd EXCEPT !.guard = TRUE, !.before = live[cmd.dir]]
            /\ pc' = "create"
        BY <1>5, <2>2 DEF Backup
      <3>2. cmd' \in CommandRecords /\ cmd'.dir \in Names
        BY <1>2, <3>1 DEF CommandRecords
      <3>3. live' \in [Names -> Dirs] /\ old' \in [Names -> Dirs]
        BY <1>2, <3>1, PutTypes, ConstantTypes
      <3>4. QED
        BY <1>1, <3>1, <3>2, <3>3, DirsTypes DEF Working, Saving
    <2>3. QED
      BY <2>1, <2>2
  <1>6. CASE Create /\ ~Failing(Unwinds)
    <2>1. live' = [live EXCEPT ![cmd.dir] = Empty] /\ old' = old /\ pc' = "copy" /\ cmd' = cmd
      BY <1>6 DEF Create
    <2>2. live' \in [Names -> Dirs] /\ old' \in [Names -> Dirs]
      BY <1>2, <2>1, PutTypes, ConstantTypes DEF TypeOK
    <2>3. QED
      BY <1>1, <1>2, <2>1, <2>2, DirsTypes DEF Working, Saving
  <1>7. CASE Copy /\ ~Failing(Unwinds)
    <2>1. cmd' = cmd /\ old' = old /\ pc' \in {"copy", "source"}
      BY <1>7 DEF Copy, dirVars
    <2>2. \/ live' = live
          \/ live' = [live EXCEPT ![cmd.dir].manifest = cmd.package]
          \/ live' = [live EXCEPT ![cmd.dir].matches = cmd.package]
      BY <1>7 DEF Copy, dirVars
    <2>3. cmd.package \in Nat /\ cmd.source \in Source
      BY <1>2 DEF CommandRecords
    <2>4. live' \in [Names -> Dirs] /\ old' \in [Names -> Dirs]
      <3>1. /\ [live EXCEPT ![cmd.dir].manifest = cmd.package] \in [Names -> Dirs]
            /\ [live EXCEPT ![cmd.dir].matches = cmd.package] \in [Names -> Dirs]
        BY <1>2, <2>3, FileTypes
      <3>2. live \in [Names -> Dirs] /\ old \in [Names -> Dirs]
        BY DEF TypeOK
      <3>3. QED
        BY <2>1, <2>2, <3>1, <3>2
    <2>5. QED
      BY <1>1, <1>2, <2>1, <2>4, DirsTypes DEF Working, Saving
  <1>8. CASE WriteSource /\ ~Failing(Unwinds)
    <2>1. /\ live' = [live EXCEPT ![cmd.dir].source = cmd.source]
          /\ cmd' = cmd /\ old' = old /\ pc' = "clean"
      BY <1>8 DEF WriteSource
    <2>2. cmd.package \in Nat /\ cmd.source \in Source
      BY <1>2 DEF CommandRecords
    <2>3. live' \in [Names -> Dirs] /\ old' \in [Names -> Dirs]
      BY <1>2, <2>1, <2>2, FileTypes DEF TypeOK
    <2>4. QED
      BY <1>1, <1>2, <2>1, <2>3, DirsTypes DEF Working, Saving
  <1>9. CASE Backup /\ Fails
    <2>1. CASE UNCHANGED dirVars
      BY <1>3, <1>9, <2>1
    <2>2. CASE ~UNCHANGED dirVars
      <3>1. /\ live' = [live EXCEPT ![cmd.dir] = NoDir]
            /\ old' = [old EXCEPT ![cmd.dir] = live[cmd.dir]]
        BY <1>9, <2>2 DEF Backup
      <3>2. live' \in [Names -> Dirs] /\ old' \in [Names -> Dirs]
        BY <1>2, <3>1, PutTypes, ConstantTypes
      <3>3. QED
        BY <1>1, <1>9, <3>2, LeavesTypes, DirsTypes
    <2>3. QED
      BY <2>1, <2>2
  <1>10. QED
    BY <1>4, <1>5, <1>6, <1>7, <1>8, <1>9

LEMMA RemovalTypes ==
    ASSUME TypeOK, Clean \/ Read \/ Undo \/ Delete
    PROVE  TypeOK'
  <1> USE DEF Step
  <1>1. UNCHANGED <<worldVars, cache>> /\ pc \in Working
    BY DEF Clean, Read, Undo, Delete, Failing, Working, Asking, Saving
  <1>2. /\ cmd \in CommandRecords /\ cmd.dir \in Names
        /\ live[cmd.dir] \in Dirs /\ old[cmd.dir] \in Dirs
        /\ live \in [Names -> Dirs] /\ old \in [Names -> Dirs]
    BY <1>1 DEF TypeOK
  <1>3. CASE (Fails \/ Succeeds \/ Unwinds) /\ UNCHANGED dirVars
    BY <1>1, <1>3, LeavesTypes, ApartTypes
  <1>4. CASE Failing(Unwinds) \/ Failing(Fails)
    BY <1>1, <1>4, LeavesTypes, ApartTypes DEF Failing
  <1>5. CASE Clean /\ ~Failing(Unwinds)
    <2>1. CASE \E c \in Removed(old[cmd.dir]) : old' = [old EXCEPT ![cmd.dir] = c]
      <3>1. PICK c \in Removed(old[cmd.dir]) : old' = [old EXCEPT ![cmd.dir] = c]
        BY <2>1
      <3>2. old' \in [Names -> Dirs]
        BY <1>2, <3>1, RemovedTypes, PutTypes
      <3>3. cmd' = cmd /\ pc' \in {"clean", "read"} /\ live' = live
        BY <1>5 DEF Clean, dirVars
      <3>4. QED
        BY <1>1, <1>2, <3>2, <3>3, DirsTypes DEF Working, Saving
    <2>2. CASE ~(\E c \in Removed(old[cmd.dir]) : old' = [old EXCEPT ![cmd.dir] = c])
      <3>1. cmd' = cmd /\ pc' = "read" /\ UNCHANGED dirVars
        BY <1>5, <2>2 DEF Clean
      <3>2. QED
        BY <1>1, <1>2, <3>1, ApartTypes DEF Working, Saving
    <2>3. QED
      BY <2>1, <2>2
  <1>6. CASE Read /\ ~Failing(Unwinds)
    BY <1>3, <1>6 DEF Read
  <1>7. CASE Undo
    <2>1. CASE \E c \in Removed(live[cmd.dir]) : /\ live' = [live EXCEPT ![cmd.dir] = c]
                                                 /\ UNCHANGED <<cmd, pc, old>>
      <3>1. PICK c \in Removed(live[cmd.dir]) : /\ live' = [live EXCEPT ![cmd.dir] = c]
                                                /\ UNCHANGED <<cmd, pc, old>>
        BY <2>1
      <3>2. live' \in [Names -> Dirs]
        BY <1>2, <3>1, RemovedTypes, PutTypes
      <3>3. QED
        BY <1>1, <1>2, <3>1, <3>2, DirsTypes
    <2>2. CASE /\ live' = [live EXCEPT ![cmd.dir] = old[cmd.dir]]
               /\ old' = [old EXCEPT ![cmd.dir] = NoDir] /\ Fails
      <3>1. live' \in [Names -> Dirs] /\ old' \in [Names -> Dirs]
        BY <1>2, <2>2, PutTypes, ConstantTypes
      <3>2. QED
        BY <1>1, <2>2, <3>1, LeavesTypes, DirsTypes
    <2>3. CASE UNCHANGED dirVars /\ pc' = "idle" /\ cmd' = NoCommand
      BY <1>1, <2>3, ConstantTypes, ApartTypes DEF Working, Asking, Saving
    <2>4. QED
      BY <1>7, <2>1, <2>2, <2>3 DEF Undo, Failing
  <1>8. CASE Delete /\ ~Failing(Fails)
    <2>1. PICK c \in Removed(live[cmd.dir]) :
             /\ live' = [live EXCEPT ![cmd.dir] = c]
             /\ Succeeds \/ UNCHANGED <<cmd, pc>>
      BY <1>8 DEF Delete
    <2>2. live' \in [Names -> Dirs] /\ old' = old
      BY <1>2, <1>8, <2>1, RemovedTypes, PutTypes DEF Delete
    <2>3. CASE Succeeds
      BY <1>1, <1>2, <2>2, <2>3, LeavesTypes, DirsTypes
    <2>4. CASE UNCHANGED <<cmd, pc>>
      BY <1>1, <1>2, <2>2, <2>4, DirsTypes
    <2>5. QED
      BY <2>1, <2>3, <2>4
  <1>9. QED
    BY <1>4, <1>5, <1>6, <1>7, <1>8

LEMMA WorldKeepsTypes ==
    ASSUME TypeOK, World
    PROVE  TypeOK'
  <1>1. CASE Crash
    <2>1. /\ cache' \in {cache, [state |-> "torn", index |-> NoIndex]}
          /\ pc' = "idle" /\ cmd' = NoCommand /\ UNCHANGED <<dirVars, worldVars>>
      BY <1>1 DEF Crash
    <2>2. cache' \in [state : {"absent", "fresh", "stale", "torn"}, index : Indexes]
      BY <2>1, ConstantTypes DEF TypeOK, WorldTypes
    <2>3. QED
      BY <2>1, <2>2, ConstantTypes DEF TypeOK, WorldTypes, dirVars, worldVars, Working, Asking, Saving
  <1>2. CASE HourPasses
    <2>1. cache' = [cache EXCEPT !.state = "stale"] /\ UNCHANGED <<dirVars, worldVars, cmd, pc>>
      BY <1>2 DEF HourPasses
    <2>2. cache' \in [state : {"absent", "fresh", "stale", "torn"}, index : Indexes]
      BY <2>1 DEF TypeOK, WorldTypes
    <2>3. QED
      BY <2>1, <2>2 DEF TypeOK, WorldTypes, dirVars, worldVars
  <1>3. ASSUME NEW n \in Names, Publish(n) PROVE TypeOK'
    <2>1. hub[n] \in Nat /\ hub \in [Names -> Nat]
      BY DEF TypeOK, WorldTypes, Indexes
    <2>2. hub[n] + 1 \in Nat
      BY <2>1
    <2>3. hub' = [hub EXCEPT ![n] = hub[n] + 1] /\ UNCHANGED <<dirVars, repo, host, cache, cmd, pc>>
      BY <1>3 DEF Publish
    <2>4. hub' \in Indexes
      BY <2>1, <2>2, <2>3 DEF Indexes
    <2>5. QED
      BY <2>3, <2>4 DEF TypeOK, WorldTypes, dirVars
  <1>4. ASSUME NEW b \in Branches, NEW v \in Versions, Push(b, v) PROVE TypeOK'
    <2>1. repo' \in [Branches -> Nat]
      BY <1>4 DEF Push, TypeOK, WorldTypes, Versions
    <2>2. QED
      BY <1>4, <2>1 DEF Push, TypeOK, WorldTypes, dirVars
  <1>5. QED
    BY <1>1, <1>2, <1>3, <1>4 DEF World

\* Every step keeps the types.
LEMMA NextTypes ==
    ASSUME TypeOK, [Next]_vars
    PROVE  TypeOK'
  <1>1. CASE Command
    BY <1>1, CommandTypes
  <1>2. CASE CommandStep
    BY <1>2, LoopTypes, ProviderTypes, SaveTypes, RemovalTypes DEF CommandStep
  <1>3. CASE World
    BY <1>3, WorldKeepsTypes
  <1>4. CASE UNCHANGED vars
    BY <1>4 DEF TypeOK, WorldTypes, vars
  <1>5. QED
    BY <1>1, <1>2, <1>3, <1>4 DEF Next

-----------------------------------------------------------------------------
(* Nothing is lost                                                         *)

LEMMA DirsDiffer == ~Whole(NoDir) /\ ~Whole(Empty)
  BY DEF Whole, NoDir, Empty

LEMMA RestCovered ==
    ASSUME LossInv, pc' \in Results \cup {"idle", "next"}, UNCHANGED <<dirVars, historyVars>>
    PROVE  Covered' /\ NothingLost'
  BY DEF LossInv, Covered, NothingLost, Unspoilt, Results, Asking, Saving, dirVars, historyVars

LEMMA AskingCovered ==
    ASSUME LossInv, pc' \in Asking, UNCHANGED <<dirVars, historyVars>>, ~cmd'.guard,
           pc' # "get" => cmd'.source # NoSource,
           pc' = "backup" => cmd'.package # NoVersion
    PROVE  Covered' /\ NothingLost'
  BY DEF LossInv, Covered, NothingLost, Unspoilt, Asking, Saving, dirVars, historyVars

LEMMA CommandLoss ==
    ASSUME LossInv, Command
    PROVE  Covered' /\ NothingLost'
  <1>1. ASSUME NEW n \in Names, NEW o \in Installs, Install(n, o)
        PROVE  Covered' /\ NothingLost'
    <2>1. o.source # NoSource
      BY PackagesAssumption
    <2>2. CASE o.source # Hub /\ ~o.external
      BY <1>1, <2>2, RestCovered DEF Install, Begin, Results
    <2>3. CASE ~(o.source # Hub /\ ~o.external)
      <3>1. /\ cmd' = [NoCommand EXCEPT !.op = "install", !.dir = n, !.version = o.version,
                                        !.source = o.source, !.force = o.force,
                                        !.refresh = o.refresh, !.total = 1]
            /\ pc' \in {"index", "fetch"} /\ UNCHANGED <<dirVars, historyVars>>
        BY <1>1, <2>3 DEF Install, Begin
      <3>2. cmd'.source # NoSource /\ ~cmd'.guard
        BY <2>1, <3>1 DEF NoCommand
      <3>3. QED
        BY <3>1, <3>2, AskingCovered DEF Asking
    <2>4. QED
      BY <2>2, <2>3
  <1>2. ASSUME NEW n \in Names, Update(n)
        PROVE  Covered' /\ NothingLost'
    <2>1. /\ cmd' = [NoCommand EXCEPT !.op = "update", !.dir = n, !.force = TRUE, !.total = 1]
          /\ pc' = "get" /\ UNCHANGED <<dirVars, historyVars>>
      BY <1>2 DEF Update, Begin
    <2>2. ~cmd'.guard
      BY <2>1 DEF NoCommand
    <2>3. QED
      BY <2>1, <2>2, AskingCovered DEF Asking
  <1>3. ASSUME NEW n \in Names, Uninstall(n)
        PROVE  Covered' /\ NothingLost'
    <2>1. CASE live[n] = NoDir
      BY <1>3, <2>1, RestCovered DEF Uninstall, Begin, Results
    <2>2. CASE live[n] # NoDir
      <3>1. /\ cmd' = [NoCommand EXCEPT !.op = "uninstall", !.dir = n, !.total = 1]
            /\ pc' = "delete" /\ installed' = installed \ {n}
            /\ UNCHANGED <<dirVars, spoilt>>
        BY <1>3, <2>2 DEF Uninstall
      <3>2. cmd'.dir = n
        BY <3>1 DEF NoCommand
      <3>3. QED
        BY <3>1, <3>2 DEF LossInv, Covered, NothingLost, Unspoilt, Asking, Saving, dirVars
    <2>3. QED
      BY <2>1, <2>2
  <1>4. ASSUME UpdateAll \/ List
        PROVE  Covered' /\ NothingLost'
    BY <1>4, RestCovered DEF UpdateAll, List, Begin, Results
  <1>5. QED
    BY <1>1, <1>2, <1>3, <1>4 DEF Command

LEMMA AskingLoss ==
    ASSUME LossInv, Report \/ NextUpdate \/ Get \/ Index \/ SaveIndex \/ Fetch
    PROVE  Covered' /\ NothingLost'
  <1> USE DEF Step
  <1>1. UNCHANGED <<dirVars, historyVars>> /\ TypeOK
    BY DEF Report, NextUpdate, Get, Index, SaveIndex, Fetch, Failing, LossInv
  <1>2. CASE Fails \/ Succeeds
    BY <1>1, <1>2, FailsTypes, SucceedsTypes, RestCovered
  <1>3. CASE Report
    BY <1>1, <1>3, RestCovered DEF Report
  <1>4. CASE NextUpdate
    <2>1. PICK entry \in cmd.todo :
            LET c == [cmd EXCEPT !.todo = @ \ {entry}, !.dir = entry[1],
                                 !.before = NoDir, !.guard = FALSE]
            IN  \/ Finish([c EXCEPT !.errors = @ + 1])
                \/ pc' = "get" /\ cmd' = c
      BY <1>4 DEF NextUpdate
    <2> DEFINE c == [cmd EXCEPT !.todo = @ \ {entry}, !.dir = entry[1],
                                !.before = NoDir, !.guard = FALSE]
    <2>2. CASE pc' = "get" /\ cmd' = c
      <3>1. ~cmd'.guard
        BY <1>1, <2>2 DEF TypeOK, CommandRecords
      <3>2. QED
        BY <1>1, <2>2, <3>1, AskingCovered DEF Asking
    <2>3. CASE Finish([c EXCEPT !.errors = @ + 1])
      BY <1>1, <2>3, RestCovered DEF Finish, Result, Results
    <2>4. QED
      BY SMTT(30), <2>1, <2>2, <2>3
  <1>5. cmd \in CommandRecords /\ cmd.dir \in Names \cup {""}
    BY <1>1 DEF TypeOK, CommandRecords
  <1>6. CASE Get /\ ~Fails
    <2>1. PICK source \in {Hub, live[cmd.dir].source} :
            /\ cmd' = [cmd EXCEPT !.source = source] /\ pc' \in {"index", "fetch"}
            /\ source # NoSource
      BY <1>6, ConstantTypes DEF Get, Unreadable
    <2>2. ~cmd.guard
      BY <1>6 DEF Get, LossInv, Covered, Asking
    <2>3. cmd'.source # NoSource /\ ~cmd'.guard
      BY <1>5, <2>1, <2>2 DEF CommandRecords
    <2>4. QED
      BY <1>1, <2>1, <2>3, AskingCovered DEF Asking
  <1>7. CASE (Index \/ SaveIndex) /\ ~Fails
    <2>1. cmd'.source = cmd.source /\ cmd'.guard = cmd.guard /\ pc' \in {"cache", "fetch"}
      BY <1>5, <1>7 DEF Index, SaveIndex, Failing, CommandRecords
    <2>2. cmd.source # NoSource /\ ~cmd.guard
      BY <1>7 DEF Index, SaveIndex, LossInv, Covered, Asking
    <2>3. QED
      BY <1>1, <2>1, <2>2, AskingCovered DEF Asking
  <1>8. CASE Fetch /\ ~Fails /\ ~Succeeds
    <2>1. PICK v : cmd' = [cmd EXCEPT !.package = v] /\ pc' = "backup" /\ v # NoVersion
      BY <1>8 DEF Fetch, FetchFails
    <2>2. cmd.source # NoSource /\ ~cmd.guard
      BY <1>8 DEF Fetch, LossInv, Covered, Asking
    <2>3. cmd'.source # NoSource /\ ~cmd'.guard /\ cmd'.package # NoVersion
      BY <1>5, <2>1, <2>2 DEF CommandRecords
    <2>4. QED
      BY <1>1, <2>1, <2>3, AskingCovered DEF Asking
  <1>9. QED
    BY SMTT(30), <1>2, <1>3, <1>4, <1>6, <1>7, <1>8

\* The source file is the last one that is written.
LEMMA StoredLast ==
    ASSUME NEW c \in Dirs, c.exists, NEW v, c.manifest = v, c.matches = v, NEW source
    PROVE  [c EXCEPT !.source = source] = Stored(v, source)
  <1>1. c.exists = TRUE
    BY DEF Dirs
  <1>2. PICK exists \in BOOLEAN, manifest \in Nat, matches \in Nat, from \in Source :
          c = [exists |-> exists, manifest |-> manifest, matches |-> matches, source |-> from]
    BY Zenon DEF Dirs
  <1>3. exists = TRUE /\ manifest = v /\ matches = v
    BY <1>1, <1>2
  <1>4. [[exists |-> exists, manifest |-> manifest, matches |-> matches, source |-> from]
            EXCEPT !.source = source]
          = [exists |-> exists, manifest |-> manifest, matches |-> matches, source |-> source]
    <2>1. ASSUME NEW e, NEW m, NEW a, NEW f
          PROVE  [[exists |-> e, manifest |-> m, matches |-> a, source |-> f]
                    EXCEPT !.source = source]
                 = [exists |-> e, manifest |-> m, matches |-> a, source |-> source]
      OBVIOUS
    <2>2. QED
      BY Zenon, <2>1
  <1>5. QED
    BY Zenon, <1>2, <1>3, <1>4 DEF Stored

LEMMA SaveLoss ==
    ASSUME LossInv, Backup \/ Create \/ Copy \/ WriteSource
    PROVE  Covered' /\ NothingLost'
  <1> USE DEF Step
  <1>1. /\ UNCHANGED historyVars /\ TypeOK /\ pc \in Working
        /\ pc \in {"backup", "create", "copy", "source"}
    BY DEF Backup, Create, Copy, WriteSource, Failing, LossInv, Working, Asking, Saving
  <1>2. /\ cmd \in CommandRecords /\ cmd.dir \in Names /\ installed \subseteq Names
        /\ live \in [Names -> Dirs] /\ old \in [Names -> Dirs]
    BY <1>1 DEF TypeOK, LossInv, Covered
  <1>3. ASSUME Failing(Unwinds), pc # "backup"
        PROVE  Covered' /\ NothingLost'
    <2>1. UNCHANGED dirVars
      BY <1>3 DEF Failing
    <2>2. CASE Fails
      BY <1>1, <2>1, <2>2, FailsTypes, RestCovered
    <2>3. CASE pc' = "undo" /\ cmd' = cmd
      BY <1>1, <1>3, <2>1, <2>3 DEF LossInv, Covered, NothingLost, Unspoilt, Asking, Saving,
         dirVars, historyVars
    <2>4. QED
      BY <1>1, <1>3, <2>2, <2>3, UnwindsTypes DEF Failing
  <1>4. CASE Backup
    <2>1. CASE pc' = "create" /\ UNCHANGED <<cmd, dirVars>> /\ live[cmd.dir] = NoDir
      BY <1>1, <1>2, <1>4, <2>1, DirsDiffer
      DEF Backup, LossInv, Covered, NothingLost, Unspoilt, Asking, Saving, dirVars, historyVars
    <2>2. CASE Fails /\ UNCHANGED dirVars
      BY <1>1, <2>2, FailsTypes, RestCovered
    <2>3. CASE /\ old[cmd.dir] \in {NoDir, Empty}
               /\ live' = [live EXCEPT ![cmd.dir] = NoDir]
               /\ old' = [old EXCEPT ![cmd.dir] = live[cmd.dir]]
               /\ cmd' = [cmd EXCEPT !.guard = TRUE, !.before = live[cmd.dir]]
               /\ pc' = "create"
      <3>1. /\ cmd'.dir = cmd.dir /\ cmd'.before = live[cmd.dir]
            /\ cmd'.source = cmd.source /\ cmd'.package = cmd.package
        BY <1>2, <2>3 DEF CommandRecords
      <3>2. /\ old'[cmd.dir] = live[cmd.dir]
            /\ \A n \in Names \ {cmd.dir} : live'[n] = live[n] /\ old'[n] = old[n]
        BY <1>2, <2>3
      <3>3. Unspoilt(cmd.dir) => Whole(live[cmd.dir])
        BY <2>3, DirsDiffer DEF LossInv, NothingLost, Unspoilt
      <3>4. cmd.source # NoSource /\ cmd.package # NoVersion
        BY <1>4 DEF Backup, LossInv, Covered
      <3>5. NothingLost'
        BY <1>1, <1>2, <3>2, <3>3 DEF LossInv, NothingLost, Unspoilt, historyVars
      <3>6. Covered'
        BY <1>1, <1>2, <2>3, <3>1, <3>2, <3>3, <3>4
        DEF Covered, Unspoilt, Asking, Saving, historyVars
      <3>7. QED
        BY <3>5, <3>6
    <2>4. QED
      BY <1>4, <2>1, <2>2, <2>3 DEF Backup
  <1>5. ASSUME NEW d, live' = [live EXCEPT ![cmd.dir] = d], old' = old,
               pc \in {"create", "copy", "source"}
        PROVE  NothingLost' /\ live'[cmd.dir] = d
    BY <1>1, <1>2, <1>5 DEF LossInv, Covered, NothingLost, Unspoilt, historyVars
  <1>6. CASE Create /\ ~Failing(Unwinds)
    <2>1. live' = [live EXCEPT ![cmd.dir] = Empty] /\ old' = old /\ pc' = "copy" /\ cmd' = cmd
      BY <1>6 DEF Create
    <2>2. NothingLost' /\ live'[cmd.dir] = Empty
      BY <1>5, <1>6, <2>1 DEF Create
    <2>3. Covered'
      BY <1>1, <1>6, <2>1, <2>2
      DEF Create, LossInv, Covered, Unspoilt, Asking, Saving, historyVars, Empty, NoDir
    <2>4. QED
      BY <2>2, <2>3
  <1>7. CASE Copy /\ ~Failing(Unwinds)
    <2>1. cmd' = cmd /\ old' = old
      BY <1>7 DEF Copy, dirVars
    <2>2. CASE pc' = "source" /\ live' = live /\ live[cmd.dir].manifest # NoVersion
               /\ live[cmd.dir].matches # NoVersion
      BY <1>1, <1>7, <2>1, <2>2
      DEF Copy, LossInv, Covered, NothingLost, Unspoilt, Asking, Saving, historyVars
    <2>3. ASSUME NEW d \in {[live[cmd.dir] EXCEPT !.manifest = cmd.package],
                            [live[cmd.dir] EXCEPT !.matches = cmd.package]},
                 pc' = pc, live' = [live EXCEPT ![cmd.dir] = d]
          PROVE  Covered' /\ NothingLost'
      <3>1. NothingLost' /\ live'[cmd.dir] = d
        BY <1>5, <1>7, <2>1, <2>3 DEF Copy
      <3>2. live[cmd.dir] \in Dirs
        BY <1>2
      <3>3. /\ d.manifest \in {NoVersion, cmd.package}
            /\ d.matches \in {NoVersion, cmd.package}
        BY <1>7, <3>2 DEF Copy, LossInv, Covered, Dirs
      <3>4. d.exists
        BY <1>7, <3>2 DEF Copy, LossInv, Covered, Dirs
      <3>5. Covered'
        BY <1>1, <1>7, <2>1, <2>3, <3>1, <3>3, <3>4
        DEF Copy, LossInv, Covered, Unspoilt, Asking, Saving, historyVars
      <3>6. QED
        BY <3>1, <3>5
    <2>4. QED
      BY <1>7, <2>2, <2>3 DEF Copy, dirVars
  <1>8. CASE WriteSource /\ ~Failing(Unwinds)
    <2> DEFINE d == [live[cmd.dir] EXCEPT !.source = cmd.source]
    <2>1. live' = [live EXCEPT ![cmd.dir] = d] /\ old' = old /\ pc' = "clean" /\ cmd' = cmd
      BY <1>8 DEF WriteSource
    <2>2. NothingLost' /\ live'[cmd.dir] = d
      BY <1>5, <1>8, <2>1 DEF WriteSource
    <2>3. live[cmd.dir] \in Dirs
      BY <1>2
    <2>4. d = Stored(cmd.package, cmd.source)
      <3>1. /\ live[cmd.dir].exists /\ live[cmd.dir].manifest = cmd.package
            /\ live[cmd.dir].matches = cmd.package
        BY <1>8 DEF WriteSource, LossInv, Covered
      <3>2. QED
        BY <2>3, <3>1, StoredLast
    <2> HIDE DEF d
    <2>5. Covered'
      BY <1>1, <1>8, <2>1, <2>2, <2>4
      DEF WriteSource, LossInv, Covered, Unspoilt, Asking, Saving, historyVars
    <2>6. QED
      BY <2>2, <2>5
  <1>9. QED
    BY <1>1, <1>3, <1>4, <1>6, <1>7, <1>8 DEF Create, Copy, WriteSource

LEMMA RemovalLoss ==
    ASSUME LossInv, Clean \/ Read \/ Undo \/ Delete
    PROVE  Covered' /\ NothingLost'
  <1> USE DEF Step
  <1>1. TypeOK /\ pc \in Working
    BY DEF Clean, Read, Undo, Delete, LossInv, Working, Saving
  <1>2. /\ cmd \in CommandRecords /\ cmd.dir \in Names /\ installed \subseteq Names
        /\ live \in [Names -> Dirs] /\ old \in [Names -> Dirs]
    BY <1>1 DEF TypeOK, LossInv, Covered
  <1>3. CASE Clean
    <2>1. /\ Whole(live[cmd.dir]) /\ pc = "clean" /\ installed' = installed
          /\ live[cmd.dir] = Stored(cmd.package, cmd.source)
      BY <1>3 DEF Clean, LossInv, Covered, Stored, Whole, Saving
    <2>2. ASSUME UNCHANGED <<cmd, live, spoilt>>, pc' \in {"clean", "read"},
                 pc' = "read" => old'[cmd.dir] = NoDir,
                 \A n \in Names \ {cmd.dir} : old'[n] = old[n]
          PROVE  Covered' /\ NothingLost'
      BY <1>2, <2>1, <2>2 DEF LossInv, Covered, NothingLost, Unspoilt, Asking, Saving
    <2>3. ASSUME Unwinds, UNCHANGED dirVars,
                 spoilt' = IF ~cmd.guard \/ old[cmd.dir] = cmd.before THEN spoilt
                           ELSE spoilt \cup {cmd.dir}
          PROVE  Covered' /\ NothingLost'
      <3>1. NothingLost'
        BY <1>2, <2>1, <2>3 DEF LossInv, NothingLost, dirVars
      <3>2. CASE Fails
        BY <1>1, <1>2, <2>1, <3>1, <3>2, FailsTypes
        DEF Covered, Asking, Saving, Results
      <3>3. CASE pc' = "undo" /\ cmd' = cmd /\ cmd.guard
        BY <1>2, <2>1, <2>3, <3>1, <3>3
        DEF LossInv, Covered, Unspoilt, Asking, Saving, dirVars
      <3>4. QED
        BY <1>1, <2>3, <3>2, <3>3, UnwindsTypes
    <2>4. CASE \E c \in Removed(old[cmd.dir]) :
                 old' = [old EXCEPT ![cmd.dir] = c] /\ UNCHANGED <<cmd, pc, live, spoilt>>
      BY <1>2, <2>1, <2>2, <2>4
    <2>5. CASE pc' = "read" /\ old[cmd.dir] = NoDir /\ UNCHANGED <<cmd, dirVars, spoilt>>
      BY <2>2, <2>5 DEF dirVars
    <2>6. QED
      BY <1>3, <2>3, <2>4, <2>5 DEF Clean, Failing
  <1>4. CASE Read
    <2>1. Whole(live[cmd.dir]) /\ old[cmd.dir] = NoDir /\ UNCHANGED dirVars
      BY <1>4 DEF Read, Failing, LossInv, Covered, Stored, Whole, Saving
    <2>2. CASE /\ Succeeds /\ installed' = installed \cup {cmd.dir}
               /\ spoilt' = spoilt \ {cmd.dir}
      <3>1. pc' \in Results \cup {"next"}
        BY <1>1, <2>2, SucceedsTypes
      <3>2. NothingLost'
        BY <2>1, <2>2 DEF LossInv, NothingLost, dirVars
      <3>3. Covered'
        BY <1>2, <2>1, <2>2, <3>1 DEF Covered, Asking, Saving, Results
      <3>4. QED
        BY <3>2, <3>3
    <2>3. CASE Fails /\ UNCHANGED historyVars
      BY <1>1, <2>1, <2>3, FailsTypes, RestCovered
    <2>4. QED
      BY <1>4, <2>1, <2>2, <2>3 DEF Read, Failing, Unwinds
  <1>5. CASE Undo
    <2>1. (Unspoilt(cmd.dir) => Whole(old[cmd.dir])) /\ UNCHANGED historyVars /\ pc = "undo"
      BY <1>5 DEF Undo, LossInv, Covered
    <2>2. CASE \E c \in Removed(live[cmd.dir]) :
                 live' = [live EXCEPT ![cmd.dir] = c] /\ UNCHANGED <<cmd, pc, old>>
      <3>1. \A n \in Names \ {cmd.dir} : live'[n] = live[n]
        BY <1>2, <2>2
      <3>2. QED
        BY <1>2, <2>1, <2>2, <3>1
        DEF LossInv, Covered, NothingLost, Unspoilt, Asking, Saving, historyVars
    <2>3. CASE /\ live' = [live EXCEPT ![cmd.dir] = old[cmd.dir]]
               /\ old' = [old EXCEPT ![cmd.dir] = NoDir] /\ Fails
      <3>1. /\ live'[cmd.dir] = old[cmd.dir]
            /\ \A n \in Names \ {cmd.dir} : live'[n] = live[n] /\ old'[n] = old[n]
        BY <1>2, <2>3
      <3>2. NothingLost'
        BY <1>2, <2>1, <3>1 DEF LossInv, NothingLost, Unspoilt, historyVars
      <3>3. Covered'
        BY <1>1, <1>2, <2>1, <2>3, FailsTypes DEF Covered, Asking, Saving, Results, historyVars
      <3>4. QED
        BY <3>2, <3>3
    <2>4. CASE UNCHANGED dirVars /\ pc' = "idle"
      BY <2>1, <2>4, RestCovered
    <2>5. QED
      BY <1>5, <2>2, <2>3, <2>4 DEF Undo, Failing
  <1>6. CASE Delete
    <2>1. cmd.dir \notin installed /\ UNCHANGED historyVars /\ pc = "delete"
      BY <1>6 DEF Delete, LossInv, Covered
    <2>2. ASSUME Fails \/ Succeeds \/ UNCHANGED <<cmd, pc>>, old' = old,
                 \A n \in Names \ {cmd.dir} : live'[n] = live[n]
          PROVE  Covered' /\ NothingLost'
      <3>1. NothingLost'
        BY <1>2, <2>1, <2>2 DEF LossInv, NothingLost, historyVars
      <3>2. CASE UNCHANGED <<cmd, pc>>
        BY <1>2, <2>1, <3>1, <3>2 DEF LossInv, Covered, Asking, Saving, historyVars
      <3>3. CASE Fails \/ Succeeds
        BY <1>1, <1>2, <2>1, <3>1, <3>3, FailsTypes, SucceedsTypes
        DEF Covered, Asking, Saving, Results, historyVars
      <3>4. QED
        BY <2>2, <3>2, <3>3
    <2>3. CASE Failing(Fails)
      BY <2>2, <2>3 DEF Failing, dirVars
    <2>4. CASE \E c \in Removed(live[cmd.dir]) :
                 /\ live' = [live EXCEPT ![cmd.dir] = c]
                 /\ old' = old /\ (Succeeds \/ UNCHANGED <<cmd, pc>>)
      BY <1>2, <2>2, <2>4
    <2>5. QED
      BY <1>6, <2>3, <2>4 DEF Delete
  <1>7. QED
    BY <1>3, <1>4, <1>5, <1>6

LEMMA WorldLoss ==
    ASSUME LossInv, World
    PROVE  Covered' /\ NothingLost'
  <1>1. CASE Crash
    BY <1>1, RestCovered DEF Crash
  <1>2. CASE ~Crash
    <2>1. UNCHANGED <<dirVars, historyVars, cmd, pc>>
      BY <1>2 DEF World, HourPasses, Publish, Push
    <2>2. QED
      BY <2>1 DEF LossInv, Covered, NothingLost, Unspoilt, dirVars, historyVars
  <1>3. QED
    BY <1>1, <1>2

LEMMA InitLoss == Init => LossInv
  <1>1. SUFFICES ASSUME Init PROVE Covered /\ NothingLost
    BY InitTypes DEF LossInv
  <1>2. pc = "idle" /\ installed = {n \in Names : Whole(live[n])}
    BY <1>1 DEF Init
  <1>3. QED
    BY <1>2 DEF Covered, NothingLost, Asking, Saving

LEMMA NextLoss ==
    ASSUME LossInv, [Next]_vars
    PROVE  LossInv'
  <1>1. TypeOK'
    BY NextTypes DEF LossInv
  <1>2. CASE Command
    BY <1>1, <1>2, CommandLoss DEF LossInv
  <1>3. CASE CommandStep
    BY <1>1, <1>3, AskingLoss, SaveLoss, RemovalLoss DEF CommandStep, LossInv
  <1>4. CASE World
    BY <1>1, <1>4, WorldLoss DEF LossInv
  <1>5. CASE UNCHANGED vars
    BY <1>1, <1>5 DEF LossInv, Covered, NothingLost, Unspoilt, vars
  <1>6. QED
    BY <1>2, <1>3, <1>4, <1>5 DEF Next

\* A package that was installed stays whole in one of its two directories,
\* whatever fails and wherever the commands of DefaultArchiver are killed.
THEOREM InstalledAreKept == Spec => []NothingLost
  <1>1. LossInv /\ [Next]_vars => LossInv'
    BY NextLoss
  <1>2. LossInv => NothingLost
    BY DEF LossInv
  <1>3. QED
    BY <1>1, <1>2, InitLoss, PTL DEF Spec

-----------------------------------------------------------------------------
(* What failed is restored                                                 *)

LEMMA TodoTypes ==
    ASSUME TypeOK
    PROVE  /\ IsFiniteSet(cmd.todo) /\ Cardinality(cmd.todo) \in Nat
           /\ cmd.errors \in Nat /\ cmd.total \in Nat
           /\ cmd.todo \in SUBSET Entries
  <1>1. cmd.todo \in SUBSET Entries /\ cmd.errors \in Nat /\ cmd.total \in Nat
    BY DEF TypeOK, CommandRecords
  <1>2. QED
    BY <1>1, EntriesFinite

\* How the work that is counted goes on, and how it ends.
Goes == /\ cmd'.errors = cmd.errors /\ cmd'.todo = cmd.todo /\ cmd'.total = cmd.total
        /\ pc' \in Working

LEMMA GoesCounted ==
    ASSUME TypeOK, Counted, pc \in Working, Goes \/ Fails \/ Succeeds
    PROVE  Counted'
  <1>1. CASE Goes
    BY <1>1 DEF Goes, Counted, Working, Asking, Saving
  <1>2. CASE Fails
    <2>1. /\ cmd'.errors = cmd.errors + 1 /\ cmd'.todo = cmd.todo /\ cmd'.total = cmd.total
          /\ pc' \in Results \cup {"next"}
      BY <1>2, FailsTypes
    <2>2. cmd.errors + Cardinality(cmd.todo) < cmd.total
      BY DEF Counted
    <2>3. cmd.errors + 1 + Cardinality(cmd.todo) =< cmd.total
      BY <2>2, TodoTypes
    <2>4. QED
      BY <2>1, <2>3 DEF Counted, Results, Working, Asking, Saving
  <1>3. CASE Succeeds
    <2>1. cmd' = cmd /\ pc' \in Results \cup {"next"}
      BY <1>3, SucceedsTypes
    <2>2. cmd.errors + Cardinality(cmd.todo) =< cmd.total
      BY TodoTypes DEF Counted
    <2>3. QED
      BY <2>1, <2>2 DEF Counted, Results, Working, Asking, Saving
  <1>4. QED
    BY <1>1, <1>2, <1>3

LEMMA RestCounted ==
    ASSUME pc' \in Results \cup {"idle"}
    PROVE  Counted'
  BY DEF Counted, Results, Working, Asking, Saving

LEMMA BeginCounted ==
    ASSUME Command
    PROVE  Counted'
  <1>1. Cardinality({}) = 0 /\ NoCommand.todo = {} /\ NoCommand.errors = 0
    BY FS_EmptySet DEF NoCommand
  <1>2. ASSUME NEW c, cmd' = c, c.errors = 0, c.todo = {}, c.total = 1
        PROVE  Counted'
    BY <1>1, <1>2 DEF Counted
  <1>3. ASSUME NEW n \in Names, NEW o \in Installs, Install(n, o)
        PROVE  Counted'
    <2> DEFINE c == [NoCommand EXCEPT !.op = "install", !.dir = n, !.version = o.version,
                                      !.source = o.source, !.force = o.force,
                                      !.refresh = o.refresh, !.total = 1]
    <2>1. c.errors = 0 /\ c.todo = {} /\ c.total = 1
      BY DEF NoCommand
    <2>2. CASE cmd' = c
      <3> HIDE DEF c
      <3>1. QED
        BY <1>2, <2>1, <2>2
    <2>3. CASE pc' = "failure"
      BY <2>3, RestCounted DEF Results
    <2>4. QED
      BY <1>3, <2>2, <2>3 DEF Install, Begin
  <1>4. ASSUME NEW n \in Names, Update(n)
        PROVE  Counted'
    <2> DEFINE c == [NoCommand EXCEPT !.op = "update", !.dir = n, !.force = TRUE, !.total = 1]
    <2>1. c.errors = 0 /\ c.todo = {} /\ c.total = 1
      BY DEF NoCommand
    <2>2. cmd' = c
      BY <1>4 DEF Update, Begin
    <2> HIDE DEF c
    <2>3. QED
      BY <1>2, <2>1, <2>2
  <1>5. ASSUME NEW n \in Names, Uninstall(n)
        PROVE  Counted'
    <2> DEFINE c == [NoCommand EXCEPT !.op = "uninstall", !.dir = n, !.total = 1]
    <2>1. c.errors = 0 /\ c.todo = {} /\ c.total = 1
      BY DEF NoCommand
    <2>2. CASE cmd' = c
      <3> HIDE DEF c
      <3>1. QED
        BY <1>2, <2>1, <2>2
    <2>3. CASE pc' = "failure"
      BY <2>3, RestCounted DEF Results
    <2>4. QED
      BY <1>5, <2>2, <2>3 DEF Uninstall, Begin
  <1>6. CASE UpdateAll
    <2> DEFINE c == [NoCommand EXCEPT !.op = "update", !.force = TRUE, !.todo = Listed,
                                      !.total = Cardinality(Listed)]
    <2>1. CASE pc' \in Results
      BY <2>1, RestCounted
    <2>2. CASE pc' = "next" /\ cmd' = c
      <3>1. c.errors = 0 /\ c.todo = Listed /\ c.total = Cardinality(Listed)
        BY DEF NoCommand
      <3>2. Cardinality(Listed) \in Nat
        <4>1. Listed \in SUBSET Entries
          BY DEF Listed, Entries
        <4>2. QED
          BY <4>1, EntriesFinite
      <3> HIDE DEF c
      <3>3. QED
        BY <2>2, <3>1, <3>2 DEF Counted, Working, Asking, Saving
    <2>3. QED
      BY <1>6, <2>1, <2>2 DEF UpdateAll, Begin, Results
  <1>7. CASE List
    BY <1>7, RestCounted DEF List, Begin, Results
  <1>8. QED
    BY <1>3, <1>4, <1>5, <1>6, <1>7 DEF Command

\* The loop takes one package from those that are left.
LEMMA LoopCounted ==
    ASSUME TypeOK, Counted, NextUpdate
    PROVE  Counted'
  <1>1. PICK entry \in cmd.todo :
          LET c == [cmd EXCEPT !.todo = @ \ {entry}, !.dir = entry[1],
                               !.before = NoDir, !.guard = FALSE]
          IN  \/ Finish([c EXCEPT !.errors = @ + 1])
              \/ pc' = "get" /\ cmd' = c
    BY DEF NextUpdate
  <1> DEFINE c == [cmd EXCEPT !.todo = @ \ {entry}, !.dir = entry[1],
                              !.before = NoDir, !.guard = FALSE]
  <1>2. Cardinality(cmd.todo \ {entry}) = Cardinality(cmd.todo) - 1
    BY TodoTypes, FS_RemoveElement
  <1>3. Cardinality(cmd.todo \ {entry}) \in Nat
    BY TodoTypes, FS_RemoveElement, FS_CardinalityType
  <1>4. cmd.errors + Cardinality(cmd.todo) =< cmd.total
    BY DEF NextUpdate, Step, Counted
  <1>5. /\ cmd.errors + Cardinality(cmd.todo \ {entry}) < cmd.total
        /\ cmd.errors + 1 + Cardinality(cmd.todo \ {entry}) =< cmd.total
    BY <1>2, <1>3, <1>4, TodoTypes
  <1>6. /\ c.todo = cmd.todo \ {entry} /\ c.errors = cmd.errors /\ c.total = cmd.total
        /\ [c EXCEPT !.errors = @ + 1].todo = c.todo
        /\ [c EXCEPT !.errors = @ + 1].errors = c.errors + 1
        /\ [c EXCEPT !.errors = @ + 1].total = c.total
    BY DEF TypeOK, CommandRecords
  <1>7. CASE pc' = "get" /\ cmd' = c
    <2> HIDE DEF c
    <2>1. QED
      BY <1>5, <1>6, <1>7 DEF Counted, Working, Asking
  <1>8. CASE Finish([c EXCEPT !.errors = @ + 1])
    <2> HIDE DEF c
    <2>1. cmd' = [c EXCEPT !.errors = @ + 1] /\ pc' \in Results \cup {"next"}
      BY <1>8 DEF Finish, Result, Results
    <2>2. QED
      BY <1>5, <1>6, <2>1 DEF Counted, Results, Working, Asking, Saving
  <1>9. QED
    BY SMTT(30), <1>1, <1>7, <1>8

LEMMA StepCounted ==
    ASSUME TypeOK, Counted, CommandStep
    PROVE  Counted'
  <1> USE DEF Step
  <1>1. cmd \in CommandRecords
    BY DEF TypeOK
  <1>2. CASE Report
    BY <1>2, RestCounted DEF Report
  <1>3. CASE NextUpdate
    BY <1>3, LoopCounted
  <1>4. CASE Get
    <2>1. pc \in Working
      BY <1>4 DEF Get, Working, Asking
    <2>2. CASE Fails
      BY <2>1, <2>2, GoesCounted
    <2>3. CASE ~Fails
      <3>1. PICK source : cmd' = [cmd EXCEPT !.source = source] /\ pc' \in {"index", "fetch"}
        BY <1>4, <2>3 DEF Get
      <3>2. Goes
        BY <1>1, <3>1 DEF Goes, CommandRecords, Working, Asking
      <3>3. QED
        BY <2>1, <3>2, GoesCounted
    <2>4. QED
      BY <2>2, <2>3
  <1>5. CASE Index \/ SaveIndex
    <2>1. pc \in Working
      BY <1>5 DEF Index, SaveIndex, Working, Asking
    <2>2. CASE Fails
      BY <2>1, <2>2, GoesCounted
    <2>3. CASE ~Fails
      <3>1. /\ pc' \in {"cache", "fetch"}
            /\ cmd' = cmd \/ \E index : cmd' = [cmd EXCEPT !.index = index]
        BY <1>5, <2>3 DEF Index, SaveIndex, Failing
      <3>2. Goes
        BY <1>1, <3>1 DEF Goes, CommandRecords, Working, Asking
      <3>3. QED
        BY <2>1, <3>2, GoesCounted
    <2>4. QED
      BY <2>2, <2>3
  <1>6. CASE Fetch
    <2>1. pc \in Working
      BY <1>6 DEF Fetch, Working, Asking
    <2>2. CASE Fails \/ Succeeds
      BY <2>1, <2>2, GoesCounted
    <2>3. CASE ~Fails /\ ~Succeeds
      <3>1. PICK v : cmd' = [cmd EXCEPT !.package = v] /\ pc' = "backup"
        BY <1>6, <2>3 DEF Fetch, FetchFails
      <3>2. Goes
        BY <1>1, <3>1 DEF Goes, CommandRecords, Working, Asking
      <3>3. QED
        BY <2>1, <3>2, GoesCounted
    <2>4. QED
      BY <2>2, <2>3
  <1>7. ASSUME pc \in Working, Unwinds
        PROVE  Counted'
    BY <1>7, UnwindsTypes, GoesCounted DEF Goes, Working
  <1>8. CASE Backup
    <2>1. pc \in Working
      BY <1>8 DEF Backup, Working, Asking
    <2>2. CASE Fails
      BY <2>1, <2>2, GoesCounted
    <2>3. CASE ~Fails
      <3>1. /\ pc' = "create"
            /\ \/ cmd' = cmd
               \/ cmd' = [cmd EXCEPT !.guard = TRUE, !.before = live[cmd.dir]]
        BY <1>8, <2>3 DEF Backup
      <3>2. Goes
        BY <1>1, <3>1 DEF Goes, CommandRecords, Working, Saving
      <3>3. QED
        BY <2>1, <3>2, GoesCounted
    <2>4. QED
      BY <2>2, <2>3
  <1>9. CASE Create \/ Copy \/ WriteSource \/ Clean
    <2>1. pc \in Working
      BY <1>9 DEF Create, Copy, WriteSource, Clean, Working, Saving
    <2>2. CASE Unwinds
      BY <1>7, <2>1, <2>2
    <2>3. CASE ~Unwinds
      <3>1. cmd' = cmd /\ (pc' = pc \/ pc' \in Saving)
        BY <1>9, <2>3 DEF Create, Copy, WriteSource, Clean, Failing, Saving
      <3>2. Goes
        BY <2>1, <3>1 DEF Goes, Working
      <3>3. QED
        BY <2>1, <3>2, GoesCounted
    <2>4. QED
      BY <2>2, <2>3
  <1>10. CASE Read \/ Undo \/ Delete
    <2>1. pc \in Working
      BY <1>10 DEF Read, Undo, Delete, Working, Saving
    <2>2. CASE Fails \/ Succeeds
      BY <2>1, <2>2, GoesCounted
    <2>3. CASE ~Fails /\ ~Succeeds
      <3>1. (cmd' = cmd /\ pc' = pc) \/ pc' = "idle" \/ Unwinds
        BY <1>10, <2>3 DEF Read, Undo, Delete, Failing
      <3>2. QED
        BY <1>7, <2>1, <3>1, GoesCounted, RestCounted DEF Goes
    <2>4. QED
      BY <2>2, <2>3
  <1>11. QED
    BY <1>2, <1>3, <1>4, <1>5, <1>6, <1>8, <1>9, <1>10 DEF CommandStep

LEMMA NextCounted ==
    ASSUME TypeOK, Counted, [Next]_vars
    PROVE  Counted'
  <1>1. CASE World
    <2>1. pc' = "idle" \/ UNCHANGED <<cmd, pc>>
      BY <1>1 DEF World, Crash, HourPasses, Publish, Push
    <2>2. QED
      BY <2>1, RestCounted DEF Counted
  <1>2. CASE UNCHANGED vars
    BY <1>2 DEF Counted, vars
  <1>3. QED
    BY <1>1, <1>2, BeginCounted, StepCounted DEF Next

-----------------------------------------------------------------------------
(* A failure of a step undoes what was done                                *)

\* What a step does to the guard.
Restores == Guarded' /\ FailedSaveRestores'

LEMMA UnguardedRestores ==
    ASSUME ~cmd'.guard, pc' # "undo"
    PROVE  Restores
  BY DEF Restores, Guarded, FailedSaveRestores

LEMMA FailsRestores ==
    ASSUME RestoreInv, Fails,
           cmd.guard /\ cmd.dir \notin spoilt'
             => /\ live'[cmd.dir] \in {cmd.before, Stored(cmd.package, cmd.source)}
                /\ old'[cmd.dir] = NoDir
    PROVE  Restores
  <1>1. /\ cmd'.guard = cmd.guard /\ cmd'.before = cmd.before /\ cmd'.dir = cmd.dir
        /\ cmd'.package = cmd.package /\ cmd'.source = cmd.source
        /\ pc' \in Results \cup {"next"}
    BY FailsTypes DEF RestoreInv
  <1>2. QED
    BY <1>1 DEF RestoreInv, Restores, Guarded, FailedSaveRestores, Results, Asking

\* The last package that is saved is not an error.
LEMMA SucceedsRestores ==
    ASSUME RestoreInv, pc \in Working, Succeeds
    PROVE  Restores
  <1>1. cmd' = cmd /\ pc' \in Results \cup {"next"}
    BY SucceedsTypes DEF RestoreInv
  <1>2. pc' # "failure"
    <2>1. cmd.errors + Cardinality(cmd.todo) < cmd.total
      BY DEF RestoreInv, Counted
    <2>2. cmd.errors # cmd.total
      BY <2>1, TodoTypes DEF RestoreInv
    <2>3. QED
      BY <2>2 DEF Succeeds, Finish, Result
  <1>3. QED
    BY <1>1, <1>2 DEF RestoreInv, Restores, Guarded, FailedSaveRestores, Results, Asking

LEMMA CommandRestores ==
    ASSUME RestoreInv, Command
    PROVE  Restores
  <1>1. ~NoCommand.guard
    BY DEF NoCommand
  <1>2. pc' # "undo" /\ cmd'.guard = NoCommand.guard
    <2>1. ASSUME NEW n \in Names, NEW o \in Installs, Install(n, o)
          PROVE  pc' # "undo" /\ cmd'.guard = NoCommand.guard
      BY <2>1 DEF Install, Begin, NoCommand
    <2>2. ASSUME NEW n \in Names, Update(n) \/ Uninstall(n)
          PROVE  pc' # "undo" /\ cmd'.guard = NoCommand.guard
      BY <2>2 DEF Update, Uninstall, Begin, NoCommand
    <2>3. CASE UpdateAll \/ List
      BY <2>3 DEF UpdateAll, List, Begin, NoCommand
    <2>4. QED
      BY <2>1, <2>2, <2>3 DEF Command
  <1>3. QED
    BY <1>1, <1>2, UnguardedRestores

LEMMA AskingRestores ==
    ASSUME RestoreInv, Report \/ NextUpdate \/ Get \/ Index \/ SaveIndex \/ Fetch \/ Delete
    PROVE  Restores
  <1> USE DEF Step
  <1>1. TypeOK /\ cmd \in CommandRecords
    BY DEF RestoreInv, TypeOK
  <1>2. CASE Report
    BY <1>2, UnguardedRestores DEF Report, NoCommand
  <1>3. CASE NextUpdate
    <2>1. PICK entry \in cmd.todo :
            LET c == [cmd EXCEPT !.todo = @ \ {entry}, !.dir = entry[1],
                                 !.before = NoDir, !.guard = FALSE]
            IN  \/ Finish([c EXCEPT !.errors = @ + 1])
                \/ pc' = "get" /\ cmd' = c
      BY <1>3 DEF NextUpdate
    <2> DEFINE c == [cmd EXCEPT !.todo = @ \ {entry}, !.dir = entry[1],
                                !.before = NoDir, !.guard = FALSE]
    <2>2. ~c.guard /\ ~[c EXCEPT !.errors = @ + 1].guard
      BY <1>1 DEF CommandRecords
    <2> HIDE DEF c
    <2>3. ~cmd'.guard /\ pc' # "undo"
      BY <2>1, <2>2 DEF Finish, Result, c
    <2>4. QED
      BY SMTT(30), <2>3, UnguardedRestores
  <1>4. CASE Get \/ Index \/ SaveIndex \/ Fetch \/ Delete
    <2>1. ~cmd.guard
      BY <1>4 DEF Get, Index, SaveIndex, Fetch, Delete, RestoreInv, Guarded, Asking
    <2>2. CASE Fails \/ Succeeds
      <3>1. cmd'.guard = cmd.guard /\ pc' # "undo"
        BY <1>1, <2>2, FailsTypes, SucceedsTypes DEF Results
      <3>2. QED
        BY <2>1, <3>1, UnguardedRestores
    <2>3. CASE ~Fails /\ ~Succeeds
      <3>1. /\ pc' # "undo"
            /\ \/ cmd' = cmd
               \/ \E source : cmd' = [cmd EXCEPT !.source = source]
               \/ \E index : cmd' = [cmd EXCEPT !.index = index]
               \/ \E v : cmd' = [cmd EXCEPT !.package = v]
        <4>1. CASE Get
          BY <2>3, <4>1 DEF Get
        <4>2. CASE Index \/ SaveIndex
          BY <2>3, <4>2 DEF Index, SaveIndex, Failing
        <4>3. CASE Fetch
          BY <2>3, <4>3 DEF Fetch, FetchFails
        <4>4. CASE Delete
          BY <2>3, <4>4 DEF Delete, Failing
        <4>5. QED
          BY <1>4, <4>1, <4>2, <4>3, <4>4
      <3>2. cmd'.guard = cmd.guard
        BY <1>1, <3>1 DEF CommandRecords
      <3>3. QED
        BY <2>1, <3>1, <3>2, UnguardedRestores
    <2>4. QED
      BY <2>2, <2>3
  <1>5. QED
    BY <1>2, <1>3, <1>4

\* A step of `save' that fails is undone when there is a backup.
LEMMA UnwindsRestores ==
    ASSUME RestoreInv, Unwinds, UNCHANGED dirVars, cmd.guard => old[cmd.dir] # NoDir,
           cmd.guard /\ cmd.dir \notin spoilt' => old[cmd.dir] = cmd.before
    PROVE  Restores
  <1>1. CASE pc' = "undo" /\ cmd' = cmd /\ cmd.guard
    BY <1>1 DEF RestoreInv, Restores, Guarded, FailedSaveRestores, Asking, dirVars
  <1>2. CASE Fails /\ ~cmd.guard
    <2>1. cmd'.guard = cmd.guard /\ pc' # "undo"
      BY <1>2, FailsTypes DEF RestoreInv, Results
    <2>2. QED
      BY <1>2, <2>1, UnguardedRestores
  <1>3. QED
    BY <1>1, <1>2, UnwindsTypes DEF RestoreInv

LEMMA SaveRestores ==
    ASSUME RestoreInv, Backup \/ Create \/ Copy \/ WriteSource \/ Clean \/ Read \/ Undo
    PROVE  Restores
  <1> USE DEF Step
  <1>1. TypeOK /\ pc \in Working
    BY DEF Backup, Create, Copy, WriteSource, Clean, Read, Undo, RestoreInv, Working, Asking, Saving
  <1>2. /\ cmd \in CommandRecords /\ cmd.dir \in Names
        /\ live \in [Names -> Dirs] /\ old \in [Names -> Dirs]
    BY <1>1 DEF TypeOK
  <1>3. CASE Backup
    <2>1. ~cmd.guard
      BY <1>3 DEF Backup, RestoreInv, Guarded, Asking
    <2>2. CASE Fails \/ (cmd' = cmd /\ pc' = "create")
      <3>1. cmd'.guard = cmd.guard /\ pc' # "undo"
        BY <1>1, <2>2, FailsTypes DEF Results
      <3>2. QED
        BY <2>1, <3>1, UnguardedRestores
    <2>3. CASE /\ live[cmd.dir] # NoDir
               /\ old' = [old EXCEPT ![cmd.dir] = live[cmd.dir]]
               /\ cmd' = [cmd EXCEPT !.guard = TRUE, !.before = live[cmd.dir]]
               /\ pc' = "create"
      <3>1. cmd'.dir = cmd.dir /\ cmd'.before = live[cmd.dir] /\ old'[cmd.dir] = live[cmd.dir]
        BY <1>2, <2>3 DEF CommandRecords
      <3>2. QED
        BY <2>3, <3>1 DEF Restores, Guarded, FailedSaveRestores, Asking
    <2>4. QED
      BY <1>3, <2>2, <2>3 DEF Backup
  <1>4. CASE Create \/ Copy \/ WriteSource
    <2>1. /\ spoilt' = spoilt /\ old' = old /\ pc \in {"create", "copy", "source"}
          /\ Failing(Unwinds) \/ (cmd' = cmd /\ pc' \in {"copy", "source", "clean"})
      BY <1>4 DEF Create, Copy, WriteSource, Failing, historyVars, dirVars
    <2>2. CASE cmd' = cmd /\ pc' \in {"copy", "source", "clean"}
      BY <2>1, <2>2 DEF RestoreInv, Restores, Guarded, FailedSaveRestores, Asking
    <2>3. CASE Unwinds /\ UNCHANGED dirVars /\ (cmd.guard => old[cmd.dir] # NoDir)
      BY <2>1, <2>3, UnwindsRestores DEF RestoreInv, Guarded
    <2>4. CASE Unwinds /\ UNCHANGED dirVars /\ cmd.guard /\ old[cmd.dir] = NoDir
      <3>1. cmd.dir \in spoilt
        BY <2>1, <2>4 DEF RestoreInv, Guarded
      <3>2. Fails
        BY <1>1, <2>4, UnwindsTypes
      <3>3. QED
        BY <2>1, <3>1, <3>2, FailsRestores
    <2>5. QED
      BY <2>1, <2>2, <2>3, <2>4 DEF Failing
  <1>5. CASE Clean
    <2>1. CASE cmd' = cmd /\ pc' \in {"clean", "read"}
      BY <1>5, <2>1 DEF Clean, RestoreInv, Restores, Guarded, FailedSaveRestores, Asking
    <2>2. CASE /\ Unwinds /\ UNCHANGED dirVars /\ old[cmd.dir] # NoDir
               /\ spoilt' = IF ~cmd.guard \/ old[cmd.dir] = cmd.before THEN spoilt
                            ELSE spoilt \cup {cmd.dir}
      BY <2>2, UnwindsRestores
    <2>3. QED
      BY <1>5, <2>1, <2>2 DEF Clean, Failing
  <1>6. CASE Read
    <2>1. CASE Succeeds
      BY <1>1, <2>1, SucceedsRestores
    <2>2. CASE Failing(Unwinds)
      <3>1. live[cmd.dir] = Stored(cmd.package, cmd.source) /\ old[cmd.dir] = NoDir
        BY <1>6 DEF Read, RestoreInv, LossInv, Covered
      <3>2. Fails /\ UNCHANGED dirVars
        BY <2>2, <3>1 DEF Failing, Unwinds
      <3>3. QED
        BY <3>1, <3>2, FailsRestores DEF dirVars
    <2>3. QED
      BY <1>6, <2>1, <2>2 DEF Read
  <1>7. CASE Undo
    <2>1. /\ spoilt' = spoilt /\ cmd.guard /\ pc = "undo"
          /\ cmd.dir \notin spoilt => old[cmd.dir] = cmd.before
      BY <1>7 DEF Undo, RestoreInv, Guarded, historyVars
    <2>2. CASE UNCHANGED <<cmd, pc, old>>
      BY <2>1, <2>2 DEF RestoreInv, Restores, Guarded, FailedSaveRestores, Asking
    <2>3. CASE /\ live' = [live EXCEPT ![cmd.dir] = old[cmd.dir]]
               /\ old' = [old EXCEPT ![cmd.dir] = NoDir] /\ Fails
      <3>1. live'[cmd.dir] = old[cmd.dir] /\ old'[cmd.dir] = NoDir
        BY <1>2, <2>3
      <3>2. QED
        BY <2>1, <2>3, <3>1, FailsRestores
    <2>4. CASE pc' = "idle" /\ cmd' = NoCommand
      BY <2>4, UnguardedRestores DEF NoCommand
    <2>5. QED
      BY <1>7, <2>2, <2>3, <2>4 DEF Undo, Failing
  <1>8. QED
    BY <1>3, <1>4, <1>5, <1>6, <1>7

LEMMA NextRestores ==
    ASSUME RestoreInv, [Next]_vars
    PROVE  RestoreInv'
  <1>1. TypeOK' /\ LossInv' /\ Counted'
    BY NextTypes, NextLoss, NextCounted DEF RestoreInv
  <1>2. CASE World
    <2>1. Crash => Restores
      <3>1. Crash => cmd' = NoCommand /\ pc' = "idle"
        BY DEF Crash
      <3>2. ~NoCommand.guard
        BY DEF NoCommand
      <3>3. QED
        BY <3>1, <3>2, UnguardedRestores
    <2>2. ~Crash => Restores
      <3>1. ~Crash => UNCHANGED <<dirVars, historyVars, cmd, pc>>
        BY <1>2 DEF World, HourPasses, Publish, Push
      <3>2. QED
        BY <3>1 DEF RestoreInv, Restores, Guarded, FailedSaveRestores, dirVars, historyVars
    <2>3. Restores
      BY <2>1, <2>2
    <2>4. QED
      BY <1>1, <2>3 DEF RestoreInv, Restores
  <1>3. CASE UNCHANGED vars
    BY <1>1, <1>3 DEF RestoreInv, Guarded, FailedSaveRestores, vars
  <1>4. CASE Command
    BY <1>1, <1>4, CommandRestores DEF RestoreInv, Restores
  <1>5. CASE CommandStep
    BY <1>1, <1>5, AskingRestores, SaveRestores DEF CommandStep, RestoreInv, Restores
  <1>6. QED
    BY <1>2, <1>3, <1>4, <1>5 DEF Next

LEMMA InitRestores == Init => RestoreInv
  <1>1. SUFFICES ASSUME Init PROVE Guarded /\ Counted /\ FailedSaveRestores
    BY InitTypes, InitLoss DEF RestoreInv
  <1>2. pc = "idle" /\ ~cmd.guard
    BY <1>1 DEF Init, NoCommand
  <1>3. QED
    BY <1>2 DEF Guarded, Counted, FailedSaveRestores, Working, Asking, Saving

\* An install or an update that reports an error leaves one whole version and no
\* backup: the scope guard of DefaultArchiver::save has put back the package that
\* was to be replaced or, if the new one was saved and then not read back, that
\* one stays; for any packages and any failures.
THEOREM FailuresAreUndone == Spec => []FailedSaveRestores
  <1>1. RestoreInv /\ [Next]_vars => RestoreInv'
    BY NextRestores
  <1>2. RestoreInv => FailedSaveRestores
    BY DEF RestoreInv
  <1>3. QED
    BY <1>1, <1>2, InitRestores, PTL DEF Spec

-----------------------------------------------------------------------------
(* No update goes back                                                     *)

LEMMA DirsKnown ==
    ASSUME KnownDirs, UNCHANGED <<hub, cache>>,
           \A n \in Names : /\ Known(live'[n], n) \/ live'[n] \in {live[n], old[n]}
                            /\ Known(old'[n], n) \/ old'[n] \in {live[n], old[n]}
    PROVE  KnownDirs'
  BY DEF KnownDirs, Known

\* What is left of a directory is known as it was.
LEMMA RemovedKnown ==
    ASSUME TypeOK, NEW n \in Names, NEW c \in Dirs, Known(c, n), NEW d \in Removed(c)
    PROVE  Known(d, n)
  <1>1. d.manifest \in {NoVersion, c.manifest} /\ d.source \in {NoSource, c.source}
    BY RemovedTypes
  <1>2. hub[n] \in Nat /\ cache.index[n] \in Nat
    BY DEF TypeOK, WorldTypes, Indexes
  <1>3. QED
    BY <1>1, <1>2, ConstantTypes DEF Known, NoVersion

LEMMA RestAsked ==
    ASSUME pc' \in Results \cup {"idle", "next"}, cmd'.op = "update" => cmd'.version = Latest
    PROVE  Asked'
  BY DEF Asked, Results, Asking, Saving

LEMMA EndsAsked ==
    ASSUME TypeOK, Asked, Fails \/ Succeeds
    PROVE  Asked'
  <1>1. cmd'.op = cmd.op /\ cmd'.version = cmd.version /\ pc' \in Results \cup {"next"}
    BY FailsTypes, SucceedsTypes
  <1>2. QED
    BY <1>1, RestAsked DEF Asked

LEMMA UnwindsAsked ==
    ASSUME TypeOK, Asked, Unwinds
    PROVE  Asked'
  <1>1. CASE Fails
    BY <1>1, EndsAsked
  <1>2. CASE pc' = "undo" /\ cmd' = cmd
    BY <1>2 DEF Asked, Asking, Saving
  <1>3. QED
    BY <1>1, <1>2, UnwindsTypes

LEMMA CommandAsked ==
    ASSUME VersionInv, Command
    PROVE  Asked' /\ UNCHANGED <<dirVars, worldVars, cache>>
  <1>1. /\ NoCommand.op = "none" /\ NoCommand.version = Latest /\ NoCommand.before = NoDir
        /\ NoCommand.source # Hub
    BY DEF NoCommand, Hub, NoSource
  <1>2. UNCHANGED <<dirVars, worldVars, cache>>
    <2>1. ASSUME NEW n \in Names, NEW o \in Installs, Install(n, o)
          PROVE  UNCHANGED <<dirVars, worldVars, cache>>
      BY <2>1 DEF Install, Begin
    <2>2. ASSUME NEW n \in Names, Update(n) \/ Uninstall(n)
          PROVE  UNCHANGED <<dirVars, worldVars, cache>>
      BY <2>2 DEF Update, Uninstall, Begin
    <2>3. UpdateAll \/ List => UNCHANGED <<dirVars, worldVars, cache>>
      BY DEF UpdateAll, List, Begin
    <2>4. QED
      BY <2>1, <2>2, <2>3 DEF Command
  <1>3. ASSUME NEW n \in Names, NEW o \in Installs, Install(n, o)
        PROVE  Asked'
    <2>1. CASE o.source # Hub /\ ~o.external
      <3>1. cmd'.op = "install" /\ pc' = "failure"
        BY <1>3, <2>1 DEF Install, Begin, NoCommand
      <3>2. QED
        BY <3>1, RestAsked DEF Results
    <2>2. CASE ~(o.source # Hub /\ ~o.external)
      <3>1. /\ cmd' = [NoCommand EXCEPT !.op = "install", !.dir = n, !.version = o.version,
                                        !.source = o.source, !.force = o.force,
                                        !.refresh = o.refresh, !.total = 1]
            /\ pc' = IF o.source = Hub THEN "index" ELSE "fetch"
        BY <1>3, <2>2 DEF Install, Begin
      <3>2. cmd'.op = "install" /\ cmd'.source = o.source /\ cmd'.before = NoDir
        BY <3>1 DEF NoCommand
      <3>3. QED
        BY <3>1, <3>2 DEF Asked, FromHub, Asking, Saving
    <2>3. QED
      BY <2>1, <2>2
  <1>4. ASSUME NEW n \in Names, Update(n)
        PROVE  Asked'
    <2>1. /\ cmd' = [NoCommand EXCEPT !.op = "update", !.dir = n, !.force = TRUE, !.total = 1]
          /\ pc' = "get"
      BY <1>4 DEF Update, Begin
    <2>2. cmd'.version = Latest /\ cmd'.before = NoDir
      BY <1>1, <2>1 DEF NoCommand
    <2>3. QED
      BY <2>1, <2>2 DEF Asked, Asking, Saving
  <1>5. ASSUME NEW n \in Names, Uninstall(n)
        PROVE  Asked'
    <2>1. cmd'.op = "uninstall" /\ pc' \in {"failure", "delete"}
      BY <1>5 DEF Uninstall, Begin, NoCommand
    <2>2. QED
      BY <2>1 DEF Asked, Asking, Saving
  <1>6. ASSUME UpdateAll \/ List
        PROVE  Asked'
    <2>1. cmd'.version = Latest /\ pc' \in Results \cup {"next"}
      BY ZenonT(60), <1>1, <1>6 DEF UpdateAll, List, Begin, Results, NoCommand
    <2>2. QED
      BY <2>1, RestAsked
  <1>7. QED
    BY <1>2, <1>3, <1>4, <1>5, <1>6 DEF Command

LEMMA LoopAsked ==
    ASSUME VersionInv, Report \/ NextUpdate \/ Get
    PROVE  Asked' /\ UNCHANGED <<dirVars, worldVars, cache>>
  <1> USE DEF Step
  <1>1. UNCHANGED <<dirVars, worldVars, cache>>
    BY DEF Report, NextUpdate, Get
  <1>2. TypeOK /\ cmd \in CommandRecords /\ (cmd.op = "update" => cmd.version = Latest)
    BY DEF VersionInv, TypeOK, Asked
  <1>3. CASE Report
    <2>1. pc' = "idle" /\ cmd'.op = "none"
      BY <1>3 DEF Report, NoCommand
    <2>2. QED
      BY <1>1, <2>1, RestAsked
  <1>4. CASE NextUpdate
    <2>1. PICK entry \in cmd.todo :
            LET c == [cmd EXCEPT !.todo = @ \ {entry}, !.dir = entry[1],
                                 !.before = NoDir, !.guard = FALSE]
            IN  \/ Finish([c EXCEPT !.errors = @ + 1])
                \/ pc' = "get" /\ cmd' = c
      BY <1>4 DEF NextUpdate
    <2> DEFINE c == [cmd EXCEPT !.todo = @ \ {entry}, !.dir = entry[1],
                                !.before = NoDir, !.guard = FALSE]
    <2>2. /\ c.op = cmd.op /\ c.version = cmd.version /\ c.before = NoDir
          /\ [c EXCEPT !.errors = @ + 1].op = c.op
          /\ [c EXCEPT !.errors = @ + 1].version = c.version
      BY <1>2 DEF CommandRecords
    <2>3. CASE pc' = "get" /\ cmd' = c
      <3> HIDE DEF c
      <3>1. QED
        BY <1>1, <1>2, <2>2, <2>3 DEF Asked, Asking, Saving
    <2>4. CASE Finish([c EXCEPT !.errors = @ + 1])
      <3> HIDE DEF c
      <3>1. cmd' = [c EXCEPT !.errors = @ + 1] /\ pc' \in Results \cup {"next"}
        BY <2>4 DEF Finish, Result, Results
      <3>2. QED
        BY <1>1, <1>2, <2>2, <3>1, RestAsked
    <2>5. QED
      BY <2>1, <2>3, <2>4
  <1>5. CASE Get
    <2>1. CASE Fails
      BY <1>1, <1>2, <2>1, EndsAsked DEF VersionInv
    <2>2. CASE ~Fails
      <3>1. PICK source : /\ cmd' = [cmd EXCEPT !.source = source]
                          /\ pc' = IF source = Hub THEN "index" ELSE "fetch"
                          /\ source = Hub => \/ live[cmd.dir].manifest = NoVersion
                                             \/ live[cmd.dir].source = Hub
        BY <1>5, <2>2 DEF Get
      <3>2. /\ cmd'.source = source /\ cmd'.op = cmd.op /\ cmd'.version = cmd.version
            /\ cmd'.dir = cmd.dir /\ cmd'.before = cmd.before
        BY <1>2, <3>1 DEF CommandRecords
      <3>3. cmd.before = NoDir
        BY <1>5 DEF Get, VersionInv, Asked, Asking
      <3>4. QED
        BY <1>1, <1>2, <3>1, <3>2, <3>3 DEF Asked, FromHub, Asking, Saving, dirVars
    <2>3. QED
      BY <2>1, <2>2
  <1>6. QED
    BY <1>3, <1>4, <1>5

LEMMA OfferedFromHub ==
    ASSUME TypeOK, pc \in Working, FromHub, NEW public \in BOOLEAN,
           NEW brought \in Brought(cmd.source, public)
    PROVE  /\ Offered(brought) =< cmd.index[cmd.dir] \/ Offered(brought) = NoVersion
           /\ cmd.version = Latest => Offered(brought) = cmd.index[cmd.dir]
  <1>1. brought = cmd.index[cmd.dir]
    BY DEF FromHub, Brought, Provider
  <1>2. cmd.index[cmd.dir] \in Nat /\ cmd.version \in Nat
    BY DEF TypeOK, CommandRecords, Indexes
  <1>3. Offered(brought) = Indexed(brought)
    BY DEF Offered, FromHub
  <1>4. QED
    BY <1>1, <1>2, <1>3 DEF Indexed

LEMMA ProviderAsked ==
    ASSUME VersionInv, Index \/ SaveIndex \/ Fetch
    PROVE  Asked' /\ KnownDirs'
  <1> USE DEF Step
  <1>1. UNCHANGED <<dirVars, worldVars>> /\ TypeOK /\ KnownDirs /\ Asked /\ pc \in Working
    BY DEF Index, SaveIndex, Fetch, Failing, VersionInv, Working, Asking
  <1>2. cmd \in CommandRecords /\ (cmd.op = "update" => cmd.version = Latest)
    BY <1>1 DEF TypeOK, Asked
  <1>3. ASSUME UNCHANGED cache PROVE KnownDirs'
    BY <1>1, <1>3 DEF KnownDirs, Known, dirVars, worldVars
  <1>4. Fails \/ Succeeds => Asked'
    BY <1>1, EndsAsked
  <1>5. CASE Index
    <2>1. UNCHANGED cache
      BY <1>5 DEF Index
    <2>2. ASSUME NEW index, cmd' = [cmd EXCEPT !.index = index],
                 \/ index = hub /\ pc' = "cache"
                 \/ index = cache.index /\ cache.state = "fresh" /\ pc' = "fetch"
          PROVE  Asked'
      <3>1. /\ cmd'.index = index /\ cmd'.op = cmd.op /\ cmd'.version = cmd.version
            /\ cmd'.dir = cmd.dir /\ cmd'.before = cmd.before /\ cmd'.source = cmd.source
        BY <1>2, <2>2 DEF CommandRecords
      <3>2. /\ cmd.before = NoDir
            /\ FromHub /\ cmd.op = "update"
                 => live[cmd.dir].manifest = NoVersion \/ live[cmd.dir].source = Hub
        BY <1>1, <1>5 DEF Index, Asked, Asking
      <3>3. QED
        BY <1>1, <1>2, <2>1, <2>2, <3>1, <3>2
        DEF Asked, FromHub, Asking, Saving, dirVars, worldVars
    <2>3. Asked'
      BY <1>4, <1>5, <2>2 DEF Index
    <2>4. QED
      BY <1>3, <2>1, <2>3
  <1>6. CASE SaveIndex
    <2>1. CASE Failing(Fails)
      BY <1>3, <1>4, <2>1 DEF Failing
    <2>2. CASE /\ cache' = [state |-> "fresh", index |-> cmd.index]
               /\ pc' = "fetch" /\ cmd' = cmd
      <3>1. /\ cmd.index = hub /\ cmd.before = NoDir
            /\ FromHub /\ cmd.op = "update"
                 => live[cmd.dir].manifest = NoVersion \/ live[cmd.dir].source = Hub
        BY <1>1, <1>6 DEF SaveIndex, Asked, Asking
      <3>2. cache'.state = "fresh" /\ cache'.index = hub
        BY <2>2, <3>1
      <3>3. Asked'
        BY <1>1, <1>2, <2>2, <3>1, <3>2
        DEF Asked, FromHub, Asking, Saving, dirVars, worldVars
      <3>4. \A n \in Names : hub[n] \in Nat
        BY <1>1 DEF TypeOK, WorldTypes, Indexes
      <3>5. KnownDirs'
        BY <1>1, <3>2, <3>4 DEF KnownDirs, Known, dirVars, worldVars
      <3>6. QED
        BY <3>3, <3>5
    <2>3. QED
      BY <1>6, <2>1, <2>2 DEF SaveIndex
  <1>7. CASE Fetch
    <2>1. UNCHANGED cache /\ pc = "fetch"
      BY <1>7 DEF Fetch
    <2>2. CASE Fails \/ Succeeds
      BY <1>3, <1>4, <2>1, <2>2
    <2>3. CASE ~Fails /\ ~Succeeds
      <3>1. PICK brought \in UNION {Brought(cmd.source, public) : public \in BOOLEAN} :
              /\ cmd' = [cmd EXCEPT !.package = Offered(brought)] /\ pc' = "backup"
              /\ Offered(brought) # NoVersion
        BY <1>7, <2>3 DEF Fetch, FetchFails
      <3>2. /\ cmd'.package = Offered(brought) /\ cmd'.op = cmd.op /\ cmd'.version = cmd.version
            /\ cmd'.dir = cmd.dir /\ cmd'.before = cmd.before /\ cmd'.source = cmd.source
        BY <1>2, <3>1 DEF CommandRecords
      <3>3. FromHub => /\ cache.state = "fresh" /\ cmd.index = cache.index
                       /\ Offered(brought) =< cmd.index[cmd.dir]
                       /\ cmd.version = Latest => Offered(brought) = cmd.index[cmd.dir]
        BY <1>1, <2>1, <3>1, OfferedFromHub DEF Asked
      <3>4. /\ cmd.before = NoDir
            /\ FromHub /\ cmd.op = "update"
                 => live[cmd.dir].manifest = NoVersion \/ live[cmd.dir].source = Hub
        BY <1>1, <2>1 DEF Asked, Asking
      <3>5. Asked'
        BY <1>1, <1>2, <2>1, <3>1, <3>2, <3>3, <3>4
        DEF Asked, FromHub, Asking, Saving, dirVars
      <3>6. QED
        BY <1>3, <2>1, <3>5
    <2>4. QED
      BY <2>2, <2>3
  <1>8. QED
    BY <1>5, <1>6, <1>7

LEMMA SaveAsked ==
    ASSUME LossInv, VersionInv, Backup \/ Create \/ Copy \/ WriteSource
    PROVE  Asked' /\ KnownDirs'
  <1> USE DEF Step
  <1>1. /\ UNCHANGED <<worldVars, cache>> /\ TypeOK /\ KnownDirs /\ Asked /\ pc \in Working
        /\ pc \in {"backup", "create", "copy", "source"}
    BY DEF Backup, Create, Copy, WriteSource, Failing, VersionInv, Working, Asking, Saving
  <1>2. /\ cmd \in CommandRecords /\ (cmd.op = "update" => cmd.version = Latest)
        /\ cmd.dir \in Names /\ live \in [Names -> Dirs] /\ old \in [Names -> Dirs]
        /\ hub[cmd.dir] \in Nat /\ cache.index[cmd.dir] \in Nat
    BY <1>1 DEF TypeOK, Asked, WorldTypes, Indexes
  <1>3. UNCHANGED dirVars => KnownDirs'
    BY <1>1 DEF KnownDirs, Known, dirVars, worldVars
  <1>4. Fails \/ Unwinds => Asked'
    BY <1>1, EndsAsked, UnwindsAsked
  <1>5. FromHub => /\ cache.state = "fresh" /\ cmd.package =< cache.index[cmd.dir]
                   /\ cmd.op = "update" => cmd.package = cache.index[cmd.dir]
    BY <1>1 DEF Asked, Saving
  <1>6. CASE Backup
    <2>1. /\ cmd.before = NoDir
          /\ FromHub /\ cmd.op = "update"
               => live[cmd.dir].manifest = NoVersion \/ live[cmd.dir].source = Hub
      BY <1>1, <1>6 DEF Backup, Asked, Asking
    <2>2. CASE Fails /\ UNCHANGED dirVars
      BY <1>3, <1>4, <2>2
    <2>3. CASE pc' = "create" /\ UNCHANGED <<cmd, dirVars>>
      <3>1. NoDir.manifest =< cache.index[cmd.dir]
        BY <1>2 DEF NoDir, NoVersion
      <3>2. Asked'
        BY <1>1, <1>2, <1>5, <2>1, <2>3, <3>1 DEF Asked, FromHub, Asking, Saving
      <3>3. QED
        BY <1>3, <2>3, <3>2
    <2>4. CASE /\ live' = [live EXCEPT ![cmd.dir] = NoDir]
               /\ old' = [old EXCEPT ![cmd.dir] = live[cmd.dir]]
               /\ cmd' = [cmd EXCEPT !.guard = TRUE, !.before = live[cmd.dir]]
               /\ pc' = "create"
      <3>1. /\ cmd'.package = cmd.package /\ cmd'.op = cmd.op /\ cmd'.version = cmd.version
            /\ cmd'.dir = cmd.dir /\ cmd'.before = live[cmd.dir] /\ cmd'.source = cmd.source
        BY <1>2, <2>4 DEF CommandRecords
      <3>2. FromHub /\ cmd.op = "update" => live[cmd.dir].manifest =< cache.index[cmd.dir]
        BY <1>1, <1>2, <1>5, <2>1 DEF KnownDirs, Known, NoVersion
      <3>3. Asked'
        BY <1>1, <1>2, <1>5, <2>4, <3>1, <3>2 DEF Asked, FromHub, Asking, Saving
      <3>4. Known(NoDir, cmd.dir)
        BY DEF Known, NoDir, NoSource, Hub
      <3>5. KnownDirs'
        BY <1>1, <1>2, <2>4, <3>4, DirsKnown DEF worldVars
      <3>6. QED
        BY <3>3, <3>5
    <2>5. QED
      BY <1>6, <2>2, <2>3, <2>4 DEF Backup
  <1>7. CASE Failing(Unwinds)
    BY <1>3, <1>4, <1>7 DEF Failing
  <1>8. ASSUME NEW d, live' = [live EXCEPT ![cmd.dir] = d], old' = old, Known(d, cmd.dir)
        PROVE  KnownDirs'
    BY <1>1, <1>2, <1>8, DirsKnown DEF worldVars
  <1>9. ASSUME cmd' = cmd, pc' \in {"copy", "source", "clean"}, pc # "backup",
               pc' \in {"copy", "source"} => live'[cmd.dir].source = NoSource
        PROVE  Asked'
    <2>1. FromHub /\ cmd.op = "update" => cmd.before.manifest =< cache.index[cmd.dir]
      BY <1>1, <1>9 DEF Asked, Saving
    <2>2. QED
      BY <1>1, <1>2, <1>5, <1>9, <2>1 DEF Asked, FromHub, Asking, Saving
  <1>10. CASE Create /\ ~Failing(Unwinds)
    <2>1. live' = [live EXCEPT ![cmd.dir] = Empty] /\ old' = old /\ pc' = "copy" /\ cmd' = cmd
      BY <1>10 DEF Create
    <2>2. Known(Empty, cmd.dir) /\ Empty.source = NoSource
      BY DEF Known, Empty, NoDir, NoSource, Hub
    <2>3. live'[cmd.dir].source = NoSource
      BY <1>2, <2>1, <2>2
    <2>4. QED
      BY <1>8, <1>9, <1>10, <2>1, <2>2, <2>3 DEF Create
  <1>11. CASE Copy /\ ~Failing(Unwinds)
    <2>1. cmd' = cmd /\ old' = old /\ live[cmd.dir].source = NoSource /\ pc' \in {"copy", "source"}
      BY <1>1, <1>11 DEF Copy, Asked, dirVars
    <2>2. CASE UNCHANGED dirVars
      BY <1>3, <1>9, <1>11, <2>1, <2>2 DEF Copy, dirVars
    <2>3. ASSUME NEW d \in {[live[cmd.dir] EXCEPT !.manifest = cmd.package],
                            [live[cmd.dir] EXCEPT !.matches = cmd.package]},
                 live' = [live EXCEPT ![cmd.dir] = d]
          PROVE  Asked' /\ KnownDirs'
      <3>1. live[cmd.dir] \in Dirs
        BY <1>2
      <3>2. d.source = NoSource
        BY <2>1, <3>1 DEF Dirs
      <3>3. Known(d, cmd.dir)
        BY <3>2, ConstantTypes DEF Known
      <3>4. live'[cmd.dir].source = NoSource
        BY <1>2, <2>3, <3>2
      <3>5. QED
        BY <1>8, <1>9, <1>11, <2>1, <2>3, <3>3, <3>4 DEF Copy
    <2>4. QED
      BY <1>11, <2>2, <2>3 DEF Copy
  <1>12. CASE WriteSource /\ ~Failing(Unwinds)
    <2> DEFINE d == [live[cmd.dir] EXCEPT !.source = cmd.source]
    <2>1. live' = [live EXCEPT ![cmd.dir] = d] /\ old' = old /\ pc' = "clean" /\ cmd' = cmd
      BY <1>12 DEF WriteSource
    <2>2. live[cmd.dir] \in Dirs
      BY <1>2
    <2>3. d.source = cmd.source /\ d.manifest = live[cmd.dir].manifest
      BY <2>2 DEF Dirs
    <2>4. live[cmd.dir].manifest = cmd.package
      BY <1>12 DEF WriteSource, LossInv, Covered
    <2>5. FromHub => cache.index[cmd.dir] =< hub[cmd.dir]
      BY <1>1, <1>2, <1>5 DEF KnownDirs
    <2>6. cmd.package \in Nat
      BY <1>2 DEF CommandRecords
    <2> HIDE DEF d
    <2>7. Known(d, cmd.dir)
      BY <1>2, <1>5, <2>3, <2>4, <2>5, <2>6 DEF Known, FromHub
    <2>8. QED
      BY <1>8, <1>9, <1>12, <2>1, <2>7 DEF WriteSource
  <1>13. QED
    BY <1>6, <1>7, <1>10, <1>11, <1>12

LEMMA RemovalAsked ==
    ASSUME VersionInv, Clean \/ Read \/ Undo \/ Delete
    PROVE  Asked' /\ KnownDirs'
  <1> USE DEF Step
  <1>1. /\ UNCHANGED <<worldVars, cache>> /\ TypeOK /\ KnownDirs /\ Asked /\ pc \in Working
        /\ pc \in {"clean", "read", "undo", "delete"}
    BY DEF Clean, Read, Undo, Delete, Failing, VersionInv, Working, Asking, Saving
  <1>2. /\ cmd.dir \in Names /\ live \in [Names -> Dirs] /\ old \in [Names -> Dirs]
        /\ live[cmd.dir] \in Dirs /\ old[cmd.dir] \in Dirs
        /\ Known(live[cmd.dir], cmd.dir) /\ Known(old[cmd.dir], cmd.dir)
    BY <1>1 DEF TypeOK, KnownDirs
  <1>3. UNCHANGED dirVars => KnownDirs'
    BY <1>1 DEF KnownDirs, Known, dirVars, worldVars
  <1>4. ASSUME NEW c \in Removed(live[cmd.dir]), live' = [live EXCEPT ![cmd.dir] = c], old' = old
        PROVE  KnownDirs'
    <2>1. Known(c, cmd.dir)
      BY <1>1, <1>2, RemovedKnown
    <2>2. QED
      BY <1>1, <1>2, <1>4, <2>1, DirsKnown DEF worldVars
  <1>5. ASSUME NEW c \in Removed(old[cmd.dir]), old' = [old EXCEPT ![cmd.dir] = c], live' = live
        PROVE  KnownDirs'
    <2>1. Known(c, cmd.dir)
      BY <1>1, <1>2, RemovedKnown
    <2>2. QED
      BY <1>1, <1>2, <1>5, <2>1, DirsKnown DEF worldVars
  <1>6. ASSUME live' = [live EXCEPT ![cmd.dir] = old[cmd.dir]],
               old' = [old EXCEPT ![cmd.dir] = NoDir]
        PROVE  KnownDirs'
    <2>1. Known(NoDir, cmd.dir)
      BY DEF Known, NoDir, NoSource, Hub
    <2>2. QED
      BY <1>1, <1>2, <1>6, <2>1, DirsKnown DEF worldVars
  <1>7. Fails \/ Succeeds \/ Unwinds => Asked'
    BY <1>1, EndsAsked, UnwindsAsked
  <1>8. cmd' = cmd /\ (pc' = pc \/ (pc = "clean" /\ pc' = "read")) => Asked'
    BY <1>1 DEF Asked, FromHub, Asking, Saving
  <1>9. pc' = "idle" /\ cmd' = NoCommand => Asked'
    <2>1. NoCommand.op = "none"
      BY DEF NoCommand
    <2>2. QED
      BY <2>1, RestAsked
  <1>10. CASE Clean
    BY <1>3, <1>5, <1>7, <1>8, <1>10 DEF Clean, Failing, dirVars
  <1>11. CASE Read
    BY <1>3, <1>7, <1>11 DEF Read, Failing
  <1>12. CASE Undo
    BY <1>3, <1>4, <1>6, <1>7, <1>8, <1>9, <1>12 DEF Undo, Failing
  <1>13. CASE Delete
    BY <1>3, <1>4, <1>7, <1>8, <1>13 DEF Delete, Failing
  <1>14. QED
    BY <1>10, <1>11, <1>12, <1>13

LEMMA WorldAsked ==
    ASSUME VersionInv, World
    PROVE  Asked' /\ KnownDirs'
  <1>1. TypeOK /\ KnownDirs /\ Asked /\ UNCHANGED dirVars
    BY DEF VersionInv, World, Crash, HourPasses, Publish, Push
  <1>2. \A n \in Names : /\ hub[n] \in Nat /\ cache.index[n] \in Nat
                         /\ live[n] \in Dirs /\ old[n] \in Dirs
    BY <1>1 DEF TypeOK, WorldTypes, Indexes
  <1>3. CASE Crash
    <2>1. /\ hub' = hub /\ (cache' = cache \/ cache'.state = "torn")
          /\ pc' = "idle" /\ cmd' = NoCommand
      BY <1>3 DEF Crash, worldVars
    <2>2. Asked'
      BY <2>1, RestAsked DEF NoCommand
    <2>3. KnownDirs'
      BY <1>1, <2>1 DEF KnownDirs, Known, dirVars
    <2>4. QED
      BY <2>2, <2>3
  <1>4. ASSUME Calm, UNCHANGED <<cmd, pc>> PROVE Asked'
    BY <1>1, <1>4 DEF Calm, Asked, Asking, Saving
  <1>5. CASE HourPasses
    <2>1. hub' = hub /\ cache'.state # "fresh"
      BY <1>1, <1>5 DEF HourPasses, worldVars, TypeOK, WorldTypes
    <2>2. QED
      BY <1>1, <1>4, <1>5, <2>1 DEF HourPasses, KnownDirs, Known, dirVars
  <1>6. ASSUME NEW m \in Names, Publish(m) PROVE Asked' /\ KnownDirs'
    <2>1. cache' = cache /\ \A n \in Names : hub[n] =< hub'[n] /\ hub'[n] \in Nat
      <3>1. hub \in [Names -> Nat] /\ hub' = [hub EXCEPT ![m] = hub[m] + 1] /\ cache' = cache
        BY <1>1, <1>6 DEF Publish, TypeOK, WorldTypes, Indexes
      <3>2. hub[m] =< hub[m] + 1 /\ hub[m] + 1 \in Nat /\ \A n \in Names : hub[n] =< hub[n]
        BY <3>1
      <3>3. QED
        BY <3>1, <3>2
    <2>2. \A n \in Names : live[n].manifest \in Nat /\ old[n].manifest \in Nat
      BY <1>2 DEF Dirs
    <2>3. KnownDirs'
      BY <1>1, <1>2, <2>1, <2>2 DEF KnownDirs, Known, dirVars
    <2>4. QED
      BY <1>4, <1>6, <2>3 DEF Publish
  <1>7. ASSUME NEW b \in Branches, NEW v \in Versions, Push(b, v) PROVE Asked' /\ KnownDirs'
    <2>1. UNCHANGED <<hub, cache, dirVars>>
      BY <1>7 DEF Push
    <2>2. QED
      BY <1>1, <1>4, <1>7, <2>1 DEF Push, KnownDirs, Known, dirVars
  <1>8. QED
    BY <1>3, <1>5, <1>6, <1>7 DEF World

LEMMA NextVersions ==
    ASSUME LossInv, VersionInv, [Next]_vars
    PROVE  VersionInv'
  <1>1. TypeOK' /\ KnownDirs
    BY NextTypes DEF VersionInv
  <1>2. UNCHANGED <<dirVars, worldVars, cache>> => KnownDirs'
    BY <1>1 DEF KnownDirs, Known, dirVars, worldVars
  <1>3. CASE Command
    BY <1>1, <1>2, <1>3, CommandAsked DEF VersionInv
  <1>4. CASE CommandStep
    BY <1>1, <1>2, <1>4, LoopAsked, ProviderAsked, SaveAsked, RemovalAsked
    DEF CommandStep, VersionInv
  <1>5. CASE World
    BY <1>1, <1>5, WorldAsked DEF VersionInv
  <1>6. CASE UNCHANGED vars
    BY <1>1, <1>6 DEF VersionInv, KnownDirs, Known, Asked, FromHub, vars
  <1>7. QED
    BY <1>3, <1>4, <1>5, <1>6 DEF Next

LEMMA InitVersions == Init => VersionInv
  <1>1. SUFFICES ASSUME Init PROVE KnownDirs /\ Asked
    BY InitTypes DEF VersionInv
  <1>2. ASSUME NEW n \in Names
        PROVE  /\ Known(live[n], n) /\ Known(old[n], n)
               /\ cache.state = "fresh" => cache.index[n] =< hub[n]
    <2>1. hub[n] = 1 /\ (cache.state = "fresh" => cache.index[n] = 1)
      BY <1>1 DEF Init, NoCache
    <2>2. live[n].source = Hub => live[n].manifest =< 1
      <3>1. live[n] \in {NoDir, Legacy, Stored(1, Hub)}
        BY <1>1 DEF Init
      <3>2. /\ NoDir.source = NoSource /\ Legacy.source = NoSource /\ NoSource # Hub
            /\ Stored(1, Hub).manifest = 1
        BY DEF NoDir, Legacy, Empty, Stored, NoSource, Hub
      <3>3. QED
        BY <3>1, <3>2
    <2>3. old[n].source # Hub
      BY <1>1 DEF Init, NoDir, NoSource, Hub
    <2>4. QED
      BY <2>1, <2>2, <2>3 DEF Known
  <1>3. Asked
    BY <1>1 DEF Init, Asked, NoCommand, Asking, Saving
  <1>4. QED
    BY <1>2, <1>3 DEF KnownDirs

LEMMA VersionsAreUpheld ==
    ASSUME VersionInv
    PROVE  NoDowngrade
  <1>1. SUFFICES ASSUME pc = "read", cmd.op = "update", cmd.source = Hub
                 PROVE  cmd.package >= cmd.before.manifest
    BY DEF NoDowngrade
  <1>2. cmd.package = cache.index[cmd.dir] /\ cmd.before.manifest =< cache.index[cmd.dir]
    BY <1>1 DEF VersionInv, Asked, FromHub, Saving
  <1>3. cmd.package \in Nat /\ cmd.before.manifest \in Nat
    BY DEF VersionInv, TypeOK, CommandRecords, Dirs
  <1>4. QED
    BY <1>2, <1>3

\* No update from the hub goes back to an earlier version, although the index
\* may come from a cache (espanso-package's get_index): for any publications
\* and any commands between two updates.
THEOREM UpdatesNeverGoBack == Spec => []NoDowngrade
  <1>1. LossInv /\ [Next]_vars => LossInv'
    BY NextLoss
  <1>2. LossInv /\ VersionInv /\ [Next]_vars => VersionInv'
    BY NextVersions
  <1>3. VersionInv => NoDowngrade
    BY VersionsAreUpheld
  <1>4. QED
    BY <1>1, <1>2, <1>3, InitLoss, InitVersions, PTL DEF Spec

=============================================================================
