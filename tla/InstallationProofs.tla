----------------------- MODULE InstallationProofs -----------------------
(*************************************************************************)
(* What holds of the installation for any number of processes, places     *)
(* and keys: every variable has its type, at most one command at a time   *)
(* changes a registration that is not in doubt, and every process under   *)
(* way sees the directories that a look now would find, unless another    *)
(* application made one while a portable one was looking.                 *)
(*                                                                        *)
(* What holds of the configuration in those directories, whatever files   *)
(* there are: no file is left out without a word, a load that was not     *)
(* disturbed gives what is on disk, a query gives each match once and     *)
(* imports first, and what is active can be detected.                     *)
(*************************************************************************)
EXTENDS Installation, ConfigurationProperties, FiniteSetTheorems, SequenceLemmas

-----------------------------------------------------------------------------
(* Types *)

\* What the entries, the links and the processes name, and the directories.
Executables == Places \cup {Nobody}
Directories == [root : Executables \cup {"~", "~/.config", "data", "roaming", "cache",
                                    "preferences", "custom"},
                sub : {"", "espanso", ".espanso", ".espanso-runtime"},
                packages : {"", "packages", "match/packages"}]
\* Where a process may be in its command.
Steps == {"idle", "config", "runtime", "other runtime", "create runtime", "packages",
          "launcher", "daemon", "preferences",
          "page", "selected", "auto start", "retry", "completed", "waiting",
          "populate", "launch", "register", "enable", "write", "unload", "load",
          "unregister", "remove", "start", "link", "unlink"}
\* The commands, and where one is while its directories are looked up.
Cmds == {"launcher", "daemon", "register", "unregister", "start", "link", "unlink"}
LookUps == {"config", "runtime", "other runtime", "create runtime", "packages"}
PageNames == {"welcome", "move bundle", "auto start", "add path", "accessibility"}

ProcTypes ==
    procs \in [Procs -> [pc : Steps,
                         cmd : {"none"} \cup Cmds,
                         exe : Executables, option : BOOLEAN,
                         config : Directories, runtime : Directories,
                         pages : SUBSET PageNames, trusted : BOOLEAN]]
\* A command whose directories are looked up goes on with itself.
Underway == \A p \in Procs :
    procs[p].pc \in LookUps
        => procs[p].cmd \in {"launcher", "daemon", "register", "unregister", "start"}

\* Every variable has its type.
TypeOK ==
    /\ os \in {"linux", "macos", "windows"} /\ build \in Builds /\ app \in Places
    /\ dirs \subseteq Directories /\ marked \subseteq Directories
    /\ prefs \in [RuntimeDirs -> [Keys -> {"unset", "torn", "true"}]]
    /\ entry \in [state : {"none", "torn", "whole"}, target : Executables]
    /\ enabled \in BOOLEAN /\ granted \in BOOLEAN
    /\ links \subseteq Executables \cup {Foreign}
    /\ running \subseteq Directories
    /\ due \subseteq Executables
    /\ ProcTypes
    /\ used \subseteq [exe : Executables, option : BOOLEAN, config : Directories,
                       runtime : Directories, packages : Directories]
    /\ raced \subseteq Executables /\ registered \in Executables \cup {Contested}
    /\ commands \in Nat /\ mishaps \in Nat

-----------------------------------------------------------------------------
(* The directories that are found *)

\* What is found is the first candidate that exists, else the last candidate.
LEMMA FirstFound ==
    ASSUME NEW S, NEW s \in Seq(S), s # <<>>, NEW E
    PROVE  \/ \E i \in 1..Len(s) : /\ s[i] \in E /\ Found(s, E) = s[i]
                                   /\ \A j \in 1..(i - 1) : s[j] \notin E
           \/ (\A i \in 1..Len(s) : s[i] \notin E) /\ Found(s, E) = s[Len(s)]
<1> DEFINE I == {i \in 1..Len(s) : s[i] \in E}
<1>1. SelectInSeq(s, LAMBDA d : d \in E) = IF I # {} THEN Min(I) ELSE 0
  BY DEF SelectInSeq
<1>2. CASE I = {}
  BY <1>1, <1>2 DEF Found, Last
<1>3. CASE I # {}
  <2>1. I \in SUBSET Nat
    OBVIOUS
  <2>2. Min(I) \in I /\ \A i \in I : Min(I) <= i
    BY <1>3, <2>1, FirstPosition
  <2>3. Found(s, E) = s[Min(I)] /\ Min(I) # 0
    BY <1>1, <1>3, <2>2 DEF Found
  <2>4. PICK m \in I : Found(s, E) = s[m] /\ \A i \in I : m <= i
    BY <2>2, <2>3
  <2>5. \A j \in 1..(m - 1) : s[j] \notin E
    BY <2>4
  <2>. QED BY <2>4, <2>5
<1>. QED BY <1>2, <1>3

\* The same for as many candidates as there are.
LEMMA FoundOfFour ==
    ASSUME NEW a, NEW b, NEW c, NEW d, NEW E
    PROVE  Found(<<a, b, c, d>>, E) = IF a \in E THEN a ELSE IF b \in E THEN b
                                      ELSE IF c \in E THEN c ELSE d
<1> DEFINE s == <<a, b, c, d>>
<1>1. s \in Seq({a, b, c, d}) /\ s # <<>> /\ Len(s) = 4
  OBVIOUS
<1>2. s[1] = a /\ s[2] = b /\ s[3] = c /\ s[4] = d
  OBVIOUS
<1> HIDE DEF s
<1>3. \/ \E i \in 1..4 : /\ s[i] \in E /\ Found(s, E) = s[i]
                         /\ \A j \in 1..(i - 1) : s[j] \notin E
      \/ (\A i \in 1..4 : s[i] \notin E) /\ Found(s, E) = s[4]
  BY <1>1, FirstFound
<1>4. CASE (\A i \in 1..4 : s[i] \notin E) /\ Found(s, E) = s[4]
  BY <1>2, <1>4 DEF s
<1>5. ASSUME NEW i \in 1..4, s[i] \in E, Found(s, E) = s[i],
             \A j \in 1..(i - 1) : s[j] \notin E
      PROVE  Found(s, E) = IF a \in E THEN a ELSE IF b \in E THEN b
                           ELSE IF c \in E THEN c ELSE d
  <2>1. CASE i = 1
    BY <1>2, <1>5, <2>1
  <2>2. CASE i = 2
    <3>1. 1 \in 1..(i - 1)
      BY <2>2
    <3>. QED BY <1>2, <1>5, <2>2, <3>1
  <2>3. CASE i = 3
    <3>1. 1 \in 1..(i - 1) /\ 2 \in 1..(i - 1)
      BY <2>3
    <3>. QED BY <1>2, <1>5, <2>3, <3>1
  <2>4. CASE i = 4
    <3>1. 1 \in 1..(i - 1) /\ 2 \in 1..(i - 1) /\ 3 \in 1..(i - 1)
      BY <2>4
    <3>. QED BY <1>2, <1>5, <2>4, <3>1
  <2>. QED BY <2>1, <2>2, <2>3, <2>4
<1>. QED BY <1>3, <1>4, <1>5 DEF s

\* The same for five candidates, as on macOS.
LEMMA FoundOfFive ==
    ASSUME NEW a, NEW b, NEW c, NEW d, NEW e, NEW E
    PROVE  Found(<<a, b, c, d, e>>, E) = IF a \in E THEN a ELSE IF b \in E THEN b
                                         ELSE IF c \in E THEN c
                                         ELSE IF d \in E THEN d ELSE e
<1> DEFINE s == <<a, b, c, d, e>>
<1>1. s \in Seq({a, b, c, d, e}) /\ s # <<>> /\ Len(s) = 5
  OBVIOUS
<1>2. s[1] = a /\ s[2] = b /\ s[3] = c /\ s[4] = d /\ s[5] = e
  OBVIOUS
<1> HIDE DEF s
<1>3. \/ \E i \in 1..5 : /\ s[i] \in E /\ Found(s, E) = s[i]
                         /\ \A j \in 1..(i - 1) : s[j] \notin E
      \/ (\A i \in 1..5 : s[i] \notin E) /\ Found(s, E) = s[5]
  BY <1>1, FirstFound
<1>4. CASE (\A i \in 1..5 : s[i] \notin E) /\ Found(s, E) = s[5]
  BY <1>2, <1>4 DEF s
<1>5. ASSUME NEW i \in 1..5, s[i] \in E, Found(s, E) = s[i],
             \A j \in 1..(i - 1) : s[j] \notin E
      PROVE  Found(s, E) = IF a \in E THEN a ELSE IF b \in E THEN b
                           ELSE IF c \in E THEN c ELSE IF d \in E THEN d ELSE e
  <2>1. CASE i = 1
    BY <1>2, <1>5, <2>1
  <2>2. CASE i = 2
    <3>1. 1 \in 1..(i - 1)
      BY <2>2
    <3>. QED BY <1>2, <1>5, <2>2, <3>1
  <2>3. CASE i = 3
    <3>1. 1 \in 1..(i - 1) /\ 2 \in 1..(i - 1)
      BY <2>3
    <3>. QED BY <1>2, <1>5, <2>3, <3>1
  <2>4. CASE i = 4
    <3>1. 1 \in 1..(i - 1) /\ 2 \in 1..(i - 1) /\ 3 \in 1..(i - 1)
      BY <2>4
    <3>. QED BY <1>2, <1>5, <2>4, <3>1
  <2>5. CASE i = 5
    <3>1. 1 \in 1..(i - 1) /\ 2 \in 1..(i - 1) /\ 3 \in 1..(i - 1) /\ 4 \in 1..(i - 1)
      BY <2>5
    <3>. QED BY <1>2, <1>5, <2>5, <3>1
  <2>. QED BY <2>1, <2>2, <2>3, <2>4, <2>5
<1>. QED BY <1>3, <1>4, <1>5 DEF s

\* Joining short sequences.
LEMMA JoinedFour ==
    ASSUME NEW a, NEW b, NEW c, NEW d
    PROVE  <<a, b, c>> \o <<d>> = <<a, b, c, d>>
<1> DEFINE S == {a, b, c, d}
           s == <<a, b, c>> \o <<d>>
<1>1. <<a, b, c>> \in Seq(S) /\ <<d>> \in Seq(S) /\ <<a, b, c, d>> \in Seq(S)
  OBVIOUS
<1>2. s \in Seq(S) /\ Len(s) = 4
  BY <1>1, ConcatProperties
<1>3. \A i \in 1..4 : s[i] = IF i <= 3 THEN <<a, b, c>>[i] ELSE <<d>>[i - 3]
  BY <1>1, ConcatProperties
<1>4. s[1] = a /\ s[2] = b /\ s[3] = c /\ s[4] = d
  BY <1>3
<1>5. \A i \in 1..4 : s[i] = <<a, b, c, d>>[i]
  BY <1>4
<1> HIDE DEF s
<1>6. s = <<a, b, c, d>>
  BY <1>1, <1>2, <1>5, SeqEqual
<1>. QED BY <1>6 DEF s

\* The same when four are followed by one.
LEMMA JoinedFive ==
    ASSUME NEW a, NEW b, NEW c, NEW d, NEW e
    PROVE  <<a, b, c, d>> \o <<e>> = <<a, b, c, d, e>>
<1> DEFINE S == {a, b, c, d, e}
           s == <<a, b, c, d>> \o <<e>>
<1>1. /\ <<a, b, c, d>> \in Seq(S) /\ <<e>> \in Seq(S)
      /\ <<a, b, c, d, e>> \in Seq(S)
  OBVIOUS
<1>2. s \in Seq(S) /\ Len(s) = 5
  BY <1>1, ConcatProperties
<1>3. \A i \in 1..5 : s[i] = IF i <= 4 THEN <<a, b, c, d>>[i] ELSE <<e>>[i - 4]
  BY <1>1, ConcatProperties
<1>4. s[1] = a /\ s[2] = b /\ s[3] = c /\ s[4] = d /\ s[5] = e
  BY <1>3
<1>5. \A i \in 1..5 : s[i] = <<a, b, c, d, e>>[i]
  BY <1>4
<1> HIDE DEF s
<1>6. s = <<a, b, c, d, e>>
  BY <1>1, <1>2, <1>5, SeqEqual
<1>. QED BY <1>6 DEF s

\* The configuration directory of an application.
FirstConfig(exe) ==
    IF PortableConfig(exe) \in dirs THEN PortableConfig(exe)
    ELSE IF Dir("~", ".espanso") \in dirs THEN Dir("~", ".espanso")
    ELSE IF DotConfig \in dirs THEN DotConfig
    ELSE IF os = "macos" /\ Dir("preferences", "espanso") \in dirs
      THEN Dir("preferences", "espanso")
    ELSE DefaultConfig

\* That is what the search through the candidates comes to.
LEMMA ConfigDirIs == \A exe : ConfigDir(exe) = FirstConfig(exe)
<1>. SUFFICES ASSUME NEW exe PROVE ConfigDir(exe) = FirstConfig(exe)
  OBVIOUS
<1> DEFINE a == PortableConfig(exe)
           b == Dir("~", ".espanso")
           c == DotConfig
           p == Dir("preferences", "espanso")
           d == DefaultConfig
<1>1. ConfigDir(exe) = Found(<<a, b, c>> \o (IF os = "macos" THEN <<p>> ELSE <<>>)
                               \o <<d>>, dirs)
  BY DEF ConfigDir
<1> HIDE DEF a, b, c, d, p
<1>2. CASE os = "macos"
  <2>1. ConfigDir(exe) = Found(<<a, b, c>> \o <<p>> \o <<d>>, dirs)
    BY <1>1, <1>2
  <2>2. <<a, b, c>> \o <<p>> \o <<d>> = <<a, b, c, p, d>>
    <3>1. <<a, b, c>> \o <<p>> = <<a, b, c, p>>
      BY JoinedFour, Zenon
    <3>2. <<a, b, c, p>> \o <<d>> = <<a, b, c, p, d>>
      BY JoinedFive, Zenon
    <3>. QED BY <3>1, <3>2
  <2>3. ConfigDir(exe) = Found(<<a, b, c, p, d>>, dirs)
    BY <2>1, <2>2
  <2>. QED BY <1>2, <2>3, FoundOfFive DEF a, b, c, p, d, FirstConfig
<1>3. CASE os # "macos"
  <2>1. ConfigDir(exe) = Found(<<a, b, c>> \o <<>> \o <<d>>, dirs)
    BY <1>1, <1>3
  <2>2. <<a, b, c>> \o <<>> = <<a, b, c>>
    <3>1. <<a, b, c>> \in Seq({a, b, c})
      OBVIOUS
    <3>. QED BY <3>1, ConcatEmptySeq
  <2>3. ConfigDir(exe) = Found(<<a, b, c, d>>, dirs)
    BY <2>1, <2>2, JoinedFour, Zenon
  <2>. QED BY <1>3, <2>3, FoundOfFour DEF a, b, c, d, FirstConfig
<1>. QED BY <1>2, <1>3

\* The same in the next state.
LEMMA LookupsNext == \A exe : ConfigDir(exe)' = FirstConfig(exe)'
<1>1. (\A exe : ConfigDir(exe) = FirstConfig(exe))'
  BY ConfigDirIs, PTL
<1>. QED BY <1>1

\* The runtime directory that an application has when nobody else interferes.
FirstRuntime(exe) ==
    IF PortableRuntime(exe) \in dirs THEN PortableRuntime(exe)
    ELSE IF LegacyIsThere THEN LegacyRuntime
    ELSE IF DefaultRuntime \in dirs \/ ~IsPortable(exe) THEN DefaultRuntime
    ELSE PortableRuntime(exe)

\* The directory of the packages of a configuration directory.
LEMMA PackagesDirIs ==
    ASSUME NEW config, NEW runtime, Within(config, "packages") \notin dirs,
           Within(runtime, "packages") \notin dirs
    PROVE  PackagesDir(config, runtime) = DefaultPackages(config)
<1> DEFINE a == DefaultPackages(config)
           b == Within(config, "packages")
           c == Within(runtime, "packages")
<1>1. PackagesDir(config, runtime) = Found(<<a, b, c, a>>, dirs)
  BY DEF PackagesDir
<1>2. b \notin dirs /\ c \notin dirs
  OBVIOUS
<1> HIDE DEF a, b, c
<1>. QED BY <1>1, <1>2, FoundOfFour DEF a

\* What becomes of a process that goes on, and of the others.
LEMMA GoesOn ==
    ASSUME ProcTypes, NEW p \in Procs, NEW place \in Steps,
           Goto(p, place) \/ Leaves(p, place)
    PROVE  /\ ProcTypes' /\ procs'[p].pc = place
           /\ procs'[p].cmd = procs[p].cmd /\ procs'[p].exe = procs[p].exe
           /\ procs'[p].option = procs[p].option
           /\ procs'[p].config = procs[p].config
           /\ procs'[p].runtime = procs[p].runtime
           /\ \A q \in Procs : q # p => procs'[q] = procs[q]
<1>1. PICK pages \in SUBSET PageNames :
        procs' = [procs EXCEPT ![p] = [@ EXCEPT !.pages = pages, !.pc = place]]
  <2>1. procs[p].pages \in SUBSET PageNames
    BY DEF ProcTypes
  <2>2. CASE Goto(p, place)
    <3>1. procs' = [procs EXCEPT ![p] = [@ EXCEPT !.pages = procs[p].pages, !.pc = place]]
      BY <2>2 DEF ProcTypes, Goto
    <3>. QED BY <2>1, <3>1
  <2>3. CASE Leaves(p, place)
    <3>1. procs' = [procs EXCEPT ![p] = [@ EXCEPT !.pages = procs[p].pages \ {Page(p)},
                                                   !.pc = place]]
      BY <2>3 DEF Leaves
    <3>. QED BY <2>1, <3>1
  <2>. QED BY <2>2, <2>3
<1>. DEFINE q == [procs[p] EXCEPT !.pages = pages, !.pc = place]
<1>2. procs' = [procs EXCEPT ![p] = q]
  BY <1>1
<1>3. /\ q \in [pc : Steps,
               cmd : {"none"} \cup Cmds,
               exe : Executables, option : BOOLEAN, config : Directories,
               runtime : Directories, pages : SUBSET PageNames, trusted : BOOLEAN]
      /\ q.pc = place /\ q.cmd = procs[p].cmd /\ q.exe = procs[p].exe
      /\ q.option = procs[p].option /\ q.config = procs[p].config
      /\ q.runtime = procs[p].runtime
  BY DEF ProcTypes
<1>. HIDE DEF q
<1>4. ProcTypes'
  BY <1>2, <1>3 DEF ProcTypes
<1>5. procs'[p] = q /\ \A r \in Procs : r # p => procs'[r] = procs[r]
  BY <1>2 DEF ProcTypes
<1>. QED BY <1>3, <1>4, <1>5

\* What becomes of one that stops or starts.
LEMMA ComesAndGoes ==
    ASSUME ProcTypes, NEW p \in Procs
    PROVE  /\ Stops(p) => /\ ProcTypes' /\ procs'[p] = NoProc
                          /\ procs'[p].pc = "idle"
                          /\ \A q \in Procs : q # p => procs'[q] = procs[q]
           /\ \A cmd \in Cmds, exe \in Executables, option \in BOOLEAN :
                Starts(p, cmd, exe, option) /\ granted \in BOOLEAN
                  => /\ ProcTypes' /\ procs'[p].cmd = cmd
                     /\ procs'[p].pc = IF cmd \in {"link", "unlink"} THEN cmd
                                       ELSE "config"
                     /\ \A q \in Procs : q # p => procs'[q] = procs[q]
<1>1. NoProc \in [pc : Steps, cmd : {"none"} \cup Cmds,
                  exe : Executables, option : BOOLEAN, config : Directories,
                  runtime : Directories, pages : SUBSET PageNames,
                  trusted : BOOLEAN] /\ NoProc.pc = "idle"
  BY DEF NoProc, Steps, Executables, Custom, Dir, Directories, PageNames
<1>2. ASSUME Stops(p)
      PROVE  /\ ProcTypes' /\ procs'[p] = NoProc /\ procs'[p].pc = "idle"
             /\ \A q \in Procs : q # p => procs'[q] = procs[q]
  BY <1>1, <1>2 DEF Stops, ProcTypes
<1>3. ASSUME NEW cmd \in Cmds, NEW exe \in Executables, NEW option \in BOOLEAN,
             Starts(p, cmd, exe, option), granted \in BOOLEAN
      PROVE  /\ ProcTypes' /\ procs'[p].cmd = cmd
             /\ procs'[p].pc = IF cmd \in {"link", "unlink"} THEN cmd ELSE "config"
             /\ \A q \in Procs : q # p => procs'[q] = procs[q]
  BY ZenonT(60), <1>1, <1>3 DEF Starts, ProcTypes, Steps, NoProc
<1>. QED BY <1>2, <1>3

\* A command that is over is gone, unless the wizard has run it.
LEMMA EndsSomewhere ==
    ASSUME ProcTypes, NEW p \in Procs, NEW ok \in BOOLEAN, Ends(p, ok)
    PROVE  /\ ProcTypes' /\ procs'[p].pc \in {"idle", "page", "retry"}
           /\ \A q \in Procs : q # p => procs'[q] = procs[q]
<1>1. "page" \in Steps /\ "retry" \in Steps
  BY DEF Steps
<1>. QED BY <1>1, GoesOn, ComesAndGoes DEF Ends

\* The directories that are looked up are directories.
LEMMA DirectoryTypes ==
    ASSUME os \in {"linux", "macos", "windows"}, NEW exe \in Executables
    PROVE  /\ ConfigDir(exe) \in Directories /\ PortableRuntime(exe) \in Directories
           /\ LegacyRuntime \in Directories /\ DefaultRuntime \in Directories
           /\ Custom \in Directories
           /\ \A config, runtime \in Directories :
                PackagesDir(config, runtime) \in Directories
<1>. USE DEF Dir, Directories, Executables
<1>1. DefaultConfig \in Directories /\ DefaultRuntime \in Directories
  BY DEF DefaultConfig, DefaultRuntime, DotConfig
<1>2. ConfigDir(exe) \in Directories
  BY <1>1, ConfigDirIs DEF FirstConfig, PortableConfig, DotConfig
<1>3. PortableRuntime(exe) \in Directories /\ LegacyRuntime \in Directories
  BY DEF PortableRuntime, LegacyRuntime
<1>4. Custom \in Directories
  BY DEF Custom
<1>5. ASSUME NEW config \in Directories, NEW runtime \in Directories
      PROVE  PackagesDir(config, runtime) \in Directories
  <2> DEFINE a == DefaultPackages(config)
             b == Within(config, "packages")
             c == Within(runtime, "packages")
  <2>1. a \in Directories /\ b \in Directories /\ c \in Directories
    BY DEF DefaultPackages, Within
  <2>2. PackagesDir(config, runtime) = Found(<<a, b, c, a>>, dirs)
    BY DEF PackagesDir
  <2> HIDE DEF a, b, c, Directories
  <2>. QED BY <2>1, <2>2, FoundOfFour
<1>. QED BY <1>1, <1>2, <1>3, <1>4, <1>5

\* At first everything has its type.
LEMMA TypesInit == Init => TypeOK /\ Underway
<1>. SUFFICES ASSUME Init PROVE TypeOK /\ Underway
  OBVIOUS
<1>1. app \in Places /\ os \in {"linux", "macos", "windows"}
  BY InstallationAssumption DEF Init, InstallationAssumption
<1>2. dirs \subseteq Directories /\ marked \subseteq Directories
  <2>1. /\ PortableConfig(app) \in Directories /\ DefaultConfig \in Directories
        /\ LegacyRuntime \in Directories /\ DefaultRuntime \in Directories
        /\ Dir("~", ".espanso") \in Directories
    BY <1>1 DEF PortableConfig, DefaultConfig, LegacyRuntime, DefaultRuntime,
       DotConfig, Dir, Directories, Executables
  <2>. QED BY <2>1 DEF Init
<1>3. ProcTypes /\ Underway
  BY DEF Init, ProcTypes, Underway, NoProc, Steps, Executables, Custom, Dir,
     Directories, LookUps
<1>4. entry \in [state : {"none", "torn", "whole"}, target : Executables]
  BY DEF Init, NoEntry, Executables
<1>5. prefs \in [RuntimeDirs -> [Keys -> {"unset", "torn", "true"}]]
  BY DEF Init
<1>. QED BY <1>1, <1>2, <1>3, <1>4, <1>5 DEF Init, TypeOK, Executables

\* What a process leaves as it was has its type, and so has what it changes.
LEMMA StepTypes ==
    ASSUME TypeOK, Underway, NEW p \in Procs, ProcStep(p) \/ UserStep(p)
    PROVE  TypeOK' /\ Underway'
<1>. USE DEF At, hostVars, traceVars, historyVars, boundVars
<1>0. /\ ProcTypes /\ dirs \subseteq Directories /\ marked \subseteq Directories
      /\ os \in {"linux", "macos", "windows"} /\ granted \in BOOLEAN
      /\ enabled \in BOOLEAN /\ due \subseteq Executables
      /\ links \subseteq Executables \cup {Foreign}
      /\ entry \in [state : {"none", "torn", "whole"}, target : Executables]
      /\ registered \in Executables \cup {Contested}
      /\ app \in Executables /\ entry.target \in Executables
  BY DEF TypeOK, Executables
<1>25. UNCHANGED mishaps \/ Mishap => mishaps' \in Nat
  BY DEF TypeOK, Mishap
<1>26. \A state \in {"none", "torn", "whole"}, target \in Executables :
         [state |-> state, target |-> target]
            \in [state : {"none", "torn", "whole"}, target : Executables]
  OBVIOUS
<1>27. ASSUME NEW place \in Steps, NEW d \in Directories, NEW pages \in SUBSET PageNames,
              \/ procs' = [procs EXCEPT ![p].config = d, ![p].pc = place]
              \/ procs' = [procs EXCEPT ![p].runtime = d, ![p].pc = place]
              \/ procs' = [procs EXCEPT ![p].pages = pages, ![p].pc = place]
       PROVE  ProcTypes'
  <2>1. \/ procs' = [procs EXCEPT ![p] = [@ EXCEPT !.config = d, !.pc = place]]
        \/ procs' = [procs EXCEPT ![p] = [@ EXCEPT !.runtime = d, !.pc = place]]
        \/ procs' = [procs EXCEPT ![p] = [@ EXCEPT !.pages = pages, !.pc = place]]
    BY <1>0, <1>27 DEF ProcTypes
  <2>2. PICK r : procs' = [procs EXCEPT ![p] = r]
                /\ \/ r = [procs[p] EXCEPT !.config = d, !.pc = place]
                   \/ r = [procs[p] EXCEPT !.runtime = d, !.pc = place]
                   \/ r = [procs[p] EXCEPT !.pages = pages, !.pc = place]
    BY <2>1
  <2>3. r \in [pc : Steps, cmd : {"none"} \cup Cmds,
               exe : Executables, option : BOOLEAN, config : Directories,
               runtime : Directories, pages : SUBSET PageNames,
               trusted : BOOLEAN]
    <3>0. procs[p] \in [pc : Steps, cmd : {"none"} \cup Cmds,
                        exe : Executables, option : BOOLEAN, config : Directories,
                        runtime : Directories, pages : SUBSET PageNames,
                        trusted : BOOLEAN]
      BY <1>0 DEF ProcTypes
    <3>1. CASE r = [procs[p] EXCEPT !.config = d, !.pc = place]
      BY <3>0, <3>1
    <3>2. CASE r = [procs[p] EXCEPT !.runtime = d, !.pc = place]
      BY <3>0, <3>2
    <3>3. CASE r = [procs[p] EXCEPT !.pages = pages, !.pc = place]
      BY <3>0, <3>3
    <3>. QED BY <2>2, <3>1, <3>2, <3>3
  <2>. QED BY <1>0, <2>2, <2>3 DEF ProcTypes
<1>28. \E d : d \in Directories
  BY <1>0, DirectoryTypes DEF TypeOK
<1>1. /\ \A place \in Steps :
           Goto(p, place) \/ Leaves(p, place) =>
              /\ ProcTypes'
              /\ (place \notin LookUps
                  \/ procs[p].pc \in LookUps) => Underway'
      /\ UNCHANGED procs \/ Stops(p) => ProcTypes' /\ Underway'
      /\ \A ok \in BOOLEAN : Ends(p, ok) => ProcTypes' /\ Underway'
  <2>1. UNCHANGED procs => ProcTypes' /\ Underway'
    BY <1>0 DEF ProcTypes, Underway
  <2>2. "idle" \notin LookUps /\ "page" \notin LookUps /\ "retry" \notin LookUps
    BY DEF LookUps
  <2>. QED BY <1>0, <2>1, <2>2, GoesOn, ComesAndGoes, EndsSomewhere DEF Underway
<1>. USE DEF Cmds, LookUps
<1>2. /\ procs[p].exe \in Executables /\ procs[p].option \in BOOLEAN
      /\ procs[p].config \in Directories /\ procs[p].runtime \in Directories
      /\ ConfigDir(procs[p].exe) \in Directories
      /\ PortableRuntime(procs[p].exe) \in Directories
      /\ LegacyRuntime \in Directories /\ DefaultRuntime \in Directories
      /\ Custom \in Directories
  BY <1>0, DirectoryTypes DEF ProcTypes
<1>3. \A config, runtime \in Directories : PackagesDir(config, runtime) \in Directories
  BY <1>0, DirectoryTypes, <1>2
<1>30. CASE Probe(p)
  BY <1>0, <1>1, <1>2, <1>30 DEF Probe, Steps, TypeOK
<1>31. CASE Wait(p)
  BY <1>0, <1>1, <1>2, <1>31 DEF Wait, Steps, TypeOK
<1>32. CASE Populate(p)
  BY <1>0, <1>1, <1>2, <1>32 DEF Populate, Steps, TypeOK
<1>33. CASE Turn(p)
  BY <1>0, <1>1, <1>2, <1>33 DEF Turn, Steps, TypeOK
<1>34. CASE Retry(p)
  BY <1>0, <1>1, <1>2, <1>34 DEF Retry, Steps, TypeOK
<1>35. CASE UnloadAgent(p)
  BY <1>0, <1>1, <1>2, <1>35 DEF UnloadAgent, Steps, TypeOK
<1>36. CASE Disable(p)
  BY <1>0, <1>1, <1>2, <1>25, <1>36 DEF Disable, Steps, TypeOK
<1>37. CASE RemoveEntry(p)
  BY <1>0, <1>1, <1>2, <1>37 DEF RemoveEntry, NoEntry, Executables, TypeOK
<1>38. CASE Link(p)
  BY <1>0, <1>1, <1>2, <1>38 DEF Link, Elevates, TypeOK
<1>39. CASE RemoveFromPath(p)
  BY <1>0, <1>1, <1>2, <1>39 DEF RemoveFromPath, TypeOK
<1>40. CASE Unlink(p)
  BY <1>0, <1>1, <1>2, <1>40 DEF Unlink, Elevates, TypeOK
<1>41. CASE WriteUnit(p)
  <2>1. ProcTypes' /\ Underway'
    BY <1>1, <1>41 DEF WriteUnit, Steps
  <2>2. entry' \in [state : {"none", "torn", "whole"}, target : Executables]
    BY <1>0, <1>2, <1>25, <1>26, <1>41 DEF WriteUnit, Executables
  <2>3. mishaps' \in Nat
    BY <1>0, <1>2, <1>25, <1>26, <1>41 DEF WriteUnit
  <2>. QED BY <1>41, <2>1, <2>2, <2>3 DEF WriteUnit, TypeOK
<1>42. CASE EnableUnit(p)
  <2>1. ProcTypes' /\ Underway'
    BY <1>1, <1>42 DEF EnableUnit
  <2>2. registered' \in Executables \cup {Contested} /\ enabled' \in BOOLEAN
    BY <1>0, <1>2, <1>25, <1>26, <1>42 DEF EnableUnit, Registered
  <2>3. mishaps' \in Nat
    BY <1>0, <1>2, <1>25, <1>26, <1>42 DEF EnableUnit
  <2>. QED BY <1>42, <2>1, <2>2, <2>3 DEF EnableUnit, TypeOK
<1>43. CASE WriteAgent(p)
  <2>1. ProcTypes' /\ Underway'
    BY <1>1, <1>43 DEF WriteAgent, Steps
  <2>2. entry' = entry \/ entry' = [state |-> "torn", target |-> procs[p].exe]
    BY <1>0, <1>2, <1>25, <1>26, <1>43 DEF WriteAgent
  <2>3. entry' \in [state : {"none", "torn", "whole"}, target : Executables]
    BY <1>0, <1>2, <1>26, <2>2
  <2>. QED BY <1>43, <2>1, <2>2, <2>3 DEF WriteAgent, TypeOK
<1>44. CASE FinishAgent(p)
  <2>1. ProcTypes' /\ Underway'
    BY <1>1, <1>44 DEF FinishAgent, Steps
  <2>2. entry' \in [state : {"none", "torn", "whole"}, target : Executables]
    BY <1>0, <1>2, <1>25, <1>26, <1>44 DEF FinishAgent, Executables
  <2>3. mishaps' \in Nat
    BY <1>0, <1>2, <1>25, <1>26, <1>44 DEF FinishAgent
  <2>. QED BY <1>44, <2>1, <2>2, <2>3 DEF FinishAgent, TypeOK
<1>45. CASE LoadAgent(p)
  <2>1. ProcTypes' /\ Underway'
    BY <1>1, <1>45 DEF LoadAgent
  <2>2. registered' \in Executables \cup {Contested} /\ enabled' \in BOOLEAN
    BY <1>0, <1>2, <1>25, <1>26, <1>45 DEF LoadAgent, Registered
  <2>3. mishaps' \in Nat
    BY <1>0, <1>2, <1>25, <1>26, <1>45 DEF LoadAgent
  <2>4. due' \subseteq Executables
    BY <1>0, <1>2, <1>25, <1>26, <1>45 DEF LoadAgent
  <2>. QED BY <1>45, <2>1, <2>2, <2>3, <2>4 DEF LoadAgent, TypeOK
<1>46. CASE WriteShortcut(p)
  <2>1. ProcTypes' /\ Underway'
    BY <1>1, <1>46 DEF WriteShortcut
  <2>2. registered' \in Executables \cup {Contested} /\ enabled' \in BOOLEAN
    BY <1>0, <1>2, <1>25, <1>26, <1>46 DEF WriteShortcut, Registered
  <2>3. mishaps' \in Nat
    BY <1>0, <1>2, <1>25, <1>26, <1>46 DEF WriteShortcut
  <2>4. entry' \in [state : {"none", "torn", "whole"}, target : Executables]
    BY <1>0, <1>2, <1>25, <1>26, <1>46 DEF WriteShortcut, Executables
  <2>. QED BY <1>46, <2>1, <2>2, <2>3, <2>4 DEF WriteShortcut, TypeOK
<1>47. CASE AddToPath(p)
  <2>1. ProcTypes' /\ Underway'
    BY <1>1, <1>47 DEF AddToPath
  <2>2. links' \subseteq Executables \cup {Foreign}
    BY <1>0, <1>2, <1>25, <1>26, <1>47 DEF AddToPath
  <2>3. mishaps' \in Nat
    BY <1>0, <1>2, <1>25, <1>26, <1>47 DEF AddToPath
  <2>. QED BY <1>47, <2>1, <2>2, <2>3 DEF AddToPath, TypeOK
<1>48. CASE ResolveConfig(p)
  <2>1. PICK c \in Directories :
            /\ dirs' = dirs \cup {c}
            /\ procs' = [procs EXCEPT ![p].config = c, ![p].pc = "runtime"]
    BY <1>0, <1>2, <1>48 DEF ResolveConfig
  <2>2. ProcTypes'
    BY <1>0, <1>27, <1>28, <2>1 DEF Steps
  <2>3. /\ procs[p].pc \in LookUps
        /\ procs'[p].cmd = procs[p].cmd
        /\ \A q \in Procs : q # p => procs'[q] = procs[q]
    BY <1>0, <1>48, <2>1 DEF ResolveConfig, ProcTypes
  <2>4. Underway'
    BY <2>3 DEF Underway
  <2>. QED BY <1>48, <2>1, <2>2, <2>4 DEF ResolveConfig, TypeOK
<1>49. CASE ResolveRuntime(p) \/ OtherRuntime(p) \/ CreateRuntime(p)
  <2>1. dirs' \subseteq Directories
    BY <1>0, <1>2, <1>49 DEF ResolveRuntime, OtherRuntime, CreateRuntime
  <2>2. raced' \subseteq Executables
    <3>1. LookingOn \subseteq Executables
      BY <1>0 DEF LookingOn, ProcTypes
    <3>. QED BY <3>1, <1>49 DEF ResolveRuntime, OtherRuntime, CreateRuntime, TypeOK
  <2>3. \/ \E place \in {"other runtime", "create runtime"} : Goto(p, place)
        \/ \E r \in Directories : Uses(p, r)
    BY <1>2, <1>49 DEF ResolveRuntime, OtherRuntime, CreateRuntime
  <2>4. procs[p].pc \in LookUps
    BY <1>49 DEF ResolveRuntime, OtherRuntime, CreateRuntime
  <2>5. ASSUME NEW r \in Directories, Uses(p, r) PROVE ProcTypes' /\ Underway'
    <3>1. procs' = [procs EXCEPT ![p].runtime = r, ![p].pc = "packages"]
      BY <2>5 DEF Uses
    <3>2. ProcTypes'
      BY <1>0, <1>27, <1>28, <3>1 DEF Steps
    <3>3. /\ procs'[p].cmd = procs[p].cmd
          /\ \A q \in Procs : q # p => procs'[q] = procs[q]
      BY <1>0, <3>1 DEF ProcTypes
    <3>. QED BY <2>4, <3>2, <3>3 DEF Underway
  <2>6. ProcTypes' /\ Underway'
    BY <1>1, <2>3, <2>4, <2>5 DEF Steps
  <2>. QED BY <1>49, <2>1, <2>2, <2>6 DEF ResolveRuntime, OtherRuntime, CreateRuntime,
           TypeOK
<1>50. CASE ResolvePackages(p)
  <2>1. PICK k \in Directories :
            /\ dirs' = dirs \cup {k}
            /\ used' = used \cup {[exe |-> procs[p].exe, option |-> procs[p].option,
                                   config |-> procs[p].config,
                                   runtime |-> procs[p].runtime, packages |-> k]}
    BY <1>0, <1>2, <1>3, <1>50 DEF ResolvePackages
  <2>2. /\ procs[p].pc = "packages" /\ Goto(p, procs[p].cmd)
        /\ procs[p].cmd \in Steps
    BY <1>0, <1>50 DEF ResolvePackages, Underway, Steps
  <2>3. ProcTypes' /\ Underway'
    BY <1>1, <2>2
  <2>4. /\ marked' = marked \cup {procs[p].runtime}
        /\ registered' \in Executables \cup {Contested}
    BY <1>0, <1>2, <1>50 DEF ResolvePackages, Registers, Executables
  <2>. QED BY <1>50, <1>2, <2>1, <2>3, <2>4 DEF ResolvePackages, TypeOK
<1>51. CASE Preferences(p)
  <2>1. Stops(p) \/ \E pages \in SUBSET PageNames, place \in {"populate", "page"} :
            procs' = [procs EXCEPT ![p].pages = pages, ![p].pc = place]
    BY ZenonT(60), <1>51 DEF Preferences, PageNames
  <2>3. ASSUME NEW pages \in SUBSET PageNames, NEW place \in {"populate", "page"},
               procs' = [procs EXCEPT ![p].pages = pages, ![p].pc = place]
        PROVE  ProcTypes' /\ Underway'
    <3>1. ProcTypes'
      BY <1>0, <1>27, <1>28, <2>3 DEF Steps
    <3>2. /\ procs'[p].pc \in {"populate", "page"}
          /\ \A q \in Procs : q # p => procs'[q] = procs[q]
      BY <1>0, <2>3 DEF ProcTypes
    <3>. QED BY <3>1, <3>2 DEF Underway
  <2>4. ProcTypes' /\ Underway'
    BY <1>1, <2>1, <2>3
  <2>. QED BY <1>51, <2>4 DEF Preferences, TypeOK
<1>52. CASE Select(p)
  <2>1. PICK place \in {"auto start", "page"} :
            WritePreference(p, "selected", place, "has_selected_auto_start_option")
    BY <1>52 DEF Select
  <2>2. ProcTypes' /\ Underway'
    BY <1>0, <1>1, <2>1 DEF WritePreference, Steps, ProcTypes, Underway
  <2>3. prefs' \in [RuntimeDirs -> [Keys -> {"unset", "torn", "true"}]]
    <3> DEFINE r == procs[p].runtime
               k == "has_selected_auto_start_option"
    <3>1. \/ prefs' = [prefs EXCEPT ![r][k] = "torn"]
          \/ prefs' = [prefs EXCEPT ![r][k] = "true"]
      BY <2>1 DEF WritePreference
    <3>2. prefs \in [RuntimeDirs -> [Keys -> {"unset", "torn", "true"}]]
      BY DEF TypeOK
    <3> HIDE DEF r, k
    <3>3. PICK v \in {"torn", "true"} : prefs' = [prefs EXCEPT ![r] = [prefs[r] EXCEPT ![k] = v]]
      BY <3>1
    <3>4. CASE r \notin RuntimeDirs
      BY <3>2, <3>3, <3>4
    <3>5. CASE r \in RuntimeDirs
      <4>1. [prefs[r] EXCEPT ![k] = v] \in [Keys -> {"unset", "torn", "true"}]
        BY <3>2, <3>5
      <4>. QED BY <3>2, <3>3, <3>5, <4>1
    <3>. QED BY <3>4, <3>5
  <2>. QED BY <2>1, <2>2, <2>3 DEF WritePreference, TypeOK
<1>53. CASE Complete(p)
  <2>1. PICK place \in {"populate", "launch"} :
            WritePreference(p, "completed", place, "has_completed_wizard")
    BY <1>53 DEF Complete
  <2>2. ProcTypes' /\ Underway'
    BY <1>0, <1>1, <2>1 DEF WritePreference, Steps, ProcTypes, Underway
  <2>3. prefs' \in [RuntimeDirs -> [Keys -> {"unset", "torn", "true"}]]
    <3> DEFINE r == procs[p].runtime
               k == "has_completed_wizard"
    <3>1. \/ prefs' = [prefs EXCEPT ![r][k] = "torn"]
          \/ prefs' = [prefs EXCEPT ![r][k] = "true"]
      BY <2>1 DEF WritePreference
    <3>2. prefs \in [RuntimeDirs -> [Keys -> {"unset", "torn", "true"}]]
      BY DEF TypeOK
    <3> HIDE DEF r, k
    <3>3. PICK v \in {"torn", "true"} : prefs' = [prefs EXCEPT ![r] = [prefs[r] EXCEPT ![k] = v]]
      BY <3>1
    <3>4. CASE r \notin RuntimeDirs
      BY <3>2, <3>3, <3>4
    <3>5. CASE r \in RuntimeDirs
      <4>1. [prefs[r] EXCEPT ![k] = v] \in [Keys -> {"unset", "torn", "true"}]
        BY <3>2, <3>5
      <4>. QED BY <3>2, <3>3, <3>5, <4>1
    <3>. QED BY <3>4, <3>5
  <2>. QED BY <2>1, <2>2, <2>3 DEF WritePreference, TypeOK
<1>54. CASE AutoStart(p)
  <2>1. dirs' \subseteq Directories
    BY <1>0, <1>2, <1>3, <1>54 DEF AutoStart
  <2>2. registered' \in Executables \cup {Contested}
    BY <1>54 DEF AutoStart, Registers, Executables
  <2>3. ProcTypes' /\ Underway'
    BY <1>1, <1>54 DEF AutoStart, Steps
  <2>. QED BY <1>54, <2>1, <2>2, <2>3 DEF AutoStart, TypeOK
<1>55. CASE Launch(p)
  <2>1. CASE Stops(p)
    BY <1>1, <1>55, <2>1 DEF Launch, TypeOK
  <2>2. CASE Starts(p, "daemon", app, procs[p].option)
    <3>1. ProcTypes' /\ Underway'
      <4>1. /\ ProcTypes' /\ procs'[p].cmd = "daemon"
            /\ \A q \in Procs : q # p => procs'[q] = procs[q]
        BY <1>0, <1>2, <2>2, ComesAndGoes
      <4>. QED BY <4>1 DEF Underway
    <3>. QED BY <1>55, <3>1 DEF Launch, TypeOK
  <2>. QED BY <1>55, <2>1, <2>2 DEF Launch
<1>58. CASE Serve(p)
  BY <1>0, <1>1, <1>2, <1>58 DEF Serve, TypeOK
<1>56. CASE Start(p)
  <2>1. ProcTypes' /\ Underway'
    <3>1. CASE Stops(p)
      BY <1>1, <3>1
    <3>2. CASE Starts(p, "launcher", procs[p].exe, procs[p].option)
      <4>1. /\ ProcTypes' /\ procs'[p].cmd = "launcher"
            /\ \A q \in Procs : q # p => procs'[q] = procs[q]
        BY <1>0, <1>2, <3>2, ComesAndGoes
      <4>. QED BY <4>1 DEF Underway
    <3>. QED BY <1>56, <3>1, <3>2 DEF Start
  <2>2. Started(procs[p].exe) \subseteq Executables
    BY <1>0, <1>2 DEF Started, SystemdStarts, LaunchdStarts
  <2>. QED BY <1>56, <2>1, <2>2 DEF Start, TypeOK
<1>57. CASE \E cmd \in Commands : Run(p, cmd, FALSE) \/ Run(p, cmd, TRUE)
  <2>1. PICK cmd \in Commands, option \in BOOLEAN : Run(p, cmd, option)
    BY <1>57
  <2>2. cmd \in Cmds
    BY InstallationAssumption DEF InstallationAssumption
  <2>3. app \in Executables
    BY <1>0
  <2>4. ProcTypes' /\ procs'[p].cmd = cmd
        /\ procs'[p].pc = (IF cmd \in {"link", "unlink"} THEN cmd ELSE "config")
        /\ \A q \in Procs : q # p => procs'[q] = procs[q]
    BY <1>0, <2>1, <2>2, <2>3, ComesAndGoes DEF Run
  <2>5. Underway'
    BY <2>2, <2>4 DEF Underway
  <2>. QED BY <2>1, <2>4, <2>5 DEF Run, TypeOK
<1>. QED
  BY <1>30, <1>31, <1>32, <1>33, <1>34, <1>35, <1>36, <1>37, <1>38, <1>39, <1>40, <1>41, <1>42, <1>43, <1>44, <1>45, <1>46, <1>47, <1>48, <1>49, <1>50, <1>51, <1>52, <1>53, <1>54, <1>55, <1>56, <1>57, <1>58
     DEF ProcStep, UserStep

\* The steps of the world keep the types.
LEMMA WorldTypes ==
    ASSUME TypeOK, Underway, World
    PROVE  TypeOK' /\ Underway'
<1>. USE DEF hostVars, traceVars, historyVars, boundVars, TypeOK, Cmds, LookUps
<1>1. CASE Login \/ Grant \/ DaemonStops
  <2>1. ProcTypes' /\ Underway'
    BY <1>1 DEF Login, Grant, DaemonStops, ProcTypes, Underway
  <2>2. CASE Login
    BY <2>1, <2>2 DEF Login
  <2>3. CASE Grant
    BY <2>1, <2>3 DEF Grant
  <2>4. CASE DaemonStops
    BY <2>1, <2>4 DEF DaemonStops
  <2>. QED BY <1>1, <2>2, <2>3, <2>4
<1>2. ASSUME NEW place \in Places, MoveApp(place) PROVE TypeOK' /\ Underway'
  <2>1. ProcTypes' /\ Underway'
    BY <1>2 DEF MoveApp, ProcTypes, Underway
  <2>. QED BY <1>2, <2>1 DEF MoveApp, Mishap
<1>3. ASSUME NEW p \in Procs, Kill(p) PROVE TypeOK' /\ Underway'
  <2>1. ProcTypes' /\ Underway'
    BY <1>3, ComesAndGoes DEF Kill, Underway
  <2>. QED BY <1>3, <2>1 DEF Kill, Mishap
<1>4. ASSUME NEW p \in Procs, NEW exe \in Places, Spawn(p, exe)
      PROVE  TypeOK' /\ Underway'
  <2>1. CASE exe = app
    <3>1. /\ ProcTypes' /\ procs'[p].cmd = "launcher"
          /\ \A q \in Procs : q # p => procs'[q] = procs[q]
      BY <1>4, <2>1, ComesAndGoes DEF Spawn, Executables
    <3>2. Underway'
      BY <3>1 DEF Underway
    <3>. QED BY <1>4, <3>1, <3>2 DEF Spawn
  <2>2. CASE exe # app
    BY <1>4, <2>2 DEF Spawn, ProcTypes, Underway
  <2>. QED BY <2>1, <2>2
<1>. QED BY <1>1, <1>2, <1>3, <1>4 DEF World

\* In every reachable state every variable has its type.
THEOREM InstallationTypes == Spec => [](TypeOK /\ Underway)
<1>1. TypeOK /\ Underway /\ [Next]_vars => (TypeOK /\ Underway)'
  <2>. SUFFICES ASSUME TypeOK, Underway, [Next]_vars PROVE TypeOK' /\ Underway'
    OBVIOUS
  <2>1. CASE Next
    BY <2>1, StepTypes, WorldTypes DEF Next
  <2>2. CASE UNCHANGED vars
    BY <2>2 DEF vars, TypeOK, ProcTypes, Underway
  <2>. QED BY <2>1, <2>2
<1>. QED BY <1>1, TypesInit, PTL DEF Spec

-----------------------------------------------------------------------------
(* The registration *)

\* Unless the registration is in doubt for good, one command at a time changes
\* it, none when it holds, and the one that enables a unit has written it.
OneRegisters == registered # Contested =>
    \A p, q \in Procs : Registering(p) /\ Registering(q) => p = q
NoneRegisters == registered \in Places => \A p \in Procs : ~Registering(p)
Written == registered = Nobody => \A p \in Procs :
    procs[p].pc = "enable" => entry = [state |-> "whole", target |-> procs[p].exe]
Agents == \A p \in Procs : procs[p].pc \in {"write", "unload", "load"} => os = "macos"
RegistrationInv ==
    OneRegisters /\ NoneRegisters /\ Written /\ Agents /\ RegistrationHolds

\* What a command that changes the registration may count on.
LEMMA Alone ==
    ASSUME TypeOK, RegistrationInv, NEW p \in Procs, Registering(p)
    PROVE  /\ registered \in {Nobody, Contested}
           /\ registered = Nobody => \A q \in Procs : q # p => ~Registering(q)
<1>1. Nobody # Contested /\ Nobody \notin Places /\ Contested \notin Places
  BY InstallationAssumption DEF InstallationAssumption, Nobody, Contested
<1>2. registered \in {Nobody, Contested}
  BY DEF TypeOK, Executables, RegistrationInv, NoneRegisters
<1>. QED BY <1>1, <1>2 DEF RegistrationInv, OneRegisters

\* A step that has nothing to do with it.
LEMMA Uninvolved ==
    ASSUME RegistrationInv, UNCHANGED <<os, entry, enabled, registered>>,
           \A q \in Procs : Registering(q)' => procs'[q] = procs[q]
    PROVE  RegistrationInv'
<1>1. \A q \in Procs : Registering(q)' => Registering(q)
  BY DEF Registering
<1>2. OneRegisters' /\ NoneRegisters'
  BY <1>1 DEF RegistrationInv, OneRegisters, NoneRegisters
<1>3. Written' /\ Agents'
  BY DEF RegistrationInv, Written, Agents, Registering
<1>4. RegistrationHolds'
  BY DEF RegistrationInv, RegistrationHolds
<1>. QED BY <1>2, <1>3, <1>4 DEF RegistrationInv

\* A registration or its removal begins.
LEMMA InstallationBegins ==
    ASSUME TypeOK, RegistrationInv, NEW p \in Procs, ~Registering(p), Registers(p),
           procs'[p].pc \in {"register", "unregister"}, UNCHANGED <<os, entry>>,
           \A q \in Procs : q # p => procs'[q] = procs[q]
    PROVE  RegistrationInv'
<1>1. Nobody # Contested /\ Nobody \notin Places /\ Contested \notin Places
  BY InstallationAssumption DEF InstallationAssumption, Nobody, Contested
<1>2. \A q \in Procs : q # p => (Registering(q)' <=> Registering(q))
  BY DEF Registering
<1>3. CASE \E q \in Procs \ {p} : Registering(q)
  <2>1. registered' = Contested
    BY <1>3 DEF Registers
  <2>2. Agents'
    BY DEF RegistrationInv, Agents
  <2>. QED BY <1>1, <2>1, <2>2 DEF RegistrationInv, OneRegisters, NoneRegisters,
           Written, RegistrationHolds
<1>4. CASE \A q \in Procs \ {p} : ~Registering(q)
  <2>1. registered' = Nobody /\ \A q \in Procs : Registering(q)' => q = p
    BY <1>2, <1>4 DEF Registers
  <2>2. OneRegisters' /\ NoneRegisters' /\ RegistrationHolds'
    BY <1>1, <2>1 DEF OneRegisters, NoneRegisters, RegistrationHolds
  <2>3. Written'
    BY <2>1 DEF Written, Registering
  <2>4. Agents'
    BY DEF RegistrationInv, Agents
  <2>. QED BY <2>2, <2>3, <2>4 DEF RegistrationInv
<1>. QED BY <1>3, <1>4

\* It goes on, or fails.
LEMMA Proceeds ==
    ASSUME TypeOK, RegistrationInv, NEW p \in Procs, Registering(p),
           UNCHANGED <<os, registered>>,
           procs'[p].pc = "enable" =>
              entry' = [state |-> "whole", target |-> procs'[p].exe],
           procs'[p].pc \in {"write", "unload", "load"} => os = "macos",
           \A q \in Procs : q # p => procs'[q] = procs[q]
    PROVE  RegistrationInv'
<1>1. Nobody # Contested /\ Nobody \notin Places /\ Contested \notin Places
  BY InstallationAssumption DEF InstallationAssumption, Nobody, Contested
<1>2. Agents'
  BY DEF RegistrationInv, Agents
<1>3. CASE registered = Contested
  BY <1>1, <1>2, <1>3 DEF RegistrationInv, OneRegisters, NoneRegisters, Written,
     RegistrationHolds
<1>4. CASE registered = Nobody
  <2>1. \A q \in Procs : Registering(q)' => q = p
    BY <1>4, Alone DEF Registering
  <2>2. OneRegisters' /\ NoneRegisters' /\ RegistrationHolds'
    BY <1>1, <1>4, <2>1 DEF OneRegisters, NoneRegisters, RegistrationHolds
  <2>3. Written'
    BY <2>1 DEF Written, Registering
  <2>. QED BY <1>2, <2>2, <2>3 DEF RegistrationInv
<1>. QED BY <1>3, <1>4, Alone

\* It is over, and holds unless another one has interfered.
LEMMA Succeeds ==
    ASSUME TypeOK, RegistrationInv, NEW p \in Procs, Registering(p), Registered(p),
           UNCHANGED os, ~Registering(p)',
           registered = Nobody => /\ entry'.state = "whole" /\ enabled'
                                  /\ os # "macos" => entry'.target = procs[p].exe,
           \A q \in Procs : q # p => procs'[q] = procs[q]
    PROVE  RegistrationInv'
<1>1. Nobody # Contested /\ Nobody \notin Places /\ Contested \notin Places
  BY InstallationAssumption DEF InstallationAssumption, Nobody, Contested
<1>2. Agents'
  BY DEF RegistrationInv, Agents, Registering
<1>3. CASE registered = Contested
  <2>1. registered' = Contested
    BY <1>3 DEF Registered
  <2>. QED BY <1>1, <1>2, <2>1 DEF RegistrationInv, OneRegisters, NoneRegisters,
           Written, RegistrationHolds
<1>4. CASE registered = Nobody
  <2>1. registered' = procs[p].exe
    BY <1>1, <1>4 DEF Registered
  <2>2. \A q \in Procs : ~Registering(q)'
    BY <1>4, Alone DEF Registering
  <2>3. OneRegisters' /\ NoneRegisters' /\ Written'
    BY <2>2 DEF OneRegisters, NoneRegisters, Written, Registering
  <2>4. RegistrationHolds'
    BY <1>4, <2>1 DEF RegistrationHolds
  <2>. QED BY <1>2, <2>3, <2>4 DEF RegistrationInv
<1>. QED BY <1>3, <1>4, Alone

\* The steps of a process.
LEMMA StepRegistration ==
    ASSUME TypeOK, Underway, RegistrationInv, NEW p \in Procs,
           ProcStep(p) \/ UserStep(p)
    PROVE  RegistrationInv'
<1>. USE DEF At, hostVars, traceVars, historyVars, Cmds, LookUps
<1>1. /\ \A place \in Steps : Goto(p, place) \/ Leaves(p, place) =>
            /\ procs'[p].pc = place /\ procs'[p].exe = procs[p].exe
            /\ \A q \in Procs : q # p => procs'[q] = procs[q]
      /\ Stops(p) => /\ procs'[p].pc = "idle"
                     /\ \A q \in Procs : q # p => procs'[q] = procs[q]
      /\ \A ok \in BOOLEAN : Ends(p, ok) =>
            /\ procs'[p].pc \in {"idle", "page", "retry"}
            /\ \A q \in Procs : q # p => procs'[q] = procs[q]
  BY GoesOn, ComesAndGoes, EndsSomewhere DEF TypeOK
<1>2. ASSUME UNCHANGED <<os, entry, enabled, registered>>, ~Registering(p)',
             \A q \in Procs : q # p => procs'[q] = procs[q]
      PROVE  RegistrationInv'
  BY <1>2, Uninvolved
<1>3. \A q \in Procs : UNCHANGED procs => procs'[q] = procs[q]
  OBVIOUS
<1>4. CASE Probe(p) \/ Wait(p) \/ Populate(p) \/ Turn(p) \/ Retry(p) \/ Serve(p)
           \/ AddToPath(p) \/ Link(p) \/ RemoveFromPath(p) \/ Unlink(p)
  <2>1. UNCHANGED <<os, entry, enabled, registered>>
    BY <1>4 DEF Probe, Wait, Populate, Turn, Retry, Serve, AddToPath, Link,
       RemoveFromPath, Unlink
  <2>2. \/ Stops(p) \/ \E ok \in BOOLEAN : Ends(p, ok)
        \/ \E place \in {"preferences", "populate", "waiting", "page", "selected",
                         "link", "completed", "launch"} :
              Goto(p, place) \/ Leaves(p, place)
    BY <1>4 DEF Probe, Wait, Populate, Turn, Retry, Serve, AddToPath, Link,
       RemoveFromPath, Unlink, Elevates
  <2>3. /\ procs'[p].pc \in {"idle", "page", "retry", "preferences", "populate",
                             "waiting", "selected", "link", "completed", "launch"}
        /\ \A q \in Procs : q # p => procs'[q] = procs[q]
    BY <1>1, <2>2 DEF Steps
  <2>. QED BY <1>2, <2>1, <2>3 DEF Registering
<1>5. CASE ResolveConfig(p) \/ ResolveRuntime(p) \/ OtherRuntime(p) \/ CreateRuntime(p)
           \/ Preferences(p)
  <2>1. UNCHANGED <<os, entry, enabled, registered>>
    BY <1>5 DEF ResolveConfig, ResolveRuntime, OtherRuntime, CreateRuntime, Preferences
  <2>2. /\ procs'[p].pc \in LookUps \cup {"idle", "populate", "page"}
        /\ \A q \in Procs : q # p => procs'[q] = procs[q]
    <3>1. CASE ResolveConfig(p)
      BY <3>1 DEF ResolveConfig, TypeOK, ProcTypes
    <3>2. CASE ResolveRuntime(p) \/ OtherRuntime(p) \/ CreateRuntime(p)
      <4>1. \/ \E place \in {"other runtime", "create runtime"} : Goto(p, place)
            \/ \E r : Uses(p, r)
        BY <3>2 DEF ResolveRuntime, OtherRuntime, CreateRuntime
      <4>2. ASSUME NEW r, Uses(p, r)
            PROVE  /\ procs'[p].pc = "packages"
                   /\ \A q \in Procs : q # p => procs'[q] = procs[q]
        BY <4>2 DEF Uses, TypeOK, ProcTypes
      <4>. QED BY <1>1, <4>1, <4>2 DEF Steps
    <3>3. CASE Preferences(p)
      <4>1. \/ Stops(p)
            \/ \E pages, place : /\ place \in {"populate", "page"}
                                 /\ procs' = [procs EXCEPT ![p].pages = pages,
                                                           ![p].pc = place]
        BY <3>3 DEF Preferences
      <4>2. ASSUME NEW pages, NEW place \in {"populate", "page"},
                   procs' = [procs EXCEPT ![p].pages = pages, ![p].pc = place]
            PROVE  /\ procs'[p].pc = place
                   /\ \A q \in Procs : q # p => procs'[q] = procs[q]
        BY <4>2 DEF TypeOK, ProcTypes
      <4>. QED BY <1>1, <4>1, <4>2
    <3>. QED BY <1>5, <3>1, <3>2, <3>3
  <2>. QED BY <1>2, <2>1, <2>2 DEF Registering
<1>6. CASE Select(p) \/ Complete(p)
  <2>1. PICK place \in {"auto start", "page", "populate", "launch"},
             here \in {"selected", "completed"}, key \in Keys :
           WritePreference(p, here, place, key)
    BY <1>6 DEF Select, Complete, Keys
  <2>2. UNCHANGED <<os, entry, enabled, registered>> /\ procs[p].pc = here
    BY <2>1 DEF WritePreference
  <2>3. /\ procs'[p].pc \in {"auto start", "page", "populate", "launch", here}
        /\ \A q \in Procs : q # p => procs'[q] = procs[q]
    BY <1>1, <2>1, <2>2 DEF WritePreference, Steps
  <2>. QED BY <1>2, <2>2, <2>3 DEF Registering
<1>7. CASE Start(p) \/ Launch(p)
  <2>1. UNCHANGED <<os, entry, enabled, registered>>
    BY <1>7 DEF Start, Launch
  <2>2. /\ procs'[p].pc \in {"idle", "config"}
        /\ \A q \in Procs : q # p => procs'[q] = procs[q]
    <3>1. Stops(p) \/ \E cmd \in {"launcher", "daemon"} :
                          Starts(p, cmd, procs[p].exe, procs[p].option)
      BY <1>7 DEF Start, Launch
    <3>2. procs[p].exe \in Executables /\ procs[p].option \in BOOLEAN
      BY DEF TypeOK, ProcTypes
    <3>. QED BY <1>1, <3>1, <3>2, ComesAndGoes DEF TypeOK
  <2>. QED BY <1>2, <2>1, <2>2 DEF Registering
<1>8. ASSUME NEW cmd \in Commands, NEW option \in BOOLEAN, Run(p, cmd, option)
      PROVE  RegistrationInv'
  <2>1. cmd \in Cmds
    BY InstallationAssumption DEF InstallationAssumption
  <2>2. UNCHANGED <<os, entry, enabled, registered>>
    BY <1>8 DEF Run
  <2>3. /\ procs'[p].pc \in {"config", "link", "unlink"}
        /\ \A q \in Procs : q # p => procs'[q] = procs[q]
    BY <1>8, <2>1, ComesAndGoes DEF Run, TypeOK, Executables
  <2>. QED BY <1>2, <2>2, <2>3 DEF Registering
<1>9. CASE ResolvePackages(p)
  <2>1. /\ UNCHANGED <<os, entry, enabled>> /\ procs[p].pc = "packages"
        /\ procs[p].cmd \in {"launcher", "daemon", "register", "unregister", "start"}
        /\ procs'[p].pc = procs[p].cmd
        /\ \A q \in Procs : q # p => procs'[q] = procs[q]
    BY <1>1, <1>9 DEF ResolvePackages, Underway, Steps
  <2>2. ~Registering(p)
    BY <2>1 DEF Registering
  <2>3. CASE procs[p].cmd \in {"register", "unregister"}
    BY <1>9, <2>1, <2>2, <2>3, InstallationBegins DEF ResolvePackages
  <2>4. CASE procs[p].cmd \in {"launcher", "daemon", "start"}
    <3>1. UNCHANGED registered
      BY <1>9, <2>4 DEF ResolvePackages
    <3>. QED BY <1>2, <2>1, <2>4, <3>1 DEF Registering
  <2>. QED BY <2>1, <2>3, <2>4
<1>10. CASE AutoStart(p)
  <2>1. /\ UNCHANGED <<os, entry>> /\ procs[p].pc = "auto start"
        /\ Registers(p) /\ procs'[p].pc = "register"
        /\ \A q \in Procs : q # p => procs'[q] = procs[q]
    BY <1>1, <1>10 DEF AutoStart, Steps
  <2>2. ~Registering(p)
    BY <2>1 DEF Registering
  <2>. QED BY <2>1, <2>2, InstallationBegins
<1>11. CASE WriteUnit(p)
  <2>1. Registering(p) /\ UNCHANGED <<os, registered>>
    BY <1>11 DEF WriteUnit, Registering
  <2>2. CASE UNCHANGED procs
    <3>1. procs[p].pc = "register"
      BY <1>11 DEF WriteUnit
    <3>. QED BY <2>1, <2>2, <3>1, Proceeds
  <2>3. CASE Goto(p, "enable") /\ entry' = [state |-> "whole", target |-> procs[p].exe]
    BY <1>1, <2>1, <2>3, Proceeds DEF Steps
  <2>4. CASE Ends(p, FALSE)
    BY <1>1, <2>1, <2>4, Proceeds
  <2>. QED BY <1>11, <2>2, <2>3, <2>4 DEF WriteUnit
<1>12. CASE EnableUnit(p)
  <2>1. Registering(p) /\ UNCHANGED <<os, entry>> /\ procs[p].pc = "enable"
    BY <1>12 DEF EnableUnit, Registering
  <2>2. CASE Ends(p, FALSE) /\ UNCHANGED registered
    BY <1>1, <2>1, <2>2, Proceeds
  <2>3. CASE Ends(p, TRUE) /\ Registered(p) /\ enabled'
    <3>1. /\ ~Registering(p)'
          /\ \A q \in Procs : q # p => procs'[q] = procs[q]
      BY <1>1, <2>3 DEF Registering
    <3>2. registered = Nobody =>
             entry = [state |-> "whole", target |-> procs[p].exe]
      BY <2>1 DEF RegistrationInv, Written
    <3>3. registered = Nobody => /\ entry'.state = "whole" /\ enabled'
                                 /\ os # "macos" => entry'.target = procs[p].exe
      BY <2>1, <2>3, <3>2
    <3>. QED BY <2>1, <2>3, <3>1, <3>3, Succeeds
  <2>. QED BY <1>12, <2>2, <2>3 DEF EnableUnit
<1>13. CASE WriteAgent(p) \/ FinishAgent(p) \/ UnloadAgent(p)
  <2>1. Registering(p) /\ UNCHANGED <<os, registered>>
    BY <1>13 DEF WriteAgent, FinishAgent, UnloadAgent, Registering
  <2>2. os = "macos"
    BY <1>13 DEF WriteAgent, FinishAgent, UnloadAgent, RegistrationInv, Agents
  <2>3. \/ \E ok \in BOOLEAN : Ends(p, ok)
        \/ \E place \in {"write", "unload", "load"} : Goto(p, place)
    BY <1>13 DEF WriteAgent, FinishAgent, UnloadAgent
  <2>4. /\ procs'[p].pc # "enable"
        /\ \A q \in Procs : q # p => procs'[q] = procs[q]
    BY <1>1, <2>3 DEF Steps
  <2>. QED BY <2>1, <2>2, <2>4, Proceeds
<1>14. CASE LoadAgent(p)
  <2>1. /\ Registering(p) /\ UNCHANGED <<os, entry>> /\ os = "macos"
    BY <1>14 DEF LoadAgent, Registering, RegistrationInv, Agents
  <2>2. CASE Ends(p, FALSE) /\ UNCHANGED registered
    BY <1>1, <2>1, <2>2, Proceeds
  <2>3. CASE Ends(p, TRUE) /\ Registered(p) /\ enabled' /\ entry.state = "whole"
    <3>1. /\ ~Registering(p)'
          /\ \A q \in Procs : q # p => procs'[q] = procs[q]
      BY <1>1, <2>3 DEF Registering
    <3>. QED BY <2>1, <2>3, <3>1, Succeeds
  <2>. QED BY <1>14, <2>2, <2>3 DEF LoadAgent
<1>15. CASE WriteShortcut(p)
  <2>1. Registering(p) /\ UNCHANGED os
    BY <1>15 DEF WriteShortcut, Registering
  <2>2. CASE Ends(p, FALSE) /\ UNCHANGED registered
    BY <1>1, <2>1, <2>2, Proceeds
  <2>3. CASE /\ Ends(p, TRUE) /\ Registered(p) /\ enabled'
             /\ entry' = [state |-> "whole", target |-> procs[p].exe]
    <3>1. /\ ~Registering(p)'
          /\ \A q \in Procs : q # p => procs'[q] = procs[q]
      BY <1>1, <2>3 DEF Registering
    <3>. QED BY <2>1, <2>3, <3>1, Succeeds
  <2>. QED BY <1>15, <2>2, <2>3 DEF WriteShortcut
<1>16. CASE Disable(p) \/ RemoveEntry(p)
  <2>1. Registering(p) /\ UNCHANGED <<os, registered>>
    BY <1>16 DEF Disable, RemoveEntry, Registering
  <2>2. Stops(p) \/ Goto(p, "remove")
    BY <1>16 DEF Disable, RemoveEntry
  <2>3. /\ procs'[p].pc \in {"idle", "remove"}
        /\ \A q \in Procs : q # p => procs'[q] = procs[q]
    BY <1>1, <2>2 DEF Steps
  <2>. QED BY <2>1, <2>3, Proceeds
<1>. QED
  BY <1>4, <1>5, <1>6, <1>7, <1>8, <1>9, <1>10, <1>11, <1>12, <1>13, <1>14, <1>15,
     <1>16 DEF ProcStep, UserStep

\* The steps of the world.
LEMMA WorldRegistration ==
    ASSUME TypeOK, RegistrationInv, World
    PROVE  RegistrationInv'
<1>. USE DEF hostVars, traceVars, historyVars, Cmds
<1>1. UNCHANGED <<os, entry, enabled, registered>>
  BY DEF World, Login, Grant, DaemonStops, MoveApp, Kill, Spawn
<1>2. \A q \in Procs : Registering(q)' => procs'[q] = procs[q]
  <2>1. CASE UNCHANGED procs
    BY <2>1
  <2>2. ASSUME NEW p \in Procs, Stops(p)
        PROVE  \A q \in Procs : Registering(q)' => procs'[q] = procs[q]
    BY <2>2, ComesAndGoes DEF TypeOK, Registering
  <2>3. ASSUME NEW p \in Procs, NEW exe \in Places, Starts(p, "launcher", exe, FALSE),
               granted \in BOOLEAN
        PROVE  \A q \in Procs : Registering(q)' => procs'[q] = procs[q]
    <3>1. /\ procs'[p].pc = "config"
          /\ \A q \in Procs : q # p => procs'[q] = procs[q]
      BY <2>3, ComesAndGoes DEF TypeOK, Executables
    <3>. QED BY <3>1 DEF Registering
  <2>4. \/ UNCHANGED procs \/ \E p \in Procs : Stops(p)
        \/ \E p \in Procs, exe \in Places : Starts(p, "launcher", exe, FALSE)
    BY DEF World, Login, Grant, DaemonStops, MoveApp, Kill, Spawn
  <2>. QED BY <2>1, <2>2, <2>3, <2>4 DEF TypeOK
<1>. QED BY <1>1, <1>2, Uninvolved

\* A registration that has succeeded holds until another command touches it,
\* whatever fails or is killed meanwhile and wherever the application is moved.
THEOREM RegistrationsHold == Spec => []RegistrationHolds
<1>1. Init => RegistrationInv
  BY InstallationAssumption DEF Init, RegistrationInv, OneRegisters, NoneRegisters,
     Written, Agents, RegistrationHolds, Registering, NoProc, Nobody,
     InstallationAssumption
<1>2. TypeOK /\ Underway /\ RegistrationInv /\ [Next]_vars => RegistrationInv'
  <2>. SUFFICES ASSUME TypeOK, Underway, RegistrationInv, [Next]_vars
                PROVE  RegistrationInv'
    OBVIOUS
  <2>1. CASE Next
    BY <2>1, StepRegistration, WorldRegistration DEF Next
  <2>2. CASE UNCHANGED vars
    BY <2>2, Uninvolved DEF vars
  <2>. QED BY <2>1, <2>2
<1>3. RegistrationInv => RegistrationHolds
  BY DEF RegistrationInv
<1>. QED BY <1>1, <1>2, <1>3, InstallationTypes, PTL DEF Spec

-----------------------------------------------------------------------------
(* The directories *)

ConfigOf(exe, option) == IF option THEN Custom ELSE ConfigDir(exe)

\* Nothing but the portable directory of the application is there to be found.
MakesPortable(exe) ==
    IsPortable(exe) /\ ~LegacyIsThere /\ DefaultRuntime \notin dirs
\* A directory that has been found exists and, if it is an old one, is marked.
Exists(r) == /\ r \in dirs
             /\ r = LegacyRuntime /\ r # DefaultRuntime => r \in marked
Settled(exe, r) == r = FirstRuntime(exe) /\ r \in dirs

\* What a process may count on while it looks its directories up: of the
\* configuration, of a runtime directory that it has found, and unless it was
\* raced of those that it has not found so far.
ConfigFits(p) == procs[p].pc \in LookUps \ {"config"}
    => procs[p].config = ConfigOf(procs[p].exe, procs[p].option)
RuntimeFits(p) == procs[p].pc = "packages" =>
    /\ Exists(procs[p].runtime)
    /\ procs[p].exe \notin raced => Settled(procs[p].exe, procs[p].runtime)
OthersFit(p) == procs[p].pc = "other runtime" /\ procs[p].exe \notin raced
    => PortableRuntime(procs[p].exe) \notin dirs \/ MakesPortable(procs[p].exe)
NoneFits(p) == procs[p].pc = "create runtime" /\ procs[p].exe \notin raced =>
    IF IsPortable(procs[p].exe) THEN MakesPortable(procs[p].exe)
    ELSE /\ PortableRuntime(procs[p].exe) \notin dirs
         /\ LegacyRuntime # DefaultRuntime => ~LegacyIsThere
Fits(p) == ConfigFits(p) /\ RuntimeFits(p) /\ OthersFit(p) /\ NoneFits(p)

\* No process makes one of the directories that packages used to be in, only one
\* that exists is marked, and what a process has looked up is what a look now
\* would find, unless another application has come between.
Unmade == \A d \in dirs : d.packages # "packages"
Marked == marked \subseteq dirs
InUse == \A a \in used :
    /\ a.config = ConfigOf(a.exe, a.option)
    /\ a.packages = DefaultPackages(a.config)
    /\ a.exe \notin raced => Settled(a.exe, a.runtime)
LookedUp == \A p \in Procs : Fits(p)
DirectoriesInv == Unmade /\ Marked /\ InUse /\ LookedUp

\* The directories that a process makes.
Made(d) ==
    \/ d \in {DefaultConfig, Custom}
    \/ \E config \in Directories : d = DefaultPackages(config)
    \/ d = DefaultRuntime /\ LookingOn \subseteq raced'
    \/ \E exe : /\ d = PortableRuntime(exe) /\ IsPortable(exe)
                /\ exe \in raced' \/ MakesPortable(exe)
\* What becomes of the directories, and of the marks in them.
Extended ==
    /\ os' = os /\ dirs \subseteq dirs' /\ marked \subseteq marked'
    /\ marked' \subseteq dirs' /\ raced \subseteq raced'
    /\ LegacyRuntime # DefaultRuntime /\ LegacyRuntime \in marked'
         => LegacyRuntime \in marked
    /\ \A d \in dirs' \ dirs : Made(d)

\* The kinds of directories are different ones.
LEMMA Kinds ==
    ASSUME os \in {"linux", "macos", "windows"}
    PROVE  /\ DefaultConfig.sub = "espanso" /\ DefaultConfig.root # "preferences"
           /\ DefaultConfig.packages = ""
           /\ DefaultRuntime.sub = "espanso" /\ DefaultRuntime.root # "preferences"
           /\ DefaultRuntime.packages = "" /\ DefaultRuntime # DefaultConfig
           /\ Custom.sub = "" /\ Custom.packages = ""
           /\ LegacyRuntime.sub = "espanso"
           /\ DotConfig # Custom /\ DotConfig # DefaultRuntime
           /\ DotConfig.packages = "" /\ DotConfig.sub = "espanso"
           /\ \A exe : /\ PortableRuntime(exe).sub = ".espanso-runtime"
                       /\ PortableRuntime(exe).root = exe
                       /\ PortableRuntime(exe).packages = ""
           /\ \A exe : /\ PortableConfig(exe).sub = ".espanso"
                       /\ PortableConfig(exe).packages = ""
           /\ \A config \in Directories : DefaultPackages(config).packages = "match/packages"
<1>1. \A config \in Directories : DefaultPackages(config).packages = "match/packages"
  BY DEF DefaultPackages, Within, Directories
<1>. QED BY <1>1 DEF DefaultConfig, DefaultRuntime, DotConfig, Custom, LegacyRuntime,
     PortableRuntime, PortableConfig, Dir

\* What is made is the default of its kind, or a portable runtime directory.
LEMMA MadeKinds ==
    ASSUME TypeOK, NEW d, Made(d)
    PROVE  /\ d.packages # "packages"
           /\ d.packages = "" =>
                 d.sub # ".espanso" /\ (d.sub = "espanso" => d.root # "preferences")
           /\ d = DotConfig => DotConfig = DefaultConfig
           /\ d = DefaultRuntime => LookingOn \subseteq raced'
           /\ \A exe : d = PortableRuntime(exe) =>
                 IsPortable(exe) /\ (exe \in raced' \/ MakesPortable(exe))
<1>. os \in {"linux", "macos", "windows"}
  BY DEF TypeOK
<1>1. CASE d \in {DefaultConfig, Custom}
  <2>1. d # DefaultRuntime /\ \A exe : d # PortableRuntime(exe)
    <3>1. d.sub = "espanso" \/ d.sub = ""
      BY <1>1, Kinds
    <3>2. d # DefaultRuntime
      BY <1>1, Kinds
    <3>3. \A exe : PortableRuntime(exe).sub = ".espanso-runtime"
      BY DEF PortableRuntime, Dir
    <3>. QED BY <3>1, <3>2, <3>3
  <2>. QED BY <1>1, <2>1, Kinds
<1>2. CASE \E config \in Directories : d = DefaultPackages(config)
  <2>1. d.packages = "match/packages"
    BY <1>2, Kinds
  <2>. QED BY <2>1, Kinds
<1>3. CASE d = DefaultRuntime /\ LookingOn \subseteq raced'
  BY <1>3, Kinds
<1>4. CASE \E exe : /\ d = PortableRuntime(exe) /\ IsPortable(exe)
                    /\ exe \in raced' \/ MakesPortable(exe)
  <2>1. PICK exe : /\ d = PortableRuntime(exe) /\ IsPortable(exe)
                   /\ exe \in raced' \/ MakesPortable(exe)
    BY <1>4
  <2>2. \A e : d = PortableRuntime(e) => e = exe
    BY <2>1 DEF PortableRuntime, Dir
  <2>3. d # DefaultRuntime /\ d # DotConfig
    BY <2>1, Kinds
  <2>. QED BY <2>1, <2>2, <2>3, Kinds
<1>. QED BY <1>1, <1>2, <1>3, <1>4 DEF Made

\* What has been found is not hidden by what is made later.
LEMMA Stable ==
    ASSUME TypeOK, Marked, Extended
    PROVE  /\ \A exe : ConfigDir(exe)' = ConfigDir(exe) /\ (IsPortable(exe)' <=> IsPortable(exe))
           /\ LegacyIsThere => LegacyIsThere'
           /\ LegacyRuntime # DefaultRuntime => (LegacyIsThere' <=> LegacyIsThere)
           /\ \A exe : PortableRuntime(exe) \in dirs' \ dirs =>
                 IsPortable(exe) /\ (exe \in raced' \/ MakesPortable(exe))
           /\ DefaultRuntime \in dirs' \ dirs => LookingOn \subseteq raced'
           /\ DefaultRuntime' = DefaultRuntime
<1>1. /\ os \in {"linux", "macos", "windows"} /\ os' = os
      /\ DefaultConfig' = DefaultConfig /\ DefaultRuntime' = DefaultRuntime
  BY DEF TypeOK, Extended, DefaultConfig, DefaultRuntime, DotConfig, Dir
<1>2. \A d \in dirs' \ dirs : Made(d)
  BY DEF Extended
<1>3. ASSUME NEW exe PROVE ConfigDir(exe)' = ConfigDir(exe)
                          /\ (IsPortable(exe)' <=> IsPortable(exe))
  <2> DEFINE a == PortableConfig(exe)
             b == Dir("~", ".espanso")
             c == Dir("preferences", "espanso")
  <2>1. /\ a.packages = "" /\ a.sub = ".espanso" /\ b.packages = ""
        /\ b.sub = ".espanso" /\ c.packages = "" /\ c.sub = "espanso"
        /\ c.root = "preferences"
    BY DEF PortableConfig, Dir
  <2>2. \A d \in {a, b, c} : d \in dirs' <=> d \in dirs
    <3> HIDE DEF a, b, c
    <3>1. \A d \in {a, b, c} : d \in dirs' \ dirs => FALSE
      BY <1>2, <2>1, MadeKinds
    <3>. QED BY <3>1 DEF Extended
  <2>3. DotConfig \in dirs' => DotConfig \in dirs \/ DotConfig = DefaultConfig
    BY <1>2, MadeKinds
  <2>4. FirstConfig(exe)' =
             IF a \in dirs' THEN a ELSE IF b \in dirs' THEN b
             ELSE IF DotConfig \in dirs' THEN DotConfig
             ELSE IF os = "macos" /\ c \in dirs' THEN c
             ELSE DefaultConfig
    BY <1>1 DEF FirstConfig
  <2>5. DotConfig = DefaultConfig => os # "macos"
    BY DEF DotConfig, DefaultConfig, Dir
  <2>6. DotConfig \in dirs => DotConfig \in dirs'
    BY DEF Extended
  <2>7. FirstConfig(exe)' = FirstConfig(exe)
    BY <2>2, <2>3, <2>4, <2>5, <2>6 DEF FirstConfig
  <2>. QED BY <2>2, <2>7, ConfigDirIs, LookupsNext DEF IsPortable
<1>4. /\ LegacyIsThere => LegacyIsThere'
      /\ LegacyRuntime # DefaultRuntime => (LegacyIsThere' <=> LegacyIsThere)
  BY <1>1 DEF LegacyIsThere, IsLegacyRuntime, Extended, Marked
<1>5. /\ \A exe : PortableRuntime(exe) \in dirs' \ dirs =>
            IsPortable(exe) /\ (exe \in raced' \/ MakesPortable(exe))
      /\ DefaultRuntime \in dirs' \ dirs => LookingOn \subseteq raced'
  BY <1>2, MadeKinds
<1>. QED BY <1>1, <1>3, <1>4, <1>5

\* The runtime directory that an application has stays the one it has.
LEMMA StaysSettled ==
    ASSUME TypeOK, Marked, Extended, NEW exe, exe \notin raced',
           FirstRuntime(exe) \in dirs'
    PROVE  FirstRuntime(exe)' = FirstRuntime(exe)
<1>1. FirstRuntime(exe)' =
        IF PortableRuntime(exe) \in dirs' THEN PortableRuntime(exe)
        ELSE IF LegacyIsThere' THEN LegacyRuntime
        ELSE IF DefaultRuntime \in dirs' \/ ~IsPortable(exe)' THEN DefaultRuntime
        ELSE PortableRuntime(exe)
  BY Stable DEF FirstRuntime
<1>2. CASE FirstRuntime(exe) = PortableRuntime(exe)
  BY <1>1, <1>2
<1>3. CASE FirstRuntime(exe) # PortableRuntime(exe)
  <2>1. PortableRuntime(exe) \notin dirs /\ ~MakesPortable(exe)
    BY <1>3 DEF FirstRuntime, MakesPortable
  <2>2. PortableRuntime(exe) \notin dirs'
    BY <2>1, Stable
  <2>3. CASE LegacyIsThere
    BY <1>1, <2>1, <2>2, <2>3, Stable DEF FirstRuntime
  <2>4. CASE ~LegacyIsThere
    <3>1. FirstRuntime(exe) = DefaultRuntime /\ DefaultRuntime \in dirs'
      BY <1>3, <2>1, <2>4 DEF FirstRuntime
    <3>. QED BY <1>1, <2>2, <2>4, <3>1, Stable
  <2>. QED BY <2>3, <2>4
<1>. QED BY <1>2, <1>3

\* The directory that packages used to be in is never made.
LEMMA PackagesFound ==
    ASSUME TypeOK, DirectoriesInv
    PROVE  \A config, runtime \in Directories :
              PackagesDir(config, runtime) = DefaultPackages(config)
<1>. SUFFICES ASSUME NEW config \in Directories, NEW runtime \in Directories
              PROVE  PackagesDir(config, runtime) = DefaultPackages(config)
  OBVIOUS
<1>1. /\ Within(config, "packages").packages = "packages"
      /\ Within(runtime, "packages").packages = "packages"
  BY DEF Within, Directories
<1>2. Within(config, "packages") \notin dirs /\ Within(runtime, "packages") \notin dirs
  BY <1>1 DEF DirectoriesInv, Unmade
<1>. QED BY <1>2, PackagesDirIs

\* What a process that is looking its directories up may count on, it may count
\* on while others go on.
LEMMA StillFits ==
    ASSUME TypeOK, DirectoriesInv, Extended, NEW q \in Procs, procs'[q] = procs[q]
    PROVE  Fits(q)'
<1> DEFINE e == procs[q].exe
<1>1. Fits(q)
  BY DEF DirectoriesInv, LookedUp
<1>2. Marked
  BY DEF DirectoriesInv
<1>3. procs'[q].exe = e /\ (e \notin raced' => e \notin raced)
  BY DEF Extended
<1>4. ConfigFits(q)'
  <2>1. \A exe, option : ConfigOf(exe, option)' = ConfigOf(exe, option)
    BY <1>2, Stable DEF ConfigOf, Custom
  <2>. QED BY <1>1, <2>1 DEF Fits, ConfigFits
<1>5. RuntimeFits(q)'
  <2>. SUFFICES ASSUME procs[q].pc = "packages"
                PROVE  /\ Exists(procs[q].runtime)'
                       /\ e \notin raced' => Settled(e, procs[q].runtime)'
    BY DEF RuntimeFits
  <2>1. Exists(procs[q].runtime) /\ (e \notin raced => Settled(e, procs[q].runtime))
    BY <1>1 DEF Fits, RuntimeFits
  <2>2. Exists(procs[q].runtime)'
    BY <1>2, <2>1, Stable DEF Exists, Extended
  <2>3. ASSUME e \notin raced' PROVE Settled(e, procs[q].runtime)'
    BY <1>2, <1>3, <2>1, <2>3, StaysSettled DEF Settled, Extended
  <2>. QED BY <2>2, <2>3
<1>6. ASSUME e \notin raced', procs[q].pc \in {"other runtime", "create runtime"},
             MakesPortable(e)
      PROVE  MakesPortable(e)'
  <2>1. e \in LookingOn
    BY <1>6 DEF LookingOn, MakesPortable
  <2>2. DefaultRuntime \notin dirs'
    BY <1>2, <1>6, <2>1, Stable DEF MakesPortable
  <2>3. ~LegacyIsThere'
    <3>1. CASE LegacyRuntime # DefaultRuntime
      BY <1>2, <1>6, <3>1, Stable DEF MakesPortable
    <3>2. CASE LegacyRuntime = DefaultRuntime
      BY <2>2, <3>2 DEF LegacyIsThere
    <3>. QED BY <3>1, <3>2
  <2>4. IsPortable(e)'
    BY <1>2, <1>6, Stable DEF MakesPortable
  <2>5. DefaultRuntime' = DefaultRuntime
    BY <1>2, Stable
  <2>. QED BY <2>2, <2>3, <2>4, <2>5 DEF MakesPortable
<1>7. OthersFit(q)'
  <2>. SUFFICES ASSUME procs[q].pc = "other runtime", e \notin raced',
                       PortableRuntime(e) \in dirs'
                PROVE  MakesPortable(e)'
    BY DEF OthersFit
  <2>1. PortableRuntime(e) \notin dirs \/ MakesPortable(e)
    BY <1>1, <1>3 DEF Fits, OthersFit
  <2>2. MakesPortable(e)
    BY <1>2, <2>1, Stable
  <2>. QED BY <1>6, <2>2
<1>8. NoneFits(q)'
  <2>. SUFFICES ASSUME procs[q].pc = "create runtime", e \notin raced'
                PROVE  IF IsPortable(e)' THEN MakesPortable(e)'
                       ELSE /\ PortableRuntime(e) \notin dirs'
                            /\ LegacyRuntime # DefaultRuntime' => ~LegacyIsThere'
    BY DEF NoneFits
  <2>1. IF IsPortable(e) THEN MakesPortable(e)
        ELSE /\ PortableRuntime(e) \notin dirs
             /\ LegacyRuntime # DefaultRuntime => ~LegacyIsThere
    BY <1>1, <1>3 DEF Fits, NoneFits
  <2>2. CASE IsPortable(e)
    BY <1>2, <1>6, <2>1, <2>2, Stable
  <2>3. CASE ~IsPortable(e)
    BY <1>2, <2>1, <2>3, Stable
  <2>. QED BY <2>2, <2>3
<1>. QED BY <1>4, <1>5, <1>7, <1>8 DEF Fits

\* A step that makes directories, or none, and moves one process on.
LEMMA Keeps ==
    ASSUME TypeOK, DirectoriesInv, Extended,
           \A a \in used' \ used :
              /\ a.config = ConfigOf(a.exe, a.option)
              /\ a.packages = DefaultPackages(a.config)
              /\ a.exe \notin raced' => Settled(a.exe, a.runtime),
           \A q \in Procs :
              (procs'[q].pc \in LookUps \ {"config"} => procs'[q] = procs[q]) \/ Fits(q)'
    PROVE  DirectoriesInv'
<1>1. Unmade'
  <2>1. \A d \in dirs' \ dirs : d.packages # "packages"
    BY MadeKinds DEF Extended
  <2>. QED BY <2>1 DEF DirectoriesInv, Unmade
<1>2. Marked'
  BY DEF Marked, Extended
<1>3. InUse'
  <2>. SUFFICES ASSUME NEW a \in used'
                PROVE  /\ a.config = ConfigOf(a.exe, a.option)'
                       /\ a.packages = DefaultPackages(a.config)
                       /\ a.exe \notin raced' => Settled(a.exe, a.runtime)'
    BY DEF InUse
  <2>1. /\ a.config = ConfigOf(a.exe, a.option)
        /\ a.packages = DefaultPackages(a.config)
        /\ a.exe \notin raced' => Settled(a.exe, a.runtime)
    BY DEF DirectoriesInv, InUse, Extended
  <2>2. ConfigOf(a.exe, a.option)' = ConfigOf(a.exe, a.option)
    BY Stable DEF ConfigOf, Custom, DirectoriesInv
  <2>3. ASSUME a.exe \notin raced' PROVE Settled(a.exe, a.runtime)'
    BY <2>1, <2>3, StaysSettled DEF Settled, Extended, DirectoriesInv
  <2>. QED BY <2>1, <2>2, <2>3
<1>4. ASSUME NEW q \in Procs PROVE Fits(q)'
  <2>1. CASE procs'[q].pc \in LookUps \ {"config"} => procs'[q] = procs[q]
    <3>1. CASE procs'[q].pc \in LookUps \ {"config"}
      BY <2>1, <3>1, StillFits
    <3>2. CASE procs'[q].pc \notin LookUps \ {"config"}
      BY <3>2 DEF Fits, ConfigFits, RuntimeFits, OthersFit, NoneFits, LookUps
    <3>. QED BY <3>1, <3>2
  <2>. QED BY <2>1
<1>. QED BY <1>1, <1>2, <1>3, <1>4 DEF DirectoriesInv, LookedUp

\* A step that looks nothing up.
LEMMA LooksNothingUp ==
    ASSUME TypeOK, DirectoriesInv, UNCHANGED <<os, dirs, marked, used, raced>>,
           \A q \in Procs :
              procs'[q].pc \in LookUps \ {"config"} => procs'[q] = procs[q]
    PROVE  DirectoriesInv'
<1>1. Extended
  BY DEF Extended, DirectoriesInv, Marked
<1>. QED BY <1>1, Keeps

\* The steps of a process.
LEMMA StepDirectories ==
    ASSUME TypeOK, Underway, DirectoriesInv, NEW p \in Procs,
           ProcStep(p) \/ UserStep(p)
    PROVE  DirectoriesInv'
<1>. USE DEF At, hostVars, traceVars, historyVars, Cmds
<1>1. /\ \A place \in Steps : Goto(p, place) \/ Leaves(p, place) =>
            /\ procs'[p].pc = place
            /\ \A q \in Procs : q # p => procs'[q] = procs[q]
      /\ Stops(p) => /\ procs'[p].pc = "idle"
                     /\ \A q \in Procs : q # p => procs'[q] = procs[q]
      /\ \A ok \in BOOLEAN : Ends(p, ok) =>
            /\ procs'[p].pc \in {"idle", "page", "retry"}
            /\ \A q \in Procs : q # p => procs'[q] = procs[q]
  BY GoesOn, ComesAndGoes, EndsSomewhere DEF TypeOK
<1>2. /\ procs[p].exe \in Executables /\ procs[p].option \in BOOLEAN
      /\ procs[p].config \in Directories /\ procs[p].runtime \in Directories
      /\ \A config, runtime \in Directories :
            PackagesDir(config, runtime) = DefaultPackages(config)
      /\ ConfigDir(procs[p].exe) \in Directories /\ Custom \in Directories
      /\ ConfigDir(procs[p].exe) \in dirs \cup {DefaultConfig}
  BY PackagesFound, DirectoryTypes, ConfigDirIs DEF TypeOK, ProcTypes, FirstConfig
<1>3. ASSUME UNCHANGED <<os, dirs, marked, used, raced>>, UNCHANGED procs
      PROVE  DirectoriesInv'
  BY <1>3, LooksNothingUp
<1>4. ASSUME UNCHANGED <<os, dirs, marked, used, raced>>,
             \/ Stops(p) \/ \E ok \in BOOLEAN : Ends(p, ok)
             \/ \E place \in Steps \ LookUps :
                   Goto(p, place) \/ Leaves(p, place)
      PROVE  DirectoriesInv'
  <2>1. /\ procs'[p].pc \notin LookUps \ {"config"}
        /\ \A q \in Procs : q # p => procs'[q] = procs[q]
    BY <1>1, <1>4 DEF LookUps
  <2>. QED BY <1>4, <2>1, LooksNothingUp
<1>5. CASE Probe(p) \/ Wait(p) \/ Populate(p) \/ Turn(p) \/ Retry(p)
           \/ Serve(p) \/ AddToPath(p) \/ Link(p) \/ RemoveFromPath(p) \/ Unlink(p)
  <2>1. UNCHANGED <<os, dirs, marked, used, raced>>
    BY <1>5 DEF Probe, Wait, Populate, Turn, Retry, Serve, AddToPath, Link,
       RemoveFromPath, Unlink
  <2>2. \/ Stops(p) \/ \E ok \in BOOLEAN : Ends(p, ok)
        \/ \E place \in {"preferences", "populate", "waiting", "page", "selected",
                         "link", "completed", "launch"} :
              Goto(p, place) \/ Leaves(p, place)
    BY <1>5 DEF Probe, Wait, Populate, Turn, Retry, Serve, AddToPath, Link,
       RemoveFromPath, Unlink, Elevates
  <2>. QED BY <1>4, <2>1, <2>2 DEF Steps, LookUps
<1>6. CASE WriteUnit(p) \/ EnableUnit(p) \/ WriteAgent(p) \/ FinishAgent(p)
           \/ UnloadAgent(p) \/ LoadAgent(p) \/ WriteShortcut(p) \/ Disable(p)
           \/ RemoveEntry(p)
  <2>1. UNCHANGED <<os, dirs, marked, used, raced>>
    BY <1>6 DEF WriteUnit, EnableUnit, WriteAgent, FinishAgent, UnloadAgent,
       LoadAgent, WriteShortcut, Disable, RemoveEntry
  <2>2. \/ UNCHANGED procs \/ Stops(p) \/ \E ok \in BOOLEAN : Ends(p, ok)
        \/ \E place \in {"enable", "write", "unload", "load", "remove"} :
              Goto(p, place)
    BY <1>6 DEF WriteUnit, EnableUnit, WriteAgent, FinishAgent, UnloadAgent,
       LoadAgent, WriteShortcut, Disable, RemoveEntry
  <2>. QED BY <1>3, <1>4, <2>1, <2>2 DEF Steps, LookUps
<1>7. CASE Select(p) \/ Complete(p)
  <2>1. PICK place \in {"auto start", "page", "populate", "launch"},
             here \in {"selected", "completed"}, key \in Keys :
           WritePreference(p, here, place, key)
    BY <1>7 DEF Select, Complete, Keys
  <2>. QED BY <1>3, <1>4, <2>1 DEF WritePreference, Steps, LookUps
<1>8. CASE Preferences(p)
  <2>1. UNCHANGED <<os, dirs, marked, used, raced>>
    BY <1>8 DEF Preferences
  <2>2. \/ Stops(p)
        \/ \E pages, place : /\ place \in {"populate", "page"}
                             /\ procs' = [procs EXCEPT ![p].pages = pages,
                                                       ![p].pc = place]
    BY <1>8 DEF Preferences
  <2>3. ASSUME NEW pages, NEW place \in {"populate", "page"},
               procs' = [procs EXCEPT ![p].pages = pages, ![p].pc = place]
        PROVE  /\ procs'[p].pc = place
               /\ \A q \in Procs : q # p => procs'[q] = procs[q]
    BY <2>3 DEF TypeOK, ProcTypes
  <2>4. /\ procs'[p].pc \notin LookUps \ {"config"}
        /\ \A q \in Procs : q # p => procs'[q] = procs[q]
    BY <1>1, <2>2, <2>3 DEF LookUps
  <2>. QED BY <2>1, <2>4, LooksNothingUp
<1>9. CASE Start(p) \/ Launch(p)
  <2>1. UNCHANGED <<os, dirs, marked, used, raced>>
    BY <1>9 DEF Start, Launch
  <2>2. /\ procs'[p].pc \in {"idle", "config"}
        /\ \A q \in Procs : q # p => procs'[q] = procs[q]
    <3>1. Stops(p) \/ \E cmd \in {"launcher", "daemon"} :
                          Starts(p, cmd, procs[p].exe, procs[p].option)
      BY <1>9 DEF Start, Launch
    <3>. QED BY <1>1, <1>2, <3>1, ComesAndGoes DEF TypeOK
  <2>. QED BY <2>1, <2>2, LooksNothingUp DEF LookUps
<1>10. ASSUME NEW cmd \in Commands, NEW option \in BOOLEAN, Run(p, cmd, option)
       PROVE  DirectoriesInv'
  <2>1. cmd \in Cmds
    BY InstallationAssumption DEF InstallationAssumption
  <2>2. UNCHANGED <<os, dirs, marked, used, raced>>
    BY <1>10 DEF Run
  <2>3. /\ procs'[p].pc \in {"config", "link", "unlink"}
        /\ \A q \in Procs : q # p => procs'[q] = procs[q]
    BY <1>10, <2>1, ComesAndGoes DEF Run, TypeOK, Executables
  <2>. QED BY <2>2, <2>3, LooksNothingUp DEF LookUps
<1>11. CASE ResolveConfig(p)
  <2>1. PICK exe, option, c : /\ exe = procs[p].exe /\ option = procs[p].option
                              /\ c = ConfigOf(exe, option)
    OBVIOUS
  <2>2. /\ dirs' = dirs \cup {c} /\ UNCHANGED <<os, marked, used, raced>>
        /\ procs' = [procs EXCEPT ![p].config = c, ![p].pc = "runtime"]
    BY <1>11, <2>1 DEF ResolveConfig, ConfigOf
  <2>3. c \in dirs \cup {DefaultConfig, Custom}
    BY <1>2, <2>1 DEF ConfigOf
  <2>4. Extended
    BY <2>2, <2>3 DEF Extended, Made, DirectoriesInv, Marked
  <2>5. /\ procs'[p].config = c /\ procs'[p].pc = "runtime"
        /\ procs'[p].exe = exe /\ procs'[p].option = option
        /\ \A q \in Procs : q # p => procs'[q] = procs[q]
    BY <2>1, <2>2 DEF TypeOK, ProcTypes
  <2>6. ConfigOf(exe, option)' = c
    BY <2>1, <2>4, Stable DEF ConfigOf, Custom, DirectoriesInv
  <2>7. Fits(p)'
    BY <2>5, <2>6 DEF Fits, ConfigFits, RuntimeFits, OthersFit, NoneFits
  <2>. QED BY <2>2, <2>4, <2>5, <2>7, Keeps
<1>12. ASSUME procs[p].pc \in LookUps \ {"config"}, ConfigFits(p), Extended, used' = used,
              procs'[p].config = procs[p].config, procs'[p].exe = procs[p].exe,
              procs'[p].option = procs[p].option,
              RuntimeFits(p)', OthersFit(p)', NoneFits(p)',
              \A q \in Procs : q # p => procs'[q] = procs[q]
       PROVE  DirectoriesInv'
  <2>1. \A exe, option : ConfigOf(exe, option)' = ConfigOf(exe, option)
    BY <1>12, Stable DEF ConfigOf, Custom, DirectoriesInv
  <2>2. ConfigFits(p)'
    BY <1>12, <2>1 DEF ConfigFits
  <2>3. Fits(p)'
    BY <1>12, <2>2 DEF Fits
  <2>. QED BY <1>12, <2>3, Keeps
<1>13. Fits(p) /\ Marked
  BY DEF DirectoriesInv, LookedUp
<1>14. ASSUME NEW r, Uses(p, r)
       PROVE  /\ procs'[p].config = procs[p].config /\ procs'[p].exe = procs[p].exe
              /\ procs'[p].option = procs[p].option
              /\ procs'[p].runtime = r /\ procs'[p].pc = "packages"
              /\ \A q \in Procs : q # p => procs'[q] = procs[q]
  BY <1>14 DEF Uses, TypeOK, ProcTypes
<1>15. ASSUME NEW place \in {"other runtime", "create runtime"}, Goto(p, place)
       PROVE  /\ procs'[p].config = procs[p].config /\ procs'[p].exe = procs[p].exe
              /\ procs'[p].option = procs[p].option /\ procs'[p].pc = place
              /\ \A q \in Procs : q # p => procs'[q] = procs[q]
  BY <1>15, GoesOn DEF TypeOK, Steps
<1>16. PICK e : e = procs[p].exe
  OBVIOUS
\* A runtime directory is found or made.
<1>17. ASSUME NEW r, Uses(p, r), Extended, used' = used, ConfigFits(p),
              procs[p].pc \in LookUps \ {"config"},
              Exists(r)', e \notin raced' => Settled(e, r)'
       PROVE  DirectoriesInv'
  <2>1. RuntimeFits(p)' /\ OthersFit(p)' /\ NoneFits(p)'
    BY <1>14, <1>16, <1>17 DEF RuntimeFits, OthersFit, NoneFits
  <2>. QED BY <1>12, <1>14, <1>17, <2>1
<1>18. UNCHANGED <<os, dirs, marked, raced>> =>
          /\ IsPortable(e)' <=> IsPortable(e)
          /\ LegacyIsThere' <=> LegacyIsThere
          /\ MakesPortable(e)' <=> MakesPortable(e)
          /\ FirstRuntime(e)' = FirstRuntime(e)
          /\ \A r : (Exists(r)' <=> Exists(r)) /\ (Settled(e, r)' <=> Settled(e, r))
  <2>. SUFFICES ASSUME UNCHANGED <<os, dirs, marked, raced>>
                PROVE  /\ IsPortable(e)' <=> IsPortable(e)
                       /\ LegacyIsThere' <=> LegacyIsThere
                       /\ MakesPortable(e)' <=> MakesPortable(e)
                       /\ FirstRuntime(e)' = FirstRuntime(e)
                       /\ \A r : /\ Exists(r)' <=> Exists(r)
                                 /\ Settled(e, r)' <=> Settled(e, r)
    OBVIOUS
  <2>1. DefaultRuntime' = DefaultRuntime
    BY DEF DefaultRuntime
  <2>2. (IsPortable(e)' <=> IsPortable(e)) /\ (LegacyIsThere' <=> LegacyIsThere)
    BY <2>1 DEF IsPortable, LegacyIsThere, IsLegacyRuntime
  <2>3. MakesPortable(e)' <=> MakesPortable(e)
    BY <2>1, <2>2 DEF MakesPortable
  <2>4. FirstRuntime(e)' = FirstRuntime(e)
    BY <2>1, <2>2 DEF FirstRuntime
  <2>5. \A r : (Exists(r)' <=> Exists(r)) /\ (Settled(e, r)' <=> Settled(e, r))
    BY <2>1, <2>4 DEF Exists, Settled
  <2>. QED BY <2>2, <2>3, <2>4, <2>5
<1>19. CASE ResolveRuntime(p)
  <2>1. /\ UNCHANGED <<os, dirs, marked, used, raced>> /\ procs[p].pc = "runtime"
        /\ IF PortableRuntime(e) \in dirs THEN Uses(p, PortableRuntime(e))
           ELSE Goto(p, "other runtime")
    BY <1>19, <1>16 DEF ResolveRuntime
  <2>2. Extended
    BY <1>13, <2>1 DEF Extended, Marked
  <2>3. ConfigFits(p) /\ procs[p].pc \in LookUps \ {"config"}
    BY <1>13, <2>1 DEF Fits, LookUps
  <2>4. CASE PortableRuntime(e) \in dirs
    <3>1. PICK r : r = PortableRuntime(e)
      OBVIOUS
    <3>2. r # LegacyRuntime
      BY <3>1 DEF PortableRuntime, LegacyRuntime, Dir
    <3>3. Exists(r) /\ Settled(e, r)
      BY <2>4, <3>1, <3>2 DEF Exists, Settled, FirstRuntime
    <3>. QED BY <1>17, <1>18, <2>1, <2>2, <2>3, <2>4, <3>1, <3>3
  <2>5. CASE PortableRuntime(e) \notin dirs
    <3>1. procs'[p].pc = "other runtime" /\ procs'[p].exe = e
      BY <1>15, <1>16, <2>1, <2>5
    <3>2. RuntimeFits(p)' /\ OthersFit(p)' /\ NoneFits(p)'
      BY <2>1, <2>5, <3>1 DEF RuntimeFits, OthersFit, NoneFits
    <3>. QED BY <1>12, <1>15, <2>1, <2>2, <2>3, <2>5, <3>2
  <2>. QED BY <2>4, <2>5
<1>20. CASE OtherRuntime(p)
  <2>1. /\ UNCHANGED <<os, dirs, marked, used, raced>> /\ procs[p].pc = "other runtime"
        /\ IF LegacyIsThere THEN Uses(p, LegacyRuntime)
           ELSE IF DefaultRuntime \in dirs THEN Uses(p, DefaultRuntime)
           ELSE Goto(p, "create runtime")
    BY <1>20 DEF OtherRuntime
  <2>2. Extended
    BY <1>13, <2>1 DEF Extended, Marked
  <2>3. ConfigFits(p) /\ OthersFit(p) /\ procs[p].pc \in LookUps \ {"config"}
    BY <1>13, <2>1 DEF Fits, LookUps
  <2>4. e \notin raced => PortableRuntime(e) \notin dirs \/ MakesPortable(e)
    BY <1>16, <2>1, <2>3 DEF OthersFit
  <2>5. ASSUME NEW r, Uses(p, r), Exists(r), e \notin raced => Settled(e, r)
        PROVE  DirectoriesInv'
    BY <1>17, <1>18, <2>1, <2>2, <2>3, <2>5
  <2>6. CASE LegacyIsThere
    <3>1. Exists(LegacyRuntime)
      BY <2>6 DEF Exists, LegacyIsThere, IsLegacyRuntime
    <3>2. e \notin raced => Settled(e, LegacyRuntime)
      BY <2>4, <2>6 DEF Settled, FirstRuntime, MakesPortable, LegacyIsThere
    <3>. QED BY <2>1, <2>5, <2>6, <3>1, <3>2
  <2>7. CASE ~LegacyIsThere /\ DefaultRuntime \in dirs
    <3>1. PICK r : r = DefaultRuntime
      OBVIOUS
    <3>2. Exists(r)
      BY <2>7, <3>1 DEF Exists
    <3>3. e \notin raced => Settled(e, r)
      BY <2>4, <2>7, <3>1 DEF Settled, FirstRuntime, MakesPortable
    <3>. QED BY <2>1, <2>5, <2>7, <3>1, <3>2, <3>3
  <2>8. CASE ~LegacyIsThere /\ DefaultRuntime \notin dirs
    <3>1. procs'[p].pc = "create runtime" /\ procs'[p].exe = e
      BY <1>15, <1>16, <2>1, <2>8
    <3>2. e \notin raced => IF IsPortable(e) THEN MakesPortable(e)
                            ELSE PortableRuntime(e) \notin dirs /\ ~LegacyIsThere
      BY <2>4, <2>8 DEF MakesPortable
    <3>3. NoneFits(p)'
      BY <1>18, <2>1, <3>1, <3>2 DEF NoneFits
    <3>4. RuntimeFits(p)' /\ OthersFit(p)'
      BY <3>1 DEF RuntimeFits, OthersFit
    <3>. QED BY <1>12, <1>15, <2>1, <2>2, <2>3, <2>8, <3>3, <3>4
  <2>. QED BY <2>6, <2>7, <2>8
<1>21. CASE CreateRuntime(p)
  <2>1. PICK r : r = IF IsPortable(e) THEN PortableRuntime(e) ELSE DefaultRuntime
    OBVIOUS
  <2>2. /\ UNCHANGED <<os, marked, used>> /\ procs[p].pc = "create runtime"
        /\ dirs' = dirs \cup {r} /\ Uses(p, r)
        /\ raced' = IF r \in dirs \/ IsPortable(e) THEN raced ELSE raced \cup LookingOn
    BY <1>21, <1>16, <2>1 DEF CreateRuntime
  <2>3. ConfigFits(p) /\ NoneFits(p) /\ procs[p].pc \in LookUps \ {"config"}
    BY <1>13, <2>2 DEF Fits, LookUps
  <2>4. e \notin raced => IF IsPortable(e) THEN MakesPortable(e)
                          ELSE /\ PortableRuntime(e) \notin dirs
                               /\ LegacyRuntime # DefaultRuntime => ~LegacyIsThere
    BY <1>16, <2>2, <2>3 DEF NoneFits
  <2>5. raced \subseteq raced' /\ marked' \subseteq dirs'
    BY <1>13, <2>2 DEF Marked
  <2>6. \A d \in dirs' \ dirs : Made(d)
    <3>1. \A d \in dirs' \ dirs : d = r /\ r \notin dirs
      BY <2>2
    <3>2. CASE IsPortable(e)
      <4>1. r = PortableRuntime(e) /\ (e \in raced' \/ MakesPortable(e))
        BY <2>1, <2>4, <2>5, <3>2
      <4>. QED BY <3>1, <3>2, <4>1 DEF Made
    <3>3. CASE ~IsPortable(e) /\ r \notin dirs
      <4>1. r = DefaultRuntime /\ LookingOn \subseteq raced'
        BY <2>1, <2>2, <3>3
      <4>. QED BY <3>1, <4>1 DEF Made
    <3>. QED BY <3>1, <3>2, <3>3
  <2>7. Extended
    BY <2>2, <2>5, <2>6 DEF Extended
  <2>8. /\ DefaultRuntime' = DefaultRuntime /\ (IsPortable(e)' <=> IsPortable(e))
        /\ LegacyRuntime # DefaultRuntime => (LegacyIsThere' <=> LegacyIsThere)
        /\ PortableRuntime(e) \in dirs' \ dirs => IsPortable(e)
    BY <1>13, <2>7, Stable
  <2>9. Exists(r)'
    <3>1. r \in dirs' /\ (r = LegacyRuntime => r = DefaultRuntime)
      BY <2>1, <2>2 DEF PortableRuntime, LegacyRuntime, Dir
    <3>. QED BY <2>8, <3>1 DEF Exists
  <2>10. ASSUME e \notin raced' PROVE Settled(e, r)'
    <3>1. e \notin raced
      BY <2>5, <2>10
    <3>2. CASE IsPortable(e)
      BY <2>1, <2>2, <3>2 DEF Settled, FirstRuntime
    <3>3. CASE ~IsPortable(e)
      <4>1. /\ r = DefaultRuntime /\ r \in dirs' /\ PortableRuntime(e) \notin dirs
            /\ LegacyRuntime # DefaultRuntime => ~LegacyIsThere
        BY <2>1, <2>2, <2>4, <3>1, <3>3
      <4>2. PortableRuntime(e) \notin dirs'
        BY <2>8, <3>3, <4>1
      <4>. QED BY <2>8, <4>1, <4>2 DEF Settled, FirstRuntime
    <3>. QED BY <3>2, <3>3
  <2>. QED BY <1>17, <2>2, <2>3, <2>7, <2>9, <2>10
<1>22. CASE ResolvePackages(p)
  <2> DEFINE k == DefaultPackages(procs[p].config)
             a == [exe |-> procs[p].exe, option |-> procs[p].option,
                   config |-> procs[p].config, runtime |-> procs[p].runtime,
                   packages |-> k]
  <2>1. /\ UNCHANGED <<os, raced>> /\ dirs' = dirs \cup {k} /\ procs[p].pc = "packages"
        /\ marked' = marked \cup {procs[p].runtime} /\ used' = used \cup {a}
        /\ Goto(p, procs[p].cmd)
    BY <1>2, <1>22 DEF ResolvePackages
  <2>2. /\ procs[p].config = ConfigOf(procs[p].exe, procs[p].option)
        /\ Exists(procs[p].runtime)
        /\ procs[p].exe \notin raced => Settled(procs[p].exe, procs[p].runtime)
    BY <1>13, <2>1 DEF Fits, ConfigFits, RuntimeFits, LookUps
  <2>3. Extended
    <3>1. /\ dirs \subseteq dirs' /\ marked' \subseteq dirs' /\ marked \subseteq marked'
      BY <1>13, <2>1, <2>2 DEF Marked, Exists
    <3>2. LegacyRuntime # DefaultRuntime /\ LegacyRuntime \in marked' => LegacyRuntime \in marked
      BY <2>1, <2>2 DEF Exists
    <3>3. \A d \in dirs' \ dirs : Made(d)
      BY <1>2, <2>1 DEF Made
    <3>. QED BY <2>1, <3>1, <3>2, <3>3 DEF Extended
  <2>4. procs[p].cmd \in Steps \ LookUps
    BY <2>1 DEF Underway, Steps, LookUps
  <2>5. /\ procs'[p].pc \notin LookUps
        /\ \A q \in Procs : q # p => procs'[q] = procs[q]
    BY <1>1, <2>1, <2>4
  <2>6. /\ a.config = ConfigOf(a.exe, a.option) /\ a.packages = DefaultPackages(a.config)
        /\ a.exe \notin raced' => Settled(a.exe, a.runtime)
    BY <2>1, <2>2
  <2>7. \A b \in used' \ used : b = a
    BY <2>1
  <2> HIDE DEF a
  <2>. QED BY <2>3, <2>5, <2>6, <2>7, Keeps
<1>23. CASE AutoStart(p)
  <2> DEFINE c == ConfigDir(procs[p].exe)
  <2>1. /\ dirs' = dirs \cup {c, DefaultPackages(c)}
        /\ UNCHANGED <<os, marked, used, raced>> /\ Goto(p, "register")
    BY <1>2, <1>23 DEF AutoStart
  <2>2. c \in Directories /\ c \in dirs \cup {DefaultConfig}
    BY <1>2
  <2>3. Extended
    <3> HIDE DEF c
    <3>1. \A d \in dirs' \ dirs : Made(d)
      BY <2>1, <2>2 DEF Made
    <3>. QED BY <1>13, <2>1, <3>1 DEF Extended, Marked
  <2>4. /\ procs'[p].pc = "register"
        /\ \A q \in Procs : q # p => procs'[q] = procs[q]
    BY <1>1, <2>1 DEF Steps
  <2>. QED BY <2>1, <2>3, <2>4, Keeps DEF LookUps
<1>. QED
  BY <1>5, <1>6, <1>7, <1>8, <1>9, <1>10, <1>11, <1>19, <1>20, <1>21,
     <1>22, <1>23
     DEF ProcStep, UserStep

\* The steps of the world.
LEMMA WorldDirectories ==
    ASSUME TypeOK, DirectoriesInv, World
    PROVE  DirectoriesInv'
<1>. USE DEF hostVars, traceVars, historyVars, Cmds
<1>1. UNCHANGED <<os, dirs, marked, used, raced>>
  BY DEF World, Login, Grant, DaemonStops, MoveApp, Kill, Spawn
<1>2. \/ UNCHANGED procs \/ \E p \in Procs : Stops(p)
      \/ \E p \in Procs, exe \in Places : Starts(p, "launcher", exe, FALSE)
  BY DEF World, Login, Grant, DaemonStops, MoveApp, Kill, Spawn
<1>3. CASE UNCHANGED procs
  BY <1>1, <1>3, LooksNothingUp
<1>4. ASSUME NEW p \in Procs, Stops(p) PROVE DirectoriesInv'
  <2>1. /\ procs'[p].pc = "idle"
        /\ \A q \in Procs : q # p => procs'[q] = procs[q]
    BY <1>4, ComesAndGoes DEF TypeOK
  <2>. QED BY <1>1, <2>1, LooksNothingUp DEF LookUps
<1>5. ASSUME NEW p \in Procs, NEW exe \in Places, Starts(p, "launcher", exe, FALSE)
      PROVE  DirectoriesInv'
  <2>1. /\ procs'[p].pc = "config"
        /\ \A q \in Procs : q # p => procs'[q] = procs[q]
    BY <1>5, ComesAndGoes DEF TypeOK, Executables
  <2>. QED BY <1>1, <2>1, LooksNothingUp DEF LookUps
<1>. QED BY <1>2, <1>3, <1>4, <1>5

\* All processes of one application agree on its directories, in whatever order
\* they look them up and make them, and wherever it has been before; only of a
\* portable one may two have different runtime directories, when another
\* application has made the default one while it was looking.
THEOREM DirectoriesAgree == Spec => []SameDirectories
<1>1. Init => DirectoriesInv
  <2>. SUFFICES ASSUME Init PROVE DirectoriesInv
    OBVIOUS
  <2>1. Unmade
    <3>1. os \in {"linux", "macos", "windows"}
      BY InstallationAssumption DEF Init, InstallationAssumption
    <3>2. /\ PortableConfig(app).packages = "" /\ DefaultConfig.packages = ""
          /\ LegacyRuntime.packages = "" /\ DefaultRuntime.packages = ""
          /\ Dir("~", ".espanso").packages = ""
      BY <3>1 DEF PortableConfig, DefaultConfig, LegacyRuntime, DefaultRuntime,
         DotConfig, Dir
    <3>3. dirs \subseteq {PortableConfig(app), DefaultConfig, LegacyRuntime,
                          DefaultRuntime, Dir("~", ".espanso")}
      BY DEF Init
    <3>. QED BY <3>2, <3>3 DEF Unmade
  <2>2. Marked /\ InUse
    BY DEF Init, Marked, InUse
  <2>3. LookedUp
    BY DEF Init, LookedUp, NoProc, Fits, ConfigFits, RuntimeFits, OthersFit, NoneFits,
       LookUps
  <2>. QED BY <2>1, <2>2, <2>3 DEF DirectoriesInv
<1>2. TypeOK /\ Underway /\ DirectoriesInv /\ [Next]_vars => DirectoriesInv'
  <2>. SUFFICES ASSUME TypeOK, Underway, DirectoriesInv, [Next]_vars
                PROVE  DirectoriesInv'
    OBVIOUS
  <2>1. CASE Next
    BY <2>1, StepDirectories, WorldDirectories DEF Next
  <2>2. CASE UNCHANGED vars
    BY <2>2, LooksNothingUp DEF vars
  <2>. QED BY <2>1, <2>2
<1>3. TypeOK /\ DirectoriesInv => SameDirectories
  BY DEF DirectoriesInv, InUse, Settled, SameDirectories
<1>. QED BY <1>1, <1>2, <1>3, InstallationTypes, PTL DEF Spec

Files == ConfigFiles \cup MatchFiles
Disks == [Files -> Contents]

-----------------------------------------------------------------------------
(* Sequences, and sets put in order *)

\* A sequence is one of its own elements.
LEMMA SequenceOf ==
  ASSUME NEW X, NEW s \in Seq(X)
  PROVE  IsSequence(s)
<1>. DEFINE R == Range(s)
<1>1. s \in [1 .. Len(s) -> X] /\ Len(s) \in Nat /\ DOMAIN s = 1 .. Len(s)
  OBVIOUS
<1>2. \A i \in 1 .. Len(s) : s[i] \in R
  BY <1>1 DEF Range
<1>. HIDE DEF R
<1>3. s \in [1 .. Len(s) -> R]
  BY <1>1, <1>2
<1>4. s \in Seq(R)
  BY <1>1, <1>3, SeqDef
<1>. QED BY <1>4 DEF R, IsSequence

\* A sequence with one element more.
LEMMA SequenceAppend ==
  ASSUME NEW s, IsSequence(s), NEW x
  PROVE  /\ IsSequence(Append(s, x))
         /\ Len(s) \in Nat /\ Len(Append(s, x)) = Len(s) + 1
         /\ DOMAIN s = 1 .. Len(s) /\ DOMAIN Append(s, x) = 1 .. Len(s) + 1
         /\ \A i \in DOMAIN s : Append(s, x)[i] = s[i]
         /\ Append(s, x)[Len(s) + 1] = x
<1>. DEFINE t == Append(s, x)
            S == Range(s) \cup {x}
<1>1. s \in Seq(S) /\ x \in S
  <2>1. s \in Seq(Range(s)) /\ Range(s) \subseteq S
    BY DEF IsSequence
  <2>. HIDE DEF S
  <2>2. s \in Seq(S)
    BY <2>1
  <2>. QED BY <2>2 DEF S
<1>. HIDE DEF S
<1>2. /\ t \in Seq(S) /\ Len(t) = Len(s) + 1 /\ Len(s) \in Nat
      /\ DOMAIN s = 1 .. Len(s) /\ DOMAIN t = 1 .. Len(s) + 1
      /\ \A i \in DOMAIN s : t[i] = s[i]
      /\ t[Len(s) + 1] = x
  BY <1>1
<1>3. IsSequence(t)
  BY <1>2, SequenceOf
<1>. QED BY <1>2, <1>3

\* Every order of a finite set is a sequence of its elements, each once,
LEMMA OrdersAre ==
  ASSUME NEW S, IsFiniteSet(S), NEW f \in SetToSeqs(S)
  PROVE  /\ f \in Seq(S) /\ Range(f) = S
         /\ \A i, j \in DOMAIN f : f[i] = f[j] => i = j
<1>. DEFINE n == Cardinality(S)
<1>1. n \in Nat
  BY FS_CardinalityType
<1>2. f \in [1 .. n -> S] /\ \A i, j \in 1 .. n : i # j => f[i] # f[j]
  BY DEF SetToSeqs
<1>. HIDE DEF n
<1>3. f \in Injection(1 .. n, S)
  BY <1>2 DEF Injection, IsInjective
<1>4. IsFiniteSet(1 .. n) /\ Cardinality(1 .. n) = n
  BY <1>1, FS_Interval
<1>5. f \in Surjection(1 .. n, S)
  BY <1>3, <1>4, FS_Injection DEF n
<1>6. Range(f) = S
  BY <1>2, <1>5 DEF Surjection, Range
<1>7. f \in Seq(S)
  BY <1>1, <1>2, SeqDef
<1>. QED BY <1>2, <1>6, <1>7

\* there is one, and SetToSeq is one of them.
LEMMA OrderIs ==
  ASSUME NEW S, IsFiniteSet(S)
  PROVE  SetToSeq(S) \in SetToSeqs(S)
<1>. DEFINE n == Cardinality(S)
<1>1. ExistsBijection(1 .. n, S)
  BY FS_CardinalityType
<1>2. PICK f : f \in Bijection(1 .. n, S)
  BY <1>1 DEF ExistsBijection
<1>3. f \in [1 .. n -> S] /\ IsInjective(f)
  BY <1>2 DEF Bijection, Injection
<1>4. SetToSeq(S) \in [1 .. n -> S] /\ IsInjective(SetToSeq(S))
  BY <1>3 DEF SetToSeq
<1>. QED BY <1>4 DEF SetToSeqs, IsInjective

-----------------------------------------------------------------------------
(* What can be reached *)

\* The least set of files that holds some and all that its own lead to.
LEMMA ReachedIs ==
  ASSUME NEW next \in [MatchFiles -> SUBSET MatchFiles], NEW from \in SUBSET MatchFiles
  PROVE  /\ Reached(next, from) \in SUBSET MatchFiles
         /\ from \subseteq Reached(next, from)
         /\ \A q \in Reached(next, from) : next[q] \subseteq Reached(next, from)
         /\ \A S \in SUBSET MatchFiles :
               from \subseteq S /\ (\A q \in S : next[q] \subseteq S) => Reached(next, from) \subseteq S
<1>1. Reached(next, from) \in SUBSET MatchFiles
  BY DEF Reached
<1>2. from \subseteq Reached(next, from)
  BY DEF Reached
<1>3. ASSUME NEW q \in Reached(next, from), NEW p \in next[q] PROVE p \in Reached(next, from)
  <2>1. q \in MatchFiles /\ p \in MatchFiles
    BY <1>3 DEF Reached
  <2>2. ASSUME NEW S \in SUBSET MatchFiles, from \subseteq S, \A r \in S : next[r] \subseteq S
        PROVE  p \in S
    <3>1. q \in S
      BY <1>3, <2>2 DEF Reached
    <3>. QED BY <1>3, <2>2, <3>1
  <2>. QED BY <2>1, <2>2 DEF Reached
<1>4. ASSUME NEW S \in SUBSET MatchFiles, from \subseteq S, \A q \in S : next[q] \subseteq S
      PROVE  Reached(next, from) \subseteq S
  BY <1>4 DEF Reached
<1>. QED BY <1>1, <1>2, <1>3, <1>4

LEMMA ReachedMore ==
  ASSUME NEW next \in [MatchFiles -> SUBSET MatchFiles],
         NEW from \in SUBSET MatchFiles, NEW more \in SUBSET MatchFiles, from \subseteq more
  PROVE  Reached(next, from) \subseteq Reached(next, more)
  BY ReachedIs

-----------------------------------------------------------------------------
(* Match files *)

LEMMA ContentsAre ==
  ASSUME NEW d \in Disks, NEW f \in Files
  PROVE  /\ d[f] \in Contents /\ d[f].exists \in BOOLEAN
         /\ d[f].exists =>
              /\ d[f].parses \in BOOLEAN
              /\ Get(d[f].body, "imports", <<>>) \in Seq(MatchFiles)
              /\ IsSequence(Get(d[f].body, "matches", <<>>))
  BY ConfigurationAssumption DEF Disks, Files

\* The first and only elements of what is left of the imports.
LEMMA ImportsResolved ==
  ASSUME NEW d \in Disks, NEW imports \in Seq(MatchFiles)
  PROVE  /\ ResolveImports(d, imports) \in Seq(MatchFiles)
         /\ Range(ResolveImports(d, imports)) = {q \in Range(imports) : d[q].exists}
<1>. DEFINE s == [i \in DOMAIN imports |-> IF d[imports[i]].exists THEN <<imports[i]>> ELSE <<>>]
<1>1. s \in Seq(Seq(MatchFiles)) /\ DOMAIN s = DOMAIN imports
  <2>1. ASSUME NEW i \in DOMAIN imports PROVE s[i] \in Seq(MatchFiles)
    <3>1. imports[i] \in MatchFiles
      OBVIOUS
    <3>2. <<imports[i]>> \in Seq(MatchFiles) /\ <<>> \in Seq(MatchFiles)
      BY <3>1
    <3>. QED BY <3>2
  <2>2. DOMAIN s = 1 .. Len(imports) /\ Len(imports) \in Nat /\ DOMAIN imports = 1 .. Len(imports)
    OBVIOUS
  <2>3. s \in [1 .. Len(imports) -> Seq(MatchFiles)]
    BY <2>1, <2>2
  <2>. QED BY <2>2, <2>3, SeqDef
<1>2. ResolveImports(d, imports) = FlattenSeq(s)
  BY DEF ResolveImports
<1>3. ToSet(FlattenSeq(s)) = UNION {ToSet(s[i]) : i \in DOMAIN s}
  BY <1>1, FlattenElements
<1>4. ASSUME NEW i \in DOMAIN imports
      PROVE  ToSet(s[i]) = IF d[imports[i]].exists THEN {imports[i]} ELSE {}
  BY DEF ToSet
<1>. HIDE DEF s
<1>5. UNION {ToSet(s[i]) : i \in DOMAIN s} = {q \in Range(imports) : d[q].exists}
  BY <1>1, <1>4 DEF Range
<1>6. Range(FlattenSeq(s)) = ToSet(FlattenSeq(s))
  BY DEF Range, ToSet
<1>. QED BY <1>1, <1>2, <1>3, <1>5, <1>6, FlattenType

\* What a match file gives: its matches have ids of their own, which tell the file.
GroupOK(p, g) ==
  /\ g.imports \in Seq(MatchFiles)
  /\ IsSequence(g.matches)
  /\ Distinct(g.matches)
  /\ \A m \in Range(g.matches) : m.id[1] = p
  /\ \A m, n \in Range(g.matches) : m.id = n.id => m = n

\* The matches that can be converted, in the order of the file.
Converted(p, declared) ==
  FlattenSeq([n \in DOMAIN declared |->
    IF Convertible(declared[n]) THEN <<ConvertedMatch(p, n, declared[n])>> ELSE <<>>])

\* What is left of the matches declared in a file.
LEMMA MatchesConverted ==
  ASSUME NEW p, NEW declared, IsSequence(declared), NEW list, list = Converted(p, declared)
  PROVE  /\ IsSequence(list) /\ Distinct(list)
         /\ \A m \in Range(list) : m.id[1] = p
         /\ \A m, n \in Range(list) : m.id = n.id => m = n
<1>. DEFINE M(n) == ConvertedMatch(p, n, declared[n])
            X == {M(n) : n \in DOMAIN declared}
            s == [n \in DOMAIN declared |-> IF Convertible(declared[n]) THEN <<M(n)>> ELSE <<>>]
            ms == FlattenSeq(s)
<1>1. \A n \in DOMAIN declared : M(n).id = <<p, n>>
  BY DEF ConvertedMatch
<1>. HIDE DEF M
<1>2. DOMAIN declared = 1 .. Len(declared) /\ Len(declared) \in Nat
  BY DEF IsSequence
<1>3. ASSUME NEW n \in DOMAIN declared
      PROVE  /\ s[n] \in Seq(X) /\ ToSet(s[n]) \subseteq {M(n)} /\ Distinct(s[n])
  <2>1. M(n) \in X
    OBVIOUS
  <2>. HIDE DEF X
  <2>2. CASE Convertible(declared[n])
    <3>1. s[n] = <<M(n)>>
      BY <2>2
    <3>2. DOMAIN <<M(n)>> = {1}
      OBVIOUS
    <3>. QED BY <2>1, <3>1, <3>2 DEF ToSet, Distinct
  <2>3. CASE ~Convertible(declared[n])
    <3>1. s[n] = <<>> /\ DOMAIN <<>> = {}
      BY <2>3
    <3>. QED BY <3>1 DEF ToSet, Distinct
  <2>. QED BY <2>2, <2>3
<1>4. s \in Seq(Seq(X)) /\ DOMAIN s = DOMAIN declared /\ Len(s) = Len(declared)
  <2>1. s \in [1 .. Len(declared) -> Seq(X)]
    BY <1>2, <1>3
  <2>. HIDE DEF s, X
  <2>. QED BY <1>2, <2>1, SeqDef
<1>. HIDE DEF s
<1>5. ms \in Seq(X) /\ ToSet(ms) = UNION {ToSet(s[n]) : n \in DOMAIN s}
  <2>. HIDE DEF X
  <2>. QED BY <1>4, FlattenElements, FlattenType
<1>6. Range(ms) = ToSet(ms)
  BY DEF Range, ToSet
<1>7. IsSequence(ms)
  <2>. HIDE DEF X, ms
  <2>. QED BY <1>5, SequenceOf
<1>8. ASSUME NEW m \in Range(ms) PROVE \E n \in DOMAIN declared : m = M(n)
  <2>1. PICK n \in DOMAIN s : m \in ToSet(s[n])
    <3>. HIDE DEF ms
    <3>. QED BY <1>5, <1>6
  <2>. QED BY <1>3, <1>4, <2>1
<1>9. ASSUME NEW i \in 1 .. Len(s), NEW j \in 1 .. Len(s), i < j
      PROVE  ToSet(s[i]) \cap ToSet(s[j]) = {}
  <2>1. i \in DOMAIN declared /\ j \in DOMAIN declared /\ i # j
    BY <1>2, <1>4, <1>9
  <2>2. M(i) # M(j)
    BY <1>1, <2>1
  <2>. QED BY <1>3, <2>1, <2>2
<1>10. Distinct(ms)
  <2>1. \A i \in 1 .. Len(s) : Distinct(s[i])
    BY <1>2, <1>3, <1>4
  <2>. HIDE DEF X
  <2>. QED BY <1>4, <1>9, <2>1, FlattenDistinct
<1>11. \A m \in Range(ms) : m.id[1] = p
  BY <1>1, <1>8
<1>12. ASSUME NEW m \in Range(ms), NEW n \in Range(ms), m.id = n.id PROVE m = n
  <2>1. PICK a \in DOMAIN declared : m = M(a)
    BY <1>8
  <2>0. PICK b \in DOMAIN declared : n = M(b)
    BY <1>8
  <2>2. a = b
    BY <1>1, <1>12, <2>0, <2>1
  <2>. QED BY <2>0, <2>1, <2>2
<1>13. list = ms
  BY DEF Converted, s, M
<1>. HIDE DEF ms
<1>. QED BY <1>7, <1>10, <1>11, <1>12, <1>13

\* A file that was loaded: its matches, and its imports that are there.
LEMMA GroupIs ==
  ASSUME NEW d \in Disks, NEW p \in MatchFiles, Loadable(d, p)
  PROVE  /\ GroupOK(p, MatchGroup(d, p))
         /\ Range(MatchGroup(d, p).imports) = ImportsOnDisk(d)[p]
<1>. DEFINE declared == Get(d[p].body, "matches", <<>>)
            imports == Get(d[p].body, "imports", <<>>)
<1>1. imports \in Seq(MatchFiles) /\ IsSequence(declared)
  BY ContentsAre DEF Files, Loadable
<1>2. /\ MatchGroup(d, p).imports = ResolveImports(d, imports)
      /\ MatchGroup(d, p).matches = Converted(p, declared)
  BY DEF MatchGroup, Converted
<1>. DEFINE ms == MatchGroup(d, p).matches
<1>3. GroupOK(p, MatchGroup(d, p))
  <2>1. /\ IsSequence(ms) /\ Distinct(ms)
        /\ \A m \in Range(ms) : m.id[1] = p
        /\ \A m, n \in Range(ms) : m.id = n.id => m = n
    <3>. HIDE DEF declared
    <3>. QED BY <1>1, <1>2, MatchesConverted
  <2>2. MatchGroup(d, p).imports \in Seq(MatchFiles)
    BY <1>1, <1>2, ImportsResolved
  <2>. QED BY <2>1, <2>2 DEF GroupOK
<1>4. Range(MatchGroup(d, p).imports) = ImportsOnDisk(d)[p]
  BY <1>1, <1>2, ImportsResolved DEF ImportsOnDisk
<1>. QED BY <1>3, <1>4

LEMMA DiskImports ==
  ASSUME NEW d \in Disks
  PROVE  ImportsOnDisk(d) \in [MatchFiles -> SUBSET MatchFiles]
<1>1. ASSUME NEW p \in MatchFiles PROVE ImportsOnDisk(d)[p] \in SUBSET MatchFiles
  <2>1. CASE Loadable(d, p)
    <3>1. Get(d[p].body, "imports", <<>>) \in Seq(MatchFiles)
      BY <2>1, ContentsAre DEF Files, Loadable
    <3>. QED BY <2>1, <3>1 DEF ImportsOnDisk, Range
  <2>2. CASE ~Loadable(d, p)
    BY <2>2 DEF ImportsOnDisk
  <2>. QED BY <2>1, <2>2
<1>. QED BY <1>1 DEF ImportsOnDisk

-----------------------------------------------------------------------------
(* What a load has found so far, file by file *)

ConfigOK(c) ==
  /\ c = [file |-> c.file, options |-> c.options, paths |-> c.paths]
  /\ c.file \in ConfigFiles /\ c.paths \in SUBSET MatchFiles

ConfigsOK(default, customs) ==
  /\ ConfigOK(default)
  /\ IsSequence(customs) /\ \A i \in DOMAIN customs : ConfigOK(customs[i])

GroupsOK(groups) ==
  DOMAIN groups \subseteq MatchFiles /\ \A p \in DOMAIN groups : GroupOK(p, groups[p])

\* The configs of applications on disk, and those of some files that can be loaded.
CustomFiles(d, default) == {f \in ConfigFiles : d[f].exists} \ {default.file}
GoodFiles(d, default, files) == {f \in files : ResolvedConfig(d, f, default.options) # {}}

\* The configs are those on disk, but for those to be read.
ConfigsRight(d, default, customs, errors, todo) ==
  LET done == CustomFiles(d, default) \ todo IN
  /\ <<default.file>> = DefaultFile(d)
  /\ todo \subseteq CustomFiles(d, default)
  /\ {customs[i].file : i \in DOMAIN customs} = GoodFiles(d, default, done)
  /\ Len(customs) = Cardinality(GoodFiles(d, default, done))
  /\ done \ GoodFiles(d, default, done) \subseteq errors

\* The match files that something asks for.
Needed(default, customs, groups) ==
  AllMatchPaths(default, customs) \cup UNION {Range(groups[q].imports) : q \in DOMAIN groups}

NoneMissing(default, customs, groups, errors, rest) ==
  \A p \in Needed(default, customs, groups) : p \in DOMAIN groups \/ p \in errors \/ p \in rest

\* The match files are those that can be reached on disk, but for the rest and what
\* the rest leads to.
GroupsRight(d, default, customs, groups, errors, rest) ==
  /\ DOMAIN groups \cup rest \subseteq Reached(ImportsOnDisk(d), AllMatchPaths(default, customs))
  /\ \A p \in DOMAIN groups : Loadable(d, p) /\ Range(groups[p].imports) = ImportsOnDisk(d)[p]
  /\ \A p \in Needed(default, customs, groups) :
        p \in DOMAIN groups \/ (p \in errors /\ ~Loadable(d, p)) \/ p \in rest

Customs(d, e, l) ==
  /\ l = [at |-> "customs", default |-> l.default, customs |-> l.customs,
          errors |-> l.errors, seen |-> l.seen, todo |-> l.todo]
  /\ ConfigsOK(l.default, l.customs)
  /\ l.todo \in SUBSET ConfigFiles
  /\ l.seen \in Nat /\ l.seen <= e
  /\ l.seen = e => ConfigsRight(d, l.default, l.customs, l.errors, l.todo)

Groups(d, e, l) ==
  /\ l = [at |-> "groups", default |-> l.default, customs |-> l.customs,
          errors |-> l.errors, seen |-> l.seen, stack |-> l.stack, groups |-> l.groups]
  /\ ConfigsOK(l.default, l.customs) /\ GroupsOK(l.groups)
  /\ l.stack \in Seq(MatchFiles)
  /\ NoneMissing(l.default, l.customs, l.groups, l.errors, Range(l.stack))
  /\ l.seen \in Nat /\ l.seen <= e
  /\ l.seen = e => /\ ConfigsRight(d, l.default, l.customs, l.errors, {})
                   /\ GroupsRight(d, l.default, l.customs, l.groups, l.errors, Range(l.stack))

Loaded(d, e, s) ==
  /\ ConfigsOK(s.default, s.customs) /\ GroupsOK(s.groups)
  /\ NoneMissing(s.default, s.customs, s.groups, s.errors, {})
  /\ s.seen \in Nat /\ s.seen <= e
  /\ s.seen = e => /\ ConfigsRight(d, s.default, s.customs, s.errors, {})
                   /\ GroupsRight(d, s.default, s.customs, s.groups, s.errors, {})

Loading(d, e, l) == l = NoLoad \/ l = Begin \/ Customs(d, e, l) \/ Groups(d, e, l)

ConfigurationInv ==
  /\ disk \in Disks /\ edits \in Nat
  /\ setup # "done" => load = NoLoad /\ store = {} /\ gui = "none"
  /\ Loading(disk, edits, load)
  /\ \A s \in store : Loaded(disk, edits, s)

\* An edit leaves what was read before it behind.
LEMMA EditedLater ==
  ASSUME NEW d, NEW c, NEW e \in Nat, NEW l, Loading(d, e, l)
  PROVE  Loading(c, e + 1, l)
<1>1. CASE Customs(d, e, l)
  BY <1>1 DEF Customs, Loading
<1>2. CASE Groups(d, e, l)
  BY <1>2 DEF Groups, Loading
<1>. QED BY <1>1, <1>2 DEF Loading

LEMMA LoadedEarlier ==
  ASSUME NEW d, NEW c, NEW e \in Nat, NEW s, Loaded(d, e, s)
  PROVE  Loaded(c, e + 1, s)
  BY DEF Loaded

\* A config that is loaded is one of its file.
LEMMA ConfigIs ==
  ASSUME NEW d, NEW f \in ConfigFiles, NEW parent, ResolvedConfig(d, f, parent) # {},
         NEW c, c = ChooseUnique(ResolvedConfig(d, f, parent), LAMBDA x : TRUE)
  PROVE  ConfigOK(c) /\ c.file = f
<1>. DEFINE S == ResolvedConfig(d, f, parent)
            options == Merged(ParsedConfig(d[f].body), parent)
<1>1. \A x \in S : x = [file |-> f, options |-> options, paths |-> MatchPaths(d, options)]
  BY DEF ResolvedConfig
<1>2. c \in S
  <2>1. c = CHOOSE x \in S : TRUE /\ \A y \in S : TRUE => y = x
    BY DEF ChooseUnique
  <2>2. \A x, y \in S : x = y
    BY <1>1
  <2>3. S # {}
    OBVIOUS
  <2>. HIDE DEF S
  <2>. QED BY <2>1, <2>2, <2>3
<1>3. MatchPaths(d, options) \in SUBSET MatchFiles
  BY DEF MatchPaths, CalculatePaths
<1>. HIDE DEF options, S
<1>4. c = [file |-> f, options |-> options, paths |-> MatchPaths(d, options)]
  BY <1>1, <1>2
<1>. QED BY <1>3, <1>4 DEF ConfigOK

LEMMA PathsAre ==
  ASSUME NEW default, NEW customs, ConfigsOK(default, customs)
  PROVE  AllMatchPaths(default, customs) \in SUBSET MatchFiles
  BY DEF AllMatchPaths, ConfigsOK, ConfigOK

\* The default config is read.
LEMMA DefaultRead ==
  ASSUME ConfigurationInv, LoadDefault
  PROVE  Loading(disk, edits, load')
<1>. DEFINE file == DefaultFile(disk)
            f == Head(file)
            config == IF file = <<>> THEN {} ELSE ResolvedConfig(disk, f, <<>>)
            c == ChooseUnique(config, LAMBDA x : TRUE)
            todo == {g \in ConfigFiles : disk[g].exists} \ {f}
<1>1. CASE config = {}
  BY <1>1 DEF LoadDefault, Fatal, Loading
<1>2. CASE config # {}
  <2>1. file # <<>> /\ config = ResolvedConfig(disk, f, <<>>)
    BY <1>2
  <2>2. f \in ConfigFiles /\ <<f>> = file
    BY <2>1, ConfigurationAssumption DEF DefaultFile
  <2>3. load' = [at |-> "customs", default |-> c, customs |-> <<>>, errors |-> {},
                 seen |-> edits, todo |-> todo]
    BY <1>2 DEF LoadDefault
  <2>4. ConfigOK(c) /\ c.file = f
    BY <1>2, <2>1, <2>2, ConfigIs
  <2>. HIDE DEF c, config, file
  <2>5. IsSequence(<<>>) /\ DOMAIN <<>> = {} /\ Len(<<>>) = 0
    BY DEF IsSequence
  <2>6. todo = CustomFiles(disk, c)
    BY <2>4 DEF CustomFiles
  <2>. HIDE DEF todo, f
  <2>7. ConfigsOK(c, <<>>)
    BY <2>4, <2>5 DEF ConfigsOK
  <2>8. GoodFiles(disk, c, CustomFiles(disk, c) \ todo) = {}
    BY <2>6 DEF GoodFiles
  <2>9. ConfigsRight(disk, c, <<>>, {}, todo)
    BY <2>2, <2>4, <2>5, <2>6, <2>8, FS_EmptySet DEF ConfigsRight, file
  <2>10. todo \in SUBSET ConfigFiles /\ edits \in Nat
    BY <2>6 DEF CustomFiles, ConfigurationInv
  <2>. QED BY <2>3, <2>7, <2>9, <2>10 DEF Customs, Loading
<1>. QED BY <1>1, <1>2

LEMMA StackIs ==
  ASSUME NEW X, NEW s \in Seq(X), s # <<>>
  PROVE  /\ Head(s) \in X /\ Tail(s) \in Seq(X)
         /\ Range(s) = {Head(s)} \cup Range(Tail(s))
<1>1. /\ Len(s) \in Nat \ {0} /\ DOMAIN s = 1 .. Len(s) /\ Head(s) = s[1]
      /\ Tail(s) \in Seq(X) /\ DOMAIN Tail(s) = 1 .. Len(s) - 1
      /\ \A i \in 1 .. Len(s) - 1 : Tail(s)[i] = s[i + 1]
  OBVIOUS
<1>2. ASSUME NEW i \in DOMAIN s PROVE s[i] \in {Head(s)} \cup Range(Tail(s))
  <2>1. CASE i = 1
    BY <1>1, <2>1
  <2>2. CASE i # 1
    <3>1. i - 1 \in 1 .. Len(s) - 1 /\ (i - 1) + 1 = i
      BY <1>1, <2>2
    <3>2. Tail(s)[i - 1] = s[i]
      BY <1>1, <3>1
    <3>. QED BY <1>1, <3>1, <3>2 DEF Range
  <2>. QED BY <2>1, <2>2
<1>3. ASSUME NEW i \in 1 .. Len(s) - 1 PROVE Tail(s)[i] \in Range(s)
  <2>1. i + 1 \in DOMAIN s /\ Tail(s)[i] = s[i + 1]
    BY <1>1
  <2>. QED BY <2>1 DEF Range
<1>4. Head(s) \in X /\ Head(s) \in Range(s)
  BY <1>1 DEF Range
<1>5. Range(s) \subseteq {Head(s)} \cup Range(Tail(s))
  BY <1>2 DEF Range
<1>6. Range(Tail(s)) \subseteq Range(s)
  <2>1. Range(Tail(s)) = {Tail(s)[i] : i \in 1 .. Len(s) - 1}
    BY <1>1 DEF Range
  <2>. QED BY <1>3, <2>1
<1>. QED BY <1>1, <1>4, <1>5, <1>6

LEMMA RangeConcat ==
  ASSUME NEW X, NEW a \in Seq(X), NEW b \in Seq(X)
  PROVE  a \o b \in Seq(X) /\ Range(a \o b) = Range(a) \cup Range(b)
<1>1. \A s : Range(s) = ToSet(s)
  BY DEF Range, ToSet
<1>. QED BY <1>1, ToSetConcat

\* Where a load is.
LEMMA LoadingAt ==
  ASSUME NEW d, NEW e, NEW l, Loading(d, e, l)
  PROVE  /\ l.at = "customs" => Customs(d, e, l)
         /\ l.at = "groups" => Groups(d, e, l)
<1>1. NoLoad.at = "none" /\ Begin.at = "default"
  BY DEF NoLoad, Begin
<1>2. Customs(d, e, l) => l.at = "customs"
  BY DEF Customs
<1>3. Groups(d, e, l) => l.at = "groups"
  BY DEF Groups
<1>. QED BY <1>1, <1>2, <1>3 DEF Loading

\* The config of one application is read.
LEMMA CustomRead ==
  ASSUME ConfigurationInv, NEW f \in ConfigFiles, LoadCustom(f)
  PROVE  Loading(disk, edits, load')
<1>. DEFINE def == load.default
            config == ResolvedConfig(disk, f, def.options)
            c == ChooseUnique(config, LAMBDA x : TRUE)
            customs == IF config = {} THEN load.customs ELSE Append(load.customs, c)
            errors == IF config = {} THEN load.errors \cup {f} ELSE load.errors
            todo == load.todo \ {f}
<1>1. Customs(disk, edits, load)
  BY LoadingAt DEF ConfigurationInv, LoadCustom
<1>2. load' = [at |-> "customs", default |-> def, customs |-> customs, errors |-> errors,
               seen |-> load.seen, todo |-> todo]
  BY <1>1 DEF LoadCustom, Customs
<1>3. f \in load.todo
  BY DEF LoadCustom
<1>4. config # {} => ConfigOK(c) /\ c.file = f
  BY ConfigIs
<1>5. ConfigsOK(def, load.customs) /\ IsSequence(load.customs)
  BY <1>1 DEF Customs, ConfigsOK
<1>. HIDE DEF c, def
<1>6. ConfigsOK(def, customs)
  <2>1. CASE config = {}
    BY <1>5, <2>1
  <2>2. CASE config # {}
    <3>. DEFINE t == Append(load.customs, c)
    <3>1. customs = t
      BY <2>2
    <3>2. /\ IsSequence(t) /\ DOMAIN load.customs = 1 .. Len(load.customs)
          /\ Len(load.customs) \in Nat /\ DOMAIN t = 1 .. Len(load.customs) + 1
          /\ \A i \in DOMAIN load.customs : t[i] = load.customs[i]
          /\ t[Len(load.customs) + 1] = c
      BY <1>5, SequenceAppend
    <3>. HIDE DEF t
    <3>3. ASSUME NEW i \in DOMAIN t PROVE ConfigOK(t[i])
      BY <1>4, <1>5, <2>2, <3>2 DEF ConfigsOK
    <3>. QED BY <1>5, <3>1, <3>2, <3>3 DEF ConfigsOK
  <2>. QED BY <2>1, <2>2
<1>7. ASSUME load.seen = edits PROVE ConfigsRight(disk, def, customs, errors, todo)
  <2>. DEFINE all == CustomFiles(disk, def)
              done == all \ load.todo
              good == GoodFiles(disk, def, done)
  <2>1. /\ <<def.file>> = DefaultFile(disk)
        /\ load.todo \subseteq all
        /\ {load.customs[i].file : i \in DOMAIN load.customs} = good
        /\ Len(load.customs) = Cardinality(good)
        /\ done \ good \subseteq load.errors
    BY <1>1, <1>7 DEF Customs, ConfigsRight, def
  <2>2. f \in all /\ f \notin done /\ f \notin good /\ all \ todo = done \cup {f} /\ todo \subseteq all
    BY <1>3, <2>1 DEF GoodFiles
  <2>3. GoodFiles(disk, def, done \cup {f}) = IF config = {} THEN good ELSE good \cup {f}
    BY DEF GoodFiles
  <2>4. IsFiniteSet(good)
    BY ConfigurationAssumption, FS_Subset DEF GoodFiles, CustomFiles
  <2>. HIDE DEF good, done, all
  <2>5. Cardinality(good \cup {f}) = Cardinality(good) + 1
    BY <2>2, <2>4, FS_AddElement
  <2>6. CASE config = {}
    <3>. HIDE DEF config
    <3>. QED BY <2>1, <2>2, <2>3, <2>6 DEF ConfigsRight, all
  <2>7. CASE config # {}
    <3>. DEFINE n == Len(load.customs)
    <3>1. /\ DOMAIN load.customs = 1 .. n /\ n \in Nat /\ Len(customs) = n + 1
          /\ DOMAIN customs = 1 .. n + 1
          /\ \A i \in DOMAIN load.customs : customs[i] = load.customs[i]
          /\ customs[n + 1] = c
      BY <1>5, <2>7, SequenceAppend
    <3>2. c.file = f
      BY <1>4, <2>7
    <3>. HIDE DEF customs, n, config
    <3>3. {customs[i].file : i \in DOMAIN customs} = good \cup {f}
      <4>1. 1 .. n + 1 = (1 .. n) \cup {n + 1}
        BY <3>1
      <4>2. {customs[i].file : i \in DOMAIN customs}
              = {customs[i].file : i \in 1 .. n} \cup {customs[n + 1].file}
        BY <3>1, <4>1
      <4>3. {customs[i].file : i \in 1 .. n} = {load.customs[i].file : i \in DOMAIN load.customs}
        BY <3>1
      <4>. QED BY <2>1, <3>1, <3>2, <4>2, <4>3
    <3>4. Len(customs) = Cardinality(good \cup {f})
      BY <2>1, <2>5, <3>1 DEF n
    <3>5. errors = load.errors
      BY <2>7
    <3>. HIDE DEF errors
    <3>6. (done \cup {f}) \ (good \cup {f}) \subseteq errors
      BY <2>1, <3>5
    <3>. QED BY <2>1, <2>2, <2>3, <2>7, <3>3, <3>4, <3>6 DEF ConfigsRight, all
  <2>. QED BY <2>6, <2>7
<1>8. todo \in SUBSET ConfigFiles /\ load.seen \in Nat /\ load.seen <= edits
  BY <1>1 DEF Customs
<1>. HIDE DEF customs, errors, todo
<1>9. Customs(disk, edits, load')
  BY <1>2, <1>6, <1>7, <1>8 DEF Customs
<1>. QED BY <1>9 DEF Loading

\* The match files of all the configs are listed.
LEMMA GroupsListed ==
  ASSUME ConfigurationInv, ListGroups
  PROVE  Loading(disk, edits, load')
<1>. DEFINE def == load.default
            customs == load.customs
            paths == AllMatchPaths(def, customs)
            none == [p \in {} |-> <<>>]
<1>1. Customs(disk, edits, load) /\ load.todo = {}
  BY LoadingAt DEF ConfigurationInv, ListGroups
<1>2. PICK order \in SetToSeqs(paths) :
        load' = [at |-> "groups", default |-> def, customs |-> customs, errors |-> load.errors,
                 seen |-> load.seen, stack |-> order, groups |-> none]
  BY DEF ListGroups
<1>3. ConfigsOK(def, customs) /\ load.seen \in Nat /\ load.seen <= edits
  BY <1>1 DEF Customs
<1>4. paths \in SUBSET MatchFiles /\ IsFiniteSet(paths)
  BY <1>3, PathsAre, ConfigurationAssumption, FS_Subset
<1>5. order \in Seq(paths) /\ Range(order) = paths
  BY <1>4, OrdersAre
<1>6. order \in Seq(MatchFiles)
  <2>. HIDE DEF paths
  <2>. QED BY <1>4, <1>5
<1>7. DOMAIN none = {} /\ Needed(def, customs, none) = paths
  BY DEF Needed
<1>. HIDE DEF none
<1>8. GroupsOK(none) /\ NoneMissing(def, customs, none, load.errors, Range(order))
  BY <1>5, <1>7 DEF GroupsOK, NoneMissing
<1>9. ASSUME load.seen = edits
      PROVE  /\ ConfigsRight(disk, def, customs, load.errors, {})
             /\ GroupsRight(disk, def, customs, none, load.errors, Range(order))
  <2>1. paths \subseteq Reached(ImportsOnDisk(disk), paths)
    BY <1>4, DiskImports, ReachedIs DEF ConfigurationInv
  <2>2. ConfigsRight(disk, def, customs, load.errors, {})
    BY <1>1, <1>9 DEF Customs
  <2>. HIDE DEF paths
  <2>. QED BY <1>5, <1>7, <2>1, <2>2 DEF GroupsRight, paths
<1>. HIDE DEF def, customs
<1>10. Groups(disk, edits, load')
  BY <1>2, <1>3, <1>6, <1>8, <1>9 DEF Groups
<1>. QED BY <1>10 DEF Loading

\* What a match file brings is asked for from then on.
LEMMA NeededWith ==
  ASSUME NEW default, NEW customs, NEW groups, NEW p, NEW g, p \notin DOMAIN groups
  PROVE  Needed(default, customs, Put(groups, p, g)) = Needed(default, customs, groups) \cup Range(g.imports)
<1>. DEFINE more == Put(groups, p, g)
<1>1. /\ DOMAIN more = DOMAIN groups \cup {p}
      /\ more[p] = g
      /\ \A q \in DOMAIN groups : more[q] = groups[q]
  BY DEF Put
<1>. HIDE DEF more
<1>2. UNION {Range(more[q].imports) : q \in DOMAIN more}
        = (UNION {Range(groups[q].imports) : q \in DOMAIN groups}) \cup Range(g.imports)
  BY <1>1
<1>. QED BY <1>2 DEF Needed, more

\* One match file is read, or not.
LEMMA GroupRead ==
  ASSUME ConfigurationInv, LoadGroup
  PROVE  Loading(disk, edits, load')
<1>. DEFINE def == load.default
            customs == load.customs
            groups == load.groups
            p == Head(load.stack)
            rest == Tail(load.stack)
            g == MatchGroup(disk, p)
            reached == Reached(ImportsOnDisk(disk), AllMatchPaths(def, customs))
<1>1. Groups(disk, edits, load) /\ load.stack # <<>> /\ disk \in Disks
  BY LoadingAt DEF ConfigurationInv, LoadGroup
<1>2. /\ load = [at |-> "groups", default |-> def, customs |-> customs, errors |-> load.errors,
                 seen |-> load.seen, stack |-> load.stack, groups |-> groups]
      /\ ConfigsOK(def, customs) /\ GroupsOK(groups)
      /\ load.stack \in Seq(MatchFiles)
      /\ NoneMissing(def, customs, groups, load.errors, Range(load.stack))
      /\ load.seen \in Nat /\ load.seen <= edits
      /\ load.seen = edits =>
            /\ ConfigsRight(disk, def, customs, load.errors, {})
            /\ GroupsRight(disk, def, customs, groups, load.errors, Range(load.stack))
  BY <1>1 DEF Groups
<1>3. /\ p \in MatchFiles /\ rest \in Seq(MatchFiles)
      /\ Range(load.stack) = {p} \cup Range(rest)
  BY <1>1, <1>2, StackIs
<1>4. \A q \in Range(rest) : q \in MatchFiles
  BY <1>3 DEF Range
<1>5. CASE p \in DOMAIN groups
  <2>1. load' = [at |-> "groups", default |-> def, customs |-> customs, errors |-> load.errors,
                 seen |-> load.seen, stack |-> rest, groups |-> groups]
    BY <1>2, <1>5 DEF LoadGroup
  <2>. HIDE DEF p, rest, groups, def, customs
  <2>2. NoneMissing(def, customs, groups, load.errors, Range(rest))
    BY <1>2, <1>3, <1>5 DEF NoneMissing
  <2>3. ASSUME load.seen = edits
        PROVE  GroupsRight(disk, def, customs, groups, load.errors, Range(rest))
    BY <1>2, <1>3, <1>5, <2>3 DEF GroupsRight
  <2>4. Groups(disk, edits, load')
    BY <1>2, <1>3, <2>1, <2>2, <2>3 DEF Groups
  <2>. QED BY <2>4 DEF Loading
<1>6. CASE p \notin DOMAIN groups /\ ~Loadable(disk, p)
  <2>. DEFINE errors == load.errors \cup {p}
  <2>1. load' = [at |-> "groups", default |-> def, customs |-> customs, errors |-> errors,
                 seen |-> load.seen, stack |-> rest, groups |-> groups]
    BY <1>2, <1>6 DEF LoadGroup
  <2>. HIDE DEF p, rest, groups, def, customs
  <2>2. NoneMissing(def, customs, groups, errors, Range(rest))
    BY <1>2, <1>3, <1>6 DEF NoneMissing
  <2>3. ASSUME load.seen = edits
        PROVE  /\ ConfigsRight(disk, def, customs, errors, {})
               /\ GroupsRight(disk, def, customs, groups, errors, Range(rest))
    <3>1. ConfigsRight(disk, def, customs, errors, {})
      BY <1>2, <2>3 DEF ConfigsRight
    <3>2. GroupsRight(disk, def, customs, groups, errors, Range(rest))
      BY <1>2, <1>3, <1>6, <2>3 DEF GroupsRight
    <3>. QED BY <3>1, <3>2
  <2>. HIDE DEF errors
  <2>4. Groups(disk, edits, load')
    BY <1>2, <1>3, <2>1, <2>2, <2>3 DEF Groups
  <2>. QED BY <2>4 DEF Loading
<1>7. CASE p \notin DOMAIN groups /\ Loadable(disk, p)
  <2>. DEFINE errors == IF g.errors \/ g.warns THEN load.errors \cup {p} ELSE load.errors
              more == Put(groups, p, g)
              stack == g.imports \o rest
  <2>1. load' = [at |-> "groups", default |-> def, customs |-> customs, errors |-> errors,
                 seen |-> load.seen, stack |-> stack, groups |-> more]
    BY <1>2, <1>7 DEF LoadGroup
  <2>2. GroupOK(p, g) /\ Range(g.imports) = ImportsOnDisk(disk)[p]
    BY <1>1, <1>3, <1>7, GroupIs
  <2>3. stack \in Seq(MatchFiles) /\ Range(stack) = Range(g.imports) \cup Range(rest)
    <3>1. g.imports \in Seq(MatchFiles)
      BY <2>2 DEF GroupOK
    <3>. HIDE DEF g, rest
    <3>. QED BY <1>3, <3>1, RangeConcat
  <2>4. /\ DOMAIN more = DOMAIN groups \cup {p}
        /\ more[p] = g
        /\ \A q \in DOMAIN groups : more[q] = groups[q]
    BY <1>7 DEF Put
  <2>5. Needed(def, customs, more) = Needed(def, customs, groups) \cup Range(g.imports)
    BY <1>7, NeededWith
  <2>6. \A q \in load.errors : q \in errors
    OBVIOUS
  <2>. HIDE DEF p, rest, groups, def, customs, g, errors, more, stack
  <2>7. NoneMissing(def, customs, more, errors, Range(stack))
    BY <1>2, <1>3, <2>3, <2>4, <2>5, <2>6 DEF NoneMissing
  <2>8. GroupsOK(more)
    BY <1>2, <1>3, <2>2, <2>4 DEF GroupsOK
  <2>9. ASSUME load.seen = edits
        PROVE  /\ ConfigsRight(disk, def, customs, errors, {})
               /\ GroupsRight(disk, def, customs, more, errors, Range(stack))
    <3>1. ConfigsRight(disk, def, customs, errors, {})
      BY <1>2, <2>6, <2>9 DEF ConfigsRight
    <3>2. /\ reached \in SUBSET MatchFiles
          /\ \A q \in reached : ImportsOnDisk(disk)[q] \subseteq reached
      BY <1>1, <1>2, PathsAre, DiskImports, ReachedIs
    <3>3. GroupsRight(disk, def, customs, groups, load.errors, Range(load.stack))
      BY <1>2, <2>9
    <3>4. DOMAIN groups \subseteq reached /\ p \in reached /\ Range(rest) \subseteq reached
      BY <1>3, <3>3 DEF GroupsRight
    <3>5. DOMAIN more \cup Range(stack) \subseteq reached
      BY <2>2, <2>3, <2>4, <3>2, <3>4
    <3>6. \A q \in DOMAIN more : Loadable(disk, q) /\ Range(more[q].imports) = ImportsOnDisk(disk)[q]
      BY <1>7, <2>2, <2>4, <3>3 DEF GroupsRight
    <3>7. \A q \in Needed(def, customs, more) :
             q \in DOMAIN more \/ (q \in errors /\ ~Loadable(disk, q)) \/ q \in Range(stack)
      BY <1>3, <2>3, <2>4, <2>5, <2>6, <3>3 DEF GroupsRight
    <3>. QED BY <3>1, <3>5, <3>6, <3>7 DEF GroupsRight
  <2>10. Groups(disk, edits, load')
    BY <1>2, <2>1, <2>3, <2>7, <2>8, <2>9 DEF Groups
  <2>. QED BY <2>10 DEF Loading
<1>. QED BY <1>5, <1>6, <1>7

\* The store is what was loaded.
LEMMA StoreFinished ==
  ASSUME ConfigurationInv, FinishLoad
  PROVE  Loading(disk, edits, load') /\ \A s \in store' : Loaded(disk, edits, s)
<1>1. Groups(disk, edits, load) /\ load.stack = <<>>
  BY LoadingAt DEF ConfigurationInv, FinishLoad
<1>2. Range(<<>>) = {}
  BY DEF Range
<1>3. load' = NoLoad
  BY DEF FinishLoad
<1>4. ASSUME NEW s \in store' PROVE Loaded(disk, edits, s)
  <2>1. s = [default |-> load.default, customs |-> load.customs, groups |-> load.groups,
             errors |-> load.errors, seen |-> load.seen]
    BY <1>4 DEF FinishLoad
  <2>2. /\ s.default = load.default /\ s.customs = load.customs /\ s.groups = load.groups
        /\ s.errors = load.errors /\ s.seen = load.seen
    BY <2>1
  <2>. QED BY <1>1, <1>2, <2>2 DEF Groups, Loaded
<1>. QED BY <1>3, <1>4 DEF Loading

-----------------------------------------------------------------------------
(* The invariant of the configuration *)

LEMMA ConfigurationStart == ConfigurationInit => ConfigurationInv
<1>. SUFFICES ASSUME ConfigurationInit PROVE ConfigurationInv
  OBVIOUS
<1>1. disk \in Disks
  <2>1. disk \in InitialDisks /\ disk \in [Files -> Range(disk)] /\ Range(disk) \subseteq Contents
    BY ConfigurationAssumption DEF ConfigurationInit, Files, Contents
  <2>. QED BY <2>1 DEF Disks
<1>. QED BY <1>1 DEF ConfigurationInit, ConfigurationInv, Loading

\* What the launcher writes is written before anything is loaded.
LEMMA LauncherKeeps == ConfigurationInv /\ (Launcher \/ LauncherCrash) => ConfigurationInv'
<1>. SUFFICES ASSUME ConfigurationInv, Launcher \/ LauncherCrash PROVE ConfigurationInv'
  OBVIOUS
<1>1. setup # "done" /\ load' = load /\ store' = store /\ gui' = gui
  BY DEF Launcher, LauncherCrash, PopulateDefault, WriteDefault, PopulateBase, WriteBase
<1>2. load = NoLoad /\ store = {} /\ gui = "none" /\ edits \in Nat
  BY <1>1 DEF ConfigurationInv
<1>3. edits' = edits \/ edits' = edits + 1
  BY DEF Launcher, LauncherCrash, PopulateDefault, WriteDefault, PopulateBase, WriteBase
<1>4. {"default.yml", "base.yml"} \subseteq Files /\ disk \in [Files -> Contents]
  BY ConfigurationAssumption DEF Files, ConfigurationInv, Disks
<1>5. {EmptyFile, Torn, Template["default.yml"], Template["base.yml"]} \subseteq Contents
  BY DEF Contents
<1>6. disk' \in [Files -> Contents]
  <2>1. CASE Launcher
    BY <1>4, <1>5, <2>1 DEF Launcher, PopulateDefault, WriteDefault, PopulateBase, WriteBase
  <2>2. CASE LauncherCrash
    <3>. DEFINE f == IF setup = "write default" THEN "default.yml" ELSE "base.yml"
    <3>1. f \in Files
      BY <1>4
    <3>2. PICK left \in {EmptyFile, Torn} : disk' = [disk EXCEPT ![f] = left]
      BY <2>2 DEF LauncherCrash
    <3>. HIDE DEF f
    <3>. QED BY <1>4, <1>5, <3>1, <3>2
  <2>. QED BY <2>1, <2>2
<1>. QED BY <1>1, <1>2, <1>3, <1>6 DEF ConfigurationInv, Loading, Disks

LEMMA EditKeeps == ConfigurationInv /\ Edit => ConfigurationInv'
<1>. SUFFICES ASSUME ConfigurationInv, Edit PROVE ConfigurationInv'
  OBVIOUS
<1>1. PICK w \in Writes : disk' = [disk EXCEPT ![w[1]] = w[2]]
  BY DEF Edit
<1>2. w[1] \in Files /\ w[2] \in Contents
  BY ConfigurationAssumption DEF Files, Contents
<1>3. disk' \in Disks
  BY <1>1, <1>2 DEF ConfigurationInv, Disks
<1>4. edits' = edits + 1 /\ edits \in Nat /\ UNCHANGED <<load, store, setup, gui>>
  BY DEF Edit, ConfigurationInv
<1>5. Loading(disk', edits', load')
  BY <1>4, EditedLater DEF ConfigurationInv
<1>6. \A s \in store' : Loaded(disk', edits', s)
  BY <1>4, LoadedEarlier DEF ConfigurationInv
<1>. QED BY <1>3, <1>4, <1>5, <1>6 DEF ConfigurationInv

\* While nothing is edited, a load brings more of what there is.
LEMMA LoadKeeps ==
  ASSUME ConfigurationInv, UNCHANGED <<disk, edits, setup>>, setup = "done",
         Loading(disk, edits, load'), \A s \in store' : Loaded(disk, edits, s)
  PROVE  ConfigurationInv'
  BY DEF ConfigurationInv

LEMMA ConfigurationKeeps ==
  ConfigurationInv /\ [ConfigurationNext]_configurationVars => ConfigurationInv'
<1>. SUFFICES ASSUME ConfigurationInv, [ConfigurationNext]_configurationVars PROVE ConfigurationInv'
  OBVIOUS
<1>1. CASE Launcher \/ LauncherCrash
  BY <1>1, LauncherKeeps
<1>2. CASE Edit
  BY <1>2, EditKeeps
<1>3. CASE UNCHANGED <<disk, edits, setup, load, store, gui>>
  BY <1>3 DEF ConfigurationInv
<1>0. /\ load # NoLoad => setup = "done"
      /\ \A s \in store : Loaded(disk, edits, s)
      /\ store # {} \/ gui # "none" => setup = "done"
  BY DEF ConfigurationInv
<1>4. CASE StartLoad \/ Reload
  <2>1. UNCHANGED <<disk, edits, setup, store>> /\ load' \in {NoLoad, Begin}
    BY <1>4 DEF StartLoad, Reload
  <2>2. Loading(disk, edits, load')
    BY <2>1 DEF Loading
  <2>3. setup = "done"
    BY <1>4, <1>0 DEF StartLoad, Reload
  <2>. QED BY <1>0, <2>1, <2>2, <2>3, LoadKeeps
<1>5. CASE LoadDefault
  <2>1. UNCHANGED <<disk, edits, setup, store>> /\ load # NoLoad
    BY <1>5 DEF LoadDefault, NoLoad
  <2>. QED BY <1>0, <1>5, <2>1, DefaultRead, LoadKeeps
<1>6. ASSUME NEW f \in ConfigFiles, LoadCustom(f) PROVE ConfigurationInv'
  <2>1. UNCHANGED <<disk, edits, setup, store>> /\ load # NoLoad
    BY <1>6 DEF LoadCustom, NoLoad
  <2>. QED BY <1>0, <1>6, <2>1, CustomRead, LoadKeeps
<1>7. CASE ListGroups
  <2>1. UNCHANGED <<disk, edits, setup, store>> /\ load # NoLoad
    BY <1>7 DEF ListGroups, NoLoad
  <2>. QED BY <1>0, <1>7, <2>1, GroupsListed, LoadKeeps
<1>8. CASE LoadGroup
  <2>1. UNCHANGED <<disk, edits, setup, store>> /\ load # NoLoad
    BY <1>8 DEF LoadGroup, NoLoad
  <2>. QED BY <1>0, <1>8, <2>1, GroupRead, LoadKeeps
<1>9. CASE FinishLoad
  <2>1. UNCHANGED <<disk, edits, setup>> /\ load # NoLoad
    BY <1>9 DEF FinishLoad, NoLoad
  <2>. QED BY <1>0, <1>9, <2>1, StoreFinished, LoadKeeps
<1>10. CASE Watch \/ Debounce
  <2>1. UNCHANGED <<disk, edits, setup, load, store, gui>>
    BY <1>10 DEF Watch, Debounce
  <2>. QED BY <1>3, <2>1
<1>11. CASE Abort
  <2>1. UNCHANGED <<disk, edits, setup, load, store>> /\ gui # "none"
    BY <1>11 DEF Abort
  <2>. QED BY <1>0, <2>1 DEF ConfigurationInv
<1>. QED BY <1>1, <1>2, <1>3, <1>4, <1>5, <1>6, <1>7, <1>8, <1>9, <1>10, <1>11
        DEF ConfigurationNext, Daemon, configurationVars

\* The invariant holds throughout.
LEMMA ConfigurationHolds == ConfigurationSpec => []ConfigurationInv
  BY ConfigurationStart, ConfigurationKeeps, PTL DEF ConfigurationSpec

\* Whatever is edited during a load, no match file is left out without a word.
THEOREM FilesAccountedFor == ConfigurationSpec => []NothingSilentlyMissing
<1>1. ConfigurationInv => NothingSilentlyMissing
  BY DEF ConfigurationInv, Loaded, NoneMissing, Needed, NothingSilentlyMissing, Stores
<1>. QED BY <1>1, ConfigurationHolds, PTL

\* A load during which nothing was edited gives what is on disk.
THEOREM StoreIsExact == ConfigurationSpec => []LoadedExactly
<1>1. ConfigurationInv => LoadedExactly
  <2>. SUFFICES ASSUME ConfigurationInv, NEW s \in store, s.seen = edits
                PROVE  LET customFiles == {f \in ConfigFiles : disk[f].exists} \ {s.default.file}
                           good == {f \in customFiles : ResolvedConfig(disk, f, s.default.options) # {}}
                           reached == Reached(ImportsOnDisk(disk), AllMatchPaths(s.default, s.customs))
                       IN  /\ <<s.default.file>> = DefaultFile(disk)
                           /\ {s.customs[i].file : i \in DOMAIN s.customs} = good
                           /\ Len(s.customs) = Cardinality(good)
                           /\ DOMAIN s.groups = {p \in reached : Loadable(disk, p)}
                           /\ (customFiles \ good) \cup (reached \ DOMAIN s.groups) \subseteq s.errors
    BY DEF LoadedExactly, Undisturbed, Stores
  <2>. DEFINE customFiles == CustomFiles(disk, s.default)
              good == GoodFiles(disk, s.default, customFiles)
              next == ImportsOnDisk(disk)
              paths == AllMatchPaths(s.default, s.customs)
              reached == Reached(next, paths)
              all == DOMAIN s.groups \cup {p \in MatchFiles : p \in s.errors /\ ~Loadable(disk, p)}
  <2>1. Loaded(disk, edits, s) /\ disk \in Disks
    BY DEF ConfigurationInv
  <2>2. /\ ConfigsRight(disk, s.default, s.customs, s.errors, {})
        /\ GroupsRight(disk, s.default, s.customs, s.groups, s.errors, {})
        /\ ConfigsOK(s.default, s.customs) /\ GroupsOK(s.groups)
    BY <2>1 DEF Loaded
  <2>3. customFiles \ {} = customFiles
    OBVIOUS
  <2>4. /\ <<s.default.file>> = DefaultFile(disk)
        /\ {s.customs[i].file : i \in DOMAIN s.customs} = good
        /\ Len(s.customs) = Cardinality(good)
        /\ customFiles \ good \subseteq s.errors
    BY <2>2, <2>3 DEF ConfigsRight
  <2>5. paths \in SUBSET MatchFiles /\ next \in [MatchFiles -> SUBSET MatchFiles]
    BY <2>1, <2>2, PathsAre, DiskImports
  <2>6. reached \in SUBSET MatchFiles
    BY <2>5, ReachedIs
  <2>7. /\ DOMAIN s.groups \subseteq reached
        /\ \A p \in DOMAIN s.groups : Loadable(disk, p) /\ Range(s.groups[p].imports) = next[p]
        /\ \A p \in Needed(s.default, s.customs, s.groups) :
              p \in DOMAIN s.groups \/ (p \in s.errors /\ ~Loadable(disk, p))
    BY <2>2 DEF GroupsRight
  <2>8. reached \subseteq all
    <3>1. all \in SUBSET MatchFiles
      BY <2>2 DEF GroupsOK
    <3>2. paths \subseteq all
      BY <2>5, <2>7 DEF Needed
    <3>3. ASSUME NEW q \in all PROVE next[q] \subseteq all
      <4>1. CASE q \in DOMAIN s.groups
        <5>1. next[q] \subseteq Needed(s.default, s.customs, s.groups)
          BY <2>7, <4>1 DEF Needed
        <5>2. next[q] \subseteq MatchFiles
          BY <2>5, <3>1
        <5>. QED BY <2>7, <5>1, <5>2
      <4>2. CASE q \notin DOMAIN s.groups
        BY <4>2 DEF ImportsOnDisk
      <4>. QED BY <4>1, <4>2
    <3>. HIDE DEF all, next, paths
    <3>. QED BY <2>5, <3>1, <3>2, <3>3, ReachedIs
  <2>9. DOMAIN s.groups = {p \in reached : Loadable(disk, p)}
    BY <2>7, <2>8
  <2>10. reached \ DOMAIN s.groups \subseteq s.errors
    BY <2>8
  <2>. QED BY <2>4, <2>9, <2>10 DEF CustomFiles, GoodFiles
<1>. QED BY <1>1, ConfigurationHolds, PTL

-----------------------------------------------------------------------------
(* Going on until the end: the recursion of the queries *)

\* A function that goes on from w to next[w] until an end is reached.
GoesOnUntil(f, W, next, ends) == f = [w \in W |-> IF w \in ends THEN w ELSE f[next[w]]]

\* There is one, whether an end is reached or not: R holds where one leads to.
LEMMA SomeGoesOnUntil ==
  ASSUME NEW W, NEW next \in [W -> W], NEW ends \in SUBSET W
  PROVE  \E f : GoesOnUntil(f, W, next, ends)
<1>. DEFINE Closed(S) == /\ \A w \in ends : <<w, w>> \in S
                         /\ \A w \in W \ ends, v \in W : <<next[w], v>> \in S => <<w, v>> \in S
            R == {x \in W \X W : \A S \in SUBSET (W \X W) : Closed(S) => x \in S}
            V(w) == {v \in W : <<w, v>> \in R}
            f == [w \in W |-> CHOOSE v : v \in V(w)]
<1>1. Closed(R)
  <2>1. \A w \in ends : <<w, w>> \in R
    OBVIOUS
  <2>2. ASSUME NEW w \in W \ ends, NEW v \in W, <<next[w], v>> \in R PROVE <<w, v>> \in R
    <3>1. ASSUME NEW S \in SUBSET (W \X W), Closed(S) PROVE <<w, v>> \in S
      <4>1. <<next[w], v>> \in S
        BY <2>2, <3>1
      <4>. QED BY <3>1, <4>1
    <3>2. <<w, v>> \in W \X W
      OBVIOUS
    <3>. QED BY <3>1, <3>2
  <2>. QED BY <2>1, <2>2
<1>2. \A S \in SUBSET (W \X W) : Closed(S) => R \subseteq S
  OBVIOUS
<1>3. R \in SUBSET (W \X W)
  OBVIOUS
<1>. HIDE DEF R
<1>4. ASSUME NEW w \in ends PROVE V(w) = {w}
  <2>. DEFINE S == {x \in R : x[1] \in ends => x[2] = x[1]}
  <2>1. Closed(S)
    <3>1. \A u \in ends : <<u, u>> \in S
      BY <1>1
    <3>2. ASSUME NEW u \in W \ ends, NEW v \in W, <<next[u], v>> \in S PROVE <<u, v>> \in S
      BY <1>1, <3>2
    <3>. QED BY <3>1, <3>2
  <2>2. S \in SUBSET (W \X W)
    BY <1>3
  <2>3. R \subseteq S
    <3>. HIDE DEF S
    <3>. QED BY <1>2, <2>1, <2>2
  <2>4. \A v \in V(w) : v = w
    <3>1. ASSUME NEW v \in V(w) PROVE v = w
      <4>1. <<w, v>> \in S
        BY <2>3, <3>1
      <4>. QED BY <4>1
    <3>. QED BY <3>1
  <2>5. w \in V(w)
    BY <1>1
  <2>. QED BY <2>4, <2>5
<1>5. ASSUME NEW w \in W \ ends PROVE V(w) = V(next[w])
  <2>. DEFINE S == {x \in R : x[1] \notin ends => <<next[x[1]], x[2]>> \in R}
  <2>1. Closed(S)
    <3>1. \A u \in ends : <<u, u>> \in S
      BY <1>1
    <3>2. ASSUME NEW u \in W \ ends, NEW v \in W, <<next[u], v>> \in S PROVE <<u, v>> \in S
      BY <1>1, <3>2
    <3>. QED BY <3>1, <3>2
  <2>2. S \in SUBSET (W \X W)
    BY <1>3
  <2>3. R \subseteq S
    <3>. HIDE DEF S
    <3>. QED BY <1>2, <2>1, <2>2
  <2>4. \A v \in V(w) : v \in V(next[w])
    <3>1. ASSUME NEW v \in V(w) PROVE v \in V(next[w])
      <4>1. <<w, v>> \in S
        BY <2>3, <3>1
      <4>. QED BY <4>1
    <3>. QED BY <3>1
  <2>5. \A v \in V(next[w]) : v \in V(w)
    BY <1>1
  <2>. QED BY <2>4, <2>5
<1>. HIDE DEF V
<1>6. ASSUME NEW w \in W PROVE f[w] = IF w \in ends THEN w ELSE f[next[w]]
  <2>1. CASE w \in ends
    <3>1. f[w] = CHOOSE v : v \in {w}
      BY <1>4, <2>1
    <3>. QED BY <2>1, <3>1
  <2>2. CASE w \notin ends
    <3>1. next[w] \in W
      OBVIOUS
    <3>2. V(w) = V(next[w])
      BY <1>5, <2>2
    <3>. QED BY <2>2, <3>1, <3>2
  <2>. QED BY <2>1, <2>2
<1>. HIDE DEF f
<1>7. f = [w \in W |-> f[w]]
  BY DEF f
<1>8. GoesOnUntil(f, W, next, ends)
  BY <1>6, <1>7 DEF GoesOnUntil
<1>. QED BY <1>8

\* Where each step visits one file more or takes one from the stack, and preserves what
\* holds so far,
Descends(W, next, ends, J, todo, size) ==
  /\ next \in [W -> W] /\ ends \in SUBSET W /\ J \in SUBSET W
  /\ todo \in [W -> Nat] /\ size \in [W -> Nat]
  /\ \A w \in J : size[w] = 0 => w \in ends
  /\ \A w \in J \ ends : /\ next[w] \in J
                         /\ \/ todo[next[w]] < todo[w]
                            \/ todo[next[w]] = todo[w] /\ size[next[w]] < size[w]

\* the end is reached, and what every step preserves holds there.
LEMMA EndReached ==
  ASSUME NEW W, NEW next, NEW ends, NEW J, NEW todo, NEW size,
         NEW f, GoesOnUntil(f, W, next, ends), Descends(W, next, ends, J, todo, size)
  PROVE  \A w \in J : f[w] \in J /\ f[w] \in ends
<1>a. /\ next \in [W -> W] /\ ends \in SUBSET W /\ J \in SUBSET W
      /\ todo \in [W -> Nat] /\ size \in [W -> Nat]
      /\ \A w \in J : size[w] = 0 => w \in ends
      /\ \A w \in J \ ends : /\ next[w] \in J
                             /\ \/ todo[next[w]] < todo[w]
                                \/ todo[next[w]] = todo[w] /\ size[next[w]] < size[w]
  BY DEF Descends
<1>. USE <1>a
<1>. DEFINE Good(w) == f[w] \in J /\ f[w] \in ends
            T == {n \in Nat : \A w \in J : todo[w] < n => Good(w)}
<1>0. \A w \in W : f[w] = IF w \in ends THEN w ELSE f[next[w]]
  BY DEF GoesOnUntil
<1>. HIDE DEF Good
<1>1. 0 \in T
  OBVIOUS
<1>2. ASSUME NEW n \in T PROVE n + 1 \in T
  <2>. DEFINE U == {l \in Nat : \A w \in J : todo[w] = n /\ size[w] < l => Good(w)}
  <2>1. 0 \in U
    OBVIOUS
  <2>2. ASSUME NEW l \in U PROVE l + 1 \in U
    <3>. SUFFICES ASSUME NEW w \in J, todo[w] = n, size[w] < l + 1 PROVE Good(w)
      OBVIOUS
    <3>1. CASE w \in ends
      BY <1>0, <3>1 DEF Good
    <3>2. CASE w \notin ends
      <4>1. next[w] \in J /\ todo[next[w]] \in Nat /\ size[next[w]] \in Nat /\ size[w] \in Nat
        BY <3>2
      <4>2. CASE todo[next[w]] < n
        <5>1. Good(next[w])
          BY <4>1, <4>2
        <5>. QED BY <1>0, <3>2, <5>1 DEF Good
      <4>3. CASE todo[next[w]] = n /\ size[next[w]] < size[w]
        <5>1. Good(next[w])
          BY <4>1, <4>3
        <5>. QED BY <1>0, <3>2, <5>1 DEF Good
      <4>. QED BY <3>2, <4>2, <4>3
    <3>. QED BY <3>1, <3>2
  <2>. HIDE DEF U
  <2>3. U \in SUBSET Nat
    BY DEF U
  <2>4. \A l \in Nat : l \in U
    BY <2>1, <2>2, <2>3, Induction
  <2>5. ASSUME NEW w \in J, todo[w] < n + 1 PROVE Good(w)
    <3>1. todo[w] \in Nat /\ size[w] \in Nat /\ n \in Nat
      OBVIOUS
    <3>2. CASE todo[w] < n
      BY <3>2
    <3>3. CASE todo[w] = n
      <4>1. size[w] + 1 \in U
        BY <2>4, <3>1
      <4>. QED BY <3>1, <3>3, <4>1 DEF U
    <3>. QED BY <2>5, <3>1, <3>2, <3>3
  <2>. QED BY <2>5
<1>. HIDE DEF T
<1>3. T \in SUBSET Nat
  BY DEF T
<1>4. \A n \in Nat : n \in T
  BY <1>1, <1>2, <1>3, Induction
<1>5. ASSUME NEW w \in J PROVE Good(w)
  <2>1. todo[w] \in Nat
    OBVIOUS
  <2>2. todo[w] + 1 \in T
    BY <1>4, <2>1
  <2>. QED BY <2>1, <2>2 DEF T
<1>. QED BY <1>5 DEF Good

-----------------------------------------------------------------------------
(* One step of a query *)

Own(e, p) == e[1] = "own" /\ e[2] = p
Met(e, p) == e[1] = "visit" /\ e[2] = p

\* A file that imports no file that was loaded.
Leaf(groups, q) == Range(groups[q].imports) \cap DOMAIN groups = {}

\* Each file that was visited is collected once, or its own matches are still to be.
CollectedOnce(groups, w) ==
  /\ \A i, j \in DOMAIN w.order : w.order[i] = w.order[j] => i = j
  /\ \A i, j \in DOMAIN w.stack, p \in MatchFiles :
        Own(w.stack[i], p) /\ Own(w.stack[j], p) => i = j
  /\ \A i \in DOMAIN w.stack, p \in MatchFiles :
        Own(w.stack[i], p) => p \notin Range(w.order) /\ p \in w.visited \cap DOMAIN groups
  /\ Range(w.order) \subseteq w.visited \cap DOMAIN groups
  /\ \A p \in w.visited \cap DOMAIN groups :
        p \in Range(w.order) \/ \E i \in DOMAIN w.stack : Own(w.stack[i], p)

\* What is asked for and what was visited leads to is visited or on the stack, and
\* nothing else is.
VisitsReached(groups, from, reached, w) ==
  /\ \A p \in from : p \in w.visited \/ \E i \in DOMAIN w.stack : Met(w.stack[i], p)
  /\ \A q \in w.visited \cap DOMAIN groups : \A p \in Range(groups[q].imports) :
        p \in w.visited \/ \E i \in DOMAIN w.stack : Met(w.stack[i], p)
  /\ w.visited \subseteq reached
  /\ \A i \in DOMAIN w.stack : w.stack[i][2] \in reached

\* The own matches of a leaf are collected as soon as what it imports was looked at;
\* those of the files that import it come later.
LeavesFirst(groups, w) ==
  /\ \A k \in DOMAIN w.stack, q \in DOMAIN groups : Own(w.stack[k], q) /\ Leaf(groups, q) =>
        \A i \in DOMAIN w.stack : i < k =>
           w.stack[i][1] = "visit" /\ w.stack[i][2] \notin DOMAIN groups
  /\ \A p, q \in DOMAIN groups : q \in Range(groups[p].imports) /\ Leaf(groups, q) =>
        /\ \A i \in DOMAIN w.order : w.order[i] = p =>
              \E j \in DOMAIN w.order : j < i /\ w.order[j] = q
        /\ \A i \in DOMAIN w.stack : Own(w.stack[i], p) =>
              \/ q \in Range(w.order)
              \/ \E j \in DOMAIN w.stack : j < i /\ w.stack[j][2] = q

QueryInv(groups, from, reached, w) ==
  CollectedOnce(groups, w) /\ VisitsReached(groups, from, reached, w) /\ LeavesFirst(groups, w)

\* The three steps: what is left of the stack, what was visited and what was collected.
Takes(w, v) ==
  /\ Len(w.stack) \in Nat \ {0} /\ Len(v.stack) = Len(w.stack) - 1
  /\ DOMAIN w.stack = 1 .. Len(w.stack) /\ DOMAIN v.stack = 1 .. Len(w.stack) - 1
  /\ \A i \in 1 .. Len(w.stack) - 1 : v.stack[i] = w.stack[i + 1]

Collects(groups, p, w, v) ==
  /\ Own(w.stack[1], p) /\ Takes(w, v) /\ v.visited = w.visited
  /\ Len(w.order) \in Nat /\ DOMAIN w.order = 1 .. Len(w.order)
  /\ DOMAIN v.order = 1 .. Len(w.order) + 1 /\ v.order[Len(w.order) + 1] = p
  /\ \A i \in 1 .. Len(w.order) : v.order[i] = w.order[i]

Skips(groups, p, w, v) ==
  /\ Met(w.stack[1], p) /\ (p \in w.visited \/ p \notin DOMAIN groups)
  /\ Takes(w, v) /\ v.visited = w.visited \cup {p} /\ v.order = w.order

Enters(groups, p, w, v) ==
  LET n == Len(groups[p].imports) IN
  /\ Met(w.stack[1], p) /\ p \notin w.visited /\ p \in DOMAIN groups
  /\ v.visited = w.visited \cup {p} /\ v.order = w.order
  /\ n \in Nat /\ DOMAIN groups[p].imports = 1 .. n
  /\ Len(w.stack) \in Nat \ {0} /\ DOMAIN w.stack = 1 .. Len(w.stack)
  /\ DOMAIN v.stack = 1 .. n + Len(w.stack)
  /\ \A i \in 1 .. n : Met(v.stack[i], groups[p].imports[i])
  /\ Own(v.stack[n + 1], p)
  /\ \A i \in 2 .. Len(w.stack) : v.stack[n + i] = w.stack[i]

LEMMA RestIs ==
  ASSUME NEW E, NEW s \in Seq(E), s # <<>>
  PROVE  /\ Len(s) \in Nat \ {0} /\ DOMAIN s = 1 .. Len(s)
         /\ Head(s) = s[1] /\ s[1] \in E
         /\ Tail(s) \in Seq(E) /\ Len(Tail(s)) = Len(s) - 1
         /\ DOMAIN Tail(s) = 1 .. Len(s) - 1
         /\ \A i \in 1 .. Len(s) - 1 : Tail(s)[i] = s[i + 1]
  OBVIOUS

LEMMA VisitsAre ==
  ASSUME NEW paths \in Seq(MatchFiles)
  PROVE  /\ Visits(paths) \in Seq({"visit", "own"} \X MatchFiles)
         /\ Len(Visits(paths)) = Len(paths) /\ Len(paths) \in Nat
         /\ DOMAIN paths = 1 .. Len(paths) /\ DOMAIN Visits(paths) = 1 .. Len(paths)
         /\ \A i \in 1 .. Len(paths) : Visits(paths)[i] = <<"visit", paths[i]>> /\ paths[i] \in MatchFiles
<1>. DEFINE v == Visits(paths)
<1>1. Len(paths) \in Nat /\ DOMAIN paths = 1 .. Len(paths) /\ \A i \in 1 .. Len(paths) : paths[i] \in MatchFiles
  OBVIOUS
<1>2. v = [i \in 1 .. Len(paths) |-> <<"visit", paths[i]>>]
  BY <1>1 DEF Visits
<1>3. v \in [1 .. Len(paths) -> {"visit", "own"} \X MatchFiles]
  BY <1>1, <1>2
<1>4. v \in Seq({"visit", "own"} \X MatchFiles)
  BY <1>1, <1>3, SeqDef
<1>. QED BY <1>1, <1>2, <1>4

\* The stack after a file was entered.
Stacked(t, a, x, r) ==
  /\ Len(t) = Len(a) + 1 + Len(r) /\ DOMAIN t = 1 .. Len(a) + 1 + Len(r)
  /\ \A i \in 1 .. Len(a) : t[i] = a[i]
  /\ t[Len(a) + 1] = x
  /\ \A i \in 1 .. Len(r) : t[Len(a) + 1 + i] = r[i]

LEMMA StackEntered ==
  ASSUME NEW E, NEW a \in Seq(E), NEW x \in E, NEW r \in Seq(E)
  PROVE  a \o (<<x>> \o r) \in Seq(E) /\ Stacked(a \o (<<x>> \o r), a, x, r)
<1>. DEFINE b == <<x>> \o r
            t == a \o b
<1>1. /\ b \in Seq(E) /\ Len(b) = 1 + Len(r) /\ b[1] = x /\ Len(r) \in Nat /\ Len(a) \in Nat
      /\ \A i \in 1 .. Len(r) : b[1 + i] = r[i]
  OBVIOUS
<1>. HIDE DEF b
<1>2. /\ t \in Seq(E) /\ Len(t) = Len(a) + Len(b) /\ DOMAIN t = 1 .. Len(a) + Len(b)
      /\ \A i \in 1 .. Len(a) : t[i] = a[i]
      /\ \A i \in 1 .. Len(b) : t[Len(a) + i] = b[i]
  BY <1>1
<1>. HIDE DEF t
<1>3. t[Len(a) + 1] = x
  BY <1>1, <1>2
<1>4. ASSUME NEW i \in 1 .. Len(r) PROVE t[Len(a) + 1 + i] = r[i]
  <2>1. 1 + i \in 1 .. Len(b) /\ Len(a) + (1 + i) = Len(a) + 1 + i
    BY <1>1
  <2>. QED BY <1>1, <1>2, <2>1
<1>5. t = a \o (<<x>> \o r)
  BY DEF t, b
<1>. QED BY <1>1, <1>2, <1>3, <1>4, <1>5 DEF Stacked

\* A step is one of the three.
LEMMA StepIs ==
  ASSUME NEW groups, GroupsOK(groups), NEW w \in Walks, w.stack # <<>>,
         NEW v, v = Visit(groups, w)
  PROVE  /\ v \in Walks
         /\ \E p \in MatchFiles :
               \/ Collects(groups, p, w, v)
               \/ Skips(groups, p, w, v)
               \/ Enters(groups, p, w, v)
<1>. DEFINE E == {"visit", "own"} \X MatchFiles
            p == Head(w.stack)[2]
            rest == Tail(w.stack)
            k == Len(w.stack)
<1>1. /\ w.stack \in Seq(E) /\ w.visited \in SUBSET MatchFiles /\ w.order \in Seq(MatchFiles)
      /\ w = [stack |-> w.stack, visited |-> w.visited, order |-> w.order]
  BY DEF Walks
<1>2. /\ k \in Nat \ {0} /\ DOMAIN w.stack = 1 .. k
      /\ Head(w.stack) = w.stack[1] /\ w.stack[1] \in E
      /\ rest \in Seq(E) /\ Len(rest) = k - 1 /\ DOMAIN rest = 1 .. k - 1
      /\ \A i \in 1 .. k - 1 : rest[i] = w.stack[i + 1]
  <2>. HIDE DEF E
  <2>. QED BY <1>1, RestIs
<1>3. p \in MatchFiles /\ w.stack[1][1] \in {"visit", "own"} /\ w.stack[1][2] = p
  BY <1>2
<1>. HIDE DEF E, rest, k, p
<1>4. CASE w.stack[1][1] = "own"
  <2>1. v = [stack |-> rest, visited |-> w.visited, order |-> Append(w.order, p)]
    BY <1>1, <1>2, <1>4 DEF Visit, p, rest
  <2>2. /\ Append(w.order, p) \in Seq(MatchFiles) /\ Len(w.order) \in Nat
        /\ DOMAIN w.order = 1 .. Len(w.order)
        /\ DOMAIN Append(w.order, p) = 1 .. Len(w.order) + 1
        /\ Append(w.order, p)[Len(w.order) + 1] = p
        /\ \A i \in 1 .. Len(w.order) : Append(w.order, p)[i] = w.order[i]
    BY <1>1, <1>3
  <2>3. v \in Walks
    BY <1>1, <1>2, <2>1, <2>2 DEF Walks, E
  <2>4. Collects(groups, p, w, v)
    BY <1>2, <1>3, <1>4, <2>1, <2>2 DEF Collects, Takes, Own, k
  <2>. QED BY <1>3, <2>3, <2>4
<1>5. CASE w.stack[1][1] = "visit" /\ (p \in w.visited \/ p \notin DOMAIN groups)
  <2>1. v = [stack |-> rest, visited |-> w.visited \cup {p}, order |-> w.order]
    BY <1>2, <1>5 DEF Visit, p, rest
  <2>2. v \in Walks
    BY <1>1, <1>2, <1>3, <2>1 DEF Walks, E
  <2>3. Skips(groups, p, w, v)
    BY <1>2, <1>3, <1>5, <2>1 DEF Skips, Takes, Met, k
  <2>. QED BY <1>3, <2>2, <2>3
<1>6. CASE w.stack[1][1] = "visit" /\ p \notin w.visited /\ p \in DOMAIN groups
  <2>. DEFINE imports == groups[p].imports
              n == Len(imports)
              a == Visits(imports)
              t == a \o (<<<<"own", p>>>> \o rest)
  <2>1. v = [stack |-> t, visited |-> w.visited \cup {p}, order |-> w.order]
    BY <1>2, <1>6 DEF Visit, p, rest
  <2>2. imports \in Seq(MatchFiles)
    BY <1>6 DEF GroupsOK, GroupOK
  <2>3. /\ a \in Seq(E) /\ Len(a) = n /\ n \in Nat
        /\ DOMAIN imports = 1 .. n
        /\ \A i \in 1 .. n : a[i] = <<"visit", imports[i]>>
    BY <2>2, VisitsAre DEF E
  <2>. HIDE DEF a, n, imports
  <2>4. <<"own", p>> \in E
    BY <1>3 DEF E
  <2>5. /\ t \in Seq(E) /\ Len(t) = n + 1 + (k - 1) /\ DOMAIN t = 1 .. n + 1 + (k - 1)
        /\ \A i \in 1 .. n : t[i] = a[i]
        /\ t[n + 1] = <<"own", p>>
        /\ \A i \in 1 .. k - 1 : t[n + 1 + i] = rest[i]
    <3>1. t \in Seq(E) /\ Stacked(t, a, <<"own", p>>, rest)
      BY <1>2, <2>3, <2>4, StackEntered
    <3>2. Len(a) = n /\ Len(rest) = k - 1
      BY <1>2, <2>3
    <3>. HIDE DEF t
    <3>. QED BY <3>1, <3>2 DEF Stacked
  <2>. HIDE DEF t
  <2>6. v \in Walks
    BY <1>1, <1>3, <2>1, <2>5 DEF Walks, E
  <2>7. DOMAIN t = 1 .. n + k
    BY <1>2, <2>3, <2>5
  <2>8. ASSUME NEW i \in 2 .. k PROVE t[n + i] = w.stack[i]
    <3>1. i - 1 \in 1 .. k - 1 /\ n + 1 + (i - 1) = n + i /\ (i - 1) + 1 = i
      BY <1>2, <2>3
    <3>2. t[n + 1 + (i - 1)] = rest[i - 1] /\ rest[i - 1] = w.stack[(i - 1) + 1]
      BY <1>2, <2>5, <3>1
    <3>. QED BY <3>1, <3>2
  <2>9. \A i \in 1 .. n : Met(t[i], imports[i])
    BY <2>3, <2>5 DEF Met
  <2>10. Own(t[n + 1], p)
    BY <2>5 DEF Own
  <2>11. Met(w.stack[1], p) /\ p \notin w.visited /\ p \in DOMAIN groups
    BY <1>3, <1>6 DEF Met
  <2>12. /\ v.stack = t /\ v.visited = w.visited \cup {p} /\ v.order = w.order
         /\ n \in Nat /\ DOMAIN imports = 1 .. n
         /\ k \in Nat \ {0} /\ DOMAIN w.stack = 1 .. k
    BY <1>2, <2>1, <2>3
  <2>13. Enters(groups, p, w, v)
    BY <2>7, <2>8, <2>9, <2>10, <2>11, <2>12 DEF Enters, imports, n, k
  <2>. QED BY <1>3, <2>6, <2>13
<1>. QED BY <1>3, <1>4, <1>5, <1>6

-----------------------------------------------------------------------------
(* Every step keeps what a query has found so far *)

LEMMA TakenIs ==
  ASSUME NEW w, NEW v, Takes(w, v)
  PROVE  /\ 1 \in DOMAIN w.stack
         /\ \A i \in DOMAIN w.stack : i # 1 => i - 1 \in DOMAIN v.stack /\ v.stack[i - 1] = w.stack[i]
         /\ \A i \in DOMAIN v.stack : i + 1 \in DOMAIN w.stack /\ v.stack[i] = w.stack[i + 1] /\ i + 1 # 1
         /\ \A i \in DOMAIN w.stack : i \in Int /\ i >= 1
         /\ \A i \in DOMAIN v.stack : i \in Int /\ i >= 1
<1>1. Len(w.stack) \in Nat /\ Len(w.stack) # 0
  BY DEF Takes
<1>2. ASSUME NEW i \in DOMAIN w.stack, i # 1 PROVE i - 1 \in DOMAIN v.stack /\ v.stack[i - 1] = w.stack[i]
  <2>1. i - 1 \in 1 .. Len(w.stack) - 1 /\ (i - 1) + 1 = i
    BY <1>1, <1>2 DEF Takes
  <2>2. v.stack[i - 1] = w.stack[(i - 1) + 1]
    BY <2>1 DEF Takes
  <2>. QED BY <2>1, <2>2 DEF Takes
<1>. QED BY <1>1, <1>2 DEF Takes

LEMMA CollectedIs ==
  ASSUME NEW groups, NEW p, NEW w, NEW v, Collects(groups, p, w, v)
  PROVE  /\ Range(v.order) = Range(w.order) \cup {p}
         /\ \A i \in DOMAIN w.order : i \in DOMAIN v.order /\ v.order[i] = w.order[i] /\ i \in Int
         /\ \A i \in DOMAIN v.order : i \notin DOMAIN w.order =>
               /\ v.order[i] = p
               /\ \A j \in DOMAIN w.order : j < i
<1>1. \A i \in DOMAIN w.order : i \in DOMAIN v.order /\ v.order[i] = w.order[i] /\ i \in Int
  BY DEF Collects
<1>2. Len(w.order) + 1 \in DOMAIN v.order /\ v.order[Len(w.order) + 1] = p
  BY DEF Collects
<1>3. \A i \in DOMAIN v.order : i \notin DOMAIN w.order => v.order[i] = p /\ \A j \in DOMAIN w.order : j < i
  BY DEF Collects
<1>. QED BY <1>1, <1>2, <1>3 DEF Range

\* Collecting a file, skipping one and entering one, each in turn: files are collected
\* once,
LEMMA CollectsOnce ==
  ASSUME NEW groups, NEW w, NEW v, NEW p \in MatchFiles, CollectedOnce(groups, w), Collects(groups, p, w, v)
  PROVE  CollectedOnce(groups, v)
<1>0. Own(w.stack[1], p) /\ Takes(w, v) /\ v.visited = w.visited
  BY DEF Collects
<1>1. p \notin Range(w.order) /\ p \in w.visited \cap DOMAIN groups
  BY <1>0, TakenIs DEF CollectedOnce
<1>2. ASSUME NEW i \in DOMAIN v.order, NEW j \in DOMAIN v.order, v.order[i] = v.order[j] PROVE i = j
  <2>1. \A k \in DOMAIN w.order : v.order[k] # p
    BY <1>1, CollectedIs DEF Range
  <2>2. CASE i \in DOMAIN w.order /\ j \in DOMAIN w.order
    BY <1>2, <2>2, CollectedIs DEF CollectedOnce
  <2>3. CASE i \notin DOMAIN w.order /\ j \notin DOMAIN w.order
    BY <2>3 DEF Collects
  <2>. QED BY <1>2, <2>1, <2>2, <2>3, CollectedIs
<1>3. \A i, j \in DOMAIN v.stack, q \in MatchFiles : Own(v.stack[i], q) /\ Own(v.stack[j], q) => i = j
  <2>1. ASSUME NEW i \in DOMAIN v.stack, NEW j \in DOMAIN v.stack, NEW q \in MatchFiles,
               Own(v.stack[i], q), Own(v.stack[j], q)
        PROVE  i = j
    <3>1. i + 1 = j + 1
      BY <1>0, <2>1, TakenIs DEF CollectedOnce
    <3>. QED BY <1>0, <3>1, TakenIs
  <2>. QED BY <2>1
<1>4. ASSUME NEW i \in DOMAIN v.stack, NEW q \in MatchFiles, Own(v.stack[i], q)
      PROVE  q \notin Range(v.order) /\ q \in v.visited \cap DOMAIN groups
  <2>1. i + 1 \in DOMAIN w.stack /\ i + 1 # 1 /\ Own(w.stack[i + 1], q) /\ 1 \in DOMAIN w.stack
    BY <1>0, <1>4, TakenIs
  <2>2. q # p
    BY <1>0, <2>1 DEF CollectedOnce
  <2>3. q \notin Range(w.order) /\ q \in w.visited \cap DOMAIN groups
    BY <2>1 DEF CollectedOnce
  <2>. QED BY <1>0, <2>2, <2>3, CollectedIs
<1>5. Range(v.order) \subseteq v.visited \cap DOMAIN groups
  BY <1>0, <1>1, CollectedIs DEF CollectedOnce
<1>6. ASSUME NEW q \in v.visited \cap DOMAIN groups
      PROVE  q \in Range(v.order) \/ \E i \in DOMAIN v.stack : Own(v.stack[i], q)
  <2>1. CASE q \in Range(w.order)
    BY <2>1, CollectedIs
  <2>2. ASSUME NEW i \in DOMAIN w.stack, Own(w.stack[i], q) PROVE q \in Range(v.order) \/ \E j \in DOMAIN v.stack : Own(v.stack[j], q)
    <3>1. CASE i = 1
      <4>1. q = p
        BY <1>0, <2>2, <3>1 DEF Own
      <4>. QED BY <4>1, CollectedIs
    <3>2. CASE i # 1
      <4>1. i - 1 \in DOMAIN v.stack /\ Own(v.stack[i - 1], q)
        BY <1>0, <2>2, <3>2, TakenIs
      <4>. QED BY <4>1
    <3>. QED BY <3>1, <3>2
  <2>. QED BY <1>0, <2>1, <2>2 DEF CollectedOnce
<1>. QED BY <1>2, <1>3, <1>4, <1>5, <1>6 DEF CollectedOnce

LEMMA SkipsOnce ==
  ASSUME NEW groups, NEW w, NEW v, NEW p \in MatchFiles, CollectedOnce(groups, w), Skips(groups, p, w, v)
  PROVE  CollectedOnce(groups, v)
<1>0. /\ Met(w.stack[1], p) /\ Takes(w, v) /\ v.visited = w.visited \cup {p} /\ v.order = w.order
      /\ v.visited \cap DOMAIN groups = w.visited \cap DOMAIN groups
  BY DEF Skips
<1>3. \A i, j \in DOMAIN v.stack, q \in MatchFiles : Own(v.stack[i], q) /\ Own(v.stack[j], q) => i = j
  <2>1. ASSUME NEW i \in DOMAIN v.stack, NEW j \in DOMAIN v.stack, NEW q \in MatchFiles,
               Own(v.stack[i], q), Own(v.stack[j], q)
        PROVE  i = j
    <3>1. i + 1 = j + 1
      BY <1>0, <2>1, TakenIs DEF CollectedOnce
    <3>. QED BY <1>0, <3>1, TakenIs
  <2>. QED BY <2>1
<1>4. \A i \in DOMAIN v.stack, q \in MatchFiles :
        Own(v.stack[i], q) => q \notin Range(v.order) /\ q \in v.visited \cap DOMAIN groups
  BY <1>0, TakenIs DEF CollectedOnce
<1>6. ASSUME NEW q \in v.visited \cap DOMAIN groups
      PROVE  q \in Range(v.order) \/ \E i \in DOMAIN v.stack : Own(v.stack[i], q)
  <2>2. ASSUME NEW i \in DOMAIN w.stack, Own(w.stack[i], q) PROVE \E j \in DOMAIN v.stack : Own(v.stack[j], q)
    <3>1. i # 1
      BY <1>0, <2>2 DEF Own, Met
    <3>2. i - 1 \in DOMAIN v.stack /\ Own(v.stack[i - 1], q)
      BY <1>0, <2>2, <3>1, TakenIs
    <3>. QED BY <3>2
  <2>. QED BY <1>0, <2>2 DEF CollectedOnce
<1>. QED BY <1>0, <1>3, <1>4, <1>6 DEF CollectedOnce

\* The stack of a file that was entered: its imports, its own matches, what is left.
LEMMA EnteredIs ==
  ASSUME NEW groups, NEW p, NEW w, NEW v, Enters(groups, p, w, v),
         NEW n, n = Len(groups[p].imports)
  PROVE  /\ n \in Nat /\ 1 \in DOMAIN w.stack /\ n + 1 \in DOMAIN v.stack /\ Own(v.stack[n + 1], p)
         /\ \A i \in DOMAIN w.stack : i # 1 => n + i \in DOMAIN v.stack /\ v.stack[n + i] = w.stack[i]
         /\ \A i \in DOMAIN v.stack :
               \/ i \in 1 .. n /\ Met(v.stack[i], groups[p].imports[i]) /\ groups[p].imports[i] \in Range(groups[p].imports)
               \/ i = n + 1
               \/ i - n \in DOMAIN w.stack /\ i - n # 1 /\ v.stack[i] = w.stack[i - n] /\ i > n + 1
         /\ \A q \in Range(groups[p].imports) : \E i \in DOMAIN v.stack : i <= n /\ Met(v.stack[i], q)
         /\ \A i \in DOMAIN w.stack : i \in Int /\ i >= 1
         /\ \A i \in DOMAIN v.stack : i \in Int /\ i >= 1
<1>. DEFINE k == Len(w.stack)
            imports == groups[p].imports
<1>1. /\ n \in Nat /\ DOMAIN imports = 1 .. n
      /\ k \in Nat \ {0} /\ DOMAIN w.stack = 1 .. k
      /\ DOMAIN v.stack = 1 .. n + k
      /\ \A i \in 1 .. n : Met(v.stack[i], imports[i])
      /\ Own(v.stack[n + 1], p)
      /\ \A i \in 2 .. k : v.stack[n + i] = w.stack[i]
  BY DEF Enters
<1>. HIDE DEF k, imports
<1>2. 1 \in DOMAIN w.stack /\ n + 1 \in DOMAIN v.stack
  BY <1>1
<1>3. \A i \in DOMAIN w.stack : i # 1 => n + i \in DOMAIN v.stack /\ v.stack[n + i] = w.stack[i]
  <2>1. ASSUME NEW i \in 1 .. k, i # 1 PROVE i \in 2 .. k /\ n + i \in 1 .. n + k
    <3>1. i \in Nat /\ n \in Nat /\ k \in Nat /\ 2 <= i /\ i <= k
      BY <1>1, <2>1
    <3>. QED BY <3>1
  <2>. QED BY <1>1, <2>1
<1>4. ASSUME NEW i \in DOMAIN v.stack
      PROVE  \/ i \in 1 .. n /\ Met(v.stack[i], imports[i]) /\ imports[i] \in Range(imports)
             \/ i = n + 1
             \/ i - n \in DOMAIN w.stack /\ i - n # 1 /\ v.stack[i] = w.stack[i - n] /\ i > n + 1
  <2>1. CASE i \in 1 .. n
    BY <1>1, <2>1 DEF Range
  <2>2. CASE i > n + 1
    <3>0. i \in Nat /\ n \in Nat /\ k \in Nat /\ i <= n + k /\ n + 1 < i
      BY <1>1, <2>2
    <3>1. i - n \in 2 .. k /\ i - n \in 1 .. k /\ i - n # 1 /\ n + (i - n) = i
      BY <3>0
    <3>2. v.stack[n + (i - n)] = w.stack[i - n]
      BY <1>1, <3>1
    <3>. QED BY <1>1, <2>2, <3>1, <3>2
  <2>. QED BY <1>1, <2>1, <2>2
<1>5. ASSUME NEW q \in Range(imports) PROVE \E i \in DOMAIN v.stack : i <= n /\ Met(v.stack[i], q)
  <2>1. PICK i \in DOMAIN imports : imports[i] = q
    BY <1>5 DEF Range
  <2>2. i \in 1 .. n /\ i \in 1 .. n + k /\ i <= n
    BY <1>1, <2>1
  <2>. QED BY <1>1, <2>1, <2>2
<1>6. (\A i \in DOMAIN w.stack : i \in Int /\ i >= 1) /\ (\A i \in DOMAIN v.stack : i \in Int /\ i >= 1)
  BY <1>1
<1>. QED BY <1>1, <1>2, <1>3, <1>4, <1>5, <1>6 DEF imports

LEMMA EntersOnce ==
  ASSUME NEW groups, NEW w, NEW v, NEW p \in MatchFiles, CollectedOnce(groups, w), Enters(groups, p, w, v)
  PROVE  CollectedOnce(groups, v)
<1>. DEFINE n == Len(groups[p].imports)
<1>0. /\ Met(w.stack[1], p) /\ v.visited = w.visited \cup {p} /\ v.order = w.order
      /\ p \notin w.visited /\ p \in DOMAIN groups
  BY DEF Enters
<1>. HIDE DEF n
<1>1. ASSUME NEW i \in DOMAIN v.stack, NEW q \in MatchFiles, Own(v.stack[i], q)
      PROVE  \/ i = n + 1 /\ q = p
             \/ q # p /\ i - n \in DOMAIN w.stack /\ Own(w.stack[i - n], q)
  <2>1. CASE i = n + 1
    <3>1. Own(v.stack[i], p)
      BY <2>1, EnteredIs DEF n
    <3>. QED BY <1>1, <2>1, <3>1 DEF Own
  <2>2. CASE i - n \in DOMAIN w.stack /\ v.stack[i] = w.stack[i - n]
    <3>1. Own(w.stack[i - n], q)
      BY <1>1, <2>2
    <3>2. q \in w.visited
      BY <2>2, <3>1 DEF CollectedOnce
    <3>. QED BY <1>0, <2>2, <3>1, <3>2
  <2>3. ~Met(v.stack[i], groups[p].imports[i])
    BY <1>1 DEF Own, Met
  <2>. QED BY <2>1, <2>2, <2>3, EnteredIs DEF n
<1>2. n \in Nat /\ \A i \in DOMAIN v.stack : i \in Int
  BY EnteredIs DEF n
<1>3. \A i, j \in DOMAIN v.stack, q \in MatchFiles : Own(v.stack[i], q) /\ Own(v.stack[j], q) => i = j
  <2>1. ASSUME NEW i \in DOMAIN v.stack, NEW j \in DOMAIN v.stack, NEW q \in MatchFiles,
               Own(v.stack[i], q), Own(v.stack[j], q)
        PROVE  i = j
    <3>1. CASE q = p
      BY <1>1, <2>1, <3>1
    <3>2. CASE q # p
      <4>1. i - n = j - n
        BY <1>1, <2>1, <3>2 DEF CollectedOnce
      <4>. QED BY <1>2, <4>1
    <3>. QED BY <3>1, <3>2
  <2>. QED BY <2>1
<1>4. ASSUME NEW i \in DOMAIN v.stack, NEW q \in MatchFiles, Own(v.stack[i], q)
      PROVE  q \notin Range(v.order) /\ q \in v.visited \cap DOMAIN groups
  <2>1. CASE q = p
    BY <1>0, <2>1 DEF CollectedOnce
  <2>2. CASE q # p
    BY <1>0, <1>1, <1>4, <2>2 DEF CollectedOnce
  <2>. QED BY <2>1, <2>2
<1>5. Range(v.order) \subseteq v.visited \cap DOMAIN groups
  BY <1>0 DEF CollectedOnce
<1>6. ASSUME NEW q \in v.visited \cap DOMAIN groups
      PROVE  q \in Range(v.order) \/ \E i \in DOMAIN v.stack : Own(v.stack[i], q)
  <2>1. CASE q = p
    BY <2>1, EnteredIs DEF n
  <2>2. ASSUME NEW i \in DOMAIN w.stack, Own(w.stack[i], q) PROVE \E j \in DOMAIN v.stack : Own(v.stack[j], q)
    <3>1. i # 1
      BY <1>0, <2>2 DEF Own, Met
    <3>2. \A h \in DOMAIN w.stack : h # 1 => n + h \in DOMAIN v.stack /\ v.stack[n + h] = w.stack[h]
      BY EnteredIs DEF n
    <3>3. n + i \in DOMAIN v.stack /\ Own(v.stack[n + i], q)
      BY <2>2, <3>1, <3>2
    <3>. QED BY <3>3
  <2>. QED BY <1>0, <2>1, <2>2 DEF CollectedOnce
<1>. QED BY <1>0, <1>3, <1>4, <1>5, <1>6 DEF CollectedOnce

\* what has been met stays on the stack or is visited, and only what can be reached is,
Pending(w, q) == q \in w.visited \/ \E i \in DOMAIN w.stack : Met(w.stack[i], q)

LEMMA PendingStays ==
  ASSUME NEW groups, NEW w, NEW v, NEW p, NEW q, Pending(w, q),
         Collects(groups, p, w, v) \/ Skips(groups, p, w, v) \/ Enters(groups, p, w, v)
  PROVE  Pending(v, q)
<1>1. CASE Collects(groups, p, w, v)
  <2>0. Own(w.stack[1], p) /\ Takes(w, v) /\ v.visited = w.visited
    BY <1>1 DEF Collects
  <2>1. ASSUME NEW i \in DOMAIN w.stack, Met(w.stack[i], q) PROVE \E j \in DOMAIN v.stack : Met(v.stack[j], q)
    <3>1. i # 1
      BY <2>0, <2>1 DEF Own, Met
    <3>. QED BY <2>0, <2>1, <3>1, TakenIs
  <2>. QED BY <2>0, <2>1 DEF Pending
<1>2. CASE Skips(groups, p, w, v)
  <2>0. Met(w.stack[1], p) /\ Takes(w, v) /\ v.visited = w.visited \cup {p}
    BY <1>2 DEF Skips
  <2>1. ASSUME NEW i \in DOMAIN w.stack, Met(w.stack[i], q)
        PROVE  q = p \/ \E j \in DOMAIN v.stack : Met(v.stack[j], q)
    <3>1. CASE i = 1
      BY <2>0, <2>1, <3>1 DEF Met
    <3>2. CASE i # 1
      BY <2>0, <2>1, <3>2, TakenIs
    <3>. QED BY <3>1, <3>2
  <2>. QED BY <2>0, <2>1 DEF Pending
<1>3. CASE Enters(groups, p, w, v)
  <2>0. Met(w.stack[1], p) /\ v.visited = w.visited \cup {p}
    BY <1>3 DEF Enters
  <2>1. ASSUME NEW i \in DOMAIN w.stack, Met(w.stack[i], q)
        PROVE  q = p \/ \E j \in DOMAIN v.stack : Met(v.stack[j], q)
    <3>1. CASE i = 1
      BY <2>0, <2>1, <3>1 DEF Met
    <3>2. CASE i # 1
      <4>. DEFINE n == Len(groups[p].imports)
      <4>1. n + i \in DOMAIN v.stack /\ v.stack[n + i] = w.stack[i]
        <5>. HIDE DEF n
        <5>. QED BY <1>3, <3>2, EnteredIs DEF n
      <4>. QED BY <2>1, <4>1
    <3>. QED BY <3>1, <3>2
  <2>. QED BY <2>0, <2>1 DEF Pending
<1>. QED BY <1>1, <1>2, <1>3

LEMMA StaysReached ==
  ASSUME NEW groups, NEW w, NEW v, NEW p \in MatchFiles, NEW from, NEW reached,
         \A q \in reached \cap DOMAIN groups : Range(groups[q].imports) \subseteq reached,
         VisitsReached(groups, from, reached, w),
         Collects(groups, p, w, v) \/ Skips(groups, p, w, v) \/ Enters(groups, p, w, v)
  PROVE  VisitsReached(groups, from, reached, v)
<1>1. \A q \in from : Pending(w, q)
  BY DEF VisitsReached, Pending
<1>2. \A r \in w.visited \cap DOMAIN groups : \A q \in Range(groups[r].imports) : Pending(w, q)
  BY DEF VisitsReached, Pending
<1>3. \A q \in from : Pending(v, q)
  BY <1>1, PendingStays
<1>4. \A r \in w.visited \cap DOMAIN groups : \A q \in Range(groups[r].imports) : Pending(v, q)
  BY <1>2, PendingStays
<1>5. p \in reached
  <2>1. 1 \in DOMAIN w.stack /\ w.stack[1][2] = p
    <3>1. CASE Takes(w, v)
      BY <3>1, TakenIs DEF Collects, Skips, Enters, Own, Met
    <3>2. CASE Enters(groups, p, w, v)
      BY <3>2, EnteredIs DEF Enters, Met
    <3>. QED BY <3>1, <3>2 DEF Collects, Skips
  <2>. QED BY <2>1 DEF VisitsReached
<1>6. v.visited \subseteq reached
  BY <1>5 DEF Collects, Skips, Enters, VisitsReached
<1>7. ASSUME NEW r \in v.visited \cap DOMAIN groups, NEW q \in Range(groups[r].imports) PROVE Pending(v, q)
  <2>1. CASE r \in w.visited
    BY <1>4, <1>7, <2>1
  <2>2. CASE r \notin w.visited
    <3>1. r = p /\ Enters(groups, p, w, v)
      BY <1>7, <2>2 DEF Collects, Skips, Enters
    <3>2. \E i \in DOMAIN v.stack : Met(v.stack[i], q)
      BY <1>7, <3>1, EnteredIs
    <3>. QED BY <3>2 DEF Pending
  <2>. QED BY <2>1, <2>2
<1>8. ASSUME NEW i \in DOMAIN v.stack PROVE v.stack[i][2] \in reached
  <2>1. CASE Takes(w, v)
    BY <1>8, <2>1, TakenIs DEF VisitsReached
  <2>2. CASE Enters(groups, p, w, v)
    <3>. DEFINE n == Len(groups[p].imports)
    <3>1. CASE i \in 1 .. n /\ Met(v.stack[i], groups[p].imports[i]) /\ groups[p].imports[i] \in Range(groups[p].imports)
      <4>1. p \in reached \cap DOMAIN groups
        BY <1>5, <2>2 DEF Enters
      <4>. QED BY <3>1, <4>1 DEF Met
    <3>2. CASE i = n + 1
      <4>1. Own(v.stack[i], p)
        <5>. HIDE DEF n
        <5>. QED BY <2>2, <3>2, EnteredIs DEF n
      <4>. QED BY <1>5, <4>1 DEF Own
    <3>3. CASE i - n \in DOMAIN w.stack /\ v.stack[i] = w.stack[i - n]
      BY <3>3 DEF VisitsReached
    <3>. HIDE DEF n
    <3>. QED BY <2>2, <3>1, <3>2, <3>3, EnteredIs DEF n
  <2>. QED BY <2>1, <2>2 DEF Collects, Skips
<1>. QED BY <1>3, <1>6, <1>7, <1>8 DEF VisitsReached, Pending

\* and leaves come first.
LEMMA CollectsLeaves ==
  ASSUME NEW groups, NEW w, NEW v, NEW p \in MatchFiles, DOMAIN groups \subseteq MatchFiles,
         LeavesFirst(groups, w), Collects(groups, p, w, v)
  PROVE  LeavesFirst(groups, v)
<1>0. Own(w.stack[1], p) /\ Takes(w, v)
  BY DEF Collects
<1>1. ASSUME NEW k \in DOMAIN v.stack, NEW q \in DOMAIN groups, Own(v.stack[k], q), Leaf(groups, q)
      PROVE  FALSE
  <2>1. k + 1 \in DOMAIN w.stack /\ Own(w.stack[k + 1], q) /\ 1 \in DOMAIN w.stack /\ 1 < k + 1
    BY <1>0, <1>1, TakenIs
  <2>2. w.stack[1][1] = "visit"
    BY <1>1, <2>1 DEF LeavesFirst
  <2>. QED BY <1>0, <2>2 DEF Own
<1>2. ASSUME NEW a \in DOMAIN groups, NEW q \in DOMAIN groups, q \in Range(groups[a].imports), Leaf(groups, q),
             NEW i \in DOMAIN v.order, v.order[i] = a
      PROVE  \E j \in DOMAIN v.order : j < i /\ v.order[j] = q
  <2>1. CASE i \in DOMAIN w.order
    <3>1. w.order[i] = a
      BY <1>2, <2>1, CollectedIs
    <3>2. PICK j \in DOMAIN w.order : j < i /\ w.order[j] = q
      BY <1>2, <2>1, <3>1 DEF LeavesFirst
    <3>. QED BY <3>2, CollectedIs
  <2>2. CASE i \notin DOMAIN w.order
    <3>1. a = p /\ \A j \in DOMAIN w.order : j < i
      BY <1>2, <2>2, CollectedIs
    <3>2. \A j \in DOMAIN w.stack : ~(j < 1)
      BY <1>0, TakenIs
    <3>3. q \in Range(w.order)
      BY <1>0, <1>2, <3>1, <3>2, TakenIs DEF LeavesFirst
    <3>4. PICK j \in DOMAIN w.order : w.order[j] = q
      BY <3>3 DEF Range
    <3>. QED BY <3>1, <3>4, CollectedIs
  <2>. QED BY <2>1, <2>2
<1>3. ASSUME NEW a \in DOMAIN groups, NEW q \in DOMAIN groups, q \in Range(groups[a].imports), Leaf(groups, q),
             NEW i \in DOMAIN v.stack, Own(v.stack[i], a)
      PROVE  q \in Range(v.order) \/ \E j \in DOMAIN v.stack : j < i /\ v.stack[j][2] = q
  <2>1. i + 1 \in DOMAIN w.stack /\ Own(w.stack[i + 1], a)
    BY <1>0, <1>3, TakenIs
  <2>2. CASE q \in Range(w.order)
    BY <2>2, CollectedIs
  <2>3. ASSUME NEW j \in DOMAIN w.stack, j < i + 1, w.stack[j][2] = q
        PROVE  q \in Range(v.order) \/ \E h \in DOMAIN v.stack : h < i /\ v.stack[h][2] = q
    <3>1. CASE j = 1
      BY <1>0, <2>3, <3>1, CollectedIs DEF Own
    <3>2. CASE j # 1
      <4>1. j - 1 \in DOMAIN v.stack /\ v.stack[j - 1] = w.stack[j] /\ i \in Int /\ j \in Int
        BY <1>0, <3>2, TakenIs
      <4>2. j - 1 < i
        BY <2>3, <4>1
      <4>. QED BY <2>3, <4>1, <4>2
    <3>. QED BY <3>1, <3>2
  <2>. QED BY <1>3, <2>1, <2>2, <2>3 DEF LeavesFirst
<1>. QED BY <1>1, <1>2, <1>3 DEF LeavesFirst

LEMMA SkipsLeaves ==
  ASSUME NEW groups, NEW w, NEW v, NEW p \in MatchFiles, DOMAIN groups \subseteq MatchFiles,
         CollectedOnce(groups, w), LeavesFirst(groups, w), Skips(groups, p, w, v)
  PROVE  LeavesFirst(groups, v)
<1>0. /\ Met(w.stack[1], p) /\ Takes(w, v) /\ v.order = w.order
      /\ p \in w.visited \/ p \notin DOMAIN groups
  BY DEF Skips
<1>1. ASSUME NEW k \in DOMAIN v.stack, NEW q \in DOMAIN groups, Own(v.stack[k], q), Leaf(groups, q),
             NEW i \in DOMAIN v.stack, i < k
      PROVE  v.stack[i][1] = "visit" /\ v.stack[i][2] \notin DOMAIN groups
  <2>1. /\ k + 1 \in DOMAIN w.stack /\ v.stack[k] = w.stack[k + 1] /\ k \in Int
        /\ i + 1 \in DOMAIN w.stack /\ v.stack[i] = w.stack[i + 1] /\ i \in Int
    BY <1>0, TakenIs
  <2>2. i + 1 < k + 1
    BY <1>1, <2>1
  <2>. QED BY <1>1, <2>1, <2>2 DEF LeavesFirst
<1>2. ASSUME NEW q \in DOMAIN groups, Leaf(groups, q), w.stack[1][2] = q PROVE q \in Range(w.order)
  <2>1. q = p /\ q \in w.visited /\ q \in MatchFiles
    BY <1>0, <1>2 DEF Met
  <2>2. ASSUME NEW k \in DOMAIN w.stack, Own(w.stack[k], q) PROVE FALSE
    <3>1. k # 1
      BY <1>0, <2>2 DEF Own, Met
    <3>2. 1 \in DOMAIN w.stack /\ 1 < k
      BY <1>0, <2>2, <3>1, TakenIs
    <3>3. w.stack[1][2] \notin DOMAIN groups
      BY <1>2, <2>2, <3>2 DEF LeavesFirst
    <3>. QED BY <1>2, <3>3
  <2>. QED BY <2>1, <2>2 DEF CollectedOnce
<1>3. ASSUME NEW a \in DOMAIN groups, NEW q \in DOMAIN groups, q \in Range(groups[a].imports), Leaf(groups, q),
             NEW i \in DOMAIN v.stack, Own(v.stack[i], a)
      PROVE  q \in Range(v.order) \/ \E j \in DOMAIN v.stack : j < i /\ v.stack[j][2] = q
  <2>1. i + 1 \in DOMAIN w.stack /\ Own(w.stack[i + 1], a)
    BY <1>0, <1>3, TakenIs
  <2>3. ASSUME NEW j \in DOMAIN w.stack, j < i + 1, w.stack[j][2] = q
        PROVE  q \in Range(v.order) \/ \E h \in DOMAIN v.stack : h < i /\ v.stack[h][2] = q
    <3>1. CASE j = 1
      BY <1>0, <1>2, <1>3, <2>3, <3>1
    <3>2. CASE j # 1
      <4>1. j - 1 \in DOMAIN v.stack /\ v.stack[j - 1] = w.stack[j] /\ i \in Int /\ j \in Int
        BY <1>0, <3>2, TakenIs
      <4>2. j - 1 < i
        BY <2>3, <4>1
      <4>. QED BY <2>3, <4>1, <4>2
    <3>. QED BY <3>1, <3>2
  <2>. QED BY <1>0, <1>3, <2>1, <2>3 DEF LeavesFirst
<1>4. \A a, q \in DOMAIN groups : q \in Range(groups[a].imports) /\ Leaf(groups, q) =>
        \A i \in DOMAIN v.order : v.order[i] = a => \E j \in DOMAIN v.order : j < i /\ v.order[j] = q
  BY <1>0 DEF LeavesFirst
<1>. QED BY <1>1, <1>3, <1>4 DEF LeavesFirst

LEMMA EntersLeaves ==
  ASSUME NEW groups, NEW w, NEW v, NEW p \in MatchFiles, DOMAIN groups \subseteq MatchFiles,
         LeavesFirst(groups, w), Enters(groups, p, w, v)
  PROVE  LeavesFirst(groups, v)
<1>. DEFINE n == Len(groups[p].imports)
<1>0. Met(w.stack[1], p) /\ v.order = w.order /\ p \in DOMAIN groups
  BY DEF Enters
<1>. HIDE DEF n
<1>1. n \in Nat /\ \A i \in DOMAIN v.stack : i \in Int
  BY EnteredIs DEF n
<1>2. ASSUME NEW k \in DOMAIN v.stack, NEW q \in DOMAIN groups, Own(v.stack[k], q)
      PROVE  \/ k = n + 1 /\ q = p
             \/ k > n + 1 /\ k - n \in DOMAIN w.stack /\ k - n # 1 /\ Own(w.stack[k - n], q)
  <2>1. ~Met(v.stack[k], groups[p].imports[k])
    BY <1>2 DEF Own, Met
  <2>2. CASE k = n + 1
    <3>1. Own(v.stack[k], p)
      BY <2>2, EnteredIs DEF n
    <3>. QED BY <1>2, <2>2, <3>1 DEF Own
  <2>3. CASE k > n + 1 /\ k - n \in DOMAIN w.stack /\ k - n # 1 /\ v.stack[k] = w.stack[k - n]
    BY <1>2, <2>3
  <2>. QED BY <2>1, <2>2, <2>3, EnteredIs DEF n
<1>3. ASSUME NEW k \in DOMAIN v.stack, NEW q \in DOMAIN groups, Own(v.stack[k], q), Leaf(groups, q),
             NEW i \in DOMAIN v.stack, i < k
      PROVE  v.stack[i][1] = "visit" /\ v.stack[i][2] \notin DOMAIN groups
  <2>1. CASE k = n + 1 /\ q = p
    <3>1. i \in 1 .. n /\ Met(v.stack[i], groups[p].imports[i]) /\ groups[p].imports[i] \in Range(groups[p].imports)
      <4>1. ~(i > n + 1) /\ i # n + 1
        BY <1>1, <1>3, <2>1
      <4>. QED BY <4>1, EnteredIs DEF n
    <3>2. groups[p].imports[i] \notin DOMAIN groups
      BY <1>3, <2>1, <3>1 DEF Leaf
    <3>. QED BY <3>1, <3>2 DEF Met
  <2>2. CASE k - n \in DOMAIN w.stack /\ k - n # 1 /\ Own(w.stack[k - n], q)
    <3>1. 1 \in DOMAIN w.stack /\ 1 < k - n
      <4>1. 1 \in DOMAIN w.stack /\ k - n \in Int /\ k - n >= 1
        BY <2>2, EnteredIs DEF n
      <4>. QED BY <2>2, <4>1
    <3>2. w.stack[1][2] \notin DOMAIN groups
      BY <1>3, <2>2, <3>1 DEF LeavesFirst
    <3>. QED BY <1>0, <3>2 DEF Met
  <2>. QED BY <1>2, <1>3, <2>1, <2>2
<1>4. ASSUME NEW a \in DOMAIN groups, NEW q \in DOMAIN groups, q \in Range(groups[a].imports), Leaf(groups, q),
             NEW i \in DOMAIN v.stack, Own(v.stack[i], a)
      PROVE  q \in Range(v.order) \/ \E j \in DOMAIN v.stack : j < i /\ v.stack[j][2] = q
  <2>1. CASE i = n + 1 /\ a = p
    <3>1. PICK j \in DOMAIN v.stack : j <= n /\ Met(v.stack[j], q)
      BY <1>4, <2>1, EnteredIs DEF n
    <3>2. j < i
      BY <1>1, <2>1, <3>1
    <3>. QED BY <3>1, <3>2 DEF Met
  <2>2. CASE i > n + 1 /\ i - n \in DOMAIN w.stack /\ Own(w.stack[i - n], a)
    <3>1. ASSUME NEW j \in DOMAIN w.stack, j < i - n, w.stack[j][2] = q
          PROVE  \E h \in DOMAIN v.stack : h < i /\ v.stack[h][2] = q
      <4>1. CASE j = 1
        <5>1. n + 1 \in DOMAIN v.stack /\ v.stack[n + 1][2] = p /\ n + 1 < i
          BY <1>1, <2>2, EnteredIs DEF n, Own
        <5>. QED BY <1>0, <3>1, <4>1, <5>1 DEF Met
      <4>2. CASE j # 1
        <5>1. n + j \in DOMAIN v.stack /\ v.stack[n + j] = w.stack[j] /\ j \in Int
          <6>1. \A h \in DOMAIN w.stack : h # 1 => n + h \in DOMAIN v.stack /\ v.stack[n + h] = w.stack[h]
            BY EnteredIs DEF n
          <6>2. j \in Int
            BY EnteredIs DEF n
          <6>. QED BY <4>2, <6>1, <6>2
        <5>2. n + j < i
          BY <1>1, <3>1, <5>1
        <5>. QED BY <3>1, <5>1, <5>2
      <4>. QED BY <4>1, <4>2
    <3>. QED BY <1>0, <1>4, <2>2, <3>1 DEF LeavesFirst
  <2>. QED BY <1>2, <1>4, <2>1, <2>2
<1>5. \A a, q \in DOMAIN groups : q \in Range(groups[a].imports) /\ Leaf(groups, q) =>
        \A i \in DOMAIN v.order : v.order[i] = a => \E j \in DOMAIN v.order : j < i /\ v.order[j] = q
  BY <1>0 DEF LeavesFirst
<1>. QED BY <1>3, <1>4, <1>5 DEF LeavesFirst

-----------------------------------------------------------------------------
(* What a query collects *)

Imported(groups) ==
  [p \in MatchFiles |-> IF p \in DOMAIN groups THEN Range(groups[p].imports) ELSE {}]

LEMMA ImportedIs ==
  ASSUME NEW groups, GroupsOK(groups)
  PROVE  Imported(groups) \in [MatchFiles -> SUBSET MatchFiles]
<1>1. ASSUME NEW p \in DOMAIN groups PROVE Range(groups[p].imports) \in SUBSET MatchFiles
  <2>1. groups[p].imports \in Seq(MatchFiles)
    BY DEF GroupsOK, GroupOK
  <2>. QED BY <2>1 DEF Range
<1>. QED BY <1>1 DEF Imported

LEMMA StepKeeps ==
  ASSUME NEW groups, GroupsOK(groups), NEW from, NEW reached,
         \A q \in reached \cap DOMAIN groups : Range(groups[q].imports) \subseteq reached,
         NEW w \in Walks, w.stack # <<>>, QueryInv(groups, from, reached, w),
         NEW v, v = Visit(groups, w)
  PROVE  v \in Walks /\ QueryInv(groups, from, reached, v)
<1>1. v \in Walks
  BY StepIs
<1>2. PICK p \in MatchFiles : Collects(groups, p, w, v) \/ Skips(groups, p, w, v) \/ Enters(groups, p, w, v)
  BY StepIs
<1>3. DOMAIN groups \subseteq MatchFiles
  BY DEF GroupsOK
<1>4. CollectedOnce(groups, w) /\ VisitsReached(groups, from, reached, w) /\ LeavesFirst(groups, w)
  BY DEF QueryInv
<1>5. CollectedOnce(groups, v)
  BY <1>2, <1>4, CollectsOnce, SkipsOnce, EntersOnce
<1>6. VisitsReached(groups, from, reached, v)
  BY <1>2, <1>4, StaysReached
<1>7. LeavesFirst(groups, v)
  BY <1>2, <1>3, <1>4, CollectsLeaves, SkipsLeaves, EntersLeaves
<1>. QED BY <1>1, <1>5, <1>6, <1>7 DEF QueryInv

Todo(w) == Cardinality(MatchFiles \ w.visited)

LEMMA StepDescends ==
  ASSUME NEW groups, GroupsOK(groups), NEW w \in Walks, w.stack # <<>>, NEW v, v = Visit(groups, w)
  PROVE  \/ Todo(v) < Todo(w)
         \/ Todo(v) = Todo(w) /\ Len(v.stack) < Len(w.stack)
<1>1. PICK p \in MatchFiles : Collects(groups, p, w, v) \/ Skips(groups, p, w, v) \/ Enters(groups, p, w, v)
  BY StepIs
<1>2. CASE v.visited = w.visited
  <2>1. Takes(w, v)
    BY <1>1, <1>2 DEF Collects, Skips, Enters
  <2>2. Len(v.stack) < Len(w.stack)
    BY <2>1 DEF Takes
  <2>. QED BY <1>2, <2>2 DEF Todo
<1>3. CASE v.visited = w.visited \cup {p} /\ p \notin w.visited
  <2>. DEFINE S == MatchFiles \ v.visited
              T == MatchFiles \ w.visited
  <2>1. IsFiniteSet(T) /\ S \subseteq T /\ S # T
    <3>1. IsFiniteSet(MatchFiles)
      BY ConfigurationAssumption
    <3>. QED BY <1>3, <3>1, FS_Subset
  <2>. HIDE DEF S, T
  <2>2. Cardinality(S) < Cardinality(T)
    <3>1. /\ IsFiniteSet(S) /\ Cardinality(S) <= Cardinality(T)
          /\ Cardinality(S) = Cardinality(T) => S = T
          /\ Cardinality(S) \in Nat /\ Cardinality(T) \in Nat
      BY <2>1, FS_Subset, FS_CardinalityType
    <3>. QED BY <2>1, <3>1
  <2>. QED BY <2>2 DEF S, T, Todo
<1>. QED BY <1>1, <1>2, <1>3 DEF Collects, Skips, Enters

\* The walk from where nothing was visited yet.
LEMMA FirstIs ==
  ASSUME NEW groups, NEW paths \in Seq(MatchFiles), NEW reached, Range(paths) \subseteq reached
  PROVE  FirstVisit(paths) \in Walks /\ QueryInv(groups, Range(paths), reached, FirstVisit(paths))
<1>. DEFINE w == FirstVisit(paths)
            n == Len(paths)
<1>1. w.stack = Visits(paths) /\ w.visited = {} /\ w.order = <<>>
  BY DEF FirstVisit
<1>2. /\ Visits(paths) \in Seq({"visit", "own"} \X MatchFiles)
      /\ DOMAIN paths = 1 .. n /\ DOMAIN Visits(paths) = 1 .. n
      /\ \A i \in 1 .. n : Visits(paths)[i] = <<"visit", paths[i]>>
  BY VisitsAre
<1>3. <<>> \in Seq(MatchFiles) /\ DOMAIN <<>> = {} /\ Range(<<>>) = {}
  BY DEF Range
<1>4. w \in Walks
  BY <1>2, <1>3 DEF Walks, FirstVisit
<1>. HIDE DEF w
<1>5. ASSUME NEW i \in DOMAIN w.stack
      PROVE  Met(w.stack[i], paths[i]) /\ i \in DOMAIN paths /\ \A p : ~Own(w.stack[i], p)
  BY <1>1, <1>2 DEF Met, Own
<1>6. CollectedOnce(groups, w)
  BY <1>1, <1>3, <1>5 DEF CollectedOnce
<1>7. LeavesFirst(groups, w)
  BY <1>1, <1>3, <1>5 DEF LeavesFirst
<1>8. ASSUME NEW p \in Range(paths) PROVE \E i \in DOMAIN w.stack : Met(w.stack[i], p)
  <2>1. PICK i \in DOMAIN paths : paths[i] = p
    BY <1>8 DEF Range
  <2>2. i \in DOMAIN w.stack /\ Met(w.stack[i], p)
    BY <1>1, <1>2, <1>5, <2>1
  <2>. QED BY <2>2
<1>9. ASSUME NEW i \in DOMAIN w.stack PROVE w.stack[i][2] \in reached
  BY <1>5 DEF Met, Range
<1>10. VisitsReached(groups, Range(paths), reached, w)
  BY <1>1, <1>8, <1>9 DEF VisitsReached
<1>. QED BY <1>4, <1>6, <1>7, <1>10 DEF QueryInv, w

\* Where the walk ends.
LEMMA WalkEnds ==
  ASSUME NEW groups, GroupsOK(groups), NEW paths \in Seq(MatchFiles), NEW reached,
         Range(paths) \subseteq reached,
         \A q \in reached \cap DOMAIN groups : Range(groups[q].imports) \subseteq reached
  PROVE  \E w \in Walks : /\ w.stack = <<>> /\ QueryInv(groups, Range(paths), reached, w)
                          /\ w.order = QueryPaths(groups, paths)
<1>. DEFINE next == [w \in Walks |-> IF w.stack = <<>> THEN w ELSE Visit(groups, w)]
            ends == {w \in Walks : w.stack = <<>>}
            J == {w \in Walks : QueryInv(groups, Range(paths), reached, w)}
            todo == [w \in Walks |-> Todo(w)]
            size == [w \in Walks |-> Len(w.stack)]
            IsWalk(f) == f = [w \in Walks |-> IF w.stack = <<>> THEN w ELSE f[Visit(groups, w)]]
            walk == CHOOSE f : IsWalk(f)
<1>1. next \in [Walks -> Walks]
  BY StepIs
<1>2. ASSUME NEW f PROVE GoesOnUntil(f, Walks, next, ends) <=> IsWalk(f)
  <2>1. [w \in Walks |-> IF w \in ends THEN w ELSE f[next[w]]]
          = [w \in Walks |-> IF w.stack = <<>> THEN w ELSE f[Visit(groups, w)]]
    OBVIOUS
  <2>. QED BY <2>1 DEF GoesOnUntil
<1>3. \E f : IsWalk(f)
  <2>. HIDE DEF next, ends, IsWalk
  <2>1. ends \in SUBSET Walks
    BY DEF ends
  <2>2. \E f : GoesOnUntil(f, Walks, next, ends)
    BY <1>1, <2>1, SomeGoesOnUntil
  <2>. QED BY <1>2, <2>2
<1>4. IsWalk(walk)
  <2>. HIDE DEF IsWalk
  <2>. QED BY <1>3
<1>5. GoesOnUntil(walk, Walks, next, ends)
  <2>. HIDE DEF walk, IsWalk, next, ends
  <2>. QED BY <1>2, <1>4
<1>6. todo \in [Walks -> Nat] /\ size \in [Walks -> Nat]
  <2>1. ASSUME NEW w \in Walks PROVE Todo(w) \in Nat
    <3>1. IsFiniteSet(MatchFiles) /\ MatchFiles \ w.visited \subseteq MatchFiles
      BY ConfigurationAssumption
    <3>. QED BY <3>1, FS_Subset, FS_CardinalityType DEF Todo
  <2>2. ASSUME NEW w \in Walks PROVE Len(w.stack) \in Nat
    BY DEF Walks
  <2>. QED BY <2>1, <2>2
<1>7. ASSUME NEW w \in J, size[w] = 0 PROVE w \in ends
  BY <1>7 DEF Walks
<1>8. ASSUME NEW w \in J \ ends
      PROVE  /\ next[w] \in J
             /\ \/ todo[next[w]] < todo[w]
                \/ todo[next[w]] = todo[w] /\ size[next[w]] < size[w]
  <2>1. w \in Walks /\ w.stack # <<>> /\ next[w] = Visit(groups, w) /\ QueryInv(groups, Range(paths), reached, w)
    BY <1>8
  <2>. DEFINE v == Visit(groups, w)
  <2>2. v \in Walks /\ QueryInv(groups, Range(paths), reached, v)
    BY <2>1, StepKeeps
  <2>3. Todo(v) < Todo(w) \/ (Todo(v) = Todo(w) /\ Len(v.stack) < Len(w.stack))
    BY <2>1, StepDescends
  <2>. HIDE DEF v
  <2>4. next[w] = v
    BY <2>1 DEF v
  <2>5. /\ todo[v] = Todo(v) /\ todo[w] = Todo(w)
        /\ size[v] = Len(v.stack) /\ size[w] = Len(w.stack)
    BY <2>1, <2>2
  <2>. HIDE DEF todo, size, next
  <2>. QED BY <2>2, <2>3, <2>4, <2>5
<1>9. FirstVisit(paths) \in J
  BY FirstIs
<1>10. J \in SUBSET Walks /\ ends \in SUBSET Walks
  OBVIOUS
<1>11. QueryPaths(groups, paths) = walk[FirstVisit(paths)].order
  BY DEF QueryPaths
<1>12. walk[FirstVisit(paths)] \in J /\ walk[FirstVisit(paths)] \in ends
  <2>. HIDE DEF next, ends, J, todo, size, walk
  <2>1. \A w \in J : size[w] = 0 => w \in ends
    BY <1>7
  <2>2. \A w \in J \ ends : /\ next[w] \in J
                            /\ \/ todo[next[w]] < todo[w]
                               \/ todo[next[w]] = todo[w] /\ size[next[w]] < size[w]
    BY <1>8
  <2>3. \A w \in J : walk[w] \in J /\ walk[w] \in ends
    <3>1. Descends(Walks, next, ends, J, todo, size)
      BY <1>1, <1>6, <1>10, <2>1, <2>2 DEF Descends
    <3>. QED BY <1>5, <3>1, EndReached
  <2>. QED BY <1>9, <2>3
<1>. HIDE DEF walk
<1>. QED BY <1>11, <1>12

\* The files that a query collects: each that can be reached, once, and those that
\* import nothing before the ones that import them.
LEMMA QueryPathsAre ==
  ASSUME NEW groups, GroupsOK(groups), NEW paths \in Seq(MatchFiles),
         NEW order, order = QueryPaths(groups, paths)
  PROVE  /\ order \in Seq(MatchFiles)
         /\ \A i, j \in DOMAIN order : order[i] = order[j] => i = j
         /\ Range(order) = DOMAIN groups \cap Reached(Imported(groups), Range(paths))
         /\ \A p, q \in DOMAIN groups : q \in Range(groups[p].imports) /\ Leaf(groups, q) =>
               \A i \in DOMAIN order : order[i] = p =>
                  \E j \in DOMAIN order : j < i /\ order[j] = q
<1>. DEFINE from == Range(paths)
            next == Imported(groups)
            reached == Reached(next, from)
<1>1. from \in SUBSET MatchFiles /\ next \in [MatchFiles -> SUBSET MatchFiles]
  BY ImportedIs DEF Range
<1>2. /\ reached \in SUBSET MatchFiles /\ from \subseteq reached
      /\ \A q \in reached : next[q] \subseteq reached
      /\ \A S \in SUBSET MatchFiles :
            from \subseteq S /\ (\A q \in S : next[q] \subseteq S) => reached \subseteq S
  <2>. HIDE DEF from, next
  <2>. QED BY <1>1, ReachedIs
<1>3. \A q \in MatchFiles : next[q] = IF q \in DOMAIN groups THEN Range(groups[q].imports) ELSE {}
  BY DEF Imported
<1>. HIDE DEF next, reached
<1>4. \A q \in reached \cap DOMAIN groups : Range(groups[q].imports) \subseteq reached
  BY <1>2, <1>3
<1>5. PICK w \in Walks : w.stack = <<>> /\ QueryInv(groups, from, reached, w) /\ w.order = order
  BY <1>2, <1>4, WalkEnds
<1>. HIDE DEF from
<1>6. DOMAIN w.stack = {} /\ w.visited \in SUBSET MatchFiles /\ w.order \in Seq(MatchFiles)
  BY <1>5 DEF Walks
<1>7. CollectedOnce(groups, w) /\ VisitsReached(groups, from, reached, w) /\ LeavesFirst(groups, w)
  BY <1>5 DEF QueryInv
<1>8. Range(order) = w.visited \cap DOMAIN groups
  BY <1>5, <1>6, <1>7 DEF CollectedOnce
<1>9. w.visited = reached
  <2>1. from \subseteq w.visited /\ w.visited \subseteq reached
    BY <1>6, <1>7 DEF VisitsReached
  <2>2. \A q \in w.visited : next[q] \subseteq w.visited
    BY <1>3, <1>6, <1>7 DEF VisitsReached
  <2>. QED BY <1>2, <1>6, <2>1, <2>2
<1>10. \A i, j \in DOMAIN order : order[i] = order[j] => i = j
  BY <1>5, <1>7 DEF CollectedOnce
<1>11. \A p, q \in DOMAIN groups : q \in Range(groups[p].imports) /\ Leaf(groups, q) =>
          \A i \in DOMAIN order : order[i] = p => \E j \in DOMAIN order : j < i /\ order[j] = q
  BY <1>5, <1>7 DEF LeavesFirst
<1>. QED BY <1>5, <1>6, <1>8, <1>9, <1>10, <1>11 DEF reached, next, from

-----------------------------------------------------------------------------
(* The matches that a query returns *)

Collected(groups, order) == [i \in DOMAIN order |-> groups[order[i]].matches]
Elements(groups) == UNION {Range(groups[p].matches) : p \in DOMAIN groups}

CollectedOK(groups, order, s, n) ==
  /\ s \in Seq(Seq(Elements(groups)))
  /\ n \in Nat /\ DOMAIN order = 1 .. n /\ Len(s) = n /\ DOMAIN s = 1 .. n
  /\ \A i \in 1 .. n : order[i] \in DOMAIN groups /\ s[i] = groups[order[i]].matches

LEMMA CollectedAre ==
  ASSUME NEW groups, GroupsOK(groups), NEW order \in Seq(MatchFiles), Range(order) \subseteq DOMAIN groups
  PROVE  CollectedOK(groups, order, Collected(groups, order), Len(order))
<1>. DEFINE X == Elements(groups)
            s == Collected(groups, order)
            n == Len(order)
<1>1. n \in Nat /\ DOMAIN order = 1 .. n
  OBVIOUS
<1>2. \A i \in 1 .. n : order[i] \in DOMAIN groups
  BY <1>1 DEF Range
<1>3. ASSUME NEW i \in 1 .. n PROVE s[i] = groups[order[i]].matches /\ s[i] \in Seq(X)
  <2>. DEFINE m == groups[order[i]].matches
  <2>1. s[i] = m
    BY <1>1 DEF Collected
  <2>2. m \in Seq(Range(m))
    BY <1>2 DEF GroupsOK, GroupOK, IsSequence
  <2>3. Range(m) \subseteq X
    BY <1>2 DEF Elements
  <2>. HIDE DEF m, X, s
  <2>4. m \in Seq(X)
    <3>. DEFINE R == Range(m)
    <3>1. m \in Seq(R) /\ R \subseteq X
      BY <2>2, <2>3
    <3>. HIDE DEF R
    <3>. QED BY <3>1
  <2>. QED BY <2>1, <2>4 DEF m
<1>4. s \in [1 .. n -> Seq(X)]
  <2>1. s = [i \in 1 .. n |-> groups[order[i]].matches]
    BY <1>1 DEF Collected
  <2>. HIDE DEF s, X
  <2>. QED BY <1>3, <2>1
<1>. HIDE DEF s, X
<1>5. s \in Seq(Seq(X)) /\ Len(s) = n /\ DOMAIN s = 1 .. n
  BY <1>1, <1>4, SeqDef
<1>. QED BY <1>1, <1>2, <1>3, <1>5 DEF s, X, CollectedOK

LEMMA SameSet == ASSUME NEW s PROVE Range(s) = ToSet(s)
  BY DEF Range, ToSet

\* What is returned for files collected once each: what they define, once each.
MatchesOK(groups, order, ms) ==
  /\ ms \in Seq(Elements(groups))
  /\ Range(ms) = UNION {Range(groups[p].matches) : p \in Range(order)}
  /\ \A i, j \in DOMAIN ms : ms[i].id = ms[j].id => i = j
  /\ \A t \in DOMAIN ms : \E i \in DOMAIN order :
        /\ ms[t] \in Range(groups[order[i]].matches)
        /\ \A j \in DOMAIN order : j < i => \A x \in Range(groups[order[j]].matches) :
              \E u \in 1 .. t - 1 : ms[u] = x

LEMMA MatchesAre ==
  ASSUME NEW groups, GroupsOK(groups), NEW order \in Seq(MatchFiles), Range(order) \subseteq DOMAIN groups,
         \A i, j \in DOMAIN order : order[i] = order[j] => i = j,
         NEW ms, ms = FlattenSeq(Collected(groups, order))
  PROVE  MatchesOK(groups, order, ms)
<1>. DEFINE X == Elements(groups)
            s == Collected(groups, order)
            n == Len(order)
<1>1. /\ s \in Seq(Seq(X)) /\ n \in Nat /\ DOMAIN order = 1 .. n /\ Len(s) = n /\ DOMAIN s = 1 .. n
      /\ \A i \in 1 .. n : order[i] \in DOMAIN groups /\ s[i] = groups[order[i]].matches
  <2>1. CollectedOK(groups, order, s, n)
    <3>. HIDE DEF s, n
    <3>. QED BY CollectedAre DEF s, n
  <2>. QED BY <2>1 DEF CollectedOK
<1>. HIDE DEF s, X, n
<1>0. \A i, j \in 1 .. n : order[i] = order[j] => i = j
  BY <1>1
<1>2. ms \in Seq(X)
  BY <1>1, FlattenType DEF s
<1>3. \A i \in 1 .. n : ToSet(s[i]) = Range(groups[order[i]].matches)
  BY <1>1, SameSet
<1>4. Range(ms) = UNION {Range(groups[p].matches) : p \in Range(order)}
  <2>1. Range(ms) = UNION {ToSet(s[i]) : i \in 1 .. n}
    BY <1>1, FlattenElements, SameSet DEF s
  <2>2. UNION {ToSet(s[i]) : i \in 1 .. n} = UNION {Range(groups[p].matches) : p \in Range(order)}
    <3>. DEFINE R(p) == Range(groups[p].matches)
    <3>1. \A i \in 1 .. n : ToSet(s[i]) = R(order[i])
      BY <1>3
    <3>2. Range(order) = {order[i] : i \in 1 .. n}
      BY <1>1 DEF Range
    <3>. HIDE DEF R
    <3>3. UNION {ToSet(s[i]) : i \in 1 .. n} = UNION {R(p) : p \in Range(order)}
      BY <3>1, <3>2
    <3>. QED BY <3>3 DEF R
  <2>. QED BY <2>1, <2>2
<1>5. \A i \in 1 .. n : GroupOK(order[i], groups[order[i]])
  BY <1>1 DEF GroupsOK
<1>6. \A i \in 1 .. n : \A m \in ToSet(s[i]) : m.id[1] = order[i]
  BY <1>3, <1>5 DEF GroupOK
<1>7. Distinct(ms)
  <2>1. \A i \in 1 .. n : Distinct(s[i])
    BY <1>1, <1>5 DEF GroupOK
  <2>2. ASSUME NEW i \in 1 .. n, NEW j \in 1 .. n, i < j PROVE ToSet(s[i]) \cap ToSet(s[j]) = {}
    <3>1. order[i] # order[j]
      <4>1. i # j
        BY <1>1, <2>2
      <4>. QED BY <1>0, <4>1
    <3>. QED BY <1>6, <3>1
  <2>. QED BY <1>1, <2>1, <2>2, FlattenDistinct DEF s
<1>8. ASSUME NEW i \in DOMAIN ms, NEW j \in DOMAIN ms, ms[i].id = ms[j].id PROVE i = j
  <2>1. ms[i] \in Range(ms) /\ ms[j] \in Range(ms)
    BY DEF Range
  <2>a. ASSUME NEW m \in Range(ms) PROVE \E a \in 1 .. n : m \in ToSet(s[a])
    <3>1. PICK p \in Range(order) : m \in Range(groups[p].matches)
      BY <1>4
    <3>2. PICK a \in DOMAIN order : order[a] = p
      BY DEF Range
    <3>. QED BY <1>1, <1>3, <3>1, <3>2
  <2>2. PICK a \in 1 .. n : ms[i] \in ToSet(s[a])
    BY <2>1, <2>a
  <2>3. PICK b \in 1 .. n : ms[j] \in ToSet(s[b])
    BY <2>1, <2>a
  <2>4. a = b
    <3>1. order[a] = order[b]
      BY <1>6, <1>8, <2>2, <2>3
    <3>. QED BY <1>0, <3>1
  <2>5. ms[i] = ms[j]
    BY <1>3, <1>5, <1>8, <2>2, <2>3, <2>4 DEF GroupOK
  <2>. QED BY <1>7, <2>5 DEF Distinct
<1>9. ASSUME NEW t \in DOMAIN ms
      PROVE  \E i \in DOMAIN order :
               /\ ms[t] \in Range(groups[order[i]].matches)
               /\ \A j \in DOMAIN order : j < i => \A x \in Range(groups[order[j]].matches) :
                     \E u \in 1 .. t - 1 : ms[u] = x
  <2>1. t \in 1 .. Len(ms)
    BY <1>2
  <2>2. PICK i \in 1 .. Len(s) :
            /\ ms[t] \in ToSet(s[i])
            /\ \A j \in 1 .. i - 1 : \A x \in ToSet(s[j]) : \E u \in 1 .. t - 1 : ms[u] = x
    <3>1. ms = FlattenSeq(s)
      BY DEF s
    <3>2. s \in Seq(Seq(X)) /\ t \in 1 .. Len(FlattenSeq(s))
      BY <1>1, <2>1, <3>1
    <3>3. \E i \in 1 .. Len(s) :
            /\ FlattenSeq(s)[t] \in ToSet(s[i])
            /\ \A j \in 1 .. i - 1 : \A x \in ToSet(s[j]) : \E u \in 1 .. t - 1 : FlattenSeq(s)[u] = x
      BY <3>2, FlattenOrder
    <3>. QED BY <3>1, <3>3
  <2>3. i \in 1 .. n /\ \A j \in 1 .. n : j < i => j \in 1 .. i - 1
    BY <1>1, <2>2
  <2>4. ASSUME NEW j \in 1 .. n, j < i, NEW x \in Range(groups[order[j]].matches)
        PROVE  \E u \in 1 .. t - 1 : ms[u] = x
    <3>1. j \in 1 .. i - 1 /\ x \in ToSet(s[j])
      BY <1>3, <2>3, <2>4
    <3>. QED BY <2>2, <3>1
  <2>. QED BY <1>1, <1>3, <2>2, <2>3, <2>4
<1>. QED BY <1>2, <1>4, <1>8, <1>9 DEF X, MatchesOK

\* The matches of a query, as the properties ask for them.
AnswerOK(s, paths, ms) ==
  /\ \A i, j \in DOMAIN ms : ms[i].id = ms[j].id => i = j
  /\ Range(ms) = UNION {Range(s.groups[p].matches) :
                          p \in DOMAIN s.groups \cap Reached(ImportsLoaded(s), Range(paths))}
  /\ \A p \in DOMAIN s.groups : \A q \in ImportsOf(s, p) :
        ImportsOf(s, q) = {} =>
          \A i \in DOMAIN ms, n \in Range(s.groups[q].matches) :
              ms[i] \in Range(s.groups[p].matches) => \E j \in 1 .. i - 1 : ms[j] = n

LEMMA QueryIs ==
  ASSUME NEW s, GroupsOK(s.groups), NEW paths \in Seq(MatchFiles), NEW ms, ms = Query(s, paths).matches
  PROVE  AnswerOK(s, paths, ms)
<1>. DEFINE groups == s.groups
            order == QueryPaths(groups, paths)
<1>1. ImportsLoaded(s) = Imported(groups)
  BY DEF ImportsLoaded, Imported
<1>2. ms = FlattenSeq(Collected(groups, order))
  BY DEF Query, Collected
<1>. HIDE DEF order
<1>3. /\ order \in Seq(MatchFiles)
      /\ \A i, j \in DOMAIN order : order[i] = order[j] => i = j
      /\ Range(order) = DOMAIN groups \cap Reached(Imported(groups), Range(paths))
      /\ \A p, q \in DOMAIN groups : q \in Range(groups[p].imports) /\ Leaf(groups, q) =>
            \A i \in DOMAIN order : order[i] = p =>
               \E j \in DOMAIN order : j < i /\ order[j] = q
  <2>. HIDE DEF groups
  <2>1. GroupsOK(groups)
    BY DEF groups
  <2>. QED BY <2>1, QueryPathsAre DEF order
<1>4. /\ ms \in Seq(Elements(groups))
      /\ Range(ms) = UNION {Range(groups[p].matches) : p \in Range(order)}
      /\ \A i, j \in DOMAIN ms : ms[i].id = ms[j].id => i = j
      /\ \A t \in DOMAIN ms : \E i \in DOMAIN order :
            /\ ms[t] \in Range(groups[order[i]].matches)
            /\ \A j \in DOMAIN order : j < i => \A x \in Range(groups[order[j]].matches) :
                  \E u \in 1 .. t - 1 : ms[u] = x
  <2>. HIDE DEF groups
  <2>1. GroupsOK(groups)
    BY DEF groups
  <2>2. MatchesOK(groups, order, ms)
    BY <1>2, <1>3, <2>1, MatchesAre
  <2>. QED BY <2>2 DEF MatchesOK
<1>5. ASSUME NEW p \in DOMAIN groups, NEW q \in ImportsOf(s, p), ImportsOf(s, q) = {},
             NEW t \in DOMAIN ms, NEW n \in Range(groups[q].matches), ms[t] \in Range(groups[p].matches)
      PROVE  \E u \in 1 .. t - 1 : ms[u] = n
  <2>1. q \in DOMAIN groups /\ q \in Range(groups[p].imports) /\ Leaf(groups, q)
    BY <1>5 DEF ImportsOf, Leaf
  <2>2. PICK i \in DOMAIN order :
            /\ ms[t] \in Range(groups[order[i]].matches)
            /\ \A j \in DOMAIN order : j < i => \A x \in Range(groups[order[j]].matches) :
                  \E u \in 1 .. t - 1 : ms[u] = x
    BY <1>4
  <2>3. order[i] \in DOMAIN groups
    <3>1. order[i] \in Range(order)
      BY DEF Range
    <3>. QED BY <1>3, <3>1
  <2>4. order[i] = p
    <3>1. \A r \in DOMAIN groups : \A m \in Range(groups[r].matches) : m.id[1] = r
      BY DEF GroupsOK, GroupOK
    <3>. QED BY <1>5, <2>2, <2>3, <3>1
  <2>5. PICK j \in DOMAIN order : j < i /\ order[j] = q
    BY <1>3, <2>1, <2>4
  <2>. QED BY <2>2, <2>5
<1>. QED BY <1>1, <1>3, <1>4, <1>5 DEF AnswerOK

\* A query gives each match of the files it reaches once, imports first.
THEOREM QueriesAreExact == ConfigurationSpec => []QueryOnceImportsFirst
<1>1. ConfigurationInv => QueryOnceImportsFirst
  <2>. SUFFICES ASSUME ConfigurationInv, NEW s \in store, NEW order \in SetToSeqs(s.default.paths)
                PROVE  LET ms == Query(s, order).matches IN
        /\ \A i, j \in DOMAIN ms : ms[i].id = ms[j].id => i = j
        /\ {m.id : m \in Range(ms)} =
             UNION {{m.id : m \in Range(s.groups[p].matches)} :
                      p \in DOMAIN s.groups \cap Reached(ImportsLoaded(s), s.default.paths)}
        /\ \A p \in DOMAIN s.groups : \A q \in ImportsOf(s, p) :
              ImportsOf(s, q) = {} =>
                \A i \in DOMAIN ms, n \in Range(s.groups[q].matches) :
                    ms[i] \in Range(s.groups[p].matches) => \E j \in 1 .. i - 1 : ms[j] = n
    BY DEF QueryOnceImportsFirst, Stores, Orders
  <2>. DEFINE ms == Query(s, order).matches
  <2>1. GroupsOK(s.groups) /\ s.default.paths \in SUBSET MatchFiles
    BY DEF ConfigurationInv, Loaded, ConfigsOK, ConfigOK
  <2>2. order \in Seq(MatchFiles) /\ Range(order) = s.default.paths
    <3>1. IsFiniteSet(s.default.paths)
      BY <2>1, ConfigurationAssumption, FS_Subset
    <3>2. order \in Seq(s.default.paths) /\ Range(order) = s.default.paths
      BY <3>1, OrdersAre
    <3>. QED BY <2>1, <3>2
  <2>. HIDE DEF ms
  <2>3. /\ \A i, j \in DOMAIN ms : ms[i].id = ms[j].id => i = j
        /\ Range(ms) = UNION {Range(s.groups[p].matches) :
                                p \in DOMAIN s.groups \cap Reached(ImportsLoaded(s), Range(order))}
        /\ \A p \in DOMAIN s.groups : \A q \in ImportsOf(s, p) :
              ImportsOf(s, q) = {} =>
                \A i \in DOMAIN ms, n \in Range(s.groups[q].matches) :
                    ms[i] \in Range(s.groups[p].matches) => \E j \in 1 .. i - 1 : ms[j] = n
    <3>1. AnswerOK(s, order, ms)
      BY <2>1, <2>2, QueryIs DEF ms
    <3>. QED BY <3>1 DEF AnswerOK
  <2>4. {m.id : m \in Range(ms)} =
             UNION {{m.id : m \in Range(s.groups[p].matches)} :
                      p \in DOMAIN s.groups \cap Reached(ImportsLoaded(s), s.default.paths)}
    <3>. DEFINE P == DOMAIN s.groups \cap Reached(ImportsLoaded(s), s.default.paths)
                R(p) == Range(s.groups[p].matches)
    <3>1. Range(ms) = UNION {R(p) : p \in P}
      BY <2>2, <2>3
    <3>. HIDE DEF P, R
    <3>2. {m.id : m \in Range(ms)} = UNION {{m.id : m \in R(p)} : p \in P}
      BY <3>1
    <3>. QED BY <3>2 DEF P, R
  <2>. QED BY <2>3, <2>4 DEF ms
<1>. QED BY <1>1, ConfigurationHolds, PTL

\* The config of an application is the default one or one of an application.
LEMMA UnpatchedIs ==
  ASSUME NEW s, ConfigsOK(s.default, s.customs), NEW focus
  PROVE  /\ Unpatched(s, focus) = [file |-> Unpatched(s, focus).file, options |-> Unpatched(s, focus).options,
                                 paths |-> Unpatched(s, focus).paths]
         /\ Unpatched(s, focus).paths \subseteq AllMatchPaths(s.default, s.customs)
         /\ Unpatched(s, focus).paths \in SUBSET MatchFiles
<1>. DEFINE I == {i \in 1 .. Len(s.customs) : IsMatch(s.customs[i], focus)}
            k == SelectInSeq(s.customs, LAMBDA c : IsMatch(c, focus))
<1>1. k = IF I # {} THEN Min(I) ELSE 0
  BY DEF SelectInSeq
<1>2. /\ ConfigOK(s.default)
      /\ Len(s.customs) \in Nat /\ DOMAIN s.customs = 1 .. Len(s.customs)
      /\ \A i \in DOMAIN s.customs : ConfigOK(s.customs[i])
  BY DEF ConfigsOK, IsSequence
<1>3. k = 0 \/ k \in DOMAIN s.customs
  <2>1. I \in SUBSET Nat /\ I \subseteq DOMAIN s.customs
    BY <1>2
  <2>. HIDE DEF I
  <2>. QED BY <1>1, <2>1, FirstPosition
<1>4. Unpatched(s, focus) = IF k = 0 THEN s.default ELSE s.customs[k]
  BY DEF Unpatched
<1>. HIDE DEF k
<1>. QED BY <1>2, <1>3, <1>4 DEF ConfigOK, AllMatchPaths

LEMMA ActivePaths ==
  ASSUME NEW s, ConfigsOK(s.default, s.customs), NEW focus
  PROVE  Active(s, focus).paths = Unpatched(s, focus).paths
<1>. DEFINE c == Unpatched(s, focus)
<1>1. c = [file |-> c.file, options |-> c.options, paths |-> c.paths]
  BY UnpatchedIs
<1>. HIDE DEF c
<1>2. ASSUME NEW options PROVE Patched(c, options).paths = c.paths
  BY <1>1 DEF Patched
<1>3. Active(s, focus) = c \/ \E options : Active(s, focus) = Patched(c, options)
  BY DEF Active, c
<1>. QED BY <1>2, <1>3 DEF c

\* The ids of the matches of a query, in any order.
LEMMA QueryIds ==
  ASSUME NEW s, GroupsOK(s.groups), NEW paths \in SUBSET MatchFiles
  PROVE  {m.id : m \in Range(Query(s, SetToSeq(paths)).matches)}
           = UNION {{m.id : m \in Range(s.groups[p].matches)} :
                      p \in DOMAIN s.groups \cap Reached(ImportsLoaded(s), paths)}
<1>. DEFINE order == SetToSeq(paths)
            ms == Query(s, order).matches
            P == DOMAIN s.groups \cap Reached(ImportsLoaded(s), paths)
            R(p) == Range(s.groups[p].matches)
<1>1. IsFiniteSet(paths)
  BY ConfigurationAssumption, FS_Subset
<1>2. order \in SetToSeqs(paths)
  BY <1>1, OrderIs
<1>. HIDE DEF order, ms
<1>3. order \in Seq(paths) /\ Range(order) = paths
  BY <1>1, <1>2, OrdersAre
<1>4. order \in Seq(MatchFiles)
  BY <1>3
<1>5. Range(ms) = UNION {R(p) : p \in P}
  <2>1. AnswerOK(s, order, ms)
    BY <1>4, QueryIs DEF ms
  <2>. QED BY <1>3, <2>1 DEF AnswerOK
<1>. HIDE DEF P, R
<1>6. {m.id : m \in Range(ms)} = UNION {{m.id : m \in R(p)} : p \in P}
  BY <1>5
<1>. QED BY <1>6 DEF P, R, ms, order

\* What is active in an application can be detected, and detection filtered by the
\* application gives what is active.
THEOREM ActiveIsDetectable == ConfigurationSpec => []ActiveAreDetectable
<1>1. ConfigurationInv => ActiveAreDetectable
  <2>. SUFFICES ASSUME ConfigurationInv, NEW s \in store, NEW focus \in Apps
                PROVE  LET global == {m.id : m \in Range(GlobalMatches(s, SetToSeq(AllMatchPaths(s.default, s.customs))))}
                           active == {m.id : m \in Range(Query(s, SetToSeq(Active(s, focus).paths)).matches)}
                           reachable == UNION {{m.id : m \in Range(s.groups[p].matches)} :
                                          p \in Unpatched(s, focus).paths \cap DOMAIN s.groups}
                       IN  /\ reachable \subseteq active
                           /\ Unpatched(s, focus).paths \subseteq DOMAIN s.groups \cup s.errors
                           /\ FilterActive(s, focus, global \cup BuiltinIds) = active \cup BuiltinIds
    BY DEF ActiveAreDetectable, Stores
  <2>. DEFINE paths == Unpatched(s, focus).paths
              all == AllMatchPaths(s.default, s.customs)
              ids(p) == {m.id : m \in Range(s.groups[p].matches)}
              next == ImportsLoaded(s)
              global == {m.id : m \in Range(GlobalMatches(s, SetToSeq(all)))}
              active == {m.id : m \in Range(Query(s, SetToSeq(Active(s, focus).paths)).matches)}
  <2>1. /\ ConfigsOK(s.default, s.customs) /\ GroupsOK(s.groups)
        /\ NoneMissing(s.default, s.customs, s.groups, s.errors, {})
    BY DEF ConfigurationInv, Loaded
  <2>2. paths \in SUBSET MatchFiles /\ all \in SUBSET MatchFiles /\ paths \subseteq all
    BY <2>1, UnpatchedIs, PathsAre
  <2>3. next \in [MatchFiles -> SUBSET MatchFiles]
    <3>1. next = Imported(s.groups)
      BY DEF ImportsLoaded, Imported
    <3>. QED BY <2>1, <3>1, ImportedIs
  <2>4. Active(s, focus).paths = paths
    BY <2>1, ActivePaths
  <2>5. active = UNION {ids(p) : p \in DOMAIN s.groups \cap Reached(next, paths)}
    BY <2>1, <2>2, <2>4, QueryIds
  <2>6. global = UNION {ids(p) : p \in DOMAIN s.groups \cap Reached(next, all)}
    BY <2>1, <2>2, QueryIds DEF GlobalMatches
  <2>7. FilterActive(s, focus, global \cup BuiltinIds) = {i \in global \cup BuiltinIds : i \in BuiltinIds \/ i \in active}
    BY DEF FilterActive
  <2>8. paths \subseteq DOMAIN s.groups \cup s.errors
    BY <2>1, <2>2 DEF NoneMissing, Needed
  <2>. HIDE DEF paths, all, ids, next, global, active
  <2>9. paths \subseteq Reached(next, paths) /\ Reached(next, paths) \subseteq Reached(next, all)
    BY <2>2, <2>3, ReachedIs, ReachedMore
  <2>10. UNION {ids(p) : p \in paths \cap DOMAIN s.groups} \subseteq active
    BY <2>5, <2>9
  <2>11. active \subseteq global
    BY <2>5, <2>6, <2>9
  <2>a. {i \in global \cup BuiltinIds : i \in BuiltinIds \/ i \in active} = active \cup BuiltinIds
    BY ONLY <2>11
  <2>12. FilterActive(s, focus, global \cup BuiltinIds) = active \cup BuiltinIds
    BY ONLY <2>7, <2>a
  <2>. QED BY <2>8, <2>10, <2>12 DEF paths, all, ids, global, active
<1>. QED BY <1>1, ConfigurationHolds, PTL
=============================================================================
