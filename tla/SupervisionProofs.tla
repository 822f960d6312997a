--------------------------- MODULE SupervisionProofs ---------------------------
(***************************************************************************)
(* What the lock files of Supervision are worth, for every number of       *)
(* daemons and workers and every disturbance: that there is one of each,   *)
(* that messages reach the one in charge, and that `stop' stops it; and    *)
(* that in a calm scenario restarts come one at a time, so that no worker  *)
(* finds the lock taken and no daemon gives up.                            *)
(***************************************************************************)
EXTENDS Supervision, TLAPS

Commands == [op : {"none", "status", "stop", "start", "cycle"},
             pc : {"idle", "probing", "holding", "telling", "stopping",
                   "killing", "killed", "freed", "stopped", "starting", "awaiting",
                   "peeking"},
             polls : Nat,
             doomed : SUBSET (Daemons \cup Workers \cup {Launcher})]

\* The values that the locks are about have their types.
Places ==
    /\ daemon \in [Daemons -> DaemonPlaces]
    /\ worker \in [Workers -> WorkerPlaces]
    /\ monitor \in [Workers -> {"off", "armed", "holding"}]
    /\ socket \in Workers \cup {NoWorker}
    /\ service \in Commands

\* Who watches over a worker, or probes, holds the lock of the daemon.
DaemonLockHeld ==
    /\ \A d \in Daemons : Active(d) => daemonLock = d
    /\ \A w \in Workers : monitor[w] = "holding" => daemonLock = w
    /\ launcher = "holding" => daemonLock = Launcher

\* Who runs the engine, or probes, holds the lock of the worker.
WorkerLockHeld ==
    /\ \A w \in Workers : Locked(w) => workerLock = w
    /\ \A d \in Daemons : daemon[d] = "releasing" => workerLock = d
    /\ service.pc \in {"holding", "peeking"} => workerLock = Service

\* The worker that `stop' has told to exit had the lock, is among those that it
\* kills, and has gone when `stop' has had the lock.
ToldHadLock ==
    /\ service.pc \in {"stopping", "killing", "killed", "freed", "stopped"} =>
           told \in Workers
    /\ service.pc = "stopping" =>
           worker[told] \in {"locked", "running", "ended", "dead"}
    /\ service.pc = "killing" =>
           \/ worker[told] \in {"ended", "dead"}
           \/ worker[told] \in {"locked", "running"} /\ told \in service.doomed
    /\ service.pc \in {"killed", "freed", "stopped"} =>
           worker[told] \in {"ended", "dead"}

\* The inductive invariant.  OneAtATime alone is not inductive: a worker may
\* lock when the lock is free, so the lock must be the one of whoever is there,
\* and whoever lets go of it must be who has taken it.
LocksInv == Places /\ DaemonLockHeld /\ WorkerLockHeld /\ ToldHadLock

-----------------------------------------------------------------------------

\* Processes are distinct from each other and from who else may hold a lock.
LEMMA Distinct ==
    /\ \A d \in Daemons : d \notin Workers /\ d # Free /\ d # Service /\ d # Launcher
    /\ \A w \in Workers : w # Free /\ w # Service /\ w # Launcher /\ w # NoWorker
    /\ Free # Service /\ Free # Launcher
BY SupervisionAssumption DEF SupervisionAssumption, Free, Service, Launcher

\* At first nobody is there and both locks are free.
LEMMA LocksInit == Init => LocksInv
<1>1. Init => Places
  BY SupervisionAssumption DEF Init, Places, Commands, DaemonPlaces,
     WorkerPlaces, SupervisionAssumption
<1>2. Init => DaemonLockHeld
  BY DEF Init, DaemonLockHeld, Active
<1>3. Init => WorkerLockHeld
  BY DEF Init, WorkerLockHeld, Locked
<1>4. Init => ToldHadLock
  BY DEF Init, ToldHadLock
<1>. QED BY <1>1, <1>2, <1>3, <1>4 DEF LocksInv

\* The steps of a daemon take a lock that is free, or let go of their own.
LEMMA DaemonKeepsLocks ==
    ASSUME LocksInv, NEW d \in Daemons,
           DaemonStep(d) \/ DaemonAborts(d) \/ DaemonCrash(d) \/ OnLayoutChange(d)
    PROVE  LocksInv'
<1>. USE Distinct DEF LocksInv, Places,
     DaemonLockHeld, WorkerLockHeld, ToldHadLock, Active, Locked, DaemonPlaces,
     WorkerPlaces, Goes, DaemonRest, lockVars, workerVars, clientVars, worldVars
<1>1. CASE DaemonLock(d)
  <2>1. CASE daemonLock = Free
    BY <1>1, <2>1 DEF DaemonLock
  <2>2. CASE daemonLock # Free
    BY <1>1, <2>2 DEF DaemonLock
  <2>. QED BY <2>1, <2>2
<1>2. CASE DaemonLoad(d)
  BY <1>2 DEF DaemonLoad
<1>3. CASE DaemonReload(d)
  BY <1>3 DEF DaemonReload
<1>4. CASE ProbeWorker(d)
  <2>1. CASE workerLock = Free
    BY <1>4, <2>1 DEF ProbeWorker
  <2>2. CASE workerLock # Free
    BY <1>4, <2>2 DEF ProbeWorker
  <2>. QED BY <2>1, <2>2
<1>5. CASE TellWorker(d)
  BY <1>5 DEF TellWorker
<1>6. CASE WaitWorker(d)
  BY <1>6 DEF WaitWorker
<1>7. CASE WaitTimeout(d)
  BY <1>7 DEF WaitTimeout, DaemonEnds, Without
<1>8. CASE ReleaseWorker(d)
  BY <1>8 DEF ReleaseWorker
<1>9. CASE SpawnWorker(d)
  BY <1>9 DEF SpawnWorker
<1>10. CASE OnConfigChange(d)
  BY <1>10 DEF OnConfigChange
<1>11. CASE OnExitCode(d)
  <2>1. CASE Goes(d, "ready", "spawning") /\ UNCHANGED lockVars
    BY <1>11, <2>1 DEF OnExitCode
  <2>2. CASE DaemonEnds(d, "ready", "exited")
    BY <1>11, <2>2 DEF OnExitCode, DaemonEnds, Without
  <2>3. CASE DaemonEnds(d, "ready", "failed")
    BY <1>11, <2>3 DEF OnExitCode, DaemonEnds, Without
  <2>. QED BY <1>11, <2>1, <2>2, <2>3 DEF OnExitCode
<1>12. CASE Debounce(d)
  BY <1>12 DEF Debounce
<1>13. CASE DaemonAborts(d)
  BY <1>13 DEF DaemonAborts, DaemonEnds, Without
<1>14. CASE DaemonCrash(d)
  BY <1>14 DEF DaemonCrash, DaemonEnds, Without
<1>15. CASE OnLayoutChange(d)
  BY <1>15 DEF OnLayoutChange
<1>. QED
  BY <1>1, <1>2, <1>3, <1>4, <1>5, <1>6, <1>7, <1>8, <1>9, <1>10, <1>11,
     <1>12, <1>13, <1>14, <1>15 DEF DaemonStep

\* The steps of a worker, its monitor and the user in front of it.
LEMMA WorkerKeepsLocks ==
    ASSUME LocksInv, NEW w \in Workers,
           \/ WorkerStep(w) \/ AskWorker(w) \/ OpenSearch(w)
           \/ CloseSearch(w) \/ WorkerCrash(w)
    PROVE  LocksInv'
<1>. USE Distinct DEF LocksInv, Places,
     DaemonLockHeld, WorkerLockHeld, ToldHadLock, Active, Locked, DaemonPlaces,
     WorkerPlaces, Enters, lockVars, daemonVars, clientVars, worldVars
<1>1. CASE WorkerLoad(w)
  BY <1>1 DEF WorkerLoad, WorkerEnds, Without
<1>2. CASE WorkerLock(w)
  <2>1. CASE workerLock = Free
    BY <1>2, <2>1 DEF WorkerLock
  <2>2. CASE workerLock # Free
    BY <1>2, <2>2 DEF WorkerLock, WorkerEnds, Without
  <2>. QED BY <2>1, <2>2
<1>3. CASE WorkerServes(w)
  BY <1>3 DEF WorkerServes
<1>4. CASE MonitorProbe(w)
  BY <1>4 DEF MonitorProbe
<1>5. CASE MonitorSignals(w)
  BY <1>5 DEF MonitorSignals
<1>6. CASE WorkerExits(w)
  <2>1. \E c : WorkerEnds(w, {"locked", "running"}, c)
    BY <1>6 DEF WorkerExits
  <2>. QED BY <1>6, <2>1 DEF WorkerExits, WorkerEnds, Without
<1>7. CASE Reported(w)
  BY <1>7 DEF Reported
<1>8. CASE AskWorker(w)
  BY <1>8 DEF AskWorker
<1>9. CASE OpenSearch(w)
  BY <1>9 DEF OpenSearch
<1>10. CASE CloseSearch(w)
  BY <1>10 DEF CloseSearch
<1>11. CASE WorkerCrash(w)
  BY <1>11 DEF WorkerCrash, WorkerEnds, Without, Alive
<1>. QED
  BY <1>1, <1>2, <1>3, <1>4, <1>5, <1>6, <1>7, <1>8, <1>9, <1>10, <1>11
  DEF WorkerStep

\* The end of a stop leads to a result or, in a restart, to the start.
LEMMA AfterStopGoes ==
    ASSUME service \in Commands, NEW result \in {"idle", "stopped"},
           AfterStop(result)
    PROVE  service' \in Commands /\ service'.pc \in {"probing", result}
<1>1. CASE service.op = "cycle"
  BY <1>1 DEF AfterStop, Commands
<1>2. CASE service.op # "cycle"
  BY <1>2 DEF AfterStop, Commands
<1>. QED BY <1>1, <1>2

\* A step of the command changes its place alone.
LEMMA ServiceGoesOn ==
    ASSUME service \in Commands, NEW from,
           NEW to \in {"idle", "probing", "holding", "telling", "stopping",
                       "killed", "freed", "stopped", "starting", "awaiting",
                       "peeking"},
           ServiceGoes(from, to)
    PROVE  service' \in Commands /\ service'.pc = to /\ service.pc = from
BY DEF ServiceGoes, Commands

\* A poll takes one off the count.
LEMMA PeekLeavesFewer ==
    ASSUME service \in Commands, service.polls # 0,
           service' = [service EXCEPT !.pc = "peeking", !.polls = @ - 1]
    PROVE  service' \in Commands /\ service'.pc = "peeking"
<1>1. service.polls - 1 \in Nat
  BY DEF Commands
<1>. QED BY <1>1 DEF Commands

\* A process that is killed lets go of its own locks.
LEMMA KillKeepsLocks ==
    ASSUME LocksInv, Kill
    PROVE  LocksInv'
<1>. USE Distinct DEF LocksInv, Places, DaemonLockHeld, WorkerLockHeld,
     ToldHadLock, Active, Locked, DaemonPlaces, WorkerPlaces, lockVars
<1>1. PICK p \in service.doomed :
          /\ Killed(p)
          /\ service' = [service EXCEPT
                           !.doomed = @ \ {p},
                           !.pc = IF service.doomed = {p} THEN "killed" ELSE @]
  BY DEF Kill
<1>2. /\ service.pc = "killing" /\ UNCHANGED <<told, socket>>
      /\ service' \in Commands /\ service'.pc \in {"killing", "killed"}
      /\ service'.pc = "killed" => service.doomed = {p}
      /\ service'.doomed = service.doomed \ {p}
  BY <1>1 DEF Kill, Commands
<1>3. CASE p \in Workers /\ Killed(p)
  <2>1. CASE Alive(p)
    <3>1. WorkerEnds(p, {worker[p]}, "nocode") /\ UNCHANGED <<launcher, daemon>>
      BY <1>3, <2>1 DEF Killed
    <3>. QED BY <1>2, <1>3, <3>1 DEF WorkerEnds, Enters, Without
  <2>2. CASE ~Alive(p)
    <3>1. UNCHANGED <<launcher, lockVars, daemon, worker, monitor>>
      BY <1>3, <2>2 DEF Killed
    <3>. QED BY <1>2, <1>3, <2>2, <3>1 DEF Alive
  <2>. QED BY <2>1, <2>2
<1>4. CASE p \in Daemons /\ Killed(p)
  <2>1. CASE Active(p) \/ daemon[p] = "starting"
    <3>1. DaemonEnds(p, daemon[p], "crashed") /\ UNCHANGED <<launcher, worker, monitor>>
      BY <1>4, <2>1 DEF Killed
    <3>. QED BY <1>2, <1>4, <3>1 DEF DaemonEnds, Goes, Without
  <2>2. CASE ~Active(p) /\ daemon[p] # "starting"
    <3>1. UNCHANGED <<launcher, lockVars, daemon, worker, monitor>>
      BY <1>4, <2>2 DEF Killed
    <3>. QED BY <1>2, <1>4, <3>1
  <2>. QED BY <2>1, <2>2
<1>5. CASE p = Launcher /\ Killed(p)
  <2>1. CASE launcher # "done"
    <3>1. /\ launcher' = "done" /\ daemonLock' = Without(daemonLock, Launcher)
          /\ UNCHANGED <<workerLock, daemon, worker, monitor>>
      BY <1>5, <2>1 DEF Killed
    <3>. QED BY <1>2, <1>5, <3>1 DEF Without
  <2>2. CASE launcher = "done"
    <3>1. UNCHANGED <<launcher, lockVars, daemon, worker, monitor>>
      BY <1>5, <2>2 DEF Killed
    <3>. QED BY <1>2, <1>5, <3>1
  <2>. QED BY <2>1, <2>2
<1>. QED BY <1>1, <1>3, <1>4, <1>5 DEF Killed

\* The steps of the service command.
LEMMA ServiceKeepsLocks ==
    ASSUME LocksInv, ServiceStep \/ ServiceBegins
    PROVE  LocksInv'
<1>. USE Distinct DEF LocksInv, Places, DaemonLockHeld, WorkerLockHeld,
     ToldHadLock, Active, Locked, DaemonPlaces, WorkerPlaces, DaemonRest,
     ServiceRest, lockVars, daemonVars, workerVars, clientVars, worldVars
<1>1. CASE ServiceProbe
  <2>1. CASE workerLock = Free
    <3>1. ServiceGoes("probing", "holding")
      BY <1>1, <2>1 DEF ServiceProbe
    <3>2. service' \in Commands /\ service'.pc = "holding"
      BY <3>1, ServiceGoesOn
    <3>. QED BY <1>1, <2>1, <3>2 DEF ServiceProbe
  <2>2. CASE workerLock # Free
    <3>1. \E to \in {"telling", "idle"} : ServiceGoes("probing", to)
      BY <1>1, <2>2 DEF ServiceProbe
    <3>2. service' \in Commands /\ service'.pc \in {"telling", "idle"}
      BY <3>1, ServiceGoesOn
    <3>. QED BY <1>1, <2>2, <3>2 DEF ServiceProbe
  <2>. QED BY <2>1, <2>2
<1>2. CASE ServiceRelease
  <2>1. workerLock = Service
    BY <1>2 DEF ServiceRelease
  <2>2. ServiceGoes("holding", "starting") \/ AfterStop("idle")
    BY <1>2 DEF ServiceRelease
  <2>3. service' \in Commands /\ service'.pc \in {"starting", "probing", "idle"}
    BY <2>2, ServiceGoesOn, AfterStopGoes
  <2>. QED BY <1>2, <2>1, <2>3 DEF ServiceRelease
<1>3. CASE ServiceTell
  <2>1. CASE Listener = NoWorker
    <3>1. service' \in Commands /\ service'.pc \in {"probing", "idle"}
      BY <1>3, <2>1, AfterStopGoes DEF ServiceTell
    <3>. QED BY <1>3, <3>1 DEF ServiceTell
  <2>2. CASE Listener # NoWorker
    <3>1. told' \in Workers /\ worker[told'] = "running"
      BY <1>3, <2>2 DEF ServiceTell, Listener
    <3>2. ServiceGoes("telling", "stopping")
      BY <1>3, <2>2 DEF ServiceTell
    <3>3. service' \in Commands /\ service'.pc = "stopping"
      BY <3>2, ServiceGoesOn
    <3>. QED BY <1>3, <3>1, <3>3 DEF ServiceTell
  <2>. QED BY <2>1, <2>2
<1>4. CASE ServiceStops
  <2>1. \E from \in {"stopping", "killed"} : ServiceGoes(from, "freed")
    BY <1>4 DEF ServiceStops
  <2>2. /\ service' \in Commands /\ service'.pc = "freed"
        /\ service.pc \in {"stopping", "killed"}
    BY <2>1, ServiceGoesOn
  <2>3. \A w \in Workers : ~Locked(w)
    BY <1>4 DEF ServiceStops
  <2>. QED BY <1>4, <2>2, <2>3 DEF ServiceStops
<1>5. CASE ServiceFreed
  <2>1. service' \in Commands /\ service'.pc \in {"probing", "stopped"}
    BY <1>5, AfterStopGoes DEF ServiceFreed
  <2>. QED BY <1>5, <2>1 DEF ServiceFreed, Without
<1>6. CASE ForceKill
  <2>1. /\ service' \in Commands /\ service'.pc = "killing"
        /\ service.pc = "stopping"
        /\ \A w \in Workers : Alive(w) => w \in service'.doomed
    BY <1>6 DEF ForceKill, Commands
  <2>. QED BY <1>6, <2>1 DEF ForceKill, Alive
<1>12. CASE Kill
  BY <1>12, KillKeepsLocks DEF LocksInv
<1>7. CASE StopTimeout
  <2>1. service' \in Commands /\ service'.pc \in {"probing", "idle"}
    BY <1>7, AfterStopGoes DEF StopTimeout
  <2>. QED BY <1>7, <2>1 DEF StopTimeout
<1>8. CASE ServiceStarts
  <2>1. service' \in Commands /\ service'.pc = "awaiting"
    BY <1>8, ServiceGoesOn DEF ServiceStarts
  <2>. QED BY <1>8, <2>1 DEF ServiceStarts
<1>9. CASE ServiceAwaits
  <2>1. CASE workerLock # Free
    <3>1. service' \in Commands /\ service'.pc = "idle"
      BY <1>9, <2>1, ServiceGoesOn DEF ServiceAwaits
    <3>. QED BY <1>9, <2>1, <3>1 DEF ServiceAwaits
  <2>2. CASE workerLock = Free /\ service.polls = 0
    <3>1. service' \in Commands /\ service'.pc = "idle"
      BY <1>9, <2>2 DEF ServiceAwaits, Commands
    <3>. QED BY <1>9, <2>2, <3>1 DEF ServiceAwaits
  <2>3. CASE workerLock = Free /\ service.polls # 0
    <3>1. service' = [service EXCEPT !.pc = "peeking", !.polls = @ - 1]
      BY <1>9, <2>3 DEF ServiceAwaits
    <3>2. service' \in Commands /\ service'.pc = "peeking"
      BY <3>1, <2>3, PeekLeavesFewer
    <3>. QED BY <1>9, <2>3, <3>2 DEF ServiceAwaits
  <2>. QED BY <2>1, <2>2, <2>3
<1>10. CASE ServicePeeked
  <2>1. /\ service' \in Commands /\ service'.pc = "awaiting"
        /\ service.pc = "peeking"
    BY <1>10, ServiceGoesOn DEF ServicePeeked
  <2>. QED BY <1>10, <2>1 DEF ServicePeeked
<1>11. CASE ServiceBegins
  <2>1. service' \in Commands /\ service'.pc = "probing"
    BY <1>11, SupervisionAssumption
    DEF ServiceBegins, SupervisionAssumption, Commands
  <2>. QED BY <1>11, <2>1 DEF ServiceBegins
<1>. QED
  BY <1>1, <1>2, <1>3, <1>4, <1>5, <1>6, <1>7, <1>8, <1>9, <1>10, <1>11,
     <1>12
  DEF ServiceStep

\* The steps of the launcher, and the user's.
LEMMA LauncherKeepsLocks ==
    ASSUME LocksInv, LauncherStep \/ EditConfig \/ LaunchAgain
    PROVE  LocksInv'
<1>. USE Distinct DEF LocksInv, Places, DaemonLockHeld, WorkerLockHeld,
     ToldHadLock, Active, Locked, DaemonPlaces, WorkerPlaces, Goes, DaemonRest,
     lockVars, daemonVars, workerVars, clientVars, worldVars
<1>1. CASE LauncherProbe
  BY <1>1 DEF LauncherProbe
<1>2. CASE LauncherRelease
  BY <1>2 DEF LauncherRelease
<1>3. CASE LaunchDaemon
  BY <1>3 DEF LaunchDaemon
<1>4. CASE EditConfig
  BY <1>4 DEF EditConfig
<1>5. CASE LaunchAgain
  BY <1>5 DEF LaunchAgain
<1>. QED BY <1>1, <1>2, <1>3, <1>4, <1>5 DEF LauncherStep

\* Every step keeps the invariant of the locks.
LEMMA StepKeepsLocks == LocksInv /\ [Next]_vars => LocksInv'
<1>. SUFFICES ASSUME LocksInv, [Next]_vars PROVE LocksInv'
  OBVIOUS
<1>1. CASE Next
  BY <1>1, DaemonKeepsLocks, WorkerKeepsLocks, ServiceKeepsLocks,
     LauncherKeepsLocks
  DEF Next, World
<1>2. CASE UNCHANGED vars
  BY <1>2 DEF vars, lockVars, daemonVars, workerVars, clientVars, LocksInv,
     Places, DaemonLockHeld, WorkerLockHeld, ToldHadLock, Active, Locked
<1>. QED BY <1>1, <1>2

\* The invariant of the locks holds in every reachable state.
LEMMA LocksAlways == Spec => []LocksInv
BY LocksInit, StepKeepsLocks, PTL DEF Spec

-----------------------------------------------------------------------------

\* Whatever probes the locks and whatever crashes, one worker runs an engine and
\* one daemon spawns workers: each of them would hold the same lock.
THEOREM OneAtATimeAlways == Spec => []OneAtATime
<1>1. LocksInv => OneAtATime
  BY DEF LocksInv, DaemonLockHeld, WorkerLockHeld, OneAtATime
<1>. QED BY <1>1, LocksAlways, PTL

\* A message to the worker is taken by the process that holds its lock: a
\* restart that waits for the lock waits for the one that it has told to exit.
THEOREM ListenerAlwaysHoldsLock == Spec => []ListenerHoldsLock
<1>1. LocksInv => ListenerHoldsLock
  BY SupervisionAssumption DEF LocksInv, Places, WorkerLockHeld, Locked,
     Listener, ListenerHoldsLock, SupervisionAssumption
<1>. QED BY <1>1, LocksAlways, PTL

\* When `stop' has had the lock, the worker that it told to exit is gone, with
\* or without force.
THEOREM StopAlwaysStops == Spec => []StopMeansStopped
<1>1. LocksInv => StopMeansStopped
  BY SupervisionAssumption DEF LocksInv, ToldHadLock, Alive, StopMeansStopped,
     SupervisionAssumption
<1>. QED BY <1>1, LocksAlways, PTL

-----------------------------------------------------------------------------
(* Types *)

\* What the locks are not about.
Rest ==
    /\ daemonLock \in {Free, Launcher} \cup Daemons \cup Workers
    /\ workerLock \in {Free, Service} \cup Daemons \cup Workers
    /\ auto \in [Daemons -> BOOLEAN] /\ watched \in [Daemons -> BOOLEAN]
    /\ signals \in [Daemons -> Nat] /\ codes \in [Daemons -> Seq(ExitCodes)]
    /\ parent \in [Workers -> Daemons \cup {NoDaemon}]
    /\ loaded \in [Workers -> Nat]
    /\ asked \in [Workers -> [signal : Requests, tray : Requests]]
    /\ busy \in [Workers -> BOOLEAN]
    /\ code \in [Workers -> ExitCodes]
    /\ config \in [rev : Nat, ok : BOOLEAN, auto : BOOLEAN]
    /\ told \in Workers \cup {NoWorker}
    /\ launcher \in {"probing", "holding", "launching", "done"}
    /\ scenario \in SUBSET Disturbances /\ budget \in Nat

\* Types are places and the rest.
LEMMA TypesSplit == TypeOK <=> Places /\ Rest
BY DEF TypeOK, Places, Rest, Commands

\* At first everything has its type.
LEMMA RestInit == Init => Rest
<1>. SUFFICES ASSUME Init PROVE Rest
  OBVIOUS
<1>1. /\ \A s \in Scenarios : s.may \in SUBSET Disturbances /\ s.budget \in Nat
      /\ NotAsked \in [signal : Requests, tray : Requests]
      /\ <<>> \in Seq(ExitCodes) /\ "success" \in ExitCodes
  BY SupervisionAssumption
  DEF SupervisionAssumption, NotAsked, Requests, ExitCodes
<1>2. config \in [rev : Nat, ok : BOOLEAN, auto : BOOLEAN]
  <2>1. [rev : {0}, ok : {TRUE}, auto : BOOLEAN]
          \subseteq [rev : Nat, ok : BOOLEAN, auto : BOOLEAN]
    <3>1. {0} \subseteq Nat /\ {TRUE} \subseteq BOOLEAN
      OBVIOUS
    <3>. QED BY <3>1
  <2>. QED BY <2>1 DEF Init
<1>3. scenario \in SUBSET Disturbances /\ budget \in Nat
  BY <1>1 DEF Init
<1>. QED BY <1>1, <1>2, <1>3 DEF Init, Rest

\* A request keeps the types.
LEMMA RequestTypes ==
    ASSUME Rest, NEW w \in Workers \cup {NoWorker},
           NEW channel \in {"signal", "tray"}, NEW mode \in ExitModes,
           Request(w, channel, mode)
    PROVE  asked' \in [Workers -> [signal : Requests, tray : Requests]]
<1>1. CASE asked' = asked
  BY <1>1 DEF Rest
<1>2. CASE w # NoWorker /\ asked' = [asked EXCEPT ![w][channel] = mode]
  <2>1. mode \in Requests
    BY DEF Requests
  <2>2. CASE channel = "signal"
    BY <1>2, <2>1, <2>2 DEF Rest
  <2>3. CASE channel = "tray"
    BY <1>2, <2>1, <2>3 DEF Rest
  <2>. QED BY <2>2, <2>3
<1>. QED BY <1>1, <1>2 DEF Request

\* The steps of the daemons keep the types.
LEMMA DaemonTypes ==
    ASSUME Places, Rest, NEW d \in Daemons,
           DaemonStep(d) \/ DaemonAborts(d) \/ DaemonCrash(d) \/ OnLayoutChange(d)
    PROVE  Rest'
<1>. USE DEF Rest, Places, Goes, DaemonRest, lockVars, workerVars, clientVars,
     worldVars, DaemonEnds, Without, Disturbed
<1>1. CASE DaemonLock(d)
  BY <1>1 DEF DaemonLock
<1>2. CASE DaemonLoad(d)
  BY <1>2 DEF DaemonLoad
<1>3. CASE DaemonReload(d)
  <2>1. signals' \in [Daemons -> Nat]
    BY <1>3 DEF DaemonReload
  <2>. QED BY <1>3, <2>1 DEF DaemonReload
<1>4. CASE ProbeWorker(d)
  BY <1>4 DEF ProbeWorker
<1>5. CASE TellWorker(d)
  <2>1. Listener \in Workers \cup {NoWorker} /\ "Exit" \in ExitModes
    BY DEF Listener, ExitModes
  <2>2. asked' \in [Workers -> [signal : Requests, tray : Requests]]
    BY <1>5, <2>1, RequestTypes DEF TellWorker
  <2>. QED BY <1>5, <2>2 DEF TellWorker
<1>6. CASE WaitWorker(d)
  BY <1>6 DEF WaitWorker
<1>7. CASE WaitTimeout(d)
  BY <1>7 DEF WaitTimeout
<1>8. CASE ReleaseWorker(d)
  BY <1>8 DEF ReleaseWorker
<1>9. CASE SpawnWorker(d)
  BY <1>9 DEF SpawnWorker
<1>10. CASE OnConfigChange(d)
  <2>1. signals' \in [Daemons -> Nat]
    BY <1>10 DEF OnConfigChange
  <2>. QED BY <1>10, <2>1 DEF OnConfigChange
<1>11. CASE OnExitCode(d)
  <2>1. codes' \in [Daemons -> Seq(ExitCodes)]
    <3>1. codes[d] \in Seq(ExitCodes) /\ codes[d] # <<>>
      BY <1>11 DEF OnExitCode
    <3>2. Tail(codes[d]) \in Seq(ExitCodes)
      BY <3>1
    <3>. QED BY <1>11, <3>2 DEF OnExitCode
  <2>2. /\ daemonLock' \in {daemonLock, Free} /\ workerLock' \in {workerLock, Free}
        /\ UNCHANGED <<auto, watched, signals, workerVars, clientVars, worldVars>>
    BY <1>11 DEF OnExitCode
  <2>. QED BY <2>1, <2>2
<1>12. CASE Debounce(d)
  <2>1. signals' \in [Daemons -> Nat]
    BY <1>12 DEF Debounce
  <2>. QED BY <1>12, <2>1 DEF Debounce
<1>13. CASE DaemonAborts(d)
  BY <1>13 DEF DaemonAborts
<1>14. CASE DaemonCrash(d)
  BY <1>14 DEF DaemonCrash
<1>15. CASE OnLayoutChange(d)
  BY <1>15 DEF OnLayoutChange
<1>. QED
  BY <1>1, <1>2, <1>3, <1>4, <1>5, <1>6, <1>7, <1>8, <1>9, <1>10, <1>11,
     <1>12, <1>13, <1>14, <1>15 DEF DaemonStep

\* The steps of the workers keep the types.
LEMMA WorkerTypes ==
    ASSUME Places, Rest, NEW w \in Workers,
           \/ WorkerStep(w) \/ AskWorker(w) \/ OpenSearch(w)
           \/ CloseSearch(w) \/ WorkerCrash(w)
    PROVE  Rest'
<1>. USE DEF Rest, Places, Enters, daemonVars, lockVars, clientVars,
     worldVars, WorkerEnds, Without, Disturbed
<1>1. CASE WorkerLoad(w)
  BY <1>1 DEF WorkerLoad, ExitCodes
<1>2. CASE WorkerLock(w)
  BY <1>2 DEF WorkerLock, ExitCodes
<1>3. CASE WorkerServes(w)
  BY <1>3 DEF WorkerServes
<1>4. CASE MonitorProbe(w)
  BY <1>4 DEF MonitorProbe
<1>5. CASE MonitorSignals(w)
  <2>1. asked' \in [Workers -> [signal : Requests, tray : Requests]]
    BY <1>5, RequestTypes DEF MonitorSignals, ExitModes
  <2>. QED BY <1>5, <2>1 DEF MonitorSignals
<1>6. CASE WorkerExits(w)
  <2>1. PICK channel \in {"signal", "tray"} :
            /\ asked[w][channel] # NoMode
            /\ WorkerEnds(w, {"locked", "running"}, CodeOf(asked[w][channel]))
    BY <1>6 DEF WorkerExits
  <2>2. asked[w][channel] \in Requests
    <3>1. asked[w] \in [signal : Requests, tray : Requests]
      OBVIOUS
    <3>2. CASE channel = "signal"
      BY <3>1, <3>2
    <3>3. CASE channel = "tray"
      BY <3>1, <3>3
    <3>. QED BY <3>2, <3>3
  <2>3. CodeOf(asked[w][channel]) \in ExitCodes
    BY <2>1, <2>2 DEF Requests, ExitModes, CodeOf, ExitCodes
  <2>. QED BY <1>6, <2>1, <2>3 DEF WorkerExits
<1>7. CASE Reported(w)
  <2>1. codes' \in [Daemons -> Seq(ExitCodes)]
    <3>1. CASE codes' = codes
      BY <3>1
    <3>2. CASE /\ parent[w] \in Daemons
               /\ codes' = [codes EXCEPT ![parent[w]] = Append(@, code[w])]
      <4>1. Append(codes[parent[w]], code[w]) \in Seq(ExitCodes)
        BY <3>2
      <4>. QED BY <3>2, <4>1
    <3>. QED BY <1>7, <3>1, <3>2 DEF Reported
  <2>. QED BY <1>7, <2>1 DEF Reported
<1>8. CASE AskWorker(w)
  <2>1. asked' \in [Workers -> [signal : Requests, tray : Requests]]
    BY <1>8, RequestTypes DEF AskWorker, ExitModes
  <2>2. budget' \in Nat
    BY <1>8 DEF AskWorker
  <2>. QED BY <1>8, <2>1, <2>2 DEF AskWorker
<1>9. CASE OpenSearch(w)
  BY <1>9 DEF OpenSearch
<1>10. CASE CloseSearch(w)
  BY <1>10 DEF CloseSearch
<1>11. CASE WorkerCrash(w)
  BY <1>11 DEF WorkerCrash, ExitCodes
<1>. QED
  BY <1>1, <1>2, <1>3, <1>4, <1>5, <1>6, <1>7, <1>8, <1>9, <1>10, <1>11
  DEF WorkerStep

\* The steps of the launcher, the commands and the user keep the types.
LEMMA ClientTypes ==
    ASSUME Places, Rest,
           \/ ServiceStep \/ ServiceBegins \/ LauncherStep \/ EditConfig
           \/ LaunchAgain
    PROVE  Rest'
<1>. USE DEF Rest, Places, Goes, DaemonRest, ServiceRest, lockVars, daemonVars,
     workerVars, clientVars, worldVars, Without, Disturbed
<1>1. CASE ServiceTell
  <2>1. Listener \in Workers \cup {NoWorker} /\ "ExitAllProcesses" \in ExitModes
    BY DEF Listener, ExitModes
  <2>2. asked' \in [Workers -> [signal : Requests, tray : Requests]]
    BY <1>1, <2>1, RequestTypes DEF ServiceTell
  <2>. QED BY <1>1, <2>1, <2>2 DEF ServiceTell
<1>2. CASE Kill
  <2>1. code' \in [Workers -> ExitCodes] /\ busy' \in [Workers -> BOOLEAN]
    BY <1>2 DEF Kill, Killed, WorkerEnds, ExitCodes
  <2>2. /\ daemonLock' \in {Free, Launcher} \cup Daemons \cup Workers
        /\ workerLock' \in {Free, Service} \cup Daemons \cup Workers
        /\ launcher' \in {"probing", "holding", "launching", "done"}
    BY <1>2 DEF Kill, Killed, WorkerEnds, DaemonEnds
  <2>. QED BY <1>2, <2>1, <2>2 DEF Kill
<1>3. CASE ServiceStep /\ ~ServiceTell /\ ~Kill
  BY <1>3 DEF ServiceStep, ServiceProbe, ServiceRelease, ServiceStops,
     ServiceFreed, ForceKill, StopTimeout, ServiceStarts, ServiceAwaits, ServicePeeked
<1>4. CASE ServiceBegins
  BY <1>4 DEF ServiceBegins
<1>5. CASE LauncherStep
  BY <1>5 DEF LauncherStep, LauncherProbe, LauncherRelease, LaunchDaemon
<1>6. CASE EditConfig
  BY <1>6 DEF EditConfig
<1>7. CASE LaunchAgain
  BY <1>7 DEF LaunchAgain
<1>. QED BY <1>1, <1>2, <1>3, <1>4, <1>5, <1>6, <1>7

\* In every reachable state every variable has its type.
THEOREM SupervisionTypes == Spec => []TypeOK
<1>1. LocksInv /\ Rest /\ [Next]_vars => Rest'
  <2>. SUFFICES ASSUME LocksInv, Rest, [Next]_vars PROVE Rest'
    OBVIOUS
  <2>1. CASE Next
    BY <2>1, DaemonTypes, WorkerTypes, ClientTypes DEF LocksInv, Next, World
  <2>2. CASE UNCHANGED vars
    BY <2>2 DEF vars, lockVars, daemonVars, workerVars, clientVars, worldVars,
       Rest
  <2>. QED BY <2>1, <2>2
<1>2. LocksInv /\ Rest => TypeOK
  BY TypesSplit DEF LocksInv
<1>. QED BY <1>1, <1>2, RestInit, LocksAlways, PTL DEF Spec

-----------------------------------------------------------------------------
(* One restart at a time *)

\* A worker that does not serve yet, and one that is to be replaced by another.
Fresh(w) == worker[w] \in {"spawned", "loaded", "locked"}
Restarting(w) ==
    \/ Alive(w) /\ asked[w].tray = "RestartWorker"
    \/ worker[w] = "ended" /\ code[w] = "restart"

NoneStarted == \A w \in Workers : worker[w] = "none"
NoneAlive   == \A w \in Workers : ~Alive(w)
NoneUnderWay == \A w \in Workers : ~Fresh(w) /\ ~Restarting(w)

\* A change that is to be dealt with, and a restart that is.
Due(d) == watched[d] \/ signals[d] # 0
RestartAt(d, i) == i \in DOMAIN codes[d] /\ codes[d][i] = "restart"

\* The lock of the worker is held by the worker or by a daemon that restarts it.
LockOwned ==
    /\ \A w \in Workers : workerLock = w => Locked(w)
    /\ \A d \in Daemons : workerLock = d => daemon[d] = "releasing"
    /\ workerLock # Service

\* Nothing happens that a calm scenario excludes.
Undisturbed ==
    /\ config.ok /\ service.pc = "idle"
    /\ \A d \in Daemons : daemon[d] \notin {"troubled", "telling", "clearing",
                                            "failed", "crashed"}

\* Without an exit no daemon exits, without a second launch there is one daemon,
\* and no worker comes before the daemon.
NoExit == "exit" \notin scenario =>
    /\ \A d \in Daemons : daemon[d] # "exited"
    /\ \A d \in Daemons : \A i \in DOMAIN codes[d] : codes[d][i] # "all"
    /\ \A w \in Workers : asked[w].tray # "ExitAllProcesses"
    /\ \A w \in Workers : code[w] # "all"
OneDaemon == "launch" \notin scenario =>
    /\ launcher # "done" => \A d \in Daemons : daemon[d] = "none"
    /\ \A c, d \in Daemons : daemon[c] # "none" /\ daemon[d] # "none" => c = d
DaemonFirst ==
    (\A d \in Daemons : ~Active(d) /\ daemon[d] # "exited") => NoneStarted

\* A daemon that has not passed its lock knows of nothing.
Unaware == \A d \in Daemons : daemon[d] \in {"none", "starting"} =>
    ~watched[d] /\ signals[d] = 0 /\ codes[d] = <<>>

\* A worker is asked to exit when it runs, by a signal or in the tray.
Requested == \A w \in Workers :
    /\ worker[w] \in {"none", "spawned", "loaded"} => asked[w] = NotAsked
    /\ asked[w].signal \in {NoMode, "Exit"}
    /\ monitor[w] # "off" => worker[w] = "running"

\* No worker ends because of an error.
ExpectedCodes ==
    /\ \A w \in Workers : code[w] \in {"success", "all", "restart"}
    /\ \A d \in Daemons : \A i \in DOMAIN codes[d] :
          codes[d][i] \in {"all", "restart"}

OneAlive == \A v, w \in Workers : Alive(v) /\ Alive(w) => v = w

\* A worker that starts, one that is to be restarted, an exit code that asks for
\* a restart, a change on disk and a daemon that prepares a worker exclude each
\* other: each of them is, or leads to, the one restart that is under way.
OneUnderWay ==
    /\ \A v, w \in Workers :
          (Fresh(v) \/ Restarting(v)) /\ (Fresh(w) \/ Restarting(w)) => v = w
    /\ \A w \in Workers : worker[w] = "ended" /\ code[w] = "restart" => NoneAlive
    /\ \A w \in Workers : ~(Restarting(w) /\ Fresh(w))
Undivided(d) == Active(d) =>
    /\ Due(d) => /\ daemon[d] = "ready" /\ NoneUnderWay
                 /\ ~watched[d] \/ signals[d] = 0
                 /\ signals[d] <= 1
    /\ daemon[d] # "ready" => NoneUnderWay
    /\ daemon[d] = "spawning" => NoneAlive
    /\ daemon[d] \in {"loading", "probing"} => NoneStarted
    /\ \A i, j \in DOMAIN codes[d] : RestartAt(d, i) =>
          /\ daemon[d] = "ready" /\ NoneAlive /\ NoneUnderWay /\ ~Due(d)
          /\ RestartAt(d, j) => i = j
OneRestart == OneUnderWay /\ \A d \in Daemons : Undivided(d)

CalmInv ==
    /\ LockOwned /\ Undisturbed /\ NoExit /\ OneDaemon /\ DaemonFirst
    /\ Unaware /\ Requested /\ ExpectedCodes /\ OneAlive /\ OneRestart

-----------------------------------------------------------------------------

\* What cannot happen in a calm scenario.
LEMMA NeverCalm ==
    ASSUME LocksInv, TypeOK, Calm, CalmInv
    PROVE  /\ ~ServiceStep /\ ~ServiceBegins
           /\ \A d \in Daemons : /\ ~DaemonAborts(d) /\ ~DaemonCrash(d)
                                 /\ ~OnLayoutChange(d) /\ ~DaemonReload(d)
                                 /\ ~WaitTimeout(d) \/ Goes(d, "waiting", "ready")
           /\ \A w \in Workers : ~WorkerCrash(w)
<1>1. ~ServiceStep
  BY DEF CalmInv, Undisturbed, ServiceStep, ServiceProbe, ServiceRelease,
     ServiceTell, ServiceStops, ServiceFreed, ForceKill, Kill, StopTimeout,
     ServiceStarts, ServiceAwaits, ServicePeeked, ServiceGoes
<1>2. ~ServiceBegins
  BY DEF Calm, ServiceBegins, Disturbed
<1>3. \A d \in Daemons : /\ ~DaemonAborts(d) /\ ~DaemonCrash(d)
                         /\ ~OnLayoutChange(d) /\ ~DaemonReload(d)
                         /\ ~WaitTimeout(d) \/ Goes(d, "waiting", "ready")
  BY DEF CalmInv, Undisturbed, Calm, DaemonAborts, DaemonCrash, OnLayoutChange,
     DaemonReload, WaitTimeout, DaemonEnds, Goes, Disturbed
<1>4. \A w \in Workers : ~WorkerCrash(w)
  BY DEF Calm, WorkerCrash, Disturbed
<1>. QED BY <1>1, <1>2, <1>3, <1>4

\* A daemon that takes a step has been started, and leaves the others alone.
LEMMA OthersStayPut ==
    ASSUME TypeOK, NEW d \in Daemons, DaemonStep(d)
    PROVE  /\ daemon[d] # "none" /\ UNCHANGED <<launcher, scenario>>
           /\ \A c \in Daemons : c # d => daemon'[c] = daemon[c]
<1>. USE DEF TypeOK, DaemonStep, Goes, clientVars, worldVars
<1>1. CASE \/ DaemonLock(d) \/ DaemonLoad(d) \/ DaemonReload(d)
           \/ ProbeWorker(d) \/ TellWorker(d) \/ WaitWorker(d)
  BY <1>1 DEF DaemonLock, DaemonLoad, DaemonReload, ProbeWorker, TellWorker,
     WaitWorker
<1>2. CASE \/ WaitTimeout(d) \/ ReleaseWorker(d) \/ SpawnWorker(d)
           \/ OnConfigChange(d) \/ OnExitCode(d) \/ Debounce(d)
  BY <1>2 DEF WaitTimeout, ReleaseWorker, SpawnWorker, OnConfigChange,
     OnExitCode, Debounce, DaemonEnds, Active
<1>. QED BY <1>1, <1>2

\* A step of a daemon does not start another.
LEMMA OthersStay ==
    ASSUME TypeOK, OneDaemon, NEW d \in Daemons, DaemonStep(d)
    PROVE  OneDaemon'
BY OthersStayPut DEF OneDaemon

\* The daemons: what does not depend on what is under way.
LEMMA DaemonCalm ==
    ASSUME LocksInv, TypeOK, Calm, CalmInv, NEW d \in Daemons, DaemonStep(d)
    PROVE  /\ LockOwned' /\ Undisturbed' /\ NoExit' /\ OneDaemon'
           /\ DaemonFirst' /\ Unaware' /\ Requested' /\ OneAlive'
<1>. USE Distinct DEF LocksInv, Places,
     DaemonLockHeld, WorkerLockHeld, Active, Locked, Alive, Calm,
     CalmInv, LockOwned, Undisturbed, Requested, OneAlive,
     Goes, DaemonRest, lockVars, workerVars, clientVars, worldVars
<1>. USE DEF TypeOK
<1>1. CASE DaemonLock(d)
  <2>1. LockOwned'
    BY <1>1 DEF DaemonLock
  <2>2. Undisturbed'
    BY <1>1 DEF DaemonLock
  <2>3. NoExit'
    BY <1>1 DEF DaemonLock, NoExit
  <2>4. OneDaemon'
    BY <1>1, OthersStay DEF DaemonStep
  <2>5. DaemonFirst'
    BY <1>1 DEF DaemonLock, DaemonFirst, NoneStarted
  <2>6. Requested'
    BY <1>1 DEF DaemonLock
  <2>7. OneAlive'
    BY <1>1 DEF DaemonLock
  <2>8. Unaware'
    BY <1>1 DEF DaemonLock, Unaware
  <2>. QED BY <2>1, <2>2, <2>3, <2>4, <2>5, <2>6, <2>7, <2>8
<1>2. CASE DaemonLoad(d)
  <2>1. LockOwned'
    BY <1>2 DEF DaemonLoad
  <2>2. Undisturbed'
    BY <1>2 DEF DaemonLoad
  <2>3. NoExit'
    BY <1>2 DEF DaemonLoad, NoExit
  <2>4. OneDaemon'
    BY <1>2, OthersStay DEF DaemonStep
  <2>5. DaemonFirst'
    BY <1>2 DEF DaemonLoad, DaemonFirst, NoneStarted
  <2>6. Requested'
    BY <1>2 DEF DaemonLoad
  <2>7. OneAlive'
    BY <1>2 DEF DaemonLoad
  <2>8. Unaware'
    BY <1>2 DEF DaemonLoad, Unaware
  <2>. QED BY <2>1, <2>2, <2>3, <2>4, <2>5, <2>6, <2>7, <2>8
<1>4. CASE ProbeWorker(d)
  <2>1. LockOwned'
    BY <1>4 DEF ProbeWorker, OneRestart, Undivided, NoneStarted
  <2>2. Undisturbed'
    BY <1>4 DEF ProbeWorker, OneRestart, Undivided, NoneStarted
  <2>3. NoExit'
    BY <1>4 DEF ProbeWorker, OneRestart, Undivided, NoneStarted, NoExit
  <2>4. OneDaemon'
    BY <1>4, OthersStay DEF DaemonStep
  <2>5. DaemonFirst'
    BY <1>4 DEF ProbeWorker, OneRestart, Undivided, NoneStarted, DaemonFirst, NoneStarted
  <2>6. Requested'
    BY <1>4 DEF ProbeWorker, OneRestart, Undivided, NoneStarted
  <2>7. OneAlive'
    BY <1>4 DEF ProbeWorker, OneRestart, Undivided, NoneStarted
  <2>8. Unaware'
    BY <1>4 DEF ProbeWorker, Unaware
  <2>. QED BY <2>1, <2>2, <2>3, <2>4, <2>5, <2>6, <2>7, <2>8
<1>5. CASE TellWorker(d)
  <2>1. LockOwned'
    BY <1>5 DEF TellWorker, Request, Listener, OneRestart, Undivided, NotAsked
  <2>2. Undisturbed'
    BY <1>5 DEF TellWorker, Request, Listener, OneRestart, Undivided, NotAsked
  <2>3. NoExit'
    BY <1>5 DEF TellWorker, Request, Listener, OneRestart, Undivided, NotAsked, NoExit
  <2>4. OneDaemon'
    BY <1>5, OthersStay DEF DaemonStep
  <2>5. DaemonFirst'
    BY <1>5 DEF TellWorker, Request, Listener, OneRestart, Undivided, NotAsked, DaemonFirst, NoneStarted
  <2>6. Requested'
    BY <1>5 DEF TellWorker, Request, Listener, OneRestart, Undivided, NotAsked
  <2>7. OneAlive'
    BY <1>5 DEF TellWorker, Request, Listener, OneRestart, Undivided, NotAsked
  <2>8. Unaware'
    BY <1>5 DEF TellWorker, Unaware
  <2>. QED BY <2>1, <2>2, <2>3, <2>4, <2>5, <2>6, <2>7, <2>8
<1>6. CASE WaitWorker(d)
  <2>1. LockOwned'
    BY <1>6 DEF WaitWorker
  <2>2. Undisturbed'
    BY <1>6 DEF WaitWorker
  <2>3. NoExit'
    BY <1>6 DEF WaitWorker, NoExit
  <2>4. OneDaemon'
    BY <1>6, OthersStay DEF DaemonStep
  <2>5. DaemonFirst'
    BY <1>6 DEF WaitWorker, DaemonFirst, NoneStarted
  <2>6. Requested'
    BY <1>6 DEF WaitWorker
  <2>7. OneAlive'
    BY <1>6 DEF WaitWorker
  <2>8. Unaware'
    BY <1>6 DEF WaitWorker, Unaware
  <2>. QED BY <2>1, <2>2, <2>3, <2>4, <2>5, <2>6, <2>7, <2>8
<1>7. CASE WaitTimeout(d)
  <2>1. LockOwned'
    BY <1>7, NeverCalm DEF WaitTimeout, DaemonEnds
  <2>2. Undisturbed'
    BY <1>7, NeverCalm DEF WaitTimeout, DaemonEnds
  <2>3. NoExit'
    BY <1>7, NeverCalm DEF WaitTimeout, DaemonEnds, NoExit
  <2>4. OneDaemon'
    BY <1>7, OthersStay DEF DaemonStep
  <2>5. DaemonFirst'
    BY <1>7, NeverCalm DEF WaitTimeout, DaemonEnds, DaemonFirst, NoneStarted
  <2>6. Requested'
    BY <1>7, NeverCalm DEF WaitTimeout, DaemonEnds
  <2>7. OneAlive'
    BY <1>7, NeverCalm DEF WaitTimeout, DaemonEnds
  <2>8. Unaware'
    BY <1>7, NeverCalm DEF WaitTimeout, DaemonEnds, Unaware
  <2>. QED BY <2>1, <2>2, <2>3, <2>4, <2>5, <2>6, <2>7, <2>8
<1>8. CASE ReleaseWorker(d)
  <2>1. LockOwned'
    BY <1>8 DEF ReleaseWorker
  <2>2. Undisturbed'
    BY <1>8 DEF ReleaseWorker
  <2>3. NoExit'
    BY <1>8 DEF ReleaseWorker, NoExit
  <2>4. OneDaemon'
    BY <1>8, OthersStay DEF DaemonStep
  <2>5. DaemonFirst'
    BY <1>8 DEF ReleaseWorker, DaemonFirst, NoneStarted
  <2>6. Requested'
    BY <1>8 DEF ReleaseWorker
  <2>7. OneAlive'
    BY <1>8 DEF ReleaseWorker
  <2>8. Unaware'
    BY <1>8 DEF ReleaseWorker, Unaware
  <2>. QED BY <2>1, <2>2, <2>3, <2>4, <2>5, <2>6, <2>7, <2>8
<1>9. CASE SpawnWorker(d)
  <2>1. LockOwned'
    BY <1>9 DEF SpawnWorker, OneRestart, Undivided, NoneAlive
  <2>2. Undisturbed'
    BY <1>9 DEF SpawnWorker, OneRestart, Undivided, NoneAlive
  <2>3. NoExit'
    BY <1>9 DEF SpawnWorker, OneRestart, Undivided, NoneAlive, NoExit
  <2>4. OneDaemon'
    BY <1>9, OthersStay DEF DaemonStep
  <2>5. DaemonFirst'
    BY <1>9 DEF SpawnWorker, OneRestart, Undivided, NoneAlive, DaemonFirst, NoneStarted
  <2>6. Requested'
    BY <1>9 DEF SpawnWorker, OneRestart, Undivided, NoneAlive
  <2>7. OneAlive'
    BY <1>9 DEF SpawnWorker, OneRestart, Undivided, NoneAlive
  <2>8. Unaware'
    BY <1>9 DEF SpawnWorker, Unaware
  <2>. QED BY <2>1, <2>2, <2>3, <2>4, <2>5, <2>6, <2>7, <2>8
<1>10. CASE OnConfigChange(d)
  <2>1. LockOwned'
    BY <1>10 DEF OnConfigChange
  <2>2. Undisturbed'
    BY <1>10 DEF OnConfigChange
  <2>3. NoExit'
    BY <1>10 DEF OnConfigChange, NoExit
  <2>4. OneDaemon'
    BY <1>10, OthersStay DEF DaemonStep
  <2>5. DaemonFirst'
    BY <1>10 DEF OnConfigChange, DaemonFirst, NoneStarted
  <2>6. Requested'
    BY <1>10 DEF OnConfigChange
  <2>7. OneAlive'
    BY <1>10 DEF OnConfigChange
  <2>8. Unaware'
    BY <1>10 DEF OnConfigChange, Unaware
  <2>. QED BY <2>1, <2>2, <2>3, <2>4, <2>5, <2>6, <2>7, <2>8
<1>11. CASE OnExitCode(d)
  <2>1. LockOwned'
    BY <1>11 DEF OnExitCode, DaemonEnds, Without, ExpectedCodes
  <2>2. Undisturbed'
    BY <1>11 DEF OnExitCode, DaemonEnds, Without, ExpectedCodes
  <2>3. NoExit'
    BY <1>11 DEF OnExitCode, DaemonEnds, Without, ExpectedCodes, NoExit
  <2>4. OneDaemon'
    BY <1>11, OthersStay DEF DaemonStep
  <2>5. DaemonFirst'
    BY <1>11 DEF OnExitCode, DaemonEnds, Without, ExpectedCodes, DaemonFirst, NoneStarted
  <2>6. Requested'
    BY <1>11 DEF OnExitCode, DaemonEnds, Without, ExpectedCodes
  <2>7. OneAlive'
    BY <1>11 DEF OnExitCode, DaemonEnds, Without, ExpectedCodes
  <2>8. Unaware'
    BY <1>11 DEF OnExitCode, DaemonEnds, Unaware
  <2>. QED BY <2>1, <2>2, <2>3, <2>4, <2>5, <2>6, <2>7, <2>8
<1>12. CASE Debounce(d)
  <2>1. LockOwned'
    BY <1>12 DEF Debounce
  <2>2. Undisturbed'
    BY <1>12 DEF Debounce
  <2>3. NoExit'
    BY <1>12 DEF Debounce, NoExit
  <2>4. OneDaemon'
    BY <1>12, OthersStay DEF DaemonStep
  <2>5. DaemonFirst'
    BY <1>12 DEF Debounce, DaemonFirst, NoneStarted
  <2>6. Requested'
    BY <1>12 DEF Debounce
  <2>7. OneAlive'
    BY <1>12 DEF Debounce
  <2>8. Unaware'
    BY <1>12 DEF Debounce, Unaware
  <2>. QED BY <2>1, <2>2, <2>3, <2>4, <2>5, <2>6, <2>7, <2>8
<1>. QED
  BY <1>1, <1>2, NeverCalm, <1>4, <1>5, <1>6, <1>7, <1>8, <1>9, <1>10, <1>11,
     <1>12 DEF DaemonStep

\* What is left of the exit codes when the first is read, and what is added.
LEMMA TailCodes ==
    ASSUME NEW s \in Seq(ExitCodes), s # <<>>
    PROVE  /\ Tail(s) \in Seq(ExitCodes) /\ 1 \in DOMAIN s /\ Head(s) = s[1]
           /\ \A i \in DOMAIN Tail(s) :
                 /\ i \in Nat \ {0} /\ i + 1 \in DOMAIN s
                 /\ Tail(s)[i] = s[i + 1]
OBVIOUS

\* An exit code is added at the end.
LEMMA AppendCodes ==
    ASSUME NEW s \in Seq(ExitCodes), NEW c \in ExitCodes
    PROVE  /\ Append(s, c) \in Seq(ExitCodes)
           /\ Len(s) + 1 \in DOMAIN Append(s, c) /\ Len(s) + 1 \notin DOMAIN s
           /\ Append(s, c)[Len(s) + 1] = c
           /\ \A i \in DOMAIN Append(s, c) :
                 \/ i \in DOMAIN s /\ Append(s, c)[i] = s[i]
                 \/ i = Len(s) + 1
           /\ \A i \in DOMAIN s : i \in DOMAIN Append(s, c)
OBVIOUS

\* Only its own exit codes are read by a daemon, and nothing is added.
LEMMA DaemonCodes ==
    ASSUME TypeOK, ExpectedCodes, NEW d \in Daemons, DaemonStep(d)
    PROVE  ExpectedCodes'
<1>1. code' = code /\ (codes' = codes \/ OnExitCode(d))
  <2>. USE DEF workerVars, DaemonRest
  <2>1. CASE \/ DaemonLock(d) \/ DaemonLoad(d) \/ DaemonReload(d)
             \/ ProbeWorker(d) \/ TellWorker(d) \/ WaitWorker(d)
    BY <2>1 DEF DaemonLock, DaemonLoad, DaemonReload, ProbeWorker, TellWorker,
       WaitWorker
  <2>2. CASE \/ WaitTimeout(d) \/ ReleaseWorker(d) \/ SpawnWorker(d)
             \/ OnConfigChange(d) \/ OnExitCode(d) \/ Debounce(d)
    BY <2>2 DEF WaitTimeout, ReleaseWorker, SpawnWorker, OnConfigChange,
       OnExitCode, Debounce
  <2>. QED BY <2>1, <2>2 DEF DaemonStep
<1>2. CASE OnExitCode(d)
  <2>1. codes' = [codes EXCEPT ![d] = Tail(codes[d])] /\ codes[d] # <<>>
    BY <1>2 DEF OnExitCode
  <2>2. \A i \in DOMAIN Tail(codes[d]) :
           i + 1 \in DOMAIN codes[d] /\ Tail(codes[d])[i] = codes[d][i + 1]
    BY <2>1, TailCodes DEF TypeOK
  <2>. QED BY <1>1, <2>1, <2>2 DEF ExpectedCodes, TypeOK
<1>. QED BY <1>1, <1>2 DEF ExpectedCodes

\* What is under way depends on the workers alone.
LEMMA SameUnderWay ==
    ASSUME UNCHANGED <<worker, asked, code>>
    PROVE  /\ OneUnderWay => OneUnderWay'
           /\ NoneUnderWay => NoneUnderWay'
           /\ NoneAlive' = NoneAlive /\ NoneStarted' = NoneStarted
BY DEF OneUnderWay, NoneUnderWay, NoneAlive, NoneStarted, Fresh, Restarting,
   Alive

\* The daemons: one restart at a time.
LEMMA DaemonRestarts ==
    ASSUME LocksInv, TypeOK, Calm, CalmInv, NEW d \in Daemons, DaemonStep(d)
    PROVE  OneRestart'
<1>. USE DEF TypeOK, DaemonRest, lockVars, clientVars, worldVars, Goes
<1>1. \A c \in Daemons : Undivided(c)
  BY DEF CalmInv, OneRestart
<1>2. OneUnderWay
  BY DEF CalmInv, OneRestart
<1>3. \A c \in Daemons : Active(c) /\ Active(d) => c = d
  BY DEF LocksInv, DaemonLockHeld
<1>4. DOMAIN daemon = Daemons /\ worker \in [Workers -> WorkerPlaces]
  OBVIOUS
<1>5. CASE DaemonLock(d)
  <2>1. /\ OneUnderWay'
        /\ NoneUnderWay => NoneUnderWay'
        /\ NoneAlive' = NoneAlive /\ NoneStarted' = NoneStarted
    BY <1>2, <1>5, SameUnderWay DEF DaemonLock, workerVars
  <2>2. UNCHANGED <<watched, signals, codes>>
    BY <1>5 DEF DaemonLock
  <2>3. CASE daemonLock = Free
    <3>1. \A c \in Daemons : ~Active(c)
      BY <2>3, Distinct DEF LocksInv, DaemonLockHeld
    <3>2. daemon[d] = "starting" /\ daemon' = [daemon EXCEPT ![d] = "loading"]
      BY <1>5, <2>3 DEF DaemonLock
    <3>3. \A c \in Daemons : daemon[c] # "exited"
      BY <3>2 DEF CalmInv, NoExit, OneDaemon, Calm
    <3>4. NoneStarted
      BY <3>1, <3>3 DEF CalmInv, DaemonFirst
    <3>5. NoneStarted' /\ NoneUnderWay'
      BY <2>1, <3>4 DEF NoneStarted, NoneUnderWay, Fresh, Restarting, Alive
    <3>6. ~watched[d] /\ signals[d] = 0 /\ DOMAIN codes[d] = {}
      BY <3>2 DEF CalmInv, Unaware
    <3>7. Undivided(d)'
      BY <2>2, <3>2, <3>5, <3>6 DEF Undivided, Due, RestartAt
    <3>8. \A c \in Daemons : c # d => ~Active(c)'
      BY <3>1, <3>2 DEF Active
    <3>. QED BY <2>1, <3>7, <3>8 DEF OneRestart, Undivided
  <2>4. CASE daemonLock # Free
    <3>1. daemon' = [daemon EXCEPT ![d] = "refused"]
      BY <1>5, <2>4 DEF DaemonLock
    <3>2. \A c \in Daemons : Active(c)' => Active(c) /\ daemon'[c] = daemon[c]
      BY <3>1 DEF Active
    <3>3. \A c \in Daemons : Undivided(c)'
      BY <1>1, <2>1, <2>2, <3>2 DEF Undivided, Due, RestartAt
    <3>. QED BY <2>1, <3>3 DEF OneRestart
  <2>. QED BY <2>3, <2>4
<1>6. ASSUME Active(d), ~DaemonLock(d)
      PROVE  \A c \in Daemons : c # d => ~Active(c)'
  <2>1. \A c \in Daemons : c # d => daemon'[c] = daemon[c]
    BY <1>6, OthersStayPut
  <2>. QED BY <1>3, <1>6, <2>1 DEF Active
<1>7. ASSUME Active(d), ~DaemonLock(d), OneUnderWay', Undivided(d)'
      PROVE  OneRestart'
  BY <1>6, <1>7 DEF OneRestart, Undivided
<1>8. ASSUME UNCHANGED <<worker, asked, code>>
      PROVE  /\ OneUnderWay'
             /\ NoneUnderWay => NoneUnderWay'
             /\ NoneAlive' = NoneAlive /\ NoneStarted' = NoneStarted
  BY <1>2, <1>8, SameUnderWay
<1>9. Undisturbed'
  BY DaemonCalm
<1>10. CASE DaemonLoad(d) \/ ProbeWorker(d) \/ WaitWorker(d)
  <2>1. /\ UNCHANGED <<worker, asked, code, watched, signals, codes>>
        /\ Active(d) /\ ~DaemonLock(d) /\ daemon[d] # "ready"
        /\ daemon'[d] \in {"probing", "releasing"}
        /\ daemon'[d] = "probing" => daemon[d] = "loading"
    BY <1>9, <1>10 DEF Active, DaemonLoad, ProbeWorker, WaitWorker, workerVars,
       DaemonLock, Undisturbed
  <2>2. Undivided(d)'
    BY <1>1, <1>8, <2>1 DEF Undivided, Due, RestartAt
  <2>. QED BY <1>7, <1>8, <2>1, <2>2
<1>11. CASE TellWorker(d)
  <2>1. /\ UNCHANGED <<worker, code, watched, signals, codes>>
        /\ Active(d) /\ ~DaemonLock(d) /\ daemon[d] = "asking"
        /\ daemon'[d] = "waiting"
    BY <1>11 DEF Active, TellWorker, DaemonLock, CalmInv, Undisturbed
  <2>2. \A w \in Workers : asked'[w].tray = asked[w].tray
    BY <1>11 DEF TellWorker, Request
  <2>3. /\ OneUnderWay'
        /\ NoneUnderWay => NoneUnderWay'
        /\ NoneAlive' = NoneAlive /\ NoneStarted' = NoneStarted
    BY <1>2, <2>1, <2>2 DEF OneUnderWay, NoneUnderWay, NoneAlive, NoneStarted,
       Fresh, Restarting, Alive
  <2>4. Undivided(d)'
    BY <1>1, <2>1, <2>3 DEF Undivided, Due, RestartAt
  <2>. QED BY <1>7, <2>1, <2>3, <2>4
<1>12. CASE WaitTimeout(d)
  <2>1. /\ UNCHANGED <<worker, asked, code, watched, signals, codes>>
        /\ Active(d) /\ ~DaemonLock(d) /\ daemon[d] = "waiting"
        /\ daemon'[d] = "ready"
    BY <1>12, NeverCalm DEF Active, WaitTimeout, workerVars, DaemonLock
  <2>2. Undivided(d)'
    BY <1>1, <1>8, <2>1 DEF Undivided, Due, RestartAt
  <2>. QED BY <1>7, <1>8, <2>1, <2>2
<1>13. CASE ReleaseWorker(d)
  <2>1. /\ UNCHANGED <<worker, asked, code, watched, signals, codes>>
        /\ Active(d) /\ ~DaemonLock(d) /\ daemon[d] = "releasing"
        /\ daemon'[d] = "spawning"
    BY <1>13 DEF Active, ReleaseWorker, workerVars, DaemonLock
  <2>2. NoneAlive
    <3>1. workerLock = d
      BY <2>1 DEF LocksInv, WorkerLockHeld
    <3>2. \A w \in Workers : ~Locked(w)
      BY <3>1, Distinct DEF LocksInv, WorkerLockHeld
    <3>3. NoneUnderWay
      BY <1>1, <2>1 DEF Undivided
    <3>. QED BY <3>2, <3>3 DEF NoneUnderWay, Fresh, NoneAlive, Alive, Locked
  <2>3. Undivided(d)'
    BY <1>1, <1>8, <2>1, <2>2 DEF Undivided, Due, RestartAt
  <2>. QED BY <1>7, <1>8, <2>1, <2>3
<1>14. CASE SpawnWorker(d)
  <2>1. /\ UNCHANGED <<asked, code, watched, signals, codes>>
        /\ Active(d) /\ ~DaemonLock(d) /\ daemon[d] = "spawning"
        /\ daemon'[d] = "ready"
    BY <1>14 DEF Active, SpawnWorker, DaemonLock
  <2>2. NoneAlive /\ NoneUnderWay
    BY <1>1, <2>1 DEF Undivided
  <2>3. PICK w \in Workers : /\ worker[w] = "none"
                             /\ worker' = [worker EXCEPT ![w] = "spawned"]
    BY <1>14 DEF SpawnWorker
  <2>4. asked[w] = NotAsked
    BY <2>3 DEF CalmInv, Requested
  <2>5. /\ \A v \in Workers : v # w => ~Fresh(v)' /\ ~Restarting(v)'
        /\ Fresh(w)' /\ ~Restarting(w)'
    BY <2>1, <2>2, <2>3, <2>4 DEF NoneUnderWay, Fresh, Restarting, Alive,
       NotAsked, NoMode
  <2>6. OneUnderWay'
    BY <2>5 DEF OneUnderWay, Restarting
  <2>7. Undivided(d)'
    BY <1>1, <2>1 DEF Undivided, Due, RestartAt
  <2>. QED BY <1>7, <2>1, <2>6, <2>7
<1>15. CASE OnConfigChange(d)
  <2>1. /\ UNCHANGED <<worker, asked, code, watched, codes>>
        /\ Active(d) /\ ~DaemonLock(d) /\ daemon[d] = "ready"
        /\ daemon'[d] \in {"asking", "ready"}
        /\ signals[d] > 0 /\ signals'[d] = signals[d] - 1
    BY <1>15 DEF Active, OnConfigChange, workerVars, DaemonLock
  <2>2. Due(d) /\ signals[d] \in Nat
    BY <2>1 DEF Due
  <2>3. ~watched[d] /\ signals[d] = 1 /\ NoneUnderWay
    BY <1>1, <2>1, <2>2 DEF Undivided
  <2>4. Undivided(d)'
    BY <1>1, <1>8, <2>1, <2>2, <2>3 DEF Undivided, Due, RestartAt
  <2>. QED BY <1>7, <1>8, <2>1, <2>4
<1>16. CASE OnExitCode(d)
  <2>1. /\ UNCHANGED <<worker, asked, code, watched, signals>>
        /\ Active(d) /\ ~DaemonLock(d) /\ daemon[d] = "ready"
        /\ codes[d] # <<>> /\ codes'[d] = Tail(codes[d])
        /\ daemon'[d] = "spawning" => Head(codes[d]) = "restart"
        /\ daemon'[d] \in {"spawning", "exited", "failed"}
    BY <1>16 DEF Active, OnExitCode, workerVars, DaemonLock, DaemonEnds
  <2>2. CASE daemon'[d] = "spawning"
    <3>1. RestartAt(d, 1)
      BY <2>1, <2>2, TailCodes DEF RestartAt
    <3>2. \A i \in DOMAIN codes'[d] :
             /\ i \in Nat \ {0} /\ i + 1 \in DOMAIN codes[d]
             /\ codes'[d][i] = codes[d][i + 1]
      BY <2>1, TailCodes
    <3>3. /\ NoneAlive /\ NoneUnderWay /\ ~Due(d)
          /\ \A j \in DOMAIN codes[d] : RestartAt(d, j) => 1 = j
      BY <1>1, <2>1, <3>1 DEF Undivided, RestartAt
    <3>4. \A i \in DOMAIN codes'[d] : codes'[d][i] # "restart"
      BY <3>2, <3>3 DEF RestartAt
    <3>5. Undivided(d)'
      BY <1>8, <2>1, <2>2, <3>3, <3>4 DEF Undivided, Due, RestartAt
    <3>. QED BY <1>7, <1>8, <2>1, <3>5
  <2>3. CASE daemon'[d] # "spawning"
    BY <1>7, <1>8, <2>1, <2>3 DEF Undivided, Active
  <2>. QED BY <2>2, <2>3
<1>17. CASE Debounce(d)
  <2>1. /\ UNCHANGED <<worker, asked, code, codes, daemon>>
        /\ Active(d) /\ ~DaemonLock(d) /\ watched[d] /\ ~watched'[d]
        /\ signals'[d] = signals[d] + 1
    BY <1>17 DEF Active, Debounce, workerVars, DaemonLock
  <2>2. Due(d)
    BY <2>1 DEF Due
  <2>3. signals[d] = 0 /\ NoneUnderWay /\ daemon[d] = "ready"
    BY <1>1, <2>1, <2>2 DEF Undivided
  <2>4. Undivided(d)'
    BY <1>1, <1>8, <2>1, <2>2, <2>3 DEF Undivided, Due, RestartAt
  <2>. QED BY <1>7, <1>8, <2>1, <2>4
<1>. QED
  BY <1>5, <1>10, <1>11, <1>12, <1>13, <1>14, <1>15, <1>16, <1>17, NeverCalm
  DEF DaemonStep

\* A worker that asks for its lock gets it.
LEMMA LockIsFree ==
    ASSUME LocksInv, TypeOK, CalmInv, NEW w \in Workers, worker[w] = "loaded"
    PROVE  workerLock = Free
<1>1. Fresh(w) /\ Alive(w) /\ ~Locked(w)
  BY DEF Fresh, Alive, Locked
<1>2. workerLock \notin Workers
  BY <1>1 DEF CalmInv, LockOwned, OneAlive, Locked, Alive
<1>3. workerLock \notin Daemons
  <2>. SUFFICES ASSUME NEW d \in Daemons, workerLock = d PROVE FALSE
    OBVIOUS
  <2>1. daemon[d] = "releasing"
    BY DEF CalmInv, LockOwned
  <2>2. Active(d)
    BY <2>1 DEF Active
  <2>. QED BY <1>1, <2>1, <2>2 DEF CalmInv, OneRestart, Undivided, NoneUnderWay
<1>. QED BY <1>2, <1>3 DEF CalmInv, LockOwned, TypeOK

\* An exit is asked for if the scenario has one.
LEMMA AskedInTray ==
    ASSUME TypeOK, NoExit, Requested, NEW w \in Workers, AskWorker(w)
    PROVE  NoExit' /\ Requested'
<1>1. /\ UNCHANGED <<worker, monitor, code, daemon, codes, scenario>>
      /\ worker[w] \in {"locked", "running"}
  BY DEF AskWorker, Locked, daemonVars
<1>2. PICK mode \in {"ExitAllProcesses", "RestartWorker"} :
          /\ Request(w, "tray", mode)
          /\ mode = "ExitAllProcesses" => "exit" \in scenario
  BY DEF AskWorker, Disturbed
<1>3. CASE asked' = asked
  BY <1>1, <1>3 DEF NoExit, Requested
<1>4. CASE asked' = [asked EXCEPT ![w]["tray"] = mode]
  <2>1. \A v \in Workers : v # w => asked'[v] = asked[v]
    BY <1>4 DEF TypeOK
  <2>2. asked'[w].signal = asked[w].signal /\ asked'[w].tray = mode
    BY <1>4 DEF TypeOK
  <2>3. NoExit'
    BY <1>1, <1>2, <2>1, <2>2 DEF NoExit
  <2>4. Requested'
    BY <1>1, <2>1, <2>2 DEF Requested
  <2>. QED BY <2>3, <2>4
<1>. QED BY <1>2, <1>3, <1>4 DEF Request

\* The exit code of a worker is the one that was asked for.
LEMMA ExitCodeOf ==
    ASSUME TypeOK, CalmInv, NEW w \in Workers, WorkerExits(w)
    PROVE  \E c \in {"success", "all", "restart"} :
              /\ WorkerEnds(w, {"locked", "running"}, c)
              /\ c = "all" => asked[w].tray = "ExitAllProcesses"
              /\ c = "restart" => asked[w].tray = "RestartWorker"
<1>1. PICK channel \in {"signal", "tray"} :
          /\ asked[w][channel] # NoMode
          /\ WorkerEnds(w, {"locked", "running"}, CodeOf(asked[w][channel]))
  BY DEF WorkerExits
<1>2. asked[w] \in [signal : Requests, tray : Requests]
  BY DEF TypeOK
<1>3. CASE channel = "signal"
  <2>1. asked[w].signal = "Exit"
    BY <1>1, <1>3 DEF CalmInv, Requested
  <2>. QED BY <1>1, <1>3, <2>1 DEF CodeOf
<1>4. CASE channel = "tray"
  <2>1. asked[w].tray \in ExitModes
    BY <1>1, <1>2, <1>4 DEF Requests
  <2>. QED BY <1>1, <1>4, <2>1 DEF CodeOf, ExitModes
<1>. QED BY <1>1, <1>3, <1>4

\* The workers and their users: what does not depend on what is under way.
LEMMA WorkerCalm ==
    ASSUME LocksInv, TypeOK, Calm, CalmInv, NEW w \in Workers,
           WorkerStep(w) \/ AskWorker(w) \/ OpenSearch(w) \/ CloseSearch(w)
    PROVE  /\ LockOwned' /\ Undisturbed' /\ NoExit' /\ OneDaemon'
           /\ DaemonFirst' /\ Unaware' /\ Requested' /\ ExpectedCodes' /\ OneAlive'
<1>. USE Distinct DEF CalmInv, Active, Locked, Alive, TypeOK, Enters,
     lockVars, daemonVars, clientVars, worldVars
<1>1. CASE WorkerLoad(w)
  <2>1. LockOwned'
    BY <1>1 DEF WorkerLoad, WorkerEnds, Undisturbed, LockOwned
  <2>2. Undisturbed'
    BY <1>1 DEF WorkerLoad, WorkerEnds, Undisturbed, Undisturbed
  <2>3. NoExit'
    BY <1>1 DEF WorkerLoad, WorkerEnds, Undisturbed, NoExit
  <2>4. OneDaemon'
    BY <1>1 DEF WorkerLoad, WorkerEnds, Undisturbed, OneDaemon
  <2>5. DaemonFirst'
    BY <1>1 DEF WorkerLoad, WorkerEnds, Undisturbed, DaemonFirst, NoneStarted
  <2>6. Unaware'
    BY <1>1 DEF WorkerLoad, WorkerEnds, Undisturbed, Unaware
  <2>7. Requested'
    BY <1>1 DEF WorkerLoad, WorkerEnds, Undisturbed, Requested, NotAsked
  <2>8. ExpectedCodes'
    BY <1>1 DEF WorkerLoad, WorkerEnds, Undisturbed, ExpectedCodes
  <2>9. OneAlive'
    BY SMTT(30), <1>1 DEF WorkerLoad, WorkerEnds, Undisturbed, OneAlive
  <2>. QED BY <2>1, <2>2, <2>3, <2>4, <2>5, <2>6, <2>7, <2>8, <2>9
<1>2. CASE WorkerLock(w)
  <2>0. workerLock = Free
    <3>1. worker[w] = "loaded"
      BY <1>2 DEF WorkerLock, WorkerEnds
    <3>. QED BY <3>1, LockIsFree
  <2>1. LockOwned'
    BY <1>2, <2>0 DEF WorkerLock, LockOwned
  <2>2. Undisturbed'
    BY <1>2, <2>0 DEF WorkerLock, Undisturbed
  <2>3. NoExit'
    BY <1>2, <2>0 DEF WorkerLock, NoExit
  <2>4. OneDaemon'
    BY <1>2, <2>0 DEF WorkerLock, OneDaemon
  <2>5. DaemonFirst'
    BY <1>2, <2>0 DEF WorkerLock, DaemonFirst, NoneStarted
  <2>6. Unaware'
    BY <1>2, <2>0 DEF WorkerLock, Unaware
  <2>7. Requested'
    BY <1>2, <2>0 DEF WorkerLock, Requested, NotAsked
  <2>8. ExpectedCodes'
    BY <1>2, <2>0 DEF WorkerLock, ExpectedCodes
  <2>9. OneAlive'
    <3>1. worker[w] = "loaded" /\ worker' = [worker EXCEPT ![w] = "locked"]
      BY <1>2, <2>0 DEF WorkerLock
    <3>2. \A v \in Workers : Alive(v)' => Alive(v)
      BY <3>1
    <3>. QED BY <3>2 DEF OneAlive
  <2>. QED BY <2>1, <2>2, <2>3, <2>4, <2>5, <2>6, <2>7, <2>8, <2>9
<1>3. CASE WorkerServes(w)
  <2>1. LockOwned'
    BY <1>3 DEF WorkerServes, LockOwned
  <2>2. Undisturbed'
    BY <1>3 DEF WorkerServes, Undisturbed
  <2>3. NoExit'
    BY <1>3 DEF WorkerServes, NoExit
  <2>4. OneDaemon'
    BY <1>3 DEF WorkerServes, OneDaemon
  <2>5. DaemonFirst'
    BY <1>3 DEF WorkerServes, DaemonFirst, NoneStarted
  <2>6. Unaware'
    BY <1>3 DEF WorkerServes, Unaware
  <2>7. Requested'
    BY <1>3 DEF WorkerServes, Requested, NotAsked
  <2>8. ExpectedCodes'
    BY <1>3 DEF WorkerServes, ExpectedCodes
  <2>9. OneAlive'
    BY <1>3 DEF WorkerServes, OneAlive
  <2>. QED BY <2>1, <2>2, <2>3, <2>4, <2>5, <2>6, <2>7, <2>8, <2>9
<1>4. CASE MonitorProbe(w)
  <2>1. LockOwned'
    BY <1>4 DEF MonitorProbe, LockOwned
  <2>2. Undisturbed'
    BY <1>4 DEF MonitorProbe, Undisturbed
  <2>3. NoExit'
    BY <1>4 DEF MonitorProbe, NoExit
  <2>4. OneDaemon'
    BY <1>4 DEF MonitorProbe, OneDaemon
  <2>5. DaemonFirst'
    BY <1>4 DEF MonitorProbe, DaemonFirst, NoneStarted
  <2>6. Unaware'
    BY <1>4 DEF MonitorProbe, Unaware
  <2>7. Requested'
    BY <1>4 DEF MonitorProbe, Requested, NotAsked
  <2>8. ExpectedCodes'
    BY <1>4 DEF MonitorProbe, ExpectedCodes
  <2>9. OneAlive'
    BY <1>4 DEF MonitorProbe, OneAlive
  <2>. QED BY <2>1, <2>2, <2>3, <2>4, <2>5, <2>6, <2>7, <2>8, <2>9
<1>5. CASE MonitorSignals(w)
  <2>1. LockOwned'
    BY <1>5 DEF MonitorSignals, Request, LockOwned
  <2>2. Undisturbed'
    BY <1>5 DEF MonitorSignals, Request, Undisturbed
  <2>3. NoExit'
    BY <1>5 DEF MonitorSignals, Request, NoExit
  <2>4. OneDaemon'
    BY <1>5 DEF MonitorSignals, Request, OneDaemon
  <2>5. DaemonFirst'
    BY <1>5 DEF MonitorSignals, Request, DaemonFirst, NoneStarted
  <2>6. Unaware'
    BY <1>5 DEF MonitorSignals, Request, Unaware
  <2>7. Requested'
    BY <1>5 DEF MonitorSignals, Request, Requested, NotAsked
  <2>8. ExpectedCodes'
    BY <1>5 DEF MonitorSignals, Request, ExpectedCodes
  <2>9. OneAlive'
    BY <1>5 DEF MonitorSignals, Request, OneAlive
  <2>. QED BY <2>1, <2>2, <2>3, <2>4, <2>5, <2>6, <2>7, <2>8, <2>9
<1>6. CASE WorkerExits(w)
  <2>0. PICK c \in {"success", "all", "restart"} :
              /\ WorkerEnds(w, {"locked", "running"}, c)
              /\ c = "all" => asked[w].tray = "ExitAllProcesses"
              /\ c = "restart" => asked[w].tray = "RestartWorker"
    BY <1>6, ExitCodeOf
  <2>1. LockOwned'
    BY <1>6, <2>0 DEF WorkerExits, WorkerEnds, Without, LockOwned
  <2>2. Undisturbed'
    BY <1>6, <2>0 DEF WorkerExits, WorkerEnds, Without, Undisturbed
  <2>3. NoExit'
    BY <1>6, <2>0 DEF WorkerExits, WorkerEnds, Without, NoExit
  <2>4. OneDaemon'
    BY <1>6, <2>0 DEF WorkerExits, WorkerEnds, Without, OneDaemon
  <2>5. DaemonFirst'
    BY <1>6, <2>0 DEF WorkerExits, WorkerEnds, Without, DaemonFirst, NoneStarted
  <2>6. Unaware'
    BY <1>6, <2>0 DEF WorkerExits, WorkerEnds, Without, Unaware
  <2>7. Requested'
    BY <1>6, <2>0 DEF WorkerExits, WorkerEnds, Without, Requested, NotAsked
  <2>8. ExpectedCodes'
    BY <1>6, <2>0 DEF WorkerExits, WorkerEnds, Without, ExpectedCodes
  <2>9. OneAlive'
    BY <1>6, <2>0 DEF WorkerExits, WorkerEnds, Without, OneAlive
  <2>. QED BY <2>1, <2>2, <2>3, <2>4, <2>5, <2>6, <2>7, <2>8, <2>9
<1>7. CASE Reported(w)
  <2>1. LockOwned'
    BY <1>7 DEF Reported, LockOwned, WorkerLockHeld, LocksInv
  <2>2. Undisturbed'
    BY <1>7 DEF Reported, Undisturbed
  <2>3. NoExit'
    BY <1>7, AppendCodes DEF Reported, NoExit
  <2>4. OneDaemon'
    BY <1>7 DEF Reported, OneDaemon
  <2>5. DaemonFirst'
    BY <1>7 DEF Reported, DaemonFirst, NoneStarted
  <2>6. Unaware'
    BY <1>7 DEF Reported, Unaware
  <2>7. Requested'
    BY <1>7 DEF Reported, Requested, NotAsked
  <2>8. ExpectedCodes'
    BY SMTT(30), <1>7, AppendCodes DEF Reported, ExpectedCodes
  <2>9. OneAlive'
    BY <1>7 DEF Reported, OneAlive
  <2>. QED BY <2>1, <2>2, <2>3, <2>4, <2>5, <2>6, <2>7, <2>8, <2>9
<1>8. CASE AskWorker(w)
  <2>0. /\ Locked(w)
        /\ UNCHANGED <<worker, parent, loaded, busy, monitor, code, socket,
                       lockVars, daemonVars, clientVars, config, scenario>>
    BY <1>8 DEF AskWorker, Disturbed
  <2>1. LockOwned'
    BY <2>0 DEF AskWorker, LockOwned
  <2>2. Undisturbed'
    BY <2>0 DEF AskWorker, Undisturbed
  <2>3. NoExit'
    BY <1>8, AskedInTray DEF CalmInv
  <2>4. OneDaemon'
    BY <2>0 DEF AskWorker, OneDaemon
  <2>5. DaemonFirst'
    BY <2>0 DEF AskWorker, DaemonFirst, NoneStarted
  <2>6. Unaware'
    BY <2>0 DEF AskWorker, Unaware
  <2>7. Requested'
    BY <1>8, AskedInTray DEF CalmInv
  <2>8. ExpectedCodes'
    BY <2>0 DEF AskWorker, ExpectedCodes
  <2>9. OneAlive'
    BY <2>0 DEF AskWorker, OneAlive
  <2>. QED BY <2>1, <2>2, <2>3, <2>4, <2>5, <2>6, <2>7, <2>8, <2>9
<1>9. CASE OpenSearch(w)
  <2>1. LockOwned'
    BY <1>9 DEF OpenSearch, Disturbed, LockOwned
  <2>2. Undisturbed'
    BY <1>9 DEF OpenSearch, Disturbed, Undisturbed
  <2>3. NoExit'
    BY <1>9 DEF OpenSearch, Disturbed, NoExit
  <2>4. OneDaemon'
    BY <1>9 DEF OpenSearch, Disturbed, OneDaemon
  <2>5. DaemonFirst'
    BY <1>9 DEF OpenSearch, Disturbed, DaemonFirst, NoneStarted
  <2>6. Unaware'
    BY <1>9 DEF OpenSearch, Disturbed, Unaware
  <2>7. Requested'
    BY <1>9 DEF OpenSearch, Disturbed, Requested, NotAsked
  <2>8. ExpectedCodes'
    BY <1>9 DEF OpenSearch, Disturbed, ExpectedCodes
  <2>9. OneAlive'
    BY <1>9 DEF OpenSearch, Disturbed, OneAlive
  <2>. QED BY <2>1, <2>2, <2>3, <2>4, <2>5, <2>6, <2>7, <2>8, <2>9
<1>10. CASE CloseSearch(w)
  <2>1. LockOwned'
    BY <1>10 DEF CloseSearch, LockOwned
  <2>2. Undisturbed'
    BY <1>10 DEF CloseSearch, Undisturbed
  <2>3. NoExit'
    BY <1>10 DEF CloseSearch, NoExit
  <2>4. OneDaemon'
    BY <1>10 DEF CloseSearch, OneDaemon
  <2>5. DaemonFirst'
    BY <1>10 DEF CloseSearch, DaemonFirst, NoneStarted
  <2>6. Unaware'
    BY <1>10 DEF CloseSearch, Unaware
  <2>7. Requested'
    BY <1>10 DEF CloseSearch, Requested, NotAsked
  <2>8. ExpectedCodes'
    BY <1>10 DEF CloseSearch, ExpectedCodes
  <2>9. OneAlive'
    BY <1>10 DEF CloseSearch, OneAlive
  <2>. QED BY <2>1, <2>2, <2>3, <2>4, <2>5, <2>6, <2>7, <2>8, <2>9
<1>. QED
  BY <1>1, <1>2, <1>3, <1>4, <1>5, <1>6, <1>7, <1>8, <1>9, <1>10 DEF WorkerStep

\* What a step that leaves a daemon alone keeps, if no more is under way after it.
LEMMA UndividedKept ==
    ASSUME NEW d \in Daemons, Undivided(d), daemon'[d] = daemon[d],
           watched'[d] = watched[d], signals'[d] = signals[d],
           codes'[d] = codes[d], NoneUnderWay => NoneUnderWay',
           NoneAlive => NoneAlive', NoneStarted => NoneStarted'
    PROVE  Undivided(d)'
<1>1. /\ Active(d)' = Active(d) /\ Due(d)' = Due(d)
      /\ DOMAIN codes'[d] = DOMAIN codes[d]
      /\ \A i : RestartAt(d, i)' = RestartAt(d, i)
  BY DEF Active, Due, RestartAt
<1>. QED BY <1>1 DEF Undivided

\* A step of a worker after which no more is under way than before.
LEMMA NoMoreUnderWay ==
    ASSUME OneRestart, UNCHANGED <<daemon, watched, signals, codes>>,
           \A v \in Workers : /\ Fresh(v)' => Fresh(v)
                              /\ Restarting(v)' => Restarting(v)
                              /\ Alive(v)' => Alive(v)
                              /\ worker[v] = "none" => worker'[v] = "none"
    PROVE  /\ \A d \in Daemons : Undivided(d)'
           /\ \A v, w \in Workers :
                (Fresh(v) \/ Restarting(v))' /\ (Fresh(w) \/ Restarting(w))' => v = w
<1>1. /\ NoneUnderWay => NoneUnderWay'
      /\ NoneAlive => NoneAlive'
      /\ NoneStarted => NoneStarted'
  BY DEF NoneUnderWay, NoneAlive, NoneStarted
<1>2. ASSUME NEW d \in Daemons PROVE Undivided(d)'
  <2>1. Undivided(d)
    BY DEF OneRestart
  <2>. QED BY <1>1, <2>1, UndividedKept
<1>3. OneUnderWay
  BY DEF OneRestart
<1>. QED BY <1>2, <1>3 DEF OneUnderWay

\* A worker that starts, goes on or ends.
LEMMA WorkerRestarts ==
    ASSUME LocksInv, TypeOK, Calm, CalmInv, NEW w \in Workers,
           \/ WorkerLoad(w) \/ WorkerLock(w) \/ WorkerServes(w)
           \/ MonitorProbe(w) \/ MonitorSignals(w) \/ WorkerExits(w)
           \/ OpenSearch(w) \/ CloseSearch(w)
    PROVE  OneRestart'
<1>1. OneRestart /\ OneUnderWay /\ OneAlive
  BY DEF CalmInv, OneRestart
<1>2. UNCHANGED <<daemon, watched, signals, codes>>
  BY DEF WorkerLoad, WorkerLock, WorkerServes, MonitorProbe, MonitorSignals,
     WorkerExits, OpenSearch, CloseSearch, daemonVars
<1>3. CASE WorkerLoad(w) \/ WorkerLock(w) \/ WorkerServes(w)
  <2>1. /\ Fresh(w) /\ Alive(w) /\ UNCHANGED <<code, asked>>
        /\ worker' = [worker EXCEPT ![w] = worker'[w]]
        /\ worker'[w] \in {"loaded", "locked", "running"}
        /\ worker[w] # "none"
    <3>1. CASE WorkerLoad(w)
      BY <3>1 DEF WorkerLoad, CalmInv, Undisturbed, Enters, Fresh, Alive, TypeOK
    <3>2. CASE WorkerLock(w)
      <4>1. worker[w] = "loaded"
        BY <3>2 DEF WorkerLock, WorkerEnds, Enters
      <4>2. workerLock = Free
        BY <4>1, LockIsFree
      <4>. QED BY <3>2, <4>1, <4>2 DEF WorkerLock, Enters, Fresh, Alive, TypeOK
    <3>3. CASE WorkerServes(w)
      BY <3>3 DEF WorkerServes, Enters, Fresh, Alive, TypeOK
    <3>. QED BY <1>3, <3>1, <3>2, <3>3
  <2>2. \A v \in Workers : v # w => worker'[v] = worker[v]
    BY <2>1 DEF TypeOK
  <2>3. ~Restarting(w) /\ asked[w].tray # "RestartWorker"
    BY <1>1, <2>1 DEF OneUnderWay, Restarting
  <2>4. ~Restarting(w)'
    BY <2>1, <2>3 DEF Restarting
  <2>5. \A v \in Workers : /\ Fresh(v)' => Fresh(v)
                           /\ Restarting(v)' => Restarting(v)
                           /\ Alive(v)' = Alive(v)
                           /\ worker[v] = "none" => worker'[v] = "none"
    BY <2>1, <2>2, <2>4 DEF Fresh, Restarting, Alive
  <2>6. \A v \in Workers : ~(worker'[v] = "ended" /\ code'[v] = "restart")
    BY <1>1, <2>1, <2>2 DEF OneUnderWay, NoneAlive
  <2>7. \A v \in Workers : ~(Restarting(v)' /\ Fresh(v)')
    BY <1>1, <2>5 DEF OneUnderWay
  <2>8. OneUnderWay'
    BY <1>1, <1>2, <2>5, <2>6, <2>7, NoMoreUnderWay DEF OneUnderWay
  <2>. QED BY <1>1, <1>2, <2>5, <2>8, NoMoreUnderWay DEF OneRestart
<1>4. CASE WorkerExits(w)
  <2>1. PICK c \in {"success", "all", "restart"} :
            /\ WorkerEnds(w, {"locked", "running"}, c)
            /\ c = "restart" => asked[w].tray = "RestartWorker"
    BY <1>4, ExitCodeOf
  <2>2. /\ Alive(w) /\ worker'[w] = "ended" /\ code'[w] = c
        /\ UNCHANGED asked
        /\ \A v \in Workers : v # w => worker'[v] = worker[v] /\ code'[v] = code[v]
        /\ worker[w] # "none"
    BY <1>4, <2>1 DEF WorkerExits, WorkerEnds, Enters, Alive, TypeOK
  <2>3. \A v \in Workers : v # w => ~Alive(v)
    BY <1>1, <2>2 DEF OneAlive
  <2>4. \A v \in Workers : /\ Fresh(v)' => Fresh(v)
                           /\ Restarting(v)' => Restarting(v)
                           /\ ~Alive(v)'
                           /\ worker[v] = "none" => worker'[v] = "none"
    BY <2>1, <2>2, <2>3 DEF Fresh, Restarting, Alive
  <2>5. NoneAlive' /\ \A v \in Workers : ~Fresh(v)'
    BY <2>4 DEF NoneAlive, Fresh, Alive
  <2>6. OneUnderWay'
    BY <1>1, <1>2, <2>4, <2>5, NoMoreUnderWay DEF OneUnderWay
  <2>. QED BY <1>1, <1>2, <2>4, <2>6, NoMoreUnderWay DEF OneRestart
<1>5. CASE \/ MonitorProbe(w) \/ MonitorSignals(w) \/ OpenSearch(w)
           \/ CloseSearch(w)
  <2>1. UNCHANGED <<worker, code>>
    BY <1>5 DEF MonitorProbe, MonitorSignals, OpenSearch, CloseSearch
  <2>4. asked' = asked \/ Request(w, "signal", "Exit")
    BY <1>5 DEF MonitorProbe, MonitorSignals, OpenSearch, CloseSearch
  <2>5. ASSUME NEW v \in Workers PROVE asked'[v].tray = asked[v].tray
    <3>1. CASE asked' = asked
      BY <3>1
    <3>2. CASE asked' = [asked EXCEPT ![w]["signal"] = "Exit"]
      <4>1. asked' = [asked EXCEPT ![w] = [asked[w] EXCEPT !["signal"] = "Exit"]]
        BY <3>2
      <4>2. asked[v] \in [signal : Requests, tray : Requests]
        BY DEF TypeOK
      <4>. QED BY <4>1, <4>2 DEF TypeOK
    <3>. QED BY <2>4, <3>1, <3>2 DEF Request
  <2>2. \A v \in Workers : /\ Fresh(v)' = Fresh(v)
                           /\ Restarting(v)' = Restarting(v)
                           /\ Alive(v)' = Alive(v)
                           /\ worker[v] = "none" => worker'[v] = "none"
    BY <2>1, <2>5 DEF Fresh, Restarting, Alive
  <2>3. OneUnderWay'
    BY <1>1, <2>1, <2>2 DEF OneUnderWay, NoneAlive
  <2>. QED BY <1>1, <1>2, <2>2, <2>3, NoMoreUnderWay DEF OneRestart
<1>. QED BY <1>3, <1>4, <1>5

\* The exit code of a worker that asks for a restart becomes the one that the
\* daemon is to read.
LEMMA ReportRestarts ==
    ASSUME LocksInv, TypeOK, Calm, CalmInv, NEW w \in Workers, Reported(w)
    PROVE  OneRestart'
<1>1. /\ OneRestart /\ OneUnderWay /\ \A d \in Daemons : Undivided(d)
      /\ worker[w] = "ended" /\ worker'[w] = "dead"
      /\ \A v \in Workers : v # w => worker'[v] = worker[v]
      /\ UNCHANGED <<daemon, watched, signals, asked, code>>
  BY DEF CalmInv, OneRestart, Reported, Enters, TypeOK
<1>2. \A v \in Workers : /\ Fresh(v)' = Fresh(v) /\ Alive(v)' = Alive(v)
                         /\ Restarting(v)' => Restarting(v)
                         /\ worker[v] = "none" <=> worker'[v] = "none"
  BY <1>1 DEF Fresh, Restarting, Alive
<1>3. /\ NoneUnderWay => NoneUnderWay'
      /\ NoneAlive => NoneAlive'
      /\ NoneStarted => NoneStarted'
  BY <1>2 DEF NoneUnderWay, NoneAlive, NoneStarted
<1>4. OneUnderWay'
  <2>1. \A v \in Workers : worker'[v] = "ended" => worker[v] = "ended"
    BY <1>1
  <2>2. \A v \in Workers : worker'[v] = "ended" /\ code'[v] = "restart" => NoneAlive'
    BY <1>1, <1>3, <2>1 DEF OneUnderWay
  <2>. QED BY <1>1, <1>2, <2>2 DEF OneUnderWay
<1>5. CASE codes' = codes
  <2>1. \A d \in Daemons : Undivided(d)'
    BY <1>1, <1>3, <1>5, UndividedKept
  <2>. QED BY <1>4, <2>1 DEF OneRestart
<1>6. ASSUME NEW d \in Daemons, Active(d),
             codes' = [codes EXCEPT ![d] = Append(@, code[w])]
      PROVE  OneRestart'
  <2>1. PICK s \in Seq(ExitCodes) : s = codes[d]
    BY DEF TypeOK
  <2>2. /\ code[w] \in ExitCodes /\ codes'[d] = Append(s, code[w])
        /\ \A e \in Daemons : e # d => codes'[e] = codes[e]
    BY <1>6, <2>1 DEF TypeOK
  <2>3. \A e \in Daemons : e # d => Undivided(e)'
    BY <1>1, <1>3, <2>2, UndividedKept
  <2>4. /\ \A i \in DOMAIN codes'[d] : \/ i \in DOMAIN s /\ codes'[d][i] = s[i]
                                       \/ i = Len(s) + 1
        /\ codes'[d][Len(s) + 1] = code[w]
    BY <2>2, AppendCodes
  <2>5. /\ Undivided(d) /\ Active(d)' = Active(d) /\ Due(d)' = Due(d)
        /\ daemon'[d] = daemon[d]
    BY <1>1 DEF Active, Due
  <2>6. CASE code[w] # "restart"
    <3>1. ASSUME NEW i, RestartAt(d, i)' PROVE RestartAt(d, i)
      <4>1. i \in DOMAIN codes'[d] /\ codes'[d][i] = "restart"
        BY <3>1 DEF RestartAt
      <4>2. i \in DOMAIN s /\ s[i] = "restart"
        BY <2>4, <2>6, <4>1
      <4>. QED BY <2>1, <4>2 DEF RestartAt
    <3>2. \A i : RestartAt(d, i) => i \in DOMAIN codes[d]
      BY DEF RestartAt
    <3>3. \A i, j : RestartAt(d, i)' /\ RestartAt(d, j)' =>
             /\ daemon[d] = "ready" /\ NoneAlive /\ NoneUnderWay /\ ~Due(d)
             /\ i = j
      BY <1>6, <2>5, <3>1, <3>2 DEF Undivided
    <3>4. \A i \in DOMAIN codes'[d] : RestartAt(d, i)' =>
             daemon[d] = "ready" /\ NoneAlive /\ NoneUnderWay /\ ~Due(d)
      BY <3>3
    <3>5. Undivided(d)'
      BY <1>1, <1>3, <1>6, <2>5, <3>3, <3>4 DEF Undivided
    <3>. QED BY <1>4, <2>3, <3>5 DEF OneRestart
  <2>7. CASE code[w] = "restart"
    <3>1. Restarting(w) /\ NoneAlive
      BY <1>1, <2>7 DEF Restarting, OneUnderWay
    <3>2. ~NoneUnderWay
      BY <3>1 DEF NoneUnderWay
    <3>3. /\ daemon[d] = "ready" /\ ~Due(d)
          /\ \A i \in DOMAIN codes[d] : ~RestartAt(d, i)
      BY <1>6, <2>5, <3>2 DEF Undivided
    <3>4. ASSUME NEW i, RestartAt(d, i)' PROVE i = Len(s) + 1
      <4>1. i \in DOMAIN codes'[d] /\ codes'[d][i] = "restart"
        BY <3>4 DEF RestartAt
      <4>2. i \notin DOMAIN s \/ s[i] # "restart"
        BY <2>1, <3>3 DEF RestartAt
      <4>. QED BY <2>4, <4>1, <4>2
    <3>5. NoneUnderWay'
      <4>1. \A v \in Workers : ~Fresh(v)'
        BY <1>2, <3>1 DEF NoneAlive, Fresh, Alive
      <4>2. \A v \in Workers : Restarting(v) => v = w
        BY <1>1, <3>1 DEF OneUnderWay
      <4>3. ~Restarting(w)'
        BY <1>1 DEF Restarting, Alive
      <4>. QED BY <1>2, <4>1, <4>2, <4>3 DEF NoneUnderWay
    <3>6. NoneAlive' /\ daemon'[d] = "ready" /\ ~Due(d)'
      BY <1>3, <2>5, <3>1, <3>3
    <3>7. \A i, j \in DOMAIN codes'[d] : RestartAt(d, i)' /\ RestartAt(d, j)' => i = j
      BY <3>4
    <3>8. Undivided(d)'
      BY <3>5, <3>6, <3>7 DEF Undivided
    <3>. QED BY <1>4, <2>3, <3>8 DEF OneRestart
  <2>. QED BY <2>6, <2>7
<1>. QED BY <1>5, <1>6 DEF Reported

\* A restart is asked for when none is under way.
LEMMA AskRestarts ==
    ASSUME LocksInv, TypeOK, Calm, CalmInv, NEW w \in Workers, AskWorker(w)
    PROVE  OneRestart'
<1>1. /\ OneRestart /\ OneUnderWay /\ \A d \in Daemons : Undivided(d)
      /\ Locked(w) /\ OneAlive
      /\ UNCHANGED <<daemon, watched, signals, codes, worker, code>>
  BY DEF CalmInv, OneRestart, AskWorker, daemonVars
<1>2. ASSUME \A v \in Workers : Restarting(v)' => Restarting(v)
      PROVE  OneRestart'
  <2>1. \A v \in Workers : /\ Fresh(v)' = Fresh(v) /\ Alive(v)' = Alive(v)
                           /\ worker[v] = "none" => worker'[v] = "none"
    BY <1>1 DEF Fresh, Alive
  <2>2. OneUnderWay'
    BY <1>1, <1>2, <2>1 DEF OneUnderWay, NoneAlive
  <2>. QED BY <1>1, <1>2, <2>1, <2>2, NoMoreUnderWay DEF OneRestart
<1>3. CASE Request(w, "tray", "ExitAllProcesses")
  <2>1. \A v \in Workers :
           asked'[v].tray = asked[v].tray \/ asked'[v].tray = "ExitAllProcesses"
    BY <1>3 DEF Request, TypeOK
  <2>. QED BY <1>1, <1>2, <2>1 DEF Restarting, Alive
<1>4. CASE Request(w, "tray", "RestartWorker") /\ Settled
  <2>1. /\ \A v \in Workers : worker[v] \in {"none", "running", "dead"}
        /\ \A d \in Daemons : Active(d) =>
              /\ daemon[d] = "ready" /\ ~watched[d] /\ signals[d] = 0
              /\ DOMAIN codes[d] = {}
    BY <1>4 DEF Settled
  <2>2. \A v \in Workers : v # w => ~Alive(v) /\ ~Restarting(v)'
    BY <1>1, <2>1 DEF OneAlive, Locked, Alive, Restarting
  <2>3. \A v \in Workers : ~Fresh(v)'
    BY <1>1, <2>1 DEF Fresh
  <2>4. \A v \in Workers : worker'[v] # "ended"
    BY <1>1, <2>1
  <2>5. OneUnderWay'
    BY <2>2, <2>3, <2>4 DEF OneUnderWay
  <2>6. \A d \in Daemons : Undivided(d)'
    BY <1>1, <2>1 DEF Undivided, Active, Due, RestartAt
  <2>. QED BY <2>5, <2>6 DEF OneRestart
<1>. QED BY <1>3, <1>4 DEF AskWorker, Calm

\* The launcher and the edits.
LEMMA LauncherCalm ==
    ASSUME LocksInv, TypeOK, Calm, CalmInv,
           LauncherStep \/ LaunchAgain \/ EditConfig
    PROVE  CalmInv'
<1>1. /\ UNCHANGED <<workerVars, workerLock, service, codes, scenario, signals>>
  BY DEF LauncherStep, LaunchAgain, EditConfig, LauncherProbe, LauncherRelease,
     LaunchDaemon, Disturbed, DaemonRest, daemonVars, clientVars, worldVars,
     lockVars
<1>2. /\ OneUnderWay /\ \A d \in Daemons : Undivided(d)
  BY DEF CalmInv, OneRestart
<1>3. /\ OneUnderWay' /\ (NoneUnderWay => NoneUnderWay')
      /\ NoneAlive' = NoneAlive /\ NoneStarted' = NoneStarted
  BY <1>1, <1>2, SameUnderWay DEF workerVars
<1>4. CASE EditConfig
  <2>1. /\ Settled /\ config'.ok /\ UNCHANGED <<daemon, launcher>>
        /\ watched' = [d \in Daemons |-> watched[d] \/ Active(d)]
    BY <1>4 DEF EditConfig, Calm, clientVars
  <2>2. LockOwned' /\ Undisturbed' /\ NoExit' /\ OneDaemon'
    BY <1>1, <2>1 DEF CalmInv, LockOwned, Undisturbed, NoExit, OneDaemon,
       workerVars, Locked
  <2>3. DaemonFirst' /\ Unaware' /\ Requested' /\ ExpectedCodes' /\ OneAlive'
    BY <1>1, <2>1 DEF CalmInv, DaemonFirst, Unaware, Requested, ExpectedCodes,
       OneAlive, workerVars, Alive, Active, NoneStarted
  <2>4. NoneUnderWay
    <3>1. PICK w \in Workers : worker[w] = "running" /\ asked[w] = NotAsked
      BY <2>1 DEF Settled
    <3>2. \A v \in Workers : /\ worker[v] \in {"none", "running", "dead"}
                             /\ Alive(v) => v = w
      BY <2>1, <3>1 DEF Settled, CalmInv, OneAlive, Alive
    <3>3. asked[w].tray # "RestartWorker"
      BY <3>1 DEF NotAsked, NoMode
    <3>. QED BY <3>1, <3>2, <3>3 DEF NoneUnderWay, Fresh, Restarting
  <2>5. \A d \in Daemons : Undivided(d)'
    <3> SUFFICES ASSUME NEW d \in Daemons, Active(d)'
                 PROVE  Undivided(d)'
      BY DEF Undivided
    <3>1. Active(d)
      BY <2>1 DEF Active
    <3>2. /\ daemon[d] = "ready" /\ ~watched[d] /\ signals[d] = 0
          /\ DOMAIN codes[d] = {}
      BY <2>1, <3>1 DEF Settled
    <3>. QED BY <1>1, <1>3, <2>1, <2>4, <3>2 DEF Undivided, RestartAt, Due
  <2>. QED BY <1>3, <2>2, <2>3, <2>5 DEF CalmInv, OneRestart
<1>5. CASE LaunchAgain \/ LauncherProbe \/ LauncherRelease
  <2>1. /\ UNCHANGED <<daemon, watched, config>>
        /\ "launch" \notin scenario => launcher # "done"
    BY <1>5 DEF LaunchAgain, LauncherProbe, LauncherRelease, daemonVars,
       worldVars, Disturbed
  <2>2. LockOwned' /\ Undisturbed' /\ NoExit' /\ OneDaemon'
    BY <1>1, <2>1 DEF CalmInv, LockOwned, Undisturbed, NoExit, OneDaemon,
       workerVars, Locked
  <2>3. DaemonFirst' /\ Unaware' /\ Requested' /\ ExpectedCodes' /\ OneAlive'
    BY <1>1, <2>1 DEF CalmInv, DaemonFirst, Unaware, Requested, ExpectedCodes,
       OneAlive, workerVars, Alive, Active, NoneStarted
  <2>4. \A d \in Daemons : Undivided(d)'
    BY <1>1, <1>2, <1>3, <2>1 DEF Undivided, Active, Due, RestartAt
  <2>. QED BY <1>3, <2>2, <2>3, <2>4 DEF CalmInv, OneRestart
<1>6. CASE LaunchDaemon
  <2>1. PICK d \in Daemons : daemon[d] = "none"
                             /\ daemon' = [daemon EXCEPT ![d] = "starting"]
    BY <1>6 DEF LaunchDaemon, Goes
  <2>2. /\ UNCHANGED <<watched, config>> /\ launcher = "launching"
        /\ launcher' = "done"
    BY <1>6 DEF LaunchDaemon, DaemonRest, worldVars
  <2>3. \A c \in Daemons : /\ c # d => daemon'[c] = daemon[c]
                           /\ Active(c)' = Active(c)
                           /\ Active(c) => daemon'[c] = daemon[c]
                           /\ daemon'[d] = "starting"
    BY <2>1 DEF Active, TypeOK
  <2>4. LockOwned' /\ Undisturbed'
    BY <1>1, <2>1, <2>2, <2>3 DEF CalmInv, LockOwned, Undisturbed, workerVars,
       Locked
  <2>5. NoExit' /\ OneDaemon'
    BY <1>1, <2>1, <2>2, <2>3 DEF CalmInv, NoExit, OneDaemon, workerVars
  <2>6. DaemonFirst' /\ Unaware'
    BY <1>1, <1>3, <2>1, <2>2, <2>3 DEF CalmInv, DaemonFirst, Unaware
  <2>7. Requested' /\ ExpectedCodes' /\ OneAlive'
    BY <1>1 DEF CalmInv, Requested, ExpectedCodes, OneAlive, workerVars, Alive
  <2>8. \A c \in Daemons : Undivided(c)'
    BY <1>1, <1>2, <1>3, <2>2, <2>3 DEF Undivided, Due, RestartAt
  <2>. QED BY <1>3, <2>4, <2>5, <2>6, <2>7, <2>8 DEF CalmInv, OneRestart
<1>. QED BY <1>4, <1>5, <1>6 DEF LauncherStep

\* At first there is nobody.
LEMMA CalmInit == Init => CalmInv
<1>. SUFFICES ASSUME Init PROVE CalmInv
  OBVIOUS
<1>1. LockOwned
  BY Distinct DEF Init, LockOwned
<1>4. Undisturbed
  <2>1. config.ok
    BY DEF Init
  <2>. QED BY <2>1 DEF Init, Undisturbed
<1>5. NoExit
  BY DEF Init, NoExit, NotAsked, NoMode
<1>6. OneDaemon
  BY DEF Init, OneDaemon
<1>2. DaemonFirst /\ Unaware /\ Requested /\ ExpectedCodes /\ OneAlive
  BY DEF Init, DaemonFirst, NoneStarted, Unaware, Requested, ExpectedCodes,
     OneAlive, Alive, NotAsked
<1>3. OneRestart
  BY DEF Init, OneRestart, OneUnderWay, Undivided, Active, Fresh, Restarting,
     Alive
<1>. QED BY <1>1, <1>2, <1>3, <1>4, <1>5, <1>6 DEF CalmInv

\* Every step of a calm scenario keeps the invariant, and the scenario.
LEMMA CalmNext ==
    ASSUME LocksInv, TypeOK, Calm => CalmInv, [Next]_vars
    PROVE  Calm' => CalmInv'
<1>1. scenario' = scenario
  <2>1. CASE World
    BY <2>1 DEF World, EditConfig, LaunchAgain, ServiceBegins, DaemonAborts,
       DaemonCrash, OnLayoutChange, AskWorker, OpenSearch, CloseSearch,
       WorkerCrash, Disturbed, worldVars
  <2>2. CASE LauncherStep \/ ServiceStep
    BY <2>2 DEF LauncherStep, LauncherProbe, LauncherRelease, LaunchDaemon,
       ServiceStep, ServiceProbe, ServiceRelease, ServiceTell, ServiceStops,
       ServiceFreed, ForceKill, Kill, StopTimeout, ServiceStarts, ServiceAwaits,
       ServicePeeked, ServiceRest, worldVars
  <2>3. ASSUME NEW d \in Daemons, DaemonStep(d) PROVE scenario' = scenario
    BY <2>3, OthersStayPut
  <2>4. ASSUME NEW w \in Workers, WorkerStep(w) PROVE scenario' = scenario
    BY <2>4 DEF WorkerStep, WorkerLoad, WorkerLock, WorkerServes, MonitorProbe,
       MonitorSignals, WorkerExits, Reported, worldVars
  <2>5. CASE UNCHANGED vars
    BY <2>5 DEF vars, worldVars
  <2>. QED BY <2>1, <2>2, <2>3, <2>4, <2>5 DEF Next
<1>. SUFFICES ASSUME Calm PROVE CalmInv'
  BY <1>1 DEF Calm
<1>2. ASSUME NEW d \in Daemons, DaemonStep(d) PROVE CalmInv'
  BY <1>2, DaemonCalm, DaemonCodes, DaemonRestarts DEF CalmInv
<1>3. ASSUME NEW w \in Workers,
             WorkerStep(w) \/ AskWorker(w) \/ OpenSearch(w) \/ CloseSearch(w)
      PROVE  CalmInv'
  <2>1. OneRestart'
    BY <1>3, WorkerRestarts, ReportRestarts, AskRestarts DEF WorkerStep
  <2>. QED BY <1>3, <2>1, WorkerCalm DEF CalmInv
<1>4. CASE UNCHANGED vars
  BY <1>4 DEF vars, lockVars, daemonVars, workerVars, clientVars, worldVars,
     CalmInv, LockOwned, Undisturbed, NoExit, OneDaemon, DaemonFirst, Unaware,
     Requested, ExpectedCodes, OneAlive, OneRestart, OneUnderWay, Undivided,
     NoneStarted, NoneAlive, NoneUnderWay, Fresh, Restarting, Alive, Active,
     Locked, Due, RestartAt
<1>. QED
  BY <1>2, <1>3, <1>4, NeverCalm, LauncherCalm DEF Next, World

\* As long as the configuration is edited and restarts are asked for when
\* nothing else is under way, no daemon ends with an error: every worker that a
\* restart spawns finds the lock free, whatever the user asks for meanwhile.
THEOREM DaemonAlwaysSurvives == Spec => []DaemonSurvives
<1>1. Init => (Calm => CalmInv)
  BY CalmInit
<1>2. LocksInv /\ TypeOK /\ (Calm => CalmInv) /\ [Next]_vars
        => (Calm => CalmInv)'
  BY CalmNext
<1>3. (Calm => CalmInv) => DaemonSurvives
  BY DEF CalmInv, Undisturbed, DaemonSurvives
<1>. QED BY <1>1, <1>2, <1>3, LocksAlways, SupervisionTypes, PTL DEF Spec
=============================================================================
