------------------------------ MODULE Supervision ------------------------------
(***************************************************************************)
(* The processes of Expandr and how they find, start and stop each other:  *)
(* the launcher starts a daemon, the daemon spawns a worker, restarts it   *)
(* when the configuration changes and quits when the worker says so; the   *)
(* worker watches its daemon; the service commands act on both.            *)
(*                                                                         *)
(* They share two lock files, which are probed by taking them for a        *)
(* moment, and the IPC socket of the worker.  The detect, engine and UI    *)
(* threads of the worker are one here: it can end when it is asked to,     *)
(* unless the user keeps it waiting in front of the search bar.            *)
(*                                                                         *)
(* Time: a wait ends by its timeout only if nobody would have answered,    *)
(* because the worker was never told or waits for the user; the periods    *)
(* of the polls are left out.                                              *)
(***************************************************************************)
EXTENDS Naturals, Sequences

CONSTANTS
    Daemons,    \* daemon processes that may be started
    Workers,    \* worker processes that may be spawned
    Scenarios,  \* which disturbances may come, and (a bound) how many of them
    MaxPolls    \* bound: free locks that `start' finds before it gives up

Free     == "free"      \* nobody holds the lock
Service  == "service"   \* the service command
Launcher == "launcher"
NoWorker == "NoWorker"
NoDaemon == "NoDaemon"
NoMode   == "NoMode"

\* What may happen besides the life of the processes: edits of the
\* configuration (early: before the last one has been dealt with, bad: with a
\* fatal error, option: of auto_restart), the search bar,
\* an exit or a restart asked for in the worker, service commands, another
\* launch, a crash, a change of the keyboard layout.
Disturbances == {"edit", "early", "bad", "option", "search", "exit", "restart", "status",
                 "stop", "start", "cycle", "launch", "crash", "layout"}

ExitModes == {"Exit", "ExitAllProcesses", "RestartWorker"}

ASSUME SupervisionAssumption ==
    /\ Daemons \cap Workers = {}
    /\ {Free, Service, Launcher} \cap (Daemons \cup Workers) = {}
    /\ NoWorker \notin Workers /\ NoDaemon \notin Daemons
    /\ Scenarios \subseteq [may : SUBSET Disturbances, budget : Nat]
    /\ MaxPolls \in Nat

VARIABLES
    daemonLock, workerLock, \* who holds the lock files
    daemon,     \* where each daemon is
    auto,       \* its auto_restart option, as loaded when it started
    watched,    \* its debouncer has seen a change
    signals,    \* notifications in its watcher channel
    codes,      \* exit codes its monitor threads have forwarded, in order
    worker,     \* where each worker is
    parent,     \* the daemon that spawned it
    loaded,     \* the revision of the configuration it loaded
    asked,      \* the exit it is asked for, by a signal, or in the tray or by a match
    busy,       \* the search bar is open
    monitor,    \* its daemon-monitor thread
    code,       \* its exit code
    socket,     \* the worker that bound the IPC socket last
    config,     \* the configuration on disk
    service,    \* the service command: operation, place, polls left, and the
                \* processes it is about to kill
    told,       \* the worker that `stop' has asked to exit
    launcher,   \* where the launcher is
    scenario, budget    \* the disturbances allowed, and how many are left

lockVars    == <<daemonLock, workerLock>>
daemonVars  == <<daemon, auto, watched, signals, codes>>
workerVars  == <<worker, parent, loaded, asked, busy, monitor, code, socket>>
clientVars  == <<service, told, launcher>>
worldVars   == <<config, scenario, budget>>
vars == <<lockVars, daemonVars, workerVars, clientVars, worldVars>>

NotAsked == [signal |-> NoMode, tray |-> NoMode]

Init ==
    /\ daemonLock = Free /\ workerLock = Free
    /\ daemon  = [d \in Daemons |-> "none"]
    /\ auto    = [d \in Daemons |-> TRUE]
    /\ watched = [d \in Daemons |-> FALSE]
    /\ signals = [d \in Daemons |-> 0]
    /\ codes   = [d \in Daemons |-> <<>>]
    /\ worker  = [w \in Workers |-> "none"]
    /\ parent  = [w \in Workers |-> NoDaemon]
    /\ loaded  = [w \in Workers |-> 0]
    /\ asked   = [w \in Workers |-> NotAsked]
    /\ busy    = [w \in Workers |-> FALSE]
    /\ monitor = [w \in Workers |-> "off"]
    /\ code    = [w \in Workers |-> "success"]
    /\ socket = NoWorker
    /\ config \in [rev : {0}, ok : {TRUE}, auto : BOOLEAN]
    /\ service = [op |-> "none", pc |-> "idle", polls |-> 0, doomed |-> {}]
    /\ told = NoWorker
    /\ launcher = "probing"
    /\ \E s \in Scenarios : scenario = s.may /\ budget = s.budget

-----------------------------------------------------------------------------
(* What several processes do                                               *)

\* A worker process exists, and a worker has passed its lock.
Alive(w)  == worker[w] \in {"spawned", "loaded", "locked", "running"}
Locked(w) == worker[w] \in {"locked", "running"}

\* A daemon has passed its lock and watches over a worker, or prepares one.
Active(d) == daemon[d] \in {"loading", "troubled", "probing", "telling",
                            "clearing", "ready", "asking", "waiting",
                            "releasing", "spawning"}

\* The worker that a message sent now reaches: it has bound the socket and is
\* still there to accept.  Otherwise the connection is refused.
Listener == IF socket # NoWorker /\ worker[socket] = "running"
              THEN socket ELSE NoWorker

\* The first request of a channel is the one that ends the engine.
Request(w, channel, mode) ==
    asked' = IF w = NoWorker \/ asked[w][channel] # NoMode THEN asked
             ELSE [asked EXCEPT ![w][channel] = mode]

\* The worker that holds the lock will not go soon: it does not know that it
\* should, or the user keeps the search bar open.
Unresponsive ==
    \E w \in Workers : workerLock = w /\ (busy[w] \/ asked[w] = NotAsked)

\* A process that ends lets go of its locks.
Without(lock, p) == IF lock = p THEN Free ELSE lock

Disturbed(kind) ==
    /\ kind \in scenario
    /\ budget > 0
    /\ budget' = budget - 1

-----------------------------------------------------------------------------
(* The daemon                                                              *)

\* The daemon that is at `from' goes on to `to'.
Goes(d, from, to) ==
    /\ daemon[d] = from
    /\ daemon' = [daemon EXCEPT ![d] = to]

DaemonRest == UNCHANGED <<auto, watched, signals, codes>>

DaemonLock(d) ==
    /\ IF daemonLock = Free
         THEN Goes(d, "starting", "loading") /\ daemonLock' = d
         ELSE Goes(d, "starting", "refused") /\ UNCHANGED daemonLock
    /\ DaemonRest
    /\ UNCHANGED <<workerLock, workerVars, clientVars, worldVars>>

\* A fatal error in the configuration brings up the troubleshooter.
DaemonLoad(d) ==
    /\ Goes(d, "loading", IF config.ok THEN "probing" ELSE "troubled")
    /\ auto' = IF config.ok THEN [auto EXCEPT ![d] = config.auto] ELSE auto
    /\ UNCHANGED <<watched, signals, codes, lockVars, workerVars, clientVars,
                   worldVars>>

\* The next change makes it load again; the user gives up by closing it.
DaemonReload(d) ==
    /\ Goes(d, "troubled", "loading")
    /\ signals[d] > 0
    /\ signals' = [signals EXCEPT ![d] = @ - 1]
    /\ UNCHANGED <<auto, watched, codes, lockVars, workerVars, clientVars,
                   worldVars>>

\* The daemon d, at `from', is no more.
DaemonEnds(d, from, to) ==
    /\ Goes(d, from, to)
    /\ daemonLock' = Without(daemonLock, d)
    /\ workerLock' = Without(workerLock, d)

DaemonAborts(d) ==
    /\ DaemonEnds(d, "troubled", "exited")
    /\ DaemonRest
    /\ UNCHANGED <<workerVars, clientVars, worldVars>>

\* terminate_worker_if_already_running: when the lock of the worker is free it
\* is taken, and let go in the next step.
ProbeWorker(d) ==
    /\ IF workerLock = Free
         THEN Goes(d, "probing", "releasing") /\ workerLock' = d
         ELSE Goes(d, "probing", "telling") /\ UNCHANGED workerLock
    /\ DaemonRest
    /\ UNCHANGED <<daemonLock, workerVars, clientVars, worldVars>>

\* Mutant: the wait begins, but nobody was told.
TellNobody(d) ==
    /\ \/ Goes(d, "telling", "clearing")
       \/ Goes(d, "asking", "waiting")
    /\ DaemonRest
    /\ UNCHANGED <<lockVars, workerVars, clientVars, worldVars>>

\* The exit message, which may reach nobody, and the wait for the lock: three
\* seconds at the start of the daemon, thirty in a restart.
TellWorker(d) ==
    /\ \/ Goes(d, "telling", "clearing")
       \/ Goes(d, "asking", "waiting")
    /\ Request(Listener, "signal", "Exit")
    /\ DaemonRest
    /\ UNCHANGED <<lockVars, worker, parent, loaded, busy, monitor, code,
                   socket, clientVars, worldVars>>

\* Mutant: the restart does not wait for the old worker.
WaitNoWorker(d) ==
    /\ \/ Goes(d, "clearing", "spawning")
       \/ Goes(d, "waiting", "spawning")
    /\ DaemonRest
    /\ UNCHANGED <<lockVars, workerVars, clientVars, worldVars>>

WaitWorker(d) ==
    /\ \/ Goes(d, "clearing", "releasing")
       \/ Goes(d, "waiting", "releasing")
    /\ workerLock = Free
    /\ workerLock' = d
    /\ DaemonRest
    /\ UNCHANGED <<daemonLock, workerVars, clientVars, worldVars>>

\* At the start the daemon gives up, in a restart it goes on without a worker.
WaitTimeout(d) ==
    /\ Unresponsive
    /\ \/ DaemonEnds(d, "clearing", "failed")
       \/ Goes(d, "waiting", "ready") /\ UNCHANGED lockVars
    /\ DaemonRest
    /\ UNCHANGED <<workerVars, clientVars, worldVars>>

ReleaseWorker(d) ==
    /\ Goes(d, "releasing", "spawning")
    /\ workerLock' = Free
    /\ DaemonRest
    /\ UNCHANGED <<daemonLock, workerVars, clientVars, worldVars>>

SpawnWorker(d) ==
    /\ Goes(d, "spawning", "ready")
    /\ \E w \in Workers :
          /\ worker[w] = "none"
          /\ worker' = [worker EXCEPT ![w] = "spawned"]
          /\ parent' = [parent EXCEPT ![w] = d]
    /\ DaemonRest
    /\ UNCHANGED <<loaded, asked, busy, monitor, code, socket, lockVars,
                   clientVars, worldVars>>

\* The select loop: a change on disk, unless auto_restart was off when the
\* daemon started or the new configuration has a fatal error.
OnConfigChange(d) ==
    /\ Goes(d, "ready", IF auto[d] /\ config.ok THEN "asking" ELSE "ready")
    /\ signals[d] > 0
    /\ signals' = [signals EXCEPT ![d] = @ - 1]
    /\ UNCHANGED <<auto, watched, codes, lockVars, workerVars, clientVars,
                   worldVars>>

OnLayoutChange(d) ==
    /\ Disturbed("layout")
    /\ Goes(d, "ready", "asking")
    /\ DaemonRest
    /\ UNCHANGED <<lockVars, workerVars, clientVars, config, scenario>>

\* The exit code of a worker: quit, spawn another one, or fail.
OnExitCode(d) ==
    /\ codes[d] # <<>>
    /\ codes' = [codes EXCEPT ![d] = Tail(@)]
    /\ CASE Head(codes[d]) = "all"     -> DaemonEnds(d, "ready", "exited")
         [] Head(codes[d]) = "restart" -> /\ Goes(d, "ready", "spawning")
                                          /\ UNCHANGED lockVars
         [] OTHER                      -> DaemonEnds(d, "ready", "failed")
    /\ UNCHANGED <<auto, watched, signals, workerVars, clientVars, worldVars>>

DaemonCrash(d) ==
    /\ Disturbed("crash")
    /\ Active(d)
    /\ DaemonEnds(d, daemon[d], "crashed")
    /\ DaemonRest
    /\ UNCHANGED <<workerVars, clientVars, config, scenario>>

\* The debouncer notifies once, after a second without a change.
Debounce(d) ==
    /\ Active(d) /\ watched[d]
    /\ watched' = [watched EXCEPT ![d] = FALSE]
    /\ signals' = [signals EXCEPT ![d] = @ + 1]
    /\ UNCHANGED <<daemon, auto, codes, lockVars, workerVars, clientVars,
                   worldVars>>

-----------------------------------------------------------------------------
(* The worker                                                              *)

\* The worker w, at one of `from', goes on to `to'.
Enters(w, from, to) ==
    /\ worker[w] \in from
    /\ worker' = [worker EXCEPT ![w] = to]

\* The process w ends with the exit code c.
WorkerEnds(w, from, c) ==
    /\ Enters(w, from, "ended")
    /\ code' = [code EXCEPT ![w] = c]
    /\ busy' = [busy EXCEPT ![w] = FALSE]
    /\ monitor' = [monitor EXCEPT ![w] = "off"]
    /\ daemonLock' = Without(daemonLock, w)
    /\ workerLock' = Without(workerLock, w)

\* The configuration is loaded first, and must not have a fatal error.
WorkerLoad(w) ==
    /\ IF config.ok
         THEN /\ Enters(w, {"spawned"}, "loaded")
              /\ UNCHANGED <<code, busy, monitor, lockVars>>
         ELSE WorkerEnds(w, {"spawned"}, "panic")
    /\ loaded' = [loaded EXCEPT ![w] = config.rev]
    /\ UNCHANGED <<parent, asked, socket, daemonVars, clientVars, worldVars>>

\* Mutant: the worker starts whoever holds the lock.
WorkerLockIgnored(w) ==
    /\ Enters(w, {"loaded"}, "locked")
    /\ workerLock' = w
    /\ UNCHANGED <<daemonLock, parent, loaded, asked, busy, monitor, code,
                   socket, daemonVars, clientVars, worldVars>>

\* Then the lock; the engine runs from here on.
WorkerLock(w) ==
    /\ IF workerLock = Free
         THEN /\ Enters(w, {"loaded"}, "locked")
              /\ workerLock' = w
              /\ UNCHANGED <<code, busy, monitor, daemonLock>>
         ELSE WorkerEnds(w, {"loaded"}, "already")
    /\ UNCHANGED <<parent, loaded, asked, socket, daemonVars, clientVars,
                   worldVars>>

\* The IPC server and the daemon monitor start.
WorkerServes(w) ==
    /\ Enters(w, {"locked"}, "running")
    /\ socket' = w
    /\ monitor' = [monitor EXCEPT ![w] = "armed"]
    /\ UNCHANGED <<parent, loaded, asked, busy, code, lockVars, daemonVars,
                   clientVars, worldVars>>

\* The monitor asks for the lock of the daemon, every second until it gets it.
MonitorProbe(w) ==
    /\ monitor[w] = "armed"
    /\ daemonLock = Free
    /\ daemonLock' = w
    /\ monitor' = [monitor EXCEPT ![w] = "holding"]
    /\ UNCHANGED <<workerLock, worker, parent, loaded, asked, busy, code,
                   socket, daemonVars, clientVars, worldVars>>

\* Mutant: the monitor ends without a word.
MonitorForgets(w) ==
    /\ monitor[w] = "holding"
    /\ daemonLock' = Free
    /\ monitor' = [monitor EXCEPT ![w] = "off"]
    /\ UNCHANGED <<workerLock, worker, parent, loaded, asked, busy, code,
                   socket, daemonVars, clientVars, worldVars>>

MonitorSignals(w) ==
    /\ monitor[w] = "holding"
    /\ daemonLock' = Free
    /\ monitor' = [monitor EXCEPT ![w] = "off"]
    /\ Request(w, "signal", "Exit")
    /\ UNCHANGED <<workerLock, worker, parent, loaded, busy, code, socket,
                   daemonVars, clientVars, worldVars>>

CodeOf(mode) ==
    CASE mode = "Exit" -> "success"
      [] mode = "ExitAllProcesses" -> "all"
      [] mode = "RestartWorker" -> "restart"

\* The engine ends, with what one of its sources asks for.
WorkerExits(w) ==
    /\ ~busy[w]
    /\ \E channel \in {"signal", "tray"} :
          /\ asked[w][channel] # NoMode
          /\ WorkerEnds(w, {"locked", "running"}, CodeOf(asked[w][channel]))
    /\ UNCHANGED <<parent, loaded, asked, socket, daemonVars, clientVars,
                   worldVars>>

WorkerCrash(w) ==
    /\ Disturbed("crash")
    /\ Alive(w)
    /\ WorkerEnds(w, {worker[w]}, "nocode")
    /\ UNCHANGED <<parent, loaded, asked, socket, daemonVars, clientVars,
                   config, scenario>>

\* The thread of the daemon that waits for the worker forwards its exit code
\* unless it is a success; it is gone when the daemon is.
Reported(w) ==
    /\ Enters(w, {"ended"}, "dead")
    /\ codes' = IF parent[w] \in Daemons /\ Active(parent[w])
                   /\ code[w] # "success"
                  THEN [codes EXCEPT ![parent[w]] = Append(@, code[w])]
                  ELSE codes
    /\ UNCHANGED <<daemon, auto, watched, signals, parent, loaded, asked, busy,
                   monitor, code, socket, lockVars, clientVars, worldVars>>

-----------------------------------------------------------------------------
(* The user                                                                *)

\* Every change of the last one has been dealt with.
Settled ==
    /\ \A d \in Daemons : Active(d) => /\ daemon[d] = "ready"
                                       /\ ~watched[d] /\ signals[d] = 0
                                       /\ codes[d] = <<>>
    /\ \E w \in Workers : worker[w] = "running" /\ asked[w] = NotAsked
    /\ \A w \in Workers : worker[w] \in {"none", "running", "dead"}

EditConfig ==
    /\ Disturbed("edit")
    /\ Settled \/ "early" \in scenario
    /\ \E ok, option \in BOOLEAN :
          /\ ok \/ "bad" \in scenario
          /\ option = config.auto \/ "option" \in scenario
          /\ config' = [rev |-> config.rev + 1, ok |-> ok, auto |-> option]
    /\ watched' = [d \in Daemons |-> watched[d] \/ Active(d)]
    /\ UNCHANGED <<daemon, auto, signals, codes, lockVars, workerVars,
                   clientVars, scenario>>

\* The tray exits, a built-in match restarts.
AskWorker(w) ==
    /\ Locked(w)
    /\ \/ Disturbed("exit") /\ Request(w, "tray", "ExitAllProcesses")
       \/ /\ Disturbed("restart") /\ ~busy[w]
          /\ Settled \/ "early" \in scenario
          /\ Request(w, "tray", "RestartWorker")
    /\ UNCHANGED <<worker, parent, loaded, busy, monitor, code, socket,
                   lockVars, daemonVars, clientVars, config, scenario>>

OpenSearch(w) ==
    /\ Disturbed("search")
    /\ Locked(w) /\ ~busy[w]
    /\ busy' = [busy EXCEPT ![w] = TRUE]
    /\ UNCHANGED <<worker, parent, loaded, asked, monitor, code, socket,
                   lockVars, daemonVars, clientVars, config, scenario>>

CloseSearch(w) ==
    /\ busy[w]
    /\ busy' = [busy EXCEPT ![w] = FALSE]
    /\ UNCHANGED <<worker, parent, loaded, asked, monitor, code, socket,
                   lockVars, daemonVars, clientVars, worldVars>>

-----------------------------------------------------------------------------
(* The launcher                                                            *)

\* A launcher that has ended was as well passed over by a kill before this one.
LaunchAgain ==
    /\ Disturbed("launch")
    /\ launcher = "done"
    /\ Launcher \notin service.doomed
    /\ launcher' = "probing"
    /\ UNCHANGED <<service, told, lockVars, daemonVars, workerVars, config,
                   scenario>>

LauncherProbe ==
    /\ launcher = "probing"
    /\ IF daemonLock = Free
         THEN launcher' = "holding" /\ daemonLock' = Launcher
         ELSE launcher' = "done" /\ UNCHANGED daemonLock
    /\ UNCHANGED <<workerLock, service, told, daemonVars, workerVars, worldVars>>

LauncherRelease ==
    /\ launcher = "holding"
    /\ launcher' = "launching"
    /\ daemonLock' = Free
    /\ UNCHANGED <<workerLock, service, told, daemonVars, workerVars, worldVars>>

LaunchDaemon ==
    /\ launcher = "launching"
    /\ launcher' = "done"
    /\ \E d \in Daemons : Goes(d, "none", "starting")
    /\ DaemonRest
    /\ UNCHANGED <<service, told, lockVars, workerVars, worldVars>>

-----------------------------------------------------------------------------
(* espanso service status | stop | start | restart (here: cycle)           *)

ServiceGoes(from, to) ==
    /\ service.pc = from
    /\ service' = [service EXCEPT !.pc = to]

ServiceRest ==
    UNCHANGED <<launcher, daemonLock, daemonVars, workerVars, worldVars>>

ServiceBegins ==
    /\ service.pc \in {"idle", "stopped"}
    /\ \E op \in {"status", "stop", "start", "cycle"} :
          /\ Disturbed(op)
          /\ service' = [op |-> op, pc |-> "probing", polls |-> MaxPolls, doomed |-> {}]
    /\ told' = NoWorker
    /\ UNCHANGED <<launcher, lockVars, daemonVars, workerVars, config, scenario>>

\* What a stop that is over leads to: a restart goes on with a start.
AfterStop(result) ==
    service' = IF service.op = "cycle"
                 THEN [service EXCEPT !.op = "start", !.pc = "probing"]
                 ELSE [service EXCEPT !.pc = result]

\* The worker is running if its lock is taken.
ServiceProbe ==
    /\ IF workerLock = Free
         THEN ServiceGoes("probing", "holding") /\ workerLock' = Service
         ELSE /\ ServiceGoes("probing", IF service.op \in {"stop", "cycle"}
                                          THEN "telling" ELSE "idle")
              /\ UNCHANGED workerLock
    /\ UNCHANGED told
    /\ ServiceRest

ServiceRelease ==
    /\ service.pc = "holding"
    /\ workerLock' = Free
    /\ IF service.op = "start" THEN ServiceGoes("holding", "starting")
                               ELSE AfterStop("idle")
    /\ UNCHANGED told
    /\ ServiceRest

\* terminate_worker fails if the worker cannot be reached.
ServiceTell ==
    /\ service.pc = "telling"
    /\ told' = Listener
    /\ Request(Listener, "signal", "ExitAllProcesses")
    /\ IF Listener = NoWorker THEN AfterStop("idle")
                              ELSE ServiceGoes("telling", "stopping")
    /\ UNCHANGED <<launcher, lockVars, daemonVars, worker, parent, loaded,
                   busy, monitor, code, socket, worldVars>>

\* Mutant: the lock is not asked for.
ServiceStopsAtOnce ==
    /\ ServiceGoes("stopping", "freed") \/ ServiceGoes("killed", "freed")
    /\ UNCHANGED <<told, workerLock>>
    /\ ServiceRest

ServiceStops ==
    /\ ServiceGoes("stopping", "freed") \/ ServiceGoes("killed", "freed")
    /\ workerLock = Free
    /\ workerLock' = Service
    /\ UNCHANGED told
    /\ ServiceRest

ServiceFreed ==
    /\ service.pc = "freed"
    /\ workerLock' = Without(workerLock, Service)
    /\ AfterStop("stopped")
    /\ UNCHANGED told
    /\ ServiceRest

\* After three seconds the processes of the program are listed, and killed one
\* by one: one that comes while this goes on is not among them.  Then the lock
\* is waited for again.
ForceKill ==
    /\ service.pc = "stopping"
    /\ Unresponsive
    /\ service' = [service EXCEPT
                     !.pc = "killing",
                     !.doomed = {w \in Workers : Alive(w)}
                                  \cup {d \in Daemons : Active(d) \/ daemon[d] = "starting"}
                                  \cup {p \in {Launcher} : launcher # "done"}]
    /\ UNCHANGED <<told, workerLock>>
    /\ ServiceRest

\* The process p is killed, unless it has ended by itself.
Killed(p) ==
    \/ /\ p \in Workers /\ Alive(p)
       /\ WorkerEnds(p, {worker[p]}, "nocode")
       /\ UNCHANGED <<launcher, daemon>>
    \/ /\ p \in Daemons /\ (Active(p) \/ daemon[p] = "starting")
       /\ DaemonEnds(p, daemon[p], "crashed")
       /\ UNCHANGED <<launcher, worker, code, busy, monitor>>
    \/ /\ p = Launcher /\ launcher # "done"
       /\ launcher' = "done"
       /\ daemonLock' = Without(daemonLock, Launcher)
       /\ UNCHANGED <<workerLock, daemon, worker, code, busy, monitor>>
    \/ /\ \/ p \in Workers /\ ~Alive(p)
          \/ p \in Daemons /\ ~Active(p) /\ daemon[p] # "starting"
          \/ p = Launcher /\ launcher = "done"
       /\ UNCHANGED <<launcher, lockVars, daemon, worker, code, busy, monitor>>

Kill ==
    /\ service.pc = "killing"
    /\ \E p \in service.doomed :
          /\ Killed(p)
          /\ service' = [service EXCEPT
                           !.doomed = @ \ {p},
                           !.pc = IF service.doomed = {p} THEN "killed" ELSE @]
    /\ DaemonRest
    /\ UNCHANGED <<told, parent, loaded, asked, socket, worldVars>>

\* Another worker has come in between.
StopTimeout ==
    /\ service.pc = "killed"
    /\ Unresponsive
    /\ AfterStop("idle")
    /\ UNCHANGED <<told, workerLock>>
    /\ ServiceRest

\* The service manager runs the launcher.
ServiceStarts ==
    /\ ServiceGoes("starting", "awaiting")
    /\ launcher' = IF launcher = "done" THEN "probing" ELSE launcher
    /\ UNCHANGED <<told, lockVars, daemonVars, workerVars, worldVars>>

\* For five seconds the lock of the worker is polled, until it is taken.
ServiceAwaits ==
    /\ IF workerLock # Free
         THEN ServiceGoes("awaiting", "idle") /\ UNCHANGED workerLock
         ELSE /\ service.pc = "awaiting"
              /\ IF service.polls = 0
                   THEN /\ service' = [service EXCEPT !.pc = "idle"]
                        /\ UNCHANGED workerLock
                   ELSE /\ service' = [service EXCEPT !.pc = "peeking",
                                                      !.polls = @ - 1]
                        /\ workerLock' = Service
    /\ UNCHANGED told
    /\ ServiceRest

ServicePeeked ==
    /\ ServiceGoes("peeking", "awaiting")
    /\ workerLock' = Free
    /\ UNCHANGED told
    /\ ServiceRest

-----------------------------------------------------------------------------

\* The steps of the processes, which wait for nobody but each other.
DaemonStep(d) ==
    \/ DaemonLock(d) \/ DaemonLoad(d) \/ DaemonReload(d) \/ ProbeWorker(d)
    \/ TellWorker(d) \/ WaitWorker(d) \/ WaitTimeout(d) \/ ReleaseWorker(d)
    \/ SpawnWorker(d) \/ OnConfigChange(d) \/ OnExitCode(d) \/ Debounce(d)

WorkerStep(w) ==
    \/ WorkerLoad(w) \/ WorkerLock(w) \/ WorkerServes(w) \/ MonitorProbe(w)
    \/ MonitorSignals(w) \/ WorkerExits(w) \/ Reported(w)

LauncherStep == LauncherProbe \/ LauncherRelease \/ LaunchDaemon

ServiceStep ==
    \/ ServiceProbe \/ ServiceRelease \/ ServiceTell \/ ServiceStops
    \/ ServiceFreed \/ ForceKill \/ Kill \/ StopTimeout \/ ServiceStarts
    \/ ServiceAwaits \/ ServicePeeked

\* What the user and the system do, or do not.
World ==
    \/ EditConfig \/ LaunchAgain \/ ServiceBegins
    \/ \E d \in Daemons : DaemonAborts(d) \/ DaemonCrash(d) \/ OnLayoutChange(d)
    \/ \E w \in Workers : AskWorker(w) \/ OpenSearch(w) \/ CloseSearch(w)
                          \/ WorkerCrash(w)

Next ==
    \/ World \/ LauncherStep \/ ServiceStep
    \/ \E d \in Daemons : DaemonStep(d)
    \/ \E w \in Workers : WorkerStep(w)

Spec == Init /\ [][Next]_vars

\* Every process is scheduled; nothing is assumed of the user.
Fairness ==
    /\ WF_vars(LauncherStep) /\ WF_vars(ServiceStep)
    /\ \A d \in Daemons : WF_vars(DaemonStep(d))
    /\ \A w \in Workers : WF_vars(WorkerStep(w))

FairSpec == Spec /\ Fairness

-----------------------------------------------------------------------------
(* Types                                                                   *)

DaemonPlaces == {"none", "starting", "refused", "loading", "troubled",
                 "probing", "telling", "clearing", "ready", "asking",
                 "waiting", "releasing", "spawning", "exited", "failed",
                 "crashed"}
WorkerPlaces == {"none", "spawned", "loaded", "locked", "running", "ended",
                 "dead"}
ExitCodes == {"success", "already", "panic", "all", "restart", "nocode"}
Requests  == ExitModes \cup {NoMode}

\* Every variable has its type.
TypeOK ==
    /\ daemonLock \in {Free, Launcher} \cup Daemons \cup Workers
    /\ workerLock \in {Free, Service} \cup Daemons \cup Workers
    /\ daemon \in [Daemons -> DaemonPlaces]
    /\ auto \in [Daemons -> BOOLEAN] /\ watched \in [Daemons -> BOOLEAN]
    /\ signals \in [Daemons -> Nat] /\ codes \in [Daemons -> Seq(ExitCodes)]
    /\ worker \in [Workers -> WorkerPlaces]
    /\ parent \in [Workers -> Daemons \cup {NoDaemon}]
    /\ loaded \in [Workers -> Nat]
    /\ asked \in [Workers -> [signal : Requests, tray : Requests]]
    /\ busy \in [Workers -> BOOLEAN]
    /\ monitor \in [Workers -> {"off", "armed", "holding"}]
    /\ code \in [Workers -> ExitCodes]
    /\ socket \in Workers \cup {NoWorker}
    /\ config \in [rev : Nat, ok : BOOLEAN, auto : BOOLEAN]
    /\ service \in [op : {"none", "status", "stop", "start", "cycle"},
                    pc : {"idle", "probing", "holding", "telling", "stopping",
                          "killing", "killed", "freed", "stopped", "starting", "awaiting",
                          "peeking"},
                    polls : Nat,
                    doomed : SUBSET (Daemons \cup Workers \cup {Launcher})]
    /\ told \in Workers \cup {NoWorker}
    /\ launcher \in {"probing", "holding", "launching", "done"}
    /\ scenario \in SUBSET Disturbances /\ budget \in Nat

-----------------------------------------------------------------------------
(* Safety                                                                  *)

\* Two engines never expand the same keys and two daemons never spawn at the
\* same time, whatever probes the locks and whatever crashes.
OneAtATime ==
    /\ \A v, w \in Workers : Locked(v) /\ Locked(w) => v = w
    /\ \A c, d \in Daemons : Active(c) /\ Active(d) => c = d

\* A message to the worker is never taken by a process other than the one that
\* holds its lock: who is told to exit is who is waited for.
ListenerHoldsLock == Listener # NoWorker => workerLock = Listener

\* When `stop' reports success the worker that it told to exit is gone.
StopMeansStopped ==
    service.pc = "stopped" => told # NoWorker /\ ~Alive(told)

\* As long as the configuration is edited, and a restart asked for, when
\* nothing else is under way, the daemon ends only when it is asked to: no
\* restart spawns a worker that finds the lock taken, whose exit code is fatal.
\* (An exit in the middle of a restart may leave the new worker behind, and a
\* daemon launched before that one is told gives up.)
Calm ==
    /\ scenario \subseteq {"edit", "option", "search", "exit", "restart", "launch"}
    /\ ~({"exit", "launch"} \subseteq scenario)
DaemonSurvives == Calm => \A d \in Daemons : daemon[d] # "failed"

-----------------------------------------------------------------------------
(* Liveness                                                                *)

\* "terminate the worker if the daemon terminates ... to avoid dangling worker
\* processes" (worker/mod.rs, lines 149-152): a worker without a daemon ends,
\* unless the user keeps the search bar open or another daemon comes.
NoDanglingWorker ==
    \A w \in Workers :
        Alive(w) /\ ~(\E d \in Daemons : Active(d))
            ~> ~Alive(w) \/ busy[w] \/ \E d \in Daemons : Active(d)

\* The worker in charge has loaded the configuration on disk.
UpToDate == \E w \in Workers : /\ worker[w] = "running"
                               /\ loaded[w] = config.rev

NoDaemonLeft == \A d \in Daemons : ~Active(d)

\* After a change is settled the worker has loaded it, when the changes come
\* one by one and the user does not keep the search bar open.
ConfigApplied ==
    scenario \subseteq {"edit", "restart", "launch", "exit"}
        => <>[](UpToDate \/ NoDaemonLeft \/ ~config.auto)

\* "If true, instructs the daemon process to restart the worker (and refresh
\* the configuration) after a configuration file change is detected on disk"
\* (config/mod.rs, lines 89-91), whatever else happens.
ChangeRestartsWorker ==
    <>[](UpToDate \/ NoDaemonLeft \/ ~config.auto \/ ~config.ok
         \/ \E w \in Workers : busy[w])
=============================================================================
