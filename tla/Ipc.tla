-------------------------------- MODULE Ipc --------------------------------
(***************************************************************************)
(* Inter-process communication with the worker: a client (a command of the *)
(* command line, service stop, the daemon) looks whether a worker runs,    *)
(* connects to its socket, writes one event as a line and exits; the IPC   *)
(* thread of the worker serves one client at a time, reads its lines up to *)
(* the end of the stream, and hands the events to the engine.              *)
(*                                                                         *)
(* Nothing is answered: both servers of the program return NoResponse for  *)
(* every event, so the synchronous calls of espanso-ipc are never made.  A *)
(* client may be killed at any step, in the middle of its line too, and    *)
(* one of another version writes an event that is not understood.          *)
(***************************************************************************)
EXTENDS Naturals, Sequences, SequencesExt

CONSTANTS
  Clients,         \* one run of a client each
  Events,          \* a subset of {"request", "exit", "unknown"}
  Pipes,           \* kinds of transport, a subset of {"unix", "windows"}
  MaxWorkers       \* bound on the workers started

ASSUME IpcAssumption == MaxWorkers \in Nat \ {0}

VARIABLES
  pipe,            \* fixed by Init
  event,           \* what each client sends: "request", "exit" or "unknown"; fixed by Init
  worker,          \* "down", "up" (has the lock)
  epoch,           \* number of the worker
  server,          \* "absent", "accepting", "reading"
  client,          \* the client that is served, when reading
  backlog,         \* connected clients not yet accepted (unix)
  phase,           \* of each client: idle, checked, connected, written, done, failed
  connection,      \* of each client: "none", "open", "closed", as the server sees it
  wire,            \* of each client: "nothing", "line" or "part" of it, unread
  sentTo,          \* epoch of the worker a client wrote its line to, or 0
  before,          \* of each client: those that had exited when it started
  handled          \* what was handed on to the engine: records [client, to]

ipcVars == <<pipe, event, worker, epoch, server, client, backlog, phase, connection, wire,
             sentTo, before, handled>>
serverVars == <<server, client, backlog>>
clientVars == <<phase, sentTo, before>>
NoClient == "none"

----------------------------------------------------------------------------
(* The worker: it takes its lock, and binds the socket later (a socket that *)
(* is left over is removed); all connections end with it.                   *)

StartWorker ==
  /\ worker = "down" /\ epoch < MaxWorkers
  /\ worker' = "up" /\ epoch' = epoch + 1
  /\ UNCHANGED <<pipe, event, serverVars, clientVars, connection, wire, handled>>
Bind ==
  /\ worker = "up" /\ server = "absent"
  /\ server' = "accepting" /\ backlog' = <<>>
  /\ UNCHANGED <<pipe, event, worker, epoch, client, clientVars, connection, wire, handled>>
WorkerExits ==
  /\ worker = "up"
  /\ worker' = "down" /\ server' = "absent" /\ client' = NoClient /\ backlog' = <<>>
  /\ connection' = [c \in Clients |-> "none"]
  /\ wire' = [c \in Clients |-> "nothing"]
  /\ UNCHANGED <<pipe, event, epoch, clientVars, handled>>

----------------------------------------------------------------------------
(* A client.                                                                *)

Phase(c, p) == phase' = [phase EXCEPT ![c] = p]
CheckLock(c) ==            \* "Worker process is not running"
  /\ phase[c] = "idle"
  /\ Phase(c, IF worker = "up" THEN "checked" ELSE "failed")
  /\ before' = [before EXCEPT ![c] = {d \in Clients : phase[d] = "done"}]
  /\ UNCHANGED <<pipe, event, worker, epoch, serverVars, connection, wire, sentTo, handled>>
(* A Unix socket takes connections while the server is busy; the only        *)
(* instance of a named pipe is waited for, two seconds at most.              *)
ConnectRefused(c) ==
  /\ phase[c] = "checked"
  /\ server = "absent" \/ (pipe = "windows" /\ server = "reading")
  /\ Phase(c, "failed")
  /\ UNCHANGED <<pipe, event, worker, epoch, serverVars, connection, wire, sentTo, before,
                 handled>>
Connect(c) ==
  /\ phase[c] = "checked"
  /\ server = "accepting" \/ (pipe = "unix" /\ server = "reading")
  /\ Phase(c, "connected")
  /\ connection' = [connection EXCEPT ![c] = "open"]
  /\ IF pipe = "unix"
       THEN backlog' = Append(backlog, c) /\ UNCHANGED <<server, client>>
       ELSE server' = "reading" /\ client' = c /\ UNCHANGED backlog
  /\ UNCHANGED <<pipe, event, worker, epoch, wire, sentTo, before, handled>>
SendAsync(c) ==
  /\ phase[c] = "connected"
  /\ IF connection[c] = "open"
       THEN /\ Phase(c, "written")
            /\ wire' = [wire EXCEPT ![c] = "line"]
            /\ sentTo' = [sentTo EXCEPT ![c] = epoch]
       ELSE Phase(c, "failed") /\ UNCHANGED <<wire, sentTo>>
  /\ UNCHANGED <<pipe, event, worker, epoch, serverVars, connection, before, handled>>
Closed(c) == [connection EXCEPT ![c] = IF @ = "open" THEN "closed" ELSE @]
ClientExits(c) ==
  /\ phase[c] = "written"
  /\ Phase(c, "done")
  /\ connection' = Closed(c)
  /\ UNCHANGED <<pipe, event, worker, epoch, serverVars, wire, sentTo, before, handled>>
ClientKilled(c) ==
  /\ phase[c] \in {"checked", "connected"}
  /\ Phase(c, "failed")
  /\ connection' = Closed(c)
  /\ wire' \in IF connection[c] = "open" THEN {wire, [wire EXCEPT ![c] = "part"]} ELSE {wire}
  /\ UNCHANGED <<pipe, event, worker, epoch, serverVars, sentTo, before, handled>>

----------------------------------------------------------------------------
(* The server, UnixIPCServer::run and WinIPCServer::run.                    *)

Accept ==
  /\ pipe = "unix" /\ server = "accepting" /\ backlog # <<>>
  /\ server' = "reading" /\ client' = Head(backlog) /\ backlog' = Tail(backlog)
  /\ UNCHANGED <<pipe, event, worker, epoch, clientVars, connection, wire, handled>>
DropClientEnds ==          \* the loop that accepts is left as well
  /\ server' = "ended" /\ client' = NoClient
  /\ connection' = [connection EXCEPT ![client] = "none"]
DropClient ==
  /\ server' = "accepting" /\ client' = NoClient
  /\ connection' = [connection EXCEPT ![client] = "none"]
(* The handler of worker/ipc.rs: Exit and ExitAllProcesses go to the exit     *)
(* channel, the others to that of the IPC events; the engine reads both.     *)
Handle(c) ==
  handled' = Append(handled, [client |-> c,
                              to |-> IF event[c] = "exit" THEN "exits" ELSE "requests"])
ReadLine ==
  /\ server = "reading" /\ wire[client] = "line" /\ event[client] # "unknown"
  /\ wire' = [wire EXCEPT ![client] = "nothing"]
  /\ Handle(client)
  /\ UNCHANGED <<pipe, event, worker, epoch, serverVars, clientVars, connection>>
\* What is left of a line at the end of the stream is a line for read_line.
Malformed ==
  /\ server = "reading"
  /\ \/ wire[client] = "line" /\ event[client] = "unknown"
     \/ wire[client] = "part" /\ connection[client] = "closed"
  /\ wire' = [wire EXCEPT ![client] = "nothing"]
  /\ DropClient
  /\ UNCHANGED <<pipe, event, worker, epoch, backlog, clientVars, handled>>
EndOfStream ==
  /\ server = "reading" /\ wire[client] = "nothing" /\ connection[client] = "closed"
  /\ DropClient
  /\ UNCHANGED <<pipe, event, worker, epoch, backlog, clientVars, wire, handled>>
Server == Accept \/ ReadLine \/ Malformed \/ EndOfStream
Client(c) == CheckLock(c) \/ ConnectRefused(c) \/ Connect(c) \/ SendAsync(c) \/ ClientExits(c)

IpcInit ==
  /\ pipe \in Pipes
  /\ event \in [Clients -> Events]
  /\ worker = "down" /\ epoch = 0
  /\ server = "absent" /\ client = NoClient /\ backlog = <<>>
  /\ phase = [c \in Clients |-> "idle"]
  /\ connection = [c \in Clients |-> "none"]
  /\ wire = [c \in Clients |-> "nothing"]
  /\ sentTo = [c \in Clients |-> 0]
  /\ before = [c \in Clients |-> {}]
  /\ handled = <<>>
IpcNext ==
  StartWorker \/ Bind \/ WorkerExits \/ Server
    \/ \E c \in Clients : Client(c) \/ ClientKilled(c)

IpcSpec == IpcInit /\ [][IpcNext]_ipcVars
(* The threads of the worker run, and a client that has started goes on.    *)
IpcFairness ==
  /\ WF_ipcVars(Server)
  /\ \A c \in Clients : WF_ipcVars(SendAsync(c) \/ ClientExits(c))

----------------------------------------------------------------------------
(* Properties.                                                              *)

\* No event is handled twice, and commands run one after the other arrive in
\* that order.
HandledInOrder ==
  \A i, j \in DOMAIN handled :
    i < j => /\ handled[i].client # handled[j].client
             /\ handled[j].client \notin before[handled[i].client]

(* A client that has written an event the worker understands reaches it,    *)
(* whatever the other clients do (killed in the middle of a line, of        *)
(* another version, slow), unless that worker exits; never twice; and       *)
(* commands run one after the other arrive in that order.                   *)
CommandsArrive ==
  /\ \A c \in Clients :
       (sentTo[c] # 0 /\ event[c] # "unknown")
         ~> (c \in {h.client : h \in ToSet(handled)} \/ worker = "down" \/ epoch # sentTo[c])
  /\ []HandledInOrder
=============================================================================
