---------------------------- MODULE SecureInput ----------------------------
(***************************************************************************)
(* Secure Input of macOS: while an application holds it no key is seen and *)
(* none can be injected.  The secure-input-monitor thread of the worker    *)
(* polls who holds it and tells the engine, which shows it; from the menu  *)
(* the user can have it explained, and have the auto-fix process try to    *)
(* get it released.  The engine thread waits for both.                     *)
(*                                                                         *)
(* The monitor asks twice: for the process that holds it, and, when there  *)
(* is a new one, again for its application.  Texts, log messages and the   *)
(* lengths of the pauses are left out; an event is Enabled or Disabled.    *)
(***************************************************************************)
EXTENDS Naturals, Sequences

CONSTANTS
  Processes,       \* processes that may take Secure Input
  MaxChanges,      \* bound on the times it changes hands
  MaxQuestions     \* bound on the questions of the user

ASSUME SecureInputAssumption == MaxChanges \in Nat /\ MaxQuestions \in Nat

VARIABLES
  holder,          \* the process that holds it, or NoProcess
  changes,         \* bounded by MaxChanges
  monitor,         \* "poll", or "name" between the two queries
  polled,          \* pid: result of the poll
  lastPid,         \* last_secure_input_pid
  unnamed,         \* whether the application of lastPid was not found
  channel,         \* secure_input_sender .. receiver
  shown,           \* is_secure_input of the icon and of the menu
  engine,          \* "ready", "alert" while it is explained, "fix"
  fix,             \* where the auto-fix process is, or "none"
  running,         \* known applications that run when the process asks
  outcome,         \* what the last auto-fix process reported
  questions        \* bounded by MaxQuestions

secureInputVars == <<holder, changes, monitor, polled, lastPid, unnamed, channel, shown,
                     engine, fix, running, outcome, questions>>
NoProcess == "none"
KnownApps == {"chrome", "bitwarden"}

monitorVars == <<monitor, polled, lastPid, unnamed>>
fixVars == <<fix, running, outcome>>

----------------------------------------------------------------------------
(* The applications.                                                        *)

Take(p) ==
  /\ changes < MaxChanges /\ holder # p
  /\ holder' = p /\ changes' = changes + 1
  /\ UNCHANGED <<monitorVars, channel, shown, engine, fixVars, questions>>
Release ==
  /\ holder # NoProcess
  /\ holder' = NoProcess
  /\ UNCHANGED <<changes, monitorVars, channel, shown, engine, fixVars, questions>>

----------------------------------------------------------------------------
(* secure_input_main.                                                       *)

PollForgets ==           \* Disabled is sent only when a name was found
  /\ monitor = "poll"
  /\ polled' = holder
  /\ IF holder # NoProcess
       THEN IF holder # lastPid
              THEN monitor' = "name" /\ UNCHANGED <<lastPid, channel>>
              ELSE UNCHANGED <<monitor, lastPid, channel>>
       ELSE /\ lastPid' = NoProcess
            /\ UNCHANGED <<monitor, channel>>
  /\ UNCHANGED <<holder, changes, unnamed, shown, engine, fixVars, questions>>
Poll ==
  /\ monitor = "poll"
  /\ polled' = holder
  /\ IF holder # NoProcess
       THEN IF holder # lastPid
              THEN monitor' = "name" /\ UNCHANGED <<lastPid, channel>>
              ELSE UNCHANGED <<monitor, lastPid, channel>>
       ELSE /\ channel' = IF lastPid # NoProcess THEN Append(channel, "Disabled") ELSE channel
            /\ lastPid' = NoProcess
            /\ UNCHANGED monitor
  /\ UNCHANGED <<holder, changes, unnamed, shown, engine, fixVars, questions>>

(* get_secure_input_application asks for the process again; it may be gone, *)
(* another one, or one whose path cannot be read.                           *)
Name ==
  /\ monitor = "name"
  /\ \E found \in IF holder = NoProcess THEN {FALSE} ELSE BOOLEAN :
       /\ channel' = IF found THEN Append(channel, "Enabled") ELSE channel
       /\ unnamed' = ~found
  /\ lastPid' = polled
  /\ monitor' = "poll"
  /\ UNCHANGED <<holder, changes, polled, shown, engine, fixVars, questions>>

----------------------------------------------------------------------------
(* The engine: the events, and the two requests of the menu.                *)

Receive ==
  /\ engine = "ready" /\ channel # <<>>
  /\ shown' = (Head(channel) = "Enabled")
  /\ channel' = Tail(channel)
  /\ UNCHANGED <<holder, changes, monitorVars, engine, fixVars, questions>>

Explain ==                    \* display_secure_input_troubleshoot
  /\ engine = "ready" /\ shown /\ questions < MaxQuestions
  /\ engine' = "alert" /\ questions' = questions + 1
  /\ UNCHANGED <<holder, changes, monitorVars, channel, shown, fixVars>>
Spawned == fix' = "start" /\ UNCHANGED <<running, outcome>>
Answer ==
  /\ engine = "alert"
  /\ \/ engine' = "ready" /\ UNCHANGED fixVars
     \/ engine' = "fix" /\ Spawned           \* "Run auto-fix"
  /\ UNCHANGED <<holder, changes, monitorVars, channel, shown, questions>>
LaunchAutofix ==              \* launch_secure_input_autofix, from the menu
  /\ engine = "ready" /\ shown /\ questions < MaxQuestions
  /\ engine' = "fix" /\ Spawned /\ questions' = questions + 1
  /\ UNCHANGED <<holder, changes, monitorVars, channel, shown>>
AutofixReturns ==             \* wait_with_output
  /\ engine = "fix" /\ fix = "done"
  /\ engine' = "ready" /\ fix' = "none"
  /\ UNCHANGED <<holder, changes, monitorVars, channel, shown, running, outcome, questions>>

----------------------------------------------------------------------------
(* espanso workaround secure-input.                                         *)

others == <<changes, monitorVars, channel, shown, engine, questions>>
FixDone(result) == fix' = "done" /\ outcome' = result
NextTry(tried) ==
  IF "chrome" \in running \ tried THEN "chrome"
  ELSE IF "bitwarden" \in running \ tried THEN "bitwarden" ELSE "lock"

FixStart ==                   \* run_secure_input_workaround
  /\ fix = "start"
  /\ IF holder = NoProcess
       THEN FixDone("not_needed") /\ UNCHANGED running
       ELSE \/ FixDone("failed") /\ UNCHANGED running      \* the applications cannot be listed
            \/ /\ running' \in SUBSET KnownApps
               /\ fix' = IF "chrome" \in running' THEN "chrome"
                         ELSE IF "bitwarden" \in running' THEN "bitwarden" ELSE "lock"
               /\ UNCHANGED outcome
  /\ UNCHANGED <<holder, others>>
\* A script that takes the focus off an application may make it let go.
FixScript(app) ==
  /\ fix = app
  /\ holder' \in {holder, NoProcess}
  /\ fix' = app \o "_check"
  /\ UNCHANGED <<running, outcome, others>>
FixCheck(app) ==
  /\ fix = app \o "_check"
  /\ IF holder = NoProcess
       THEN FixDone("released")
       ELSE fix' = NextTry({app} \cup (IF app = "bitwarden" THEN {"chrome"} ELSE {}))
            /\ UNCHANGED outcome
  /\ UNCHANGED <<holder, running, others>>
FixLock ==                    \* the user may refuse, and the question may fail
  /\ fix = "lock"
  /\ \/ FixDone("failed") /\ UNCHANGED holder
     \/ fix' = "verify" /\ holder' \in {holder, NoProcess} /\ UNCHANGED outcome
  /\ UNCHANGED <<running, others>>
FixVerify ==
  /\ fix = "verify"
  /\ FixDone(IF holder # NoProcess THEN "failed" ELSE "released")
  /\ UNCHANGED <<holder, running, others>>

Autofix == FixStart \/ FixLock \/ FixVerify
             \/ \E app \in KnownApps : FixScript(app) \/ FixCheck(app)

SecureInputInit ==
  /\ holder \in Processes \cup {NoProcess} /\ changes = 0
  /\ monitor = "poll" /\ polled = NoProcess /\ lastPid = NoProcess /\ unnamed = FALSE
  /\ channel = <<>> /\ shown = FALSE
  /\ engine = "ready" /\ fix = "none" /\ running = {} /\ outcome = "none"
  /\ questions = 0
Monitor == Poll \/ Name
Menu == Explain \/ LaunchAutofix
SecureInputNext ==
  (\E p \in Processes : Take(p)) \/ Release \/ Monitor \/ Receive \/ Menu \/ Answer
    \/ AutofixReturns \/ Autofix

(* The monitor polls for ever, the engine reads its channels, the auto-fix  *)
(* runs to its end, and the user answers an alert some time.                *)
SecureInputFairness ==
  /\ WF_secureInputVars(Monitor)
  /\ WF_secureInputVars(Receive)
  /\ WF_secureInputVars(Answer)
  /\ WF_secureInputVars(AutofixReturns)
  /\ WF_secureInputVars(Autofix)

----------------------------------------------------------------------------
(* Properties.                                                              *)

(* What the engine shows settles on the truth: once nobody holds Secure     *)
(* Input any more it is shown as off for good, and once one application     *)
(* keeps it, it is shown as on for good, unless the application could not   *)
(* be named when it was first seen.                                         *)
SecureInputSettles ==
  /\ (<>[](holder = NoProcess)) => (<>[]~shown)
  /\ \A p \in Processes :
       (<>[](holder = p /\ ~(unnamed /\ lastPid = p))) => (<>[]shown)
=============================================================================
