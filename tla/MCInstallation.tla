--------------------------- MODULE MCInstallation ---------------------------
(***************************************************************************)
(* Instances of Installation for TLC.  With a wizard two commands run on   *)
(* the three systems, with one mishap; a foreign command is in the PATH    *)
(* where no directories are.  Without a wizard there are three launchers   *)
(* of macOS, and the application may be moved away and back, one place     *)
(* being portable, which is how they may disagree on a directory.  A       *)
(* configuration given on the command line multiplies the states and is    *)
(* left to Linux and Windows: it is looked up the same way on macOS.       *)
(***************************************************************************)
EXTENDS Installation, TLC

Interchangeable == Permutations(Procs)

MCInit ==
    /\ Init
    /\ links # {} => dirs = {}
    /\ build = "native" => os = "macos" /\ dirs = {PortableConfig("applications")}
MCNext ==
    /\ Next
    /\ os = "macos" =>
         \A p \in Procs : procs'[p].option => procs'[p].cmd \in {"link", "unlink"}
    /\ IF build = "native" THEN \A p \in Procs : procs'[p].cmd \in {"none", "launcher", "daemon"}
       ELSE /\ commands' < MaxCommands /\ mishaps' < MaxMishaps
            /\ running # {} /\ running' = {} => commands + 1 < MaxCommands
MCSpec == MCInit /\ [][MCNext]_vars
=============================================================================
