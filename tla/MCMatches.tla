------------------------------ MODULE MCMatches ------------------------------
(***************************************************************************)
(* The instances of Configuration and Matching for TLC, where the matches  *)
(* come from and where they are detected.  The two share no state, so a    *)
(* behaviour runs one of them and the other stays as it starts.            *)
(***************************************************************************)
EXTENDS MCConfiguration, MCMatching

VARIABLE part

MatchesInit ==
  /\ part \in {"configuration", "matching"}
  /\ ConfigurationInit
  /\ part = "matching" => disk = EmptyDisk
  /\ Init
MatchesNext ==
  /\ UNCHANGED part
  /\ \/ part = "configuration" /\ ConfigurationNext /\ UNCHANGED vars
     \/ part = "matching" /\ Next /\ UNCHANGED configurationVars
OfConfiguration(A) == part = "configuration" /\ A
MatchesFairness ==
  /\ WF_configurationVars(OfConfiguration(Launcher))
  /\ WF_configurationVars(OfConfiguration(Daemon))
  /\ WF_configurationVars(OfConfiguration(Watch))
  /\ WF_configurationVars(OfConfiguration(Debounce))
MatchesSpec == MatchesInit /\ [][MatchesNext]_<<part, vars, configurationVars>> /\ MatchesFairness
=============================================================================
