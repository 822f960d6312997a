SPECIFICATION FairSpec
CONSTANTS
    Daemons = {d1, d2}
    Workers = {w1, w2, w3}
    Scenarios <- SomeScenarios
    MaxPolls = 1
INVARIANTS
    OneAtATime
    StopMeansStopped
    DaemonSurvives
PROPERTIES
    NoDanglingWorker
    ConfigApplied
CHECK_DEADLOCK FALSE
