SPECIFICATION FairSpec
CONSTANTS
    Daemons = {d1, d2}
    Workers = {w1, w2, w3}
    Scenarios <- SearchScenario
    MaxPolls = 1
PROPERTIES
    ChangeRestartsWorker
CHECK_DEADLOCK FALSE
