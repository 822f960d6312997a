SPECIFICATION Spec
CONSTANTS
    Names = {p, q}
    MaxVersion = 2
    Branches = {"main"}
    GitHosts = {"github"}
    Installs <- SomeInstalls
    MaxCommands = 2
    MaxMishaps = 2
SYMMETRY Interchangeable
INVARIANTS
    NothingLost
    FailedSaveRestores
    NoDowngrade
CHECK_DEADLOCK FALSE
