SPECIFICATION Spec
CONSTANTS
    Names = {p}
    MaxVersion = 2
    Branches = {"main"}
    GitHosts = {"github"}
    Installs <- SomeInstalls
    MaxCommands = 2
    MaxMishaps = 1
INVARIANTS
    ErrorsRestore
CHECK_DEADLOCK FALSE
