SPECIFICATION MCSpec
CONSTANTS
    Systems = {"linux", "macos", "windows"}
    Builds = {"wizard", "native"}
    Places = {"applications", "translocated"}
    Translocated = {"translocated"}
    Procs = {p1, p2}
    Commands = {"launcher", "register", "unregister", "start", "link", "unlink"}
    MaxCommands = 3
    MaxMishaps = 2
SYMMETRY Interchangeable
INVARIANTS
    SameDirectories
    RegistrationHolds
CHECK_DEADLOCK FALSE
