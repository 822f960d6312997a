SPECIFICATION Spec
CONSTANTS
    Systems = {"mac", "win32", "x11", "evdev"}
    Shortcuts <- SomeShortcuts
    Keymap <- SomeKeymap
    UserHeld <- SomeHeld
    MaxShortcuts = 2
    MaxHeld = 3
    PadDigits = {0, 2, 5, 6}
    MaxDigits = 5
    MaxMissed = 1
    Processes = {"p", "q"}
    MaxChanges = 3
    MaxQuestions = 1
    Clients = {"a", "b", "c"}
    Events = {"request", "unknown"}
    Pipes = {"unix", "windows"}
    MaxWorkers = 2
    Triggers = {"x", "y"}
    Questions <- SomeQuestions
    MaxRecords = 2
    MaxStatsCommands = 2
    MaxFailures = 1
INVARIANTS
    
    Attributed
PROPERTIES
    AltCodesAsTyped
    SecureInputSettles
    CommandsArrive
    ListedAsCounted
CHECK_DEADLOCK FALSE
