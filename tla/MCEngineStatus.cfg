SPECIFICATION Spec
CONSTANTS
    Matches = {1}
    Chars = {"x"}
    Digits = {"x"}
    ToggleKey = "Alt"
    Effect <- StatusEffect
    MStates <- OneState
    MatcherStep <- OneKeyStep
    ModifierExpires = TRUE
    MaxHistory = 2
    PendingCap = 1
    ConfigEnabled = {TRUE, FALSE}
    AltCodes = TRUE
    Typed <- TypedStatus
    MouseButtons = {"Pressed"}
    HotKeys = {}
    Sources <- StatusSources
    Requests <- StatusRequests
    MaxId = 3
    ChanCap = 1
INVARIANTS
    StatusAgreement
CHECK_DEADLOCK FALSE
