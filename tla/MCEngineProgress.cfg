SPECIFICATION FairSpec
CONSTANTS
    Matches = {1, 2, 3}
    Chars = {"w"}
    Digits = {}
    ToggleKey = "NoKey"
    Effect <- ProgressEffect
    MStates <- WordStates
    MatcherStep <- WordStep
    ModifierExpires = TRUE
    MaxHistory = 1
    PendingCap = 0
    ConfigEnabled = {TRUE}
    AltCodes = FALSE
    Typed <- TypedProgress
    MouseButtons = {}
    HotKeys = {2}
    Sources <- ProgressSources
    Requests <- ProgressRequests
    MaxId = 2
    ChanCap = 1
PROPERTIES
    ProcessingEnds
    ExitObeyed
CHECK_DEADLOCK FALSE
