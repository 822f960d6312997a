SPECIFICATION Spec
CONSTANTS
    Matches = {1, 2}
    Chars = {"x"}
    Digits = {}
    ToggleKey = "NoKey"
    Effect <- ExpandEffect
    MStates <- OneState
    MatcherStep <- OneKeyStep
    ModifierExpires = FALSE
    MaxHistory = 2
    PendingCap = 1
    ConfigEnabled = {TRUE}
    AltCodes = FALSE
    Typed <- TypedExpand
    MouseButtons = {}
    HotKeys = {}
    Sources <- IpcOnly
    Requests <- IpcSearch
    MaxId = 4
    ChanCap = 1
INVARIANTS
    DiscardOrder
    CommandsNeverDiscarded
    LastSearchKeysDiscarded
    ExpansionFollowsCompensation
    UsageRecorded
CHECK_DEADLOCK FALSE
