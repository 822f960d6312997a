SPECIFICATION MCSpec
CONSTANTS
    Platforms <- MCPlatforms
    Devices <- MCDevices
    SoftDevices = {2}
    Keys <- MCKeys
    ModifierKeys <- MCModifierKeys
    Modifiers <- MCModifiers
    ModifierNamed <- MCModifierNamed
    Layout <- MCLayout
    HotKeys <- MCHotKeys
    UserKeys <- MCUserKeys
    MaxPresses = 3
    MaxQueue = 2
    Requests <- MCRequests
    MaxCombination = 2
    Enter = "enter"
    MaxRequests = 2
INVARIANTS
    InjectedAsRequested
    NothingLeftPressed
    ClipboardRestored
PROPERTIES
    KeysAsTyped
CHECK_DEADLOCK FALSE
