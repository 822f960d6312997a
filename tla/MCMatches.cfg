SPECIFICATION MatchesSpec
CONSTANTS
    ConfigFiles <- MCConfigFiles
    MatchFiles <- MCMatchFiles
    Globs <- MCGlobs
    Standard = {"standard"}
    DefaultSeparators = {" ", ",", "."}
    Apps <- MCApps
    OS = "linux"
    Patches <- MCPatches
    BuiltinIds <- MCBuiltinIds
    Writes <- MCWrites
    Template <- MCTemplate
    InitialDisks <- MCDisks
    MaxEdits = 2
    Letters <- MCLetters
    KeyNames = {"Tab", "Other"}
    Rules <- MCRules
    UserMatches <- MCUserMatches
    Builtins <- MCBuiltins
    ItemRules <- MCItemRules
    Lower <- MCLower
    Bytes <- MCBytes
    Separators <- MCSeparators
    Inputs <- MCInputs
    MaxBuffer = 4
    MaxHistory = 2
    MaxTyped = 4
INVARIANTS
    NothingSilentlyMissing
    LoadedExactly
    QueryOnceImportsFirst
    ActiveAreDetectable
    TreeHoldsVisible
    RegexWindow
    HitsResolve
PROPERTIES
    ConfigConverges
    DetectsTriggers
CHECK_DEADLOCK FALSE
