SPECIFICATION Spec
CONSTANTS
    Root = "__match_body"
    Graphs <- MCGraphs
    MatchesById <- MCMatches
    Configs = {"all", "some"}
    MatchSets <- MCMatchSets
    Requests <- MCRequests
    Upper <- MCUpper
    WordChars = {"a", "b", "A", "B"}
    Alphabetic = {"a", "b", "A", "B"}
    Blank = {" "}
    Texts <- MCTexts
    FormFields = {"n"}
    Shells <- MCShells
    MaxDepth = 3
INVARIANTS
    DependenciesFirst
    PlanIsExact
    ResolvedNeverMissing
CHECK_DEADLOCK FALSE
