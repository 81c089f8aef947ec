SPECIFICATION Spec
CONSTANTS
    State <- MCState
    StartState = "start"
    ErrorState = "error"
    Subtree <- MCSubtree
    NoTree = "nil"
    Facts <- MCFacts
    Moves <- MergeMoves
    Rank <- MCRank
    Token = {"none"}
    NoToken = "none"
    Ops = {"push", "copy", "merge", "summary"}
    MaxIterators = 1
    MaxNodes = 6
    MaxVersions = 2
    MaxPop = 0
    MaxDepth = 2
INVARIANTS TypeOK LinkSums 
PROPERTIES MergeKeepsStacks StacksOnlyGrow 
CHECK_DEADLOCK FALSE
