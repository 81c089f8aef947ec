SPECIFICATION Spec
CONSTANTS
    State <- MCState
    StartState = "start"
    ErrorState = "error"
    Subtree <- MCSubtree
    NoTree = "nil"
    Facts <- MCFacts
    Moves <- PopMoves
    Rank <- MCRank
    Token = {"none"}
    NoToken = "none"
    Ops = {"push", "copy", "remove", "merge", "popCount", "popPending", "popError", "popAll", "summary"}
    MaxIterators = 3
    MaxNodes = 5
    MaxVersions = 2
    MaxPop = 2
    MaxDepth = 2
INVARIANTS WalkSound PopsExactly SummaryExact
CHECK_DEADLOCK FALSE
