SPECIFICATION Spec
CONSTANTS
    State <- MCState
    StartState = "start"
    ErrorState = "error"
    Subtree <- MCSubtree
    NoTree = "nil"
    Facts <- MCFacts
    Moves <- LoopMoves
    Rank <- MCRank
    Token = {"none", "t"}
    NoToken = "none"
    Ops = {"push", "copy", "remove", "merge", "renumber", "swap", "halt", "pause", "resume", "token", "since", "clear", "popCount", "popPending"}
    MaxIterators = 2
    MaxNodes = 4
    MaxVersions = 2
    MaxPop = 1
    MaxDepth = 2
INVARIANTS RefsExact
CHECK_DEADLOCK FALSE
