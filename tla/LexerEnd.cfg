SPECIFICATION Spec
CONSTANTS
    Doc <- MCDoc
    Width <- MCWidth
    Newline = "newline"
    BOM = "mark"
    Bad = "bad"
    Nul = "nul"
    ChunkSize = 4
    RangeLists <- CutLists
INVARIANTS NeverPanics
CHECK_DEADLOCK FALSE
