SPECIFICATION Spec
CONSTANTS
    Doc <- MCDoc
    Width <- MCWidth
    Newline = "newline"
    BOM = "mark"
    Bad = "bad"
    Nul = "nul"
    ChunkSize = 4
    RangeLists <- RowLists
INVARIANTS ReportsColumn
CHECK_DEADLOCK FALSE
