SPECIFICATION Spec
CONSTANTS
    Doc <- MCDoc
    Width <- MCWidth
    Newline = "newline"
    BOM = "mark"
    Bad = "bad"
    Nul = "nul"
    ChunkSize = 4
    RangeLists <- MCRangeLists
INVARIANTS TypeOK InRange PlacesRight ColumnRight TokenTight
PROPERTIES ReadsIncludedText
CHECK_DEADLOCK FALSE
