SPECIFICATION Spec
CONSTANTS
    State <- MCState
    StartState = "start"
    ErrorState = "error"
    Shifts <- MCShifts
    Reduces <- MCReduces
    Goals = {"goal"}
    End = 2
    MaxVersionCount = 2
    MaxVersionCountOverflow = 0
    PerRecovery = 2
    PerMissingTree = 1
    PerSkippedTree = 1
    MaxCostDifference = 2
    Unlimited = 1000
    MaxCount = 2
    MaxPrec = 1
    MaxDepth = 2
INVARIANTS InStep BestKept BestFirst 
PROPERTIES  ResumesTheBest Terminates
CHECK_DEADLOCK FALSE
