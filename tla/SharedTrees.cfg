SPECIFICATION Spec
CONSTANTS
  SymbolMetadata <- MCMetadata
  AliasSequences <- MCMetadata
  Documents <- MCDocuments
  Inserts <- MCInserts
  MaxTrees = 2
  MaxEdits = 2
  MaxByte = 15
  MaxInlineBytes = 3
  MaxInlineRows = 2
  MaxInlineLookahead = 2
INVARIANTS RefsExact FollowsText MarksExact PositionsAgree
PROPERTY OthersUntouched
CHECK_DEADLOCK FALSE
