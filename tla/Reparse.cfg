SPECIFICATION Spec
CONSTANTS
  SymbolMetadata <- MCMetadata
  AliasSequences <- MCMetadata
  MaxInlineBytes = 255
  MaxInlineRows = 16
  MaxInlineLookahead = 16
  MaxByte = 31
  LengthMax = 31
  Texts <- Texts6
  RangeLists <- MCRangeLists
  Edits <- MCEdits
  Table <- MCTable
  Reusable <- MCReusable
  LexModes <- MCLexModes
  Spellings <- MCSpellings
  Scanner <- MCScanner
  MaxEdits = 1
INVARIANTS DiffExact SameTree
CHECK_DEADLOCK FALSE
