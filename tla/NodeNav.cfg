SPECIFICATION Spec
CONSTANTS
  SymbolMetadata <- MCMetadata
  AliasSequences <- MCAliases
  FieldMaps <- MCFieldMaps
  Roots <- MCRoots
  MaxInlineBytes = 255
  MaxInlineRows = 16
  MaxInlineLookahead = 16
INVARIANTS ChildrenAgree  DescendantSmallest FieldsAgree
CHECK_DEADLOCK FALSE
