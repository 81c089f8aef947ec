CONSTANTS
    Base <- MCBase
    Magic <- MCMagic
    Format = 2
    MaxStackDepth = 4
    Error <- MCError
    ErrorRepeat <- MCErrorRepeat
    Grammars <- MCGrammars
    FileOf <- MCFileOf
    Texts <- MCTexts
    Hurtable <- Hurts
    Pokes = {0, 1, 15}
SPECIFICATION Spec
INVARIANTS BlobHonest LookupsExact LexesAsMeant
CHECK_DEADLOCK FALSE
