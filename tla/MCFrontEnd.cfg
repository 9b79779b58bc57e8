SPECIFICATION FairSpec
CONSTANTS
    Alpha <- MCAlpha
    Digit <- MCDigit
    Other <- MCOther
    Sources <- MCSources
INVARIANTS
    TokensAreTheLexemes
    TreeIsWellFormed
    ErrorsAreExact
    FirstErrorIsFarthest
    AstHoldsTheProgram
PROPERTY EveryFileIsDone
