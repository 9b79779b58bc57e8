SPECIFICATION Spec
CONSTANTS
    Alpha <- MCAlpha
    Digit <- MCDigit
    Other <- MCOther
    Sources <- MCDeclared
INVARIANT DeclarationsAreAllowed
