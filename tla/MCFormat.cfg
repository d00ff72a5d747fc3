SPECIFICATION Spec
CONSTANTS
    Sources <- MCSources
    Idents <- MCIdents
    Ints <- MCInts
    Strings = {}
    MaxParseDepth = 7
INVARIANTS
    RoundTrip
    CommentsKept
    Idempotent
    ParsedWhole
CHECK_DEADLOCK FALSE
