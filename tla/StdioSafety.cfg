CONSTANTS
    None = None
    NotAString = NotAString
    LegacyVersions <- MCLegacy
    ModernVersions <- MCModern
    UnknownVersions <- MCUnknown
    StdioVersions <- MCStdio
    Inputs <- MCInputs
    MaxLines = 3
    a = a
    b = b
    c = c
    d = d
    Ids = {a, b, c, d}
    InexactIds = {c, d}
SPECIFICATION Spec
CONSTRAINT Scope
INVARIANT TypeOK
INVARIANT AnsweredAtMostOnce
INVARIANT EveryKeyedRequestIsAnswered
INVARIANT LaterLinesKeepTheEra
INVARIANT InFlightIsExact
PROPERTY NoAnswerAfterCancel
PROPERTY KeepsContract
