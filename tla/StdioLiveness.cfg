CONSTANTS
    None = None
    NotAString = NotAString
    LegacyVersions <- MCLegacy
    ModernVersions <- MCModern
    UnknownVersions <- MCUnknown
    StdioVersions <- MCStdio
    Inputs <- CoreInputs
    MaxLines = 3
    a = a
    b = b
    c = c
    d = d
    Ids = {a}
    InexactIds = {}
SPECIFICATION FairSpec
PROPERTY EveryLineSettles
PROPERTY DrainTerminates
