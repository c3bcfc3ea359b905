CONSTANTS
    blank = blank
    standard = standard
    half = half
    plain = plain
    sketchy = sketchy
    None = None
    Broken = Broken
    Sources <- MCSources
    Empty = blank
    DefaultSource = standard
    Verified <- MCVerified
    Options <- MCOptions
    Links <- MCLinks
    MaxVersion = 3
    MaxToken = 2
    MaxExports = 1
SPECIFICATION FairSpec
INVARIANT TypeOK
INVARIANT ArtifactIsCurrent
INVARIANT DeliveredIsCurrent
INVARIANT ClearedStaysBlank
PROPERTY LinkIsCurrent
PROPERTY EditorCatchesUp
