SPECIFICATION Spec
CONSTANTS
  None = None
  NotAString = NotAString
  Unreadable = Unreadable
  c1 = c1
  c2 = c2
  cbad = cbad
  h1 = h1
  h2 = h2
  h3 = h3
  LegacyVersions <- MCLegacy
  ModernVersions <- MCModern
  UnknownVersions <- MCUnknown
  HostedVersions <- MCHosted
  Calls <- MCCalls
  ErrCalls <- MCErr
  Deploys = {1, 2}
  MaxBatchItems = 2
  MaxExecuteItems = 1
  BatchingEnds = 20250618
  Requests <- ThreeRequests
  Bodies <- MCBodies
  CacheMayRot = TRUE
SYMMETRY MCSymmetry
CONSTRAINT Scope
CHECK_DEADLOCK FALSE
INVARIANTS
  RunsAreBounded
  CacheIsTransparent
