SPECIFICATION Spec
CONSTANTS
  p1 = p1
  p2 = p2
  n1 = n1
  n2 = n2
  n3 = n3
  None = None
  Stale = Stale
  Procs <- MCProcs
  Names <- MCNames
  Size <- MCSize
  MaxArtifacts <- SameMax
  MaxBytes <- SameTotal
  MaxTotalBytes <- SameTotal
  Ttl = 2
  OperatorErrs = TRUE
  MaxClock = 3
  MaxFaults = 2
  MaxCrashes = 1
  MaxTampers = 1
SYMMETRY MCSymmetry
CONSTRAINT Scope
CHECK_DEADLOCK FALSE
INVARIANTS
  AcknowledgedSurvives
  QuotaHolds
  SingleOwner
  FailedWriteLeavesNothing
  NoOrphanFiles
PROPERTY OnlyOwnerReleases
