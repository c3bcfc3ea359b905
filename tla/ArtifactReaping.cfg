SPECIFICATION ReaperSpec
CONSTANTS
  p1 = p1
  n1 = n1
  n2 = n2
  r1 = r1
  r2 = r2
  None = None
  Stale = Stale
  Procs <- MCProcs
  Names <- MCNames
  Size <- MCSize
  MaxArtifacts <- MCMax
  MaxBytes <- MCMax
  MaxTotalBytes <- MCMax
  Ttl = 2
  OperatorErrs = FALSE
  Reapers <- TwoReapers
  MaxClock = 3
  MaxFaults = 1
  MaxCrashes = 2
  MaxTampers = 1
SYMMETRY MCSymmetry
INVARIANTS
  AcknowledgedSurvives
PROPERTIES
  LiveOwnerUntouched
  CleanNamespaceRemoved
CHECK_DEADLOCK FALSE
