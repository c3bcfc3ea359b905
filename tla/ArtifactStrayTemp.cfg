SPECIFICATION ReaperSpec
CONSTANTS
  p1 = p1
  n1 = n1
  n2 = n2
  r1 = r1
  r2 = r2
  None = None
  Stale = Stale
  Procs <- MCProcs
  Names <- MCNames
  Size <- MCSize
  MaxArtifacts <- MCMax
  MaxBytes <- MCMax
  MaxTotalBytes <- MCMax
  Ttl = 2
  OperatorErrs = FALSE
  Reapers <- OneReaper
  MaxClock = 0
  MaxFaults = 0
  MaxCrashes = 1
  MaxTampers = 0
PROPERTY EmptyNamespaceRemoved
CHECK_DEADLOCK FALSE
