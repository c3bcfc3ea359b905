SPECIFICATION ClientSpec
CONSTANTS
  None = None
  NotAString = NotAString
  LegacyVersions <- MCLegacy
  ModernVersions <- MCModern
  UnknownVersions <- MCUnknown
  Messages <- MCMessages
  Transports <- MCTransports
  MaxRetries = 3
CHECK_DEADLOCK FALSE
INVARIANTS
  RetriesConverge
