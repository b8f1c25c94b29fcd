SPECIFICATION Spec
CONSTANTS
  Authority <- OneAuthority
  Intent <- MCIntent
  Envelope <- MCEnvelope
  LegacyRows = {}
  MaxClock = 2
  Thread = {t1, t2}
  Blob <- MCBlob
  Before <- MCBefore
  After <- MCAfter
  RevocationAttempts = 2
  MaxCrashes = 1
  MaxForeignWrites = 1
  None = None
INVARIANT AppliedNeverReportedFailed
CHECK_DEADLOCK FALSE
