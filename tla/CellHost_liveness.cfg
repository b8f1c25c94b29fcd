SPECIFICATION FairSpec
CONSTANTS
  Authority <- OneAuthority
  Intent <- MCIntent
  Envelope <- MCEnvelope
  LegacyRows <- MCLegacy
  MaxClock = 2
  Thread = {t1, t2}
  Blob <- MCBlob
  Before <- MCBefore
  After <- MCAfter
  RevocationAttempts = 2
  MaxCrashes = 1
  MaxForeignWrites = 1
  None = None
PROPERTIES
  RequestsAnswered
  TokenSettled
CHECK_DEADLOCK FALSE
