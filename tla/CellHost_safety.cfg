SPECIFICATION Spec
CONSTANTS
  Authority <- MCAuthority
  Intent <- MCIntent
  Envelope <- MCEnvelope
  LegacyRows = {}
  MaxClock = 2
  Thread = {t1, t2}
  Blob <- MCBlob
  Before <- MCBefore
  After <- MCAfter
  RevocationAttempts = 1
  MaxCrashes = 1
  MaxForeignWrites = 0
  None = None
INVARIANTS
  FenceInv
  PromiseInv
  OneTimeAuthority
  OneLiveEffectPerGrant
  CredentialAfterCell
  ReportsAreTrue
  NoSilentToken
PROPERTIES
  ImplementsConsequence
CHECK_DEADLOCK FALSE
SYMMETRY ThreadSymmetry
