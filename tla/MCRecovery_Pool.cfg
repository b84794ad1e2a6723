SPECIFICATION XSpec
CONSTANTS
  Calls = {c1, c2}
  Emails = {e1, e2}
  BodyTids = {1}
  NoTid = NoTid
  Recoveries = {v1}
  EmptyText = EmptyText
  None = None
  Patched = Patched
CHECK_DEADLOCK FALSE
SYMMETRY Symm
INVARIANTS
  RecoveryTypeOK
  PoolCountsRegistrations
  RegisteredIsComplete
  RecoveryFailsOnlyIfShared
  
  EmailTwiceOnlyByOverlap
PROPERTY LaterTidIsLarger
