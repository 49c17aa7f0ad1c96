CONSTANTS
  Alerts = {a1, a2}
  Detectors = {d1, d2}
  Workers = {w1, w2}
  Pages = {u1}
  NoAlert = NoAlert
  MaxLen = 1
  MaxDead = 1
  MaxAttempts = 2
  KeepLocal = FALSE
  Faults = {"down", "upload", "save", "notify", "undelete", "crash"}
  MaxFaults = 3
  MaxDeletions = 2
SPECIFICATION FairSpec
INVARIANTS MediaKept OneRecordPerAttempt RecordShowsMedia 
PROPERTIES ImplementsLog EverySettles
CHECK_DEADLOCK FALSE
