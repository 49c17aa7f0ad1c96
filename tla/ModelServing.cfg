SPECIFICATION Spec
CONSTANTS
  Procs = {web, worker}
  Web = web
  Analysts = {web, worker}
  Weights = {w1}
  MaxVersions = 2
  MaxRequests = 2
  MaxFaults = 1
  Absent = Absent
INVARIANTS RecordsAreTrue ActiveVersionIsKept
 
CHECK_DEADLOCK FALSE
