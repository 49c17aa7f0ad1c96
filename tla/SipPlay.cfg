SPECIFICATION FairSpec
CONSTANTS
  MaxRequests = 2
  MaxDisturbances = 2
  Faults = {"register", "disconnect", "crash", "lose", "slow", "hangup", "port"}
INVARIANTS  UndisturbedInviteIsLive
PROPERTIES Executed
CHECK_DEADLOCK FALSE
