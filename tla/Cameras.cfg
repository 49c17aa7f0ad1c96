SPECIFICATION Spec
CONSTANTS
  Requests = {r1, r2}
  Cameras = {c1}
  Sockets <- ThreeSockets
  MaxStarts = 2
  MaxDrops = 1
  MaxCommands = 2
  MaxTargets = 2
  MaxCalls = 2
  Faults = {"unregister", "silence", "zlm", "reinvite", "crash"}
  MaxFaults = 1
  FrameCounts <- OneAndThree
  MinFrames = 3
  Duration = 4
  Interval = 2
  HitTenths = 4
  GatherMin = 3
  MinDuration = 2
  SaveInterval = 3
  RefreshEvery = 2
  PullGap = 3
  WindowFrames = 2
  Scenes <- SomeScenes
  Rows <- SomeRows
  Delays <- OneOrThreeTicks
  MaxTime = 6
  MaxEdits = 1
  MaxCuts = 1
INVARIANTS NothingOrphaned NoSilentSend AlertsAreEarned SightingsLasted
CHECK_DEADLOCK FALSE
