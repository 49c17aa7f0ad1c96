CONSTANTS
  Workers = {w1, w2}
  Streams = {s1}
  Nobody = Nobody
  Stranger = Stranger
  TTL = 3
  Period = 6
  MaxProbe = 1
  IdKinds = {"fixed"}
  MaxFaults = 0
  MaxCrashes = 0
SPECIFICATION Spec
INVARIANTS OneWorker
