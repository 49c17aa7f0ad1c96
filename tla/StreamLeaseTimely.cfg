CONSTANTS
  Workers = {w1, w2}
  Streams = {s1, s2}
  Nobody = Nobody
  Stranger = Stranger
  TTL = 7
  Period = 1
  MaxProbe = 1
  IdKinds = {"fixed", "perStart", "perCall"}
  MaxFaults = 1
  MaxCrashes = 1
SPECIFICATION Spec
SYMMETRY LeaseSymmetry
INVARIANTS OneWorker TakenOver
