SPECIFICATION Spec
CONSTANTS
  Procs = {w1, w2}
  Serials <- SerialsUpTo3
  MaxStreams = 3
  MaxOps = 3
  MaxBegun = 3
  ann = ann
  bob = bob
  p1 = p1
  p2 = p2
  Ids = {ann, bob}
  Plates = {p1, p2}
  Keys <- KeyNames
  KeyOf <- OwnKeys
  Legacy = {}
  Requests = {r1, r2}
  MaxFaults = 1
  None = None
SYMMETRY AnyOrder
INVARIANTS  MemoryMatchesRedis 
 
CHECK_DEADLOCK FALSE
