CONSTANTS
  Streams = {cam, gb}
  Gb = {gb}
  Threads = {t1, t2}
  MaxReadFailures = 2
  MaxDisturbances = 1
  LeaseEnabled = TRUE
  NoStream = NoStream
SPECIFICATION Spec
SYMMETRY ThreadSymmetry
INVARIANTS TypeOK SlotBacked WatchdogSeesSlots
PROPERTIES SupersededIsHarmless
