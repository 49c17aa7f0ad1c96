CONSTANTS
  Streams = {cam}
  Gb = {}
  Threads = {t1, t2}
  MaxReadFailures = 2
  MaxDisturbances = 1
  LeaseEnabled = FALSE
  NoStream = NoStream
SPECIFICATION FairSpec
PROPERTIES  StatusSettles IdleStops
