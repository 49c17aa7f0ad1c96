CONSTANTS
  Devices = {d1}
  Conns = {c1, c2}
  Udp = Udp
  Off = Off
  MaxMiss = 2
  MaxDisturbances = 3
SPECIFICATION FairSpec
INVARIANTS ShownHasSession TalkingKeepsSession
PROPERTIES SilentShownOffline TalkingShownOnline
