SPECIFICATION Spec
CONSTANTS
  N = 3
  MaxJobs = 2
  Shuffle <- Rotated
  MinLabeled = 3
  MinTrain = 1
  MinVal = 1
  MinTest = 1
  CalibMin = 3
  MaxEdits = 2
  None = None
  Callers = {c1, c2}
  MaxLoops = 2
  MaxCalls = 4
INVARIANTS SplitMeetsGate  AdviceIsHonest LoopsAreOwned 
PROPERTIES  JobsEnd
CHECK_DEADLOCK FALSE
