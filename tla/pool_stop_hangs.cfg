\* start, then stop.
CONSTANTS
  Loops = {l1}
  Callers = {}
  Testers = {}
  Pool = {w1}
  MaxTasks = 1
SPECIFICATION FairSpec
PROPERTY StopReturns
