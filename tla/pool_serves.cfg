\* A worker_loop thread and one that submits and waits with a timeout, as the
\* unit tests do, on two pool threads; start to stop.
CONSTANTS
  Loops = {l1}
  Callers = {}
  Testers = {t1}
  Pool = {w1, w2}
  MaxTasks = 3
SPECIFICATION FairSpec
INVARIANTS
  TypeOK
  OnePlace
  CallGetsItsResult
  EntriesLastTheirTask
  NobodySleepsOnWork
PROPERTY EveryCallReturns
