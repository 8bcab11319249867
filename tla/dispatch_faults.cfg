SPECIFICATION Spec
CONSTANTS
  NumWorkers = 2
  QueueSize = 1
  Fds = {f1, f2}
  MaxRecvIter = 1
  Faults = {"db", "spawn", "listen", "time", "workerdb", "realloc"}
SYMMETRY FdSymmetry
INVARIANTS
  IInv FreesAfterJoin CleanShutdown NoCrashInService
PROPERTY ImplementsOwnership
