SPECIFICATION FairSpec
CONSTANTS
  NumWorkers = 2
  QueueSize = 1
  Fds = {f1, f2}
  MaxRecvIter = 1
  Faults = {"workerdb"}
PROPERTY NoWorkForReturned
