SPECIFICATION Spec
CONSTANTS
  NumWorkers = 2
  QueueSize = 2
  Fds = {f1, f2}
  MaxRecvIter = 0
  Faults = {}
SYMMETRY FdSymmetry
INVARIANTS
  TypeOK SoleOwner HeldIsOpen Handover NoLeak BufferBounded
