SPECIFICATION Spec
CONSTANTS
  t1 = t1
  t2 = t2
  Threads <- MCThreads
  Fds <- MCFds
  CAPACITY = 2
  CreateMayFail = TRUE
  MaxCalls = 4
  MaxCloses = 1
SYMMETRY Symmetry
INVARIANTS TypeOK Exact NeverFills NoLeak
