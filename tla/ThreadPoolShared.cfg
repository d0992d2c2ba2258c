SPECIFICATION Spec
CONSTANTS
  NumThreads = 3
  Affinity = {0, 2, 3, 7}
  NoAffinity = NoAffinity
  Callers = {c1, c2}
  Jobs = {j1, j2}
  NoJob = NoJob
  NoCaller = NoCaller
SYMMETRY JobSymmetry
INVARIANTS AllThreadsStarted PoolInv
PROPERTY ImplementsParallelExec
\* Two callers can block each other for good: see ThreadPoolSharedCalls.
CHECK_DEADLOCK FALSE
