SPECIFICATION Spec
CONSTANTS
  NodeOf <- TwoDomains
  NumThreads = 2
  Affinity = {1, 2, 3}
  NoAffinity = NoAffinity
  Elems = {e1, e2}
  MaxKernels = 2
  NoList = NoList
  NoJob = NoJob
INVARIANT PumallocReturns
