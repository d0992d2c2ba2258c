SPECIFICATION FairSpec
CONSTANTS
  NodeOf <- TwoDomains
  NumThreads = 3
  Affinity = NoAffinity
  NoAffinity = NoAffinity
  Elems = {e1, e2}
  MaxKernels = 2
  NoList = NoList
  NoJob = NoJob
INVARIANTS ListsAgree KernelsReachAll ExtraDataPaired CountIsExact DestroyedAll
           PumallocReturns
PROPERTY OwnerReturns
