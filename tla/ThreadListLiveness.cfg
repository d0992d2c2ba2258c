SPECIFICATION FairSpec
CONSTANTS
  Lists = {l1}
  Nodes = {n1, n2, n3}
  Elems = {e1, e2, e3, e4}
  Capacity = 3
  Kernels <- WalkKernels
  AllowDrainedTail = FALSE
  NULL = NULL
INVARIANT KernelCoverage
PROPERTY KernelTerminates
