SPECIFICATION Spec
CONSTANTS
  Lists = {l1, l2}
  Nodes = {n1, n2, n3}
  Elems = {e1, e2, e3}
  Capacity = 2
  Kernels <- ListKernels
  AllowDrainedTail = FALSE
  NULL = NULL
SYMMETRY ElemSymmetry
INVARIANTS
  TypeOK
  ListShape
  CountersAgree
  CleanMeansPacked
  StoredOnceWithinReach
  KernelCoverage
PROPERTIES
  CompactsTowardsHead
  ImplementsElementSet
