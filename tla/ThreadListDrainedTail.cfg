SPECIFICATION Spec
CONSTANTS
  Lists = {l1}
  Nodes = {n1, n2}
  Elems = {e1, e2, e3, e4}
  Capacity = 2
  Kernels <- KeepKernels
  AllowDrainedTail = TRUE
  NULL = NULL
SYMMETRY ElemSymmetry
INVARIANT KernelCoverage
