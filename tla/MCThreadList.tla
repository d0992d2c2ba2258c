---------------------------- MODULE MCThreadList ----------------------------
(* PumaThreadList on small sets of lists, chunks and elements. *)
EXTENDS PumaThreadList, TLC

ElemSymmetry == Permutations(Elems)

(* One kernel that must get every element, and four that need not. *)
FreeingKernel == {"keep", "freeSelf"}
PruningKernel == {"keep", "freeSelf", "freeOther"}
GrowingKernel == {"keep", "alloc"}
ChurningKernel == {"keep", "freeSelf", "alloc"}
AnyKernel == KernelOpKinds

WalkKernels == {FreeingKernel, GrowingKernel, PruningKernel, AnyKernel}
ListKernels == {FreeingKernel, ChurningKernel}
KeepKernels == {{"keep"}}
=============================================================================
