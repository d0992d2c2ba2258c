----------------------------- MODULE ElementSet -----------------------------
(***************************************************************************)
(* What a pumaSet promises its user, with no thread list, chunk or bitmap   *)
(* in sight: a set of elements that pumalloc() extends, that pufree()       *)
(* shrinks, and over which runKernel() applies a kernel.  A kernel that at  *)
(* most frees the element it is given gets every element exactly once; for  *)
(* any other kernel there is no such promise.  Compaction, reuse of chunks  *)
(* and load balancing are invisible here: PumaThreadList is shown to        *)
(* implement this module.                                                   *)
(***************************************************************************)
CONSTANT Elems   \* identities of elements

VARIABLES
  live,      \* the elements of the set
  running,   \* is a runKernel() call in progress?
  exact,     \* is its kernel one that gets every element?
  pending    \* elements the running kernel has not been applied to yet

vars == <<live, running, exact, pending>>

TypeOK ==
  /\ live \subseteq Elems
  /\ running \in BOOLEAN
  /\ exact \in BOOLEAN
  /\ pending \subseteq live

Init ==
  /\ live = {}
  /\ running = FALSE
  /\ exact = TRUE
  /\ pending = {}

(* An element allocated while a kernel runs is not owed a visit. *)
Alloc(e) ==
  /\ e \notin live
  /\ live' = live \cup {e}
  /\ UNCHANGED <<running, exact, pending>>

Free(e) ==
  /\ ~running
  /\ e \in live
  /\ live' = live \ {e}
  /\ UNCHANGED <<running, exact, pending>>

Start ==
  /\ ~running
  /\ running' = TRUE
  /\ exact' \in BOOLEAN
  /\ pending' = live
  /\ UNCHANGED live

(* One application of the kernel, which may free its element. *)
Visit(e) ==
  /\ running
  /\ e \in pending
  /\ pending' = pending \ {e}
  /\ live' \in {live, live \ {e}}
  /\ UNCHANGED <<running, exact>>

(* An application of any other kernel: it frees or allocates an element,    *)
(* and may be given one that was allocated since it began.                  *)
VisitAny(e) ==
  /\ running /\ ~exact
  /\ pending' \in SUBSET pending
  /\ live' \in {live \ {e}, live \cup {e}}
  /\ UNCHANGED <<running, exact>>

Finish ==
  /\ running
  /\ exact => pending = {}
  /\ running' = FALSE
  /\ exact' = TRUE
  /\ pending' = {}
  /\ UNCHANGED live

(* destroyPumaSet(): everything goes. *)
Destroy ==
  /\ ~running
  /\ live' = {}
  /\ UNCHANGED <<running, exact, pending>>

Next ==
  \/ \E e \in Elems : Alloc(e) \/ Free(e) \/ Visit(e) \/ VisitAny(e)
  \/ Start
  \/ Finish
  \/ Destroy

Spec == Init /\ [][Next]_vars
=============================================================================
