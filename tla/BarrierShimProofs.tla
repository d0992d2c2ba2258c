------------------------- MODULE BarrierShimProofs -------------------------
(***************************************************************************)
(* The barrier for Apple systems is a barrier, for every number of threads  *)
(* and every count: ShimInv is inductive, and under it each step is an      *)
(* arrival, an opening, a return, or invisible.                             *)
(***************************************************************************)
EXTENDS BarrierShim, FiniteSetTheorems, TLAPS

(* A set of threads is finite and has a size. *)
LEMMA AtFinite ==
  ASSUME NEW L
  PROVE  IsFiniteSet(At(L)) /\ Cardinality(At(L)) \in Nat
<1>1. IsFiniteSet(At(L))
  BY ShimAssumption, FS_Subset DEF At
<1>. QED  BY <1>1, FS_CardinalityType

(* One thread more is one more. *)
LEMMA AddOne ==
  ASSUME NEW S, IsFiniteSet(S), NEW t, t \notin S
  PROVE  Cardinality(S \cup {t}) = Cardinality(S) + 1
BY FS_AddElement

(* At the start nobody is in the barrier. *)
LEMMA InitInv == Init => ShimInv
<1>. SUFFICES ASSUME Init PROVE ShimInv
  OBVIOUS
<1>1. At({"waiting", "wait", "trip"}) = {}
  BY DEF Init, At
<1>2. count = Cardinality(At({"waiting", "wait", "trip"}))
  BY <1>1, FS_EmptySet DEF Init
<1>. QED  BY <1>2, ShimAssumption DEF Init, ShimInv, TypeOK, Pcs

(* Steps that move a thread without counting, waiting or waking. *)
LEMMA QuietStep ==
  ASSUME ShimInv, NEW t \in Threads,
         \/ PthreadBarrierWait(t) \/ Lock(t) \/ CondWait(t)
         \/ Relock(t) \/ Unlock(t)
  PROVE  ShimInv'
<1>. USE DEF ShimInv, TypeOK, Pcs, PthreadBarrierWait, Lock, CondWait, Relock, Unlock
<1>1. TypeOK'
  OBVIOUS
<1>2. At({"waiting", "wait", "trip"})' = At({"waiting", "wait", "trip"})
  BY DEF At
<1>3. (\A u \in Threads :
         mutex = u <=> pc[u] \in {"count", "wait", "trip", "unlock"})'
  BY ShimAssumption
<1>4. \A u \in Threads : pc'[u] = "trip" <=> pc[u] = "trip"
  OBVIOUS
<1>. QED  BY <1>1, <1>2, <1>3, <1>4

(* Only the owner of the mutex can be about to open the barrier. *)
LEMMA CountStep ==
  ASSUME ShimInv, NEW t \in Threads, Count(t)
  PROVE  ShimInv'
<1>. USE DEF ShimInv, TypeOK, Pcs, Count
<1>1. TypeOK'
  OBVIOUS
<1>2. At({"waiting", "wait", "trip"})' = At({"waiting", "wait", "trip"}) \cup {t}
  BY DEF At
<1>3. t \notin At({"waiting", "wait", "trip"})
  BY DEF At
<1>4. count' = Cardinality(At({"waiting", "wait", "trip"})')
  BY <1>2, <1>3, AtFinite, AddOne
<1>5. \A u \in Threads : pc[u] # "trip"
  BY ShimAssumption
<1>6. count < TripCount
  BY <1>5
<1>7. pc'[t] = "trip" <=> count + 1 = TripCount
  BY <1>6, ShimAssumption
<1>8. (\A u \in Threads :
         mutex = u <=> pc[u] \in {"count", "wait", "trip", "unlock"})'
  OBVIOUS
<1>9. (\A u \in Threads : pc[u] = "trip" => count = TripCount)'
  BY <1>5, <1>7
<1>10. (count < TripCount \/ \E u \in Threads : pc[u] = "trip")'
  BY <1>6, <1>7, ShimAssumption
<1>. QED  BY <1>1, <1>4, <1>8, <1>9, <1>10

(* Opening empties the round. *)
LEMMA TripStep ==
  ASSUME ShimInv, NEW t \in Threads, Trip(t)
  PROVE  ShimInv'
<1>. USE DEF ShimInv, TypeOK, Pcs, Trip
<1>1. TypeOK'
  OBVIOUS
<1>2. \A u \in Threads : u # t => pc[u] \notin {"count", "wait", "trip", "unlock"}
  OBVIOUS
<1>3. At({"waiting", "wait", "trip"})' = {}
  BY <1>2 DEF At
<1>4. count' = Cardinality(At({"waiting", "wait", "trip"})')
  BY <1>3, FS_EmptySet
<1>. QED  BY <1>1, <1>2, <1>4, ShimAssumption

(* Mutual exclusion, and count is the number of threads of the current      *)
(* round, in every state of the barrier's code.                             *)
THEOREM ShimInvariant == Spec => []ShimInv
<1>1. ShimInv /\ [Next]_vars => ShimInv'
  <2>. SUFFICES ASSUME ShimInv, [Next]_vars PROVE ShimInv'
    OBVIOUS
  <2>1. CASE UNCHANGED vars
    BY <2>1 DEF vars, ShimInv, TypeOK, At
  <2>2. CASE Next
    BY <2>2, QuietStep, CountStep, TripStep DEF Next, Step
  <2>. QED  BY <2>1, <2>2
<1>. QED  BY <1>1, InitInv, PTL DEF Spec

-----------------------------------------------------------------------------
(* What the barrier holds is what the condition variable holds. *)
blockedBar == At({"waiting"})
leavingBar == At({"relock", "unlock"})
Stutter == blockedBar' = blockedBar /\ leavingBar' = leavingBar

(* Barrier's cardinality is the usual one. *)
LEMMA SameCardinality == \A S : Abstract!Cardinality(S) = Cardinality(S)
BY Zenon DEF Cardinality, Abstract!Cardinality

(* Steps that the barrier's users do not see. *)
LEMMA SilentStep ==
  ASSUME ShimInv, NEW t \in Threads,
         PthreadBarrierWait(t) \/ Lock(t) \/ Count(t) \/ Relock(t)
  PROVE  Stutter
BY DEF ShimInv, TypeOK, Pcs, PthreadBarrierWait, Lock, Count, Relock, At, Stutter,
       blockedBar, leavingBar

(* pthread_cond_wait is an arrival at a closed barrier. *)
LEMMA CondWaitBlocks ==
  ASSUME ShimInv, NEW t \in Threads, CondWait(t)
  PROVE  Abstract!Block(t)
<1>. USE DEF ShimInv, TypeOK, Pcs, CondWait
<1>1. \A u \in Threads : u # t => pc[u] \notin {"count", "wait", "trip", "unlock"}
  OBVIOUS
<1>2. At({"waiting", "wait", "trip"}) = At({"waiting"}) \cup {t}
  BY <1>1 DEF At
<1>3. count = Cardinality(At({"waiting"})) + 1
  BY <1>2, AtFinite, AddOne DEF At
<1>4. count < TripCount
  BY <1>1
<1>5. t \notin At({"waiting"}) \cup At({"relock", "unlock"})
  BY DEF At
<1>6. At({"waiting"})' = At({"waiting"}) \cup {t}
  BY DEF At
<1>7. At({"relock", "unlock"})' = At({"relock", "unlock"})
  BY DEF At
<1>. QED  BY <1>3, <1>4, <1>5, <1>6, <1>7, SameCardinality DEF Abstract!Block

(* The broadcast is the arrival that opens it. *)
LEMMA TripOpens ==
  ASSUME ShimInv, NEW t \in Threads, Trip(t)
  PROVE  Abstract!Open(t)
<1>. USE DEF ShimInv, TypeOK, Pcs, Trip
<1>1. \A u \in Threads : u # t => pc[u] \notin {"count", "wait", "trip", "unlock"}
  OBVIOUS
<1>2. At({"waiting", "wait", "trip"}) = At({"waiting"}) \cup {t}
  BY <1>1 DEF At
<1>3. TripCount = Cardinality(At({"waiting"})) + 1
  BY <1>2, AtFinite, AddOne DEF At
<1>4. t \notin At({"waiting"}) \cup At({"relock", "unlock"})
  BY DEF At
<1>5. At({"waiting"})' = {}
  BY DEF At
<1>6. At({"relock", "unlock"})' = At({"relock", "unlock"}) \cup At({"waiting"}) \cup {t}
  BY <1>1 DEF At
<1>. QED  BY <1>3, <1>4, <1>5, <1>6, SameCardinality DEF Abstract!Open

(* The unlock is the return. *)
LEMMA UnlockReturns ==
  ASSUME ShimInv, NEW t \in Threads, Unlock(t)
  PROVE  Abstract!Return(t)
BY DEF ShimInv, TypeOK, Pcs, Unlock, At, Abstract!Return

(* pthread_barrier_wait() as pthreadbarrier.h writes it is a barrier: nobody *)
(* leaves before TripCount threads have arrived, the last arrival frees     *)
(* them all, and threads that come round again start a round of their own.  *)
THEOREM ShimImplementsBarrier == Spec => ImplementsBarrier
<1>1. Init => Abstract!Init
  BY DEF Init, At, Abstract!Init
<1>2. ShimInv /\ [Next]_vars => [Abstract!Next]_(Abstract!vars)
  <2>. SUFFICES ASSUME ShimInv, [Next]_vars PROVE Abstract!Next \/ Stutter
    BY DEF Stutter, blockedBar, leavingBar, Abstract!vars
  <2>1. CASE UNCHANGED vars
    BY <2>1 DEF vars, Stutter, blockedBar, leavingBar, At
  <2>2. ASSUME NEW t \in Threads, PthreadBarrierWait(t) \/ Step(t)
        PROVE  Abstract!Next \/ Stutter
    BY <2>2, SilentStep, CondWaitBlocks, TripOpens, UnlockReturns
       DEF Step, Abstract!Next
  <2>. QED  BY <2>1, <2>2 DEF Next
<1>. QED
  BY <1>1, <1>2, ShimInvariant, PTL DEF Spec, ImplementsBarrier, Abstract!Spec
=============================================================================
