---------------------------- MODULE BarrierShim ----------------------------
(***************************************************************************)
(* pthread_barrier_wait() for Apple systems, which have no barriers         *)
(* (pthreadbarrier.h): a counter under a mutex and a condition variable.    *)
(* External, modelled from their POSIX contracts: pthread_cond_wait gives   *)
(* up the mutex and starts to wait in one step and takes the mutex again    *)
(* before it returns; pthread_cond_broadcast wakes all that wait.  Spurious *)
(* wake-ups, which POSIX allows, are left out: the code has no loop around   *)
(* its wait, so that one of them lets a thread through a closed barrier.     *)
(***************************************************************************)
EXTENDS Naturals, FiniteSets

CONSTANTS
  Threads,
  TripCount,   \* the count given to pthread_barrier_init
  NoThread

ASSUME ShimAssumption ==
  /\ IsFiniteSet(Threads)
  /\ TripCount \in Nat \ {0}
  /\ NoThread \notin Threads

VARIABLES
  pc,      \* where each thread is in pthread_barrier_wait
  mutex,   \* the owner of barrier->mutex
  count    \* barrier->count

vars == <<pc, mutex, count>>

(* The threads blocked in pthread_cond_wait are those at "waiting". *)
Pcs == {"out", "lock", "count", "wait", "waiting", "relock", "trip", "unlock"}

TypeOK ==
  /\ pc \in [Threads -> Pcs]
  /\ mutex \in Threads \cup {NoThread}
  /\ count \in Nat

At(labels) == {t \in Threads : pc[t] \in labels}

(* pthread_barrier_init *)
Init ==
  /\ pc = [t \in Threads |-> "out"]
  /\ mutex = NoThread
  /\ count = 0

-----------------------------------------------------------------------------
PthreadBarrierWait(t) ==
  /\ pc[t] = "out"
  /\ pc' = [pc EXCEPT ![t] = "lock"]
  /\ UNCHANGED <<mutex, count>>

Lock(t) ==
  /\ pc[t] = "lock"
  /\ mutex = NoThread
  /\ mutex' = t
  /\ pc' = [pc EXCEPT ![t] = "count"]
  /\ UNCHANGED count

(* Mutant: the last arrival waits as well. *)
CountPast(t) ==
  /\ pc[t] = "count"
  /\ count' = count + 1
  /\ pc' = [pc EXCEPT ![t] = IF count' > TripCount THEN "trip" ELSE "wait"]
  /\ UNCHANGED mutex

Count(t) ==
  /\ pc[t] = "count"
  /\ count' = count + 1
  /\ pc' = [pc EXCEPT ![t] = IF count' >= TripCount THEN "trip" ELSE "wait"]
  /\ UNCHANGED mutex

(* Mutant: count is not reset. *)
TripAndKeep(t) ==
  /\ pc[t] = "trip"
  /\ count' = count
  /\ pc' = [u \in Threads |-> IF u = t THEN "unlock"
                              ELSE IF pc[u] = "waiting" THEN "relock"
                              ELSE pc[u]]
  /\ UNCHANGED mutex

(* count = 0 and pthread_cond_broadcast, both under the mutex. *)
Trip(t) ==
  /\ pc[t] = "trip"
  /\ count' = 0
  /\ pc' = [u \in Threads |-> IF u = t THEN "unlock"
                              ELSE IF pc[u] = "waiting" THEN "relock"
                              ELSE pc[u]]
  /\ UNCHANGED mutex

CondWait(t) ==
  /\ pc[t] = "wait"
  /\ mutex' = NoThread
  /\ pc' = [pc EXCEPT ![t] = "waiting"]
  /\ UNCHANGED count

(* The end of pthread_cond_wait of a thread that was woken. *)
Relock(t) ==
  /\ pc[t] = "relock"
  /\ mutex = NoThread
  /\ mutex' = t
  /\ pc' = [pc EXCEPT ![t] = "unlock"]
  /\ UNCHANGED count

Unlock(t) ==
  /\ pc[t] = "unlock"
  /\ mutex' = NoThread
  /\ pc' = [pc EXCEPT ![t] = "out"]
  /\ UNCHANGED count

Step(t) ==
  \/ Lock(t) \/ Count(t) \/ Trip(t) \/ CondWait(t) \/ Relock(t) \/ Unlock(t)

Next == \E t \in Threads : PthreadBarrierWait(t) \/ Step(t)

Spec == Init /\ [][Next]_vars

(* Every thread in the call runs when it can; nothing is assumed of the     *)
(* order in which the mutex is handed out.                                  *)
FairSpec == Spec /\ \A t \in Threads : WF_vars(Step(t))

-----------------------------------------------------------------------------
(* Properties *)

(* The mutex is held where the code holds it, and under it count is the     *)
(* number of threads blocked, plus the one that has just added itself: the  *)
(* threads of the last round that have not left yet do not count.           *)
ShimInv ==
  /\ TypeOK
  /\ \A t \in Threads :
       mutex = t <=> pc[t] \in {"count", "wait", "trip", "unlock"}
  /\ count = Cardinality(At({"waiting", "wait", "trip"}))
  /\ \A t \in Threads : pc[t] = "trip" => count = TripCount
  /\ count < TripCount \/ \E t \in Threads : pc[t] = "trip"

Abstract ==
  INSTANCE Barrier WITH blocked <- At({"waiting"}),
                        leaving <- At({"relock", "unlock"})

(* The shim is a barrier, also when threads come round again while others   *)
(* are still on their way out: nobody leaves before TripCount have arrived, *)
(* and nobody is held by a round that is complete.                          *)
ImplementsBarrier == Abstract!Spec

(* No wake-up is lost: if as many threads as the barrier is made for use it, *)
(* each leaves once all have arrived, and a thread let go is not held up by *)
(* those that are already back.                                             *)
BarrierOpens ==
  \A t \in Threads :
    /\ At({"out", "relock", "unlock"}) = {} ~> pc[t] = "out"
    /\ pc[t] = "relock" ~> pc[t] = "out"
=============================================================================
