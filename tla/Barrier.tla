------------------------------ MODULE Barrier ------------------------------
(***************************************************************************)
(* What a pthread barrier promises, as ThreadPool assumes it of             *)
(* pthread_barrier_wait(): a call blocks until TripCount threads have       *)
(* arrived; the last arrival lets them all go, and the next round starts    *)
(* with nobody, even before the threads of the last one have left.          *)
(***************************************************************************)
EXTENDS Naturals, FiniteSets

CONSTANTS
  Threads,     \* threads that use the barrier
  TripCount    \* arrivals that open it

VARIABLES
  blocked,     \* threads it holds
  leaving      \* threads it has let go that have not returned yet

vars == <<blocked, leaving>>

Init == blocked = {} /\ leaving = {}

Block(t) ==
  /\ t \notin blocked \cup leaving
  /\ Cardinality(blocked) + 1 < TripCount
  /\ blocked' = blocked \cup {t}
  /\ UNCHANGED leaving

Open(t) ==
  /\ t \notin blocked \cup leaving
  /\ Cardinality(blocked) + 1 = TripCount
  /\ blocked' = {}
  /\ leaving' = leaving \cup blocked \cup {t}

Return(t) ==
  /\ t \in leaving
  /\ leaving' = leaving \ {t}
  /\ UNCHANGED blocked

Next == \E t \in Threads : Block(t) \/ Open(t) \/ Return(t)

Spec == Init /\ [][Next]_vars
=============================================================================
