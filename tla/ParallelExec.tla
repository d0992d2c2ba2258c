---------------------------- MODULE ParallelExec ----------------------------
(***************************************************************************)
(* What executeOnThreadPool() promises its caller, and what the OpenMP      *)
(* build gets from "#pragma omp parallel num_threads(n)": a fork and a      *)
(* join.  One call is served at a time; between its fork and its join every *)
(* thread of the pool runs the call's function once, and the join waits for *)
(* all of them.  ThreadPool, the pthread build, implements this module.     *)
(***************************************************************************)
CONSTANTS
  Workers,   \* the threads of the pool
  Callers,   \* threads that call executeOnThreadPool()
  Jobs,      \* work functions with their arguments
  NoJob

VARIABLES
  call,      \* {} or {<<c, j>>}: the call being served
  done,      \* threads that have run its job
  ran        \* the job each thread ran last

vars == <<call, done, ran>>

Init ==
  /\ call = {}
  /\ done = {}
  /\ ran = [w \in Workers |-> NoJob]

Fork(c, j) ==
  /\ call = {}
  /\ call' = {<<c, j>>}
  /\ done' = {}
  /\ UNCHANGED ran

Run(w) ==
  /\ w \notin done
  /\ \E p \in call : ran' = [ran EXCEPT ![w] = p[2]]
  /\ done' = done \cup {w}
  /\ UNCHANGED call

Join ==
  /\ call # {}
  /\ done = Workers
  /\ call' = {}
  /\ done' = {}
  /\ UNCHANGED ran

Next ==
  \/ \E c \in Callers, j \in Jobs : Fork(c, j)
  \/ \E w \in Workers : Run(w)
  \/ Join

Spec == Init /\ [][Next]_vars
=============================================================================
