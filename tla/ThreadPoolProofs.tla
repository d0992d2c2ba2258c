-------------------------- MODULE ThreadPoolProofs --------------------------
(***************************************************************************)
(* The pool implements fork and join, for every number of threads and of    *)
(* callers.  PoolInv is inductive; what makes the argument work is that a    *)
(* barrier counts arrivals and not identities, so each of the four places   *)
(* that can be the last arrival needs to know who the others are: the       *)
(* lemmas on trips.                                                         *)
(***************************************************************************)
EXTENDS ThreadPool, FiniteSetTheorems, TLAPS

(* A barrier of NumThreads waiters among NumThreads candidates has them all. *)
LEMMA FullBarrier ==
  ASSUME NEW X, IsFiniteSet(X), Cardinality(X) <= NumThreads,
         NEW S \in SUBSET X, Cardinality(S) = NumThreads
  PROVE  S = X
<1>1. Cardinality(S) <= Cardinality(X) /\ (Cardinality(X) = Cardinality(S) => X = S)
  BY FS_Subset
<1>2. Cardinality(X) \in Nat
  BY FS_CardinalityType
<1>. QED  BY <1>1, <1>2, ConstantsAssumption

(* There are NumThreads workers. *)
LEMMA WorkersFinite ==
  /\ IsFiniteSet(Workers)
  /\ Cardinality(Workers) = NumThreads
  /\ 0 \in Workers
BY FS_Interval, ConstantsAssumption DEF Workers

(* All workers but w, and one caller: as many as there are workers. *)
LEMMA OthersAndCaller ==
  ASSUME NEW w \in Workers, NEW x
  PROVE  LET X == (Workers \ {w}) \cup {x}
         IN  IsFiniteSet(X) /\ Cardinality(X) <= NumThreads
<1>1. /\ IsFiniteSet(Workers \ {w})
      /\ Cardinality(Workers \ {w}) = NumThreads - 1
  BY FS_RemoveElement, WorkersFinite
<1>. QED  BY <1>1, FS_AddElement, ConstantsAssumption

(* The caller trips workWaitBarrier: every worker was waiting in it. *)
LEMMA WorkTripByCaller ==
  ASSUME PoolInv, NEW c \in Callers, pc[c] = "atWork",
         Cardinality(workWaitBarrier) = NumThreads
  PROVE  workWaitBarrier = Workers
<1>1. workWaitBarrier \subseteq Workers
  BY DEF PoolInv, TypeOK, Threads, BarrierInv, LockInv
<1>. QED  BY <1>1, FullBarrier, WorkersFinite, ConstantsAssumption

(* A worker trips it: the others were waiting, with the lock's owner. *)
LEMMA WorkTripByWorker ==
  ASSUME PoolInv, NEW w \in Workers, wpc[w] # "inWork",
         Cardinality(workWaitBarrier) = NumThreads
  PROVE  /\ writer \in Callers
         /\ workWaitBarrier = (Workers \ {w}) \cup {writer}
<1>1. workWaitBarrier \subseteq (Workers \ {w}) \cup {writer}
  BY DEF PoolInv, TypeOK, Threads, BarrierInv, LockInv
<1>2. workWaitBarrier = (Workers \ {w}) \cup {writer}
  BY <1>1, FullBarrier, OthersAndCaller
<1>3. writer \in Threads
  BY <1>2 DEF PoolInv, TypeOK
<1>4. writer \in Workers => workWaitBarrier \in SUBSET Workers /\ w \notin workWaitBarrier
  BY <1>2, ConstantsAssumption DEF PoolInv, TypeOK, BarrierInv
<1>5. writer \notin Workers
  BY <1>4, FullBarrier, WorkersFinite, ConstantsAssumption
<1>. QED  BY <1>2, <1>3, <1>5 DEF Threads

(* The caller trips doneBarrier: every worker was waiting in it. *)
LEMMA DoneTripByCaller ==
  ASSUME PoolInv, NEW c \in Callers, pc[c] = "atDone",
         Cardinality(doneBarrier) = NumThreads
  PROVE  doneBarrier = Workers
<1>1. Serving(c) /\ \A d \in Callers : d \in doneBarrier => Serving(d) /\ d # c
  BY DEF PoolInv, BarrierInv, Serving
<1>2. doneBarrier \subseteq Workers
  BY <1>1 DEF PoolInv, TypeOK, Threads, ServeInv
<1>. QED  BY <1>2, FullBarrier, WorkersFinite, ConstantsAssumption

(* A worker trips it: the others were waiting, with the caller served. *)
LEMMA DoneTripByWorker ==
  ASSUME PoolInv, NEW w \in Workers, wpc[w] = "atDone",
         Cardinality(doneBarrier) = NumThreads
  PROVE  \E c \in Callers : /\ Serving(c)
                            /\ doneBarrier = (Workers \ {w}) \cup {c}
<1>1. PICK c \in Callers : Serving(c)
  BY DEF PoolInv, ServeInv, Busy, Finished
<1>2. \A d \in Callers : d \in doneBarrier => d = c
  BY <1>1 DEF PoolInv, BarrierInv, ServeInv, Serving
<1>3. doneBarrier \subseteq (Workers \ {w}) \cup {c}
  BY <1>2 DEF PoolInv, TypeOK, Threads, BarrierInv
<1>. QED  BY <1>1, <1>3, FullBarrier, OthersAndCaller

-----------------------------------------------------------------------------
(* Before createThreadPool() nobody waits and nothing is locked. *)
LEMMA InitPoolInv == Init => PoolInv
BY ConstantsAssumption
   DEF Init, PoolInv, TypeOK, LoopPcs, WorkerPcs, CallerPcs, Threads, StartInv, LockInv,
       BarrierInv, ServeInv, JobInv, Serving, Busy, Finished

(* Every step keeps the types. *)
LEMMA TypeStep == TypeOK /\ [Next]_vars => TypeOK'
<1>. SUFFICES ASSUME TypeOK, [Next]_vars PROVE TypeOK'
  OBVIOUS
<1>. USE DEF TypeOK, LoopPcs, WorkerPcs, CallerPcs
<1>1. CASE LifeStep
  <2>1. CASE StartWorker
    <3>1. loop.currThread \in Workers /\ loop.currThread + 1 \in 0..NumThreads
      BY <2>1, ConstantsAssumption DEF StartWorker, MoreToStart, Workers
    <3>2. loop' \in [i : Nat, currThread : 0..NumThreads, pc : LoopPcs]
      <4>1. loop' = [i |-> loop.i + 1, currThread |-> loop.currThread + 1,
                     pc |-> loop.pc]
        BY <2>1 DEF StartWorker
      <4>. QED  BY <3>1, <4>1
    <3>. QED  BY <2>1, <3>1, <3>2 DEF StartWorker
  <2>2. CASE SkipCPU \/ PoolReady \/ \E c \in Callers : FreeThreadPool(c)
    BY <2>2 DEF SkipCPU, PoolReady, FreeThreadPool, poolVars
  <2>. QED  BY <1>1, <2>1, <2>2 DEF LifeStep, CreateStep
<1>2. CASE \E c \in Callers, j \in Jobs : ExecuteOnThreadPool(c, j)
  BY <1>2 DEF ExecuteOnThreadPool
<1>3. ASSUME NEW c \in Callers, CallStep(c) PROVE TypeOK'
  BY <1>3 DEF CallStep, WrLock, Publish, CallerArrivesWork, WrUnlock,
              CallerArrivesDone, CallReturns, Arrive, Threads
<1>4. ASSUME NEW w \in Workers, WorkerStep(w) PROVE TypeOK'
  BY <1>4 DEF WorkerStep, WorkerArrivesWork, RdLock, ReadJob, RdUnlock, RunJob,
              WorkerArrivesDone, Arrive, Threads
<1>5. CASE UNCHANGED vars
  BY <1>5 DEF vars
<1>. QED  BY <1>1, <1>2, <1>3, <1>4, <1>5 DEF Next

-----------------------------------------------------------------------------
(* The untyped parts of the invariant. *)
Rest == StartInv /\ LockInv /\ BarrierInv /\ ServeInv /\ JobInv

(* Starting and pinning threads disturbs no call. *)
LEMMA CreateKeeps == PoolInv /\ LifeStep => Rest'
<1>. SUFFICES ASSUME PoolInv, LifeStep PROVE Rest'
  OBVIOUS
<1>. USE DEF PoolInv, TypeOK, Rest, StartInv, LockInv, BarrierInv, ServeInv,
             JobInv, Serving, Busy, Finished
<1>1. CASE StartWorker
  <2>1. /\ loop.currThread \in Workers
        /\ loop'.currThread = loop.currThread + 1
        /\ loop.currThread \in Nat
    BY <1>1, ConstantsAssumption DEF StartWorker, MoreToStart, Workers
  <2>2. wpc[loop.currThread] = "unborn"
    BY <2>1
  <2>3. \A w \in Workers :
          wpc'[w] = IF w = loop.currThread THEN "atWork" ELSE wpc[w]
    BY <1>1 DEF StartWorker
  <2>4. StartInv'
    <3>1. SUFFICES ASSUME NEW w \in Workers, w >= loop.currThread + 1
                   PROVE  wpc'[w] = "unborn"
      BY <2>1
    <3>2. w # loop.currThread /\ w >= loop.currThread
      BY <2>1, <3>1, ConstantsAssumption DEF Workers
    <3>. QED  BY <2>3, <3>2
  <2>5. (LockInv /\ BarrierInv)'
    BY <1>1, <2>2, <2>3 DEF StartWorker
  <2>6. (ServeInv /\ JobInv)'
    BY <1>1, <2>2, <2>3 DEF StartWorker
  <2>. QED  BY <2>4, <2>5, <2>6
<1>2. CASE SkipCPU \/ PoolReady \/ \E c \in Callers : FreeThreadPool(c)
  BY <1>2 DEF SkipCPU, PoolReady, FreeThreadPool, poolVars
<1>. QED  BY <1>1, <1>2 DEF LifeStep, CreateStep

(* Entering executeOnThreadPool() only records the job. *)
LEMMA CallKeeps ==
  ASSUME NEW c \in Callers, NEW j \in Jobs, PoolInv, ExecuteOnThreadPool(c, j)
  PROVE  Rest'
BY DEF ExecuteOnThreadPool, PoolInv, TypeOK, Rest, StartInv, LockInv, BarrierInv,
       ServeInv, JobInv, Serving, Busy, Finished

(* The lock is taken when nobody reads; a call may still be served. *)
LEMMA WrLockKeeps ==
  ASSUME NEW c \in Callers, PoolInv, WrLock(c)
  PROVE  Rest'
BY ConstantsAssumption
   DEF WrLock, PoolInv, TypeOK, Rest, StartInv, LockInv, BarrierInv, ServeInv,
       JobInv, Serving, Busy, Finished

(* The lock's owner writes the job; nobody is reading it. *)
LEMMA PublishKeeps ==
  ASSUME NEW c \in Callers, PoolInv, Publish(c)
  PROVE  Rest'
BY ConstantsAssumption
   DEF Publish, PoolInv, TypeOK, Rest, StartInv, LockInv, BarrierInv, ServeInv,
       JobInv, Serving, Busy, Finished

(* The caller's arrival waits, or starts serving its call. *)
LEMMA CallerArrivesWorkKeeps ==
  ASSUME NEW c \in Callers, PoolInv, CallerArrivesWork(c)
  PROVE  Rest'
<1>. USE DEF CallerArrivesWork, Arrive, PoolInv, TypeOK, Rest, StartInv, LockInv,
             BarrierInv, ServeInv, JobInv, Serving, Busy, Finished
<1>1. CASE Cardinality(workWaitBarrier) = NumThreads
  <2>1. workWaitBarrier = Workers /\ workWaitBarrier' = {}
    BY <1>1, WorkTripByCaller
  <2>2. \A d \in Callers : ~Serving(d)
    BY <2>1, WorkersFinite
  <2>3. \A d \in Callers : Serving(d)' <=> d = c
    BY <2>1, <2>2
  <2>4. \A w \in Workers : wpc[w] = "inWork" /\ Busy(w)'
    BY <2>1
  <2>5. ServeInv'
    BY <2>3, <2>4
  <2>6. JobInv'
    BY <2>2, <2>3, <2>4
  <2>. QED  BY <2>1, <2>5, <2>6
<1>2. CASE Cardinality(workWaitBarrier) # NumThreads
  <2>1. workWaitBarrier' = workWaitBarrier \cup {c}
    BY <1>2
  <2>2. \A d \in Callers : Serving(d)' <=> Serving(d)
    BY <2>1
  <2>3. \A w \in Workers : Busy(w)' <=> Busy(w)
    BY <2>1, ConstantsAssumption
  <2>4. (StartInv /\ LockInv)'
    OBVIOUS
  <2>5. BarrierInv'
    BY <2>1, ConstantsAssumption
  <2>6. ServeInv'
    BY <2>2, <2>3
  <2>7. JobInv'
    BY <2>2
  <2>. QED  BY <2>4, <2>5, <2>6, <2>7
<1>. QED  BY <1>1, <1>2

(* The lock is released while the call is served. *)
LEMMA WrUnlockKeeps ==
  ASSUME NEW c \in Callers, PoolInv, WrUnlock(c)
  PROVE  Rest'
<1>. USE DEF WrUnlock, PoolInv, TypeOK, Rest, StartInv, LockInv, BarrierInv,
             ServeInv, JobInv, Serving, Busy, Finished
<1>1. Serving(c) /\ \A d \in Callers : Serving(d)' <=> Serving(d)
  OBVIOUS
<1>2. (StartInv /\ LockInv /\ BarrierInv)'
  BY ConstantsAssumption
<1>3. ServeInv'
  BY <1>1
<1>4. JobInv'
  BY <1>1
<1>. QED  BY <1>2, <1>3, <1>4

(* The caller's arrival waits, or ends its call. *)
LEMMA CallerArrivesDoneKeeps ==
  ASSUME NEW c \in Callers, PoolInv, CallerArrivesDone(c)
  PROVE  Rest'
<1>. USE DEF CallerArrivesDone, Arrive, PoolInv, TypeOK, Rest, StartInv, LockInv,
             BarrierInv, ServeInv, JobInv, Serving, Busy, Finished
<1>1. CASE Cardinality(doneBarrier) = NumThreads
  <2>1. doneBarrier = Workers /\ doneBarrier' = {}
    BY <1>1, DoneTripByCaller
  <2>2. \A d \in Callers : ~Serving(d)'
    BY <2>1
  <2>3. \A w \in Workers : wpc[w] = "inDone" /\ ~Busy(w)'
    BY <2>1
  <2>. QED  BY <2>1, <2>2, <2>3
<1>2. CASE Cardinality(doneBarrier) # NumThreads
  <2>1. doneBarrier' = doneBarrier \cup {c}
    BY <1>2
  <2>2. \A d \in Callers : Serving(d)' <=> Serving(d)
    BY <2>1
  <2>3. \A w \in Workers : (Busy(w)' <=> Busy(w)) /\ (Finished(w)' <=> Finished(w))
    BY <2>1, ConstantsAssumption
  <2>4. (StartInv /\ LockInv)'
    OBVIOUS
  <2>5. BarrierInv'
    BY <2>1, ConstantsAssumption
  <2>6. ServeInv'
    BY <2>2, <2>3
  <2>7. JobInv'
    BY <2>2, <2>3
  <2>. QED  BY <2>4, <2>5, <2>6, <2>7
<1>. QED  BY <1>1, <1>2

(* Returning touches only the caller. *)
LEMMA CallReturnsKeeps ==
  ASSUME NEW c \in Callers, PoolInv, CallReturns(c)
  PROVE  Rest'
<1>. USE DEF CallReturns, PoolInv, TypeOK, Rest, StartInv, LockInv, BarrierInv,
             ServeInv, JobInv, Serving, Busy, Finished
<1>1. pc'[c] \in {"idle", "crashed"} /\ \A d \in Callers : d # c => pc'[d] = pc[d]
  OBVIOUS
<1>2. \A d \in Callers : Serving(d)' <=> Serving(d)
  BY <1>1
<1>3. \A w \in Workers : (Busy(w)' <=> Busy(w)) /\ (Finished(w)' <=> Finished(w))
  OBVIOUS
<1>4. (StartInv /\ LockInv /\ BarrierInv)'
  BY <1>1
<1>5. ServeInv'
  BY <1>2, <1>3
<1>6. JobInv'
  BY <1>1, <1>2, <1>3
<1>. QED  BY <1>4, <1>5, <1>6

(* A worker's arrival waits, or starts serving the lock owner's call. *)
LEMMA WorkerArrivesWorkKeeps ==
  ASSUME NEW w \in Workers, PoolInv, WorkerArrivesWork(w)
  PROVE  Rest'
<1>. USE DEF WorkerArrivesWork, Arrive, PoolInv, TypeOK, Rest, StartInv, LockInv,
             BarrierInv, ServeInv, JobInv, Serving, Busy, Finished
<1>1. ~Busy(w) /\ wpc[w] # "inWork" /\ \A d \in Callers : ~Serving(d)
  OBVIOUS
<1>2. CASE Cardinality(workWaitBarrier) = NumThreads
  <2>1. /\ writer \in Callers
        /\ workWaitBarrier = (Workers \ {w}) \cup {writer}
        /\ workWaitBarrier' = {}
    BY <1>1, <1>2, WorkTripByWorker
  <2>2. \A d \in Callers : Serving(d)' <=> d = writer
    BY <1>1, <2>1
  <2>3. \A v \in Workers : wpc'[v] = "inWork" /\ Busy(v)'
    BY <2>1
  <2>4. (StartInv /\ LockInv /\ BarrierInv)'
    BY <2>1
  <2>5. ServeInv'
    <3>1. Serving(writer)'
      BY <2>1, <2>2
    <3>2. \A c, d \in Callers : (Serving(c) /\ Serving(d))' => c = d
      BY <2>2
    <3>. QED  BY <2>1, <2>3, <3>1, <3>2
  <2>6. JobInv'
    BY <2>1, <2>2, <2>3, ConstantsAssumption
  <2>. QED  BY <2>4, <2>5, <2>6
<1>3. CASE Cardinality(workWaitBarrier) # NumThreads
  <2>1. workWaitBarrier' = workWaitBarrier \cup {w}
    BY <1>3
  <2>2. \A d \in Callers : ~Serving(d)'
    BY <1>1, <2>1, ConstantsAssumption
  <2>3. \A v \in Workers : ~Busy(v)'
    BY <1>1, <2>1
  <2>4. (StartInv /\ LockInv)'
    OBVIOUS
  <2>5. BarrierInv'
    BY <2>1, ConstantsAssumption
  <2>. QED  BY <2>2, <2>3, <2>4, <2>5
<1>. QED  BY <1>2, <1>3

(* A busy worker reads only when no caller is writing. *)
LEMMA RdLockKeeps ==
  ASSUME NEW w \in Workers, PoolInv, RdLock(w)
  PROVE  Rest'
BY DEF RdLock, PoolInv, TypeOK, Rest, StartInv, LockInv, BarrierInv, ServeInv,
       JobInv, Serving, Busy, Finished

(* What it reads is the job of the call being served. *)
LEMMA ReadJobKeeps ==
  ASSUME NEW w \in Workers, PoolInv, ReadJob(w)
  PROVE  Rest'
<1>. USE DEF ReadJob, PoolInv, TypeOK, Rest, StartInv, LockInv, BarrierInv,
             ServeInv, JobInv, Serving, Busy, Finished
<1>1. \A c \in Callers : Serving(c) => workFunction = job[c]
  BY ConstantsAssumption
<1>2. (StartInv /\ LockInv /\ BarrierInv /\ ServeInv)'
  OBVIOUS
<1>3. JobInv'
  BY <1>1
<1>. QED  BY <1>2, <1>3

(* Unlocking keeps what was read. *)
LEMMA RdUnlockKeeps ==
  ASSUME NEW w \in Workers, PoolInv, RdUnlock(w)
  PROVE  Rest'
BY DEF RdUnlock, PoolInv, TypeOK, Rest, StartInv, LockInv, BarrierInv, ServeInv,
       JobInv, Serving, Busy, Finished

(* The job run is the job read. *)
LEMMA RunJobKeeps ==
  ASSUME NEW w \in Workers, PoolInv, RunJob(w)
  PROVE  Rest'
BY DEF RunJob, PoolInv, TypeOK, Rest, StartInv, LockInv, BarrierInv, ServeInv,
       JobInv, Serving, Busy, Finished

(* A worker's arrival waits, or ends the call being served. *)
LEMMA WorkerArrivesDoneKeeps ==
  ASSUME NEW w \in Workers, PoolInv, WorkerArrivesDone(w)
  PROVE  Rest'
<1>. USE DEF WorkerArrivesDone, Arrive, PoolInv, TypeOK, Rest, StartInv, LockInv,
             BarrierInv, ServeInv, JobInv, Serving, Busy, Finished
<1>1. CASE Cardinality(doneBarrier) = NumThreads
  <2>1. PICK c \in Callers : /\ Serving(c)
                             /\ doneBarrier = (Workers \ {w}) \cup {c}
    BY <1>1, DoneTripByWorker
  <2>2. doneBarrier' = {}
    BY <1>1
  <2>3. \A d \in Callers : ~Serving(d)'
    BY <2>1, <2>2
  <2>4. \A v \in Workers : wpc'[v] = "inDone" /\ ~Busy(v)'
    BY <2>1, <2>2
  <2>. QED  BY <2>2, <2>3, <2>4
<1>2. CASE Cardinality(doneBarrier) # NumThreads
  <2>1. doneBarrier' = doneBarrier \cup {w}
    BY <1>2
  <2>2. \A d \in Callers : Serving(d)' <=> Serving(d)
    BY <2>1, ConstantsAssumption
  <2>3. \A v \in Workers : (Busy(v)' <=> Busy(v)) /\ (Finished(v)' <=> Finished(v))
    BY <2>1
  <2>4. (StartInv /\ LockInv)'
    OBVIOUS
  <2>5. BarrierInv'
    BY <2>1, ConstantsAssumption
  <2>6. ServeInv'
    BY <2>2, <2>3
  <2>7. JobInv'
    BY <2>2, <2>3
  <2>. QED  BY <2>4, <2>5, <2>6, <2>7
<1>. QED  BY <1>1, <1>2

(* Every step keeps the invariant. *)
LEMMA PoolInvStep == PoolInv /\ [Next]_vars => PoolInv'
<1>. SUFFICES ASSUME PoolInv, [Next]_vars PROVE Rest'
  BY TypeStep DEF PoolInv, Rest
<1>1. CASE LifeStep
  BY <1>1, CreateKeeps
<1>2. ASSUME NEW c \in Callers, NEW j \in Jobs, ExecuteOnThreadPool(c, j)
      PROVE  Rest'
  BY <1>2, CallKeeps
<1>3. ASSUME NEW c \in Callers, CallStep(c) PROVE Rest'
  BY <1>3, WrLockKeeps, PublishKeeps, CallerArrivesWorkKeeps, WrUnlockKeeps,
     CallerArrivesDoneKeeps, CallReturnsKeeps DEF CallStep
<1>4. ASSUME NEW w \in Workers, WorkerStep(w) PROVE Rest'
  BY <1>4, WorkerArrivesWorkKeeps, RdLockKeeps, ReadJobKeeps, RdUnlockKeeps,
     RunJobKeeps, WorkerArrivesDoneKeeps DEF WorkerStep
<1>5. CASE UNCHANGED vars
  BY <1>5 DEF vars, PoolInv, Rest, StartInv, LockInv, BarrierInv, ServeInv,
              JobInv, Serving, Busy, Finished
<1>. QED  BY <1>1, <1>2, <1>3, <1>4, <1>5 DEF Next

(* The pool's invariant holds for every number of threads and callers. *)
THEOREM PoolInvariant == Spec => []PoolInv
BY InitPoolInv, PoolInvStep, PTL DEF Spec

-----------------------------------------------------------------------------
(* Refinement.  Fork is the trip of workWaitBarrier, Join that of            *)
(* doneBarrier, whoever arrives last; RunJob is Run; all else stutters.      *)

Stutter == Call' = Call /\ Done' = Done /\ timed' = timed

(* The mapped variables depend on who is served and who has finished only. *)
LEMMA SameMapping ==
  ASSUME \A c \in Callers : Serving(c)' <=> Serving(c),
         \A c \in Callers : Serving(c) => job'[c] = job[c],
         \A w \in Workers : Finished(w)' <=> Finished(w),
         timed' = timed
  PROVE  Stutter
BY DEF Stutter, Call, Done

(* From nobody served to c served is a Fork. *)
LEMMA ForkStep ==
  ASSUME PoolInv, NEW c \in Callers, job[c] \in Jobs, job' = job, timed' = timed,
         \A d \in Callers : ~Serving(d) /\ (Serving(d)' <=> d = c),
         \A w \in Workers : ~Finished(w)'
  PROVE  Abstract!Next
<1>1. Call = {} /\ Call' = {<<c, job[c]>>} /\ Done' = {}
  BY DEF Call, Done
<1>2. Abstract!Fork(c, job[c])
  BY <1>1 DEF Abstract!Fork
<1>. QED  BY <1>2 DEF Abstract!Next

(* From c served and everyone finished to nobody served is a Join. *)
LEMMA JoinStep ==
  ASSUME PoolInv, timed' = timed, NEW c \in Callers, Serving(c),
         \A d \in Callers : ~Serving(d)',
         \A w \in Workers : Finished(w) /\ ~Finished(w)'
  PROVE  Abstract!Next
<1>1. Call # {} /\ Call' = {} /\ Done = Workers /\ Done' = {}
  BY DEF Call, Done
<1>2. Abstract!Join
  BY <1>1 DEF Abstract!Join
<1>. QED  BY <1>2 DEF Abstract!Next

(* Locking, publishing, reading and returning are invisible to ParallelExec. *)
LEMMA SilentSteps ==
  ASSUME PoolInv,
         \/ LifeStep
         \/ \E c \in Callers, j \in Jobs : ExecuteOnThreadPool(c, j)
         \/ \E c \in Callers : WrLock(c) \/ Publish(c) \/ WrUnlock(c) \/ CallReturns(c)
         \/ \E w \in Workers : RdLock(w) \/ ReadJob(w) \/ RdUnlock(w)
         \/ UNCHANGED vars
  PROVE  Stutter
<1>. USE DEF PoolInv, TypeOK, Serving, Finished
<1>1. CASE LifeStep
  <2>1. CASE StartWorker
    <3>1. loop.currThread \in Workers /\ wpc[loop.currThread] = "unborn"
      BY <2>1, ConstantsAssumption DEF StartWorker, MoreToStart, Workers, StartInv
    <3>. QED  BY <2>1, <3>1, SameMapping DEF StartWorker
  <2>2. CASE SkipCPU \/ PoolReady \/ \E c \in Callers : FreeThreadPool(c)
    BY <2>2, SameMapping DEF SkipCPU, PoolReady, FreeThreadPool, poolVars
  <2>. QED  BY <1>1, <2>1, <2>2 DEF LifeStep, CreateStep
<1>2. ASSUME NEW c \in Callers, NEW j \in Jobs, ExecuteOnThreadPool(c, j)
      PROVE  Stutter
  BY <1>2, SameMapping DEF ExecuteOnThreadPool
<1>3. ASSUME NEW c \in Callers, WrLock(c) \/ Publish(c) \/ WrUnlock(c)
      PROVE  Stutter
  BY <1>3, SameMapping DEF WrLock, Publish, WrUnlock
<1>4. ASSUME NEW c \in Callers, CallReturns(c) PROVE Stutter
  <2>1. pc'[c] \in {"idle", "crashed"} /\ \A d \in Callers : d # c => pc'[d] = pc[d]
    BY <1>4 DEF CallReturns
  <2>. QED  BY <1>4, <2>1, SameMapping DEF CallReturns
<1>5. ASSUME NEW w \in Workers, RdLock(w) \/ ReadJob(w) \/ RdUnlock(w)
      PROVE  Stutter
  BY <1>5, SameMapping DEF RdLock, ReadJob, RdUnlock
<1>6. CASE UNCHANGED vars
  BY <1>6, SameMapping DEF vars
<1>. QED  BY <1>1, <1>2, <1>3, <1>4, <1>5, <1>6

(* A worker's RunJob is a Run. *)
LEMMA RunJobRuns ==
  ASSUME PoolInv, NEW w \in Workers, RunJob(w)
  PROVE  Abstract!Next
<1>. USE DEF RunJob, PoolInv, TypeOK, Serving, Finished
<1>1. PICK c \in Callers : Serving(c) /\ local[w] = job[c]
  BY DEF ServeInv, Busy, JobInv
<1>2. <<c, job[c]>> \in Call /\ Call' = Call
  BY <1>1 DEF Call
<1>3. w \notin Done /\ Done' = Done \cup {w}
  BY DEF Done
<1>4. timed' = [timed EXCEPT ![w] = <<c, job[c]>>[2]]
  BY <1>1
<1>5. Abstract!Run(w)
  BY <1>2, <1>3, <1>4 DEF Abstract!Run
<1>. QED  BY <1>5 DEF Abstract!Next

(* The caller's arrival at workWaitBarrier is silent, or a Fork. *)
LEMMA CallerWorkArrival ==
  ASSUME PoolInv, NEW c \in Callers, CallerArrivesWork(c)
  PROVE  Abstract!Next \/ Stutter
<1>. USE DEF CallerArrivesWork, Arrive, PoolInv, TypeOK, Serving, Finished
<1>1. CASE Cardinality(workWaitBarrier) = NumThreads
  <2>1. workWaitBarrier = Workers /\ workWaitBarrier' = {}
    BY <1>1, WorkTripByCaller
  <2>2. \A d \in Callers : ~Serving(d)
    BY <2>1, WorkersFinite DEF ServeInv, Busy, BarrierInv
  <2>3. \A d \in Callers : Serving(d)' <=> d = c
    BY <2>1, <2>2 DEF LockInv
  <2>4. job[c] \in Jobs /\ \A w \in Workers : ~Finished(w)'
    BY <2>1 DEF JobInv, BarrierInv
  <2>. QED  BY <2>2, <2>3, <2>4, ForkStep
<1>2. CASE Cardinality(workWaitBarrier) # NumThreads
  BY <1>2, SameMapping DEF BarrierInv
<1>. QED  BY <1>1, <1>2

(* A worker's arrival at workWaitBarrier is silent, or a Fork. *)
LEMMA WorkerWorkArrival ==
  ASSUME PoolInv, NEW w \in Workers, WorkerArrivesWork(w)
  PROVE  Abstract!Next \/ Stutter
<1>. USE DEF WorkerArrivesWork, Arrive, PoolInv, TypeOK, Serving, Finished
<1>1. wpc[w] # "inWork" /\ \A d \in Callers : ~Serving(d)
  BY DEF ServeInv, Busy
<1>2. CASE Cardinality(workWaitBarrier) = NumThreads
  <2>1. /\ writer \in Callers
        /\ workWaitBarrier = (Workers \ {w}) \cup {writer}
        /\ workWaitBarrier' = {}
    BY <1>1, <1>2, WorkTripByWorker
  <2>2. \A d \in Callers : Serving(d)' <=> d = writer
    BY <1>1, <2>1 DEF LockInv, BarrierInv
  <2>3. job[writer] \in Jobs /\ \A v \in Workers : ~Finished(v)'
    BY <2>1 DEF JobInv, BarrierInv
  <2>. QED  BY <1>1, <2>1, <2>2, <2>3, ForkStep
<1>3. CASE Cardinality(workWaitBarrier) # NumThreads
  <2>1. \A d \in Callers : Serving(d)' <=> Serving(d)
    BY <1>1, <1>3, ConstantsAssumption
  <2>. QED  BY <1>3, <2>1, SameMapping
<1>. QED  BY <1>2, <1>3

(* The caller's arrival at doneBarrier is silent, or a Join. *)
LEMMA CallerDoneArrival ==
  ASSUME PoolInv, NEW c \in Callers, CallerArrivesDone(c)
  PROVE  Abstract!Next \/ Stutter
<1>. USE DEF CallerArrivesDone, Arrive, PoolInv, TypeOK, Serving, Finished
<1>1. CASE Cardinality(doneBarrier) = NumThreads
  <2>1. doneBarrier = Workers /\ doneBarrier' = {}
    BY <1>1, DoneTripByCaller
  <2>2. Serving(c) /\ \A d \in Callers : ~Serving(d)'
    BY <2>1 DEF ServeInv
  <2>3. \A w \in Workers : Finished(w) /\ ~Finished(w)'
    BY <2>1 DEF BarrierInv
  <2>. QED  BY <2>2, <2>3, JoinStep
<1>2. CASE Cardinality(doneBarrier) # NumThreads
  <2>1. \A w \in Workers : Finished(w)' <=> Finished(w)
    BY <1>2, ConstantsAssumption
  <2>. QED  BY <1>2, <2>1, SameMapping
<1>. QED  BY <1>1, <1>2

(* A worker's arrival at doneBarrier is silent, or a Join. *)
LEMMA WorkerDoneArrival ==
  ASSUME PoolInv, NEW w \in Workers, WorkerArrivesDone(w)
  PROVE  Abstract!Next \/ Stutter
<1>. USE DEF WorkerArrivesDone, Arrive, PoolInv, TypeOK, Serving, Finished
<1>1. CASE Cardinality(doneBarrier) = NumThreads
  <2>1. PICK c \in Callers : /\ Serving(c)
                             /\ doneBarrier = (Workers \ {w}) \cup {c}
    BY <1>1, DoneTripByWorker
  <2>2. doneBarrier' = {}
    BY <1>1
  <2>3. \A d \in Callers : ~Serving(d)'
    BY <2>1, <2>2 DEF ServeInv, BarrierInv
  <2>4. \A v \in Workers : Finished(v) /\ ~Finished(v)'
    BY <2>1, <2>2 DEF BarrierInv
  <2>. QED  BY <2>1, <2>3, <2>4, JoinStep
<1>2. CASE Cardinality(doneBarrier) # NumThreads
  <2>1. \A d \in Callers : Serving(d)' <=> Serving(d)
    BY <1>2, ConstantsAssumption
  <2>. QED  BY <1>2, <2>1, SameMapping
<1>. QED  BY <1>1, <1>2

(* executeOnThreadPool() is a fork and a join for every pool size and any    *)
(* number of concurrent callers: no worker skips a call, repeats it or runs *)
(* the job of another, and no call ends before its last worker.             *)
THEOREM PoolImplementsParallelExec == Spec => ImplementsParallelExec
<1>1. Init => Abstract!Init
  <2>. SUFFICES ASSUME Init PROVE Call = {} /\ Done = {} /\ timed = [w \in Workers |-> NoJob]
    BY DEF Abstract!Init
  <2>. QED  BY DEF Init, Call, Done, Serving, Finished
<1>2. PoolInv /\ [Next]_vars => [Abstract!Next]_(Abstract!vars)
  <2>. SUFFICES ASSUME PoolInv, [Next]_vars PROVE Abstract!Next \/ Stutter
    BY DEF Stutter, Abstract!vars
  <2>1. ASSUME NEW c \in Callers, CallStep(c) PROVE Abstract!Next \/ Stutter
    BY <2>1, SilentSteps, CallerWorkArrival, CallerDoneArrival DEF CallStep
  <2>2. ASSUME NEW w \in Workers, WorkerStep(w) PROVE Abstract!Next \/ Stutter
    BY <2>2, SilentSteps, WorkerWorkArrival, WorkerDoneArrival, RunJobRuns
       DEF WorkerStep
  <2>. QED  BY <2>1, <2>2, SilentSteps DEF Next
<1>. QED
  BY <1>1, <1>2, PoolInvariant, PTL DEF Spec, ImplementsParallelExec, Abstract!Spec

-----------------------------------------------------------------------------
(* With a single calling thread the times it adds up after the join, read    *)
(* without a lock, are those of all workers for its own job.                 *)
OneCaller == \A c, d \in Callers : c = d

(* With one caller no worker starts the next job before the call returns. *)
LEMMA TimesStep ==
  ASSUME OneCaller, PoolInv, TimesAreOwn, [Next]_vars
  PROVE  TimesAreOwn'
<1>. SUFFICES ASSUME NEW c \in Callers, pc'[c] = "inDone", c \notin doneBarrier'
              PROVE  \A v \in Workers : timed'[v] = job'[c]
  BY DEF TimesAreOwn
<1>. USE DEF OneCaller, PoolInv, TypeOK, TimesAreOwn
<1>1. CASE LifeStep
  BY <1>1 DEF LifeStep, CreateStep, StartWorker, SkipCPU, PoolReady,
              FreeThreadPool, poolVars
<1>2. CASE \E d \in Callers, j \in Jobs : ExecuteOnThreadPool(d, j)
  BY <1>2 DEF ExecuteOnThreadPool
<1>3. ASSUME NEW d \in Callers, CallStep(d)
      PROVE  \A v \in Workers : timed'[v] = job'[c]
  <2>1. CASE CallerArrivesDone(d)
    <3>1. Cardinality(doneBarrier) = NumThreads
      BY <2>1 DEF CallerArrivesDone, Arrive
    <3>2. pc[d] = "atDone" /\ doneBarrier = Workers
      BY <2>1, <3>1, DoneTripByCaller DEF CallerArrivesDone
    <3>3. Serving(d) /\ \A v \in Workers : Finished(v)
      BY <3>2 DEF Serving, Finished, BarrierInv
    <3>. QED  BY <2>1, <3>3 DEF CallerArrivesDone, JobInv
  <2>2. CASE WrLock(d) \/ Publish(d) \/ CallerArrivesWork(d) \/ WrUnlock(d)
    BY <2>2 DEF WrLock, Publish, CallerArrivesWork, WrUnlock
  <2>3. CASE CallReturns(d)
    BY <2>3 DEF CallReturns
  <2>. QED  BY <1>3, <2>1, <2>2, <2>3 DEF CallStep
<1>4. ASSUME NEW w \in Workers, WorkerStep(w)
      PROVE  \A v \in Workers : timed'[v] = job'[c]
  <2>1. CASE WorkerArrivesDone(w)
    <3>1. CASE Cardinality(doneBarrier) = NumThreads
      <4>1. wpc[w] = "atDone"
        BY <2>1 DEF WorkerArrivesDone
      <4>2. PICK d \in Callers : /\ Serving(d)
                                 /\ doneBarrier = (Workers \ {w}) \cup {d}
        BY <3>1, <4>1, DoneTripByWorker
      <4>3. \A v \in Workers : Finished(v)
        BY <4>1, <4>2 DEF Finished, BarrierInv
      <4>. QED  BY <2>1, <4>2, <4>3 DEF WorkerArrivesDone, JobInv
    <3>2. CASE Cardinality(doneBarrier) # NumThreads
      BY <2>1, <3>2 DEF WorkerArrivesDone, Arrive
    <3>. QED  BY <3>1, <3>2
  <2>2. CASE RunJob(w)
    <3>1. pc[c] = "inDone" /\ c \notin doneBarrier
      BY <2>2 DEF RunJob
    <3>2. ~Serving(c) /\ Busy(w)
      BY <2>2, <3>1 DEF RunJob, Serving, Busy
    <3>. QED  BY <3>2 DEF ServeInv
  <2>3. CASE WorkerArrivesWork(w) \/ RdLock(w) \/ ReadJob(w) \/ RdUnlock(w)
    BY <2>3 DEF WorkerArrivesWork, RdLock, ReadJob, RdUnlock
  <2>. QED  BY <1>4, <2>1, <2>2, <2>3 DEF WorkerStep
<1>5. CASE UNCHANGED vars
  BY <1>5 DEF vars
<1>. QED  BY <1>1, <1>2, <1>3, <1>4, <1>5 DEF Next

(* The times executeOnThreadPool() adds up after its done barrier, without a *)
(* lock, are those of its own job when one thread calls the pool.            *)
THEOREM OneCallerTimes ==
  ASSUME OneCaller
  PROVE  Spec => []TimesAreOwn
<1>1. Init => TimesAreOwn
  BY DEF Init, TimesAreOwn
<1>2. PoolInv /\ TimesAreOwn /\ [Next]_vars => TimesAreOwn'
  BY TimesStep
<1>. QED  BY <1>1, <1>2, PoolInvariant, PTL DEF Spec

(* With one caller a pool that was freed stays without calls. *)
FreedInv == loop.pc = "freed" => \A c \in Callers : pc[c] = "idle"

(* No step lets that caller into a call again. *)
LEMMA FreedStep ==
  ASSUME OneCaller, PoolInv, FreedInv, [Next]_vars
  PROVE  FreedInv'
<1>. USE DEF OneCaller, PoolInv, TypeOK, FreedInv
<1>1. CASE LifeStep
  BY <1>1 DEF LifeStep, CreateStep, StartWorker, SkipCPU, PoolReady,
              FreeThreadPool, poolVars
<1>2. CASE \E d \in Callers, j \in Jobs : ExecuteOnThreadPool(d, j)
  BY <1>2 DEF ExecuteOnThreadPool
<1>3. CASE \E d \in Callers : CallStep(d)
  BY <1>3 DEF CallStep, WrLock, Publish, CallerArrivesWork, WrUnlock,
              CallerArrivesDone, CallReturns
<1>4. CASE \E w \in Workers : WorkerStep(w)
  BY <1>4 DEF WorkerStep, WorkerArrivesWork, RdLock, ReadJob, RdUnlock, RunJob,
              WorkerArrivesDone
<1>5. CASE UNCHANGED vars
  BY <1>5 DEF vars
<1>. QED  BY <1>1, <1>2, <1>3, <1>4, <1>5 DEF Next

(* freeThreadPool(), called by the only thread that uses the pool, finds no  *)
(* worker in a job or about to fetch one, and none becomes so afterwards.    *)
THEOREM OneCallerFree ==
  ASSUME OneCaller
  PROVE  Spec => []FreedPoolIdle
<1>1. Init => FreedInv
  BY DEF Init, FreedInv
<1>2. PoolInv /\ FreedInv /\ [Next]_vars => FreedInv'
  BY FreedStep
<1>3. PoolInv /\ FreedInv => FreedPoolIdle
  BY DEF PoolInv, FreedInv, FreedPoolIdle, ServeInv, Serving
<1>. QED  BY <1>1, <1>2, <1>3, PoolInvariant, PTL DEF Spec

-----------------------------------------------------------------------------
(* Every variable of the pool keeps its type: currThread never runs past the *)
(* pool, no thread is in a state its code does not have.                     *)
THEOREM PoolTypes == Spec => []TypeOK
<1>1. PoolInv => TypeOK
  BY DEF PoolInv
<1>. QED  BY <1>1, PoolInvariant, PTL

(* createThreadPool's loop: the CPUs it has passed and the threads it has    *)
(* started, in the order of their CPUs.                                      *)
Below(i) == {j \in Affinity : j < i}

StartedInv ==
  /\ \A w \in Workers : wpc[w] = "unborn" <=> w >= loop.currThread
  /\ \A w \in Workers : wpc[w] # "unborn" =>
       cpu[w] < loop.i /\ (Affinity # NoAffinity => cpu[w] \in Affinity)
  /\ \A v, w \in Workers : wpc[w] # "unborn" /\ v < w => cpu[v] < cpu[w]
  /\ Affinity # NoAffinity => /\ loop.i <= Cardinality(Affinity)
                              /\ loop.currThread = Cardinality(Below(loop.i))
  /\ loop.pc # "loop" => ~MoreToStart

(* The CPUs below the next number are those below this one, and this one if  *)
(* the affinity string names it.                                             *)
LEMMA BelowNext ==
  ASSUME Affinity # NoAffinity, NEW i \in Nat
  PROVE  /\ Cardinality(Below(i)) \in Nat
         /\ Cardinality(Below(i + 1)) =
              Cardinality(Below(i)) + (IF i \in Affinity THEN 1 ELSE 0)
<1>1. IsFiniteSet(Affinity) /\ Affinity \in SUBSET Nat
  BY ConstantsAssumption
<1>2. IsFiniteSet(Below(i))
  <2>1. Below(i) \in SUBSET Affinity
    BY DEF Below
  <2>. QED  BY <1>1, <2>1, FS_Subset
<1>3. Below(i + 1) = IF i \in Affinity THEN Below(i) \cup {i} ELSE Below(i)
  <2>1. \A j \in Nat : j < i + 1 <=> j < i \/ j = i
    OBVIOUS
  <2>. QED  BY <1>1, <2>1 DEF Below
<1>4. i \notin Below(i)
  BY DEF Below
<1>. QED  BY <1>2, <1>3, <1>4, FS_AddElement, FS_CardinalityType

(* Once the loop has started a thread, or passed a CPU, the facts hold of    *)
(* the next round.                                                           *)
LEMMA StartedCreate ==
  ASSUME TypeOK, StartedInv, LifeStep
  PROVE  StartedInv'
<1>. DEFINE i == loop.i
            t == loop.currThread
<1>0. i \in Nat /\ t \in Nat /\ NumThreads \in Nat /\ \A w \in Workers : w \in Nat
  BY ConstantsAssumption DEF TypeOK, Workers
<1>1. CASE StartWorker
  <2>1. /\ t < NumThreads /\ loop.pc = "loop" /\ Selected(i)
        /\ Affinity # NoAffinity => i < Cardinality(Affinity)
        /\ loop'.i = i + 1 /\ loop'.currThread = t + 1 /\ loop'.pc = "loop"
        /\ cpu' = [cpu EXCEPT ![t] = i]
        /\ wpc' = [wpc EXCEPT ![t] = "atWork"]
    BY <1>1 DEF StartWorker, MoreToStart, TypeOK
  <2>2. t \in Workers
    BY <1>0, <2>1 DEF Workers
  <2>3. /\ wpc'[t] = "atWork" /\ cpu'[t] = i
        /\ \A w \in Workers \ {t} : wpc'[w] = wpc[w] /\ cpu'[w] = cpu[w]
    BY <2>1, <2>2 DEF TypeOK
  <2>4. \A w \in Workers : wpc'[w] = "unborn" <=> w >= t + 1
    BY <1>0, <2>3 DEF StartedInv
  <2>5. \A w \in Workers : w < t => cpu'[w] = cpu[w] /\ cpu[w] < i /\ wpc[w] # "unborn"
    BY <1>0, <2>3 DEF StartedInv
  <2>6. ASSUME NEW w \in Workers, wpc'[w] # "unborn"
        PROVE  cpu'[w] < i + 1 /\ (Affinity # NoAffinity => cpu'[w] \in Affinity)
    <3>1. CASE w = t
      BY <1>0, <2>1, <2>3, <3>1 DEF Selected
    <3>2. CASE w # t
      <4>1. w < t
        BY <1>0, <2>4, <2>6, <3>2
      <4>2. cpu[w] \in Nat
        BY DEF TypeOK
      <4>. QED  BY <1>0, <2>5, <4>1, <4>2 DEF StartedInv
    <3>. QED  BY <3>1, <3>2
  <2>7. ASSUME NEW v \in Workers, NEW w \in Workers, wpc'[w] # "unborn", v < w
        PROVE  cpu'[v] < cpu'[w]
    <3>1. v < t /\ (w = t \/ w < t)
      BY <1>0, <2>4, <2>7
    <3>. QED  BY <2>3, <2>5, <2>7, <3>1 DEF StartedInv
  <2>8. Affinity # NoAffinity => /\ i + 1 <= Cardinality(Affinity)
                                 /\ t + 1 = Cardinality(Below(i + 1))
    <3>1. Affinity # NoAffinity => i \in Affinity /\ Cardinality(Affinity) \in Nat
      BY <2>1, ConstantsAssumption, FS_CardinalityType DEF Selected
    <3>. QED  BY <1>0, <2>1, <3>1, BelowNext DEF StartedInv
  <2>. QED
    <3>1. Below(loop'.i) = Below(i + 1)
      BY <2>1
    <3>. QED  BY <2>1, <2>4, <2>6, <2>7, <2>8, <3>1 DEF StartedInv, Below
<1>2. CASE SkipCPU
  <2>1. /\ loop.pc = "loop" /\ Affinity # NoAffinity /\ i \notin Affinity
        /\ i < Cardinality(Affinity)
        /\ loop'.i = i + 1 /\ loop'.currThread = t /\ loop'.pc = "loop"
        /\ cpu' = cpu /\ wpc' = wpc
    BY <1>2 DEF SkipCPU, MoreToStart, Selected, poolVars, TypeOK
  <2>2. /\ i + 1 <= Cardinality(Affinity)
        /\ t = Cardinality(Below(i + 1))
    <3>1. Cardinality(Affinity) \in Nat
      BY <2>1, ConstantsAssumption, FS_CardinalityType
    <3>. QED  BY <1>0, <2>1, <3>1, BelowNext DEF StartedInv
  <2>3. \A w \in Workers : wpc[w] # "unborn" => cpu[w] < i + 1
    <3>1. \A w \in Workers : cpu[w] \in Nat
      BY DEF TypeOK
    <3>. QED  BY <1>0, <3>1 DEF StartedInv
  <2>. QED  BY <2>1, <2>2, <2>3 DEF StartedInv, Below
<1>3. CASE PoolReady
  <2>1. /\ ~MoreToStart /\ loop'.i = i /\ loop'.currThread = t
        /\ cpu' = cpu /\ wpc' = wpc
    BY <1>3 DEF PoolReady, poolVars, TypeOK
  <2>. QED  BY <2>1 DEF StartedInv, Below, MoreToStart
<1>4. CASE \E c \in Callers : FreeThreadPool(c)
  <2>1. /\ loop.pc = "done" /\ loop'.i = i /\ loop'.currThread = t
        /\ cpu' = cpu /\ wpc' = wpc
    BY <1>4 DEF FreeThreadPool, poolVars, TypeOK
  <2>. QED  BY <2>1 DEF StartedInv, Below, MoreToStart
<1>. QED  BY <1>1, <1>2, <1>3, <1>4 DEF LifeStep, CreateStep

(* A thread once started is never unborn again. *)
LEMMA StartedOther ==
  ASSUME TypeOK, StartInv, StartedInv, loop' = loop, cpu' = cpu,
         \A w \in Workers : wpc'[w] = "unborn" <=> wpc[w] = "unborn"
  PROVE  StartedInv'
BY DEF StartedInv, Below, MoreToStart

(* Every step of the pool keeps what is known of the threads started. *)
LEMMA StartedStep ==
  ASSUME PoolInv, StartedInv, [Next]_vars
  PROVE  StartedInv'
<1>. USE DEF PoolInv
<1>1. CASE LifeStep
  BY <1>1, StartedCreate
<1>2. CASE \E c \in Callers, j \in Jobs : ExecuteOnThreadPool(c, j)
  BY <1>2, StartedOther DEF ExecuteOnThreadPool
<1>3. ASSUME NEW c \in Callers, CallStep(c) PROVE StartedInv'
  BY <1>3, StartedOther
     DEF CallStep, WrLock, Publish, CallerArrivesWork, WrUnlock,
         CallerArrivesDone, CallReturns
<1>4. ASSUME NEW w \in Workers, WorkerStep(w) PROVE StartedInv'
  <2>1. loop' = loop /\ cpu' = cpu
    BY <1>4 DEF WorkerStep, WorkerArrivesWork, RdLock, ReadJob, RdUnlock, RunJob,
                WorkerArrivesDone
  <2>2. \A v \in Workers : wpc'[v] = "unborn" <=> wpc[v] = "unborn"
    BY <1>4 DEF WorkerStep, WorkerArrivesWork, RdLock, ReadJob, RdUnlock, RunJob,
                WorkerArrivesDone, TypeOK
  <2>. QED  BY <2>1, <2>2, StartedOther
<1>5. CASE UNCHANGED vars
  BY <1>5, StartedOther DEF vars
<1>. QED  BY <1>1, <1>2, <1>3, <1>4, <1>5 DEF Next

(* When the loop has ended, it has started all threads or passed all CPUs.   *)
LEMMA StartedAll ==
  ASSUME TypeOK, StartedInv
  PROVE  AllThreadsStarted
<1>. SUFFICES ASSUME loop.pc # "loop" PROVE
       (\A w \in Workers : wpc[w] # "unborn") <=> EnoughLowCPUs
  BY DEF AllThreadsStarted, StartedInv
<1>0. /\ loop.i \in Nat /\ loop.currThread \in 0..NumThreads /\ NumThreads \in Nat \ {0}
      /\ ~MoreToStart
  BY ConstantsAssumption DEF TypeOK, StartedInv
<1>1. (\A w \in Workers : wpc[w] # "unborn") <=> loop.currThread = NumThreads
  <2>1. NumThreads - 1 \in Workers /\ \A w \in Workers : w \in Nat /\ w < NumThreads
    BY <1>0 DEF Workers
  <2>. QED  BY <1>0, <2>1 DEF StartedInv
<1>2. CASE Affinity = NoAffinity
  BY <1>0, <1>1, <1>2 DEF EnoughLowCPUs, MoreToStart
<1>3. CASE Affinity # NoAffinity
  <2>1. /\ IsFiniteSet(LowCPUs) /\ Cardinality(Affinity) \in Nat
    <3>1. IsFiniteSet(Affinity)
      BY <1>3, ConstantsAssumption
    <3>2. LowCPUs \in SUBSET Affinity
      BY DEF LowCPUs
    <3>3. IsFiniteSet(LowCPUs)
      BY <3>1, <3>2, FS_Subset
    <3>4. Cardinality(Affinity) \in Nat
      BY <3>1, FS_CardinalityType
    <3>. QED  BY <3>3, <3>4
  <2>2. /\ Below(loop.i) \subseteq LowCPUs
        /\ loop.i = Cardinality(Affinity) => Below(loop.i) = LowCPUs
    <3>1. Affinity \in SUBSET Nat /\ loop.i <= Cardinality(Affinity)
      BY <1>3, ConstantsAssumption DEF StartedInv
    <3>2. \A j \in Affinity : j < loop.i => j < Cardinality(Affinity)
      BY <1>0, <2>1, <3>1
    <3>3. Below(loop.i) \subseteq LowCPUs
      BY <3>2 DEF Below, LowCPUs
    <3>. QED  BY <3>3 DEF Below, LowCPUs
  <2>3. /\ Cardinality(Below(loop.i)) <= Cardinality(LowCPUs)
        /\ Cardinality(LowCPUs) \in Nat
    BY <2>1, <2>2, FS_Subset, FS_CardinalityType
  <2>4. /\ loop.currThread = Cardinality(Below(loop.i))
        /\ loop.i <= Cardinality(Affinity)
    BY <1>3 DEF StartedInv
  <2>5. CASE loop.currThread = NumThreads
    BY <1>1, <1>3, <2>3, <2>4, <2>5 DEF EnoughLowCPUs
  <2>6. CASE loop.currThread # NumThreads
    <3>1. loop.currThread < NumThreads
      BY <1>0, <2>6
    <3>2. loop.i = Cardinality(Affinity)
      BY <1>0, <1>3, <2>1, <2>4, <3>1 DEF MoreToStart
    <3>. QED  BY <1>0, <1>1, <1>3, <2>2, <2>3, <2>4, <3>1, <3>2 DEF EnoughLowCPUs
  <2>. QED  BY <2>5, <2>6
<1>. QED  BY <1>2, <1>3

(* createThreadPool() starts its threads in order, each bound to a CPU of    *)
(* its own out of the affinity string, and all of them if and only if enough *)
(* of the CPUs it names have a number below the number of CPUs it names: the *)
(* loop ends at CPU_COUNT and not at the largest CPU.                        *)
THEOREM ThreadsStarted == Spec => []AllThreadsStarted
<1>1. Init => StartedInv
  <2>. SUFFICES ASSUME Init PROVE StartedInv
    OBVIOUS
  <2>1. Affinity # NoAffinity => /\ Below(0) = {} /\ 0 <= Cardinality(Affinity)
    BY ConstantsAssumption, FS_CardinalityType DEF Below
  <2>2. Cardinality({}) = 0
    BY FS_EmptySet
  <2>. QED  BY <2>1, <2>2 DEF Init, StartedInv, Workers
<1>2. PoolInv /\ StartedInv /\ [Next]_vars => StartedInv'
  BY StartedStep
<1>3. PoolInv /\ StartedInv => AllThreadsStarted
  BY StartedAll DEF PoolInv
<1>. QED  BY <1>1, <1>2, <1>3, PoolInvariant, PTL DEF Spec
=============================================================================
