----------------------------- MODULE ThreadPool -----------------------------
(***************************************************************************)
(* The pthread-based pool (the NOOPENMP build of pumathreadpool.c):         *)
(* createThreadPool()'s loop that starts and pins the workers, the worker's *)
(* endless loop _threadPoolWorker, and executeOnThreadPool() as called by   *)
(* any number of threads (with STATIC_THREADPOOL every set shares the pool),*)
(* and freeThreadPool().                                                    *)
(*                                                                         *)
(* External, modelled from their POSIX contracts: a barrier of count n+1    *)
(* releases all its waiters when the last one arrives (the variables        *)
(* workWaitBarrier and doneBarrier hold the threads it still blocks), and a *)
(* rwlock admits one writer or any number of readers.                       *)
(***************************************************************************)
EXTENDS Naturals, FiniteSets

CONSTANTS
  NumThreads,  \* pool->numThreads
  Affinity,    \* CPUs named by affinityStr, or NoAffinity if it is NULL
  NoAffinity,
  Callers,     \* threads that call executeOnThreadPool()
  Jobs,        \* (workFunction, arg) pairs
  NoJob,
  NoCaller

Workers == 0..(NumThreads - 1)

ASSUME ConstantsAssumption ==
  /\ NumThreads \in Nat \ {0}
  /\ Affinity = NoAffinity \/ (Affinity \subseteq Nat /\ IsFiniteSet(Affinity))
  /\ NoCaller \notin Callers
  /\ NoJob \notin Jobs
  /\ Workers \cap Callers = {}

VARIABLES
  loop,              \* createThreadPool's i, currThread, and the pool's state
  cpu,               \* info->cpu of each worker
  wpc, local,        \* a worker's position and its copy of the job
  timed,             \* info->timeSeconds: the job whose run it measures
  pc, job,           \* a caller's position and the job it passed
  workFunction,      \* pool->workFunction and pool->arg
  writer, readers,   \* pool->workFunctionLock
  workWaitBarrier, doneBarrier,
  offsetOwner        \* the thread that _makeTimeKey ran on

vars == <<loop, cpu, wpc, local, timed, pc, job, workFunction, writer, readers,
          workWaitBarrier, doneBarrier, offsetOwner>>

poolVars == <<wpc, local, timed, pc, job, workFunction, writer, readers,
              workWaitBarrier, doneBarrier, offsetOwner>>

Threads == Workers \cup Callers

LoopPcs == {"loop", "done", "freed"}
WorkerPcs ==
  {"unborn", "atWork", "inWork", "read", "unlock", "run", "atDone", "inDone"}
CallerPcs ==
  {"idle", "lock", "write", "atWork", "inWork", "atDone", "inDone", "crashed"}

TypeOK ==
  /\ loop \in [i : Nat, currThread : 0..NumThreads, pc : LoopPcs]
  /\ cpu \in [Workers -> Nat]
  /\ wpc \in [Workers -> WorkerPcs]
  /\ local \in [Workers -> Jobs \cup {NoJob}]
  /\ timed \in [Workers -> Jobs \cup {NoJob}]
  /\ pc \in [Callers -> CallerPcs]
  /\ job \in [Callers -> Jobs \cup {NoJob}]
  /\ workFunction \in Jobs \cup {NoJob}
  /\ writer \in Callers \cup {NoCaller}
  /\ readers \subseteq Workers
  /\ workWaitBarrier \subseteq Threads
  /\ doneBarrier \subseteq Threads
  /\ offsetOwner \in Callers \cup {NoCaller}

Init ==
  /\ loop = [i |-> 0, currThread |-> 0, pc |-> "loop"]
  /\ cpu = [w \in Workers |-> 0]
  /\ wpc = [w \in Workers |-> "unborn"]
  /\ local = [w \in Workers |-> NoJob]
  /\ timed = [w \in Workers |-> NoJob]
  /\ pc = [c \in Callers |-> "idle"]
  /\ job = [c \in Callers |-> NoJob]
  /\ workFunction = NoJob
  /\ writer = NoCaller
  /\ readers = {}
  /\ workWaitBarrier = {}
  /\ doneBarrier = {}
  /\ offsetOwner = NoCaller

-----------------------------------------------------------------------------
(* createThreadPool *)

(* Mutant: one thread too many. *)
MoreToStartByOne ==
  /\ loop.currThread <= NumThreads
  /\ Affinity # NoAffinity => loop.i < Cardinality(Affinity)

(* The loops' conditions: with an affinity string i stops at CPU_COUNT. *)
MoreToStart ==
  /\ loop.currThread < NumThreads
  /\ Affinity # NoAffinity => loop.i < Cardinality(Affinity)

(* Mutant: a CPU that affinityStr does not name is used too. *)
SelectedAny(i) == TRUE

Selected(i) == Affinity # NoAffinity => i \in Affinity

StartWorker ==
  /\ loop.pc = "loop"
  /\ MoreToStart
  /\ Selected(loop.i)
  /\ cpu' = [cpu EXCEPT ![loop.currThread] = loop.i]
  /\ wpc' = [wpc EXCEPT ![loop.currThread] = "atWork"]
  /\ loop' = [loop EXCEPT !.i = @ + 1, !.currThread = @ + 1]
  /\ UNCHANGED <<local, timed, pc, job, workFunction, writer, readers,
                 workWaitBarrier, doneBarrier, offsetOwner>>

SkipCPU ==
  /\ loop.pc = "loop"
  /\ MoreToStart
  /\ ~Selected(loop.i)
  /\ loop' = [loop EXCEPT !.i = @ + 1]
  /\ UNCHANGED <<cpu, poolVars>>

PoolReady ==
  /\ loop.pc = "loop"
  /\ ~MoreToStart
  /\ loop' = [loop EXCEPT !.pc = "done"]
  /\ UNCHANGED <<cpu, poolVars>>

-----------------------------------------------------------------------------
(* pthread_barrier_wait: the last of NumThreads + 1 arrivals frees them all. *)
Arrive(barrier, t) ==
  IF Cardinality(barrier) = NumThreads THEN {} ELSE barrier \cup {t}

(* executeOnThreadPool *)

ExecuteOnThreadPool(c, j) ==
  /\ loop.pc = "done"
  /\ pc[c] = "idle"
  /\ pc' = [pc EXCEPT ![c] = "lock"]
  /\ job' = [job EXCEPT ![c] = j]
  /\ UNCHANGED <<loop, cpu, wpc, local, timed, workFunction, writer, readers,
                 workWaitBarrier, doneBarrier, offsetOwner>>

WrLock(c) ==
  /\ pc[c] = "lock"
  /\ writer = NoCaller
  /\ readers = {}
  /\ writer' = c
  /\ pc' = [pc EXCEPT ![c] = "write"]
  /\ UNCHANGED <<loop, cpu, wpc, local, timed, job, workFunction, readers,
                 workWaitBarrier, doneBarrier, offsetOwner>>

Publish(c) ==
  /\ pc[c] = "write"
  /\ workFunction' = job[c]
  /\ pc' = [pc EXCEPT ![c] = "atWork"]
  /\ UNCHANGED <<loop, cpu, wpc, local, timed, job, writer, readers,
                 workWaitBarrier, doneBarrier, offsetOwner>>

CallerArrivesWork(c) ==
  /\ pc[c] = "atWork"
  /\ workWaitBarrier' = Arrive(workWaitBarrier, c)
  /\ pc' = [pc EXCEPT ![c] = "inWork"]
  /\ UNCHANGED <<loop, cpu, wpc, local, timed, job, workFunction, writer,
                 readers, doneBarrier, offsetOwner>>

WrUnlock(c) ==
  /\ pc[c] = "inWork"
  /\ c \notin workWaitBarrier
  /\ writer' = NoCaller
  /\ pc' = [pc EXCEPT ![c] = "atDone"]
  /\ UNCHANGED <<loop, cpu, wpc, local, timed, job, workFunction, readers,
                 workWaitBarrier, doneBarrier, offsetOwner>>

CallerArrivesDone(c) ==
  /\ pc[c] = "atDone"
  /\ doneBarrier' = Arrive(doneBarrier, c)
  /\ pc' = [pc EXCEPT ![c] = "inDone"]
  /\ UNCHANGED <<loop, cpu, wpc, local, timed, job, workFunction, writer,
                 readers, workWaitBarrier, offsetOwner>>

(* Mutant: the caller does not wait for the workers. *)
CallReturnsEarly(c) ==
  /\ pc[c] = "inDone"
  /\ offsetOwner' = IF offsetOwner = NoCaller THEN c ELSE offsetOwner
  /\ pc' = [pc EXCEPT ![c] = IF offsetOwner' = c THEN "idle" ELSE "crashed"]
  /\ UNCHANGED <<loop, cpu, wpc, local, timed, job, workFunction, writer,
                 readers, workWaitBarrier, doneBarrier>>

(* The maximum of the threads' times is added to the caller's own offset.   *)
(* pthread_once creates the key and gives a value to the first thread that  *)
(* comes here only: on any other, pthread_getspecific returns NULL.         *)
CallReturns(c) ==
  /\ pc[c] = "inDone"
  /\ c \notin doneBarrier
  /\ offsetOwner' = IF offsetOwner = NoCaller THEN c ELSE offsetOwner
  /\ pc' = [pc EXCEPT ![c] = IF offsetOwner' = c THEN "idle" ELSE "crashed"]
  /\ UNCHANGED <<loop, cpu, wpc, local, timed, job, workFunction, writer,
                 readers, workWaitBarrier, doneBarrier>>

(* freeThreadPool, called by the owner of the pool.  The workers are not     *)
(* joined: pthread_cancel only asks them to end, and the barrier they wait   *)
(* in is no cancellation point.                                             *)
FreeThreadPool(c) ==
  /\ loop.pc = "done"
  /\ pc[c] = "idle"
  /\ loop' = [loop EXCEPT !.pc = "freed"]
  /\ UNCHANGED <<cpu, poolVars>>

-----------------------------------------------------------------------------
(* _threadPoolWorker *)

WorkerArrivesWork(w) ==
  /\ \/ wpc[w] = "atWork"
     \/ wpc[w] = "inDone" /\ w \notin doneBarrier
  /\ workWaitBarrier' = Arrive(workWaitBarrier, w)
  /\ wpc' = [wpc EXCEPT ![w] = "inWork"]
  /\ UNCHANGED <<loop, cpu, local, timed, pc, job, workFunction, writer,
                 readers, doneBarrier, offsetOwner>>

(* Mutant: the job is read without the lock. *)
RdLockNoWait(w) ==
  /\ wpc[w] = "inWork"
  /\ w \notin workWaitBarrier
  /\ readers' = readers \cup {w}
  /\ wpc' = [wpc EXCEPT ![w] = "read"]
  /\ UNCHANGED <<loop, cpu, local, timed, pc, job, workFunction, writer,
                 workWaitBarrier, doneBarrier, offsetOwner>>

RdLock(w) ==
  /\ wpc[w] = "inWork"
  /\ w \notin workWaitBarrier
  /\ writer = NoCaller
  /\ readers' = readers \cup {w}
  /\ wpc' = [wpc EXCEPT ![w] = "read"]
  /\ UNCHANGED <<loop, cpu, local, timed, pc, job, workFunction, writer,
                 workWaitBarrier, doneBarrier, offsetOwner>>

(* Mutant: a worker keeps the first job it read. *)
ReadJobOnce(w) ==
  /\ wpc[w] = "read"
  /\ local' = [local EXCEPT ![w] = IF @ = NoJob THEN workFunction ELSE @]
  /\ wpc' = [wpc EXCEPT ![w] = "unlock"]
  /\ UNCHANGED <<loop, cpu, timed, pc, job, workFunction, writer, readers,
                 workWaitBarrier, doneBarrier, offsetOwner>>

ReadJob(w) ==
  /\ wpc[w] = "read"
  /\ local' = [local EXCEPT ![w] = workFunction]
  /\ wpc' = [wpc EXCEPT ![w] = "unlock"]
  /\ UNCHANGED <<loop, cpu, timed, pc, job, workFunction, writer, readers,
                 workWaitBarrier, doneBarrier, offsetOwner>>

RdUnlock(w) ==
  /\ wpc[w] = "unlock"
  /\ readers' = readers \ {w}
  /\ wpc' = [wpc EXCEPT ![w] = "run"]
  /\ UNCHANGED <<loop, cpu, local, timed, pc, job, workFunction, writer,
                 workWaitBarrier, doneBarrier, offsetOwner>>

(* Mutant: the worker takes the job again instead of reporting it done. *)
RunJobAgain(w) ==
  /\ wpc[w] = "run"
  /\ timed' = [timed EXCEPT ![w] = local[w]]
  /\ wpc' = [wpc EXCEPT ![w] = "inWork"]
  /\ UNCHANGED <<loop, cpu, local, pc, job, workFunction, writer, readers,
                 workWaitBarrier, doneBarrier, offsetOwner>>

RunJob(w) ==
  /\ wpc[w] = "run"
  /\ timed' = [timed EXCEPT ![w] = local[w]]
  /\ wpc' = [wpc EXCEPT ![w] = "atDone"]
  /\ UNCHANGED <<loop, cpu, local, pc, job, workFunction, writer, readers,
                 workWaitBarrier, doneBarrier, offsetOwner>>

WorkerArrivesDone(w) ==
  /\ wpc[w] = "atDone"
  /\ doneBarrier' = Arrive(doneBarrier, w)
  /\ wpc' = [wpc EXCEPT ![w] = "inDone"]
  /\ UNCHANGED <<loop, cpu, local, timed, pc, job, workFunction, writer,
                 readers, workWaitBarrier, offsetOwner>>

-----------------------------------------------------------------------------
CreateStep == StartWorker \/ SkipCPU \/ PoolReady

LifeStep == CreateStep \/ \E c \in Callers : FreeThreadPool(c)

CallStep(c) ==
  \/ WrLock(c) \/ Publish(c) \/ CallerArrivesWork(c) \/ WrUnlock(c)
  \/ CallerArrivesDone(c) \/ CallReturns(c)

WorkerStep(w) ==
  \/ WorkerArrivesWork(w) \/ RdLock(w) \/ ReadJob(w) \/ RdUnlock(w)
  \/ RunJob(w) \/ WorkerArrivesDone(w)

Next ==
  \/ LifeStep
  \/ \E c \in Callers, j \in Jobs : ExecuteOnThreadPool(c, j)
  \/ \E c \in Callers : CallStep(c)
  \/ \E w \in Workers : WorkerStep(w)

Spec == Init /\ [][Next]_vars

(* The operating system runs every thread that is not blocked; whether and  *)
(* when a thread makes a call is its own affair.                            *)
FairSpec ==
  /\ Spec
  /\ WF_vars(CreateStep)
  /\ \A c \in Callers : WF_vars(CallStep(c))
  /\ \A w \in Workers : WF_vars(WorkerStep(w))

-----------------------------------------------------------------------------
(* Properties *)

(* Threads of the pool are started in order, each bound to a CPU of its own  *)
(* out of the affinity string, and all of them are if and only if enough of *)
(* the CPUs it names have a number below the number of CPUs it names.       *)
LowCPUs == {i \in Affinity : i < Cardinality(Affinity)}

EnoughLowCPUs == Affinity # NoAffinity => Cardinality(LowCPUs) >= NumThreads

AllThreadsStarted ==
  loop.pc # "loop" =>
    /\ (\A w \in Workers : wpc[w] # "unborn") <=> EnoughLowCPUs
    /\ \A w \in Workers : Affinity # NoAffinity /\ wpc[w] # "unborn" =>
         cpu[w] \in Affinity
    /\ \A v, w \in Workers : wpc[w] # "unborn" /\ v < w => cpu[v] < cpu[w]

(* From the trip of workWaitBarrier to that of doneBarrier a call is being   *)
(* served; a worker has done its part once it has run what it read.         *)
Serving(c) ==
  \/ pc[c] = "inWork" /\ c \notin workWaitBarrier
  \/ pc[c] = "atDone"
  \/ pc[c] = "inDone" /\ c \in doneBarrier

Finished(w) == wpc[w] = "atDone" \/ (wpc[w] = "inDone" /\ w \in doneBarrier)

Call == {<<c, job[c]>> : c \in {d \in Callers : Serving(d)}}
Done == {w \in Workers : Finished(w)}

Abstract == INSTANCE ParallelExec WITH call <- Call, done <- Done, ran <- timed

(* The two barriers and the lock implement fork and join for any number of  *)
(* callers: calls are served one at a time, every thread runs the job of    *)
(* the call being served and no other, and the call ends after all of them. *)
ImplementsParallelExec == Abstract!Spec

(* After its call the caller sums up the threads' times without a lock.     *)
(* They are the times of its own job, and all of them.                      *)
TimesAreOwn ==
  \A c \in Callers : pc[c] = "inDone" /\ c \notin doneBarrier =>
    \A w \in Workers : timed[w] = job[c]

(* executeOnThreadPool() does not block for ever: no caller is left in a     *)
(* barrier or waiting for the lock.  (A crash ends the call as well.)       *)
CallsReturn ==
  \A c \in Callers : pc[c] = "lock" ~> pc[c] \in {"idle", "crashed"}

(* The inductive invariant behind ImplementsParallelExec.                   *)

(* A worker is busy from the trip of workWaitBarrier to that of doneBarrier. *)
Busy(w) ==
  \/ wpc[w] = "inWork" /\ w \notin workWaitBarrier
  \/ wpc[w] \in {"read", "unlock", "run"}
  \/ Finished(w)

(* Where one thread owns the pool, freeThreadPool comes after the join: no   *)
(* worker is in a job, or about to fetch one from the memory just freed.    *)
FreedPoolIdle == loop.pc = "freed" => \A w \in Workers : ~Busy(w)

StartInv == \A w \in Workers : w >= loop.currThread => wpc[w] = "unborn"

LockInv ==
  /\ \A c \in Callers : writer = c <=> pc[c] \in {"write", "atWork", "inWork"}
  /\ \A w \in Workers : w \in readers <=> wpc[w] \in {"read", "unlock"}
  /\ writer # NoCaller => readers = {}

BarrierInv ==
  /\ \A w \in Workers : /\ w \in workWaitBarrier => wpc[w] = "inWork"
                        /\ w \in doneBarrier => wpc[w] = "inDone"
  /\ \A c \in Callers : /\ c \in workWaitBarrier => pc[c] = "inWork"
                        /\ c \in doneBarrier => pc[c] = "inDone"

ServeInv ==
  /\ \A c, d \in Callers : Serving(c) /\ Serving(d) => c = d
  /\ \A w \in Workers : Busy(w) <=> \E c \in Callers : Serving(c)

JobInv ==
  /\ \A c \in Callers :
       /\ pc[c] \notin {"idle", "crashed"} => job[c] \in Jobs
       /\ pc[c] \in {"atWork", "inWork"} => workFunction = job[c]
  /\ \A c \in Callers : Serving(c) =>
       /\ writer = NoCaller => workFunction = job[c]
       /\ \A w \in Workers :
            /\ wpc[w] \in {"unlock", "run"} => local[w] = job[c]
            /\ Finished(w) => timed[w] = job[c]

(* Who may be where: the lock excludes, a barrier holds only threads that   *)
(* wait in it, all workers are busy while a call is served and none is      *)
(* otherwise, a worker reads the job of the call being served although the  *)
(* next caller may already have taken the lock, and reports on no other.    *)
PoolInv == TypeOK /\ StartInv /\ LockInv /\ BarrierInv /\ ServeInv /\ JobInv
=============================================================================
