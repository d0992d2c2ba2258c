------------------------------ MODULE PumaSet ------------------------------
(***************************************************************************)
(* A pumaSet from its creation to its destruction, as the thread that owns  *)
(* it sees it (pumaset.c, pumakernel.c, pumadomain.c, the NUMA build with   *)
(* the pthread pool): which thread list a thread finds, and the calls that  *)
(* are spread over the pool.  The pool is ParallelExec, which ThreadPool    *)
(* implements: each call below forks a job, every worker runs it, and the   *)
(* call goes on after the join.  Within a job the workers' steps interleave.*)
(*                                                                         *)
(* What PumaThreadList and Balance show is assumed here: a thread list is a *)
(* set of elements, the walk of a one-way kernel over one's own list gives  *)
(* it all that is in it, that of any other kernel only some of it, and the  *)
(* balancer moves elements between active lists only.  As PumaThreadList    *)
(* does, this leaves out the pumalloc() of its DrainedTail.                 *)
(***************************************************************************)
EXTENDS Naturals, FiniteSets

CONSTANTS
  NodeOf,       \* numa_node_of_cpu: the NUMA domain of each CPU
  NumThreads,   \* set->numThreads, also the size of the pool
  Affinity,     \* CPUs named by threadAffinity, or NoAffinity if it is NULL
  NoAffinity,
  Elems,        \* identities of elements
  MaxKernels,   \* longest list of kernels given to runKernelList
  NoList,
  NoJob

CPUs == DOMAIN NodeOf
Domains == {NodeOf[c] : c \in CPUs}
Workers == 0..(NumThreads - 1)
Jobs == {"setup", "run", "cleanup", "count", "destroy"}
Owner == "owner"

(* The CPUs createThreadPool gives to its workers, in order (ThreadPool). *)
PoolCPUs ==
  IF Affinity = NoAffinity THEN Workers
  ELSE {c \in Affinity : c < Cardinality(Affinity)}

ASSUME SetAssumption ==
  /\ CPUs \subseteq Nat /\ 0 \in CPUs /\ IsFiniteSet(CPUs)
  /\ Domains \subseteq Nat
  /\ NumThreads \in Nat \ {0}
  /\ PoolCPUs \subseteq CPUs
  /\ Cardinality(PoolCPUs) >= NumThreads
  /\ MaxKernels \in Nat
  /\ IsFiniteSet(Elems)
  /\ NoList \notin Domains \X Nat

VARIABLES
  pcOwner,           \* where the owner is in its call, "idle" between calls
  call, done, ran,   \* the pool: see ParallelExec
  active,            \* the lists with tl->active
  sized,             \* the lists with tl->elementSize set, it is 0 on others
  tidToThreadList,
  home,              \* the NUMA node each domain's lists were bound to
  autoBalance,
  where,             \* the list that holds each element
  numKernels, next,  \* runKernelList's argument, _runKernelWorker's i
  oneWay,            \* which of its kernels at most free what they are given
  extraData,         \* state of each thread's extra data
  sums,              \* getNumElements' array
  applied, owed      \* history: what each kernel got, and what it had to get

poolVars == <<call, done, ran>>
setVars == <<active, sized, tidToThreadList, home, autoBalance>>
kernelVars == <<numKernels, oneWay, next, extraData, applied, owed>>
vars == <<pcOwner, poolVars, setVars, where, kernelVars, sums>>

Pool == INSTANCE ParallelExec WITH Callers <- {Owner}

-----------------------------------------------------------------------------
(* Threads, CPUs and lists *)

(* pumaGetCPUNum: a worker's CPU, and that of a thread the pool did not start. *)
CPUOf(w) == CHOOSE c \in PoolCPUs : Cardinality({d \in PoolCPUs : d < c}) = w
OtherCPU == 0

(* Mutant: the current CPU is counted as well. *)
CPUIndexFromOne(c) == Cardinality({d \in CPUs : NodeOf[d] = NodeOf[c] /\ d <= c})

(* _getCurrentCPUIndexInDomain: the weight of the mask of the domain's CPUs, *)
(* cut off at the current one.                                              *)
CPUIndexInDomain(c) == Cardinality({d \in CPUs : NodeOf[d] = NodeOf[c] /\ d < c})

(* _getListForCurrentThread *)
ListOfCPU(c) == <<NodeOf[c], CPUIndexInDomain(c)>>
ListFor(w) == ListOfCPU(CPUOf(w))
OwnerList == ListOfCPU(OtherCPU)

(* initDomain allocates one list for each CPU of the domain. *)
NumListsInDomain(d) == Cardinality({c \in CPUs : NodeOf[c] = d})
Lists ==
  {l \in Domains \X (0..Cardinality(CPUs)) : l[2] < NumListsInDomain(l[1])}

(* numalloc_on_node: bit domain % sizeof(long) of word domain / sizeof(long). *)
LongBytes == 8
LongBits == 64
BoundNode(d) == LongBits * (d \div LongBytes) + (d % LongBytes)

Live == {e \in Elems : where[e] # NoList}
ElemsOn(l) == {e \in Elems : where[e] = l}
Fresh == Elems \ Live

Init ==
  /\ pcOwner = "none"
  /\ Pool!Init
  /\ active = {}
  /\ sized = {}
  /\ tidToThreadList = [w \in Workers |-> NoList]
  /\ home = [d \in Domains |-> NoList]
  /\ autoBalance = TRUE
  /\ where = [e \in Elems |-> NoList]
  /\ numKernels = 0
  /\ oneWay = {}
  /\ next = [w \in Workers |-> 0]
  /\ extraData = [w \in Workers |-> "none"]
  /\ sums = [w \in Workers |-> 0]
  /\ applied = [k \in 1..MaxKernels |-> {}]
  /\ owed = {}

(* Entering and leaving executeOnThreadPool. *)
Fork(job) == Pool!Fork(Owner, job) /\ pcOwner' = job
Join(job, then) == pcOwner = job /\ Pool!Join /\ pcOwner' = then
InJob(w, job) == call = {<<Owner, job>>} /\ w \notin done

-----------------------------------------------------------------------------
(* createPumaSet *)
CreatePumaSet ==
  /\ pcOwner = "none"
  /\ Fork("setup")
  /\ active' = {}
  /\ sized' = {}
  /\ tidToThreadList' = [w \in Workers |-> NoList]
  /\ home' = [d \in Domains |-> BoundNode(d)]
  /\ autoBalance' = TRUE
  /\ UNCHANGED <<where, kernelVars, sums>>

(* Mutant: the list does not learn how large elements are. *)
SetupUnsized(w) ==
  /\ InJob(w, "setup")
  /\ Pool!Run(w)
  /\ active' = active \cup {ListFor(w)}
  /\ tidToThreadList' = [tidToThreadList EXCEPT ![w] = ListFor(w)]
  /\ UNCHANGED <<pcOwner, sized, home, autoBalance, where, kernelVars, sums>>

SetupThreadListsWorker(w) ==
  /\ InJob(w, "setup")
  /\ Pool!Run(w)
  /\ active' = active \cup {ListFor(w)}
  /\ sized' = sized \cup {ListFor(w)}
  /\ tidToThreadList' = [tidToThreadList EXCEPT ![w] = ListFor(w)]
  /\ UNCHANGED <<pcOwner, home, autoBalance, where, kernelVars, sums>>

SetupReturns ==
  /\ Join("setup", "idle")
  /\ UNCHANGED <<setVars, where, kernelVars, sums>>

-----------------------------------------------------------------------------
(* Calls between kernels *)

(* A list that was not set up has no chunk, so one is appended, for elements *)
(* of size 0, by which createPumaBitmaskForElemArray (its assertion) or      *)
(* _getIndexOfElementOnNode divides.                                         *)
PumallocOn(l, e) ==
  /\ pcOwner = "idle"
  /\ e \in Fresh
  /\ pcOwner' = IF l \in sized THEN "idle" ELSE "crashed"
  /\ where' = IF l \in sized THEN [where EXCEPT ![e] = l] ELSE where
  /\ UNCHANGED <<poolVars, setVars, kernelVars, sums>>

Pumalloc(e) == PumallocOn(OwnerList, e)

(* The user's splitter names the thread. *)
PumallocManualBalancing(e, w) == PumallocOn(tidToThreadList[w], e)

Pufree(e) ==
  /\ pcOwner = "idle"
  /\ e \in Live
  /\ where' = [where EXCEPT ![e] = NoList]
  /\ UNCHANGED <<pcOwner, poolVars, setVars, kernelVars, sums>>

PumaSetBalancer(auto) ==
  /\ pcOwner = "idle"
  /\ autoBalance' = auto
  /\ UNCHANGED <<pcOwner, poolVars, active, sized, tidToThreadList, home, where,
                 kernelVars, sums>>

-----------------------------------------------------------------------------
(* Kernels *)

(* Mutant: lists that belong to no thread take part. *)
BalancedOverAll ==
  LET movable == {e \in Live : where[e] \in active}
  IN  IF ~autoBalance THEN {where}
      ELSE {[e \in Elems |-> IF e \in movable THEN to[e] ELSE where[e]] :
              to \in [movable -> Lists]}

(* _balanceThreadLoad: inactive lists are skipped. *)
Balanced ==
  LET movable == {e \in Live : where[e] \in active}
  IN  IF ~autoBalance THEN {where}
      ELSE {[e \in Elems |-> IF e \in movable THEN to[e] ELSE where[e]] :
              to \in [movable -> active]}

(* What the walk of kernel k of the call gives it of list l: see OneWay and  *)
(* KernelCoverage in PumaThreadList.                                        *)
Given(k, l) == IF k \in oneWay THEN {ElemsOn(l)} ELSE SUBSET ElemsOn(l)

(* Where elements can be after a kernel has got those of `given' on list l. *)
(* A one-way kernel frees some of them; another, once it is called, may free *)
(* any element of the list and allocate on it.                              *)
AfterWalk(at, l, given, isOneWay) ==
  LET mayFree == IF isOneWay THEN given ELSE {e \in Elems : at[e] = l}
      mayAdd == IF isOneWay THEN {} ELSE {e \in Elems : at[e] = NoList}
  IN  IF given = {} THEN {at}
      ELSE {[e \in Elems |-> IF e \in gone THEN NoList
                             ELSE IF e \in new THEN l ELSE at[e]] :
              gone \in SUBSET mayFree, new \in SUBSET mayAdd}

RunKernelList(n, ow) ==
  /\ pcOwner = "idle"
  /\ where' \in Balanced
  /\ Fork("run")
  /\ numKernels' = n
  /\ oneWay' = ow
  /\ owed' = Live
  /\ UNCHANGED <<setVars, next, extraData, applied, sums>>

(* _runKernelWorker: constructor, one walk for each kernel, thread reduce. *)
ExtraDataConstructor(w) ==
  /\ InJob(w, "run")
  /\ extraData[w] = "none"
  /\ extraData' = [extraData EXCEPT ![w] = "made"]
  /\ UNCHANGED <<pcOwner, poolVars, setVars, where, numKernels, oneWay, next,
                 applied, owed, sums>>

RunKernelThread(w) ==
  LET k == next[w] + 1
  IN  /\ InJob(w, "run")
      /\ extraData[w] = "made"
      /\ k <= numKernels
      /\ next' = [next EXCEPT ![w] = k]
      /\ \E given \in Given(k, ListFor(w)) :
           /\ applied' = [applied EXCEPT ![k] = @ \cup given]
           /\ where' \in AfterWalk(where, ListFor(w), given, k \in oneWay)
      /\ owed' = {e \in owed : where'[e] # NoList}
      /\ UNCHANGED <<pcOwner, poolVars, setVars, numKernels, oneWay, extraData,
                     sums>>

(* Mutant: a thread without elements does not finish its job. *)
ReduceNonEmpty(w) ==
  /\ InJob(w, "run")
  /\ ElemsOn(ListFor(w)) # {}
  /\ extraData[w] = "made"
  /\ next[w] = numKernels
  /\ Pool!Run(w)
  /\ extraData' = [extraData EXCEPT ![w] = "reduced"]
  /\ UNCHANGED <<pcOwner, setVars, where, numKernels, oneWay, next, applied, owed,
                 sums>>

ExtraDataThreadReduce(w) ==
  /\ InJob(w, "run")
  /\ extraData[w] = "made"
  /\ next[w] = numKernels
  /\ Pool!Run(w)
  /\ extraData' = [extraData EXCEPT ![w] = "reduced"]
  /\ UNCHANGED <<pcOwner, setVars, where, numKernels, oneWay, next, applied, owed,
                 sums>>

RunReturns ==
  /\ Join("run", "reduce")
  /\ UNCHANGED <<setVars, where, kernelVars, sums>>

(* Mutant: the extra data is not handed to its destructor. *)
ReduceOnly ==
  /\ pcOwner = "reduce"
  /\ pcOwner' = "idle"
  /\ UNCHANGED <<poolVars, setVars, where, kernelVars, sums>>

(* extraDataReduce over the array, then the second use of the pool. *)
ExtraDataReduce ==
  /\ pcOwner = "reduce"
  /\ Fork("cleanup")
  /\ UNCHANGED <<setVars, where, kernelVars, sums>>

(* _cleanupKernelWorker *)
ExtraDataDestructor(w) ==
  /\ InJob(w, "cleanup")
  /\ Pool!Run(w)
  /\ extraData' = [extraData EXCEPT ![w] = "none"]
  /\ UNCHANGED <<pcOwner, setVars, where, numKernels, oneWay, next, applied, owed,
                 sums>>

RunKernelListReturns ==
  /\ Join("cleanup", "idle")
  /\ numKernels' = 0
  /\ oneWay' = {}
  /\ next' = [w \in Workers |-> 0]
  /\ applied' = [k \in 1..MaxKernels |-> {}]
  /\ owed' = {}
  /\ UNCHANGED <<setVars, where, extraData, sums>>

(* runKernelCurrentThread on the owner's thread: balance, then the walk of  *)
(* any kernel over its own list with extra data of its own; the pool has no *)
(* part in it.                                                              *)
RunKernelCurrentThread ==
  /\ pcOwner = "idle"
  /\ \E at \in Balanced :
       LET given == {e \in Elems : at[e] = OwnerList}
       IN  where' \in AfterWalk(at, OwnerList, given, FALSE)
  /\ UNCHANGED <<pcOwner, poolVars, setVars, kernelVars, sums>>

-----------------------------------------------------------------------------
(* getNumElements *)
GetNumElements ==
  /\ pcOwner = "idle"
  /\ Fork("count")
  /\ sums' = [w \in Workers |-> 0]
  /\ UNCHANGED <<setVars, where, kernelVars>>

(* Mutant: the array is indexed by the thread's place in its domain. *)
CountByIndex(w) ==
  /\ InJob(w, "count")
  /\ Pool!Run(w)
  /\ sums' = [sums EXCEPT ![ListFor(w)[2]] = Cardinality(ElemsOn(ListFor(w)))]
  /\ UNCHANGED <<pcOwner, setVars, where, kernelVars>>

GetNumElementsWorker(w) ==
  /\ InJob(w, "count")
  /\ Pool!Run(w)
  /\ sums' = [sums EXCEPT ![w] = @ + Cardinality(ElemsOn(ListFor(w)))]
  /\ UNCHANGED <<pcOwner, setVars, where, kernelVars>>

CountReturns ==
  /\ Join("count", "counted")
  /\ UNCHANGED <<setVars, where, kernelVars, sums>>

SumUp ==
  /\ pcOwner = "counted"
  /\ pcOwner' = "idle"
  /\ sums' = [w \in Workers |-> 0]
  /\ UNCHANGED <<poolVars, setVars, where, kernelVars>>

-----------------------------------------------------------------------------
(* destroyPumaSet; the pool stays. *)
DestroyPumaSet ==
  /\ pcOwner = "idle"
  /\ Fork("destroy")
  /\ UNCHANGED <<setVars, where, kernelVars, sums>>

(* Mutant: every thread frees the first thread's list. *)
DestroyFirstList(w) ==
  /\ InJob(w, "destroy")
  /\ Pool!Run(w)
  /\ where' = [e \in Elems |-> IF where[e] = tidToThreadList[0] THEN NoList
                               ELSE where[e]]
  /\ UNCHANGED <<pcOwner, setVars, kernelVars, sums>>

DestroyThreadListWorker(w) ==
  /\ InJob(w, "destroy")
  /\ Pool!Run(w)
  /\ where' = [e \in Elems |-> IF where[e] = ListFor(w) THEN NoList ELSE where[e]]
  /\ UNCHANGED <<pcOwner, setVars, kernelVars, sums>>

DestroyReturns ==
  /\ Join("destroy", "none")
  /\ UNCHANGED <<setVars, where, kernelVars, sums>>

-----------------------------------------------------------------------------
OwnerInCall ==
  \/ SetupReturns \/ RunReturns \/ ExtraDataReduce \/ RunKernelListReturns
  \/ CountReturns \/ SumUp \/ DestroyReturns

WorkerStep(w) ==
  \/ SetupThreadListsWorker(w) \/ ExtraDataConstructor(w) \/ RunKernelThread(w)
  \/ ExtraDataThreadReduce(w) \/ ExtraDataDestructor(w)
  \/ GetNumElementsWorker(w) \/ DestroyThreadListWorker(w)

OwnerCalls ==
  \/ CreatePumaSet \/ GetNumElements \/ DestroyPumaSet \/ RunKernelCurrentThread
  \/ \E e \in Elems : Pumalloc(e) \/ Pufree(e)
  \/ \E e \in Elems, w \in Workers : PumallocManualBalancing(e, w)
  \/ \E auto \in BOOLEAN : PumaSetBalancer(auto)
  \/ \E n \in 0..MaxKernels : \E ow \in SUBSET (1..n) : RunKernelList(n, ow)

Next == OwnerCalls \/ OwnerInCall \/ \E w \in Workers : WorkerStep(w)

Spec == Init /\ [][Next]_vars

(* Workers run, and the owner goes on after a join; it need not call again. *)
FairSpec ==
  /\ Spec
  /\ WF_vars(OwnerInCall)
  /\ \A w \in Workers : WF_vars(WorkerStep(w))

-----------------------------------------------------------------------------
(* Properties *)

Ready == pcOwner \notin {"none", "setup"}

(* Threads share no list, the list a thread looks up by its CPU is the one  *)
(* registered under its number, exactly these are active and know the size  *)
(* of an element, they are among those that initDomain allocated, and they  *)
(* lie on the thread's own node.                                            *)
ListsAgree ==
  Ready =>
    /\ \A w \in Workers : tidToThreadList[w] = ListFor(w) /\ ListFor(w) \in Lists
    /\ \A v, w \in Workers : ListFor(v) = ListFor(w) => v = w
    /\ active = {ListFor(w) : w \in Workers} /\ sized = active
    /\ \A w \in Workers : home[ListFor(w)[1]] = NodeOf[CPUOf(w)]

(* runKernelList() applies each of its one-way kernels to all elements that *)
(* were there when it was called and have not been freed since, whatever    *)
(* the kernels between them free and allocate; and no kernel gets such an   *)
(* element before the one-way kernels ahead of it in the list, although no  *)
(* thread waits for another between kernels.                                *)
KernelsReachAll ==
  /\ pcOwner = "reduce" => \A k \in oneWay : owed \subseteq applied[k]
  /\ \A j \in oneWay, k \in 1..MaxKernels :
       j < k => applied[k] \cap owed \subseteq applied[j]

(* The reduction finds every thread's extra data made and reduced on its    *)
(* thread and none destroyed; after the call every one has been destroyed.  *)
ExtraDataPaired ==
  /\ pcOwner = "reduce" => \A w \in Workers : extraData[w] = "reduced"
  /\ pcOwner \notin {"run", "reduce", "cleanup"} =>
       \A w \in Workers : extraData[w] = "none"

Total[n \in 0..NumThreads] == IF n = 0 THEN 0 ELSE Total[n - 1] + sums[n - 1]

(* getNumElements() returns the number of elements in the set, wherever     *)
(* they were allocated and whatever the balancer did with them.             *)
CountIsExact == pcOwner = "counted" => Total[NumThreads] = Cardinality(Live)

(* destroyPumaSet() leaves no element behind. *)
DestroyedAll == pcOwner = "none" => Live = {}

(* pumalloc() adds an element to the set and returns it, on the owner's     *)
(* thread as on the pool's.                                                 *)
PumallocReturns == pcOwner # "crashed"

(* Every call of the owner returns. *)
OwnerReturns ==
  pcOwner \notin {"idle", "none"} ~> pcOwner \in {"idle", "none"}
=============================================================================
