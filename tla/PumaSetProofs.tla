--------------------------- MODULE PumaSetProofs ---------------------------
(***************************************************************************)
(* The life of a set, for any number of CPUs, domains, threads, elements   *)
(* and kernels: threads and lists are matched one to one, extra data is    *)
(* paired, one-way kernels reach all elements, the count is exact and      *)
(* destruction complete; pumalloc() returns to the owner if CPU 0 is one of *)
(* the pool's.                                                             *)
(*                                                                         *)
(* The owner waits for the pool, so where it is in its call says what the  *)
(* pool runs (CallInv); within a job, done says which threads have done    *)
(* their part of it, and each invariant below says what that part was.     *)
(***************************************************************************)
EXTENDS PumaSet, FiniteSetTheorems, WellFoundedInduction, NaturalsInduction, TLAPS

-----------------------------------------------------------------------------
(* Threads, CPUs and lists. *)

(* How many members of S are smaller than c. *)
Rank(S, c) == Cardinality({d \in S : d < c})

(* A larger member has more smaller ones. *)
LEMMA RankGrows ==
  ASSUME NEW S \in SUBSET Nat, IsFiniteSet(S), NEW c \in S, NEW e \in Nat, c < e
  PROVE  /\ Rank(S, c) \in Nat /\ Rank(S, e) \in Nat
         /\ Rank(S, c) < Rank(S, e) /\ Rank(S, e) <= Cardinality(S)
<1> DEFINE A == {d \in S : d < c}
           B == {d \in S : d < e}
<1>1. A \in SUBSET B /\ c \in B \ A /\ B \in SUBSET S
  <2>1. ASSUME NEW d \in S, d < c PROVE d < e
    <3>1. c \in Nat /\ d \in Nat
      OBVIOUS
    <3> QED BY <2>1, <3>1
  <2>2. c \notin A
    <3>1. c \in Nat
      OBVIOUS
    <3> QED BY <3>1
  <2> QED BY <2>1, <2>2
<1>2. IsFiniteSet(B) /\ Cardinality(B) <= Cardinality(S)
  BY <1>1, FS_Subset
<1>3. IsFiniteSet(A) /\ Cardinality(A) <= Cardinality(B) /\ Cardinality(A) # Cardinality(B)
  BY <1>1, <1>2, FS_Subset
<1>4. Cardinality(A) \in Nat /\ Cardinality(B) \in Nat
  BY <1>2, <1>3, FS_CardinalityType
<1>5. Rank(S, c) = Cardinality(A) /\ Rank(S, e) = Cardinality(B)
  BY DEF Rank
<1> HIDE DEF A, B
<1> QED BY <1>2, <1>3, <1>4, <1>5

(* No two members have the same rank. *)
LEMMA RankInjective ==
  ASSUME NEW S \in SUBSET Nat, IsFiniteSet(S), NEW c \in S, NEW e \in S,
         Rank(S, c) = Rank(S, e)
  PROVE  c = e
<1>1. ~(c < e)
  <2> SUFFICES ASSUME c < e PROVE FALSE
    OBVIOUS
  <2>1. Rank(S, c) \in Nat /\ Rank(S, c) < Rank(S, e)
    BY RankGrows
  <2> QED BY <2>1
<1>2. ~(e < c)
  <2> SUFFICES ASSUME e < c PROVE FALSE
    OBVIOUS
  <2>1. Rank(S, e) \in Nat /\ Rank(S, e) < Rank(S, c)
    BY RankGrows
  <2> QED BY <2>1
<1> QED BY <1>1, <1>2

(* A member's rank is less than their number. *)
LEMMA RankBound ==
  ASSUME NEW S \in SUBSET Nat, IsFiniteSet(S), NEW c \in S
  PROVE  Rank(S, c) \in 0..(Cardinality(S) - 1)
<1> DEFINE A == {d \in S : d < c}
<1>1. A \in SUBSET S /\ c \in S \ A
  OBVIOUS
<1>2. IsFiniteSet(A) /\ Cardinality(A) <= Cardinality(S) /\ Cardinality(A) # Cardinality(S)
  BY <1>1, FS_Subset
<1>3. Cardinality(A) \in Nat /\ Cardinality(S) \in Nat
  BY <1>2, FS_CardinalityType
<1> QED BY <1>2, <1>3 DEF Rank

(* There is one for every number below it. *)
LEMMA RankOnto ==
  ASSUME NEW S \in SUBSET Nat, IsFiniteSet(S), NEW i \in Nat, i < Cardinality(S)
  PROVE  \E c \in S : Rank(S, c) = i
<1> DEFINE n == Cardinality(S)
           T == 0..(n - 1)
           f == [c \in S |-> Rank(S, c)]
<1>1. n \in Nat
  BY FS_CardinalityType
<1>2. IsFiniteSet(T) /\ Cardinality(T) = n
  <2>1. 0 \in Int /\ n - 1 \in Int /\ 0 <= n - 1
    BY <1>1
  <2> HIDE DEF n
  <2>2. IsFiniteSet(T) /\ Cardinality(T) = IF 0 > n - 1 THEN 0 ELSE n - 1 - 0 + 1
    BY <2>1, FS_Interval
  <2> QED BY <1>1, <2>1, <2>2
<1>3. f \in [S -> T]
  BY RankBound
<1>4. \A c, e \in S : f[c] = f[e] => c = e
  BY RankInjective
<1> HIDE DEF f, T
<1>5. f \in Injection(S, T)
  BY <1>3, <1>4 DEF Injection, IsInjective
<1>6. f \in Surjection(S, T)
  BY <1>2, <1>5, FS_Injection
<1>7. i \in T
  BY <1>1 DEF T
<1>8. \E c \in S : f[c] = i
  BY <1>6, <1>7 DEF Surjection
<1> QED BY <1>8 DEF f

(* Worker w runs on the CPU with w smaller ones in the pool. *)
LEMMA CPUOfWorker ==
  ASSUME NEW w \in Workers
  PROVE  /\ CPUOf(w) \in PoolCPUs /\ CPUOf(w) \in CPUs
         /\ Rank(PoolCPUs, CPUOf(w)) = w
<1>1. PoolCPUs \in SUBSET Nat /\ PoolCPUs \in SUBSET CPUs
  BY SetAssumption
<1>2. IsFiniteSet(PoolCPUs)
  BY <1>1, SetAssumption, FS_Subset
<1>3. w \in Nat /\ w < Cardinality(PoolCPUs)
  <2>1. Cardinality(PoolCPUs) \in Nat
    BY <1>2, FS_CardinalityType
  <2> QED BY <2>1, SetAssumption DEF Workers
<1>4. \E c \in PoolCPUs : Rank(PoolCPUs, c) = w
  BY <1>1, <1>2, <1>3, RankOnto
<1>5. CPUOf(w) \in PoolCPUs /\ Rank(PoolCPUs, CPUOf(w)) = w
  BY <1>4 DEF CPUOf, Rank
<1> QED BY <1>1, <1>5

(* The CPUs of c's domain; initDomain allocates a list for each. *)
Siblings(c) == {d \in CPUs : NodeOf[d] = NodeOf[c]}

(* c's list has the number of its rank among them. *)
LEMMA SiblingsFinite ==
  ASSUME NEW c \in CPUs
  PROVE  /\ Siblings(c) \in SUBSET Nat /\ IsFiniteSet(Siblings(c)) /\ c \in Siblings(c)
         /\ ListOfCPU(c) = <<NodeOf[c], Rank(Siblings(c), c)>>
<1>1. Siblings(c) \in SUBSET CPUs /\ CPUs \in SUBSET Nat
  BY SetAssumption DEF Siblings
<1>2. IsFiniteSet(Siblings(c))
  BY <1>1, SetAssumption, FS_Subset
<1>3. {d \in CPUs : NodeOf[d] = NodeOf[c] /\ d < c} = {d \in Siblings(c) : d < c}
  BY DEF Siblings
<1>4. CPUIndexInDomain(c) = Rank(Siblings(c), c)
  BY <1>3 DEF CPUIndexInDomain, Rank
<1> QED BY <1>1, <1>2, <1>4 DEF Siblings, ListOfCPU

(* A list belongs to one CPU. *)
LEMMA ListOfCPUInjective ==
  ASSUME NEW c \in CPUs, NEW e \in CPUs, ListOfCPU(c) = ListOfCPU(e)
  PROVE  c = e
<1>1. NodeOf[c] = NodeOf[e] /\ Rank(Siblings(c), c) = Rank(Siblings(e), e)
  BY SiblingsFinite
<1>2. Siblings(c) = Siblings(e)
  BY <1>1 DEF Siblings
<1>3. /\ Siblings(c) \in SUBSET Nat /\ IsFiniteSet(Siblings(c))
      /\ c \in Siblings(c) /\ e \in Siblings(c)
  BY <1>2, SiblingsFinite
<1>4. Rank(Siblings(c), c) = Rank(Siblings(c), e)
  BY <1>1, <1>2
<1> QED BY <1>3, <1>4, RankInjective

(* initDomain has allocated it. *)
LEMMA ListOfCPUKnown ==
  ASSUME NEW c \in CPUs
  PROVE  /\ ListOfCPU(c) \in Lists /\ ListOfCPU(c) # NoList
         /\ ListOfCPU(c)[1] = NodeOf[c] /\ NodeOf[c] \in Domains
<1> DEFINE r == Rank(Siblings(c), c)
           n == Cardinality(Siblings(c))
<1>1. ListOfCPU(c) = <<NodeOf[c], r>> /\ NodeOf[c] \in Domains
  BY SiblingsFinite DEF Domains
<1>2. r \in 0..(n - 1)
  BY SiblingsFinite, RankBound
<1>3. Siblings(c) \in SUBSET CPUs
  BY DEF Siblings
<1>4. n \in Nat /\ n <= Cardinality(CPUs) /\ Cardinality(CPUs) \in Nat
  BY <1>3, SetAssumption, FS_Subset, FS_CardinalityType
<1>5. NumListsInDomain(NodeOf[c]) = n
  BY DEF NumListsInDomain, Siblings
<1> HIDE DEF r, n
<1>6. r \in Nat /\ r < n /\ r \in 0..Cardinality(CPUs)
  BY <1>2, <1>4
<1>7. <<NodeOf[c], r>> \in Domains \X (0..Cardinality(CPUs))
  BY <1>1, <1>6
<1>8. <<NodeOf[c], r>> \in Lists
  BY <1>5, <1>6, <1>7 DEF Lists
<1>9. <<NodeOf[c], r>> \in Domains \X Nat
  BY <1>1, <1>6
<1>10. <<NodeOf[c], r>> # NoList
  BY <1>9, SetAssumption
<1> QED BY <1>1, <1>8, <1>10

(* A worker's list is its own. *)
LEMMA OwnLists ==
  /\ \A v, w \in Workers : ListFor(v) = ListFor(w) => v = w
  /\ \A w \in Workers : /\ ListFor(w) \in Lists /\ ListFor(w) # NoList
                         /\ ListFor(w)[1] = NodeOf[CPUOf(w)]
                         /\ NodeOf[CPUOf(w)] \in Domains
<1>1. ASSUME NEW v \in Workers, NEW w \in Workers, ListFor(v) = ListFor(w)
      PROVE  v = w
  <2>1. CPUOf(v) = CPUOf(w)
    BY <1>1, CPUOfWorker, ListOfCPUInjective DEF ListFor
  <2> QED BY <2>1, CPUOfWorker
<1>2. ASSUME NEW w \in Workers
      PROVE  /\ ListFor(w) \in Lists /\ ListFor(w) # NoList
             /\ ListFor(w)[1] = NodeOf[CPUOf(w)] /\ NodeOf[CPUOf(w)] \in Domains
  BY CPUOfWorker, ListOfCPUKnown DEF ListFor
<1> QED BY <1>1, <1>2

(* The owner's list is a worker's, if the pool has CPU 0. *)
LEMMA OwnerHasList ==
  ASSUME 0 \in PoolCPUs
  PROVE  \E w \in Workers : ListFor(w) = OwnerList
<1>1. 0 \in Workers
  BY SetAssumption DEF Workers
<1>2. PoolCPUs \in SUBSET Nat /\ IsFiniteSet(PoolCPUs)
  <2>1. PoolCPUs \in SUBSET CPUs /\ CPUs \in SUBSET Nat
    BY SetAssumption
  <2>2. IsFiniteSet(PoolCPUs)
    BY <2>1, SetAssumption, FS_Subset
  <2> QED BY <2>1, <2>2
<1>3. Rank(PoolCPUs, 0) = 0
  <2>1. ASSUME NEW d \in PoolCPUs PROVE ~(d < 0)
    <3>1. d \in Nat
      BY <1>2
    <3> QED BY <3>1
  <2>2. {d \in PoolCPUs : d < 0} = {}
    BY <2>1
  <2> QED BY <2>2, FS_EmptySet DEF Rank
<1>4. CPUOf(0) \in PoolCPUs /\ Rank(PoolCPUs, CPUOf(0)) = 0
  BY <1>1, CPUOfWorker
<1>5. CPUOf(0) = 0
  BY <1>2, <1>3, <1>4, RankInjective
<1> QED BY <1>1, <1>5 DEF ListFor, OwnerList, OtherCPU

-----------------------------------------------------------------------------
(* The call in progress. *)

(* While a job runs it is the only call, and between jobs there is none. *)
CallInv ==
  /\ pcOwner \in Jobs \cup {"none", "idle", "reduce", "counted", "crashed"}
  /\ done \subseteq Workers
  /\ pcOwner \in Jobs => call = {<<Owner, pcOwner>>}
  /\ pcOwner \notin Jobs => call = {} /\ done = {}

(* A fork begins the job that the owner names, with no thread done, a join  *)
(* finds all threads done, and in between the pool only adds to done.       *)
LEMMA CallStep ==
  ASSUME CallInv, [Next]_vars
  PROVE  CallInv'
<1> USE DEF CallInv, Jobs, Owner, Fork, Join, InJob, Pool!Fork, Pool!Join, Pool!Run,
            poolVars, setVars, kernelVars
<1>1. CASE OwnerCalls
  BY <1>1 DEF OwnerCalls, CreatePumaSet, GetNumElements, DestroyPumaSet,
              RunKernelCurrentThread, Pumalloc, PumallocOn, Pufree,
              PumallocManualBalancing, PumaSetBalancer, RunKernelList
<1>2. CASE OwnerInCall
  BY <1>2 DEF OwnerInCall, SetupReturns, RunReturns, ExtraDataReduce,
              RunKernelListReturns, CountReturns, SumUp, DestroyReturns
<1>3. ASSUME NEW w \in Workers, WorkerStep(w) PROVE CallInv'
  BY <1>3 DEF WorkerStep, SetupThreadListsWorker, ExtraDataConstructor,
              RunKernelThread, ExtraDataThreadReduce, ExtraDataDestructor,
              GetNumElementsWorker, DestroyThreadListWorker
<1>4. CASE UNCHANGED vars
  BY <1>4 DEF vars
<1> QED BY <1>1, <1>2, <1>3, <1>4 DEF Next

(* A thread that has a job of the owner's left to do finds the owner waiting. *)
LEMMA InJobIs ==
  ASSUME CallInv, NEW w \in Workers, NEW job, InJob(w, job)
  PROVE  pcOwner = job /\ w \notin done
<1>1. call = {<<Owner, job>>}
  BY DEF InJob
<1>2. call = {<<Owner, pcOwner>>}
  BY <1>1 DEF CallInv
<1>3. <<Owner, pcOwner>> \in {<<Owner, job>>}
  BY <1>1, <1>2
<1> QED BY <1>3 DEF InJob

-----------------------------------------------------------------------------
(* Threads and their lists. *)

(* The tables as far as the setup job has filled them, then as it left them. *)
ListsInv ==
  /\ tidToThreadList = [w \in Workers |-> tidToThreadList[w]]
  /\ pcOwner # "none" => home = [d \in Domains |-> BoundNode(d)]
  /\ active = sized
  /\ pcOwner = "setup" => /\ active = {ListFor(w) : w \in done}
                          /\ \A w \in done : tidToThreadList[w] = ListFor(w)
  /\ Ready => /\ active = {ListFor(w) : w \in Workers}
              /\ \A w \in Workers : tidToThreadList[w] = ListFor(w)

(* createPumaSet() registers a list for each thread in the setup job; no    *)
(* other call touches the tables.                                           *)
LEMMA ListsStep ==
  ASSUME CallInv, ListsInv, [Next]_vars
  PROVE  ListsInv'
<1> USE DEF CallInv, ListsInv, Ready, Jobs, Owner, Fork, Join, InJob, Pool!Fork,
            Pool!Join, Pool!Run, poolVars, setVars
<1>1. CASE OwnerCalls
  <2>1. CASE CreatePumaSet
    BY <2>1 DEF CreatePumaSet
  <2>2. CASE ~CreatePumaSet
    <3>1. UNCHANGED <<active, sized, tidToThreadList, home>> /\ pcOwner = "idle" /\ Ready'
      BY <1>1, <2>2 DEF OwnerCalls, GetNumElements, DestroyPumaSet,
              RunKernelCurrentThread, Pumalloc, PumallocOn, Pufree,
              PumallocManualBalancing, PumaSetBalancer, RunKernelList
    <3> QED BY <3>1
  <2> QED BY <2>1, <2>2
<1>2. CASE OwnerInCall
  BY <1>2 DEF OwnerInCall, SetupReturns, RunReturns, ExtraDataReduce,
              RunKernelListReturns, CountReturns, SumUp, DestroyReturns
<1>3. ASSUME NEW w \in Workers, WorkerStep(w) PROVE ListsInv'
  <2>1. CASE SetupThreadListsWorker(w)
    <3>1. /\ pcOwner = "setup" /\ pcOwner' = "setup" /\ done' = done \cup {w}
          /\ active' = active \cup {ListFor(w)} /\ home' = home
          /\ sized' = sized \cup {ListFor(w)}
          /\ tidToThreadList' = [tidToThreadList EXCEPT ![w] = ListFor(w)]
      BY <2>1 DEF SetupThreadListsWorker
    <3> QED BY <3>1
  <2>2. CASE ~SetupThreadListsWorker(w)
    <3>1. /\ UNCHANGED <<active, sized, tidToThreadList, home, pcOwner>>
          /\ \E job \in Jobs \ {"setup"} : InJob(w, job)
      BY <1>3, <2>2 DEF WorkerStep, ExtraDataConstructor,
              RunKernelThread, ExtraDataThreadReduce, ExtraDataDestructor,
              GetNumElementsWorker, DestroyThreadListWorker
    <3>2. Ready /\ Ready'
      BY <3>1, InJobIs
    <3> QED BY <3>1, <3>2
  <2> QED BY <2>1, <2>2
<1>4. CASE UNCHANGED vars
  BY <1>4 DEF vars
<1> QED BY <1>1, <1>2, <1>3, <1>4 DEF Next

(* Both hold from the start. *)
LEMMA InitLists == Init => CallInv /\ ListsInv
BY DEF Init, Pool!Init, CallInv, ListsInv, Ready, Jobs

(* So they hold always. *)
LEMMA CallCorrect == Spec => [](CallInv /\ ListsInv)
<1>1. CallInv /\ ListsInv /\ [Next]_vars => (CallInv /\ ListsInv)'
  BY CallStep, ListsStep
<1> QED BY <1>1, InitLists, PTL DEF Spec

(* Each thread has a list of its own, on its own NUMA node, that it finds   *)
(* again at every call, and no other list is in use: for any number of CPUs *)
(* and threads and any affinity that the pool can serve.  The mask of       *)
(* numalloc_on_node() names the right node for the first LongBytes of them. *)
THEOREM ListsMatch ==
  ASSUME Domains \subseteq 0..(LongBytes - 1)
  PROVE  Spec => []ListsAgree
<1>1. ListsInv => ListsAgree
  <2> SUFFICES ASSUME ListsInv, Ready PROVE ListsAgree
    BY DEF ListsAgree
  <2>1. ASSUME NEW w \in Workers PROVE home[ListFor(w)[1]] = NodeOf[CPUOf(w)]
    <3> DEFINE d == NodeOf[CPUOf(w)]
    <3>1. d \in Domains /\ ListFor(w)[1] = d
      BY OwnLists
    <3>2. home[d] = BoundNode(d)
      BY <3>1 DEF ListsInv, Ready
    <3> HIDE DEF d
    <3>3. d \in 0..(LongBytes - 1)
      BY <3>1
    <3>4. BoundNode(d) = d
      BY <3>3 DEF BoundNode, LongBits, LongBytes
    <3> QED BY <3>1, <3>2, <3>4 DEF d
  <2>2. /\ active = {ListFor(w) : w \in Workers} /\ sized = active
        /\ \A w \in Workers : tidToThreadList[w] = ListFor(w)
    BY DEF ListsInv
  <2> QED BY <2>1, <2>2, OwnLists DEF ListsAgree
<1> QED BY <1>1, CallCorrect, PTL

-----------------------------------------------------------------------------
(* Extra data. *)

(* Extra data of a thread is made, reduced and destroyed in that order; while *)
(* threads still run, as far as done says.                                  *)
ExtraInv ==
  /\ extraData \in [Workers -> {"none", "made", "reduced"}]
  /\ pcOwner = "run" => \A w \in Workers : w \in done <=> extraData[w] = "reduced"
  /\ pcOwner = "reduce" => \A w \in Workers : extraData[w] = "reduced"
  /\ pcOwner = "cleanup" => \A w \in done : extraData[w] = "none"
  /\ pcOwner \notin {"run", "reduce", "cleanup"} =>
       \A w \in Workers : extraData[w] = "none"

(* A job of runKernelList() changes each thread's extra data on that thread *)
(* only, and the join waits for all threads.                                *)
LEMMA ExtraStep ==
  ASSUME CallInv, ExtraInv, [Next]_vars
  PROVE  ExtraInv'
<1> USE DEF CallInv, ExtraInv, Jobs, Owner, Fork, Join, Pool!Fork, Pool!Join,
            Pool!Run, poolVars, kernelVars
<1>1. CASE OwnerCalls
  BY <1>1 DEF OwnerCalls, CreatePumaSet, GetNumElements, DestroyPumaSet,
              RunKernelCurrentThread, Pumalloc, PumallocOn, Pufree,
              PumallocManualBalancing, PumaSetBalancer, RunKernelList
<1>2. CASE OwnerInCall
  BY <1>2 DEF OwnerInCall, SetupReturns, RunReturns, ExtraDataReduce,
              RunKernelListReturns, CountReturns, SumUp, DestroyReturns
<1>3. ASSUME NEW w \in Workers, WorkerStep(w) PROVE ExtraInv'
  <2>1. CASE SetupThreadListsWorker(w)
    BY <2>1, InJobIs DEF SetupThreadListsWorker
  <2>2. CASE ExtraDataConstructor(w)
    BY <2>2, InJobIs DEF ExtraDataConstructor
  <2>3. CASE RunKernelThread(w)
    BY <2>3, InJobIs DEF RunKernelThread
  <2>4. CASE ExtraDataThreadReduce(w)
    BY <2>4, InJobIs DEF ExtraDataThreadReduce
  <2>5. CASE ExtraDataDestructor(w)
    BY <2>5, InJobIs DEF ExtraDataDestructor
  <2>6. CASE GetNumElementsWorker(w)
    BY <2>6, InJobIs DEF GetNumElementsWorker
  <2>7. CASE DestroyThreadListWorker(w)
    BY <2>7, InJobIs DEF DestroyThreadListWorker
  <2> QED BY <1>3, <2>1, <2>2, <2>3, <2>4, <2>5, <2>6, <2>7 DEF WorkerStep
<1>4. CASE UNCHANGED vars
  BY <1>4 DEF vars
<1> QED BY <1>1, <1>2, <1>3, <1>4 DEF Next

(* runKernelList() reduces the extra data of every thread after that thread *)
(* has made and reduced its own and before any of it is destroyed, and      *)
(* leaves none behind, for any number of threads and of kernels.            *)
THEOREM ExtraDataCorrect == Spec => []ExtraDataPaired
<1>1. Init => ExtraInv
  BY DEF Init, ExtraInv
<1>2. CallInv /\ ExtraInv /\ [Next]_vars => ExtraInv'
  BY ExtraStep
<1>3. ExtraInv => ExtraDataPaired
  BY DEF ExtraInv, ExtraDataPaired
<1> QED BY <1>1, <1>2, <1>3, CallCorrect, PTL DEF Spec

-----------------------------------------------------------------------------
(* Where the elements are. *)

(* The lists of the pool's threads. *)
Registered == {ListFor(w) : w \in Workers}

(* Every element is on the list of a thread, until that list is destroyed. *)
WhereInv ==
  /\ where \in [Elems -> Registered \cup {NoList}]
  /\ pcOwner \in {"none", "setup"} => Live = {}
  /\ pcOwner = "destroy" => \A w \in done : ElemsOn(ListFor(w)) = {}

(* Balancing leaves every element on a list of a thread, and frees none. *)
LEMMA BalancedKeeps ==
  ASSUME WhereInv, active = Registered, NEW b \in Balanced
  PROVE  /\ b \in [Elems -> Registered \cup {NoList}]
         /\ \A e \in Elems : b[e] = NoList <=> where[e] = NoList
<1> DEFINE movable == {e \in Live : where[e] \in active}
<1>1. NoList \notin Registered
  BY OwnLists DEF Registered
<1>2. CASE b = where
  BY <1>2 DEF WhereInv
<1>3. ASSUME b # where
      PROVE  \E to \in [movable -> active] :
               b = [e \in Elems |-> IF e \in movable THEN to[e] ELSE where[e]]
  BY <1>3 DEF Balanced
<1>4. ASSUME NEW to \in [movable -> active],
             b = [e \in Elems |-> IF e \in movable THEN to[e] ELSE where[e]]
      PROVE  /\ b \in [Elems -> Registered \cup {NoList}]
             /\ \A e \in Elems : b[e] = NoList <=> where[e] = NoList
  <2>1. ASSUME NEW e \in Elems
        PROVE  b[e] \in Registered \cup {NoList} /\ (b[e] = NoList <=> where[e] = NoList)
    <3>1. CASE e \in movable
      <4>1. b[e] = to[e] /\ to[e] \in Registered
        BY <1>4, <3>1
      <4>2. where[e] # NoList
        BY <3>1 DEF Live
      <4> QED BY <1>1, <4>1, <4>2
    <3>2. CASE e \notin movable
      BY <1>4, <3>2 DEF WhereInv
    <3> QED BY <3>1, <3>2
  <2> QED BY <1>4, <2>1
<1> QED BY <1>2, <1>3, <1>4

(* A walk of a kernel frees elements and puts new ones on the same list,    *)
(* if there is anything on it.                                              *)
LEMMA WalkKeeps ==
  ASSUME NEW at \in [Elems -> Registered \cup {NoList}], NEW l,
         NEW given \in SUBSET {e \in Elems : at[e] = l}, NEW isOneWay \in BOOLEAN,
         NEW a \in AfterWalk(at, l, given, isOneWay)
  PROVE  /\ a \in [Elems -> Registered \cup {NoList}]
         /\ \A e \in Elems : at[e] # NoList => a[e] = at[e] \/ a[e] = NoList
<1> DEFINE mayFree == IF isOneWay THEN given ELSE {e \in Elems : at[e] = l}
           mayAdd == IF isOneWay THEN {} ELSE {e \in Elems : at[e] = NoList}
<1>1. CASE given = {}
  <2>1. a = at
    BY <1>1 DEF AfterWalk
  <2> QED BY <2>1
<1>2. CASE given # {}
  <2>1. l \in Registered \cup {NoList}
    BY <1>2
  <2>2. PICK gone \in SUBSET mayFree, new \in SUBSET mayAdd :
          a = [e \in Elems |-> IF e \in gone THEN NoList
                               ELSE IF e \in new THEN l ELSE at[e]]
    BY <1>2 DEF AfterWalk
  <2>3. \A e \in new : at[e] = NoList
    OBVIOUS
  <2> HIDE DEF mayFree, mayAdd
  <2> QED BY <2>1, <2>2, <2>3
<1> QED BY <1>1, <1>2

(* The owner's call with a pumalloc(), a pufree() or a kernel on its own    *)
(* thread.  A pumalloc() that finds no thread's list does not return.       *)
LEMMA OwnerKeepsWhere ==
  ASSUME CallInv, ListsInv, WhereInv, OwnerCalls
  PROVE  where' \in [Elems -> Registered \cup {NoList}]
<1>1. pcOwner = "idle" => active = Registered /\ sized = Registered
  BY DEF ListsInv, Ready, Registered
<1>2. CASE CreatePumaSet \/ GetNumElements \/ DestroyPumaSet \/
           \E auto \in BOOLEAN : PumaSetBalancer(auto)
  BY <1>2 DEF CreatePumaSet, GetNumElements, DestroyPumaSet, PumaSetBalancer, WhereInv
<1>3. ASSUME NEW l, NEW e \in Elems, PumallocOn(l, e)
      PROVE  where' \in [Elems -> Registered \cup {NoList}]
  BY <1>1, <1>3 DEF PumallocOn, WhereInv
<1>4. CASE \E e \in Elems : Pumalloc(e) \/ Pufree(e)
  BY <1>3, <1>4 DEF Pumalloc, Pufree, WhereInv
<1>5. ASSUME NEW e \in Elems, NEW w \in Workers, PumallocManualBalancing(e, w)
      PROVE  where' \in [Elems -> Registered \cup {NoList}]
  BY <1>3, <1>5 DEF PumallocManualBalancing
<1>6. ASSUME NEW n \in 0..MaxKernels, NEW ow \in SUBSET (1..n), RunKernelList(n, ow)
      PROVE  where' \in [Elems -> Registered \cup {NoList}]
  BY <1>1, <1>6, BalancedKeeps DEF RunKernelList
<1>7. CASE RunKernelCurrentThread
  <2>1. PICK b \in Balanced :
          where' \in AfterWalk(b, OwnerList, {e \in Elems : b[e] = OwnerList}, FALSE)
    BY <1>7 DEF RunKernelCurrentThread
  <2>2. b \in [Elems -> Registered \cup {NoList}]
    BY <1>1, <1>7, BalancedKeeps DEF RunKernelCurrentThread
  <2> QED BY <2>1, <2>2, WalkKeeps
<1> QED BY <1>2, <1>4, <1>5, <1>6, <1>7 DEF OwnerCalls

(* Balancing moves elements between the threads' lists. *)
LEMMA OwnerWhere ==
  ASSUME CallInv, ListsInv, WhereInv, OwnerCalls
  PROVE  WhereInv'
<1>1. where' \in [Elems -> Registered \cup {NoList}]
  BY OwnerKeepsWhere
<1>2. pcOwner' \in {"none", "setup"} => pcOwner = "none" /\ where' = where
  BY DEF OwnerCalls, CreatePumaSet, GetNumElements, DestroyPumaSet, Fork,
         RunKernelCurrentThread, Pumalloc, PumallocOn, Pufree,
         PumallocManualBalancing, PumaSetBalancer, RunKernelList
<1>3. pcOwner' = "destroy" => done' = {}
  BY DEF OwnerCalls, CreatePumaSet, GetNumElements, DestroyPumaSet, Fork, Pool!Fork,
         RunKernelCurrentThread, Pumalloc, PumallocOn, Pufree, poolVars,
         PumallocManualBalancing, PumaSetBalancer, RunKernelList
<1>4. pcOwner' \in {"none", "setup"} => Live' = {}
  BY <1>2 DEF WhereInv, Live
<1> QED BY <1>1, <1>3, <1>4 DEF WhereInv

(* When destroyPumaSet() returns all lists have been freed. *)
LEMMA InCallWhere ==
  ASSUME CallInv, WhereInv, OwnerInCall
  PROVE  WhereInv'
<1>1. where' = where
  BY DEF OwnerInCall, SetupReturns, RunReturns, ExtraDataReduce,
         RunKernelListReturns, CountReturns, SumUp, DestroyReturns
<1>2. /\ pcOwner' \notin {"setup", "destroy"}
      /\ pcOwner' = "none" => pcOwner = "destroy" /\ done = Workers
  BY DEF OwnerInCall, SetupReturns, RunReturns, ExtraDataReduce, Fork, Join,
         RunKernelListReturns, CountReturns, SumUp, DestroyReturns, Pool!Join
<1>3. ASSUME pcOwner' = "none" PROVE Live = {}
  <2> SUFFICES ASSUME NEW e \in Live PROVE FALSE
    OBVIOUS
  <2>1. e \in Elems /\ where[e] \in Registered
    BY DEF Live, WhereInv
  <2>2. PICK w \in Workers : where[e] = ListFor(w)
    BY <2>1 DEF Registered
  <2>3. ElemsOn(ListFor(w)) = {}
    BY <1>2, <1>3 DEF WhereInv
  <2> QED BY <2>1, <2>2, <2>3 DEF ElemsOn
<1>4. Live' = Live
  BY <1>1 DEF Live
<1> QED BY <1>1, <1>2, <1>3, <1>4 DEF WhereInv

(* What a kernel is given on a thread's list is on it. *)
LEMMA WalkOf ==
  ASSUME where \in [Elems -> Registered \cup {NoList}], NEW w \in Workers,
         RunKernelThread(w)
  PROVE  LET k == next[w] + 1
             l == ListFor(w)
         IN  /\ where' \in [Elems -> Registered \cup {NoList}]
             /\ \A e \in Live : where'[e] = where[e] \/ where'[e] = NoList
             /\ \E given \in SUBSET ElemsOn(l) :
                  /\ applied' = [applied EXCEPT ![k] = @ \cup given]
                  /\ k \in oneWay => given = ElemsOn(l)
<1> DEFINE k == next[w] + 1
           l == ListFor(w)
<1>1. PICK given \in Given(k, l) :
        /\ applied' = [applied EXCEPT ![k] = @ \cup given]
        /\ where' \in AfterWalk(where, l, given, k \in oneWay)
  BY DEF RunKernelThread
<1>2. given \in SUBSET ElemsOn(l) /\ (k \in oneWay => given = ElemsOn(l))
  BY DEF Given
<1>3. given \in SUBSET {e \in Elems : where[e] = l} /\ (k \in oneWay) \in BOOLEAN
  BY <1>2 DEF ElemsOn
<1> HIDE DEF k, l
<1>4. /\ where' \in [Elems -> Registered \cup {NoList}]
      /\ \A e \in Elems : where[e] # NoList => where'[e] = where[e] \/ where'[e] = NoList
  BY <1>1, <1>3, WalkKeeps
<1> QED BY <1>1, <1>2, <1>4 DEF Live, k, l

(* A thread adds to and removes from its own list. *)
LEMMA WorkerWhere ==
  ASSUME CallInv, WhereInv, NEW w \in Workers, WorkerStep(w)
  PROVE  WhereInv'
<1>1. CASE RunKernelThread(w)
  <2>1. pcOwner = "run" /\ pcOwner' = "run"
    BY <1>1, InJobIs DEF RunKernelThread
  <2>2. where' \in [Elems -> Registered \cup {NoList}]
    BY <1>1, WalkOf DEF WhereInv
  <2> QED BY <2>1, <2>2 DEF WhereInv
<1>2. CASE DestroyThreadListWorker(w)
  <2> DEFINE l == ListFor(w)
  <2>1. /\ pcOwner = "destroy" /\ pcOwner' = "destroy" /\ done' = done \cup {w}
        /\ where' = [e \in Elems |-> IF where[e] = l THEN NoList ELSE where[e]]
    BY <1>2, InJobIs DEF DestroyThreadListWorker, Pool!Run
  <2>2. l # NoList /\ done \subseteq Workers
    BY OwnLists DEF CallInv
  <2>3. ASSUME NEW v \in done' PROVE ElemsOn(ListFor(v))' = {}
    <3>1. ListFor(v) # NoList
      BY <2>1, <2>2, <2>3, OwnLists
    <3>2. v = w \/ ElemsOn(ListFor(v)) = {}
      BY <2>1, <2>3 DEF WhereInv
    <3> HIDE DEF l
    <3>3. ASSUME NEW e \in Elems, where'[e] = ListFor(v) PROVE where[e] # l /\ where[e] = ListFor(v)
      BY <2>1, <3>1, <3>3
    <3> QED BY <3>2, <3>3 DEF ElemsOn, l
  <2> QED BY <2>1, <2>3 DEF WhereInv
<1>3. CASE ~RunKernelThread(w) /\ ~DestroyThreadListWorker(w)
  <2>1. where' = where /\ pcOwner' = pcOwner
    BY <1>3 DEF WorkerStep, SetupThreadListsWorker, ExtraDataConstructor,
                ExtraDataThreadReduce, ExtraDataDestructor, GetNumElementsWorker
  <2>2. pcOwner # "destroy"
    BY <1>3, InJobIs DEF WorkerStep, SetupThreadListsWorker, ExtraDataConstructor,
                ExtraDataThreadReduce, ExtraDataDestructor, GetNumElementsWorker
  <2> QED BY <2>1, <2>2 DEF WhereInv, Live
<1> QED BY <1>1, <1>2, <1>3

(* Every step keeps the elements on the threads' lists. *)
LEMMA WhereStep ==
  ASSUME CallInv, ListsInv, WhereInv, [Next]_vars
  PROVE  WhereInv'
<1>1. CASE UNCHANGED vars
  BY <1>1 DEF vars, poolVars, WhereInv, Live, ElemsOn
<1> QED BY <1>1, OwnerWhere, InCallWhere, WorkerWhere DEF Next

(* So they always are. *)
LEMMA WhereCorrect == Spec => [](CallInv /\ ListsInv /\ WhereInv)
<1>1. Init => WhereInv
  BY DEF Init, WhereInv, Live
<1>2. CallInv /\ ListsInv /\ WhereInv /\ [Next]_vars => WhereInv'
  BY WhereStep
<1> QED BY <1>1, <1>2, CallCorrect, PTL DEF Spec

(* destroyPumaSet() frees what is on the list of each thread, and that is   *)
(* all there is, however elements were allocated, balanced and counted.     *)
THEOREM Destroyed == Spec => []DestroyedAll
<1>1. WhereInv => DestroyedAll
  BY DEF WhereInv, DestroyedAll
<1> QED BY <1>1, WhereCorrect, PTL

(* While no pumalloc() has met a list that was not set up, none does: the   *)
(* owner's list is a thread's, and so are those of the table.               *)
LEMMA PumallocStep ==
  ASSUME 0 \in PoolCPUs, ListsInv, PumallocReturns, [Next]_vars
  PROVE  PumallocReturns'
<1>1. OwnerList \in Registered
  BY OwnerHasList DEF Registered
<1>2. pcOwner = "idle" => sized = Registered
  BY DEF ListsInv, Ready, Registered
<1>3. ASSUME NEW l \in Registered, NEW e \in Elems, PumallocOn(l, e)
      PROVE  pcOwner' # "crashed"
  BY <1>2, <1>3 DEF PumallocOn
<1>4. CASE \E e \in Elems : Pumalloc(e)
  BY <1>1, <1>3, <1>4 DEF Pumalloc, PumallocReturns
<1>5. CASE \E e \in Elems, w \in Workers : PumallocManualBalancing(e, w)
  <2>1. PICK e \in Elems, w \in Workers : PumallocOn(tidToThreadList[w], e)
    BY <1>5 DEF PumallocManualBalancing
  <2>2. tidToThreadList[w] \in Registered
    BY <2>1 DEF PumallocOn, ListsInv, Ready, Registered
  <2> QED BY <1>3, <2>1, <2>2 DEF PumallocReturns
<1>6. CASE OwnerCalls /\ ~(\E e \in Elems : Pumalloc(e))
             /\ ~(\E e \in Elems, w \in Workers : PumallocManualBalancing(e, w))
  BY <1>6 DEF OwnerCalls, CreatePumaSet, GetNumElements, DestroyPumaSet, Fork, Pufree,
       RunKernelCurrentThread, PumaSetBalancer, RunKernelList, PumallocReturns
<1>7. CASE OwnerInCall
  BY <1>7 DEF OwnerInCall, SetupReturns, RunReturns, ExtraDataReduce, Fork, Join,
       RunKernelListReturns, CountReturns, SumUp, DestroyReturns, PumallocReturns
<1>8. CASE \E w \in Workers : WorkerStep(w)
  BY <1>8 DEF WorkerStep, SetupThreadListsWorker, ExtraDataConstructor,
       RunKernelThread, ExtraDataThreadReduce, ExtraDataDestructor,
       GetNumElementsWorker, DestroyThreadListWorker, PumallocReturns
<1>9. CASE UNCHANGED vars
  BY <1>9 DEF vars, PumallocReturns
<1> QED BY <1>4, <1>5, <1>6, <1>7, <1>8, <1>9 DEF Next, OwnerCalls

(* pumalloc() returns an element to the owner, which is not a thread of the *)
(* pool, if the pool has a thread on CPU 0, for any number of CPUs, domains *)
(* and threads.  Without one the first call divides by zero.                *)
THEOREM PumallocCorrect ==
  ASSUME 0 \in PoolCPUs
  PROVE  Spec => []PumallocReturns
<1>1. Init => PumallocReturns
  BY DEF Init, PumallocReturns
<1>2. ListsInv /\ PumallocReturns /\ [Next]_vars => PumallocReturns'
  BY PumallocStep
<1> QED BY <1>1, <1>2, CallCorrect, PTL DEF Spec

-----------------------------------------------------------------------------
(* Kernels. *)

(* Thread w has applied kernel k to what its list holds of the elements     *)
(* that are owed it.                                                        *)
Reached(w, k) == ElemsOn(ListFor(w)) \cap owed \subseteq applied[k]

(* While the threads walk, thread w has the one-way kernels up to next[w]    *)
(* done; between calls nothing is owed.                                     *)
KernelsInv ==
  /\ numKernels \in 0..MaxKernels
  /\ oneWay \subseteq 1..numKernels
  /\ next \in [Workers -> Nat]
  /\ applied \in [1..MaxKernels -> SUBSET Elems]
  /\ owed \subseteq Live
  /\ \A j \in oneWay, k \in 1..MaxKernels :
       j < k => applied[k] \cap owed \subseteq applied[j]
  /\ pcOwner = "run" => \A w \in Workers :
       /\ next[w] <= numKernels
       /\ \A k \in oneWay : k <= next[w] => Reached(w, k)
       /\ extraData[w] = "reduced" => next[w] = numKernels
  /\ pcOwner = "reduce" => \A k \in oneWay : owed \subseteq applied[k]
  /\ pcOwner \notin {"run", "reduce", "cleanup"} =>
       /\ numKernels = 0
       /\ \A w \in Workers : next[w] = 0
       /\ \A k \in 1..MaxKernels : applied[k] = {}
       /\ owed = {}

(* One walk of thread w, its kernel k. *)
LEMMA WalkReaches ==
  ASSUME CallInv, WhereInv, KernelsInv, NEW w \in Workers, RunKernelThread(w)
  PROVE  KernelsInv'
<1> DEFINE k == next[w] + 1
           l == ListFor(w)
<1>1. /\ pcOwner = "run" /\ pcOwner' = "run" /\ extraData' = extraData
      /\ extraData[w] = "made" /\ k <= numKernels /\ numKernels' = numKernels
      /\ oneWay' = oneWay
      /\ next' = [next EXCEPT ![w] = k]
      /\ owed' = {e \in owed : where'[e] # NoList}
  BY InJobIs DEF RunKernelThread
<1>2. /\ next[w] \in Nat /\ k \in Nat /\ k \in 1..MaxKernels
      /\ numKernels \in Nat /\ numKernels <= MaxKernels /\ MaxKernels \in Nat
  BY <1>1, SetAssumption DEF KernelsInv
<1>3. PICK given \in SUBSET ElemsOn(l) :
        /\ applied' = [applied EXCEPT ![k] = @ \cup given]
        /\ k \in oneWay => given = ElemsOn(l)
  BY WalkOf DEF WhereInv
<1>4. ASSUME NEW e \in owed'
      PROVE  e \in owed /\ where'[e] = where[e] /\ e \in Live /\ e \in Live'
  <2>1. e \in owed /\ where'[e] # NoList /\ e \in Live
    BY <1>1, <1>4 DEF KernelsInv
  <2>2. where'[e] = where[e]
    BY <2>1, WalkOf DEF WhereInv
  <2> QED BY <2>1, <2>2 DEF Live
<1>5. ASSUME NEW j \in 1..MaxKernels
      PROVE  /\ applied[j] \subseteq applied'[j]
             /\ j = k => applied'[j] = applied[j] \cup given
             /\ j # k => applied'[j] = applied[j]
  BY <1>3 DEF KernelsInv
<1>6. ASSUME NEW j \in oneWay PROVE j \in 1..MaxKernels /\ j \in Nat /\ j <= numKernels
  <2>1. j \in 1..numKernels
    BY <1>6 DEF KernelsInv
  <2> QED BY <1>2, <2>1
<1> HIDE DEF k, l
<1>7. applied' \in [1..MaxKernels -> SUBSET Elems] /\ next' \in [Workers -> Nat]
  BY <1>1, <1>2, <1>3 DEF KernelsInv, ElemsOn
<1>8. ASSUME NEW j \in oneWay, NEW i \in 1..MaxKernels, j < i,
             NEW e \in applied'[i], e \in owed'
      PROVE  e \in applied'[j]
  <2>1. j \in 1..MaxKernels
    BY <1>6
  <2>2. CASE e \in applied[i]
    <3>1. e \in applied[j]
      BY <1>4, <1>8, <2>2 DEF KernelsInv
    <3> QED BY <1>5, <2>1, <3>1
  <2>3. CASE e \notin applied[i]
    <3>1. i = k /\ e \in ElemsOn(l)
      BY <1>5, <1>8, <2>3
    <3>2. j <= next[w]
      BY <1>2, <1>6, <1>8, <3>1 DEF k
    <3>3. e \in applied[j]
      BY <1>1, <1>4, <1>8, <3>1, <3>2 DEF KernelsInv, Reached, l
    <3> QED BY <1>5, <2>1, <3>3
  <2> QED BY <2>2, <2>3
<1>9. ASSUME NEW v \in Workers
      PROVE  /\ next'[v] <= numKernels
             /\ \A j \in oneWay : j <= next'[v] => Reached(v, j)'
             /\ extraData[v] = "reduced" => next'[v] = numKernels
  <2>1. /\ v = w => next'[v] = k
        /\ v # w => next'[v] = next[v]
    BY <1>1 DEF KernelsInv
  <2>2. /\ next[v] \in Nat /\ next[v] <= numKernels
        /\ extraData[v] = "reduced" => next[v] = numKernels
    BY <1>1 DEF KernelsInv
  <2>3. ASSUME NEW j \in oneWay, j <= next'[v], NEW e \in ElemsOn(ListFor(v))', e \in owed'
        PROVE  e \in applied'[j]
    <3>1. e \in ElemsOn(ListFor(v)) /\ e \in owed
      BY <1>4, <2>3 DEF ElemsOn
    <3>2. j \in 1..MaxKernels
      BY <1>6
    <3>3. CASE v = w /\ j = k
      BY <1>3, <1>5, <3>1, <3>2, <3>3 DEF l
    <3>4. CASE ~(v = w /\ j = k)
      <4>1. j <= next[v]
        BY <1>2, <1>6, <2>1, <2>2, <2>3, <3>4 DEF k
      <4>2. e \in applied[j]
        BY <1>1, <3>1, <4>1 DEF KernelsInv, Reached
      <4> QED BY <1>5, <3>2, <4>2
    <3> QED BY <3>3, <3>4
  <2>4. \A j \in oneWay : j <= next'[v] => Reached(v, j)'
    BY <2>3 DEF Reached
  <2> QED BY <1>1, <2>1, <2>2, <2>4
<1>10. owed' \subseteq Live'
  BY <1>4
<1> QED BY <1>1, <1>2, <1>7, <1>8, <1>9, <1>10 DEF KernelsInv

(* No step breaks it: a walk takes the next kernel to one list, all other    *)
(* steps leave lists and kernels alone or begin and end the call.           *)
LEMMA KernelsStep ==
  ASSUME CallInv, ListsInv, ExtraInv, WhereInv, KernelsInv, [Next]_vars,
         where' \in [Elems -> Registered \cup {NoList}]
  PROVE  KernelsInv'
<1>1. ASSUME NEW n \in 0..MaxKernels, NEW ow \in SUBSET (1..n), RunKernelList(n, ow)
      PROVE  KernelsInv'
  <2>1. /\ pcOwner = "idle" /\ pcOwner' = "run" /\ where' \in Balanced
        /\ numKernels' = n /\ oneWay' = ow /\ owed' = Live
        /\ next' = next /\ applied' = applied /\ extraData' = extraData
    BY <1>1 DEF RunKernelList, Fork
  <2>2. Live' = Live
    <3>1. active = Registered
      BY <2>1 DEF ListsInv, Ready, Registered
    <3> QED BY <2>1, <3>1, BalancedKeeps DEF Live
  <2>3. /\ \A w \in Workers : next[w] = 0 /\ extraData[w] = "none"
        /\ \A k \in 1..MaxKernels : applied[k] = {}
    BY <2>1 DEF KernelsInv, ExtraInv
  <2> QED BY <2>1, <2>2, <2>3 DEF KernelsInv
<1>2. CASE OwnerCalls /\ ~(\E n \in 0..MaxKernels :
                              \E ow \in SUBSET (1..n) : RunKernelList(n, ow))
  <2>1. /\ numKernels' = numKernels /\ oneWay' = oneWay /\ next' = next
        /\ applied' = applied /\ owed' = owed
        /\ pcOwner \in {"none", "idle"} /\ pcOwner' \notin {"run", "reduce", "cleanup"}
    BY <1>2 DEF OwnerCalls, CreatePumaSet, GetNumElements, DestroyPumaSet, Fork,
         RunKernelCurrentThread, Pumalloc, PumallocOn, Pufree, kernelVars,
         PumallocManualBalancing, PumaSetBalancer
  <2> QED BY <2>1 DEF KernelsInv
<1>3. CASE RunReturns
  <2>1. /\ pcOwner = "run" /\ pcOwner' = "reduce" /\ done = Workers /\ where' = where
        /\ oneWay' = oneWay /\ numKernels' = numKernels /\ next' = next /\ applied' = applied /\ owed' = owed
    BY <1>3 DEF RunReturns, Join, Pool!Join, kernelVars
  <2>2. \A w \in Workers : next[w] = numKernels /\ next[w] \in Nat
    BY <2>1 DEF ExtraInv, KernelsInv
  <2>3. ASSUME NEW k \in oneWay, NEW e \in owed PROVE e \in applied[k]
    <3>1. e \in Elems /\ where[e] \in Registered
      BY DEF KernelsInv, WhereInv, Live
    <3>2. PICK w \in Workers : where[e] = ListFor(w)
      BY <3>1 DEF Registered
    <3>3. k \in 1..next[w]
      BY <2>2 DEF KernelsInv
    <3>4. Reached(w, k)
      BY <2>1, <3>3 DEF KernelsInv
    <3> QED BY <3>1, <3>2, <3>4 DEF Reached, ElemsOn
  <2> QED BY <2>1, <2>3 DEF KernelsInv, Live
<1>4. CASE RunKernelListReturns
  <2>1. /\ pcOwner' = "idle" /\ numKernels' = 0 /\ oneWay' = {} /\ next' = [w \in Workers |-> 0]
        /\ applied' = [k \in 1..MaxKernels |-> {}] /\ owed' = {}
    BY <1>4 DEF RunKernelListReturns, Join
  <2>2. 0 \in 0..MaxKernels
    BY SetAssumption
  <2> QED BY <2>1, <2>2 DEF KernelsInv
<1>5. CASE OwnerInCall /\ ~RunReturns /\ ~RunKernelListReturns
  <2>1. /\ numKernels' = numKernels /\ oneWay' = oneWay /\ next' = next
        /\ applied' = applied /\ owed' = owed
        /\ where' = where /\ pcOwner' \notin {"run", "reduce"}
        /\ pcOwner' # "cleanup" => pcOwner \notin {"run", "reduce", "cleanup"}
    BY <1>5 DEF OwnerInCall, SetupReturns, ExtraDataReduce, Fork, Join,
                CountReturns, SumUp, DestroyReturns, kernelVars
  <2> QED BY <2>1 DEF KernelsInv, Live
<1>6. ASSUME NEW w \in Workers, WorkerStep(w) PROVE KernelsInv'
  <2>1. CASE RunKernelThread(w)
    BY <2>1, WalkReaches
  <2>2. CASE ExtraDataThreadReduce(w)
    <3>1. /\ pcOwner = "run" /\ pcOwner' = "run" /\ next[w] = numKernels
          /\ extraData' = [extraData EXCEPT ![w] = "reduced"]
          /\ numKernels' = numKernels /\ oneWay' = oneWay /\ next' = next
          /\ applied' = applied
          /\ owed' = owed /\ where' = where
      BY <2>2, InJobIs DEF ExtraDataThreadReduce
    <3>2. \A v \in Workers : v # w => extraData'[v] = extraData[v]
      BY <3>1 DEF ExtraInv
    <3> QED BY <3>1, <3>2 DEF KernelsInv, Reached, ElemsOn, Live
  <2>3. CASE ExtraDataConstructor(w)
    <3>1. /\ pcOwner = "run" /\ pcOwner' = "run"
          /\ extraData' = [extraData EXCEPT ![w] = "made"]
          /\ numKernels' = numKernels /\ oneWay' = oneWay /\ next' = next
          /\ applied' = applied
          /\ owed' = owed /\ where' = where
      BY <2>3, InJobIs DEF ExtraDataConstructor
    <3>2. \A v \in Workers : extraData'[v] = "reduced" => extraData[v] = "reduced"
      BY <3>1 DEF ExtraInv
    <3> QED BY <3>1, <3>2 DEF KernelsInv, Reached, ElemsOn, Live
  <2>4. CASE DestroyThreadListWorker(w)
    <3>1. /\ pcOwner = "destroy" /\ pcOwner' = "destroy"
          /\ numKernels' = numKernels /\ oneWay' = oneWay /\ next' = next
          /\ applied' = applied /\ owed' = owed
      BY <2>4, InJobIs DEF DestroyThreadListWorker, kernelVars
    <3> QED BY <3>1 DEF KernelsInv
  <2>5. CASE SetupThreadListsWorker(w) \/ ExtraDataDestructor(w) \/ GetNumElementsWorker(w)
    <3>1. /\ pcOwner # "run" /\ pcOwner # "reduce" /\ pcOwner' = pcOwner
          /\ numKernels' = numKernels /\ oneWay' = oneWay /\ next' = next
          /\ applied' = applied
          /\ owed' = owed /\ where' = where
      BY <2>5, InJobIs DEF SetupThreadListsWorker, ExtraDataDestructor,
              GetNumElementsWorker, kernelVars
    <3> QED BY <3>1 DEF KernelsInv, Live
  <2> QED BY <1>6, <2>1, <2>2, <2>3, <2>4, <2>5 DEF WorkerStep
<1>7. CASE UNCHANGED vars
  BY <1>7 DEF vars, kernelVars, KernelsInv, Reached, ElemsOn, Live
<1> QED BY <1>1, <1>2, <1>3, <1>4, <1>5, <1>6, <1>7 DEF Next

(* Each one-way kernel given to runKernelList() reaches all elements that   *)
(* were there, and none is ahead of it on an element, for any number of     *)
(* threads, kernels and elements, while the walks of all threads interleave, *)
(* and the kernels between free and allocate.  That the walk of a one-way   *)
(* kernel over one list is complete is Given, from KernelCoverage, which is *)
(* proved in ThreadListProofs for executions without DrainedTail.           *)
THEOREM KernelsCorrect == Spec => []KernelsReachAll
<1>1. Init => KernelsInv
  BY SetAssumption DEF Init, KernelsInv
<1>2. Init => ExtraInv
  BY DEF Init, ExtraInv
<1>3. CallInv /\ ExtraInv /\ [Next]_vars => ExtraInv'
  BY ExtraStep
<1>4. CallInv /\ ListsInv /\ ExtraInv /\ WhereInv /\ KernelsInv /\ [Next]_vars /\ WhereInv'
        => KernelsInv'
  BY KernelsStep DEF WhereInv
<1>5. KernelsInv => KernelsReachAll
  BY DEF KernelsInv, KernelsReachAll
<1> QED BY <1>1, <1>2, <1>3, <1>4, <1>5, WhereCorrect, PTL DEF Spec
-----------------------------------------------------------------------------
(* Counting. *)

(* A thread that has counted has left the size of its list in its place of  *)
(* the array, and all others are as getNumElements() has cleared them.      *)
SumsInv ==
  pcOwner \in {"count", "counted"} =>
    sums = [w \in Workers |-> IF pcOwner = "counted" \/ w \in done
                              THEN Cardinality(ElemsOn(ListFor(w))) ELSE 0]

(* Nothing else runs while the threads count. *)
LEMMA SumsStep ==
  ASSUME CallInv, SumsInv, [Next]_vars
  PROVE  SumsInv'
<1> USE DEF CallInv, Jobs
<1>1. CASE GetNumElements
  BY <1>1 DEF GetNumElements, Fork, Pool!Fork, SumsInv
<1>2. CASE OwnerCalls /\ ~GetNumElements
  <2>1. pcOwner' \notin {"count", "counted"}
    BY <1>2 DEF OwnerCalls, CreatePumaSet, DestroyPumaSet, Fork,
         RunKernelCurrentThread, Pumalloc, PumallocOn, Pufree,
         PumallocManualBalancing, PumaSetBalancer, RunKernelList
  <2> QED BY <2>1 DEF SumsInv
<1>3. CASE CountReturns
  BY <1>3 DEF CountReturns, Join, Pool!Join, SumsInv, ElemsOn
<1>4. CASE OwnerInCall /\ ~CountReturns
  <2>1. pcOwner' \notin {"count", "counted"}
    BY <1>4 DEF OwnerInCall, SetupReturns, RunReturns, ExtraDataReduce, Fork, Join,
                RunKernelListReturns, SumUp, DestroyReturns
  <2> QED BY <2>1 DEF SumsInv
<1>5. ASSUME NEW w \in Workers, WorkerStep(w) PROVE SumsInv'
  <2>1. CASE GetNumElementsWorker(w)
    <3>1. /\ pcOwner = "count" /\ pcOwner' = "count" /\ where' = where
          /\ w \notin done /\ done' = done \cup {w}
          /\ sums' = [sums EXCEPT ![w] = @ + Cardinality(ElemsOn(ListFor(w)))]
      BY <2>1, InJobIs DEF GetNumElementsWorker, Pool!Run
    <3>2. Cardinality(ElemsOn(ListFor(w))) \in Nat
      <4>1. ElemsOn(ListFor(w)) \in SUBSET Elems
        BY DEF ElemsOn
      <4> QED BY <4>1, SetAssumption, FS_Subset, FS_CardinalityType
    <3>3. \A v \in Workers : ElemsOn(ListFor(v))' = ElemsOn(ListFor(v))
      BY <3>1 DEF ElemsOn
    <3>4. sums = [v \in Workers |-> IF v \in done
                                    THEN Cardinality(ElemsOn(ListFor(v))) ELSE 0]
      BY <3>1 DEF SumsInv
    <3>5. sums' = [v \in Workers |-> IF v \in done'
                                     THEN Cardinality(ElemsOn(ListFor(v))) ELSE 0]
      BY <3>1, <3>2, <3>4
    <3> QED BY <3>1, <3>3, <3>5 DEF SumsInv
  <2>2. CASE ~GetNumElementsWorker(w)
    <3>1. pcOwner' = pcOwner /\ \E job \in Jobs \ {"count"} : InJob(w, job)
      BY <1>5, <2>2 DEF WorkerStep, SetupThreadListsWorker, ExtraDataConstructor,
              RunKernelThread, ExtraDataThreadReduce, ExtraDataDestructor,
              DestroyThreadListWorker
    <3>2. pcOwner' \notin {"count", "counted"}
      BY <3>1, InJobIs
    <3> QED BY <3>2 DEF SumsInv
  <2> QED BY <2>1, <2>2
<1>6. CASE UNCHANGED vars
  BY <1>6 DEF vars, poolVars, SumsInv, ElemsOn
<1> QED BY <1>1, <1>2, <1>3, <1>4, <1>5, <1>6 DEF Next

(* The elements on the lists of the first n threads. *)
Held(n) == {e \in Elems : \E w \in Workers : w < n /\ where[e] = ListFor(w)}

(* One thread more adds what is on its list. *)
LEMMA HeldStep ==
  ASSUME NEW n \in 1..NumThreads
  PROVE  /\ n - 1 \in Workers /\ n - 1 \in 0..NumThreads
         /\ Cardinality(Held(n)) \in Nat /\ Cardinality(Held(n - 1)) \in Nat
         /\ Cardinality(Held(n)) =
              Cardinality(Held(n - 1)) + Cardinality(ElemsOn(ListFor(n - 1)))
<1> DEFINE A == Held(n - 1)
           B == ElemsOn(ListFor(n - 1))
<1>1. n \in Nat /\ n - 1 \in Workers /\ n - 1 \in 0..NumThreads
  BY SetAssumption DEF Workers
<1>2. ASSUME NEW w \in Workers PROVE w < n <=> w < n - 1 \/ w = n - 1
  BY <1>1, SetAssumption DEF Workers
<1>3. Held(n) = A \cup B
  BY <1>1, <1>2 DEF Held, ElemsOn
<1>4. A \cap B = {}
  <2> SUFFICES ASSUME NEW e \in A, e \in B PROVE FALSE
    OBVIOUS
  <2>1. PICK w \in Workers : w < n - 1 /\ where[e] = ListFor(w)
    BY DEF Held
  <2>2. w = n - 1
    BY <1>1, <2>1, OwnLists DEF ElemsOn
  <2> QED BY <1>1, <2>1, <2>2
<1>5. A \in SUBSET Elems /\ B \in SUBSET Elems
  BY DEF Held, ElemsOn
<1> HIDE DEF A, B
<1>6. IsFiniteSet(A) /\ IsFiniteSet(B)
  BY <1>5, SetAssumption, FS_Subset
<1>7. Cardinality(A) \in Nat /\ Cardinality(B) \in Nat
  BY <1>6, FS_CardinalityType
<1>8. Cardinality(A \cup B) = Cardinality(A) + Cardinality(B) - Cardinality(A \cap B)
  BY <1>6, FS_Union
<1>9. Cardinality(A \cap B) = 0
  BY <1>4, FS_EmptySet
<1>10. Cardinality(A \cup B) = Cardinality(A) + Cardinality(B)
  BY <1>7, <1>8, <1>9
<1> QED BY <1>1, <1>3, <1>7, <1>10 DEF A, B

(* What Total is chosen to satisfy. *)
IsTotal(f) == f = [n \in 0..NumThreads |-> IF n = 0 THEN 0 ELSE f[n - 1] + sums[n - 1]]

(* The loop over the array adds up to what is on the lists of all threads.  *)
(* The sizes of what the first threads hold solve the recursion, and        *)
(* another solution would differ from them at a first place, where it       *)
(* cannot.                                                                  *)
LEMMA TotalIsSize ==
  ASSUME sums = [w \in Workers |-> Cardinality(ElemsOn(ListFor(w)))]
  PROVE  Total[NumThreads] = Cardinality(Held(NumThreads))
<1> DEFINE size == [n \in 0..NumThreads |-> Cardinality(Held(n))]
<1>1. NumThreads \in Nat
  BY SetAssumption
<1>2. Cardinality(Held(0)) = 0
  <2>1. Held(0) = {}
    BY SetAssumption DEF Held, Workers
  <2> QED BY <2>1, FS_EmptySet
<1>3. ASSUME NEW n \in 0..NumThreads, n # 0
      PROVE  /\ n - 1 \in 0..NumThreads
             /\ Cardinality(Held(n)) = Cardinality(Held(n - 1)) + sums[n - 1]
  <2>1. n \in 1..NumThreads
    BY <1>1, <1>3
  <2> QED BY <2>1, HeldStep
<1>4. IsTotal(size)
  BY <1>2, <1>3 DEF IsTotal
<1> HIDE DEF size
<1>5. Total = CHOOSE f : IsTotal(f)
  BY DEF Total, IsTotal
<1>6. IsTotal(Total)
  BY <1>4, <1>5
<1> DEFINE Bad == {n \in 0..NumThreads : Total[n] # Cardinality(Held(n))}
           R == {p \in Nat \X Nat : p[1] < p[2]}
<1>7. IsWellFoundedOn(R, Nat)
  BY NatLessThanWellFounded DEF OpToRel
<1>8. ASSUME Bad # {} PROVE FALSE
  <2>1. PICK n \in Bad : \A k \in Bad : <<k, n>> \notin R
    <3>1. Bad \in SUBSET Nat
      BY <1>1
    <3> HIDE DEF R, Bad
    <3> QED BY <1>7, <1>8, <3>1, WFMin
  <2>2. n \in 0..NumThreads /\ Total[n] # Cardinality(Held(n))
    BY <2>1
  <2>3. Total[n] = IF n = 0 THEN 0 ELSE Total[n - 1] + sums[n - 1]
    BY <1>6, <2>2 DEF IsTotal
  <2>4. n # 0
    BY <1>2, <2>2, <2>3
  <2>5. n - 1 \in 0..NumThreads /\ n \in Nat /\ n - 1 \in Nat /\ n - 1 < n
    BY <1>1, <2>2, <2>4
  <2>6. n - 1 \notin Bad
    BY <2>1, <2>5
  <2> HIDE DEF R, Bad
  <2>7. Total[n - 1] = Cardinality(Held(n - 1))
    BY <2>5, <2>6 DEF Bad
  <2> QED BY <1>3, <2>2, <2>3, <2>4, <2>7
<1>9. NumThreads \in 0..NumThreads
  BY <1>1
<1> HIDE DEF R
<1> QED BY <1>8, <1>9

(* getNumElements() adds up to all elements of the set, although each       *)
(* thread counts its own list only.                                         *)
THEOREM CountCorrect == Spec => []CountIsExact
<1>1. Init => SumsInv
  BY DEF Init, SumsInv
<1>2. CallInv /\ SumsInv /\ [Next]_vars => SumsInv'
  BY SumsStep
<1>3. WhereInv /\ SumsInv => CountIsExact
  <2> SUFFICES ASSUME WhereInv, SumsInv, pcOwner = "counted"
               PROVE  Total[NumThreads] = Cardinality(Live)
    BY DEF CountIsExact
  <2>1. sums = [w \in Workers |-> Cardinality(ElemsOn(ListFor(w)))]
    BY DEF SumsInv
  <2>2. \A w \in Workers : w < NumThreads
    BY SetAssumption DEF Workers
  <2>3. Held(NumThreads) = Live
    BY <2>2, OwnLists DEF WhereInv, Held, Live, Registered
  <2> QED BY <2>1, <2>3, TotalIsSize
<1> QED BY <1>1, <1>2, <1>3, WhereCorrect, PTL DEF Spec
=============================================================================
