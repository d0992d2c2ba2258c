# PUMA in TLA+

A specification of PUMA, a C library for sets of fixed-size elements that are
stored near the threads that work on them. Source paths are relative to the
root of the repository.

## 1. The system

| Part | State | Operations | Hard behaviour |
|---|---|---|---|
| Thread list (`src/internal/pumathreadlist.c`, `pumanode.c`, `pumautil.c`) | doubly linked chunks, `head`, `tail`, `numElements`, `numNodes`; an active prefix, then inactive chunks kept for reuse | append, deactivate, reactivate, compact, release | a long history of frees decides what the next allocation finds |
| Allocator (`src/pumalloc.c`, `internal/alloc.c`, `internal/free.c`) | a chunk's bitmap, `firstKnownFree`, `dirty` | `pumalloc`, `pumallocManualBalancing`, `pumallocAutoBalancing`, `pufree` | `firstKnownFree` is trusted without a look at the bitmap |
| Bitmask (`src/internal/bitmask.c`) | buckets of 64 bits | set, get, first/last index, layout in a block | the last bucket, the capacity arithmetic |
| Kernels (`src/pumakernel.c`, `extradata.c`) | position in a list, elements done; per-thread extra data | `runKernel`, `runKernelList`, `runKernelCurrentThread` | the kernel changes the list it is walked over; no barrier between kernels of a list |
| Balancer (`src/internal/pumabalance.c`) | shares, two stacks, remainder | `_balanceThreadLoad`, `_transferNNodes` | unsigned differences; pointer surgery on two lists |
| Thread pool (`src/pumathreadpool.c`) | job, lock, two barriers, per-thread time | create, `executeOnThreadPool`, worker loop, free | interleavings of several callers and the workers |
| Barrier for Apple systems (`include/internal/pthreadbarrier.h`) | mutex, condition, counter | init, wait | fast threads come round while slow ones leave |
| Set (`src/pumaset.c`, `internal/pumadomain.c`) | domains with lists, thread-to-list table | create, destroy, `getNumElements`, `pumaSetBalancer` | setup runs on the pool; thread, CPU and domain numbers must agree |
| Static data (`src/pumastaticvar.c`) | per-thread blocks under two keys | `pumallocStaticLocal`, `pumaDeleteStaticData` | keys are shared by all threads, blocks are not |
| NUMA allocation (`src/internal/numa.c`) | - | allocate on a node | node mask arithmetic |
| Logging, profiling, Valgrind | - | - | - |

How they interact: the owner of a set calls `runKernel`. It balances (moving
chunks between lists on its own thread, while the workers wait), then hands the
walk to the pool with `executeOnThreadPool`; each worker walks the list of its
CPU and calls the user's kernel, which may call `pumalloc` and `pufree` on that
list. `createPumaSet`, `getNumElements` and `destroyPumaSet` also run on the
pool. Lists have no locks: between kernels the owner may change them, during a
kernel each worker changes its own.

What makes the parts correct: each element is stored once, within reach of the
next kernel; a kernel gets each element exactly once and ends; counters agree
with bitmaps; transfers keep both lists well formed and are only asked for where
they are legal; the pool runs every job on every thread, one job at a time, and
returns; each thread keeps finding its own list, so that what is spread over the
pool adds up to the whole set.

## 2. Modules

| Module | Models |
|---|---|
| `ElementSet` | abstract: a set with alloc, free, and a kernel that visits each element once |
| `PumaThreadList` | lists, chunks, allocator, compaction, kernel walk, transfer, destroy; implements `ElementSet` |
| `Bitmask` | buckets and scans, and the layout of bitmap and elements in a block |
| `Balance` | `_autobalanceThreadLoad` on numbers of chunks |
| `ParallelExec` | abstract: fork and join (also what the OpenMP build gets from the compiler) |
| `ThreadPool` | the pthread pool; implements `ParallelExec` |
| `Barrier` | abstract: a barrier for `TripCount` threads |
| `BarrierShim` | the barrier for Apple systems; implements `Barrier` |
| `PumaSet` | the life of a set: lists found by CPU, lists of kernels, extra data, counting, destruction; composed with `ParallelExec` |
| `StaticVar` | static data per thread |
| `ThreadListMemory` | lemmas: induction over numbers and finite sets, sums; every operation on a set's memory, `_transferNNodes` included, keeps `MemInv` |
| `ThreadListProofs` | theorems: the lists' shape, counters, bitmaps, where elements are stored; compaction, coverage of kernels, the refinement of `ElementSet` |
| `BitmaskProofs`, `ThreadPoolProofs`, `BalanceProofs`, `BarrierShimProofs`, `PumaSetProofs`, `StaticVarProofs` | theorems about the module in their name |
| `MCThreadList`, `MCThreadPool`, `MCBalance`, `MCBitmask`, `MCBarrierShim`, `MCPumaSet`, `MCStaticVar` | instances for TLC |

Definitions headed "Mutant" are not part of a specification. Each is a version
of the definition that follows it with a plausible bug, kept to see that a
property notices.

### PumaThreadList

`mem` holds the allocated blocks (`heap`), the chunk headers (`node`) and the
list headers (`list`), with the C field names. Functions that write them are
operators from `mem` to `mem` with every assignment of the source:
`AllocElementOnNode`, `FreeElementOnNode`, `FreePumaNode`, `AppendPumaNode`,
`TransferNNodes` (`SpliceIn`, `CloseGap`, `Adopt`). `_cleanupNode` and the walk
of a kernel have loops whose length depends on data and which call each other's
data structures, so they are unrolled: `CleanupDropTail`, `CleanupMove`,
`CleanupDone`, `KernelWalk`, `KernelKeep`/`KernelFree`/`KernelAlloc`,
`LeaveNode`; `op[l]` holds the locals. An element is an identity, its address a
pair of chunk and slot, the bitmap the set of slots that hold something.
Different lists interleave freely during a kernel.

A kernel is the set of things it may do to the elements it is given (`kernel`,
chosen from `Kernels` when it is started): keep, free its own element, free
another one of the list, allocate. `KernelCoverage` promises every kernel that it
gets no element twice, and `OneWay` kernels, which at most free the element they
are given, that they get them all (section 4 says why not the others).

`Transfer` is any call that `_transferNNodes` asserts to be legal; `Balance`
decides which calls are made and its proofs show that those are legal.

`_runKernelOnNode` at a free slot increments `skippedElements` and not `i`; the
unsigned difference counts down and wraps, so the loop ends there. `VisitsNext`
states that outcome.

`owed` and `visits` are history variables of the running kernel.

The constant `AllowDrainedTail` admits the one situation in which `pumalloc` is
known to lose an element (section 4). Passing runs leave it out, so that
everything else can be checked past it.

### Bitmask

A bucket is a function from bit positions to bits, `BucketBits` wide and
`BucketBytes` long (64 and 8 in the code). `LOffset` is the position that the
code shifts to, `ValueMask` the mask of the partly used last bucket, `MayHold`
the test on the whole bucket and `Hits` the loop over its bits. `ones`, the set
of indices last set to 1, is what the bits are compared with.
`CreatePumaBitmaskForElemArray` computes the capacity of a block as the code
does, with the integer divisions.

### ThreadPool

A position per worker and caller, the lock as `writer` and `readers`, a barrier
as the set of threads it still blocks. Barrier and lock are external, taken from
POSIX: the arrival of the last of `NumThreads + 1` threads releases all, and
nothing is assumed about who is preferred by the lock. Thread creation is
`StartWorker`/`SkipCPU`/`PoolReady`, in parallel with workers already started. A
time is represented by the job whose run it measures. `FreeThreadPool` is a call
of a thread that is in no other call. `pthread_create` is assumed to succeed
(its result is ignored in the code).

### BarrierShim

One step for each access to the counter and each operation on the mutex and the
condition variable; a broadcast moves all that wait to where they compete for
the mutex again. POSIX allows `pthread_cond_wait` to wake up without a
broadcast; the shim has no loop against it, and the model leaves it out: what is
shown holds of the shim as long as it does not happen.

### PumaSet

What the owner of a set and the pool's threads do together. The pool is
`ParallelExec`, which `ThreadPool` implements (proved), so a call of the owner
forks a job, each worker runs it in steps that interleave with the others', and
the owner goes on after the join. A list is a pair of domain and index, found as
in the code from the CPU number and the NUMA node of that CPU; `OwnerList` is
what a thread finds that the pool did not start. `sized` are the lists whose
`elementSize` the setup job has set; on any other it is 0, and a `pumalloc` that
finds one divides by it, which leaves the owner in `"crashed"`.

What the other modules show is used: a list is a set of elements, and the
balancer moves elements in any way among the active lists (`Balance`). Each
kernel of a list is one-way or not (`oneWay`, chosen with the call), as in
`PumaThreadList`. The walk of a one-way kernel gives it all of the list
(`KernelCoverage`, `Coverage`) and it frees some of that; the walk of any other
gives it some of the list, and it frees and allocates what it likes there
(`Given`, `AfterWalk`). Like `PumaThreadList` with `AllowDrainedTail = FALSE`,
the module leaves out the one `pumalloc` that puts an element out of the reach of
walks. `owed` and `applied` are history variables.

### StaticVar

`specific` is the table of thread-specific values, `live` the existing keys,
`headKey` and `tailKey` the two global variables that hold a key. Allocation and
deletion are different jobs of the pool, as in the tutorial of `README.md`. In
the first kind the calls share nothing but `pthread_once` and are single steps.
In the second, each access to `_initialiseOnce` or to a key is a step, because
threads delete and create keys under each other. A use of a deleted key, which
POSIX leaves undefined, finds no value, as on Linux and macOS. A read of NULL or
of a freed block ends in `"crashed"`. `KeysLeft` keeps the code within the keys
that the system has: `pthread_key_create`, whose result is ignored, is only
called while one is left. `Chain` is what the loop of `pumaDeleteStaticData`
walks over, as the least set closed under `next`.

### Balance

A list is its number of active chunks. The run times are whole units, so a share
is an exact fraction; where the fraction is a whole number `NewShares` also has
the value one below, which floating point may give. With no run time at all the
code converts a NaN: 0 and `Huge` are both possible. `Begin` is the part up to
the loops, `Scan` one list, `Match` one round of the matching loop, `NextDomain`
the end of a domain.

## 3. Runs

| Run | Bounds | Shows |
|---|---|---|
| `ThreadListSafety` | 2 lists, 3 chunks of 2, 3 elements; kernels that keep and free their own element, or also allocate | `ListShape`, `CountersAgree`, `CleanMeansPacked`, `StoredOnceWithinReach`, `KernelCoverage`, `CompactsTowardsHead`, `ImplementsElementSet` |
| `ThreadListLiveness` | 1 list, 3 chunks of 3, 4 elements; kernels that keep and free their own, that keep and allocate, or that do anything | `KernelTerminates`, `KernelCoverage` |
| `BitmaskRun` | buckets of 4 bits and 2 bytes, up to 10 bits; blocks of 1 to 30 bytes, elements of 2 to 6 | `BitsAgree`, `ScansAgree`, `LayoutSound` |
| `BalanceRun` | 4 lists in 2 domains, up to 3 chunks each, times 0 to 2 | `BalanceInv`, `TransferLegal`, `NoOvershoot`, `SharesReached`, `BalanceTerminates` |
| `ThreadPoolOneCaller` | 3 threads, 1 caller | `CallsReturn`, `TimesAreOwn`, `FreedPoolIdle` |
| `ThreadPoolShared` | 3 threads, 2 callers, CPUs 0, 2, 3, 7 | `ImplementsParallelExec`, `PoolInv`, `AllThreadsStarted` |
| `BarrierShimRun` | 4 threads, a barrier for 4 | `ImplementsBarrier`, `ShimInv`, `BarrierOpens` |
| `PumaSetRun` | 4 CPUs numbered alternately in 2 domains, 3 threads, 2 elements, up to 2 kernels in a list | `ListsAgree`, `KernelsReachAll`, `ExtraDataPaired`, `CountIsExact`, `DestroyedAll`, `PumallocReturns`, `OwnerReturns` |
| `StaticVarRun` | 2 threads, 3 blocks, 6 keys, pages of 3, a header of 2, requests of 2 | `NoCrash`, `OwnBlocksLive`, `UsedWithinBlock`, `DeleteReturns` |

Three chunks and two lists are what it takes for a list to have a chunk in
front of and behind the one worked on, for a transfer to meet an inactive chunk
on either side, and for a list to be left empty. A capacity of 2 makes "below
half full" mean empty, a capacity of 3 one or none. Ten bits fill two buckets
and half of a third. In `PumaSetRun` three threads on four CPUs put two lists in
one domain and one in the other and leave one list without a thread. In
`StaticVarRun` a page holds one request by size and two by the code's
comparison, three blocks are enough to append twice, and six keys let a pair be
lost and deletion happen again. Element symmetry is used in safety runs only.

Three runs do not look for deadlocks: `ThreadPoolShared`, because two callers do
deadlock (below); `ThreadPoolOneCaller`, because a freed pool stops; and
`StaticVarRun`, because leaked blocks and keys use up the bounds. `CallsReturn`
and `DeleteReturns` cover them.

Fairness: every pool thread, and the thread inside `runKernel`,
`executeOnThreadPool` or another call, is scheduled again and again while it is
not blocked (weak fairness per thread). The user need never make another call,
and the kernel is assumed to return.

## 4. Where code and documentation disagree

Three have a run that ends in a violation; `PROJECT.json` quotes the lines.

* `ThreadListDrainedTail`: when the last two chunks of a list are empty and the
  tail has used up its slots, the next `pumalloc` deactivates both and
  reactivates one. Elements then live behind an inactive chunk: counted, never
  visited. The same sequence on the C code (fill two chunks, free everything,
  allocate three) behaves so.
* `ThreadPoolSharedCalls`: two threads that use one pool deadlock.
* `PumaSetOwnerList`: with an affinity that leaves out CPU 0 (`1-3`), the owner's
  first `pumalloc` finds a list that no worker has set up. Its `elementSize` is
  still 0, and the program ends in a division by it: in `pumautil.c:52`, or in
  debug builds in the assertion at `bitmask.c:157`. `_pumallocOnThreadList` called
  on a zeroed list in C does so in both builds. `PumallocReturns` fails right
  after the setup; with CPU 0 in the pool it holds (`PumaSetRun`).

Without a run of their own:

* Leaked chunks. `_freeElementOnNode` cuts off all chunks behind the one it
  releases (`free.c:35`): `DestroyReleasesAll` in `PumaThreadList` fails when
  it is added to `ThreadListSafety.cfg`.
* Leaked static data. `DeleteFreesOwn` in `StaticVar` fails when it is added to
  `StaticVarRun.cfg`, with one thread because an appended block is unlinked by
  the next append, with two also because the thread that deletes first takes
  away the key under which the other would find its blocks. The tutorial's
  program does the latter. Keys leak in the same way: a thread that finds
  `_initialiseOnce` reset overwrites keys that exist, until the system has none
  left. Memory can also run past the end of its block by up
  to the size of the header (`UsedWithinBlock` states what is left).
* A second caller of the pool crashes on its missing time offset
  (`pumathreadpool.c:163`); it is the state `"crashed"` of a caller.
* The affinity `1,2` starts one thread of two, since the loop over CPU numbers
  stops at their count. `AllThreadsStarted` says exactly which affinities work.
* The assertion at `bitmask.c:157` fails, in debug builds, for sizes for which
  the layout is sound: when the rest of the block is at least one element and at
  most an element and a bucket. `LayoutSound` says so exactly; it also says that
  an element that just fits a block (8032 to 8040 bytes by default, accepted
  at `pumanode.c:129`) gives chunks without a slot.
* Kernels that do more than free the element they are given can miss elements,
  which is why `KernelCoverage` promises those no more than one visit each. The
  documentation says neither that a kernel may do more nor that it may not.
  - One that frees another element ends the walk of the chunk at the hole.
  - One that allocates can miss elements that were there when it began, even if
    it frees nothing. With a capacity of 1 let a, b and c fill three chunks, and
    the user free b. A kernel that allocates d when it gets a (as the fourth
    chunk) starts with two elements to visit (`initNumElements`). The second
    chunk is dirty, so it is compacted, which pulls in d, the last element of
    the list. The kernel gets d, has done its two, and the walk ends in front of
    c. TLC finds this with `OneWay(kernel)` left out of `KernelCoverage`, one
    list, four chunks and a `GrowingKernel`.
  - One that frees its element and also allocates may have the chunk it is
    walked over compacted, which moves an unvisited element to a slot already
    passed.

## 5. Proofs

For every value of the constants that the modules' `ASSUME`s allow:

Thread lists. All theorems about them assume `AllowDrainedTail = FALSE`: they are
about executions without the one call of `pumalloc` that loses an element
(`ThreadListDrainedTail` shows that `KernelCoverage` is false with it; the
element it stores is out of reach, so `StoredOnceWithinReach` is too). They hold
for any number of lists, chunks, elements and kernels, any capacity and any set
of things the kernels do; `ConstantsAssumption` asks for finitely many lists and chunks, at least
one list and a capacity of at least one.

* `Inductive`: `IInv`. What the runs check speaks of walks from the head, which no
  single assignment to a pointer preserves. `IInv` is local instead: a forward
  link leads to a chunk of the same list that points back (`LinksInv`); an active
  chunk is the head, or follows an active one whose number is one less
  (`ActiveNode`); the tail is active or all are not; each list's counters are the
  sums over the chunks it owns; bitmap, `firstKnownFree` and `dirty` of a chunk
  fit each other, except while it is compacted (`PackedInv`). For a call in
  progress `OpPlace` says where it is: a compaction for an allocation works on
  the tail or on the chunk behind it that it has itself deactivated, and then the
  new tail holds an element (`AllocInv`, which is what `DrainedTail` breaks).
  `ThreadListMemory` shows it for each operation on the memory. `_transferNNodes`
  is treated as one, because between its first and its last assignment nothing
  of this holds for either list: it is shown what the function does to each field
  as a whole.
* `TypeCorrect`, `ShapeCorrect`, `CountersCorrect`, `PackedCorrect`,
  `StoredCorrect`: `TypeOK`, `ListShape`, `CountersAgree`, `CleanMeansPacked` and
  `StoredOnceWithinReach` from it. That a walk from the head meets the active
  chunks in order, and ends, is an induction on the chunks' numbers
  (`ThreadListMemory` begins with induction in the form of a set of numbers,
  which the provers can instantiate).
* `CompactionOrder`: `CompactsTowardsHead`. Each step leaves the elements where
  they are, or is `CleanupMove`, whose source lies behind its target.
* `KernelInductive`, `Coverage`: `KernelCoverage`. It needs two more invariants.
  What lies ahead of a thread (`AheadIn`: behind its position in the order of the
  walk) has not been visited (`OnceInv`), because elements move towards the head
  only, and those that come to lie ahead of a thread are new. For one-way kernels
  what is not ahead has been visited, and the elements ahead and those done so
  far are together no more than `initNumElements` (`AllInv`), so that the walk
  does not stop early. Kernels that allocate do not keep the latter, as the
  sequence in section 4 shows.
* `Refinement`: `ImplementsElementSet`. Each step adds an element to `Live`, takes
  one away, visits one, or is invisible; that `pending` is empty at the end is
  `Coverage`.

Bitmask. For buckets of any width, bitmaps of any length and arrays and elements
of any size.

* `BitmaskInvariant`: `BitmaskInv`: the type, `BitsAgree`, and what the capacity and
  the place of the elements were computed from (`InBlock`).
* `BitsReadBack`: `BitsAgree`. Bucket and position together are the index (`Place`),
  so no write touches another bit.
* `ScansCorrect`: `ScansAgree`. The positions that `ValueMask` leaves are those of
  indices below `numElements`; indices grow with the bucket and fall with the
  position (`PlaceOrder`), so the first bucket with a hit, from its high end, has
  the least index. This is what lets `PumaThreadList` take a bitmap for a set.
* `LayoutCorrect`: `LayoutSound`, for buckets of more than one bit: the block is
  whole buckets with their elements and a remainder (`Layout`), which holds fewer
  elements than a bucket has bits. With buckets of one bit the last part of
  `LayoutSound`, on chunks without a slot, would be false.

Pool, barrier and balancer:

* `PoolTypes`, `ThreadsStarted`: `TypeOK` and `AllThreadsStarted`. The threads
  started are the first ones, on increasing CPUs; those not looked at yet are the
  ones the loop has still to pass, and by their number the loop can still succeed
  exactly when the affinity allows it.
* `PoolInvariant`: `PoolInv`. `TypeOK` alone says nothing about who is served.
  The argument needs, together: a barrier with `NumThreads` waiters has all
  workers in it, or all but one and a caller (`BarrierInv`, by cardinality); a
  caller in the work barrier holds the lock (`LockInv`), so there is one; hence
  a trip finds all workers and exactly one caller (`ServeInv`); and while a call
  is served the published job is its own unless the next caller already has the
  lock, in which case no worker can read (`JobInv`).
* `PoolImplementsParallelExec`: from it, the tripping arrival at the work
  barrier is `Fork`, that at the done barrier `Join`, `RunJob` is `Run`, and all
  other steps are invisible.
* `OneCallerTimes`, `OneCallerFree`: with one caller, `TimesAreOwn` and
  `FreedPoolIdle`: between its calls that caller is served by nobody, and busy
  workers serve somebody.
* `ShimInvariant`: `ShimInv`, by counting. The counter is the number of threads
  that wait or are about to, not counting those of the last round on their way
  out, and reaches `TripCount` only at the thread that trips.
* `ShimImplementsBarrier`: the thread that trips opens the abstract barrier,
  the one that starts to wait is blocked by it, and the return is the unlock.
  Together with `PoolInvariant`, which takes such a barrier as given, this
  carries the pool's results over to builds with the shim.
* `BalanceInvariant`: `BalanceInv`. `TransferLegal` is not inductive: a list was
  pushed under an older remainder. It holds because the remainder only falls,
  which moves a donor's target down, and because no list is on two places of
  the stacks, so a transfer changes only the tops.
* `TransfersAreLegal`, `SharesAreRespected`: `TransferLegal` and `NoOvershoot`
  from it.
* `SharesFilled`: `SharesReached`, by counting (`SharesInv`). The relative speeds
  add up to the number of lists, so the shares, which are rounded down, add up to
  no more than there is, and what all lists have beyond their share and the chunks
  kept back (`Excess`) adds up to `rem` at least. Every list looked at so far that
  is off its share by more than a kept chunk is on a stack. If the donors run out
  with a list still short of its share, that sum would be negative.

Sets. Two hypotheses are the code's own limits, not the proofs'. `ListsMatch`
assumes NUMA domains below 8, because the mask `numalloc_on_node` hands to `mbind`
names another node, or none, beyond. `PumallocCorrect` assumes that CPU 0 is one
of the pool's, because the owner, which is not a thread of the pool, allocates
on the list of CPU 0 (`PumaSetOwnerList` shows `PumallocReturns` false without
it). The others need neither: a `pumalloc` that finds no thread's list does not
come back.

* `ListsMatch`: `ListsAgree`. `CallInv` says which job is forked at which point of
  the owner's call, `ListsInv` that a thread that is done with the setup has
  registered its list. That no two threads find one list is a matter of numbering:
  CPUs are numbered within their domain by how many lie below them.
* `ExtraDataCorrect`: `ExtraDataPaired`. `ExtraInv` says for each of the three
  jobs of `runKernelList` what the threads that are done have made of theirs.
* `Destroyed`: `DestroyedAll`. Elements are only ever on lists of the pool's
  threads (`WhereInv`), and each thread that is done destroying has emptied its own.
* `PumallocCorrect`: `PumallocReturns`. With CPU 0 in the pool it is the CPU of the
  first thread, so the owner's list is one that the setup has registered.
* `KernelsCorrect`: `KernelsReachAll`. While threads run through the kernels each at
  its own pace, an element owed on a thread's list has had all one-way kernels
  that the thread has behind it (`Reached`): nobody else touches that list, and the
  balancer has moved elements only before the fork. That one walk of a one-way
  kernel covers its list is `Given`; `Coverage`, above, is the theorem about the
  chunks behind it.
* `CountCorrect`: `CountIsExact`. A thread that is done has reported the size of its
  list; lists are disjoint and together are the set, so the sum that the owner
  forms is the size of their union, by induction on the threads.

Static data. `StaticInvariant` holds for any number of threads, blocks and sizes;
`NothingCrashes`, `GivenStaysLive` and `UsedFits` (`NoCrash`, `OwnBlocksLive` and
`UsedWithinBlock`) follow. Threads that delete at the same time interleave three
unprotected variables, so the invariant has to say who will clean up. As long as
`_initialiseOnce` is done, some thread has still to reset it (`OnceInv`); as long
as the key of the head exists, some thread has still to delete it, and a key that
does not exist has no value on any thread (`KeysInv`). So when all threads have
deleted, no thread can find a head, whatever keys were overwritten on the way.
Until a thread has read its head, what it may find there is the start of a
chain of its own blocks (`ChainInv`): the key it would find it under is either
the one it was stored under, or new and without a value. An allocation changes
blocks of its own thread only, or adds one (`Grown`), and a deletion frees a
chain of its own thread, so no step disturbs the chains of others.

Only model-checked:

* liveness (`KernelTerminates`, `CallsReturn`, `BalanceTerminates`, `BarrierOpens`,
  `OwnerReturns`, `DeleteReturns`), which depends on fairness and `ENABLED`.

## 6. Not modelled, and the plan

Not modelled: logging, profiling, Valgrind annotations, page migration and the
other system calls, out-of-memory handling (the code has none; `Nodes`, `Elems`
and `Blocks` bound the heap); `pumallocAutoBalancing`, which dereferences NULL
whatever the state; the static pool of builds with `STATIC_THREADPOOL`, whose
unsynchronised setup needs two owner threads, which the pool does not support
anyway; unsynchronised access to a list by a thread that does not own it;
allocation of static data while another thread deletes; spurious wake-ups in the
shim; calls into the pool from a job; a set created for 0 threads.
`PROJECT.json` has a hazard with a reason for each of the last six.

Next: spurious wake-ups in the shim, for which its properties would be false.
