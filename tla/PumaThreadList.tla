--------------------------- MODULE PumaThreadList ---------------------------
(***************************************************************************)
(* The memory of a pumaSet: per-thread lists (struct pumaThreadList) of     *)
(* fixed-size chunks (struct pumaNode), the allocator and the deallocator   *)
(* that work on them, the compaction of a chunk (_cleanupNode), the walk of *)
(* a kernel over a list (_runKernelThread) and the move of chunks between   *)
(* lists (_transferNNodes).                                                 *)
(*                                                                         *)
(* The chunks and lists are one record `mem', and each C function that      *)
(* writes them is an operator from mem to mem, with every pointer           *)
(* assignment of the source.  The two loops with a data-dependent bound,    *)
(* _cleanupNode and the kernel's walk, are unrolled into one action per     *)
(* iteration; `op[l]' holds the C locals of the call in progress on list l. *)
(* An element's address is the pair <<node, slot>>; the bytes stored there  *)
(* are an identity of Elems, and a slot whose freeMask bit is MASKFREE       *)
(* holds NULL.                                                              *)
(***************************************************************************)
EXTENDS Naturals, FiniteSets, FiniteSetsExt

CONSTANTS
  Lists,      \* the active thread lists, one per pool thread
  Nodes,      \* blocks the system allocator can hand out (bounds the heap)
  Elems,      \* identities of elements (bounds how many are live at once)
  Capacity,   \* elements per chunk, as createPumaBitmaskForElemArray computes
  Kernels,    \* the user's kernels; each is what it may do with an element
  AllowDrainedTail, \* may pumalloc meet two empty chunks? (see DrainedTail)
  NULL

KernelOpKinds == {"keep", "freeSelf", "freeOther", "alloc"}

ASSUME ConstantsAssumption ==
  /\ Capacity \in Nat \ {0}
  /\ \A k \in Kernels : k \subseteq KernelOpKinds
  /\ AllowDrainedTail \in BOOLEAN
  /\ NULL \notin Nodes /\ NULL \notin Elems
  /\ IsFiniteSet(Nodes) /\ IsFiniteSet(Lists) /\ Lists # {}

VARIABLES
  mem,      \* [heap, node, list]: allocated blocks, chunk and list headers
  op,       \* [Lists -> locals of the call in progress on that list]
  phase,    \* what the set's owner is doing
  kernel,   \* the kernel it passed to runKernel, {} if none
  owed,     \* history: live since the kernel began and not freed
  visits    \* history: how often the running kernel got each element

vars == <<mem, op, phase, kernel, owed, visits>>

Slots == 0..(Capacity - 1)
Ptr == Nodes \cup {NULL}

NodeRecord ==
  [slot : [Slots -> Elems \cup {NULL}], numElements : Nat,
   firstKnownFree : Nat, next : Ptr, prev : Ptr, dirty : BOOLEAN,
   active : BOOLEAN, index : Nat, threadList : Lists]

ListRecord == [head : Ptr, tail : Ptr, numElements : Nat, numNodes : Nat]

Pcs == {"idle", "walk", "visit", "cleanup", "done"}

OpRecord ==
  [pc : Pcs, currentNode : Ptr, i : Nat, originalElements : Nat,
   elementsDone : Nat, initNumElements : Nat,
   cleaning : Ptr, after : {"alloc", "visit", "kernelAlloc"},
   elem : Elems \cup {NULL}]

TypeOK ==
  /\ mem \in [heap : SUBSET Nodes, node : [Nodes -> NodeRecord],
              list : [Lists -> ListRecord]]
  /\ op \in [Lists -> OpRecord]
  /\ phase \in {"client", "balance", "kernel", "destroyed"}
  /\ kernel \in Kernels \cup {{}}
  /\ owed \subseteq Elems
  /\ visits \in [Elems -> Nat]

-----------------------------------------------------------------------------
(* The chunk as a bitmap: freeMask lookups of bitmask.c. *)

Taken(x) == {s \in Slots : x.slot[s] # NULL}
FirstFree(x) == Min(Slots \ Taken(x))     \* pumaFirstIndexOfValue(MASKFREE)
LastTaken(x) == Max(Taken(x))             \* pumaLastIndexOfValue(MASKNOTFREE)

NodeElems(n) == {mem.node[n].slot[s] : s \in Taken(mem.node[n])}
ListElems(l) ==
  UNION {NodeElems(n) : n \in {m \in mem.heap : mem.node[m].threadList = l}}
Live == UNION {NodeElems(n) : n \in mem.heap}

BlankNode ==
  [slot |-> [s \in Slots |-> NULL], numElements |-> 0, firstKnownFree |-> 0,
   next |-> NULL, prev |-> NULL, dirty |-> FALSE, active |-> FALSE,
   index |-> 0, threadList |-> CHOOSE l \in Lists : TRUE]

EmptyList == [head |-> NULL, tail |-> NULL, numElements |-> 0, numNodes |-> 0]

IdleOp ==
  [pc |-> "idle", currentNode |-> NULL, i |-> 0, originalElements |-> 0,
   elementsDone |-> 0, initNumElements |-> 0, cleaning |-> NULL,
   after |-> "alloc", elem |-> NULL]

-----------------------------------------------------------------------------
(* Memory operations: functions from mem to mem. *)

(* Mutant: the list's counter is forgotten. *)
AllocUncounted(m, n, s, e) ==
  [m EXCEPT !.node[n].slot[s] = e, !.node[n].numElements = @ + 1]

(* _allocElementOnNode, with the memcpy or the user's write into the slot. *)
AllocElementOnNode(m, n, s, e) ==
  [m EXCEPT !.node[n].slot[s] = e,
            !.node[n].numElements = @ + 1,
            !.list[m.node[n].threadList].numElements = @ + 1]

(* _freePumaNode: unlink the block and give it back. *)
FreePumaNode(m, n) ==
  LET x == m.node[n]
      ends == [m EXCEPT
        !.list[x.threadList].tail = IF @ = n THEN x.prev ELSE @,
        !.list[x.threadList].head = IF @ = n THEN x.next ELSE @]
      before == IF x.prev = NULL THEN ends
                ELSE [ends EXCEPT !.node[x.prev].next = x.next]
      behind == IF x.next = NULL THEN before
                ELSE [before EXCEPT !.node[x.next].prev = x.prev]
  IN  [behind EXCEPT !.heap = @ \ {n}, !.node[n] = BlankNode]

(* Mutant: the chunk is not marked for compaction. *)
ClearSlotQuietly(m, n, s) ==
  [m EXCEPT !.node[n].slot[s] = NULL,
            !.node[n].numElements = @ - 1,
            !.list[m.node[n].threadList].numElements = @ - 1]

(* _freeElementOnNode, first part: the slot and the counters. *)
ClearSlot(m, n, s) ==
  [m EXCEPT !.node[n].dirty = TRUE,
            !.node[n].slot[s] = NULL,
            !.node[n].numElements = @ - 1,
            !.list[m.node[n].threadList].numElements = @ - 1]

(* Second part: a chunk that falls below half full releases the inactive    *)
(* chunk behind it and ends the list at itself.                             *)
FreeElementOnNode(m, n, s) ==
  LET freed == ClearSlot(m, n, s)
      next == freed.node[n].next
  IN  IF /\ freed.node[n].numElements < Capacity \div 2
         /\ next # NULL
         /\ ~freed.node[next].active
      THEN [FreePumaNode(freed, next) EXCEPT !.node[n].next = NULL]
      ELSE freed

(* _appendPumaNode: reactivate the tail, or the chunk behind it, or link a  *)
(* new block.                                                               *)
NewBlock(m) == CHOOSE n \in Nodes : n \notin m.heap

NeedsBlock(m, l) ==
  LET t == m.list[l].tail
  IN  t = NULL \/ (m.node[t].active /\ m.node[t].next = NULL)

NewPumaNode(m, l) ==
  LET t == m.list[l].tail
  IN  [BlankNode EXCEPT !.prev = t, !.active = TRUE,
         !.index = IF t = NULL THEN 0 ELSE m.node[t].index + 1,
         !.threadList = l]

LinkNewNode(m, l, n) ==
  LET t == m.list[l].tail
      fresh == [m EXCEPT !.heap = @ \cup {n},
                         !.node[n] = NewPumaNode(m, l),
                         !.list[l].tail = n,
                         !.list[l].head = IF @ = NULL THEN n ELSE @]
  IN  IF t = NULL THEN fresh ELSE [fresh EXCEPT !.node[t].next = n]

ReactivateNode(m, l) ==
  LET t == m.list[l].tail
      next == m.node[t].next
  IN  IF ~m.node[t].active
      THEN [m EXCEPT !.node[t].active = TRUE]
      ELSE [m EXCEPT !.list[l].tail = next,
                     !.node[next] = [@ EXCEPT !.active = TRUE,
                                              !.index = m.node[t].index + 1]]

AppendPumaNode(m, l) ==
  LET linked == IF NeedsBlock(m, l) THEN LinkNewNode(m, l, NewBlock(m))
                ELSE ReactivateNode(m, l)
  IN  [linked EXCEPT !.list[l].numNodes =
                          linked.node[linked.list[l].tail].index + 1]

(* Mutant: the chunk is deactivated and still counted. *)
DropUncounted(m, l) ==
  LET t == m.list[l].tail
  IN  [m EXCEPT !.node[t].active = FALSE,
                !.list[l].tail = IF m.node[t].prev = NULL
                                 THEN @ ELSE m.node[t].prev]

(* One round of the loop of _getLastElement that finds its tail empty. *)
DropEmptyTail(m, l) ==
  LET t == m.list[l].tail
  IN  [m EXCEPT !.node[t].active = FALSE,
                !.list[l].numNodes = IF @ > 0 THEN @ - 1 ELSE @,
                !.list[l].tail = IF m.node[t].prev = NULL
                                 THEN @ ELSE m.node[t].prev]

(* _pumallocOnThreadList up to the choice of a slot: make sure the tail has *)
(* room (MustAppend), then take the slot firstKnownFree points at.          *)
MustAppend(l) ==
  LET t == mem.list[l].tail
  IN  t = NULL \/ mem.node[t].numElements = Capacity

TakeSlot(l) ==
  LET m == IF MustAppend(l) THEN AppendPumaNode(mem, l) ELSE mem
  IN  [m EXCEPT !.node[m.list[l].tail].firstKnownFree = @ + 1]

(* Mutant: a chunk that compaction deactivated stays so. *)
FinishAsleep(m, l, n, s, e) ==
  AllocElementOnNode([m EXCEPT !.list[l].tail = n], n, s, e)

(* _pumallocOnThreadList from the choice of slot s of chunk n to its end. *)
MakeTail(m, l, n) ==
  LET header == [m.list[l] EXCEPT
                   !.numNodes = IF m.node[n].active THEN @ ELSE @ + 1,
                   !.tail = n]
  IN  [m EXCEPT !.list[l] = header, !.node[n].active = TRUE]

FinishAlloc(m, l, n, s, e) == AllocElementOnNode(MakeTail(m, l, n), n, s, e)

(* _transferNNodes: the last k chunks of `from', the first of which is       *)
(* `start', become the last of `to'.  Its three parts in their order: splice *)
(* them in behind to's active chunks, close the gap, adopt them.             *)
StartOfLast(m, k, from) ==
  LET back[i \in 0..(k - 1)] ==
        IF i = 0 THEN m.list[from].tail ELSE m.node[back[i - 1]].prev
  IN  back[k - 1]

SetNext(m, n, v) == [m EXCEPT !.node[n] = [@ EXCEPT !.next = v]]
SetPrev(m, n, v) == [m EXCEPT !.node[n] = [@ EXCEPT !.prev = v]]
SetIndex(m, n, i) == [m EXCEPT !.node[n] = [@ EXCEPT !.index = i]]
SetDirty(m, n) == [m EXCEPT !.node[n] = [@ EXCEPT !.dirty = TRUE]]
SetHead(m, l, v) == [m EXCEPT !.list[l] = [@ EXCEPT !.head = v]]
SetTail(m, l, v) == [m EXCEPT !.list[l] = [@ EXCEPT !.tail = v]]
SetNumNodes(m, l, i) == [m EXCEPT !.list[l] = [@ EXCEPT !.numNodes = i]]
SetNumElements(m, l, i) == [m EXCEPT !.list[l] = [@ EXCEPT !.numElements = i]]

SpliceIn(m, start, end, to) ==
  LET toTail == m.list[to].tail
      toNext == m.node[toTail].next
      linked == SetNext(SetNext(m, end, toNext), toTail, start)
      behindActive == SetPrev(SetDirty(linked, toTail), start, toTail)
      asHead == SetPrev(SetNext(SetHead(m, to, start), end, toTail), start, NULL)
  IN  IF toTail = NULL THEN asHead
      ELSE IF ~m.node[toTail].active
      THEN SetIndex(SetPrev(asHead, toTail, end), toTail, m.node[end].index + 1)
      ELSE IF toNext = NULL THEN behindActive
      ELSE SetPrev(behindActive, toNext, end)

CloseGap(m, fromTail, fromTailNext, from) ==
  LET drained == SetTail(SetHead(m, from, fromTailNext), from, fromTailNext)
      shortened == SetNext(SetTail(m, from, fromTail), fromTail, fromTailNext)
  IN  IF fromTail = NULL
      THEN IF fromTailNext = NULL THEN drained
           ELSE SetIndex(SetPrev(drained, fromTailNext, NULL), fromTailNext, 0)
      ELSE IF fromTailNext = NULL THEN shortened
           ELSE SetPrev(shortened, fromTailNext, fromTail)

(* The k chunks from start on, renumbered behind their new predecessor. *)
ChunksFrom(m, start, k) ==
  LET fwd[i \in 0..(k - 1)] ==
        IF i = 0 THEN start ELSE m.node[fwd[i - 1]].next
  IN  fwd

(* Mutant: the elements of the chunks stay with the old list's count. *)
KeepNumElements(m, moved, from, to) == m

UpdatenumElements(m, moved, from, to) ==
  LET num == MapThenSumSet(LAMBDA n : m.node[n].numElements, moved)
      taken == SetNumElements(m, from, m.list[from].numElements - num)
  IN  SetNumElements(taken, to, m.list[to].numElements + num)

(* _indexNodes, _moveNodeThreadLists, _updatenumElements and numNodes. *)
Adopt(m, run, k, from, to) ==
  LET moved == {run[i] : i \in 0..(k - 1)}
      prev == m.node[run[0]].prev
      base == IF prev = NULL THEN 0 ELSE m.node[prev].index + 1
      renumbered == [m EXCEPT !.node = [n \in Nodes |->
        IF n \notin moved THEN m.node[n]
        ELSE [m.node[n] EXCEPT
                !.index = base + CHOOSE i \in 0..(k - 1) : run[i] = n,
                !.threadList = to]]]
      tailed == SetTail(renumbered, to, run[k - 1])
      taken == SetNumNodes(tailed, from, m.list[from].numNodes - k)
      owned == SetNumNodes(taken, to, m.list[to].numNodes + k)
  IN  UpdatenumElements(owned, moved, from, to)

TransferNNodes(m, k, from, to) ==
  LET end == m.list[from].tail
      start == StartOfLast(m, k, from)
      linked == CloseGap(SpliceIn(m, start, end, to),
                         m.node[start].prev, m.node[end].next, from)
  IN  Adopt(linked, ChunksFrom(linked, start, k), k, from, to)

-----------------------------------------------------------------------------
(* pumalloc and pufree as called outside a kernel, by the list's thread or  *)
(* by the one thread that owns the set.                                     *)

Fresh == Elems \ (Live \cup {op[l].elem : l \in Lists})

Room(l) == MustAppend(l) /\ NeedsBlock(mem, l) => mem.heap # Nodes

(* The last two active chunks have lost all their elements and the tail has *)
(* handed out its last slot: _getLastElement, called to compact the tail,   *)
(* deactivates both, and pumalloc reactivates only the tail.  Runs with     *)
(* AllowDrainedTail = FALSE leave this one situation out.                   *)
DrainedTail(l) ==
  LET t == mem.list[l].tail
      p == mem.node[t].prev
  IN  /\ ~MustAppend(l)
      /\ Taken(mem.node[t]) = {}
      /\ mem.node[t].firstKnownFree >= Capacity
      /\ p # NULL
      /\ Taken(mem.node[p]) = {}

(* The allocation of e on list l: done at once when firstKnownFree points   *)
(* into the chunk, else after a compaction of the tail, which CleanupDone   *)
(* completes.  `locals' are the caller's locals if it returns at once.      *)
PumallocOnThreadList(l, e, after, locals) ==
  LET m == TakeSlot(l)
      t == m.list[l].tail
      freeIndex == m.node[t].firstKnownFree - 1
  IN  /\ Room(l)
      /\ AllowDrainedTail \/ ~DrainedTail(l)
      /\ \/ /\ freeIndex < Capacity
            /\ mem' = FinishAlloc(m, l, t, freeIndex, e)
            /\ op' = [op EXCEPT ![l] = locals]
         \/ /\ freeIndex >= Capacity
            /\ mem' = m
            /\ op' = [op EXCEPT ![l].pc = "cleanup", ![l].cleaning = t,
                                ![l].after = after, ![l].elem = e]

Pumalloc(l, e) ==
  /\ phase = "client"
  /\ op[l].pc = "idle"
  /\ PumallocOnThreadList(l, e, "alloc", IdleOp)
  /\ UNCHANGED <<phase, kernel, owed, visits>>

Pufree(n, s) ==
  /\ phase = "client"
  /\ n \in mem.heap
  /\ mem.node[n].slot[s] # NULL
  /\ op[mem.node[n].threadList].pc = "idle"
  /\ mem' = FreeElementOnNode(mem, n, s)
  /\ UNCHANGED <<op, phase, kernel, owed, visits>>

-----------------------------------------------------------------------------
(* _cleanupNode, one action per round of its loop.                          *)

TailIsEmpty(l) ==
  LET t == mem.list[l].tail
  IN  t # NULL /\ mem.node[t].active /\ Taken(mem.node[t]) = {}

(* Mutant: any last element fills the hole, wherever it lies. *)
CanPullAny(l) ==
  LET t == mem.list[l].tail
  IN  t # NULL /\ mem.node[t].active /\ Taken(mem.node[t]) # {}

(* _getLastElement finds an element that lies behind the first hole. *)
CanPull(l) ==
  LET t == mem.list[l].tail
      c == op[l].cleaning
  IN  /\ t # NULL
      /\ mem.node[t].active
      /\ Taken(mem.node[t]) # {}
      /\ mem.node[t].index >= mem.node[c].index
      /\ mem.node[t].index = mem.node[c].index
           => FirstFree(mem.node[c]) < LastTaken(mem.node[t])

Cleaning(l) ==
  op[l].pc = "cleanup" /\ mem.node[op[l].cleaning].numElements < Capacity

CleanupDropTail(l) ==
  /\ Cleaning(l)
  /\ TailIsEmpty(l)
  /\ mem' = DropEmptyTail(mem, l)
  /\ UNCHANGED <<op, phase, kernel, owed, visits>>

(* Mutant: the element's old copy is not freed. *)
PullCopy(c, t) ==
  AllocElementOnNode(mem, c, FirstFree(mem.node[c]),
                     mem.node[t].slot[LastTaken(mem.node[t])])

(* The last element of chunk t is copied to the first hole of c and freed. *)
Pull(c, t) ==
  LET last == LastTaken(mem.node[t])
  IN  FreeElementOnNode(
        AllocElementOnNode(mem, c, FirstFree(mem.node[c]),
                           mem.node[t].slot[last]),
        t, last)

CleanupMove(l) ==
  /\ Cleaning(l)
  /\ CanPull(l)
  /\ mem' = Pull(op[l].cleaning, mem.list[l].tail)
  /\ UNCHANGED <<op, phase, kernel, owed, visits>>

(* Leave the loop, mark the chunk clean, and go on where it was called. *)
CleanupDone(l) ==
  LET o == op[l]
      c == o.cleaning
      num == mem.node[c].numElements
      clean == [mem EXCEPT !.node[c] =
                  [@ EXCEPT !.dirty = FALSE, !.firstKnownFree = num]]
      resumed == [o EXCEPT !.cleaning = NULL, !.elem = NULL]
  IN  /\ o.pc = "cleanup"
      /\ ~(Cleaning(l) /\ (TailIsEmpty(l) \/ CanPull(l)))
      /\ \/ /\ o.after = "visit"
            /\ mem' = clean
            /\ op' = [op EXCEPT ![l] = [resumed EXCEPT !.pc = "visit", !.i = 0,
                                          !.originalElements = num]]
         \/ /\ o.after # "visit"
            /\ mem' = FinishAlloc([clean EXCEPT !.node[c].firstKnownFree = num + 1],
                                  l, c, num, o.elem)
            /\ op' = [op EXCEPT ![l] =
                        IF o.after = "alloc" THEN IdleOp
                        ELSE [resumed EXCEPT !.pc = "visit", !.i = @ + 1]]
      /\ UNCHANGED <<phase, kernel, owed, visits>>

-----------------------------------------------------------------------------
(* runKernelList: balance, run the kernel on every list in parallel, wait.  *)

RunKernel ==
  /\ phase = "client"
  /\ \A l \in Lists : op[l].pc = "idle"
  /\ phase' = "balance"
  /\ UNCHANGED <<mem, op, kernel, owed, visits>>

(* The balancer's only access to the lists.  Which k, from and to it picks   *)
(* is the business of module Balance; here any call its assertions allow.   *)
Transfer(k, from, to) ==
  /\ phase = "balance"
  /\ from # to
  /\ k > 0
  /\ mem.list[from].numNodes >= k
  /\ mem' = TransferNNodes(mem, k, from, to)
  /\ UNCHANGED <<op, phase, kernel, owed, visits>>

(* The kernel that runKernel was given matters from here on. *)
StartKernel(k) ==
  /\ phase = "balance"
  /\ phase' = "kernel"
  /\ kernel' = k
  /\ op' = [l \in Lists |->
              [IdleOp EXCEPT !.pc = "walk",
                             !.currentNode = mem.list[l].head,
                             !.initNumElements = mem.list[l].numElements]]
  /\ owed' = Live
  /\ visits' = [e \in Elems |-> 0]
  /\ UNCHANGED mem

(* Mutant: the chunk is entered as it is, holes and all. *)
EnterUncleaned(o, c) ==
  [o EXCEPT !.pc = "visit", !.i = 0,
            !.originalElements = mem.node[c].numElements]

(* The body of the loop of _runKernelThread: a dirty chunk is compacted      *)
(* before _runKernelOnNode, whose locals are set, goes over it.              *)
EnterNode(o, c) ==
  IF mem.node[c].dirty
  THEN [o EXCEPT !.pc = "cleanup", !.cleaning = c, !.after = "visit"]
  ELSE [o EXCEPT !.pc = "visit", !.i = 0,
                 !.originalElements = mem.node[c].numElements]

(* The head of that loop. *)
KernelWalk(l) ==
  LET o == op[l]
      c == o.currentNode
      stop == \/ c = NULL
              \/ ~mem.node[c].active
              \/ o.elementsDone >= o.initNumElements
  IN  /\ o.pc = "walk"
      /\ op' = [op EXCEPT ![l] = IF stop THEN [IdleOp EXCEPT !.pc = "done"]
                                 ELSE EnterNode(o, c)]
      /\ UNCHANGED <<mem, phase, kernel, owed, visits>>

(* _runKernelOnNode's loop condition.  At a free slot the code increments    *)
(* skippedElements and not i, so the unsigned i - skippedElements counts     *)
(* down and wraps past originalElements: the loop ends at the first hole.   *)
VisitsNext(l) ==
  LET o == op[l]
  IN  /\ o.pc = "visit"
      /\ o.i < o.originalElements
      /\ o.i < Capacity
      /\ o.elementsDone < o.initNumElements
      /\ mem.node[o.currentNode].slot[o.i] # NULL

Visited(l) == mem.node[op[l].currentNode].slot[op[l].i]
NextSlot(l) == [op[l] EXCEPT !.i = @ + 1]
Count(e) == [visits EXCEPT ![e] = @ + 1]

(* The kernel leaves the set alone. *)
KernelKeep(l) ==
  /\ "keep" \in kernel
  /\ VisitsNext(l)
  /\ visits' = Count(Visited(l))
  /\ op' = [op EXCEPT ![l] = NextSlot(l)]
  /\ UNCHANGED <<mem, phase, kernel, owed>>

(* The kernel calls pufree on the element at <<n, s>> of its own list. *)
KernelFree(l, n, s) ==
  LET e == mem.node[n].slot[s]
  IN  /\ VisitsNext(l)
      /\ n \in mem.heap /\ mem.node[n].threadList = l /\ e # NULL
      /\ (IF e = Visited(l) THEN "freeSelf" ELSE "freeOther") \in kernel
      /\ mem' = FreeElementOnNode(mem, n, s)
      /\ op' = [op EXCEPT ![l] = NextSlot(l)]
      /\ owed' = owed \ {e}
      /\ visits' = Count(Visited(l))
      /\ UNCHANGED <<phase, kernel>>

(* The kernel calls pumalloc: the current thread's list is l. *)
KernelAlloc(l, e) ==
  /\ "alloc" \in kernel
  /\ VisitsNext(l)
  /\ PumallocOnThreadList(l, e, "kernelAlloc", NextSlot(l))
  /\ visits' = Count(Visited(l))
  /\ UNCHANGED <<phase, kernel, owed>>

(* Mutant: the slot at which the loop stopped is counted as done too. *)
ElementsDoneOff(l) == op[l].elementsDone + op[l].i + 1

ElementsDone(l) == op[l].elementsDone + op[l].i

(* The end of _runKernelOnNode and the step to the next chunk. *)
LeaveNode(l) ==
  /\ op[l].pc = "visit"
  /\ ~VisitsNext(l)
  /\ op' = [op EXCEPT ![l].pc = "walk",
                      ![l].elementsDone = ElementsDone(l),
                      ![l].i = 0, ![l].originalElements = 0,
                      ![l].currentNode = mem.node[op[l].currentNode].next]
  /\ UNCHANGED <<mem, phase, kernel, owed, visits>>

KernelReturns ==
  /\ phase = "kernel"
  /\ \A l \in Lists : op[l].pc = "done"
  /\ phase' = "client"
  /\ kernel' = {}
  /\ op' = [l \in Lists |-> IdleOp]
  /\ owed' = {}
  /\ visits' = [e \in Elems |-> 0]
  /\ UNCHANGED mem

-----------------------------------------------------------------------------
(* The chunks reachable from a list's head. *)
ChainAt(m, l) ==
  LET at[i \in 0..Cardinality(Nodes)] ==
        IF i = 0 THEN m.list[l].head
        ELSE IF at[i - 1] = NULL THEN NULL ELSE m.node[at[i - 1]].next
  IN  at

Chain(m, l) == {ChainAt(m, l)[i] : i \in 0..Cardinality(Nodes)} \ {NULL}

(* destroyPumaSet: every worker frees what its list reaches. *)
DestroyPumaSet ==
  LET gone == UNION {Chain(mem, l) : l \in Lists}
  IN  /\ phase = "client"
      /\ \A l \in Lists : op[l].pc = "idle"
      /\ phase' = "destroyed"
      /\ mem' = [heap |-> mem.heap \ gone,
                 node |-> [n \in Nodes |-> IF n \in gone THEN BlankNode
                                           ELSE mem.node[n]],
                 list |-> [l \in Lists |-> EmptyList]]
      /\ UNCHANGED <<op, kernel, owed, visits>>

(* createPumaSet: initDomain zeroes the lists. *)
CreatePumaSet ==
  /\ phase = "destroyed"
  /\ phase' = "client"
  /\ UNCHANGED <<mem, op, kernel, owed, visits>>

Init ==
  /\ mem = [heap |-> {}, node |-> [n \in Nodes |-> BlankNode],
            list |-> [l \in Lists |-> EmptyList]]
  /\ op = [l \in Lists |-> IdleOp]
  /\ phase = "client"
  /\ kernel = {}
  /\ owed = {}
  /\ visits = [e \in Elems |-> 0]

ThreadStep(l) ==
  \/ CleanupDropTail(l) \/ CleanupMove(l) \/ CleanupDone(l)
  \/ KernelWalk(l) \/ KernelKeep(l) \/ LeaveNode(l)
  \/ \E n \in Nodes, s \in Slots : KernelFree(l, n, s)
  \/ \E e \in Fresh : KernelAlloc(l, e)

Next ==
  \/ \E l \in Lists : ThreadStep(l)
  \/ \E l \in Lists : \E e \in Fresh : Pumalloc(l, e)
  \/ \E n \in Nodes, s \in Slots : Pufree(n, s)
  \/ RunKernel
  \/ \E from, to \in Lists : \E k \in 1..Cardinality(Nodes) : Transfer(k, from, to)
  \/ \E k \in Kernels : StartKernel(k)
  \/ KernelReturns
  \/ DestroyPumaSet
  \/ CreatePumaSet

Spec == Init /\ [][Next]_vars

(* Pool threads and the thread blocked in runKernelList are scheduled; the  *)
(* user is free to stop calling.                                            *)
FairSpec ==
  /\ Spec
  /\ \A l \in Lists : WF_vars(ThreadStep(l))
  /\ WF_vars(\E k \in Kernels : StartKernel(k)) /\ WF_vars(KernelReturns)

-----------------------------------------------------------------------------
(* Properties.                                                             *)

(* What _countNodes asserts and _transferNNodes asserts before and after    *)
(* every move: the active chunks are a prefix of the list numbered 0, 1,    *)
(* ..., numNodes counts them, tail is the last of them (the head when there *)
(* is none), prev inverts next, and every chunk of the list points back at  *)
(* its list.  It holds in every state, the middle of a compaction included. *)
ListShape ==
  \A l \in Lists :
    LET at == ChainAt(mem, l)
        n == mem.list[l].numNodes
        InList(i) ==
          LET x == mem.node[at[i]]
          IN  /\ at[i] \in mem.heap
              /\ x.threadList = l
              /\ x.prev = (IF i = 0 THEN NULL ELSE at[i - 1])
              /\ x.active <=> i < n
              /\ x.active => x.index = i
    IN  /\ at[Cardinality(Nodes)] = NULL
        /\ mem.list[l].tail = (IF n = 0 THEN at[0] ELSE at[n - 1])
        /\ \A i \in 0..(n - 1) : at[i] # NULL
        /\ \A i \in 0..Cardinality(Nodes) : at[i] # NULL => InList(i)

(* getNumElements: the sum of the lists' counters. *)
GetNumElements == MapThenSumSet(LAMBDA l : mem.list[l].numElements, Lists)

(* The counters, which are incremented and decremented far from the bitmap  *)
(* writes they count and moved between lists by _updatenumElements, agree   *)
(* with the bitmaps, and getNumElements() returns the size of the set.      *)
CountersAgree ==
  /\ \A n \in mem.heap :
       mem.node[n].numElements = Cardinality(Taken(mem.node[n]))
  /\ \A l \in Lists : mem.list[l].numElements = Cardinality(ListElems(l))
  /\ phase # "destroyed" => GetNumElements = Cardinality(Live)

(* What _pumallocOnThreadList relies on when it takes firstKnownFree        *)
(* without a look at the bitmap (and asserts in _allocElementOnNode), and   *)
(* what _runKernelOnNode relies on when it runs over slots 0, 1, ...: a     *)
(* chunk not marked dirty has its elements packed at the front, and a slot  *)
(* at or behind firstKnownFree is free.                                     *)
CleanMeansPacked ==
  \A n \in mem.heap \ {op[l].cleaning : l \in Lists} :
    LET x == mem.node[n]
    IN  /\ \A s \in Taken(x) : s < x.firstKnownFree
        /\ ~x.dirty => Taken(x) = 0..(x.numElements - 1)

(* No compaction, reuse of a chunk or transfer loses or doubles an element: *)
(* each is stored at one address only, in an active chunk that its list     *)
(* reaches, where the next kernel will find it.                             *)
StoredOnceWithinReach ==
  /\ \A n1, n2 \in mem.heap : \A s1, s2 \in Slots :
       mem.node[n1].slot[s1] = mem.node[n2].slot[s2]
         => mem.node[n1].slot[s1] = NULL \/ (n1 = n2 /\ s1 = s2)
  /\ \A n \in mem.heap : NodeElems(n) # {} =>
       mem.node[n].active /\ n \in Chain(mem, mem.node[n].threadList)

(* A kernel that at most frees the element it is given.  One that frees     *)
(* other elements ends the walk of a chunk at the hole it made.  One that   *)
(* allocates can miss elements that were there before: a later compaction   *)
(* pulls the new element into a hole in front of old ones, where it counts  *)
(* as one of the initNumElements after which the walk stops.                *)
OneWay(k) == k \subseteq {"keep", "freeSelf"}

(* runKernel() "runs kernel on all elements in set": whatever the kernel     *)
(* does, no element that was in the set when it began and that it did not   *)
(* free is visited twice, and a one-way kernel has visited all of them when *)
(* the threads are done.                                                    *)
KernelCoverage ==
  phase = "kernel" =>
    /\ \A e \in owed : visits[e] <= 1
    /\ OneWay(kernel) /\ (\A l \in Lists : op[l].pc = "done")
         => \A e \in owed : visits[e] = 1

(* A pointer the user holds into the set goes stale only by compaction, and *)
(* compaction moves an element towards the head of its own list only.       *)
Where(e) ==
  {a \in mem.heap \X Slots : mem.node[a[1]].slot[a[2]] = e}

Precedes(n1, s1, n2, s2) ==
  \/ mem.node[n1].index < mem.node[n2].index
  \/ n1 = n2 /\ s1 < s2

CompactsTowardsHead ==
  [][phase # "destroyed" /\ phase' # "destroyed" =>
     \A e \in Elems : \A a \in Where(e), b \in Where(e)' :
       a = b \/ /\ op[mem.node[a[1]].threadList].pc = "cleanup"
                /\ mem.node[a[1]].threadList = mem.node[b[1]].threadList
                /\ Precedes(b[1], b[2], a[1], a[2])]_vars

(* The set seen by its user: chunks and lists implement a plain set. *)
Abstract ==
  INSTANCE ElementSet WITH live <- Live,
                           running <- phase = "kernel",
                           exact <- OneWay(kernel),
                           pending <- {e \in owed : visits[e] = 0}

ImplementsElementSet == Abstract!Spec

(* A kernel that itself returns cannot make runKernel() spin: every walk,   *)
(* compactions and in-kernel allocations included, ends.                    *)
KernelTerminates == phase = "kernel" ~> phase = "client"

(* destroyPumaSet: "Free set and destroy all of its members".  No block is  *)
(* left allocated once the set is gone.                                     *)
DestroyReleasesAll == phase = "destroyed" => mem.heap = {}
=============================================================================
