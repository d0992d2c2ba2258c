----------------------------- MODULE StaticVar -----------------------------
(***************************************************************************)
(* Static data per thread (pumastaticvar.c): blocks chained from a         *)
(* thread-specific head, under two keys that all threads share, and the    *)
(* deletion of that data together with the keys.                           *)
(*                                                                         *)
(* Use is that of the library's tutorial: threads allocate during one job  *)
(* of the pool and delete during another.  Within a job that allocates,    *)
(* pthread_once is the only thing threads share, so a call is one step; in *)
(* one that deletes, each access to a shared variable is a step.           *)
(***************************************************************************)
EXTENDS Naturals, FiniteSets, FiniteSetsExt

CONSTANTS
  Threads,
  Blocks,      \* the heap (bound)
  MaxKeys,     \* PTHREAD_KEYS_MAX (bound)
  Sizes,       \* sizes asked for
  PageSize,
  HeaderSize,  \* sizeof(struct pumaStaticNode)
  NULL

ASSUME StaticAssumption ==
  /\ IsFiniteSet(Threads) /\ Threads # {} /\ IsFiniteSet(Blocks)
  /\ MaxKeys \in Nat \ {0} /\ PageSize \in Nat \ {0} /\ HeaderSize \in Nat
  /\ Sizes \subseteq Nat
  /\ NULL \notin Blocks

VARIABLES
  job,             \* the job of the pool: "alloc" or "delete"
  pc,              \* where each thread is in its call
  initialiseOnce,  \* _initialiseOnce
  live,            \* keys created and not yet deleted
  specific,        \* the value of each key in each thread
  headKey, tailKey,
  node,            \* the allocated blocks and their headers
  head,            \* the local head of pumaDeleteStaticData
  given            \* history: blocks a thread got memory in since it last deleted

keyVars == <<live, specific, headKey, tailKey>>
vars == <<job, pc, initialiseOnce, keyVars, node, head, given>>

Keys == 1..MaxKeys
NodeRecord == [owner : Threads, used : Nat, blockSize : Nat, next : Blocks \cup {NULL}]
DeletePcs == {"once", "createHead", "createTail", "readHead", "freeChain",
              "resetOnce", "deleteHead", "deleteTail"}

TypeOK ==
  /\ job \in {"alloc", "delete"}
  /\ pc \in [Threads -> DeletePcs \cup {"idle", "deleted", "crashed"}]
  /\ initialiseOnce \in {"init", "running", "done"}
  /\ live \subseteq Keys
  /\ specific \in [Threads -> [Keys -> Blocks \cup {NULL}]]
  /\ headKey \in Keys /\ tailKey \in Keys
  /\ DOMAIN node \subseteq Blocks /\ \A b \in DOMAIN node : node[b] \in NodeRecord
  /\ head \in [Threads -> Blocks \cup {NULL}]
  /\ given \in [Threads -> SUBSET Blocks]

Init ==
  /\ job = "alloc"
  /\ pc = [t \in Threads |-> "idle"]
  /\ initialiseOnce = "init"
  /\ live = {}
  /\ specific = [t \in Threads |-> [k \in Keys |-> NULL]]
  /\ headKey = 1 /\ tailKey = 1
  /\ node = [b \in {} |-> NULL]
  /\ head = [t \in Threads |-> NULL]
  /\ given = [t \in Threads |-> {}]

-----------------------------------------------------------------------------
(* Thread-specific values.  POSIX leaves the use of a deleted key undefined; *)
(* Linux and macOS find NULL under it and store nothing.  Under a new key no *)
(* thread has a value.                                                       *)

(* Bound: pthread_key_create is called as long as n keys are left. *)
KeysLeft(n) == Cardinality(Keys \ live) >= n

NewKey(taken) == Min(Keys \ taken)

KeyDelete(k) ==
  /\ live' = live \ {k}
  /\ specific' = [t \in Threads |-> [specific[t] EXCEPT ![k] = NULL]]

-----------------------------------------------------------------------------
(* pumallocStaticLocal *)

GetSmallestContainingPages(size) == ((size + PageSize - 1) \div PageSize) * PageSize

FreshNode(t, size) ==
  [owner |-> t, used |-> 0, next |-> NULL,
   blockSize |-> GetSmallestContainingPages(size) + HeaderSize]

(* _appendStaticNode, into the unused block b; prev is NULL or a block. *)
AppendStaticNode(n, b, t, prev, size) ==
  LET added == [c \in DOMAIN n \cup {b} |-> IF c = b THEN FreshNode(t, size) ELSE n[c]]
  IN  IF prev = NULL THEN added ELSE [added EXCEPT ![prev].next = b]

(* Mutant: what was used is forgotten. *)
TailIsLarge(n, tail, size) == n[tail].blockSize >= size

TailHasSpace(n, tail, size) == n[tail].blockSize - n[tail].used >= size

Bump(n, b, size) == [n EXCEPT ![b].used = @ + size]

(* Memory for size bytes, when the thread has the block tail: in it, or in b *)
(* appended to it.  The key of the tail keeps its value either way.          *)
TakeFrom(n, tail, b, t, size) ==
  LET hit == TailHasSpace(n, tail, size)
      from == IF hit THEN tail ELSE b
      kept == IF hit THEN n ELSE AppendStaticNode(n, b, t, tail, size)
  IN  /\ node' = Bump(kept, from, size)
      /\ given' = [given EXCEPT ![t] = @ \cup {from}]

UnusedBlocks == Blocks \ DOMAIN node
NewBlock == CHOOSE b \in UnusedBlocks : TRUE    \* posix_memalign

(* The first call of all creates the keys (pthread_once). *)
InitialiseStaticNodes ==
  /\ initialiseOnce = "init"
  /\ KeysLeft(2)
  /\ LET h == NewKey(live)
         l == NewKey(live \cup {h})
     IN  /\ headKey' = h /\ tailKey' = l
         /\ live' = live \cup {h, l}
  /\ initialiseOnce' = "done"
  /\ UNCHANGED <<job, pc, specific, node, head, given>>

(* A call of a thread that has no block under the key of the head.  Storing  *)
(* it under deleted keys does nothing, and the tail is then read as NULL.    *)
PumallocFirst(t, size) ==
  /\ initialiseOnce = "done"
  /\ specific[t][headKey] = NULL
  /\ LET b == NewBlock
         n == AppendStaticNode(node, b, t, NULL, size)
     IN  IF headKey \in live /\ tailKey \in live
           THEN /\ specific' = [specific EXCEPT ![t][headKey] = b, ![t][tailKey] = b]
                /\ TakeFrom(n, b, b, t, size)    \* b is large enough
                /\ UNCHANGED pc
           ELSE /\ pc' = [pc EXCEPT ![t] = "crashed"]
                /\ node' = n
                /\ UNCHANGED <<specific, given>>
  /\ UNCHANGED <<job, initialiseOnce, live, headKey, tailKey, head>>

PumallocNext(t, size) ==
  /\ initialiseOnce = "done"
  /\ specific[t][headKey] # NULL
  /\ LET tail == specific[t][tailKey]
     IN  IF tail \in DOMAIN node
           THEN /\ TakeFrom(node, tail, NewBlock, t, size)
                /\ UNCHANGED pc
           ELSE /\ pc' = [pc EXCEPT ![t] = "crashed"]
                /\ UNCHANGED <<node, given>>
  /\ UNCHANGED <<job, initialiseOnce, keyVars, head>>

PumallocStaticLocal(t) ==
  /\ job = "alloc" /\ pc[t] = "idle"
  /\ UnusedBlocks # {}
  /\ \/ InitialiseStaticNodes
     \/ \E size \in Sizes : PumallocFirst(t, size) \/ PumallocNext(t, size)

-----------------------------------------------------------------------------
(* pumaDeleteStaticData *)

Goto(t, from, to) == pc[t] = from /\ pc' = [pc EXCEPT ![t] = to]

PumaDeleteStaticData(t) ==
  /\ job = "delete"
  /\ Goto(t, "idle", "once")
  /\ UNCHANGED <<job, initialiseOnce, keyVars, node, head, given>>

(* pthread_once: runs the routine, waits for one that is running, or passes. *)
OnceRun(t) ==
  /\ initialiseOnce = "init"
  /\ initialiseOnce' = "running"
  /\ Goto(t, "once", "createHead")
  /\ UNCHANGED <<job, keyVars, node, head, given>>

OncePass(t) ==
  /\ initialiseOnce = "done"
  /\ Goto(t, "once", "readHead")
  /\ UNCHANGED <<job, initialiseOnce, keyVars, node, head, given>>

(* _initialiseStaticNodes; the return of pthread_once marks it as done. *)
CreateHeadKey(t) ==
  /\ Goto(t, "createHead", "createTail")
  /\ KeysLeft(1)
  /\ headKey' = NewKey(live)
  /\ live' = live \cup {headKey'}
  /\ UNCHANGED <<job, initialiseOnce, specific, tailKey, node, head, given>>

CreateTailKey(t) ==
  /\ Goto(t, "createTail", "readHead")
  /\ KeysLeft(1)
  /\ tailKey' = NewKey(live)
  /\ live' = live \cup {tailKey'}
  /\ initialiseOnce' = "done"
  /\ UNCHANGED <<job, specific, headKey, node, head, given>>

ReadHead(t) ==
  /\ Goto(t, "readHead", "freeChain")
  /\ head' = [head EXCEPT ![t] = specific[t][headKey]]
  /\ UNCHANGED <<job, initialiseOnce, keyVars, node, given>>

(* The blocks from b on, following next as far as they are allocated: those  *)
(* in every set that has b and loses none on the way.                       *)
Chain(b) ==
  {c \in Blocks : \A S \in SUBSET Blocks :
     /\ b \in S \cup {NULL}
     /\ \A d \in S \cap DOMAIN node : node[d].next \in S \cup {NULL}
     => c \in S}

(* The loop of pumaDeleteStaticData; to read or free a block that is free    *)
(* already ends the program.                                                 *)
FreeChain(t) ==
  LET chain == Chain(head[t])
  IN  /\ Goto(t, "freeChain", IF chain \subseteq DOMAIN node THEN "resetOnce" ELSE "crashed")
      /\ node' = [b \in DOMAIN node \ chain |-> node[b]]
      /\ given' = [given EXCEPT ![t] = {}]
      /\ head' = [head EXCEPT ![t] = NULL]
      /\ UNCHANGED <<job, initialiseOnce, keyVars>>

(* Mutant: the keys are deleted, and never created again. *)
KeepOnce(t) ==
  /\ Goto(t, "resetOnce", "deleteHead")
  /\ UNCHANGED <<job, initialiseOnce, keyVars, node, head, given>>

(* Mutant: the blocks are freed, and the keys are left as they are. *)
KeepKeys(t) ==
  /\ Goto(t, "resetOnce", "deleted")
  /\ UNCHANGED <<job, initialiseOnce, keyVars, node, head, given>>

ResetOnce(t) ==
  /\ Goto(t, "resetOnce", "deleteHead")
  /\ initialiseOnce' = "init"
  /\ UNCHANGED <<job, keyVars, node, head, given>>

DeleteHeadKey(t) ==
  /\ Goto(t, "deleteHead", "deleteTail")
  /\ KeyDelete(headKey)
  /\ UNCHANGED <<job, initialiseOnce, headKey, tailKey, node, head, given>>

DeleteTailKey(t) ==
  /\ Goto(t, "deleteTail", "deleted")
  /\ KeyDelete(tailKey)
  /\ UNCHANGED <<job, initialiseOnce, headKey, tailKey, node, head, given>>

-----------------------------------------------------------------------------
(* executeOnThreadPool: a job begins when the one before has ended on all    *)
(* threads; the one that deletes makes one call on each.                     *)

DeleteJob ==
  /\ job = "alloc"
  /\ KeysLeft(2 * Cardinality(Threads))    \* two for each thread's call
  /\ \A t \in Threads : pc[t] = "idle"
  /\ job' = "delete"
  /\ UNCHANGED <<pc, initialiseOnce, keyVars, node, head, given>>

AllocJob ==
  /\ job = "delete"
  /\ \A t \in Threads : pc[t] = "deleted"
  /\ job' = "alloc"
  /\ pc' = [t \in Threads |-> "idle"]
  /\ UNCHANGED <<initialiseOnce, keyVars, node, head, given>>

DeleteStep(t) ==
  \/ PumaDeleteStaticData(t) \/ OnceRun(t) \/ OncePass(t) \/ CreateHeadKey(t) \/ CreateTailKey(t)
  \/ ReadHead(t) \/ FreeChain(t)
  \/ ResetOnce(t) \/ DeleteHeadKey(t) \/ DeleteTailKey(t)

Next ==
  \/ DeleteJob
  \/ AllocJob
  \/ \E t \in Threads :
       PumallocStaticLocal(t) \/ DeleteStep(t)

Spec == Init /\ [][Next]_vars

(* Fairness: a pool thread whose job is to delete is scheduled again. *)
FairSpec == Spec /\ \A t \in Threads : WF_vars(DeleteStep(t))

-----------------------------------------------------------------------------
(* No call of pumallocStaticLocal or pumaDeleteStaticData dereferences NULL  *)
(* or frees a block twice, whatever the order in which threads that delete   *)
(* at the same time create, overwrite and delete the shared keys, and no     *)
(* matter how often allocating and deleting alternate (pumastaticvar.c:59,   *)
(* 84, 96: the last reset of _initialiseOnce comes after the last creation),  *)
(* as long as pthread_key_create, whose result is ignored, finds a key left: *)
(* keys that are overwritten are lost (KeysLeft).                            *)
NoCrash == \A t \in Threads : pc[t] # "crashed"

(* Memory a thread was given stays allocated, and in a block of that thread, *)
(* until the thread itself deletes its data: the deletion of another thread, *)
(* which takes away the keys of all, frees nothing of it, and no thread is   *)
(* given memory in a block it has freed (pumastaticvar.c:70-79, 88-93).      *)
OwnBlocksLive ==
  \A t \in Threads : \A b \in given[t] : b \in DOMAIN node /\ node[b].owner = t

(* blockSize - used, an unsigned difference, never wraps (pumastaticvar.c:47).*)
(* Since blockSize counts the header too, this is all that holds: memory may *)
(* run past the end of the block by up to HeaderSize.                        *)
UsedWithinBlock == \A b \in DOMAIN node : node[b].used <= node[b].blockSize

(* Every call of pumaDeleteStaticData ends, although threads wait in         *)
(* pthread_once for a routine while others reset its state under it          *)
(* (pumastaticvar.c:84, 96).                                                 *)
DeleteReturns == (job = "delete") ~> \A t \in Threads : pc[t] = "deleted"

(* Not true of the code: a thread's own deletion frees all its blocks        *)
(* (README.md, "Deletes all static data associated with the current         *)
(* thread.").  An appended block is unlinked by the next append, and a       *)
(* thread whose keys another one has deleted finds no head.                  *)
DeleteFreesOwn ==
  \A t \in Threads :
     pc[t] = "resetOnce" => \A b \in DOMAIN node : node[b].owner # t

=============================================================================
