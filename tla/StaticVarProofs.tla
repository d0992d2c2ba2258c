-------------------------- MODULE StaticVarProofs --------------------------
(***************************************************************************)
(* Static data per thread, for any number of threads, blocks and sizes: no  *)
(* call crashes, no thread loses memory to the deletion of another, and     *)
(* what is used of a block never exceeds its size.                          *)
(*                                                                         *)
(* Threads that delete at the same time overwrite each other's keys, so a   *)
(* thread that has yet to read its head may find it gone (then its blocks   *)
(* leak), but it never finds one that has been freed: a key that it could   *)
(* find it under is either the one it was stored under, or new and without  *)
(* a value.                                                                 *)
(***************************************************************************)
EXTENDS StaticVar, FiniteSetTheorems, WellFoundedInduction, NaturalsInduction, TLAPS

-----------------------------------------------------------------------------
(* The inductive invariant. *)

(* The blocks that belong to thread t. *)
BlocksOf(t) == {b \in DOMAIN node : node[b].owner = t}

(* From b on, thread t finds blocks of its own only. *)
OwnChain(t, b) ==
  \E S \in SUBSET BlocksOf(t) :
    b \in S /\ \A c \in S : node[c].next \in S \cup {NULL}

(* Where a thread is before it looks up its head, before it resets            *)
(* _initialiseOnce, and before it deletes the key of the head.              *)
HeadUnread == {"idle", "once", "createHead", "createTail", "readHead"}
NotReset == HeadUnread \cup {"freeChain", "resetOnce"}
HeadKeyUndeleted == NotReset \cup {"deleteHead"}

(* While threads allocate, none of them is inside a call. *)
JobInv == job = "alloc" => /\ \A t \in Threads : pc[t] = "idle"
                           /\ initialiseOnce # "running"

(* The keys that _initialiseOnce vouches for exist while threads allocate;   *)
(* while they delete, somebody is still to reset it.                        *)
OnceInv ==
  /\ initialiseOnce = "done" /\ job = "alloc" => headKey \in live /\ tailKey \in live
  /\ initialiseOnce = "done" /\ job = "delete" => \E t \in Threads : pc[t] \in NotReset
  /\ initialiseOnce = "running" => \E t \in Threads : pc[t] \in {"createHead", "createTail"}

(* A key that does not exist has no value; the key of the head exists until *)
(* the thread deletes it that stored it last.                               *)
KeysInv ==
  /\ \A t \in Threads : \A k \in Keys : specific[t][k] # NULL => k \in live
  /\ headKey \in live /\ job = "alloc" => initialiseOnce = "done"
  /\ headKey \in live /\ job = "delete" => \E t \in Threads : pc[t] \in HeadKeyUndeleted

(* What a thread finds as its head, or has found, is the start of a chain of *)
(* its own blocks; while threads allocate, its tail is a block of its own.  *)
ChainInv ==
  \A t \in Threads :
    /\ pc[t] \in HeadUnread /\ specific[t][headKey] # NULL
         => OwnChain(t, specific[t][headKey])
    /\ pc[t] = "freeChain" /\ head[t] # NULL => OwnChain(t, head[t])
    /\ job = "alloc" /\ initialiseOnce = "done" /\ specific[t][headKey] # NULL
         => specific[t][tailKey] \in BlocksOf(t)

StaticInv ==
  /\ TypeOK /\ JobInv /\ OnceInv /\ KeysInv /\ ChainInv
  /\ NoCrash /\ OwnBlocksLive /\ UsedWithinBlock

-----------------------------------------------------------------------------
(* The operators of the specification. *)

(* A set of numbers has a least member. *)
LEMMA LeastKey ==
  ASSUME NEW T \in SUBSET Nat, T # {}
  PROVE  Min(T) \in T
<1> DEFINE R == {p \in Nat \X Nat : p[1] < p[2]}
<1>1. IsWellFoundedOn(R, Nat)
  BY NatLessThanWellFounded DEF OpToRel
<1>2. PICK n \in T : \A k \in T : <<k, n>> \notin R
  <2> HIDE DEF R
  <2> QED BY <1>1, WFMin
<1>3. \A k \in T : ~(k < n)
  BY <1>2
<1>4. \A k \in T : n <= k
  BY <1>3
<1> QED BY <1>4 DEF Min

(* pthread_key_create gives a key that did not exist. *)
LEMMA NewKeyIsFree ==
  ASSUME NEW T \in SUBSET Keys, Keys \ T # {}
  PROVE  NewKey(T) \in Keys \ T
<1>1. Keys \ T \in SUBSET Nat
  BY StaticAssumption DEF Keys
<1> QED BY <1>1, LeastKey DEF NewKey

(* One that is left, and another. *)
LEMMA FreeKeys ==
  ASSUME live \in SUBSET Keys
  PROVE  /\ KeysLeft(1) => NewKey(live) \in Keys \ live
         /\ KeysLeft(2) => /\ NewKey(live) \in Keys \ live
                           /\ NewKey(live \cup {NewKey(live)})
                                \in Keys \ (live \cup {NewKey(live)})
<1> DEFINE F == Keys \ live
           h == NewKey(live)
<1>1. IsFiniteSet(F) /\ Cardinality(F) \in Nat
  <2>1. IsFiniteSet(Keys)
    BY StaticAssumption, FS_Interval DEF Keys
  <2> QED BY <2>1, FS_Subset, FS_CardinalityType
<1>2. Cardinality(F) >= 1 => F # {}
  BY FS_EmptySet
<1>3. F # {} => h \in F
  BY NewKeyIsFree
<1> HIDE DEF h
<1>4. ASSUME Cardinality(F) >= 2 PROVE Keys \ (live \cup {h}) # {}
  <2>1. h \in F
    BY <1>1, <1>2, <1>3, <1>4
  <2>2. Cardinality(F \ {h}) = Cardinality(F) - 1
    <3> HIDE DEF F
    <3>1. Cardinality(F \ {h}) = IF h \in F THEN Cardinality(F) - 1 ELSE Cardinality(F)
      BY <1>1, FS_RemoveElement
    <3> QED BY <2>1, <3>1
  <2>3. F \ {h} # {}
    BY <1>1, <1>4, <2>2, FS_EmptySet
  <2> QED BY <2>3
<1>5. ASSUME Cardinality(F) >= 2
      PROVE  NewKey(live \cup {h}) \in Keys \ (live \cup {h})
  <2>1. live \cup {h} \in SUBSET Keys
    BY <1>1, <1>2, <1>3, <1>5
  <2> QED BY <1>4, <1>5, <2>1, NewKeyIsFree
<1> QED BY <1>1, <1>2, <1>3, <1>5 DEF KeysLeft, h

(* Whole pages for size bytes hold size bytes. *)
LEMMA PagesHold ==
  ASSUME NEW size \in Nat
  PROVE  /\ GetSmallestContainingPages(size) \in Nat
         /\ GetSmallestContainingPages(size) >= size
<1> DEFINE x == size + PageSize - 1
           q == x \div PageSize
           r == x % PageSize
<1>1. x \in Nat /\ PageSize \in Nat /\ PageSize > 0
  BY StaticAssumption
<1> HIDE DEF x
<1>2. q \in Nat /\ r \in 0..(PageSize - 1) /\ x = PageSize * q + r
  BY <1>1
<1> HIDE DEF q, r
<1>3. q * PageSize \in Nat /\ q * PageSize = PageSize * q
  BY <1>1, <1>2
<1>4. q * PageSize >= x - (PageSize - 1)
  BY <1>1, <1>2, <1>3
<1> QED BY <1>3, <1>4, StaticAssumption DEF GetSmallestContainingPages, x, q

(* The loop of pumaDeleteStaticData stays within the chain. *)
LEMMA ChainWithin ==
  ASSUME TypeOK, NEW t, NEW b, OwnChain(t, b)
  PROVE  Chain(b) \subseteq BlocksOf(t)
<1>1. PICK S \in SUBSET BlocksOf(t) : b \in S /\ \A c \in S : node[c].next \in S \cup {NULL}
  BY DEF OwnChain
<1>2. S \in SUBSET Blocks
  BY DEF BlocksOf, TypeOK
<1> QED BY <1>1, <1>2 DEF Chain

(* No head, nothing to free. *)
LEMMA NoChain == Chain(NULL) = {}
<1>1. {} \in SUBSET Blocks
  OBVIOUS
<1> QED BY <1>1 DEF Chain

-----------------------------------------------------------------------------
(* What an allocation of thread t does to the blocks. *)

(* It changes blocks of t only, and of these at most where one leads: to b,  *)
(* which is then a new block of t.                                          *)
Grown(t, b) ==
  /\ b \in Blocks \ DOMAIN node
  /\ DOMAIN node \subseteq DOMAIN node' /\ DOMAIN node' \subseteq DOMAIN node \cup {b}
  /\ \A c \in DOMAIN node :
       /\ node'[c].owner = node[c].owner
       /\ \/ node'[c].next = node[c].next
          \/ c \in BlocksOf(t) /\ node'[c].next = b /\ b \in DOMAIN node'
  /\ b \in DOMAIN node' => node'[b].owner = t /\ node'[b].next = NULL
  /\ \A c \in DOMAIN node' : node'[c] \in NodeRecord /\ node'[c].used <= node'[c].blockSize

(* A new block for size bytes holds them. *)
LEMMA FreshHolds ==
  ASSUME NEW t \in Threads, NEW size \in Sizes
  PROVE  /\ FreshNode(t, size) \in NodeRecord
         /\ FreshNode(t, size).owner = t /\ FreshNode(t, size).next = NULL
         /\ FreshNode(t, size).used = 0 /\ FreshNode(t, size).blockSize >= size
         /\ size \in Nat
<1>1. size \in Nat /\ HeaderSize \in Nat
  BY StaticAssumption
<1>2. /\ GetSmallestContainingPages(size) \in Nat
      /\ GetSmallestContainingPages(size) >= size
  BY <1>1, PagesHold
<1>3. /\ GetSmallestContainingPages(size) + HeaderSize \in Nat
      /\ GetSmallestContainingPages(size) + HeaderSize >= size
  BY <1>1, <1>2
<1> QED BY <1>1, <1>3 DEF FreshNode, NodeRecord

(* Using memory of a block that has it left. *)
LEMMA BumpHolds ==
  ASSUME NEW n, \A c \in DOMAIN n : n[c] \in NodeRecord /\ n[c].used <= n[c].blockSize,
         NEW b \in DOMAIN n, NEW size \in Nat, TailHasSpace(n, b, size)
  PROVE  /\ DOMAIN Bump(n, b, size) = DOMAIN n
         /\ \A c \in DOMAIN n :
              /\ Bump(n, b, size)[c] \in NodeRecord
              /\ Bump(n, b, size)[c].used <= Bump(n, b, size)[c].blockSize
              /\ Bump(n, b, size)[c].owner = n[c].owner
              /\ Bump(n, b, size)[c].next = n[c].next
<1>1. /\ n[b] \in NodeRecord /\ n[b].used \in Nat /\ n[b].blockSize \in Nat
      /\ n[b].used + size <= n[b].blockSize /\ n[b].used + size \in Nat
  <2>1. n[b] \in NodeRecord /\ n[b].used \in Nat /\ n[b].blockSize \in Nat
    BY DEF NodeRecord
  <2>2. n[b].blockSize - n[b].used >= size
    BY DEF TailHasSpace
  <2> QED BY <2>1, <2>2
<1> DEFINE r == [n[b] EXCEPT !.used = n[b].used + size]
<1>2. /\ r \in NodeRecord /\ r.used <= r.blockSize
      /\ r.owner = n[b].owner /\ r.next = n[b].next
  BY <1>1 DEF NodeRecord
<1>3. /\ DOMAIN Bump(n, b, size) = DOMAIN n
      /\ Bump(n, b, size)[b] = r
      /\ \A c \in DOMAIN n \ {b} : Bump(n, b, size)[c] = n[c]
  BY DEF Bump
<1> HIDE DEF r
<1>4. ASSUME NEW c \in DOMAIN n
      PROVE  /\ Bump(n, b, size)[c] \in NodeRecord
             /\ Bump(n, b, size)[c].used <= Bump(n, b, size)[c].blockSize
             /\ Bump(n, b, size)[c].owner = n[c].owner
             /\ Bump(n, b, size)[c].next = n[c].next
  <2>1. CASE c = b
    BY <1>2, <1>3, <2>1
  <2>2. CASE c # b
    BY <1>3, <2>2
  <2> QED BY <2>1, <2>2
<1> QED BY <1>3, <1>4

(* _appendStaticNode adds a block of t, behind prev if that is one of its    *)
(* blocks.                                                                  *)
LEMMA AppendHolds ==
  ASSUME TypeOK, UsedWithinBlock, NEW t \in Threads, NEW size \in Sizes,
         NEW b \in Blocks \ DOMAIN node, NEW prev \in BlocksOf(t) \cup {NULL},
         NEW n, n = AppendStaticNode(node, b, t, prev, size)
  PROVE  /\ DOMAIN n = DOMAIN node \cup {b}
         /\ \A c \in DOMAIN n : n[c] \in NodeRecord /\ n[c].used <= n[c].blockSize
         /\ n[b].owner = t /\ n[b].next = NULL /\ TailHasSpace(n, b, size)
         /\ \A c \in DOMAIN node :
              /\ n[c].owner = node[c].owner
              /\ n[c].next = IF c = prev THEN b ELSE node[c].next
<1> DEFINE added == [c \in DOMAIN node \cup {b} |->
                       IF c = b THEN FreshNode(t, size) ELSE node[c]]
<1>1. /\ DOMAIN added = DOMAIN node \cup {b}
      /\ \A c \in DOMAIN added : added[c] \in NodeRecord /\ added[c].used <= added[c].blockSize
      /\ added[b] = FreshNode(t, size)
      /\ \A c \in DOMAIN node : added[c] = node[c]
  <2>1. 0 <= FreshNode(t, size).blockSize
    BY FreshHolds DEF NodeRecord
  <2> QED BY <2>1, FreshHolds DEF TypeOK, UsedWithinBlock
<1>2. n = IF prev = NULL THEN added ELSE [added EXCEPT ![prev].next = b]
  BY DEF AppendStaticNode
<1> HIDE DEF added
<1>3. prev # b
  BY StaticAssumption DEF BlocksOf
<1>4. ASSUME prev = NULL
      PROVE  /\ DOMAIN n = DOMAIN added
             /\ \A c \in DOMAIN added :
                  /\ n[c] \in NodeRecord /\ n[c].used = added[c].used
                  /\ n[c].blockSize = added[c].blockSize /\ n[c].owner = added[c].owner
                  /\ n[c].next = IF c = prev THEN b ELSE added[c].next
  <2>1. prev \notin DOMAIN added
    BY <1>1, <1>4, StaticAssumption DEF TypeOK
  <2> QED BY <1>1, <1>2, <1>4, <2>1
<1>5. ASSUME prev # NULL
      PROVE  /\ DOMAIN n = DOMAIN added
             /\ \A c \in DOMAIN added :
                  /\ n[c] \in NodeRecord /\ n[c].used = added[c].used
                  /\ n[c].blockSize = added[c].blockSize /\ n[c].owner = added[c].owner
                  /\ n[c].next = IF c = prev THEN b ELSE added[c].next
  <2> DEFINE r == [added[prev] EXCEPT !.next = b]
  <2>1. prev \in DOMAIN added
    BY <1>1, <1>5 DEF BlocksOf
  <2>2. /\ r \in NodeRecord /\ r.used = added[prev].used /\ r.owner = added[prev].owner
        /\ r.blockSize = added[prev].blockSize /\ r.next = b
    BY <1>1, <2>1 DEF NodeRecord
  <2>3. /\ DOMAIN n = DOMAIN added /\ n[prev] = r
        /\ \A c \in DOMAIN added \ {prev} : n[c] = added[c]
    BY <1>2, <1>5, <2>1
  <2> HIDE DEF r
  <2>4. ASSUME NEW c \in DOMAIN added
        PROVE  /\ n[c] \in NodeRecord /\ n[c].used = added[c].used
               /\ n[c].blockSize = added[c].blockSize /\ n[c].owner = added[c].owner
               /\ n[c].next = IF c = prev THEN b ELSE added[c].next
    <3>1. CASE c = prev
      BY <2>2, <2>3, <3>1
    <3>2. CASE c # prev
      BY <1>1, <2>3, <3>2
    <3> QED BY <3>1, <3>2
  <2> QED BY <2>3, <2>4
<1>6. /\ DOMAIN n = DOMAIN added
      /\ \A c \in DOMAIN added :
           /\ n[c] \in NodeRecord /\ n[c].used = added[c].used
           /\ n[c].blockSize = added[c].blockSize /\ n[c].owner = added[c].owner
           /\ n[c].next = IF c = prev THEN b ELSE added[c].next
  BY <1>4, <1>5
<1>7. b \in DOMAIN added /\ n[b].owner = t /\ n[b].next = NULL
  BY <1>1, <1>3, <1>6, FreshHolds
<1>8. TailHasSpace(n, b, size)
  <2>1. n[b].used = 0 /\ n[b].blockSize >= size /\ n[b].blockSize \in Nat /\ size \in Nat
    BY <1>1, <1>6, <1>7, FreshHolds DEF NodeRecord
  <2>2. n[b].blockSize - 0 >= size
    BY <2>1
  <2> QED BY <2>1, <2>2 DEF TailHasSpace
<1> QED BY <1>1, <1>6, <1>7, <1>8

(* Thread t is given memory in one of its blocks. *)
Gave(t) ==
  \E from \in DOMAIN node' :
    node'[from].owner = t /\ given' = [given EXCEPT ![t] = @ \cup {from}]

(* An allocation of a thread that has the block tail. *)
LEMMA NextGrows ==
  ASSUME TypeOK, UsedWithinBlock, NEW t \in Threads, NEW size \in Sizes,
         NEW b \in Blocks \ DOMAIN node, NEW tail \in BlocksOf(t),
         TakeFrom(node, tail, b, t, size)
  PROVE  Grown(t, b) /\ Gave(t)
<1>1. size \in Nat
  BY FreshHolds
<1>2. /\ tail \in DOMAIN node /\ node[tail].owner = t /\ b # tail
      /\ \A c \in DOMAIN node : node[c] \in NodeRecord /\ node[c].used <= node[c].blockSize
  BY DEF BlocksOf, TypeOK, UsedWithinBlock
<1>3. CASE TailHasSpace(node, tail, size)
  <2>1. node' = Bump(node, tail, size) /\ given' = [given EXCEPT ![t] = @ \cup {tail}]
    BY <1>3 DEF TakeFrom
  <2> DEFINE m == Bump(node, tail, size)
  <2>2. /\ DOMAIN m = DOMAIN node
        /\ \A c \in DOMAIN node :
             /\ m[c] \in NodeRecord /\ m[c].used <= m[c].blockSize
             /\ m[c].owner = node[c].owner /\ m[c].next = node[c].next
    BY <1>1, <1>2, <1>3, BumpHolds
  <2>3. node' = m
    BY <2>1
  <2> HIDE DEF m
  <2> QED BY <1>2, <2>1, <2>2, <2>3 DEF Grown, Gave
<1>4. CASE ~TailHasSpace(node, tail, size)
  <2> DEFINE n == AppendStaticNode(node, b, t, tail, size)
  <2>1. node' = Bump(n, b, size) /\ given' = [given EXCEPT ![t] = @ \cup {b}]
    BY <1>4 DEF TakeFrom
  <2>4. n = AppendStaticNode(node, b, t, tail, size)
    OBVIOUS
  <2> HIDE DEF n
  <2>2. /\ DOMAIN n = DOMAIN node \cup {b}
        /\ \A c \in DOMAIN n : n[c] \in NodeRecord /\ n[c].used <= n[c].blockSize
        /\ n[b].owner = t /\ n[b].next = NULL /\ TailHasSpace(n, b, size)
        /\ \A c \in DOMAIN node :
             /\ n[c].owner = node[c].owner
             /\ n[c].next = IF c = tail THEN b ELSE node[c].next
    <3>1. tail \in BlocksOf(t) \cup {NULL}
      OBVIOUS
    <3> QED BY <2>4, <3>1, AppendHolds
  <2> DEFINE m == Bump(n, b, size)
  <2>5. node' = m
    BY <2>1
  <2>6. /\ DOMAIN m = DOMAIN n
        /\ \A c \in DOMAIN n :
             /\ m[c] \in NodeRecord /\ m[c].used <= m[c].blockSize
             /\ m[c].owner = n[c].owner /\ m[c].next = n[c].next
    <3>1. b \in DOMAIN n /\ TailHasSpace(n, b, size)
      BY <2>2
    <3>2. \A c \in DOMAIN n : n[c] \in NodeRecord /\ n[c].used <= n[c].blockSize
      BY <2>2
    <3> QED BY <1>1, <3>1, <3>2, BumpHolds
  <2> HIDE DEF m
  <2>3. /\ DOMAIN node' = DOMAIN n
        /\ \A c \in DOMAIN n :
             /\ node'[c] \in NodeRecord /\ node'[c].used <= node'[c].blockSize
             /\ node'[c].owner = n[c].owner /\ node'[c].next = n[c].next
    BY <2>5, <2>6
  <2> QED BY <1>2, <2>1, <2>2, <2>3 DEF Grown, Gave, BlocksOf
<1> QED BY <1>3, <1>4

(* The first allocation of a thread that has none. *)
LEMMA FirstGrows ==
  ASSUME TypeOK, UsedWithinBlock, NEW t \in Threads, NEW size \in Sizes,
         NEW b \in Blocks \ DOMAIN node,
         TakeFrom(AppendStaticNode(node, b, t, NULL, size), b, b, t, size)
  PROVE  Grown(t, b) /\ Gave(t) /\ b \in DOMAIN node'
<1> DEFINE n == AppendStaticNode(node, b, t, NULL, size)
<1>1. size \in Nat
  BY FreshHolds
<1>7. n = AppendStaticNode(node, b, t, NULL, size)
  OBVIOUS
<1>4. TakeFrom(n, b, b, t, size)
  OBVIOUS
<1> HIDE DEF n
<1>2. /\ DOMAIN n = DOMAIN node \cup {b}
      /\ \A c \in DOMAIN n : n[c] \in NodeRecord /\ n[c].used <= n[c].blockSize
      /\ n[b].owner = t /\ n[b].next = NULL /\ TailHasSpace(n, b, size)
      /\ \A c \in DOMAIN node :
           /\ n[c].owner = node[c].owner
           /\ n[c].next = IF c = NULL THEN b ELSE node[c].next
  BY <1>7, AppendHolds
<1>3. NULL \notin DOMAIN node
  BY StaticAssumption DEF TypeOK
<1>5. node' = Bump(n, b, size) /\ given' = [given EXCEPT ![t] = @ \cup {b}]
  BY <1>2, <1>4 DEF TakeFrom
<1> DEFINE m == Bump(n, b, size)
<1>8. node' = m
  BY <1>5
<1>9. /\ DOMAIN m = DOMAIN n
      /\ \A c \in DOMAIN n :
           /\ m[c] \in NodeRecord /\ m[c].used <= m[c].blockSize
           /\ m[c].owner = n[c].owner /\ m[c].next = n[c].next
  <2>1. b \in DOMAIN n
    BY <1>2
  <2> QED BY <1>1, <1>2, <2>1, BumpHolds
<1> HIDE DEF m
<1>6. /\ DOMAIN node' = DOMAIN n
      /\ \A c \in DOMAIN n :
           /\ node'[c] \in NodeRecord /\ node'[c].used <= node'[c].blockSize
           /\ node'[c].owner = n[c].owner /\ node'[c].next = n[c].next
  BY <1>8, <1>9
<1> QED BY <1>2, <1>3, <1>5, <1>6 DEF Grown, Gave

(* The chains that threads had are chains still, with the new block in it   *)
(* or not.                                                                  *)
LEMMA GrownKeepsChains ==
  ASSUME NEW t, NEW b, Grown(t, b), NEW u, NEW x, OwnChain(u, x)
  PROVE  OwnChain(u, x)'
<1>1. PICK S \in SUBSET BlocksOf(u) : x \in S /\ \A c \in S : node[c].next \in S \cup {NULL}
  BY DEF OwnChain
<1> DEFINE T == IF u = t THEN S \cup ({b} \cap DOMAIN node') ELSE S
<1>2. T \in SUBSET BlocksOf(u)'
  BY DEF Grown, BlocksOf
<1>3. x \in T
  BY <1>1
<1>4. ASSUME NEW c \in T PROVE node'[c].next \in T \cup {NULL}
  <2>1. CASE c \in S
    BY <1>1, <2>1 DEF Grown, BlocksOf
  <2>2. CASE c \notin S
    <3>1. c = b /\ b \in DOMAIN node'
      BY <2>2
    <3> QED BY <3>1 DEF Grown
  <2> QED BY <2>1, <2>2
<1> HIDE DEF T
<1> QED BY <1>2, <1>3, <1>4 DEF OwnChain

(* What threads were given is still theirs. *)
LEMMA GrownKeeps ==
  ASSUME TypeOK, OwnBlocksLive, NEW t \in Threads, NEW b, Grown(t, b), Gave(t)
  PROVE  /\ DOMAIN node' \subseteq Blocks /\ \A c \in DOMAIN node' : node'[c] \in NodeRecord
         /\ given' \in [Threads -> SUBSET Blocks]
         /\ OwnBlocksLive' /\ UsedWithinBlock'
<1>1. DOMAIN node' \subseteq Blocks /\ \A c \in DOMAIN node' : node'[c] \in NodeRecord
  BY DEF Grown, TypeOK
<1>2. PICK from \in DOMAIN node' :
        node'[from].owner = t /\ given' = [given EXCEPT ![t] = @ \cup {from}]
  BY DEF Gave
<1>3. given' \in [Threads -> SUBSET Blocks]
  BY <1>1, <1>2 DEF TypeOK
<1>4. ASSUME NEW u \in Threads, NEW c \in given'[u]
      PROVE  c \in DOMAIN node' /\ node'[c].owner = u
  <2>1. c \in given[u] \/ (u = t /\ c = from)
    BY <1>2, <1>4 DEF TypeOK
  <2> QED BY <1>2, <2>1 DEF OwnBlocksLive, Grown
<1> QED BY <1>1, <1>3, <1>4 DEF Grown, OwnBlocksLive, UsedWithinBlock

-----------------------------------------------------------------------------
(* The steps. *)

(* Before the first call of all nothing is stored. *)
LEMMA InitStatic == Init => StaticInv
<1> SUFFICES ASSUME Init PROVE StaticInv
  OBVIOUS
<1>1. TypeOK
  BY StaticAssumption DEF Init, TypeOK, Keys
<1>2. JobInv /\ OnceInv /\ KeysInv /\ ChainInv
  BY <1>1 DEF TypeOK, Init, JobInv, OnceInv, KeysInv, ChainInv
<1>3. NoCrash /\ OwnBlocksLive /\ UsedWithinBlock
  BY DEF Init, NoCrash, OwnBlocksLive, UsedWithinBlock
<1> QED BY <1>1, <1>2, <1>3 DEF StaticInv

(* A thread inside a call deletes. *)
LEMMA InCallDeletes ==
  ASSUME StaticInv, NEW t \in Threads, pc[t] # "idle"
  PROVE  job = "delete"
BY DEF StaticInv, JobInv, TypeOK

(* pthread_once on behalf of a thread that allocates: two new keys. *)
LEMMA InitialiseKeeps ==
  ASSUME StaticInv, job = "alloc", InitialiseStaticNodes
  PROVE  StaticInv'
<1> DEFINE h == NewKey(live)
           l == NewKey(live \cup {h})
<1>1. h \in Keys \ live /\ l \in Keys \ (live \cup {h})
  BY FreeKeys DEF InitialiseStaticNodes, StaticInv, TypeOK
<1>2. /\ headKey' = h /\ tailKey' = l /\ live' = live \cup {h, l}
      /\ initialiseOnce' = "done"
      /\ UNCHANGED <<job, pc, specific, node, head, given>>
  BY DEF InitialiseStaticNodes
<1> HIDE DEF h, l
<1>3. \A t \in Threads : specific[t][h] = NULL
  BY <1>1 DEF StaticInv, KeysInv
<1>4. TypeOK'
  BY <1>1, <1>2 DEF StaticInv, TypeOK
<1>5. JobInv' /\ OnceInv'
  BY <1>2 DEF StaticInv, JobInv, OnceInv
<1>6. KeysInv'
  BY <1>1, <1>2 DEF StaticInv, KeysInv
<1>7. ChainInv'
  BY <1>2, <1>3 DEF StaticInv, JobInv, ChainInv
<1>8. (NoCrash /\ OwnBlocksLive /\ UsedWithinBlock)'
  BY <1>2 DEF StaticInv, NoCrash, OwnBlocksLive, UsedWithinBlock
<1> QED BY <1>4, <1>5, <1>6, <1>7, <1>8 DEF StaticInv

(* The first memory of a thread. *)
LEMMA FirstKeeps ==
  ASSUME StaticInv, job = "alloc", UnusedBlocks # {}, NEW t \in Threads,
         NEW size \in Sizes, PumallocFirst(t, size)
  PROVE  StaticInv'
<1>1. PICK b \in Blocks \ DOMAIN node : b = NewBlock
  BY DEF NewBlock, UnusedBlocks
<1> DEFINE n == AppendStaticNode(node, b, t, NULL, size)
<1>2. initialiseOnce = "done" /\ headKey \in live /\ tailKey \in live
  BY DEF PumallocFirst, StaticInv, OnceInv
<1>3. /\ specific' = [specific EXCEPT ![t][headKey] = b, ![t][tailKey] = b]
      /\ TakeFrom(n, b, b, t, size)
      /\ UNCHANGED <<job, pc, initialiseOnce, live, headKey, tailKey, head>>
  BY <1>1, <1>2 DEF PumallocFirst
<1>4. Grown(t, b) /\ Gave(t) /\ b \in DOMAIN node'
  BY <1>1, <1>3, FirstGrows DEF StaticInv
<1> HIDE DEF n
<1>5. /\ DOMAIN node' \subseteq Blocks /\ \A c \in DOMAIN node' : node'[c] \in NodeRecord
      /\ given' \in [Threads -> SUBSET Blocks]
      /\ OwnBlocksLive' /\ UsedWithinBlock'
  BY <1>4, GrownKeeps DEF StaticInv
<1>6. specific' \in [Threads -> [Keys -> Blocks \cup {NULL}]]
  BY <1>1, <1>3 DEF StaticInv, TypeOK
<1>7. TypeOK'
  BY <1>3, <1>5, <1>6 DEF StaticInv, TypeOK
<1>8. /\ specific'[t][headKey] = b /\ specific'[t][tailKey] = b
      /\ \A k \in Keys : specific'[t][k] = specific[t][k] \/ k \in {headKey, tailKey}
      /\ \A u \in Threads \ {t} : specific'[u] = specific[u]
  BY <1>3 DEF StaticInv, TypeOK
<1>9. JobInv' /\ OnceInv' /\ NoCrash'
  BY <1>3 DEF StaticInv, JobInv, OnceInv, NoCrash
<1>10. KeysInv'
  <2>1. ASSUME NEW u \in Threads, NEW k \in Keys, specific'[u][k] # NULL
        PROVE  k \in live
    BY <1>2, <1>8, <2>1 DEF StaticInv, KeysInv
  <2> QED BY <1>2, <1>3, <2>1 DEF KeysInv
<1>11. ChainInv'
  <2>1. OwnChain(t, b)' /\ b \in BlocksOf(t)'
    <3>1. {b} \in SUBSET BlocksOf(t)' /\ node'[b].next = NULL
      BY <1>4 DEF Grown, BlocksOf
    <3> QED BY <3>1 DEF OwnChain
  <2>2. ASSUME NEW u \in Threads \ {t}, NEW x, x = specific[u][headKey], x # NULL,
               NEW y, y = specific[u][tailKey]
        PROVE  OwnChain(u, x)' /\ y \in BlocksOf(u)'
    <3>1. pc[u] \in HeadUnread
      BY DEF StaticInv, JobInv, HeadUnread
    <3>2. OwnChain(u, x) /\ y \in BlocksOf(u)
      BY <1>2, <2>2, <3>1 DEF StaticInv, ChainInv
    <3>3. OwnChain(u, x)'
      BY <1>4, <3>2, GrownKeepsChains
    <3>4. y \in BlocksOf(u)'
      BY <1>4, <3>2 DEF Grown, BlocksOf
    <3> QED BY <3>3, <3>4
  <2>3. ASSUME NEW u \in Threads, NEW x, x = specific'[u][headKey'], x # NULL,
               NEW y, y = specific'[u][tailKey']
        PROVE  OwnChain(u, x)' /\ y \in BlocksOf(u)'
    <3>1. CASE u = t
      BY <1>3, <1>8, <2>1, <2>3, <3>1
    <3>2. CASE u # t
      BY <1>3, <1>8, <2>2, <2>3, <3>2
    <3> QED BY <3>1, <3>2
  <2>4. \A u \in Threads : pc'[u] = "idle"
    BY <1>3 DEF StaticInv, JobInv
  <2> QED BY <2>3, <2>4 DEF ChainInv
<1> QED BY <1>5, <1>7, <1>9, <1>10, <1>11 DEF StaticInv

(* Memory for a thread that has some: its tail is a block of its own. *)
LEMMA NextKeeps ==
  ASSUME StaticInv, job = "alloc", UnusedBlocks # {}, NEW t \in Threads,
         NEW size \in Sizes, PumallocNext(t, size)
  PROVE  StaticInv'
<1>1. PICK b \in Blocks \ DOMAIN node : b = NewBlock
  BY DEF NewBlock, UnusedBlocks
<1>2. PICK tail \in BlocksOf(t) : tail = specific[t][tailKey]
  BY DEF PumallocNext, StaticInv, ChainInv
<1>3. /\ TakeFrom(node, tail, b, t, size)
      /\ UNCHANGED <<job, pc, initialiseOnce, live, specific, headKey, tailKey, head>>
  <2>1. tail \in DOMAIN node
    BY DEF BlocksOf
  <2> QED BY <1>1, <1>2, <2>1 DEF PumallocNext, keyVars
<1>4. Grown(t, b) /\ Gave(t)
  BY <1>3, NextGrows DEF StaticInv
<1>5. /\ DOMAIN node' \subseteq Blocks /\ \A c \in DOMAIN node' : node'[c] \in NodeRecord
      /\ given' \in [Threads -> SUBSET Blocks]
      /\ OwnBlocksLive' /\ UsedWithinBlock'
  BY <1>4, GrownKeeps DEF StaticInv
<1>6. TypeOK'
  BY <1>3, <1>5 DEF StaticInv, TypeOK
<1>7. JobInv' /\ OnceInv' /\ KeysInv' /\ NoCrash'
  BY <1>3 DEF StaticInv, JobInv, OnceInv, KeysInv, NoCrash
<1>8. ChainInv'
  <2>1. ASSUME NEW u \in Threads, NEW x, x = specific[u][headKey], x # NULL
        PROVE  OwnChain(u, x)'
    <3>1. OwnChain(u, x)
      BY <2>1 DEF StaticInv, JobInv, ChainInv, HeadUnread
    <3> QED BY <1>4, <3>1, GrownKeepsChains
  <2>2. ASSUME NEW u \in Threads, initialiseOnce = "done", specific[u][headKey] # NULL
        PROVE  specific[u][tailKey] \in BlocksOf(u)'
    <3>1. specific[u][tailKey] \in BlocksOf(u)
      BY <2>2 DEF StaticInv, ChainInv
    <3> QED BY <1>4, <3>1 DEF Grown, BlocksOf
  <2>3. \A u \in Threads : pc'[u] = "idle"
    BY <1>3 DEF StaticInv, JobInv
  <2>4. ASSUME NEW u \in Threads, specific'[u][headKey'] # NULL
        PROVE  OwnChain(u, specific[u][headKey])'
    <3>1. PICK x : x = specific[u][headKey]
      OBVIOUS
    <3>2. OwnChain(u, x)' /\ x = specific'[u][headKey']
      BY <1>3, <2>1, <2>4, <3>1
    <3> QED BY <3>2
  <2> QED BY <1>3, <2>2, <2>3, <2>4 DEF ChainInv
<1> QED BY <1>5, <1>6, <1>7, <1>8 DEF StaticInv

(* A call of pumallocStaticLocal. *)
LEMMA PumallocKeeps ==
  ASSUME StaticInv, NEW t \in Threads, PumallocStaticLocal(t)
  PROVE  StaticInv'
<1>1. job = "alloc" /\ UnusedBlocks # {}
  BY DEF PumallocStaticLocal
<1>2. CASE InitialiseStaticNodes
  BY <1>1, <1>2, InitialiseKeeps
<1>3. ASSUME NEW size \in Sizes, PumallocFirst(t, size) PROVE StaticInv'
  BY <1>1, <1>3, FirstKeeps
<1>4. ASSUME NEW size \in Sizes, PumallocNext(t, size) PROVE StaticInv'
  BY <1>1, <1>4, NextKeeps
<1> QED BY <1>2, <1>3, <1>4 DEF PumallocStaticLocal

(* The call begins, finds the keys created, or sets about creating them, or *)
(* resets _initialiseOnce: only these change, and the thread has not yet    *)
(* deleted the key of the head.                                             *)
LEMMA OnceKeeps ==
  ASSUME StaticInv, NEW t \in Threads,
         PumaDeleteStaticData(t) \/ OnceRun(t) \/ OncePass(t) \/ ResetOnce(t)
  PROVE  StaticInv'
<1>1. job = "delete"
  BY InCallDeletes DEF PumaDeleteStaticData, OnceRun, OncePass, ResetOnce, Goto
<1>2. /\ UNCHANGED <<job, live, specific, headKey, tailKey, node, head, given>>
      /\ \E to \in DeletePcs : pc' = [pc EXCEPT ![t] = to]
      /\ \/ pc[t] = "idle" /\ pc'[t] = "once" /\ initialiseOnce' = initialiseOnce
         \/ pc[t] = "once" /\ pc'[t] = "createHead" /\ initialiseOnce' = "running"
         \/ pc[t] = "once" /\ pc'[t] = "readHead" /\ initialiseOnce' = initialiseOnce
              /\ initialiseOnce = "done"
         \/ pc[t] = "resetOnce" /\ pc'[t] = "deleteHead" /\ initialiseOnce' = "init"
  BY DEF StaticInv, TypeOK, PumaDeleteStaticData, OnceRun, OncePass, ResetOnce, Goto,
         keyVars, DeletePcs
<1>3. \A u \in Threads \ {t} : pc'[u] = pc[u]
  BY <1>2 DEF StaticInv, TypeOK
<1>4. TypeOK'
  BY <1>2 DEF StaticInv, TypeOK
<1>5. JobInv' /\ (OwnBlocksLive /\ UsedWithinBlock)'
  BY <1>1, <1>2 DEF StaticInv, JobInv, OwnBlocksLive, UsedWithinBlock
<1>6. NoCrash'
  BY <1>2, <1>3 DEF StaticInv, NoCrash
<1>7. OnceInv'
  BY <1>1, <1>2, <1>3 DEF StaticInv, OnceInv, NotReset, HeadUnread
<1>8. KeysInv'
  BY <1>1, <1>2, <1>3 DEF StaticInv, KeysInv, HeadKeyUndeleted, NotReset, HeadUnread
<1>9. ChainInv'
  <2>1. \A u \in Threads : /\ pc'[u] \in HeadUnread => pc[u] \in HeadUnread
                           /\ pc'[u] = "freeChain" => pc[u] = "freeChain"
    BY <1>2, <1>3 DEF HeadUnread
  <2>2. ASSUME NEW u, NEW x, OwnChain(u, x) PROVE OwnChain(u, x)'
    BY <1>2, <2>2 DEF OwnChain, BlocksOf
  <2>3. ASSUME NEW u \in Threads, pc'[u] \in HeadUnread, specific'[u][headKey'] # NULL
        PROVE  OwnChain(u, specific[u][headKey])'
    <3>1. OwnChain(u, specific[u][headKey])
      BY <1>2, <2>1, <2>3 DEF StaticInv, ChainInv
    <3> QED BY <1>2, <3>1 DEF OwnChain, BlocksOf
  <2>4. ASSUME NEW u \in Threads, pc'[u] = "freeChain", head'[u] # NULL
        PROVE  OwnChain(u, head[u])'
    <3>1. OwnChain(u, head[u])
      BY <1>2, <2>1, <2>4 DEF StaticInv, ChainInv
    <3> QED BY <1>2, <3>1 DEF OwnChain, BlocksOf
  <2> QED BY <1>1, <1>2, <2>3, <2>4 DEF ChainInv
<1> QED BY <1>4, <1>5, <1>6, <1>7, <1>8, <1>9 DEF StaticInv

(* A new key of the head: no thread has a value under it. *)
LEMMA CreateHeadKeeps ==
  ASSUME StaticInv, NEW t \in Threads, CreateHeadKey(t)
  PROVE  StaticInv'
<1>1. job = "delete"
  BY InCallDeletes DEF CreateHeadKey, Goto
<1>2. PICK h \in Keys \ live : h = NewKey(live)
  BY FreeKeys DEF CreateHeadKey, StaticInv, TypeOK
<1>3. /\ pc[t] = "createHead" /\ pc' = [pc EXCEPT ![t] = "createTail"]
      /\ headKey' = h /\ live' = live \cup {h}
      /\ UNCHANGED <<job, initialiseOnce, specific, tailKey, node, head, given>>
  BY <1>2 DEF CreateHeadKey, Goto
<1>4. pc'[t] = "createTail" /\ \A u \in Threads \ {t} : pc'[u] = pc[u]
  BY <1>3 DEF StaticInv, TypeOK
<1>5. \A u \in Threads : specific[u][h] = NULL
  BY <1>2 DEF StaticInv, KeysInv
<1>6. TypeOK'
  BY <1>2, <1>3 DEF StaticInv, TypeOK, DeletePcs
<1>7. JobInv' /\ (OwnBlocksLive /\ UsedWithinBlock)'
  BY <1>1, <1>3 DEF StaticInv, JobInv, OwnBlocksLive, UsedWithinBlock
<1>8. NoCrash'
  BY <1>4 DEF StaticInv, NoCrash
<1>9. OnceInv'
  BY <1>1, <1>3, <1>4 DEF StaticInv, OnceInv, NotReset, HeadUnread
<1>10. KeysInv'
  <2>1. \E u \in Threads : pc'[u] \in HeadKeyUndeleted
    <3>1. pc'[t] \in HeadKeyUndeleted
      BY <1>4 DEF HeadKeyUndeleted, NotReset, HeadUnread
    <3> QED BY <3>1
  <2> QED BY <1>1, <1>3, <2>1 DEF StaticInv, KeysInv
<1>11. ChainInv'
  <2>1. ASSUME NEW u \in Threads, pc'[u] = "freeChain", head'[u] # NULL
        PROVE  OwnChain(u, head[u])'
    <3>1. OwnChain(u, head[u])
      BY <1>3, <1>4, <2>1 DEF StaticInv, ChainInv
    <3> QED BY <1>3, <3>1 DEF OwnChain, BlocksOf
  <2> QED BY <1>1, <1>3, <1>5, <2>1 DEF ChainInv
<1> QED BY <1>6, <1>7, <1>8, <1>9, <1>10, <1>11 DEF StaticInv

(* A new key of the tail, and _initialiseOnce is done; the thread itself is *)
(* still to reset it.                                                       *)
LEMMA CreateTailKeeps ==
  ASSUME StaticInv, NEW t \in Threads, CreateTailKey(t)
  PROVE  StaticInv'
<1>1. job = "delete"
  BY InCallDeletes DEF CreateTailKey, Goto
<1>2. PICK l \in Keys \ live : l = NewKey(live)
  BY FreeKeys DEF CreateTailKey, StaticInv, TypeOK
<1>3. /\ pc[t] = "createTail" /\ pc' = [pc EXCEPT ![t] = "readHead"]
      /\ tailKey' = l /\ live' = live \cup {l} /\ initialiseOnce' = "done"
      /\ UNCHANGED <<job, specific, headKey, node, head, given>>
  BY <1>2 DEF CreateTailKey, Goto
<1>4. pc'[t] = "readHead" /\ \A u \in Threads \ {t} : pc'[u] = pc[u]
  BY <1>3 DEF StaticInv, TypeOK
<1>5. pc'[t] \in NotReset /\ pc'[t] \in HeadKeyUndeleted
  BY <1>4 DEF HeadKeyUndeleted, NotReset, HeadUnread
<1>6. TypeOK'
  BY <1>2, <1>3 DEF StaticInv, TypeOK, DeletePcs
<1>7. JobInv' /\ (OwnBlocksLive /\ UsedWithinBlock)'
  BY <1>1, <1>3 DEF StaticInv, JobInv, OwnBlocksLive, UsedWithinBlock
<1>8. NoCrash'
  BY <1>4 DEF StaticInv, NoCrash
<1>9. OnceInv'
  BY <1>1, <1>3, <1>5 DEF OnceInv
<1>10. KeysInv'
  BY <1>1, <1>3, <1>5 DEF StaticInv, KeysInv
<1>11. ChainInv'
  <2>1. ASSUME NEW u \in Threads, pc'[u] = "freeChain", head'[u] # NULL
        PROVE  OwnChain(u, head[u])'
    <3>1. OwnChain(u, head[u])
      BY <1>3, <1>4, <2>1 DEF StaticInv, ChainInv
    <3> QED BY <1>3, <3>1 DEF OwnChain, BlocksOf
  <2>2. ASSUME NEW u \in Threads, pc'[u] \in HeadUnread, specific'[u][headKey'] # NULL
        PROVE  OwnChain(u, specific[u][headKey])'
    <3>1. pc[u] \in HeadUnread
      BY <1>3, <1>4, <2>2 DEF HeadUnread
    <3>2. OwnChain(u, specific[u][headKey])
      BY <1>3, <2>2, <3>1 DEF StaticInv, ChainInv
    <3> QED BY <1>3, <3>2 DEF OwnChain, BlocksOf
  <2> QED BY <1>1, <1>3, <2>1, <2>2 DEF ChainInv
<1> QED BY <1>6, <1>7, <1>8, <1>9, <1>10, <1>11 DEF StaticInv

(* The thread reads its head: none, or the start of a chain of its own. *)
LEMMA ReadHeadKeeps ==
  ASSUME StaticInv, NEW t \in Threads, ReadHead(t)
  PROVE  StaticInv'
<1>1. job = "delete"
  BY InCallDeletes DEF ReadHead, Goto
<1>2. /\ pc[t] = "readHead" /\ pc' = [pc EXCEPT ![t] = "freeChain"]
      /\ head' = [head EXCEPT ![t] = specific[t][headKey]]
      /\ UNCHANGED <<job, initialiseOnce, live, specific, headKey, tailKey, node, given>>
  BY DEF ReadHead, Goto, keyVars
<1>3. /\ pc'[t] = "freeChain" /\ head'[t] = specific[t][headKey]
      /\ \A u \in Threads \ {t} : pc'[u] = pc[u] /\ head'[u] = head[u]
  BY <1>2 DEF StaticInv, TypeOK
<1>4. pc'[t] \in NotReset /\ pc'[t] \in HeadKeyUndeleted
  BY <1>3 DEF HeadKeyUndeleted, NotReset
<1>5. TypeOK'
  BY <1>2 DEF StaticInv, TypeOK, DeletePcs
<1>6. JobInv' /\ (OwnBlocksLive /\ UsedWithinBlock)'
  BY <1>1, <1>2 DEF StaticInv, JobInv, OwnBlocksLive, UsedWithinBlock
<1>7. NoCrash'
  BY <1>3 DEF StaticInv, NoCrash
<1>8. OnceInv'
  BY <1>1, <1>2, <1>3, <1>4 DEF StaticInv, OnceInv
<1>9. KeysInv'
  BY <1>1, <1>2, <1>4 DEF StaticInv, KeysInv
<1>10. ChainInv'
  <2>1. ASSUME NEW u \in Threads, pc'[u] = "freeChain", NEW x, x = head'[u], x # NULL
        PROVE  OwnChain(u, x)'
    <3>1. CASE u = t
      <4>1. pc[t] \in HeadUnread
        BY <1>2 DEF HeadUnread
      <4>2. OwnChain(u, x)
        BY <1>3, <2>1, <3>1, <4>1 DEF StaticInv, ChainInv
      <4> QED BY <1>2, <4>2 DEF OwnChain, BlocksOf
    <3>2. CASE u # t
      <4>1. OwnChain(u, x)
        BY <1>3, <2>1, <3>2 DEF StaticInv, ChainInv
      <4> QED BY <1>2, <4>1 DEF OwnChain, BlocksOf
    <3> QED BY <3>1, <3>2
  <2>2. ASSUME NEW u \in Threads, pc'[u] \in HeadUnread, specific'[u][headKey'] # NULL
        PROVE  OwnChain(u, specific[u][headKey])'
    <3>1. pc[u] \in HeadUnread
      BY <1>3, <2>2 DEF HeadUnread
    <3>2. OwnChain(u, specific[u][headKey])
      BY <1>2, <2>2, <3>1 DEF StaticInv, ChainInv
    <3> QED BY <1>2, <3>2 DEF OwnChain, BlocksOf
  <2>3. ASSUME NEW u \in Threads, pc'[u] = "freeChain", head'[u] # NULL
        PROVE  OwnChain(u, head[u])'
    <3>1. PICK x : x = head'[u]
      OBVIOUS
    <3>2. OwnChain(u, x)' /\ x = head'[u]
      BY <2>1, <2>3, <3>1
    <3> QED BY <3>2
  <2> QED BY <1>1, <1>2, <2>2, <2>3 DEF ChainInv
<1> QED BY <1>5, <1>6, <1>7, <1>8, <1>9, <1>10 DEF StaticInv

(* The thread frees its chain, all of it allocated, and nothing of others.  *)
LEMMA FreeChainKeeps ==
  ASSUME StaticInv, NEW t \in Threads, FreeChain(t)
  PROVE  StaticInv'
<1>1. job = "delete"
  BY InCallDeletes DEF FreeChain, Goto
<1>2. PICK C : C = Chain(head[t])
  OBVIOUS
<1>3. C \subseteq BlocksOf(t) /\ C \subseteq DOMAIN node
  <2>1. C \subseteq BlocksOf(t)
    <3>1. CASE head[t] = NULL
      BY <1>2, <3>1, NoChain
    <3>2. CASE head[t] # NULL
      <4>1. OwnChain(t, head[t])
        BY <3>2 DEF StaticInv, ChainInv, FreeChain, Goto
      <4> QED BY <1>2, <4>1, ChainWithin DEF StaticInv
    <3> QED BY <3>1, <3>2
  <2> QED BY <2>1 DEF BlocksOf
<1>4. /\ pc[t] = "freeChain" /\ pc' = [pc EXCEPT ![t] = "resetOnce"]
      /\ node' = [b \in DOMAIN node \ C |-> node[b]]
      /\ given' = [given EXCEPT ![t] = {}]
      /\ head' = [head EXCEPT ![t] = NULL]
      /\ UNCHANGED <<job, initialiseOnce, live, specific, headKey, tailKey>>
  BY <1>2, <1>3 DEF FreeChain, Goto, keyVars
<1>5. /\ pc'[t] = "resetOnce" /\ given'[t] = {}
      /\ \A u \in Threads \ {t} :
           pc'[u] = pc[u] /\ head'[u] = head[u] /\ given'[u] = given[u]
  BY <1>4 DEF StaticInv, TypeOK
<1>6. /\ DOMAIN node' \subseteq DOMAIN node
      /\ \A b \in DOMAIN node' : node'[b] = node[b]
      /\ \A u \in Threads \ {t} : BlocksOf(u)' = BlocksOf(u)
  BY <1>3, <1>4 DEF BlocksOf
<1>7. TypeOK'
  BY <1>4, <1>6 DEF StaticInv, TypeOK, DeletePcs
<1>8. JobInv' /\ UsedWithinBlock'
  BY <1>1, <1>4, <1>6 DEF StaticInv, JobInv, UsedWithinBlock
<1>9. NoCrash'
  BY <1>5 DEF StaticInv, NoCrash
<1>10. OwnBlocksLive'
  <2>1. ASSUME NEW u \in Threads, NEW b \in given'[u]
        PROVE  b \in DOMAIN node' /\ node'[b].owner = u
    <3>1. u # t /\ b \in given[u]
      BY <1>5, <2>1
    <3>2. b \in BlocksOf(u)
      BY <3>1 DEF StaticInv, OwnBlocksLive, BlocksOf
    <3>3. b \in BlocksOf(u)'
      BY <1>6, <3>1, <3>2
    <3> QED BY <3>3 DEF BlocksOf
  <2> QED BY <2>1 DEF OwnBlocksLive
<1>11. pc'[t] \in NotReset /\ pc'[t] \in HeadKeyUndeleted
  BY <1>5 DEF HeadKeyUndeleted, NotReset
<1>12. OnceInv'
  BY <1>1, <1>4, <1>5, <1>11 DEF StaticInv, OnceInv
<1>13. KeysInv'
  BY <1>1, <1>4, <1>11 DEF StaticInv, KeysInv
<1>14. ChainInv'
  <2>1. ASSUME NEW u \in Threads \ {t}, NEW x, OwnChain(u, x)
        PROVE  OwnChain(u, x)'
    <3>1. PICK S \in SUBSET BlocksOf(u) : x \in S /\ \A c \in S : node[c].next \in S \cup {NULL}
      BY <2>1 DEF OwnChain
    <3>2. S \in SUBSET BlocksOf(u)' /\ \A c \in S : node'[c].next \in S \cup {NULL}
      BY <1>6, <3>1 DEF BlocksOf
    <3> QED BY <3>1, <3>2 DEF OwnChain
  <2>2. ASSUME NEW u \in Threads, pc'[u] = "freeChain", head'[u] # NULL
        PROVE  OwnChain(u, head[u])'
    <3>1. PICK x : x = head'[u]
      OBVIOUS
    <3>2. u # t /\ OwnChain(u, x)
      BY <1>5, <2>2, <3>1 DEF StaticInv, ChainInv
    <3>3. OwnChain(u, x)' /\ x = head'[u]
      BY <2>1, <3>1, <3>2
    <3> QED BY <3>3
  <2>3. ASSUME NEW u \in Threads, pc'[u] \in HeadUnread, specific'[u][headKey'] # NULL
        PROVE  OwnChain(u, specific[u][headKey])'
    <3>1. PICK x : x = specific'[u][headKey']
      OBVIOUS
    <3>2. u # t /\ OwnChain(u, x)
      BY <1>4, <1>5, <2>3, <3>1 DEF StaticInv, ChainInv, HeadUnread
    <3>3. OwnChain(u, x)' /\ x = specific'[u][headKey']
      BY <2>1, <3>1, <3>2
    <3> QED BY <3>3
  <2> QED BY <1>1, <1>4, <2>2, <2>3 DEF ChainInv
<1> QED BY <1>7, <1>8, <1>9, <1>10, <1>12, <1>13, <1>14 DEF StaticInv

(* The thread deletes a key, of the head or of the tail: values disappear,  *)
(* and a head that threads could find does not become another.             *)
LEMMA DeleteKeyKeeps ==
  ASSUME StaticInv, NEW t \in Threads, DeleteHeadKey(t) \/ DeleteTailKey(t)
  PROVE  StaticInv'
<1>1. job = "delete"
  BY InCallDeletes DEF DeleteHeadKey, DeleteTailKey, Goto
<1>2. PICK k \in {headKey, tailKey} :
        /\ \/ pc[t] = "deleteHead" /\ pc' = [pc EXCEPT ![t] = "deleteTail"] /\ k = headKey
           \/ pc[t] = "deleteTail" /\ pc' = [pc EXCEPT ![t] = "deleted"]
        /\ live' = live \ {k}
        /\ specific' = [u \in Threads |-> [specific[u] EXCEPT ![k] = NULL]]
        /\ UNCHANGED <<job, initialiseOnce, headKey, tailKey, node, head, given>>
  BY DEF DeleteHeadKey, DeleteTailKey, KeyDelete, Goto
<1>3. /\ \/ pc[t] = "deleteHead" /\ pc'[t] = "deleteTail" /\ k = headKey
         \/ pc[t] = "deleteTail" /\ pc'[t] = "deleted"
      /\ \A u \in Threads \ {t} : pc'[u] = pc[u]
  BY <1>2 DEF StaticInv, TypeOK
<1>4. \A u \in Threads : \A l \in Keys :
        specific'[u][l] = IF l = k THEN NULL ELSE specific[u][l]
  BY <1>2 DEF StaticInv, TypeOK
<1>5. k \in Keys /\ headKey \in Keys
  BY <1>2 DEF StaticInv, TypeOK
<1>6. TypeOK'
  <2>1. specific' \in [Threads -> [Keys -> Blocks \cup {NULL}]]
    BY <1>2 DEF StaticInv, TypeOK
  <2>2. pc' \in [Threads -> DeletePcs \cup {"idle", "deleted", "crashed"}]
    BY <1>2 DEF StaticInv, TypeOK, DeletePcs
  <2> QED BY <1>2, <2>1, <2>2 DEF StaticInv, TypeOK
<1>7. JobInv' /\ (OwnBlocksLive /\ UsedWithinBlock)'
  BY <1>1, <1>2 DEF StaticInv, JobInv, OwnBlocksLive, UsedWithinBlock
<1>8. NoCrash'
  BY <1>3 DEF StaticInv, NoCrash
<1>9. OnceInv'
  BY <1>1, <1>2, <1>3 DEF StaticInv, OnceInv, NotReset, HeadUnread
<1>10. KeysInv'
  <2>1. \A u \in Threads : \A l \in Keys : specific'[u][l] # NULL => l \in live'
    BY <1>2, <1>4 DEF StaticInv, KeysInv
  <2>2. ASSUME headKey \in live'
        PROVE  \E u \in Threads : pc'[u] \in HeadKeyUndeleted
    <3>1. k # headKey /\ headKey \in live /\ pc[t] = "deleteTail"
      BY <1>2, <1>3, <2>2
    <3>2. PICK u \in Threads : pc[u] \in HeadKeyUndeleted
      BY <1>1, <3>1 DEF StaticInv, KeysInv
    <3>3. u # t
      BY <3>1, <3>2 DEF HeadKeyUndeleted, NotReset, HeadUnread
    <3> QED BY <1>3, <3>2, <3>3
  <2> QED BY <1>1, <1>2, <2>1, <2>2 DEF KeysInv
<1>11. ChainInv'
  <2>1. ASSUME NEW u \in Threads, pc'[u] = "freeChain", head'[u] # NULL
        PROVE  OwnChain(u, head[u])'
    <3>1. OwnChain(u, head[u])
      BY <1>2, <1>3, <2>1 DEF StaticInv, ChainInv
    <3> QED BY <1>2, <3>1 DEF OwnChain, BlocksOf
  <2>2. ASSUME NEW u \in Threads, pc'[u] \in HeadUnread, specific'[u][headKey'] # NULL
        PROVE  OwnChain(u, specific[u][headKey])'
    <3>1. pc[u] \in HeadUnread
      BY <1>3, <2>2 DEF HeadUnread
    <3>2. PICK x : x = specific'[u][headKey']
      OBVIOUS
    <3>3. x = specific[u][headKey] /\ x # NULL
      BY <1>2, <1>4, <1>5, <2>2, <3>2
    <3>4. OwnChain(u, x)
      BY <3>1, <3>3 DEF StaticInv, ChainInv
    <3>5. OwnChain(u, x)' /\ x = specific'[u][headKey']
      BY <1>2, <3>2, <3>4 DEF OwnChain, BlocksOf
    <3> QED BY <3>5
  <2> QED BY <1>1, <1>2, <2>1, <2>2 DEF ChainInv
<1> QED BY <1>6, <1>7, <1>8, <1>9, <1>10, <1>11 DEF StaticInv

(* The pool begins the job that deletes. *)
LEMMA DeleteJobKeeps ==
  ASSUME StaticInv, DeleteJob
  PROVE  StaticInv'
<1>1. /\ job = "alloc" /\ job' = "delete" /\ \A t \in Threads : pc[t] = "idle"
      /\ UNCHANGED <<pc, initialiseOnce, live, specific, headKey, tailKey, node, head, given>>
  BY DEF DeleteJob, keyVars
<1>2. TypeOK' /\ JobInv'
  BY <1>1 DEF StaticInv, TypeOK, JobInv
<1>3. (NoCrash /\ OwnBlocksLive /\ UsedWithinBlock)'
  BY <1>1 DEF StaticInv, NoCrash, OwnBlocksLive, UsedWithinBlock
<1>4. \E t \in Threads : pc'[t] \in NotReset /\ pc'[t] \in HeadKeyUndeleted
  BY <1>1, StaticAssumption DEF NotReset, HeadUnread, HeadKeyUndeleted
<1>5. OnceInv'
  BY <1>1, <1>4 DEF StaticInv, JobInv, OnceInv
<1>6. KeysInv'
  BY <1>1, <1>4 DEF StaticInv, KeysInv
<1>7. ChainInv'
  <2>1. ASSUME NEW u \in Threads, specific'[u][headKey'] # NULL
        PROVE  OwnChain(u, specific[u][headKey])'
    <3>1. OwnChain(u, specific[u][headKey])
      BY <1>1, <2>1 DEF StaticInv, ChainInv, HeadUnread
    <3> QED BY <1>1, <3>1 DEF OwnChain, BlocksOf
  <2> QED BY <1>1, <2>1 DEF ChainInv
<1> QED BY <1>2, <1>3, <1>5, <1>6, <1>7 DEF StaticInv

(* The pool begins a job that allocates: all have deleted, so the last of   *)
(* them has left no keys behind that anybody would use.                     *)
LEMMA AllocJobKeeps ==
  ASSUME StaticInv, AllocJob
  PROVE  StaticInv'
<1>1. /\ job = "delete" /\ job' = "alloc" /\ \A t \in Threads : pc[t] = "deleted"
      /\ pc' = [t \in Threads |-> "idle"]
      /\ UNCHANGED <<initialiseOnce, live, specific, headKey, tailKey, node, head, given>>
  BY DEF AllocJob, keyVars
<1>2. initialiseOnce = "init" /\ headKey \notin live
  BY <1>1 DEF StaticInv, TypeOK, OnceInv, KeysInv, NotReset, HeadUnread, HeadKeyUndeleted
<1>3. \A t \in Threads : specific[t][headKey] = NULL
  BY <1>2 DEF StaticInv, TypeOK, KeysInv
<1>4. TypeOK'
  BY <1>1 DEF StaticInv, TypeOK
<1>5. JobInv' /\ OnceInv'
  BY <1>1, <1>2 DEF JobInv, OnceInv
<1>6. KeysInv'
  BY <1>1, <1>2 DEF StaticInv, KeysInv
<1>7. ChainInv'
  BY <1>1, <1>3 DEF ChainInv
<1>8. (NoCrash /\ OwnBlocksLive /\ UsedWithinBlock)'
  BY <1>1 DEF StaticInv, NoCrash, OwnBlocksLive, UsedWithinBlock
<1> QED BY <1>4, <1>5, <1>6, <1>7, <1>8 DEF StaticInv

(* Every step of the specification, or none. *)
LEMMA StepKeepsStatic ==
  ASSUME StaticInv, [Next]_vars
  PROVE  StaticInv'
<1>1. CASE DeleteJob
  BY <1>1, DeleteJobKeeps
<1>2. CASE AllocJob
  BY <1>2, AllocJobKeeps
<1>3. ASSUME NEW t \in Threads, PumallocStaticLocal(t) PROVE StaticInv'
  BY <1>3, PumallocKeeps
<1>4. ASSUME NEW t \in Threads, DeleteStep(t) PROVE StaticInv'
  <2>1. CASE PumaDeleteStaticData(t) \/ OnceRun(t) \/ OncePass(t) \/ ResetOnce(t)
    BY <2>1, OnceKeeps
  <2>2. CASE CreateHeadKey(t)
    BY <2>2, CreateHeadKeeps
  <2>3. CASE CreateTailKey(t)
    BY <2>3, CreateTailKeeps
  <2>4. CASE ReadHead(t)
    BY <2>4, ReadHeadKeeps
  <2>5. CASE FreeChain(t)
    BY <2>5, FreeChainKeeps
  <2>6. CASE DeleteHeadKey(t) \/ DeleteTailKey(t)
    BY <2>6, DeleteKeyKeeps
  <2> QED BY <1>4, <2>1, <2>2, <2>3, <2>4, <2>5, <2>6 DEF DeleteStep
<1>5. CASE UNCHANGED vars
  <2>1. UNCHANGED <<job, pc, initialiseOnce, live, specific, headKey, tailKey, node, head, given>>
    BY <1>5 DEF vars, keyVars
  <2>2. (TypeOK /\ JobInv /\ OnceInv /\ KeysInv)'
    BY <2>1 DEF StaticInv, TypeOK, JobInv, OnceInv, KeysInv
  <2>3. ChainInv'
    BY <2>1 DEF StaticInv, ChainInv, OwnChain, BlocksOf
  <2>4. (NoCrash /\ OwnBlocksLive /\ UsedWithinBlock)'
    BY <2>1 DEF StaticInv, NoCrash, OwnBlocksLive, UsedWithinBlock
  <2> QED BY <2>2, <2>3, <2>4 DEF StaticInv
<1> QED BY <1>1, <1>2, <1>3, <1>4, <1>5 DEF Next

-----------------------------------------------------------------------------
(* The theorems. *)

(* The invariant holds in every reachable state: who still has to reset      *)
(* _initialiseOnce or to delete the key of the head, what a key without an   *)
(* owner can hold, and whose blocks a head leads to (pumastaticvar.c:45-97). *)
THEOREM StaticInvariant == Spec => []StaticInv
<1>1. StaticInv /\ [Next]_vars => StaticInv'
  BY StepKeepsStatic
<1> QED BY <1>1, InitStatic, PTL DEF Spec

(* No call of pumallocStaticLocal or pumaDeleteStaticData dereferences NULL  *)
(* or frees a block twice, in any order in which any number of threads       *)
(* create, overwrite and delete the shared keys (pumastaticvar.c:59-97).     *)
THEOREM NothingCrashes == Spec => []NoCrash
<1>1. StaticInv => NoCrash
  BY DEF StaticInv
<1> QED BY <1>1, StaticInvariant, PTL

(* Memory that pumallocStaticLocal has returned stays allocated, in a block  *)
(* of the thread it was returned to, until that thread deletes its data      *)
(* (pumastaticvar.c:59-97).                                                  *)
THEOREM GivenStaysLive == Spec => []OwnBlocksLive
<1>1. StaticInv => OwnBlocksLive
  BY DEF StaticInv
<1> QED BY <1>1, StaticInvariant, PTL

(* blockSize - used never wraps, for any sizes asked for (pumastaticvar.c:47, *)
(* 29-43).                                                                  *)
THEOREM UsedFits == Spec => []UsedWithinBlock
<1>1. StaticInv => UsedWithinBlock
  BY DEF StaticInv
<1> QED BY <1>1, StaticInvariant, PTL
=============================================================================
