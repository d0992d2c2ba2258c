-------------------------- MODULE ThreadListProofs --------------------------
(***************************************************************************)
(* The thread lists keep their shape, the counters and bitmaps agree, clean  *)
(* chunks are packed and every element is stored once and within reach;     *)
(* compaction moves an element towards the head of its own list only, a     *)
(* kernel gets no element twice, one that at most frees its element gets    *)
(* all of them, and the lists implement the plain set of ElementSet: for    *)
(* any number of lists, chunks, elements and kernels and any capacity.      *)
(*                                                                         *)
(* The inductive invariant IInv is local: it relates a chunk to its          *)
(* neighbours and to the header of its list, never to a walk from the head,  *)
(* so that an assignment to a pointer disturbs it in one or two places.      *)
(* That a walk from the head meets the active chunks in the order of their   *)
(* numbers, and ends, follows by induction (WalkActive, WalkEnds).           *)
(***************************************************************************)
EXTENDS ThreadListMemory, TLAPS

-----------------------------------------------------------------------------
(* The inductive invariant. *)

(* Chunk c is being compacted: if the compaction has deactivated it, what    *)
(* is left of the list lies in front of it.                                 *)
CleanInv(m, l, c) ==
  LET t == m.list[l].tail
  IN  /\ c \in Own(m, l)
      /\ t # NULL
      /\ ~m.node[c].active => \/ ~m.node[t].active
                              \/ m.node[t].index < m.node[c].index

(* It is compacted for an allocation: it is the tail, or the one behind it.  *)
AllocInv(m, l, c) ==
  LET t == m.list[l].tail
      p == m.node[c].prev
  IN  /\ m.node[c].active =>
           /\ c = t
           /\ \/ Taken(m.node[c]) # {}
              \/ p = NULL
              \/ Taken(m.node[p]) # {}
      /\ ~m.node[c].active /\ ~m.node[t].active => c = t
      /\ ~m.node[c].active /\ m.node[t].active =>
           /\ c = m.node[t].next /\ p = t
           /\ m.node[c].index = m.node[t].index + 1
           /\ Taken(m.node[t]) # {}
      /\ m.node[c].numElements < Capacity

(* The locals o of the call on list l point at chunks of that list. *)
OpPlace(m, l, o) ==
  /\ o.pc = "walk" => o.currentNode = NULL \/ o.currentNode \in Own(m, l)
  /\ o.pc = "visit" => o.currentNode \in Own(m, l)
  /\ o.pc = "cleanup" =>
       /\ CleanInv(m, l, o.cleaning)
       /\ o.after # "visit" => AllocInv(m, l, o.cleaning)
       /\ o.after # "alloc" => o.currentNode \in Own(m, l)
       /\ o.after = "kernelAlloc" => Taken(m.node[o.currentNode]) # {}

(* What the locals are in each phase. *)
OpControl(p, o) ==
  /\ o \in OpRecord
  /\ o.pc = "idle" => o = IdleOp
  /\ p \in {"balance", "destroyed"} => o.pc = "idle"
  /\ p = "kernel" => o.pc # "idle"
  /\ p = "client" => o.pc \in {"idle", "cleanup"} /\ o.after = "alloc"
  /\ p = "kernel" /\ o.pc = "cleanup" => o.after # "alloc"
  /\ o.pc # "cleanup" => o.cleaning = NULL /\ o.elem = NULL
  /\ o.pc = "cleanup" /\ o.after = "visit" =>
       o.cleaning = o.currentNode /\ o.elem = NULL
  /\ o.pc = "cleanup" /\ o.after # "visit" => o.elem \in Elems

(* An element on its way into the set is not in it, nor on its way twice. *)
ElemInv ==
  \A l \in Lists : op[l].elem # NULL =>
    /\ op[l].elem \notin HeldBy(mem, mem.heap)
    /\ \A k \in Lists \ {l} : op[k].elem # op[l].elem

(* A slot at or behind firstKnownFree is free, and a chunk that is not dirty *)
(* has its elements at the front.                                           *)
PackedNode(x) ==
  /\ \A s \in Taken(x) : s < x.firstKnownFree
  /\ ~x.dirty => /\ x.firstKnownFree = x.numElements
                 /\ Taken(x) = 0..(x.numElements - 1)

PackedInv ==
  \A n \in mem.heap \ {op[l].cleaning : l \in Lists} : PackedNode(mem.node[n])

OpsInv ==
  /\ op = [l \in Lists |-> op[l]]
  /\ \A l \in Lists : OpControl(phase, op[l]) /\ OpPlace(mem, l, op[l])

HistoryTypes ==
  /\ phase \in {"client", "balance", "kernel", "destroyed"}
  /\ kernel \in Kernels \cup {{}}
  /\ owed \subseteq Elems
  /\ visits \in [Elems -> Nat]

IInv == MemInv(mem) /\ OpsInv /\ ElemInv /\ PackedInv /\ HistoryTypes

-----------------------------------------------------------------------------
(* The call in progress on a list that a step leaves alone is where it was. *)
LEMMA ElsewherePlace ==
  ASSUME NEW m, MemInv(m), NEW r, NEW l \in Lists, SameList(m, r, l),
         NEW o, OpPlace(m, l, o)
  PROVE  OpPlace(r, l, o)
<1>1. /\ Own(r, l) = Own(m, l) /\ r.list[l] = m.list[l]
      /\ \A n \in Own(m, l) : r.node[n] = m.node[n]
  BY DEF SameList
<1>2. EndsInv(m, l) /\ ActiveInv(m, l)
  BY DEF MemInv, ShapeInv
<1> DEFINE c == o.cleaning
           t == m.list[l].tail
<1>3. ASSUME CleanInv(m, l, c) PROVE CleanInv(r, l, c)
  <2>1. c \in Own(m, l) /\ t \in Own(m, l)
    BY Zenon, <1>2, <1>3 DEF CleanInv, EndsInv
  <2> QED BY <1>1, <1>3, <2>1 DEF CleanInv
<1>4. ASSUME CleanInv(m, l, c), AllocInv(m, l, c) PROVE AllocInv(r, l, c)
  <2>1. c \in Own(m, l) /\ t \in Own(m, l)
    BY <1>2, <1>4 DEF CleanInv, EndsInv
  <2>2. /\ r.node[c] = m.node[c] /\ r.node[t] = m.node[t] /\ r.list[l].tail = t
    BY <1>1, <2>1
  <2>3. m.node[c].active /\ m.node[c].prev # NULL =>
           r.node[m.node[c].prev] = m.node[m.node[c].prev]
    BY <1>1, <1>2, <2>1 DEF ActiveInv, ActiveNode
  <2> QED BY <1>4, <2>2, <2>3 DEF AllocInv
<1> QED BY <1>1, <1>3, <1>4 DEF OpPlace

-----------------------------------------------------------------------------
(* The compaction of a chunk. *)

(* pumaFirstIndexOfValue finds the first hole of a chunk that is not full. *)
LEMMA FirstFreeIs ==
  ASSUME NEW x, Taken(x) # Slots
  PROVE  /\ FirstFree(x) \in Slots \ Taken(x)
         /\ \A s \in Slots \ Taken(x) : FirstFree(x) <= s
<1> DEFINE T == Slots \ Taken(x)
<1>1. T \in SUBSET Nat /\ T # {}
  BY ConstantsAssumption DEF Taken, Slots
<1>2. \E n \in T : \A k \in T : n <= k
  BY <1>1, LeastNumber
<1>3. FirstFree(x) = CHOOSE n \in T : \A k \in T : n <= k
  BY DEF FirstFree, Min
<1> HIDE DEF T
<1>4. FirstFree(x) \in T /\ \A k \in T : FirstFree(x) <= k
  BY <1>2, <1>3
<1> QED BY <1>4 DEF T

(* pumaLastIndexOfValue finds the last element of a chunk that is not empty. *)
LEMMA LastTakenIs ==
  ASSUME NEW x, Taken(x) # {}
  PROVE  /\ LastTaken(x) \in Taken(x)
         /\ \A s \in Taken(x) : s <= LastTaken(x)
<1> DEFINE T == Taken(x)
<1>1. T \in SUBSET Nat /\ T # {} /\ \A k \in T : k <= Capacity
  BY ConstantsAssumption DEF Taken, Slots
<1>2. \E n \in T : \A k \in T : k <= n
  BY <1>1, GreatestNumber, ConstantsAssumption
<1>3. LastTaken(x) = CHOOSE n \in T : \A k \in T : n >= k
  BY DEF LastTaken, Max
<1> HIDE DEF T
<1>4. \E n \in T : \A k \in T : n >= k
  <2>1. PICK n \in T : \A k \in T : k <= n
    BY <1>2
  <2>2. \A k \in T : n >= k
    BY <2>1, <1>1
  <2> QED BY <2>2
<1>5. LastTaken(x) \in T /\ \A k \in T : LastTaken(x) >= k
  BY <1>3, <1>4
<1>6. \A k \in T : k <= LastTaken(x)
  BY <1>1, <1>5
<1> QED BY <1>5, <1>6 DEF T

(* The slots in front of slot n, as a set with n members. *)
LEMMA FrontSlots ==
  ASSUME NEW n \in Nat
  PROVE  Cardinality(0..(n - 1)) = n
<1>1. 0 \in Int /\ n - 1 \in Int
  OBVIOUS
<1>2. Cardinality(0..(n - 1)) = IF 0 > n - 1 THEN 0 ELSE (n - 1) - 0 + 1
  BY <1>1, FS_Interval
<1> QED BY <1>2

(* When _cleanupNode leaves its loop the chunk's elements are at the front. *)
LEMMA PackedWhenDone ==
  ASSUME NEW m, MemInv(m), NEW l \in Lists, NEW c, CleanInv(m, l, c),
         NEW t, t = m.list[l].tail,
         NEW num, num = m.node[c].numElements,
         num < Capacity => ~(m.node[t].active /\ Taken(m.node[t]) = {}),
         num < Capacity =>
           ~ /\ m.node[t].active /\ Taken(m.node[t]) # {}
             /\ m.node[t].index >= m.node[c].index
             /\ m.node[t].index = m.node[c].index
                  => FirstFree(m.node[c]) < LastTaken(m.node[t])
  PROVE  Taken(m.node[c]) = 0..(num - 1) /\ num \in Nat /\ num <= Capacity
<1>1. /\ m \in Mem /\ c \in m.heap /\ c \in Nodes /\ t # NULL
      /\ FillInv(m) /\ ShapeInv(m, l) /\ c \in Own(m, l)
  BY MemTypes DEF MemInv, CleanInv, Own
<1>2. num = Cardinality(Taken(m.node[c])) /\ (~m.node[c].active => Taken(m.node[c]) = {})
  BY <1>1 DEF FillInv
<1>3. num \in Nat /\ num <= Capacity /\ Capacity \in Nat
  BY Zenon, <1>2, TakenFinite, ConstantsAssumption
<1>4. t \in Own(m, l) /\ t \in Nodes
  BY <1>1, MemTypes DEF ShapeInv, EndsInv, Own
<1>5. CASE num = Capacity
  <2>1. Taken(m.node[c]) = Slots
    BY <1>2, <1>5, TakenFinite
  <2> QED BY <1>3, <1>5, <2>1 DEF Slots
<1>6. CASE num # Capacity /\ ~m.node[c].active
  <2>1. Taken(m.node[c]) = {} /\ num = 0
    BY <1>2, <1>6, TakenFinite
  <2> QED BY <1>3, <2>1
<1>7. CASE num # Capacity /\ m.node[c].active
  <2>1. num < Capacity
    BY <1>3, <1>7
  <2>2. m.node[t].active /\ m.node[c].index <= m.node[t].index
    BY <1>1, <1>7 DEF ShapeInv, ActiveInv, ActiveNode
  <2>3. m.node[c].index \in Nat /\ m.node[t].index \in Nat
    BY <1>1, <1>4, MemTypes
  <2>4. Taken(m.node[t]) # {}
    BY <2>1, <2>2
  <2>5. /\ m.node[t].index = m.node[c].index
        /\ ~(FirstFree(m.node[c]) < LastTaken(m.node[t]))
    BY <2>1, <2>2, <2>3, <2>4
  <2>6. c = t
    BY Zenon, <1>1, <1>4, <1>7, <2>2, <2>5 DEF ShapeInv, IndexInv
  <2> DEFINE T == Taken(m.node[c])
             f == FirstFree(m.node[c])
             k == LastTaken(m.node[c])
  <2>7. T # Slots /\ T # {} /\ T \subseteq Slots
    BY Zenon, <1>2, <1>7, <2>4, <2>6, TakenFinite DEF Taken
  <2>8. f \in Slots \ T /\ \A s \in Slots \ T : f <= s
    BY <2>7, FirstFreeIs
  <2>9. k \in T /\ \A s \in T : s <= k
    BY <2>7, LastTakenIs
  <2>10. ~(f < k)
    BY <2>5, <2>6
  <2> HIDE DEF T, f, k
  <2>11. f \in Nat /\ k \in Nat /\ f < Capacity /\ k < f
    BY <1>3, <2>7, <2>8, <2>9, <2>10 DEF Slots
  <2>12. T = 0..(f - 1)
    <3>1. ASSUME NEW s \in T PROVE s \in 0..(f - 1)
      BY <2>7, <2>9, <2>11 DEF Slots
    <3>2. ASSUME NEW s \in 0..(f - 1) PROVE s \in T
      BY <2>8, <2>11, <1>3 DEF Slots
    <3> QED BY <3>1, <3>2
  <2>13. num = f
    BY <1>2, <2>11, <2>12, FrontSlots DEF T
  <2> QED BY <1>3, <2>12, <2>13 DEF T
<1> QED BY <1>5, <1>6, <1>7

(* A round that deactivates an empty tail leaves the chunk under compaction  *)
(* at the tail or just behind it.                                           *)
LEMMA DropPlace ==
  ASSUME NEW m, MemInv(m), NEW l \in Lists, NEW t, t = m.list[l].tail,
         t # NULL, m.node[t].active, Taken(m.node[t]) = {},
         NEW r, DropEffect(m, r, l, t),
         NEW o, o.pc = "cleanup", OpPlace(m, l, o)
  PROVE  OpPlace(r, l, o)
<1> DEFINE c == o.cleaning
           p == m.node[t].prev
<1>1. /\ m \in Mem /\ FillInv(m) /\ ShapeInv(m, l)
      /\ NULL \notin Nodes /\ m.heap \subseteq Nodes
  BY MemTypes, ConstantsAssumption DEF MemInv
<1>2. t \in Own(m, l) /\ t \in Nodes /\ t \in m.heap /\ ActiveNode(m, l, t)
  BY Zenon, <1>1 DEF ShapeInv, EndsInv, ActiveInv, Own
<1>3. /\ r.heap = m.heap
      /\ \A z \in Nodes : /\ r.node[z].slot = m.node[z].slot
                          /\ r.node[z].numElements = m.node[z].numElements
                          /\ r.node[z].next = m.node[z].next
                          /\ r.node[z].prev = m.node[z].prev
                          /\ r.node[z].index = m.node[z].index
                          /\ r.node[z].threadList = m.node[z].threadList
                          /\ z # t => r.node[z].active = m.node[z].active
  <2>1. Turn(m, r, l, t) /\ r.node[t].index = m.node[t].index
    BY Zenon DEF DropEffect
  <2>2. \A z \in Nodes \ {t} : r.node[z] = m.node[z]
    BY Zenon, <2>1 DEF Turn
  <2>3. /\ r.node[t].slot = m.node[t].slot
        /\ r.node[t].numElements = m.node[t].numElements
        /\ r.node[t].next = m.node[t].next
        /\ r.node[t].prev = m.node[t].prev
        /\ r.node[t].index = m.node[t].index
        /\ r.node[t].threadList = m.node[t].threadList
        /\ r.heap = m.heap
    BY Zenon, <2>1 DEF Turn
  <2> QED BY Zenon, <2>2, <2>3
<1>4. r.node[t].active = FALSE
  BY DEF DropEffect
<1>5. Own(r, l) = Own(m, l)
  BY <1>1, <1>3 DEF Own
<1>6. \A z \in m.heap : Taken(r.node[z]) = Taken(m.node[z])
  BY <1>1, <1>3 DEF Taken
<1>7. CleanInv(m, l, c) /\ c \in Own(m, l) /\ c \in Nodes /\ c \in m.heap
  BY <1>1 DEF OpPlace, CleanInv, Own
<1>10. p = m.node[t].prev
  OBVIOUS
<1> HIDE DEF p
<1>8. CASE p = NULL
  <2>1. r.list[l].tail = t
    BY <1>8, <1>10 DEF DropEffect
  <2>2. CleanInv(r, l, c)
    BY Zenon, <1>4, <1>5, <1>7, <2>1 DEF CleanInv
  <2>3. ASSUME AllocInv(m, l, c) PROVE AllocInv(r, l, c)
    <3>1. m.node[c].active /\ c = t
      BY <1>1, <1>7, <2>3 DEF AllocInv
    <3> QED BY Zenon, <1>2, <1>3, <1>4, <1>10, <2>1, <2>3, <3>1 DEF AllocInv
  <2> QED BY <1>5, <1>6, <2>2, <2>3, <1>1 DEF OpPlace, Own
<1>9. CASE p # NULL
  <2>1. /\ r.list[l].tail = p /\ p \in Own(m, l) /\ p \in Nodes /\ p \in m.heap
        /\ m.node[p].active /\ m.node[p].next = t
        /\ m.node[t].index = m.node[p].index + 1
    BY Zenon, <1>1, <1>2, <1>9, <1>10 DEF DropEffect, ActiveNode, Own
  <2>2. p # t /\ m.node[p].index \in Nat
    <3>1. m.node[p].index \in Nat
      BY <1>1, <2>1, MemTypes
    <3>2. ASSUME p = t PROVE m.node[p].index = m.node[p].index + 1
      BY <2>1, <3>2
    <3> QED BY <3>1, <3>2
  <2>3. r.node[p].active = m.node[p].active
    BY <1>3, <2>1, <2>2
  <2>4. CleanInv(r, l, c)
    <3> SUFFICES ASSUME ~r.node[c].active PROVE r.node[p].index < r.node[c].index
      BY <1>5, <1>7, <1>9, <2>1 DEF CleanInv
    <3>1. CASE c = t
      <4>1. r.node[c].index = m.node[p].index + 1 /\ r.node[p].index = m.node[p].index
        BY <1>3, <1>7, <2>1, <3>1
      <4> QED BY <2>2, <4>1
    <3>2. CASE c # t
      <4>1. ~m.node[c].active
        BY <1>3, <1>7, <3>2
      <4>2. m.node[t].index < m.node[c].index
        BY <1>7, <4>1 DEF CleanInv
      <4>3. m.node[c].index \in Nat
        BY <1>1, <1>7, MemTypes
      <4>4. m.node[p].index < m.node[c].index
        <5> DEFINE a == m.node[p].index
                   b == m.node[t].index
                   d == m.node[c].index
        <5>1. a \in Nat /\ d \in Nat /\ b = a + 1 /\ b < d
          BY <2>1, <2>2, <4>2, <4>3
        <5> HIDE DEF a, b, d
        <5>2. a < d
          BY <5>1
        <5> QED BY <5>2 DEF a, d
      <4> QED BY <1>3, <1>7, <2>1, <4>4
    <3> QED BY <3>1, <3>2
  <2>5. ASSUME AllocInv(m, l, c) PROVE AllocInv(r, l, c)
    <3>1. m.node[c].active /\ c = t /\ Taken(m.node[p]) # {}
      BY <1>9, <1>10, <2>5 DEF AllocInv
    <3>2. Taken(r.node[p]) # {}
      BY <1>6, <2>1, <3>1
    <3>3. r.node[c].numElements < Capacity
      BY Zenon, <1>3, <1>7, <2>5 DEF AllocInv
    <3>4. /\ ~r.node[c].active /\ r.node[p].active
          /\ c = r.node[p].next /\ r.node[c].prev = p
          /\ r.node[c].index = r.node[p].index + 1
      BY Zenon, <1>2, <1>3, <1>4, <1>10, <2>1, <2>3, <3>1
    <3> QED BY <2>1, <3>2, <3>3, <3>4 DEF AllocInv
  <2> QED BY Zenon, <1>1, <1>5, <1>6, <2>4, <2>5 DEF OpPlace, Own
<1> QED BY <1>8, <1>9

(* So does a round that moves an element; the chunk it goes to is active.    *)
LEMMA MovePlace ==
  ASSUME NEW m, MemInv(m), NEW l \in Lists, NEW t, t = m.list[l].tail,
         NEW c \in Own(m, l), t # NULL, m.node[c].active,
         NEW h \in Slots, NEW k \in Slots,
         m.node[c].slot[h] = NULL, m.node[t].slot[k] # NULL, c = t => h # k,
         NEW r, MemInv(r), PullFrame(m, r, c, t), c \in r.heap, t \in r.heap,
         MoveSlot(m, r, c, h, t, k),
         NEW o \in OpRecord, o.pc = "cleanup", c = o.cleaning, OpPlace(m, l, o),
         o.after = "visit" => c = o.currentNode
  PROVE  OpPlace(r, l, o)
<1>1. /\ m \in Mem /\ FillInv(m) /\ ShapeInv(m, l)
      /\ NULL \notin Nodes /\ m.heap \subseteq Nodes
      /\ r \in Mem /\ FillInv(r)
  BY Zenon, MemTypes, ConstantsAssumption DEF MemInv
<1>2. /\ CleanInv(m, l, c) /\ c \in m.heap /\ c \in Nodes
      /\ t \in Own(m, l) /\ t \in m.heap /\ t \in Nodes
  BY <1>1 DEF OpPlace, ShapeInv, EndsInv, Own
<1>3. /\ \A z \in r.heap : /\ r.node[z].active = m.node[z].active
                           /\ r.node[z].threadList = m.node[z].threadList
      /\ \A z \in m.heap \ r.heap : ~m.node[z].active
      /\ r.list[l].tail = t
  BY DEF PullFrame
<1>4. c \in Own(r, l) /\ t \in Own(r, l)
  BY <1>2, <1>3 DEF Own
<1>5. CleanInv(r, l, c)
  BY Zenon, <1>3, <1>4, <1>2 DEF CleanInv
<1>6. Taken(r.node[c]) # {}
  BY <1>2, <1>4, ConstantsAssumption DEF MoveSlot, Taken, Own
<1>7. ASSUME AllocInv(m, l, c) PROVE AllocInv(r, l, c)
  <2>1. c = t /\ m.node[c].active
    BY Zenon, <1>7 DEF AllocInv
  <2>2. r.node[c].active
    BY Zenon, <1>3, <1>4, <2>1 DEF Own
  <2>3. k \notin Taken(r.node[c])
    BY <1>4, <2>1 DEF MoveSlot, Taken, Own
  <2>4. Cardinality(Taken(r.node[c])) # Capacity
    BY <2>3, TakenFinite
  <2>5. Cardinality(Taken(r.node[c])) < Capacity
    BY <2>4, TakenFinite, ConstantsAssumption
  <2>6. r.node[c].numElements < Capacity
    BY <1>1, <1>4, <2>5 DEF FillInv, Own
  <2> QED BY <1>3, <1>6, <2>1, <2>2, <2>6 DEF AllocInv
<1>8. ASSUME o.after # "alloc"
      PROVE  /\ o.currentNode \in Own(r, l)
             /\ o.after = "kernelAlloc" => Taken(r.node[o.currentNode]) # {}
  <2> DEFINE x == o.currentNode
  <2>1. CASE o.after = "visit"
    BY <1>4, <2>1
  <2>2. CASE o.after # "visit" /\ o.after = "kernelAlloc"
    <3>1. x \in Own(m, l) /\ Taken(m.node[x]) # {} /\ AllocInv(m, l, c)
      BY <2>2 DEF OpPlace
    <3>2. x \in m.heap /\ m.node[x].active /\ m.node[x].threadList = l /\ c = t
      BY <1>1, <3>1 DEF FillInv, Own, AllocInv
    <3>3. x \in r.heap /\ x \in Own(r, l)
      BY <1>3, <3>2 DEF Own
    <3>4. CASE x = c
      BY <1>6, <3>3, <3>4
    <3>5. CASE x # c
      <4>1. r.node[x].slot = m.node[x].slot
        BY <3>2, <3>3, <3>5 DEF PullFrame
      <4> QED BY <3>1, <3>3, <4>1 DEF Taken
    <3> QED BY <3>4, <3>5
  <2>3. CASE o.after # "visit" /\ o.after # "kernelAlloc"
    BY <1>8, <2>3 DEF OpRecord
  <2> QED BY <2>1, <2>2, <2>3
<1> QED BY <1>5, <1>7, <1>8 DEF OpPlace

-----------------------------------------------------------------------------
(* The allocation. *)

(* A compaction that an allocation starts is of the tail, and drops at most  *)
(* that one chunk: the one in front of it has elements.                     *)
LEMMA StartPlace ==
  ASSUME MemInv(mem), NEW l \in Lists, ~DrainedTail(l),
         NEW r, MemInv(r), NEW n \in Own(r, l), TakeFrame(mem, r, l, n),
         \/ MustAppend(l) /\ Appended(mem, r, l, n)
         \/ ~MustAppend(l) /\ Reused(mem, r, l, n),
         r.node[n].firstKnownFree > Capacity
  PROVE  CleanInv(r, l, n) /\ AllocInv(r, l, n)
<1> DEFINE t == mem.list[l].tail
           p == mem.node[t].prev
<1>1. /\ mem \in Mem /\ mem.heap \subseteq Nodes /\ ShapeInv(mem, l)
      /\ FillInv(mem) /\ FillInv(r) /\ r \in Mem /\ r.heap \subseteq Nodes
      /\ NULL \notin Nodes
  BY MemTypes, ConstantsAssumption DEF MemInv
<1>2. n \in r.heap /\ n \in Nodes /\ r.list[l].tail = n /\ r.node[n].threadList = l
  BY <1>1 DEF Own, TakeFrame
<1>3. CleanInv(r, l, n)
  BY <1>1, <1>2 DEF CleanInv
<1>4. t # NULL => t \in Own(mem, l) /\ t \in Nodes /\ t \in mem.heap
  BY <1>1 DEF ShapeInv, EndsInv, Own
<1>5. r.node[n].numElements = Cardinality(Taken(r.node[n]))
  BY <1>1, <1>2 DEF FillInv
<1>6. CASE Appended(mem, r, l, n)
  <2>1. /\ t = NULL \/ mem.node[t].numElements = Capacity
        /\ Taken(r.node[n]) = {} /\ r.node[n].prev = t /\ t # n /\ r.node[n].active
    BY <1>6 DEF Appended
  <2>2. r.node[n].numElements < Capacity
    <3>1. Cardinality(Taken(r.node[n])) = 0
      BY <2>1, TakenFinite
    <3> QED BY <1>5, <3>1, ConstantsAssumption
  <2>3. t # NULL => Taken(r.node[t]) # {}
    <3> SUFFICES ASSUME t # NULL PROVE Taken(r.node[t]) # {}
      OBVIOUS
    <3>1. r.node[t].slot = mem.node[t].slot
      BY <1>4, <2>1 DEF TakeFrame
    <3>2. Cardinality(Taken(mem.node[t])) = Capacity
      BY <1>1, <1>4, <2>1 DEF FillInv
    <3>3. Taken(mem.node[t]) # {}
      BY Zenon, <3>2, TakenFinite, ConstantsAssumption
    <3> QED BY <3>1, <3>3 DEF Taken
  <2> QED BY <1>2, <1>3, <2>1, <2>2, <2>3 DEF AllocInv
<1>7. CASE ~MustAppend(l) /\ Reused(mem, r, l, n)
  <2>1. /\ n = t /\ n \in mem.heap /\ mem.node[n].numElements # Capacity
        /\ r.node[n].prev = mem.node[n].prev /\ r.node[n].active = mem.node[n].active
    BY Zenon, <1>7 DEF Reused
  <2>2. /\ r.node[n].slot = mem.node[n].slot
        /\ r.node[n].numElements = mem.node[n].numElements
        /\ r.node[n].firstKnownFree = mem.node[n].firstKnownFree + 1
    BY Zenon, <2>1 DEF TakeFrame
  <2>3. r.node[n].numElements < Capacity
    BY <1>5, <2>1, <2>2, TakenFinite, ConstantsAssumption
  <2>4. Taken(r.node[n]) = Taken(mem.node[n])
    BY <2>2 DEF Taken
  <2>5. mem.node[n].firstKnownFree >= Capacity
    <3>1. mem.node[n].firstKnownFree \in Nat
      BY Zenon, <1>1, <1>2, MemTypes
    <3> QED BY <2>2, <3>1, ConstantsAssumption
  <2>6. \/ Taken(mem.node[n]) # {} \/ p = NULL \/ Taken(mem.node[p]) # {}
    BY Zenon, <1>7, <2>1, <2>5 DEF DrainedTail
  <2>7. r.node[n].active /\ p # NULL => r.node[p].slot = mem.node[p].slot
    <3> SUFFICES ASSUME r.node[n].active, p # NULL
                 PROVE  r.node[p].slot = mem.node[p].slot
      BY Zenon
    <3>1. /\ p \in Own(mem, l) /\ mem.node[t].index = mem.node[p].index + 1
      BY Zenon, <1>1, <1>2, <1>4, <2>1 DEF ShapeInv, ActiveInv, ActiveNode
    <3>2. mem.node[p].index \in Nat /\ p \in mem.heap
      BY Zenon, <1>1, <3>1, MemTypes DEF Own
    <3>3. p # t
      <4>1. ASSUME p = t PROVE mem.node[p].index = mem.node[p].index + 1
        BY Zenon, <3>1, <4>1
      <4> QED BY <3>2, <4>1
    <3> QED BY Zenon, <2>1, <3>2, <3>3 DEF TakeFrame
  <2>8. r.node[n].active =>
          \/ Taken(r.node[n]) # {} \/ p = NULL \/ Taken(r.node[p]) # {}
    BY Zenon, <2>4, <2>6, <2>7 DEF Taken
  <2> QED BY Zenon, <1>2, <1>3, <2>1, <2>3, <2>8 DEF AllocInv
<1> QED BY <1>3, <1>6, <1>7

(* The slot that firstKnownFree pointed at is free, and the chunk keeps to   *)
(* what its note and its mark say.                                          *)
SlotReady(x, i) ==
  /\ i \in Slots /\ x.slot[i] = NULL
  /\ \A s \in Taken(x) : s < i
  /\ x.firstKnownFree = i + 1
  /\ ~x.dirty => i = x.numElements /\ Taken(x) = 0..(i - 1)

(* The slot _pumallocOnThreadList takes at once is free: firstKnownFree of *)
(* a packed chunk never points at a taken slot, and a new or reactivated   *)
(* chunk is empty.                                                         *)
LEMMA TakenSlotFree ==
  ASSUME NEW l \in Lists, NEW r, MemInv(r), NEW n \in Own(r, l), TakeFrame(mem, r, l, n),
         MemInv(mem), n \in mem.heap => PackedNode(mem.node[n]),
         NEW i, i = r.node[n].firstKnownFree - 1, i < Capacity
  PROVE  SlotReady(r.node[n], i)
<1>1. /\ mem \in Mem /\ r \in Mem /\ n \in Nodes /\ n \in r.heap
  BY MemTypes DEF MemInv, Own
<1>2. CASE n \in mem.heap
  <2> DEFINE k == mem.node[n].firstKnownFree
  <2>1. /\ r.node[n].slot = mem.node[n].slot
        /\ r.node[n].dirty = mem.node[n].dirty
        /\ r.node[n].numElements = mem.node[n].numElements
        /\ r.node[n].firstKnownFree = k + 1
    BY <1>2 DEF TakeFrame
  <2>2. k \in Nat
    BY <1>1, MemTypes
  <2>3. Taken(r.node[n]) = Taken(mem.node[n])
    BY <2>1 DEF Taken
  <2>4. i = k /\ i \in Slots
    BY <2>1, <2>2, ConstantsAssumption DEF Slots
  <2>5. \A s \in Taken(mem.node[n]) : s < k
    BY <1>2 DEF PackedNode
  <2>6. k \notin Taken(mem.node[n])
    BY <2>2, <2>5
  <2>7. ~mem.node[n].dirty => /\ k = mem.node[n].numElements
                              /\ Taken(mem.node[n]) = 0..(k - 1)
    BY <1>2 DEF PackedNode
  <2>8. r.node[n].slot[i] = NULL
    BY <2>3, <2>4, <2>6 DEF Taken
  <2> HIDE DEF k
  <2> QED BY <2>1, <2>3, <2>4, <2>5, <2>7, <2>8 DEF SlotReady
<1>3. CASE n \notin mem.heap
  <2>1. /\ Taken(r.node[n]) = {} /\ r.node[n].dirty = FALSE
        /\ r.node[n].numElements = 0 /\ r.node[n].firstKnownFree = 1
    BY <1>3 DEF TakeFrame
  <2>2. i = 0 /\ 0 \in Slots
    BY <2>1, ConstantsAssumption DEF Slots
  <2>3. r.node[n].slot[i] = NULL
    BY <2>1, <2>2 DEF Taken
  <2> QED BY <2>1, <2>2, <2>3 DEF SlotReady
<1> QED BY <1>2, <1>3

(* What the lists hold, in the words of the specification. *)
LEMMA LiveIs ==
  Live = HeldBy(mem, mem.heap)
BY DEF Live, NodeElems, HeldBy, Held

(* What an allocation on list l by _pumallocOnThreadList leads to. *)
AllocFrame(l) ==
  /\ Elsewhere(mem, mem', l)
  /\ Own(mem, l) \subseteq Own(mem', l)
  /\ \A z \in Own(mem, l) : Taken(mem.node[z]) \subseteq Taken(mem'.node[z])
  /\ \A k \in Lists \ {l} : op'[k] = op[k]
  /\ op' = [k \in Lists |-> op'[k]]

AllocStarted(l, e, after) ==
  \E t : /\ op'[l] = [op[l] EXCEPT !.pc = "cleanup", !.cleaning = t,
                                   !.after = after, !.elem = e]
         /\ CleanInv(mem', l, t) /\ AllocInv(mem', l, t)

(* A call of pumalloc, in a kernel or outside, keeps the memory and leaves *)
(* its call either finished or compacting the tail.                        *)
LEMMA PumallocKeeps ==
  ASSUME IInv, NEW l \in Lists, NEW e \in Fresh, NEW after, NEW locals,
         locals.cleaning = NULL, locals.elem = NULL, op[l].pc # "cleanup",
         AllowDrainedTail = FALSE, PumallocOnThreadList(l, e, after, locals)
  PROVE  /\ MemInv(mem') /\ PackedInv' /\ ElemInv' /\ AllocFrame(l)
         /\ op'[l] = locals \/ AllocStarted(l, e, after)
<1> DEFINE m == TakeSlot(l)
           t == m.list[l].tail
           i == m.node[t].firstKnownFree - 1
<1>1. /\ MemInv(mem) /\ OpsInv /\ ElemInv /\ PackedInv
      /\ mem \in Mem /\ mem.heap \subseteq Nodes /\ NULL \notin Nodes /\ NULL \notin Elems
  BY MemTypes, ConstantsAssumption DEF IInv, MemInv
<1>2. /\ e \in Elems /\ e # NULL /\ e \notin HeldBy(mem, mem.heap)
      /\ \A k \in Lists : op[k].elem # e
  BY <1>1, LiveIs DEF Fresh
<1>3. /\ op = [k \in Lists |-> op[k]]
      /\ op[l].cleaning = NULL /\ op[l].elem = NULL
      /\ \A k \in Lists : op[k] \in OpRecord
  BY <1>1 DEF OpsInv, OpControl
<1>4. Room(l) /\ ~DrainedTail(l)
  BY DEF PumallocOnThreadList
<1>5. m = TakeSlot(l)
  OBVIOUS
<1>6. \/ i < Capacity /\ mem' = FinishAlloc(m, l, t, i, e) /\ op' = [op EXCEPT ![l] = locals]
      \/ /\ i >= Capacity /\ mem' = m
         /\ op' = [op EXCEPT ![l].pc = "cleanup", ![l].cleaning = t,
                             ![l].after = after, ![l].elem = e]
  BY DEF PumallocOnThreadList
<1> HIDE DEF m
<1>7. PICK n \in Own(m, l) :
           /\ MemInv(m) /\ Elsewhere(mem, m, l) /\ TakeFrame(mem, m, l, n)
           /\ HeldBy(m, m.heap) = HeldBy(mem, mem.heap)
           /\ \/ MustAppend(l) /\ Appended(mem, m, l, n)
              \/ ~MustAppend(l) /\ Reused(mem, m, l, n)
  BY <1>1, <1>4, <1>5, TakeKeeps
<1>8. /\ m \in Mem /\ n \in Nodes /\ n \in m.heap /\ m.node[n].threadList = l
      /\ m.heap = mem.heap \cup {n} /\ t = n
      /\ m.heap \subseteq Nodes
  BY <1>7, MemTypes DEF MemInv, Own, TakeFrame
<1> HIDE DEF t
<1>9. /\ \A z \in mem.heap \ {n} :
           /\ m.node[z].slot = mem.node[z].slot
           /\ m.node[z].numElements = mem.node[z].numElements
           /\ m.node[z].firstKnownFree = mem.node[z].firstKnownFree
           /\ m.node[z].dirty = mem.node[z].dirty
           /\ m.node[z].threadList = mem.node[z].threadList
      /\ n \in mem.heap => m.node[n].slot = mem.node[n].slot
  BY <1>7 DEF TakeFrame
<1>10. ASSUME n \in mem.heap PROVE mem.node[n].threadList = l
  <2>1. mem.node[n].threadList \in Lists
    BY <1>1, <1>8, MemTypes
  <2>2. ASSUME mem.node[n].threadList # l PROVE FALSE
    <3>1. SameList(mem, m, mem.node[n].threadList)
      BY <1>7, <2>1, <2>2 DEF Elsewhere
    <3>2. n \in Own(mem, mem.node[n].threadList)
      BY <1>10 DEF Own
    <3>3. n \in Own(m, mem.node[n].threadList)
      BY <3>1, <3>2 DEF SameList
    <3> QED BY <1>8, <2>2, <3>3 DEF Own
  <2> QED BY <2>2
<1>11. \A k \in Lists : op[k].cleaning # n
  <2> SUFFICES ASSUME NEW k \in Lists, op[k].cleaning = n PROVE FALSE
    OBVIOUS
  <2>1. k # l /\ op[k].pc = "cleanup"
    BY <1>1, <1>3, <1>8 DEF OpsInv, OpControl
  <2>2. n \in Own(mem, k)
    BY <1>1, <2>1 DEF OpsInv, OpPlace, CleanInv
  <2> QED BY <1>10, <2>1, <2>2 DEF Own
<1>12. n \in mem.heap => PackedNode(mem.node[n])
  BY <1>1, <1>11 DEF PackedInv
<1>13. Own(mem, l) \subseteq Own(m, l)
  BY <1>8, <1>9 DEF Own
<1>14. \A z \in mem.heap : Taken(m.node[z]) = Taken(mem.node[z])
  <2> TAKE z \in mem.heap
  <2>1. m.node[z].slot = mem.node[z].slot
    BY <1>9
  <2> QED BY <2>1 DEF Taken
<1>15. \A z \in mem.heap \ {n} : PackedNode(mem.node[z]) => PackedNode(m.node[z])
  BY <1>9, <1>14 DEF PackedNode
<1>16. CASE /\ i < Capacity /\ mem' = FinishAlloc(m, l, t, i, e)
            /\ op' = [op EXCEPT ![l] = locals]
  <2>1. /\ i \in Slots /\ m.node[n].slot[i] = NULL
        /\ \A s \in Taken(m.node[n]) : s < i
        /\ m.node[n].firstKnownFree = i + 1
        /\ ~m.node[n].dirty => /\ i = m.node[n].numElements
                               /\ Taken(m.node[n]) = 0..(i - 1)
    <3>1. i = m.node[n].firstKnownFree - 1
      BY <1>8
    <3>2. i < Capacity
      BY <1>16
    <3> HIDE DEF i
    <3>3. SlotReady(m.node[n], i)
      BY <1>1, <1>7, <1>12, <3>1, <3>2, TakenSlotFree
    <3> QED BY <3>3 DEF SlotReady
  <2> HIDE DEF i
  <2>2. mem' = FinishAlloc(m, l, n, i, e) /\ e \notin HeldBy(m, m.heap)
    BY <1>2, <1>7, <1>8, <1>16
  <2>3. FinishesAt(m, l, n)
    BY <1>1, <1>8 DEF t, FinishesAt, NextToWake
  <2>5. /\ MemInv(mem') /\ Elsewhere(m, mem', l) /\ FinishFrame(m, mem', l, n, i)
        /\ n \in Own(mem', l)
        /\ HeldBy(mem', mem'.heap) = HeldBy(m, m.heap) \cup {e}
    <3> DEFINE r == mem'
    <3>1. r = FinishAlloc(m, l, n, i, e)
      BY <2>2
    <3> HIDE DEF r
    <3>2. /\ MemInv(r) /\ Elsewhere(m, r, l) /\ FinishFrame(m, r, l, n, i)
          /\ n \in Own(r, l)
          /\ HeldBy(r, r.heap) = HeldBy(m, m.heap) \cup {e}
      BY <1>2, <1>7, <2>1, <2>2, <2>3, <3>1, FinishKeeps
    <3> QED BY <3>2 DEF r
  <2>6. Elsewhere(mem, mem', l)
    BY <1>7, <2>5, ElsewhereTransitive
  <2>7. /\ mem'.heap = m.heap
        /\ \A z \in Nodes \ {n} : mem'.node[z] = m.node[z]
        /\ mem'.node[n].firstKnownFree = i + 1
        /\ mem'.node[n].dirty = m.node[n].dirty
        /\ mem'.node[n].threadList = l
        /\ mem'.node[n].numElements = m.node[n].numElements + 1
        /\ Taken(mem'.node[n]) = Taken(m.node[n]) \cup {i}
    BY <1>8, <2>1, <2>5 DEF FinishFrame
  <2>8. PackedNode(mem'.node[n])
    <3>1. i \in Nat
      BY <2>1, ConstantsAssumption DEF Slots
    <3>2. \A s \in Taken(mem'.node[n]) : s < i + 1
      <4>1. Taken(m.node[n]) \subseteq Nat
        BY ConstantsAssumption DEF Taken, Slots
      <4> QED BY <2>1, <2>7, <3>1, <4>1
    <3>3. ASSUME ~mem'.node[n].dirty
          PROVE  /\ i + 1 = mem'.node[n].numElements
                 /\ Taken(mem'.node[n]) = 0..(mem'.node[n].numElements - 1)
      <4>1. i = m.node[n].numElements /\ Taken(m.node[n]) = 0..(i - 1)
        BY <2>1, <2>7, <3>3
      <4>2. mem'.node[n].numElements = i + 1 /\ Taken(mem'.node[n]) = (0..(i - 1)) \cup {i}
        BY <2>7, <4>1
      <4>3. (0..(i - 1)) \cup {i} = 0..i /\ (i + 1) - 1 = i
        BY <3>1
      <4> QED BY <4>2, <4>3
    <3> QED BY <2>7, <3>2, <3>3 DEF PackedNode
  <2>9. /\ op' = [k \in Lists |-> op'[k]] /\ op'[l] = locals
        /\ \A k \in Lists \ {l} : op'[k] = op[k]
    BY <1>3, <1>16
  <2>10. PackedInv'
    <3> SUFFICES ASSUME NEW z \in mem'.heap, \A k \in Lists : op'[k].cleaning # z
                 PROVE  PackedNode(mem'.node[z])
      BY DEF PackedInv
    <3>1. CASE z = n
      BY <2>8, <3>1
    <3>2. CASE z # n
      <4>1. z \in mem.heap /\ z \in Nodes /\ z # NULL
        BY <1>1, <1>8, <2>7, <3>2
      <4>2. \A k \in Lists : op[k].cleaning # z
        BY <1>3, <2>9, <4>1
      <4>3. PackedNode(m.node[z])
        BY <1>1, <1>15, <3>2, <4>1, <4>2 DEF PackedInv
      <4> QED BY <2>7, <3>2, <4>1, <4>3
    <3> QED BY <3>1, <3>2
  <2>11. ElemInv'
    <3> SUFFICES ASSUME NEW k \in Lists, op'[k].elem # NULL
                 PROVE  /\ op'[k].elem \notin HeldBy(mem', mem'.heap)
                        /\ \A j \in Lists \ {k} : op'[j].elem # op'[k].elem
      BY DEF ElemInv
    <3>1. k # l /\ op'[k] = op[k]
      BY <2>9
    <3>2. op[k].elem \notin HeldBy(mem, mem.heap) /\ op[k].elem # e
      BY <1>1, <1>2, <3>1 DEF ElemInv
    <3>3. op'[k].elem \notin HeldBy(mem', mem'.heap)
      BY <1>7, <2>5, <3>1, <3>2
    <3>4. ASSUME NEW j \in Lists \ {k} PROVE op'[j].elem # op'[k].elem
      <4>1. CASE j = l
        BY <2>9, <3>1, <4>1
      <4>2. CASE j # l
        BY <1>1, <2>9, <3>1, <4>2 DEF ElemInv
      <4> QED BY <4>1, <4>2
    <3> QED BY <3>3, <3>4
  <2>12. /\ Own(mem, l) \subseteq Own(mem', l)
         /\ \A z \in Own(mem, l) : Taken(mem.node[z]) \subseteq Taken(mem'.node[z])
    <3>1. ASSUME NEW z \in Own(mem, l)
          PROVE  z \in Own(mem', l) /\ Taken(mem.node[z]) \subseteq Taken(mem'.node[z])
      <4>1. z \in mem.heap /\ z \in Own(m, l) /\ z \in Nodes
        BY <1>1, <1>13 DEF Own
      <4>2. Taken(m.node[z]) = Taken(mem.node[z])
        BY <1>14, <4>1
      <4>3. CASE z = n
        BY <2>5, <2>7, <4>2, <4>3
      <4>4. CASE z # n
        BY <2>7, <4>1, <4>2, <4>4 DEF Own
      <4> QED BY <4>3, <4>4
    <3> QED BY <3>1
  <2>13. AllocFrame(l)
    BY <2>6, <2>9, <2>12 DEF AllocFrame
  <2> QED BY <2>5, <2>9, <2>10, <2>11, <2>13
<1>17. CASE /\ i >= Capacity /\ mem' = m
            /\ op' = [op EXCEPT ![l].pc = "cleanup", ![l].cleaning = t,
                                ![l].after = after, ![l].elem = e]
  <2> DEFINE o == [op[l] EXCEPT !.pc = "cleanup", !.cleaning = n,
                                !.after = after, !.elem = e]
  <2>1. m.node[n].firstKnownFree > Capacity
    <3>1. m.node[n].firstKnownFree \in Nat
      BY <1>8, MemTypes
    <3> QED BY <1>8, <1>17, <3>1, ConstantsAssumption
  <2>2. CleanInv(m, l, n) /\ AllocInv(m, l, n)
    BY <1>1, <1>4, <1>7, <2>1, StartPlace
  <2>3. /\ op' = [k \in Lists |-> op'[k]] /\ op'[l] = o
        /\ \A k \in Lists \ {l} : op'[k] = op[k]
    BY <1>3, <1>8, <1>17
  <2>4. o.cleaning = n /\ o.elem = e
    BY <1>3 DEF OpRecord
  <2> HIDE DEF o
  <2>5. PackedInv'
    <3> SUFFICES ASSUME NEW z \in mem'.heap, \A k \in Lists : op'[k].cleaning # z
                 PROVE  PackedNode(mem'.node[z])
      BY DEF PackedInv
    <3>1. z # n
      BY <2>3, <2>4
    <3>2. z \in mem.heap /\ z # NULL
      BY <1>1, <1>8, <1>17, <3>1
    <3>3. \A k \in Lists : op[k].cleaning # z
      BY <1>3, <2>3, <3>2
    <3> QED BY <1>1, <1>15, <1>17, <3>1, <3>2, <3>3 DEF PackedInv
  <2>6. ElemInv'
    <3> SUFFICES ASSUME NEW k \in Lists, op'[k].elem # NULL
                 PROVE  /\ op'[k].elem \notin HeldBy(m, m.heap)
                        /\ \A j \in Lists \ {k} : op'[j].elem # op'[k].elem
      BY <1>17 DEF ElemInv
    <3>1. CASE k = l
      BY <1>2, <1>7, <2>3, <2>4, <3>1
    <3>2. CASE k # l
      <4>1. op'[k] = op[k] /\ op[k].elem # e
        BY <1>2, <2>3, <3>2
      <4> QED BY <1>1, <1>7, <2>3, <2>4, <4>1 DEF ElemInv
    <3> QED BY <3>1, <3>2
  <2>7. AllocFrame(l)
    <3>1. \A z \in Own(mem, l) : Taken(mem.node[z]) \subseteq Taken(m.node[z])
      BY <1>14 DEF Own
    <3> QED BY <1>7, <1>13, <1>17, <2>3, <3>1 DEF AllocFrame
  <2>8. AllocStarted(l, e, after)
    BY <1>17, <2>2, <2>3 DEF AllocStarted, o
  <2> QED BY <1>7, <1>17, <2>5, <2>6, <2>7, <2>8
<1> QED BY <1>6, <1>16, <1>17

-----------------------------------------------------------------------------
(* The actions of one list's thread. *)

(* A step on list l leaves the calls on the other lists where they are. *)
LEMMA OpsKeep ==
  ASSUME MemInv(mem), OpsInv, NEW l \in Lists, Elsewhere(mem, mem', l), phase' = phase,
         op' = [k \in Lists |-> op'[k]],
         \A k \in Lists \ {l} : op'[k] = op[k],
         OpControl(phase, op'[l]), OpPlace(mem', l, op'[l])
  PROVE  OpsInv'
<1> SUFFICES ASSUME NEW k \in Lists
             PROVE  OpControl(phase, op'[k]) /\ OpPlace(mem', k, op'[k])
  BY DEF OpsInv
<1>1. CASE k = l
  BY <1>1
<1>2. CASE k # l
  <2>1. op'[k] = op[k] /\ SameList(mem, mem', k)
    BY <1>2 DEF Elsewhere
  <2>2. OpPlace(mem, k, op[k]) /\ OpControl(phase, op[k])
    BY DEF OpsInv
  <2> QED BY <2>1, <2>2, ElsewherePlace
<1> QED BY <1>1, <1>2

(* An element on its way in stays outside as long as no element comes in. *)
LEMMA ElemKeeps ==
  ASSUME ElemInv, HeldBy(mem', mem'.heap) \subseteq HeldBy(mem, mem.heap),
         \A k \in Lists : op'[k].elem = op[k].elem
  PROVE  ElemInv'
BY DEF ElemInv

(* _getLastElement's loop deactivates an empty tail.                       *)
LEMMA DropTailKeeps ==
  ASSUME IInv, NEW l \in Lists, CleanupDropTail(l)
  PROVE  IInv'
<1> DEFINE t == mem.list[l].tail
           r == mem'
<1>1. /\ MemInv(mem) /\ OpsInv /\ ElemInv /\ PackedInv /\ HistoryTypes
      /\ mem \in Mem /\ mem.heap \subseteq Nodes
  BY MemTypes DEF IInv, MemInv
<1>2. /\ t # NULL /\ mem.node[t].active /\ Taken(mem.node[t]) = {}
      /\ r = DropEmptyTail(mem, l) /\ op[l].pc = "cleanup"
      /\ UNCHANGED <<op, phase, kernel, owed, visits>>
  BY DEF CleanupDropTail, TailIsEmpty, Cleaning
<1>3. OpPlace(mem, l, op[l]) /\ OpControl(phase, op[l]) /\ t = mem.list[l].tail
  BY <1>1 DEF OpsInv
<1> HIDE DEF t, r
<1>4. /\ MemInv(r) /\ Elsewhere(mem, r, l) /\ DropEffect(mem, r, l, t)
      /\ HeldBy(r, r.heap) = HeldBy(mem, mem.heap)
  BY <1>1, <1>2, <1>3, DropKeeps
<1>5. OpPlace(r, l, op[l])
  BY <1>1, <1>2, <1>3, <1>4, DropPlace
<1>6. OpsInv'
  <2>1. op' = [k \in Lists |-> op'[k]]
    BY <1>1, <1>2 DEF OpsInv
  <2> QED BY <1>1, <1>2, <1>3, <1>4, <1>5, <2>1, OpsKeep DEF r
<1>7. ElemInv'
  BY <1>1, <1>2, <1>4, ElemKeeps DEF r
<1>8. PackedInv'
  <2>1. r.heap = mem.heap
    BY <1>4 DEF DropEffect, Turn
  <2>2. ASSUME NEW z \in mem.heap, PackedNode(mem.node[z])
        PROVE  PackedNode(r.node[z])
    <3>1. /\ r.node[z].slot = mem.node[z].slot
          /\ r.node[z].numElements = mem.node[z].numElements
          /\ r.node[z].firstKnownFree = mem.node[z].firstKnownFree
          /\ r.node[z].dirty = mem.node[z].dirty
      <4>1. CASE z = t
        BY <1>4, <4>1 DEF DropEffect, Turn
      <4>2. CASE z # t
        BY <1>1, <1>4, <4>2 DEF DropEffect, Turn
      <4> QED BY <4>1, <4>2
    <3> QED BY <2>2, <3>1 DEF PackedNode, Taken
  <2> QED BY <1>1, <1>2, <2>1, <2>2 DEF PackedInv, r
<1>9. HistoryTypes'
  BY <1>1, <1>2 DEF HistoryTypes
<1> QED BY <1>4, <1>6, <1>7, <1>8, <1>9 DEF IInv, r

(* _cleanupNode moves the last element of the list into a hole.            *)
LEMMA MoveKeeps ==
  ASSUME IInv, NEW l \in Lists, CleanupMove(l)
  PROVE  IInv'
<1> DEFINE t == mem.list[l].tail
           c == op[l].cleaning
           h == FirstFree(mem.node[c])
           k == LastTaken(mem.node[t])
           r == mem'
<1>1. /\ MemInv(mem) /\ OpsInv /\ ElemInv /\ PackedInv /\ HistoryTypes
      /\ mem \in Mem /\ mem.heap \subseteq Nodes /\ FillInv(mem)
      /\ ShapeInv(mem, l) /\ NULL \notin Nodes
  BY MemTypes, ConstantsAssumption DEF IInv, MemInv
<1>2. /\ t # NULL /\ mem.node[t].active /\ Taken(mem.node[t]) # {}
      /\ mem.node[t].index >= mem.node[c].index
      /\ mem.node[t].index = mem.node[c].index => h < k
      /\ op[l].pc = "cleanup" /\ mem.node[c].numElements < Capacity
  BY DEF CleanupMove, CanPull, Cleaning
<1>3. /\ r = FreeElementOnNode(
               AllocElementOnNode(mem, c, h, mem.node[t].slot[k]), t, k)
      /\ UNCHANGED <<op, phase, kernel, owed, visits>>
  BY DEF CleanupMove, Pull
<1>4. /\ OpPlace(mem, l, op[l]) /\ OpControl(phase, op[l]) /\ CleanInv(mem, l, c)
      /\ op[l] \in OpRecord /\ t = mem.list[l].tail /\ c = op[l].cleaning
      /\ op[l].after = "visit" => c = op[l].currentNode
  BY <1>1, <1>2 DEF OpsInv, OpPlace, OpControl
<1>5. /\ c \in Own(mem, l) /\ c \in mem.heap /\ c \in Nodes
      /\ t \in Own(mem, l) /\ t \in mem.heap /\ t \in Nodes
      /\ mem.node[c].threadList = l /\ mem.node[t].threadList = l
  BY <1>1, <1>2, <1>4 DEF CleanInv, ShapeInv, EndsInv, Own
<1>6. mem.node[c].active
  <2>1. mem.node[c].index \in Nat /\ mem.node[t].index \in Nat
    BY <1>1, <1>5, MemTypes
  <2>2. ~mem.node[c].active => mem.node[t].index < mem.node[c].index
    BY <1>2, <1>4 DEF CleanInv
  <2> QED BY <1>2, <2>1, <2>2
<1>7. h \in Slots /\ mem.node[c].slot[h] = NULL
  <2>1. Taken(mem.node[c]) # Slots
    <3>1. Cardinality(Taken(mem.node[c])) < Capacity
      BY <1>1, <1>2, <1>5 DEF FillInv
    <3> QED BY <3>1, TakenFinite, ConstantsAssumption
  <2>2. h \in Slots \ Taken(mem.node[c])
    BY <2>1, FirstFreeIs
  <2> QED BY <2>2 DEF Taken
<1>8. k \in Slots /\ mem.node[t].slot[k] # NULL
  <2>1. k \in Taken(mem.node[t])
    BY <1>2, LastTakenIs
  <2> QED BY <2>1 DEF Taken
<1> HIDE DEF t, c, h, k, r
<1>9. /\ MemInv(r) /\ Elsewhere(mem, r, mem.node[t].threadList)
      /\ PullFrame(mem, r, c, t) /\ c \in r.heap /\ t \in r.heap
      /\ MoveSlot(mem, r, c, h, t, k)
      /\ HeldBy(r, r.heap) = HeldBy(mem, mem.heap)
  BY <1>1, <1>2, <1>3, <1>5, <1>6, <1>7, <1>8, PullKeeps
<1>10. OpPlace(r, l, op[l])
  <2>1. c = t => h # k
    BY Zenon, <1>7, <1>8
  <2> QED BY <1>1, <1>2, <1>4, <1>5, <1>6, <1>7, <1>8, <1>9, <2>1, MovePlace
<1>11. OpsInv'
  <2>1. op' = [j \in Lists |-> op'[j]]
    BY <1>1, <1>3 DEF OpsInv
  <2>2. Elsewhere(mem, r, l)
    BY Zenon, <1>5, <1>9
  <2> QED BY Zenon, <1>1, <1>3, <1>4, <1>10, <2>1, <2>2, OpsKeep DEF r
<1>12. ElemInv'
  BY <1>1, <1>3, <1>9, ElemKeeps DEF r
<1>13. PackedInv'
  <2> SUFFICES ASSUME NEW z \in r.heap, \A j \in Lists : op[j].cleaning # z
               PROVE  PackedNode(r.node[z])
    BY <1>3 DEF PackedInv, r
  <2>1. z # c
    BY <1>4
  <2>2. /\ z \in mem.heap /\ PackedNode(mem.node[z])
        /\ r.node[z].firstKnownFree = mem.node[z].firstKnownFree
    BY <1>1, <1>9 DEF PackedInv, PullFrame
  <2>3. CASE z = t
    <3>1. r.node[z].dirty = TRUE
      BY <1>9, <2>3 DEF PullFrame
    <3>2. Taken(r.node[z]) \subseteq Taken(mem.node[z])
      BY <1>9, <2>1, <2>3 DEF MoveSlot, Taken
    <3> QED BY <2>2, <3>1, <3>2 DEF PackedNode
  <2>4. CASE z # t
    <3>1. /\ r.node[z].slot = mem.node[z].slot
          /\ r.node[z].dirty = mem.node[z].dirty
          /\ r.node[z].numElements = mem.node[z].numElements
      BY <1>9, <2>1, <2>4 DEF PullFrame
    <3> QED BY <2>2, <3>1 DEF PackedNode, Taken
  <2> QED BY <2>3, <2>4
<1>14. HistoryTypes'
  BY <1>1, <1>3 DEF HistoryTypes
<1> QED BY <1>9, <1>11, <1>12, <1>13, <1>14 DEF IInv, r

(* A call that goes over a chunk's slots. *)
VisitLocals(o, i, num) ==
  [o EXCEPT !.cleaning = NULL, !.elem = NULL, !.pc = "visit",
            !.i = i, !.originalElements = num]

(* The locals of a kernel's walk when it enters a chunk.                   *)
LEMMA VisitOp ==
  ASSUME NEW o \in OpRecord, NEW i \in Nat, NEW num \in Nat,
         NEW p, p = "kernel", NEW m, NEW l, o.currentNode \in Own(m, l),
         NEW x, x = VisitLocals(o, i, num)
  PROVE  OpControl(p, x) /\ OpPlace(m, l, x) /\ x.cleaning = NULL /\ x.elem = NULL
<1>1. /\ x \in OpRecord /\ x.pc = "visit" /\ x.cleaning = NULL /\ x.elem = NULL
      /\ x.currentNode = o.currentNode
  BY Zenon DEF VisitLocals, OpRecord, Pcs, Ptr
<1> QED BY <1>1 DEF OpControl, OpPlace

(* So does one that is not in progress. *)
LEMMA IdleIs ==
  /\ IdleOp \in OpRecord
  /\ IdleOp.pc = "idle" /\ IdleOp.cleaning = NULL /\ IdleOp.elem = NULL
  /\ IdleOp.after = "alloc" /\ IdleOp.currentNode = NULL
BY DEF IdleOp, OpRecord, Pcs, Ptr

(* The locals of a list with no call in progress.                          *)
LEMMA IdleFits ==
  ASSUME NEW m, NEW l, NEW p, p # "kernel"
  PROVE  OpControl(p, IdleOp) /\ OpPlace(m, l, IdleOp)
BY IdleIs DEF OpControl, OpPlace

(* The compaction of chunk c leaves its elements in front of its note. *)
LEMMA CleanedChunk ==
  ASSUME IInv, NEW l \in Lists, op[l].pc = "cleanup",
         NEW c, c = op[l].cleaning, NEW num, num = mem.node[c].numElements,
         ~(Cleaning(l) /\ (TailIsEmpty(l) \/ CanPull(l))),
         NEW f, f = Marked(mem, c, num, FALSE)
  PROVE  /\ num \in Nat /\ num <= Capacity /\ f \in Mem /\ MemInv(f) /\ Elsewhere(mem, f, l)
         /\ MarkEffect(mem, f, c, num, FALSE)
         /\ HeldBy(f, f.heap) = HeldBy(mem, mem.heap)
         /\ Taken(mem.node[c]) = 0..(num - 1) /\ c \in Own(f, l)
<1> DEFINE t == mem.list[l].tail
<1>1. MemInv(mem) /\ mem \in Mem /\ mem.heap \subseteq Nodes /\ OpPlace(mem, l, op[l])
  BY MemTypes DEF IInv, MemInv, OpsInv
<1>2. CleanInv(mem, l, c)
  BY <1>1 DEF OpPlace
<1>3. c \in mem.heap /\ c \in Nodes /\ mem.node[c].threadList = l /\ t # NULL
  BY Zenon, <1>1, <1>2 DEF CleanInv, Own
<1>4. num < Capacity => ~(mem.node[t].active /\ Taken(mem.node[t]) = {})
  BY <1>3 DEF Cleaning, TailIsEmpty
<1>5. num < Capacity =>
        ~ /\ mem.node[t].active /\ Taken(mem.node[t]) # {}
          /\ mem.node[t].index >= mem.node[c].index
          /\ mem.node[t].index = mem.node[c].index
               => FirstFree(mem.node[c]) < LastTaken(mem.node[t])
  BY <1>3 DEF Cleaning, CanPull
<1>6. t = mem.list[l].tail
  BY Zenon
<1> HIDE DEF t
<1>7. Taken(mem.node[c]) = 0..(num - 1) /\ num \in Nat /\ num <= Capacity
  BY <1>1, <1>2, <1>4, <1>5, <1>6, PackedWhenDone
<1>8. f \in Mem /\ MarkEffect(mem, f, c, num, FALSE)
  BY <1>1, <1>3, <1>7, MarkFields
<1>9. /\ MemInv(f) /\ Elsewhere(mem, f, l)
      /\ HeldBy(f, f.heap) = HeldBy(mem, mem.heap)
      /\ c \in Own(f, l)
  BY <1>1, <1>3, <1>8, MarkKeeps
<1> QED BY Zenon, <1>7, <1>8, <1>9

(* The end of a compaction for the walk of a kernel. *)
LEMMA DoneVisitKeeps ==
  ASSUME IInv, NEW l \in Lists, CleanupDone(l), op[l].after = "visit"
  PROVE  IInv'
<1> DEFINE c == op[l].cleaning
           num == mem.node[c].numElements
           r == mem'
<1>1. /\ MemInv(mem) /\ OpsInv /\ ElemInv /\ PackedInv /\ HistoryTypes
      /\ mem \in Mem /\ mem.heap \subseteq Nodes
  BY MemTypes DEF IInv, MemInv
<1>2. /\ op[l].pc = "cleanup" /\ ~(Cleaning(l) /\ (TailIsEmpty(l) \/ CanPull(l)))
      /\ UNCHANGED <<phase, kernel, owed, visits>>
  BY DEF CleanupDone
<1>3. r = Marked(mem, c, num, FALSE)
  BY DEF CleanupDone, Marked
<1>4. op' = [op EXCEPT ![l] =
         [[op[l] EXCEPT !.cleaning = NULL, !.elem = NULL] EXCEPT
              !.pc = "visit", !.i = 0, !.originalElements = num]]
  BY DEF CleanupDone
<1>5. c = op[l].cleaning /\ num = mem.node[c].numElements
  OBVIOUS
<1> HIDE DEF c, num, r
<1>6. /\ num \in Nat /\ r \in Mem /\ MemInv(r) /\ Elsewhere(mem, r, l)
      /\ MarkEffect(mem, r, c, num, FALSE)
      /\ HeldBy(r, r.heap) = HeldBy(mem, mem.heap)
      /\ Taken(mem.node[c]) = 0..(num - 1) /\ c \in Own(r, l)
  BY <1>2, <1>3, <1>5, CleanedChunk
<1>7. /\ op = [k \in Lists |-> op[k]] /\ op[l] \in OpRecord
      /\ OpControl(phase, op[l]) /\ op[l].currentNode = c
      /\ phase = "kernel"
  BY <1>1, <1>2, <1>5 DEF OpsInv, OpControl, HistoryTypes
<1>8. /\ op' = [k \in Lists |-> op'[k]]
      /\ \A k \in Lists \ {l} : op'[k] = op[k]
      /\ op'[l] = VisitLocals(op[l], 0, num)
  BY <1>4, <1>7 DEF VisitLocals
<1>9. /\ OpControl(phase, op'[l]) /\ OpPlace(r, l, op'[l])
      /\ op'[l].cleaning = NULL /\ op'[l].elem = NULL
  <2>1. 0 \in Nat /\ op[l].currentNode \in Own(r, l)
    BY <1>6, <1>7
  <2> QED BY <1>6, <1>7, <1>8, <2>1, VisitOp
<1>10. OpsInv'
  BY <1>1, <1>2, <1>6, <1>8, <1>9, OpsKeep DEF r
<1>11. ElemInv'
  <2>1. \A k \in Lists : op'[k].elem = op[k].elem
    BY <1>2, <1>7, <1>8, <1>9 DEF OpControl
  <2> QED BY <1>1, <1>6, <2>1, ElemKeeps DEF r
<1>12. PackedInv'
  <2> SUFFICES ASSUME NEW z \in r.heap, \A j \in Lists : op'[j].cleaning # z
               PROVE  PackedNode(r.node[z])
    BY DEF PackedInv, r
  <2>1. z \in mem.heap /\ z \in Nodes
    BY <1>1, <1>6 DEF MarkEffect
  <2>2. CASE z = c
    <3>1. /\ r.node[c].slot = mem.node[c].slot
          /\ r.node[c].firstKnownFree = num /\ r.node[c].numElements = num
      BY <1>5, <1>6 DEF MarkEffect
    <3>2. Taken(r.node[c]) = 0..(num - 1)
      BY <1>6, <3>1 DEF Taken
    <3>3. \A s \in 0..(num - 1) : s < num
      BY <1>6
    <3> QED BY <2>2, <3>1, <3>2, <3>3 DEF PackedNode
  <2>3. CASE z # c
    <3>1. \A j \in Lists : op[j].cleaning # z
      BY <1>5, <1>8, <2>3
    <3> QED BY <1>1, <1>6, <2>1, <2>3, <3>1 DEF PackedInv, MarkEffect
  <2> QED BY <2>2, <2>3
<1>13. HistoryTypes'
  BY <1>1, <1>2 DEF HistoryTypes
<1> QED BY <1>6, <1>10, <1>11, <1>12, <1>13 DEF IInv, r

(* The end of a compaction for an allocation, which it completes. *)
LEMMA DoneAllocKeeps ==
  ASSUME IInv, NEW l \in Lists, CleanupDone(l), op[l].after # "visit"
  PROVE  IInv'
<1> DEFINE c == op[l].cleaning
           e == op[l].elem
           num == mem.node[c].numElements
           t == mem.list[l].tail
           g == Marked(mem, c, num, FALSE)
           f == [g EXCEPT !.node[c].firstKnownFree = num + 1]
           r == mem'
<1>1. /\ MemInv(mem) /\ OpsInv /\ ElemInv /\ PackedInv /\ HistoryTypes
      /\ mem \in Mem /\ mem.heap \subseteq Nodes /\ ShapeInv(mem, l)
  BY MemTypes DEF IInv, MemInv
<1>2. /\ op[l].pc = "cleanup" /\ ~(Cleaning(l) /\ (TailIsEmpty(l) \/ CanPull(l)))
      /\ UNCHANGED <<phase, kernel, owed, visits>>
  BY DEF CleanupDone
<1>3. r = FinishAlloc(f, l, c, num, e)
  BY DEF CleanupDone, Marked
<1>4. op' = [op EXCEPT ![l] =
                IF op[l].after = "alloc" THEN IdleOp
                ELSE [[op[l] EXCEPT !.cleaning = NULL, !.elem = NULL] EXCEPT
                          !.pc = "visit", !.i = @ + 1]]
  BY DEF CleanupDone
<1>5. c = op[l].cleaning /\ num = mem.node[c].numElements /\ e = op[l].elem
      /\ t = mem.list[l].tail /\ g = Marked(mem, c, num, FALSE)
  OBVIOUS
<1>5a. f = [g EXCEPT !.node[c].firstKnownFree = num + 1]
  OBVIOUS
<1> HIDE DEF c, num, r, e, t, g, f
<1>6. /\ num \in Nat /\ num <= Capacity /\ g \in Mem /\ MemInv(g) /\ Elsewhere(mem, g, l)
      /\ MarkEffect(mem, g, c, num, FALSE)
      /\ HeldBy(g, g.heap) = HeldBy(mem, mem.heap)
      /\ Taken(mem.node[c]) = 0..(num - 1) /\ c \in Own(g, l)
  BY <1>2, <1>5, CleanedChunk
<1>7. /\ op = [k \in Lists |-> op[k]] /\ op[l] \in OpRecord
      /\ OpControl(phase, op[l]) /\ OpPlace(mem, l, op[l])
      /\ e \in Elems /\ e \notin HeldBy(mem, mem.heap)
      /\ \A k \in Lists \ {l} : op[k].elem # e
  <2>1. op = [k \in Lists |-> op[k]] /\ OpControl(phase, op[l]) /\ OpPlace(mem, l, op[l])
    BY <1>1 DEF OpsInv
  <2>2. e \in Elems /\ e # NULL
    BY <1>2, <1>5, <2>1, ConstantsAssumption DEF OpControl
  <2> QED BY <1>1, <1>5, <2>1, <2>2 DEF ElemInv, OpControl
<1>8. /\ CleanInv(mem, l, c) /\ AllocInv(mem, l, c)
      /\ c \in Own(mem, l) /\ c \in mem.heap /\ c \in Nodes /\ t # NULL
      /\ t \in Own(mem, l) /\ t \in Nodes
  BY <1>1, <1>2, <1>5, <1>7 DEF OpPlace, CleanInv, Own, ShapeInv, EndsInv
<1>9. num \in Slots /\ num \notin Taken(mem.node[c])
  <2>1. num < Capacity
    BY Zenon, <1>5, <1>8 DEF AllocInv
  <2> QED BY <1>6, <2>1, ConstantsAssumption DEF Slots
<1>10. /\ g.heap = mem.heap /\ g.list = mem.list
       /\ \A z \in Nodes \ {c} : g.node[z] = mem.node[z]
       /\ g.node[c].slot = mem.node[c].slot /\ g.node[c].numElements = num
       /\ g.node[c].next = mem.node[c].next /\ g.node[c].prev = mem.node[c].prev
       /\ g.node[c].active = mem.node[c].active
       /\ g.node[c].index = mem.node[c].index
       /\ g.node[c].threadList = mem.node[c].threadList
       /\ g.node[c].firstKnownFree = num /\ g.node[c].dirty = FALSE
  BY Zenon, <1>5, <1>6 DEF MarkEffect
<1>11. f = Noted(g, c)
  BY <1>5a, <1>10 DEF Noted
<1>12. f \in Mem /\ MarkEffect(g, f, c, num + 1, FALSE)
  BY <1>6, <1>8, <1>10, <1>11, NotedFields
<1>13. /\ MemInv(f) /\ Elsewhere(g, f, l)
       /\ HeldBy(f, f.heap) = HeldBy(g, g.heap)
       /\ c \in Own(f, l)
  <2>1. c \in g.heap /\ g.node[c].threadList = l
    BY <1>6 DEF Own
  <2> QED BY <1>6, <1>12, <2>1, MarkKeeps
<1>14. /\ f.heap = mem.heap /\ f.list = mem.list
       /\ \A z \in Nodes \ {c} : f.node[z] = mem.node[z]
       /\ f.node[c].slot = mem.node[c].slot /\ f.node[c].numElements = num
       /\ f.node[c].active = mem.node[c].active
       /\ f.node[c].next = mem.node[c].next
       /\ f.node[c].index = mem.node[c].index
       /\ f.node[c].firstKnownFree = num + 1 /\ f.node[c].dirty = FALSE
  BY <1>10, <1>12 DEF MarkEffect
<1>15. FinishesAt(f, l, c)
  <2>1. f.list[l].tail = t
    BY <1>5, <1>14
  <2>2. CASE mem.node[c].active
    BY <1>5, <1>8, <1>14, <2>1, <2>2 DEF AllocInv, FinishesAt
  <2>3. CASE ~mem.node[c].active /\ ~mem.node[t].active
    <3>1. c = t
      BY Zenon, <1>5, <1>8, <2>3 DEF AllocInv
    <3> QED BY Zenon, <1>8, <1>14, <2>1, <2>3, <3>1 DEF FinishesAt, NextToWake
  <2>4. CASE ~mem.node[c].active /\ mem.node[t].active
    <3>1. /\ c = mem.node[t].next /\ c # t
          /\ mem.node[c].index = mem.node[t].index + 1
      BY <1>5, <1>8, <2>4 DEF AllocInv
    <3>2. f.node[t] = mem.node[t]
      BY <1>8, <1>14, <3>1
    <3>3. NextToWake(f, l) = c
      BY <2>1, <2>4, <3>1, <3>2 DEF NextToWake
    <3> QED BY <1>8, <1>14, <2>1, <2>4, <3>1, <3>2, <3>3 DEF FinishesAt
  <2> QED BY <2>2, <2>3, <2>4
<1>16. /\ MemInv(r) /\ Elsewhere(f, r, l) /\ FinishFrame(f, r, l, c, num)
       /\ c \in Own(r, l)
       /\ HeldBy(r, r.heap) = HeldBy(f, f.heap) \cup {e}
  <2>1. f.node[c].slot[num] = NULL
    BY <1>9, <1>14 DEF Taken
  <2>2. e \notin HeldBy(f, f.heap)
    BY <1>6, <1>7, <1>13
  <2>3. MemInv(f) /\ c \in Own(f, l) /\ num \in Slots /\ e \in Elems
    BY <1>7, <1>9, <1>13
  <2> QED BY <1>3, <1>15, <2>1, <2>2, <2>3, FinishKeeps
<1>17. Elsewhere(mem, r, l)
  <2>1. Elsewhere(mem, f, l)
    BY <1>6, <1>13, ElsewhereTransitive
  <2> QED BY <1>16, <2>1, ElsewhereTransitive
<1>18. /\ r.heap = mem.heap
       /\ \A z \in Nodes \ {c} : r.node[z] = mem.node[z]
       /\ r.node[c].firstKnownFree = num + 1
       /\ r.node[c].numElements = num + 1
       /\ r.node[c].threadList = l
       /\ Taken(r.node[c]) = Taken(mem.node[c]) \cup {num}
  <2>1. Taken(f.node[c]) = Taken(mem.node[c])
    BY <1>14 DEF Taken
  <2>2. f.node[c].threadList = l
    BY <1>13 DEF Own
  <2> QED BY <1>14, <1>16, <2>1, <2>2 DEF FinishFrame
<1>19. Own(mem, l) \subseteq Own(r, l)
  <2> SUFFICES ASSUME NEW z \in Own(mem, l) PROVE z \in Own(r, l)
    OBVIOUS
  <2>1. CASE z = c
    BY <1>16, <2>1
  <2>2. CASE z # c
    BY <1>1, <1>18, <2>2 DEF Own
  <2> QED BY <2>1, <2>2
<1>20. /\ op' = [k \in Lists |-> op'[k]]
       /\ \A k \in Lists \ {l} : op'[k] = op[k]
       /\ op'[l] = IF op[l].after = "alloc" THEN IdleOp
                   ELSE [[op[l] EXCEPT !.cleaning = NULL, !.elem = NULL] EXCEPT
                           !.pc = "visit", !.i = op[l].i + 1]
  <2>1. [op[l] EXCEPT !.cleaning = NULL, !.elem = NULL].i = op[l].i
    BY <1>7 DEF OpRecord
  <2> QED BY <1>4, <1>7, <2>1
<1>21. /\ OpControl(phase, op'[l]) /\ OpPlace(r, l, op'[l])
       /\ op'[l].cleaning = NULL /\ op'[l].elem = NULL
  <2>1. CASE op[l].after = "alloc"
    <3>1. phase # "kernel" /\ op'[l] = IdleOp
      BY <1>2, <1>7, <1>20, <2>1 DEF OpControl
    <3> QED BY <3>1, IdleFits, IdleIs
  <2>2. CASE op[l].after # "alloc"
    <3>1. phase = "kernel" /\ op[l].currentNode \in Own(r, l)
      BY <1>1, <1>2, <1>7, <1>19, <2>2 DEF OpControl, OpPlace, HistoryTypes
    <3>2. op[l].i + 1 \in Nat /\ op[l].originalElements \in Nat
      BY <1>7 DEF OpRecord
    <3>3. op'[l] = VisitLocals(op[l], op[l].i + 1, op[l].originalElements)
      BY <1>7, <1>20, <2>2 DEF OpRecord, VisitLocals
    <3> QED BY <1>7, <3>1, <3>2, <3>3, VisitOp
  <2> QED BY <2>1, <2>2
<1>22. OpsInv'
  BY <1>1, <1>2, <1>17, <1>20, <1>21, OpsKeep DEF r
<1>23. ElemInv'
  <2> SUFFICES ASSUME NEW k \in Lists, op'[k].elem # NULL
               PROVE  /\ op'[k].elem \notin HeldBy(r, r.heap)
                      /\ \A j \in Lists \ {k} : op'[j].elem # op'[k].elem
    BY DEF ElemInv, r
  <2>1. k # l /\ op'[k] = op[k]
    BY <1>20, <1>21
  <2>2. op[k].elem \notin HeldBy(mem, mem.heap) /\ op[k].elem # e
    BY <1>1, <1>7, <2>1 DEF ElemInv
  <2>3. op'[k].elem \notin HeldBy(r, r.heap)
    BY <1>6, <1>13, <1>16, <2>1, <2>2
  <2>4. ASSUME NEW j \in Lists \ {k} PROVE op'[j].elem # op'[k].elem
    <3>1. CASE j = l
      BY <1>21, <2>1, <3>1
    <3>2. CASE j # l
      BY <1>1, <1>20, <2>1, <3>2 DEF ElemInv
    <3> QED BY <3>1, <3>2
  <2> QED BY <2>3, <2>4
<1>24. PackedInv'
  <2> SUFFICES ASSUME NEW z \in r.heap, \A j \in Lists : op'[j].cleaning # z
               PROVE  PackedNode(r.node[z])
    BY DEF PackedInv, r
  <2>1. z \in mem.heap /\ z \in Nodes
    BY <1>1, <1>18
  <2>2. CASE z = c
    <3>1. Taken(r.node[c]) = 0..num /\ (num + 1) - 1 = num
      BY <1>6, <1>18
    <3>2. \A s \in 0..num : s < num + 1
      BY <1>6
    <3> QED BY <1>18, <2>2, <3>1, <3>2 DEF PackedNode
  <2>3. CASE z # c
    <3>1. \A j \in Lists : op[j].cleaning # z
      BY <1>5, <1>20, <2>3
    <3> QED BY <1>1, <1>18, <2>1, <2>3, <3>1 DEF PackedInv
  <2> QED BY <2>2, <2>3
<1>25. HistoryTypes'
  BY <1>1, <1>2 DEF HistoryTypes
<1> QED BY <1>16, <1>22, <1>23, <1>24, <1>25 DEF IInv, r

-----------------------------------------------------------------------------
(* The walk of a kernel, which leaves the lists alone. *)

(* Only the locals of the call on list l change, which compacts nothing yet. *)
LEMMA LocalsKeep ==
  ASSUME IInv, NEW l \in Lists, op[l].pc # "cleanup", mem' = mem,
         phase' = phase, HistoryTypes', op' = [k \in Lists |-> op'[k]],
         \A k \in Lists \ {l} : op'[k] = op[k],
         OpControl(phase, op'[l]), OpPlace(mem, l, op'[l]), op'[l].elem = NULL
  PROVE  IInv'
<1>1. MemInv(mem) /\ OpsInv /\ ElemInv /\ PackedInv /\ NULL \notin mem.heap
  BY ConstantsAssumption, MemTypes DEF IInv, MemInv
<1>2. Elsewhere(mem, mem', l)
  BY DEF Elsewhere, SameList
<1>3. op[l].elem = NULL /\ op[l].cleaning = NULL
  BY <1>1 DEF OpsInv, OpControl
<1>4. OpsInv'
  BY <1>1, <1>2, OpsKeep
<1>5. ElemInv'
  BY <1>1, <1>3, ElemKeeps
<1>6. PackedInv'
  <2> SUFFICES ASSUME NEW z \in mem.heap, \A j \in Lists : op'[j].cleaning # z
               PROVE  PackedNode(mem.node[z])
    BY DEF PackedInv
  <2>1. \A j \in Lists : op[j].cleaning # z
    BY <1>1, <1>3
  <2> QED BY <1>1, <2>1 DEF PackedInv
<1>7. MemInv(mem')
  BY <1>1
<1> QED BY <1>4, <1>5, <1>6, <1>7 DEF IInv

(* What the walk of a kernel is known by. *)
LEMMA InKernel ==
  ASSUME IInv, NEW l \in Lists, op[l].pc \in {"walk", "visit"}
  PROVE  /\ phase = "kernel" /\ op[l] \in OpRecord /\ OpPlace(mem, l, op[l])
         /\ op[l].cleaning = NULL /\ op[l].elem = NULL
         /\ op = [k \in Lists |-> op[k]] /\ HistoryTypes
         /\ MemInv(mem) /\ mem \in Mem /\ mem.heap \subseteq Nodes
BY MemTypes DEF IInv, OpsInv, OpControl, HistoryTypes, MemInv

(* The head of the loop of _runKernelThread. *)
LEMMA WalkKeeps ==
  ASSUME IInv, NEW l \in Lists, KernelWalk(l)
  PROVE  IInv'
<1> DEFINE o == op[l]
           c == o.currentNode
           x == op'[l]
           stop == \/ c = NULL
                   \/ ~mem.node[c].active
                   \/ o.elementsDone >= o.initNumElements
<1>1. /\ o.pc = "walk" /\ UNCHANGED <<mem, phase, kernel, owed, visits>>
      /\ op' = [op EXCEPT ![l] = IF stop THEN [IdleOp EXCEPT !.pc = "done"]
                                 ELSE EnterNode(o, c)]
  BY DEF KernelWalk
<1>2. /\ phase = "kernel" /\ o \in OpRecord /\ OpPlace(mem, l, o)
      /\ o.cleaning = NULL /\ o.elem = NULL
      /\ op = [k \in Lists |-> op[k]] /\ HistoryTypes
      /\ MemInv(mem) /\ mem \in Mem /\ mem.heap \subseteq Nodes
  BY <1>1, InKernel
<1> HIDE DEF o, stop
<1>3. /\ op' = [k \in Lists |-> op'[k]]
      /\ \A k \in Lists \ {l} : op'[k] = op[k]
      /\ x = IF stop THEN [IdleOp EXCEPT !.pc = "done"] ELSE EnterNode(o, c)
  BY <1>1, <1>2
<1> HIDE DEF x
<1>4. OpControl(phase, x) /\ OpPlace(mem, l, x) /\ x.elem = NULL
  <2>1. CASE stop
    <3>1. x \in OpRecord /\ x.pc = "done" /\ x.cleaning = NULL /\ x.elem = NULL
      BY <1>3, <2>1 DEF IdleOp, OpRecord, Pcs, Ptr
    <3> QED BY <1>2, <3>1 DEF OpControl, OpPlace
  <2>2. CASE ~stop
    <3>1. c \in Own(mem, l) /\ mem.node[c].active
      BY <1>1, <1>2, <2>2 DEF OpPlace, stop
    <3>2. c \in Nodes /\ mem.list[l].tail # NULL /\ mem.node[c].numElements \in Nat
      <4>1. c \in Nodes
        BY <1>2, <3>1 DEF Own
      <4>2. ActiveNode(mem, l, c)
        BY <1>2, <3>1 DEF MemInv, ShapeInv, ActiveInv
      <4> QED BY <1>2, <4>1, <4>2, MemTypes DEF ActiveNode
    <3>3. CASE mem.node[c].dirty
      <4>1. /\ x \in OpRecord /\ x.pc = "cleanup" /\ x.cleaning = c
            /\ x.after = "visit" /\ x.elem = NULL /\ x.currentNode = c
        BY <1>2, <1>3, <2>2, <3>2, <3>3 DEF EnterNode, OpRecord, Pcs, Ptr
      <4>2. CleanInv(mem, l, c)
        BY <3>1, <3>2 DEF CleanInv
      <4> QED BY <1>2, <3>1, <4>1, <4>2 DEF OpControl, OpPlace
    <3>4. CASE ~mem.node[c].dirty
      <4>1. /\ x \in OpRecord /\ x.pc = "visit" /\ x.cleaning = NULL
            /\ x.elem = NULL /\ x.currentNode = c
        BY <1>2, <1>3, <2>2, <3>2, <3>4 DEF EnterNode, OpRecord, Pcs
      <4> QED BY <1>2, <3>1, <4>1 DEF OpControl, OpPlace
    <3> QED BY <3>3, <3>4
  <2> QED BY <2>1, <2>2
<1>5. HistoryTypes'
  BY <1>1, <1>2 DEF HistoryTypes
<1>6. op[l].pc # "cleanup"
  BY <1>1 DEF o
<1> QED BY <1>1, <1>3, <1>4, <1>5, <1>6, LocalsKeep DEF x

(* A visit counts. *)
LEMMA CountTypes ==
  ASSUME visits \in [Elems -> Nat], NEW e
  PROVE  Count(e) \in [Elems -> Nat]
<1>1. Count(e) = [x \in Elems |-> IF x = e THEN visits[e] + 1 ELSE visits[x]]
  BY DEF Count
<1>2. \A x \in Elems : (IF x = e THEN visits[e] + 1 ELSE visits[x]) \in Nat
  OBVIOUS
<1> QED BY <1>1, <1>2

(* The next slot of the chunk under a kernel. *)
LEMMA NextSlotOp ==
  ASSUME NEW l, op[l] \in OpRecord, op[l].pc = "visit", phase = "kernel",
         op[l].cleaning = NULL, op[l].elem = NULL,
         NEW m, op[l].currentNode \in Own(m, l)
  PROVE  /\ OpControl(phase, NextSlot(l)) /\ OpPlace(m, l, NextSlot(l))
         /\ NextSlot(l).cleaning = NULL /\ NextSlot(l).elem = NULL
<1> DEFINE x == NextSlot(l)
<1>1. /\ x \in OpRecord /\ x.pc = "visit" /\ x.cleaning = NULL /\ x.elem = NULL
      /\ x.currentNode = op[l].currentNode
  BY DEF NextSlot, OpRecord
<1> HIDE DEF x
<1>2. OpControl(phase, x) /\ OpPlace(m, l, x)
  BY <1>1 DEF OpControl, OpPlace
<1> QED BY <1>1, <1>2 DEF x

(* The kernel leaves the set alone. *)
LEMMA KeepKeeps ==
  ASSUME IInv, NEW l \in Lists, KernelKeep(l)
  PROVE  IInv'
<1>1. /\ op[l].pc = "visit" /\ UNCHANGED <<mem, phase, kernel, owed>>
      /\ op' = [op EXCEPT ![l] = NextSlot(l)] /\ visits' = Count(Visited(l))
  BY DEF KernelKeep, VisitsNext
<1>2. /\ phase = "kernel" /\ op[l] \in OpRecord /\ OpPlace(mem, l, op[l])
      /\ op[l].cleaning = NULL /\ op[l].elem = NULL
      /\ op = [k \in Lists |-> op[k]] /\ HistoryTypes
  BY <1>1, InKernel
<1>3. /\ op' = [k \in Lists |-> op'[k]]
      /\ \A k \in Lists \ {l} : op'[k] = op[k]
      /\ op'[l] = NextSlot(l)
  BY <1>1, <1>2
<1>4. op[l].currentNode \in Own(mem, l)
  BY <1>1, <1>2 DEF OpPlace
<1>5. /\ OpControl(phase, NextSlot(l)) /\ OpPlace(mem, l, NextSlot(l))
      /\ NextSlot(l).elem = NULL
  BY <1>1, <1>2, <1>4, NextSlotOp
<1>6. HistoryTypes'
  BY Zenon, <1>1, <1>2, CountTypes DEF HistoryTypes
<1> QED BY <1>1, <1>3, <1>5, <1>6, LocalsKeep

(* The end of _runKernelOnNode. *)
LEMMA LeaveKeeps ==
  ASSUME IInv, NEW l \in Lists, LeaveNode(l)
  PROVE  IInv'
<1> DEFINE o == op[l]
           c == o.currentNode
           x == op'[l]
<1>1. /\ op[l].pc = "visit" /\ UNCHANGED <<mem, phase, kernel, owed, visits>>
      /\ op' = [op EXCEPT ![l].pc = "walk",
                      ![l].elementsDone = ElementsDone(l),
                      ![l].i = 0, ![l].originalElements = 0,
                      ![l].currentNode = mem.node[op[l].currentNode].next]
  BY DEF LeaveNode
<1>2. /\ phase = "kernel" /\ o \in OpRecord /\ OpPlace(mem, l, o)
      /\ o.cleaning = NULL /\ o.elem = NULL
      /\ op = [k \in Lists |-> op[k]] /\ HistoryTypes
      /\ MemInv(mem) /\ mem \in Mem /\ mem.heap \subseteq Nodes
  BY <1>1, InKernel
<1>3. /\ op' = [k \in Lists |-> op'[k]]
      /\ \A k \in Lists \ {l} : op'[k] = op[k]
      /\ x = [o EXCEPT !.pc = "walk", !.elementsDone = ElementsDone(l), !.i = 0,
                       !.originalElements = 0, !.currentNode = mem.node[c].next]
  BY <1>1, <1>2
<1>4. c \in Own(mem, l) /\ c \in Nodes
  BY <1>1, <1>2 DEF OpPlace, Own
<1>5. /\ mem.node[c].next \in Ptr
      /\ mem.node[c].next = NULL \/ mem.node[c].next \in Own(mem, l)
  BY <1>2, <1>4, MemTypes DEF MemInv, ShapeInv, LinksInv
<1>6. ElementsDone(l) \in Nat
  BY <1>2 DEF ElementsDone, OpRecord
<1> HIDE DEF o, x, c
<1>7. /\ x \in OpRecord /\ x.pc = "walk" /\ x.cleaning = NULL /\ x.elem = NULL
      /\ x.currentNode = mem.node[c].next
  BY <1>2, <1>3, <1>5, <1>6 DEF OpRecord, Pcs
<1>8. OpControl(phase, x) /\ OpPlace(mem, l, x)
  BY <1>2, <1>5, <1>7 DEF OpControl, OpPlace
<1>9. HistoryTypes'
  BY <1>1, <1>2 DEF HistoryTypes
<1> QED BY Zenon, <1>1, <1>3, <1>7, <1>8, <1>9, LocalsKeep DEF x

-----------------------------------------------------------------------------
(* pufree. *)

(* A call of pufree, in a kernel or outside, keeps the memory and disturbs *)
(* no other list.                                                          *)
LEMMA PufreeKeeps ==
  ASSUME IInv, NEW n \in mem.heap, NEW s \in Slots, mem.node[n].slot[s] # NULL,
         NEW l \in Lists, l = mem.node[n].threadList, op[l].pc # "cleanup",
         mem' = FreeElementOnNode(mem, n, s),
         \A k \in Lists \ {l} : op'[k] = op[k],
         op'[l].cleaning = NULL, op'[l].elem = NULL
  PROVE  /\ MemInv(mem') /\ Elsewhere(mem, mem', l) /\ PackedInv' /\ ElemInv'
         /\ FreeFrame(mem, mem', n)
<1> DEFINE r == mem'
           e == mem.node[n].slot[s]
<1>1. MemInv(mem) /\ OpsInv /\ ElemInv /\ PackedInv /\ NULL \notin mem.heap
  BY ConstantsAssumption, MemTypes DEF IInv, MemInv
<1>2. op[l].elem = NULL /\ op[l].cleaning = NULL
  BY <1>1 DEF OpsInv, OpControl
<1>3. r = FreeElementOnNode(mem, n, s) /\ mem.node[n].slot[s] = e /\ e # NULL
  OBVIOUS
<1> HIDE DEF r, e
<1>4. /\ MemInv(r) /\ Elsewhere(mem, r, mem.node[n].threadList)
      /\ FreeFrame(mem, r, n) /\ n \in r.heap
      /\ Taken(r.node[n]) = Taken(mem.node[n]) \ {s}
      /\ HeldBy(r, r.heap) = HeldBy(mem, mem.heap) \ {e}
  <2>1. MemInv(mem)
    BY <1>1
  <2>2. mem.node[n].slot[s] = e
    BY <1>3
  <2>3. e # NULL
    BY <1>3
  <2>4. r = FreeElementOnNode(mem, n, s)
    BY <1>3
  <2> QED BY SMTT(60), <2>1, <2>2, <2>3, <2>4, FreeKeeps
<1>5. \A k \in Lists : op'[k].elem = op[k].elem
  BY <1>2
<1>6. ElemInv'
  BY <1>1, <1>4, <1>5, ElemKeeps DEF r
<1>7. PackedInv'
  <2> SUFFICES ASSUME NEW z \in r.heap, \A j \in Lists : op'[j].cleaning # z
               PROVE  PackedNode(r.node[z])
    BY DEF PackedInv, r
  <2>1. z \in mem.heap /\ r.node[z].firstKnownFree = mem.node[z].firstKnownFree
    BY <1>4 DEF FreeFrame
  <2>2. \A j \in Lists : op[j].cleaning # z
    BY <1>1, <1>2, <2>1
  <2>3. PackedNode(mem.node[z])
    BY <1>1, <2>1, <2>2 DEF PackedInv
  <2>4. CASE z = n
    <3>1. r.node[n].dirty = TRUE
      BY <1>4 DEF FreeFrame
    <3> QED BY <1>4, <2>1, <2>3, <2>4, <3>1 DEF PackedNode
  <2>5. CASE z # n
    <3>1. /\ r.node[z].slot = mem.node[z].slot
          /\ r.node[z].dirty = mem.node[z].dirty
          /\ r.node[z].numElements = mem.node[z].numElements
      BY <1>4, <2>5 DEF FreeFrame
    <3> QED BY <2>1, <2>3, <3>1 DEF PackedNode, Taken
  <2> QED BY <2>4, <2>5
<1>8. Elsewhere(mem, r, l)
  BY <1>4
<1> QED BY <1>4, <1>6, <1>7, <1>8 DEF r

(* pufree outside a kernel. *)
LEMMA ClientFreeKeeps ==
  ASSUME IInv, NEW n \in Nodes, NEW s \in Slots, Pufree(n, s)
  PROVE  IInv'
<1> DEFINE l == mem.node[n].threadList
<1>1. /\ n \in mem.heap /\ mem.node[n].slot[s] # NULL /\ op[l].pc = "idle"
      /\ phase = "client" /\ mem' = FreeElementOnNode(mem, n, s)
      /\ UNCHANGED <<op, phase, kernel, owed, visits>>
  BY DEF Pufree
<1>2. MemInv(mem) /\ OpsInv /\ HistoryTypes /\ l \in Lists
  BY <1>1, MemTypes DEF IInv, MemInv
<1>3. op[l] = IdleOp /\ op = [k \in Lists |-> op[k]]
  BY <1>1, <1>2 DEF OpsInv, OpControl
<1>4. op'[l] = IdleOp /\ op'[l].cleaning = NULL /\ op'[l].elem = NULL
  BY <1>1, <1>3, IdleIs
<1>10. l = mem.node[n].threadList
  OBVIOUS
<1> HIDE DEF l
<1>5. op[l].pc # "cleanup" /\ \A k \in Lists \ {l} : op'[k] = op[k]
  BY <1>1, <1>10
<1>6. MemInv(mem') /\ Elsewhere(mem, mem', l) /\ PackedInv' /\ ElemInv'
  BY <1>1, <1>2, <1>4, <1>5, <1>10, PufreeKeeps
<1>7. OpsInv'
  <2>1. OpControl(phase, op'[l]) /\ OpPlace(mem', l, op'[l])
    BY <1>1, <1>4, IdleFits
  <2>2. op' = [k \in Lists |-> op'[k]] /\ phase' = phase
    BY <1>1, <1>3
  <2> QED BY <1>2, <1>5, <1>6, <2>1, <2>2, OpsKeep
<1>8. HistoryTypes'
  BY <1>1, <1>2 DEF HistoryTypes
<1> QED BY <1>6, <1>7, <1>8 DEF IInv

(* pufree from a kernel, of any element of the thread's list: the chunk that *)
(* the kernel runs over stays where it is.                                  *)
LEMMA KernelFreeKeeps ==
  ASSUME IInv, NEW l \in Lists, NEW n \in Nodes, NEW s \in Slots,
         KernelFree(l, n, s)
  PROVE  IInv'
<1> DEFINE c == op[l].currentNode
<1>1. /\ op[l].pc = "visit" /\ mem.node[c].slot[op[l].i] # NULL /\ op[l].i < Capacity
      /\ n \in mem.heap /\ mem.node[n].threadList = l /\ mem.node[n].slot[s] # NULL
      /\ mem' = FreeElementOnNode(mem, n, s)
      /\ op' = [op EXCEPT ![l] = NextSlot(l)]
      /\ owed' = owed \ {mem.node[n].slot[s]}
      /\ visits' = Count(Visited(l))
      /\ UNCHANGED <<phase, kernel>>
  BY DEF KernelFree, VisitsNext
<1>2. /\ phase = "kernel" /\ op[l] \in OpRecord /\ OpPlace(mem, l, op[l])
      /\ op[l].cleaning = NULL /\ op[l].elem = NULL
      /\ op = [k \in Lists |-> op[k]] /\ HistoryTypes /\ MemInv(mem) /\ OpsInv
  BY <1>1, InKernel DEF IInv
<1>3. /\ op' = [k \in Lists |-> op'[k]]
      /\ \A k \in Lists \ {l} : op'[k] = op[k]
      /\ op'[l] = NextSlot(l)
  BY <1>1, <1>2
<1>4. NextSlot(l).cleaning = NULL /\ NextSlot(l).elem = NULL
  BY <1>2 DEF NextSlot, OpRecord
<1>5. c \in Own(mem, l) /\ c \in mem.heap /\ mem.node[c].threadList = l
  BY <1>1, <1>2 DEF OpPlace, Own
<1>6. mem.node[c].active
  <2>1. op[l].i \in Slots
    BY <1>1, <1>2, ConstantsAssumption DEF OpRecord, Slots
  <2>2. Taken(mem.node[c]) # {}
    BY <1>1, <2>1 DEF Taken
  <2> QED BY <1>2, <1>5, <2>2 DEF MemInv, FillInv
<1>7. op[l].pc # "cleanup" /\ op'[l].cleaning = NULL /\ op'[l].elem = NULL
  BY <1>1, <1>3, <1>4
<1> HIDE DEF c
<1>8. /\ MemInv(mem') /\ Elsewhere(mem, mem', l) /\ PackedInv' /\ ElemInv'
      /\ FreeFrame(mem, mem', n)
  BY <1>1, <1>3, <1>7, PufreeKeeps
<1>9. c \in Own(mem', l)
  BY <1>5, <1>6, <1>8 DEF FreeFrame, Own
<1>10. OpControl(phase, op'[l]) /\ OpPlace(mem', l, op'[l])
  BY <1>1, <1>2, <1>3, <1>9, NextSlotOp DEF c
<1>11. OpsInv'
  BY <1>1, <1>2, <1>3, <1>8, <1>10, OpsKeep
<1>12. HistoryTypes'
  BY <1>1, <1>2, CountTypes DEF HistoryTypes
<1> QED BY <1>8, <1>11, <1>12 DEF IInv

-----------------------------------------------------------------------------
(* pumalloc. *)

(* The locals of an allocation that waits for a compaction. *)
LEMMA StartedOp ==
  ASSUME NEW l \in Lists, op[l] \in OpRecord, MemInv(mem'), NEW e \in Elems,
         NEW after \in {"alloc", "kernelAlloc"}, AllocStarted(l, e, after)
  PROVE  /\ op'[l] \in OpRecord /\ op'[l].pc = "cleanup"
         /\ op'[l].after = after /\ op'[l].elem = e
         /\ op'[l].currentNode = op[l].currentNode
         /\ CleanInv(mem', l, op'[l].cleaning)
         /\ AllocInv(mem', l, op'[l].cleaning)
<1>1. PICK t : /\ op'[l] = [op[l] EXCEPT !.pc = "cleanup", !.cleaning = t,
                                         !.after = after, !.elem = e]
               /\ CleanInv(mem', l, t) /\ AllocInv(mem', l, t)
  BY DEF AllocStarted
<1> DEFINE r == mem'
           x == op'[l]
<1>2. x = [op[l] EXCEPT !.pc = "cleanup", !.cleaning = t,
                        !.after = after, !.elem = e]
  BY <1>1
<1>3. CleanInv(r, l, t) /\ AllocInv(r, l, t) /\ MemInv(r)
  BY <1>1
<1> HIDE DEF r, x
<1>4. t \in Nodes
  <2>1. r \in Mem
    BY <1>3 DEF MemInv
  <2> QED BY <1>3, <2>1, MemTypes DEF CleanInv, Own
<1>5. /\ x \in OpRecord /\ x.pc = "cleanup" /\ x.cleaning = t
      /\ x.after = after /\ x.elem = e /\ x.currentNode = op[l].currentNode
  BY <1>2, <1>4 DEF OpRecord, Pcs, Ptr
<1> QED BY <1>3, <1>5 DEF r, x

(* A new element is not NULL. *)
LEMMA FreshElem ==
  ASSUME NEW e \in Fresh
  PROVE  e \in Elems
BY DEF Fresh

(* pumalloc outside a kernel. *)
LEMMA ClientAllocKeeps ==
  ASSUME IInv, AllowDrainedTail = FALSE, NEW l \in Lists, NEW e \in Fresh,
         Pumalloc(l, e)
  PROVE  IInv'
<1>1. /\ phase = "client" /\ op[l].pc = "idle"
      /\ PumallocOnThreadList(l, e, "alloc", IdleOp)
      /\ UNCHANGED <<phase, kernel, owed, visits>>
  BY DEF Pumalloc
<1>2. MemInv(mem) /\ OpsInv /\ HistoryTypes
  BY DEF IInv
<1>3. /\ op[l].pc # "cleanup" /\ op[l] \in OpRecord
      /\ IdleOp.cleaning = NULL /\ IdleOp.elem = NULL
  BY <1>1, <1>2, IdleIs DEF OpsInv, OpControl
<1>4. /\ MemInv(mem') /\ PackedInv' /\ ElemInv' /\ AllocFrame(l)
      /\ op'[l] = IdleOp \/ AllocStarted(l, e, "alloc")
  BY <1>1, <1>3, PumallocKeeps
<1>5. OpControl(phase, op'[l]) /\ OpPlace(mem', l, op'[l])
  <2>1. CASE op'[l] = IdleOp
    BY <1>1, <2>1, IdleFits
  <2>2. CASE AllocStarted(l, e, "alloc")
    <3>1. e \in Elems /\ "alloc" \in {"alloc", "kernelAlloc"}
      BY FreshElem
    <3>2. /\ op'[l] \in OpRecord /\ op'[l].pc = "cleanup"
          /\ op'[l].after = "alloc" /\ op'[l].elem = e
          /\ CleanInv(mem', l, op'[l].cleaning)
          /\ AllocInv(mem', l, op'[l].cleaning)
      BY <1>3, <1>4, <2>2, <3>1, StartedOp
    <3> QED BY <1>1, <3>1, <3>2 DEF OpControl, OpPlace
  <2> QED BY <1>4, <2>1, <2>2
<1>6. OpsInv'
  <2>1. /\ Elsewhere(mem, mem', l) /\ op' = [k \in Lists |-> op'[k]]
        /\ \A k \in Lists \ {l} : op'[k] = op[k]
    BY <1>4 DEF AllocFrame
  <2>2. phase' = phase
    BY <1>1
  <2> QED BY <1>2, <1>5, <2>1, <2>2, OpsKeep
<1>7. HistoryTypes'
  BY <1>1, <1>2 DEF HistoryTypes
<1> QED BY <1>4, <1>6, <1>7 DEF IInv

(* pumalloc from a kernel: the chunk it runs over keeps its elements. *)
LEMMA KernelAllocKeeps ==
  ASSUME IInv, AllowDrainedTail = FALSE, NEW l \in Lists, NEW e \in Fresh,
         KernelAlloc(l, e)
  PROVE  IInv'
<1> DEFINE c == op[l].currentNode
<1>1. /\ op[l].pc = "visit" /\ mem.node[c].slot[op[l].i] # NULL /\ op[l].i < Capacity
      /\ PumallocOnThreadList(l, e, "kernelAlloc", NextSlot(l))
      /\ visits' = Count(Visited(l))
      /\ UNCHANGED <<phase, kernel, owed>>
  BY DEF KernelAlloc, VisitsNext
<1>2. /\ phase = "kernel" /\ op[l] \in OpRecord /\ OpPlace(mem, l, op[l])
      /\ op[l].cleaning = NULL /\ op[l].elem = NULL
      /\ op = [k \in Lists |-> op[k]] /\ HistoryTypes /\ MemInv(mem) /\ OpsInv
  BY <1>1, InKernel DEF IInv
<1>3. op[l].pc # "cleanup" /\ NextSlot(l).cleaning = NULL /\ NextSlot(l).elem = NULL
  BY <1>1, <1>2 DEF NextSlot, OpRecord
<1>4. /\ MemInv(mem') /\ PackedInv' /\ ElemInv' /\ AllocFrame(l)
      /\ op'[l] = NextSlot(l) \/ AllocStarted(l, e, "kernelAlloc")
  BY <1>1, <1>3, PumallocKeeps
<1>5. c \in Own(mem, l) /\ Taken(mem.node[c]) # {}
  <2>1. op[l].i \in Slots
    BY <1>1, <1>2, ConstantsAssumption DEF OpRecord, Slots
  <2> QED BY <1>1, <1>2, <2>1 DEF OpPlace, Taken
<1>6. c = op[l].currentNode
  OBVIOUS
<1> HIDE DEF c
<1>7. /\ Elsewhere(mem, mem', l) /\ op' = [k \in Lists |-> op'[k]]
      /\ \A k \in Lists \ {l} : op'[k] = op[k]
      /\ c \in Own(mem', l) /\ Taken(mem'.node[c]) # {}
  BY <1>4, <1>5 DEF AllocFrame
<1>8. OpControl(phase, op'[l]) /\ OpPlace(mem', l, op'[l])
  <2>1. CASE op'[l] = NextSlot(l)
    BY <1>1, <1>2, <1>6, <1>7, <2>1, NextSlotOp
  <2>2. CASE AllocStarted(l, e, "kernelAlloc")
    <3>1. e \in Elems /\ "kernelAlloc" \in {"alloc", "kernelAlloc"}
      BY FreshElem
    <3>2. /\ op'[l] \in OpRecord /\ op'[l].pc = "cleanup"
          /\ op'[l].after = "kernelAlloc" /\ op'[l].elem = e
          /\ op'[l].currentNode = c
          /\ CleanInv(mem', l, op'[l].cleaning)
          /\ AllocInv(mem', l, op'[l].cleaning)
      BY <1>2, <1>4, <1>6, <2>2, <3>1, StartedOp
    <3> QED BY <1>2, <1>7, <3>1, <3>2 DEF OpControl, OpPlace
  <2> QED BY <1>4, <2>1, <2>2
<1>9. OpsInv'
  <2>1. phase' = phase
    BY <1>1
  <2> QED BY <1>2, <1>7, <1>8, <2>1, OpsKeep
<1>10. HistoryTypes'
  BY <1>1, <1>2, CountTypes DEF HistoryTypes
<1> QED BY <1>4, <1>9, <1>10 DEF IInv

-----------------------------------------------------------------------------
(* The set's owner. *)

(* A step of the owner that leaves the lists alone and every call at rest.  *)
LEMMA OwnerKeeps ==
  ASSUME IInv, mem' = mem, HistoryTypes',
         op' = [k \in Lists |-> op'[k]],
         \A k \in Lists : /\ OpControl(phase', op'[k]) /\ OpPlace(mem, k, op'[k])
                          /\ op[k].pc # "cleanup" /\ op'[k].elem = NULL
  PROVE  IInv'
<1>1. MemInv(mem) /\ OpsInv /\ ElemInv /\ PackedInv /\ NULL \notin mem.heap
  BY ConstantsAssumption, MemTypes DEF IInv, MemInv
<1>2. \A k \in Lists : op[k].cleaning = NULL
  BY <1>1 DEF OpsInv, OpControl
<1>3. OpsInv'
  BY DEF OpsInv
<1>4. ElemInv'
  BY DEF ElemInv
<1>5. PackedInv'
  <2> SUFFICES ASSUME NEW z \in mem.heap PROVE PackedNode(mem.node[z])
    BY DEF PackedInv
  <2> QED BY <1>1, <1>2 DEF PackedInv
<1>6. MemInv(mem')
  BY <1>1
<1> QED BY <1>3, <1>4, <1>5, <1>6 DEF IInv

(* runKernelList begins. *)
LEMMA RunKeeps ==
  ASSUME IInv, RunKernel
  PROVE  IInv'
<1>1. /\ \A l \in Lists : op[l].pc = "idle"
      /\ phase' = "balance" /\ UNCHANGED <<mem, op, kernel, owed, visits>>
  BY DEF RunKernel
<1>2. OpsInv /\ HistoryTypes
  BY DEF IInv
<1>3. ASSUME NEW k \in Lists
      PROVE  /\ OpControl(phase', op'[k]) /\ OpPlace(mem, k, op'[k])
             /\ op[k].pc # "cleanup" /\ op'[k].elem = NULL
  <2>1. op[k] = IdleOp /\ op'[k] = IdleOp
    BY <1>1, <1>2 DEF OpsInv, OpControl
  <2> QED BY <1>1, <2>1, IdleFits, IdleIs
<1>4. HistoryTypes'
  BY <1>1, <1>2 DEF HistoryTypes
<1>5. op' = [k \in Lists |-> op'[k]] /\ mem' = mem
  BY <1>1, <1>2 DEF OpsInv
<1> QED BY <1>3, <1>4, <1>5, OwnerKeeps

(* The kernel is handed to the pool. *)
LEMMA StartKeeps ==
  ASSUME IInv, NEW k \in Kernels, StartKernel(k)
  PROVE  IInv'
<1>1. /\ phase = "balance" /\ phase' = "kernel" /\ kernel' = k
      /\ owed' = Live /\ visits' = [e \in Elems |-> 0] /\ mem' = mem
      /\ op' = [l \in Lists |->
              [IdleOp EXCEPT !.pc = "walk",
                             !.currentNode = mem.list[l].head,
                             !.initNumElements = mem.list[l].numElements]]
  BY DEF StartKernel
<1>2. OpsInv /\ HistoryTypes /\ MemInv(mem) /\ mem \in Mem
  BY DEF IInv, MemInv
<1>3. ASSUME NEW l \in Lists
      PROVE  /\ OpControl(phase', op'[l]) /\ OpPlace(mem, l, op'[l])
             /\ op[l].pc # "cleanup" /\ op'[l].elem = NULL
  <2> DEFINE x == op'[l]
             h == mem.list[l].head
             num == mem.list[l].numElements
  <2>1. x = [IdleOp EXCEPT !.pc = "walk", !.currentNode = h, !.initNumElements = num]
    BY <1>1
  <2>2. h \in Ptr /\ num \in Nat /\ (h = NULL \/ h \in Own(mem, l))
    BY <1>2, MemTypes DEF MemInv, ShapeInv, EndsInv
  <2> HIDE DEF x, h, num
  <2>3. /\ x \in OpRecord /\ x.pc = "walk" /\ x.cleaning = NULL /\ x.elem = NULL
        /\ x.currentNode = h
    BY <2>1, <2>2, IdleIs DEF IdleOp, OpRecord, Pcs, Ptr
  <2>4. OpControl("kernel", x) /\ OpPlace(mem, l, x)
    BY <2>2, <2>3 DEF OpControl, OpPlace
  <2>5. op[l].pc # "cleanup"
    BY <1>1, <1>2 DEF OpsInv, OpControl
  <2> QED BY <1>1, <2>3, <2>4, <2>5 DEF x
<1>4. HistoryTypes'
  <2>1. Live \subseteq Elems
    <3> SUFFICES ASSUME NEW e \in HeldBy(mem, mem.heap) PROVE e \in Elems
      BY LiveIs
    <3>1. PICK n \in mem.heap, s \in Slots : mem.node[n].slot[s] = e /\ e # NULL
      BY HeldMember
    <3>2. n \in Nodes
      BY <1>2, MemTypes
    <3>3. mem.node[n].slot[s] \in Elems \cup {NULL}
      BY <1>2, <3>2, MemTypes
    <3> QED BY <3>1, <3>3
  <2> QED BY <1>1, <2>1 DEF HistoryTypes
<1>5. op' = [l \in Lists |-> op'[l]]
  BY <1>1
<1> QED BY <1>1, <1>3, <1>4, <1>5, OwnerKeeps

(* All threads are done. *)
LEMMA ReturnKeeps ==
  ASSUME IInv, KernelReturns
  PROVE  IInv'
<1>1. /\ phase' = "client" /\ kernel' = {} /\ owed' = {} /\ mem' = mem
      /\ visits' = [e \in Elems |-> 0]
      /\ op' = [l \in Lists |-> IdleOp]
      /\ \A l \in Lists : op[l].pc = "done"
  BY DEF KernelReturns
<1>2. ASSUME NEW l \in Lists
      PROVE  /\ OpControl(phase', op'[l]) /\ OpPlace(mem, l, op'[l])
             /\ op[l].pc # "cleanup" /\ op'[l].elem = NULL
  BY <1>1, IdleFits, IdleIs
<1>3. HistoryTypes'
  BY <1>1 DEF HistoryTypes
<1>4. op' = [l \in Lists |-> op'[l]]
  BY <1>1
<1> QED BY <1>1, <1>2, <1>3, <1>4, OwnerKeeps

(* createPumaSet. *)
LEMMA CreateKeeps ==
  ASSUME IInv, CreatePumaSet
  PROVE  IInv'
<1>1. /\ phase = "destroyed" /\ phase' = "client"
      /\ UNCHANGED <<mem, op, kernel, owed, visits>>
  BY DEF CreatePumaSet
<1>2. OpsInv /\ HistoryTypes
  BY DEF IInv
<1>3. ASSUME NEW l \in Lists
      PROVE  /\ OpControl(phase', op'[l]) /\ OpPlace(mem, l, op'[l])
             /\ op[l].pc # "cleanup" /\ op'[l].elem = NULL
  <2>1. op[l] = IdleOp /\ op'[l] = IdleOp
    BY <1>1, <1>2 DEF OpsInv, OpControl
  <2> QED BY <1>1, <2>1, IdleFits, IdleIs
<1>4. HistoryTypes'
  BY <1>1, <1>2 DEF HistoryTypes
<1>5. op' = [l \in Lists |-> op'[l]]
  BY <1>1, <1>2 DEF OpsInv
<1> QED BY <1>1, <1>3, <1>4, <1>5, OwnerKeeps

(* The set as createPumaSet leaves it. *)
LEMMA InitInv == Init => IInv
<1> SUFFICES ASSUME Init PROVE IInv
  OBVIOUS
<1>1. /\ mem.heap = {} /\ mem.list = [l \in Lists |-> EmptyList]
      /\ mem.node = [n \in Nodes |-> BlankNode]
      /\ mem = [heap |-> {}, node |-> [n \in Nodes |-> BlankNode],
                list |-> [l \in Lists |-> EmptyList]]
      /\ op = [l \in Lists |-> IdleOp] /\ phase = "client" /\ kernel = {}
      /\ owed = {} /\ visits = [e \in Elems |-> 0]
  BY DEF Init
<1>2. MemInv(mem)
  <2>1. mem \in Mem
    <3>1. EmptyList \in ListRecord
      BY DEF EmptyList, ListRecord, Ptr
    <3>2. BlankNode \in NodeRecord
      <4>1. PICK l \in Lists : TRUE
        BY ConstantsAssumption
      <4> QED BY <4>1, BlankTypes, NodeIntro
    <3> QED BY <1>1, <3>1, <3>2 DEF Mem
  <2>2. \A l : Own(mem, l) = {}
    BY <1>1 DEF Own
  <2>3. ASSUME NEW l \in Lists PROVE ShapeInv(mem, l)
    <3>1. mem.list[l].head = NULL /\ mem.list[l].tail = NULL /\ mem.list[l].numNodes = 0
      BY <1>1 DEF EmptyList
    <3> QED BY <2>2, <3>1 DEF ShapeInv, LinksInv, ActiveInv, IndexInv, EndsInv
  <2>4. FillInv(mem) /\ StoredOnce(mem)
    BY <1>1 DEF FillInv, StoredOnce
  <2>5. CountInv(mem)
    <3> SUFFICES ASSUME NEW l \in Lists
                 PROVE  mem.list[l].numElements = Cardinality(HeldBy(mem, Own(mem, l)))
      BY DEF CountInv
    <3>1. mem.list[l].numElements = 0
      BY <1>1 DEF EmptyList
    <3>2. HeldBy(mem, Own(mem, l)) = {}
      BY <2>2 DEF HeldBy
    <3> QED BY <3>1, <3>2, FS_EmptySet
  <2> QED BY <2>1, <2>3, <2>4, <2>5 DEF MemInv
<1>3. OpsInv
  <2>1. \A l \in Lists : op[l] = IdleOp
    BY <1>1
  <2>2. op = [l \in Lists |-> op[l]] /\ phase # "kernel"
    BY <1>1
  <2> QED BY <2>1, <2>2, IdleFits DEF OpsInv
<1>4. ElemInv
  BY <1>1, IdleIs DEF ElemInv
<1>5. PackedInv
  BY <1>1 DEF PackedInv
<1>6. HistoryTypes
  BY <1>1 DEF HistoryTypes
<1> QED BY <1>2, <1>3, <1>4, <1>5, <1>6 DEF IInv

(* A step of the owner while every call is at rest. *)
LEMMA AtRestKeeps ==
  ASSUME IInv, MemInv(mem'), HistoryTypes', phase' # "kernel",
         \A l \in Lists : op[l].pc = "idle", op' = op, mem'.heap \subseteq mem.heap,
         \A z \in mem'.heap : PackedNode(mem.node[z]) => PackedNode(mem'.node[z])
  PROVE  IInv'
<1>1. MemInv(mem) /\ OpsInv /\ ElemInv /\ PackedInv /\ NULL \notin mem.heap
  BY ConstantsAssumption, MemTypes DEF IInv, MemInv
<1>2. \A l \in Lists : op[l] = IdleOp
  BY <1>1 DEF OpsInv, OpControl
<1>3. OpsInv'
  <2>1. op' = [l \in Lists |-> op'[l]]
    BY <1>1 DEF OpsInv
  <2>2. \A l \in Lists : OpControl(phase', IdleOp) /\ OpPlace(mem', l, IdleOp)
    BY IdleFits
  <2>3. \A l \in Lists : op'[l] = IdleOp
    BY <1>2
  <2> QED BY <2>1, <2>2, <2>3 DEF OpsInv
<1>4. ElemInv'
  BY <1>2, IdleIs DEF ElemInv
<1>5. PackedInv'
  <2> SUFFICES ASSUME NEW z \in mem'.heap PROVE PackedNode(mem'.node[z])
    BY DEF PackedInv
  <2>1. \A l \in Lists : op[l].cleaning = NULL
    BY <1>2, IdleIs
  <2> QED BY <1>1, <2>1 DEF PackedInv
<1> QED BY <1>3, <1>4, <1>5 DEF IInv

(* _transferNNodes, called by the balancer. *)
LEMMA TransferKeeps ==
  ASSUME IInv, NEW k \in Nat, NEW from \in Lists, NEW to \in Lists, Transfer(k, from, to)
  PROVE  IInv'
<1>1. /\ phase = "balance" /\ from # to /\ k > 0 /\ mem.list[from].numNodes >= k
      /\ mem' = TransferNNodes(mem, k, from, to)
      /\ UNCHANGED <<op, phase, kernel, owed, visits>>
  BY DEF Transfer
<1>2. MemInv(mem) /\ OpsInv /\ HistoryTypes /\ mem \in Mem /\ mem.heap \subseteq Nodes
  BY MemTypes DEF IInv, MemInv
<1>3. PICK d \in Nat : d + k = mem.list[from].numNodes
  <2>1. mem.list[from].numNodes \in Nat
    BY <1>2, MemTypes
  <2>2. mem.list[from].numNodes - k \in Nat
        /\ (mem.list[from].numNodes - k) + k = mem.list[from].numNodes
    BY <1>1, <2>1
  <2> QED BY <2>2
<1>4. k \in Nat \ {0}
  BY <1>1
<1>5. PICK r : r = mem'
  OBVIOUS
<1>6. r = TransferNNodes(mem, k, from, to)
  BY <1>1, <1>5
<1>7. PICK b : b = mem.list[to].numNodes
  OBVIOUS
<1>8. \E s, e, f, x, t, y :
        Transferred(mem, r, from, to, k, d, mem.list[to].numNodes, s, e, f, x, t, y)
  BY <1>1, <1>2, <1>3, <1>4, <1>6, TransferFields
<1>9. PICK s, e, f, x, t, y : Transferred(mem, r, from, to, k, d, b, s, e, f, x, t, y)
  BY <1>7, <1>8
<1>10. \A l \in Lists : ShapeInv(r, l)
  BY <1>1, <1>2, <1>3, <1>7, <1>9, TransferShape
<1>11. FillInv(r) /\ StoredOnce(r) /\ CountInv(r)
  BY <1>1, <1>2, <1>9, TransferCount
<1>12. MovedNodes(mem, r, LastOnes(mem, from, d), d, b, to, x, t)
  BY <1>9 DEF Transferred
<1>13. MemInv(r)
  BY <1>10, <1>11, <1>12 DEF MemInv, MovedNodes
<1>14. r.heap = mem.heap
  BY <1>12 DEF MovedNodes
<1>15. ASSUME NEW z \in r.heap, PackedNode(mem.node[z]) PROVE PackedNode(r.node[z])
  <2>1. /\ r.node[z].slot = mem.node[z].slot
        /\ r.node[z].numElements = mem.node[z].numElements
        /\ r.node[z].firstKnownFree = mem.node[z].firstKnownFree
        /\ mem.node[z].dirty => r.node[z].dirty
    BY <1>2, <1>12, <1>14 DEF MovedNodes
  <2>2. Taken(r.node[z]) = Taken(mem.node[z])
    BY <2>1 DEF Taken
  <2> QED BY <1>15, <2>1, <2>2 DEF PackedNode
<1>16. \A l \in Lists : op[l].pc = "idle"
  BY <1>1, <1>2 DEF OpsInv, OpControl
<1>17. HistoryTypes' /\ phase' # "kernel"
  BY <1>1, <1>2 DEF HistoryTypes
<1>18. /\ MemInv(mem') /\ mem'.heap \subseteq mem.heap
       /\ \A z \in mem'.heap : PackedNode(mem.node[z]) => PackedNode(mem'.node[z])
  BY <1>5, <1>13, <1>14, <1>15
<1> QED BY <1>1, <1>16, <1>17, <1>18, AtRestKeeps

-----------------------------------------------------------------------------
(* The walk from a list's head. *)

NextOf(m, z) == IF z = NULL THEN NULL ELSE m.node[z].next

IsChain(at, m, l, n) ==
  at = [i \in 0..n |-> IF i = 0 THEN m.list[l].head
                       ELSE IF at[i - 1] = NULL THEN NULL ELSE m.node[at[i - 1]].next]

(* The recursion of ChainAt has a solution. *)
LEMMA ChainExists ==
  ASSUME NEW m, NEW l, NEW n \in Nat
  PROVE  \E at : IsChain(at, m, l, n)
<1> DEFINE P == {i \in Nat : \E at : IsChain(at, m, l, i)}
<1>1. 0 \in P
  <2> DEFINE a == [i \in 0..0 |-> m.list[l].head]
  <2>1. IsChain(a, m, l, 0)
    BY DEF IsChain
  <2> QED BY <2>1
<1>2. ASSUME NEW i \in Nat, i \in P PROVE i + 1 \in P
  <2>1. PICK a : IsChain(a, m, l, i)
    BY <1>2
  <2> DEFINE c == [j \in 0..(i + 1) |-> IF j = i + 1 THEN NextOf(m, a[i]) ELSE a[j]]
  <2>2. ASSUME NEW j \in 0..(i + 1), j # 0 PROVE c[j - 1] = a[j - 1]
    BY <2>2
  <2>3. ASSUME NEW j \in 0..i
        PROVE  a[j] = IF j = 0 THEN m.list[l].head
                      ELSE IF a[j - 1] = NULL THEN NULL ELSE m.node[a[j - 1]].next
    BY <2>1 DEF IsChain
  <2>4. ASSUME NEW j \in 0..(i + 1)
        PROVE  c[j] = IF j = 0 THEN m.list[l].head
                      ELSE IF c[j - 1] = NULL THEN NULL ELSE m.node[c[j - 1]].next
    <3>1. CASE j = i + 1
      <4>1. c[j] = NextOf(m, a[i]) /\ j - 1 = i /\ j # 0
        BY <3>1
      <4>2. c[j - 1] = a[i]
        BY <2>2, <4>1
      <4> HIDE DEF c
      <4> QED BY <4>1, <4>2 DEF NextOf
    <3>2. CASE j # i + 1
      <4>1. j \in 0..i /\ c[j] = a[j]
        BY <3>2
      <4> HIDE DEF c
      <4> QED BY <2>2, <2>3, <4>1
    <3> QED BY <3>1, <3>2
  <2>5. c = [j \in 0..(i + 1) |-> c[j]]
    OBVIOUS
  <2> HIDE DEF c
  <2>6. IsChain(c, m, l, i + 1)
    BY <2>4, <2>5 DEF IsChain
  <2> QED BY <2>6
<1> HIDE DEF P
<1>3. \A i \in Nat : i \in P
  BY <1>1, <1>2, NumberInduction
<1> QED BY <1>3 DEF P

(* What the walk meets first, and what follows. *)
Walk(at, m, l) ==
  /\ at[0] = m.list[l].head
  /\ \A i \in Nat : i < Cardinality(Nodes) => at[i + 1] = NextOf(m, at[i])

(* Chain is a walk along next of as many steps as there are chunks.        *)
LEMMA ChainWalks ==
  ASSUME NEW m, NEW l
  PROVE  Walk(ChainAt(m, l), m, l) /\ Cardinality(Nodes) \in Nat
<1> DEFINE C == Cardinality(Nodes)
<1>1. C \in Nat
  BY ConstantsAssumption, FS_CardinalityType
<1> HIDE DEF C
<1>2. \E at : IsChain(at, m, l, C)
  BY <1>1, ChainExists
<1>3. ChainAt(m, l) = CHOOSE at : IsChain(at, m, l, C)
  BY DEF ChainAt, IsChain, C
<1>4. PICK at : at = ChainAt(m, l)
  OBVIOUS
<1>5. IsChain(at, m, l, C)
  BY <1>2, <1>3, <1>4
<1>6. at[0] = m.list[l].head
  BY <1>1, <1>5 DEF IsChain
<1>7. ASSUME NEW i \in Nat, i < C PROVE at[i + 1] = NextOf(m, at[i])
  <2>1. i + 1 \in 0..C /\ i + 1 # 0 /\ (i + 1) - 1 = i
    BY <1>1, <1>7
  <2>2. at[i + 1] = IF at[(i + 1) - 1] = NULL THEN NULL ELSE m.node[at[(i + 1) - 1]].next
    BY <1>5, <2>1 DEF IsChain
  <2> QED BY <2>1, <2>2 DEF NextOf
<1> QED BY <1>1, <1>4, <1>6, <1>7 DEF Walk, C

(* Every chunk it meets is the list's, and points back at the one before. *)
LEMMA WalkOwn ==
  ASSUME NEW m \in Mem, NEW l \in Lists, ShapeInv(m, l), NEW at, Walk(at, m, l),
         NEW i \in Nat, i <= Cardinality(Nodes), at[i] # NULL
  PROVE  /\ at[i] \in Own(m, l)
         /\ i = 0 => m.node[at[i]].prev = NULL
         /\ i # 0 => m.node[at[i]].prev = at[i - 1] /\ at[i - 1] # NULL
<1> DEFINE C == Cardinality(Nodes)
           P == {j \in Nat : j <= C /\ at[j] # NULL =>
                   /\ at[j] \in Own(m, l)
                   /\ j = 0 => m.node[at[j]].prev = NULL
                   /\ j # 0 => m.node[at[j]].prev = at[j - 1] /\ at[j - 1] # NULL}
<1>1. C \in Nat
  BY ConstantsAssumption, FS_CardinalityType
<1>2. 0 \in P
  BY DEF Walk, ShapeInv, EndsInv
<1>3. ASSUME NEW j \in Nat, j \in P PROVE j + 1 \in P
  <2> SUFFICES ASSUME j + 1 <= C, at[j + 1] # NULL
               PROVE  /\ at[j + 1] \in Own(m, l)
                      /\ m.node[at[j + 1]].prev = at[j] /\ at[j] # NULL
    OBVIOUS
  <2>1. j < C /\ j <= C
    BY <1>1
  <2>2. at[j + 1] = NextOf(m, at[j])
    BY <2>1 DEF Walk
  <2>3. at[j] # NULL /\ at[j + 1] = m.node[at[j]].next
    BY <2>2 DEF NextOf
  <2>4. at[j] \in Own(m, l)
    BY <1>3, <2>1, <2>3
  <2> QED BY <2>3, <2>4 DEF ShapeInv, LinksInv
<1> HIDE DEF P
<1>4. \A j \in Nat : j \in P
  BY <1>2, <1>3, NumberInduction
<1>5. i \in P
  BY <1>4
<1> QED BY <1>5 DEF P

(* It meets no chunk twice. *)
LEMMA WalkDistinct ==
  ASSUME NEW m \in Mem, NEW l \in Lists, ShapeInv(m, l), NEW at, Walk(at, m, l),
         NEW i \in Nat, NEW j \in Nat, i < j, j <= Cardinality(Nodes), at[j] # NULL
  PROVE  at[i] # at[j]
<1> DEFINE C == Cardinality(Nodes)
           P == {a \in Nat : \A c \in Nat : a < c /\ c <= C /\ at[c] # NULL => at[a] # at[c]}
<1>1. C \in Nat
  BY ConstantsAssumption, FS_CardinalityType
<1>2. \A a \in Nat : a <= C /\ at[a] # NULL =>
        /\ a = 0 => m.node[at[a]].prev = NULL
        /\ a # 0 => m.node[at[a]].prev = at[a - 1] /\ at[a - 1] # NULL
  BY WalkOwn
<1>3. 0 \in P
  <2> SUFFICES ASSUME NEW c \in Nat, 0 < c, c <= C, at[c] # NULL, at[0] = at[c]
               PROVE  FALSE
    OBVIOUS
  <2>1. m.node[at[0]].prev = NULL
    BY <1>1, <1>2
  <2>2. m.node[at[c]].prev # NULL
    BY <1>2
  <2> QED BY <2>1, <2>2
<1>4. ASSUME NEW a \in Nat, a \in P PROVE a + 1 \in P
  <2> SUFFICES ASSUME NEW c \in Nat, a + 1 < c, c <= C, at[c] # NULL, at[a + 1] = at[c]
               PROVE  FALSE
    OBVIOUS
  <2>1. a + 1 <= C /\ a + 1 # 0 /\ (a + 1) - 1 = a /\ a + 1 \in Nat
    BY <1>1
  <2>2. m.node[at[a + 1]].prev = at[(a + 1) - 1]
    BY <1>2, <2>1
  <2>3. c # 0 /\ c - 1 \in Nat /\ a < c - 1 /\ c - 1 <= C
    BY <1>1
  <2>4. m.node[at[c]].prev = at[c - 1] /\ at[c - 1] # NULL
    BY <1>2, <2>3
  <2>5. at[a] # at[c - 1]
    BY <1>4, <2>3, <2>4
  <2> QED BY <2>1, <2>2, <2>4, <2>5
<1> HIDE DEF P
<1>5. \A a \in Nat : a \in P
  BY <1>3, <1>4, NumberInduction
<1>6. i \in P
  BY <1>5
<1> QED BY <1>6 DEF P

(* So it comes to an end. *)
LEMMA WalkEnds ==
  ASSUME NEW m \in Mem, NEW l \in Lists, ShapeInv(m, l), NEW at, Walk(at, m, l)
  PROVE  at[Cardinality(Nodes)] = NULL
<1> DEFINE C == Cardinality(Nodes)
           P == {j \in Nat : j <= C => at[C - j] # NULL}
<1> SUFFICES ASSUME at[C] # NULL PROVE FALSE
  OBVIOUS
<1>1. C \in Nat /\ IsFiniteSet(Nodes)
  BY ConstantsAssumption, FS_CardinalityType
<1>2. 0 \in P
  BY <1>1
<1>3. ASSUME NEW j \in Nat, j \in P PROVE j + 1 \in P
  <2> SUFFICES ASSUME j + 1 <= C PROVE at[C - (j + 1)] # NULL
    OBVIOUS
  <2>1. j <= C /\ C - j \in Nat /\ C - j # 0 /\ (C - j) - 1 = C - (j + 1) /\ C - j <= C
    BY <1>1
  <2>2. at[C - j] # NULL
    BY <1>3, <2>1
  <2> DEFINE i == C - j
  <2>3. i \in Nat /\ i <= C /\ i # 0 /\ at[i] # NULL /\ i - 1 = C - (j + 1)
    BY <2>1, <2>2
  <2> HIDE DEF i
  <2>4. at[i - 1] # NULL
    BY <2>3, WalkOwn
  <2> QED BY <2>3, <2>4
<1> HIDE DEF P
<1>4. \A j \in Nat : j \in P
  BY <1>2, <1>3, NumberInduction
<1> DEFINE f == [i \in 0..C |-> at[i]]
<1>5. ASSUME NEW i \in 0..C PROVE at[i] # NULL
  <2>1. C - i \in P /\ C - i \in Nat /\ C - i <= C /\ C - (C - i) = i
    BY <1>1, <1>4
  <2>2. at[C - (C - i)] # NULL
    <3> DEFINE j == C - i
    <3>1. j \in P /\ j <= C
      BY <2>1
    <3> HIDE DEF j
    <3>2. at[C - j] # NULL
      BY <3>1 DEF P
    <3> QED BY <3>2 DEF j
  <2> QED BY <2>1, <2>2
<1>6. \A i \in 0..C : f[i] \in Nodes
  <2> SUFFICES ASSUME NEW i \in 0..C PROVE at[i] \in Nodes
    OBVIOUS
  <2>1. i \in Nat /\ i <= C /\ at[i] # NULL
    BY <1>1, <1>5
  <2>2. at[i] \in Own(m, l)
    BY <2>1, WalkOwn
  <2> QED BY <2>2, MemTypes DEF Own
<1>7. \A i, j \in 0..C : f[i] = f[j] => i = j
  <2> SUFFICES ASSUME NEW i \in 0..C, NEW j \in 0..C, i # j PROVE at[i] # at[j]
    OBVIOUS
  <2>1. i \in Nat /\ j \in Nat /\ i <= C /\ j <= C /\ at[i] # NULL /\ at[j] # NULL
        /\ (i < j \/ j < i)
    BY <1>1, <1>5
  <2>2. CASE i < j
    BY <2>1, <2>2, WalkDistinct
  <2>3. CASE j < i
    BY <2>1, <2>3, WalkDistinct
  <2> QED BY <2>1, <2>2, <2>3
<1>8. f = [i \in 0..C |-> f[i]]
  OBVIOUS
<1> HIDE DEF f
<1>9. IsFiniteSet(0..C) /\ Cardinality(0..C) = C + 1
  <2>1. C \in Int /\ 0 \in Int
    BY <1>1
  <2> HIDE DEF C
  <2>2. IsFiniteSet(0..C) /\ Cardinality(0..C) = IF 0 > C THEN 0 ELSE C - 0 + 1
    BY <2>1, FS_Interval
  <2> QED BY <1>1, <2>2
<1>10. Cardinality({f[i] : i \in 0..C}) = C + 1
  <2>1. PICK S : S = 0..C
    OBVIOUS
  <2>2. IsFiniteSet(S) /\ f = [i \in S |-> f[i]]
    BY <1>8, <1>9, <2>1
  <2>3. \A i, j \in S : f[i] = f[j] => i = j
    BY <1>7, <2>1
  <2>4. Cardinality({f[i] : i \in S}) = Cardinality(S)
    BY <2>2, <2>3, InjectiveImage
  <2> QED BY <1>9, <2>1, <2>4
<1>11. {f[i] : i \in 0..C} \subseteq Nodes
  BY <1>6
<1>12. C + 1 <= C
  <2>1. PICK I : I = {f[i] : i \in 0..C}
    OBVIOUS
  <2>2. I \in SUBSET Nodes /\ Cardinality(I) = C + 1
    BY <1>10, <1>11, <2>1
  <2>3. Cardinality(I) <= Cardinality(Nodes)
    BY <1>1, <2>2, FS_Subset
  <2> QED BY <2>2, <2>3
<1> QED BY <1>1, <1>12

(* It meets the active chunks first, in the order of their numbers. *)
LEMMA WalkActive ==
  ASSUME NEW m \in Mem, NEW l \in Lists, ShapeInv(m, l), NEW at, Walk(at, m, l)
  PROVE  /\ m.list[l].numNodes \in Nat /\ Cardinality(Nodes) \in Nat
         /\ m.list[l].numNodes <= Cardinality(Nodes)
         /\ \A i \in Nat : i < m.list[l].numNodes => IsAt(m, l, i, at[i])
<1> DEFINE C == Cardinality(Nodes)
           N == m.list[l].numNodes
<1>1. C \in Nat /\ N \in Nat /\ IsFiniteSet(Nodes)
  BY MemTypes, ConstantsAssumption, FS_CardinalityType
<1>2. N <= C
  <2> DEFINE f == [i \in 0..(N - 1) |-> AtIndex(m, l, i)]
  <2>1. ASSUME NEW i \in 0..(N - 1) PROVE IsAt(m, l, i, f[i])
    <3>1. i \in Nat /\ i < N
      BY <1>1
    <3> QED BY <3>1, AtIndexIs
  <2>2. f = [i \in 0..(N - 1) |-> f[i]]
    OBVIOUS
  <2> HIDE DEF f
  <2>3. \A i, j \in 0..(N - 1) : f[i] = f[j] => i = j
    BY <2>1 DEF IsAt
  <2>4. \A i \in 0..(N - 1) : f[i] \in Nodes
    BY <2>1, MemTypes DEF IsAt, Own
  <2>5. PICK S : S = 0..(N - 1)
    OBVIOUS
  <2>6. IsFiniteSet(S) /\ Cardinality(S) = N
    <3>1. N - 1 \in Int /\ 0 \in Int
      BY <1>1
    <3>2. IsFiniteSet(0..(N - 1)) /\ Cardinality(0..(N - 1)) = N
      <4> HIDE DEF N
      <4>1. IsFiniteSet(0..(N - 1))
        BY <3>1, FS_Interval
      <4> QED BY <1>1, <4>1, FrontSlots
    <3> QED BY <2>5, <3>2
  <2>7. f = [i \in S |-> f[i]] /\ \A i, j \in S : f[i] = f[j] => i = j
    BY <2>2, <2>3, <2>5
  <2>8. PICK I : I = {f[i] : i \in S}
    OBVIOUS
  <2>9. Cardinality({f[i] : i \in S}) = Cardinality(S)
    BY <2>6, <2>7, InjectiveImage
  <2>10. I \in SUBSET Nodes /\ Cardinality(I) = N
    BY <2>4, <2>5, <2>6, <2>8, <2>9
  <2>11. Cardinality(I) <= Cardinality(Nodes)
    BY <1>1, <2>10, FS_Subset
  <2> QED BY <2>10, <2>11
<1> DEFINE P == {i \in Nat : i < N => IsAt(m, l, i, at[i])}
<1>3. 0 \in P
  <2> SUFFICES ASSUME 0 < N PROVE IsAt(m, l, 0, at[0])
    OBVIOUS
  <2>1. IsAt(m, l, 0, AtIndex(m, l, 0))
    BY AtIndexIs
  <2>2. m.list[l].head = AtIndex(m, l, 0)
    BY <2>1, AtNeighbours
  <2> QED BY <2>1, <2>2 DEF Walk
<1>4. ASSUME NEW i \in Nat, i \in P PROVE i + 1 \in P
  <2> SUFFICES ASSUME i + 1 < N PROVE IsAt(m, l, i + 1, at[i + 1])
    OBVIOUS
  <2>1. i < N /\ i < C
    BY <1>1, <1>2
  <2>2. IsAt(m, l, i, at[i])
    BY <1>4, <2>1
  <2>3. IsAt(m, l, i + 1, m.node[at[i]].next)
    BY <2>2, AtNeighbours
  <2>4. at[i] # NULL
    BY <2>2, MemTypes, ConstantsAssumption DEF IsAt, Own
  <2>5. at[i + 1] = m.node[at[i]].next
    BY <2>1, <2>4 DEF Walk, NextOf
  <2> QED BY <2>3, <2>5
<1> HIDE DEF P
<1>5. \A i \in Nat : i \in P
  BY <1>3, <1>4, NumberInduction
<1> QED BY <1>1, <1>2, <1>5 DEF P

(* An active chunk lies at its index, and nothing active lies behind them. *)
LEMMA WalkReaches ==
  ASSUME NEW m \in Mem, NEW l \in Lists, ShapeInv(m, l), NEW at, Walk(at, m, l)
  PROVE  /\ \A z \in Own(m, l) : m.node[z].active =>
              /\ m.node[z].index \in Nat /\ m.node[z].index < m.list[l].numNodes
              /\ z = at[m.node[z].index]
         /\ \A i \in Nat : i <= Cardinality(Nodes) /\ at[i] # NULL =>
              (m.node[at[i]].active <=> i < m.list[l].numNodes)
<1> DEFINE C == Cardinality(Nodes)
           N == m.list[l].numNodes
<1>1. /\ C \in Nat /\ N \in Nat /\ N <= C
      /\ \A i \in Nat : i < N => IsAt(m, l, i, at[i])
  BY WalkActive
<1>2. ASSUME NEW z \in Own(m, l), m.node[z].active
      PROVE  /\ m.node[z].index \in Nat /\ m.node[z].index < N
             /\ z = at[m.node[z].index]
  <2> DEFINE i == m.node[z].index
  <2>1. i \in Nat
    BY MemTypes DEF Own
  <2>2. IsAt(m, l, i, z)
    BY <1>2 DEF IsAt
  <2>3. i < N
    BY <2>1, <2>2, AtNeighbours
  <2>4. IsAt(m, l, i, at[i])
    BY <1>1, <2>1, <2>3
  <2>5. z = at[i]
    BY <2>2, <2>4 DEF IsAt, ShapeInv, IndexInv
  <2> QED BY <2>1, <2>3, <2>5
<1>3. ASSUME NEW i \in Nat, i <= C, at[i] # NULL
      PROVE  m.node[at[i]].active <=> i < N
  <2>1. ASSUME i < N PROVE m.node[at[i]].active
    BY <1>1, <2>1 DEF IsAt
  <2>2. ASSUME m.node[at[i]].active, ~(i < N) PROVE FALSE
    <3>1. at[i] \in Own(m, l)
      BY <1>3, WalkOwn
    <3> DEFINE j == m.node[at[i]].index
    <3>2. j \in Nat /\ j < N /\ at[i] = at[j]
      BY <1>2, <2>2, <3>1
    <3> HIDE DEF j
    <3>3. j < i
      BY <1>1, <2>2, <3>2
    <3> QED BY <1>3, <3>2, <3>3, WalkDistinct
  <2>3. m.node[at[i]].active \in BOOLEAN
    <3>1. at[i] \in Own(m, l)
      BY <1>3, WalkOwn
    <3> QED BY <3>1, MemTypes DEF Own
  <2> QED BY <2>1, <2>2, <2>3
<1> QED BY <1>2, <1>3


(* A walk from the head meets every active chunk of the list.              *)
LEMMA ActiveReached ==
  ASSUME NEW m \in Mem, NEW l \in Lists, ShapeInv(m, l), NEW z \in Own(m, l),
         m.node[z].active
  PROVE  z \in Chain(m, l)
<1>1. PICK at : at = ChainAt(m, l)
  OBVIOUS
<1>2. Walk(at, m, l) /\ Cardinality(Nodes) \in Nat
  BY <1>1, ChainWalks
<1> DEFINE i == m.node[z].index
<1>3. i \in Nat /\ i < m.list[l].numNodes /\ z = at[i]
  BY <1>2, WalkReaches
<1>4. /\ m.list[l].numNodes \in Nat
      /\ m.list[l].numNodes <= Cardinality(Nodes)
  BY <1>2, WalkActive
<1> HIDE DEF i
<1>5. i \in 0..Cardinality(Nodes)
  BY <1>2, <1>3, <1>4
<1>6. z # NULL
  BY MemTypes, ConstantsAssumption DEF Own
<1> QED BY <1>1, <1>3, <1>5, <1>6 DEF Chain

(* What the walk reaches belongs to the list, and so does all before it. *)
LEMMA ReachedBefore ==
  ASSUME NEW m \in Mem, NEW l \in Lists, ShapeInv(m, l)
  PROVE  /\ Chain(m, l) \subseteq Own(m, l)
         /\ \A n \in Own(m, l) : m.node[n].next \in Chain(m, l) => n \in Chain(m, l)
<1> DEFINE C == Cardinality(Nodes)
<1>1. PICK at : at = ChainAt(m, l)
  OBVIOUS
<1>2. Walk(at, m, l) /\ C \in Nat
  BY <1>1, ChainWalks
<1>3. Chain(m, l) = {at[i] : i \in 0..C} \ {NULL}
  BY <1>1 DEF Chain
<1>4. ASSUME NEW i \in 0..C, at[i] # NULL
      PROVE  /\ at[i] \in Own(m, l)
             /\ i = 0 => m.node[at[i]].prev = NULL
             /\ i # 0 => m.node[at[i]].prev = at[i - 1] /\ at[i - 1] # NULL
  <2>1. i \in Nat /\ i <= C
    BY <1>2
  <2> QED BY <1>2, <1>4, <2>1, WalkOwn
<1>5. ASSUME NEW n \in Own(m, l), m.node[n].next \in Chain(m, l)
      PROVE  n \in Chain(m, l)
  <2>1. PICK i \in 0..C : at[i] = m.node[n].next /\ at[i] # NULL
    BY <1>3, <1>5
  <2>2. m.node[at[i]].prev = n /\ n # NULL
    BY <2>1, MemTypes, ConstantsAssumption DEF ShapeInv, LinksInv, Own
  <2>3. i # 0 /\ n = at[i - 1]
    BY <1>4, <2>1, <2>2
  <2>4. i - 1 \in 0..C
    BY <1>2, <2>3
  <2> QED BY <1>3, <2>2, <2>3, <2>4
<1> QED BY <1>3, <1>4, <1>5

(* destroyPumaSet: what the lists reach is freed, and what is left is empty. *)
Emptied(m, gone) ==
  [heap |-> m.heap \ gone,
   node |-> [n \in Nodes |-> IF n \in gone THEN BlankNode ELSE m.node[n]],
   list |-> [l \in Lists |-> EmptyList]]

(* What destroyPumaSet leaves.                                             *)
LEMMA EmptiedFields ==
  ASSUME NEW m \in Mem, NEW gone, NEW r, r = Emptied(m, gone)
  PROVE  /\ r \in Mem /\ r.heap = m.heap \ gone
         /\ \A n \in r.heap : r.node[n] = m.node[n]
         /\ \A l \in Lists : /\ r.list[l].head = NULL /\ r.list[l].tail = NULL
                             /\ r.list[l].numNodes = 0 /\ r.list[l].numElements = 0
<1>1. r.heap = m.heap \ gone /\ m.heap \subseteq Nodes
  BY MemTypes DEF Emptied
<1>2. \A n \in Nodes : r.node[n] = IF n \in gone THEN BlankNode ELSE m.node[n]
  BY DEF Emptied
<1>3. \A l \in Lists : r.list[l] = EmptyList
  BY DEF Emptied
<1>4. r \in Mem
  <2>1. EmptyList \in ListRecord
    BY DEF EmptyList, ListRecord, Ptr
  <2>2. BlankNode \in NodeRecord
    <3>1. PICK l \in Lists : TRUE
      BY ConstantsAssumption
    <3> QED BY <3>1, BlankTypes, NodeIntro
  <2>3. IsRecord(r)
    BY DEF Emptied, IsRecord
  <2>4. r.heap \in SUBSET Nodes
    BY <1>1
  <2>5. r.node \in [Nodes -> NodeRecord]
    <3>1. \A n \in Nodes : m.node[n] \in NodeRecord
      BY MemTypes
    <3> QED BY <2>2, <3>1 DEF Emptied
  <2>6. r.list \in [Lists -> ListRecord]
    BY <2>1 DEF Emptied
  <2> QED BY <2>3, <2>4, <2>5, <2>6, MemRecord
<1> QED BY <1>1, <1>2, <1>3, <1>4 DEF EmptyList

(* The walk of destroyPumaSet from each head frees every chunk that holds  *)
(* an element, so what is left holds none.                                 *)
LEMMA EmptiedKeeps ==
  ASSUME NEW m, MemInv(m), NEW gone, gone = UNION {Chain(m, l) : l \in Lists},
         NEW r, r = Emptied(m, gone)
  PROVE  MemInv(r)
<1>1. /\ m \in Mem /\ m.heap \subseteq Nodes /\ FillInv(m) /\ StoredOnce(m)
      /\ \A l \in Lists : ShapeInv(m, l)
  BY MemTypes DEF MemInv
<1>2. /\ r \in Mem /\ r.heap = m.heap \ gone
      /\ \A n \in r.heap : r.node[n] = m.node[n]
      /\ \A l \in Lists : /\ r.list[l].head = NULL /\ r.list[l].tail = NULL
                          /\ r.list[l].numNodes = 0 /\ r.list[l].numElements = 0
  BY <1>1, EmptiedFields
<1>3. \A l \in Lists :
        /\ Chain(m, l) \subseteq Own(m, l)
        /\ \A n \in Own(m, l) : m.node[n].next \in Chain(m, l) => n \in Chain(m, l)
  BY <1>1, ReachedBefore
<1>4. \A l \in Lists : Own(r, l) = Own(m, l) \ gone
  BY <1>2 DEF Own
<1>5. \A n \in r.heap : ~m.node[n].active
  <2> SUFFICES ASSUME NEW n \in m.heap, m.node[n].active PROVE n \in gone
    BY <1>2
  <2>1. PICK l \in Lists : n \in Own(m, l)
    BY <1>1, MemTypes DEF Own
  <2>2. n \in Chain(m, l)
    BY <1>1, <2>1, ActiveReached
  <2> QED BY <2>2
<1>6. \A n \in r.heap : Taken(r.node[n]) = {}
  BY <1>1, <1>2, <1>5 DEF FillInv
<1>7. ASSUME NEW l \in Lists PROVE ShapeInv(r, l)
  <2>1. LinksInv(r, l)
    <3> SUFFICES ASSUME NEW n \in Own(r, l), r.node[n].next # NULL
                 PROVE  /\ r.node[n].next \in Own(r, l)
                        /\ r.node[r.node[n].next].prev = n
      BY DEF LinksInv
    <3> DEFINE w == m.node[n].next
    <3>1. n \in Own(m, l) /\ n \notin gone /\ r.node[n].next = w
      BY <1>2, <1>4 DEF Own
    <3>2. w \in Own(m, l) /\ m.node[w].prev = n
      BY <1>1, <3>1 DEF ShapeInv, LinksInv
    <3>3. w \notin gone
      <4> SUFFICES ASSUME NEW k \in Lists, w \in Chain(m, k) PROVE FALSE
        OBVIOUS
      <4>1. k = l
        BY <1>3, <3>2 DEF Own
      <4> QED BY <1>3, <3>1, <4>1
    <3>4. w \in Own(r, l) /\ r.node[w] = m.node[w]
      BY <1>2, <1>4, <3>2, <3>3 DEF Own
    <3> QED BY <3>1, <3>2, <3>4
  <2>2. \A n \in Own(r, l) : ~r.node[n].active
    BY <1>2, <1>5 DEF Own
  <2> QED BY <1>2, <2>1, <2>2 DEF ShapeInv, ActiveInv, IndexInv, EndsInv
<1>8. FillInv(r)
  BY <1>1, <1>2 DEF FillInv
<1>9. StoredOnce(r)
  BY <1>1, <1>2 DEF StoredOnce
<1>10. CountInv(r)
  <2> SUFFICES ASSUME NEW l \in Lists
               PROVE  r.list[l].numElements = Cardinality(HeldBy(r, Own(r, l)))
    BY DEF CountInv
  <2>1. HeldBy(r, Own(r, l)) = {}
    <3>1. \A n \in Own(r, l) : Held(r, n) = {}
      BY <1>6 DEF Held, Own
    <3> QED BY <3>1 DEF HeldBy
  <2> QED BY <1>2, <2>1, FS_EmptySet
<1> QED BY <1>2, <1>7, <1>8, <1>9, <1>10 DEF MemInv

(* destroyPumaSet keeps the invariant.                                     *)
LEMMA DestroyKeeps ==
  ASSUME IInv, DestroyPumaSet
  PROVE  IInv'
<1>1. PICK gone : gone = UNION {Chain(mem, l) : l \in Lists}
  OBVIOUS
<1>2. /\ phase = "client" /\ \A l \in Lists : op[l].pc = "idle"
      /\ phase' = "destroyed" /\ UNCHANGED <<op, kernel, owed, visits>>
      /\ mem' = Emptied(mem, gone)
  BY <1>1 DEF DestroyPumaSet, Emptied
<1>3. MemInv(mem) /\ HistoryTypes /\ mem \in Mem
  BY DEF IInv, MemInv
<1>4. MemInv(mem')
  BY <1>1, <1>2, <1>3, EmptiedKeeps
<1>5. /\ mem'.heap \subseteq mem.heap
      /\ \A z \in mem'.heap : mem'.node[z] = mem.node[z]
  BY <1>2, <1>3, EmptiedFields
<1>6. HistoryTypes' /\ phase' # "kernel"
  BY <1>2, <1>3 DEF HistoryTypes
<1>7. \A z \in mem'.heap : PackedNode(mem.node[z]) => PackedNode(mem'.node[z])
  BY <1>5
<1> QED BY <1>2, <1>4, <1>5, <1>6, <1>7, AtRestKeeps

-----------------------------------------------------------------------------
(* The invariant is inductive. *)

(* A step of something else keeps the invariant.                           *)
LEMMA StutterKeeps ==
  ASSUME IInv, UNCHANGED vars
  PROVE  IInv'
<1>1. mem' = mem /\ op' = op /\ phase' = phase /\ kernel' = kernel
      /\ owed' = owed /\ visits' = visits
  BY DEF vars
<1>2. MemInv(mem') /\ OpsInv'
  BY <1>1 DEF IInv, OpsInv
<1>3. ElemInv'
  BY <1>1 DEF IInv, ElemInv
<1>4. PackedInv'
  BY <1>1 DEF IInv, PackedInv
<1>5. HistoryTypes'
  BY <1>1 DEF IInv, HistoryTypes
<1> QED BY <1>2, <1>3, <1>4, <1>5 DEF IInv

(* Every step of the thread of list l keeps the invariant.                 *)
LEMMA ThreadKeeps ==
  ASSUME IInv, AllowDrainedTail = FALSE, NEW l \in Lists, ThreadStep(l)
  PROVE  IInv'
<1>1. CASE CleanupDropTail(l)
  BY <1>1, DropTailKeeps
<1>2. CASE CleanupMove(l)
  BY <1>2, MoveKeeps
<1>3. CASE CleanupDone(l)
  BY <1>3, DoneVisitKeeps, DoneAllocKeeps
<1>4. CASE KernelWalk(l)
  BY <1>4, WalkKeeps
<1>5. CASE KernelKeep(l)
  BY <1>5, KeepKeeps
<1>6. CASE LeaveNode(l)
  BY <1>6, LeaveKeeps
<1>7. CASE \E n \in Nodes, s \in Slots : KernelFree(l, n, s)
  BY <1>7, KernelFreeKeeps
<1>8. CASE \E e \in Fresh : KernelAlloc(l, e)
  BY <1>8, KernelAllocKeeps
<1> QED BY <1>1, <1>2, <1>3, <1>4, <1>5, <1>6, <1>7, <1>8 DEF ThreadStep

(* The invariant is inductive.                                             *)
LEMMA NextKeeps ==
  ASSUME IInv, AllowDrainedTail = FALSE, [Next]_vars
  PROVE  IInv'
<1>1. CASE UNCHANGED vars
  BY <1>1, StutterKeeps
<1>2. ASSUME NEW l \in Lists, ThreadStep(l) PROVE IInv'
  BY <1>2, ThreadKeeps
<1>3. ASSUME NEW l \in Lists, NEW e \in Fresh, Pumalloc(l, e) PROVE IInv'
  BY <1>3, ClientAllocKeeps
<1>4. ASSUME NEW n \in Nodes, NEW s \in Slots, Pufree(n, s) PROVE IInv'
  BY <1>4, ClientFreeKeeps
<1>5. CASE RunKernel
  BY <1>5, RunKeeps
<1>6. ASSUME NEW from \in Lists, NEW to \in Lists, NEW k \in 1..Cardinality(Nodes),
             Transfer(k, from, to)
      PROVE  IInv'
  <2>1. k \in Nat
    BY ConstantsAssumption, FS_CardinalityType
  <2> QED BY <1>6, <2>1, TransferKeeps
<1>7. ASSUME NEW k \in Kernels, StartKernel(k) PROVE IInv'
  BY <1>7, StartKeeps
<1>8. CASE KernelReturns
  BY <1>8, ReturnKeeps
<1>9. CASE DestroyPumaSet
  BY <1>9, DestroyKeeps
<1>10. CASE CreatePumaSet
  BY <1>10, CreateKeeps
<1> QED BY <1>1, <1>2, <1>3, <1>4, <1>5, <1>6, <1>7, <1>8, <1>9, <1>10 DEF Next

(* IInv holds in every reachable state, for any number of lists, blocks,   *)
(* elements and kernels and any capacity, in executions of the code that   *)
(* do not call pumalloc on two drained chunks (see DrainedTail).           *)
THEOREM Inductive == AllowDrainedTail = FALSE /\ Spec => []IInv
<1>1. Init => IInv
  BY InitInv
<1>2. AllowDrainedTail = FALSE /\ IInv /\ [Next]_vars => IInv'
  BY NextKeeps
<1> SUFFICES ASSUME AllowDrainedTail = FALSE PROVE Spec => []IInv
  OBVIOUS
<1>3. IInv /\ [Next]_vars => IInv'
  BY <1>2
<1> QED BY <1>1, <1>3, PTL DEF Spec

-----------------------------------------------------------------------------
(* What follows from it. *)

(* The invariant contains the types.                                       *)
LEMMA InvTypes == IInv => TypeOK
<1> SUFFICES ASSUME IInv PROVE TypeOK
  OBVIOUS
<1>1. mem \in Mem /\ OpsInv /\ HistoryTypes
  BY DEF IInv, MemInv
<1>2. op \in [Lists -> OpRecord]
  BY <1>1 DEF OpsInv, OpControl
<1> QED BY <1>1, <1>2 DEF TypeOK, Mem, HistoryTypes

(* The invariant contains that clean chunks are packed.                    *)
LEMMA InvPacked == IInv => CleanMeansPacked
BY DEF IInv, PackedInv, PackedNode, CleanMeansPacked

(* The invariant implies that every element is stored once, on a chunk a   *)
(* walk from its list's head reaches.                                      *)
LEMMA InvStored == IInv => StoredOnceWithinReach
<1> SUFFICES ASSUME IInv PROVE StoredOnceWithinReach
  OBVIOUS
<1>1. /\ mem \in Mem /\ mem.heap \subseteq Nodes /\ FillInv(mem) /\ StoredOnce(mem)
      /\ \A l \in Lists : ShapeInv(mem, l)
  BY MemTypes DEF IInv, MemInv
<1>2. ASSUME NEW n \in mem.heap, NodeElems(n) # {}
      PROVE  mem.node[n].active /\ n \in Chain(mem, mem.node[n].threadList)
  <2>1. Taken(mem.node[n]) # {}
    BY <1>2 DEF NodeElems
  <2>2. mem.node[n].active
    BY <1>1, <2>1 DEF FillInv
  <2>3. PICK l \in Lists : l = mem.node[n].threadList
    BY <1>1, MemTypes
  <2>4. n \in Own(mem, l)
    BY <2>3 DEF Own
  <2>5. n \in Chain(mem, l)
    BY <1>1, <2>2, <2>4, ActiveReached
  <2> QED BY <2>2, <2>3, <2>5
<1> QED BY <1>1, <1>2 DEF StoredOnceWithinReach, StoredOnce

(* The local invariant implies the shape a walk from the head sees.        *)
LEMMA InvShape == IInv => ListShape
<1> SUFFICES ASSUME IInv, NEW l \in Lists, NEW at, at = ChainAt(mem, l),
                    NEW n, n = mem.list[l].numNodes
             PROVE
    LET InList(i) ==
          LET x == mem.node[at[i]]
          IN  /\ at[i] \in mem.heap
              /\ x.threadList = l
              /\ x.prev = (IF i = 0 THEN NULL ELSE at[i - 1])
              /\ x.active <=> i < n
              /\ x.active => x.index = i
    IN  /\ at[Cardinality(Nodes)] = NULL
        /\ mem.list[l].tail = (IF n = 0 THEN at[0] ELSE at[n - 1])
        /\ \A i \in 0..(n - 1) : at[i] # NULL
        /\ \A i \in 0..Cardinality(Nodes) : at[i] # NULL => InList(i)
  BY DEF ListShape
<1> DEFINE C == Cardinality(Nodes)
<1>1. mem \in Mem /\ ShapeInv(mem, l) /\ Walk(at, mem, l) /\ NULL \notin Nodes
  BY ChainWalks, ConstantsAssumption DEF IInv, MemInv
<1>2. /\ n \in Nat /\ C \in Nat /\ n <= C
      /\ \A i \in Nat : i < n => IsAt(mem, l, i, at[i])
  BY <1>1, WalkActive
<1>3. at[C] = NULL
  BY <1>1, WalkEnds
<1>4. mem.list[l].tail = (IF n = 0 THEN at[0] ELSE at[n - 1])
  <2>1. CASE n = 0
    <3>1. at[0] = mem.list[l].head
      BY <1>1 DEF Walk
    <3>2. mem.list[l].tail = mem.list[l].head
      <4> DEFINE t == mem.list[l].tail
      <4>1. t # NULL /\ mem.node[t].active => FALSE
        <5>1. ASSUME t # NULL, mem.node[t].active PROVE FALSE
          <6>1. n = mem.node[t].index + 1 /\ t \in Own(mem, l)
            BY <1>1, <5>1 DEF ShapeInv, EndsInv
          <6>2. mem.node[t].index \in Nat
            BY <1>1, <6>1, MemTypes DEF Own
          <6> QED BY <2>1, <6>1, <6>2
        <5> QED BY <5>1
      <4> QED BY <1>1, <4>1 DEF ShapeInv, EndsInv
    <3> QED BY <2>1, <3>1, <3>2
  <2>2. CASE n # 0
    <3>1. n - 1 \in Nat /\ n - 1 < n /\ (n - 1) + 1 = n
      BY <1>2, <2>2
    <3>2. IsAt(mem, l, n - 1, at[n - 1])
      BY <1>2, <3>1
    <3>3. (n - 1) + 1 = mem.list[l].numNodes
      BY <3>1
    <3>4. at[n - 1] = mem.list[l].tail
      BY <1>1, <3>1, <3>2, <3>3, AtNeighbours
    <3> QED BY <2>2, <3>4
  <2> QED BY <2>1, <2>2
<1>5. ASSUME NEW i \in 0..(n - 1) PROVE at[i] # NULL
  <2>1. i \in Nat /\ i < n
    BY <1>2
  <2>2. IsAt(mem, l, i, at[i])
    BY <1>2, <2>1
  <2> QED BY <1>1, <2>2, MemTypes DEF IsAt, Own
<1>6. ASSUME NEW i \in 0..C, at[i] # NULL
      PROVE  /\ at[i] \in mem.heap
             /\ mem.node[at[i]].threadList = l
             /\ mem.node[at[i]].prev = (IF i = 0 THEN NULL ELSE at[i - 1])
             /\ mem.node[at[i]].active <=> i < n
             /\ mem.node[at[i]].active => mem.node[at[i]].index = i
  <2>1. i \in Nat /\ i <= C
    BY <1>2
  <2>2. /\ at[i] \in Own(mem, l)
        /\ i = 0 => mem.node[at[i]].prev = NULL
        /\ i # 0 => mem.node[at[i]].prev = at[i - 1]
    BY <1>1, <1>6, <2>1, WalkOwn
  <2>3. mem.node[at[i]].active <=> i < n
    BY <1>1, <1>6, <2>1, WalkReaches
  <2>4. i < n => mem.node[at[i]].index = i
    BY <1>2, <2>1 DEF IsAt
  <2> QED BY <2>2, <2>3, <2>4 DEF Own
<1> QED BY <1>3, <1>4, <1>5, <1>6

(* What getNumElements adds up: the sizes of disjoint sets. *)
IsListSum(iter) ==
  iter = [s \in SUBSET Lists |->
     IF s = {} THEN 0
     ELSE mem.list[CHOOSE x \in s : TRUE].numElements
            + iter[s \ {CHOOSE x \in s : TRUE}]]

(* getNumElements as an iteration over the lists.                          *)
LEMMA ListSumIter ==
  GetNumElements = (CHOOSE iter : IsListSum(iter))[Lists]
BY DEF GetNumElements, MapThenSumSet, MapThenFoldSet, IsListSum

(* The elements of a list in the terms of the invariant.                   *)
LEMMA ListElemsIs ==
  ASSUME NEW l
  PROVE  ListElems(l) = HeldBy(mem, Own(mem, l))
BY DEF ListElems, NodeElems, HeldBy, Held, Own

(* getNumElements, which adds the lists' counters, is the number of        *)
(* elements stored.                                                        *)
LEMMA ListSumIs ==
  ASSUME MemInv(mem)
  PROVE  GetNumElements = Cardinality(Live)
<1> DEFINE E == [l \in Lists |-> HeldBy(mem, Own(mem, l))]
<1>1. /\ mem \in Mem /\ mem.heap \subseteq Nodes /\ StoredOnce(mem) /\ CountInv(mem)
      /\ IsFiniteSet(Lists)
  BY MemTypes, ConstantsAssumption DEF MemInv
<1>2. \A l \in Lists : IsFiniteSet(E[l])
  <2> SUFFICES ASSUME NEW l \in Lists PROVE IsFiniteSet(HeldBy(mem, Own(mem, l)))
    OBVIOUS
  <2>1. Own(mem, l) \in SUBSET Nodes
    BY <1>1 DEF Own
  <2> QED BY <2>1, HeldFinite
<1>3. \A x, y \in Lists : x # y => E[x] \cap E[y] = {}
  <2> SUFFICES ASSUME NEW x \in Lists, NEW y \in Lists, x # y,
                      NEW n1 \in Own(mem, x), NEW n2 \in Own(mem, y),
                      NEW e \in Held(mem, n1), e \in Held(mem, n2)
               PROVE  FALSE
    BY DEF HeldBy
  <2>1. n1 # n2 /\ n1 \in mem.heap /\ n2 \in mem.heap
    BY DEF Own
  <2>2. Held(mem, n1) \cap Held(mem, n2) = {}
    BY <1>1, <2>1, HeldApart
  <2> QED BY <2>2
<1>4. Together(E, Lists) = Live
  <2>1. Live = HeldBy(mem, mem.heap)
    BY LiveIs
  <2>2. \A n \in mem.heap : mem.node[n].threadList \in Lists
    BY <1>1, MemTypes
  <2>3. HeldBy(mem, mem.heap) = UNION {HeldBy(mem, Own(mem, l)) : l \in Lists}
    BY <2>2 DEF HeldBy, Own
  <2> QED BY <2>1, <2>3 DEF Together
<1>5. \A l \in Lists : Cardinality(E[l]) = mem.list[l].numElements
  BY <1>1 DEF CountInv
<1> HIDE DEF E
<1>6. ASSUME NEW iter PROVE IsListSum(iter) <=> IsSum(iter, E, Lists)
  <2> DEFINE f == [s \in SUBSET Lists |->
                     IF s = {} THEN 0
                     ELSE mem.list[CHOOSE x \in s : TRUE].numElements
                            + iter[s \ {CHOOSE x \in s : TRUE}]]
             g == [s \in SUBSET Lists |->
                     IF s = {} THEN 0
                     ELSE Cardinality(E[CHOOSE x \in s : TRUE])
                            + iter[s \ {CHOOSE x \in s : TRUE}]]
  <2>1. ASSUME NEW s \in SUBSET Lists, s # {}
        PROVE  Cardinality(E[CHOOSE x \in s : TRUE]) = mem.list[CHOOSE x \in s : TRUE].numElements
    <3>1. (CHOOSE x \in s : TRUE) \in Lists
      BY <2>1
    <3> QED BY <1>5, <3>1
  <2>2. f = g
    BY <2>1
  <2> QED BY <2>2 DEF IsListSum, IsSum
<1>7. PICK iter : IsSum(iter, E, Lists)
  BY <1>1, <1>2, <1>3, SumExists
<1>8. IsListSum(CHOOSE i : IsListSum(i))
  BY <1>6, <1>7
<1> DEFINE w == CHOOSE i : IsListSum(i)
<1>9. IsSum(w, E, Lists)
  BY <1>6, <1>8
<1>10. GetNumElements = w[Lists]
  BY ListSumIter
<1> HIDE DEF w
<1>11. w[Lists] = Cardinality(Together(E, Lists))
  BY <1>1, <1>2, <1>3, <1>9, SumIsSize
<1> QED BY <1>4, <1>10, <1>11

(* The invariant implies that all three levels of counters agree with the  *)
(* bitmaps.                                                                *)
LEMMA InvCounters == IInv => CountersAgree
<1> SUFFICES ASSUME IInv PROVE CountersAgree
  OBVIOUS
<1>1. MemInv(mem) /\ FillInv(mem) /\ CountInv(mem)
  BY DEF IInv, MemInv
<1>2. \A n \in mem.heap : mem.node[n].numElements = Cardinality(Taken(mem.node[n]))
  BY <1>1 DEF FillInv
<1>3. \A l \in Lists : mem.list[l].numElements = Cardinality(ListElems(l))
  BY <1>1, ListElemsIs DEF CountInv
<1>4. GetNumElements = Cardinality(Live)
  BY <1>1, ListSumIs
<1> QED BY <1>2, <1>3, <1>4 DEF CountersAgree

-----------------------------------------------------------------------------
(* The theorems. *)

(* Every pointer, counter and local of a call has its type: no step stores a *)
(* chunk or a list that is not one.                                         *)
THEOREM TypeCorrect ==
  ASSUME AllowDrainedTail = FALSE
  PROVE  Spec => []TypeOK
<1>1. Spec => []IInv
  BY Inductive
<1> QED BY <1>1, InvTypes, PTL

(* A walk from the head meets each list's chunks in the order of their       *)
(* numbers, active ones first; the tail is the last active one and numNodes *)
(* counts them.  No append, deactivation, release or move of chunks between *)
(* lists, in any order and with kernels running on all lists, breaks it.    *)
THEOREM ShapeCorrect ==
  ASSUME AllowDrainedTail = FALSE
  PROVE  Spec => []ListShape
<1>1. Spec => []IInv
  BY Inductive
<1> QED BY <1>1, InvShape, PTL

(* The chunk's numElements counts its taken slots, the list's counter its    *)
(* elements, and getNumElements all elements of the set, at every moment.   *)
THEOREM CountersCorrect ==
  ASSUME AllowDrainedTail = FALSE
  PROVE  Spec => []CountersAgree
<1>1. Spec => []IInv
  BY Inductive
<1> QED BY <1>1, InvCounters, PTL

(* A chunk that no deletion has marked dirty, and that no call compacts, has *)
(* its elements in its first slots: what the kernel's walk over a clean     *)
(* chunk relies on.                                                         *)
THEOREM PackedCorrect ==
  ASSUME AllowDrainedTail = FALSE
  PROVE  Spec => []CleanMeansPacked
<1>1. Spec => []IInv
  BY Inductive
<1> QED BY <1>1, InvPacked, PTL

(* No element is lost or stored twice by a compaction or a move of chunks,   *)
(* and every one is on a chunk that a walk from its list's head reaches.    *)
THEOREM StoredCorrect ==
  ASSUME AllowDrainedTail = FALSE
  PROVE  Spec => []StoredOnceWithinReach
<1>1. Spec => []IInv
  BY Inductive
<1> QED BY <1>1, InvStored, PTL

-----------------------------------------------------------------------------
(* What the user of a set sees of the thread lists.  First, what each step   *)
(* does to the addresses of the elements (Stays, MovesUp) and to the numbers *)
(* of the chunks (Steady, Firm).  From that follows what it does to AheadIn, *)
(* the elements between the place a thread has come to and the end of its   *)
(* list.  OnceInv says that these have not been visited; AllInv, of one-way *)
(* kernels, that all others have, and that the number of elements the       *)
(* thread still means to visit covers them.                                 *)

-----------------------------------------------------------------------------
(* Where the elements are after a step. *)

(* An element that was there is at the address it had. *)
Stays(m, r) ==
  \A n \in r.heap : \A s \in Slots :
    \/ r.node[n].slot[s] = NULL
    \/ r.node[n].slot[s] \notin HeldBy(m, m.heap)
    \/ n \in m.heap /\ m.node[n].slot[s] = r.node[n].slot[s]

(* An active chunk keeps its number. *)
Steady(m, r) ==
  \A n \in m.heap : m.node[n].active =>
    n \in r.heap /\ r.node[n].index = m.node[n].index

(* It stays active too. *)
Firm(m, r) ==
  \A n \in m.heap : m.node[n].active =>
    n \in r.heap /\ r.node[n].active /\ r.node[n].index = m.node[n].index

(* _freeElementOnNode moves no element. *)
LEMMA FreeStays ==
  ASSUME NEW m, NEW r, NEW n \in m.heap, NEW s \in Slots,
         FreeFrame(m, r, n), PutAt(m, r, n, s, NULL), n \in r.heap
  PROVE  Stays(m, r) /\ Firm(m, r)
<1>1. Stays(m, r)
  <2> SUFFICES ASSUME NEW z \in r.heap, NEW k \in Slots, r.node[z].slot[k] # NULL
               PROVE  z \in m.heap /\ m.node[z].slot[k] = r.node[z].slot[k]
    BY DEF Stays
  <2>1. z \in m.heap
    BY DEF FreeFrame
  <2>2. CASE z = n
    BY <2>1, <2>2 DEF PutAt
  <2>3. CASE z # n
    BY <2>1, <2>3 DEF FreeFrame
  <2> QED BY <2>2, <2>3
<1>2. Firm(m, r)
  BY DEF FreeFrame, Firm
<1> QED BY <1>1, <1>2

(* Nor does the deactivation of a chunk. *)
LEMMA DropStays ==
  ASSUME NEW m \in Mem, NEW r, NEW l, NEW t \in m.heap, DropEffect(m, r, l, t)
  PROVE  Stays(m, r) /\ Steady(m, r)
<1>1. m.heap \subseteq Nodes
  BY MemTypes
<1>2. /\ r.heap = m.heap
      /\ \A z \in m.heap : /\ r.node[z].slot = m.node[z].slot
                           /\ r.node[z].index = m.node[z].index
  BY <1>1 DEF DropEffect, Turn
<1> QED BY <1>2 DEF Stays, Steady

(* Nor a write of firstKnownFree or of the dirty mark. *)
LEMMA MarkStays ==
  ASSUME NEW m \in Mem, NEW r, NEW n \in m.heap, NEW k, NEW d,
         MarkEffect(m, r, n, k, d)
  PROVE  Stays(m, r) /\ Firm(m, r)
<1>1. m.heap \subseteq Nodes
  BY MemTypes
<1>2. /\ r.heap = m.heap
      /\ \A z \in m.heap : /\ r.node[z].slot = m.node[z].slot
                           /\ r.node[z].index = m.node[z].index
                           /\ r.node[z].active = m.node[z].active
  BY <1>1 DEF MarkEffect
<1> QED BY <1>2 DEF Stays, Firm

(* Nor the beginning of an allocation. *)
LEMMA TakeStays ==
  ASSUME NEW m, NEW r, NEW l, NEW n, TakeFrame(m, r, l, n)
  PROVE  Stays(m, r) /\ Firm(m, r)
<1>1. Stays(m, r)
  <2> SUFFICES ASSUME NEW z \in r.heap, NEW k \in Slots, r.node[z].slot[k] # NULL
               PROVE  z \in m.heap /\ m.node[z].slot[k] = r.node[z].slot[k]
    BY DEF Stays
  <2>1. z \in m.heap
    <3>1. CASE z \notin m.heap
      <4>1. z = n /\ Taken(r.node[z]) = {}
        BY <3>1 DEF TakeFrame
      <4> QED BY <4>1 DEF Taken
    <3> QED BY <3>1
  <2>2. r.node[z].slot = m.node[z].slot
    BY <2>1 DEF TakeFrame
  <2> QED BY <2>1, <2>2
<1>2. Firm(m, r)
  <2> SUFFICES ASSUME NEW z \in m.heap, m.node[z].active
               PROVE  z \in r.heap /\ r.node[z].active /\ r.node[z].index = m.node[z].index
    BY DEF Firm
  <2>1. CASE z = n
    BY <2>1 DEF TakeFrame
  <2>2. CASE z # n
    BY <2>2 DEF TakeFrame
  <2> QED BY <2>1, <2>2
<1> QED BY <1>1, <1>2

(* Its end adds a new element. *)
LEMMA FinishStays ==
  ASSUME NEW m \in Mem, NEW r, NEW l, NEW n \in m.heap, NEW s \in Slots, NEW e,
         FinishFrame(m, r, l, n, s), PutAt(m, r, n, s, e),
         e \notin HeldBy(m, m.heap)
  PROVE  Stays(m, r) /\ Firm(m, r)
<1>1. m.heap \subseteq Nodes
  BY MemTypes
<1>2. Stays(m, r)
  <2> SUFFICES ASSUME NEW z \in r.heap, NEW k \in Slots, r.node[z].slot[k] # e
               PROVE  z \in m.heap /\ m.node[z].slot[k] = r.node[z].slot[k]
    BY DEF Stays
  <2>1. z \in m.heap
    BY DEF FinishFrame
  <2>2. CASE z = n
    BY <2>1, <2>2 DEF PutAt
  <2>3. CASE z # n
    BY <1>1, <2>1, <2>3 DEF FinishFrame
  <2> QED BY <2>2, <2>3
<1>3. Firm(m, r)
  <2> SUFFICES ASSUME NEW z \in m.heap, m.node[z].active
               PROVE  z \in r.heap /\ r.node[z].active /\ r.node[z].index = m.node[z].index
    BY DEF Firm
  <2>1. CASE z = n
    BY <2>1 DEF FinishFrame
  <2>2. CASE z # n
    BY <1>1, <2>2 DEF FinishFrame
  <2> QED BY <2>1, <2>2
<1> QED BY <1>2, <1>3

(* Two steps that move no element. *)
LEMMA StaysTransitive ==
  ASSUME NEW m, NEW f, NEW r, Stays(m, f), Stays(f, r), Firm(m, f), Firm(f, r),
         HeldBy(m, m.heap) \subseteq HeldBy(f, f.heap)
  PROVE  Stays(m, r) /\ Firm(m, r)
<1>1. Firm(m, r)
  BY DEF Firm
<1>2. Stays(m, r)
  <2> SUFFICES ASSUME NEW z \in r.heap, NEW k \in Slots, r.node[z].slot[k] # NULL,
                      r.node[z].slot[k] \in HeldBy(m, m.heap)
               PROVE  z \in m.heap /\ m.node[z].slot[k] = r.node[z].slot[k]
    BY DEF Stays
  <2>1. z \in f.heap /\ f.node[z].slot[k] = r.node[z].slot[k]
    BY DEF Stays
  <2> QED BY <2>1 DEF Stays
<1> QED BY <1>1, <1>2

(* A step on list l changes no chunk's list. *)
LEMMA SameOwner ==
  ASSUME NEW m \in Mem, NEW r \in Mem, NEW l \in Lists, Elsewhere(m, r, l),
         NEW n \in m.heap, n \in r.heap
  PROVE  r.node[n].threadList = m.node[n].threadList
<1> DEFINE k == m.node[n].threadList
           j == r.node[n].threadList
<1>1. k \in Lists /\ j \in Lists /\ n \in Own(m, k) /\ n \in Own(r, j)
  BY MemTypes DEF Own
<1> HIDE DEF k, j
<1>2. CASE k # l
  <2>1. Own(r, k) = Own(m, k)
    BY <1>1, <1>2 DEF Elsewhere, SameList
  <2> QED BY <1>1, <2>1 DEF Own, k, j
<1>3. CASE j # l
  <2>1. Own(r, j) = Own(m, j)
    BY <1>1, <1>3 DEF Elsewhere, SameList
  <2> QED BY <1>1, <2>1 DEF Own, k, j
<1> QED BY <1>2, <1>3 DEF k, j

-----------------------------------------------------------------------------
(* The part of a list that a kernel has not come to yet. *)

(* Slot s of chunk n is slot i of chunk c or lies behind it. *)
Past(m, c, i, n, s) ==
  \/ m.node[n].index > m.node[c].index
  \/ n = c /\ s >= i

(* The elements of list l from slot i of chunk c on. *)
AheadOf(m, l, c, i) ==
  {e \in Elems : \E n \in Own(m, l) : \E s \in Slots :
                   m.node[n].slot[s] = e /\ Past(m, c, i, n, s)}

(* The slot a kernel comes to next. *)
From(o) ==
  IF o.pc = "visit" THEN o.i
  ELSE IF o.pc = "cleanup" /\ o.after = "kernelAlloc" THEN o.i + 1
  ELSE 0

(* What the kernel whose locals are o has ahead on list l. *)
AheadIn(m, l, o) ==
  IF /\ o.pc \in {"walk", "visit", "cleanup"}
     /\ o.currentNode # NULL
     /\ m.node[o.currentNode].active
  THEN AheadOf(m, l, o.currentNode, From(o))
  ELSE {}

(* Slot s of chunk n is slot j of chunk k or lies in front of it. *)
Before(m, n, s, k, j) ==
  \/ m.node[n].index < m.node[k].index
  \/ n = k /\ s <= j

(* An element that was in list l is where it was, or nearer to the head. *)
MovesUp(m, r, l) ==
  \A n \in Own(r, l) : \A s \in Slots :
    r.node[n].slot[s] # NULL /\ r.node[n].slot[s] \in HeldBy(m, m.heap) =>
      /\ n \in m.heap /\ m.node[n].active
      /\ \E k \in Own(m, l) : \E j \in Slots :
           m.node[k].slot[j] = r.node[n].slot[s] /\ Before(m, n, s, k, j)

(* A step on list l that moves no element. *)
LEMMA StaysUp ==
  ASSUME NEW m, NEW r, MemInv(m), MemInv(r), NEW l \in Lists,
         Elsewhere(m, r, l), Stays(m, r)
  PROVE  MovesUp(m, r, l)
<1>1. m \in Mem /\ r \in Mem /\ FillInv(m)
  BY DEF MemInv
<1> SUFFICES ASSUME NEW n \in Own(r, l), NEW s \in Slots,
                    r.node[n].slot[s] # NULL,
                    r.node[n].slot[s] \in HeldBy(m, m.heap)
             PROVE  /\ n \in m.heap /\ m.node[n].active
                    /\ \E k \in Own(m, l) : \E j \in Slots :
                         m.node[k].slot[j] = r.node[n].slot[s] /\ Before(m, n, s, k, j)
  BY DEF MovesUp
<1>2. n \in r.heap /\ r.node[n].threadList = l
  BY DEF Own
<1>3. n \in m.heap /\ m.node[n].slot[s] = r.node[n].slot[s]
  BY <1>2 DEF Stays
<1>4. n \in Own(m, l)
  BY <1>1, <1>2, <1>3, SameOwner DEF Own
<1>5. m.node[n].active
  <2>1. s \in Taken(m.node[n])
    BY <1>3 DEF Taken
  <2> QED BY <1>1, <1>3, <2>1 DEF FillInv
<1>6. Before(m, n, s, n, s)
  BY ConstantsAssumption DEF Before, Slots
<1> QED BY <1>3, <1>4, <1>5, <1>6

(* The move of the last element of the list, in chunk t, to a hole in front. *)
LEMMA PullUp ==
  ASSUME NEW m, NEW r, MemInv(m), MemInv(r), NEW l \in Lists,
         NEW c \in Own(m, l), NEW t \in Own(m, l), NEW h \in Slots, NEW k \in Slots,
         m.node[c].active, Elsewhere(m, r, l),
         MoveSlot(m, r, c, h, t, k), PullFrame(m, r, c, t),
         m.node[c].index < m.node[t].index \/ (c = t /\ h < k)
  PROVE  MovesUp(m, r, l) /\ Firm(m, r)
<1>1. m \in Mem /\ r \in Mem /\ FillInv(m)
  BY DEF MemInv
<1>2. Firm(m, r)
  BY DEF PullFrame, Firm
<1>3. MovesUp(m, r, l)
  <2> SUFFICES ASSUME NEW n \in Own(r, l), NEW s \in Slots,
                      r.node[n].slot[s] # NULL
               PROVE  /\ n \in m.heap /\ m.node[n].active
                      /\ \E z \in Own(m, l) : \E j \in Slots :
                           m.node[z].slot[j] = r.node[n].slot[s] /\ Before(m, n, s, z, j)
    BY DEF MovesUp
  <2>1. n \in r.heap /\ r.node[n].threadList = l /\ n \in m.heap
    BY DEF Own, PullFrame
  <2>2. n \in Own(m, l)
    BY <1>1, <2>1, SameOwner DEF Own
  <2>3. r.node[n].slot[s] = IF n = c /\ s = h THEN m.node[t].slot[k] ELSE m.node[n].slot[s]
    BY <2>1 DEF MoveSlot
  <2>4. CASE n = c /\ s = h
    <3>1. Before(m, n, s, t, k)
      BY <2>4, ConstantsAssumption DEF Before, Slots
    <3> QED BY <2>1, <2>3, <2>4, <3>1
  <2>5. CASE ~(n = c /\ s = h)
    <3>1. Before(m, n, s, n, s)
      BY ConstantsAssumption DEF Before, Slots
    <3>2. m.node[n].active
      <4>1. s \in Taken(m.node[n])
        BY <2>3, <2>5 DEF Taken
      <4> QED BY <1>1, <2>1, <4>1 DEF FillInv
    <3> QED BY <2>1, <2>2, <2>3, <2>5, <3>1, <3>2
  <2> QED BY <2>4, <2>5
<1> QED BY <1>2, <1>3

(* What is ahead of a kernel only shrinks, new elements excepted. *)
LEMMA AheadShrinks ==
  ASSUME NEW m, NEW r, MemInv(m), MemInv(r), NEW l \in Lists,
         MovesUp(m, r, l), Steady(m, r),
         NEW c \in Own(m, l), m.node[c].active, NEW i \in Nat
  PROVE  AheadOf(r, l, c, i) \subseteq AheadOf(m, l, c, i) \cup (Elems \ HeldBy(m, m.heap))
<1> SUFFICES ASSUME NEW e \in AheadOf(r, l, c, i), e \in HeldBy(m, m.heap)
             PROVE  e \in AheadOf(m, l, c, i)
  BY DEF AheadOf
<1>1. PICK n \in Own(r, l), s \in Slots : r.node[n].slot[s] = e /\ Past(r, c, i, n, s)
  BY DEF AheadOf
<1>2. e \in Elems /\ e # NULL
  BY ConstantsAssumption DEF AheadOf
<1>3. n \in m.heap /\ m.node[n].active
  BY <1>1, <1>2 DEF MovesUp
<1>4. PICK k \in Own(m, l), j \in Slots :
             m.node[k].slot[j] = e /\ Before(m, n, s, k, j)
  BY <1>1, <1>2 DEF MovesUp
<1>5. /\ r.node[n].index = m.node[n].index /\ r.node[c].index = m.node[c].index
      /\ m.node[n].index \in Nat /\ m.node[c].index \in Nat /\ m.node[k].index \in Nat
  <2>1. m \in Mem /\ m.heap \subseteq Nodes /\ c \in m.heap /\ k \in m.heap
    BY MemTypes DEF MemInv, Own
  <2> QED BY <1>3, <2>1, MemTypes DEF Steady
<1>6. s \in Nat /\ j \in Nat
  BY ConstantsAssumption DEF Slots
<1>7. Past(m, c, i, k, j)
  BY <1>1, <1>4, <1>5, <1>6 DEF Past, Before
<1> QED BY <1>2, <1>4, <1>7 DEF AheadOf

(* What a kernel has ahead on the other lists is not touched. *)
LEMMA AheadElsewhere ==
  ASSUME NEW m, NEW r, NEW k, SameList(m, r, k), NEW o,
         o.pc \in {"walk", "visit", "cleanup"} /\ o.currentNode # NULL
           => o.currentNode \in Own(m, k)
  PROVE  AheadIn(r, k, o) = AheadIn(m, k, o)
<1>1. Own(r, k) = Own(m, k) /\ \A n \in Own(m, k) : r.node[n] = m.node[n]
  BY DEF SameList
<1>2. ASSUME NEW c \in Own(m, k), NEW i PROVE AheadOf(r, k, c, i) = AheadOf(m, k, c, i)
  BY <1>1, <1>2 DEF AheadOf, Past
<1> QED BY <1>1, <1>2 DEF AheadIn

(* What is ahead of a kernel on a list is in that list. *)
LEMMA AheadHeld ==
  ASSUME NEW m, MemInv(m), NEW l, NEW o, NEW e \in AheadIn(m, l, o)
  PROVE  e \in Elems /\ e \in HeldBy(m, m.heap)
         /\ \E n \in Own(m, l) : \E s \in Slots : m.node[n].slot[s] = e
<1>1. PICK c, i : e \in AheadOf(m, l, c, i)
  BY DEF AheadIn
<1>2. PICK n \in Own(m, l), s \in Slots : m.node[n].slot[s] = e
  BY <1>1 DEF AheadOf
<1>3. e \in Elems /\ e # NULL /\ n \in m.heap
  BY <1>1, ConstantsAssumption DEF AheadOf, Own
<1>4. e \in HeldBy(m, m.heap)
  BY <1>2, <1>3, HeldMember
<1> QED BY <1>2, <1>3, <1>4

(* No element is in two lists. *)
LEMMA OneOwner ==
  ASSUME NEW m, MemInv(m), NEW k, NEW l, k # l,
         NEW n1 \in Own(m, k), NEW n2 \in Own(m, l), NEW s1 \in Slots, NEW s2 \in Slots,
         m.node[n1].slot[s1] # NULL
  PROVE  m.node[n1].slot[s1] # m.node[n2].slot[s2]
BY DEF MemInv, StoredOnce, Own

-----------------------------------------------------------------------------
(* What each action does to the elements. *)

(* No element moves, and no other list is touched. *)
Quiet(m, r, l) == Elsewhere(m, r, l) /\ Stays(m, r) /\ Steady(m, r)

(* Besides, no chunk is deactivated. *)
Calm(m, r, l) == Elsewhere(m, r, l) /\ Stays(m, r) /\ Firm(m, r)

(* No element moves but those that come to chunk c. *)
StaysBut(m, r, c) ==
  \A n \in r.heap \ {c} : \A s \in Slots :
    \/ r.node[n].slot[s] = NULL
    \/ r.node[n].slot[s] \notin HeldBy(m, m.heap)
    \/ n \in m.heap /\ m.node[n].slot[s] = r.node[n].slot[s]

(* No chunk is activated. *)
NoWake(m, r) ==
  \A n \in r.heap : r.node[n].active => n \in m.heap /\ m.node[n].active

(* _getLastElement's loop moves no element. *)
LEMMA DropStep ==
  ASSUME IInv, NEW l \in Lists, CleanupDropTail(l)
  PROVE  /\ MemInv(mem') /\ Quiet(mem, mem', l) /\ NoWake(mem, mem')
         /\ HeldBy(mem', mem'.heap) = HeldBy(mem, mem.heap)
         /\ DropEffect(mem, mem', l, mem.list[l].tail) /\ TailIsEmpty(l)
<1> DEFINE t == mem.list[l].tail
           r == mem'
<1>1. /\ MemInv(mem) /\ mem \in Mem /\ ShapeInv(mem, l) /\ mem.heap \subseteq Nodes
  BY MemTypes DEF IInv, MemInv
<1>2. /\ t # NULL /\ mem.node[t].active /\ Taken(mem.node[t]) = {}
      /\ r = DropEmptyTail(mem, l) /\ t = mem.list[l].tail
  BY DEF CleanupDropTail, TailIsEmpty
<1>3. t \in mem.heap
  BY <1>1, <1>2 DEF ShapeInv, EndsInv, Own
<1> HIDE DEF t, r
<1>4. /\ MemInv(r) /\ Elsewhere(mem, r, l) /\ DropEffect(mem, r, l, t)
      /\ HeldBy(r, r.heap) = HeldBy(mem, mem.heap)
  BY <1>1, <1>2, DropKeeps
<1>5. Stays(mem, r) /\ Steady(mem, r)
  BY <1>1, <1>3, <1>4, DropStays
<1>6. NoWake(mem, r)
  BY <1>1, <1>4 DEF DropEffect, Turn, NoWake
<1>7. TailIsEmpty(l)
  BY DEF CleanupDropTail
<1> QED BY <1>4, <1>5, <1>6, <1>7 DEF Quiet, r, t

(* A move of _cleanupNode brings one element nearer to the head. *)
LEMMA MoveStep ==
  ASSUME IInv, NEW l \in Lists, CleanupMove(l)
  PROVE  /\ MemInv(mem') /\ MovesUp(mem, mem', l) /\ Firm(mem, mem')
         /\ Elsewhere(mem, mem', l) /\ NoWake(mem, mem')
         /\ StaysBut(mem, mem', op[l].cleaning)
         /\ HeldBy(mem', mem'.heap) = HeldBy(mem, mem.heap)
<1> DEFINE t == mem.list[l].tail
           c == op[l].cleaning
           h == FirstFree(mem.node[c])
           k == LastTaken(mem.node[t])
           r == mem'
<1>1. /\ MemInv(mem) /\ OpsInv /\ mem \in Mem /\ mem.heap \subseteq Nodes
      /\ FillInv(mem) /\ ShapeInv(mem, l) /\ NULL \notin Nodes
  BY MemTypes, ConstantsAssumption DEF IInv, MemInv
<1>2. /\ t # NULL /\ mem.node[t].active /\ Taken(mem.node[t]) # {}
      /\ mem.node[t].index >= mem.node[c].index
      /\ mem.node[t].index = mem.node[c].index => h < k
      /\ op[l].pc = "cleanup" /\ mem.node[c].numElements < Capacity
  BY DEF CleanupMove, CanPull, Cleaning
<1>3. r = FreeElementOnNode(
            AllocElementOnNode(mem, c, h, mem.node[t].slot[k]), t, k)
  BY DEF CleanupMove, Pull
<1>4. CleanInv(mem, l, c) /\ t = mem.list[l].tail
  BY <1>1, <1>2 DEF OpsInv, OpPlace
<1>5. /\ c \in Own(mem, l) /\ c \in mem.heap /\ c \in Nodes
      /\ t \in Own(mem, l) /\ t \in mem.heap /\ t \in Nodes
      /\ mem.node[c].threadList = l /\ mem.node[t].threadList = l
  BY <1>1, <1>2, <1>4 DEF CleanInv, ShapeInv, EndsInv, Own
<1>0. mem.node[c].index \in Nat /\ mem.node[t].index \in Nat
  BY <1>1, <1>5, MemTypes
<1>6. mem.node[c].active
  <2>2. ~mem.node[c].active => mem.node[t].index < mem.node[c].index
    BY <1>2, <1>4 DEF CleanInv
  <2> QED BY <1>2, <1>0, <2>2
<1>7. h \in Slots /\ mem.node[c].slot[h] = NULL
  <2>1. Taken(mem.node[c]) # Slots
    <3>1. Cardinality(Taken(mem.node[c])) < Capacity
      BY <1>1, <1>2, <1>5 DEF FillInv
    <3> QED BY <3>1, TakenFinite, ConstantsAssumption
  <2>2. h \in Slots \ Taken(mem.node[c])
    BY <2>1, FirstFreeIs
  <2> QED BY <2>2 DEF Taken
<1>8. k \in Slots /\ mem.node[t].slot[k] # NULL
  <2>1. k \in Taken(mem.node[t])
    BY <1>2, LastTakenIs
  <2> QED BY <2>1 DEF Taken
<1> HIDE DEF t, c, h, k, r
<1>9. /\ MemInv(r) /\ Elsewhere(mem, r, mem.node[t].threadList)
      /\ PullFrame(mem, r, c, t) /\ MoveSlot(mem, r, c, h, t, k)
      /\ HeldBy(r, r.heap) = HeldBy(mem, mem.heap)
  BY <1>1, <1>2, <1>3, <1>5, <1>6, <1>7, <1>8, PullKeeps
<1>10. Elsewhere(mem, r, l)
  BY <1>5, <1>9
<1>11. mem.node[c].index < mem.node[t].index \/ (c = t /\ h < k)
  <2>1. ASSUME mem.node[c].index = mem.node[t].index PROVE c = t
    <3>1. IndexInv(mem, l) /\ mem.node[t].active
      BY <1>1, <1>2 DEF ShapeInv
    <3> QED BY <1>5, <1>6, <2>1, <3>1 DEF IndexInv
  <2>2. CASE mem.node[c].index = mem.node[t].index
    BY <1>2, <2>1, <2>2
  <2>3. CASE mem.node[c].index # mem.node[t].index
    <3> DEFINE i == mem.node[c].index
               j == mem.node[t].index
    <3>1. i \in Nat /\ j \in Nat /\ j >= i /\ i # j
      BY <1>0, <1>2, <2>3
    <3> HIDE DEF i, j
    <3>2. i < j
      BY <3>1
    <3>3. mem.node[c].index < mem.node[t].index
      BY <3>2 DEF i, j
    <3> QED BY <3>3
  <2> QED BY <2>2, <2>3
<1>12. MovesUp(mem, r, l) /\ Firm(mem, r)
  BY <1>1, <1>5, <1>6, <1>7, <1>8, <1>9, <1>10, <1>11, PullUp
<1>13. NoWake(mem, r)
  BY <1>9 DEF PullFrame, NoWake
<1>14. StaysBut(mem, r, c)
  BY <1>9 DEF PullFrame, MoveSlot, StaysBut
<1> QED BY <1>9, <1>10, <1>12, <1>13, <1>14 DEF r, c

(* The end of a compaction for a kernel's walk moves no element. *)
LEMMA DoneVisitStep ==
  ASSUME IInv, NEW l \in Lists, CleanupDone(l), op[l].after = "visit"
  PROVE  /\ MemInv(mem') /\ Calm(mem, mem', l) /\ NoWake(mem, mem')
         /\ HeldBy(mem', mem'.heap) = HeldBy(mem, mem.heap)
         /\ Taken(mem.node[op[l].cleaning]) = 0..(mem.node[op[l].cleaning].numElements - 1)
<1> DEFINE c == op[l].cleaning
           num == mem.node[c].numElements
           r == mem'
<1>1. mem \in Mem /\ mem.heap \subseteq Nodes
  BY MemTypes DEF IInv, MemInv
<1>2. /\ op[l].pc = "cleanup" /\ ~(Cleaning(l) /\ (TailIsEmpty(l) \/ CanPull(l)))
      /\ c = op[l].cleaning /\ num = mem.node[c].numElements
  BY DEF CleanupDone
<1>3. r = Marked(mem, c, num, FALSE)
  BY DEF CleanupDone, Marked
<1> HIDE DEF c, num, r
<1>4. /\ MemInv(r) /\ Elsewhere(mem, r, l)
      /\ MarkEffect(mem, r, c, num, FALSE)
      /\ HeldBy(r, r.heap) = HeldBy(mem, mem.heap)
      /\ Taken(mem.node[c]) = 0..(num - 1) /\ c \in Own(r, l)
  BY <1>2, <1>3, CleanedChunk
<1>5. c \in mem.heap
  BY <1>4 DEF MarkEffect, Own
<1>6. Stays(mem, r) /\ Firm(mem, r)
  BY <1>1, <1>4, <1>5, MarkStays
<1>7. NoWake(mem, r)
  BY <1>1, <1>4 DEF MarkEffect, NoWake
<1> QED BY <1>4, <1>6, <1>7 DEF Calm, r, c, num

(* That for an allocation adds the new element and moves none. *)
LEMMA DoneAllocStep ==
  ASSUME IInv, NEW l \in Lists, CleanupDone(l), op[l].after # "visit"
  PROVE  /\ MemInv(mem') /\ Calm(mem, mem', l)
         /\ HeldBy(mem', mem'.heap) = HeldBy(mem, mem.heap) \cup {op[l].elem}
         /\ op[l].elem \in Elems /\ op[l].elem \notin HeldBy(mem, mem.heap)
<1> DEFINE c == op[l].cleaning
           e == op[l].elem
           num == mem.node[c].numElements
           t == mem.list[l].tail
           g == Marked(mem, c, num, FALSE)
           f == [g EXCEPT !.node[c].firstKnownFree = num + 1]
           r == mem'
<1>1. /\ MemInv(mem) /\ OpsInv /\ ElemInv
      /\ mem \in Mem /\ mem.heap \subseteq Nodes /\ ShapeInv(mem, l)
  BY MemTypes DEF IInv, MemInv
<1>2. op[l].pc = "cleanup" /\ ~(Cleaning(l) /\ (TailIsEmpty(l) \/ CanPull(l)))
  BY DEF CleanupDone
<1>3. r = FinishAlloc(f, l, c, num, e)
  BY DEF CleanupDone, Marked
<1>5. c = op[l].cleaning /\ num = mem.node[c].numElements /\ e = op[l].elem
      /\ t = mem.list[l].tail /\ g = Marked(mem, c, num, FALSE)
  OBVIOUS
<1>5a. f = [g EXCEPT !.node[c].firstKnownFree = num + 1]
  OBVIOUS
<1> HIDE DEF c, num, r, e, t, g, f
<1>6. /\ num \in Nat /\ num <= Capacity /\ g \in Mem /\ MemInv(g) /\ Elsewhere(mem, g, l)
      /\ MarkEffect(mem, g, c, num, FALSE)
      /\ HeldBy(g, g.heap) = HeldBy(mem, mem.heap)
      /\ Taken(mem.node[c]) = 0..(num - 1) /\ c \in Own(g, l)
  BY <1>2, <1>5, CleanedChunk
<1>7. /\ OpPlace(mem, l, op[l])
      /\ e \in Elems /\ e \notin HeldBy(mem, mem.heap)
  <2>1. OpControl(phase, op[l]) /\ OpPlace(mem, l, op[l])
    BY <1>1 DEF OpsInv
  <2>2. e \in Elems /\ e # NULL
    BY <1>2, <1>5, <2>1, ConstantsAssumption DEF OpControl
  <2> QED BY <1>1, <1>5, <2>1, <2>2 DEF ElemInv
<1>8. /\ CleanInv(mem, l, c) /\ AllocInv(mem, l, c)
      /\ c \in Own(mem, l) /\ c \in mem.heap /\ c \in Nodes /\ t # NULL
      /\ t \in Own(mem, l) /\ t \in Nodes
  BY <1>1, <1>2, <1>5, <1>7 DEF OpPlace, CleanInv, Own, ShapeInv, EndsInv
<1>9. num \in Slots /\ num \notin Taken(mem.node[c])
  <2>1. num < Capacity
    BY <1>5, <1>8 DEF AllocInv
  <2> QED BY <1>6, <2>1, ConstantsAssumption DEF Slots
<1>10. /\ g.heap = mem.heap /\ g.list = mem.list
       /\ \A z \in Nodes \ {c} : g.node[z] = mem.node[z]
       /\ g.node[c].slot = mem.node[c].slot
       /\ g.node[c].next = mem.node[c].next
       /\ g.node[c].active = mem.node[c].active
       /\ g.node[c].index = mem.node[c].index
       /\ g.node[c].firstKnownFree = num /\ g.node[c].dirty = FALSE
  BY Zenon, <1>5, <1>6 DEF MarkEffect
<1>11. f = Noted(g, c)
  BY <1>5a, <1>10 DEF Noted
<1>12. f \in Mem /\ MarkEffect(g, f, c, num + 1, FALSE)
  BY <1>6, <1>8, <1>10, <1>11, NotedFields
<1>13. /\ MemInv(f) /\ Elsewhere(g, f, l)
       /\ HeldBy(f, f.heap) = HeldBy(g, g.heap)
       /\ c \in Own(f, l)
  <2>1. c \in g.heap /\ g.node[c].threadList = l
    BY <1>6 DEF Own
  <2> QED BY <1>6, <1>12, <2>1, MarkKeeps
<1>14. /\ f.heap = mem.heap /\ f.list = mem.list
       /\ \A z \in Nodes \ {c} : f.node[z] = mem.node[z]
       /\ f.node[c].slot = mem.node[c].slot
       /\ f.node[c].active = mem.node[c].active
       /\ f.node[c].next = mem.node[c].next
       /\ f.node[c].index = mem.node[c].index
  BY <1>10, <1>12 DEF MarkEffect
<1>15. FinishesAt(f, l, c)
  <2>1. f.list[l].tail = t
    BY <1>5, <1>14
  <2>2. CASE mem.node[c].active
    BY <1>5, <1>8, <1>14, <2>1, <2>2 DEF AllocInv, FinishesAt
  <2>3. CASE ~mem.node[c].active /\ ~mem.node[t].active
    <3>1. c = t
      BY <1>5, <1>8, <2>3 DEF AllocInv
    <3> QED BY <1>8, <1>14, <2>1, <2>3, <3>1 DEF FinishesAt, NextToWake
  <2>4. CASE ~mem.node[c].active /\ mem.node[t].active
    <3>1. /\ c = mem.node[t].next /\ c # t
          /\ mem.node[c].index = mem.node[t].index + 1
      BY <1>5, <1>8, <2>4 DEF AllocInv
    <3>2. f.node[t] = mem.node[t]
      BY <1>8, <1>14, <3>1
    <3>3. NextToWake(f, l) = c
      BY <2>1, <2>4, <3>1, <3>2 DEF NextToWake
    <3> QED BY <1>8, <1>14, <2>1, <2>4, <3>1, <3>2, <3>3 DEF FinishesAt
  <2> QED BY <2>2, <2>3, <2>4
<1>16. e \notin HeldBy(f, f.heap)
  BY <1>6, <1>7, <1>13
<1>17. /\ MemInv(r) /\ Elsewhere(f, r, l) /\ FinishFrame(f, r, l, c, num)
       /\ PutAt(f, r, c, num, e)
       /\ HeldBy(r, r.heap) = HeldBy(f, f.heap) \cup {e}
  <2>1. f.node[c].slot[num] = NULL
    BY <1>9, <1>14 DEF Taken
  <2>3. MemInv(f) /\ c \in Own(f, l) /\ num \in Slots /\ e \in Elems
    BY <1>7, <1>9, <1>13
  <2> QED BY <1>3, <1>15, <1>16, <2>1, <2>3, FinishKeeps
<1>18. Elsewhere(mem, r, l)
  <2>1. Elsewhere(mem, f, l)
    BY <1>6, <1>13, ElsewhereTransitive
  <2> QED BY <1>17, <2>1, ElsewhereTransitive
<1>19. /\ HeldBy(r, r.heap) = HeldBy(mem, mem.heap) \cup {e}
       /\ HeldBy(mem, mem.heap) \subseteq HeldBy(g, g.heap)
       /\ HeldBy(mem, mem.heap) \subseteq HeldBy(f, f.heap)
  BY <1>6, <1>13, <1>17
<1>20. Stays(mem, g) /\ Firm(mem, g)
  BY <1>1, <1>6, <1>8, MarkStays
<1>21. Stays(g, f) /\ Firm(g, f)
  BY <1>6, <1>8, <1>10, <1>12, MarkStays
<1>22. Stays(mem, f) /\ Firm(mem, f)
  BY <1>19, <1>20, <1>21, StaysTransitive
<1>23. Stays(f, r) /\ Firm(f, r)
  BY <1>8, <1>9, <1>12, <1>14, <1>16, <1>17, FinishStays
<1>24. Stays(mem, r) /\ Firm(mem, r)
  BY <1>19, <1>22, <1>23, StaysTransitive
<1> QED BY <1>7, <1>17, <1>18, <1>19, <1>24 DEF Calm, r, e

(* pufree takes one element away and moves none. *)
LEMMA FreeStep ==
  ASSUME IInv, NEW n \in mem.heap, NEW s \in Slots, mem.node[n].slot[s] # NULL,
         NEW l, l = mem.node[n].threadList, mem' = FreeElementOnNode(mem, n, s)
  PROVE  /\ MemInv(mem') /\ Calm(mem, mem', l)
         /\ HeldBy(mem', mem'.heap) = HeldBy(mem, mem.heap) \ {mem.node[n].slot[s]}
<1> DEFINE r == mem'
           e == mem.node[n].slot[s]
<1>1. MemInv(mem) /\ mem.node[n].slot[s] = e /\ e # NULL
  BY DEF IInv
<1>2. r = FreeElementOnNode(mem, n, s)
  OBVIOUS
<1> HIDE DEF r, e
<1>3. /\ MemInv(r) /\ Elsewhere(mem, r, mem.node[n].threadList)
      /\ FreeFrame(mem, r, n) /\ n \in r.heap /\ PutAt(mem, r, n, s, NULL)
      /\ HeldBy(r, r.heap) = HeldBy(mem, mem.heap) \ {e}
  BY <1>1, <1>2, FreeKeeps
<1>4. Stays(mem, r) /\ Firm(mem, r)
  BY <1>3, FreeStays
<1> QED BY <1>3, <1>4 DEF Calm, r, e

(* pumalloc moves no element either: it adds the new one, or goes on to   *)
(* compact a chunk first.                                                 *)
AllocOutcome(l, e, after, locals) ==
  \/ /\ HeldBy(mem', mem'.heap) = HeldBy(mem, mem.heap) \cup {e}
     /\ op' = [op EXCEPT ![l] = locals]
  \/ /\ HeldBy(mem', mem'.heap) = HeldBy(mem, mem.heap)
     /\ \E t : op' = [op EXCEPT ![l].pc = "cleanup", ![l].cleaning = t,
                                ![l].after = after, ![l].elem = e]

(* What pumalloc leads to. *)
LEMMA AllocStep ==
  ASSUME IInv, NEW l \in Lists, NEW e \in Fresh, NEW after, NEW locals,
         op[l].pc # "cleanup", PumallocOnThreadList(l, e, after, locals)
  PROVE  /\ MemInv(mem') /\ Calm(mem, mem', l) /\ AllocOutcome(l, e, after, locals)
         /\ e \in Elems /\ e \notin HeldBy(mem, mem.heap)
<1> DEFINE m == TakeSlot(l)
           t == m.list[l].tail
           i == m.node[t].firstKnownFree - 1
<1>1. /\ MemInv(mem) /\ OpsInv /\ ElemInv /\ PackedInv
      /\ mem \in Mem /\ mem.heap \subseteq Nodes /\ NULL \notin Nodes /\ NULL \notin Elems
  BY MemTypes, ConstantsAssumption DEF IInv, MemInv
<1>2. e \in Elems /\ e # NULL /\ e \notin HeldBy(mem, mem.heap)
  BY <1>1, LiveIs DEF Fresh
<1>3. \A k \in Lists : op[k].pc = "cleanup" => op[k].cleaning \in Own(mem, k)
  BY <1>1 DEF OpsInv, OpPlace, CleanInv
<1>4. Room(l)
  BY DEF PumallocOnThreadList
<1>5. m = TakeSlot(l)
  OBVIOUS
<1>6. \/ i < Capacity /\ mem' = FinishAlloc(m, l, t, i, e) /\ op' = [op EXCEPT ![l] = locals]
      \/ /\ i >= Capacity /\ mem' = m
         /\ op' = [op EXCEPT ![l].pc = "cleanup", ![l].cleaning = t,
                             ![l].after = after, ![l].elem = e]
  BY DEF PumallocOnThreadList
<1> HIDE DEF m
<1>7. PICK n \in Own(m, l) :
           /\ MemInv(m) /\ Elsewhere(mem, m, l) /\ TakeFrame(mem, m, l, n)
           /\ HeldBy(m, m.heap) = HeldBy(mem, mem.heap)
           /\ \/ MustAppend(l) /\ Appended(mem, m, l, n)
              \/ ~MustAppend(l) /\ Reused(mem, m, l, n)
  BY <1>1, <1>4, <1>5, TakeKeeps
<1>8. /\ m \in Mem /\ n \in Nodes /\ n \in m.heap /\ m.node[n].threadList = l /\ t = n
  BY <1>7, MemTypes DEF MemInv, Own, TakeFrame
<1> HIDE DEF t
<1>9. Stays(mem, m) /\ Firm(mem, m)
  BY <1>7, TakeStays
<1>10. ASSUME n \in mem.heap PROVE mem.node[n].threadList = l
  BY <1>1, <1>7, <1>8, <1>10, SameOwner DEF Own
<1>11. \A k \in Lists : op[k].cleaning # n
  <2> SUFFICES ASSUME NEW k \in Lists, op[k].cleaning = n PROVE FALSE
    OBVIOUS
  <2>1. op[k].pc = "cleanup"
    BY <1>1, <1>8 DEF OpsInv, OpControl
  <2>2. n \in Own(mem, k)
    BY <1>3, <2>1
  <2> QED BY <1>10, <2>1, <2>2 DEF Own
<1>12. n \in mem.heap => PackedNode(mem.node[n])
  BY <1>1, <1>11 DEF PackedInv
<1>13. CASE /\ i < Capacity /\ mem' = FinishAlloc(m, l, t, i, e)
            /\ op' = [op EXCEPT ![l] = locals]
  <2>1. i \in Slots /\ m.node[n].slot[i] = NULL
    <3>1. i = m.node[n].firstKnownFree - 1
      BY <1>8
    <3>2. i < Capacity
      BY <1>13
    <3> HIDE DEF i
    <3>3. SlotReady(m.node[n], i)
      BY <1>1, <1>7, <1>12, <3>1, <3>2, TakenSlotFree
    <3> QED BY <3>3 DEF SlotReady
  <2> HIDE DEF i
  <2>2. mem' = FinishAlloc(m, l, n, i, e) /\ e \notin HeldBy(m, m.heap)
    BY <1>2, <1>7, <1>8, <1>13
  <2>3. FinishesAt(m, l, n)
    BY <1>1, <1>8 DEF t, FinishesAt, NextToWake
  <2> DEFINE r == mem'
  <2>4. r = FinishAlloc(m, l, n, i, e)
    BY <2>2
  <2> HIDE DEF r
  <2>5. /\ MemInv(r) /\ Elsewhere(m, r, l) /\ FinishFrame(m, r, l, n, i)
        /\ PutAt(m, r, n, i, e)
        /\ HeldBy(r, r.heap) = HeldBy(m, m.heap) \cup {e}
    BY <1>2, <1>7, <2>1, <2>2, <2>3, <2>4, FinishKeeps
  <2>6. Elsewhere(mem, r, l)
    BY <1>7, <2>5, ElsewhereTransitive
  <2>7. Stays(m, r) /\ Firm(m, r)
    BY <1>8, <2>1, <2>2, <2>5, FinishStays
  <2>8. HeldBy(mem, mem.heap) \subseteq HeldBy(m, m.heap)
    BY <1>7
  <2>9. Stays(mem, r) /\ Firm(mem, r)
    BY <1>9, <2>7, <2>8, StaysTransitive
  <2>10. HeldBy(r, r.heap) = HeldBy(mem, mem.heap) \cup {e}
    BY <1>7, <2>5
  <2>11. AllocOutcome(l, e, after, locals)
    BY <1>13, <2>10 DEF AllocOutcome, r
  <2> QED BY <1>2, <2>5, <2>6, <2>9, <2>11 DEF Calm, r
<1>14. CASE /\ i >= Capacity /\ mem' = m
            /\ op' = [op EXCEPT ![l].pc = "cleanup", ![l].cleaning = t,
                                ![l].after = after, ![l].elem = e]
  <2>1. HeldBy(mem', mem'.heap) = HeldBy(mem, mem.heap)
    BY <1>7, <1>14
  <2>2. AllocOutcome(l, e, after, locals)
    BY <1>14, <2>1 DEF AllocOutcome
  <2>3. MemInv(mem') /\ Calm(mem, mem', l)
    BY <1>7, <1>9, <1>14 DEF Calm
  <2> QED BY <1>2, <2>2, <2>3
<1> QED BY <1>6, <1>13, <1>14

(* A transfer moves chunks between the lists, but no element to another   *)
(* address.                                                               *)
LEMMA TransferStep ==
  ASSUME IInv, NEW k \in Nat, NEW from \in Lists, NEW to \in Lists, Transfer(k, from, to)
  PROVE  /\ MemInv(mem') /\ Stays(mem, mem')
         /\ HeldBy(mem', mem'.heap) = HeldBy(mem, mem.heap)
<1>1. /\ phase = "balance" /\ from # to /\ k > 0 /\ mem.list[from].numNodes >= k
      /\ mem' = TransferNNodes(mem, k, from, to)
  BY DEF Transfer
<1>2. MemInv(mem) /\ mem \in Mem /\ mem.heap \subseteq Nodes
  BY MemTypes DEF IInv, MemInv
<1>3. PICK d \in Nat : d + k = mem.list[from].numNodes
  <2>1. mem.list[from].numNodes \in Nat
    BY <1>2, MemTypes
  <2>2. mem.list[from].numNodes - k \in Nat
        /\ (mem.list[from].numNodes - k) + k = mem.list[from].numNodes
    BY <1>1, <2>1
  <2> QED BY <2>2
<1>4. k \in Nat \ {0}
  BY <1>1
<1>5. PICK r : r = mem'
  OBVIOUS
<1>6. r = TransferNNodes(mem, k, from, to)
  BY <1>1, <1>5
<1>7. PICK b : b = mem.list[to].numNodes
  OBVIOUS
<1>8. \E s, e, f, x, t, y :
        Transferred(mem, r, from, to, k, d, mem.list[to].numNodes, s, e, f, x, t, y)
  BY <1>1, <1>2, <1>3, <1>4, <1>6, TransferFields
<1>9. PICK s, e, f, x, t, y : Transferred(mem, r, from, to, k, d, b, s, e, f, x, t, y)
  BY <1>7, <1>8
<1>10. \A l \in Lists : ShapeInv(r, l)
  BY <1>1, <1>2, <1>3, <1>7, <1>9, TransferShape
<1>11. FillInv(r) /\ StoredOnce(r) /\ CountInv(r)
  BY <1>1, <1>2, <1>9, TransferCount
<1>12. MovedNodes(mem, r, LastOnes(mem, from, d), d, b, to, x, t)
  BY <1>9 DEF Transferred
<1>13. MemInv(r)
  BY <1>10, <1>11, <1>12 DEF MemInv, MovedNodes
<1>14. r.heap = mem.heap /\ \A z \in mem.heap : r.node[z].slot = mem.node[z].slot
  BY <1>2, <1>12 DEF MovedNodes
<1>15. Stays(mem, r)
  BY <1>14 DEF Stays
<1>16. HeldBy(r, r.heap) = HeldBy(mem, mem.heap)
  BY <1>14 DEF HeldBy, Held, Taken
<1> QED BY <1>5, <1>13, <1>15, <1>16

-----------------------------------------------------------------------------
(* Compaction moves elements towards the head. *)

(* What CompactsTowardsHead says of a step. *)
TowardsHead ==
  phase # "destroyed" /\ phase' # "destroyed" =>
    \A e \in Elems : \A a \in Where(e), b \in Where(e)' :
      a = b \/ /\ op[mem.node[a[1]].threadList].pc = "cleanup"
               /\ mem.node[a[1]].threadList = mem.node[b[1]].threadList
               /\ Precedes(b[1], b[2], a[1], a[2])

(* An address is a chunk and a slot. *)
LEMMA AddressIs ==
  ASSUME NEW e
  PROVE  /\ \A a \in Where(e) : /\ a = <<a[1], a[2]>> /\ a[1] \in mem.heap
                                /\ a[2] \in Slots /\ mem.node[a[1]].slot[a[2]] = e
         /\ \A b \in Where(e)' : /\ b = <<b[1], b[2]>> /\ b[1] \in mem'.heap
                                 /\ b[2] \in Slots /\ mem'.node[b[1]].slot[b[2]] = e
BY DEF Where

(* An element that was there before a step that moves none is where it was. *)
LEMMA StaysPut ==
  ASSUME MemInv(mem), Stays(mem, mem'), NEW e \in Elems, NEW a \in Where(e),
         NEW b \in Where(e)'
  PROVE  a = b
<1>1. /\ a = <<a[1], a[2]>> /\ a[1] \in mem.heap
      /\ a[2] \in Slots /\ mem.node[a[1]].slot[a[2]] = e
      /\ b = <<b[1], b[2]>> /\ b[1] \in mem'.heap
      /\ b[2] \in Slots /\ mem'.node[b[1]].slot[b[2]] = e
  BY AddressIs
<1>2. e # NULL
  BY ConstantsAssumption
<1>3. e \in HeldBy(mem, mem.heap)
  BY <1>1, <1>2, HeldMember
<1>4. b[1] \in mem.heap /\ mem.node[b[1]].slot[b[2]] = e
  BY <1>1, <1>2, <1>3 DEF Stays
<1>5. a[1] = b[1] /\ a[2] = b[2]
  BY <1>1, <1>2, <1>4 DEF MemInv, StoredOnce
<1> QED BY <1>1, <1>5

(* A move of _cleanupNode brings its element nearer to the head. *)
LEMMA MovePrecedes ==
  ASSUME IInv, NEW l \in Lists, CleanupMove(l), NEW e \in Elems, NEW a \in Where(e),
         NEW b \in Where(e)', a # b
  PROVE  /\ op[mem.node[a[1]].threadList].pc = "cleanup"
         /\ mem.node[a[1]].threadList = mem.node[b[1]].threadList
         /\ Precedes(b[1], b[2], a[1], a[2])
<1> DEFINE r == mem'
<1>1. /\ a = <<a[1], a[2]>> /\ a[1] \in mem.heap
      /\ a[2] \in Slots /\ mem.node[a[1]].slot[a[2]] = e
      /\ b = <<b[1], b[2]>> /\ b[1] \in r.heap
      /\ b[2] \in Slots /\ r.node[b[1]].slot[b[2]] = e
  BY AddressIs
<1>2. e # NULL
  BY ConstantsAssumption
<1>3. /\ MemInv(r) /\ MovesUp(mem, r, l) /\ Elsewhere(mem, r, l)
  BY MoveStep
<1> HIDE DEF r
<1>4. MemInv(mem) /\ mem \in Mem /\ r \in Mem /\ mem.heap \subseteq Nodes /\ r.heap \subseteq Nodes
  BY <1>3, MemTypes DEF IInv, MemInv
<1>5. e \in HeldBy(mem, mem.heap)
  BY <1>1, <1>2, HeldMember
<1>6. op[l].pc = "cleanup"
  BY DEF CleanupMove, Cleaning
<1>7. ~(a[1] = b[1] /\ a[2] = b[2])
  BY <1>1
<1>8. b[1] \in Own(r, l)
  <2> DEFINE k == r.node[b[1]].threadList
  <2>1. k \in Lists /\ b[1] \in Own(r, k)
    BY <1>1, <1>4, MemTypes DEF Own
  <2>2. ASSUME k # l PROVE FALSE
    <3>1. SameList(mem, r, k)
      BY <1>3, <2>1, <2>2 DEF Elsewhere
    <3>2. b[1] \in mem.heap /\ mem.node[b[1]].slot[b[2]] = e
      BY <1>1, <2>1, <3>1 DEF SameList, Own
    <3> QED BY <1>1, <1>2, <1>4, <1>7, <3>2 DEF MemInv, StoredOnce
  <2> QED BY <2>1, <2>2
<1>9. PICK n \in Own(mem, l), j \in Slots :
             mem.node[n].slot[j] = e /\ Before(mem, b[1], b[2], n, j)
  BY <1>1, <1>2, <1>5, <1>3, <1>8 DEF MovesUp
<1>10. n = a[1] /\ j = a[2]
  BY <1>1, <1>2, <1>4, <1>9 DEF MemInv, StoredOnce, Own
<1>11. b[1] \in mem.heap
  BY <1>1, <1>2, <1>5, <1>3, <1>8 DEF MovesUp
<1>12. mem.node[a[1]].threadList = l /\ mem.node[b[1]].threadList = l
  <2>1. r.node[b[1]].threadList = mem.node[b[1]].threadList
    BY <1>1, <1>3, <1>4, <1>11, SameOwner
  <2> QED BY <1>8, <1>9, <1>10, <2>1 DEF Own
<1>13. Precedes(b[1], b[2], a[1], a[2])
  <2>1. a[2] \in Nat /\ b[2] \in Nat
    BY <1>1, ConstantsAssumption DEF Slots
  <2>2. CASE mem.node[b[1]].index < mem.node[n].index
    BY <1>10, <2>2 DEF Precedes
  <2>3. CASE b[1] = n /\ b[2] <= j
    <3>1. b[2] # a[2] /\ b[2] <= a[2]
      BY <1>7, <1>10, <2>3
    <3>2. b[2] < a[2]
      BY <2>1, <3>1
    <3> QED BY <1>10, <2>3, <3>2 DEF Precedes
  <2> QED BY <1>9, <2>2, <2>3 DEF Before
<1> QED BY <1>6, <1>12, <1>13

(* A step that leaves the memory as it is. *)
LEMMA SameStays ==
  ASSUME NEW m
  PROVE  Stays(m, m) /\ Firm(m, m)
BY DEF Stays, Firm

(* A call that is not a compaction is not a round of one. *)
LEMMA VisitsPc ==
  ASSUME NEW l, VisitsNext(l)
  PROVE  op[l].pc = "visit"
BY DEF VisitsNext

(* Every step but a move of _cleanupNode leaves the elements where they are. *)
LEMMA OthersStay ==
  ASSUME IInv, Next, phase # "destroyed", phase' # "destroyed",
         \A l \in Lists : ~CleanupMove(l)
  PROVE  Stays(mem, mem')
<1>1. ASSUME NEW l \in Lists, ThreadStep(l) PROVE Stays(mem, mem')
  <2>1. CASE CleanupDropTail(l)
    BY <2>1, DropStep DEF Quiet
  <2>2. CASE CleanupDone(l)
    <3>1. CASE op[l].after = "visit"
      BY <2>2, <3>1, DoneVisitStep DEF Calm
    <3>2. CASE op[l].after # "visit"
      BY <2>2, <3>2, DoneAllocStep DEF Calm
    <3> QED BY <3>1, <3>2
  <2>3. CASE KernelWalk(l) \/ KernelKeep(l) \/ LeaveNode(l)
    <3>1. mem' = mem
      BY <2>3 DEF KernelWalk, KernelKeep, LeaveNode
    <3> QED BY <3>1, SameStays
  <2>4. CASE \E n \in Nodes, s \in Slots : KernelFree(l, n, s)
    <3>1. PICK n \in Nodes, s \in Slots : KernelFree(l, n, s)
      BY <2>4
    <3>2. /\ n \in mem.heap /\ mem.node[n].slot[s] # NULL
          /\ mem' = FreeElementOnNode(mem, n, s)
      BY <3>1 DEF KernelFree
    <3> QED BY <3>2, FreeStep DEF Calm
  <2>5. CASE \E e \in Fresh : KernelAlloc(l, e)
    <3>1. PICK e \in Fresh : KernelAlloc(l, e)
      BY <2>5
    <3>2. /\ op[l].pc # "cleanup"
          /\ PumallocOnThreadList(l, e, "kernelAlloc", NextSlot(l))
      BY <3>1, VisitsPc DEF KernelAlloc
    <3> QED BY <3>2, AllocStep DEF Calm
  <2> QED BY <1>1, <2>1, <2>2, <2>3, <2>4, <2>5 DEF ThreadStep
<1>2. ASSUME NEW l \in Lists, NEW e \in Fresh, Pumalloc(l, e) PROVE Stays(mem, mem')
  <2>1. op[l].pc # "cleanup" /\ PumallocOnThreadList(l, e, "alloc", IdleOp)
    BY <1>2 DEF Pumalloc
  <2> QED BY <2>1, AllocStep DEF Calm
<1>3. ASSUME NEW n \in Nodes, NEW s \in Slots, Pufree(n, s) PROVE Stays(mem, mem')
  <2>1. /\ n \in mem.heap /\ mem.node[n].slot[s] # NULL
        /\ mem' = FreeElementOnNode(mem, n, s)
    BY <1>3 DEF Pufree
  <2> QED BY <2>1, FreeStep DEF Calm
<1>4. ASSUME NEW from \in Lists, NEW to \in Lists, NEW k \in 1..Cardinality(Nodes),
             Transfer(k, from, to)
      PROVE  Stays(mem, mem')
  <2>1. k \in Nat
    BY ConstantsAssumption, FS_CardinalityType
  <2> QED BY <1>4, <2>1, TransferStep
<1>5. ASSUME RunKernel \/ (\E k \in Kernels : StartKernel(k)) \/ KernelReturns
      PROVE  Stays(mem, mem')
  <2>1. mem' = mem
    BY <1>5 DEF RunKernel, StartKernel, KernelReturns
  <2> QED BY <2>1, SameStays
<1>6. ~DestroyPumaSet /\ ~CreatePumaSet
  BY DEF DestroyPumaSet, CreatePumaSet
<1> QED BY <1>1, <1>2, <1>3, <1>4, <1>5, <1>6 DEF Next

(* Every step respects the order. *)
LEMMA StepTowardsHead ==
  ASSUME IInv, [Next]_vars
  PROVE  TowardsHead
<1> SUFFICES ASSUME phase # "destroyed", phase' # "destroyed", NEW e \in Elems,
                    NEW a \in Where(e), NEW b \in Where(e)', a # b
             PROVE  /\ op[mem.node[a[1]].threadList].pc = "cleanup"
                    /\ mem.node[a[1]].threadList = mem.node[b[1]].threadList
                    /\ Precedes(b[1], b[2], a[1], a[2])
  BY DEF TowardsHead
<1>1. MemInv(mem)
  BY DEF IInv
<1>2. CASE \E l \in Lists : CleanupMove(l)
  BY <1>2, MovePrecedes
<1>3. CASE Next /\ \A l \in Lists : ~CleanupMove(l)
  <2>1. Stays(mem, mem')
    BY <1>3, OthersStay
  <2> QED BY <1>1, <2>1, StaysPut
<1>4. CASE UNCHANGED vars
  <2>1. Stays(mem, mem')
    BY <1>4, SameStays DEF vars
  <2> QED BY <1>1, <2>1, StaysPut
<1> QED BY <1>2, <1>3, <1>4

(* A pointer into the set goes stale by compaction only, and compaction   *)
(* moves an element towards the head of its own list: no allocation,      *)
(* deletion or transfer of chunks between lists moves any other element.  *)
THEOREM CompactionOrder ==
  ASSUME AllowDrainedTail = FALSE
  PROVE  Spec => CompactsTowardsHead
<1>1. ASSUME IInv, [Next]_vars PROVE [TowardsHead]_vars
  BY <1>1, StepTowardsHead
<1>2. Spec => []IInv
  BY Inductive
<1> QED BY <1>1, <1>2, PTL DEF Spec, CompactsTowardsHead, TowardsHead

-----------------------------------------------------------------------------
(* No element is visited twice. *)

(* What was in the set when the kernel began and was not freed is still   *)
(* there, and a kernel has not visited what it has ahead of it.           *)
OnceInv ==
  phase = "kernel" =>
    /\ owed \subseteq HeldBy(mem, mem.heap)
    /\ \A e \in owed : visits[e] <= 1
    /\ \A l \in Lists : \A e \in AheadIn(mem, l, op[l]) :
         e \in owed => visits[e] = 0

(* A chunk under a kernel. *)
LEMMA KernelNode ==
  ASSUME IInv, phase = "kernel", NEW l \in Lists,
         op[l].pc \in {"walk", "visit", "cleanup"}, op[l].currentNode # NULL
  PROVE  op[l].currentNode \in Own(mem, l)
<1>1. OpControl(phase, op[l]) /\ OpPlace(mem, l, op[l])
  BY DEF IInv, OpsInv
<1>2. op[l].pc = "cleanup" => op[l].after \in {"visit", "kernelAlloc"}
  BY <1>1 DEF OpControl, OpRecord
<1> QED BY <1>1, <1>2 DEF OpPlace

(* The slot a kernel comes to next is a number. *)
LEMMA FromIsNat ==
  ASSUME NEW o \in OpRecord
  PROVE  From(o) \in Nat
BY DEF From, OpRecord

(* Behind the next slot lies all but that one. *)
LEMMA OneLess ==
  ASSUME NEW m, MemInv(m), NEW l, NEW c \in Own(m, l), NEW i \in Slots
  PROVE  AheadOf(m, l, c, i + 1) \subseteq AheadOf(m, l, c, i) \ {m.node[c].slot[i]}
<1>1. i \in Nat /\ m.node[c].index \in Nat
  <2>1. c \in Nodes /\ m \in Mem
    BY MemTypes DEF MemInv, Own
  <2> QED BY <2>1, MemTypes, ConstantsAssumption DEF Slots
<1> SUFFICES ASSUME NEW e \in AheadOf(m, l, c, i + 1)
             PROVE  e \in AheadOf(m, l, c, i) /\ e # m.node[c].slot[i]
  OBVIOUS
<1>2. PICK n \in Own(m, l), s \in Slots : m.node[n].slot[s] = e /\ Past(m, c, i + 1, n, s)
  BY DEF AheadOf
<1>3. s \in Nat /\ m.node[n].index \in Nat
  <2>1. n \in Nodes /\ m \in Mem
    BY MemTypes DEF MemInv, Own
  <2> QED BY <2>1, MemTypes, ConstantsAssumption DEF Slots
<1>4. Past(m, c, i, n, s) /\ ~(n = c /\ s = i)
  <2>1. CASE m.node[n].index > m.node[c].index
    <3>1. n # c
      BY <1>1, <2>1
    <3> QED BY <2>1, <3>1 DEF Past
  <2>2. CASE n = c /\ s >= i + 1
    <3>1. s >= i /\ s # i
      BY <1>1, <1>3, <2>2
    <3> QED BY <2>2, <3>1 DEF Past
  <2> QED BY <1>2, <2>1, <2>2 DEF Past
<1>5. e \in AheadOf(m, l, c, i)
  BY <1>2, <1>4 DEF AheadOf
<1>6. e # m.node[c].slot[i]
  <2>1. e # NULL
    BY ConstantsAssumption DEF AheadOf
  <2>2. n \in m.heap /\ c \in m.heap
    BY DEF Own
  <2> QED BY <1>2, <1>4, <2>1, <2>2 DEF MemInv, StoredOnce
<1> QED BY <1>5, <1>6

(* Where a visit takes place. *)
LEMMA VisitsWhere ==
  ASSUME IInv, NEW l \in Lists, VisitsNext(l), NEW c, c = op[l].currentNode,
         NEW i, i = op[l].i, NEW v, v = Visited(l)
  PROVE  /\ phase = "kernel" /\ op[l] \in OpRecord
         /\ c \in Own(mem, l) /\ c \in mem.heap /\ mem.node[c].active
         /\ i \in Slots /\ i \in Nat /\ v = mem.node[c].slot[i]
         /\ v \in Elems /\ v # NULL
         /\ AheadIn(mem, l, op[l]) = AheadOf(mem, l, c, i)
         /\ v \in AheadIn(mem, l, op[l])
<1>1. op[l].pc = "visit" /\ i < Capacity /\ v = mem.node[c].slot[i] /\ v # NULL
  BY DEF VisitsNext, Visited
<1>2. /\ phase = "kernel" /\ op[l] \in OpRecord /\ OpPlace(mem, l, op[l])
      /\ MemInv(mem) /\ mem \in Mem /\ mem.heap \subseteq Nodes
  BY <1>1, InKernel
<1>3. c \in Own(mem, l) /\ c \in mem.heap /\ c \in Nodes
  BY <1>1, <1>2 DEF OpPlace, Own
<1>4. i \in Nat /\ i \in Slots
  <2>1. i \in Nat
    BY <1>2 DEF OpRecord
  <2> QED BY <1>1, <2>1, ConstantsAssumption DEF Slots
<1>5. i \in Taken(mem.node[c])
  BY <1>1, <1>4 DEF Taken
<1>6. mem.node[c].active
  BY <1>2, <1>3, <1>5 DEF MemInv, FillInv
<1>7. v \in Elems
  <2>1. mem.node[c].slot \in [Slots -> Elems \cup {NULL}]
    BY <1>2, <1>3, MemTypes
  <2> QED BY <1>1, <1>4, <2>1
<1>8. c # NULL
  BY <1>3, ConstantsAssumption
<1>9. AheadIn(mem, l, op[l]) = AheadOf(mem, l, c, i)
  BY <1>1, <1>6, <1>8 DEF AheadIn, From
<1>10. v \in AheadOf(mem, l, c, i)
  <2>1. Past(mem, c, i, c, i)
    BY <1>4 DEF Past
  <2> QED BY <1>1, <1>3, <1>4, <1>7, <2>1 DEF AheadOf
<1> QED BY <1>1, <1>2, <1>3, <1>4, <1>6, <1>7, <1>9, <1>10

(* What the other lists hold ahead of their kernels. *)
LEMMA OthersAhead ==
  ASSUME IInv, phase = "kernel", NEW l \in Lists, NEW r, Elsewhere(mem, r, l),
         NEW k \in Lists \ {l}
  PROVE  AheadIn(r, k, op[k]) = AheadIn(mem, k, op[k])
<1>1. SameList(mem, r, k)
  BY DEF Elsewhere
<1>2. op[k].pc \in {"walk", "visit", "cleanup"} /\ op[k].currentNode # NULL
        => op[k].currentNode \in Own(mem, k)
  BY KernelNode
<1> QED BY <1>1, <1>2, AheadElsewhere

(* A step that visits nothing: what it has ahead grows by new elements only. *)
LEMMA OnceQuiet ==
  ASSUME IInv, OnceInv, phase = "kernel", visits' = visits, owed' = owed,
         NEW l \in Lists, Elsewhere(mem, mem', l),
         \A k \in Lists \ {l} : op'[k] = op[k],
         HeldBy(mem, mem.heap) \subseteq HeldBy(mem', mem'.heap),
         AheadIn(mem', l, op'[l]) \subseteq
           AheadIn(mem, l, op[l]) \cup (Elems \ HeldBy(mem, mem.heap))
  PROVE  OnceInv'
<1> DEFINE r == mem'
<1>1. /\ owed \subseteq HeldBy(mem, mem.heap) /\ \A e \in owed : visits[e] <= 1
      /\ \A k \in Lists : \A e \in AheadIn(mem, k, op[k]) : e \in owed => visits[e] = 0
  BY DEF OnceInv
<1>2. owed \subseteq HeldBy(r, r.heap)
  BY <1>1
<1>3. ASSUME NEW k \in Lists, NEW e \in AheadIn(r, k, op'[k]), e \in owed
      PROVE  visits[e] = 0
  <2>1. CASE k = l
    BY <1>1, <1>3, <2>1
  <2>2. CASE k # l
    <3>1. AheadIn(r, k, op[k]) = AheadIn(mem, k, op[k]) /\ op'[k] = op[k]
      BY <2>2, OthersAhead
    <3> QED BY <1>1, <1>3, <3>1
  <2> QED BY <2>1, <2>2
<1> QED BY <1>1, <1>2, <1>3 DEF OnceInv, r

(* A visit: the element visited is not ahead any more. *)
LEMMA OnceVisit ==
  ASSUME IInv, OnceInv, NEW l \in Lists, VisitsNext(l),
         visits' = Count(Visited(l)), owed' \subseteq owed,
         owed' \subseteq HeldBy(mem', mem'.heap),
         MemInv(mem'), Calm(mem, mem', l),
         \A k \in Lists \ {l} : op'[k] = op[k],
         AheadIn(mem', l, op'[l]) \subseteq AheadOf(mem', l, op[l].currentNode, op[l].i + 1)
  PROVE  OnceInv'
<1> DEFINE r == mem'
           c == op[l].currentNode
           i == op[l].i
           v == Visited(l)
<1>0. c = op[l].currentNode /\ i = op[l].i /\ v = Visited(l)
  OBVIOUS
<1>1. /\ AheadIn(r, l, op'[l]) \subseteq AheadOf(r, l, c, i + 1)
      /\ MemInv(r) /\ Elsewhere(mem, r, l) /\ Stays(mem, r) /\ Firm(mem, r)
      /\ visits' = Count(v) /\ owed' \subseteq owed /\ owed' \subseteq HeldBy(r, r.heap)
  BY DEF Calm
<1> HIDE DEF r, c, i, v
<1>2. /\ phase = "kernel" /\ c \in Own(mem, l) /\ mem.node[c].active
      /\ i \in Slots /\ i \in Nat /\ v = mem.node[c].slot[i]
      /\ v \in Elems /\ v # NULL
      /\ AheadIn(mem, l, op[l]) = AheadOf(mem, l, c, i)
      /\ v \in AheadIn(mem, l, op[l])
  BY <1>0, VisitsWhere
<1>3. MemInv(mem) /\ visits \in [Elems -> Nat] /\ owed \subseteq Elems
  BY DEF IInv, HistoryTypes
<1>4. /\ owed \subseteq HeldBy(mem, mem.heap) /\ \A e \in owed : visits[e] <= 1
      /\ \A k \in Lists : \A e \in AheadIn(mem, k, op[k]) : e \in owed => visits[e] = 0
  BY <1>2 DEF OnceInv
<1>5. AheadIn(r, l, op'[l]) \subseteq
        (AheadIn(mem, l, op[l]) \ {v}) \cup (Elems \ HeldBy(mem, mem.heap))
  <2>1. MovesUp(mem, r, l) /\ Steady(mem, r)
    <3>1. MovesUp(mem, r, l)
      BY <1>1, <1>3, StaysUp
    <3>2. Steady(mem, r)
      BY <1>1 DEF Firm, Steady
    <3> QED BY <3>1, <3>2
  <2> DEFINE j == i + 1
  <2>2. j \in Nat
    BY <1>2
  <2>3. AheadIn(r, l, op'[l]) \subseteq AheadOf(r, l, c, j)
    BY <1>1
  <2>4. AheadOf(mem, l, c, j) \subseteq AheadOf(mem, l, c, i) \ {v}
    BY <1>2, <1>3, OneLess
  <2> HIDE DEF j
  <2>5. AheadOf(r, l, c, j) \subseteq
          AheadOf(mem, l, c, j) \cup (Elems \ HeldBy(mem, mem.heap))
    BY <1>1, <1>2, <1>3, <2>1, <2>2, AheadShrinks
  <2> QED BY <1>2, <2>3, <2>4, <2>5
<1>6. ASSUME NEW e \in Elems PROVE visits'[e] = IF e = v THEN visits[e] + 1 ELSE visits[e]
  BY <1>1, <1>3 DEF Count
<1>7. ASSUME NEW e \in owed' PROVE visits'[e] <= 1
  <2>1. e \in owed /\ e \in Elems
    BY <1>1, <1>3
  <2>2. CASE e = v
    <3>1. visits[e] = 0
      BY <1>2, <1>4, <2>1, <2>2
    <3> QED BY <1>6, <2>1, <2>2, <3>1
  <2>3. CASE e # v
    BY <1>4, <1>6, <2>1, <2>3
  <2> QED BY <2>2, <2>3
<1>8. ASSUME NEW k \in Lists, NEW e \in AheadIn(r, k, op'[k]), e \in owed'
      PROVE  visits'[e] = 0
  <2>1. e \in owed /\ e \in Elems /\ e \in HeldBy(mem, mem.heap)
    BY <1>1, <1>3, <1>4, <1>8
  <2>2. e # v /\ visits[e] = 0
    <3>1. CASE k = l
      BY <1>4, <1>5, <1>8, <2>1, <3>1
    <3>2. CASE k # l
      <4>1. AheadIn(r, k, op[k]) = AheadIn(mem, k, op[k]) /\ op'[k] = op[k]
        BY <1>1, <1>2, <3>2, OthersAhead
      <4>2. visits[e] = 0 /\ e \in AheadIn(mem, k, op[k])
        BY <1>4, <1>8, <2>1, <4>1
      <4>3. PICK n1 \in Own(mem, k), s1 \in Slots : mem.node[n1].slot[s1] = e
        BY <1>3, <4>2, AheadHeld
      <4>4. e # NULL
        BY <2>1, ConstantsAssumption
      <4>5. e # v
        BY <1>2, <1>3, <3>2, <4>3, <4>4, OneOwner
      <4> QED BY <4>2, <4>5
    <3> QED BY <3>1, <3>2
  <2> QED BY <1>6, <2>1, <2>2
<1> QED BY <1>1, <1>7, <1>8 DEF OnceInv, r

(* A step of the list that activates not the chunk under the kernel. *)
LEMMA AheadAfter ==
  ASSUME NEW m, NEW r, MemInv(m), MemInv(r), NEW l \in Lists,
         MovesUp(m, r, l), Steady(m, r), NEW o \in OpRecord,
         o.pc \in {"walk", "visit", "cleanup"} /\ o.currentNode # NULL =>
           /\ o.currentNode \in Own(m, l)
           /\ r.node[o.currentNode].active => m.node[o.currentNode].active
  PROVE  AheadIn(r, l, o) \subseteq AheadIn(m, l, o) \cup (Elems \ HeldBy(m, m.heap))
<1> DEFINE c == o.currentNode
           i == From(o)
<1>1. i \in Nat
  BY FromIsNat
<1>2. CASE /\ o.pc \in {"walk", "visit", "cleanup"} /\ c # NULL /\ r.node[c].active
  <2>1. c \in Own(m, l) /\ m.node[c].active
    BY <1>2
  <2>2. AheadIn(r, l, o) = AheadOf(r, l, c, i) /\ AheadIn(m, l, o) = AheadOf(m, l, c, i)
    BY <1>2, <2>1 DEF AheadIn
  <2> HIDE DEF c, i
  <2>3. AheadOf(r, l, c, i) \subseteq AheadOf(m, l, c, i) \cup (Elems \ HeldBy(m, m.heap))
    BY <1>1, <2>1, AheadShrinks
  <2> QED BY <2>2, <2>3
<1>3. CASE ~(o.pc \in {"walk", "visit", "cleanup"} /\ c # NULL /\ r.node[c].active)
  <2>1. AheadIn(r, l, o) = {}
    BY <1>3 DEF AheadIn
  <2> QED BY <2>1
<1> QED BY <1>2, <1>3

(* The locals of a call that is in progress keep to the list's own memory. *)
LEMMA OpFacts ==
  ASSUME IInv, NEW l \in Lists
  PROVE  /\ op = [k \in Lists |-> op[k]] /\ op[l] \in OpRecord
         /\ OpControl(phase, op[l]) /\ OpPlace(mem, l, op[l])
         /\ MemInv(mem) /\ mem \in Mem
BY DEF IInv, OpsInv, OpControl, MemInv

(* A round of _cleanupNode. *)
LEMMA OnceRound ==
  ASSUME IInv, IInv', OnceInv, phase = "kernel", NEW l \in Lists,
         CleanupDropTail(l) \/ CleanupMove(l)
  PROVE  OnceInv'
<1> DEFINE r == mem'
<1>1. /\ op[l].pc = "cleanup"
      /\ UNCHANGED <<op, phase, kernel, owed, visits>>
  BY DEF CleanupDropTail, CleanupMove, Cleaning
<1>2. op[l] \in OpRecord /\ MemInv(mem) /\ mem \in Mem
  BY OpFacts
<1>3. /\ MemInv(r) /\ MovesUp(mem, r, l) /\ Steady(mem, r) /\ NoWake(mem, r)
      /\ Elsewhere(mem, r, l) /\ HeldBy(r, r.heap) = HeldBy(mem, mem.heap)
  <2>1. CASE CleanupDropTail(l)
    <3>1. /\ MemInv(r) /\ Quiet(mem, r, l) /\ NoWake(mem, r)
          /\ HeldBy(r, r.heap) = HeldBy(mem, mem.heap)
      BY <2>1, DropStep
    <3> HIDE DEF r
    <3>2. MovesUp(mem, r, l)
      BY <1>2, <3>1, StaysUp DEF Quiet
    <3> QED BY <3>1, <3>2 DEF Quiet
  <2>2. CASE CleanupMove(l)
    BY <2>2, MoveStep DEF Firm, Steady
  <2> QED BY <2>1, <2>2
<1> HIDE DEF r
<1>4. op[l].currentNode # NULL => op[l].currentNode \in Own(mem, l)
  BY <1>1, KernelNode
<1>5. ASSUME op[l].currentNode # NULL, r.node[op[l].currentNode].active
      PROVE  mem.node[op[l].currentNode].active
  <2>1. OpControl(phase, op[l]) /\ OpPlace(r, l, op[l])
    BY <1>1 DEF IInv, OpsInv, r
  <2>2. op[l].currentNode \in r.heap
    BY <1>1, <2>1 DEF OpControl, OpPlace, Own
  <2> QED BY <1>3, <1>5, <2>2 DEF NoWake
<1>6. AheadIn(r, l, op[l]) \subseteq AheadIn(mem, l, op[l]) \cup (Elems \ HeldBy(mem, mem.heap))
  BY <1>2, <1>3, <1>4, <1>5, AheadAfter
<1> QED BY <1>1, <1>3, <1>6, OnceQuiet DEF r

(* The locals of two calls at the same place. *)
LEMMA SameAhead ==
  ASSUME NEW m, NEW l, NEW o, NEW p,
         o.pc \in {"walk", "visit", "cleanup"}, p.pc \in {"walk", "visit", "cleanup"},
         p.currentNode = o.currentNode, From(p) = From(o)
  PROVE  AheadIn(m, l, p) = AheadIn(m, l, o)
BY DEF AheadIn

(* The locals when a compaction is over, in a kernel. *)
LEMMA DoneLocals ==
  ASSUME IInv, phase = "kernel", NEW l \in Lists, CleanupDone(l)
  PROVE  /\ op[l].pc = "cleanup" /\ op'[l].pc = "visit"
         /\ op'[l].currentNode = op[l].currentNode
         /\ op[l].currentNode \in Own(mem, l)
         /\ op'[l].elementsDone = op[l].elementsDone
         /\ op'[l].initNumElements = op[l].initNumElements
         /\ From(op'[l]) = From(op[l])
         /\ \A k \in Lists \ {l} : op'[k] = op[k]
         /\ op[l].after = "visit" =>
              /\ op'[l].i = 0 /\ op[l].cleaning = op[l].currentNode
              /\ op'[l].originalElements = mem.node[op[l].cleaning].numElements
         /\ op[l].after # "visit" => op[l].after = "kernelAlloc"
                                     /\ Taken(mem.node[op[l].currentNode]) # {}
<1> DEFINE o == op[l]
<1>1. /\ op = [k \in Lists |-> op[k]] /\ o \in OpRecord
      /\ OpControl(phase, o) /\ OpPlace(mem, l, o)
  BY OpFacts
<1>2. o.pc = "cleanup" /\ o.after \in {"visit", "kernelAlloc"}
  BY <1>1 DEF CleanupDone, OpControl, OpRecord
<1>3. o.currentNode \in Own(mem, l)
  BY <1>1, <1>2 DEF OpPlace
<1>4. CASE o.after = "visit"
  <2>1. op' = [op EXCEPT ![l] =
                 [[o EXCEPT !.cleaning = NULL, !.elem = NULL] EXCEPT
                    !.pc = "visit", !.i = 0,
                    !.originalElements = mem.node[o.cleaning].numElements]]
    BY <1>4 DEF CleanupDone
  <2>2. /\ op'[l] = [[o EXCEPT !.cleaning = NULL, !.elem = NULL] EXCEPT
                    !.pc = "visit", !.i = 0,
                    !.originalElements = mem.node[o.cleaning].numElements]
        /\ \A k \in Lists \ {l} : op'[k] = op[k]
    BY <1>1, <2>1
  <2>3. /\ op'[l].pc = "visit" /\ op'[l].i = 0
        /\ op'[l].currentNode = o.currentNode
        /\ op'[l].elementsDone = o.elementsDone
        /\ op'[l].initNumElements = o.initNumElements
        /\ op'[l].originalElements = mem.node[o.cleaning].numElements
    BY <1>1, <2>2 DEF OpRecord
  <2>4. From(op'[l]) = 0 /\ From(o) = 0
    BY <1>2, <1>4, <2>3 DEF From
  <2>5. o.cleaning = o.currentNode
    BY <1>1, <1>2, <1>4 DEF OpControl
  <2> QED BY <1>2, <1>3, <1>4, <2>2, <2>3, <2>4, <2>5
<1>5. CASE o.after = "kernelAlloc"
  <2>1. op' = [op EXCEPT ![l] =
                 [[o EXCEPT !.cleaning = NULL, !.elem = NULL] EXCEPT
                    !.pc = "visit", !.i = @ + 1]]
    BY <1>5 DEF CleanupDone
  <2>2. /\ op'[l] = [[o EXCEPT !.cleaning = NULL, !.elem = NULL] EXCEPT
                    !.pc = "visit", !.i = @ + 1]
        /\ \A k \in Lists \ {l} : op'[k] = op[k]
    BY <1>1, <2>1
  <2>3. /\ op'[l].pc = "visit" /\ op'[l].i = o.i + 1
        /\ op'[l].currentNode = o.currentNode
        /\ op'[l].elementsDone = o.elementsDone
        /\ op'[l].initNumElements = o.initNumElements
    BY <1>1, <2>2 DEF OpRecord
  <2>4. From(op'[l]) = From(o)
    BY <1>2, <1>5, <2>3 DEF From
  <2>5. Taken(mem.node[o.currentNode]) # {}
    BY <1>1, <1>2, <1>5 DEF OpPlace
  <2> QED BY <1>2, <1>3, <1>5, <2>2, <2>3, <2>4, <2>5
<1> QED BY <1>2, <1>4, <1>5

(* The end of _cleanupNode, which may complete an allocation. *)
LEMMA OnceDone ==
  ASSUME IInv, OnceInv, phase = "kernel", NEW l \in Lists, CleanupDone(l)
  PROVE  OnceInv'
<1> DEFINE r == mem'
           o == op[l]
           p == op'[l]
<1>1. /\ o.pc = "cleanup" /\ p.pc = "visit" /\ p.currentNode = o.currentNode
      /\ o.currentNode \in Own(mem, l) /\ From(p) = From(o)
      /\ \A k \in Lists \ {l} : op'[k] = op[k]
      /\ o.after # "visit" => Taken(mem.node[o.currentNode]) # {}
  BY DoneLocals
<1>2. o \in OpRecord /\ MemInv(mem) /\ mem \in Mem
  BY OpFacts
<1>3. /\ MemInv(r) /\ Calm(mem, r, l)
      /\ HeldBy(mem, mem.heap) \subseteq HeldBy(r, r.heap)
      /\ o.after = "visit" => NoWake(mem, r)
  BY DoneVisitStep, DoneAllocStep
<1>4. visits' = visits /\ owed' = owed
  BY DEF CleanupDone
<1> HIDE DEF r, p
<1>5. MovesUp(mem, r, l) /\ Steady(mem, r) /\ Elsewhere(mem, r, l)
  <2>1. MovesUp(mem, r, l)
    BY <1>2, <1>3, StaysUp DEF Calm
  <2> QED BY <1>3, <2>1 DEF Calm, Firm, Steady
<1>6. ASSUME r.node[o.currentNode].active PROVE mem.node[o.currentNode].active
  <2>1. CASE o.after = "visit"
    <3>1. o.currentNode \in Own(r, l)
      <4>1. o.currentNode = o.cleaning
        BY <1>1, <1>2, <2>1, OpFacts DEF OpControl
      <4>2. MarkEffect(mem, r, o.cleaning, mem.node[o.cleaning].numElements, FALSE)
        <5>1. /\ r = Marked(mem, o.cleaning, mem.node[o.cleaning].numElements, FALSE)
              /\ ~(Cleaning(l) /\ (TailIsEmpty(l) \/ CanPull(l)))
          BY <2>1 DEF CleanupDone, Marked, r
        <5> QED BY <1>1, <5>1, CleanedChunk
      <4> QED BY <1>1, <4>1, <4>2 DEF MarkEffect, Own
    <3> QED BY <1>3, <1>6, <2>1, <3>1 DEF NoWake, Own
  <2>2. CASE o.after # "visit"
    <3>1. o.currentNode \in mem.heap
      BY <1>1 DEF Own
    <3> QED BY <1>1, <1>2, <2>2, <3>1 DEF MemInv, FillInv
  <2> QED BY <2>1, <2>2
<1> HIDE DEF o
<1>7. AheadIn(r, l, o) \subseteq AheadIn(mem, l, o) \cup (Elems \ HeldBy(mem, mem.heap))
  BY <1>1, <1>2, <1>3, <1>5, <1>6, AheadAfter
<1>8. AheadIn(r, l, p) = AheadIn(r, l, o)
  BY <1>1, SameAhead
<1>9. AheadIn(r, l, p) \subseteq AheadIn(mem, l, o) \cup (Elems \ HeldBy(mem, mem.heap))
  BY <1>7, <1>8
<1> QED BY <1>1, <1>3, <1>4, <1>5, <1>9, OnceQuiet DEF r, o, p

(* The head of the walk's loop: it stops, enters a chunk, or has it       *)
(* compacted first.                                                       *)
WalkOutcome(o, p) ==
  LET c == o.currentNode
  IN  \/ /\ p.pc = "done"
         /\ c = NULL \/ ~mem.node[c].active \/ o.elementsDone >= o.initNumElements
      \/ /\ c # NULL /\ mem.node[c].active
         /\ p.currentNode = c /\ From(p) = 0
         /\ p.elementsDone = o.elementsDone /\ p.initNumElements = o.initNumElements
         /\ \/ p.pc = "cleanup" /\ p.after = "visit"
            \/ /\ p.pc = "visit" /\ p.i = 0 /\ ~mem.node[c].dirty
               /\ p.originalElements = mem.node[c].numElements

(* The locals after it. *)
LEMMA WalkLocals ==
  ASSUME IInv, NEW l \in Lists, KernelWalk(l)
  PROVE  /\ op[l].pc = "walk" /\ phase = "kernel" /\ mem' = mem
         /\ \A k \in Lists \ {l} : op'[k] = op[k]
         /\ visits' = visits /\ owed' = owed /\ phase' = phase /\ kernel' = kernel
         /\ WalkOutcome(op[l], op'[l])
<1> DEFINE o == op[l]
           c == o.currentNode
           stop == \/ c = NULL
                   \/ ~mem.node[c].active
                   \/ o.elementsDone >= o.initNumElements
<1>1. /\ o.pc = "walk" /\ UNCHANGED <<mem, phase, kernel, owed, visits>>
      /\ op' = [op EXCEPT ![l] = IF stop THEN [IdleOp EXCEPT !.pc = "done"]
                                 ELSE EnterNode(o, c)]
  BY DEF KernelWalk
<1>2. op = [k \in Lists |-> op[k]] /\ o \in OpRecord /\ phase = "kernel"
  BY <1>1, OpFacts, InKernel
<1>3. /\ op'[l] = IF stop THEN [IdleOp EXCEPT !.pc = "done"] ELSE EnterNode(o, c)
      /\ \A k \in Lists \ {l} : op'[k] = op[k]
  BY <1>1, <1>2
<1>4. WalkOutcome(o, op'[l])
  <2>1. CASE stop
    <3>1. op'[l].pc = "done"
      BY <1>3, <2>1 DEF IdleOp
    <3> QED BY <2>1, <3>1 DEF WalkOutcome
  <2>2. CASE ~stop /\ mem.node[c].dirty
    <3>1. op'[l] = [o EXCEPT !.pc = "cleanup", !.cleaning = c, !.after = "visit"]
      BY <1>3, <2>2 DEF EnterNode
    <3>2. /\ op'[l].pc = "cleanup" /\ op'[l].after = "visit" /\ op'[l].currentNode = c
          /\ op'[l].elementsDone = o.elementsDone
          /\ op'[l].initNumElements = o.initNumElements
      BY <1>2, <3>1 DEF OpRecord
    <3>3. From(op'[l]) = 0
      BY <3>2 DEF From
    <3> QED BY <2>2, <3>2, <3>3 DEF WalkOutcome
  <2>3. CASE ~stop /\ ~mem.node[c].dirty
    <3>1. op'[l] = [o EXCEPT !.pc = "visit", !.i = 0,
                             !.originalElements = mem.node[c].numElements]
      BY <1>3, <2>3 DEF EnterNode
    <3>2. /\ op'[l].pc = "visit" /\ op'[l].i = 0 /\ op'[l].currentNode = c
          /\ op'[l].elementsDone = o.elementsDone
          /\ op'[l].initNumElements = o.initNumElements
          /\ op'[l].originalElements = mem.node[c].numElements
      BY <1>2, <3>1 DEF OpRecord
    <3>3. From(op'[l]) = 0
      BY <3>2 DEF From
    <3> QED BY <2>3, <3>2, <3>3 DEF WalkOutcome
  <2> QED BY <2>1, <2>2, <2>3
<1> QED BY <1>1, <1>2, <1>3, <1>4

(* It has the same elements ahead, or none. *)
LEMMA WalkAhead ==
  ASSUME IInv, NEW l \in Lists, KernelWalk(l)
  PROVE  /\ op'[l].pc = "done" => AheadIn(mem, l, op'[l]) = {}
         /\ op'[l].pc # "done" => AheadIn(mem, l, op'[l]) = AheadIn(mem, l, op[l])
<1> DEFINE o == op[l]
           p == op'[l]
<1>1. o.pc = "walk" /\ WalkOutcome(o, p)
  BY WalkLocals
<1> HIDE DEF o, p
<1>2. CASE p.pc = "done"
  BY <1>2 DEF AheadIn, p
<1>3. CASE p.pc # "done"
  <2>1. p.pc \in {"cleanup", "visit"} /\ p.currentNode = o.currentNode /\ From(p) = 0
    BY <1>1, <1>3 DEF WalkOutcome
  <2>2. From(o) = 0
    BY <1>1 DEF From
  <2>3. AheadIn(mem, l, p) = AheadIn(mem, l, o)
    BY <1>1, <2>1, <2>2, SameAhead
  <2> QED BY <1>3, <2>3 DEF o, p
<1> QED BY <1>2, <1>3 DEF p

(* The head of the loop of _runKernelThread. *)
LEMMA OnceWalk ==
  ASSUME IInv, OnceInv, NEW l \in Lists, KernelWalk(l)
  PROVE  OnceInv'
<1>1. /\ phase = "kernel" /\ mem' = mem /\ visits' = visits /\ owed' = owed
      /\ \A k \in Lists \ {l} : op'[k] = op[k]
  BY WalkLocals
<1>2. AheadIn(mem, l, op'[l]) \subseteq AheadIn(mem, l, op[l])
  BY WalkAhead
<1>3. Elsewhere(mem, mem', l)
  BY <1>1 DEF Elsewhere, SameList
<1> QED BY <1>1, <1>2, <1>3, OnceQuiet

(* The end of _runKernelOnNode. *)
LEMMA LeaveLocals ==
  ASSUME IInv, NEW l \in Lists, LeaveNode(l)
  PROVE  /\ op[l].pc = "visit" /\ phase = "kernel" /\ mem' = mem
         /\ ~VisitsNext(l)
         /\ \A k \in Lists \ {l} : op'[k] = op[k]
         /\ visits' = visits /\ owed' = owed /\ phase' = phase /\ kernel' = kernel
         /\ op'[l].pc = "walk"
         /\ op'[l].currentNode = mem.node[op[l].currentNode].next
         /\ op'[l].elementsDone = op[l].elementsDone + op[l].i
         /\ op'[l].initNumElements = op[l].initNumElements
<1> DEFINE o == op[l]
<1>1. /\ o.pc = "visit" /\ ~VisitsNext(l) /\ UNCHANGED <<mem, phase, kernel, owed, visits>>
      /\ op' = [op EXCEPT ![l].pc = "walk",
                      ![l].elementsDone = ElementsDone(l),
                      ![l].i = 0, ![l].originalElements = 0,
                      ![l].currentNode = mem.node[op[l].currentNode].next]
  BY DEF LeaveNode
<1>2. op = [k \in Lists |-> op[k]] /\ o \in OpRecord /\ phase = "kernel"
  BY <1>1, OpFacts, InKernel
<1>3. /\ op'[l] = [o EXCEPT !.pc = "walk", !.elementsDone = ElementsDone(l),
                            !.i = 0, !.originalElements = 0,
                            !.currentNode = mem.node[o.currentNode].next]
      /\ \A k \in Lists \ {l} : op'[k] = op[k]
  BY <1>1, <1>2
<1>4. /\ op'[l].pc = "walk"
      /\ op'[l].currentNode = mem.node[o.currentNode].next
      /\ op'[l].elementsDone = o.elementsDone + o.i
      /\ op'[l].initNumElements = o.initNumElements
  BY <1>2, <1>3 DEF OpRecord, ElementsDone
<1> QED BY <1>1, <1>2, <1>3, <1>4

(* Behind a chunk lies its successor, if that is active. *)
LEMMA NextBehind ==
  ASSUME NEW m, MemInv(m), NEW l \in Lists, NEW c \in Own(m, l),
         NEW x, x = m.node[c].next, x # NULL, m.node[x].active
  PROVE  /\ x \in Own(m, l) /\ m.node[c].active
         /\ m.node[x].index = m.node[c].index + 1
<1>1. x \in Own(m, l) /\ m.node[x].prev = c
  BY DEF MemInv, ShapeInv, LinksInv
<1>2. ActiveNode(m, l, x)
  BY <1>1 DEF MemInv, ShapeInv, ActiveInv
<1>3. c # NULL
  <2>1. c \in Nodes
    BY MemTypes DEF MemInv, Own
  <2> QED BY <2>1, ConstantsAssumption
<1> QED BY <1>1, <1>2, <1>3 DEF ActiveNode

(* What a kernel has ahead when it leaves a chunk it had ahead before. *)
LEMMA LeaveBehind ==
  ASSUME IInv, NEW l \in Lists, LeaveNode(l)
  PROVE  AheadIn(mem, l, op'[l]) \subseteq AheadIn(mem, l, op[l])
<1> DEFINE o == op[l]
           p == op'[l]
           c == o.currentNode
           x == p.currentNode
<1>1. o.pc = "visit" /\ p.pc = "walk" /\ x = mem.node[c].next
  BY LeaveLocals
<1>2. /\ MemInv(mem) /\ mem \in Mem /\ OpPlace(mem, l, o) /\ o \in OpRecord
      /\ c \in Own(mem, l)
  BY <1>1, OpFacts DEF OpPlace
<1> HIDE DEF p, x, c
<1>3. ASSUME NEW e \in AheadIn(mem, l, p) PROVE e \in AheadIn(mem, l, o)
  <2>1. x # NULL /\ mem.node[x].active /\ e \in AheadOf(mem, l, x, 0)
    <3>1. From(p) = 0
      BY <1>1 DEF From
    <3> QED BY <1>3, <3>1 DEF AheadIn, x
  <2>2. x \in Own(mem, l) /\ mem.node[c].active /\ mem.node[x].index = mem.node[c].index + 1
    BY <1>1, <1>2, <2>1, NextBehind
  <2>3. PICK n \in Own(mem, l), s \in Slots :
               mem.node[n].slot[s] = e /\ Past(mem, x, 0, n, s)
    BY <2>1 DEF AheadOf
  <2>4. Past(mem, c, o.i, n, s)
    <3>1. mem.node[n].index \in Nat /\ mem.node[x].index \in Nat /\ mem.node[c].index \in Nat
      <4>1. n \in Nodes /\ x \in Nodes /\ c \in Nodes
        BY <1>2, <2>2, MemTypes DEF Own
      <4> QED BY <1>2, <4>1, MemTypes
    <3>2. mem.node[n].index > mem.node[c].index
      BY <2>2, <2>3, <3>1 DEF Past
    <3> QED BY <3>2 DEF Past
  <2>5. e \in AheadOf(mem, l, c, o.i)
    BY <2>1, <2>3, <2>4 DEF AheadOf
  <2>6. From(o) = o.i /\ c # NULL
    BY <1>1, <1>2, ConstantsAssumption, MemTypes DEF From, Own
  <2> QED BY <1>1, <2>2, <2>5, <2>6 DEF AheadIn, c
<1> QED BY <1>3 DEF o, p

(* The kernel leaves a chunk. *)
LEMMA OnceLeave ==
  ASSUME IInv, OnceInv, NEW l \in Lists, LeaveNode(l)
  PROVE  OnceInv'
<1>1. /\ phase = "kernel" /\ mem' = mem /\ visits' = visits /\ owed' = owed
      /\ \A k \in Lists \ {l} : op'[k] = op[k]
  BY LeaveLocals
<1>2. AheadIn(mem, l, op'[l]) \subseteq AheadIn(mem, l, op[l])
  BY LeaveBehind
<1>3. Elsewhere(mem, mem', l)
  BY <1>1 DEF Elsewhere, SameList
<1> QED BY <1>1, <1>2, <1>3, OnceQuiet

(* The next slot of the chunk. *)
LEMMA NextSlotIs ==
  ASSUME NEW l, op[l] \in OpRecord, op[l].pc = "visit"
  PROVE  /\ NextSlot(l).pc = "visit" /\ NextSlot(l).i = op[l].i + 1
         /\ NextSlot(l).currentNode = op[l].currentNode
         /\ From(NextSlot(l)) = op[l].i + 1
         /\ NextSlot(l).elementsDone = op[l].elementsDone
         /\ NextSlot(l).initNumElements = op[l].initNumElements
         /\ NextSlot(l).originalElements = op[l].originalElements
BY DEF NextSlot, From, OpRecord

(* Ahead of a kernel that has moved on to the next slot, or that waits for *)
(* its allocation there.                                                   *)
LEMMA AheadNext ==
  ASSUME NEW m, NEW l, NEW p, NEW c, NEW j, p.pc \in {"visit", "cleanup"},
         p.currentNode = c, From(p) = j
  PROVE  AheadIn(m, l, p) \subseteq AheadOf(m, l, c, j)
BY DEF AheadIn

(* The kernel leaves the set alone. *)
LEMMA OnceKeep ==
  ASSUME IInv, OnceInv, NEW l \in Lists, KernelKeep(l)
  PROVE  OnceInv'
<1>1. /\ VisitsNext(l) /\ visits' = Count(Visited(l)) /\ op' = [op EXCEPT ![l] = NextSlot(l)]
      /\ mem' = mem /\ owed' = owed
  BY DEF KernelKeep
<1>2. /\ op = [k \in Lists |-> op[k]] /\ op[l] \in OpRecord /\ op[l].pc = "visit"
      /\ MemInv(mem) /\ phase = "kernel"
  BY <1>1, OpFacts, VisitsPc, InKernel
<1>3. op'[l] = NextSlot(l) /\ \A k \in Lists \ {l} : op'[k] = op[k]
  BY <1>1, <1>2
<1>4. AheadIn(mem', l, op'[l]) \subseteq AheadOf(mem', l, op[l].currentNode, op[l].i + 1)
  <2> DEFINE c == op[l].currentNode
             j == op[l].i + 1
             p == NextSlot(l)
  <2>1. p.pc = "visit" /\ p.currentNode = c /\ From(p) = j
    BY <1>2, NextSlotIs
  <2> HIDE DEF c, j, p
  <2>2. AheadIn(mem, l, p) \subseteq AheadOf(mem, l, c, j)
    BY <2>1, AheadNext
  <2> QED BY <1>1, <1>3, <2>2 DEF c, j, p
<1>5. Calm(mem, mem', l)
  <2>1. Elsewhere(mem, mem', l)
    BY <1>1 DEF Elsewhere, SameList
  <2> QED BY <1>1, <2>1, SameStays DEF Calm
<1>6. owed' \subseteq HeldBy(mem', mem'.heap) /\ MemInv(mem')
  BY <1>1, <1>2 DEF OnceInv
<1> QED BY <1>1, <1>3, <1>4, <1>5, <1>6, OnceVisit

(* The kernel frees an element of its own list. *)
LEMMA OnceFree ==
  ASSUME IInv, OnceInv, NEW l \in Lists, NEW n \in Nodes, NEW s \in Slots,
         KernelFree(l, n, s)
  PROVE  OnceInv'
<1>1. /\ VisitsNext(l) /\ visits' = Count(Visited(l)) /\ op' = [op EXCEPT ![l] = NextSlot(l)]
      /\ n \in mem.heap /\ mem.node[n].threadList = l /\ mem.node[n].slot[s] # NULL
      /\ mem' = FreeElementOnNode(mem, n, s)
      /\ owed' = owed \ {mem.node[n].slot[s]}
  BY DEF KernelFree
<1>2. /\ op = [k \in Lists |-> op[k]] /\ op[l] \in OpRecord /\ op[l].pc = "visit"
      /\ MemInv(mem) /\ phase = "kernel"
  BY <1>1, OpFacts, VisitsPc, InKernel
<1>3. op'[l] = NextSlot(l) /\ \A k \in Lists \ {l} : op'[k] = op[k]
  BY <1>1, <1>2
<1>4. AheadIn(mem', l, op'[l]) \subseteq AheadOf(mem', l, op[l].currentNode, op[l].i + 1)
  <2> DEFINE c == op[l].currentNode
             j == op[l].i + 1
             p == NextSlot(l)
             r == mem'
  <2>1. p.pc = "visit" /\ p.currentNode = c /\ From(p) = j
    BY <1>2, NextSlotIs
  <2> HIDE DEF c, j, p, r
  <2>2. AheadIn(r, l, p) \subseteq AheadOf(r, l, c, j)
    BY <2>1, AheadNext
  <2> QED BY <1>3, <2>2 DEF c, j, p, r
<1>5. /\ MemInv(mem') /\ Calm(mem, mem', l)
      /\ HeldBy(mem', mem'.heap) = HeldBy(mem, mem.heap) \ {mem.node[n].slot[s]}
  BY <1>1, FreeStep
<1>6. owed' \subseteq HeldBy(mem', mem'.heap) /\ owed' \subseteq owed
  BY <1>1, <1>2, <1>5 DEF OnceInv
<1> QED BY <1>1, <1>3, <1>4, <1>5, <1>6, OnceVisit

(* The locals of an allocation that waits for a compaction. *)
Waiting(o, t, after, e) ==
  [o EXCEPT !.pc = "cleanup", !.cleaning = t, !.after = after, !.elem = e]

(* It stays at its place in the walk. *)
LEMMA WaitingIs ==
  ASSUME NEW o \in OpRecord, NEW t, NEW after, NEW e,
         NEW p, p = Waiting(o, t, after, e)
  PROVE  /\ p.pc = "cleanup" /\ p.after = after /\ p.currentNode = o.currentNode
         /\ p.i = o.i
         /\ after = "kernelAlloc" => From(p) = o.i + 1
BY DEF Waiting, From, OpRecord

(* What an allocation leaves of the locals. *)
LEMMA AllocLocals ==
  ASSUME IInv, NEW l \in Lists, NEW e, NEW after, NEW locals,
         AllocOutcome(l, e, after, locals)
  PROVE  /\ \A k \in Lists \ {l} : op'[k] = op[k]
         /\ \/ /\ op'[l] = locals
               /\ HeldBy(mem', mem'.heap) = HeldBy(mem, mem.heap) \cup {e}
            \/ /\ op'[l].pc = "cleanup" /\ op'[l].after = after
               /\ op'[l].currentNode = op[l].currentNode /\ op'[l].i = op[l].i
               /\ after = "kernelAlloc" => From(op'[l]) = op[l].i + 1
               /\ HeldBy(mem', mem'.heap) = HeldBy(mem, mem.heap)
<1>1. op = [k \in Lists |-> op[k]] /\ op[l] \in OpRecord
  BY OpFacts
<1>2. CASE op' = [op EXCEPT ![l] = locals]
           /\ HeldBy(mem', mem'.heap) = HeldBy(mem, mem.heap) \cup {e}
  BY <1>1, <1>2
<1>3. CASE /\ HeldBy(mem', mem'.heap) = HeldBy(mem, mem.heap)
           /\ \E t : op' = [op EXCEPT ![l].pc = "cleanup", ![l].cleaning = t,
                                      ![l].after = after, ![l].elem = e]
  <2>1. PICK t : op' = [op EXCEPT ![l].pc = "cleanup", ![l].cleaning = t,
                                  ![l].after = after, ![l].elem = e]
    BY <1>3
  <2>2. /\ op'[l] = Waiting(op[l], t, after, e)
        /\ \A k \in Lists \ {l} : op'[k] = op[k]
    BY <1>1, <2>1 DEF Waiting
  <2>3. /\ op'[l].pc = "cleanup" /\ op'[l].after = after
        /\ op'[l].currentNode = op[l].currentNode /\ op'[l].i = op[l].i
        /\ after = "kernelAlloc" => From(op'[l]) = op[l].i + 1
    BY <1>1, <2>2, WaitingIs
  <2> QED BY <1>3, <2>2, <2>3
<1> QED BY <1>2, <1>3 DEF AllocOutcome

(* The kernel allocates. *)
LEMMA OnceAlloc ==
  ASSUME IInv, OnceInv, NEW l \in Lists, NEW e \in Fresh, KernelAlloc(l, e)
  PROVE  OnceInv'
<1>1. /\ VisitsNext(l) /\ visits' = Count(Visited(l)) /\ owed' = owed
      /\ PumallocOnThreadList(l, e, "kernelAlloc", NextSlot(l))
  BY DEF KernelAlloc
<1>2. op[l] \in OpRecord /\ op[l].pc = "visit" /\ MemInv(mem) /\ phase = "kernel"
  BY <1>1, OpFacts, VisitsPc, InKernel
<1>3. /\ MemInv(mem') /\ Calm(mem, mem', l)
      /\ AllocOutcome(l, e, "kernelAlloc", NextSlot(l))
  BY <1>1, <1>2, AllocStep
<1>4. /\ \A k \in Lists \ {l} : op'[k] = op[k]
      /\ \/ /\ op'[l] = NextSlot(l)
            /\ HeldBy(mem', mem'.heap) = HeldBy(mem, mem.heap) \cup {e}
         \/ /\ op'[l].pc = "cleanup"
            /\ op'[l].currentNode = op[l].currentNode
            /\ From(op'[l]) = op[l].i + 1
            /\ HeldBy(mem', mem'.heap) = HeldBy(mem, mem.heap)
  BY <1>3, AllocLocals
<1>5. AheadIn(mem', l, op'[l]) \subseteq AheadOf(mem', l, op[l].currentNode, op[l].i + 1)
  <2> DEFINE c == op[l].currentNode
             j == op[l].i + 1
             p == op'[l]
             r == mem'
  <2>1. p.pc \in {"visit", "cleanup"} /\ p.currentNode = c /\ From(p) = j
    BY <1>2, <1>4, NextSlotIs
  <2> HIDE DEF c, j, p, r
  <2>2. AheadIn(r, l, p) \subseteq AheadOf(r, l, c, j)
    BY <2>1, AheadNext
  <2> QED BY <2>2 DEF c, j, p, r
<1>6. owed' \subseteq HeldBy(mem', mem'.heap) /\ owed' \subseteq owed
  BY <1>1, <1>2, <1>4 DEF OnceInv
<1> QED BY <1>1, <1>3, <1>4, <1>5, <1>6, OnceVisit

(* An element of the set is one of Elems. *)
LEMMA HeldElems ==
  ASSUME IInv
  PROVE  HeldBy(mem, mem.heap) \subseteq Elems
<1> SUFFICES ASSUME NEW e \in HeldBy(mem, mem.heap) PROVE e \in Elems
  OBVIOUS
<1>1. PICK n \in mem.heap, s \in Slots : mem.node[n].slot[s] = e /\ e # NULL
  BY HeldMember
<1>2. mem.node[n].slot \in [Slots -> Elems \cup {NULL}]
  BY <1>1, MemTypes DEF IInv, MemInv
<1> QED BY <1>1, <1>2

(* The kernel begins: nothing has been visited. *)
LEMMA OnceStart ==
  ASSUME IInv, NEW k \in Kernels, StartKernel(k)
  PROVE  OnceInv'
<1>1. owed' = Live /\ visits' = [e \in Elems |-> 0] /\ mem' = mem
  BY DEF StartKernel
<1>2. \A e \in Elems : visits'[e] = 0
  BY <1>1
<1>3. owed' = HeldBy(mem', mem'.heap)
  BY <1>1, LiveIs
<1>4. owed' \subseteq Elems
  BY <1>1, <1>3, HeldElems
<1> QED BY <1>2, <1>3, <1>4 DEF OnceInv

(* In the thread of one list. *)
LEMMA OnceThread ==
  ASSUME IInv, IInv', OnceInv, phase = "kernel", NEW l \in Lists, ThreadStep(l)
  PROVE  OnceInv'
<1>1. CASE CleanupDropTail(l) \/ CleanupMove(l)
  BY <1>1, OnceRound
<1>2. CASE CleanupDone(l)
  BY <1>2, OnceDone
<1>3. CASE KernelWalk(l)
  BY <1>3, OnceWalk
<1>4. CASE KernelKeep(l)
  BY <1>4, OnceKeep
<1>5. CASE LeaveNode(l)
  BY <1>5, OnceLeave
<1>6. CASE \E n \in Nodes, s \in Slots : KernelFree(l, n, s)
  BY <1>6, OnceFree
<1>7. CASE \E e \in Fresh : KernelAlloc(l, e)
  BY <1>7, OnceAlloc
<1> QED BY <1>1, <1>2, <1>3, <1>4, <1>5, <1>6, <1>7 DEF ThreadStep

(* A thread's step leaves the owner where it is. *)
LEMMA ThreadPhase ==
  ASSUME NEW l, ThreadStep(l)
  PROVE  phase' = phase /\ kernel' = kernel
BY DEF ThreadStep, CleanupDropTail, CleanupMove, CleanupDone, KernelWalk,
       KernelKeep, LeaveNode, KernelFree, KernelAlloc

(* The other steps, the beginning of a kernel excepted. *)
OutsideKernel ==
  \/ \E l \in Lists : \E e \in Fresh : Pumalloc(l, e)
  \/ \E n \in Nodes, s \in Slots : Pufree(n, s)
  \/ RunKernel
  \/ \E from, to \in Lists : \E k \in 1..Cardinality(Nodes) : Transfer(k, from, to)
  \/ KernelReturns
  \/ DestroyPumaSet
  \/ CreatePumaSet

(* They do not lead into the kernel. *)
LEMMA OutsideIs ==
  /\ Next <=> \/ \E l \in Lists : ThreadStep(l)
              \/ \E k \in Kernels : StartKernel(k)
              \/ OutsideKernel
  /\ OutsideKernel => phase' # "kernel"
<1>1. OutsideKernel => phase' # "kernel"
  BY DEF OutsideKernel, Pumalloc, Pufree, RunKernel, Transfer, KernelReturns,
         DestroyPumaSet, CreatePumaSet
<1>2. Next <=> \/ \E l \in Lists : ThreadStep(l)
               \/ \E k \in Kernels : StartKernel(k)
               \/ OutsideKernel
  BY DEF Next, OutsideKernel
<1> QED BY <1>1, <1>2

(* The invariant that no element is visited twice is inductive. *)
LEMMA OnceNext ==
  ASSUME IInv, IInv', OnceInv, [Next]_vars
  PROVE  OnceInv'
<1>1. CASE \E l \in Lists : ThreadStep(l)
  <2>1. PICK l \in Lists : ThreadStep(l)
    BY <1>1
  <2>2. CASE phase = "kernel"
    BY <2>1, <2>2, OnceThread
  <2>3. CASE phase # "kernel"
    BY <2>1, <2>3, ThreadPhase DEF OnceInv
  <2> QED BY <2>2, <2>3
<1>2. CASE \E k \in Kernels : StartKernel(k)
  BY <1>2, OnceStart
<1>3. CASE OutsideKernel
  BY <1>3, OutsideIs DEF OnceInv
<1>4. CASE UNCHANGED vars
  BY <1>4 DEF vars, OnceInv
<1> QED BY <1>1, <1>2, <1>3, <1>4, OutsideIs

-----------------------------------------------------------------------------
(* A one-way kernel visits every element. *)

(* How many visits the walk has counted. *)
DoneSoFar(o) == IF o.pc = "visit" THEN o.elementsDone + o.i ELSE o.elementsDone

(* From slot i on, the chunk's elements end where the walk expects it. *)
PackedFrom(x, i, num) ==
  \A s \in Slots : s >= i => (s \in Taken(x) <=> s < num)

(* Every element of list l has been visited or is ahead, and no more are  *)
(* ahead than the walk is to visit before it stops.                       *)
SeenInv(m, l, o, vs) ==
  /\ o.pc = "cleanup" => o.after = "visit"
  /\ \A e \in HeldBy(m, Own(m, l)) : e \in AheadIn(m, l, o) \/ vs[e] = 1
  /\ o.pc \in {"walk", "visit", "cleanup"} =>
       DoneSoFar(o) + Cardinality(AheadIn(m, l, o)) <= o.initNumElements
  /\ o.pc = "visit" =>
       PackedFrom(m.node[o.currentNode], o.i, o.originalElements)

(* A one-way kernel owes every element a visit. *)
AllInv ==
  phase = "kernel" /\ OneWay(kernel) =>
    /\ HeldBy(mem, mem.heap) \subseteq owed
    /\ \A l \in Lists : SeenInv(mem, l, op[l], visits)

(* What is ahead is a finite part of the list. *)
LEMMA AheadFinite ==
  ASSUME NEW m, MemInv(m), NEW l, NEW o
  PROVE  /\ AheadIn(m, l, o) \subseteq HeldBy(m, Own(m, l))
         /\ AheadIn(m, l, o) \subseteq HeldBy(m, m.heap)
         /\ IsFiniteSet(AheadIn(m, l, o)) /\ Cardinality(AheadIn(m, l, o)) \in Nat
<1>1. Own(m, l) \in SUBSET Nodes /\ Own(m, l) \subseteq m.heap
  BY MemTypes DEF MemInv, Own
<1>2. ASSUME NEW e \in AheadIn(m, l, o)
      PROVE  e \in HeldBy(m, Own(m, l)) /\ e \in HeldBy(m, m.heap)
  <2>1. e \in Elems /\ e \in HeldBy(m, m.heap)
        /\ \E n \in Own(m, l) : \E s \in Slots : m.node[n].slot[s] = e
    BY AheadHeld
  <2>2. e # NULL
    BY <2>1, ConstantsAssumption
  <2> QED BY <2>1, <2>2, HeldMember
<1>3. IsFiniteSet(HeldBy(m, Own(m, l)))
  BY <1>1, HeldFinite
<1>4. AheadIn(m, l, o) \in SUBSET HeldBy(m, Own(m, l))
  BY <1>2
<1>5. IsFiniteSet(AheadIn(m, l, o))
  BY <1>3, <1>4, FS_Subset
<1> QED BY <1>2, <1>4, <1>5, FS_CardinalityType

(* Fewer elements ahead. *)
LEMMA FewerAhead ==
  ASSUME NEW A, IsFiniteSet(A), NEW B \in SUBSET A
  PROVE  /\ Cardinality(B) \in Nat /\ Cardinality(A) \in Nat
         /\ Cardinality(B) <= Cardinality(A)
         /\ \A v \in A : v \notin B => Cardinality(B) + 1 <= Cardinality(A)
<1>1. IsFiniteSet(B) /\ Cardinality(B) <= Cardinality(A)
  BY FS_Subset
<1>2. Cardinality(A) \in Nat
  BY FS_CardinalityType
<1>3. Cardinality(B) \in Nat
  BY <1>1, FS_CardinalityType
<1>4. ASSUME NEW v \in A, v \notin B PROVE Cardinality(B) + 1 <= Cardinality(A)
  <2>1. A \ {v} \in SUBSET A /\ B \in SUBSET (A \ {v})
    BY <1>4
  <2>2. IsFiniteSet(A \ {v})
    BY <2>1, FS_Subset
  <2>3. Cardinality(B) <= Cardinality(A \ {v})
    BY <2>1, <2>2, FS_Subset
  <2>4. Cardinality(A \ {v}) = Cardinality(A) - 1
    BY <1>4, FS_RemoveElement
  <2> QED BY <1>2, <1>3, <2>3, <2>4
<1> QED BY <1>1, <1>2, <1>3, <1>4

(* Nothing is ahead of a walk that has counted enough. *)
LEMMA NoneAhead ==
  ASSUME NEW m, MemInv(m), NEW l, NEW o \in OpRecord, NEW vs, SeenInv(m, l, o, vs),
         o.pc \in {"walk", "visit", "cleanup"}, o.elementsDone >= o.initNumElements
  PROVE  AheadIn(m, l, o) = {}
<1> DEFINE k == Cardinality(AheadIn(m, l, o))
<1>1. k \in Nat /\ IsFiniteSet(AheadIn(m, l, o))
  BY AheadFinite
<1>2. k = 0 => AheadIn(m, l, o) = {}
  BY <1>1, FS_EmptySet
<1>3. o.elementsDone \in Nat /\ o.i \in Nat /\ o.initNumElements \in Nat
  BY DEF OpRecord
<1>4. DoneSoFar(o) + k <= o.initNumElements
  BY DEF SeenInv
<1> HIDE DEF k
<1>5. DoneSoFar(o) \in Nat /\ DoneSoFar(o) >= o.elementsDone
  BY <1>3 DEF DoneSoFar
<1>6. k = 0
  BY <1>1, <1>3, <1>4, <1>5
<1> QED BY <1>2, <1>6

(* The list of a step that is elsewhere. *)
LEMMA SeenElsewhere ==
  ASSUME NEW m, NEW r, NEW k, SameList(m, r, k), NEW o, NEW vs, NEW ws,
         o.pc \in {"walk", "visit", "cleanup"} /\ o.currentNode # NULL
           => o.currentNode \in Own(m, k),
         o.pc = "visit" => o.currentNode # NULL,
         \A e \in HeldBy(m, Own(m, k)) : ws[e] = vs[e],
         SeenInv(m, k, o, vs)
  PROVE  SeenInv(r, k, o, ws)
<1>1. AheadIn(r, k, o) = AheadIn(m, k, o)
  BY AheadElsewhere
<1>2. HeldBy(r, Own(r, k)) = HeldBy(m, Own(m, k))
  BY DEF SameList, HeldBy, Held
<1>3. o.pc = "visit" => r.node[o.currentNode] = m.node[o.currentNode]
  BY DEF SameList
<1> QED BY <1>1, <1>2, <1>3 DEF SeenInv

(* It remains to look at the list of the step. *)
LEMMA SeenThread ==
  ASSUME IInv, AllInv, phase = "kernel", OneWay(kernel), kernel' = kernel,
         NEW l \in Lists, Elsewhere(mem, mem', l),
         \A k \in Lists \ {l} : op'[k] = op[k],
         HeldBy(mem', mem'.heap) \subseteq owed',
         \A k \in Lists \ {l} : \A e \in HeldBy(mem, Own(mem, k)) : visits'[e] = visits[e],
         SeenInv(mem', l, op'[l], visits')
  PROVE  AllInv'
<1> DEFINE r == mem'
           ws == visits'
<1>1. /\ Elsewhere(mem, r, l) /\ HeldBy(r, r.heap) \subseteq owed'
      /\ \A k \in Lists \ {l} : op'[k] = op[k]
      /\ \A k \in Lists \ {l} : \A e \in HeldBy(mem, Own(mem, k)) : ws[e] = visits[e]
      /\ SeenInv(r, l, op'[l], ws)
  OBVIOUS
<1> HIDE DEF r, ws
<1>2. ASSUME NEW k \in Lists, k # l PROVE SeenInv(r, k, op'[k], ws)
  <2> DEFINE o == op[k]
  <2>1. SeenInv(mem, k, o, visits) /\ OpPlace(mem, k, o) /\ op'[k] = o
    BY <1>1, <1>2, OpFacts DEF AllInv
  <2>2. o.pc \in {"walk", "visit", "cleanup"} /\ o.currentNode # NULL
          => o.currentNode \in Own(mem, k)
    BY KernelNode
  <2>3. o.pc = "visit" => o.currentNode # NULL
    <3>1. o.pc = "visit" => o.currentNode \in Own(mem, k)
      BY <2>1 DEF OpPlace
    <3> QED BY <3>1, OpFacts, MemTypes, ConstantsAssumption DEF Own
  <2>4. SameList(mem, r, k) /\ \A e \in HeldBy(mem, Own(mem, k)) : ws[e] = visits[e]
    BY <1>1, <1>2 DEF Elsewhere
  <2> HIDE DEF o
  <2>5. SeenInv(r, k, o, ws)
    BY <2>1, <2>2, <2>3, <2>4, SeenElsewhere
  <2> QED BY <2>1, <2>5
<1>3. \A k \in Lists : SeenInv(r, k, op'[k], ws)
  BY <1>1, <1>2
<1> QED BY <1>1, <1>3 DEF AllInv, r, ws

(* A round of the compaction of the chunk the kernel is about to enter. *)
LEMMA SeenRound ==
  ASSUME NEW m, NEW r, MemInv(m), MemInv(r), NEW l \in Lists, NEW o \in OpRecord,
         NEW vs, NEW c, c = o.currentNode, o.pc = "cleanup",
         c \in Own(m, l), c \in Own(r, l),
         MovesUp(m, r, l), Steady(m, r), StaysBut(m, r, c),
         r.node[c].active => m.node[c].active,
         m.node[c].active /\ ~r.node[c].active => AheadOf(m, l, c, 0) = {},
         HeldBy(r, r.heap) = HeldBy(m, m.heap),
         SeenInv(m, l, o, vs)
  PROVE  SeenInv(r, l, o, vs)
<1>1. /\ o.after = "visit" /\ From(o) = 0 /\ c # NULL
      /\ m \in Mem /\ m.heap \subseteq Nodes
  <2>1. m \in Mem /\ m.heap \subseteq Nodes
    BY MemTypes DEF MemInv
  <2> QED BY <2>1, ConstantsAssumption DEF SeenInv, From, Own
<1> DEFINE A == AheadIn(m, l, o)
           B == AheadIn(r, l, o)
<1>2. /\ m.node[c].active => A = AheadOf(m, l, c, 0)
      /\ ~m.node[c].active => A = {}
      /\ r.node[c].active => B = AheadOf(r, l, c, 0)
  BY <1>1 DEF AheadIn
<1>3. B \subseteq A
  <2>1. B \subseteq A \cup (Elems \ HeldBy(m, m.heap))
    BY AheadAfter
  <2>2. B \subseteq HeldBy(r, r.heap)
    BY AheadFinite
  <2> QED BY <2>1, <2>2
<1>4. IsFiniteSet(A)
  BY AheadFinite
<1>5. \A e \in HeldBy(m, Own(m, l)) : e \in A \/ vs[e] = 1
  BY DEF SeenInv
<1>6. DoneSoFar(o) + Cardinality(A) <= o.initNumElements
  BY DEF SeenInv
<1> HIDE DEF A, B
<1>7. ASSUME NEW e \in HeldBy(r, Own(r, l)), vs[e] # 1 PROVE e \in B
  <2>1. PICK n \in Own(r, l), s \in Slots : r.node[n].slot[s] = e /\ e # NULL
    BY HeldMember
  <2>2. n \in r.heap
    BY DEF Own
  <2>3. e \in HeldBy(m, m.heap)
    <3>1. e \in HeldBy(r, r.heap)
      BY <2>1, <2>2, HeldMember
    <3> QED BY <3>1
  <2>4. PICK k \in Own(m, l), j \in Slots : m.node[k].slot[j] = e
    BY <2>1, <2>3 DEF MovesUp
  <2>5. n \in m.heap /\ m.node[n].active
    BY <2>1, <2>3 DEF MovesUp
  <2>6. e \in HeldBy(m, Own(m, l))
    BY <2>1, <2>4, HeldMember
  <2>7. e \in A
    BY <1>5, <1>7, <2>6
  <2>8. m.node[c].active /\ e \in AheadOf(m, l, c, 0) /\ r.node[c].active
    BY <1>2, <2>7
  <2>9. s \in Nat
    BY ConstantsAssumption DEF Slots
  <2>10. Past(r, c, 0, n, s)
    <3>1. CASE n = c
      BY <2>9, <3>1 DEF Past
    <3>2. CASE n # c
      <4>1. m.node[n].slot[s] = e
        BY <2>1, <2>2, <2>3, <3>2 DEF StaysBut
      <4>2. PICK x \in Own(m, l), i \in Slots : m.node[x].slot[i] = e /\ Past(m, c, 0, x, i)
        BY <2>8 DEF AheadOf
      <4>3. x = n
        BY <2>1, <2>5, <4>1, <4>2 DEF MemInv, StoredOnce, Own
      <4>4. m.node[n].index > m.node[c].index
        BY <3>2, <4>2, <4>3 DEF Past
      <4>5. r.node[n].index = m.node[n].index /\ r.node[c].index = m.node[c].index
        BY <2>5, <2>8 DEF Steady, Own
      <4> QED BY <4>4, <4>5 DEF Past
    <3> QED BY <3>1, <3>2
  <2>11. e \in Elems
    BY <2>8 DEF AheadOf
  <2>12. e \in AheadOf(r, l, c, 0)
    BY <2>1, <2>10, <2>11 DEF AheadOf
  <2> QED BY <1>2, <2>8, <2>12
<1>8. DoneSoFar(o) + Cardinality(B) <= o.initNumElements
  <2> DEFINE a == Cardinality(A)
             b == Cardinality(B)
             d == DoneSoFar(o)
             k == o.initNumElements
  <2>1. a \in Nat /\ b \in Nat /\ b <= a
    BY <1>3, <1>4, FewerAhead
  <2>2. d \in Nat /\ k \in Nat /\ d + a <= k
    BY <1>6 DEF DoneSoFar, OpRecord
  <2> HIDE DEF a, b, d, k
  <2>3. d + b <= k
    BY <2>1, <2>2
  <2> QED BY <2>3 DEF b, d, k
<1> QED BY <1>1, <1>7, <1>8 DEF SeenInv, B

(* A one-way kernel's list, and the chunk under compaction. *)
LEMMA OneWayCleanup ==
  ASSUME IInv, AllInv, phase = "kernel", OneWay(kernel), NEW l \in Lists,
         op[l].pc = "cleanup"
  PROVE  /\ HeldBy(mem, mem.heap) \subseteq owed /\ SeenInv(mem, l, op[l], visits)
         /\ op[l].after = "visit" /\ op[l].cleaning = op[l].currentNode
         /\ op[l].currentNode \in Own(mem, l)
<1>1. HeldBy(mem, mem.heap) \subseteq owed /\ SeenInv(mem, l, op[l], visits)
  BY DEF AllInv
<1>2. op[l].after = "visit"
  BY <1>1 DEF SeenInv
<1>3. OpControl(phase, op[l]) /\ OpPlace(mem, l, op[l])
  BY OpFacts
<1>4. op[l].cleaning = op[l].currentNode
  BY <1>2, <1>3 DEF OpControl
<1>5. op[l].currentNode \in Own(mem, l)
  BY <1>2, <1>3 DEF OpPlace
<1> QED BY <1>1, <1>2, <1>4, <1>5

(* The empty tail has nothing behind it. *)
LEMMA NoneBehindTail ==
  ASSUME NEW m, MemInv(m), NEW l \in Lists, NEW t, t = m.list[l].tail,
         t \in Own(m, l), m.node[t].active, Taken(m.node[t]) = {}
  PROVE  AheadOf(m, l, t, 0) = {}
<1> SUFFICES ASSUME NEW e \in AheadOf(m, l, t, 0) PROVE FALSE
  OBVIOUS
<1>1. PICK n \in Own(m, l), s \in Slots : m.node[n].slot[s] = e /\ Past(m, t, 0, n, s)
  BY DEF AheadOf
<1>2. e # NULL
  BY ConstantsAssumption DEF AheadOf
<1>3. s \in Taken(m.node[n])
  BY <1>1, <1>2 DEF Taken
<1>4. m.node[n].active
  BY <1>3 DEF MemInv, FillInv, Own
<1>5. m.node[n].index <= m.node[t].index
  BY <1>4 DEF MemInv, ShapeInv, ActiveInv, ActiveNode
<1>6. m.node[n].index \in Nat /\ m.node[t].index \in Nat
  <2>1. n \in Nodes /\ t \in Nodes /\ m \in Mem
    BY MemTypes DEF MemInv, Own
  <2> QED BY <2>1, MemTypes
<1>7. n = t
  BY <1>1, <1>5, <1>6 DEF Past
<1> QED BY <1>3, <1>7

(* A round of _cleanupNode. *)
LEMMA AllRound ==
  ASSUME IInv, IInv', AllInv, phase = "kernel", OneWay(kernel), NEW l \in Lists,
         CleanupDropTail(l) \/ CleanupMove(l)
  PROVE  AllInv'
<1> DEFINE r == mem'
           o == op[l]
           c == o.currentNode
<1>1. /\ op[l].pc = "cleanup"
      /\ UNCHANGED <<op, phase, kernel, owed, visits>>
  BY DEF CleanupDropTail, CleanupMove, Cleaning
<1>2. /\ HeldBy(mem, mem.heap) \subseteq owed /\ SeenInv(mem, l, o, visits)
      /\ op[l].cleaning = c /\ c \in Own(mem, l) /\ c = o.currentNode
      /\ o.pc = "cleanup"
  BY <1>1, OneWayCleanup
<1>3. o \in OpRecord /\ MemInv(mem) /\ mem \in Mem
  BY OpFacts
<1>4. OpPlace(r, l, o) /\ MemInv(r)
  BY <1>1 DEF IInv, OpsInv
<1>5. c \in Own(r, l)
  BY <1>1, <1>4, OneWayCleanup DEF OpPlace
<1> HIDE DEF r, o, c
<1>6. /\ MovesUp(mem, r, l) /\ Steady(mem, r) /\ NoWake(mem, r)
      /\ Elsewhere(mem, r, l) /\ HeldBy(r, r.heap) = HeldBy(mem, mem.heap)
      /\ StaysBut(mem, r, c)
      /\ mem.node[c].active /\ ~r.node[c].active => AheadOf(mem, l, c, 0) = {}
  <2>1. CASE CleanupDropTail(l)
    <3> DEFINE t == mem.list[l].tail
    <3>1. /\ Quiet(mem, r, l) /\ NoWake(mem, r)
          /\ HeldBy(r, r.heap) = HeldBy(mem, mem.heap)
          /\ DropEffect(mem, r, l, t) /\ TailIsEmpty(l)
      BY <2>1, DropStep DEF r
    <3>2. MovesUp(mem, r, l)
      BY <1>3, <1>4, <3>1, StaysUp DEF Quiet
    <3>3. StaysBut(mem, r, c)
      BY <3>1 DEF Quiet, Stays, StaysBut
    <3>4. /\ t # NULL /\ mem.node[t].active /\ Taken(mem.node[t]) = {}
          /\ t \in Own(mem, l)
      BY <1>3, <3>1 DEF TailIsEmpty, MemInv, ShapeInv, EndsInv
    <3>5. AheadOf(mem, l, t, 0) = {}
      BY <1>3, <3>4, NoneBehindTail
    <3>6. ASSUME mem.node[c].active, ~r.node[c].active PROVE c = t
      <4>1. c \in Nodes
        BY <1>2, <1>3, MemTypes DEF Own
      <4> QED BY <3>1, <3>6, <4>1 DEF DropEffect, Turn
    <3> HIDE DEF t
    <3>7. mem.node[c].active /\ ~r.node[c].active => AheadOf(mem, l, c, 0) = {}
      BY <3>5, <3>6
    <3> QED BY <3>1, <3>2, <3>3, <3>7 DEF Quiet
  <2>2. CASE CleanupMove(l)
    <3>1. /\ MovesUp(mem, r, l) /\ Firm(mem, r)
          /\ Elsewhere(mem, r, l) /\ NoWake(mem, r)
          /\ StaysBut(mem, r, op[l].cleaning)
          /\ HeldBy(r, r.heap) = HeldBy(mem, mem.heap)
      BY <2>2, MoveStep DEF r
    <3>2. StaysBut(mem, r, c)
      BY <1>2, <3>1
    <3>3. Steady(mem, r) /\ (mem.node[c].active => r.node[c].active)
      BY <1>2, <3>1 DEF Firm, Steady, Own
    <3> QED BY <3>1, <3>2, <3>3
  <2> QED BY <2>1, <2>2
<1>7. r.node[c].active => mem.node[c].active
  BY <1>5, <1>6 DEF NoWake, Own
<1>8. SeenInv(r, l, o, visits)
  BY <1>2, <1>3, <1>4, <1>5, <1>6, <1>7, SeenRound
<1>9. /\ HeldBy(r, r.heap) \subseteq owed' /\ SeenInv(r, l, op'[l], visits')
      /\ \A k \in Lists \ {l} : op'[k] = op[k]
      /\ \A k \in Lists \ {l} : \A e \in HeldBy(mem, Own(mem, k)) : visits'[e] = visits[e]
  BY <1>1, <1>2, <1>6, <1>8 DEF o
<1> QED BY <1>1, <1>6, <1>9, SeenThread DEF r

(* The chunk is compact, and the kernel enters it. *)
LEMMA AllDone ==
  ASSUME IInv, AllInv, phase = "kernel", OneWay(kernel), NEW l \in Lists,
         CleanupDone(l)
  PROVE  AllInv'
<1> DEFINE r == mem'
           o == op[l]
           p == op'[l]
           c == o.currentNode
           num == mem.node[c].numElements
<1>1. op[l].pc = "cleanup" /\ kernel' = kernel /\ visits' = visits /\ owed' = owed
  BY DEF CleanupDone
<1>2. /\ HeldBy(mem, mem.heap) \subseteq owed /\ SeenInv(mem, l, o, visits)
      /\ op[l].after = "visit" /\ op[l].cleaning = c /\ c \in Own(mem, l)
      /\ c = o.currentNode /\ o.pc = "cleanup"
  BY <1>1, OneWayCleanup
<1>3. o \in OpRecord /\ MemInv(mem) /\ mem \in Mem /\ mem.heap \subseteq Nodes
  BY OpFacts, MemTypes
<1>4. /\ p.pc = "visit" /\ p.currentNode = c /\ From(p) = From(o) /\ p.i = 0
      /\ p.elementsDone = o.elementsDone /\ p.initNumElements = o.initNumElements
      /\ p.originalElements = num
      /\ \A k \in Lists \ {l} : op'[k] = op[k]
  BY <1>2, DoneLocals
<1>5. /\ r = Marked(mem, c, num, FALSE)
      /\ ~(Cleaning(l) /\ (TailIsEmpty(l) \/ CanPull(l)))
  BY <1>2 DEF CleanupDone, Marked
<1>6. c = op[l].cleaning /\ num = mem.node[c].numElements
  BY <1>2
<1>7. MemInv(r) /\ Calm(mem, r, l) /\ NoWake(mem, r)
  BY <1>2, DoneVisitStep
<1> HIDE DEF r, o, p, c, num
<1>8. /\ MarkEffect(mem, r, c, num, FALSE) /\ c \in Own(r, l)
      /\ HeldBy(r, r.heap) = HeldBy(mem, mem.heap)
      /\ Taken(mem.node[c]) = 0..(num - 1) /\ num \in Nat
  BY <1>1, <1>5, <1>6, CleanedChunk
<1>9. /\ MovesUp(mem, r, l) /\ Steady(mem, r) /\ Elsewhere(mem, r, l)
      /\ StaysBut(mem, r, c)
  <2>1. MovesUp(mem, r, l)
    BY <1>3, <1>7, StaysUp DEF Calm
  <2>2. StaysBut(mem, r, c)
    BY <1>7 DEF Calm, Stays, StaysBut
  <2> QED BY <1>7, <2>1, <2>2 DEF Calm, Firm, Steady
<1>10. r.node[c].active = mem.node[c].active
  BY <1>8 DEF MarkEffect
<1>11. SeenInv(r, l, o, visits)
  <2>1. r.node[c].active => mem.node[c].active
    BY <1>10
  <2>2. mem.node[c].active /\ ~r.node[c].active => AheadOf(mem, l, c, 0) = {}
    BY <1>10
  <2> QED BY <1>2, <1>3, <1>7, <1>8, <1>9, <2>1, <2>2, SeenRound
<1>12. SeenInv(r, l, p, visits)
  <2>1. AheadIn(r, l, p) = AheadIn(r, l, o)
    BY <1>2, <1>4, SameAhead
  <2>2. DoneSoFar(p) = DoneSoFar(o)
    <3>1. o.elementsDone \in Nat
      BY <1>3 DEF OpRecord
    <3> QED BY <1>2, <1>4, <3>1 DEF DoneSoFar
  <2>3. Taken(r.node[c]) = Taken(mem.node[c])
    BY <1>8 DEF MarkEffect, Taken
  <2>4. PackedFrom(r.node[p.currentNode], p.i, p.originalElements)
    <3>1. \A s \in Slots : s \in Taken(r.node[c]) <=> s < num
      <4>1. \A s \in Slots : s \in Nat
        BY ConstantsAssumption DEF Slots
      <4> QED BY <1>8, <2>3, <4>1
    <3> QED BY <1>4, <3>1 DEF PackedFrom
  <2>5. DoneSoFar(o) + Cardinality(AheadIn(r, l, o)) <= o.initNumElements
    BY <1>2, <1>11 DEF SeenInv
  <2>6. DoneSoFar(p) + Cardinality(AheadIn(r, l, p)) <= p.initNumElements
    BY <1>4, <2>1, <2>2, <2>5
  <2>7. \A e \in HeldBy(r, Own(r, l)) : e \in AheadIn(r, l, p) \/ visits[e] = 1
    BY <1>11, <2>1 DEF SeenInv
  <2> QED BY <1>4, <2>4, <2>6, <2>7 DEF SeenInv
<1>13. /\ HeldBy(r, r.heap) \subseteq owed' /\ SeenInv(r, l, op'[l], visits')
       /\ \A k \in Lists \ {l} : \A e \in HeldBy(mem, Own(mem, k)) : visits'[e] = visits[e]
  BY <1>1, <1>2, <1>8, <1>12 DEF p
<1> QED BY <1>1, <1>4, <1>9, <1>13, SeenThread DEF r

(* A chunk that is not dirty is packed while a kernel looks at it. *)
LEMMA WalkPacked ==
  ASSUME IInv, NEW l \in Lists, op[l].pc = "walk",
         NEW c \in Own(mem, l), ~mem.node[c].dirty
  PROVE  Taken(mem.node[c]) = 0..(mem.node[c].numElements - 1)
<1>1. c \in mem.heap /\ mem.node[c].threadList = l /\ c # NULL
  BY MemTypes, ConstantsAssumption DEF Own, IInv, MemInv
<1>2. ASSUME NEW k \in Lists, op[k].cleaning = c PROVE FALSE
  <2>1. OpControl(phase, op[k]) /\ OpPlace(mem, k, op[k])
    BY OpFacts
  <2>2. op[k].pc = "cleanup"
    BY <1>1, <1>2, <2>1 DEF OpControl
  <2>3. c \in Own(mem, k)
    BY <1>2, <2>1, <2>2 DEF OpPlace, CleanInv
  <2> QED BY <1>1, <2>2, <2>3 DEF Own
<1>3. PackedNode(mem.node[c])
  BY <1>1, <1>2 DEF IInv, PackedInv
<1> QED BY <1>3 DEF PackedNode

(* The walk stops when there is nothing ahead, and enters a packed chunk. *)
LEMMA AllWalk ==
  ASSUME IInv, AllInv, phase = "kernel", OneWay(kernel), NEW l \in Lists,
         KernelWalk(l)
  PROVE  AllInv'
<1> DEFINE o == op[l]
           p == op'[l]
           c == o.currentNode
<1>1. /\ o.pc = "walk" /\ mem' = mem
      /\ \A k \in Lists \ {l} : op'[k] = op[k]
      /\ visits' = visits /\ owed' = owed /\ kernel' = kernel
      /\ WalkOutcome(o, p)
  BY WalkLocals
<1>2. HeldBy(mem, mem.heap) \subseteq owed /\ SeenInv(mem, l, o, visits)
  BY DEF AllInv
<1>3. /\ p.pc = "done" => AheadIn(mem, l, p) = {}
      /\ p.pc # "done" => AheadIn(mem, l, p) = AheadIn(mem, l, o)
  BY WalkAhead
<1>4. o \in OpRecord /\ MemInv(mem) /\ OpPlace(mem, l, o)
  BY OpFacts
<1> HIDE DEF p
<1>5. SeenInv(mem, l, p, visits)
  <2>1. CASE /\ p.pc = "done"
             /\ c = NULL \/ ~mem.node[c].active \/ o.elementsDone >= o.initNumElements
    <3>1. AheadIn(mem, l, o) = {}
      <4>1. CASE c = NULL \/ ~mem.node[c].active
        BY <4>1 DEF AheadIn
      <4>2. CASE o.elementsDone >= o.initNumElements
        BY <1>1, <1>2, <1>4, <4>2, NoneAhead
      <4> QED BY <2>1, <4>1, <4>2
    <3> QED BY <1>2, <2>1, <3>1 DEF SeenInv
  <2>2. CASE /\ c # NULL /\ mem.node[c].active
             /\ p.currentNode = c /\ From(p) = 0
             /\ p.elementsDone = o.elementsDone /\ p.initNumElements = o.initNumElements
             /\ \/ p.pc = "cleanup" /\ p.after = "visit"
                \/ /\ p.pc = "visit" /\ p.i = 0 /\ ~mem.node[c].dirty
                   /\ p.originalElements = mem.node[c].numElements
    <3>1. AheadIn(mem, l, p) = AheadIn(mem, l, o)
      BY <1>3, <2>2
    <3>2. DoneSoFar(p) = DoneSoFar(o)
      <4>1. o.elementsDone \in Nat
        BY <1>4 DEF OpRecord
      <4> QED BY <1>1, <2>2, <4>1 DEF DoneSoFar
    <3>3. ASSUME p.pc = "visit"
          PROVE  PackedFrom(mem.node[p.currentNode], p.i, p.originalElements)
      <4> DEFINE num == mem.node[c].numElements
      <4>1. c \in Own(mem, l)
        BY <1>1, <1>4, <2>2 DEF OpPlace
      <4>2. Taken(mem.node[c]) = 0..(num - 1)
        BY <1>1, <2>2, <3>3, <4>1, WalkPacked
      <4>3. num \in Nat /\ \A s \in Slots : s \in Nat
        <5>1. c \in Nodes /\ mem \in Mem
          BY <1>4, <4>1, MemTypes DEF Own, MemInv
        <5> QED BY <5>1, MemTypes, ConstantsAssumption DEF Slots
      <4>4. p.currentNode = c /\ p.i = 0 /\ p.originalElements = num
        BY <2>2, <3>3
      <4> HIDE DEF num, c
      <4>5. \A s \in Slots : s \in Taken(mem.node[c]) <=> s < num
        BY <4>2, <4>3
      <4> QED BY <4>4, <4>5 DEF PackedFrom
    <3>4. DoneSoFar(p) + Cardinality(AheadIn(mem, l, p)) <= p.initNumElements
      <4>1. DoneSoFar(o) + Cardinality(AheadIn(mem, l, o)) <= o.initNumElements
        BY <1>1, <1>2 DEF SeenInv
      <4> QED BY <2>2, <3>1, <3>2, <4>1
    <3>5. \A e \in HeldBy(mem, Own(mem, l)) : e \in AheadIn(mem, l, p) \/ visits[e] = 1
      BY <1>2, <3>1 DEF SeenInv
    <3>6. p.pc = "cleanup" => p.after = "visit"
      BY <2>2
    <3> QED BY <3>3, <3>4, <3>5, <3>6 DEF SeenInv
  <2> QED BY <1>1, <2>1, <2>2 DEF WalkOutcome
<1>6. Elsewhere(mem, mem', l)
  BY <1>1 DEF Elsewhere, SameList
<1>7. /\ HeldBy(mem', mem'.heap) \subseteq owed'
      /\ \A k \in Lists \ {l} : \A e \in HeldBy(mem, Own(mem, k)) : visits'[e] = visits[e]
  BY <1>1, <1>2
<1>8. SeenInv(mem', l, op'[l], visits')
  BY <1>1, <1>5 DEF p
<1> QED BY <1>1, <1>6, <1>7, <1>8, SeenThread

(* What lies behind an active chunk lies in its successor or behind that. *)
LEMMA BehindNext ==
  ASSUME NEW m, MemInv(m), NEW l \in Lists, NEW c \in Own(m, l), m.node[c].active,
         NEW n \in Own(m, l), m.node[n].active, m.node[n].index > m.node[c].index,
         NEW x, x = m.node[c].next, NEW s \in Slots
  PROVE  x # NULL /\ m.node[x].active /\ Past(m, x, 0, n, s)
<1> DEFINE t == m.list[l].tail
<1>1. ActiveNode(m, l, n) /\ ActiveNode(m, l, c)
  BY DEF MemInv, ShapeInv, ActiveInv
<1>2. \A z \in Own(m, l) : m.node[z].index \in Nat
  BY Zenon, MemTypes DEF MemInv, Own
<1>3. t \in Own(m, l) /\ m.node[n].index <= m.node[t].index
  BY <1>1 DEF ActiveNode, MemInv, ShapeInv, EndsInv
<1>4. c # t
  BY <1>2, <1>3
<1>5. x # NULL /\ m.node[x].active
  BY <1>1, <1>4 DEF ActiveNode
<1>6. x \in Own(m, l) /\ m.node[x].index = m.node[c].index + 1
  BY <1>5, NextBehind
<1>7. m.node[n].index >= m.node[x].index
  BY <1>2, <1>6
<1>8. m.node[n].index = m.node[x].index => n = x
  BY <1>5, <1>6 DEF MemInv, ShapeInv, IndexInv
<1>9. s \in Nat
  BY ConstantsAssumption DEF Slots
<1>10. CASE m.node[n].index = m.node[x].index
  BY <1>5, <1>8, <1>9, <1>10 DEF Past
<1>11. CASE m.node[n].index # m.node[x].index
  <2> DEFINE i == m.node[n].index
             j == m.node[x].index
  <2>1. i \in Nat /\ j \in Nat /\ i >= j /\ i # j
    BY <1>2, <1>6, <1>7, <1>11
  <2> HIDE DEF i, j
  <2>2. i > j
    BY <2>1
  <2> QED BY <1>5, <2>2 DEF Past, i, j
<1> QED BY <1>10, <1>11

(* The kernel has been at all elements of the chunk it leaves. *)
LEMMA LeaveAhead ==
  ASSUME IInv, NEW l \in Lists, LeaveNode(l), SeenInv(mem, l, op[l], visits)
  PROVE  AheadIn(mem, l, op[l]) \subseteq AheadIn(mem, l, op'[l])
<1> DEFINE o == op[l]
           p == op'[l]
           c == o.currentNode
           x == p.currentNode
<1>1. /\ mem' = mem /\ o.pc = "visit" /\ p.pc = "walk" /\ x = mem.node[c].next
      /\ ~VisitsNext(l)
  BY LeaveLocals
<1>2. /\ MemInv(mem) /\ mem \in Mem /\ OpPlace(mem, l, o) /\ o \in OpRecord
      /\ c \in Own(mem, l)
  BY <1>1, OpFacts DEF OpPlace
<1>3. PackedFrom(mem.node[c], o.i, o.originalElements)
  BY <1>1 DEF SeenInv
<1> SUFFICES ASSUME NEW e \in AheadIn(mem, l, o) PROVE e \in AheadIn(mem, l, p)
  OBVIOUS
<1>4. o.elementsDone < o.initNumElements
  <2>1. ~(o.elementsDone >= o.initNumElements)
    BY <1>1, <1>2, NoneAhead
  <2>2. o.elementsDone \in Nat /\ o.initNumElements \in Nat
    BY <1>2 DEF OpRecord
  <2> QED BY <2>1, <2>2
<1>5. ASSUME NEW s \in Taken(mem.node[c]), s >= o.i PROVE FALSE
  <2>1. s \in Slots /\ s < Capacity /\ s \in Nat /\ Capacity \in Nat
    BY ConstantsAssumption DEF Taken, Slots
  <2>2. o.i \in Nat /\ o.originalElements \in Nat
    BY <1>2 DEF OpRecord
  <2>3. s < o.originalElements
    BY <1>3, <1>5, <2>1 DEF PackedFrom
  <2>4. o.i < Capacity /\ o.i < o.originalElements
    BY <1>5, <2>1, <2>2, <2>3
  <2>5. o.i \in Slots
    BY <2>1, <2>2, <2>4 DEF Slots
  <2>6. o.i \in Taken(mem.node[c])
    BY <1>3, <2>2, <2>4, <2>5 DEF PackedFrom
  <2>7. mem.node[c].slot[o.i] # NULL
    BY <2>6 DEF Taken
  <2> QED BY <1>1, <1>4, <2>4, <2>7 DEF VisitsNext
<1>6. mem.node[c].active /\ e \in AheadOf(mem, l, c, o.i)
  BY <1>1 DEF AheadIn, From
<1>7. PICK n \in Own(mem, l), s \in Slots :
             mem.node[n].slot[s] = e /\ Past(mem, c, o.i, n, s)
  BY <1>6 DEF AheadOf
<1>8. e \in Elems /\ e # NULL
  BY <1>6, ConstantsAssumption DEF AheadOf
<1>9. s \in Taken(mem.node[n])
  BY <1>7, <1>8 DEF Taken
<1>10. mem.node[n].active
  BY <1>2, <1>9 DEF MemInv, FillInv, Own
<1>11. mem.node[n].index > mem.node[c].index
  BY <1>5, <1>7, <1>9 DEF Past
<1> HIDE DEF c, x, o, p
<1>12. x # NULL /\ mem.node[x].active /\ Past(mem, x, 0, n, s)
  BY <1>1, <1>2, <1>6, <1>10, <1>11, BehindNext
<1>13. e \in AheadOf(mem, l, x, 0)
  BY <1>7, <1>8, <1>12 DEF AheadOf
<1>14. From(p) = 0
  BY <1>1 DEF From
<1> QED BY <1>1, <1>12, <1>13, <1>14 DEF AheadIn, x

(* The kernel goes on to the next chunk. *)
LEMMA AllLeave ==
  ASSUME IInv, AllInv, phase = "kernel", OneWay(kernel), NEW l \in Lists,
         LeaveNode(l)
  PROVE  AllInv'
<1> DEFINE o == op[l]
           p == op'[l]
<1>1. /\ o.pc = "visit" /\ p.pc = "walk" /\ mem' = mem
      /\ \A k \in Lists \ {l} : op'[k] = op[k]
      /\ visits' = visits /\ owed' = owed /\ kernel' = kernel
      /\ p.elementsDone = o.elementsDone + o.i
      /\ p.initNumElements = o.initNumElements
  BY LeaveLocals
<1>2. HeldBy(mem, mem.heap) \subseteq owed /\ SeenInv(mem, l, o, visits)
  BY DEF AllInv
<1>3. AheadIn(mem, l, p) = AheadIn(mem, l, o)
  BY <1>2, LeaveAhead, LeaveBehind
<1> HIDE DEF p, o
<1>4. DoneSoFar(p) = DoneSoFar(o)
  BY <1>1 DEF DoneSoFar
<1>5. SeenInv(mem, l, p, visits)
  <2>1. DoneSoFar(o) + Cardinality(AheadIn(mem, l, o)) <= o.initNumElements
    BY <1>1, <1>2 DEF SeenInv
  <2>2. DoneSoFar(p) + Cardinality(AheadIn(mem, l, p)) <= p.initNumElements
    BY <1>1, <1>3, <1>4, <2>1
  <2>3. \A e \in HeldBy(mem, Own(mem, l)) : e \in AheadIn(mem, l, p) \/ visits[e] = 1
    BY <1>2, <1>3 DEF SeenInv
  <2> QED BY <1>1, <2>2, <2>3 DEF SeenInv
<1>6. Elsewhere(mem, mem', l)
  BY <1>1 DEF Elsewhere, SameList
<1>7. /\ HeldBy(mem', mem'.heap) \subseteq owed'
      /\ \A k \in Lists \ {l} : \A e \in HeldBy(mem, Own(mem, k)) : visits'[e] = visits[e]
  BY <1>1, <1>2
<1>8. SeenInv(mem', l, op'[l], visits')
  BY <1>1, <1>5 DEF p
<1> QED BY <1>1, <1>6, <1>7, <1>8, SeenThread

(* An element other than the visited one is at the address it had. *)
LEMMA OnlyOneGone ==
  ASSUME NEW m, NEW r, MemInv(m), MemInv(r), Stays(m, r), NEW v,
         HeldBy(r, r.heap) \subseteq HeldBy(m, m.heap),
         HeldBy(m, m.heap) \ {v} \subseteq HeldBy(r, r.heap)
  PROVE  /\ \A n \in r.heap : \A s \in Slots : r.node[n].slot[s] # NULL =>
              n \in m.heap /\ m.node[n].slot[s] = r.node[n].slot[s]
         /\ \A n \in m.heap : \A s \in Slots :
              m.node[n].slot[s] # NULL /\ m.node[n].slot[s] # v =>
                n \in r.heap /\ r.node[n].slot[s] = m.node[n].slot[s]
<1>1. ASSUME NEW n \in r.heap, NEW s \in Slots, r.node[n].slot[s] # NULL
      PROVE  n \in m.heap /\ m.node[n].slot[s] = r.node[n].slot[s]
  <2>1. r.node[n].slot[s] \in HeldBy(r, r.heap)
    BY <1>1, HeldMember
  <2> QED BY <1>1, <2>1 DEF Stays
<1>2. ASSUME NEW n \in m.heap, NEW s \in Slots,
             m.node[n].slot[s] # NULL, m.node[n].slot[s] # v
      PROVE  n \in r.heap /\ r.node[n].slot[s] = m.node[n].slot[s]
  <2>1. m.node[n].slot[s] \in HeldBy(m, m.heap)
    BY <1>2, HeldMember
  <2>2. m.node[n].slot[s] \in HeldBy(r, r.heap)
    BY <1>2, <2>1
  <2>3. PICK z \in r.heap, k \in Slots : r.node[z].slot[k] = m.node[n].slot[s]
    BY <2>2, HeldMember
  <2>4. z \in m.heap /\ m.node[z].slot[k] = m.node[n].slot[s]
    BY <1>1, <1>2, <2>3
  <2>5. z = n /\ k = s
    BY <1>2, <2>4 DEF MemInv, StoredOnce
  <2> QED BY <2>3, <2>5
<1> QED BY <1>1, <1>2

(* A visit that at most frees its element. *)
LEMMA SeenVisit ==
  ASSUME NEW m, NEW r, MemInv(m), MemInv(r), NEW l \in Lists, Calm(m, r, l),
         NEW o \in OpRecord, NEW p, NEW c, NEW i \in Slots, NEW v \in Elems, NEW vs, NEW ws,
         o.pc = "visit", c = o.currentNode, i = o.i,
         c \in Own(m, l), m.node[c].active, v = m.node[c].slot[i],
         p.pc = "visit", p.currentNode = c, p.i = i + 1,
         p.elementsDone = o.elementsDone, p.initNumElements = o.initNumElements,
         p.originalElements = o.originalElements,
         HeldBy(r, r.heap) \subseteq HeldBy(m, m.heap),
         HeldBy(m, m.heap) \ {v} \subseteq HeldBy(r, r.heap),
         ws[v] = 1, \A e \in Elems : e # v => ws[e] = vs[e],
         SeenInv(m, l, o, vs)
  PROVE  SeenInv(r, l, p, ws)
<1>1. /\ m \in Mem /\ r \in Mem /\ m.heap \subseteq Nodes /\ c # NULL /\ i \in Nat
      /\ c \in m.heap /\ c \in r.heap /\ r.node[c].active
      /\ r.node[c].index = m.node[c].index
      /\ Elsewhere(m, r, l) /\ Stays(m, r) /\ Firm(m, r)
      /\ v # NULL
  <2>1. m \in Mem /\ r \in Mem /\ m.heap \subseteq Nodes
    BY MemTypes DEF MemInv
  <2>2. Elsewhere(m, r, l) /\ Stays(m, r) /\ Firm(m, r)
    BY DEF Calm
  <2> QED BY <2>1, <2>2, ConstantsAssumption DEF Firm, Own, Slots
<1> DEFINE A == AheadIn(m, l, o)
           B == AheadIn(r, l, p)
           j == i + 1
<1>2. A = AheadOf(m, l, c, i) /\ B = AheadOf(r, l, c, j)
  BY <1>1 DEF AheadIn, From
<1>3. v \in A
  <2>1. Past(m, c, i, c, i)
    BY <1>1 DEF Past
  <2> QED BY <1>2, <2>1 DEF AheadOf
<1>4. IsFiniteSet(A)
  BY AheadFinite
<1>5. B \subseteq HeldBy(r, r.heap)
  BY AheadFinite
<1>6. j \in Nat /\ j = i + 1
  BY <1>1
<1>7. AheadOf(m, l, c, j) \subseteq AheadOf(m, l, c, i) \ {v}
  BY OneLess
<1>8. \A e \in HeldBy(m, Own(m, l)) : e \in A \/ vs[e] = 1
  BY DEF SeenInv
<1>9. DoneSoFar(o) + Cardinality(A) <= o.initNumElements
  BY DEF SeenInv
<1>10. PackedFrom(m.node[c], i, o.originalElements)
  BY DEF SeenInv
<1> HIDE DEF A, B, j
<1>11. MovesUp(m, r, l) /\ Steady(m, r)
  <2>1. MovesUp(m, r, l)
    BY <1>1, StaysUp
  <2> QED BY <1>1, <2>1 DEF Firm, Steady
<1>12. AheadOf(r, l, c, j) \subseteq AheadOf(m, l, c, j) \cup (Elems \ HeldBy(m, m.heap))
  BY <1>6, <1>11, AheadShrinks
<1>13. B \in SUBSET A /\ v \notin B
  BY Zenon, <1>2, <1>5, <1>7, <1>12
<1>14. /\ \A n \in r.heap : \A s \in Slots : r.node[n].slot[s] # NULL =>
              n \in m.heap /\ m.node[n].slot[s] = r.node[n].slot[s]
       /\ \A n \in m.heap : \A s \in Slots :
              m.node[n].slot[s] # NULL /\ m.node[n].slot[s] # v =>
                n \in r.heap /\ r.node[n].slot[s] = m.node[n].slot[s]
  BY <1>1, OnlyOneGone
<1>15. ASSUME NEW e \in HeldBy(r, Own(r, l)), ws[e] # 1 PROVE e \in B
  <2>1. PICK n \in Own(r, l), s \in Slots : r.node[n].slot[s] = e /\ e # NULL
    BY HeldMember
  <2>2. n \in r.heap /\ n \in m.heap /\ m.node[n].slot[s] = e
    BY Zenon, <1>14, <2>1 DEF Own
  <2>3. n \in Own(m, l)
    BY <1>1, <2>1, <2>2, SameOwner DEF Own
  <2>4. e \in Elems
    <3>1. m.node[n].slot \in [Slots -> Elems \cup {NULL}]
      BY <1>1, <2>2, MemTypes
    <3> QED BY <2>1, <2>2, <3>1
  <2>5. e # v /\ vs[e] # 1
    BY <1>15, <2>4
  <2>6. e \in HeldBy(m, Own(m, l))
    BY <2>1, <2>2, <2>3, HeldMember
  <2>7. e \in AheadOf(m, l, c, i)
    BY <1>2, <1>8, <2>5, <2>6
  <2>8. PICK x \in Own(m, l), k \in Slots : m.node[x].slot[k] = e /\ Past(m, c, i, x, k)
    BY <2>7 DEF AheadOf
  <2>9. x = n /\ k = s
    BY <2>1, <2>2, <2>8 DEF MemInv, StoredOnce, Own
  <2>10. m.node[n].active
    <3>1. s \in Taken(m.node[n])
      BY <2>1, <2>2 DEF Taken
    <3> QED BY <2>2, <3>1 DEF MemInv, FillInv
  <2>11. r.node[n].index = m.node[n].index
    BY <1>1, <2>2, <2>10 DEF Firm
  <2>12. s \in Nat
    BY ConstantsAssumption DEF Slots
  <2>13. Past(r, c, j, n, s)
    <3>1. CASE m.node[n].index > m.node[c].index
      BY <1>1, <2>11, <3>1 DEF Past
    <3>2. CASE n = c /\ s >= i
      <4>1. s # i
        BY <2>2, <2>5, <3>2
      <4>2. s >= j
        BY <1>1, <1>6, <2>12, <3>2, <4>1
      <4> QED BY <3>2, <4>2 DEF Past
    <3> QED BY <2>8, <2>9, <3>1, <3>2 DEF Past
  <2>14. e \in AheadOf(r, l, c, j)
    BY <2>1, <2>4, <2>13 DEF AheadOf
  <2> QED BY <1>2, <2>14
<1>16. DoneSoFar(p) + Cardinality(B) <= p.initNumElements
  <2> DEFINE a == Cardinality(A)
             b == Cardinality(B)
             d == o.elementsDone
             k == o.initNumElements
  <2>1. /\ Cardinality(B) \in Nat /\ Cardinality(A) \in Nat
        /\ \A z \in A : z \notin B => Cardinality(B) + 1 <= Cardinality(A)
    BY <1>4, <1>13, FewerAhead
  <2>2. a \in Nat /\ b \in Nat /\ b + 1 <= a
    BY <1>3, <1>13, <2>1
  <2>3. d \in Nat /\ k \in Nat /\ (d + i) + a <= k
    BY <1>9 DEF DoneSoFar, OpRecord
  <2>4. DoneSoFar(p) = d + (i + 1)
    BY DEF DoneSoFar
  <2> HIDE DEF a, b, d, k
  <2>5. (d + (i + 1)) + b <= k
    BY <1>1, <2>2, <2>3
  <2> QED BY <2>4, <2>5 DEF b, d, k
<1>17. PackedFrom(r.node[c], j, o.originalElements)
  <2> SUFFICES ASSUME NEW s \in Slots, s >= j
               PROVE  s \in Taken(r.node[c]) <=> s < o.originalElements
    BY DEF PackedFrom
  <2>1. s \in Nat /\ s >= i /\ s # i
    BY <1>1, <1>6, ConstantsAssumption DEF Slots
  <2>2. s \in Taken(m.node[c]) <=> s < o.originalElements
    BY Zenon, <1>10, <2>1 DEF PackedFrom
  <2>3. s \in Taken(r.node[c]) => s \in Taken(m.node[c])
    BY <1>1, <1>14 DEF Taken
  <2>4. ASSUME s \in Taken(m.node[c]) PROVE s \in Taken(r.node[c])
    <3>1. m.node[c].slot[s] # NULL
      BY <2>4 DEF Taken
    <3>2. m.node[c].slot[s] # v
      BY <1>1, <2>1, <3>1 DEF MemInv, StoredOnce
    <3> QED BY <1>1, <1>14, <3>1, <3>2 DEF Taken
  <2> QED BY <2>2, <2>3, <2>4
<1> QED BY <1>6, <1>15, <1>16, <1>17 DEF SeenInv, B

(* The visit of a one-way kernel. *)
LEMMA AllVisit ==
  ASSUME IInv, OnceInv, AllInv, OneWay(kernel), kernel' = kernel,
         NEW l \in Lists, VisitsNext(l),
         visits' = Count(Visited(l)), op' = [op EXCEPT ![l] = NextSlot(l)],
         MemInv(mem'), Calm(mem, mem', l),
         HeldBy(mem', mem'.heap) \subseteq HeldBy(mem, mem.heap),
         HeldBy(mem, mem.heap) \ {Visited(l)} \subseteq HeldBy(mem', mem'.heap),
         HeldBy(mem', mem'.heap) \subseteq owed'
  PROVE  AllInv'
<1> DEFINE r == mem'
           o == op[l]
           p == NextSlot(l)
           c == o.currentNode
           i == o.i
           v == Visited(l)
           ws == visits'
<1>0. c = op[l].currentNode /\ i = op[l].i /\ v = Visited(l)
  OBVIOUS
<1>1. /\ phase = "kernel" /\ o \in OpRecord
      /\ c \in Own(mem, l) /\ c \in mem.heap /\ mem.node[c].active
      /\ i \in Slots /\ v = mem.node[c].slot[i] /\ v \in Elems /\ v # NULL
      /\ v \in AheadIn(mem, l, op[l])
  BY <1>0, VisitsWhere
<1>2. /\ o.pc = "visit" /\ c = o.currentNode /\ i = o.i
      /\ op = [k \in Lists |-> op[k]] /\ MemInv(mem)
  BY Zenon, VisitsPc, OpFacts
<1>3. /\ p.pc = "visit" /\ p.currentNode = c /\ p.i = i + 1
      /\ p.elementsDone = o.elementsDone /\ p.initNumElements = o.initNumElements
      /\ p.originalElements = o.originalElements
  BY Zenon, <1>1, <1>2, NextSlotIs
<1>4. op'[l] = p /\ \A k \in Lists \ {l} : op'[k] = op[k]
  BY <1>2
<1>5. /\ MemInv(r) /\ Calm(mem, r, l) /\ Elsewhere(mem, r, l)
      /\ HeldBy(r, r.heap) \subseteq HeldBy(mem, mem.heap)
      /\ HeldBy(mem, mem.heap) \ {v} \subseteq HeldBy(r, r.heap)
      /\ HeldBy(r, r.heap) \subseteq owed'
  BY DEF Calm
<1>6. ws = Count(v) /\ visits \in [Elems -> Nat]
  BY Zenon DEF IInv, HistoryTypes
<1>7. HeldBy(mem, mem.heap) \subseteq owed /\ SeenInv(mem, l, o, visits)
  BY Zenon, <1>1 DEF AllInv
<1> HIDE DEF r, o, p, c, i, v, ws
<1>8. v \in owed
  <2>1. v \in HeldBy(mem, mem.heap)
    BY <1>1, HeldMember
  <2> QED BY <1>7, <2>1
<1>9. visits[v] = 0
  BY <1>1, <1>8 DEF OnceInv
<1>10. ws[v] = 1 /\ \A e \in Elems : e # v => ws[e] = visits[e]
  BY <1>1, <1>6, <1>9 DEF Count
<1>11. SeenInv(r, l, p, ws)
  <2>1. ws[v] = 1
    BY <1>10
  <2>2. \A e \in Elems : e # v => ws[e] = visits[e]
    BY <1>10
  <2>3. o \in OpRecord /\ i \in Slots /\ v \in Elems
    BY <1>1
  <2>4. o.pc = "visit" /\ c = o.currentNode /\ i = o.i /\ MemInv(mem)
    BY <1>2
  <2>5. c \in Own(mem, l) /\ mem.node[c].active /\ v = mem.node[c].slot[i]
    BY <1>1
  <2>6. SeenInv(mem, l, o, visits)
    BY <1>7
  <2> QED BY <1>3, <1>5, <2>1, <2>2, <2>3, <2>4, <2>5, <2>6, SeenVisit, SMTT(60)
<1>12. ASSUME NEW k \in Lists \ {l}, NEW e \in HeldBy(mem, Own(mem, k))
       PROVE  ws[e] = visits[e]
  <2>1. PICK n \in Own(mem, k), s \in Slots : mem.node[n].slot[s] = e /\ e # NULL
    BY HeldMember
  <2>2. e # v
    BY <1>1, <1>2, <2>1, OneOwner
  <2>3. e \in Elems
    <3>1. n \in Nodes /\ mem \in Mem
      BY <1>2, MemTypes DEF Own, MemInv
    <3>2. mem.node[n].slot \in [Slots -> Elems \cup {NULL}]
      BY <3>1, MemTypes
    <3> QED BY <2>1, <3>2
  <2> QED BY <1>10, <2>2, <2>3
<1>13. /\ Elsewhere(mem, mem', l)
       /\ HeldBy(mem', mem'.heap) \subseteq owed'
       /\ \A k \in Lists \ {l} : \A e \in HeldBy(mem, Own(mem, k)) : visits'[e] = visits[e]
       /\ SeenInv(mem', l, op'[l], visits')
  BY <1>4, <1>5, <1>11, <1>12 DEF r, ws
<1> QED BY <1>1, <1>4, <1>13, SeenThread

(* The kernel leaves the set alone. *)
LEMMA AllKeep ==
  ASSUME IInv, OnceInv, AllInv, OneWay(kernel), NEW l \in Lists, KernelKeep(l)
  PROVE  AllInv'
<1>1. /\ VisitsNext(l) /\ visits' = Count(Visited(l)) /\ op' = [op EXCEPT ![l] = NextSlot(l)]
      /\ mem' = mem /\ owed' = owed /\ kernel' = kernel
  BY DEF KernelKeep
<1>2. phase = "kernel" /\ MemInv(mem)
  BY <1>1, OpFacts, VisitsPc, InKernel
<1>3. Calm(mem, mem', l)
  <2>1. Elsewhere(mem, mem', l)
    BY <1>1 DEF Elsewhere, SameList
  <2> QED BY <1>1, <2>1, SameStays DEF Calm
<1>4. /\ MemInv(mem')
      /\ HeldBy(mem', mem'.heap) \subseteq HeldBy(mem, mem.heap)
      /\ HeldBy(mem, mem.heap) \ {Visited(l)} \subseteq HeldBy(mem', mem'.heap)
      /\ HeldBy(mem', mem'.heap) \subseteq owed'
  BY <1>1, <1>2 DEF AllInv
<1> QED BY <1>1, <1>3, <1>4, AllVisit

(* It frees the element it is given. *)
LEMMA AllFree ==
  ASSUME IInv, OnceInv, AllInv, OneWay(kernel), NEW l \in Lists, NEW n \in Nodes,
         NEW s \in Slots, KernelFree(l, n, s)
  PROVE  AllInv'
<1>1. /\ VisitsNext(l) /\ visits' = Count(Visited(l)) /\ op' = [op EXCEPT ![l] = NextSlot(l)]
      /\ n \in mem.heap /\ mem.node[n].threadList = l /\ mem.node[n].slot[s] # NULL
      /\ mem' = FreeElementOnNode(mem, n, s)
      /\ owed' = owed \ {mem.node[n].slot[s]} /\ kernel' = kernel
      /\ (IF mem.node[n].slot[s] = Visited(l) THEN "freeSelf" ELSE "freeOther") \in kernel
  BY DEF KernelFree
<1>2. mem.node[n].slot[s] = Visited(l)
  BY <1>1 DEF OneWay
<1>3. /\ MemInv(mem') /\ Calm(mem, mem', l)
      /\ HeldBy(mem', mem'.heap) = HeldBy(mem, mem.heap) \ {mem.node[n].slot[s]}
  BY <1>1, FreeStep
<1>4. phase = "kernel"
  BY <1>1, VisitsPc, InKernel
<1>5. /\ HeldBy(mem', mem'.heap) \subseteq HeldBy(mem, mem.heap)
      /\ HeldBy(mem, mem.heap) \ {Visited(l)} \subseteq HeldBy(mem', mem'.heap)
      /\ HeldBy(mem', mem'.heap) \subseteq owed'
  BY <1>1, <1>2, <1>3, <1>4 DEF AllInv
<1> QED BY <1>1, <1>3, <1>5, AllVisit

(* A list with elements begins with an active chunk of number 0. *)
LEMMA HeadFirst ==
  ASSUME NEW m, MemInv(m), NEW l \in Lists, NEW n \in Own(m, l), m.node[n].active,
         NEW h, h = m.list[l].head
  PROVE  h # NULL /\ h \in Own(m, l) /\ m.node[h].active /\ m.node[h].index = 0
<1>1. m \in Mem /\ ShapeInv(m, l)
  BY DEF MemInv
<1>2. PICK at : at = ChainAt(m, l)
  OBVIOUS
<1>3. Walk(at, m, l) /\ Cardinality(Nodes) \in Nat
  BY <1>2, ChainWalks
<1>4. /\ m.list[l].numNodes \in Nat
      /\ \A i \in Nat : i < m.list[l].numNodes => IsAt(m, l, i, at[i])
  BY <1>1, <1>3, WalkActive
<1>5. m.node[n].index \in Nat /\ m.node[n].index < m.list[l].numNodes
  BY <1>1, <1>3, WalkReaches
<1>6. 0 < m.list[l].numNodes
  BY <1>4, <1>5
<1>7. IsAt(m, l, 0, at[0])
  BY <1>4, <1>6
<1>8. at[0] = h
  BY <1>3 DEF Walk
<1>9. h \in Own(m, l) /\ m.node[h].active /\ m.node[h].index = 0
  BY <1>7, <1>8 DEF IsAt
<1>10. h # NULL
  BY <1>1, <1>9, MemTypes, ConstantsAssumption DEF Own
<1> QED BY <1>9, <1>10

(* The whole list is ahead of a kernel that begins at its head. *)
LEMMA StartAhead ==
  ASSUME NEW m, MemInv(m), NEW l \in Lists, NEW o, o.pc = "walk",
         o.currentNode = m.list[l].head
  PROVE  HeldBy(m, Own(m, l)) \subseteq AheadIn(m, l, o)
<1> DEFINE h == m.list[l].head
<1> SUFFICES ASSUME NEW e \in HeldBy(m, Own(m, l)) PROVE e \in AheadIn(m, l, o)
  OBVIOUS
<1>1. PICK n \in Own(m, l), s \in Slots : m.node[n].slot[s] = e /\ e # NULL
  BY HeldMember
<1>2. m \in Mem /\ n \in m.heap /\ n \in Nodes /\ s \in Nat
  BY MemTypes, ConstantsAssumption DEF MemInv, Own, Slots
<1>3. e \in Elems
  BY <1>1, <1>2, MemTypes
<1>4. m.node[n].active
  <2>1. s \in Taken(m.node[n])
    BY <1>1 DEF Taken
  <2> QED BY <1>2, <2>1 DEF MemInv, FillInv
<1>5. h # NULL /\ h \in Own(m, l) /\ m.node[h].active /\ m.node[h].index = 0
  BY <1>4, HeadFirst
<1>6. m.node[n].index \in Nat
  BY <1>2, MemTypes
<1>7. Past(m, h, 0, n, s)
  <2>1. CASE m.node[n].index = 0
    <3>1. n = h
      BY <1>4, <1>5, <2>1 DEF MemInv, ShapeInv, IndexInv
    <3> QED BY <1>2, <3>1 DEF Past
  <2>2. CASE m.node[n].index # 0
    <3>1. m.node[n].index > m.node[h].index
      BY <1>5, <1>6, <2>2
    <3> QED BY <3>1 DEF Past
  <2> QED BY <2>1, <2>2
<1> HIDE DEF h
<1>8. e \in AheadOf(m, l, h, 0)
  BY <1>1, <1>3, <1>7 DEF AheadOf
<1>9. From(o) = 0
  BY DEF From
<1> QED BY <1>5, <1>8, <1>9 DEF AheadIn, h

(* The kernel begins: all elements are ahead, and counted. *)
LEMMA AllStart ==
  ASSUME IInv, NEW k \in Kernels, StartKernel(k)
  PROVE  AllInv'
<1>1. /\ owed' = Live /\ mem' = mem
      /\ op' = [l \in Lists |->
              [IdleOp EXCEPT !.pc = "walk",
                             !.currentNode = mem.list[l].head,
                             !.initNumElements = mem.list[l].numElements]]
  BY DEF StartKernel
<1>2. MemInv(mem) /\ mem \in Mem
  BY DEF IInv, MemInv
<1>3. HeldBy(mem', mem'.heap) \subseteq owed'
  BY <1>1, LiveIs
<1>4. ASSUME NEW l \in Lists PROVE SeenInv(mem, l, op'[l], visits')
  <2> DEFINE o == op'[l]
             H == HeldBy(mem, Own(mem, l))
             A == AheadIn(mem, l, o)
  <2>1. o = [IdleOp EXCEPT !.pc = "walk",
                             !.currentNode = mem.list[l].head,
                             !.initNumElements = mem.list[l].numElements]
    BY <1>1
  <2>2. /\ o.pc = "walk" /\ o.currentNode = mem.list[l].head /\ o.elementsDone = 0
        /\ o.initNumElements = mem.list[l].numElements
    BY <2>1 DEF IdleOp
  <2> HIDE DEF o
  <2>3. H \subseteq A
    BY <1>2, <2>2, StartAhead
  <2>4. A \subseteq H /\ Cardinality(A) \in Nat
    BY <1>2, AheadFinite
  <2>5. A = H
    BY <2>3, <2>4
  <2>6. mem.list[l].numElements = Cardinality(H)
    BY <1>2 DEF MemInv, CountInv
  <2>7. DoneSoFar(o) + Cardinality(A) <= o.initNumElements
    <3>1. DoneSoFar(o) = 0 /\ o.initNumElements = Cardinality(A)
      BY <2>2, <2>5, <2>6 DEF DoneSoFar
    <3> QED BY <2>4, <3>1
  <2>8. \A e \in H : e \in A
    BY <2>3
  <2> QED BY <2>2, <2>7, <2>8 DEF SeenInv, o
<1>5. \A l \in Lists : SeenInv(mem', l, op'[l], visits')
  BY <1>1, <1>4
<1> QED BY <1>3, <1>5 DEF AllInv

(* In the thread of one list. *)
LEMMA AllThread ==
  ASSUME IInv, IInv', OnceInv, AllInv, phase = "kernel", OneWay(kernel),
         NEW l \in Lists, ThreadStep(l)
  PROVE  AllInv'
<1>1. CASE CleanupDropTail(l) \/ CleanupMove(l)
  BY <1>1, AllRound
<1>2. CASE CleanupDone(l)
  BY <1>2, AllDone
<1>3. CASE KernelWalk(l)
  BY <1>3, AllWalk
<1>4. CASE KernelKeep(l)
  BY <1>4, AllKeep
<1>5. CASE LeaveNode(l)
  BY <1>5, AllLeave
<1>6. CASE \E n \in Nodes, s \in Slots : KernelFree(l, n, s)
  BY <1>6, AllFree
<1>7. CASE \E e \in Fresh : KernelAlloc(l, e)
  BY <1>7 DEF KernelAlloc, OneWay
<1> QED BY <1>1, <1>2, <1>3, <1>4, <1>5, <1>6, <1>7 DEF ThreadStep

(* The invariant that a one-way kernel gets every element is inductive. *)
LEMMA AllNext ==
  ASSUME IInv, IInv', OnceInv, AllInv, [Next]_vars
  PROVE  AllInv'
<1>1. CASE \E l \in Lists : ThreadStep(l)
  <2>1. PICK l \in Lists : ThreadStep(l)
    BY <1>1
  <2>2. CASE phase = "kernel" /\ OneWay(kernel)
    BY <2>1, <2>2, AllThread
  <2>3. CASE ~(phase = "kernel" /\ OneWay(kernel))
    BY <2>1, <2>3, ThreadPhase DEF AllInv
  <2> QED BY <2>2, <2>3
<1>2. CASE \E k \in Kernels : StartKernel(k)
  BY <1>2, AllStart
<1>3. CASE OutsideKernel
  BY <1>3, OutsideIs DEF AllInv
<1>4. CASE UNCHANGED vars
  BY <1>4 DEF vars, AllInv
<1> QED BY <1>1, <1>2, <1>3, <1>4, OutsideIs

(* All that the kernels keep. *)
KernelInv == IInv /\ OnceInv /\ AllInv

(* When its threads are done, a one-way kernel has got every element. *)
LEMMA InvCoverage == KernelInv => KernelCoverage
<1> SUFFICES ASSUME KernelInv, phase = "kernel"
             PROVE  /\ \A e \in owed : visits[e] <= 1
                    /\ OneWay(kernel) /\ (\A l \in Lists : op[l].pc = "done")
                         => \A e \in owed : visits[e] = 1
  BY DEF KernelCoverage
<1>1. \A e \in owed : visits[e] <= 1
  BY DEF KernelInv, OnceInv
<1>2. ASSUME OneWay(kernel), \A l \in Lists : op[l].pc = "done", NEW e \in owed
      PROVE  visits[e] = 1
  <2>1. e \in HeldBy(mem, mem.heap) /\ MemInv(mem)
    BY DEF KernelInv, OnceInv, IInv
  <2>2. PICK n \in mem.heap, s \in Slots : mem.node[n].slot[s] = e /\ e # NULL
    BY <2>1, HeldMember
  <2>3. PICK l : l = mem.node[n].threadList
    OBVIOUS
  <2>4. l \in Lists /\ n \in Own(mem, l)
    BY <2>1, <2>2, <2>3, MemTypes DEF MemInv, Own
  <2>5. e \in HeldBy(mem, Own(mem, l))
    BY <2>2, <2>4, HeldMember
  <2>6. AheadIn(mem, l, op[l]) = {}
    BY <1>2, <2>4 DEF AheadIn
  <2>7. SeenInv(mem, l, op[l], visits)
    BY <1>2, <2>4 DEF KernelInv, AllInv
  <2> QED BY <2>5, <2>6, <2>7 DEF SeenInv
<1> QED BY <1>1, <1>2

(* Nothing has been visited in the beginning. *)
LEMMA KernelInit ==
  ASSUME Init
  PROVE  KernelInv
<1>1. phase # "kernel"
  BY DEF Init
<1> QED BY <1>1, InitInv DEF KernelInv, OnceInv, AllInv

(* The inductive invariant of the kernels, for every instance. *)
THEOREM KernelInductive ==
  ASSUME AllowDrainedTail = FALSE
  PROVE  Spec => []KernelInv
<1>1. ASSUME KernelInv, [Next]_vars, IInv' PROVE KernelInv'
  BY <1>1, OnceNext, AllNext DEF KernelInv
<1>2. Spec => []IInv
  BY Inductive
<1>3. Init => KernelInv
  BY KernelInit
<1> QED BY <1>1, <1>2, <1>3, PTL DEF Spec

(* Whatever it does, a kernel gets no element twice; and one that at most *)
(* frees the element it is given has got every element when it ends.      *)
THEOREM Coverage ==
  ASSUME AllowDrainedTail = FALSE
  PROVE  Spec => []KernelCoverage
<1>1. Spec => []KernelInv
  BY KernelInductive
<1> QED BY <1>1, InvCoverage, PTL

-----------------------------------------------------------------------------
(* Chunks and lists implement a set. *)

(* The elements the running kernel has not been applied to yet. *)
Pending == {e \in owed : visits[e] = 0}

(* A step of the plain set, or none. *)
AbstractStep == Abstract!Next \/ UNCHANGED Abstract!vars

(* The set after a step. *)
LEMMA LiveNext ==
  Live = HeldBy(mem, mem.heap) /\ Live' = HeldBy(mem', mem'.heap)
BY DEF Live, NodeElems, HeldBy, Held

(* A step that the user cannot see. *)
LEMMA AbstractSame ==
  ASSUME HeldBy(mem', mem'.heap) = HeldBy(mem, mem.heap),
         phase' = "kernel" <=> phase = "kernel",
         kernel' = kernel, owed' = owed, visits' = visits
  PROVE  AbstractStep
<1>1. Live' = Live
  BY LiveNext
<1>2. OneWay(kernel)' = OneWay(kernel) /\ (phase = "kernel")' = (phase = "kernel")
      /\ {e \in owed : visits[e] = 0}' = {e \in owed : visits[e] = 0}
  BY DEF OneWay
<1> QED BY <1>1, <1>2 DEF AbstractStep, Abstract!vars

(* An element is added. *)
LEMMA AbstractAlloc ==
  ASSUME NEW e \in Elems, e \notin HeldBy(mem, mem.heap),
         HeldBy(mem', mem'.heap) = HeldBy(mem, mem.heap) \cup {e},
         phase' = phase, kernel' = kernel, owed' = owed, visits' = visits
  PROVE  AbstractStep
<1>1. e \notin Live /\ Live' = Live \cup {e}
  BY LiveNext
<1>2. OneWay(kernel)' = OneWay(kernel) /\ (phase = "kernel")' = (phase = "kernel")
      /\ {x \in owed : visits[x] = 0}' = {x \in owed : visits[x] = 0}
  BY DEF OneWay
<1>3. Abstract!Alloc(e)
  BY <1>1, <1>2 DEF Abstract!Alloc
<1> QED BY <1>3 DEF AbstractStep, Abstract!Next

(* An element is taken away between kernels. *)
LEMMA AbstractFree ==
  ASSUME NEW e \in Elems, e \in HeldBy(mem, mem.heap), phase # "kernel",
         HeldBy(mem', mem'.heap) = HeldBy(mem, mem.heap) \ {e},
         phase' = phase, kernel' = kernel, owed' = owed, visits' = visits
  PROVE  AbstractStep
<1>1. e \in Live /\ Live' = Live \ {e}
  BY LiveNext
<1>2. OneWay(kernel)' = OneWay(kernel) /\ (phase = "kernel")' = (phase = "kernel")
      /\ {x \in owed : visits[x] = 0}' = {x \in owed : visits[x] = 0}
  BY DEF OneWay
<1>3. Abstract!Free(e)
  BY <1>1, <1>2 DEF Abstract!Free
<1> QED BY <1>3 DEF AbstractStep, Abstract!Next

(* A one-way kernel is applied to an element that waits for it. *)
LEMMA AbstractVisit ==
  ASSUME NEW v \in Elems, phase = "kernel", v \in Pending, Pending' = Pending \ {v},
         \/ HeldBy(mem', mem'.heap) = HeldBy(mem, mem.heap)
         \/ HeldBy(mem', mem'.heap) = HeldBy(mem, mem.heap) \ {v},
         phase' = phase, kernel' = kernel
  PROVE  AbstractStep
<1>1. Live' \in {Live, Live \ {v}}
  BY LiveNext
<1>2. OneWay(kernel)' = OneWay(kernel) /\ (phase = "kernel")' = (phase = "kernel")
  BY DEF OneWay
<1>3. Abstract!Visit(v)
  BY <1>1, <1>2 DEF Abstract!Visit, Pending
<1> QED BY <1>3 DEF AbstractStep, Abstract!Next

(* Another kernel is applied to an element. *)
LEMMA AbstractVisitAny ==
  ASSUME NEW e \in Elems, phase = "kernel", ~OneWay(kernel), Pending' \subseteq Pending,
         \/ HeldBy(mem', mem'.heap) = HeldBy(mem, mem.heap) \cup {e}
         \/ HeldBy(mem', mem'.heap) = HeldBy(mem, mem.heap) \ {e},
         phase' = phase, kernel' = kernel
  PROVE  AbstractStep
<1>1. Live' \in {Live \ {e}, Live \cup {e}}
  BY LiveNext
<1>2. OneWay(kernel)' = OneWay(kernel) /\ (phase = "kernel")' = (phase = "kernel")
  BY DEF OneWay
<1>3. Abstract!VisitAny(e)
  BY <1>1, <1>2 DEF Abstract!VisitAny, Pending
<1> QED BY <1>3 DEF AbstractStep, Abstract!Next

(* What a visit takes off the elements that wait. *)
LEMMA PendingAfter ==
  ASSUME visits \in [Elems -> Nat], owed \subseteq Elems, NEW v \in Elems,
         visits' = Count(v), owed' = owed \/ owed' = owed \ {v}
  PROVE  Pending' = Pending \ {v}
<1>1. \A e \in Elems : visits'[e] = IF e = v THEN visits[e] + 1 ELSE visits[e]
  BY DEF Count
<1>2. visits[v] \in Nat /\ visits[v] + 1 # 0
  OBVIOUS
<1> QED BY <1>1, <1>2 DEF Pending

(* And, whatever it frees, nothing is added to them. *)
LEMMA PendingShrinks ==
  ASSUME visits \in [Elems -> Nat], owed \subseteq Elems, NEW v \in Elems,
         visits' = Count(v), owed' \subseteq owed
  PROVE  Pending' \subseteq Pending
<1>1. \A e \in Elems : visits'[e] = IF e = v THEN visits[e] + 1 ELSE visits[e]
  BY DEF Count
<1>2. visits[v] \in Nat /\ visits[v] + 1 # 0
  OBVIOUS
<1> QED BY <1>1, <1>2 DEF Pending

(* The element a one-way kernel gets waits for it. *)
LEMMA VisitPending ==
  ASSUME KernelInv, NEW l \in Lists, VisitsNext(l), NEW v, v = Visited(l)
  PROVE  /\ phase = "kernel" /\ v \in Elems /\ v \in HeldBy(mem, mem.heap)
         /\ visits \in [Elems -> Nat] /\ owed \subseteq Elems
         /\ OneWay(kernel) => v \in Pending
<1> DEFINE c == op[l].currentNode
           i == op[l].i
<1>1. IInv /\ OnceInv /\ AllInv
  BY DEF KernelInv
<1>2. c = op[l].currentNode /\ i = op[l].i
  OBVIOUS
<1> HIDE DEF c, i
<1>3. /\ phase = "kernel" /\ c \in mem.heap /\ i \in Slots /\ v = mem.node[c].slot[i]
      /\ v \in Elems /\ v # NULL /\ v \in AheadIn(mem, l, op[l])
  BY <1>1, <1>2, VisitsWhere
<1>4. v \in HeldBy(mem, mem.heap)
  BY <1>3, HeldMember
<1>5. OneWay(kernel) => v \in owed
  BY <1>1, <1>3, <1>4 DEF AllInv
<1>6. v \in owed => visits[v] = 0
  BY <1>1, <1>3 DEF OnceInv
<1>7. visits \in [Elems -> Nat] /\ owed \subseteq Elems
  BY <1>1 DEF IInv, HistoryTypes
<1> QED BY <1>3, <1>4, <1>5, <1>6, <1>7 DEF Pending

(* The kernel leaves the set alone. *)
LEMMA AbstractKeep ==
  ASSUME KernelInv, NEW l \in Lists, KernelKeep(l)
  PROVE  AbstractStep
<1> DEFINE v == Visited(l)
<1>1. /\ VisitsNext(l) /\ visits' = Count(v) /\ mem' = mem /\ owed' = owed
      /\ phase' = phase /\ kernel' = kernel /\ v = Visited(l)
  BY DEF KernelKeep
<1> HIDE DEF v
<1>2. /\ phase = "kernel" /\ v \in Elems /\ v \in HeldBy(mem, mem.heap)
      /\ visits \in [Elems -> Nat] /\ owed \subseteq Elems
      /\ OneWay(kernel) => v \in Pending
  BY <1>1, VisitPending
<1>3. Pending' = Pending \ {v}
  BY <1>1, <1>2, PendingAfter
<1>4. HeldBy(mem', mem'.heap) = HeldBy(mem, mem.heap)
  BY <1>1
<1>5. CASE OneWay(kernel)
  BY <1>1, <1>2, <1>3, <1>4, <1>5, AbstractVisit
<1>6. CASE ~OneWay(kernel)
  <2>1. HeldBy(mem', mem'.heap) = HeldBy(mem, mem.heap) \cup {v}
    BY <1>2, <1>4
  <2>2. Pending' \subseteq Pending
    BY <1>3
  <2> QED BY <1>1, <1>2, <1>6, <2>1, <2>2, AbstractVisitAny
<1> QED BY <1>5, <1>6

(* The kernel frees an element. *)
LEMMA AbstractKernelFree ==
  ASSUME KernelInv, NEW l \in Lists, NEW n \in Nodes, NEW s \in Slots,
         KernelFree(l, n, s)
  PROVE  AbstractStep
<1> DEFINE v == Visited(l)
           e == mem.node[n].slot[s]
<1>1. /\ VisitsNext(l) /\ visits' = Count(v) /\ owed' = owed \ {e}
      /\ phase' = phase /\ kernel' = kernel /\ v = Visited(l)
      /\ n \in mem.heap /\ mem.node[n].slot[s] # NULL
      /\ mem' = FreeElementOnNode(mem, n, s)
      /\ OneWay(kernel) => e = v
  BY DEF KernelFree, OneWay
<1>2. IInv /\ e = mem.node[n].slot[s]
  BY DEF KernelInv
<1>3. HeldBy(mem', mem'.heap) = HeldBy(mem, mem.heap) \ {e}
  BY <1>1, <1>2, FreeStep
<1>4. e \in Elems
  <2>1. mem.node[n].slot \in [Slots -> Elems \cup {NULL}]
    BY <1>2, MemTypes DEF IInv, MemInv
  <2> QED BY <1>1, <2>1
<1> HIDE DEF v, e
<1>5. /\ phase = "kernel" /\ v \in Elems
      /\ visits \in [Elems -> Nat] /\ owed \subseteq Elems
      /\ OneWay(kernel) => v \in Pending
  BY <1>1, VisitPending
<1>6. CASE OneWay(kernel)
  <2>1. owed' = owed \ {v}
    BY <1>1, <1>6
  <2>2. Pending' = Pending \ {v}
    BY <1>1, <1>5, <2>1, PendingAfter
  <2>3. HeldBy(mem', mem'.heap) = HeldBy(mem, mem.heap) \ {v}
    BY <1>1, <1>3, <1>6
  <2> QED BY <1>1, <1>5, <1>6, <2>2, <2>3, AbstractVisit
<1>7. CASE ~OneWay(kernel)
  <2>1. owed' \subseteq owed
    BY <1>1
  <2>2. Pending' \subseteq Pending
    BY <1>1, <1>5, <2>1, PendingShrinks
  <2> QED BY <1>1, <1>3, <1>4, <1>5, <1>7, <2>2, AbstractVisitAny
<1> QED BY <1>6, <1>7

(* The kernel allocates. *)
LEMMA AbstractKernelAlloc ==
  ASSUME KernelInv, NEW l \in Lists, NEW e \in Fresh, KernelAlloc(l, e)
  PROVE  AbstractStep
<1> DEFINE v == Visited(l)
<1>1. /\ VisitsNext(l) /\ visits' = Count(v) /\ owed' = owed
      /\ phase' = phase /\ kernel' = kernel /\ v = Visited(l)
      /\ PumallocOnThreadList(l, e, "kernelAlloc", NextSlot(l))
      /\ ~OneWay(kernel)
  BY DEF KernelAlloc, OneWay
<1>2. IInv /\ op[l].pc # "cleanup"
  BY <1>1, VisitsPc DEF KernelInv
<1>3. /\ AllocOutcome(l, e, "kernelAlloc", NextSlot(l))
      /\ e \in Elems /\ e \notin HeldBy(mem, mem.heap)
  BY <1>1, <1>2, AllocStep
<1>4. \/ HeldBy(mem', mem'.heap) = HeldBy(mem, mem.heap) \cup {e}
      \/ HeldBy(mem', mem'.heap) = HeldBy(mem, mem.heap) \ {e}
  BY <1>3 DEF AllocOutcome
<1> HIDE DEF v
<1>5. /\ phase = "kernel" /\ v \in Elems
      /\ visits \in [Elems -> Nat] /\ owed \subseteq Elems
  BY <1>1, VisitPending
<1>6. owed' \subseteq owed
  BY <1>1
<1>7. Pending' \subseteq Pending
  BY <1>1, <1>5, <1>6, PendingShrinks
<1> QED BY <1>1, <1>3, <1>4, <1>5, <1>7, AbstractVisitAny

(* In the thread of one list. *)
LEMMA AbstractThread ==
  ASSUME KernelInv, NEW l \in Lists, ThreadStep(l)
  PROVE  AbstractStep
<1>0. IInv
  BY DEF KernelInv
<1>1. CASE CleanupDropTail(l)
  <2>1. HeldBy(mem', mem'.heap) = HeldBy(mem, mem.heap)
    BY <1>0, <1>1, DropStep
  <2>2. UNCHANGED <<phase, kernel, owed, visits>>
    BY <1>1 DEF CleanupDropTail
  <2> QED BY <2>1, <2>2, AbstractSame
<1>2. CASE CleanupMove(l)
  <2>1. HeldBy(mem', mem'.heap) = HeldBy(mem, mem.heap)
    BY <1>0, <1>2, MoveStep
  <2>2. UNCHANGED <<phase, kernel, owed, visits>>
    BY <1>2 DEF CleanupMove
  <2> QED BY <2>1, <2>2, AbstractSame
<1>3. CASE CleanupDone(l)
  <2>1. UNCHANGED <<phase, kernel, owed, visits>>
    BY <1>3 DEF CleanupDone
  <2>2. CASE op[l].after = "visit"
    <3>1. HeldBy(mem', mem'.heap) = HeldBy(mem, mem.heap)
      BY <1>0, <1>3, <2>2, DoneVisitStep
    <3> QED BY <2>1, <3>1, AbstractSame
  <2>3. CASE op[l].after # "visit"
    <3> DEFINE e == op[l].elem
    <3>1. /\ HeldBy(mem', mem'.heap) = HeldBy(mem, mem.heap) \cup {e}
          /\ e \in Elems /\ e \notin HeldBy(mem, mem.heap)
      BY <1>0, <1>3, <2>3, DoneAllocStep
    <3> HIDE DEF e
    <3> QED BY <2>1, <3>1, AbstractAlloc
  <2> QED BY <2>2, <2>3
<1>4. CASE KernelWalk(l) \/ LeaveNode(l)
  <2>1. mem' = mem /\ UNCHANGED <<phase, kernel, owed, visits>>
    BY <1>4 DEF KernelWalk, LeaveNode
  <2>2. HeldBy(mem', mem'.heap) = HeldBy(mem, mem.heap)
    BY <2>1
  <2> QED BY <2>1, <2>2, AbstractSame
<1>5. CASE KernelKeep(l)
  BY <1>5, AbstractKeep
<1>6. CASE \E n \in Nodes, s \in Slots : KernelFree(l, n, s)
  BY <1>6, AbstractKernelFree
<1>7. CASE \E e \in Fresh : KernelAlloc(l, e)
  BY <1>7, AbstractKernelAlloc
<1> QED BY <1>1, <1>2, <1>3, <1>4, <1>5, <1>6, <1>7 DEF ThreadStep

(* pumalloc between kernels, done at once or begun. *)
LEMMA AbstractPumalloc ==
  ASSUME KernelInv, NEW l \in Lists, NEW e \in Fresh, Pumalloc(l, e)
  PROVE  AbstractStep
<1>1. /\ op[l].pc # "cleanup" /\ PumallocOnThreadList(l, e, "alloc", IdleOp)
      /\ UNCHANGED <<phase, kernel, owed, visits>> /\ IInv
  BY DEF Pumalloc, KernelInv
<1>2. /\ AllocOutcome(l, e, "alloc", IdleOp)
      /\ e \in Elems /\ e \notin HeldBy(mem, mem.heap)
  BY <1>1, AllocStep
<1>3. CASE HeldBy(mem', mem'.heap) = HeldBy(mem, mem.heap) \cup {e}
  BY <1>1, <1>2, <1>3, AbstractAlloc
<1>4. CASE HeldBy(mem', mem'.heap) = HeldBy(mem, mem.heap)
  BY <1>1, <1>4, AbstractSame
<1> QED BY <1>2, <1>3, <1>4 DEF AllocOutcome

(* pufree between kernels. *)
LEMMA AbstractPufree ==
  ASSUME KernelInv, NEW n \in Nodes, NEW s \in Slots, Pufree(n, s)
  PROVE  AbstractStep
<1> DEFINE e == mem.node[n].slot[s]
<1>1. /\ phase # "kernel" /\ n \in mem.heap /\ mem.node[n].slot[s] # NULL
      /\ mem' = FreeElementOnNode(mem, n, s)
      /\ UNCHANGED <<phase, kernel, owed, visits>>
  BY DEF Pufree
<1>2. IInv /\ e = mem.node[n].slot[s]
  BY DEF KernelInv
<1>3. HeldBy(mem', mem'.heap) = HeldBy(mem, mem.heap) \ {e}
  BY <1>1, <1>2, FreeStep
<1>4. e \in HeldBy(mem, mem.heap)
  BY <1>1, HeldMember
<1> HIDE DEF e
<1>5. e \in Elems
  BY <1>2, <1>4, HeldElems
<1> QED BY <1>1, <1>3, <1>4, <1>5, AbstractFree

(* The kernel begins. *)
LEMMA AbstractStart ==
  ASSUME KernelInv, NEW k \in Kernels, StartKernel(k)
  PROVE  AbstractStep
<1>1. /\ phase = "balance" /\ phase' = "kernel" /\ kernel' = k /\ mem' = mem
      /\ owed' = Live /\ visits' = [e \in Elems |-> 0]
  BY DEF StartKernel
<1>2. Live \subseteq Elems /\ Live' = Live
  BY <1>1, HeldElems, LiveNext DEF KernelInv
<1>3. {e \in owed : visits[e] = 0}' = Live
  BY <1>1, <1>2
<1>4. OneWay(kernel)' \in BOOLEAN
  BY <1>1 DEF OneWay
<1>5. Abstract!Start
  BY <1>1, <1>2, <1>3, <1>4 DEF Abstract!Start
<1> QED BY <1>5 DEF AbstractStep, Abstract!Next

(* All threads are done: a one-way kernel has got every element. *)
LEMMA AbstractFinish ==
  ASSUME KernelInv, KernelReturns
  PROVE  AbstractStep
<1>1. /\ phase = "kernel" /\ phase' = "client" /\ kernel' = {} /\ mem' = mem
      /\ owed' = {} /\ \A l \in Lists : op[l].pc = "done"
  BY DEF KernelReturns
<1>2. Live' = Live
  BY <1>1, LiveNext
<1>3. OneWay(kernel) => \A e \in owed : visits[e] = 1
  BY <1>1, InvCoverage DEF KernelCoverage
<1>4. OneWay(kernel) => {e \in owed : visits[e] = 0} = {}
  BY <1>3
<1>5. {e \in owed : visits[e] = 0}' = {} /\ OneWay(kernel)' = TRUE
  BY <1>1 DEF OneWay
<1>6. Abstract!Finish
  BY <1>1, <1>2, <1>4, <1>5 DEF Abstract!Finish
<1> QED BY <1>6 DEF AbstractStep, Abstract!Next

(* destroyPumaSet frees every chunk that has an element. *)
LEMMA AbstractDestroy ==
  ASSUME KernelInv, DestroyPumaSet
  PROVE  AbstractStep
<1> DEFINE gone == UNION {Chain(mem, l) : l \in Lists}
<1>1. /\ phase = "client" /\ phase' = "destroyed"
      /\ mem' = [heap |-> mem.heap \ gone,
                 node |-> [n \in Nodes |-> IF n \in gone THEN BlankNode
                                           ELSE mem.node[n]],
                 list |-> [l \in Lists |-> EmptyList]]
      /\ UNCHANGED <<op, kernel, owed, visits>>
  BY DEF DestroyPumaSet
<1>2. IInv /\ StoredOnceWithinReach
  BY InvStored DEF KernelInv
<1>3. ASSUME NEW n \in mem.heap, n \notin gone PROVE NodeElems(n) = {}
  <2>1. mem.node[n].threadList \in Lists
    BY <1>2, MemTypes DEF IInv, MemInv
  <2> QED BY <1>2, <1>3, <2>1 DEF StoredOnceWithinReach
<1>4. mem'.heap = mem.heap \ gone
      /\ \A n \in mem'.heap : mem'.node[n] = mem.node[n]
  <2>1. mem.heap \subseteq Nodes
    BY <1>2, MemTypes DEF IInv, MemInv
  <2> QED BY <1>1, <2>1
<1>5. HeldBy(mem', mem'.heap) = {}
  <2>1. \A n \in mem'.heap : Held(mem', n) = {}
    BY <1>3, <1>4 DEF NodeElems, Held
  <2> QED BY <2>1 DEF HeldBy
<1>6. Live' = {}
  BY <1>5, LiveNext
<1>7. OneWay(kernel)' = OneWay(kernel)
      /\ (phase = "kernel") = FALSE /\ (phase = "kernel")' = FALSE
      /\ {x \in owed : visits[x] = 0}' = {x \in owed : visits[x] = 0}
  BY <1>1 DEF OneWay
<1>8. Abstract!Destroy
  BY <1>6, <1>7 DEF Abstract!Destroy
<1> QED BY <1>8 DEF AbstractStep, Abstract!Next

(* The other steps of the owner. *)
LEMMA AbstractOutside ==
  ASSUME KernelInv, OutsideKernel
  PROVE  AbstractStep
<1>0. IInv
  BY DEF KernelInv
<1>1. CASE \E l \in Lists : \E e \in Fresh : Pumalloc(l, e)
  BY <1>1, AbstractPumalloc
<1>2. CASE \E n \in Nodes, s \in Slots : Pufree(n, s)
  BY <1>2, AbstractPufree
<1>3. CASE RunKernel \/ CreatePumaSet
  <2>1. /\ mem' = mem /\ UNCHANGED <<kernel, owed, visits>>
        /\ phase # "kernel" /\ phase' # "kernel"
    BY <1>3 DEF RunKernel, CreatePumaSet
  <2>2. HeldBy(mem', mem'.heap) = HeldBy(mem, mem.heap)
    BY <2>1
  <2> QED BY <2>1, <2>2, AbstractSame
<1>4. CASE \E from, to \in Lists : \E k \in 1..Cardinality(Nodes) : Transfer(k, from, to)
  <2>1. PICK from \in Lists, to \in Lists, k \in 1..Cardinality(Nodes) :
               Transfer(k, from, to)
    BY <1>4
  <2>2. k \in Nat
    BY ConstantsAssumption, FS_CardinalityType
  <2>3. HeldBy(mem', mem'.heap) = HeldBy(mem, mem.heap)
    BY <1>0, <2>1, <2>2, TransferStep
  <2>4. UNCHANGED <<phase, kernel, owed, visits>>
    BY <2>1 DEF Transfer
  <2> QED BY <2>3, <2>4, AbstractSame
<1>5. CASE KernelReturns
  BY <1>5, AbstractFinish
<1>6. CASE DestroyPumaSet
  BY <1>6, AbstractDestroy
<1> QED BY <1>1, <1>2, <1>3, <1>4, <1>5, <1>6 DEF OutsideKernel

(* Every step is a step of the plain set, or cannot be seen. *)
LEMMA AbstractNext ==
  ASSUME KernelInv, [Next]_vars
  PROVE  AbstractStep
<1>1. CASE UNCHANGED vars
  <2>1. mem' = mem /\ UNCHANGED <<phase, kernel, owed, visits>>
    BY <1>1 DEF vars
  <2>2. HeldBy(mem', mem'.heap) = HeldBy(mem, mem.heap)
    BY <2>1
  <2> QED BY <2>1, <2>2, AbstractSame
<1> QED BY <1>1, OutsideIs, AbstractThread, AbstractStart, AbstractOutside

(* An empty memory is an empty set. *)
LEMMA AbstractInit == Init => Abstract!Init
<1> SUFFICES ASSUME Init PROVE Abstract!Init
  OBVIOUS
<1>1. mem.heap = {} /\ phase = "client" /\ kernel = {} /\ owed = {}
  BY DEF Init
<1>2. Live = {}
  BY <1>1 DEF Live
<1> QED BY <1>1, <1>2 DEF Abstract!Init, OneWay

(* Chunks, bitmaps, compaction, the reuse of chunks and their transfer    *)
(* between lists are invisible: pumalloc, pufree, runKernel and           *)
(* destroyPumaSet act on a plain set.                                     *)
THEOREM Refinement ==
  ASSUME AllowDrainedTail = FALSE
  PROVE  Spec => ImplementsElementSet
<1>1. ASSUME KernelInv, [Next]_vars PROVE [Abstract!Next]_(Abstract!vars)
  BY <1>1, AbstractNext DEF AbstractStep
<1>2. Spec => []KernelInv
  BY KernelInductive
<1>3. Init => Abstract!Init
  BY AbstractInit
<1> QED BY <1>1, <1>2, <1>3, PTL DEF Spec, ImplementsElementSet, Abstract!Spec
=============================================================================
