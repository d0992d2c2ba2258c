-------------------------- MODULE ThreadListMemory --------------------------
(***************************************************************************)
(* The invariant MemInv of a set's memory, and lemmas that each operation   *)
(* of PumaThreadList on it keeps it.                                        *)
(*                                                                         *)
(* The invariant is local: it relates a chunk to its neighbours and to the  *)
(* header of its list, never to a walk from the head, so that each pointer  *)
(* assignment disturbs it in one or two places only.  Of each operation the *)
(* lemmas say first what it writes (...Fields, in terms of an ...Effect     *)
(* that names the changed fields), then what that does to the shape of the  *)
(* list (...Shape), then to the invariant (...Keeps).                       *)
(***************************************************************************)
EXTENDS PumaThreadList, Integers, FiniteSetTheorems, NaturalsInduction,
        WellFoundedInduction, TLAPS

-----------------------------------------------------------------------------
(* Induction over numbers and finite sets in a form that names the set of   *)
(* what holds instead of a predicate, and what a sum over a finite set      *)
(* comes to.                                                                *)

(* A set of numbers that is not empty has a least member. *)
LEMMA LeastNumber ==
  ASSUME NEW T \in SUBSET Nat, T # {}
  PROVE  \E n \in T : \A k \in T : n <= k
<1> DEFINE R == {p \in Nat \X Nat : p[1] < p[2]}
<1>1. IsWellFoundedOn(R, Nat)
  BY NatLessThanWellFounded DEF OpToRel
<1>2. PICK n \in T : \A k \in T : <<k, n>> \notin R
  <2> HIDE DEF R
  <2> QED BY <1>1, WFMin
<1>3. \A k \in T : ~(k < n)
  BY <1>2
<1> QED BY <1>3

(* Induction: a set with 0 and the successors of its members has all numbers. *)
LEMMA NumberInduction ==
  ASSUME NEW P, 0 \in P, \A n \in Nat : n \in P => n + 1 \in P
  PROVE  \A n \in Nat : n \in P
<1> DEFINE T == {n \in Nat : n \notin P}
<1> SUFFICES ASSUME T # {} PROVE FALSE
  OBVIOUS
<1>1. PICK n \in T : \A k \in T : n <= k
  BY LeastNumber
<1>2. n \in Nat /\ n # 0
  BY <1>1
<1>3. n - 1 \in Nat /\ n - 1 \notin T
  BY <1>1, <1>2
<1>4. (n - 1) + 1 = n
  BY <1>2
<1> QED BY <1>1, <1>3, <1>4

(* A set that has a largest bound has a greatest member. *)
LEMMA GreatestNumber ==
  ASSUME NEW T \in SUBSET Nat, T # {}, NEW b \in Nat, \A k \in T : k <= b
  PROVE  \E n \in T : \A k \in T : k <= n
<1> DEFINE U == {u \in Nat : \A k \in T : k <= u}
<1>1. b \in U
  OBVIOUS
<1>2. PICK u \in U : \A v \in U : u <= v
  BY <1>1, LeastNumber
<1>3. CASE u \in T
  BY <1>2, <1>3
<1>4. CASE u \notin T
  <2>1. \A k \in T : k <= u /\ k # u /\ k \in Nat
    BY <1>2, <1>4
  <2>2. PICK k \in T : k <= u /\ k # u /\ k \in Nat
    BY <2>1
  <2>3. u - 1 \in U
    BY <2>1, <2>2, <1>2
  <2>4. u \in Nat /\ u <= u - 1
    BY <1>2, <2>3
  <2> QED BY <2>4
<1> QED BY <1>3, <1>4

(* Induction over a finite set: one element more at a time. *)
LEMMA FiniteInduction ==
  ASSUME NEW S, IsFiniteSet(S), NEW P, {} \in P,
         \A T \in SUBSET S : \A x \in S \ T : T \in P => T \cup {x} \in P
  PROVE  S \in P
<1> DEFINE Bad == {T \in SUBSET S : T \notin P}
           Sizes == {Cardinality(T) : T \in Bad}
<1> SUFFICES ASSUME S \notin P PROVE FALSE
  OBVIOUS
<1>1. \A T \in Bad : IsFiniteSet(T) /\ Cardinality(T) \in Nat
  BY FS_Subset, FS_CardinalityType
<1>2. Sizes \in SUBSET Nat /\ Sizes # {}
  BY <1>1
<1>3. PICK n \in Sizes : \A k \in Sizes : n <= k
  BY <1>2, LeastNumber
<1>4. PICK T \in Bad : Cardinality(T) = n
  BY <1>3
<1>5. PICK x \in T : TRUE
  BY <1>4
<1>6. /\ Cardinality(T) \in Nat
      /\ Cardinality(T \ {x}) = Cardinality(T) - 1
  <2>1. IsFiniteSet(T) /\ Cardinality(T) \in Nat
    BY <1>1, <1>4
  <2>2. Cardinality(T \ {x}) =
           IF x \in T THEN Cardinality(T) - 1 ELSE Cardinality(T)
    BY <2>1, FS_RemoveElement
  <2> QED BY <1>5, <2>1, <2>2
<1>7. T \ {x} \notin Bad
  <2> SUFFICES ASSUME T \ {x} \in Bad PROVE FALSE
    OBVIOUS
  <2>1. Cardinality(T \ {x}) \in Sizes
    OBVIOUS
  <2>2. n <= Cardinality(T \ {x})
    BY <2>1, <1>3
  <2> QED BY <2>2, <1>4, <1>6
<1>8. T \ {x} \in P /\ x \in S \ (T \ {x}) /\ T \ {x} \in SUBSET S
  BY <1>4, <1>5, <1>7
<1>9. (T \ {x}) \cup {x} = T
  BY <1>5
<1> QED BY <1>4, <1>8, <1>9

(* A one-to-one image of a finite set is as large as the set. *)
LEMMA InjectiveImage ==
  ASSUME NEW S, IsFiniteSet(S), NEW f, f = [x \in S |-> f[x]],
         \A x, y \in S : f[x] = f[y] => x = y
  PROVE  /\ IsFiniteSet({f[x] : x \in S})
         /\ Cardinality({f[x] : x \in S}) = Cardinality(S)
<1> DEFINE T == {f[x] : x \in S}
<1>1. f \in Bijection(S, T)
  BY DEF Bijection, Injection, Surjection, IsInjective
<1>2. ExistsBijection(S, T)
  BY <1>1 DEF ExistsBijection
<1> QED BY <1>2, FS_Bijection

(* An image of a finite set is finite. *)
LEMMA ImageFinite ==
  ASSUME NEW S, IsFiniteSet(S), NEW f
  PROVE  IsFiniteSet({f[x] : x \in S})
<1> DEFINE T == {f[x] : x \in S}
           g == [x \in S |-> f[x]]
<1>1. g \in Surjection(S, T)
  BY DEF Surjection
<1> HIDE DEF g, T
<1>2. IsFiniteSet(T)
  BY <1>1, FS_Surjection
<1> QED BY <1>2 DEF T

(* What the sets E[x] with x in T hold together. *)
Together(E, T) == UNION {E[x] : x \in T}

(* Disjoint finite sets, one more. *)
LEMMA UnionStep ==
  ASSUME NEW S, NEW E, \A x \in S : IsFiniteSet(E[x]),
         \A x, y \in S : x # y => E[x] \cap E[y] = {},
         NEW T \in SUBSET S, NEW z \in S \ T, IsFiniteSet(Together(E, T))
  PROVE  Cardinality(Together(E, T \cup {z})) =
           Cardinality(E[z]) + Cardinality(Together(E, T))
<1> DEFINE A == Together(E, T)
<1>1. Together(E, T \cup {z}) = E[z] \cup A
  BY DEF Together
<1>2. E[z] \cap A = {}
  <2> SUFFICES ASSUME NEW e \in E[z], e \in A PROVE FALSE
    OBVIOUS
  <2>1. PICK x \in T : e \in E[x]
    BY DEF Together
  <2> QED BY <2>1
<1>3. IsFiniteSet(E[z]) /\ IsFiniteSet(A)
  OBVIOUS
<1> HIDE DEF A
<1>4. Cardinality(E[z] \cup A) =
        Cardinality(E[z]) + Cardinality(A) - Cardinality(E[z] \cap A)
  BY <1>3, FS_Union
<1>5. Cardinality(E[z]) \in Nat /\ Cardinality(A) \in Nat
  BY <1>3, FS_CardinalityType
<1>6. Cardinality(E[z] \cap A) = 0
  BY <1>2, FS_EmptySet
<1>7. Cardinality(E[z] \cup A) = Cardinality(E[z]) + Cardinality(A)
  BY <1>4, <1>5, <1>6
<1> QED BY <1>1, <1>7 DEF A

(* A union of finitely many finite sets is finite. *)
LEMMA UnionFinite ==
  ASSUME NEW S, IsFiniteSet(S), NEW E, \A x \in S : IsFiniteSet(E[x])
  PROVE  IsFiniteSet(Together(E, S))
<1> DEFINE P == {T \in SUBSET S : IsFiniteSet(Together(E, T))}
<1>1. {} \in P
  <2>1. Together(E, {}) = {}
    BY DEF Together
  <2> QED BY <2>1, FS_EmptySet
<1>2. ASSUME NEW T \in SUBSET S, NEW z \in S \ T, T \in P
      PROVE  T \cup {z} \in P
  <2>1. Together(E, T \cup {z}) = E[z] \cup Together(E, T)
    BY DEF Together
  <2>2. IsFiniteSet(E[z] \cup Together(E, T))
    BY <1>2, FS_Union
  <2> QED BY <2>1, <2>2
<1> HIDE DEF P
<1>3. S \in P
  BY <1>1, <1>2, FiniteInduction
<1> QED BY <1>3 DEF P

(* The recursion behind MapThenSumSet, for a sum of the sizes of sets. *)
IsSum(iter, E, S) ==
  iter = [s \in SUBSET S |->
     IF s = {} THEN 0
     ELSE Cardinality(E[CHOOSE x \in s : TRUE])
            + iter[s \ {CHOOSE x \in s : TRUE}]]

(* For disjoint sets it has the size of what they hold together as a        *)
(* solution, and only that one.                                             *)
LEMMA SumExists ==
  ASSUME NEW S, IsFiniteSet(S), NEW E, \A x \in S : IsFiniteSet(E[x]),
         \A x, y \in S : x # y => E[x] \cap E[y] = {}
  PROVE  \E iter : IsSum(iter, E, S)
<1> DEFINE iter == [s \in SUBSET S |-> Cardinality(Together(E, s))]
<1>1. Cardinality(Together(E, {})) = 0
  <2>1. Together(E, {}) = {}
    BY DEF Together
  <2> QED BY <2>1, FS_EmptySet
<1>2. ASSUME NEW s \in SUBSET S, s # {}
      PROVE  LET z == CHOOSE x \in s : TRUE
             IN  Cardinality(Together(E, s)) = Cardinality(E[z]) + iter[s \ {z}]
  <2> DEFINE z == CHOOSE x \in s : TRUE
             T == s \ {z}
  <2>1. z \in s
    BY <1>2
  <2> HIDE DEF z
  <2>2. T \in SUBSET S /\ z \in S \ T /\ T \cup {z} = s
    BY <2>1
  <2> HIDE DEF T
  <2>3. IsFiniteSet(Together(E, T))
    <3>1. IsFiniteSet(T) /\ \A x \in T : IsFiniteSet(E[x])
      BY <2>2, FS_Subset
    <3> QED BY <3>1, UnionFinite
  <2>4. Cardinality(Together(E, T \cup {z})) =
          Cardinality(E[z]) + Cardinality(Together(E, T))
    BY <2>2, <2>3, UnionStep
  <2>5. iter[T] = Cardinality(Together(E, T))
    BY <2>2
  <2> QED BY <2>2, <2>4, <2>5 DEF z, T
<1>3. IsSum(iter, E, S)
  BY <1>1, <1>2 DEF IsSum
<1> QED BY <1>3

(* A sum of the sizes of disjoint finite sets, in whatever order the       *)
(* iteration takes them, is the size of their union.                       *)
LEMMA SumIsSize ==
  ASSUME NEW S, IsFiniteSet(S), NEW E, \A x \in S : IsFiniteSet(E[x]),
         \A x, y \in S : x # y => E[x] \cap E[y] = {},
         NEW iter, IsSum(iter, E, S)
  PROVE  iter[S] = Cardinality(Together(E, S))
<1> DEFINE Bad == {s \in SUBSET S : iter[s] # Cardinality(Together(E, s))}
           Sizes == {Cardinality(s) : s \in Bad}
<1> SUFFICES ASSUME S \in Bad PROVE FALSE
  OBVIOUS
<1>1. \A s \in SUBSET S : IsFiniteSet(s) /\ Cardinality(s) \in Nat
  BY FS_Subset, FS_CardinalityType
<1>2. Sizes \in SUBSET Nat /\ Sizes # {}
  <2> HIDE DEF Bad
  <2>1. Bad \subseteq SUBSET S
    BY DEF Bad
  <2> QED BY <1>1, <2>1
<1>3. PICK n \in Sizes : \A k \in Sizes : n <= k
  BY <1>2, LeastNumber
<1>4. PICK s \in Bad : Cardinality(s) = n
  BY <1>3
<1> DEFINE z == CHOOSE x \in s : TRUE
           T == s \ {z}
<1>5. iter[{}] = Cardinality(Together(E, {}))
  <2>1. Together(E, {}) = {}
    BY DEF Together
  <2>2. iter[{}] = 0
    BY DEF IsSum
  <2> QED BY <2>1, <2>2, FS_EmptySet
<1>6. s # {}
  BY <1>4, <1>5
<1>7. z \in s /\ s \in SUBSET S
  BY <1>4, <1>6
<1>8. iter[s] = Cardinality(E[z]) + iter[T]
  BY <1>6, <1>7 DEF IsSum
<1> HIDE DEF z
<1>9. T \in SUBSET S /\ z \in S \ T /\ T \cup {z} = s
  BY <1>7
<1>10. Cardinality(T) = Cardinality(s) - 1
  <2>1. Cardinality(T) = IF z \in s THEN Cardinality(s) - 1 ELSE Cardinality(s)
    BY <1>1, <1>7, FS_RemoveElement
  <2> QED BY <2>1, <1>7
<1>11. T \notin Bad
  <2> SUFFICES ASSUME T \in Bad PROVE FALSE
    OBVIOUS
  <2>1. Cardinality(T) \in Sizes
    OBVIOUS
  <2>2. n <= Cardinality(T)
    BY <2>1, <1>3
  <2> QED BY <2>2, <1>1, <1>4, <1>7, <1>10
<1>12. iter[T] = Cardinality(Together(E, T))
  BY <1>9, <1>11
<1> HIDE DEF T
<1>13. IsFiniteSet(Together(E, T))
  <2>1. IsFiniteSet(T) /\ \A x \in T : IsFiniteSet(E[x])
    BY <1>1, <1>9
  <2> QED BY <2>1, UnionFinite
<1>14. Cardinality(Together(E, T \cup {z})) =
         Cardinality(E[z]) + Cardinality(Together(E, T))
  BY <1>9, <1>13, UnionStep
<1> QED BY <1>4, <1>8, <1>9, <1>12, <1>14

-----------------------------------------------------------------------------
(* The memory of a set. *)

Mem == [heap : SUBSET Nodes, node : [Nodes -> NodeRecord],
        list : [Lists -> ListRecord]]

(* The chunks that belong to list l. *)
Own(m, l) == {n \in m.heap : m.node[n].threadList = l}

(* A forward link leads to a chunk of the same list that points back. *)
LinksInv(m, l) ==
  \A n \in Own(m, l) :
    m.node[n].next # NULL =>
      m.node[n].next \in Own(m, l) /\ m.node[m.node[n].next].prev = n

(* An active chunk is the head, or follows an active chunk whose index is    *)
(* one less; it is followed by an active chunk unless it is the tail.       *)
ActiveNode(m, l, n) ==
  LET x == m.node[n]
      t == m.list[l].tail
  IN  /\ x.prev = NULL => m.list[l].head = n /\ x.index = 0
      /\ x.prev # NULL => /\ x.prev \in Own(m, l)
                          /\ m.node[x.prev].active
                          /\ m.node[x.prev].next = n
                          /\ x.index = m.node[x.prev].index + 1
      /\ n = t => (x.next # NULL => ~m.node[x.next].active)
      /\ n # t => x.next # NULL /\ m.node[x.next].active
      /\ t # NULL /\ m.node[t].active /\ x.index <= m.node[t].index

ActiveInv(m, l) ==
  \A n \in Own(m, l) : m.node[n].active => ActiveNode(m, l, n)

(* No two active chunks of a list have the same index. *)
IndexInv(m, l) ==
  \A n1, n2 \in Own(m, l) :
    /\ m.node[n1].active /\ m.node[n2].active
    /\ m.node[n1].index = m.node[n2].index
    => n1 = n2

(* head and tail; a tail that is not active is the head, with index 0. *)
EndsInv(m, l) ==
  LET h == m.list[l].head
      t == m.list[l].tail
  IN  /\ h = NULL <=> t = NULL
      /\ h # NULL => h \in Own(m, l) /\ m.node[h].prev = NULL
      /\ t # NULL => t \in Own(m, l)
      /\ t # NULL /\ ~m.node[t].active => t = h /\ m.node[t].index = 0
      /\ m.list[l].numNodes = IF t = NULL THEN 0
                              ELSE IF m.node[t].active THEN m.node[t].index + 1
                              ELSE 0

ShapeInv(m, l) ==
  LinksInv(m, l) /\ ActiveInv(m, l) /\ IndexInv(m, l) /\ EndsInv(m, l)

(* A chunk counts its elements, and an inactive one has none. *)
FillInv(m) ==
  \A n \in m.heap :
    /\ m.node[n].numElements = Cardinality(Taken(m.node[n]))
    /\ ~m.node[n].active => Taken(m.node[n]) = {}

Held(m, n) == {m.node[n].slot[s] : s \in Taken(m.node[n])}
HeldBy(m, S) == UNION {Held(m, n) : n \in S}

CountInv(m) ==
  \A l \in Lists : m.list[l].numElements = Cardinality(HeldBy(m, Own(m, l)))

StoredOnce(m) ==
  \A n1, n2 \in m.heap : \A s1, s2 \in Slots :
    m.node[n1].slot[s1] = m.node[n2].slot[s2]
      => m.node[n1].slot[s1] = NULL \/ (n1 = n2 /\ s1 = s2)

MemInv(m) ==
  /\ m \in Mem
  /\ \A l \in Lists : ShapeInv(m, l)
  /\ FillInv(m)
  /\ CountInv(m)
  /\ StoredOnce(m)

-----------------------------------------------------------------------------
(* What a step leaves as it is.                                            *)

(* The links of list l. *)
SameShape(m, r, l) ==
  /\ Own(r, l) = Own(m, l)
  /\ \A n \in Own(m, l) : /\ r.node[n].next = m.node[n].next
                          /\ r.node[n].prev = m.node[n].prev
                          /\ r.node[n].active = m.node[n].active
                          /\ r.node[n].index = m.node[n].index
  /\ r.list[l].head = m.list[l].head
  /\ r.list[l].tail = m.list[l].tail
  /\ r.list[l].numNodes = m.list[l].numNodes

(* All of list l. *)
SameList(m, r, l) ==
  /\ Own(r, l) = Own(m, l)
  /\ \A n \in Own(m, l) : r.node[n] = m.node[n]
  /\ r.list[l] = m.list[l]

(* The lists other than l. *)
Elsewhere(m, r, l) == \A k \in Lists \ {l} : SameList(m, r, k)

(* The elements: a chunk that comes or goes is empty. *)
SameData(m, r) ==
  /\ \A n \in m.heap \cap r.heap :
       /\ r.node[n].slot = m.node[n].slot
       /\ r.node[n].numElements = m.node[n].numElements
       /\ r.node[n].threadList = m.node[n].threadList
  /\ \A n \in m.heap \ r.heap : Taken(m.node[n]) = {}
  /\ \A n \in r.heap \ m.heap : Taken(r.node[n]) = {} /\ r.node[n].numElements = 0
  /\ \A l \in Lists : r.list[l].numElements = m.list[l].numElements

(* The shape of a list depends on its links only. *)
LEMMA SameShapeKeeps ==
  ASSUME NEW m, NEW r, NEW l, SameShape(m, r, l), ShapeInv(m, l)
  PROVE  ShapeInv(r, l)
<1>1. LinksInv(r, l)
  BY DEF SameShape, ShapeInv, LinksInv
<1>2. ActiveInv(r, l)
  <2>1. m.list[l].tail # NULL => m.list[l].tail \in Own(m, l)
    BY DEF ShapeInv, EndsInv
  <2> SUFFICES ASSUME NEW n \in Own(m, l), m.node[n].active
               PROVE  ActiveNode(r, l, n)
    BY DEF SameShape, ActiveInv
  <2>2. ActiveNode(m, l, n)
    BY Zenon DEF ShapeInv, ActiveInv
  <2>3. m.node[n].next # NULL => m.node[n].next \in Own(m, l)
    BY Zenon DEF ShapeInv, LinksInv
  <2> QED BY <2>1, <2>2, <2>3 DEF SameShape, ActiveNode
<1>3. IndexInv(r, l)
  BY DEF SameShape, ShapeInv, IndexInv
<1>4. EndsInv(r, l)
  BY DEF SameShape, ShapeInv, EndsInv
<1> QED BY <1>1, <1>2, <1>3, <1>4 DEF ShapeInv

(* So does that of a list that is not touched. *)
LEMMA SameListKeeps ==
  ASSUME NEW m, NEW r, NEW l, SameList(m, r, l), ShapeInv(m, l)
  PROVE  ShapeInv(r, l)
<1>1. SameShape(m, r, l)
  BY DEF SameList, SameShape
<1> QED BY <1>1, SameShapeKeeps

(* What two steps leave alone, both together do. *)
LEMMA ElsewhereTransitive ==
  ASSUME NEW m, NEW f, NEW r, NEW l, Elsewhere(m, f, l), Elsewhere(f, r, l)
  PROVE  Elsewhere(m, r, l)
BY DEF Elsewhere, SameList

(* Types of the fields. *)
LEMMA MemTypes ==
  ASSUME NEW m \in Mem
  PROVE  /\ m.heap \subseteq Nodes
         /\ \A l : Own(m, l) \subseteq m.heap
         /\ \A n \in Nodes :
              /\ m.node[n] \in NodeRecord
              /\ m.node[n].slot \in [Slots -> Elems \cup {NULL}]
              /\ m.node[n].numElements \in Nat
              /\ m.node[n].firstKnownFree \in Nat
              /\ m.node[n].next \in Ptr /\ m.node[n].prev \in Ptr
              /\ m.node[n].active \in BOOLEAN /\ m.node[n].dirty \in BOOLEAN
              /\ m.node[n].index \in Nat /\ m.node[n].threadList \in Lists
         /\ \A l \in Lists :
              /\ m.list[l] \in ListRecord
              /\ m.list[l].head \in Ptr /\ m.list[l].tail \in Ptr
              /\ m.list[l].numElements \in Nat /\ m.list[l].numNodes \in Nat
BY DEF Mem, NodeRecord, ListRecord, Own

(* Records with the fields they should have. *)
IsNode(x) ==
  x = [slot |-> x.slot, numElements |-> x.numElements,
       firstKnownFree |-> x.firstKnownFree, next |-> x.next, prev |-> x.prev,
       dirty |-> x.dirty, active |-> x.active, index |-> x.index,
       threadList |-> x.threadList]

IsList(y) ==
  y = [head |-> y.head, tail |-> y.tail, numElements |-> y.numElements,
       numNodes |-> y.numNodes]

IsMem(r) ==
  /\ r = [heap |-> r.heap, node |-> r.node, list |-> r.list]
  /\ r.node = [n \in Nodes |-> r.node[n]]
  /\ r.list = [l \in Lists |-> r.list[l]]
  /\ \A n \in Nodes : IsNode(r.node[n])
  /\ \A l \in Lists : IsList(r.list[l])

NodeTypes(x) ==
  /\ x.slot \in [Slots -> Elems \cup {NULL}]
  /\ x.numElements \in Nat /\ x.firstKnownFree \in Nat /\ x.index \in Nat
  /\ x.next \in Ptr /\ x.prev \in Ptr /\ x.threadList \in Lists
  /\ x.active \in BOOLEAN /\ x.dirty \in BOOLEAN

ListTypes(y) ==
  /\ y.head \in Ptr /\ y.tail \in Ptr
  /\ y.numElements \in Nat /\ y.numNodes \in Nat

(* A record with a chunk's fields and their types is a chunk.              *)
LEMMA NodeIntro ==
  ASSUME NEW x, IsNode(x), NodeTypes(x)
  PROVE  x \in NodeRecord
BY DEF NodeRecord, IsNode, NodeTypes

(* A record with a header's fields and their types is a header.            *)
LEMMA ListIntro ==
  ASSUME NEW y, IsList(y), ListTypes(y)
  PROVE  y \in ListRecord
BY DEF ListRecord, IsList, ListTypes

(* A record with typed chunks and headers is a memory.                     *)
LEMMA MemIntro ==
  ASSUME NEW r, IsMem(r), r.heap \subseteq Nodes,
         \A n \in Nodes : NodeTypes(r.node[n]),
         \A l \in Lists : ListTypes(r.list[l])
  PROVE  r \in Mem
<1>1. \A n \in Nodes : r.node[n] \in NodeRecord
  BY NodeIntro DEF IsMem
<1>2. \A l \in Lists : r.list[l] \in ListRecord
  BY ListIntro DEF IsMem
<1> QED BY <1>1, <1>2 DEF Mem, IsMem

IsRecord(r) == r = [heap |-> r.heap, node |-> r.node, list |-> r.list]

(* A record of a heap, chunks and headers is a memory.                     *)
LEMMA MemRecord ==
  ASSUME NEW r, IsRecord(r), r.heap \in SUBSET Nodes,
         r.node \in [Nodes -> NodeRecord], r.list \in [Lists -> ListRecord]
  PROVE  r \in Mem
BY DEF Mem, IsRecord

(* The types of what a memory holds.                                       *)
LEMMA MemElim ==
  ASSUME NEW m \in Mem
  PROVE  /\ IsMem(m) /\ m.heap \subseteq Nodes
         /\ \A n \in Nodes : NodeTypes(m.node[n])
         /\ \A l \in Lists : ListTypes(m.list[l])
<1>1. /\ \A n \in Nodes : NodeTypes(m.node[n])
      /\ \A l \in Lists : ListTypes(m.list[l])
  BY DEF Mem, NodeRecord, ListRecord, NodeTypes, ListTypes
<1>2. IsMem(m)
  BY DEF Mem, NodeRecord, ListRecord, IsMem, IsNode, IsList
<1> QED BY <1>1, <1>2 DEF Mem

(* The slots of a chunk are finitely many. *)
LEMMA TakenFinite ==
  ASSUME NEW x
  PROVE  /\ IsFiniteSet(Slots) /\ Cardinality(Slots) = Capacity
         /\ IsFiniteSet(Taken(x))
         /\ Cardinality(Taken(x)) \in Nat /\ Cardinality(Taken(x)) <= Capacity
         /\ Cardinality(Taken(x)) = Capacity <=> Taken(x) = Slots
         /\ Cardinality(Taken(x)) = 0 <=> Taken(x) = {}
<1>1. Capacity \in Nat \ {0}
  BY ConstantsAssumption
<1>2. IsFiniteSet(Slots) /\ Cardinality(Slots) = Capacity
  <2>1. /\ IsFiniteSet(0..(Capacity - 1))
        /\ Cardinality(0..(Capacity - 1)) =
             IF 0 > Capacity - 1 THEN 0 ELSE (Capacity - 1) - 0 + 1
    BY <1>1, FS_Interval
  <2> QED BY <2>1, <1>1 DEF Slots
<1>3. Taken(x) \in SUBSET Slots
  BY DEF Taken
<1>4. /\ IsFiniteSet(Taken(x)) /\ Cardinality(Taken(x)) <= Cardinality(Slots)
      /\ Cardinality(Slots) = Cardinality(Taken(x)) => Slots = Taken(x)
  BY <1>2, <1>3, FS_Subset
<1>5. Cardinality(Taken(x)) \in Nat
  BY <1>4, FS_CardinalityType
<1>6. Cardinality(Taken(x)) = 0 <=> Taken(x) = {}
  BY <1>4, FS_EmptySet
<1> QED BY <1>2, <1>4, <1>5, <1>6

(* What a set of chunks holds is finite. *)
LEMMA HeldFinite ==
  ASSUME NEW m, NEW S \in SUBSET Nodes
  PROVE  IsFiniteSet(HeldBy(m, S)) /\ Cardinality(HeldBy(m, S)) \in Nat
<1> DEFINE E == [n \in S |-> Held(m, n)]
<1>1. \A n \in S : IsFiniteSet(E[n])
  <2> SUFFICES ASSUME NEW n \in S PROVE IsFiniteSet(Held(m, n))
    OBVIOUS
  <2>1. IsFiniteSet(Taken(m.node[n]))
    BY TakenFinite
  <2> QED BY <2>1, ImageFinite DEF Held
<1>2. IsFiniteSet(S)
  BY ConstantsAssumption, FS_Subset
<1>3. Together(E, S) = HeldBy(m, S)
  BY DEF Together, HeldBy
<1> HIDE DEF E
<1>4. IsFiniteSet(HeldBy(m, S))
  BY <1>1, <1>2, <1>3, UnionFinite
<1> QED BY <1>4, FS_CardinalityType

(* Steps that leave the elements alone. *)
LEMMA SameDataKeeps ==
  ASSUME NEW m \in Mem, NEW r \in Mem, SameData(m, r)
  PROVE  /\ \A l \in Lists : HeldBy(r, Own(r, l)) = HeldBy(m, Own(m, l))
         /\ HeldBy(r, r.heap) = HeldBy(m, m.heap)
         /\ CountInv(m) => CountInv(r)
         /\ StoredOnce(m) => StoredOnce(r)
<1>1. \A n \in m.heap \cap r.heap : Held(r, n) = Held(m, n)
  BY DEF SameData, Held, Taken
<1>2. \A n \in m.heap \ r.heap : Held(m, n) = {}
  BY DEF SameData, Held
<1>3. \A n \in r.heap \ m.heap : Held(r, n) = {}
  BY DEF SameData, Held
<1>4. \A n \in m.heap \cap r.heap : r.node[n].threadList = m.node[n].threadList
  BY DEF SameData
<1>5. ASSUME NEW l \in Lists
      PROVE  HeldBy(r, Own(r, l)) = HeldBy(m, Own(m, l))
  BY <1>1, <1>2, <1>3, <1>4 DEF HeldBy, Own
<1>6. HeldBy(r, r.heap) = HeldBy(m, m.heap)
  BY <1>1, <1>2, <1>3 DEF HeldBy
<1>7. CountInv(m) => CountInv(r)
  BY <1>5 DEF CountInv, SameData
<1>8. StoredOnce(m) => StoredOnce(r)
  <2> SUFFICES ASSUME StoredOnce(m), NEW n1 \in r.heap, NEW n2 \in r.heap,
                      NEW s1 \in Slots, NEW s2 \in Slots,
                      r.node[n1].slot[s1] = r.node[n2].slot[s2],
                      r.node[n1].slot[s1] # NULL
               PROVE  n1 = n2 /\ s1 = s2
    BY DEF StoredOnce
  <2>1. n1 \in m.heap /\ n2 \in m.heap
    BY DEF SameData, Taken
  <2> QED BY <2>1 DEF SameData, StoredOnce
<1> QED BY <1>5, <1>6, <1>7, <1>8

-----------------------------------------------------------------------------
(* Steps that change the contents of one chunk and the count of its list.  *)

Touch(m, r, n) ==
  LET l == m.node[n].threadList
  IN  /\ r.heap = m.heap
      /\ \A x \in Nodes \ {n} : r.node[x] = m.node[x]
      /\ \A k \in Lists \ {l} : r.list[k] = m.list[k]
      /\ r.node[n].next = m.node[n].next
      /\ r.node[n].prev = m.node[n].prev
      /\ r.node[n].active = m.node[n].active
      /\ r.node[n].index = m.node[n].index
      /\ r.node[n].threadList = l
      /\ r.list[l].head = m.list[l].head
      /\ r.list[l].tail = m.list[l].tail
      /\ r.list[l].numNodes = m.list[l].numNodes

(* One slot is written. *)
PutSlot(m, r, n, s, v) ==
  \A x \in Nodes : \A k \in Slots :
    r.node[x].slot[k] = IF x = n /\ k = s THEN v ELSE m.node[x].slot[k]

(* The same of the slots of chunk n. *)
PutAt(m, r, n, s, v) ==
  \A k \in Slots : r.node[n].slot[k] = IF k = s THEN v ELSE m.node[n].slot[k]

(* What _allocElementOnNode writes. *)
AllocEffect(m, r, n, s, e) ==
  /\ PutSlot(m, r, n, s, e)
  /\ r.node[n].numElements = m.node[n].numElements + 1
  /\ r.node[n].firstKnownFree = m.node[n].firstKnownFree
  /\ r.node[n].dirty = m.node[n].dirty
  /\ r.list[m.node[n].threadList].numElements =
       m.list[m.node[n].threadList].numElements + 1

(* What the first part of _freeElementOnNode writes. *)
ClearEffect(m, r, n, s) ==
  /\ PutSlot(m, r, n, s, NULL)
  /\ r.node[n].numElements = m.node[n].numElements - 1
  /\ r.node[n].firstKnownFree = m.node[n].firstKnownFree
  /\ r.node[n].dirty = TRUE
  /\ r.list[m.node[n].threadList].numElements =
       m.list[m.node[n].threadList].numElements - 1

(* They leave all links alone, and the other lists as they are. *)
LEMMA TouchKeeps ==
  ASSUME NEW m \in Mem, NEW r, NEW n \in m.heap, Touch(m, r, n)
  PROVE  /\ \A k \in Lists : SameShape(m, r, k) /\ Own(r, k) = Own(m, k)
         /\ Elsewhere(m, r, m.node[n].threadList)
         /\ (\A k \in Lists : ShapeInv(m, k)) => \A k \in Lists : ShapeInv(r, k)
<1> DEFINE l == m.node[n].threadList
<1>1. m.heap \subseteq Nodes /\ n \in Nodes
  BY MemTypes
<1>2. \A x \in Nodes : r.node[x].threadList = m.node[x].threadList
  BY <1>1 DEF Touch
<1>3. \A k \in Lists : Own(r, k) = Own(m, k) /\ Own(m, k) \subseteq Nodes
  BY <1>1, <1>2 DEF Touch, Own
<1>4. \A k \in Lists : SameShape(m, r, k)
  BY <1>1, <1>3 DEF Touch, SameShape
<1>5. \A k \in Lists \ {l} : n \notin Own(m, k)
  BY DEF Own
<1>6. Elsewhere(m, r, l)
  BY <1>3, <1>5 DEF Elsewhere, SameList, Touch
<1>7. ASSUME NEW k \in Lists, ShapeInv(m, k) PROVE ShapeInv(r, k)
  BY <1>4, <1>7, SameShapeKeeps
<1> QED BY <1>3, <1>4, <1>6, <1>7

(* _allocElementOnNode writes a slot and two counters. *)
LEMMA AllocFields ==
  ASSUME NEW m \in Mem, NEW n \in Nodes, NEW s \in Slots, NEW e \in Elems,
         NEW r, r = AllocElementOnNode(m, n, s, e)
  PROVE  r \in Mem /\ Touch(m, r, n) /\ AllocEffect(m, r, n, s, e)
<1> DEFINE l == m.node[n].threadList
<1>1. l \in Lists
  BY MemTypes
<1>2. /\ r.node[n].slot = [m.node[n].slot EXCEPT ![s] = e]
      /\ r.node[n].numElements = m.node[n].numElements + 1
      /\ r.node[n].firstKnownFree = m.node[n].firstKnownFree
      /\ r.node[n].dirty = m.node[n].dirty
      /\ r.list[l].numElements = m.list[l].numElements + 1
  BY <1>1 DEF AllocElementOnNode, Mem, NodeRecord, ListRecord
<1>3. Touch(m, r, n)
  BY <1>1 DEF AllocElementOnNode, Mem, NodeRecord, ListRecord, Touch
<1>4. IsMem(r)
  <2>1. \A x \in Nodes : IsNode(r.node[x])
    BY DEF AllocElementOnNode, Mem, NodeRecord, IsNode
  <2>2. \A k \in Lists : IsList(r.list[k])
    BY <1>1 DEF AllocElementOnNode, Mem, ListRecord, IsList
  <2>3. /\ r = [heap |-> r.heap, node |-> r.node, list |-> r.list]
        /\ r.node = [x \in Nodes |-> r.node[x]]
        /\ r.list = [k \in Lists |-> r.list[k]]
    BY DEF AllocElementOnNode, Mem
  <2> QED BY Zenon, <2>1, <2>2, <2>3 DEF IsMem
<1>5. r.node[n].slot \in [Slots -> Elems \cup {NULL}]
  BY <1>2, MemTypes
<1>6. NodeTypes(r.node[n])
  <2>1. NodeTypes(m.node[n])
    BY Zenon, MemElim
  <2> QED BY <1>2, <1>3, <1>5, <2>1 DEF NodeTypes, Touch
<1>7. ListTypes(r.list[l])
  <2>1. ListTypes(m.list[l])
    BY <1>1, MemElim
  <2> QED BY <1>2, <1>3, <2>1 DEF ListTypes, Touch
<1>8. r \in Mem
  BY Zenon, <1>3, <1>4, <1>6, <1>7, MemIntro, MemElim DEF Touch
<1>9. PutSlot(m, r, n, s, e)
  <2>1. \A x \in Nodes \ {n} : r.node[x] = m.node[x]
    BY Zenon, <1>3 DEF Touch
  <2>2. \A k \in Slots : r.node[n].slot[k] = IF k = s THEN e ELSE m.node[n].slot[k]
    <3>1. m.node[n].slot \in [Slots -> Elems \cup {NULL}]
      BY Zenon, MemTypes
    <3> QED BY Zenon, <1>2, <3>1
  <2> QED BY Zenon, <2>1, <2>2 DEF PutSlot
<1> QED BY <1>2, <1>3, <1>8, <1>9 DEF AllocEffect

(* So does the first part of _freeElementOnNode. *)
LEMMA ClearFields ==
  ASSUME NEW m \in Mem, NEW n \in Nodes, NEW s \in Slots,
         m.node[n].numElements - 1 \in Nat,
         m.list[m.node[n].threadList].numElements - 1 \in Nat,
         NEW r, r = ClearSlot(m, n, s)
  PROVE  r \in Mem /\ Touch(m, r, n) /\ ClearEffect(m, r, n, s)
<1> DEFINE l == m.node[n].threadList
<1>1. l \in Lists
  BY Zenon, MemTypes
<1>2. /\ r.node[n].slot = [m.node[n].slot EXCEPT ![s] = NULL]
      /\ r.node[n].numElements = m.node[n].numElements - 1
      /\ r.node[n].firstKnownFree = m.node[n].firstKnownFree
      /\ r.node[n].dirty = TRUE
      /\ r.list[l].numElements = m.list[l].numElements - 1
  BY <1>1 DEF ClearSlot, Mem, NodeRecord, ListRecord
<1>3. Touch(m, r, n)
  BY <1>1 DEF ClearSlot, Mem, NodeRecord, ListRecord, Touch
<1>4. IsMem(r)
  <2>1. \A x \in Nodes : IsNode(r.node[x])
    BY DEF ClearSlot, Mem, NodeRecord, IsNode
  <2>2. \A k \in Lists : IsList(r.list[k])
    BY <1>1 DEF ClearSlot, Mem, ListRecord, IsList
  <2>3. r = [heap |-> r.heap, node |-> r.node, list |-> r.list]
    BY DEF ClearSlot, Mem
  <2>4. r.node = [x \in Nodes |-> r.node[x]]
    BY DEF ClearSlot, Mem
  <2>5. r.list = [k \in Lists |-> r.list[k]]
    BY Zenon DEF ClearSlot, Mem
  <2> QED BY Zenon, <2>1, <2>2, <2>3, <2>4, <2>5 DEF IsMem
<1>5. r.node[n].slot \in [Slots -> Elems \cup {NULL}]
  BY <1>2, MemTypes
<1>6. NodeTypes(r.node[n])
  <2>1. NodeTypes(m.node[n])
    BY MemElim
  <2>2. r.node[n].numElements \in Nat
    BY <1>2, MemTypes
  <2> QED BY <1>2, <1>3, <1>5, <2>1, <2>2 DEF NodeTypes, Touch
<1>7. ListTypes(r.list[l])
  <2>1. ListTypes(m.list[l])
    BY <1>1, MemElim
  <2>2. r.list[l].numElements \in Nat
    BY Zenon, <1>1, <1>2, MemTypes
  <2> QED BY <1>3, <2>1, <2>2 DEF ListTypes, Touch
<1>8. r \in Mem
  BY <1>3, <1>4, <1>6, <1>7, MemIntro, MemElim DEF Touch
<1>9. PutSlot(m, r, n, s, NULL)
  <2>1. \A x \in Nodes \ {n} : r.node[x] = m.node[x]
    BY Zenon, <1>3 DEF Touch
  <2>2. \A k \in Slots : r.node[n].slot[k] = IF k = s THEN NULL ELSE m.node[n].slot[k]
    <3>1. m.node[n].slot \in [Slots -> Elems \cup {NULL}]
      BY Zenon, MemTypes
    <3> QED BY Zenon, <1>2, <3>1
  <2> QED BY Zenon, <2>1, <2>2 DEF PutSlot
<1> QED BY <1>2, <1>3, <1>8, <1>9 DEF ClearEffect

(* The elements of a set of chunks, slot by slot. *)
LEMMA HeldMember ==
  ASSUME NEW m, NEW S, NEW e
  PROVE  e \in HeldBy(m, S) <=>
           \E n \in S : \E s \in Slots : m.node[n].slot[s] = e /\ e # NULL
BY DEF HeldBy, Held, Taken

(* An element is put into a free slot of an active chunk: the chunk counts   *)
(* one element more.                                                        *)
LEMMA AllocFill ==
  ASSUME NEW m \in Mem, NEW n \in m.heap, NEW s \in Slots, NEW e \in Elems,
         FillInv(m), m.node[n].active, m.node[n].slot[s] = NULL,
         NEW r, r = AllocElementOnNode(m, n, s, e)
  PROVE  /\ FillInv(r) /\ PutSlot(m, r, n, s, e)
         /\ Taken(r.node[n]) = Taken(m.node[n]) \cup {s}
<1>1. n \in Nodes /\ m.heap \subseteq Nodes /\ e # NULL
  BY MemTypes, ConstantsAssumption
<1>2. Touch(m, r, n) /\ AllocEffect(m, r, n, s, e)
  BY <1>1, AllocFields
<1>3. PutSlot(m, r, n, s, e)
  BY <1>2 DEF AllocEffect
<1>4. Taken(r.node[n]) = Taken(m.node[n]) \cup {s}
  BY <1>1, <1>3 DEF PutSlot, Taken
<1>5. s \notin Taken(m.node[n])
  BY DEF Taken
<1>6. IsFiniteSet(Taken(m.node[n]))
  BY TakenFinite
<1>7. Cardinality(Taken(m.node[n]) \cup {s}) = Cardinality(Taken(m.node[n])) + 1
  BY <1>5, <1>6, FS_AddElement
<1>8. /\ r.node[n].numElements = Cardinality(Taken(r.node[n]))
      /\ r.node[n].active
  BY <1>2, <1>4, <1>7 DEF FillInv, Touch, AllocEffect
<1>9. FillInv(r)
  BY <1>1, <1>2, <1>8 DEF FillInv, Touch
<1> QED BY <1>3, <1>4, <1>9

(* An element is taken from a slot: the chunk counts one element less. *)
LEMMA ClearFill ==
  ASSUME NEW m \in Mem, NEW n \in m.heap, NEW s \in Slots,
         FillInv(m), m.node[n].slot[s] # NULL,
         m.list[m.node[n].threadList].numElements - 1 \in Nat,
         NEW r, r = ClearSlot(m, n, s)
  PROVE  /\ FillInv(r) /\ PutSlot(m, r, n, s, NULL)
         /\ Taken(r.node[n]) = Taken(m.node[n]) \ {s}
         /\ m.node[n].numElements - 1 \in Nat
<1>1. n \in Nodes /\ m.heap \subseteq Nodes
  BY MemTypes
<1>2. /\ s \in Taken(m.node[n]) /\ IsFiniteSet(Taken(m.node[n]))
      /\ Cardinality(Taken(m.node[n])) \in Nat
  BY TakenFinite DEF Taken
<1>3. m.node[n].numElements - 1 \in Nat
  BY <1>1, <1>2, TakenFinite DEF FillInv
<1>4. Touch(m, r, n) /\ ClearEffect(m, r, n, s)
  BY <1>1, <1>3, ClearFields
<1>5. PutSlot(m, r, n, s, NULL)
  BY <1>4 DEF ClearEffect
<1>6. Taken(r.node[n]) = Taken(m.node[n]) \ {s}
  BY <1>1, <1>5 DEF PutSlot, Taken
<1>7. Cardinality(Taken(m.node[n]) \ {s}) = Cardinality(Taken(m.node[n])) - 1
  BY <1>2, FS_RemoveElement
<1>8. r.node[n].numElements = Cardinality(Taken(r.node[n]))
  BY <1>4, <1>6, <1>7 DEF FillInv, ClearEffect
<1>9. ~r.node[n].active => Taken(r.node[n]) = {}
  BY <1>4, <1>6 DEF FillInv, Touch
<1>10. FillInv(r)
  <2>1. r.heap = m.heap /\ \A z \in Nodes \ {n} : r.node[z] = m.node[z]
    BY Zenon, <1>4 DEF Touch
  <2> SUFFICES ASSUME NEW z \in m.heap
               PROVE  /\ r.node[z].numElements = Cardinality(Taken(r.node[z]))
                      /\ ~r.node[z].active => Taken(r.node[z]) = {}
    BY Zenon, <2>1 DEF FillInv
  <2>2. CASE z = n
    BY Zenon, <1>8, <1>9, <2>2
  <2>3. CASE z # n
    BY Zenon, <1>1, <2>1, <2>3 DEF FillInv
  <2> QED BY Zenon, <2>2, <2>3
<1> QED BY <1>3, <1>5, <1>6, <1>10

-----------------------------------------------------------------------------
(* The release of the chunk behind the tail.                               *)

(* The blank chunk has the type of a chunk. *)
LEMMA BlankTypes ==
  ASSUME NEW l \in Lists
  PROVE  /\ IsNode(BlankNode) /\ NodeTypes(BlankNode)
         /\ Taken(BlankNode) = {} /\ BlankNode.numElements = 0
         /\ BlankNode.firstKnownFree = 0
<1>1. (CHOOSE k \in Lists : TRUE) \in Lists
  OBVIOUS
<1>2. NULL \in Ptr
  BY DEF Ptr
<1>3. IsNode(BlankNode) /\ BlankNode.numElements = 0 /\ BlankNode.firstKnownFree = 0
  BY DEF BlankNode, IsNode
<1>4. NodeTypes(BlankNode)
  BY <1>1, <1>2 DEF BlankNode, NodeTypes
<1>5. Taken(BlankNode) = {}
  BY DEF BlankNode, Taken
<1> QED BY <1>3, <1>4, <1>5

(* Chunk n, the last active one, drops chunk x behind it. *)
CutEffect(m, r, n, x) ==
  /\ r.heap = m.heap \ {x}
  /\ r.list = m.list
  /\ \A z \in Nodes \ {x} :
       /\ r.node[z].slot = m.node[z].slot
       /\ r.node[z].numElements = m.node[z].numElements
       /\ r.node[z].firstKnownFree = m.node[z].firstKnownFree
       /\ r.node[z].dirty = m.node[z].dirty
       /\ r.node[z].active = m.node[z].active
       /\ r.node[z].index = m.node[z].index
       /\ r.node[z].threadList = m.node[z].threadList
       /\ z # n => r.node[z].next = m.node[z].next
       /\ z # m.node[x].next => r.node[z].prev = m.node[z].prev
  /\ r.node[n].next = NULL
  /\ \A z \in Nodes \ {x, n, m.node[x].next} : r.node[z] = m.node[z]

Cut(m, n) == [FreePumaNode(m, m.node[n].next) EXCEPT !.node[n].next = NULL]

(* What _freePumaNode writes when _freeElementOnNode releases the chunk    *)
(* behind n.                                                               *)
LEMMA CutFields ==
  ASSUME NEW m \in Mem, NEW n \in Nodes, NEW x \in Nodes, n # x,
         x = m.node[n].next, m.node[x].prev = n,
         m.node[x].next # x, m.node[x].next # n,
         m.list[m.node[x].threadList].head # x,
         m.list[m.node[x].threadList].tail # x,
         NEW r, r = Cut(m, n)
  PROVE  r \in Mem /\ CutEffect(m, r, n, x)
<1> DEFINE l == m.node[x].threadList
           y == m.node[x].next
           ends == [m EXCEPT
             !.list[l].tail = IF @ = x THEN m.node[x].prev ELSE @,
             !.list[l].head = IF @ = x THEN y ELSE @]
           before == IF m.node[x].prev = NULL THEN ends
                     ELSE [ends EXCEPT !.node[m.node[x].prev].next = y]
           behind == IF y = NULL THEN before
                     ELSE [before EXCEPT !.node[y].prev = m.node[x].prev]
           freed == [behind EXCEPT !.heap = @ \ {x}, !.node[x] = BlankNode]
<1>1. l \in Lists /\ n # NULL /\ x # NULL /\ y \in Ptr /\ n \in Ptr
  BY Zenon, MemTypes, ConstantsAssumption DEF Ptr
<1>2. r = [freed EXCEPT !.node[n].next = NULL]
  <2>1. r = [FreePumaNode(m, x) EXCEPT !.node[n].next = NULL]
    BY Zenon DEF Cut
  <2> QED BY Zenon, <2>1 DEF FreePumaNode
<1>3. ends.heap = m.heap /\ ends.node = m.node /\ ends.list = m.list
  <2>1. ends.heap = m.heap /\ ends.node = m.node
    BY DEF Mem
  <2>2. \A k \in Lists : ends.list[k] = m.list[k]
    <3>1. \A k \in Lists \ {l} : ends.list[k] = m.list[k]
      BY Zenon, <1>1 DEF Mem
    <3>2. ends.list[l] = [m.list[l] EXCEPT !.tail = m.list[l].tail, !.head = m.list[l].head]
      BY Zenon, <1>1 DEF Mem, ListRecord
    <3>3. m.list[l] = [m.list[l] EXCEPT !.tail = m.list[l].tail, !.head = m.list[l].head]
      BY Zenon, <1>1 DEF Mem, ListRecord
    <3> QED BY Zenon, <3>1, <3>2, <3>3
  <2>3. ends.list = [k \in Lists |-> ends.list[k]]
    BY Zenon DEF Mem
  <2>4. m.list = [k \in Lists |-> m.list[k]]
    BY DEF Mem
  <2>5. ends.list = m.list
    BY Zenon, <2>2, <2>3, <2>4
  <2> QED BY Zenon, <2>1, <2>5
<1>4. /\ before.heap = m.heap /\ before.list = m.list
      /\ before.node = [m.node EXCEPT ![n].next = y]
  <2>1. before = [ends EXCEPT !.node[n].next = y]
    <3> HIDE DEF ends
    <3> QED BY <1>1
  <2>2. before.heap = m.heap /\ before.node = [m.node EXCEPT ![n].next = y]
    BY Zenon, <2>1 DEF Mem
  <2>3. before.list = ends.list
    BY Zenon, <2>1 DEF Mem
  <2> QED BY Zenon, <1>3, <2>2, <2>3
<1>5. /\ behind.heap = m.heap /\ behind.list = m.list
      /\ behind.node = IF y = NULL THEN before.node
                       ELSE [before.node EXCEPT ![y].prev = n]
  <2>1. behind = IF y = NULL THEN before ELSE [before EXCEPT !.node[y].prev = n]
    OBVIOUS
  <2>2. before = [heap |-> before.heap, node |-> before.node, list |-> before.list]
    BY Zenon, <1>1 DEF Mem
  <2> HIDE DEF before, behind
  <2> QED BY Zenon, <1>4, <2>1, <2>2
<1>6. behind = [heap |-> behind.heap, node |-> behind.node, list |-> behind.list]
  BY Zenon, <1>1 DEF Mem
<1>7. /\ r.heap = m.heap \ {x} /\ r.list = m.list
      /\ r.node = [behind.node EXCEPT ![x] = BlankNode, ![n].next = NULL]
      /\ r = [heap |-> r.heap, node |-> r.node, list |-> r.list]
  <2> HIDE DEF behind
  <2>1. /\ r.heap = behind.heap \ {x} /\ r.list = behind.list
        /\ r.node = [behind.node EXCEPT ![x] = BlankNode, ![n].next = NULL]
    BY Zenon, <1>2, <1>6
  <2>2. r = [heap |-> r.heap, node |-> r.node, list |-> r.list]
    BY Zenon, <1>2, <1>6
  <2> QED BY Zenon, <1>5, <2>1, <2>2
<1>8. /\ \A z \in Nodes \ {x, n, y} : r.node[z] = m.node[z]
      /\ r.node[x] = BlankNode
      /\ r.node[n] = [m.node[n] EXCEPT !.next = NULL]
      /\ y # NULL => r.node[y] = [m.node[y] EXCEPT !.prev = n]
      /\ r.node = [z \in Nodes |-> r.node[z]]
  <2>1. (y = NULL \/ y \in Nodes) /\ y # n /\ y # x
    BY Zenon, <1>1 DEF Ptr
  <2>2. m.node = [z \in Nodes |-> m.node[z]]
    BY DEF Mem
  <2>3. m.node[n] \in NodeRecord
    BY Zenon, MemTypes
  <2> HIDE DEF before, behind, y
  <2>4. behind.node = [z \in Nodes |-> behind.node[z]]
    BY Zenon, <1>4, <1>5, <2>2
  <2>5. /\ \A z \in Nodes \ {n, y} : behind.node[z] = m.node[z]
        /\ behind.node[n] = [m.node[n] EXCEPT !.next = y]
        /\ y # NULL => behind.node[y] = [m.node[y] EXCEPT !.prev = n]
    <3>1. \A z \in Nodes : before.node[z] = IF z = n THEN [m.node[n] EXCEPT !.next = y]
                                             ELSE m.node[z]
      BY Zenon, <1>4, <2>2
    <3>2. before.node = [z \in Nodes |-> before.node[z]]
      BY Zenon, <1>4, <2>2
    <3>3. y # NULL => /\ behind.node[y] = [before.node[y] EXCEPT !.prev = n]
                      /\ \A z \in Nodes \ {y} : behind.node[z] = before.node[z]
      BY Zenon, <1>5, <2>1, <3>2
    <3>4. y = NULL => behind.node = before.node
      BY Zenon, <1>5
    <3> QED BY Zenon, <1>1, <2>1, <3>1, <3>3, <3>4
  <2>6. /\ \A z \in Nodes \ {x, n} : r.node[z] = behind.node[z]
        /\ r.node[x] = BlankNode
        /\ r.node[n] = [behind.node[n] EXCEPT !.next = NULL]
        /\ r.node = [z \in Nodes |-> r.node[z]]
    BY Zenon, <1>7, <2>4
  <2>7. r.node[n] = [m.node[n] EXCEPT !.next = NULL]
    BY Zenon, <2>3, <2>5, <2>6 DEF NodeRecord
  <2>8. \A z \in Nodes \ {x, n, y} : r.node[z] = m.node[z]
    <3>1. \A z \in Nodes \ {x, n} : r.node[z] = behind.node[z]
      BY Zenon, <2>6
    <3>2. \A z \in Nodes \ {n, y} : behind.node[z] = m.node[z]
      BY Zenon, <2>5
    <3> QED BY Zenon, <3>1, <3>2
  <2>9. y # NULL => r.node[y] = [m.node[y] EXCEPT !.prev = n]
    <3>1. \A z \in Nodes \ {x, n} : r.node[z] = behind.node[z]
      BY Zenon, <2>6
    <3>2. y # NULL => behind.node[y] = [m.node[y] EXCEPT !.prev = n]
      BY Zenon, <2>5
    <3> QED BY Zenon, <2>1, <3>1, <3>2
  <2> QED BY Zenon, <2>6, <2>7, <2>8, <2>9
<1>9. CutEffect(m, r, n, x)
  <2>1. m.node[n] \in NodeRecord /\ (y # NULL => m.node[y] \in NodeRecord)
    BY Zenon, <1>1, MemTypes DEF Ptr
  <2>2. \A z \in Nodes \ {x} :
       /\ r.node[z].slot = m.node[z].slot
       /\ r.node[z].numElements = m.node[z].numElements
       /\ r.node[z].firstKnownFree = m.node[z].firstKnownFree
       /\ r.node[z].dirty = m.node[z].dirty
       /\ r.node[z].active = m.node[z].active
       /\ r.node[z].index = m.node[z].index
       /\ r.node[z].threadList = m.node[z].threadList
       /\ z # n => r.node[z].next = m.node[z].next
       /\ z # y => r.node[z].prev = m.node[z].prev
    <3> SUFFICES ASSUME NEW z \in Nodes \ {x}
                 PROVE  /\ r.node[z].slot = m.node[z].slot
                        /\ r.node[z].numElements = m.node[z].numElements
                        /\ r.node[z].firstKnownFree = m.node[z].firstKnownFree
                        /\ r.node[z].dirty = m.node[z].dirty
                        /\ r.node[z].active = m.node[z].active
                        /\ r.node[z].index = m.node[z].index
                        /\ r.node[z].threadList = m.node[z].threadList
                        /\ z # n => r.node[z].next = m.node[z].next
                        /\ z # y => r.node[z].prev = m.node[z].prev
      BY Zenon
    <3> HIDE DEF y
    <3>1. CASE z = n
      BY Zenon, <1>8, <2>1, <3>1 DEF NodeRecord
    <3>2. CASE z = y
      <4>1. y # NULL
        BY Zenon, <3>2, ConstantsAssumption
      <4> QED BY <1>8, <2>1, <3>2, <4>1 DEF NodeRecord
    <3>3. CASE z # n /\ z # y
      BY <1>8, <3>3
    <3> QED BY <3>1, <3>2, <3>3
  <2>3. r.node[n].next = NULL /\ r.node[n].prev = m.node[n].prev
    BY Zenon, <1>8, <2>1 DEF NodeRecord
  <2> QED BY Zenon, <1>7, <1>8, <2>2, <2>3 DEF CutEffect
<1>10. \A z \in Nodes : IsNode(r.node[z]) /\ NodeTypes(r.node[z])
  <2>1. IsNode(BlankNode) /\ NodeTypes(BlankNode)
    BY <1>1, BlankTypes
  <2>2. \A z \in Nodes : IsNode(m.node[z]) /\ NodeTypes(m.node[z])
    BY Zenon, MemElim DEF IsMem
  <2>3. IsNode(r.node[n]) /\ NodeTypes(r.node[n])
    BY Zenon, <1>8, <2>2 DEF IsNode, NodeTypes, Ptr
  <2>4. y # NULL => IsNode(r.node[y]) /\ NodeTypes(r.node[y])
    <3> SUFFICES ASSUME y # NULL PROVE IsNode(r.node[y]) /\ NodeTypes(r.node[y])
      BY Zenon
    <3>1. y \in Nodes
      BY Zenon, <1>1 DEF Ptr
    <3> DEFINE o == m.node[y]
               u == r.node[y]
    <3>2. u = [o EXCEPT !.prev = n] /\ IsNode(o) /\ NodeTypes(o)
      BY Zenon, <1>8, <2>2, <3>1
    <3> HIDE DEF o, u
    <3>3. IsNode(u) /\ NodeTypes(u)
      BY Zenon, <1>1, <3>2 DEF IsNode, NodeTypes, Ptr
    <3> QED BY Zenon, <3>3 DEF u
  <2>5. ASSUME NEW z \in Nodes, z # n, z # y, z # x
        PROVE  IsNode(r.node[z]) /\ NodeTypes(r.node[z])
    BY Zenon, <1>8, <2>2, <2>5
  <2>6. IsNode(r.node[x]) /\ NodeTypes(r.node[x])
    BY Zenon, <1>8, <2>1
  <2>7. NULL \notin Nodes
    BY ConstantsAssumption
  <2> HIDE DEF y
  <2> QED BY <2>3, <2>4, <2>5, <2>6, <2>7
<1>11. r \in Mem
  <2>1. IsMem(m)
    BY Zenon, MemElim
  <2>2. /\ r.list = [k \in Lists |-> r.list[k]]
        /\ \A k \in Lists : IsList(r.list[k])
    <3>1. /\ m.list = [k \in Lists |-> m.list[k]]
          /\ \A k \in Lists : IsList(m.list[k])
      BY Zenon, <2>1 DEF IsMem
    <3>2. r.list = m.list
      BY Zenon, <1>7
    <3> QED BY <3>1, <3>2
  <2>3. IsMem(r)
    BY Zenon, <1>7, <1>8, <1>10, <2>2 DEF IsMem
  <2>4. r.heap \subseteq Nodes /\ \A k \in Lists : ListTypes(r.list[k])
    BY Zenon, <1>7, MemElim
  <2> QED BY Zenon, <1>10, <2>3, <2>4, MemIntro
<1> QED BY <1>9, <1>11

(* A step that drops the empty chunk x, which is not active, keeps the       *)
(* elements where they are.                                                 *)
LEMMA CutData ==
  ASSUME NEW m \in Mem, NEW r \in Mem, NEW n \in m.heap, NEW x \in m.heap,
         CutEffect(m, r, n, x), FillInv(m), ~m.node[x].active
  PROVE  SameData(m, r) /\ FillInv(r)
<1>1. m.heap \subseteq Nodes
  BY MemTypes
<1>2. Taken(m.node[x]) = {}
  BY DEF FillInv
<1>3. r.heap = m.heap \ {x}
  BY DEF CutEffect
<1>4. \A z \in Nodes \ {x} : Taken(r.node[z]) = Taken(m.node[z])
  BY DEF CutEffect, Taken
<1>5. SameData(m, r)
  BY <1>1, <1>2, <1>3 DEF CutEffect, SameData
<1>6. FillInv(r)
  BY <1>1, <1>3, <1>4 DEF CutEffect, FillInv
<1> QED BY <1>5, <1>6

(* Chunk n is the tail of its list, x hangs behind it alone, and what is     *)
(* behind x is not active.                                                  *)
LEMMA CutPlace ==
  ASSUME NEW m \in Mem, NEW n \in m.heap, NEW l, l = m.node[n].threadList,
         ShapeInv(m, l), m.node[n].active,
         NEW x, x = m.node[n].next, x # NULL, ~m.node[x].active
  PROVE  /\ x \in Own(m, l) /\ m.node[x].prev = n /\ x # n
         /\ m.node[x].next # x /\ m.node[x].next # n
         /\ m.list[l].tail = n /\ m.list[l].head # x
         /\ m.node[x].next # NULL => /\ m.node[x].next \in Own(m, l)
                                     /\ m.node[m.node[x].next].prev = x
                                     /\ ~m.node[m.node[x].next].active
<1>1. n \in Own(m, l)
  BY DEF Own
<1>2. x \in Own(m, l) /\ m.node[x].prev = n
  BY <1>1 DEF ShapeInv, LinksInv
<1>3. x # n
  OBVIOUS
<1>4. ActiveNode(m, l, n)
  BY <1>1 DEF ShapeInv, ActiveInv
<1>5. m.list[l].tail = n
  BY <1>4 DEF ActiveNode
<1>6. n # NULL
  BY MemTypes, ConstantsAssumption
<1>7. m.list[l].head # x
  BY Zenon, <1>2, <1>6 DEF ShapeInv, EndsInv
<1>8. m.node[x].next # NULL => /\ m.node[x].next \in Own(m, l)
                               /\ m.node[m.node[x].next].prev = x
  BY <1>2 DEF ShapeInv, LinksInv
<1>9. x # NULL
  BY Zenon
<1>10. ASSUME NEW z \in Own(m, l), m.node[z].prev = x
       PROVE  ~m.node[z].active
  BY Zenon, <1>9, <1>10 DEF ShapeInv, ActiveInv, ActiveNode
<1>11. m.node[x].next # x
  BY <1>2, <1>3, <1>8
<1>12. m.node[x].next # n
  BY <1>1, <1>6, <1>8, <1>10
<1> QED BY <1>2, <1>3, <1>5, <1>7, <1>8, <1>10, <1>11, <1>12

(* The list keeps its shape without x. *)
LEMMA CutShape ==
  ASSUME NEW m \in Mem, NEW r \in Mem, NEW n \in m.heap,
         NEW l, l = m.node[n].threadList,
         ShapeInv(m, l), m.node[n].active,
         NEW x, x = m.node[n].next, x # NULL, ~m.node[x].active,
         CutEffect(m, r, n, x)
  PROVE  /\ ShapeInv(r, l) /\ Elsewhere(m, r, l)
         /\ Own(r, l) = Own(m, l) \ {x}
<1>1. /\ x \in Own(m, l) /\ m.node[x].prev = n /\ x # n
      /\ m.list[l].tail = n /\ m.list[l].head # x
      /\ m.node[x].next # NULL => /\ m.node[x].next \in Own(m, l)
                                  /\ m.node[m.node[x].next].prev = x
                                  /\ ~m.node[m.node[x].next].active
  BY CutPlace
<1>2. n \in Own(m, l) /\ m.heap \subseteq Nodes /\ Own(m, l) \subseteq Nodes
  BY MemTypes DEF Own
<1>3. \A k \in Lists : Own(r, k) = Own(m, k) \ {x}
  BY <1>2 DEF Own, CutEffect
<1>4. r.list = m.list
  BY DEF CutEffect
<1>5. ASSUME NEW k \in Lists \ {l} PROVE SameList(m, r, k)
  <2>1. /\ x \notin Own(m, k) /\ n \notin Own(m, k)
        /\ m.node[x].next # NULL => m.node[x].next \notin Own(m, k)
    BY <1>1, <1>2 DEF Own
  <2>2. Own(r, k) = Own(m, k) /\ r.list[k] = m.list[k]
    BY <1>3, <1>4, <2>1
  <2>3. ASSUME NEW z \in Own(m, k) PROVE r.node[z] = m.node[z]
    <3>1. z \in Nodes \ {x, n, m.node[x].next}
      BY <1>2, <2>1, ConstantsAssumption DEF Own
    <3> QED BY <3>1 DEF CutEffect
  <2> QED BY <2>2, <2>3 DEF SameList
<1>6. Own(r, l) = Own(m, l) \ {x}
  BY <1>2 DEF Own, CutEffect
<1>7. \A z \in Own(r, l) :
        /\ r.node[z].active = m.node[z].active
        /\ r.node[z].index = m.node[z].index
        /\ z # n => r.node[z].next = m.node[z].next
        /\ z # m.node[x].next => r.node[z].prev = m.node[z].prev
        /\ z \in Own(m, l) /\ z # x
  BY <1>2, <1>6 DEF CutEffect
<1>8. r.node[n].next = NULL
  BY DEF CutEffect
<1>9. LinksInv(r, l)
  <2> SUFFICES ASSUME NEW z \in Own(r, l), r.node[z].next # NULL
               PROVE  r.node[z].next \in Own(r, l) /\ r.node[r.node[z].next].prev = z
    BY DEF LinksInv
  <2>1. z # n /\ r.node[z].next = m.node[z].next /\ z # x /\ z \in Own(m, l)
    BY <1>7, <1>8
  <2>2. m.node[z].next \in Own(m, l) /\ m.node[m.node[z].next].prev = z
    BY Zenon, <2>1 DEF ShapeInv, LinksInv
  <2>3. m.node[z].next # x
    BY Zenon, <1>1, <2>1, <2>2
  <2>4. m.node[z].next # m.node[x].next
    BY <1>1, <2>1, <2>2
  <2> QED BY <1>6, <1>7, <2>1, <2>2, <2>3, <2>4
<1>10. ActiveInv(r, l)
  <2> SUFFICES ASSUME NEW z \in Own(r, l), m.node[z].active
               PROVE  ActiveNode(r, l, z)
    BY <1>7 DEF ActiveInv
  <2>1. ActiveNode(m, l, z) /\ ActiveNode(m, l, n)
    BY <1>2, <1>7 DEF ShapeInv, ActiveInv
  <2>2. r.node[z].prev = m.node[z].prev /\ r.node[z].index = m.node[z].index
    <3>1. z # m.node[x].next
      BY <1>1, <1>2, <1>7, ConstantsAssumption
    <3> QED BY Zenon, <1>7, <3>1
  <2>3. ASSUME m.node[z].prev # NULL
        PROVE  /\ m.node[z].prev \in Own(r, l)
               /\ r.node[m.node[z].prev].active
               /\ r.node[m.node[z].prev].next = z
               /\ r.node[z].index = r.node[m.node[z].prev].index + 1
    <3>1. /\ m.node[z].prev \in Own(m, l) /\ m.node[m.node[z].prev].active
          /\ m.node[m.node[z].prev].next = z
          /\ m.node[z].index = m.node[m.node[z].prev].index + 1
      BY Zenon, <2>1, <2>3 DEF ActiveNode
    <3>2. m.node[z].prev # x /\ m.node[z].prev # n
      BY Zenon, <1>7, <3>1
    <3> QED BY <1>6, <1>7, <2>2, <3>1, <3>2
  <2>4. z # n => m.node[z].next # NULL /\ m.node[m.node[z].next].active
    BY <1>1, <2>1 DEF ActiveNode
  <2>5. z # n => r.node[z].next # NULL /\ r.node[r.node[z].next].active
    <3> SUFFICES ASSUME z # n PROVE r.node[z].next # NULL /\ r.node[r.node[z].next].active
      OBVIOUS
    <3>1. m.node[z].next \in Own(m, l) /\ m.node[z].next # x
      BY Zenon, <1>7, <2>4 DEF ShapeInv, LinksInv
    <3> QED BY <1>6, <1>7, <2>4, <3>1
  <2>6. m.node[z].index <= m.node[n].index /\ n \in Own(r, l) /\ n # NULL
    BY <1>1, <1>2, <1>6, <2>1, ConstantsAssumption DEF ActiveNode
  <2>7. r.node[z].index <= r.node[n].index /\ r.node[n].active
    BY Zenon, <1>7, <2>6
  <2>8. m.node[z].prev = NULL => m.list[l].head = z /\ m.node[z].index = 0
    BY Zenon, <2>1 DEF ActiveNode
  <2>9. r.list[l].tail = n /\ r.list[l].head = m.list[l].head
    BY <1>1, <1>4
  <2> QED BY <1>8, <2>2, <2>3, <2>5, <2>6, <2>7, <2>8, <2>9 DEF ActiveNode
<1>11. IndexInv(r, l)
  BY <1>7 DEF ShapeInv, IndexInv
<1>12. EndsInv(r, l)
  <2>1. n \in Own(r, l) /\ r.node[n].active /\ r.node[n].index = m.node[n].index
    BY <1>1, <1>2, <1>6, <1>7
  <2>2. m.list[l].head # NULL => m.list[l].head \in Own(r, l) /\ m.list[l].head # m.node[x].next
    BY <1>1, <1>6 DEF ShapeInv, EndsInv
  <2>3. m.list[l].head # NULL => r.node[m.list[l].head].prev = NULL
    BY Zenon, <1>7, <2>2 DEF ShapeInv, EndsInv
  <2> QED BY Zenon, <1>1, <1>4, <2>1, <2>2, <2>3 DEF ShapeInv, EndsInv
<1> QED BY <1>5, <1>6, <1>9, <1>10, <1>11, <1>12 DEF ShapeInv, Elsewhere

(* What the release keeps, as the callers need it. *)
LEMMA CutKeeps ==
  ASSUME NEW m, MemInv(m), NEW n \in m.heap, m.node[n].active,
         NEW x, x = m.node[n].next, x # NULL, ~m.node[x].active,
         NEW r, r = Cut(m, n)
  PROVE  /\ MemInv(r) /\ Elsewhere(m, r, m.node[n].threadList)
         /\ CutEffect(m, r, n, x)
         /\ HeldBy(r, r.heap) = HeldBy(m, m.heap)
<1> DEFINE l == m.node[n].threadList
<1>1. /\ m \in Mem /\ FillInv(m) /\ CountInv(m) /\ StoredOnce(m)
      /\ \A k \in Lists : ShapeInv(m, k)
  BY DEF MemInv
<1>2. l \in Lists /\ n \in Nodes /\ ShapeInv(m, l)
  BY <1>1, MemTypes
<1>3. /\ x \in Own(m, l) /\ m.node[x].prev = n /\ x # n
      /\ m.node[x].next # x /\ m.node[x].next # n
      /\ m.list[l].tail = n /\ m.list[l].head # x
  BY <1>1, <1>2, CutPlace
<1>4. x \in m.heap /\ x \in Nodes /\ m.node[x].threadList = l
  BY <1>1, <1>3, MemTypes DEF Own
<1>5. r \in Mem /\ CutEffect(m, r, n, x)
  BY <1>1, <1>2, <1>3, <1>4, CutFields
<1>6. SameData(m, r) /\ FillInv(r)
  BY <1>1, <1>4, <1>5, CutData
<1>7. /\ CountInv(r) /\ StoredOnce(r)
      /\ HeldBy(r, r.heap) = HeldBy(m, m.heap)
  BY <1>1, <1>5, <1>6, SameDataKeeps
<1>8. ShapeInv(r, l) /\ Elsewhere(m, r, l)
  BY <1>1, <1>2, <1>5, CutShape
<1>9. \A k \in Lists : ShapeInv(r, k)
  BY <1>1, <1>8, SameListKeeps DEF Elsewhere
<1> QED BY <1>5, <1>6, <1>7, <1>8, <1>9 DEF MemInv

-----------------------------------------------------------------------------
(* One element comes, goes or moves.                                       *)

(* The elements of chunks S are the same when a slot of another one is      *)
(* written.                                                                 *)
LEMMA PutSlotOther ==
  ASSUME NEW m, NEW r, NEW n, NEW s, NEW v, PutSlot(m, r, n, s, v),
         NEW S \in SUBSET Nodes, n \notin S
  PROVE  HeldBy(r, S) = HeldBy(m, S)
<1>1. \A x \in S : \A k \in Slots : r.node[x].slot[k] = m.node[x].slot[k]
  BY DEF PutSlot
<1>2. \A e : e \in HeldBy(r, S) <=> e \in HeldBy(m, S)
  BY <1>1, HeldMember
<1> QED BY <1>2

(* A free slot of one of them is given v. *)
LEMMA PutSlotHeld ==
  ASSUME NEW m, NEW r, NEW n, NEW s \in Slots, NEW v,
         PutSlot(m, r, n, s, v), v # NULL, m.node[n].slot[s] = NULL,
         NEW S \in SUBSET Nodes, n \in S
  PROVE  HeldBy(r, S) = HeldBy(m, S) \cup {v}
<1>1. ASSUME NEW e \in HeldBy(r, S) PROVE e \in HeldBy(m, S) \cup {v}
  BY <1>1, HeldMember DEF PutSlot
<1>2. ASSUME NEW e \in HeldBy(m, S) PROVE e \in HeldBy(r, S)
  <2>1. PICK x \in S, k \in Slots : m.node[x].slot[k] = e /\ e # NULL
    BY HeldMember
  <2>2. r.node[x].slot[k] = e
    BY <2>1 DEF PutSlot
  <2> QED BY <2>1, <2>2, HeldMember
<1>3. v \in HeldBy(r, S)
  <2>1. r.node[n].slot[s] = v
    BY DEF PutSlot
  <2> QED BY <2>1, HeldMember
<1> QED BY <1>1, <1>2, <1>3

(* _allocElementOnNode with an element that is not in the set. *)
LEMMA AllocKeeps ==
  ASSUME NEW m, MemInv(m), NEW n \in m.heap, NEW s \in Slots, NEW e \in Elems,
         m.node[n].active, m.node[n].slot[s] = NULL,
         e \notin HeldBy(m, m.heap),
         NEW r, r = AllocElementOnNode(m, n, s, e)
  PROVE  /\ MemInv(r) /\ Elsewhere(m, r, m.node[n].threadList)
         /\ Touch(m, r, n) /\ AllocEffect(m, r, n, s, e)
         /\ Taken(r.node[n]) = Taken(m.node[n]) \cup {s}
         /\ HeldBy(r, r.heap) = HeldBy(m, m.heap) \cup {e}
<1> DEFINE l == m.node[n].threadList
<1>1. /\ m \in Mem /\ FillInv(m) /\ CountInv(m) /\ StoredOnce(m)
      /\ \A k \in Lists : ShapeInv(m, k)
  BY DEF MemInv
<1>2. l \in Lists /\ n \in Nodes /\ m.heap \subseteq Nodes /\ e # NULL
  BY <1>1, MemTypes, ConstantsAssumption
<1>3. r \in Mem /\ Touch(m, r, n) /\ AllocEffect(m, r, n, s, e)
  BY <1>1, <1>2, AllocFields
<1>4. /\ FillInv(r) /\ PutSlot(m, r, n, s, e)
      /\ Taken(r.node[n]) = Taken(m.node[n]) \cup {s}
  BY <1>1, AllocFill
<1>5. /\ \A k \in Lists : Own(r, k) = Own(m, k)
      /\ Elsewhere(m, r, l)
      /\ \A k \in Lists : ShapeInv(r, k)
  BY <1>1, <1>3, TouchKeeps
<1>6. r.heap = m.heap /\ \A k \in Lists : Own(m, k) \in SUBSET Nodes
  BY <1>2, <1>3 DEF Touch, Own
<1>7. HeldBy(r, r.heap) = HeldBy(m, m.heap) \cup {e}
  BY <1>2, <1>4, <1>6, PutSlotHeld
<1>8. CountInv(r)
  <2> SUFFICES ASSUME NEW k \in Lists
               PROVE  r.list[k].numElements = Cardinality(HeldBy(r, Own(m, k)))
    BY <1>5 DEF CountInv
  <2>1. CASE k # l
    <3>1. n \notin Own(m, k)
      BY <2>1 DEF Own
    <3>2. HeldBy(r, Own(m, k)) = HeldBy(m, Own(m, k))
      <4>1. Own(m, k) \in SUBSET Nodes
        BY <1>6
      <4> QED BY <1>4, <3>1, <4>1, PutSlotOther
    <3> QED BY <1>1, <1>3, <2>1, <3>2 DEF CountInv, Touch
  <2>2. CASE k = l
    <3>1. n \in Own(m, l)
      BY DEF Own
    <3>2. HeldBy(r, Own(m, l)) = HeldBy(m, Own(m, l)) \cup {e}
      BY <1>2, <1>4, <1>6, <3>1, PutSlotHeld
    <3>3. IsFiniteSet(HeldBy(m, Own(m, l)))
      BY <1>2, <1>6, HeldFinite
    <3>4. e \notin HeldBy(m, Own(m, l))
      BY HeldMember DEF Own
    <3>5. Cardinality(HeldBy(m, Own(m, l)) \cup {e}) =
            Cardinality(HeldBy(m, Own(m, l))) + 1
      BY <3>3, <3>4, FS_AddElement
    <3>6. m.list[l].numElements = Cardinality(HeldBy(m, Own(m, l)))
      BY <1>1, <1>2 DEF CountInv
    <3>7. r.list[l].numElements = m.list[l].numElements + 1
      BY <1>3 DEF AllocEffect
    <3> QED BY <2>2, <3>2, <3>5, <3>6, <3>7
  <2> QED BY <2>1, <2>2
<1>9. StoredOnce(r)
  <2> SUFFICES ASSUME NEW n1 \in m.heap, NEW n2 \in m.heap,
                      NEW s1 \in Slots, NEW s2 \in Slots,
                      r.node[n1].slot[s1] = r.node[n2].slot[s2],
                      r.node[n1].slot[s1] # NULL
               PROVE  n1 = n2 /\ s1 = s2
    BY <1>6 DEF StoredOnce
  <2>1. \A x \in m.heap : \A k \in Slots : m.node[x].slot[k] # e
    BY <1>2, HeldMember
  <2> QED BY <1>1, <1>2, <1>4, <2>1 DEF StoredOnce, PutSlot
<1> QED BY <1>3, <1>4, <1>5, <1>7, <1>8, <1>9 DEF MemInv

(* The slot that held e is freed, and e was stored once. *)
LEMMA PutSlotGone ==
  ASSUME NEW m, NEW r, NEW n, NEW s \in Slots, NEW e,
         PutSlot(m, r, n, s, NULL), m.node[n].slot[s] = e, e # NULL,
         m.heap \subseteq Nodes, StoredOnce(m),
         NEW S \in SUBSET m.heap, n \in S
  PROVE  HeldBy(r, S) = HeldBy(m, S) \ {e} /\ e \in HeldBy(m, S)
<1>1. ASSUME NEW f \in HeldBy(r, S) PROVE f \in HeldBy(m, S) /\ f # e
  <2>1. PICK x \in S, k \in Slots : r.node[x].slot[k] = f /\ f # NULL
    BY HeldMember
  <2>2. ~(x = n /\ k = s) /\ m.node[x].slot[k] = f
    BY <2>1 DEF PutSlot
  <2>3. f # e
    BY <2>1, <2>2 DEF StoredOnce
  <2> QED BY <2>1, <2>2, <2>3, HeldMember
<1>2. ASSUME NEW f \in HeldBy(m, S), f # e PROVE f \in HeldBy(r, S)
  <2>1. PICK x \in S, k \in Slots : m.node[x].slot[k] = f /\ f # NULL
    BY HeldMember
  <2>2. r.node[x].slot[k] = f
    BY <1>2, <2>1 DEF PutSlot
  <2> QED BY <2>1, <2>2, HeldMember
<1>3. e \in HeldBy(m, S)
  BY HeldMember
<1> QED BY <1>1, <1>2, <1>3

(* The first part of _freeElementOnNode. *)
LEMMA ClearKeeps ==
  ASSUME NEW m, MemInv(m), NEW n \in m.heap, NEW s \in Slots, NEW e,
         m.node[n].slot[s] = e, e # NULL,
         NEW r, r = ClearSlot(m, n, s)
  PROVE  /\ MemInv(r) /\ Elsewhere(m, r, m.node[n].threadList)
         /\ Touch(m, r, n) /\ ClearEffect(m, r, n, s)
         /\ Taken(r.node[n]) = Taken(m.node[n]) \ {s}
         /\ HeldBy(r, r.heap) = HeldBy(m, m.heap) \ {e}
<1> DEFINE l == m.node[n].threadList
<1>1. /\ m \in Mem /\ FillInv(m) /\ CountInv(m) /\ StoredOnce(m)
      /\ \A k \in Lists : ShapeInv(m, k)
  BY DEF MemInv
<1>2. l \in Lists /\ n \in Nodes /\ m.heap \subseteq Nodes /\ n \in Own(m, l)
  BY <1>1, MemTypes DEF Own
<1>3. /\ IsFiniteSet(HeldBy(m, Own(m, l)))
      /\ Cardinality(HeldBy(m, Own(m, l))) \in Nat
  <2>1. Own(m, l) \in SUBSET Nodes
    BY <1>2 DEF Own
  <2> QED BY <2>1, HeldFinite
<1>4. e \in HeldBy(m, Own(m, l))
  BY <1>2, HeldMember
<1>5. Cardinality(HeldBy(m, Own(m, l)) \ {e}) =
        Cardinality(HeldBy(m, Own(m, l))) - 1
  BY <1>3, <1>4, FS_RemoveElement
<1>6. /\ m.list[l].numElements = Cardinality(HeldBy(m, Own(m, l)))
      /\ m.list[l].numElements - 1 \in Nat
  <2>1. m.list[l].numElements = Cardinality(HeldBy(m, Own(m, l)))
    BY <1>1, <1>2 DEF CountInv
  <2>2. Cardinality(HeldBy(m, Own(m, l))) # 0
    BY <1>3, <1>4, FS_EmptySet
  <2> QED BY <1>3, <2>1, <2>2
<1>7. /\ FillInv(r) /\ PutSlot(m, r, n, s, NULL)
      /\ Taken(r.node[n]) = Taken(m.node[n]) \ {s}
      /\ m.node[n].numElements - 1 \in Nat
  BY <1>1, <1>6, ClearFill
<1>8. r \in Mem /\ Touch(m, r, n) /\ ClearEffect(m, r, n, s)
  BY <1>1, <1>2, <1>6, <1>7, ClearFields
<1>9. /\ \A k \in Lists : Own(r, k) = Own(m, k)
      /\ Elsewhere(m, r, l)
      /\ \A k \in Lists : ShapeInv(r, k)
  BY <1>1, <1>8, TouchKeeps
<1>10. r.heap = m.heap
  BY <1>8 DEF Touch
<1>11. HeldBy(r, r.heap) = HeldBy(m, m.heap) \ {e}
  BY <1>1, <1>2, <1>7, <1>10, PutSlotGone
<1>12. CountInv(r)
  <2> SUFFICES ASSUME NEW k \in Lists
               PROVE  r.list[k].numElements = Cardinality(HeldBy(r, Own(m, k)))
    BY <1>9 DEF CountInv
  <2>1. CASE k # l
    <3>1. n \notin Own(m, k) /\ Own(m, k) \in SUBSET Nodes
      BY <1>2, <2>1 DEF Own
    <3>2. HeldBy(r, Own(m, k)) = HeldBy(m, Own(m, k))
      BY <1>7, <3>1, PutSlotOther
    <3> QED BY <1>1, <1>8, <2>1, <3>2 DEF CountInv, Touch
  <2>2. CASE k = l
    <3>1. Own(m, l) \in SUBSET m.heap
      BY DEF Own
    <3>2. HeldBy(r, Own(m, l)) = HeldBy(m, Own(m, l)) \ {e}
      BY <1>1, <1>2, <1>7, <3>1, PutSlotGone
    <3>3. r.list[l].numElements = m.list[l].numElements - 1
      BY <1>8 DEF ClearEffect
    <3> QED BY <1>5, <1>6, <2>2, <3>2, <3>3
  <2> QED BY <2>1, <2>2
<1>13. StoredOnce(r)
  <2> SUFFICES ASSUME NEW n1 \in m.heap, NEW n2 \in m.heap,
                      NEW s1 \in Slots, NEW s2 \in Slots,
                      r.node[n1].slot[s1] = r.node[n2].slot[s2],
                      r.node[n1].slot[s1] # NULL
               PROVE  n1 = n2 /\ s1 = s2
    BY <1>10 DEF StoredOnce
  <2> QED BY <1>1, <1>2, <1>7 DEF StoredOnce, PutSlot
<1> QED BY <1>7, <1>8, <1>9, <1>11, <1>12, <1>13 DEF MemInv

(* What a deallocation on chunk n leaves as it is: the chunks that stay keep *)
(* their place, and only n and inactive chunks are touched.                 *)
FreeFrame(m, r, n) ==
  /\ r.heap \subseteq m.heap
  /\ \A z \in m.heap \ r.heap : ~m.node[z].active
  /\ \A z \in r.heap : /\ r.node[z].active = m.node[z].active
                       /\ r.node[z].index = m.node[z].index
                       /\ r.node[z].threadList = m.node[z].threadList
                       /\ r.node[z].firstKnownFree = m.node[z].firstKnownFree
  /\ \A z \in r.heap \ {n} : /\ r.node[z].slot = m.node[z].slot
                             /\ r.node[z].dirty = m.node[z].dirty
                             /\ r.node[z].numElements = m.node[z].numElements
  /\ r.node[n].dirty = TRUE
  /\ \A k \in Lists : r.list[k].tail = m.list[k].tail

(* _freeElementOnNode after the element was cleared in f. *)
LEMMA SheddingKeeps ==
  ASSUME NEW f, MemInv(f), NEW n \in f.heap, f.node[n].active,
         f.node[n].dirty = TRUE,
         NEW r,
         r = IF /\ f.node[n].numElements < Capacity \div 2
                /\ f.node[n].next # NULL
                /\ ~f.node[f.node[n].next].active
             THEN Cut(f, n) ELSE f
  PROVE  /\ MemInv(r) /\ Elsewhere(f, r, f.node[n].threadList)
         /\ FreeFrame(f, r, n) /\ n \in r.heap
         /\ r.node[n].slot = f.node[n].slot
         /\ HeldBy(r, r.heap) = HeldBy(f, f.heap)
<1>1. CASE r = f
  BY Zenon, <1>1 DEF FreeFrame, Elsewhere, SameList
<1>2. CASE r # f
  <2> DEFINE x == f.node[n].next
  <2>1. x # NULL /\ ~f.node[x].active /\ r = Cut(f, n)
    BY <1>2
  <2>2. /\ MemInv(r) /\ Elsewhere(f, r, f.node[n].threadList)
        /\ CutEffect(f, r, n, x)
        /\ HeldBy(r, r.heap) = HeldBy(f, f.heap)
    BY <2>1, CutKeeps
  <2>3. f.heap \subseteq Nodes /\ n # x
    BY Zenon, <2>1, MemTypes DEF MemInv
  <2>4. FreeFrame(f, r, n) /\ n \in r.heap /\ r.node[n].slot = f.node[n].slot
    BY <2>1, <2>2, <2>3 DEF CutEffect, FreeFrame
  <2> QED BY Zenon, <2>2, <2>4
<1> QED BY Zenon, <1>1, <1>2

(* _freeElementOnNode. *)
LEMMA FreeKeeps ==
  ASSUME NEW m, MemInv(m), NEW n \in m.heap, NEW s \in Slots, NEW e,
         m.node[n].slot[s] = e, e # NULL,
         NEW r, r = FreeElementOnNode(m, n, s)
  PROVE  /\ MemInv(r) /\ Elsewhere(m, r, m.node[n].threadList)
         /\ FreeFrame(m, r, n) /\ n \in r.heap
         /\ Taken(r.node[n]) = Taken(m.node[n]) \ {s} /\ PutAt(m, r, n, s, NULL)
         /\ HeldBy(r, r.heap) = HeldBy(m, m.heap) \ {e}
<1> DEFINE f == ClearSlot(m, n, s)
           l == m.node[n].threadList
<1>1. /\ MemInv(f) /\ Elsewhere(m, f, l)
      /\ Touch(m, f, n) /\ ClearEffect(m, f, n, s)
      /\ Taken(f.node[n]) = Taken(m.node[n]) \ {s}
      /\ HeldBy(f, f.heap) = HeldBy(m, m.heap) \ {e}
  <2>1. f = ClearSlot(m, n, s)
    OBVIOUS
  <2> HIDE DEF f
  <2> QED BY <2>1, ClearKeeps
<1>2. r = IF /\ f.node[n].numElements < Capacity \div 2
             /\ f.node[n].next # NULL
             /\ ~f.node[f.node[n].next].active
          THEN Cut(f, n) ELSE f
  BY DEF FreeElementOnNode, Cut
<1> HIDE DEF f
<1>3. /\ m.node[n].active /\ m.heap \subseteq Nodes /\ l \in Lists
      /\ n \in Own(m, l)
  <2>1. s \in Taken(m.node[n])
    BY DEF Taken
  <2>2. m.node[n].active
    BY <2>1 DEF MemInv, FillInv
  <2> QED BY <2>2, MemTypes DEF MemInv, Own
<1>4. n \in f.heap /\ f.node[n].active /\ f.node[n].dirty = TRUE
      /\ f.node[n].threadList = l
  BY <1>1, <1>3 DEF Touch, ClearEffect
<1>5. /\ MemInv(r) /\ Elsewhere(f, r, l)
      /\ FreeFrame(f, r, n) /\ n \in r.heap
      /\ r.node[n].slot = f.node[n].slot
      /\ HeldBy(r, r.heap) = HeldBy(f, f.heap)
  BY <1>1, <1>2, <1>4, SheddingKeeps
<1>6. Elsewhere(m, r, l)
  BY <1>1, <1>5 DEF Elsewhere, SameList
<1>7. Taken(r.node[n]) = Taken(m.node[n]) \ {s}
  BY <1>1, <1>5 DEF Taken
<1>8. FreeFrame(m, r, n)
  <2>1. /\ f.heap = m.heap /\ \A z \in m.heap \ {n} : f.node[z] = m.node[z]
        /\ f.node[n].active = m.node[n].active
        /\ f.node[n].index = m.node[n].index
        /\ f.node[n].threadList = m.node[n].threadList
        /\ f.node[n].firstKnownFree = m.node[n].firstKnownFree
    BY <1>1, <1>3 DEF Touch, ClearEffect
  <2>2. \A k \in Lists : f.list[k].tail = m.list[k].tail
    BY <1>1 DEF Touch
  <2> QED BY <1>5, <2>1, <2>2 DEF FreeFrame
<1>9. PutAt(m, r, n, s, NULL)
  BY <1>1, <1>3, <1>5 DEF ClearEffect, PutSlot, PutAt
<1> QED BY <1>1, <1>5, <1>6, <1>7, <1>8, <1>9

(* An element moves from slot k of chunk t to the free slot h of chunk c of   *)
(* the same list: the copy is made before the original is freed.            *)
MoveSlot(m, r, c, h, t, k) ==
  \A x \in r.heap : \A i \in Slots :
    r.node[x].slot[i] = IF x = t /\ i = k THEN NULL
                        ELSE IF x = c /\ i = h THEN m.node[t].slot[k]
                        ELSE m.node[x].slot[i]

(* Moving an element from one slot to another keeps the elements held.     *)
LEMMA MoveHeld ==
  ASSUME NEW m, NEW r, NEW c, NEW h \in Slots, NEW t, NEW k \in Slots,
         MoveSlot(m, r, c, h, t, k), m.node[c].slot[h] = NULL,
         m.node[t].slot[k] # NULL,
         NEW S \in SUBSET r.heap, c \in S <=> t \in S
  PROVE  HeldBy(r, S) = HeldBy(m, S)
<1>1. ASSUME NEW e \in HeldBy(r, S) PROVE e \in HeldBy(m, S)
  <2>1. PICK x \in S, i \in Slots : r.node[x].slot[i] = e /\ e # NULL
    BY HeldMember
  <2>2. m.node[x].slot[i] = e \/ (x = c /\ m.node[t].slot[k] = e)
    BY <2>1 DEF MoveSlot
  <2> QED BY <2>1, <2>2, HeldMember
<1>2. ASSUME NEW e \in HeldBy(m, S) PROVE e \in HeldBy(r, S)
  <2>1. PICK x \in S, i \in Slots : m.node[x].slot[i] = e /\ e # NULL
    BY HeldMember
  <2>2. CASE x = t /\ i = k
    <3>1. c \in S /\ ~(c = t /\ h = k)
      BY <2>1, <2>2
    <3>2. r.node[c].slot[h] = e
      BY <2>1, <2>2, <3>1 DEF MoveSlot
    <3> QED BY <2>1, <3>1, <3>2, HeldMember
  <2>3. CASE ~(x = t /\ i = k)
    <3>1. r.node[x].slot[i] = e
      BY Zenon, <2>1, <2>3 DEF MoveSlot
    <3> QED BY <2>1, <3>1, HeldMember
  <2> QED BY <2>2, <2>3
<1> QED BY <1>1, <1>2

(* What the compaction leaves as it is when it moves an element from t to c. *)
PullFrame(m, r, c, t) ==
  /\ r.heap \subseteq m.heap
  /\ \A z \in m.heap \ r.heap : ~m.node[z].active
  /\ \A z \in r.heap : /\ r.node[z].active = m.node[z].active
                       /\ r.node[z].index = m.node[z].index
                       /\ r.node[z].threadList = m.node[z].threadList
                       /\ r.node[z].firstKnownFree = m.node[z].firstKnownFree
  /\ \A z \in r.heap \ {c, t} : r.node[z].slot = m.node[z].slot
  /\ \A z \in r.heap \ {c, t} : /\ r.node[z].dirty = m.node[z].dirty
                                /\ r.node[z].numElements = m.node[z].numElements
  /\ r.node[t].dirty = TRUE
  /\ \A k \in Lists : r.list[k].tail = m.list[k].tail

(* One move of _cleanupNode, an allocation on c and a deletion on t, keeps *)
(* the memory and the elements.                                            *)
LEMMA PullKeeps ==
  ASSUME NEW m, MemInv(m), NEW c \in m.heap, NEW t \in m.heap,
         NEW h \in Slots, NEW k \in Slots,
         m.node[c].threadList = m.node[t].threadList,
         m.node[c].active, m.node[t].active,
         m.node[c].slot[h] = NULL, m.node[t].slot[k] # NULL,
         NEW r,
         r = FreeElementOnNode(
               AllocElementOnNode(m, c, h, m.node[t].slot[k]), t, k)
  PROVE  /\ MemInv(r) /\ Elsewhere(m, r, m.node[t].threadList)
         /\ PullFrame(m, r, c, t) /\ c \in r.heap /\ t \in r.heap
         /\ MoveSlot(m, r, c, h, t, k)
         /\ HeldBy(r, r.heap) = HeldBy(m, m.heap)
<1> DEFINE e == m.node[t].slot[k]
           a == AllocElementOnNode(m, c, h, e)
           f == ClearSlot(a, t, k)
           l == m.node[t].threadList
<1>1. /\ m \in Mem /\ FillInv(m) /\ CountInv(m) /\ StoredOnce(m)
      /\ \A j \in Lists : ShapeInv(m, j)
  BY DEF MemInv
<1>2. /\ c \in Nodes /\ t \in Nodes /\ m.heap \subseteq Nodes /\ l \in Lists
      /\ e \in Elems /\ e # NULL
  BY <1>1, MemTypes
<1>3. a \in Mem /\ Touch(m, a, c) /\ AllocEffect(m, a, c, h, e)
  BY <1>1, <1>2, AllocFields
<1>4. FillInv(a) /\ PutSlot(m, a, c, h, e)
  BY <1>1, <1>2, AllocFill
<1>5. /\ \A j \in Lists : Own(a, j) = Own(m, j)
      /\ Elsewhere(m, a, l)
      /\ \A j \in Lists : ShapeInv(a, j)
  BY <1>1, <1>3, TouchKeeps
<1> HIDE DEF a, e
<1>6. /\ t \in a.heap /\ a.heap = m.heap /\ a.node[t].slot[k] # NULL
      /\ a.node[t].threadList = l
      /\ a.list[l].numElements - 1 = m.list[l].numElements
      /\ a.list[l].numElements - 1 \in Nat
  <2>1. m.list[l].numElements \in Nat
    BY <1>1, <1>2, MemTypes
  <2>2. a.list[l].numElements = m.list[l].numElements + 1
    BY <1>3 DEF AllocEffect
  <2>3. a.node[t].slot[k] # NULL
    BY <1>2, <1>4 DEF PutSlot, e
  <2>4. a.heap = m.heap /\ a.node[t].threadList = l
    BY Zenon, <1>2, <1>3 DEF Touch
  <2> QED BY <2>1, <2>2, <2>3, <2>4
<1>7. /\ FillInv(f) /\ PutSlot(a, f, t, k, NULL)
      /\ a.node[t].numElements - 1 \in Nat
  BY <1>3, <1>4, <1>6, ClearFill
<1>8. f \in Mem /\ Touch(a, f, t) /\ ClearEffect(a, f, t, k)
  BY <1>2, <1>3, <1>6, <1>7, ClearFields
<1>9. /\ \A j \in Lists : Own(f, j) = Own(a, j)
      /\ Elsewhere(a, f, l)
      /\ \A j \in Lists : ShapeInv(f, j)
  BY <1>3, <1>5, <1>6, <1>8, TouchKeeps
<1> HIDE DEF f
<1>10. MoveSlot(m, f, c, h, t, k)
  <2>1. f.heap \subseteq Nodes
    BY <1>8, MemTypes
  <2> QED BY <1>4, <1>7, <2>1 DEF PutSlot, MoveSlot, e
<1>11. f.heap = m.heap /\ \A j \in Lists : Own(f, j) = Own(m, j)
  BY <1>5, <1>6, <1>8, <1>9 DEF Touch
<1>12. HeldBy(f, f.heap) = HeldBy(m, m.heap)
  BY <1>2, <1>10, <1>11, MoveHeld DEF e
<1>13. CountInv(f)
  <2> SUFFICES ASSUME NEW j \in Lists
               PROVE  f.list[j].numElements = Cardinality(HeldBy(f, Own(m, j)))
    BY <1>11 DEF CountInv
  <2>1. Own(m, j) \in SUBSET f.heap /\ (c \in Own(m, j) <=> t \in Own(m, j))
    BY <1>11 DEF Own
  <2>2. HeldBy(f, Own(m, j)) = HeldBy(m, Own(m, j))
    BY <1>2, <1>10, <2>1, MoveHeld DEF e
  <2>3. f.list[j].numElements = m.list[j].numElements
    <3>1. CASE j = l
      <4>1. f.list[l].numElements = a.list[l].numElements - 1
        BY <1>6, <1>8 DEF ClearEffect
      <4> QED BY <1>6, <3>1, <4>1
    <3>2. CASE j # l
      BY <1>3, <1>6, <1>8, <3>2 DEF Touch
    <3> QED BY <3>1, <3>2
  <2> QED BY <1>1, <2>2, <2>3 DEF CountInv
<1>14. StoredOnce(f)
  <2> SUFFICES ASSUME NEW n1 \in m.heap, NEW n2 \in m.heap,
                      NEW s1 \in Slots, NEW s2 \in Slots,
                      f.node[n1].slot[s1] = f.node[n2].slot[s2],
                      f.node[n1].slot[s1] # NULL
               PROVE  n1 = n2 /\ s1 = s2
    BY <1>11 DEF StoredOnce
  <2> QED BY <1>1, <1>10, <1>11 DEF StoredOnce, MoveSlot
<1>15. MemInv(f)
  BY <1>7, <1>8, <1>9, <1>13, <1>14 DEF MemInv
<1>16. /\ t \in f.heap /\ f.node[t].active /\ f.node[t].dirty = TRUE
       /\ f.node[t].threadList = l /\ c \in f.heap
  BY Zenon, <1>2, <1>3, <1>6, <1>8 DEF Touch, ClearEffect
<1>17. r = IF /\ f.node[t].numElements < Capacity \div 2
              /\ f.node[t].next # NULL
              /\ ~f.node[f.node[t].next].active
           THEN Cut(f, t) ELSE f
  BY Zenon DEF FreeElementOnNode, Cut, f, a, e
<1>18. /\ MemInv(r) /\ Elsewhere(f, r, l)
       /\ FreeFrame(f, r, t) /\ t \in r.heap
       /\ r.node[t].slot = f.node[t].slot
       /\ HeldBy(r, r.heap) = HeldBy(f, f.heap)
  BY <1>15, <1>16, <1>17, SheddingKeeps
<1>19. Elsewhere(m, r, l)
  BY <1>5, <1>9, <1>18, ElsewhereTransitive
<1>20. /\ \A z \in m.heap : /\ f.node[z].active = m.node[z].active
                            /\ f.node[z].index = m.node[z].index
                            /\ f.node[z].threadList = m.node[z].threadList
                            /\ f.node[z].firstKnownFree = m.node[z].firstKnownFree
       /\ \A z \in m.heap \ {c, t} : f.node[z] = m.node[z]
       /\ \A j \in Lists : f.list[j].tail = m.list[j].tail
  <2>1. \A z \in Nodes \ {c} : a.node[z] = m.node[z]
    BY <1>3 DEF Touch
  <2>2. \A z \in Nodes \ {t} : f.node[z] = a.node[z]
    BY <1>8 DEF Touch
  <2>3. /\ a.node[c].active = m.node[c].active
        /\ a.node[c].index = m.node[c].index
        /\ a.node[c].threadList = m.node[c].threadList
        /\ a.node[c].firstKnownFree = m.node[c].firstKnownFree
    BY <1>3 DEF Touch, AllocEffect
  <2>4. /\ f.node[t].active = a.node[t].active
        /\ f.node[t].index = a.node[t].index
        /\ f.node[t].threadList = a.node[t].threadList
        /\ f.node[t].firstKnownFree = a.node[t].firstKnownFree
    BY <1>8 DEF Touch, ClearEffect
  <2>5. \A j \in Lists : f.list[j].tail = m.list[j].tail
    <3>1. \A j \in Lists : a.list[j].tail = m.list[j].tail
      BY <1>3 DEF Touch
    <3>2. \A j \in Lists : f.list[j].tail = a.list[j].tail
      BY <1>8 DEF Touch
    <3> QED BY <3>1, <3>2
  <2> QED BY Zenon, <1>2, <2>1, <2>2, <2>3, <2>4, <2>5
<1>21. c \in r.heap
  BY Zenon, <1>16, <1>18, <1>20 DEF FreeFrame
<1>22. PullFrame(m, r, c, t)
  <2>1. /\ r.heap \subseteq m.heap /\ r.node[t].dirty = TRUE
        /\ \A z \in m.heap \ r.heap : ~m.node[z].active
    BY Zenon, <1>11, <1>18, <1>20 DEF FreeFrame
  <2>2. \A z \in r.heap : /\ r.node[z].active = m.node[z].active
                          /\ r.node[z].index = m.node[z].index
                          /\ r.node[z].threadList = m.node[z].threadList
                          /\ r.node[z].firstKnownFree = m.node[z].firstKnownFree
    <3>1. \A z \in r.heap : /\ r.node[z].active = f.node[z].active
                            /\ r.node[z].index = f.node[z].index
                            /\ r.node[z].threadList = f.node[z].threadList
                            /\ r.node[z].firstKnownFree = f.node[z].firstKnownFree
      BY Zenon, <1>18 DEF FreeFrame
    <3>2. \A z \in r.heap : /\ f.node[z].active = m.node[z].active
                            /\ f.node[z].index = m.node[z].index
                            /\ f.node[z].threadList = m.node[z].threadList
                            /\ f.node[z].firstKnownFree = m.node[z].firstKnownFree
      BY <1>20, <2>1
    <3> QED BY <3>1, <3>2
  <2>3. \A z \in r.heap \ {c, t} : /\ r.node[z].slot = m.node[z].slot
                                   /\ r.node[z].dirty = m.node[z].dirty
                                   /\ r.node[z].numElements = m.node[z].numElements
    <3>1. \A z \in r.heap \ {t} : /\ r.node[z].slot = f.node[z].slot
                                  /\ r.node[z].dirty = f.node[z].dirty
                                  /\ r.node[z].numElements = f.node[z].numElements
      BY Zenon, <1>18 DEF FreeFrame
    <3> QED BY <1>20, <2>1, <3>1
  <2>4. \A j \in Lists : r.list[j].tail = m.list[j].tail
    <3>1. \A j \in Lists : r.list[j].tail = f.list[j].tail
      BY Zenon, <1>18 DEF FreeFrame
    <3>2. \A j \in Lists : f.list[j].tail = m.list[j].tail
      BY Zenon, <1>20
    <3> QED BY Zenon, <3>1, <3>2
  <2> QED BY Zenon, <2>1, <2>2, <2>3, <2>4 DEF PullFrame
<1>23. MoveSlot(m, r, c, h, t, k)
  <2>1. r.heap \subseteq f.heap /\ \A z \in r.heap : r.node[z].slot = f.node[z].slot
    BY Zenon, <1>18 DEF FreeFrame
  <2> QED BY <1>10, <2>1 DEF MoveSlot
<1> QED BY <1>12, <1>18, <1>19, <1>21, <1>22, <1>23

-----------------------------------------------------------------------------
(* The last active chunk turns inactive, or the one behind it active.      *)

(* Chunk n and the header of list l change, but no element does. *)
Turn(m, r, l, n) ==
  /\ r.heap = m.heap
  /\ \A z \in Nodes \ {n} : r.node[z] = m.node[z]
  /\ \A k \in Lists \ {l} : r.list[k] = m.list[k]
  /\ r.node[n].slot = m.node[n].slot
  /\ r.node[n].numElements = m.node[n].numElements
  /\ r.node[n].next = m.node[n].next
  /\ r.node[n].prev = m.node[n].prev
  /\ r.node[n].threadList = m.node[n].threadList
  /\ r.list[l].head = m.list[l].head
  /\ r.list[l].numElements = m.list[l].numElements

(* Activating or deactivating an empty chunk changes no data.              *)
LEMMA TurnData ==
  ASSUME NEW m \in Mem, NEW r \in Mem, NEW n \in m.heap, NEW l \in Lists,
         m.node[n].threadList = l, Turn(m, r, l, n), FillInv(m),
         r.node[n].active \/ Taken(m.node[n]) = {}
  PROVE  /\ SameData(m, r) /\ FillInv(r) /\ Elsewhere(m, r, l)
         /\ \A k \in Lists : Own(r, k) = Own(m, k)
<1>1. m.heap \subseteq Nodes /\ n \in Nodes
  BY MemTypes
<1>2. \A z \in m.heap : /\ r.node[z].slot = m.node[z].slot
                        /\ r.node[z].numElements = m.node[z].numElements
                        /\ r.node[z].threadList = m.node[z].threadList
                        /\ Taken(r.node[z]) = Taken(m.node[z])
  BY <1>1 DEF Turn, Taken
<1>3. \A k \in Lists : r.list[k].numElements = m.list[k].numElements
  BY DEF Turn
<1>4. r.heap = m.heap
  BY DEF Turn
<1>5. SameData(m, r)
  BY <1>2, <1>3, <1>4 DEF SameData
<1>6. \A z \in m.heap \ {n} : r.node[z].active = m.node[z].active
  BY <1>1 DEF Turn
<1>7. FillInv(r)
  BY <1>2, <1>4, <1>6 DEF FillInv
<1>8. \A k \in Lists : Own(r, k) = Own(m, k)
  BY <1>2, <1>4 DEF Own
<1>9. Elsewhere(m, r, l)
  BY <1>1, <1>8 DEF Elsewhere, SameList, Turn, Own
<1> QED BY <1>5, <1>7, <1>8, <1>9

(* A round of _getLastElement that finds the tail t empty. *)
DropEffect(m, r, l, t) ==
  /\ Turn(m, r, l, t)
  /\ r.node[t].active = FALSE
  /\ r.node[t].index = m.node[t].index
  /\ r.node[t].dirty = m.node[t].dirty
  /\ r.node[t].firstKnownFree = m.node[t].firstKnownFree
  /\ r.list[l].numNodes = m.list[l].numNodes - 1
  /\ r.list[l].tail = IF m.node[t].prev = NULL THEN t ELSE m.node[t].prev

(* What one round of _getLastElement's loop writes.                        *)
LEMMA DropFields ==
  ASSUME NEW m \in Mem, NEW l \in Lists, NEW t \in Nodes,
         t = m.list[l].tail, m.list[l].numNodes - 1 \in Nat,
         NEW r, r = DropEmptyTail(m, l)
  PROVE  r \in Mem /\ DropEffect(m, r, l, t)
<1>1. m.list[l].numNodes > 0
  BY MemTypes
<1>2. r = [m EXCEPT !.node[t].active = FALSE,
                    !.list[l].numNodes = m.list[l].numNodes - 1,
                    !.list[l].tail = IF m.node[t].prev = NULL THEN t ELSE m.node[t].prev]
  <2>1. r = [m EXCEPT !.node[t].active = FALSE,
                !.list[l].numNodes = IF m.list[l].numNodes > 0 THEN m.list[l].numNodes - 1 ELSE m.list[l].numNodes,
                !.list[l].tail = IF m.node[t].prev = NULL
                                 THEN m.list[l].tail ELSE m.node[t].prev]
    BY DEF DropEmptyTail, Mem, ListRecord
  <2> QED BY Zenon, <1>1, <2>1
<1> DEFINE p == IF m.node[t].prev = NULL THEN t ELSE m.node[t].prev
           q == m.list[l].numNodes - 1
<1>3. p \in Ptr /\ q \in Nat
  BY MemTypes DEF Ptr
<1>4. r = [m EXCEPT !.node[t].active = FALSE, !.list[l].numNodes = q, !.list[l].tail = p]
  BY Zenon, <1>2
<1> HIDE DEF p, q
<1>5. Turn(m, r, l, t)
  BY <1>4 DEF Mem, NodeRecord, ListRecord, Turn
<1>6. /\ r.node[t].active = FALSE /\ r.node[t].index = m.node[t].index
      /\ r.node[t].dirty = m.node[t].dirty
      /\ r.node[t].firstKnownFree = m.node[t].firstKnownFree
      /\ r.list[l].numNodes = q /\ r.list[l].tail = p
  BY <1>4 DEF Mem, NodeRecord, ListRecord
<1>7. IsMem(r)
  <2>1. \A x \in Nodes : IsNode(r.node[x])
    <3>1. r.node[t] = [m.node[t] EXCEPT !.active = FALSE]
      <4>1. m.node = [x \in Nodes |-> m.node[x]]
        BY DEF Mem
      <4>2. r.node = [m.node EXCEPT ![t].active = FALSE]
        BY <1>4 DEF Mem
      <4> QED BY <4>1, <4>2
    <3>2. IsNode(r.node[t])
      BY <3>1, MemTypes DEF NodeRecord, IsNode
    <3>3. \A x \in Nodes \ {t} : r.node[x] = m.node[x]
      BY <1>5 DEF Turn
    <3> QED BY <3>2, <3>3, MemElim DEF IsMem
  <2>2. \A k \in Lists : IsList(r.list[k])
    BY <1>4 DEF Mem, ListRecord, IsList
  <2>3. /\ r = [heap |-> r.heap, node |-> r.node, list |-> r.list]
        /\ r.node = [x \in Nodes |-> r.node[x]]
        /\ r.list = [k \in Lists |-> r.list[k]]
    BY Zenon, <1>4 DEF Mem
  <2> QED BY <2>1, <2>2, <2>3 DEF IsMem
<1>8. NodeTypes(r.node[t])
  <2>1. NodeTypes(m.node[t])
    BY MemElim
  <2> QED BY Zenon, <1>5, <1>6, <2>1 DEF NodeTypes, Turn
<1>9. ListTypes(r.list[l])
  <2>1. ListTypes(m.list[l])
    BY MemElim
  <2> QED BY <1>3, <1>5, <1>6, <2>1 DEF ListTypes, Turn
<1>10. r \in Mem
  BY <1>5, <1>7, <1>8, <1>9, MemIntro, MemElim DEF Turn
<1> QED BY <1>5, <1>6, <1>10 DEF p, q, DropEffect

(* Deactivating the tail leaves a well shaped list.                        *)
LEMMA DropShape ==
  ASSUME NEW m \in Mem, NEW r \in Mem, NEW l \in Lists, NEW t \in Own(m, l),
         ShapeInv(m, l), t = m.list[l].tail, m.node[t].active,
         DropEffect(m, r, l, t), Own(r, l) = Own(m, l)
  PROVE  ShapeInv(r, l)
<1>0. /\ Turn(m, r, l, t)
      /\ r.node[t].active = FALSE /\ r.node[t].index = m.node[t].index
      /\ r.list[l].numNodes = m.list[l].numNodes - 1
      /\ r.list[l].tail = IF m.node[t].prev = NULL THEN t ELSE m.node[t].prev
  BY DEF DropEffect
<1>1. Own(m, l) \subseteq Nodes /\ NULL \notin Nodes
  BY MemTypes, ConstantsAssumption DEF Own
<1>2. \A z \in Own(m, l) : /\ r.node[z].next = m.node[z].next
                           /\ r.node[z].prev = m.node[z].prev
                           /\ r.node[z].index = m.node[z].index
                           /\ z # t => r.node[z].active = m.node[z].active
                           /\ m.node[z].index \in Nat
  BY Zenon, <1>0, <1>1, MemTypes DEF Turn
<1>3. ActiveNode(m, l, t)
  BY DEF ShapeInv, ActiveInv
<1>4. m.list[l].numNodes = m.node[t].index + 1 /\ t # NULL
  BY <1>1 DEF ShapeInv, EndsInv
<1>5. LinksInv(r, l)
  BY <1>2 DEF ShapeInv, LinksInv
<1>6. \A z \in Own(m, l) \ {t} : m.node[z].active =>
        /\ ActiveNode(m, l, z) /\ m.node[z].index < m.node[t].index
  <2> SUFFICES ASSUME NEW z \in Own(m, l) \ {t}, m.node[z].active
               PROVE  ActiveNode(m, l, z) /\ m.node[z].index < m.node[t].index
    OBVIOUS
  <2>1. ActiveNode(m, l, z)
    BY DEF ShapeInv, ActiveInv
  <2>2. m.node[z].index <= m.node[t].index
    BY <2>1 DEF ActiveNode
  <2>3. m.node[z].index # m.node[t].index
    BY DEF ShapeInv, IndexInv
  <2> QED BY <1>2, <2>1, <2>2, <2>3
<1>7. ActiveInv(r, l)
  <2> SUFFICES ASSUME NEW z \in Own(m, l) \ {t}, m.node[z].active
               PROVE  ActiveNode(r, l, z)
    BY <1>0, <1>2 DEF ActiveInv
  <2>1. ActiveNode(m, l, z) /\ m.node[z].index < m.node[t].index
    BY Zenon, <1>6
  <2> DEFINE p == m.node[t].prev
  <2>2. p # NULL
    <3>1. m.node[z].index \in Nat /\ m.node[t].index \in Nat
      BY <1>2
    <3>2. m.node[z].index < m.node[t].index
      BY <2>1
    <3>3. m.node[t].index # 0
      BY <3>1, <3>2
    <3> QED BY Zenon, <1>3, <3>3 DEF ActiveNode
  <2>3. /\ p \in Own(m, l) /\ m.node[p].active /\ m.node[p].next = t
        /\ m.node[t].index = m.node[p].index + 1 /\ p # t
    BY Zenon, <1>2, <1>3, <2>2 DEF ActiveNode
  <2>4. r.list[l].tail = p /\ r.node[p].active /\ r.list[l].head = m.list[l].head
    BY Zenon, <1>0, <1>2, <2>2, <2>3 DEF Turn
  <2>5. r.node[z].index <= r.node[p].index
    <3>1. /\ m.node[z].index \in Nat /\ m.node[p].index \in Nat
          /\ r.node[z].index = m.node[z].index /\ r.node[p].index = m.node[p].index
      BY Zenon, <1>2, <2>3
    <3>2. m.node[z].index < m.node[p].index + 1
      BY <2>1, <2>3
    <3> HIDE DEF p
    <3> QED BY <3>1, <3>2
  <2>6. m.node[z].prev # NULL => /\ m.node[z].prev \in Own(m, l) \ {t}
                                 /\ m.node[m.node[z].prev].active
                                 /\ m.node[m.node[z].prev].next = z
                                 /\ m.node[z].index = m.node[m.node[z].prev].index + 1
    BY <1>2, <2>1 DEF ActiveNode
  <2>7. z # p => m.node[z].next # NULL /\ m.node[m.node[z].next].active
                   /\ m.node[z].next \in Own(m, l) \ {t}
    BY <2>1 DEF ActiveNode, ShapeInv, LinksInv
  <2>8. z = p => ~r.node[r.node[z].next].active
    BY Zenon, <1>0, <1>2, <2>3
  <2>9. m.node[z].prev = NULL => m.list[l].head = z /\ m.node[z].index = 0
    BY <2>1 DEF ActiveNode
  <2>10. r.node[z].prev # NULL => /\ r.node[z].prev \in Own(r, l)
                                  /\ r.node[r.node[z].prev].active
                                  /\ r.node[r.node[z].prev].next = z
                                  /\ r.node[z].index = r.node[r.node[z].prev].index + 1
    BY <1>2, <2>6
  <2>11. z # p => r.node[z].next # NULL /\ r.node[r.node[z].next].active
    BY Zenon, <1>2, <2>7
  <2>12. r.node[z].prev = NULL => r.list[l].head = z /\ r.node[z].index = 0
    BY Zenon, <1>2, <2>4, <2>9
  <2> HIDE DEF p
  <2> QED BY <2>2, <2>4, <2>5, <2>8, <2>10, <2>11, <2>12 DEF ActiveNode
<1>8. IndexInv(r, l)
  BY <1>0, <1>2 DEF ShapeInv, IndexInv
<1>9. EndsInv(r, l)
  <2>1. CASE m.node[t].prev = NULL
    <3>1. m.list[l].head = t /\ m.node[t].index = 0
      BY <1>3, <2>1 DEF ActiveNode
    <3>2. /\ r.list[l].head = t /\ r.list[l].tail = t
          /\ r.node[t].prev = NULL /\ r.node[t].index = 0
      BY <1>0, <1>2, <2>1, <3>1 DEF Turn
    <3>3. r.list[l].numNodes = 0
      BY <1>0, <1>4, <3>1
    <3> QED BY Zenon, <1>0, <1>4, <3>2, <3>3 DEF EndsInv
  <2>2. CASE m.node[t].prev # NULL
    <3> DEFINE p == m.node[t].prev
    <3>1. /\ p \in Own(m, l) /\ m.node[p].active
          /\ m.node[t].index = m.node[p].index + 1 /\ p # t
      BY Zenon, <1>2, <1>3, <2>2 DEF ActiveNode
    <3>2. r.list[l].tail = p /\ r.node[p].active /\ r.list[l].head = m.list[l].head
      BY Zenon, <1>0, <1>2, <2>2, <3>1 DEF Turn
    <3>3. /\ m.list[l].head # NULL /\ m.list[l].head \in Own(m, l)
          /\ m.node[m.list[l].head].prev = NULL
      BY <1>4 DEF ShapeInv, EndsInv
    <3>4. r.list[l].numNodes = r.node[p].index + 1
      <4>1. m.node[p].index \in Nat /\ r.node[p].index = m.node[p].index
        BY Zenon, <1>2, <3>1
      <4>2. m.list[l].numNodes = (m.node[p].index + 1) + 1
        BY <1>4, <3>1
      <4>3. r.list[l].numNodes = m.list[l].numNodes - 1
        BY <1>0
      <4> HIDE DEF p
      <4> QED BY <4>1, <4>2, <4>3
    <3> HIDE DEF p
    <3> QED BY Zenon, <1>2, <2>2, <3>1, <3>2, <3>3, <3>4 DEF EndsInv, p
  <2> QED BY <2>1, <2>2
<1> QED BY <1>5, <1>7, <1>8, <1>9 DEF ShapeInv

(* Deactivating an empty tail keeps the memory and the elements.           *)
LEMMA DropKeeps ==
  ASSUME NEW m, MemInv(m), NEW l \in Lists, NEW t, t = m.list[l].tail,
         t # NULL, m.node[t].active, Taken(m.node[t]) = {},
         NEW r, r = DropEmptyTail(m, l)
  PROVE  /\ MemInv(r) /\ Elsewhere(m, r, l) /\ DropEffect(m, r, l, t)
         /\ HeldBy(r, r.heap) = HeldBy(m, m.heap)
<1>1. /\ m \in Mem /\ FillInv(m) /\ CountInv(m) /\ StoredOnce(m)
      /\ \A k \in Lists : ShapeInv(m, k)
  BY DEF MemInv
<1>2. t \in Own(m, l) /\ m.list[l].numNodes = m.node[t].index + 1
  BY <1>1 DEF ShapeInv, EndsInv
<1>3. t \in m.heap /\ t \in Nodes /\ m.node[t].threadList = l
  BY <1>1, <1>2, MemTypes DEF Own
<1>4. m.list[l].numNodes - 1 \in Nat
  <2>1. m.node[t].index \in Nat
    BY <1>1, <1>3, MemTypes
  <2> QED BY <1>2, <2>1
<1>5. r \in Mem /\ DropEffect(m, r, l, t)
  BY <1>1, <1>3, <1>4, DropFields
<1>6. Turn(m, r, l, t)
  BY <1>5 DEF DropEffect
<1>7. /\ SameData(m, r) /\ FillInv(r) /\ Elsewhere(m, r, l)
      /\ \A k \in Lists : Own(r, k) = Own(m, k)
  BY <1>1, <1>3, <1>5, <1>6, TurnData
<1>8. ShapeInv(r, l)
  BY <1>1, <1>2, <1>5, <1>7, DropShape
<1>9. \A k \in Lists : ShapeInv(r, k)
  BY <1>1, <1>7, <1>8, SameListKeeps DEF Elsewhere
<1>10. /\ CountInv(r) /\ StoredOnce(r)
       /\ HeldBy(r, r.heap) = HeldBy(m, m.heap)
  BY <1>1, <1>5, <1>7, SameDataKeeps
<1> QED BY <1>5, <1>7, <1>9, <1>10 DEF MemInv

(* The chunk to be woken next: the tail itself if it is not active, else the *)
(* chunk behind it.                                                         *)
NextToWake(m, l) ==
  LET t == m.list[l].tail
  IN  IF m.node[t].active THEN m.node[t].next ELSE t

(* It becomes the last active chunk. *)
WakeEffect(m, r, l, n) ==
  /\ Turn(m, r, l, n)
  /\ r.node[n].active = TRUE
  /\ r.node[n].index = IF m.node[m.list[l].tail].active
                       THEN m.node[m.list[l].tail].index + 1 ELSE 0
  /\ r.list[l].tail = n
  /\ r.list[l].numNodes = r.node[n].index + 1

(* Reactivating the chunk next in line leaves a well shaped list.          *)
LEMMA WakeShape ==
  ASSUME NEW m \in Mem, NEW r \in Mem, NEW l \in Lists, NEW n \in Own(m, l),
         ShapeInv(m, l), m.list[l].tail # NULL, ~m.node[n].active,
         n = NextToWake(m, l), WakeEffect(m, r, l, n), Own(r, l) = Own(m, l)
  PROVE  ShapeInv(r, l)
<1> DEFINE t == m.list[l].tail
<1>0. /\ Turn(m, r, l, n) /\ r.node[n].active = TRUE
      /\ r.list[l].tail = n /\ r.list[l].head = m.list[l].head
      /\ r.list[l].numNodes = r.node[n].index + 1
      /\ n # NULL /\ n \in Nodes /\ Own(m, l) \subseteq Nodes
  <2>1. Own(m, l) \subseteq Nodes /\ NULL \notin Nodes
    BY MemTypes, ConstantsAssumption DEF Own
  <2> QED BY <2>1 DEF WakeEffect, Turn
<1>1. \A z \in Own(m, l) : /\ r.node[z].next = m.node[z].next
                           /\ r.node[z].prev = m.node[z].prev
                           /\ z # n => /\ r.node[z].index = m.node[z].index
                                       /\ r.node[z].active = m.node[z].active
                           /\ m.node[z].index \in Nat
  BY <1>0, MemTypes DEF Turn
<1>2. t \in Own(m, l)
  BY DEF ShapeInv, EndsInv
<1>3. LinksInv(r, l)
  BY <1>1 DEF ShapeInv, LinksInv
<1>4. ASSUME NEW z \in Own(m, l), m.node[z].prev = n PROVE ~m.node[z].active
  BY <1>0, <1>4 DEF ShapeInv, ActiveInv, ActiveNode
<1>5. m.node[n].next # NULL => /\ m.node[n].next \in Own(m, l)
                               /\ m.node[m.node[n].next].prev = n
                               /\ m.node[n].next # n => ~r.node[m.node[n].next].active
  BY <1>1, <1>4 DEF ShapeInv, LinksInv
<1>6. CASE m.node[t].active
  <2>1. /\ n = m.node[t].next /\ n # t
        /\ r.node[n].index = m.node[t].index + 1
    BY Zenon, <1>6 DEF NextToWake, WakeEffect
  <2>2. m.node[n].prev = t
    BY Zenon, <1>0, <1>2, <2>1 DEF ShapeInv, LinksInv
  <2>3. m.node[n].next # n
    BY Zenon, <1>0, <1>5, <2>1, <2>2
  <2>4. ActiveNode(m, l, t)
    BY <1>2, <1>6 DEF ShapeInv, ActiveInv
  <2>5. r.node[t].active /\ r.node[t].index = m.node[t].index /\ r.node[t].next = n
    BY Zenon, <1>1, <1>2, <1>6, <2>1
  <2>6. ActiveNode(r, l, n)
    <3>1. r.node[n].prev = t /\ r.node[n].next = m.node[n].next /\ t # NULL
      BY <1>1, <2>2
    <3>2. r.node[n].next # NULL => ~r.node[r.node[n].next].active
      BY <1>5, <2>3, <3>1
    <3>3. r.node[n].index <= r.node[n].index
      <4>1. m.node[t].index \in Nat
        BY <1>1, <1>2
      <4> HIDE DEF t
      <4> QED BY <2>1, <4>1
    <3> HIDE DEF t
    <3> QED BY <1>0, <1>2, <2>1, <2>5, <3>1, <3>2, <3>3 DEF ActiveNode
  <2>7. ASSUME NEW z \in Own(m, l), z # n, m.node[z].active
        PROVE  ActiveNode(r, l, z)
    <3>1. ActiveNode(m, l, z)
      BY <2>7 DEF ShapeInv, ActiveInv
    <3>2. r.node[z].prev = NULL => r.list[l].head = z /\ r.node[z].index = 0
      BY <1>0, <1>1, <2>7, <3>1 DEF ActiveNode
    <3>3. r.node[z].prev # NULL => /\ r.node[z].prev \in Own(r, l)
                                   /\ r.node[r.node[z].prev].active
                                   /\ r.node[r.node[z].prev].next = z
                                   /\ r.node[z].index = r.node[r.node[z].prev].index + 1
      <4>1. m.node[z].prev # NULL => /\ m.node[z].prev \in Own(m, l)
                                     /\ m.node[m.node[z].prev].active
                                     /\ m.node[m.node[z].prev].next = z
                                     /\ m.node[z].index = m.node[m.node[z].prev].index + 1
        BY <3>1 DEF ActiveNode
      <4> QED BY <1>1, <2>7, <4>1
    <3>4. r.node[z].next # NULL /\ r.node[r.node[z].next].active
      <4>1. CASE z = t
        BY <1>0, <2>5, <4>1
      <4>2. CASE z # t
        <5>1. m.node[z].next # NULL /\ m.node[m.node[z].next].active
          BY <3>1, <4>2 DEF ActiveNode
        <5>2. m.node[z].next \in Own(m, l)
          BY <5>1 DEF ShapeInv, LinksInv
        <5> QED BY <1>1, <2>7, <5>1, <5>2
      <4> QED BY <4>1, <4>2
    <3>5. r.node[z].index <= r.node[n].index
      <4>1. m.node[z].index <= m.node[t].index
        BY <3>1 DEF ActiveNode
      <4>2. m.node[z].index \in Nat /\ m.node[t].index \in Nat
        BY <1>1, <1>2
      <4>3. r.node[z].index = m.node[z].index
        BY <1>1, <2>7
      <4> HIDE DEF t
      <4> QED BY <2>1, <4>1, <4>2, <4>3
    <3> QED BY <1>0, <2>7, <3>2, <3>3, <3>4, <3>5 DEF ActiveNode
  <2>8. ActiveInv(r, l)
    BY <1>1, <2>6, <2>7 DEF ActiveInv
  <2>9. ASSUME NEW z \in Own(m, l), z # n, m.node[z].active
        PROVE  r.node[z].index # r.node[n].index
    <3>1. m.node[z].index <= m.node[t].index
      BY <2>9 DEF ShapeInv, ActiveInv, ActiveNode
    <3>2. m.node[z].index \in Nat /\ m.node[t].index \in Nat
      BY <1>1, <1>2
    <3>3. r.node[z].index = m.node[z].index
      BY <1>1, <2>9
    <3> HIDE DEF t
    <3> QED BY <2>1, <3>1, <3>2, <3>3
  <2>10. IndexInv(r, l)
    <3> SUFFICES ASSUME NEW n1 \in Own(m, l), NEW n2 \in Own(m, l),
                        r.node[n1].active, r.node[n2].active,
                        r.node[n1].index = r.node[n2].index
                 PROVE  n1 = n2
      BY DEF IndexInv
    <3> QED BY <1>1, <2>9 DEF ShapeInv, IndexInv
  <2>11. EndsInv(r, l)
    <3>1. /\ m.list[l].head # NULL /\ m.list[l].head \in Own(m, l)
          /\ m.node[m.list[l].head].prev = NULL
      BY DEF ShapeInv, EndsInv
    <3> QED BY <1>0, <1>1, <3>1 DEF EndsInv
  <2> QED BY <1>3, <2>8, <2>10, <2>11 DEF ShapeInv
<1>7. CASE ~m.node[t].active
  <2>1. n = t /\ r.node[n].index = 0
    BY <1>7 DEF NextToWake, WakeEffect
  <2>2. m.list[l].head = n /\ m.node[n].prev = NULL
    BY <1>0, <1>7, <2>1 DEF ShapeInv, EndsInv
  <2>3. \A z \in Own(m, l) : ~m.node[z].active
    BY <1>7 DEF ShapeInv, ActiveInv, ActiveNode
  <2>4. m.node[n].next # n
    BY Zenon, <1>0, <1>5, <2>2
  <2>5. ActiveNode(r, l, n)
    <3>1. r.node[n].prev = NULL /\ r.node[n].next = m.node[n].next
      BY <1>1, <2>2
    <3>2. r.node[n].next # NULL => ~r.node[r.node[n].next].active
      BY <1>5, <2>4, <3>1
    <3>3. r.node[n].index <= r.node[n].index
      BY <2>1
    <3> QED BY Zenon, <1>0, <2>1, <2>2, <3>1, <3>2, <3>3 DEF ActiveNode
  <2>6. ActiveInv(r, l) /\ IndexInv(r, l)
    BY <1>1, <2>3, <2>5 DEF ActiveInv, IndexInv
  <2>7. EndsInv(r, l)
    BY <1>0, <1>1, <2>1, <2>2 DEF EndsInv
  <2> QED BY <1>3, <2>6, <2>7 DEF ShapeInv
<1> QED BY <1>6, <1>7

(* Reactivating the chunk next in line keeps the memory and the elements.  *)
LEMMA WakeKeeps ==
  ASSUME NEW m, MemInv(m), NEW l \in Lists, NEW r \in Mem, NEW n \in Nodes,
         m.list[l].tail # NULL, ~m.node[n].active, n = NextToWake(m, l),
         WakeEffect(m, r, l, n)
  PROVE  /\ MemInv(r) /\ Elsewhere(m, r, l) /\ n \in Own(m, l) /\ n \in Own(r, l)
         /\ HeldBy(r, r.heap) = HeldBy(m, m.heap)
         /\ Taken(m.node[n]) = {}
<1>1. /\ m \in Mem /\ FillInv(m) /\ CountInv(m) /\ StoredOnce(m)
      /\ \A k \in Lists : ShapeInv(m, k)
  BY DEF MemInv
<1>2. n \in Own(m, l)
  <2>1. m.list[l].tail \in Own(m, l) /\ n # NULL
    BY <1>1, ConstantsAssumption DEF ShapeInv, EndsInv
  <2> QED BY Zenon, <1>1, <2>1 DEF NextToWake, ShapeInv, LinksInv
<1>3. n \in m.heap /\ m.node[n].threadList = l
  BY <1>2 DEF Own
<1>4. Turn(m, r, l, n) /\ r.node[n].active
  BY DEF WakeEffect
<1>5. /\ SameData(m, r) /\ FillInv(r) /\ Elsewhere(m, r, l)
      /\ \A k \in Lists : Own(r, k) = Own(m, k)
  BY <1>1, <1>3, <1>4, TurnData
<1>6. ShapeInv(r, l)
  BY <1>1, <1>2, <1>5, WakeShape
<1>7. \A k \in Lists : ShapeInv(r, k)
  BY <1>1, <1>5, <1>6, SameListKeeps DEF Elsewhere
<1>8. /\ CountInv(r) /\ StoredOnce(r)
      /\ HeldBy(r, r.heap) = HeldBy(m, m.heap)
  BY <1>1, <1>5, SameDataKeeps
<1>9. Taken(m.node[n]) = {}
  BY <1>1, <1>3 DEF FillInv
<1> QED BY <1>2, <1>5, <1>7, <1>8, <1>9 DEF MemInv

-----------------------------------------------------------------------------
(* _appendPumaNode for a list with no chunk or a full tail.                *)

(* A new block n is linked behind the tail. *)
FreshEffect(m, r, l, n) ==
  LET t == m.list[l].tail
  IN  /\ r.heap = m.heap \cup {n}
      /\ \A z \in Nodes \ {n, t} : r.node[z] = m.node[z]
      /\ t # NULL => r.node[t] = [m.node[t] EXCEPT !.next = n]
      /\ r.node[n] = NewPumaNode(m, l)
      /\ \A k \in Lists \ {l} : r.list[k] = m.list[k]
      /\ r.list[l].tail = n
      /\ r.list[l].head = IF m.list[l].head = NULL THEN n ELSE m.list[l].head
      /\ r.list[l].numElements = m.list[l].numElements
      /\ r.list[l].numNodes = r.node[n].index + 1

(* What _appendPumaNode writes when it links a new block.                  *)
LEMMA FreshFields ==
  ASSUME NEW m \in Mem, NEW l \in Lists, NEW n \in Nodes, m.list[l].tail # n,
         NEW k, k = LinkNewNode(m, l, n),
         NEW r, r = [k EXCEPT !.list[l].numNodes = k.node[k.list[l].tail].index + 1]
  PROVE  r \in Mem /\ FreshEffect(m, r, l, n)
<1> DEFINE H == m.heap
           N == m.node
           L == m.list
           t == m.list[l].tail
           new == NewPumaNode(m, l)
           fresh == [m EXCEPT !.heap = @ \cup {n}, !.node[n] = new,
                  !.list[l].tail = n,
                  !.list[l].head = IF @ = NULL THEN n ELSE @]
<1>1. /\ m = [heap |-> H, node |-> N, list |-> L]
      /\ H \in SUBSET Nodes /\ N \in [Nodes -> NodeRecord]
      /\ L \in [Lists -> ListRecord]
  BY DEF Mem
<1>2. /\ t \in Ptr /\ NULL \notin Nodes /\ (t # NULL => t \in Nodes) /\ t # n
      /\ L[l].tail = t
  BY MemTypes, ConstantsAssumption DEF Ptr
<1>3. k = IF t = NULL THEN fresh ELSE [fresh EXCEPT !.node[t].next = n]
  BY DEF LinkNewNode
<1>4. new \in NodeRecord /\ new.index \in Nat
  <2>1. BlankNode \in NodeRecord
    BY BlankTypes, NodeIntro
  <2>2. (IF t = NULL THEN 0 ELSE m.node[t].index + 1) \in Nat
    BY <1>2, MemTypes
  <2>3. new \in NodeRecord
    BY <1>2, <2>1, <2>2 DEF NodeRecord, NewPumaNode
  <2> QED BY <2>3 DEF NodeRecord
<1> DEFINE L1 == [L EXCEPT ![l].tail = n, ![l].head = IF @ = NULL THEN n ELSE @]
           N1 == [N EXCEPT ![n] = new]
           N2 == IF t = NULL THEN N1 ELSE [N1 EXCEPT ![t].next = n]
           L2 == [L1 EXCEPT ![l].numNodes = new.index + 1]
<1> HIDE DEF H, N, L, t, new
<1>5. fresh = [m EXCEPT !.heap = @ \cup {n}, !.node[n] = new,
                  !.list[l].tail = n,
                  !.list[l].head = IF @ = NULL THEN n ELSE @]
  OBVIOUS
<1> HIDE DEF fresh
<1>6. fresh = [heap |-> H \cup {n}, node |-> N1, list |-> L1]
  <2>1. m = [heap |-> H, node |-> N, list |-> L]
    BY <1>1
  <2> QED BY <1>5, <2>1
<1>7. N1 \in [Nodes -> NodeRecord] /\ N1[n] = new
      /\ \A z \in Nodes \ {n} : N1[z] = N[z]
  BY <1>1, <1>4
<1>8. /\ L1 \in [Lists -> ListRecord] /\ L1[l].tail = n
      /\ L1[l].head = IF L[l].head = NULL THEN n ELSE L[l].head
      /\ L1[l].numElements = L[l].numElements
      /\ \A j \in Lists \ {l} : L1[j] = L[j]
  BY <1>1 DEF ListRecord, Ptr
<1> HIDE DEF N1, L1
<1>9. k = [heap |-> H \cup {n}, node |-> N2, list |-> L1]
  <2>1. CASE t = NULL
    BY <1>3, <1>6, <2>1
  <2>2. CASE t # NULL
    <3>1. k = [fresh EXCEPT !.node[t].next = n]
      BY <1>3, <2>2
    <3> QED BY <1>6, <2>2, <3>1
  <2> QED BY <2>1, <2>2
<1>10. /\ N2 \in [Nodes -> NodeRecord] /\ N2[n] = new
       /\ \A z \in Nodes \ {n, t} : N2[z] = N[z]
       /\ t # NULL => N2[t] = [N[t] EXCEPT !.next = n]
  <2>1. CASE t = NULL
    BY <1>7, <2>1
  <2>2. CASE t # NULL
    <3>1. N1[t] = N[t] /\ N1[t] \in NodeRecord /\ t \in Nodes
      BY <1>2, <1>7, <2>2
    <3>2. [N1[t] EXCEPT !.next = n] \in NodeRecord
      BY <3>1 DEF NodeRecord, Ptr
    <3> QED BY <1>2, <1>7, <2>2, <3>1, <3>2
  <2> QED BY <2>1, <2>2
<1> HIDE DEF N2
<1>11. k.list[l].tail = n /\ k.node[n].index = new.index
  BY <1>8, <1>9, <1>10
<1>12. r = [heap |-> H \cup {n}, node |-> N2, list |-> L2]
  <2>1. r = [k EXCEPT !.list[l].numNodes = new.index + 1]
    BY <1>11
  <2> QED BY <1>9, <2>1
<1>13. /\ L2 \in [Lists -> ListRecord] /\ L2[l].tail = n
       /\ L2[l].head = L1[l].head /\ L2[l].numElements = L1[l].numElements
       /\ L2[l].numNodes = new.index + 1
       /\ \A j \in Lists \ {l} : L2[j] = L1[j]
  BY <1>4, <1>8 DEF ListRecord
<1> HIDE DEF L2
<1>14. r \in Mem
  <2>1. H \cup {n} \in SUBSET Nodes
    BY <1>1
  <2>2. r.heap = H \cup {n} /\ r.node = N2 /\ r.list = L2
    BY <1>12
  <2>3. IsRecord(r)
    BY <1>12, <2>2 DEF IsRecord
  <2> QED BY <1>10, <1>13, <2>1, <2>2, <2>3, MemRecord
<1>15. /\ r.heap = m.heap \cup {n} /\ r.node = N2 /\ r.list = L2
       /\ m.node = N /\ m.list = L
  BY <1>12 DEF H, N, L
<1>16. FreshEffect(m, r, l, n)
  <2>1. /\ \A z \in Nodes \ {n, t} : r.node[z] = m.node[z]
        /\ t # NULL => r.node[t] = [m.node[t] EXCEPT !.next = n]
        /\ r.node[n] = new
    BY Zenon, <1>10, <1>15
  <2>2. /\ \A j \in Lists \ {l} : r.list[j] = m.list[j]
        /\ r.list[l].tail = n
        /\ r.list[l].head = IF m.list[l].head = NULL THEN n ELSE m.list[l].head
        /\ r.list[l].numElements = m.list[l].numElements
        /\ r.list[l].numNodes = r.node[n].index + 1
    BY <1>8, <1>13, <1>15, <2>1
  <2> QED BY <1>15, <2>1, <2>2 DEF FreshEffect, t, new
<1> QED BY <1>14, <1>16

(* The fields of the new chunk. *)
NewFields(m, t, l, x) ==
  /\ Taken(x) = {} /\ x.numElements = 0 /\ x.firstKnownFree = 0
  /\ x.dirty = FALSE /\ x.active = TRUE /\ x.threadList = l
  /\ x.next = NULL /\ x.prev = t
  /\ x.index = IF t = NULL THEN 0 ELSE m.node[t].index + 1

(* The fields of a new chunk.                                              *)
LEMMA NewNodeFields ==
  ASSUME NEW m, NEW l, NEW x, x = NewPumaNode(m, l)
  PROVE  NewFields(m, m.list[l].tail, l, x)
<1>1. x.slot = [s \in Slots |-> NULL]
  BY DEF NewPumaNode, BlankNode
<1>2. Taken(x) = {}
  BY <1>1 DEF Taken
<1>3. /\ x.numElements = 0 /\ x.firstKnownFree = 0
      /\ x.dirty = FALSE /\ x.active = TRUE /\ x.threadList = l
      /\ x.next = NULL /\ x.prev = m.list[l].tail
      /\ x.index = IF m.list[l].tail = NULL THEN 0
                   ELSE m.node[m.list[l].tail].index + 1
  BY DEF NewPumaNode, BlankNode
<1> QED BY <1>2, <1>3 DEF NewFields

(* What an append does not change in the chunks there were. *)
GrowFrame(m, r) ==
  /\ m.heap \subseteq r.heap
  /\ \A z \in m.heap : /\ r.node[z].slot = m.node[z].slot
                       /\ r.node[z].numElements = m.node[z].numElements
                       /\ r.node[z].firstKnownFree = m.node[z].firstKnownFree
                       /\ r.node[z].dirty = m.node[z].dirty
                       /\ r.node[z].threadList = m.node[z].threadList
                       /\ m.node[z].active => /\ r.node[z].active
                                              /\ r.node[z].index = m.node[z].index

(* Linking a new block behind the tail leaves a well shaped list.          *)
LEMMA FreshShape ==
  ASSUME NEW m \in Mem, NEW r \in Mem, NEW l \in Lists,
         NEW n \in Nodes \ m.heap, ShapeInv(m, l), NEW t, t = m.list[l].tail,
         t # NULL => m.node[t].active /\ m.node[t].next = NULL,
         FreshEffect(m, r, l, n)
  PROVE  /\ ShapeInv(r, l) /\ Elsewhere(m, r, l)
         /\ GrowFrame(m, r) /\ SameData(m, r)
         /\ n \in Own(r, l) /\ r.node[n].prev = t
<1>1. /\ r.heap = m.heap \cup {n}
      /\ \A z \in Nodes \ {n, t} : r.node[z] = m.node[z]
      /\ t # NULL => r.node[t] = [m.node[t] EXCEPT !.next = n]
      /\ \A k \in Lists \ {l} : r.list[k] = m.list[k]
      /\ r.list[l].tail = n
      /\ r.list[l].head = IF m.list[l].head = NULL THEN n ELSE m.list[l].head
      /\ r.list[l].numElements = m.list[l].numElements
      /\ r.list[l].numNodes = r.node[n].index + 1
      /\ r.node[n] = NewPumaNode(m, l)
  BY DEF FreshEffect
<1>2. /\ Taken(r.node[n]) = {} /\ r.node[n].numElements = 0
      /\ r.node[n].active = TRUE /\ r.node[n].threadList = l
      /\ r.node[n].next = NULL /\ r.node[n].prev = t
      /\ r.node[n].index = IF t = NULL THEN 0 ELSE m.node[t].index + 1
  <2>1. r.node[n] = NewPumaNode(m, l)
    BY <1>1
  <2>2. NewFields(m, t, l, r.node[n])
    BY <2>1, NewNodeFields
  <2> QED BY <2>2 DEF NewFields
<1>3. /\ t # NULL => t \in Own(m, l) /\ t \in m.heap
      /\ m.heap \subseteq Nodes /\ NULL \notin Nodes
      /\ Own(m, l) \subseteq m.heap
  BY MemTypes, ConstantsAssumption DEF ShapeInv, EndsInv, Own
<1>4. \A z \in m.heap : /\ r.node[z].slot = m.node[z].slot
                        /\ r.node[z].numElements = m.node[z].numElements
                        /\ r.node[z].firstKnownFree = m.node[z].firstKnownFree
                        /\ r.node[z].dirty = m.node[z].dirty
                        /\ r.node[z].threadList = m.node[z].threadList
                        /\ r.node[z].active = m.node[z].active
                        /\ r.node[z].index = m.node[z].index
                        /\ r.node[z].prev = m.node[z].prev
                        /\ r.node[z].next = IF z = t THEN n ELSE m.node[z].next
  <2> TAKE z \in m.heap
  <2>1. CASE z = t
    <3>1. t # NULL /\ m.node[t] \in NodeRecord
      BY <1>3, <2>1, MemTypes
    <3> QED BY <1>1, <2>1, <3>1 DEF NodeRecord
  <2>2. CASE z # t
    BY <1>1, <1>3, <2>2
  <2> QED BY <2>1, <2>2
<1>5. GrowFrame(m, r)
  BY <1>1, <1>4 DEF GrowFrame
<1>6. \A k \in Lists : r.list[k].numElements = m.list[k].numElements
  BY Zenon, <1>1
<1>7. SameData(m, r)
  BY <1>1, <1>2, <1>4, <1>6 DEF SameData
<1>8. Own(r, l) = Own(m, l) \cup {n} /\ n \notin Own(m, l)
  BY <1>1, <1>2, <1>4 DEF Own
<1>9. Elsewhere(m, r, l)
  <2> SUFFICES ASSUME NEW k \in Lists \ {l} PROVE SameList(m, r, k)
    BY DEF Elsewhere
  <2>1. Own(r, k) = Own(m, k)
    BY <1>1, <1>2, <1>4 DEF Own
  <2>2. ASSUME NEW z \in Own(m, k) PROVE r.node[z] = m.node[z]
    <3>1. z \in m.heap /\ m.node[z].threadList = k
      BY DEF Own
    <3>2. z # t
      BY <1>3, <3>1 DEF Own
    <3> QED BY <1>1, <1>3, <3>1, <3>2
  <2> QED BY <1>1, <2>1, <2>2 DEF SameList
<1>10. LinksInv(r, l)
  <2> SUFFICES ASSUME NEW z \in Own(r, l), r.node[z].next # NULL
               PROVE  r.node[z].next \in Own(r, l) /\ r.node[r.node[z].next].prev = z
    BY DEF LinksInv
  <2>1. z \in Own(m, l)
    BY <1>2, <1>8
  <2>2. CASE z = t
    BY <1>2, <1>3, <1>4, <1>8, <2>1, <2>2
  <2>3. CASE z # t
    <3>1. r.node[z].next = m.node[z].next
      BY <1>3, <1>4, <2>1, <2>3
    <3>2. m.node[z].next \in Own(m, l) /\ m.node[m.node[z].next].prev = z
      BY <2>1, <3>1 DEF ShapeInv, LinksInv
    <3> QED BY <1>3, <1>4, <1>8, <3>1, <3>2
  <2> QED BY <2>2, <2>3
<1>11. \A z \in Own(m, l) : m.node[z].active =>
         t # NULL /\ m.node[z].index <= m.node[t].index
                  /\ m.node[z].index \in Nat /\ m.node[t].index \in Nat
  <2> SUFFICES ASSUME NEW z \in Own(m, l), m.node[z].active
               PROVE  t # NULL /\ m.node[z].index <= m.node[t].index
                        /\ m.node[z].index \in Nat /\ m.node[t].index \in Nat
    OBVIOUS
  <2>1. ActiveNode(m, l, z)
    BY DEF ShapeInv, ActiveInv
  <2>2. t # NULL /\ m.node[z].index <= m.node[t].index
    BY <2>1 DEF ActiveNode
  <2> QED BY <1>3, <2>2, MemTypes
<1>12. t # NULL => r.node[n].index \in Nat /\ r.node[n].index = m.node[t].index + 1
  BY <1>2, <1>3, MemTypes
<1>13. ActiveNode(r, l, n)
  <2>1. t = NULL => m.list[l].head = NULL
    BY DEF ShapeInv, EndsInv
  <2>2. t # NULL => /\ t \in Own(r, l) /\ r.node[t].active
                    /\ r.node[t].next = n /\ r.node[n].index = r.node[t].index + 1
    BY <1>2, <1>3, <1>4, <1>8
  <2>3. r.node[n].index <= r.node[n].index
    BY <1>2, <1>12
  <2>4. n # NULL
    BY <1>3
  <2> QED BY <1>1, <1>2, <2>1, <2>2, <2>3, <2>4 DEF ActiveNode
<1>14. ASSUME NEW z \in Own(m, l), m.node[z].active PROVE ActiveNode(r, l, z)
  <2>1. ActiveNode(m, l, z) /\ z \in m.heap /\ z # n
    BY <1>3, <1>14 DEF ShapeInv, ActiveInv
  <2>2. r.node[z].prev = NULL => r.list[l].head = z /\ r.node[z].index = 0
    BY <1>1, <1>3, <1>4, <2>1 DEF ActiveNode
  <2>3. r.node[z].prev # NULL => /\ r.node[z].prev \in Own(r, l)
                                 /\ r.node[r.node[z].prev].active
                                 /\ r.node[r.node[z].prev].next = z
                                 /\ r.node[z].index = r.node[r.node[z].prev].index + 1
    <3>1. m.node[z].prev # NULL => /\ m.node[z].prev \in Own(m, l)
                                   /\ m.node[m.node[z].prev].active
                                   /\ m.node[m.node[z].prev].next = z
                                   /\ m.node[z].index = m.node[m.node[z].prev].index + 1
      BY <2>1 DEF ActiveNode
    <3>2. m.node[z].prev # NULL => m.node[z].prev # t
      BY <1>3, <2>1, <3>1
    <3> QED BY <1>3, <1>4, <1>8, <2>1, <3>1, <3>2
  <2>4. r.node[z].next # NULL /\ r.node[r.node[z].next].active
    <3>1. CASE z = t
      BY <1>2, <1>3, <1>4, <2>1, <3>1
    <3>2. CASE z # t
      <4>1. m.node[z].next # NULL /\ m.node[m.node[z].next].active
        BY <2>1, <3>2 DEF ActiveNode
      <4>2. m.node[z].next \in Own(m, l)
        BY <4>1 DEF ShapeInv, LinksInv
      <4> QED BY <1>3, <1>4, <2>1, <3>2, <4>1, <4>2
    <3> QED BY <3>1, <3>2
  <2>5. r.node[z].index <= r.node[n].index
    <3>1. /\ t # NULL /\ m.node[z].index <= m.node[t].index
          /\ m.node[z].index \in Nat /\ m.node[t].index \in Nat
      BY <1>11, <1>14
    <3>2. r.node[z].index = m.node[z].index
      BY <1>4, <2>1
    <3> QED BY <1>12, <3>1, <3>2
  <2>6. n # NULL
    BY <1>3
  <2> QED BY <1>1, <1>2, <2>1, <2>2, <2>3, <2>4, <2>5, <2>6 DEF ActiveNode
<1>15. ActiveInv(r, l)
  BY <1>3, <1>4, <1>8, <1>13, <1>14 DEF ActiveInv
<1>16. ASSUME NEW z \in Own(m, l), m.node[z].active
       PROVE  r.node[z].index # r.node[n].index
  <2>1. /\ t # NULL /\ m.node[z].index <= m.node[t].index
        /\ m.node[z].index \in Nat /\ m.node[t].index \in Nat
    BY <1>11, <1>16
  <2>2. r.node[z].index = m.node[z].index
    BY <1>3, <1>4
  <2> QED BY <1>12, <2>1, <2>2
<1>17. IndexInv(r, l)
  <2> SUFFICES ASSUME NEW n1 \in Own(r, l), NEW n2 \in Own(r, l),
                      r.node[n1].active, r.node[n2].active,
                      r.node[n1].index = r.node[n2].index
               PROVE  n1 = n2
    BY DEF IndexInv
  <2>1. CASE n1 \in Own(m, l) /\ n2 \in Own(m, l)
    BY <1>3, <1>4, <2>1 DEF ShapeInv, IndexInv
  <2>2. CASE n1 = n \/ n2 = n
    BY <1>3, <1>4, <1>8, <1>16, <2>2
  <2> QED BY <1>8, <2>1, <2>2
<1>18. EndsInv(r, l)
  <2>1. /\ m.list[l].head = NULL <=> t = NULL
        /\ m.list[l].head # NULL => /\ m.list[l].head \in Own(m, l)
                                    /\ m.node[m.list[l].head].prev = NULL
    BY Zenon DEF ShapeInv, EndsInv
  <2>2. r.list[l].head \in Own(r, l) /\ r.node[r.list[l].head].prev = NULL
    BY <1>1, <1>2, <1>3, <1>4, <1>8, <2>1
  <2>3. r.list[l].head # NULL /\ n # NULL /\ n \in Own(r, l)
    BY Zenon, <1>1, <1>3, <1>8, <2>1
  <2> QED BY <1>1, <1>2, <2>2, <2>3 DEF EndsInv
<1> QED BY <1>2, <1>5, <1>7, <1>8, <1>9, <1>10, <1>15, <1>17, <1>18 DEF ShapeInv

(* The chunk behind the full tail t is reactivated; what it says of its     *)
(* free slots stays.                                                        *)
ReactivateEffect(m, r, l, n) ==
  /\ WakeEffect(m, r, l, n)
  /\ r.node[n].dirty = m.node[n].dirty
  /\ r.node[n].firstKnownFree = m.node[n].firstKnownFree

(* What _appendPumaNode writes when it reactivates the chunk behind the    *)
(* tail.                                                                   *)
LEMMA ReactivateFields ==
  ASSUME NEW m \in Mem, NEW l \in Lists, NEW t \in Nodes, NEW n \in Nodes,
         t = m.list[l].tail, n = m.node[t].next, m.node[t].active, t # n,
         NEW k, k = ReactivateNode(m, l),
         NEW r, r = [k EXCEPT !.list[l].numNodes = k.node[k.list[l].tail].index + 1]
  PROVE  r \in Mem /\ ReactivateEffect(m, r, l, n)
<1> DEFINE H == m.heap
           N == m.node
           L == m.list
           ix == m.node[t].index + 1
<1>1. /\ m = [heap |-> H, node |-> N, list |-> L]
      /\ H \in SUBSET Nodes /\ N \in [Nodes -> NodeRecord]
      /\ L \in [Lists -> ListRecord]
  BY DEF Mem
<1>2. ix \in Nat
  BY MemTypes
<1>3. k = [m EXCEPT !.list[l].tail = n,
                    !.node[n] = [m.node[n] EXCEPT !.active = TRUE, !.index = ix]]
  BY Zenon DEF ReactivateNode
<1> DEFINE L1 == [L EXCEPT ![l].tail = n]
           x == [N[n] EXCEPT !.active = TRUE, !.index = ix]
           N1 == [N EXCEPT ![n] = x]
           L2 == [L1 EXCEPT ![l].numNodes = ix + 1]
<1> HIDE DEF H, N, L, ix
<1>4. k = [heap |-> H, node |-> N1, list |-> L1]
  <2>1. m = [heap |-> H, node |-> N, list |-> L]
    BY <1>1
  <2>2. k = [m EXCEPT !.list[l].tail = n, !.node[n] = x]
    BY Zenon, <1>3 DEF N
  <2> HIDE DEF x
  <2> QED BY Zenon, <2>1, <2>2
<1>5. /\ x.active = TRUE /\ x.index = ix
      /\ x.slot = N[n].slot /\ x.numElements = N[n].numElements
      /\ x.next = N[n].next /\ x.prev = N[n].prev
      /\ x.threadList = N[n].threadList
      /\ x.dirty = N[n].dirty /\ x.firstKnownFree = N[n].firstKnownFree
      /\ x \in NodeRecord
  <2>1. N[n] \in NodeRecord
    BY Zenon, <1>1
  <2> QED BY Zenon, <1>2, <2>1 DEF NodeRecord
<1> HIDE DEF x
<1>6. /\ N1 \in [Nodes -> NodeRecord] /\ N1[n] = x
      /\ \A z \in Nodes \ {n} : N1[z] = N[z]
  BY <1>1, <1>5
<1>7. /\ L1 \in [Lists -> ListRecord] /\ L1[l].tail = n
      /\ L1[l].head = L[l].head /\ L1[l].numElements = L[l].numElements
      /\ \A j \in Lists \ {l} : L1[j] = L[j]
  BY <1>1 DEF ListRecord, Ptr
<1> HIDE DEF N1, L1
<1>8. r = [heap |-> H, node |-> N1, list |-> L2]
  <2>1. k.list = L1 /\ k.node = N1
    BY <1>4
  <2>2. k.list[l].tail = n /\ k.node[n].index = ix
    BY Zenon, <2>1, <1>5, <1>6, <1>7
  <2>3. r = [k EXCEPT !.list[l].numNodes = ix + 1]
    BY <2>2
  <2> QED BY <1>4, <2>3
<1>9. /\ L2 \in [Lists -> ListRecord] /\ L2[l].tail = n
      /\ L2[l].head = L1[l].head /\ L2[l].numElements = L1[l].numElements
      /\ L2[l].numNodes = ix + 1
      /\ \A j \in Lists \ {l} : L2[j] = L1[j]
  BY <1>2, <1>7 DEF ListRecord
<1> HIDE DEF L2
<1>10. r.heap = H /\ r.node = N1 /\ r.list = L2
  BY <1>8
<1>11. IsRecord(r)
  BY <1>8, <1>10 DEF IsRecord
<1>12. r \in Mem
  BY <1>1, <1>6, <1>9, <1>10, <1>11, MemRecord
<1>13. m.heap = H /\ m.node = N /\ m.list = L
  BY DEF H, N, L
<1>14. Turn(m, r, l, n)
  <2>1. /\ r.list[l].head = m.list[l].head
        /\ r.list[l].numElements = m.list[l].numElements
        /\ \A j \in Lists \ {l} : r.list[j] = m.list[j]
    BY <1>7, <1>9, <1>10, <1>13
  <2>2. /\ \A z \in Nodes \ {n} : r.node[z] = m.node[z]
        /\ r.node[n] = x /\ N[n] = m.node[n]
    BY <1>6, <1>10, <1>13
  <2>3. /\ r.node[n].slot = m.node[n].slot
        /\ r.node[n].numElements = m.node[n].numElements
        /\ r.node[n].next = m.node[n].next /\ r.node[n].prev = m.node[n].prev
        /\ r.node[n].threadList = m.node[n].threadList
    BY Zenon, <1>5, <2>2
  <2> QED BY Zenon, <1>10, <1>13, <2>1, <2>2, <2>3 DEF Turn
<1>15. WakeEffect(m, r, l, n)
  BY Zenon, <1>5, <1>6, <1>9, <1>10, <1>14 DEF WakeEffect, ix
<1>16. ReactivateEffect(m, r, l, n)
  BY Zenon, <1>5, <1>6, <1>10, <1>13, <1>15 DEF ReactivateEffect
<1> QED BY <1>12, <1>16

(* _appendPumaNode, as _pumallocOnThreadList calls it: the list has a new    *)
(* empty tail, and all else is where it was.                                *)
Grown(m, r, l, n) ==
  /\ r.heap = m.heap \cup {n} /\ r.list[l].tail = n
  /\ r.node[n].active /\ Taken(r.node[n]) = {}
  /\ r.node[n].prev = m.list[l].tail
  /\ n \notin m.heap => r.node[n].firstKnownFree = 0 /\ r.node[n].dirty = FALSE

(* _appendPumaNode keeps the memory and the elements, in all three of its  *)
(* branches, and the new tail is empty.                                    *)
LEMMA AppendKeeps ==
  ASSUME NEW m, MemInv(m), NEW l \in Lists, NEW t, t = m.list[l].tail,
         t # NULL => m.node[t].numElements = Capacity,
         NeedsBlock(m, l) => m.heap # Nodes,
         NEW r, r = AppendPumaNode(m, l)
  PROVE  \E n \in Own(r, l) :
           /\ MemInv(r) /\ Elsewhere(m, r, l) /\ GrowFrame(m, r)
           /\ HeldBy(r, r.heap) = HeldBy(m, m.heap)
           /\ Grown(m, r, l, n)
<1>1. /\ m \in Mem /\ FillInv(m) /\ CountInv(m) /\ StoredOnce(m)
      /\ \A k \in Lists : ShapeInv(m, k)
  BY DEF MemInv
<1>2. /\ t # NULL => t \in Own(m, l) /\ t \in m.heap
      /\ m.heap \subseteq Nodes /\ NULL \notin Nodes
  BY <1>1, MemTypes, ConstantsAssumption DEF ShapeInv, EndsInv, Own
<1>3. t # NULL => m.node[t].active
  <2> SUFFICES ASSUME t # NULL, ~m.node[t].active PROVE FALSE
    OBVIOUS
  <2>1. Taken(m.node[t]) = {} /\ m.node[t].numElements = Cardinality(Taken(m.node[t]))
    BY <1>1, <1>2 DEF FillInv
  <2>2. Cardinality(Taken(m.node[t])) = 0
    BY <2>1, TakenFinite
  <2> QED BY <2>1, <2>2, ConstantsAssumption
<1> DEFINE k == IF NeedsBlock(m, l) THEN LinkNewNode(m, l, NewBlock(m))
                ELSE ReactivateNode(m, l)
<1>4. r = [k EXCEPT !.list[l].numNodes = k.node[k.list[l].tail].index + 1]
  BY DEF AppendPumaNode
<1>5. CASE NeedsBlock(m, l)
  <2> DEFINE n == NewBlock(m)
  <2>1. n \in Nodes \ m.heap
    BY <1>2, <1>5 DEF NewBlock
  <2>2. k = LinkNewNode(m, l, n)
    BY <1>5
  <2> HIDE DEF n, k
  <2>3. t # n
    BY <1>2, <2>1
  <2>4. r \in Mem /\ FreshEffect(m, r, l, n)
    BY <1>1, <1>4, <2>1, <2>2, <2>3, FreshFields
  <2>5. t # NULL => m.node[t].active /\ m.node[t].next = NULL
    BY <1>3, <1>5 DEF NeedsBlock
  <2>6. /\ ShapeInv(r, l) /\ Elsewhere(m, r, l)
        /\ GrowFrame(m, r) /\ SameData(m, r)
        /\ n \in Own(r, l) /\ r.node[n].prev = t
    BY <1>1, <2>1, <2>4, <2>5, FreshShape
  <2>7. /\ CountInv(r) /\ StoredOnce(r)
        /\ HeldBy(r, r.heap) = HeldBy(m, m.heap)
    BY <1>1, <2>4, <2>6, SameDataKeeps
  <2>8. \A j \in Lists : ShapeInv(r, j)
    BY <1>1, <2>6, SameListKeeps DEF Elsewhere
  <2>9. NewFields(m, t, l, r.node[n])
    <3>1. r.node[n] = NewPumaNode(m, l)
      BY <2>4 DEF FreshEffect
    <3> QED BY <3>1, NewNodeFields
  <2>10. /\ r.list[l].tail = n /\ r.node[n].active = TRUE /\ Taken(r.node[n]) = {}
         /\ r.node[n].firstKnownFree = 0 /\ r.node[n].dirty = FALSE
         /\ r.heap = m.heap \cup {n} /\ r.node[n].numElements = 0
    BY <2>4, <2>9 DEF FreshEffect, NewFields
  <2>11. \A z \in m.heap : r.node[z].active = m.node[z].active
    <3> TAKE z \in m.heap
    <3>1. z \in Nodes /\ z # n
      BY <1>2, <2>1
    <3>2. CASE z = t
      <4>1. t # NULL /\ m.node[t] \in NodeRecord
        BY <1>1, <1>2, <3>1, <3>2, MemTypes
      <4>2. r.node[t] = [m.node[t] EXCEPT !.next = n]
        BY <2>4, <4>1 DEF FreshEffect
      <4> QED BY <3>2, <4>1, <4>2 DEF NodeRecord
    <3>3. CASE z # t
      BY <2>4, <3>1, <3>3 DEF FreshEffect
    <3> QED BY <3>2, <3>3
  <2>12. FillInv(r)
    <3>1. Cardinality(Taken(r.node[n])) = 0
      BY <2>10, TakenFinite
    <3>2. ASSUME NEW z \in m.heap
          PROVE  /\ Taken(r.node[z]) = Taken(m.node[z])
                 /\ r.node[z].numElements = m.node[z].numElements
      BY <2>6 DEF GrowFrame, Taken
    <3> QED BY <1>1, <2>10, <2>11, <3>1, <3>2 DEF FillInv
  <2>13. MemInv(r)
    BY <2>4, <2>7, <2>8, <2>12 DEF MemInv
  <2>14. Grown(m, r, l, n)
    BY <2>6, <2>10 DEF Grown
  <2> QED BY <2>6, <2>7, <2>13, <2>14
<1>6. CASE ~NeedsBlock(m, l)
  <2> DEFINE n == m.node[t].next
  <2>1. t # NULL /\ m.node[t].active /\ n # NULL
    BY <1>3, <1>6 DEF NeedsBlock
  <2>2. t \in Own(m, l) /\ t \in Nodes
    BY Zenon, <1>2, <2>1
  <2>3. ActiveNode(m, l, t) /\ n \in Own(m, l) /\ m.node[n].prev = t
    BY Zenon, <1>1, <2>1, <2>2 DEF ShapeInv, ActiveInv, LinksInv
  <2>4. ~m.node[n].active /\ n # t
    BY Zenon, <2>1, <2>3 DEF ActiveNode
  <2>5. n \in Nodes /\ n \in m.heap
    BY <1>2, <2>3 DEF Own
  <2>6. k = ReactivateNode(m, l)
    BY Zenon, <1>6
  <2> HIDE DEF k
  <2>7. r \in Mem /\ ReactivateEffect(m, r, l, n)
    BY Zenon, <1>1, <1>4, <2>1, <2>2, <2>4, <2>5, <2>6, ReactivateFields
  <2>14. WakeEffect(m, r, l, n)
    BY Zenon, <2>7 DEF ReactivateEffect
  <2>8. n = NextToWake(m, l)
    BY <2>1 DEF NextToWake
  <2> HIDE DEF n
  <2>9. /\ MemInv(r) /\ Elsewhere(m, r, l) /\ n \in Own(m, l) /\ n \in Own(r, l)
        /\ HeldBy(r, r.heap) = HeldBy(m, m.heap)
        /\ Taken(m.node[n]) = {}
    BY <2>1, <2>4, <2>5, <2>7, <2>8, <2>14, WakeKeeps
  <2>10. Turn(m, r, l, n) /\ r.list[l].tail = n /\ r.node[n].active = TRUE
    BY <2>14 DEF WakeEffect
  <2>11. GrowFrame(m, r) /\ r.heap = m.heap /\ r.node[n].prev = t
    BY <1>2, <2>3, <2>4, <2>7, <2>10 DEF Turn, GrowFrame, ReactivateEffect
  <2>12. Taken(r.node[n]) = {}
    BY <2>9, <2>10 DEF Turn, Taken
  <2>13. r.heap = m.heap \cup {n}
    BY <2>5, <2>11
  <2>15. Grown(m, r, l, n)
    BY <2>5, <2>10, <2>11, <2>12, <2>13 DEF Grown
  <2> QED BY <2>9, <2>11, <2>15
<1> QED BY <1>5, <1>6


(* A chunk's note of its first free slot and its dirty mark are written. *)
MarkEffect(m, r, n, k, d) ==
  /\ r.heap = m.heap /\ r.list = m.list
  /\ \A z \in Nodes \ {n} : r.node[z] = m.node[z]
  /\ r.node[n].slot = m.node[n].slot
  /\ r.node[n].numElements = m.node[n].numElements
  /\ r.node[n].next = m.node[n].next /\ r.node[n].prev = m.node[n].prev
  /\ r.node[n].active = m.node[n].active
  /\ r.node[n].index = m.node[n].index
  /\ r.node[n].threadList = m.node[n].threadList
  /\ r.node[n].firstKnownFree = k /\ r.node[n].dirty = d

(* A step that gives chunk n a new record x. *)
PutNode(m, n, x) == [m EXCEPT !.node[n] = x]

(* What a write of one chunk leaves to read.                               *)
LEMMA SetNode ==
  ASSUME NEW m \in Mem, NEW n \in Nodes, NEW x \in NodeRecord,
         NEW r, r = PutNode(m, n, x)
  PROVE  /\ r \in Mem /\ r.heap = m.heap /\ r.list = m.list
         /\ r.node[n] = x
         /\ \A z \in Nodes \ {n} : r.node[z] = m.node[z]
<1> DEFINE H == m.heap
           N == m.node
           L == m.list
           N1 == [N EXCEPT ![n] = x]
<1>1. /\ m = [heap |-> H, node |-> N, list |-> L]
      /\ H \in SUBSET Nodes /\ N \in [Nodes -> NodeRecord]
      /\ L \in [Lists -> ListRecord]
  BY DEF Mem
<1>2. N1 \in [Nodes -> NodeRecord] /\ N1[n] = x
      /\ \A z \in Nodes \ {n} : N1[z] = N[z]
  BY <1>1
<1> HIDE DEF H, N, L
<1>3. r = [heap |-> H, node |-> N1, list |-> L]
  BY <1>1 DEF PutNode
<1> HIDE DEF N1
<1>4. r.heap = H /\ r.node = N1 /\ r.list = L
  BY <1>3
<1>5. IsRecord(r)
  BY <1>3, <1>4 DEF IsRecord
<1>6. r \in Mem
  BY <1>1, <1>2, <1>4, <1>5, MemRecord
<1> QED BY <1>2, <1>4, <1>6 DEF H, N, L

(* The allocator takes the slot its chunk's note points at. *)
Marked(m, n, k, d) ==
  [m EXCEPT !.node[n] = [@ EXCEPT !.dirty = d, !.firstKnownFree = k]]

(* What a write of firstKnownFree and dirty changes.                       *)
LEMMA MarkFields ==
  ASSUME NEW m \in Mem, NEW n \in Nodes,
         NEW k \in Nat, NEW d \in BOOLEAN,
         NEW r, r = Marked(m, n, k, d)
  PROVE  r \in Mem /\ MarkEffect(m, r, n, k, d)
<1> DEFINE x == [m.node[n] EXCEPT !.dirty = d, !.firstKnownFree = k]
<1>1. m.node[n] \in NodeRecord
  BY MemTypes
<1>2. /\ x \in NodeRecord /\ x.slot = m.node[n].slot
      /\ x.numElements = m.node[n].numElements
      /\ x.next = m.node[n].next /\ x.prev = m.node[n].prev
      /\ x.active = m.node[n].active /\ x.index = m.node[n].index
      /\ x.threadList = m.node[n].threadList
      /\ x.firstKnownFree = k /\ x.dirty = d
  BY <1>1 DEF NodeRecord
<1>3. r = PutNode(m, n, x)
  BY DEF Mem, PutNode, Marked
<1> HIDE DEF x
<1>4. /\ r \in Mem /\ r.heap = m.heap /\ r.list = m.list
      /\ r.node[n] = x
      /\ \A z \in Nodes \ {n} : r.node[z] = m.node[z]
  BY <1>2, <1>3, SetNode
<1> QED BY <1>2, <1>4 DEF MarkEffect

(* Neither matters to the lists nor to the elements. *)
LEMMA MarkKeeps ==
  ASSUME NEW m, MemInv(m), NEW r \in Mem, NEW n \in m.heap, NEW k, NEW d,
         MarkEffect(m, r, n, k, d)
  PROVE  /\ MemInv(r) /\ Elsewhere(m, r, m.node[n].threadList)
         /\ HeldBy(r, r.heap) = HeldBy(m, m.heap)
         /\ n \in Own(r, m.node[n].threadList)
<1>1. /\ m \in Mem /\ FillInv(m) /\ CountInv(m) /\ StoredOnce(m)
      /\ \A j \in Lists : ShapeInv(m, j)
      /\ m.heap \subseteq Nodes
  BY MemTypes DEF MemInv
<1>2. /\ r.heap = m.heap /\ r.list = m.list
      /\ \A z \in m.heap : /\ r.node[z].slot = m.node[z].slot
                           /\ r.node[z].numElements = m.node[z].numElements
                           /\ r.node[z].threadList = m.node[z].threadList
                           /\ r.node[z].next = m.node[z].next
                           /\ r.node[z].prev = m.node[z].prev
                           /\ r.node[z].active = m.node[z].active
                           /\ r.node[z].index = m.node[z].index
  BY <1>1 DEF MarkEffect
<1>3. SameData(m, r)
  BY <1>2 DEF SameData
<1>4. \A j : Own(r, j) = Own(m, j)
  BY <1>2 DEF Own
<1>5. FillInv(r)
  <2>1. \A z \in m.heap : Taken(r.node[z]) = Taken(m.node[z])
    BY <1>2 DEF Taken
  <2> QED BY <1>1, <1>2, <2>1 DEF FillInv
<1>6. \A j \in Lists : ShapeInv(r, j)
  <2> TAKE j \in Lists
  <2>1. SameShape(m, r, j)
    BY <1>2, <1>4 DEF SameShape, Own
  <2> QED BY <1>1, <2>1, SameShapeKeeps
<1>7. /\ HeldBy(r, r.heap) = HeldBy(m, m.heap)
      /\ CountInv(r) /\ StoredOnce(r)
  BY <1>1, <1>3, SameDataKeeps
<1>8. Elsewhere(m, r, m.node[n].threadList)
  <2> SUFFICES ASSUME NEW j \in Lists \ {m.node[n].threadList}
               PROVE  SameList(m, r, j)
    BY DEF Elsewhere
  <2>1. \A z \in Own(m, j) : r.node[z] = m.node[z]
    BY <1>1 DEF Own, MarkEffect
  <2> QED BY <1>2, <1>4, <2>1 DEF SameList
<1>9. MemInv(r)
  BY <1>5, <1>6, <1>7 DEF MemInv
<1> QED BY <1>4, <1>7, <1>8, <1>9 DEF Own

(* The choice of the slot's chunk: made active, it is the tail. *)
AwakeEffect(m, r, l, n) ==
  /\ Turn(m, r, l, n)
  /\ r.node[n].active = TRUE
  /\ r.node[n].index = m.node[n].index
  /\ r.node[n].dirty = m.node[n].dirty
  /\ r.node[n].firstKnownFree = m.node[n].firstKnownFree
  /\ r.list[l].tail = n
  /\ r.list[l].numNodes = IF m.node[n].active THEN m.list[l].numNodes
                          ELSE m.list[l].numNodes + 1

(* What makes a chunk the active tail.                                     *)
LEMMA AwakeFields ==
  ASSUME NEW m \in Mem, NEW l \in Lists, NEW n \in Nodes,
         NEW r, r = MakeTail(m, l, n)
  PROVE  r \in Mem /\ AwakeEffect(m, r, l, n)
<1> DEFINE H == m.heap
           N == m.node
           L == m.list
           q == IF m.node[n].active THEN m.list[l].numNodes
                ELSE m.list[l].numNodes + 1
           x == [N[n] EXCEPT !.active = TRUE]
           y == [L[l] EXCEPT !.numNodes = q, !.tail = n]
           N1 == [N EXCEPT ![n] = x]
           L1 == [L EXCEPT ![l] = y]
<1>1. /\ m = [heap |-> H, node |-> N, list |-> L]
      /\ H \in SUBSET Nodes /\ N \in [Nodes -> NodeRecord]
      /\ L \in [Lists -> ListRecord]
  BY DEF Mem
<1>2. q \in Nat
  BY MemTypes
<1>3. r = [m EXCEPT !.list[l] = y, !.node[n].active = TRUE]
  <2>1. m.list[l] \in ListRecord
    BY DEF Mem
  <2>2. y = [m.list[l] EXCEPT !.numNodes = IF m.node[n].active THEN @ ELSE @ + 1,
                              !.tail = n]
    BY <2>1 DEF ListRecord
  <2> HIDE DEF y
  <2> QED BY <2>2 DEF MakeTail
<1> HIDE DEF q, H, N, L
<1>4. /\ x \in NodeRecord /\ x.active = TRUE
      /\ x.slot = N[n].slot /\ x.numElements = N[n].numElements
      /\ x.firstKnownFree = N[n].firstKnownFree /\ x.dirty = N[n].dirty
      /\ x.next = N[n].next /\ x.prev = N[n].prev
      /\ x.index = N[n].index /\ x.threadList = N[n].threadList
  <2>1. N[n] \in NodeRecord
    BY <1>1
  <2> QED BY <2>1 DEF NodeRecord
<1>5. /\ y \in ListRecord /\ y.numNodes = q /\ y.tail = n
      /\ y.head = L[l].head /\ y.numElements = L[l].numElements
  <2>1. L[l] \in ListRecord
    BY <1>1
  <2> QED BY <1>2, <2>1 DEF ListRecord, Ptr
<1> HIDE DEF y
<1>20. [N EXCEPT ![n].active = TRUE] = N1
  BY <1>1
<1> HIDE DEF x
<1>6. N1 \in [Nodes -> NodeRecord] /\ N1[n] = x
      /\ \A z \in Nodes \ {n} : N1[z] = N[z]
  BY <1>1, <1>4
<1>7. L1 \in [Lists -> ListRecord] /\ L1[l] = y
      /\ \A j \in Lists \ {l} : L1[j] = L[j]
  BY <1>1, <1>5
<1>8. r = [heap |-> H, node |-> N1, list |-> L1]
  <2>1. m = [heap |-> H, node |-> N, list |-> L]
    BY <1>1
  <2>2. r = [heap |-> H, node |-> [N EXCEPT ![n].active = TRUE], list |-> L1]
    BY <1>3, <2>1
  <2> QED BY <1>20, <2>2
<1> HIDE DEF N1, L1
<1>9. r.heap = H /\ r.node = N1 /\ r.list = L1
  BY <1>8
<1>10. IsRecord(r)
  BY <1>8, <1>9 DEF IsRecord
<1>11. r \in Mem
  BY <1>1, <1>6, <1>7, <1>9, <1>10, MemRecord
<1>12. m.heap = H /\ m.node = N /\ m.list = L
  BY DEF H, N, L
<1>13. /\ r.node[n] = x /\ r.list[l] = y /\ r.heap = m.heap
       /\ N[n] = m.node[n] /\ L[l] = m.list[l]
       /\ \A z \in Nodes \ {n} : r.node[z] = m.node[z]
       /\ \A j \in Lists \ {l} : r.list[j] = m.list[j]
  BY <1>6, <1>7, <1>9, <1>12
<1>14. Turn(m, r, l, n)
  BY <1>4, <1>5, <1>13 DEF Turn
<1>15. AwakeEffect(m, r, l, n)
  BY <1>4, <1>5, <1>13, <1>14 DEF AwakeEffect, q
<1> QED BY <1>11, <1>15

(* The active chunk n is the tail, or it is the next to wake: the list keeps *)
(* its shape, and no element moves.                                         *)
LEMMA AwakeKeeps ==
  ASSUME NEW m, MemInv(m), NEW l \in Lists, NEW n \in Own(m, l),
         m.node[n].active => n = m.list[l].tail,
         ~m.node[n].active => /\ m.list[l].tail # NULL /\ n = NextToWake(m, l)
                              /\ m.node[m.list[l].tail].active =>
                                   m.node[n].index = m.node[m.list[l].tail].index + 1,
         NEW r \in Mem, AwakeEffect(m, r, l, n)
  PROVE  /\ MemInv(r) /\ Elsewhere(m, r, l) /\ n \in Own(r, l)
         /\ HeldBy(r, r.heap) = HeldBy(m, m.heap)
<1>1. /\ m \in Mem /\ FillInv(m) /\ CountInv(m) /\ StoredOnce(m)
      /\ \A j \in Lists : ShapeInv(m, j)
      /\ m.heap \subseteq Nodes
  BY MemTypes DEF MemInv
<1>2. n \in m.heap /\ n \in Nodes /\ m.node[n].threadList = l
  BY <1>1 DEF Own
<1>3. CASE m.node[n].active
  <2>1. /\ Turn(m, r, l, n) /\ r.node[n].active /\ m.node[n].active = TRUE
        /\ r.node[n].active = TRUE
    BY <1>1, <1>2, <1>3, MemTypes DEF AwakeEffect
  <2>2. /\ SameData(m, r) /\ FillInv(r) /\ Elsewhere(m, r, l)
        /\ \A k \in Lists : Own(r, k) = Own(m, k)
    BY <1>1, <1>2, <2>1, TurnData
  <2>3. CountInv(r) /\ StoredOnce(r) /\ HeldBy(r, r.heap) = HeldBy(m, m.heap)
    BY <1>1, <2>2, SameDataKeeps
  <2>4. SameShape(m, r, l)
    <3>1. /\ r.list[l].tail = m.list[l].tail /\ r.list[l].head = m.list[l].head
          /\ r.list[l].numNodes = m.list[l].numNodes
      BY <1>3, <2>1 DEF AwakeEffect, Turn
    <3>2. ASSUME NEW z \in Own(m, l)
          PROVE  /\ r.node[z].next = m.node[z].next
                 /\ r.node[z].prev = m.node[z].prev
                 /\ r.node[z].active = m.node[z].active
                 /\ r.node[z].index = m.node[z].index
      <4>1. z \in Nodes
        BY <1>1 DEF Own
      <4>2. CASE z = n
        BY <2>1, <4>2 DEF AwakeEffect, Turn
      <4>3. CASE z # n
        BY <2>1, <4>1, <4>3 DEF Turn
      <4> QED BY <4>2, <4>3
    <3> QED BY <2>2, <3>1, <3>2 DEF SameShape
  <2>5. \A j \in Lists : ShapeInv(r, j)
    <3> TAKE j \in Lists
    <3>1. CASE j = l
      BY <1>1, <2>4, <3>1, SameShapeKeeps
    <3>2. CASE j # l
      BY <1>1, <2>2, <3>2, SameListKeeps DEF Elsewhere
    <3> QED BY <3>1, <3>2
  <2>6. MemInv(r)
    BY <2>2, <2>3, <2>5 DEF MemInv
  <2> QED BY <2>2, <2>3, <2>6
<1>4. CASE ~m.node[n].active
  <2> DEFINE t == m.list[l].tail
  <2>1. /\ t # NULL /\ n = NextToWake(m, l)
        /\ EndsInv(m, l) /\ t \in Own(m, l) /\ t \in Nodes
    BY <1>1, <1>4 DEF ShapeInv, EndsInv, Own
  <2>2. CASE m.node[t].active
    <3>1. m.list[l].numNodes = m.node[t].index + 1 /\ m.node[n].index = m.node[t].index + 1
      BY <1>4, <2>1, <2>2 DEF EndsInv
    <3>2. /\ r.node[n].index = m.node[t].index + 1
          /\ r.list[l].numNodes = r.node[n].index + 1
      BY <1>4, <3>1 DEF AwakeEffect
    <3>3. WakeEffect(m, r, l, n)
      BY <2>2, <3>2 DEF WakeEffect, AwakeEffect
    <3> QED BY <1>2, <1>4, <2>1, <3>3, WakeKeeps
  <2>3. CASE ~m.node[t].active
    <3>1. n = t /\ m.list[l].numNodes = 0 /\ m.node[n].index = 0
      BY <2>1, <2>3 DEF EndsInv, NextToWake
    <3>2. r.node[n].index = 0 /\ r.list[l].numNodes = r.node[n].index + 1
      BY <1>4, <3>1 DEF AwakeEffect
    <3>3. WakeEffect(m, r, l, n)
      BY <2>3, <3>2 DEF WakeEffect, AwakeEffect
    <3> QED BY <1>2, <1>4, <2>1, <3>3, WakeKeeps
  <2> QED BY <2>2, <2>3
<1> QED BY <1>3, <1>4

(* What the completion of an allocation in slot s of chunk n leaves alone. *)
FinishFrame(m, r, l, n, s) ==
  /\ r.heap = m.heap
  /\ \A z \in Nodes \ {n} : r.node[z] = m.node[z]
  /\ r.node[n].active = TRUE
  /\ r.node[n].index = m.node[n].index
  /\ r.node[n].firstKnownFree = m.node[n].firstKnownFree
  /\ r.node[n].dirty = m.node[n].dirty
  /\ r.node[n].threadList = m.node[n].threadList
  /\ r.node[n].numElements = m.node[n].numElements + 1
  /\ Taken(r.node[n]) = Taken(m.node[n]) \cup {s}

(* Chunk n is the tail, or the next to wake, with its index still right. *)
FinishesAt(m, l, n) ==
  LET t == m.list[l].tail
  IN  \/ m.node[n].active /\ n = t
      \/ /\ ~m.node[n].active /\ t # NULL /\ n = NextToWake(m, l)
         /\ m.node[t].active => m.node[n].index = m.node[t].index + 1

(* The end of _pumallocOnThreadList, the element going to a free slot of   *)
(* the chunk that becomes the tail, keeps the memory and adds the element. *)
LEMMA FinishKeeps ==
  ASSUME NEW m, MemInv(m), NEW l \in Lists, NEW n \in Own(m, l),
         FinishesAt(m, l, n),
         NEW s \in Slots, m.node[n].slot[s] = NULL,
         NEW e \in Elems, e \notin HeldBy(m, m.heap),
         NEW r, r = FinishAlloc(m, l, n, s, e)
  PROVE  /\ MemInv(r) /\ Elsewhere(m, r, l) /\ FinishFrame(m, r, l, n, s)
         /\ n \in Own(r, l) /\ PutAt(m, r, n, s, e)
         /\ HeldBy(r, r.heap) = HeldBy(m, m.heap) \cup {e}
<1>1. m \in Mem /\ m.heap \subseteq Nodes /\ n \in m.heap /\ m.node[n].threadList = l
  BY MemTypes DEF MemInv, Own
<1> DEFINE f == MakeTail(m, l, n)
<1>2. f \in Mem /\ AwakeEffect(m, f, l, n)
  BY <1>1, AwakeFields
<1>3. r = AllocElementOnNode(f, n, s, e)
  BY DEF FinishAlloc
<1> HIDE DEF f
<1>4. /\ MemInv(f) /\ Elsewhere(m, f, l) /\ n \in Own(f, l)
      /\ HeldBy(f, f.heap) = HeldBy(m, m.heap)
  BY <1>2, AwakeKeeps DEF FinishesAt
<1>5. /\ f.heap = m.heap /\ f.node[n].active = TRUE /\ f.node[n].slot = m.node[n].slot
      /\ f.node[n].threadList = l /\ f.node[n].dirty = m.node[n].dirty
      /\ f.node[n].firstKnownFree = m.node[n].firstKnownFree
      /\ f.node[n].numElements = m.node[n].numElements
      /\ \A z \in Nodes \ {n} : f.node[z] = m.node[z]
  BY <1>1, <1>2 DEF AwakeEffect, Turn
<1>6. n \in f.heap /\ f.node[n].slot[s] = NULL /\ e \notin HeldBy(f, f.heap)
  BY <1>1, <1>4, <1>5
<1>7. /\ MemInv(r) /\ Elsewhere(f, r, l)
      /\ Touch(f, r, n) /\ AllocEffect(f, r, n, s, e)
      /\ Taken(r.node[n]) = Taken(f.node[n]) \cup {s}
      /\ HeldBy(r, r.heap) = HeldBy(f, f.heap) \cup {e}
  BY <1>3, <1>4, <1>5, <1>6, AllocKeeps
<1>8. Elsewhere(m, r, l)
  BY <1>4, <1>7, ElsewhereTransitive
<1>9. Taken(f.node[n]) = Taken(m.node[n])
  BY <1>5 DEF Taken
<1>10. /\ r.heap = m.heap /\ \A z \in Nodes \ {n} : r.node[z] = m.node[z]
       /\ r.node[n].active = TRUE /\ r.node[n].threadList = l
       /\ r.node[n].index = m.node[n].index
  BY <1>2, <1>5, <1>7 DEF AwakeEffect, Touch
<1>11. /\ r.node[n].firstKnownFree = m.node[n].firstKnownFree
       /\ r.node[n].dirty = m.node[n].dirty
       /\ r.node[n].numElements = m.node[n].numElements + 1
  BY <1>5, <1>7 DEF AllocEffect
<1>12. FinishFrame(m, r, l, n, s)
  BY <1>1, <1>7, <1>9, <1>10, <1>11 DEF FinishFrame
<1>13. n \in Own(r, l)
  BY <1>1, <1>10 DEF Own
<1>14. PutAt(m, r, n, s, e)
  BY <1>1, <1>5, <1>7 DEF AllocEffect, PutSlot, PutAt
<1> QED BY <1>4, <1>7, <1>8, <1>12, <1>13, <1>14

(* The allocator takes the slot after the last one it gave out on a chunk. *)
Noted(m, n) == [m EXCEPT !.node[n].firstKnownFree = @ + 1]

(* The increment of firstKnownFree.                                        *)
LEMMA NotedFields ==
  ASSUME NEW m \in Mem, NEW n \in Nodes, NEW r, r = Noted(m, n)
  PROVE  /\ r \in Mem
         /\ MarkEffect(m, r, n, m.node[n].firstKnownFree + 1, m.node[n].dirty)
<1> DEFINE x == [m.node[n] EXCEPT !.firstKnownFree = m.node[n].firstKnownFree + 1]
<1>1. m.node[n] \in NodeRecord /\ m.node[n].firstKnownFree + 1 \in Nat
  BY MemTypes
<1>2. /\ x \in NodeRecord /\ x.slot = m.node[n].slot
      /\ x.numElements = m.node[n].numElements
      /\ x.next = m.node[n].next /\ x.prev = m.node[n].prev
      /\ x.active = m.node[n].active /\ x.index = m.node[n].index
      /\ x.threadList = m.node[n].threadList
      /\ x.firstKnownFree = m.node[n].firstKnownFree + 1
      /\ x.dirty = m.node[n].dirty
  BY <1>1 DEF NodeRecord
<1>3. r = PutNode(m, n, x)
  BY DEF Mem, PutNode, Noted
<1> HIDE DEF x
<1>4. /\ r \in Mem /\ r.heap = m.heap /\ r.list = m.list
      /\ r.node[n] = x
      /\ \A z \in Nodes \ {n} : r.node[z] = m.node[z]
  BY <1>2, <1>3, SetNode
<1> QED BY <1>2, <1>4 DEF MarkEffect

(* _pumallocOnThreadList makes sure that the tail n has room and takes a     *)
(* slot: a new chunk, one that was inactive, or the tail as it is.          *)
TakeFrame(m, r, l, n) ==
  /\ r.heap = m.heap \cup {n} /\ r.list[l].tail = n
  /\ \A z \in m.heap \ {n} :
       /\ r.node[z].slot = m.node[z].slot
       /\ r.node[z].numElements = m.node[z].numElements
       /\ r.node[z].firstKnownFree = m.node[z].firstKnownFree
       /\ r.node[z].dirty = m.node[z].dirty
       /\ r.node[z].threadList = m.node[z].threadList
       /\ m.node[z].active => /\ r.node[z].active
                              /\ r.node[z].index = m.node[z].index
  /\ n \in m.heap => /\ r.node[n].slot = m.node[n].slot
                     /\ m.node[n].active => /\ r.node[n].active
                                            /\ r.node[n].index = m.node[n].index
                     /\ r.node[n].dirty = m.node[n].dirty
                     /\ r.node[n].numElements = m.node[n].numElements
                     /\ r.node[n].firstKnownFree = m.node[n].firstKnownFree + 1
  /\ n \notin m.heap => /\ Taken(r.node[n]) = {} /\ r.node[n].dirty = FALSE
                        /\ r.node[n].numElements = 0
                        /\ r.node[n].firstKnownFree = 1

(* Where n comes from. *)
Appended(m, r, l, n) ==
  /\ m.list[l].tail = NULL \/ m.node[m.list[l].tail].numElements = Capacity
  /\ r.node[n].active /\ Taken(r.node[n]) = {}
  /\ r.node[n].prev = m.list[l].tail
  /\ m.list[l].tail # n

Reused(m, r, l, n) ==
  /\ n = m.list[l].tail /\ n \in m.heap /\ m.node[n].numElements # Capacity
  /\ r.node[n].prev = m.node[n].prev /\ r.node[n].active = m.node[n].active

(* The beginning of _pumallocOnThreadList, which appends a chunk when the  *)
(* tail is full, keeps the memory and the elements.                        *)
LEMMA TakeKeeps ==
  ASSUME MemInv(mem), NEW l \in Lists, Room(l), NEW r, r = TakeSlot(l)
  PROVE  \E n \in Own(r, l) :
           /\ MemInv(r) /\ Elsewhere(mem, r, l) /\ TakeFrame(mem, r, l, n)
           /\ HeldBy(r, r.heap) = HeldBy(mem, mem.heap)
           /\ \/ MustAppend(l) /\ Appended(mem, r, l, n)
              \/ ~MustAppend(l) /\ Reused(mem, r, l, n)
<1> DEFINE t == mem.list[l].tail
<1>1. /\ mem \in Mem /\ mem.heap \subseteq Nodes /\ ShapeInv(mem, l)
      /\ FillInv(mem)
  BY MemTypes DEF MemInv
<1>2. CASE MustAppend(l)
  <2> DEFINE m == AppendPumaNode(mem, l)
  <2>1. /\ t = NULL \/ mem.node[t].numElements = Capacity
        /\ NeedsBlock(mem, l) => mem.heap # Nodes
    BY <1>2 DEF MustAppend, Room
  <2>2. r = Noted(m, m.list[l].tail)
    BY <1>2 DEF TakeSlot, Noted
  <2>3. m = AppendPumaNode(mem, l)
    OBVIOUS
  <2> HIDE DEF m
  <2>4. PICK n \in Own(m, l) :
           /\ MemInv(m) /\ Elsewhere(mem, m, l) /\ GrowFrame(mem, m)
           /\ HeldBy(m, m.heap) = HeldBy(mem, mem.heap)
           /\ Grown(mem, m, l, n)
    <3>1. t = mem.list[l].tail
      OBVIOUS
    <3> HIDE DEF t
    <3> QED BY <2>1, <2>3, <3>1, AppendKeeps
  <2>16. /\ m.heap = mem.heap \cup {n} /\ m.list[l].tail = n
         /\ m.node[n].active /\ Taken(m.node[n]) = {}
         /\ m.node[n].prev = t
         /\ n \notin mem.heap => m.node[n].firstKnownFree = 0 /\ m.node[n].dirty = FALSE
    BY <2>4 DEF Grown
  <2>5. /\ m \in Mem /\ n \in Nodes /\ n \in m.heap /\ m.node[n].threadList = l
        /\ m.heap \subseteq Nodes /\ FillInv(m)
    BY <2>4, <2>16, MemTypes DEF MemInv, Own
  <2> DEFINE k == m.node[n].firstKnownFree + 1
             d == m.node[n].dirty
  <2>6. r \in Mem /\ MarkEffect(m, r, n, k, d)
    BY <2>2, <2>5, <2>16, NotedFields
  <2> HIDE DEF k, d
  <2>7. /\ MemInv(r) /\ Elsewhere(m, r, l)
        /\ HeldBy(r, r.heap) = HeldBy(m, m.heap)
        /\ n \in Own(r, l)
    <3>1. MemInv(m) /\ n \in m.heap /\ r \in Mem /\ l = m.node[n].threadList
      BY <2>4, <2>5, <2>6
    <3> QED BY <2>6, <3>1, MarkKeeps
  <2>8. Elsewhere(mem, r, l)
    BY <2>4, <2>16, <2>7, ElsewhereTransitive
  <2>9. /\ r.heap = m.heap /\ r.list = m.list
        /\ \A z \in mem.heap \ {n} : r.node[z] = m.node[z]
        /\ r.node[n].slot = m.node[n].slot /\ r.node[n].dirty = d
        /\ r.node[n].numElements = m.node[n].numElements
        /\ r.node[n].firstKnownFree = k
        /\ r.node[n].prev = m.node[n].prev /\ r.node[n].active = m.node[n].active
        /\ r.node[n].index = m.node[n].index
    BY <1>1, <2>6 DEF MarkEffect
  <2>10. Taken(r.node[n]) = {}
    BY <2>4, <2>16, <2>9 DEF Taken
  <2>11. m.node[n].numElements = 0
    <3>1. Cardinality(Taken(m.node[n])) = 0
      BY <2>4, <2>16, TakenFinite
    <3> QED BY <2>5, <3>1 DEF FillInv
  <2>12. n \notin mem.heap => k = 1
    BY <2>16 DEF k
  <2>17. k = m.node[n].firstKnownFree + 1 /\ d = m.node[n].dirty
    BY DEF k, d
  <2>13. TakeFrame(mem, r, l, n)
    <3>1. r.heap = mem.heap \cup {n} /\ r.list[l].tail = n
      BY <2>4, <2>16, <2>9
    <3>2. \A z \in mem.heap \ {n} :
             /\ r.node[z].slot = mem.node[z].slot
             /\ r.node[z].numElements = mem.node[z].numElements
             /\ r.node[z].firstKnownFree = mem.node[z].firstKnownFree
             /\ r.node[z].dirty = mem.node[z].dirty
             /\ r.node[z].threadList = mem.node[z].threadList
             /\ mem.node[z].active => /\ r.node[z].active
                                      /\ r.node[z].index = mem.node[z].index
      BY <2>4, <2>16, <2>9 DEF GrowFrame
    <3>3. ASSUME n \in mem.heap
          PROVE  /\ r.node[n].slot = mem.node[n].slot
                 /\ r.node[n].dirty = mem.node[n].dirty
                 /\ r.node[n].numElements = mem.node[n].numElements
                 /\ r.node[n].firstKnownFree = mem.node[n].firstKnownFree + 1
                 /\ mem.node[n].active => /\ r.node[n].active
                                          /\ r.node[n].index = mem.node[n].index
      BY <2>4, <2>9, <2>17, <3>3 DEF GrowFrame
    <3>4. ASSUME n \notin mem.heap
          PROVE  /\ Taken(r.node[n]) = {} /\ r.node[n].dirty = FALSE
                 /\ r.node[n].numElements = 0
                 /\ r.node[n].firstKnownFree = 1
      BY <2>4, <2>16, <2>9, <2>10, <2>11, <2>12, <2>17, <3>4
    <3> QED BY <3>1, <3>2, <3>3, <3>4 DEF TakeFrame
  <2>14. t # n
    <3> SUFFICES ASSUME t = n PROVE FALSE
      OBVIOUS
    <3>1. t # NULL
      BY <2>5, ConstantsAssumption
    <3>2. t \in mem.heap
      BY <1>1, <3>1 DEF ShapeInv, EndsInv, Own
    <3>3. m.node[n].numElements = mem.node[n].numElements
      BY <2>4, <2>16, <3>2 DEF GrowFrame
    <3> QED BY <2>1, <2>11, <3>1, <3>3, ConstantsAssumption
  <2>15. Appended(mem, r, l, n)
    BY <2>1, <2>4, <2>16, <2>9, <2>10, <2>14 DEF Appended
  <2> QED BY <1>2, <2>4, <2>16, <2>7, <2>8, <2>13, <2>15
<1>3. CASE ~MustAppend(l)
  <2>1. t # NULL /\ mem.node[t].numElements # Capacity
    BY Zenon, <1>3 DEF MustAppend
  <2>2. t \in Own(mem, l) /\ t \in Nodes /\ t \in mem.heap /\ mem.node[t].threadList = l
    BY <1>1, <2>1 DEF ShapeInv, EndsInv, Own
  <2>3. r = Noted(mem, t)
    BY <1>3 DEF TakeSlot, Noted
  <2> DEFINE k == mem.node[t].firstKnownFree + 1
             d == mem.node[t].dirty
  <2>4. r \in Mem /\ MarkEffect(mem, r, t, k, d)
    BY Zenon, <1>1, <2>2, <2>3, NotedFields
  <2>5. /\ MemInv(r) /\ Elsewhere(mem, r, l)
        /\ HeldBy(r, r.heap) = HeldBy(mem, mem.heap)
        /\ t \in Own(r, l)
    BY Zenon, <2>2, <2>4, MarkKeeps
  <2>6. TakeFrame(mem, r, l, t)
    <3>1. /\ r.heap = mem.heap \cup {t} /\ r.list[l].tail = t
          /\ \A z \in mem.heap \ {t} : r.node[z] = mem.node[z]
          /\ r.node[t].slot = mem.node[t].slot /\ r.node[t].dirty = d
          /\ r.node[t].numElements = mem.node[t].numElements
          /\ r.node[t].firstKnownFree = k
          /\ r.node[t].active = mem.node[t].active
          /\ r.node[t].index = mem.node[t].index
      BY <1>1, <2>2, <2>4 DEF MarkEffect
    <3> QED BY Zenon, <2>2, <3>1 DEF TakeFrame
  <2>7. Reused(mem, r, l, t)
    BY <2>1, <2>2, <2>4 DEF Reused, MarkEffect
  <2> QED BY <1>3, <2>5, <2>6, <2>7
<1> QED BY <1>2, <1>3

-----------------------------------------------------------------------------
(* _transferNNodes.  The chunks that move are the active ones from index d   *)
(* on (LastOnes): the walk back from the tail ends at the first of them, the *)
(* walk on from it meets each once.  Transferred gathers what the function   *)
(* does to every field of every chunk and list, and from it MemInv is shown  *)
(* for the list they leave, the list they join, and all others.              *)

(* The active chunks of a list by their position. *)

(* There is one at every index below numNodes, the tail at the last. *)
LEMMA IndexOnto ==
  ASSUME NEW m \in Mem, NEW l \in Lists, ShapeInv(m, l),
         NEW i \in Nat, i < m.list[l].numNodes
  PROVE  \E z \in Own(m, l) : m.node[z].active /\ m.node[z].index = i
<1> DEFINE N == m.list[l].numNodes
           t == m.list[l].tail
           P == {j \in Nat : j < N => \E z \in Own(m, l) :
                                 m.node[z].active /\ m.node[z].index + j = N - 1}
<1>1. /\ N \in Nat /\ NULL \notin Nodes /\ m.heap \subseteq Nodes
      /\ \A z \in Own(m, l) : m.node[z].index \in Nat
  BY MemTypes, ConstantsAssumption DEF Own
<1>2. 0 \in P
  <2> SUFFICES ASSUME 0 < N
               PROVE  \E z \in Own(m, l) : m.node[z].active /\ m.node[z].index + 0 = N - 1
    OBVIOUS
  <2>1. t \in Own(m, l) /\ m.node[t].active /\ N = m.node[t].index + 1
    BY DEF ShapeInv, EndsInv
  <2> QED BY <1>1, <2>1
<1>3. ASSUME NEW j \in Nat, j \in P PROVE j + 1 \in P
  <2> SUFFICES ASSUME j + 1 < N
               PROVE  \E z \in Own(m, l) : m.node[z].active /\ m.node[z].index + (j + 1) = N - 1
    OBVIOUS
  <2>1. j < N
    BY <1>1
  <2>2. PICK z \in Own(m, l) : m.node[z].active /\ m.node[z].index + j = N - 1
    BY <1>3, <2>1
  <2> DEFINE p == m.node[z].prev
  <2>3. ActiveNode(m, l, z)
    BY <2>2 DEF ShapeInv, ActiveInv
  <2>4. m.node[z].index # 0
    BY <1>1, <2>2
  <2>5. p \in Own(m, l) /\ m.node[p].active /\ m.node[z].index = m.node[p].index + 1
    BY <2>3, <2>4 DEF ActiveNode
  <2>6. m.node[p].index + (j + 1) = N - 1
    <3> DEFINE a == m.node[p].index
               b == m.node[z].index
    <3>1. a \in Nat /\ b = a + 1 /\ b + j = N - 1 /\ j \in Nat /\ N \in Nat
      BY <1>1, <2>2, <2>5
    <3> HIDE DEF a, b, N
    <3>2. a + (j + 1) = N - 1
      BY <3>1
    <3> QED BY <3>2 DEF a, N
  <2> QED BY <2>5, <2>6
<1> HIDE DEF P
<1>4. \A j \in Nat : j \in P
  BY <1>2, <1>3, NumberInduction
<1> DEFINE k == N - 1 - i
<1>5. k \in Nat /\ k < N /\ i + k = N - 1
  BY <1>1
<1> HIDE DEF k
<1>6. PICK z \in Own(m, l) : m.node[z].active /\ m.node[z].index + k = N - 1
  BY <1>4, <1>5 DEF P
<1>7. m.node[z].index = i
  BY <1>1, <1>5, <1>6
<1> QED BY <1>6, <1>7

AtIndex(m, l, i) ==
  CHOOSE z : z \in Own(m, l) /\ m.node[z].active /\ m.node[z].index = i

(* Chunk z is active at index i of list l. *)
IsAt(m, l, i, z) ==
  z \in Own(m, l) /\ m.node[z].active /\ m.node[z].index = i

(* An active list has exactly one active chunk with each number below      *)
(* numNodes.                                                               *)
LEMMA AtIndexIs ==
  ASSUME NEW m \in Mem, NEW l \in Lists, ShapeInv(m, l),
         NEW i \in Nat, i < m.list[l].numNodes
  PROVE  /\ IsAt(m, l, i, AtIndex(m, l, i))
         /\ \A z : IsAt(m, l, i, z) => z = AtIndex(m, l, i)
<1>1. \E z : z \in Own(m, l) /\ m.node[z].active /\ m.node[z].index = i
  BY IndexOnto
<1>2. IsAt(m, l, i, AtIndex(m, l, i))
  BY <1>1 DEF AtIndex, IsAt
<1>3. \A z : IsAt(m, l, i, z) => z = AtIndex(m, l, i)
  BY <1>2 DEF IsAt, ShapeInv, IndexInv
<1> QED BY <1>2, <1>3

(* Its neighbours in the list are its neighbours in the numbering. *)
LEMMA AtNeighbours ==
  ASSUME NEW m \in Mem, NEW l \in Lists, ShapeInv(m, l), NEW i \in Nat,
         NEW z, IsAt(m, l, i, z)
  PROVE  /\ i < m.list[l].numNodes
         /\ i = 0 => m.node[z].prev = NULL /\ m.list[l].head = z
         /\ i # 0 => IsAt(m, l, i - 1, m.node[z].prev)
         /\ i + 1 < m.list[l].numNodes => IsAt(m, l, i + 1, m.node[z].next)
         /\ i + 1 = m.list[l].numNodes => z = m.list[l].tail
<1> DEFINE p == m.node[z].prev
           x == m.node[z].next
           t == m.list[l].tail
           N == m.list[l].numNodes
<1>1. /\ ActiveNode(m, l, z) /\ z \in Own(m, l) /\ m.node[z].active
      /\ m.node[z].index = i
  BY DEF IsAt, ShapeInv, ActiveInv
<1>2. /\ NULL \notin Nodes /\ m.heap \subseteq Nodes /\ N \in Nat
      /\ \A y \in Own(m, l) : m.node[y].index \in Nat /\ y # NULL
  BY MemTypes, ConstantsAssumption DEF Own
<1>3. /\ t \in Own(m, l) /\ m.node[t].active /\ i <= m.node[t].index
      /\ N = m.node[t].index + 1
  BY <1>1 DEF ActiveNode, ShapeInv, EndsInv
<1>4. i < N
  BY <1>2, <1>3
<1>5. i = 0 => p = NULL /\ m.list[l].head = z
  <2>1. ASSUME p # NULL PROVE i = m.node[p].index + 1 /\ m.node[p].index \in Nat
    BY <1>1, <1>2, <2>1 DEF ActiveNode
  <2>2. i = 0 => p = NULL
    BY <2>1
  <2> QED BY <1>1, <2>2 DEF ActiveNode
<1>6. ASSUME i # 0 PROVE IsAt(m, l, i - 1, p)
  <2>1. p \in Own(m, l) /\ m.node[p].active /\ i = m.node[p].index + 1
    BY <1>1, <1>6 DEF ActiveNode
  <2>2. m.node[p].index = i - 1
    BY <1>2, <2>1
  <2> QED BY <2>1, <2>2 DEF IsAt
<1>7. i + 1 = N => z = t
  <2>1. ASSUME i + 1 = N PROVE m.node[t].index = i
    BY <1>2, <1>3, <2>1
  <2> QED BY <1>1, <1>3, <2>1 DEF ShapeInv, IndexInv
<1>8. ASSUME i + 1 < N PROVE IsAt(m, l, i + 1, x)
  <2>1. z # t
    BY <1>1, <1>2, <1>3, <1>8
  <2>2. x # NULL /\ m.node[x].active /\ x \in Own(m, l) /\ m.node[x].prev = z
    BY <1>1, <2>1 DEF ActiveNode, ShapeInv, LinksInv
  <2>3. m.node[x].index = i + 1
    <3>1. ActiveNode(m, l, x) /\ z # NULL
      BY <1>1, <1>2, <2>2 DEF ShapeInv, ActiveInv
    <3> QED BY <1>1, <2>2, <3>1 DEF ActiveNode
  <2> QED BY <2>2, <2>3 DEF IsAt
<1> QED BY <1>4, <1>5, <1>6, <1>7, <1>8

-----------------------------------------------------------------------------
(* _transferNNodes. *)

(* A walk back from the tail, as StartOfLast takes it. *)
IsWalkBack(back, m, k, from) ==
  back = [i \in 0..(k - 1) |->
            IF i = 0 THEN m.list[from].tail ELSE m.node[back[i - 1]].prev]

(* _transferNNodes, first loop: k - 1 steps back from the tail lead to the *)
(* chunk that is k from the end.                                           *)
LEMMA WalkBack ==
  ASSUME NEW m \in Mem, NEW from \in Lists, ShapeInv(m, from),
         NEW k \in Nat \ {0}, k <= m.list[from].numNodes
  PROVE  StartOfLast(m, k, from) = AtIndex(m, from, m.list[from].numNodes - k)
<1> DEFINE N == m.list[from].numNodes
           at(i) == AtIndex(m, from, N - 1 - i)
           walk == [i \in 0..(k - 1) |-> at(i)]
<1>1. N \in Nat
  BY MemTypes
<1>2. ASSUME NEW i \in 0..(k - 1)
      PROVE  IsAt(m, from, N - 1 - i, at(i))
  <2>1. N - 1 - i \in Nat /\ N - 1 - i < N
    BY <1>1
  <2> QED BY <2>1, AtIndexIs
<1>3. m.list[from].tail = at(0)
  <2>1. N - 1 - 0 \in Nat /\ N - 1 - 0 < N /\ (N - 1 - 0) + 1 = N /\ 0 \in 0..(k - 1)
    BY <1>1
  <2>2. IsAt(m, from, N - 1 - 0, at(0))
    BY <1>2, <2>1
  <2> QED BY <2>1, <2>2, AtNeighbours
<1>4. ASSUME NEW i \in 0..(k - 1), i # 0
      PROVE  m.node[at(i - 1)].prev = at(i)
  <2>1. /\ i - 1 \in 0..(k - 1) /\ N - 1 - (i - 1) \in Nat /\ N - 1 - (i - 1) # 0
        /\ (N - 1 - (i - 1)) - 1 = N - 1 - i /\ N - 1 - i \in Nat /\ N - 1 - i < N
    BY <1>1, <1>4
  <2>2. IsAt(m, from, N - 1 - (i - 1), at(i - 1))
    BY <1>2, <2>1
  <2> DEFINE x == at(i - 1)
             a == N - 1 - (i - 1)
             b == N - 1 - i
  <2> HIDE DEF x, a, b
  <2>3. IsAt(m, from, a, x) /\ a \in Nat /\ a # 0 /\ a - 1 = b
    BY <2>1, <2>2 DEF x, a, b
  <2>4. IsAt(m, from, b, m.node[x].prev)
    BY <2>3, AtNeighbours
  <2>5. b \in Nat /\ b < N
    BY <2>1 DEF b
  <2> HIDE DEF N
  <2>6. m.node[x].prev = AtIndex(m, from, b)
    BY <2>4, <2>5, AtIndexIs DEF N
  <2> QED BY <2>6 DEF x, b, N
<1>5. walk = [i \in 0..(k - 1) |->
                IF i = 0 THEN m.list[from].tail ELSE m.node[walk[i - 1]].prev]
  <2>1. ASSUME NEW i \in 0..(k - 1), i # 0 PROVE walk[i - 1] = at(i - 1)
    BY <2>1
  <2> HIDE DEF at
  <2>2. ASSUME NEW i \in 0..(k - 1)
        PROVE  at(i) = IF i = 0 THEN m.list[from].tail ELSE m.node[walk[i - 1]].prev
    <3>1. CASE i = 0
      BY <1>3, <3>1
    <3>2. CASE i # 0
      BY <1>4, <2>1, <3>2
    <3> QED BY <3>1, <3>2
  <2> QED BY <2>2
<1>6. IsWalkBack(walk, m, k, from)
  BY <1>5 DEF IsWalkBack
<1> HIDE DEF walk, at, N
<1>7. ASSUME NEW back, IsWalkBack(back, m, k, from)
      PROVE  back[k - 1] = at(k - 1)
  <2> DEFINE P == {i \in Nat : i < k => back[i] = at(i)}
  <2>1. 0 \in P
    BY <1>3, <1>7 DEF IsWalkBack
  <2>2. ASSUME NEW i \in Nat, i \in P PROVE i + 1 \in P
    <3> SUFFICES ASSUME i + 1 < k PROVE back[i + 1] = at(i + 1)
      OBVIOUS
    <3>1. i + 1 \in 0..(k - 1) /\ i + 1 # 0 /\ (i + 1) - 1 = i /\ i < k
      OBVIOUS
    <3>2. back[i + 1] = m.node[back[i]].prev
      BY <1>7, <3>1 DEF IsWalkBack
    <3>3. back[i] = at(i)
      BY <2>2, <3>1
    <3>4. m.node[at(i)].prev = at(i + 1)
      BY <1>4, <3>1
    <3> QED BY <3>2, <3>3, <3>4
  <2> HIDE DEF P
  <2>3. \A i \in Nat : i \in P
    BY <2>1, <2>2, NumberInduction
  <2>4. k - 1 \in Nat /\ k - 1 < k
    OBVIOUS
  <2> QED BY <2>3, <2>4 DEF P
<1>8. StartOfLast(m, k, from) =
         (CHOOSE back : IsWalkBack(back, m, k, from))[k - 1]
  BY DEF StartOfLast, IsWalkBack
<1>9. StartOfLast(m, k, from) = at(k - 1)
  BY <1>6, <1>7, <1>8
<1>10. N - 1 - (k - 1) = N - k
  BY <1>1
<1> QED BY <1>9, <1>10 DEF at, N

(* A walk on from start over k chunks, as ChunksFrom takes it. *)
IsWalkOn(fwd, c, start, k) ==
  fwd = [i \in 0..(k - 1) |->
           IF i = 0 THEN start ELSE c.node[fwd[i - 1]].next]

(* It meets the last k chunks of the list, whose links are as they were. *)
LEMMA WalkOn ==
  ASSUME NEW m \in Mem, NEW from \in Lists, ShapeInv(m, from),
         NEW k \in Nat \ {0}, k <= m.list[from].numNodes,
         NEW d \in Nat, d + k = m.list[from].numNodes,
         NEW c,
         \A z \in Own(m, from) :
           m.node[z].active /\ d <= m.node[z].index /\ z # m.list[from].tail
             => c.node[z].next = m.node[z].next
  PROVE  ChunksFrom(c, AtIndex(m, from, d), k) =
           [i \in 0..(k - 1) |-> AtIndex(m, from, d + i)]
<1> DEFINE N == m.list[from].numNodes
           at(i) == AtIndex(m, from, d + i)
           walk == [i \in 0..(k - 1) |-> at(i)]
<1>1. N \in Nat
  BY MemTypes
<1>2. ASSUME NEW i \in 0..(k - 1)
      PROVE  IsAt(m, from, d + i, at(i))
  <2>1. d + i \in Nat /\ d + i < N
    BY <1>1
  <2> QED BY <2>1, AtIndexIs
<1>3. at(0) = AtIndex(m, from, d)
  BY <1>1
<1>4. ASSUME NEW i \in 0..(k - 1), i # 0
      PROVE  c.node[at(i - 1)].next = at(i)
  <2> DEFINE x == at(i - 1)
             a == d + (i - 1)
             b == d + i
  <2>1. /\ i - 1 \in 0..(k - 1) /\ a \in Nat /\ a + 1 = b /\ b \in Nat /\ b < N
        /\ d <= a
    BY <1>1, <1>4
  <2>2. IsAt(m, from, a, x)
    BY <1>2, <2>1
  <2> HIDE DEF x, a, b, N
  <2>3. IsAt(m, from, b, m.node[x].next)
    BY <2>1, <2>2, AtNeighbours DEF N
  <2>4. m.node[x].next = AtIndex(m, from, b)
    BY <2>1, <2>3, AtIndexIs DEF N
  <2>5. x # m.list[from].tail
    <3>1. ShapeInv(m, from) /\ m.node[x].active /\ m.node[x].index = a
      BY <2>2 DEF IsAt
    <3>2. ASSUME x = m.list[from].tail PROVE N = a + 1
      BY <2>1, <3>1, <3>2 DEF ShapeInv, EndsInv, N
    <3> QED BY <1>1, <2>1, <3>2
  <2>6. c.node[x].next = m.node[x].next
    BY <2>1, <2>2, <2>5 DEF IsAt
  <2> QED BY <2>4, <2>6 DEF x, b
<1>5. IsWalkOn(walk, c, AtIndex(m, from, d), k)
  <2>1. ASSUME NEW i \in 0..(k - 1), i # 0 PROVE walk[i - 1] = at(i - 1)
    BY <2>1
  <2> HIDE DEF at
  <2>2. ASSUME NEW i \in 0..(k - 1)
        PROVE  at(i) = IF i = 0 THEN AtIndex(m, from, d) ELSE c.node[walk[i - 1]].next
    <3>1. CASE i = 0
      BY <1>3, <3>1
    <3>2. CASE i # 0
      BY <1>4, <2>1, <3>2
    <3> QED BY <3>1, <3>2
  <2> QED BY <2>2 DEF IsWalkOn
<1>6. walk = [i \in 0..(k - 1) |-> AtIndex(m, from, d + i)]
  OBVIOUS
<1>10. \A i \in 0..(k - 1) : walk[i] = at(i)
  OBVIOUS
<1> HIDE DEF walk, at, N
<1>7. ASSUME NEW fwd, IsWalkOn(fwd, c, AtIndex(m, from, d), k)
      PROVE  fwd = walk
  <2> DEFINE P == {i \in Nat : i < k => fwd[i] = at(i)}
  <2>1. 0 \in P
    BY <1>3, <1>7 DEF IsWalkOn
  <2>2. ASSUME NEW i \in Nat, i \in P PROVE i + 1 \in P
    <3> SUFFICES ASSUME i + 1 < k PROVE fwd[i + 1] = at(i + 1)
      OBVIOUS
    <3>1. i + 1 \in 0..(k - 1) /\ i + 1 # 0 /\ (i + 1) - 1 = i /\ i < k
      OBVIOUS
    <3>2. fwd[i + 1] = c.node[fwd[i]].next
      BY <1>7, <3>1 DEF IsWalkOn
    <3>3. fwd[i] = at(i)
      BY <2>2, <3>1
    <3>4. c.node[at(i)].next = at(i + 1)
      BY <1>4, <3>1
    <3> QED BY <3>2, <3>3, <3>4
  <2> HIDE DEF P
  <2>3. \A i \in Nat : i \in P
    BY <2>1, <2>2, NumberInduction
  <2>4. \A i \in 0..(k - 1) : fwd[i] = at(i)
    BY <2>3 DEF P
  <2>5. fwd = [i \in 0..(k - 1) |-> fwd[i]]
    BY <1>7 DEF IsWalkOn
  <2>6. walk = [i \in 0..(k - 1) |-> walk[i]]
    BY <1>6
  <2> QED BY <1>10, <2>4, <2>5, <2>6
<1>8. ChunksFrom(c, AtIndex(m, from, d), k) =
         CHOOSE fwd : IsWalkOn(fwd, c, AtIndex(m, from, d), k)
  BY DEF ChunksFrom, IsWalkOn
<1> QED BY <1>5, <1>6, <1>7, <1>8

-----------------------------------------------------------------------------
(* The pointer assignments of a transfer, one by one. *)

(* The fields they write, each as a function of the chunk or the list. *)
Nexts(m) == [z \in Nodes |-> m.node[z].next]
Prevs(m) == [z \in Nodes |-> m.node[z].prev]
Indices(m) == [z \in Nodes |-> m.node[z].index]
Heads(m) == [l \in Lists |-> m.list[l].head]
Tails(m) == [l \in Lists |-> m.list[l].tail]

Put(f, x, v) == [f EXCEPT ![x] = v]

(* What none of them writes. *)
Rewired(m, r) ==
  /\ r \in Mem
  /\ r.heap = m.heap
  /\ \A z \in Nodes : /\ r.node[z].slot = m.node[z].slot
                      /\ r.node[z].numElements = m.node[z].numElements
                      /\ r.node[z].firstKnownFree = m.node[z].firstKnownFree
                      /\ r.node[z].active = m.node[z].active
                      /\ r.node[z].threadList = m.node[z].threadList
                      /\ m.node[z].dirty => r.node[z].dirty
  /\ \A l \in Lists : /\ r.list[l].numElements = m.list[l].numElements
                      /\ r.list[l].numNodes = m.list[l].numNodes

(* Writes that only touch pointers and indices compose.                    *)
LEMMA RewiredTransitive ==
  ASSUME NEW m, NEW f, NEW r, Rewired(m, f), Rewired(f, r)
  PROVE  Rewired(m, r)
BY DEF Rewired

(* A step that gives one chunk a new record that differs in its links only. *)
SameContent(x, y) ==
  /\ y.slot = x.slot /\ y.numElements = x.numElements
  /\ y.firstKnownFree = x.firstKnownFree /\ y.active = x.active
  /\ y.threadList = x.threadList /\ (x.dirty => y.dirty)

(* A write of one chunk that leaves its contents alone leaves all contents *)
(* alone.                                                                  *)
LEMMA RelinkNode ==
  ASSUME NEW m \in Mem, NEW n \in Nodes, NEW x \in NodeRecord,
         SameContent(m.node[n], x), NEW r, r = PutNode(m, n, x)
  PROVE  /\ Rewired(m, r) /\ r.node[n] = x
         /\ \A z \in Nodes \ {n} : r.node[z] = m.node[z]
         /\ Heads(r) = Heads(m) /\ Tails(r) = Tails(m)
<1>1. /\ r \in Mem /\ r.heap = m.heap /\ r.list = m.list
      /\ r.node[n] = x
      /\ \A z \in Nodes \ {n} : r.node[z] = m.node[z]
  BY SetNode
<1>2. Rewired(m, r)
  BY <1>1 DEF Rewired, SameContent
<1> QED BY <1>1, <1>2 DEF Heads, Tails

(* What the assignment to a chunk's next writes.                           *)
LEMMA SetNextIs ==
  ASSUME NEW m \in Mem, NEW n \in Nodes, NEW v \in Ptr, NEW r, r = SetNext(m, n, v)
  PROVE  /\ Rewired(m, r)
         /\ Nexts(r) = Put(Nexts(m), n, v) /\ Prevs(r) = Prevs(m)
         /\ Indices(r) = Indices(m) /\ Heads(r) = Heads(m) /\ Tails(r) = Tails(m)
<1> DEFINE x == [m.node[n] EXCEPT !.next = v]
<1>1. m.node[n] \in NodeRecord
  BY MemTypes
<1>2. /\ x \in NodeRecord /\ SameContent(m.node[n], x)
      /\ x.next = v /\ x.prev = m.node[n].prev /\ x.index = m.node[n].index
  BY <1>1 DEF NodeRecord, SameContent
<1>3. r = PutNode(m, n, x)
  BY DEF SetNext, PutNode, Mem
<1> HIDE DEF x
<1>4. /\ Rewired(m, r) /\ r.node[n] = x
      /\ \A z \in Nodes \ {n} : r.node[z] = m.node[z]
      /\ Heads(r) = Heads(m) /\ Tails(r) = Tails(m)
  BY <1>2, <1>3, RelinkNode
<1>5. Nexts(r) = Put(Nexts(m), n, v)
  BY <1>2, <1>4 DEF Nexts, Put
<1>6. Prevs(r) = Prevs(m)
  BY <1>2, <1>4 DEF Prevs
<1>7. Indices(r) = Indices(m)
  BY <1>2, <1>4 DEF Indices
<1> QED BY <1>4, <1>5, <1>6, <1>7

(* What the assignment to a chunk's prev writes.                           *)
LEMMA SetPrevIs ==
  ASSUME NEW m \in Mem, NEW n \in Nodes, NEW v \in Ptr, NEW r, r = SetPrev(m, n, v)
  PROVE  /\ Rewired(m, r)
         /\ Nexts(r) = Nexts(m) /\ Prevs(r) = Put(Prevs(m), n, v)
         /\ Indices(r) = Indices(m) /\ Heads(r) = Heads(m) /\ Tails(r) = Tails(m)
<1> DEFINE x == [m.node[n] EXCEPT !.prev = v]
<1>1. m.node[n] \in NodeRecord
  BY MemTypes
<1>2. /\ x \in NodeRecord /\ SameContent(m.node[n], x)
      /\ x.next = m.node[n].next /\ x.prev = v /\ x.index = m.node[n].index
  BY <1>1 DEF NodeRecord, SameContent
<1>3. r = PutNode(m, n, x)
  BY DEF SetPrev, PutNode, Mem
<1> HIDE DEF x
<1>4. /\ Rewired(m, r) /\ r.node[n] = x
      /\ \A z \in Nodes \ {n} : r.node[z] = m.node[z]
      /\ Heads(r) = Heads(m) /\ Tails(r) = Tails(m)
  BY <1>2, <1>3, RelinkNode
<1>5. Prevs(r) = Put(Prevs(m), n, v)
  BY <1>2, <1>4 DEF Prevs, Put
<1>6. Nexts(r) = Nexts(m)
  BY <1>2, <1>4 DEF Nexts
<1>7. Indices(r) = Indices(m)
  BY <1>2, <1>4 DEF Indices
<1> QED BY <1>4, <1>5, <1>6, <1>7

(* What the assignment to a chunk's index writes.                          *)
LEMMA SetIndexIs ==
  ASSUME NEW m \in Mem, NEW n \in Nodes, NEW i \in Nat, NEW r, r = SetIndex(m, n, i)
  PROVE  /\ Rewired(m, r)
         /\ Nexts(r) = Nexts(m) /\ Prevs(r) = Prevs(m)
         /\ Indices(r) = Put(Indices(m), n, i)
         /\ Heads(r) = Heads(m) /\ Tails(r) = Tails(m)
<1> DEFINE x == [m.node[n] EXCEPT !.index = i]
<1>1. m.node[n] \in NodeRecord
  BY MemTypes
<1>2. /\ x \in NodeRecord /\ SameContent(m.node[n], x)
      /\ x.next = m.node[n].next /\ x.prev = m.node[n].prev /\ x.index = i
  BY <1>1 DEF NodeRecord, SameContent
<1>3. r = PutNode(m, n, x)
  BY DEF SetIndex, PutNode, Mem
<1> HIDE DEF x
<1>4. /\ Rewired(m, r) /\ r.node[n] = x
      /\ \A z \in Nodes \ {n} : r.node[z] = m.node[z]
      /\ Heads(r) = Heads(m) /\ Tails(r) = Tails(m)
  BY <1>2, <1>3, RelinkNode
<1>5. Indices(r) = Put(Indices(m), n, i)
  BY <1>2, <1>4 DEF Indices, Put
<1>6. Nexts(r) = Nexts(m)
  BY <1>2, <1>4 DEF Nexts
<1>7. Prevs(r) = Prevs(m)
  BY <1>2, <1>4 DEF Prevs
<1> QED BY <1>4, <1>5, <1>6, <1>7

(* Marking a chunk for compaction writes no pointer.                       *)
LEMMA SetDirtyIs ==
  ASSUME NEW m \in Mem, NEW n \in Nodes, NEW r, r = SetDirty(m, n)
  PROVE  /\ Rewired(m, r)
         /\ Nexts(r) = Nexts(m) /\ Prevs(r) = Prevs(m)
         /\ Indices(r) = Indices(m) /\ Heads(r) = Heads(m) /\ Tails(r) = Tails(m)
<1> DEFINE x == [m.node[n] EXCEPT !.dirty = TRUE]
<1>1. m.node[n] \in NodeRecord
  BY MemTypes
<1>2. /\ x \in NodeRecord /\ SameContent(m.node[n], x)
      /\ x.next = m.node[n].next /\ x.prev = m.node[n].prev
      /\ x.index = m.node[n].index
  BY <1>1 DEF NodeRecord, SameContent
<1>3. r = PutNode(m, n, x)
  BY DEF SetDirty, PutNode, Mem
<1> HIDE DEF x
<1>4. /\ Rewired(m, r) /\ r.node[n] = x
      /\ \A z \in Nodes \ {n} : r.node[z] = m.node[z]
      /\ Heads(r) = Heads(m) /\ Tails(r) = Tails(m)
  BY <1>2, <1>3, RelinkNode
<1>5. Indices(r) = Indices(m)
  BY <1>2, <1>4 DEF Indices
<1>6. Nexts(r) = Nexts(m)
  BY <1>2, <1>4 DEF Nexts
<1>7. Prevs(r) = Prevs(m)
  BY <1>2, <1>4 DEF Prevs
<1> QED BY <1>4, <1>5, <1>6, <1>7

(* A step that gives one list a new header. *)
PutList(m, l, y) == [m EXCEPT !.list[l] = y]

(* What a write of one list header leaves to read.                         *)
LEMMA SetList ==
  ASSUME NEW m \in Mem, NEW l \in Lists, NEW y \in ListRecord,
         NEW r, r = PutList(m, l, y)
  PROVE  /\ r \in Mem /\ r.heap = m.heap /\ r.node = m.node
         /\ r.list[l] = y
         /\ \A k \in Lists \ {l} : r.list[k] = m.list[k]
<1> DEFINE L == [m.list EXCEPT ![l] = y]
<1>1. m.list \in [Lists -> ListRecord] /\ m.heap \in SUBSET Nodes /\ m.node \in [Nodes -> NodeRecord]
  BY DEF Mem
<1>2. L \in [Lists -> ListRecord] /\ L[l] = y /\ \A k \in Lists \ {l} : L[k] = m.list[k]
  BY <1>1
<1>3. r = [heap |-> m.heap, node |-> m.node, list |-> L]
  BY DEF PutList, Mem
<1> HIDE DEF L
<1>4. IsRecord(r) /\ r.heap = m.heap /\ r.node = m.node /\ r.list = L
  BY <1>3 DEF IsRecord
<1>5. r \in Mem
  BY <1>1, <1>2, <1>4, MemRecord
<1> QED BY <1>2, <1>4, <1>5

(* What the assignment to a list's head writes.                            *)
LEMMA SetHeadIs ==
  ASSUME NEW m \in Mem, NEW l \in Lists, NEW v \in Ptr, NEW r, r = SetHead(m, l, v)
  PROVE  /\ Rewired(m, r)
         /\ Nexts(r) = Nexts(m) /\ Prevs(r) = Prevs(m)
         /\ Indices(r) = Indices(m)
         /\ Heads(r) = Put(Heads(m), l, v) /\ Tails(r) = Tails(m)
<1> DEFINE y == [m.list[l] EXCEPT !.head = v]
<1>1. m.list[l] \in ListRecord
  BY MemTypes
<1>2. /\ y \in ListRecord /\ y.head = v /\ y.tail = m.list[l].tail
      /\ y.numElements = m.list[l].numElements /\ y.numNodes = m.list[l].numNodes
  BY <1>1 DEF ListRecord
<1>3. r = PutList(m, l, y)
  BY DEF SetHead, PutList, Mem
<1> HIDE DEF y
<1>4. /\ r \in Mem /\ r.heap = m.heap /\ r.node = m.node
      /\ r.list[l] = y
      /\ \A k \in Lists \ {l} : r.list[k] = m.list[k]
  BY <1>2, <1>3, SetList
<1>5. Heads(r) = Put(Heads(m), l, v) /\ Tails(r) = Tails(m)
  BY <1>2, <1>4 DEF Heads, Tails, Put
<1>6. Rewired(m, r)
  BY <1>2, <1>4 DEF Rewired
<1> QED BY <1>4, <1>5, <1>6 DEF Nexts, Prevs, Indices

(* What the assignment to a list's tail writes.                            *)
LEMMA SetTailIs ==
  ASSUME NEW m \in Mem, NEW l \in Lists, NEW v \in Ptr, NEW r, r = SetTail(m, l, v)
  PROVE  /\ Rewired(m, r)
         /\ Nexts(r) = Nexts(m) /\ Prevs(r) = Prevs(m)
         /\ Indices(r) = Indices(m)
         /\ Heads(r) = Heads(m) /\ Tails(r) = Put(Tails(m), l, v)
<1> DEFINE y == [m.list[l] EXCEPT !.tail = v]
<1>1. m.list[l] \in ListRecord
  BY MemTypes
<1>2. /\ y \in ListRecord /\ y.tail = v /\ y.head = m.list[l].head
      /\ y.numElements = m.list[l].numElements /\ y.numNodes = m.list[l].numNodes
  BY <1>1 DEF ListRecord
<1>3. r = PutList(m, l, y)
  BY DEF SetTail, PutList, Mem
<1> HIDE DEF y
<1>4. /\ r \in Mem /\ r.heap = m.heap /\ r.node = m.node
      /\ r.list[l] = y
      /\ \A k \in Lists \ {l} : r.list[k] = m.list[k]
  BY <1>2, <1>3, SetList
<1>5. Heads(r) = Heads(m) /\ Tails(r) = Put(Tails(m), l, v)
  BY <1>2, <1>4 DEF Heads, Tails, Put
<1>6. Rewired(m, r)
  BY <1>2, <1>4 DEF Rewired
<1> QED BY <1>4, <1>5, <1>6 DEF Nexts, Prevs, Indices

(* The chunks from s to e are spliced in behind the active ones of list to, *)
(* of which t is the last and x the one behind it.                          *)
ActiveTail(m, t) == t # NULL /\ m.node[t].active
IdleTail(m, t) == t # NULL /\ ~m.node[t].active

SpliceEffect(m, r, s, e, to, t, x) ==
  /\ Rewired(m, r)
  /\ \A z \in Nodes :
       /\ r.node[z].next = IF ActiveTail(m, t) /\ z = t THEN s
                           ELSE IF z # e THEN m.node[z].next
                           ELSE IF ActiveTail(m, t) THEN x ELSE t
       /\ r.node[z].prev = IF ActiveTail(m, t) /\ x # NULL /\ z = x THEN e
                           ELSE IF IdleTail(m, t) /\ z = t THEN e
                           ELSE IF z # s THEN m.node[z].prev
                           ELSE IF ActiveTail(m, t) THEN t ELSE NULL
       /\ ~(IdleTail(m, t) /\ z = t) => r.node[z].index = m.node[z].index
  /\ \A l \in Lists :
       /\ r.list[l].tail = m.list[l].tail
       /\ r.list[l].head = IF l = to /\ ~ActiveTail(m, t) THEN s
                           ELSE m.list[l].head


(* The next pointers after one assignment to a next.                       *)
LEMMA ReadNext ==
  ASSUME NEW m, NEW r, NEW x, NEW v, Nexts(r) = Put(Nexts(m), x, v),
         NEW z \in Nodes
  PROVE  r.node[z].next = IF z = x THEN v ELSE m.node[z].next
<1>1. Nexts(r)[z] = IF z = x THEN v ELSE Nexts(m)[z]
  BY DEF Nexts, Put
<1> QED BY <1>1 DEF Nexts

(* The next pointers after an assignment to something else.                *)
LEMMA SameNext ==
  ASSUME NEW m, NEW r, Nexts(r) = Nexts(m), NEW z \in Nodes
  PROVE  r.node[z].next = m.node[z].next
<1>1. Nexts(r)[z] = Nexts(m)[z]
  OBVIOUS
<1> QED BY <1>1 DEF Nexts

(* The prev pointers after one assignment to a prev.                       *)
LEMMA ReadPrev ==
  ASSUME NEW m, NEW r, NEW x, NEW v, Prevs(r) = Put(Prevs(m), x, v),
         NEW z \in Nodes
  PROVE  r.node[z].prev = IF z = x THEN v ELSE m.node[z].prev
<1>1. Prevs(r)[z] = IF z = x THEN v ELSE Prevs(m)[z]
  BY DEF Prevs, Put
<1> QED BY <1>1 DEF Prevs

(* The prev pointers after an assignment to something else.                *)
LEMMA SamePrev ==
  ASSUME NEW m, NEW r, Prevs(r) = Prevs(m), NEW z \in Nodes
  PROVE  r.node[z].prev = m.node[z].prev
<1>1. Prevs(r)[z] = Prevs(m)[z]
  OBVIOUS
<1> QED BY <1>1 DEF Prevs

(* The indices after one assignment to an index.                           *)
LEMMA ReadIndex ==
  ASSUME NEW m, NEW r, NEW x, NEW v, Indices(r) = Put(Indices(m), x, v),
         NEW z \in Nodes
  PROVE  r.node[z].index = IF z = x THEN v ELSE m.node[z].index
<1>1. Indices(r)[z] = IF z = x THEN v ELSE Indices(m)[z]
  BY DEF Indices, Put
<1> QED BY <1>1 DEF Indices

(* The indices after an assignment to something else.                      *)
LEMMA SameIndex ==
  ASSUME NEW m, NEW r, Indices(r) = Indices(m), NEW z \in Nodes
  PROVE  r.node[z].index = m.node[z].index
<1>1. Indices(r)[z] = Indices(m)[z]
  OBVIOUS
<1> QED BY <1>1 DEF Indices

(* The heads after one assignment to a head.                               *)
LEMMA ReadHead ==
  ASSUME NEW m, NEW r, NEW x, NEW v, Heads(r) = Put(Heads(m), x, v),
         NEW l \in Lists
  PROVE  r.list[l].head = IF l = x THEN v ELSE m.list[l].head
<1>1. Heads(r)[l] = IF l = x THEN v ELSE Heads(m)[l]
  BY DEF Heads, Put
<1> QED BY <1>1 DEF Heads

(* The heads after an assignment to something else.                        *)
LEMMA SameHead ==
  ASSUME NEW m, NEW r, Heads(r) = Heads(m), NEW l \in Lists
  PROVE  r.list[l].head = m.list[l].head
<1>1. Heads(r)[l] = Heads(m)[l]
  OBVIOUS
<1> QED BY <1>1 DEF Heads

(* The tails after one assignment to a tail.                               *)
LEMMA ReadTail ==
  ASSUME NEW m, NEW r, NEW x, NEW v, Tails(r) = Put(Tails(m), x, v),
         NEW l \in Lists
  PROVE  r.list[l].tail = IF l = x THEN v ELSE m.list[l].tail
<1>1. Tails(r)[l] = IF l = x THEN v ELSE Tails(m)[l]
  BY DEF Tails, Put
<1> QED BY <1>1 DEF Tails

(* The tails after an assignment to something else.                        *)
LEMMA SameTail ==
  ASSUME NEW m, NEW r, Tails(r) = Tails(m), NEW l \in Lists
  PROVE  r.list[l].tail = m.list[l].tail
<1>1. Tails(r)[l] = Tails(m)[l]
  OBVIOUS
<1> QED BY <1>1 DEF Tails

(* The next pointers after two assignments; the later one counts.          *)
LEMMA ReadNextTwice ==
  ASSUME NEW m, NEW r, NEW x, NEW v, NEW y, NEW w,
         Nexts(r) = Put(Put(Nexts(m), x, v), y, w), NEW z \in Nodes
  PROVE  r.node[z].next = IF z = y THEN w ELSE IF z = x THEN v
                          ELSE m.node[z].next
<1> DEFINE g == Put(Nexts(m), x, v)
<1>1. g[z] = (IF z = x THEN v ELSE Nexts(m)[z]) /\ g = [u \in Nodes |-> g[u]]
  BY DEF Nexts, Put
<1>2. Nexts(r) = Put(g, y, w)
  OBVIOUS
<1> HIDE DEF g
<1>3. Nexts(r)[z] = IF z = y THEN w ELSE g[z]
  BY <1>1, <1>2 DEF Put
<1> QED BY <1>1, <1>3 DEF Nexts

(* The prev pointers after two assignments; the later one counts.          *)
LEMMA ReadPrevTwice ==
  ASSUME NEW m, NEW r, NEW x, NEW v, NEW y, NEW w,
         Prevs(r) = Put(Put(Prevs(m), x, v), y, w), NEW z \in Nodes
  PROVE  r.node[z].prev = IF z = y THEN w ELSE IF z = x THEN v
                          ELSE m.node[z].prev
<1> DEFINE g == Put(Prevs(m), x, v)
<1>1. g[z] = (IF z = x THEN v ELSE Prevs(m)[z]) /\ g = [u \in Nodes |-> g[u]]
  BY DEF Prevs, Put
<1>2. Prevs(r) = Put(g, y, w)
  OBVIOUS
<1> HIDE DEF g
<1>3. Prevs(r)[z] = IF z = y THEN w ELSE g[z]
  BY <1>1, <1>2 DEF Put
<1> QED BY <1>1, <1>3 DEF Prevs

(* The two ways the chunks get linked in: as the head of the list, in front *)
(* of its tail t, or behind its active tail t.                              *)
Written(m, r, nexts, prevs, indices, heads) ==
  /\ Rewired(m, r)
  /\ Nexts(r) = nexts /\ Prevs(r) = prevs /\ Indices(r) = indices
  /\ Heads(r) = heads /\ Tails(r) = Tails(m)

AsHead(m, s, e, to, t) ==
  SetPrev(SetNext(SetHead(m, to, s), e, t), s, NULL)

(* Splicing in front of an inactive or missing tail: the chunks become the *)
(* head of the list.                                                       *)
LEMMA AsHeadFields ==
  ASSUME NEW m \in Mem, NEW s \in Nodes, NEW e \in Nodes, NEW to \in Lists,
         NEW t \in Ptr, NEW r, r = AsHead(m, s, e, to, t)
  PROVE  Written(m, r, Put(Nexts(m), e, t), Put(Prevs(m), s, NULL), Indices(m),
                 Put(Heads(m), to, s))
<1>0. PICK headed, closed : /\ headed = SetHead(m, to, s)
                            /\ closed = SetNext(headed, e, t)
                            /\ r = SetPrev(closed, s, NULL)
  BY DEF AsHead
<1>1. s \in Ptr /\ NULL \in Ptr
  BY DEF Ptr
<1>2. /\ Rewired(m, headed) /\ Nexts(headed) = Nexts(m)
      /\ Prevs(headed) = Prevs(m) /\ Indices(headed) = Indices(m)
      /\ Heads(headed) = Put(Heads(m), to, s) /\ Tails(headed) = Tails(m)
  BY <1>0, <1>1, SetHeadIs
<1>3. headed \in Mem
  BY <1>2 DEF Rewired
<1>4. /\ Rewired(headed, closed) /\ Nexts(closed) = Put(Nexts(headed), e, t)
      /\ Prevs(closed) = Prevs(headed) /\ Indices(closed) = Indices(headed)
      /\ Heads(closed) = Heads(headed) /\ Tails(closed) = Tails(headed)
  BY <1>0, <1>3, SetNextIs
<1>5. closed \in Mem
  BY <1>4 DEF Rewired
<1>6. /\ Rewired(closed, r) /\ Nexts(r) = Nexts(closed)
      /\ Prevs(r) = Put(Prevs(closed), s, NULL)
      /\ Indices(r) = Indices(closed)
      /\ Heads(r) = Heads(closed) /\ Tails(r) = Tails(closed)
  BY <1>0, <1>1, <1>5, SetPrevIs
<1>7. Rewired(m, r)
  BY <1>2, <1>4, <1>6, RewiredTransitive
<1> QED BY <1>2, <1>4, <1>6, <1>7 DEF Written

BehindTail(m, s, e, t, x) ==
  SetPrev(SetDirty(SetNext(SetNext(m, e, x), t, s), t), s, t)

(* Splicing behind an active tail, whose next may be an inactive chunk.    *)
LEMMA BehindTailFields ==
  ASSUME NEW m \in Mem, NEW s \in Nodes, NEW e \in Nodes,
         NEW t \in Nodes, NEW x \in Ptr, NEW r, r = BehindTail(m, s, e, t, x)
  PROVE  Written(m, r, Put(Put(Nexts(m), e, x), t, s), Put(Prevs(m), s, t),
                 Indices(m), Heads(m))
<1>0. PICK chained, linked, marked :
        /\ chained = SetNext(m, e, x)
        /\ linked = SetNext(chained, t, s)
        /\ marked = SetDirty(linked, t)
        /\ r = SetPrev(marked, s, t)
  BY DEF BehindTail
<1>1. s \in Ptr /\ t \in Ptr
  BY DEF Ptr
<1>2. /\ Rewired(m, chained) /\ Nexts(chained) = Put(Nexts(m), e, x)
      /\ Prevs(chained) = Prevs(m) /\ Indices(chained) = Indices(m)
      /\ Heads(chained) = Heads(m) /\ Tails(chained) = Tails(m)
  BY <1>0, SetNextIs
<1>3. chained \in Mem
  BY <1>2 DEF Rewired
<1>4. /\ Rewired(chained, linked) /\ Nexts(linked) = Put(Nexts(chained), t, s)
      /\ Prevs(linked) = Prevs(chained) /\ Indices(linked) = Indices(chained)
      /\ Heads(linked) = Heads(chained) /\ Tails(linked) = Tails(chained)
  BY <1>0, <1>1, <1>3, SetNextIs
<1>5. linked \in Mem
  BY <1>4 DEF Rewired
<1>6. /\ Rewired(linked, marked) /\ Nexts(marked) = Nexts(linked)
      /\ Prevs(marked) = Prevs(linked) /\ Indices(marked) = Indices(linked)
      /\ Heads(marked) = Heads(linked) /\ Tails(marked) = Tails(linked)
  BY <1>0, <1>5, SetDirtyIs
<1>7. marked \in Mem
  BY <1>6 DEF Rewired
<1>8. /\ Rewired(marked, r) /\ Nexts(r) = Nexts(marked)
      /\ Prevs(r) = Put(Prevs(marked), s, t)
      /\ Indices(r) = Indices(marked)
      /\ Heads(r) = Heads(marked) /\ Tails(r) = Tails(marked)
  BY <1>0, <1>1, <1>7, SetPrevIs
<1>9. Rewired(m, linked)
  BY <1>2, <1>4, RewiredTransitive
<1>10. Rewired(m, r)
  BY <1>6, <1>8, <1>9, RewiredTransitive
<1> QED BY <1>2, <1>4, <1>6, <1>8, <1>10 DEF Written

(* The three branches of the splice in _transferNNodes.                    *)
LEMMA SpliceCases ==
  ASSUME NEW m, NEW s, NEW e, NEW to
  PROVE  LET t == m.list[to].tail
             x == m.node[t].next
         IN  SpliceIn(m, s, e, to) =
               IF t = NULL THEN AsHead(m, s, e, to, t)
               ELSE IF ~m.node[t].active
               THEN SetIndex(SetPrev(AsHead(m, s, e, to, t), t, e), t,
                             m.node[e].index + 1)
               ELSE IF x = NULL THEN BehindTail(m, s, e, t, x)
               ELSE SetPrev(BehindTail(m, s, e, t, x), x, e)
BY DEF SpliceIn, AsHead, BehindTail

(* In front of an idle tail. *)
LEMMA BeforeIdleFields ==
  ASSUME NEW m \in Mem, NEW s \in Nodes, NEW e \in Nodes, NEW to \in Lists,
         NEW t \in Nodes, NEW i \in Nat,
         NEW r, r = SetIndex(SetPrev(AsHead(m, s, e, to, t), t, e), t, i)
  PROVE  Written(m, r, Put(Nexts(m), e, t), Put(Put(Prevs(m), s, NULL), t, e),
                 Put(Indices(m), t, i), Put(Heads(m), to, s))
<1>0. PICK asHead, turned : /\ asHead = AsHead(m, s, e, to, t)
                            /\ turned = SetPrev(asHead, t, e)
                            /\ r = SetIndex(turned, t, i)
  OBVIOUS
<1>1. t \in Ptr /\ e \in Ptr
  BY DEF Ptr
<1>2. Written(m, asHead, Put(Nexts(m), e, t), Put(Prevs(m), s, NULL), Indices(m),
              Put(Heads(m), to, s))
  BY <1>0, <1>1, AsHeadFields
<1>3. asHead \in Mem
  BY <1>2 DEF Written, Rewired
<1>4. /\ Rewired(asHead, turned) /\ Nexts(turned) = Nexts(asHead)
      /\ Prevs(turned) = Put(Prevs(asHead), t, e)
      /\ Indices(turned) = Indices(asHead)
      /\ Heads(turned) = Heads(asHead) /\ Tails(turned) = Tails(asHead)
  BY <1>0, <1>1, <1>3, SetPrevIs
<1>5. turned \in Mem
  BY <1>4 DEF Rewired
<1>6. /\ Rewired(turned, r) /\ Nexts(r) = Nexts(turned) /\ Prevs(r) = Prevs(turned)
      /\ Indices(r) = Put(Indices(turned), t, i)
      /\ Heads(r) = Heads(turned) /\ Tails(r) = Tails(turned)
  BY <1>0, <1>5, SetIndexIs
<1>7. Rewired(m, r)
  BY <1>2, <1>4, <1>6, RewiredTransitive DEF Written
<1> QED BY <1>2, <1>4, <1>6, <1>7 DEF Written

(* Between an active tail and the idle chunk behind it. *)
LEMMA BetweenFields ==
  ASSUME NEW m \in Mem, NEW s \in Nodes, NEW e \in Nodes,
         NEW t \in Nodes, NEW x \in Nodes,
         NEW r, r = SetPrev(BehindTail(m, s, e, t, x), x, e)
  PROVE  Written(m, r, Put(Put(Nexts(m), e, x), t, s),
                 Put(Put(Prevs(m), s, t), x, e), Indices(m), Heads(m))
<1>0. PICK behind : /\ behind = BehindTail(m, s, e, t, x)
                    /\ r = SetPrev(behind, x, e)
  OBVIOUS
<1>1. x \in Ptr /\ e \in Ptr
  BY DEF Ptr
<1>2. Written(m, behind, Put(Put(Nexts(m), e, x), t, s), Put(Prevs(m), s, t),
              Indices(m), Heads(m))
  BY <1>0, <1>1, BehindTailFields
<1>3. behind \in Mem
  BY <1>2 DEF Written, Rewired
<1>4. /\ Rewired(behind, r) /\ Nexts(r) = Nexts(behind)
      /\ Prevs(r) = Put(Prevs(behind), x, e) /\ Indices(r) = Indices(behind)
      /\ Heads(r) = Heads(behind) /\ Tails(r) = Tails(behind)
  BY <1>0, <1>1, <1>3, SetPrevIs
<1>5. Rewired(m, r)
  BY <1>2, <1>4, RewiredTransitive DEF Written
<1> QED BY <1>2, <1>4, <1>5 DEF Written

(* What the splice writes, in all branches.                                *)
LEMMA SpliceFields ==
  ASSUME NEW m \in Mem, NEW s \in Nodes, NEW e \in Nodes, NEW to \in Lists,
         NEW r, r = SpliceIn(m, s, e, to)
  PROVE  LET t == m.list[to].tail
             x == m.node[t].next
         IN  SpliceEffect(m, r, s, e, to, t, x)
<1>0. PICK t, x, i : t = m.list[to].tail /\ x = m.node[t].next /\ i = m.node[e].index + 1
  OBVIOUS
<1>1. /\ t \in Ptr /\ (t # NULL => t \in Nodes /\ x \in Ptr)
      /\ (t # NULL /\ x # NULL => x \in Nodes) /\ i \in Nat
  <2>1. t \in Ptr /\ m.node[e].index \in Nat
    BY <1>0, MemTypes
  <2>2. t # NULL => t \in Nodes /\ x \in Ptr
    BY <1>0, <2>1, MemTypes DEF Ptr
  <2> QED BY <1>0, <2>1, <2>2 DEF Ptr
<1>2. /\ t = NULL => r = AsHead(m, s, e, to, t)
      /\ t # NULL /\ ~m.node[t].active
           => r = SetIndex(SetPrev(AsHead(m, s, e, to, t), t, e), t, i)
      /\ t # NULL /\ m.node[t].active /\ x = NULL => r = BehindTail(m, s, e, t, x)
      /\ t # NULL /\ m.node[t].active /\ x # NULL
           => r = SetPrev(BehindTail(m, s, e, t, x), x, e)
  BY <1>0, SpliceCases
<1>3. SpliceEffect(m, r, s, e, to, t, x)
  <2>1. CASE t = NULL
    <3>1. Written(m, r, Put(Nexts(m), e, t), Put(Prevs(m), s, NULL), Indices(m),
                  Put(Heads(m), to, s))
      BY <1>1, <1>2, <2>1, AsHeadFields
    <3>2. ASSUME NEW z \in Nodes
          PROVE  /\ r.node[z].next = IF z = e THEN t ELSE m.node[z].next
                 /\ r.node[z].prev = IF z = s THEN NULL ELSE m.node[z].prev
                 /\ r.node[z].index = m.node[z].index
      BY <3>1, ReadNext, ReadPrev, SameIndex DEF Written
    <3>3. ASSUME NEW l \in Lists
          PROVE  /\ r.list[l].tail = m.list[l].tail
                 /\ r.list[l].head = IF l = to THEN s ELSE m.list[l].head
      BY <3>1, ReadHead, SameTail DEF Written
    <3> QED BY <2>1, <3>1, <3>2, <3>3
               DEF SpliceEffect, ActiveTail, IdleTail, Written
  <2>2. CASE t # NULL /\ ~m.node[t].active
    <3>1. Written(m, r, Put(Nexts(m), e, t), Put(Put(Prevs(m), s, NULL), t, e),
                  Put(Indices(m), t, i), Put(Heads(m), to, s))
      BY <1>1, <1>2, <2>2, BeforeIdleFields
    <3>2. ASSUME NEW z \in Nodes
          PROVE  /\ r.node[z].next = IF z = e THEN t ELSE m.node[z].next
                 /\ r.node[z].prev = IF z = t THEN e ELSE IF z = s THEN NULL
                                     ELSE m.node[z].prev
                 /\ r.node[z].index = IF z = t THEN i ELSE m.node[z].index
      BY <3>1, ReadNext, ReadPrevTwice, ReadIndex DEF Written
    <3>3. ASSUME NEW l \in Lists
          PROVE  /\ r.list[l].tail = m.list[l].tail
                 /\ r.list[l].head = IF l = to THEN s ELSE m.list[l].head
      BY <3>1, ReadHead, SameTail DEF Written
    <3> QED BY <2>2, <3>1, <3>2, <3>3
               DEF SpliceEffect, ActiveTail, IdleTail, Written
  <2>3. CASE t # NULL /\ m.node[t].active /\ x = NULL
    <3>1. Written(m, r, Put(Put(Nexts(m), e, x), t, s), Put(Prevs(m), s, t),
                  Indices(m), Heads(m))
      BY <1>1, <1>2, <2>3, BehindTailFields
    <3>2. ASSUME NEW z \in Nodes
          PROVE  /\ r.node[z].next = IF z = t THEN s ELSE IF z = e THEN x
                                     ELSE m.node[z].next
                 /\ r.node[z].prev = IF z = s THEN t ELSE m.node[z].prev
                 /\ r.node[z].index = m.node[z].index
      BY <3>1, ReadNextTwice, ReadPrev, SameIndex DEF Written
    <3>3. ASSUME NEW l \in Lists
          PROVE  r.list[l].tail = m.list[l].tail /\ r.list[l].head = m.list[l].head
      BY <3>1, SameHead, SameTail DEF Written
    <3> QED BY <2>3, <3>1, <3>2, <3>3
               DEF SpliceEffect, ActiveTail, IdleTail, Written
  <2>4. CASE t # NULL /\ m.node[t].active /\ x # NULL
    <3>1. Written(m, r, Put(Put(Nexts(m), e, x), t, s),
                  Put(Put(Prevs(m), s, t), x, e), Indices(m), Heads(m))
      BY <1>1, <1>2, <2>4, BetweenFields
    <3>2. ASSUME NEW z \in Nodes
          PROVE  /\ r.node[z].next = IF z = t THEN s ELSE IF z = e THEN x
                                     ELSE m.node[z].next
                 /\ r.node[z].prev = IF z = x THEN e ELSE IF z = s THEN t
                                     ELSE m.node[z].prev
                 /\ r.node[z].index = m.node[z].index
      BY <3>1, ReadNextTwice, ReadPrevTwice, SameIndex DEF Written
    <3>3. ASSUME NEW l \in Lists
          PROVE  r.list[l].tail = m.list[l].tail /\ r.list[l].head = m.list[l].head
      BY <3>1, SameHead, SameTail DEF Written
    <3> QED BY <2>4, <3>1, <3>2, <3>3
               DEF SpliceEffect, ActiveTail, IdleTail, Written
  <2> QED BY <2>1, <2>2, <2>3, <2>4
<1> QED BY <1>0, <1>3

(* What is left of list from ends at chunk f, which x follows. *)
GapEffect(m, r, f, x, from) ==
  /\ Rewired(m, r)
  /\ \A z \in Nodes :
       /\ r.node[z].next = IF f # NULL /\ z = f THEN x ELSE m.node[z].next
       /\ r.node[z].prev = IF x # NULL /\ z = x THEN f ELSE m.node[z].prev
       /\ r.node[z].index = IF f = NULL /\ x # NULL /\ z = x THEN 0
                            ELSE m.node[z].index
  /\ \A l \in Lists :
       /\ r.list[l].tail = IF l # from THEN m.list[l].tail
                           ELSE IF f = NULL THEN x ELSE f
       /\ r.list[l].head = IF l = from /\ f = NULL THEN x ELSE m.list[l].head

(* What closing the gap in the list the chunks come from writes, in all    *)
(* branches.                                                               *)
LEMMA GapFields ==
  ASSUME NEW m \in Mem, NEW f \in Ptr, NEW x \in Ptr, NEW from \in Lists,
         NEW r, r = CloseGap(m, f, x, from)
  PROVE  GapEffect(m, r, f, x, from)
<1> DEFINE headed == SetHead(m, from, x)
           drained == SetTail(headed, from, x)
           loose == SetPrev(drained, x, NULL)
           tailed == SetTail(m, from, f)
           short == SetNext(tailed, f, x)
<1>1. /\ NULL \in Ptr /\ 0 \in Nat /\ NULL \notin Nodes
      /\ f # NULL => f \in Nodes
      /\ x # NULL => x \in Nodes
  BY ConstantsAssumption DEF Ptr
<1>2. r = IF f = NULL
          THEN IF x = NULL THEN drained ELSE SetIndex(loose, x, 0)
          ELSE IF x = NULL THEN short ELSE SetPrev(short, x, f)
  BY DEF CloseGap
<1>3. /\ headed = SetHead(m, from, x) /\ drained = SetTail(headed, from, x)
      /\ loose = SetPrev(drained, x, NULL) /\ tailed = SetTail(m, from, f)
      /\ short = SetNext(tailed, f, x)
  OBVIOUS
<1> HIDE DEF headed, drained, loose, tailed, short
<1>4. /\ Rewired(m, drained) /\ drained \in Mem
      /\ Nexts(drained) = Nexts(m) /\ Prevs(drained) = Prevs(m)
      /\ Indices(drained) = Indices(m)
      /\ Heads(drained) = Put(Heads(m), from, x)
      /\ Tails(drained) = Put(Tails(m), from, x)
  <2>1. /\ Rewired(m, headed) /\ Nexts(headed) = Nexts(m)
        /\ Prevs(headed) = Prevs(m) /\ Indices(headed) = Indices(m)
        /\ Heads(headed) = Put(Heads(m), from, x) /\ Tails(headed) = Tails(m)
    BY <1>3, SetHeadIs
  <2>2. headed \in Mem
    BY <2>1 DEF Rewired
  <2>3. /\ Rewired(headed, drained) /\ Nexts(drained) = Nexts(headed)
        /\ Prevs(drained) = Prevs(headed) /\ Indices(drained) = Indices(headed)
        /\ Heads(drained) = Heads(headed)
        /\ Tails(drained) = Put(Tails(headed), from, x)
    BY <1>3, <2>2, SetTailIs
  <2>4. Rewired(m, drained)
    BY <2>1, <2>3, RewiredTransitive
  <2>5. drained \in Mem
    BY <2>4 DEF Rewired
  <2> QED BY <2>1, <2>3, <2>4, <2>5
<1>5. ASSUME f # NULL
      PROVE  /\ Rewired(m, short) /\ short \in Mem
             /\ Nexts(short) = Put(Nexts(m), f, x) /\ Prevs(short) = Prevs(m)
             /\ Indices(short) = Indices(m)
             /\ Heads(short) = Heads(m)
             /\ Tails(short) = Put(Tails(m), from, f)
  <2> f \in Nodes
    BY <1>1, <1>5
  <2>1. /\ Rewired(m, tailed) /\ Nexts(tailed) = Nexts(m)
        /\ Prevs(tailed) = Prevs(m) /\ Indices(tailed) = Indices(m)
        /\ Heads(tailed) = Heads(m) /\ Tails(tailed) = Put(Tails(m), from, f)
    BY <1>3, SetTailIs
  <2>2. tailed \in Mem
    BY <2>1 DEF Rewired
  <2>3. /\ Rewired(tailed, short) /\ Nexts(short) = Put(Nexts(tailed), f, x)
        /\ Prevs(short) = Prevs(tailed) /\ Indices(short) = Indices(tailed)
        /\ Heads(short) = Heads(tailed) /\ Tails(short) = Tails(tailed)
    BY <1>3, <2>2, SetNextIs
  <2>4. Rewired(m, short)
    BY <2>1, <2>3, RewiredTransitive
  <2>5. short \in Mem
    BY <2>4 DEF Rewired
  <2> QED BY <2>1, <2>3, <2>4, <2>5
<1>6. CASE f = NULL /\ x = NULL
  <2>1. r = drained
    BY <1>2, <1>6
  <2>2. \A z \in Nodes : /\ r.node[z].next = m.node[z].next
                         /\ r.node[z].prev = m.node[z].prev
                         /\ r.node[z].index = m.node[z].index
    BY <1>4, <2>1 DEF Nexts, Prevs, Indices
  <2>3. \A l \in Lists : /\ r.list[l].tail = IF l = from THEN x ELSE m.list[l].tail
                         /\ r.list[l].head = IF l = from THEN x ELSE m.list[l].head
    BY <1>4, <2>1 DEF Heads, Tails, Put
  <2> QED BY <1>4, <1>6, <2>1, <2>2, <2>3 DEF GapEffect
<1>7. CASE f = NULL /\ x # NULL
  <2>1. r = SetIndex(loose, x, 0) /\ x \in Nodes
    BY <1>1, <1>2, <1>7
  <2>2. /\ Rewired(drained, loose) /\ Nexts(loose) = Nexts(drained)
        /\ Prevs(loose) = Put(Prevs(drained), x, NULL)
        /\ Indices(loose) = Indices(drained)
        /\ Heads(loose) = Heads(drained) /\ Tails(loose) = Tails(drained)
    BY <1>1, <1>3, <1>4, <2>1, SetPrevIs
  <2>3. loose \in Mem
    BY <2>2 DEF Rewired
  <2>4. /\ Rewired(loose, r) /\ Nexts(r) = Nexts(loose) /\ Prevs(r) = Prevs(loose)
        /\ Indices(r) = Put(Indices(loose), x, 0)
        /\ Heads(r) = Heads(loose) /\ Tails(r) = Tails(loose)
    BY <1>1, <2>1, <2>3, SetIndexIs
  <2>5. Rewired(m, r)
    BY <1>4, <2>2, <2>4, RewiredTransitive
  <2>6. \A z \in Nodes :
          /\ r.node[z].next = m.node[z].next
          /\ r.node[z].prev = IF z = x THEN NULL ELSE m.node[z].prev
          /\ r.node[z].index = IF z = x THEN 0 ELSE m.node[z].index
    <3>1. /\ Nexts(r) = Nexts(m) /\ Prevs(r) = Put(Prevs(m), x, NULL)
          /\ Indices(r) = Put(Indices(m), x, 0)
      BY <1>4, <2>2, <2>4
    <3> QED BY <3>1, SameNext, ReadPrev, ReadIndex
  <2>7. \A l \in Lists : /\ r.list[l].tail = IF l = from THEN x ELSE m.list[l].tail
                         /\ r.list[l].head = IF l = from THEN x ELSE m.list[l].head
    <3>1. /\ Heads(r) = Put(Heads(m), from, x)
          /\ Tails(r) = Put(Tails(m), from, x)
      BY <1>4, <2>2, <2>4
    <3> QED BY <3>1, ReadHead, ReadTail
  <2> QED BY <1>7, <2>5, <2>6, <2>7 DEF GapEffect
<1>8. CASE f # NULL /\ x = NULL
  <2>1. r = short
    BY <1>2, <1>8
  <2>2. \A z \in Nodes : /\ r.node[z].next = IF z = f THEN x ELSE m.node[z].next
                         /\ r.node[z].prev = m.node[z].prev
                         /\ r.node[z].index = m.node[z].index
    BY <1>5, <1>8, <2>1, ReadNext, SamePrev, SameIndex
  <2>3. \A l \in Lists : /\ r.list[l].tail = IF l = from THEN f ELSE m.list[l].tail
                         /\ r.list[l].head = m.list[l].head
    <3>1. Heads(r) = Heads(m) /\ Tails(r) = Put(Tails(m), from, f)
      BY <1>5, <1>8, <2>1
    <3> QED BY <3>1, SameHead, ReadTail
  <2> QED BY <1>5, <1>8, <2>1, <2>2, <2>3 DEF GapEffect
<1>9. CASE f # NULL /\ x # NULL
  <2>1. r = SetPrev(short, x, f) /\ x \in Nodes
    BY <1>1, <1>2, <1>9
  <2>2. /\ Rewired(short, r) /\ Nexts(r) = Nexts(short)
        /\ Prevs(r) = Put(Prevs(short), x, f) /\ Indices(r) = Indices(short)
        /\ Heads(r) = Heads(short) /\ Tails(r) = Tails(short)
    BY <1>5, <1>9, <2>1, SetPrevIs
  <2>3. Rewired(m, r)
    BY <1>5, <1>9, <2>2, RewiredTransitive
  <2>4. \A z \in Nodes : /\ r.node[z].next = IF z = f THEN x ELSE m.node[z].next
                         /\ r.node[z].prev = IF z = x THEN f ELSE m.node[z].prev
                         /\ r.node[z].index = m.node[z].index
    <3>1. /\ Nexts(r) = Put(Nexts(m), f, x) /\ Prevs(r) = Put(Prevs(m), x, f)
          /\ Indices(r) = Indices(m)
      BY <1>5, <1>9, <2>2
    <3> QED BY <3>1, ReadNext, ReadPrev, SameIndex
  <2>5. \A l \in Lists : /\ r.list[l].tail = IF l = from THEN f ELSE m.list[l].tail
                         /\ r.list[l].head = m.list[l].head
    <3>1. Heads(r) = Heads(m) /\ Tails(r) = Put(Tails(m), from, f)
      BY <1>5, <1>9, <2>2
    <3> QED BY <3>1, SameHead, ReadTail
  <2> QED BY <1>9, <2>3, <2>4, <2>5 DEF GapEffect
<1> QED BY <1>6, <1>7, <1>8, <1>9

(* What _updatenumElements adds up. *)
NumOf(m, S) == MapThenSumSet(LAMBDA n : m.node[n].numElements, S)

(* A chunk counts the elements it holds, each of which it holds once. *)
LEMMA HeldSize ==
  ASSUME NEW m, FillInv(m), StoredOnce(m), NEW n \in m.heap
  PROVE  Cardinality(Held(m, n)) = m.node[n].numElements
<1> DEFINE T == Taken(m.node[n])
           f == [s \in T |-> m.node[n].slot[s]]
<1>1. IsFiniteSet(T)
  BY TakenFinite
<1>2. \A s1, s2 \in T : f[s1] = f[s2] => s1 = s2
  BY DEF StoredOnce, Taken
<1>3. {f[s] : s \in T} = Held(m, n)
  BY DEF Held
<1> HIDE DEF f
<1>4. f = [s \in T |-> f[s]]
  BY DEF f
<1>5. Cardinality({f[s] : s \in T}) = Cardinality(T)
  BY <1>1, <1>2, <1>4, InjectiveImage
<1> QED BY <1>3, <1>5 DEF FillInv

(* Two chunks hold no element in common.                                   *)
LEMMA HeldApart ==
  ASSUME NEW m, StoredOnce(m), NEW n1 \in m.heap, NEW n2 \in m.heap, n1 # n2
  PROVE  Held(m, n1) \cap Held(m, n2) = {}
BY DEF StoredOnce, Held, Taken

(* The recursion behind that sum. *)
IsNumOf(iter, m, S) ==
  iter = [s \in SUBSET S |->
     IF s = {} THEN 0
     ELSE m.node[CHOOSE x \in s : TRUE].numElements
            + iter[s \ {CHOOSE x \in s : TRUE}]]

(* The sum of _updatenumElements as an iteration over the moved chunks.    *)
LEMMA NumOfIter ==
  ASSUME NEW m, NEW S
  PROVE  NumOf(m, S) = (CHOOSE iter : IsNumOf(iter, m, S))[S]
BY DEF NumOf, MapThenSumSet, MapThenFoldSet, IsNumOf

(* _updatenumElements adds up how many elements the moved chunks hold.     *)
LEMMA NumOfIs ==
  ASSUME NEW m \in Mem, FillInv(m), StoredOnce(m), NEW S \in SUBSET m.heap
  PROVE  NumOf(m, S) = Cardinality(HeldBy(m, S))
<1> DEFINE E == [n \in S |-> Held(m, n)]
<1>1. IsFiniteSet(S)
  <2>1. S \in SUBSET Nodes
    BY MemTypes
  <2> QED BY <2>1, ConstantsAssumption, FS_Subset
<1>2. \A n \in S : IsFiniteSet(E[n])
  <2> SUFFICES ASSUME NEW n \in S PROVE IsFiniteSet(Held(m, n))
    OBVIOUS
  <2>1. IsFiniteSet(Taken(m.node[n]))
    BY TakenFinite
  <2> QED BY <2>1, ImageFinite DEF Held
<1>3. \A x, y \in S : x # y => E[x] \cap E[y] = {}
  BY HeldApart
<1>4. Together(E, S) = HeldBy(m, S)
  BY DEF Together, HeldBy
<1>5. \A n \in S : Cardinality(E[n]) = m.node[n].numElements
  BY HeldSize
<1> HIDE DEF E
<1>6. ASSUME NEW iter PROVE IsNumOf(iter, m, S) <=> IsSum(iter, E, S)
  <2> DEFINE f == [s \in SUBSET S |->
                     IF s = {} THEN 0
                     ELSE m.node[CHOOSE x \in s : TRUE].numElements
                            + iter[s \ {CHOOSE x \in s : TRUE}]]
             g == [s \in SUBSET S |->
                     IF s = {} THEN 0
                     ELSE Cardinality(E[CHOOSE x \in s : TRUE])
                            + iter[s \ {CHOOSE x \in s : TRUE}]]
  <2>1. ASSUME NEW s \in SUBSET S, s # {}
        PROVE  Cardinality(E[CHOOSE x \in s : TRUE]) = m.node[CHOOSE x \in s : TRUE].numElements
    <3>1. (CHOOSE x \in s : TRUE) \in S
      BY <2>1
    <3> QED BY <1>5, <3>1
  <2>2. f = g
    BY <2>1
  <2> QED BY <2>2 DEF IsNumOf, IsSum
<1>7. PICK iter : IsSum(iter, E, S)
  BY <1>1, <1>2, <1>3, SumExists
<1>8. IsNumOf(CHOOSE i : IsNumOf(i, m, S), m, S)
  BY <1>6, <1>7
<1> DEFINE w == CHOOSE i : IsNumOf(i, m, S)
<1>9. IsSum(w, E, S)
  BY <1>6, <1>8
<1>10. NumOf(m, S) = w[S]
  BY NumOfIter
<1> HIDE DEF w
<1>11. w[S] = Cardinality(Together(E, S))
  BY <1>1, <1>2, <1>3, <1>9, SumIsSize
<1> QED BY <1>4, <1>10, <1>11

(* The three parts of Adopt: renumber, hand over, count. *)
Renumber(m, run, k, base, to) ==
  [m EXCEPT !.node = [n \in Nodes |->
     IF n \notin {run[i] : i \in 0..(k - 1)} THEN m.node[n]
     ELSE [m.node[n] EXCEPT
             !.index = base + CHOOSE i \in 0..(k - 1) : run[i] = n,
             !.threadList = to]]]

HandOver(m, i, j, e, from, to) ==
  SetNumNodes(SetNumNodes(SetTail(m, to, e), from, i), to, j)

CountOver(m, num, from, to) ==
  SetNumElements(SetNumElements(m, from, m.list[from].numElements - num),
                 to, m.list[to].numElements + num)

BaseOf(m, n) == IF m.node[n].prev = NULL THEN 0
                ELSE m.node[m.node[n].prev].index + 1

(* Adopting the chunks is renumbering, handing over and recounting.        *)
LEMMA AdoptParts ==
  ASSUME NEW m, NEW run, NEW k, NEW from, NEW to
  PROVE  LET owned == HandOver(Renumber(m, run, k, BaseOf(m, run[0]), to),
                               m.list[from].numNodes - k,
                               m.list[to].numNodes + k, run[k - 1], from, to)
         IN  Adopt(m, run, k, from, to) =
               CountOver(owned, NumOf(owned, {run[i] : i \in 0..(k - 1)}), from, to)
BY DEF Adopt, UpdatenumElements, Renumber, HandOver, CountOver, BaseOf, NumOf

(* One header is replaced, one field of it at a time. *)
ListPut(m, r, l, y) ==
  /\ r \in Mem /\ r.heap = m.heap /\ r.node = m.node
  /\ r.list[l] = y
  /\ \A k \in Lists \ {l} : r.list[k] = m.list[k]

(* A write of one list header puts that header.                            *)
LEMMA SetListPut ==
  ASSUME NEW m \in Mem, NEW l \in Lists, NEW y \in ListRecord
  PROVE  ListPut(m, PutList(m, l, y), l, y)
BY SetList DEF ListPut

WithTail(y, v) == [y EXCEPT !.tail = v]
WithNumNodes(y, i) == [y EXCEPT !.numNodes = i]
WithNumElements(y, i) == [y EXCEPT !.numElements = i]

(* A header with one field replaced is a header.                           *)
LEMMA WithFields ==
  ASSUME NEW y \in ListRecord, NEW v \in Ptr, NEW i \in Nat
  PROVE  /\ WithTail(y, v) \in ListRecord /\ WithNumNodes(y, i) \in ListRecord
         /\ WithNumElements(y, i) \in ListRecord
BY DEF ListRecord, WithTail, WithNumNodes, WithNumElements

(* The fields of a header after its tail or numNodes is replaced.          *)
LEMMA ReadWith ==
  ASSUME NEW y \in ListRecord, NEW v, NEW i
  PROVE  /\ WithTail(y, v).tail = v /\ WithTail(y, v).head = y.head
         /\ WithTail(y, v).numNodes = y.numNodes
         /\ WithTail(y, v).numElements = y.numElements
         /\ WithNumNodes(y, i).numNodes = i /\ WithNumNodes(y, i).head = y.head
         /\ WithNumNodes(y, i).tail = y.tail
         /\ WithNumNodes(y, i).numElements = y.numElements
BY DEF ListRecord, WithTail, WithNumNodes

(* The fields of a header after its numElements is replaced.               *)
LEMMA ReadWithElements ==
  ASSUME NEW y \in ListRecord, NEW i
  PROVE  /\ WithNumElements(y, i).numElements = i
         /\ WithNumElements(y, i).head = y.head
         /\ WithNumElements(y, i).tail = y.tail
         /\ WithNumElements(y, i).numNodes = y.numNodes
BY DEF ListRecord, WithNumElements

(* The assignment to a tail as a header put.                               *)
LEMMA TailPut ==
  ASSUME NEW m \in Mem, NEW l \in Lists, NEW v \in Ptr
  PROVE  ListPut(m, SetTail(m, l, v), l, WithTail(m.list[l], v))
<1> DEFINE y == WithTail(m.list[l], v)
<1>1. y \in ListRecord
  BY MemTypes, WithFields
<1>2. SetTail(m, l, v) = PutList(m, l, y)
  BY DEF SetTail, PutList, WithTail, Mem
<1> HIDE DEF y
<1>3. ListPut(m, PutList(m, l, y), l, y)
  BY <1>1, SetListPut
<1> QED BY <1>2, <1>3 DEF y

(* The assignment to numNodes as a header put.                             *)
LEMMA NumNodesPut ==
  ASSUME NEW m \in Mem, NEW l \in Lists, NEW i \in Nat
  PROVE  ListPut(m, SetNumNodes(m, l, i), l, WithNumNodes(m.list[l], i))
<1> DEFINE y == WithNumNodes(m.list[l], i)
<1>1. y \in ListRecord
  BY MemTypes, WithFields
<1>2. SetNumNodes(m, l, i) = PutList(m, l, y)
  BY DEF SetNumNodes, PutList, WithNumNodes, Mem
<1> HIDE DEF y
<1>3. ListPut(m, PutList(m, l, y), l, y)
  BY <1>1, SetListPut
<1> QED BY <1>2, <1>3 DEF y

(* The assignment to numElements as a header put.                          *)
LEMMA NumElementsPut ==
  ASSUME NEW m \in Mem, NEW l \in Lists, NEW i \in Nat
  PROVE  ListPut(m, SetNumElements(m, l, i), l, WithNumElements(m.list[l], i))
<1> DEFINE y == WithNumElements(m.list[l], i)
<1>1. y \in ListRecord
  BY MemTypes, WithFields
<1>2. SetNumElements(m, l, i) = PutList(m, l, y)
  BY DEF SetNumElements, PutList, WithNumElements, Mem
<1> HIDE DEF y
<1>3. ListPut(m, PutList(m, l, y), l, y)
  BY <1>1, SetListPut
<1> QED BY <1>2, <1>3 DEF y

HandOverEffect(m, r, i, j, e, from, to) ==
  /\ r \in Mem /\ r.heap = m.heap /\ r.node = m.node
  /\ \A l \in Lists : /\ r.list[l].head = m.list[l].head
                      /\ r.list[l].numElements = m.list[l].numElements
  /\ r.list[from].tail = m.list[from].tail
  /\ r.list[from].numNodes = i
  /\ r.list[to].tail = e /\ r.list[to].numNodes = j
  /\ \A l \in Lists \ {from, to} : r.list[l] = m.list[l]

(* What _transferNNodes leaves in the two headers before it recounts the   *)
(* elements.                                                               *)
LEMMA HandOverFields ==
  ASSUME NEW m \in Mem, NEW from \in Lists, NEW to \in Lists, from # to,
         NEW i \in Nat, NEW j \in Nat, NEW e \in Ptr,
         NEW r, r = HandOver(m, i, j, e, from, to)
  PROVE  HandOverEffect(m, r, i, j, e, from, to)
<1>1. \A l \in Lists : m.list[l] \in ListRecord
  BY MemTypes
<1>2. PICK f, g : /\ f = SetTail(m, to, e) /\ g = SetNumNodes(f, from, i)
                  /\ r = SetNumNodes(g, to, j)
  BY DEF HandOver
<1>3. ListPut(m, f, to, WithTail(m.list[to], e))
  BY <1>2, TailPut
<1>4. f \in Mem
  BY <1>3 DEF ListPut
<1>5. ListPut(f, g, from, WithNumNodes(f.list[from], i))
  BY <1>1, <1>2, <1>4, NumNodesPut
<1>6. g \in Mem
  BY <1>5 DEF ListPut
<1>7. ListPut(g, r, to, WithNumNodes(g.list[to], j))
  BY <1>1, <1>2, <1>6, NumNodesPut
<1>8. /\ r \in Mem /\ r.heap = m.heap /\ r.node = m.node
      /\ r.list[from] = WithNumNodes(m.list[from], i)
      /\ r.list[to] = WithNumNodes(WithTail(m.list[to], e), j)
      /\ \A l \in Lists \ {from, to} : r.list[l] = m.list[l]
  BY <1>3, <1>5, <1>7 DEF ListPut
<1>9. WithTail(m.list[to], e) \in ListRecord
  BY <1>1, WithFields
<1>10. /\ r.list[from].numNodes = i /\ r.list[from].tail = m.list[from].tail
       /\ r.list[from].head = m.list[from].head
       /\ r.list[from].numElements = m.list[from].numElements
  BY <1>1, <1>8, ReadWith
<1>11. /\ r.list[to].numNodes = j /\ r.list[to].tail = e
       /\ r.list[to].head = m.list[to].head
       /\ r.list[to].numElements = m.list[to].numElements
  BY <1>1, <1>8, <1>9, ReadWith
<1>12. ASSUME NEW l \in Lists
      PROVE  /\ r.list[l].head = m.list[l].head
             /\ r.list[l].numElements = m.list[l].numElements
  BY <1>8, <1>10, <1>11
<1> QED BY <1>8, <1>10, <1>11, <1>12 DEF HandOverEffect

CountOverEffect(m, r, num, from, to) ==
  /\ r \in Mem /\ r.heap = m.heap /\ r.node = m.node
  /\ \A l \in Lists : /\ r.list[l].head = m.list[l].head
                      /\ r.list[l].tail = m.list[l].tail
                      /\ r.list[l].numNodes = m.list[l].numNodes
  /\ r.list[from].numElements = m.list[from].numElements - num
  /\ r.list[to].numElements = m.list[to].numElements + num
  /\ \A l \in Lists \ {from, to} : r.list[l] = m.list[l]

(* What _updatenumElements leaves in the two headers.                      *)
LEMMA CountOverFields ==
  ASSUME NEW m \in Mem, NEW from \in Lists, NEW to \in Lists, from # to,
         NEW num \in Nat, num <= m.list[from].numElements,
         NEW r, r = CountOver(m, num, from, to)
  PROVE  CountOverEffect(m, r, num, from, to)
<1>0. PICK i, j : /\ i = m.list[from].numElements - num
                  /\ j = m.list[to].numElements + num
  OBVIOUS
<1>1. i \in Nat /\ j \in Nat /\ \A l \in Lists : m.list[l] \in ListRecord
  BY <1>0, MemTypes
<1>2. PICK g : g = SetNumElements(m, from, i) /\ r = SetNumElements(g, to, j)
  BY <1>0 DEF CountOver
<1>3. ListPut(m, g, from, WithNumElements(m.list[from], i))
  BY <1>1, <1>2, NumElementsPut
<1>4. g \in Mem
  BY <1>3 DEF ListPut
<1>5. ListPut(g, r, to, WithNumElements(g.list[to], j))
  BY <1>1, <1>2, <1>4, NumElementsPut
<1>6. /\ r \in Mem /\ r.heap = m.heap /\ r.node = m.node
      /\ r.list[from] = WithNumElements(m.list[from], i)
      /\ r.list[to] = WithNumElements(m.list[to], j)
      /\ \A l \in Lists \ {from, to} : r.list[l] = m.list[l]
  BY <1>3, <1>5 DEF ListPut
<1>9. m.list[from] \in ListRecord /\ m.list[to] \in ListRecord
  BY <1>1
<1>10. /\ r.list[from].numElements = i /\ r.list[from].tail = m.list[from].tail
       /\ r.list[from].head = m.list[from].head
       /\ r.list[from].numNodes = m.list[from].numNodes
  BY <1>6, <1>9, ReadWithElements
<1>11. /\ r.list[to].numElements = j /\ r.list[to].tail = m.list[to].tail
       /\ r.list[to].head = m.list[to].head
       /\ r.list[to].numNodes = m.list[to].numNodes
  BY <1>6, <1>9, ReadWithElements
<1>7. ASSUME NEW l \in Lists
      PROVE  /\ r.list[l].head = m.list[l].head
             /\ r.list[l].tail = m.list[l].tail
             /\ r.list[l].numNodes = m.list[l].numNodes
  BY <1>6, <1>10, <1>11
<1>8. r.list[from].numElements = i /\ r.list[to].numElements = j
  BY <1>10, <1>11
<1> QED BY <1>0, <1>6, <1>7, <1>8 DEF CountOverEffect

(* A chunk with a new place in another list. *)
Placed(x, y, i, to) ==
  /\ y \in NodeRecord
  /\ y.slot = x.slot /\ y.numElements = x.numElements
  /\ y.firstKnownFree = x.firstKnownFree /\ y.active = x.active
  /\ y.dirty = x.dirty /\ y.next = x.next /\ y.prev = x.prev
  /\ y.index = i /\ y.threadList = to

RenumberEffect(m, r, run, k, base, to) ==
  /\ r \in Mem /\ r.heap = m.heap /\ r.list = m.list
  /\ \A z \in Nodes : z \notin {run[i] : i \in 0..(k - 1)} => r.node[z] = m.node[z]
  /\ \A i \in 0..(k - 1) : Placed(m.node[run[i]], r.node[run[i]], base + i, to)

(* What _indexNodes and _moveNodeThreadLists write: the moved chunks are   *)
(* numbered in their order from base on and belong to the list they went   *)
(* to.                                                                     *)
LEMMA RenumberFields ==
  ASSUME NEW m \in Mem, NEW k \in Nat, NEW run, NEW base \in Nat, NEW to \in Lists,
         \A i \in 0..(k - 1) : run[i] \in Nodes,
         \A i, j \in 0..(k - 1) : run[i] = run[j] => i = j,
         NEW r, r = Renumber(m, run, k, base, to)
  PROVE  RenumberEffect(m, r, run, k, base, to)
<1> DEFINE moved == {run[i] : i \in 0..(k - 1)}
           at(n) == CHOOSE i \in 0..(k - 1) : run[i] = n
           new(n) == [m.node[n] EXCEPT !.index = base + at(n), !.threadList = to]
           W == [n \in Nodes |-> IF n \notin moved THEN m.node[n] ELSE new(n)]
<1>1. r = [m EXCEPT !.node = W]
  BY DEF Renumber
<1>2. ASSUME NEW i \in 0..(k - 1) PROVE at(run[i]) = i
  OBVIOUS
<1>3. ASSUME NEW i \in 0..(k - 1)
      PROVE  Placed(m.node[run[i]], new(run[i]), base + i, to)
  <2> DEFINE n == run[i]
             j == at(n)
  <2>1. m.node[n] \in NodeRecord /\ base + i \in Nat /\ j = i
    BY <1>2, MemTypes
  <2>2. new(n) = [m.node[n] EXCEPT !.index = base + i, !.threadList = to]
    BY <2>1
  <2> HIDE DEF n, new
  <2>3. Placed(m.node[n], new(n), base + i, to)
    BY <2>1, <2>2 DEF Placed, NodeRecord
  <2> QED BY <2>3 DEF n
<1>4. moved \subseteq Nodes
  OBVIOUS
<1> HIDE DEF new, at
<1>5. \A i \in 0..(k - 1) : run[i] \in moved
  OBVIOUS
<1>6. \A n \in moved : \E i \in 0..(k - 1) : run[i] = n
  OBVIOUS
<1> HIDE DEF moved
<1>7. /\ \A z \in Nodes : z \notin moved => W[z] = m.node[z]
      /\ \A i \in 0..(k - 1) : W[run[i]] = new(run[i])
  BY <1>5
<1>8. W \in [Nodes -> NodeRecord]
  <2> SUFFICES ASSUME NEW z \in Nodes PROVE (IF z \notin moved THEN m.node[z] ELSE new(z)) \in NodeRecord
    OBVIOUS
  <2>1. CASE z \notin moved
    BY <2>1, MemTypes
  <2>2. CASE z \in moved
    BY <1>3, <1>6, <2>2 DEF Placed
  <2> QED BY <2>1, <2>2
<1> HIDE DEF W
<1>9. IsRecord(r) /\ r.heap = m.heap /\ r.list = m.list /\ r.node = W
  BY <1>1 DEF IsRecord, Mem
<1>10. r \in Mem
  BY <1>8, <1>9, MemRecord DEF Mem
<1>11. \A z \in Nodes : z \notin moved => r.node[z] = m.node[z]
  BY <1>7, <1>9
<1>12. \A i \in 0..(k - 1) : Placed(m.node[run[i]], r.node[run[i]], base + i, to)
  BY <1>3, <1>7, <1>9
<1> QED BY <1>9, <1>10, <1>11, <1>12 DEF RenumberEffect, moved

(* What FillInv, StoredOnce and the counts of elements depend on. *)
SameStore(m, r) ==
  /\ r.heap = m.heap
  /\ \A z \in Nodes : /\ r.node[z].slot = m.node[z].slot
                      /\ r.node[z].numElements = m.node[z].numElements
                      /\ r.node[z].active = m.node[z].active

(* A step that leaves slots, counters and the heap alone keeps what is     *)
(* said of the elements.                                                   *)
LEMMA SameStoreKeeps ==
  ASSUME NEW m \in Mem, NEW r, SameStore(m, r)
  PROVE  /\ \A z \in Nodes : Taken(r.node[z]) = Taken(m.node[z])
         /\ FillInv(m) => FillInv(r)
         /\ StoredOnce(m) => StoredOnce(r)
         /\ \A S \in SUBSET Nodes : HeldBy(r, S) = HeldBy(m, S)
<1>1. \A z \in Nodes : Taken(r.node[z]) = Taken(m.node[z])
  BY DEF SameStore, Taken
<1>2. m.heap \subseteq Nodes /\ r.heap = m.heap
  BY MemTypes DEF SameStore
<1>3. FillInv(m) => FillInv(r)
  BY <1>1, <1>2 DEF SameStore, FillInv
<1>4. StoredOnce(m) => StoredOnce(r)
  BY <1>2 DEF SameStore, StoredOnce
<1>5. \A z \in Nodes : Held(r, z) = Held(m, z)
  BY <1>1 DEF SameStore, Held
<1>6. \A S \in SUBSET Nodes : HeldBy(r, S) = HeldBy(m, S)
  BY <1>5 DEF HeldBy
<1> QED BY <1>1, <1>3, <1>4, <1>6

AdoptEffect(m, r, run, k, base, num, from, to) ==
  /\ r \in Mem /\ r.heap = m.heap
  /\ \A z \in Nodes : z \notin {run[i] : i \in 0..(k - 1)} => r.node[z] = m.node[z]
  /\ \A i \in 0..(k - 1) : Placed(m.node[run[i]], r.node[run[i]], base + i, to)
  /\ \A l \in Lists : r.list[l].head = m.list[l].head
  /\ r.list[from].tail = m.list[from].tail
  /\ r.list[from].numNodes = m.list[from].numNodes - k
  /\ r.list[from].numElements = m.list[from].numElements - num
  /\ r.list[to].tail = run[k - 1]
  /\ r.list[to].numNodes = m.list[to].numNodes + k
  /\ r.list[to].numElements = m.list[to].numElements + num
  /\ \A l \in Lists \ {from, to} : r.list[l] = m.list[l]

(* The whole adoption: indices, owner, both headers and both element       *)
(* counts.                                                                 *)
LEMMA AdoptFields ==
  ASSUME NEW m \in Mem, FillInv(m), StoredOnce(m),
         NEW from \in Lists, NEW to \in Lists, from # to,
         NEW k \in Nat \ {0}, k <= m.list[from].numNodes, NEW run,
         \A i \in 0..(k - 1) : run[i] \in m.heap,
         \A i, j \in 0..(k - 1) : run[i] = run[j] => i = j,
         NEW base \in Nat, base = BaseOf(m, run[0]),
         NEW moved, moved = {run[i] : i \in 0..(k - 1)},
         NEW num \in Nat, num = Cardinality(HeldBy(m, moved)),
         num <= m.list[from].numElements,
         NEW r, r = Adopt(m, run, k, from, to)
  PROVE  AdoptEffect(m, r, run, k, base, num, from, to)
<1>0. PICK ren, owned, a, b :
        /\ ren = Renumber(m, run, k, base, to)
        /\ owned = HandOver(ren, a, b, run[k - 1], from, to)
        /\ a = m.list[from].numNodes - k /\ b = m.list[to].numNodes + k
        /\ r = CountOver(owned, NumOf(owned, moved), from, to)
  BY AdoptParts
<1>1. /\ m.heap \subseteq Nodes /\ moved \subseteq m.heap
      /\ \A i \in 0..(k - 1) : run[i] \in Nodes
  BY MemTypes
<1>2. RenumberEffect(m, ren, run, k, base, to)
  BY <1>0, <1>1, RenumberFields
<1>3. ren \in Mem /\ ren.list = m.list /\ ren.heap = m.heap
  BY <1>2 DEF RenumberEffect
<1>4. a \in Nat /\ b \in Nat /\ run[k - 1] \in Ptr
  <2>1. k - 1 \in 0..(k - 1) /\ m.list[to].numNodes \in Nat /\ m.list[from].numNodes \in Nat
    BY MemTypes
  <2> QED BY <1>0, <1>1, <2>1 DEF Ptr
<1>5. HandOverEffect(ren, owned, a, b, run[k - 1], from, to)
  BY <1>0, <1>3, <1>4, HandOverFields
<1>6. owned \in Mem /\ owned.node = ren.node /\ owned.heap = m.heap
  BY <1>3, <1>5 DEF HandOverEffect
<1>7. SameStore(m, owned)
  <2>1. ASSUME NEW z \in Nodes
        PROVE  /\ ren.node[z].slot = m.node[z].slot
               /\ ren.node[z].numElements = m.node[z].numElements
               /\ ren.node[z].active = m.node[z].active
    <3>1. CASE z \in moved
      <4>1. PICK i \in 0..(k - 1) : run[i] = z
        BY <3>1
      <4> QED BY <1>2, <4>1 DEF RenumberEffect, Placed
    <3>2. CASE z \notin moved
      BY <1>2, <3>2 DEF RenumberEffect
    <3> QED BY <3>1, <3>2
  <2> QED BY <1>6, <2>1 DEF SameStore
<1>8. NumOf(owned, moved) = num
  <2>1. FillInv(owned) /\ StoredOnce(owned)
    BY <1>7, SameStoreKeeps
  <2>2. HeldBy(owned, moved) = HeldBy(m, moved)
    BY <1>1, <1>7, SameStoreKeeps
  <2>3. moved \in SUBSET owned.heap
    BY <1>1, <1>6
  <2>4. NumOf(owned, moved) = Cardinality(HeldBy(owned, moved))
    BY <1>6, <2>1, <2>3, NumOfIs
  <2> QED BY <2>2, <2>4
<1>9. num <= owned.list[from].numElements
  BY <1>3, <1>5 DEF HandOverEffect
<1>10. r = CountOver(owned, num, from, to)
  BY <1>0, <1>8
<1>11. CountOverEffect(owned, r, num, from, to)
  BY <1>6, <1>9, <1>10, CountOverFields
<1>12. r \in Mem /\ r.heap = m.heap /\ r.node = ren.node
  BY <1>6, <1>11 DEF CountOverEffect
<1>13. /\ \A z \in Nodes : z \notin {run[i] : i \in 0..(k - 1)} => r.node[z] = m.node[z]
       /\ \A i \in 0..(k - 1) : Placed(m.node[run[i]], r.node[run[i]], base + i, to)
  BY <1>2, <1>12 DEF RenumberEffect
<1>14. /\ \A l \in Lists : r.list[l].head = m.list[l].head
       /\ \A l \in Lists \ {from, to} : r.list[l] = m.list[l]
  BY <1>3, <1>5, <1>11 DEF HandOverEffect, CountOverEffect
<1>15. /\ r.list[from].tail = m.list[from].tail
       /\ r.list[from].numNodes = m.list[from].numNodes - k
       /\ r.list[from].numElements = m.list[from].numElements - num
       /\ r.list[to].tail = run[k - 1]
       /\ r.list[to].numNodes = m.list[to].numNodes + k
       /\ r.list[to].numElements = m.list[to].numElements + num
  <2>1. /\ owned.list[from].tail = m.list[from].tail /\ owned.list[from].numNodes = a
        /\ owned.list[from].numElements = m.list[from].numElements
    BY <1>3, <1>5 DEF HandOverEffect
  <2>2. /\ owned.list[to].tail = run[k - 1] /\ owned.list[to].numNodes = b
        /\ owned.list[to].numElements = m.list[to].numElements
    BY <1>3, <1>5 DEF HandOverEffect
  <2>3. /\ r.list[from].tail = owned.list[from].tail
        /\ r.list[from].numNodes = owned.list[from].numNodes
        /\ r.list[from].numElements = owned.list[from].numElements - num
    BY <1>11 DEF CountOverEffect
  <2>4. /\ r.list[to].tail = owned.list[to].tail
        /\ r.list[to].numNodes = owned.list[to].numNodes
        /\ r.list[to].numElements = owned.list[to].numElements + num
    BY Zenon, <1>11 DEF CountOverEffect
  <2> QED BY Zenon, <1>0, <2>1, <2>2, <2>3, <2>4
<1> QED BY <1>12, <1>13, <1>14, <1>15 DEF AdoptEffect

(* The chunks at index d of list l or behind. *)
LastOnes(m, l, d) == {z \in Own(m, l) : m.node[z].active /\ d <= m.node[z].index}

(* The chunks a transfer of the last chunks of list from meets: s is the     *)
(* first of them, e the last, f and x their neighbours.                     *)
LeavesFrom(m, from, d, s, e, f, x) ==
  /\ IsAt(m, from, d, s)
  /\ e = m.list[from].tail /\ e \in Own(m, from) /\ m.node[e].active
  /\ f = m.node[s].prev /\ x = m.node[e].next
  /\ d = 0 => f = NULL /\ m.list[from].head = s
  /\ d # 0 => IsAt(m, from, d - 1, f) /\ f # NULL /\ f # e
  /\ x # NULL => x \in Own(m, from) /\ ~m.node[x].active /\ m.node[x].prev = e

(* The end of the list they go to: t is the tail, y the chunk behind it. *)
JoinsTo(m, to, b, t, y) ==
  /\ t = m.list[to].tail /\ y = m.node[t].next
  /\ t = NULL => b = 0 /\ m.list[to].head = NULL
  /\ IdleTail(m, t) => /\ b = 0 /\ m.list[to].head = t /\ t \in Own(m, to)
                       /\ m.node[t].prev = NULL
  /\ ActiveTail(m, t) =>
       /\ t \in Own(m, to) /\ b = m.node[t].index + 1
       /\ y # NULL => y \in Own(m, to) /\ ~m.node[y].active /\ m.node[y].prev = t

(* Where the chunks to move stand in the list they leave.                  *)
LEMMA LeavesSetting ==
  ASSUME NEW m \in Mem, NEW from \in Lists, ShapeInv(m, from),
         NEW k \in Nat \ {0}, NEW d \in Nat, d + k = m.list[from].numNodes,
         NEW s, s = StartOfLast(m, k, from), NEW e, e = m.list[from].tail
  PROVE  LeavesFrom(m, from, d, s, e, m.node[s].prev, m.node[e].next)
<1> DEFINE N == m.list[from].numNodes
           f == m.node[s].prev
           x == m.node[e].next
<1>1. N \in Nat /\ NULL \notin Nodes /\ m.heap \subseteq Nodes
  BY MemTypes, ConstantsAssumption
<1>2. d < N /\ k <= N /\ N - k = d
  BY <1>1
<1>3. s = AtIndex(m, from, d)
  BY <1>2, WalkBack
<1>4. IsAt(m, from, d, s)
  BY <1>2, <1>3, AtIndexIs
<1>5. d = 0 => f = NULL /\ m.list[from].head = s
  BY <1>4, AtNeighbours
<1>6. d # 0 => IsAt(m, from, d - 1, f)
  BY <1>4, AtNeighbours
<1>7. e \in Own(m, from) /\ m.node[e].active /\ N = m.node[e].index + 1
  BY <1>1, <1>2 DEF ShapeInv, EndsInv
<1>8. d # 0 => f # NULL /\ f # e
  <2>1. ASSUME d # 0, f = e PROVE N = (d - 1) + 1
    BY Zenon, <1>6, <1>7, <2>1 DEF IsAt
  <2> QED BY <1>1, <1>2, <1>6, <2>1 DEF IsAt, Own
<1>9. x # NULL => x \in Own(m, from) /\ ~m.node[x].active /\ m.node[x].prev = e
  BY Zenon, <1>7 DEF ShapeInv, LinksInv, ActiveInv, ActiveNode
<1> QED BY <1>4, <1>5, <1>6, <1>7, <1>8, <1>9 DEF LeavesFrom

(* Where they will stand in the list they join.                            *)
LEMMA JoinsSetting ==
  ASSUME NEW m \in Mem, NEW to \in Lists, ShapeInv(m, to),
         NEW t, t = m.list[to].tail
  PROVE  JoinsTo(m, to, m.list[to].numNodes, t, m.node[t].next)
<1>1. EndsInv(m, to) /\ LinksInv(m, to) /\ ActiveInv(m, to)
  BY DEF ShapeInv
<1>2. ActiveTail(m, t) => t \in Own(m, to) /\ ActiveNode(m, to, t)
  BY <1>1 DEF ActiveTail, EndsInv, ActiveInv
<1> QED BY Zenon, <1>1, <1>2
           DEF JoinsTo, ActiveTail, IdleTail, EndsInv, LinksInv, ActiveNode

(* What a transfer does to each field. *)
MovedNexts(m, r, s, e, f, x, t, y) ==
  \A z \in Nodes :
    r.node[z].next = IF f # NULL /\ z = f THEN x
                     ELSE IF ActiveTail(m, t) /\ z = t THEN s
                     ELSE IF z # e THEN m.node[z].next
                     ELSE IF ActiveTail(m, t) THEN y ELSE t

MovedPrevs(m, r, s, e, f, x, t, y) ==
  \A z \in Nodes :
    r.node[z].prev = IF x # NULL /\ z = x THEN f
                     ELSE IF ActiveTail(m, t) /\ y # NULL /\ z = y THEN e
                     ELSE IF IdleTail(m, t) /\ z = t THEN e
                     ELSE IF z # s THEN m.node[z].prev
                     ELSE IF ActiveTail(m, t) THEN t ELSE NULL

MovedNodes(m, r, M, d, b, to, x, t) ==
  /\ r \in Mem /\ r.heap = m.heap
  /\ \A z \in Nodes : /\ r.node[z].slot = m.node[z].slot
                      /\ r.node[z].numElements = m.node[z].numElements
                      /\ r.node[z].firstKnownFree = m.node[z].firstKnownFree
                      /\ r.node[z].active = m.node[z].active
                      /\ m.node[z].dirty => r.node[z].dirty
                      /\ r.node[z].threadList =
                           IF z \in M THEN to ELSE m.node[z].threadList
  /\ \A z \in M : r.node[z].index = b + (m.node[z].index - d)
  /\ \A z \in m.heap \ M :
       m.node[z].active \/ z \notin {x, t} => r.node[z].index = m.node[z].index

MovedLists(m, r, from, to, k, num, s, e, f, x, t) ==
  /\ r.list[from].head = IF f = NULL THEN x ELSE m.list[from].head
  /\ r.list[from].tail = IF f = NULL THEN x ELSE f
  /\ r.list[from].numNodes = m.list[from].numNodes - k
  /\ r.list[from].numElements = m.list[from].numElements - num
  /\ f = NULL /\ x # NULL => r.node[x].index = 0
  /\ r.list[to].head = IF ActiveTail(m, t) THEN m.list[to].head ELSE s
  /\ r.list[to].tail = e
  /\ r.list[to].numNodes = m.list[to].numNodes + k
  /\ r.list[to].numElements = m.list[to].numElements + num
  /\ \A l \in Lists \ {from, to} : r.list[l] = m.list[l]

(* The chunks that move are none of the others a transfer writes to. *)
Apart(m, M, e, f, x, t, y) ==
  \A z \in M : /\ z # f /\ z # x
               /\ ActiveTail(m, t) => z # t /\ z # y
               /\ IdleTail(m, t) => z # t
               /\ z # NULL

(* The moved chunks, their old neighbours and their new ones are distinct: *)
(* no pointer written for one list overwrites one of the other.            *)
LEMMA MovedApart ==
  ASSUME NEW m \in Mem, NEW from \in Lists, NEW to \in Lists, from # to,
         NEW d \in Nat, NEW b, NEW s, NEW e, NEW f, NEW x, NEW t, NEW y,
         LeavesFrom(m, from, d, s, e, f, x), JoinsTo(m, to, b, t, y)
  PROVE  /\ Apart(m, LastOnes(m, from, d), e, f, x, t, y)
         /\ s \in LastOnes(m, from, d) /\ s \in Nodes /\ e \in Nodes
<1>1. /\ NULL \notin Nodes /\ m.heap \subseteq Nodes
      /\ \A z \in Own(m, to) : z \notin Own(m, from)
  BY MemTypes, ConstantsAssumption DEF Own
<1>2. s \in LastOnes(m, from, d) /\ s \in Nodes /\ e \in Nodes
  BY <1>1 DEF LeavesFrom, IsAt, LastOnes, Own
<1>3. ASSUME NEW z \in LastOnes(m, from, d)
      PROVE  z # f /\ z # x /\ z # NULL
  <2>1. z \in Own(m, from) /\ m.node[z].active /\ d <= m.node[z].index /\ z # NULL
    BY <1>1 DEF LastOnes, Own
  <2>2. z # x
    BY <2>1 DEF LeavesFrom
  <2>3. ASSUME z = f PROVE FALSE
    <3>1. d # 0
      BY Zenon, <2>1, <2>3 DEF LeavesFrom
    <3>2. m.node[z].index = d - 1
      BY <2>3, <3>1 DEF LeavesFrom, IsAt
    <3> QED BY <2>1, <3>2
  <2> QED BY <2>1, <2>2, <2>3
<1>4. ASSUME NEW z \in LastOnes(m, from, d)
      PROVE  /\ ActiveTail(m, t) => z # t /\ z # y
             /\ IdleTail(m, t) => z # t
  <2>1. z \in Own(m, from) /\ m.node[z].active /\ z # NULL
    BY <1>3 DEF LastOnes
  <2> QED BY <1>1, <2>1 DEF JoinsTo
<1> QED BY <1>2, <1>3, <1>4 DEF Apart

(* What a run over the last k indices meets. *)
Run(m, run, k, d, from) ==
  /\ \A i \in 0..(k - 1) : IsAt(m, from, d + i, run[i])
  /\ \A i, j \in 0..(k - 1) : run[i] = run[j] => i = j
  /\ {run[i] : i \in 0..(k - 1)} = LastOnes(m, from, d)
  /\ run[k - 1] = m.list[from].tail

(* The chunks to move, in their order, are a run linked by next.           *)
LEMMA RunOfLast ==
  ASSUME NEW m \in Mem, NEW from \in Lists, ShapeInv(m, from),
         NEW k \in Nat \ {0}, NEW d \in Nat, d + k = m.list[from].numNodes,
         NEW run, run = [i \in 0..(k - 1) |-> AtIndex(m, from, d + i)]
  PROVE  Run(m, run, k, d, from)
<1> DEFINE N == m.list[from].numNodes
           M == LastOnes(m, from, d)
<1>1. N \in Nat /\ \A z \in Own(m, from) : m.node[z].index \in Nat
  BY MemTypes DEF Own
<1>2. ASSUME NEW i \in 0..(k - 1) PROVE IsAt(m, from, d + i, run[i])
  <2>1. d + i \in Nat /\ d + i < N
    BY <1>1
  <2> QED BY <2>1, AtIndexIs
<1>3. ASSUME NEW i \in 0..(k - 1), NEW j \in 0..(k - 1), run[i] = run[j]
      PROVE  i = j
  <2>1. d + i = d + j
    BY <1>2, <1>3 DEF IsAt
  <2> QED BY <2>1
<1>4. ASSUME NEW i \in 0..(k - 1) PROVE run[i] \in M
  BY <1>2 DEF IsAt, LastOnes
<1>5. ASSUME NEW z \in M PROVE \E i \in 0..(k - 1) : run[i] = z
  <2> DEFINE j == m.node[z].index
             i == j - d
  <2>1. /\ z \in Own(m, from) /\ m.node[z].active /\ d <= j /\ j \in Nat
    BY <1>1 DEF LastOnes
  <2>2. IsAt(m, from, j, z)
    BY <2>1 DEF IsAt
  <2>3. j < N
    BY <2>1, <2>2, AtNeighbours
  <2>4. i \in 0..(k - 1) /\ d + i = j
    BY <1>1, <2>1, <2>3
  <2>5. z = AtIndex(m, from, j)
    BY <2>1, <2>2, <2>3, AtIndexIs
  <2>6. run[i] = z
    BY <2>4, <2>5
  <2> QED BY <2>4, <2>6
<1>6. {run[i] : i \in 0..(k - 1)} = M
  BY <1>4, <1>5
<1>7. run[k - 1] = m.list[from].tail
  <2>1. k - 1 \in 0..(k - 1) /\ d + (k - 1) \in Nat /\ (d + (k - 1)) + 1 = N
    BY <1>1
  <2>2. IsAt(m, from, d + (k - 1), run[k - 1])
    BY <1>2, <2>1
  <2> QED BY <2>1, <2>2, AtNeighbours
<1> QED BY <1>2, <1>3, <1>6, <1>7 DEF Run

(* The memory between the splice and the adoption. *)
LinkedLists(m, r, from, to, s, f, x, t) ==
  /\ r.list[from].head = IF f = NULL THEN x ELSE m.list[from].head
  /\ r.list[from].tail = IF f = NULL THEN x ELSE f
  /\ r.list[to].head = IF ActiveTail(m, t) THEN m.list[to].head ELSE s
  /\ \A l \in Lists \ {from, to} : /\ r.list[l].head = m.list[l].head
                                   /\ r.list[l].tail = m.list[l].tail

Linked(m, r, from, to, s, e, f, x, t, y) ==
  /\ Rewired(m, r)
  /\ MovedNexts(m, r, s, e, f, x, t, y) /\ MovedPrevs(m, r, s, e, f, x, t, y)
  /\ \A z \in Nodes :
       m.node[z].active \/ z \notin {x, t} => r.node[z].index = m.node[z].index
  /\ f = NULL /\ x # NULL => r.node[x].index = 0
  /\ LinkedLists(m, r, from, to, s, f, x, t)

(* The pointers after the splice and after the gap is closed.              *)
LEMMA LinkedFields ==
  ASSUME NEW m \in Mem, NEW from \in Lists, NEW to \in Lists, from # to,
         NEW s \in Nodes, NEW e \in Nodes, NEW f \in Ptr, NEW x \in Ptr,
         x # NULL => ~m.node[x].active,
         NEW r, r = CloseGap(SpliceIn(m, s, e, to), f, x, from)
  PROVE  LET t == m.list[to].tail
             y == m.node[t].next
         IN  Linked(m, r, from, to, s, e, f, x, t, y)
<1> DEFINE t == m.list[to].tail
           y == m.node[t].next
<1>0. PICK a : a = SpliceIn(m, s, e, to) /\ r = CloseGap(a, f, x, from)
  OBVIOUS
<1>1. SpliceEffect(m, a, s, e, to, t, y)
  BY <1>0, SpliceFields
<1> HIDE DEF t, y
<1>2. Rewired(m, a) /\ a \in Mem
  BY <1>1 DEF SpliceEffect, Rewired
<1>3. GapEffect(a, r, f, x, from)
  BY <1>0, <1>2, GapFields
<1>4. Rewired(m, r)
  BY <1>2, <1>3, RewiredTransitive DEF GapEffect
<1>5. MovedNexts(m, r, s, e, f, x, t, y)
  BY <1>1, <1>3 DEF SpliceEffect, GapEffect, MovedNexts
<1>6. MovedPrevs(m, r, s, e, f, x, t, y)
  BY <1>1, <1>3 DEF SpliceEffect, GapEffect, MovedPrevs
<1>7. ASSUME NEW z \in Nodes, m.node[z].active \/ z \notin {x, t}
      PROVE  r.node[z].index = m.node[z].index
  <2>1. ~(IdleTail(m, t) /\ z = t) /\ ~(x # NULL /\ z = x)
    BY <1>7 DEF IdleTail
  <2>2. a.node[z].index = m.node[z].index
    BY <1>1, <2>1 DEF SpliceEffect
  <2> QED BY <1>3, <2>1, <2>2 DEF GapEffect
<1>8. f = NULL /\ x # NULL => r.node[x].index = 0
  BY <1>3 DEF GapEffect, Ptr
<1>9. LinkedLists(m, r, from, to, s, f, x, t)
  <2>1. \A l \in Lists : /\ a.list[l].tail = m.list[l].tail
                         /\ a.list[l].head = IF l = to /\ ~ActiveTail(m, t) THEN s
                                             ELSE m.list[l].head
    BY <1>1 DEF SpliceEffect
  <2>2. \A l \in Lists :
          /\ r.list[l].tail = IF l # from THEN a.list[l].tail
                              ELSE IF f = NULL THEN x ELSE f
          /\ r.list[l].head = IF l = from /\ f = NULL THEN x ELSE a.list[l].head
    BY <1>3 DEF GapEffect
  <2> QED BY <2>1, <2>2 DEF LinkedLists
<1>10. Linked(m, r, from, to, s, e, f, x, t, y)
  BY <1>4, <1>5, <1>6, <1>7, <1>8, <1>9 DEF Linked
<1> QED BY <1>10 DEF t, y

(* A smaller set of chunks holds no more. *)
LEMMA HeldLess ==
  ASSUME NEW m, NEW S \in SUBSET Nodes, NEW T \in SUBSET S
  PROVE  /\ HeldBy(m, T) \subseteq HeldBy(m, S)
         /\ Cardinality(HeldBy(m, T)) \in Nat
         /\ Cardinality(HeldBy(m, T)) <= Cardinality(HeldBy(m, S))
<1>1. HeldBy(m, T) \subseteq HeldBy(m, S)
  BY DEF HeldBy
<1>2. IsFiniteSet(HeldBy(m, S))
  BY HeldFinite
<1>3. IsFiniteSet(HeldBy(m, T)) /\ Cardinality(HeldBy(m, T)) <= Cardinality(HeldBy(m, S))
  BY <1>1, <1>2, FS_Subset
<1> QED BY <1>1, <1>3, FS_CardinalityType

(* The run of _indexNodes over the linked memory. *)
LEMMA LinkedRun ==
  ASSUME NEW m \in Mem, NEW from \in Lists, ShapeInv(m, from), NEW to,
         NEW k \in Nat \ {0}, NEW d \in Nat, d + k = m.list[from].numNodes,
         NEW s, NEW e, NEW f, NEW x, NEW t, NEW y, NEW lk,
         LeavesFrom(m, from, d, s, e, f, x),
         Apart(m, LastOnes(m, from, d), e, f, x, t, y),
         Linked(m, lk, from, to, s, e, f, x, t, y)
  PROVE  Run(m, ChunksFrom(lk, s, k), k, d, from) /\ ChunksFrom(lk, s, k)[0] = s
<1>1. /\ m.list[from].numNodes \in Nat /\ m.heap \subseteq Nodes
  BY MemTypes
<1>2. k <= m.list[from].numNodes /\ d < m.list[from].numNodes
  BY ONLY d \in Nat, k \in Nat \ {0}, d + k = m.list[from].numNodes
<1>3. IsAt(m, from, d, s) /\ e = m.list[from].tail
  BY Zenon DEF LeavesFrom
<1>4. s = AtIndex(m, from, d)
  BY <1>2, <1>3, AtIndexIs
<1>5. ASSUME NEW z \in Own(m, from), m.node[z].active, d <= m.node[z].index,
             z # m.list[from].tail
      PROVE  lk.node[z].next = m.node[z].next
  <2>1. z \in LastOnes(m, from, d) /\ z \in Nodes
    BY <1>1, <1>5 DEF LastOnes, Own
  <2>2. z # f /\ (ActiveTail(m, t) => z # t) /\ z # e
    BY <1>3, <1>5, <2>1 DEF Apart
  <2> QED BY <2>1, <2>2 DEF Linked, MovedNexts
<1> DEFINE walk == [i \in 0..(k - 1) |-> AtIndex(m, from, d + i)]
<1>6. ChunksFrom(lk, AtIndex(m, from, d), k) = walk
  <2> HIDE <1>4
  <2> QED BY <1>2, <1>5, WalkOn
<1> HIDE DEF walk
<1>7. Run(m, walk, k, d, from)
  <2>1. walk = [i \in 0..(k - 1) |-> AtIndex(m, from, d + i)]
    BY DEF walk
  <2> QED BY <2>1, RunOfLast
<1>8. walk[0] = s
  <2>1. 0 \in 0..(k - 1) /\ d + 0 = d
    OBVIOUS
  <2> QED BY <1>4, <2>1 DEF walk
<1> QED BY <1>4, <1>6, <1>7, <1>8

(* The number the first of them gets. *)
LEMMA LinkedBase ==
  ASSUME NEW m \in Mem, NEW from, NEW to \in Lists, NEW M, NEW b,
         NEW s, NEW e, NEW f, NEW x, NEW t, NEW y, NEW lk, s \in M, s \in Nodes,
         JoinsTo(m, to, b, t, y), Apart(m, M, e, f, x, t, y),
         Linked(m, lk, from, to, s, e, f, x, t, y)
  PROVE  BaseOf(lk, s) = b
<1>1. NULL \notin Nodes /\ m.heap \subseteq Nodes
  BY MemTypes, ConstantsAssumption
<1>2. s # f /\ s # x /\ (ActiveTail(m, t) => s # t /\ s # y) /\ (IdleTail(m, t) => s # t)
  BY DEF Apart
<1>3. lk.node[s].prev = IF ActiveTail(m, t) THEN t ELSE NULL
  BY <1>2 DEF Linked, MovedPrevs
<1>4. CASE ActiveTail(m, t)
  <2>1. t \in Nodes /\ t # NULL /\ m.node[t].active /\ b = m.node[t].index + 1
    BY Zenon, <1>1, <1>4 DEF JoinsTo, ActiveTail, Own
  <2>2. lk.node[t].index = m.node[t].index
    BY <2>1 DEF Linked
  <2> QED BY Zenon, <1>3, <1>4, <2>1, <2>2 DEF BaseOf
<1>5. CASE ~ActiveTail(m, t)
  <2>1. b = 0
    BY Zenon, <1>5 DEF JoinsTo, IdleTail, ActiveTail
  <2> QED BY Zenon, <1>3, <1>5, <2>1 DEF BaseOf
<1> QED BY <1>4, <1>5

(* Adoption after the links: the effect of both. *)
LEMMA AdoptedLinks ==
  ASSUME NEW m \in Mem, NEW from \in Lists, NEW to \in Lists, from # to,
         NEW k \in Nat \ {0}, NEW d \in Nat, NEW b \in Nat, NEW num \in Nat,
         NEW s, NEW e, NEW f \in Ptr, NEW x \in Ptr, NEW t, NEW y, NEW lk, NEW run,
         LeavesFrom(m, from, d, s, e, f, x),
         Apart(m, LastOnes(m, from, d), e, f, x, t, y),
         Linked(m, lk, from, to, s, e, f, x, t, y), Run(m, run, k, d, from),
         NEW r, AdoptEffect(lk, r, run, k, b, num, from, to)
  PROVE  /\ MovedNexts(m, r, s, e, f, x, t, y) /\ MovedPrevs(m, r, s, e, f, x, t, y)
         /\ MovedNodes(m, r, LastOnes(m, from, d), d, b, to, x, t)
         /\ MovedLists(m, r, from, to, k, num, s, e, f, x, t)
<1> DEFINE M == LastOnes(m, from, d)
<1>1. m.heap \subseteq Nodes /\ {run[i] : i \in 0..(k - 1)} = M
  BY MemTypes DEF Run
<1>2. Rewired(m, lk) /\ lk \in Mem
  BY DEF Linked, Rewired
<1>3. ASSUME NEW z \in Nodes, z \notin M PROVE r.node[z] = lk.node[z]
  BY <1>1, <1>3 DEF AdoptEffect
<1>4. ASSUME NEW z \in M
       PROVE  Placed(lk.node[z], r.node[z], b + (m.node[z].index - d), to)
  <2>1. PICK i \in 0..(k - 1) : run[i] = z
    BY <1>1
  <2>2. m.node[z].index = d + i
    BY <2>1 DEF Run, IsAt
  <2>3. m.node[z].index - d = i
    BY <2>2
  <2>4. Placed(lk.node[run[i]], r.node[run[i]], b + i, to)
    BY DEF AdoptEffect
  <2> QED BY <2>1, <2>3, <2>4
<1> HIDE DEF M
<1>5. ASSUME NEW z \in Nodes
      PROVE  /\ r.node[z].next = lk.node[z].next /\ r.node[z].prev = lk.node[z].prev
             /\ r.node[z].slot = lk.node[z].slot
             /\ r.node[z].numElements = lk.node[z].numElements
             /\ r.node[z].firstKnownFree = lk.node[z].firstKnownFree
             /\ r.node[z].active = lk.node[z].active
             /\ r.node[z].dirty = lk.node[z].dirty
             /\ r.node[z].threadList = IF z \in M THEN to ELSE lk.node[z].threadList
  <2>1. CASE z \in M
    BY <1>4, <2>1 DEF Placed
  <2>2. CASE z \notin M
    BY <1>3, <2>2
  <2> QED BY <2>1, <2>2
<1>6. MovedNexts(m, r, s, e, f, x, t, y)
  <2>1. MovedNexts(m, lk, s, e, f, x, t, y)
    BY DEF Linked
  <2> QED BY <1>5, <2>1 DEF MovedNexts
<1>7. MovedPrevs(m, r, s, e, f, x, t, y)
  <2>1. MovedPrevs(m, lk, s, e, f, x, t, y)
    BY DEF Linked
  <2> QED BY <1>5, <2>1 DEF MovedPrevs
<1>8. MovedNodes(m, r, M, d, b, to, x, t)
  <2>1. r \in Mem /\ r.heap = m.heap
    BY <1>2 DEF AdoptEffect, Rewired
  <2>2. \A z \in M : r.node[z].index = b + (m.node[z].index - d)
    BY <1>4 DEF Placed
  <2>3. \A z \in m.heap \ M :
          m.node[z].active \/ z \notin {x, t} => r.node[z].index = m.node[z].index
    BY <1>1, <1>3 DEF Linked
  <2>4. ASSUME NEW z \in Nodes
        PROVE  /\ r.node[z].slot = m.node[z].slot
               /\ r.node[z].numElements = m.node[z].numElements
               /\ r.node[z].firstKnownFree = m.node[z].firstKnownFree
               /\ r.node[z].active = m.node[z].active
               /\ m.node[z].dirty => r.node[z].dirty
               /\ r.node[z].threadList =
                    IF z \in M THEN to ELSE m.node[z].threadList
    <3>1. /\ lk.node[z].slot = m.node[z].slot
          /\ lk.node[z].numElements = m.node[z].numElements
          /\ lk.node[z].firstKnownFree = m.node[z].firstKnownFree
          /\ lk.node[z].active = m.node[z].active
          /\ m.node[z].dirty => lk.node[z].dirty
          /\ lk.node[z].threadList = m.node[z].threadList
      BY <1>2 DEF Rewired
    <3> QED BY <1>5, <3>1
  <2> QED BY <2>1, <2>2, <2>3, <2>4 DEF MovedNodes
<1>9. MovedLists(m, r, from, to, k, num, s, e, f, x, t)
  <2>1. ASSUME f = NULL, x # NULL PROVE r.node[x].index = 0
    <3>1. x \in Nodes /\ x \notin M
      BY <2>1 DEF Apart, Ptr, M
    <3> QED BY <1>3, <2>1, <3>1 DEF Linked
  <2>2. /\ r.list[from].head = lk.list[from].head /\ r.list[to].head = lk.list[to].head
        /\ r.list[from].tail = lk.list[from].tail
        /\ r.list[from].numNodes = lk.list[from].numNodes - k
        /\ r.list[from].numElements = lk.list[from].numElements - num
        /\ r.list[to].tail = run[k - 1]
        /\ r.list[to].numNodes = lk.list[to].numNodes + k
        /\ r.list[to].numElements = lk.list[to].numElements + num
        /\ \A l \in Lists \ {from, to} : r.list[l] = lk.list[l]
    BY DEF AdoptEffect
  <2>3. \A l \in Lists : /\ lk.list[l].numNodes = m.list[l].numNodes
                         /\ lk.list[l].numElements = m.list[l].numElements
    BY <1>2 DEF Rewired
  <2>4. ASSUME NEW l \in Lists \ {from, to} PROVE lk.list[l] = m.list[l]
    <3>1. lk.list[l] \in ListRecord /\ m.list[l] \in ListRecord
      BY <1>2, MemTypes
    <3>2. lk.list[l].head = m.list[l].head /\ lk.list[l].tail = m.list[l].tail
      BY DEF Linked, LinkedLists
    <3> QED BY <2>3, <3>1, <3>2 DEF ListRecord
  <2>5. /\ lk.list[from].head = IF f = NULL THEN x ELSE m.list[from].head
        /\ lk.list[from].tail = IF f = NULL THEN x ELSE f
        /\ lk.list[to].head = IF ActiveTail(m, t) THEN m.list[to].head ELSE s
    BY Zenon DEF Linked, LinkedLists
  <2>6. run[k - 1] = e
    BY Zenon DEF Run, LeavesFrom
  <2>7. /\ r.list[from].numNodes = m.list[from].numNodes - k
        /\ r.list[from].numElements = m.list[from].numElements - num
        /\ r.list[to].numNodes = m.list[to].numNodes + k
        /\ r.list[to].numElements = m.list[to].numElements + num
    BY <2>2, <2>3
  <2>8. \A l \in Lists \ {from, to} : r.list[l] = m.list[l]
    BY <2>2, <2>4
  <2> QED BY <2>1, <2>2, <2>5, <2>6, <2>7, <2>8 DEF MovedLists
<1> QED BY <1>6, <1>7, <1>8, <1>9 DEF M

(* All of _transferNNodes. *)
Transferred(m, r, from, to, k, d, b, s, e, f, x, t, y) ==
  LET M == LastOnes(m, from, d)
  IN  /\ LeavesFrom(m, from, d, s, e, f, x) /\ JoinsTo(m, to, b, t, y)
      /\ Apart(m, M, e, f, x, t, y)
      /\ MovedNexts(m, r, s, e, f, x, t, y) /\ MovedPrevs(m, r, s, e, f, x, t, y)
      /\ MovedNodes(m, r, M, d, b, to, x, t)
      /\ MovedLists(m, r, from, to, k, Cardinality(HeldBy(m, M)), s, e, f, x, t)

(* What _transferNNodes as a whole writes.                                 *)
LEMMA TransferFields ==
  ASSUME NEW m, MemInv(m), NEW from \in Lists, NEW to \in Lists, from # to,
         NEW k \in Nat \ {0}, NEW d \in Nat, d + k = m.list[from].numNodes,
         NEW r, r = TransferNNodes(m, k, from, to)
  PROVE  \E s, e, f, x, t, y :
           Transferred(m, r, from, to, k, d, m.list[to].numNodes, s, e, f, x, t, y)
<1>1. /\ m \in Mem /\ ShapeInv(m, from) /\ ShapeInv(m, to) /\ FillInv(m)
      /\ StoredOnce(m) /\ NULL \notin Nodes /\ m.heap \subseteq Nodes
      /\ m.list[from].numElements = Cardinality(HeldBy(m, Own(m, from)))
  BY MemTypes, ConstantsAssumption DEF MemInv, CountInv
<1>2. PICK s, e, f, x : /\ s = StartOfLast(m, k, from) /\ e = m.list[from].tail
                        /\ f = m.node[s].prev /\ x = m.node[e].next
  OBVIOUS
<1>3. PICK t, y, b : t = m.list[to].tail /\ y = m.node[t].next /\ b = m.list[to].numNodes
  OBVIOUS
<1>4. LeavesFrom(m, from, d, s, e, f, x)
  BY <1>1, <1>2, LeavesSetting
<1>5. JoinsTo(m, to, b, t, y)
  BY <1>1, <1>3, JoinsSetting
<1> DEFINE M == LastOnes(m, from, d)
           num == Cardinality(HeldBy(m, M))
<1>6. Apart(m, M, e, f, x, t, y) /\ s \in M /\ s \in Nodes /\ e \in Nodes
  BY <1>1, <1>4, <1>5, MovedApart
<1>7. f \in Ptr /\ x \in Ptr /\ (x # NULL => ~m.node[x].active)
  <2>1. f \in Ptr /\ x \in Ptr
    <3>1. f = m.node[s].prev /\ x = m.node[e].next
      BY Zenon, <1>2
    <3>2. m.node[s].prev \in Ptr /\ m.node[e].next \in Ptr
      BY Zenon, <1>1, <1>6, MemTypes
    <3> QED BY Zenon, <3>1, <3>2
  <2>2. x # NULL => ~m.node[x].active
    BY Zenon, <1>4 DEF LeavesFrom
  <2> QED BY Zenon, <2>1, <2>2
<1> DEFINE lk == CloseGap(SpliceIn(m, s, e, to), f, x, from)
           run == ChunksFrom(lk, s, k)
<1>8. r = Adopt(lk, run, k, from, to)
  BY <1>2 DEF TransferNNodes
<1>9. Linked(m, lk, from, to, s, e, f, x, t, y)
  BY <1>1, <1>3, <1>6, <1>7, LinkedFields
<1> HIDE DEF lk, M
<1>10. Run(m, run, k, d, from) /\ run[0] = s
  <2>1. Apart(m, LastOnes(m, from, d), e, f, x, t, y)
    BY <1>6 DEF M
  <2> QED BY <1>1, <1>4, <1>9, <2>1, LinkedRun
<1> HIDE DEF run
<1>11. BaseOf(lk, s) = b
  BY <1>1, <1>5, <1>6, <1>9, LinkedBase
<1>12. SameStore(m, lk) /\ lk.heap = m.heap /\ lk \in Mem
       /\ lk.list[from].numNodes = m.list[from].numNodes
       /\ lk.list[from].numElements = m.list[from].numElements
  BY <1>9 DEF Linked, Rewired, SameStore
<1>13. M \in SUBSET Nodes /\ Own(m, from) \in SUBSET Nodes /\ M \in SUBSET Own(m, from)
  BY <1>1 DEF LastOnes, Own, M
<1>14. FillInv(lk) /\ StoredOnce(lk) /\ HeldBy(lk, M) = HeldBy(m, M)
  BY <1>1, <1>12, <1>13, SameStoreKeeps
<1>15. num \in Nat /\ num <= lk.list[from].numElements
  BY <1>1, <1>12, <1>13, HeldLess
<1>16. k <= lk.list[from].numNodes /\ b \in Nat
  BY <1>1, <1>3, <1>12, MemTypes
<1>17. /\ \A i \in 0..(k - 1) : run[i] \in lk.heap
       /\ \A i, j \in 0..(k - 1) : run[i] = run[j] => i = j
       /\ M = {run[i] : i \in 0..(k - 1)}
  BY <1>10, <1>12 DEF Run, IsAt, Own, M
<1>18. num = Cardinality(HeldBy(lk, M)) /\ b = BaseOf(lk, run[0])
  BY <1>10, <1>11, <1>14
<1> HIDE DEF num
<1>19. AdoptEffect(lk, r, run, k, b, num, from, to)
  BY <1>8, <1>12, <1>14, <1>15, <1>16, <1>17, <1>18, AdoptFields
<1>20. /\ MovedNexts(m, r, s, e, f, x, t, y) /\ MovedPrevs(m, r, s, e, f, x, t, y)
       /\ MovedNodes(m, r, M, d, b, to, x, t)
       /\ MovedLists(m, r, from, to, k, num, s, e, f, x, t)
  <2>1. Apart(m, LastOnes(m, from, d), e, f, x, t, y)
    BY <1>6 DEF M
  <2>2. Run(m, run, k, d, from)
    BY <1>10
  <2> QED BY <1>1, <1>4, <1>7, <1>9, <1>15, <1>16, <1>19, <2>1, <2>2,
             AdoptedLinks DEF M
<1>21. Transferred(m, r, from, to, k, d, b, s, e, f, x, t, y)
  BY <1>4, <1>5, <1>6, <1>20 DEF Transferred, M, num
<1> QED BY <1>3, <1>21

(* Whose chunks are whose after the transfer. *)
LEMMA TransferOwn ==
  ASSUME NEW m \in Mem, NEW from \in Lists, NEW to \in Lists, from # to,
         NEW d, NEW b, NEW x, NEW t, NEW r, NEW M, M = LastOnes(m, from, d),
         MovedNodes(m, r, M, d, b, to, x, t)
  PROVE  /\ M \subseteq Own(m, from) /\ M \subseteq Nodes
         /\ Own(r, from) = Own(m, from) \ M
         /\ Own(r, to) = Own(m, to) \cup M
         /\ \A l \in Lists \ {from, to} : Own(r, l) = Own(m, l)
         /\ \A l \in Lists : Own(m, l) \subseteq Nodes
         /\ \A z \in M : m.node[z].active /\ d <= m.node[z].index
         /\ \A z \in Own(m, to) : z \notin Own(m, from)
<1>1. /\ m.heap \subseteq Nodes /\ r.heap = m.heap
      /\ \A z \in Nodes : r.node[z].threadList = IF z \in M THEN to
                                                ELSE m.node[z].threadList
  BY MemTypes DEF MovedNodes
<1>2. M \subseteq Own(m, from) /\ \A z \in M : m.node[z].active /\ d <= m.node[z].index
  BY DEF LastOnes
<1> QED BY <1>1, <1>2 DEF Own

(* List from, of which the first d active chunks stay. *)
FromSetting(m, r, M, from, d, s, e, f, x) ==
  /\ Own(r, from) = Own(m, from) \ M
  /\ M = LastOnes(m, from, d)
  /\ LeavesFrom(m, from, d, s, e, f, x)
  /\ \A z \in Own(m, from) \ M :
       /\ r.node[z].next = IF f # NULL /\ z = f THEN x ELSE m.node[z].next
       /\ r.node[z].prev = IF x # NULL /\ z = x THEN f ELSE m.node[z].prev
       /\ r.node[z].active = m.node[z].active
       /\ m.node[z].active => r.node[z].index = m.node[z].index /\ m.node[z].index < d
  /\ r.list[from].head = IF f = NULL THEN x ELSE m.list[from].head
  /\ r.list[from].tail = IF f = NULL THEN x ELSE f
  /\ r.list[from].numNodes = d
  /\ f = NULL /\ x # NULL => r.node[x].index = 0

(* The list the chunks leave, seen from its remaining chunks.              *)
LEMMA FromSettingHolds ==
  ASSUME NEW m \in Mem, NEW from \in Lists, NEW to \in Lists, from # to,
         ShapeInv(m, from), NEW k \in Nat, NEW d \in Nat,
         d + k = m.list[from].numNodes, NEW b,
         NEW s, NEW e, NEW f, NEW x, NEW t, NEW y, NEW r,
         Transferred(m, r, from, to, k, d, b, s, e, f, x, t, y)
  PROVE  FromSetting(m, r, LastOnes(m, from, d), from, d, s, e, f, x)
<1> DEFINE M == LastOnes(m, from, d)
<1>1. /\ LeavesFrom(m, from, d, s, e, f, x) /\ JoinsTo(m, to, b, t, y)
      /\ MovedNexts(m, r, s, e, f, x, t, y) /\ MovedPrevs(m, r, s, e, f, x, t, y)
      /\ MovedNodes(m, r, M, d, b, to, x, t)
      /\ MovedLists(m, r, from, to, k, Cardinality(HeldBy(m, M)), s, e, f, x, t)
  BY DEF Transferred
<1>2. /\ Own(r, from) = Own(m, from) \ M /\ Own(m, from) \subseteq Nodes
      /\ \A z \in Own(m, to) : z \notin Own(m, from)
  BY <1>1, TransferOwn
<1>3. s \in M /\ e \in M
  <2>1. s \in LastOnes(m, from, d)
    BY Zenon, <1>1, MovedApart
  <2>2. IsAt(m, from, d, s) /\ e = m.list[from].tail /\ e \in Own(m, from) /\ m.node[e].active
    BY Zenon, <1>1 DEF LeavesFrom
  <2>3. ActiveNode(m, from, s) /\ m.node[s].index = d
    BY <2>2 DEF IsAt, ShapeInv, ActiveInv
  <2>4. d <= m.node[e].index
    BY <2>2, <2>3 DEF ActiveNode
  <2>5. e \in LastOnes(m, from, d)
    BY Zenon, <2>2, <2>4 DEF LastOnes
  <2> QED BY <2>1, <2>5
<1>4. \A z \in Own(m, from) \ M :
        /\ z # s /\ z # e /\ z \in Nodes
        /\ ~(ActiveTail(m, t) /\ z = t) /\ ~(IdleTail(m, t) /\ z = t)
        /\ ~(ActiveTail(m, t) /\ y # NULL /\ z = y)
  BY Zenon, <1>1, <1>2, <1>3 DEF JoinsTo
<1>5. ASSUME NEW z \in Own(m, from) \ M
      PROVE  /\ r.node[z].next = IF f # NULL /\ z = f THEN x ELSE m.node[z].next
             /\ r.node[z].prev = IF x # NULL /\ z = x THEN f ELSE m.node[z].prev
  <2>1. /\ z # s /\ z # e /\ z \in Nodes
        /\ ~(ActiveTail(m, t) /\ z = t) /\ ~(IdleTail(m, t) /\ z = t)
        /\ ~(ActiveTail(m, t) /\ y # NULL /\ z = y)
    BY <1>4
  <2>2. r.node[z].next = IF f # NULL /\ z = f THEN x ELSE m.node[z].next
    BY <1>1, <2>1 DEF MovedNexts
  <2>3. r.node[z].prev = IF x # NULL /\ z = x THEN f ELSE m.node[z].prev
    BY <1>1, <2>1 DEF MovedPrevs
  <2> QED BY <2>2, <2>3
<1>6. ASSUME NEW z \in Own(m, from) \ M
      PROVE  /\ r.node[z].active = m.node[z].active
             /\ m.node[z].active =>
                  r.node[z].index = m.node[z].index /\ m.node[z].index < d
  <2>1. z \in Nodes /\ z \in m.heap \ M
    BY <1>2, <1>5 DEF Own
  <2>2. m.node[z].active => ~(d <= m.node[z].index)
    BY <1>6 DEF LastOnes
  <2>3. m.node[z].index \in Nat
    BY <2>1, MemTypes
  <2> QED BY <1>1, <2>1, <2>2, <2>3 DEF MovedNodes
<1>7. r.list[from].numNodes = d
  <2>1. r.list[from].numNodes = m.list[from].numNodes - k
    BY <1>1 DEF MovedLists
  <2> QED BY <2>1
<1>8. /\ r.list[from].head = IF f = NULL THEN x ELSE m.list[from].head
      /\ r.list[from].tail = IF f = NULL THEN x ELSE f
      /\ f = NULL /\ x # NULL => r.node[x].index = 0
  BY <1>1 DEF MovedLists
<1> QED BY <1>1, <1>2, <1>5, <1>6, <1>7, <1>8 DEF FromSetting

(* What is left of the list behind chunk f or, if nothing is, the inactive   *)
(* chunks that follow it. *)
LEMMA FromLinks ==
  ASSUME NEW m \in Mem, NEW from \in Lists, ShapeInv(m, from), NEW d \in Nat,
         NEW s, NEW e, NEW f, NEW x, NEW r, NEW M,
         FromSetting(m, r, M, from, d, s, e, f, x)
  PROVE  LinksInv(r, from)
<1> DEFINE R == Own(m, from) \ M
<1>1. Own(r, from) = R /\ LeavesFrom(m, from, d, s, e, f, x) /\ M = LastOnes(m, from, d)
  BY DEF FromSetting
<1>2. \A z \in R : /\ r.node[z].next = IF f # NULL /\ z = f THEN x ELSE m.node[z].next
                   /\ r.node[z].prev = IF x # NULL /\ z = x THEN f ELSE m.node[z].prev
                   /\ m.node[z].active => m.node[z].index < d
  BY DEF FromSetting
<1> SUFFICES ASSUME NEW n \in R, r.node[n].next # NULL
             PROVE  r.node[n].next \in R /\ r.node[r.node[n].next].prev = n
  BY Zenon, <1>1 DEF LinksInv
<1>3. x # NULL => x \in R
  BY Zenon, <1>1 DEF LeavesFrom, LastOnes
<1>4. CASE f # NULL /\ n = f
  BY <1>2, <1>3, <1>4
<1>5. CASE ~(f # NULL /\ n = f)
  <2> DEFINE w == m.node[n].next
  <2>1. r.node[n].next = w /\ w # NULL
    BY <1>2, <1>5
  <2>2. w \in Own(m, from) /\ m.node[w].prev = n
    BY <2>1 DEF ShapeInv, LinksInv
  <2>3. ASSUME w \in M PROVE FALSE
    <3>1. m.node[w].active /\ d <= m.node[w].index
      BY <1>1, <2>3 DEF LastOnes
    <3>2. ActiveNode(m, from, w) /\ n # NULL
      BY <2>2, <3>1, MemTypes, ConstantsAssumption DEF ShapeInv, ActiveInv, Own
    <3>3. m.node[n].active /\ m.node[w].index = m.node[n].index + 1
      BY <2>2, <3>2 DEF ActiveNode
    <3>4. m.node[n].index < d
      BY <1>2, <3>3
    <3>5. m.node[n].index \in Nat
      BY MemTypes DEF Own
    <3>6. d # 0 /\ m.node[n].index = d - 1
      BY ONLY d \in Nat, <3>1, <3>3, <3>4, <3>5
    <3>7. IsAt(m, from, d - 1, f) /\ f # NULL
      BY Zenon, <1>1, <3>6 DEF LeavesFrom
    <3>8. n = f
      BY <3>3, <3>6, <3>7 DEF IsAt, ShapeInv, IndexInv
    <3> QED BY <1>5, <3>7, <3>8
  <2>4. w \in R
    BY <2>2, <2>3
  <2>5. ~(x # NULL /\ w = x)
    <3> SUFFICES ASSUME x # NULL, w = x PROVE FALSE
      BY Zenon
    <3>1. m.node[x].prev = e /\ e \in Own(m, from) /\ m.node[e].active
      BY Zenon, <1>1 DEF LeavesFrom
    <3>2. n = e
      BY <2>2, <3>1
    <3>3. e \in M
      <4>1. IsAt(m, from, d, s) /\ e = m.list[from].tail
        BY Zenon, <1>1 DEF LeavesFrom
      <4>2. ActiveNode(m, from, s) /\ m.node[s].index = d
        BY <4>1 DEF IsAt, ShapeInv, ActiveInv
      <4>3. d <= m.node[e].index
        BY <4>1, <4>2 DEF ActiveNode
      <4> QED BY Zenon, <1>1, <3>1, <4>3 DEF LastOnes
    <3> QED BY <3>2, <3>3
  <2>6. r.node[w].prev = n
    BY <1>2, <2>2, <2>4, <2>5
  <2> QED BY <2>1, <2>4, <2>6
<1> QED BY <1>4, <1>5

(* The list the chunks leave: activity and numbering of what remains.      *)
LEMMA FromActive ==
  ASSUME NEW m \in Mem, NEW from \in Lists, ShapeInv(m, from), NEW d \in Nat,
         NEW s, NEW e, NEW f, NEW x, NEW r, NEW M,
         FromSetting(m, r, M, from, d, s, e, f, x)
  PROVE  ActiveInv(r, from) /\ IndexInv(r, from)
<1> DEFINE R == Own(m, from) \ M
<1>1. Own(r, from) = R /\ LeavesFrom(m, from, d, s, e, f, x) /\ M = LastOnes(m, from, d)
  BY DEF FromSetting
<1>2. \A z \in R : /\ r.node[z].next = IF f # NULL /\ z = f THEN x ELSE m.node[z].next
                   /\ r.node[z].prev = IF x # NULL /\ z = x THEN f ELSE m.node[z].prev
                   /\ r.node[z].active = m.node[z].active
                   /\ m.node[z].active =>
                        r.node[z].index = m.node[z].index /\ m.node[z].index < d
  BY DEF FromSetting
<1>3. \A z \in Own(m, from) : m.node[z].index \in Nat /\ z # NULL
  BY MemTypes, ConstantsAssumption DEF Own
<1>4. IndexInv(r, from)
  BY <1>1, <1>2 DEF IndexInv, ShapeInv
<1>5. ASSUME NEW z \in Own(m, from), m.node[z].active, m.node[z].index < d PROVE z \in R
  <2>1. ~(d <= m.node[z].index)
    BY <1>3, <1>5
  <2> QED BY <1>1, <1>5, <2>1 DEF LastOnes
<1>6. ASSUME NEW n \in R, m.node[n].active PROVE ActiveNode(r, from, n)
  <2> DEFINE p == m.node[n].prev
             w == m.node[n].next
  <2>1. m.node[n].index < d /\ m.node[n].index \in Nat /\ n # NULL
    BY <1>2, <1>3, <1>6
  <2>2. d # 0 /\ d - 1 \in Nat /\ m.node[n].index <= d - 1
    BY ONLY d \in Nat, <2>1
  <2>3. IsAt(m, from, d - 1, f) /\ f # NULL /\ f # e
    BY Zenon, <1>1, <2>2 DEF LeavesFrom
  <2>4. f \in Own(m, from) /\ m.node[f].active /\ m.node[f].index = d - 1
    BY <2>3 DEF IsAt
  <2>5. f \in R
    BY <1>5, <2>2, <2>4
  <2>6. r.list[from].tail = f /\ r.node[f].active /\ r.node[f].index = d - 1
    <3>1. r.list[from].tail = f
      BY <2>3 DEF FromSetting
    <3> QED BY <1>2, <2>4, <2>5, <3>1
  <2>7. ActiveNode(m, from, n)
    BY Zenon, <1>6 DEF ShapeInv, ActiveInv
  <2>8. x # NULL => x \in Own(m, from) /\ ~m.node[x].active
    BY Zenon, <1>1 DEF LeavesFrom
  <2>9. r.node[n].prev = p /\ r.node[n].index = m.node[n].index
    BY <1>2, <1>6, <2>8
  <2>10. r.node[n].prev = NULL => r.list[from].head = n /\ r.node[n].index = 0
    <3>1. r.list[from].head = m.list[from].head
      BY <2>3 DEF FromSetting
    <3> QED BY <2>7, <2>9, <3>1 DEF ActiveNode
  <2>11. ASSUME p # NULL
         PROVE  p \in R /\ r.node[p].active /\ r.node[p].next = n
                /\ r.node[n].index = r.node[p].index + 1
    <3>1. /\ p \in Own(m, from) /\ m.node[p].active /\ m.node[p].next = n
          /\ m.node[n].index = m.node[p].index + 1
      BY <2>7, <2>11 DEF ActiveNode
    <3>2. m.node[p].index \in Nat
      BY <1>3, <3>1
    <3>3. m.node[p].index < d
      BY <2>1, <3>1, <3>2
    <3>4. p \in R
      BY <1>5, <3>1, <3>3
    <3>5. p # f
      <4>1. ASSUME p = f PROVE m.node[n].index = (d - 1) + 1
        BY <2>4, <3>1, <4>1
      <4> QED BY <2>1, <2>2, <4>1
    <3> QED BY <1>2, <2>9, <3>1, <3>4, <3>5
  <2>12. n = f => (r.node[n].next # NULL => ~r.node[r.node[n].next].active)
    <3> SUFFICES ASSUME n = f, x # NULL PROVE ~r.node[x].active
      BY <1>2, <2>3
    <3>1. x \in R
      BY <1>1, <2>8 DEF LastOnes
    <3> QED BY <1>2, <2>8, <3>1
  <2>13. ASSUME n # f PROVE r.node[n].next # NULL /\ r.node[r.node[n].next].active
    <3>1. n # m.list[from].tail
      <4>1. e = m.list[from].tail /\ e \in Own(m, from) /\ m.node[e].active /\ IsAt(m, from, d, s)
        BY Zenon, <1>1 DEF LeavesFrom
      <4>2. ActiveNode(m, from, s) /\ m.node[s].index = d
        BY <4>1 DEF IsAt, ShapeInv, ActiveInv
      <4>3. d <= m.node[e].index
        BY <4>1, <4>2 DEF ActiveNode
      <4> QED BY <2>1, <4>1, <4>3
    <3>2. w # NULL /\ m.node[w].active
      BY <2>7, <3>1 DEF ActiveNode
    <3>3. w \in Own(m, from) /\ m.node[w].prev = n
      BY <3>2 DEF ShapeInv, LinksInv
    <3>4. m.node[w].index = m.node[n].index + 1
      <4>1. ActiveNode(m, from, w)
        BY <3>2, <3>3 DEF ShapeInv, ActiveInv
      <4> QED BY <2>1, <3>3, <4>1 DEF ActiveNode
    <3>5. m.node[n].index # d - 1
      BY <1>6, <2>4, <2>13 DEF ShapeInv, IndexInv
    <3>6. m.node[w].index < d
      BY <2>1, <2>2, <3>4, <3>5
    <3>7. w \in R
      BY <1>5, <3>2, <3>3, <3>6
    <3>8. r.node[n].next = w
      BY <1>2, <2>13
    <3> QED BY <1>2, <3>2, <3>7, <3>8
  <2>14. /\ r.list[from].tail # NULL /\ r.node[r.list[from].tail].active
         /\ r.node[n].index <= r.node[r.list[from].tail].index
    BY <2>2, <2>3, <2>6, <2>9
  <2> QED BY <1>1, <2>6, <2>9, <2>10, <2>11, <2>12, <2>13, <2>14 DEF ActiveNode
<1>7. ActiveInv(r, from)
  BY <1>1, <1>2, <1>6 DEF ActiveInv
<1> QED BY <1>4, <1>7

(* The list the chunks leave: its head and its tail.                       *)
LEMMA FromEnds ==
  ASSUME NEW m \in Mem, NEW from \in Lists, ShapeInv(m, from), NEW d \in Nat,
         NEW s, NEW e, NEW f, NEW x, NEW r, NEW M,
         FromSetting(m, r, M, from, d, s, e, f, x)
  PROVE  EndsInv(r, from)
<1> DEFINE R == Own(m, from) \ M
<1>1. Own(r, from) = R /\ LeavesFrom(m, from, d, s, e, f, x) /\ M = LastOnes(m, from, d)
  BY DEF FromSetting
<1>2. \A z \in R : /\ r.node[z].next = IF f # NULL /\ z = f THEN x ELSE m.node[z].next
                   /\ r.node[z].prev = IF x # NULL /\ z = x THEN f ELSE m.node[z].prev
                   /\ r.node[z].active = m.node[z].active
                   /\ m.node[z].active =>
                        r.node[z].index = m.node[z].index /\ m.node[z].index < d
  BY DEF FromSetting
<1>3. /\ r.list[from].head = IF f = NULL THEN x ELSE m.list[from].head
      /\ r.list[from].tail = IF f = NULL THEN x ELSE f
      /\ r.list[from].numNodes = d
      /\ f = NULL /\ x # NULL => r.node[x].index = 0
  BY Zenon DEF FromSetting
<1>4. x # NULL => x \in R /\ ~m.node[x].active
  BY Zenon, <1>1 DEF LeavesFrom, LastOnes
<1>5. CASE f = NULL
  <2>1. d = 0
    BY Zenon, <1>1, <1>5 DEF LeavesFrom
  <2>2. x # NULL => r.node[x].prev = NULL /\ ~r.node[x].active
    BY <1>2, <1>4, <1>5
  <2> QED BY Zenon, <1>1, <1>3, <1>4, <1>5, <2>1, <2>2 DEF EndsInv
<1>6. CASE f # NULL
  <2> DEFINE h == m.list[from].head
  <2>1. d # 0
    BY Zenon, <1>1, <1>6 DEF LeavesFrom
  <2>2. f \in Own(m, from) /\ m.node[f].active /\ m.node[f].index = d - 1
    BY Zenon, <1>1, <2>1 DEF LeavesFrom, IsAt
  <2>3. f \in R /\ r.node[f].active /\ r.node[f].index = d - 1
    <3>1. ~(d <= d - 1)
      OBVIOUS
    <3>2. f \notin M
      BY Zenon, <1>1, <2>2, <3>1 DEF LastOnes
    <3> QED BY <1>2, <2>2, <3>2
  <2>4. e = m.list[from].tail /\ e \in Own(m, from)
    BY Zenon, <1>1 DEF LeavesFrom
  <2>5. e # NULL
    BY <2>4, MemTypes, ConstantsAssumption DEF Own
  <2>6. h # NULL /\ h \in Own(m, from) /\ m.node[h].prev = NULL
    BY <2>4, <2>5 DEF ShapeInv, EndsInv
  <2>7. h \in R
    <3> SUFFICES ASSUME h \in M PROVE FALSE
      BY <2>6
    <3>1. m.node[h].active /\ d <= m.node[h].index
      BY <1>1 DEF LastOnes
    <3>2. m.node[h].index = 0
      BY Zenon, <2>6, <3>1 DEF ShapeInv, ActiveInv, ActiveNode
    <3> QED BY <2>1, <3>1, <3>2
  <2>8. ~(x # NULL /\ h = x)
    BY Zenon, <1>1, <2>5, <2>6 DEF LeavesFrom
  <2>9. r.node[h].prev = NULL
    BY <1>2, <2>6, <2>7, <2>8
  <2>10. r.list[from].head = h /\ r.list[from].tail = f
    BY <1>3, <1>6
  <2>11. r.list[from].numNodes = r.node[f].index + 1
    BY <1>3, <2>3
  <2> QED BY Zenon, <1>1, <1>6, <2>3, <2>6, <2>7, <2>9, <2>10, <2>11 DEF EndsInv
<1> QED BY <1>5, <1>6

(* The list the chunks leave is well shaped.                               *)
LEMMA FromShape ==
  ASSUME NEW m \in Mem, NEW from \in Lists, ShapeInv(m, from), NEW d \in Nat,
         NEW s, NEW e, NEW f, NEW x, NEW r, NEW M,
         FromSetting(m, r, M, from, d, s, e, f, x)
  PROVE  ShapeInv(r, from)
<1>1. LinksInv(r, from)
  BY FromLinks
<1>2. ActiveInv(r, from) /\ IndexInv(r, from)
  BY FromActive
<1>3. EndsInv(r, from)
  BY FromEnds
<1> QED BY <1>1, <1>2, <1>3 DEF ShapeInv

(* List to, whose active chunks end in a: the chunks of M follow it, from s  *)
(* to e, and the inactive chunk c follows them. *)
ToPlace(m, from, to, d, k, b, s, e, a, c) ==
  /\ IsAt(m, from, d, s)
  /\ e = m.list[from].tail /\ e \in Own(m, from) /\ m.node[e].active
  /\ m.node[e].index + 1 = d + k
  /\ a = NULL => b = 0 /\ \A z \in Own(m, to) : ~m.node[z].active
  /\ a # NULL => /\ a = m.list[to].tail /\ a \in Own(m, to) /\ m.node[a].active
                 /\ m.node[a].next = c /\ b = m.node[a].index + 1
  /\ c # NULL => c \in Own(m, to) /\ ~m.node[c].active /\ m.node[c].prev = a

ToSetting(m, r, M, from, to, d, k, b, s, e, a, c) ==
  /\ Own(r, to) = Own(m, to) \cup M
  /\ M = LastOnes(m, from, d) /\ \A z \in M : z \notin Own(m, to)
  /\ \A z \in Own(m, to) :
       /\ r.node[z].next = IF a # NULL /\ z = a THEN s ELSE m.node[z].next
       /\ r.node[z].prev = IF c # NULL /\ z = c THEN e ELSE m.node[z].prev
       /\ r.node[z].active = m.node[z].active
       /\ m.node[z].active => r.node[z].index = m.node[z].index
  /\ \A z \in M :
       /\ r.node[z].next = IF z = e THEN c ELSE m.node[z].next
       /\ r.node[z].prev = IF z = s THEN a ELSE m.node[z].prev
       /\ r.node[z].active
       /\ r.node[z].index = b + (m.node[z].index - d)
  /\ r.list[to].head = IF a = NULL THEN s ELSE m.list[to].head
  /\ r.list[to].tail = e
  /\ r.list[to].numNodes = b + k

(* The list the chunks join, seen from its old and new chunks.             *)
LEMMA ToSettingHolds ==
  ASSUME NEW m \in Mem, NEW from \in Lists, NEW to \in Lists, from # to,
         ShapeInv(m, from), ShapeInv(m, to), NEW k \in Nat, NEW d \in Nat,
         d + k = m.list[from].numNodes, NEW b, b = m.list[to].numNodes,
         NEW s, NEW e, NEW f, NEW x, NEW t, NEW y, NEW r,
         Transferred(m, r, from, to, k, d, b, s, e, f, x, t, y),
         NEW a, a = IF ActiveTail(m, t) THEN t ELSE NULL,
         NEW c, c = IF ActiveTail(m, t) THEN y ELSE t
  PROVE  /\ ToPlace(m, from, to, d, k, b, s, e, a, c)
         /\ ToSetting(m, r, LastOnes(m, from, d), from, to, d, k, b, s, e, a, c)
<1> DEFINE M == LastOnes(m, from, d)
<1>1. /\ LeavesFrom(m, from, d, s, e, f, x) /\ JoinsTo(m, to, b, t, y)
      /\ Apart(m, M, e, f, x, t, y)
      /\ MovedNexts(m, r, s, e, f, x, t, y) /\ MovedPrevs(m, r, s, e, f, x, t, y)
      /\ MovedNodes(m, r, M, d, b, to, x, t)
      /\ MovedLists(m, r, from, to, k, Cardinality(HeldBy(m, M)), s, e, f, x, t)
  BY DEF Transferred
<1>2. /\ M \subseteq Own(m, from) /\ M \subseteq Nodes
      /\ Own(r, to) = Own(m, to) \cup M /\ Own(m, to) \subseteq Nodes
      /\ \A z \in M : m.node[z].active /\ d <= m.node[z].index
      /\ \A z \in Own(m, to) : z \notin Own(m, from)
  BY <1>1, TransferOwn
<1>3. NULL \notin Nodes
  BY ConstantsAssumption
<1>4. s \in M /\ e \in Nodes /\ e \in Own(m, from) /\ s \in Own(m, from)
  <2>1. s \in LastOnes(m, from, d) /\ e \in Nodes
    BY Zenon, <1>1, MovedApart
  <2>2. e \in Own(m, from)
    BY Zenon, <1>1 DEF LeavesFrom
  <2> QED BY <1>2, <2>1, <2>2
<1>5. f # NULL => f \in Own(m, from)
  BY Zenon, <1>1 DEF LeavesFrom, IsAt
<1>6. x # NULL => x \in Own(m, from)
  BY Zenon, <1>1 DEF LeavesFrom
<1>7. /\ ActiveTail(m, t) => a = t /\ c = y /\ a # NULL
      /\ ~ActiveTail(m, t) => a = NULL /\ c = t
      /\ IdleTail(m, t) <=> (~ActiveTail(m, t) /\ c # NULL)
  BY DEF ActiveTail, IdleTail
<1>8. ToPlace(m, from, to, d, k, b, s, e, a, c)
  <2>1. /\ IsAt(m, from, d, s)
        /\ e = m.list[from].tail /\ e \in Own(m, from) /\ m.node[e].active
    BY Zenon, <1>1 DEF LeavesFrom
  <2>2. m.node[e].index + 1 = d + k
    <3>1. e # NULL /\ EndsInv(m, from)
      BY <1>3, <1>4 DEF ShapeInv
    <3>2. m.list[from].numNodes = m.node[e].index + 1
      BY Zenon, <2>1, <3>1 DEF EndsInv
    <3> QED BY <3>2
  <2>3. CASE ActiveTail(m, t)
    <3>1. /\ t = m.list[to].tail /\ t \in Own(m, to) /\ b = m.node[t].index + 1
          /\ y = m.node[t].next /\ m.node[t].active
          /\ y # NULL => y \in Own(m, to) /\ ~m.node[y].active /\ m.node[y].prev = t
      BY Zenon, <1>1, <2>3 DEF JoinsTo, ActiveTail
    <3> QED BY Zenon, <1>7, <2>1, <2>2, <2>3, <3>1 DEF ToPlace
  <2>4. CASE ~ActiveTail(m, t)
    <3>1. b = 0 /\ t = m.list[to].tail
      BY Zenon, <1>1, <2>4 DEF JoinsTo, ActiveTail, IdleTail
    <3>2. \A z \in Own(m, to) : ~m.node[z].active
      BY Zenon, <2>4, <3>1 DEF ActiveTail, ShapeInv, ActiveInv, ActiveNode
    <3>3. c # NULL => c \in Own(m, to) /\ ~m.node[c].active /\ m.node[c].prev = a
      BY Zenon, <1>1, <1>7, <2>4 DEF JoinsTo, IdleTail
    <3> QED BY Zenon, <1>7, <2>1, <2>2, <2>4, <3>1, <3>2, <3>3 DEF ToPlace
  <2> QED BY Zenon, <2>3, <2>4
<1>9. ASSUME NEW z \in Own(m, to)
      PROVE  /\ r.node[z].next = IF a # NULL /\ z = a THEN s ELSE m.node[z].next
             /\ r.node[z].prev = IF c # NULL /\ z = c THEN e ELSE m.node[z].prev
             /\ r.node[z].active = m.node[z].active
             /\ m.node[z].active => r.node[z].index = m.node[z].index
  <2>1. /\ z \in Nodes /\ z # e /\ z # s /\ ~(f # NULL /\ z = f)
        /\ ~(x # NULL /\ z = x)
    BY <1>2, <1>4, <1>5, <1>6
  <2>2. r.node[z].next = IF ActiveTail(m, t) /\ z = t THEN s ELSE m.node[z].next
    BY <1>1, <2>1 DEF MovedNexts
  <2>3. r.node[z].prev = IF ActiveTail(m, t) /\ y # NULL /\ z = y THEN e
                         ELSE IF IdleTail(m, t) /\ z = t THEN e ELSE m.node[z].prev
    BY <1>1, <2>1 DEF MovedPrevs
  <2>4. z \in m.heap \ M
    BY <1>2 DEF Own
  <2>5. /\ r.node[z].active = m.node[z].active
        /\ m.node[z].active => r.node[z].index = m.node[z].index
    BY <1>1, <2>1, <2>4 DEF MovedNodes
  <2> QED BY <1>7, <2>2, <2>3, <2>5
<1>10. ASSUME NEW z \in M
       PROVE  /\ r.node[z].next = IF z = e THEN c ELSE m.node[z].next
              /\ r.node[z].prev = IF z = s THEN a ELSE m.node[z].prev
              /\ r.node[z].active
              /\ r.node[z].index = b + (m.node[z].index - d)
  <2>1. /\ z \in Nodes /\ z # f /\ z # x
        /\ ActiveTail(m, t) => z # t /\ z # y
        /\ IdleTail(m, t) => z # t
    BY <1>1, <1>2 DEF Apart
  <2>2. r.node[z].next = IF z # e THEN m.node[z].next
                         ELSE IF ActiveTail(m, t) THEN y ELSE t
    BY <1>1, <2>1 DEF MovedNexts
  <2>3. r.node[z].prev = IF z # s THEN m.node[z].prev
                         ELSE IF ActiveTail(m, t) THEN t ELSE NULL
    BY <1>1, <2>1 DEF MovedPrevs
  <2>4. r.node[z].active /\ r.node[z].index = b + (m.node[z].index - d)
    BY <1>1, <1>2, <2>1 DEF MovedNodes
  <2> QED BY <1>7, <2>2, <2>3, <2>4
<1>11. /\ r.list[to].head = IF a = NULL THEN s ELSE m.list[to].head
       /\ r.list[to].tail = e
       /\ r.list[to].numNodes = b + k
  BY <1>1, <1>7 DEF MovedLists
<1>12. ToSetting(m, r, M, from, to, d, k, b, s, e, a, c)
  BY <1>2, <1>9, <1>10, <1>11 DEF ToSetting
<1> QED BY <1>8, <1>12

(* The chunks that move, among themselves. *)
LEMMA AmongLast ==
  ASSUME NEW m \in Mem, NEW from \in Lists, ShapeInv(m, from), NEW d \in Nat,
         NEW s, IsAt(m, from, d, s), NEW e, e = m.list[from].tail,
         NEW n \in LastOnes(m, from, d)
  PROVE  /\ n # e => LET w == m.node[n].next
                     IN  /\ w \in LastOnes(m, from, d) /\ w # s /\ w # NULL
                         /\ m.node[w].prev = n
         /\ n # s => LET p == m.node[n].prev
                     IN  /\ p \in LastOnes(m, from, d) /\ p # e /\ p # NULL
                         /\ m.node[p].next = n
                         /\ m.node[n].index = m.node[p].index + 1
         /\ m.node[n].index <= m.node[e].index
<1>1. \A z \in Own(m, from) : m.node[z].index \in Nat /\ z # NULL
  BY MemTypes, ConstantsAssumption DEF Own
<1>2. n \in Own(m, from) /\ m.node[n].active /\ d <= m.node[n].index
  BY DEF LastOnes
<1>3. ActiveNode(m, from, n)
  BY <1>2 DEF ShapeInv, ActiveInv
<1>4. s \in Own(m, from) /\ m.node[s].active /\ m.node[s].index = d
  BY DEF IsAt
<1>5. ASSUME n # e
      PROVE  LET w == m.node[n].next
             IN  /\ w \in LastOnes(m, from, d) /\ w # s /\ w # NULL
                 /\ m.node[w].prev = n
  <2> DEFINE w == m.node[n].next
  <2>1. w # NULL /\ m.node[w].active
    BY <1>3, <1>5 DEF ActiveNode
  <2>2. w \in Own(m, from) /\ m.node[w].prev = n
    BY <1>2, <2>1 DEF ShapeInv, LinksInv
  <2>3. m.node[w].index = m.node[n].index + 1
    BY <1>1, <1>2, <2>1, <2>2 DEF ShapeInv, ActiveInv, ActiveNode
  <2>4. d < m.node[w].index /\ d <= m.node[w].index
    BY <1>1, <1>2, <2>3
  <2>5. w # s
    BY <1>4, <2>4
  <2> QED BY <2>1, <2>2, <2>4, <2>5 DEF LastOnes
<1>6. ASSUME n # s
      PROVE  LET p == m.node[n].prev
             IN  /\ p \in LastOnes(m, from, d) /\ p # e /\ p # NULL
                 /\ m.node[p].next = n
                 /\ m.node[n].index = m.node[p].index + 1
  <2> DEFINE p == m.node[n].prev
  <2>1. m.node[n].index # d
    BY <1>2, <1>4, <1>6 DEF ShapeInv, IndexInv
  <2>2. m.node[n].index # 0 /\ d < m.node[n].index
    BY <1>1, <1>2, <2>1
  <2>3. /\ p # NULL /\ p \in Own(m, from) /\ m.node[p].active /\ m.node[p].next = n
        /\ m.node[n].index = m.node[p].index + 1
    BY <1>3, <2>2 DEF ActiveNode
  <2>4. m.node[p].index \in Nat
    BY <1>1, <2>3
  <2>5. d <= m.node[p].index
    BY <2>2, <2>3, <2>4
  <2>6. p # e
    <3> SUFFICES ASSUME p = e PROVE FALSE
      OBVIOUS
    <3>1. ActiveNode(m, from, p)
      BY <2>3 DEF ShapeInv, ActiveInv
    <3>2. m.node[p].next # NULL
      BY <1>1, <1>2, <2>3
    <3> QED BY <1>2, <2>3, <3>1, <3>2 DEF ActiveNode
  <2> QED BY <2>3, <2>5, <2>6 DEF LastOnes
<1>7. m.node[n].index <= m.node[e].index
  BY <1>3 DEF ActiveNode
<1> QED BY <1>5, <1>6, <1>7

(* The links of list to after a transfer. *)
LEMMA ToLinks ==
  ASSUME NEW m \in Mem, NEW from \in Lists, NEW to \in Lists,
         ShapeInv(m, from), ShapeInv(m, to), NEW k \in Nat, NEW d \in Nat, NEW b \in Nat,
         NEW s, NEW e, NEW a, NEW c, NEW r, NEW M,
         ToPlace(m, from, to, d, k, b, s, e, a, c),
         ToSetting(m, r, M, from, to, d, k, b, s, e, a, c)
  PROVE  LinksInv(r, to)
<1>1. /\ IsAt(m, from, d, s) /\ e = m.list[from].tail
      /\ e \in Own(m, from) /\ m.node[e].active
      /\ a # NULL => a \in Own(m, to)
      /\ c # NULL => c \in Own(m, to) /\ m.node[c].prev = a
  BY DEF ToPlace
<1>2. /\ Own(r, to) = Own(m, to) \cup M
      /\ M = LastOnes(m, from, d) /\ \A z \in M : z \notin Own(m, to)
      /\ \A z \in Own(m, to) :
           /\ r.node[z].next = IF a # NULL /\ z = a THEN s ELSE m.node[z].next
           /\ r.node[z].prev = IF c # NULL /\ z = c THEN e ELSE m.node[z].prev
      /\ \A z \in M :
           /\ r.node[z].next = IF z = e THEN c ELSE m.node[z].next
           /\ r.node[z].prev = IF z = s THEN a ELSE m.node[z].prev
  BY DEF ToSetting
<1>3. s \in M
  <2>1. d <= d
    OBVIOUS
  <2> QED BY <1>1, <1>2, <2>1 DEF IsAt, LastOnes
<1>4. \A z \in Own(m, to) : z # NULL
  BY MemTypes, ConstantsAssumption DEF Own
<1>5. ASSUME NEW n \in Own(m, to), r.node[n].next # NULL
      PROVE  r.node[n].next \in Own(m, to) \cup M /\ r.node[r.node[n].next].prev = n
  <2> DEFINE w == m.node[n].next
  <2>1. CASE a # NULL /\ n = a
    <3>1. r.node[n].next = s /\ r.node[s].prev = a
      BY <1>2, <1>3, <2>1
    <3> QED BY <1>3, <2>1, <3>1
  <2>2. CASE ~(a # NULL /\ n = a)
    <3>1. r.node[n].next = w /\ w # NULL
      BY <1>2, <1>5, <2>2
    <3>2. w \in Own(m, to) /\ m.node[w].prev = n
      BY <3>1 DEF ShapeInv, LinksInv
    <3>3. ~(c # NULL /\ w = c)
      BY <1>1, <1>4, <2>2, <3>2
    <3>4. r.node[w].prev = n
      BY <1>2, <3>2, <3>3
    <3> QED BY <3>1, <3>2, <3>4
  <2> QED BY <2>1, <2>2
<1>6. ASSUME NEW n \in M, r.node[n].next # NULL
      PROVE  r.node[n].next \in Own(m, to) \cup M /\ r.node[r.node[n].next].prev = n
  <2> DEFINE w == m.node[n].next
  <2>1. CASE n = e
    <3>1. r.node[n].next = c /\ c # NULL
      BY <1>2, <1>6, <2>1
    <3> QED BY <1>1, <1>2, <2>1, <3>1
  <2>2. CASE n # e
    <3>1. n \in LastOnes(m, from, d)
      BY <1>2
    <3>2. w \in LastOnes(m, from, d) /\ w # s /\ m.node[w].prev = n
      BY <1>1, <2>2, <3>1, AmongLast
    <3>3. r.node[n].next = w /\ r.node[w].prev = n /\ w \in M
      BY <1>2, <2>2, <3>2
    <3> QED BY <3>3
  <2> QED BY <2>1, <2>2
<1> QED BY <1>2, <1>5, <1>6 DEF LinksInv

(* Its active chunks, those that were there and those that come. *)
LEMMA ToActiveOld ==
  ASSUME NEW m \in Mem, NEW from \in Lists, NEW to \in Lists,
         ShapeInv(m, from), ShapeInv(m, to), NEW k \in Nat, NEW d \in Nat, NEW b \in Nat,
         NEW s, NEW e, NEW a, NEW c, NEW r, NEW M,
         ToPlace(m, from, to, d, k, b, s, e, a, c),
         ToSetting(m, r, M, from, to, d, k, b, s, e, a, c),
         NEW n \in Own(m, to), m.node[n].active
  PROVE  ActiveNode(r, to, n) /\ r.node[n].index < b
<1>1. /\ IsAt(m, from, d, s) /\ e = m.list[from].tail
      /\ e \in Own(m, from) /\ m.node[e].active
      /\ a # NULL
      /\ a = m.list[to].tail /\ a \in Own(m, to) /\ m.node[a].active
      /\ m.node[a].next = c /\ b = m.node[a].index + 1
      /\ c # NULL => c \in Own(m, to) /\ ~m.node[c].active
  BY Zenon DEF ToPlace
<1>2. /\ Own(r, to) = Own(m, to) \cup M
      /\ M = LastOnes(m, from, d) /\ \A z \in M : z \notin Own(m, to)
      /\ \A z \in Own(m, to) :
           /\ r.node[z].next = IF z = a THEN s ELSE m.node[z].next
           /\ r.node[z].prev = IF c # NULL /\ z = c THEN e ELSE m.node[z].prev
           /\ r.node[z].active = m.node[z].active
           /\ m.node[z].active => r.node[z].index = m.node[z].index
      /\ \A z \in M : r.node[z].active /\ r.node[z].index = b + (m.node[z].index - d)
      /\ r.list[to].head = m.list[to].head /\ r.list[to].tail = e
  BY Zenon, <1>1 DEF ToSetting
<1>3. /\ \A z \in Own(m, to) : m.node[z].index \in Nat /\ z # NULL
      /\ m.node[e].index \in Nat /\ e # NULL
  BY Zenon, <1>1, MemTypes, ConstantsAssumption DEF Own
<1>4. s \in LastOnes(m, from, d) /\ s \in M
  <2>1. d <= d
    BY ONLY d \in Nat
  <2> QED BY Zenon, <1>1, <1>2, <2>1 DEF IsAt, LastOnes
<1>5. d <= m.node[e].index /\ e \in M
  <2>1. m.node[s].index <= m.node[e].index
    BY Zenon, <1>1, <1>4, AmongLast
  <2>2. d <= m.node[e].index
    BY Zenon, <1>1, <2>1 DEF IsAt
  <2> QED BY Zenon, <1>1, <1>2, <2>2 DEF LastOnes
<1> DEFINE p == m.node[n].prev
           w == m.node[n].next
<1>6. ActiveNode(m, to, n)
  BY Zenon DEF ShapeInv, ActiveInv
<1>7. r.node[n].prev = p /\ r.node[n].index = m.node[n].index
  BY Zenon, <1>1, <1>2
<1>8. p = NULL => r.list[to].head = n /\ r.node[n].index = 0
  BY <1>2, <1>6, <1>7 DEF ActiveNode
<1>9. ASSUME p # NULL
      PROVE  /\ p \in Own(r, to) /\ r.node[p].active /\ r.node[p].next = n
             /\ r.node[n].index = r.node[p].index + 1
  <2>1. /\ p \in Own(m, to) /\ m.node[p].active /\ m.node[p].next = n
        /\ m.node[n].index = m.node[p].index + 1
    BY Zenon, <1>6, <1>9 DEF ActiveNode
  <2>2. p # a
    BY Zenon, <1>1, <1>3, <2>1
  <2> QED BY <1>2, <1>7, <2>1, <2>2
<1>10. r.node[n].next # NULL /\ r.node[r.node[n].next].active
  <2>1. CASE n = a
    <3>1. r.node[n].next = s /\ r.node[s].active
      BY Zenon, <1>2, <1>4, <2>1
    <3>2. s # NULL
      BY Zenon, <1>1, MemTypes, ConstantsAssumption DEF IsAt, Own
    <3> QED BY <3>1, <3>2
  <2>2. CASE n # a
    <3>1. w # NULL /\ m.node[w].active
      BY Zenon, <1>1, <1>6, <2>2 DEF ActiveNode
    <3>2. w \in Own(m, to)
      BY <3>1 DEF ShapeInv, LinksInv
    <3> QED BY Zenon, <1>2, <2>2, <3>1, <3>2
  <2> QED BY <2>1, <2>2
<1>11. n # e
  BY <1>2, <1>5
<1>12. r.node[n].index < b /\ r.node[n].index <= r.node[e].index /\ r.node[e].active
  <2> DEFINE i == m.node[n].index
             j == m.node[a].index
             h == m.node[e].index
  <2>1. i <= j
    BY Zenon, <1>1, <1>6 DEF ActiveNode
  <2>2. /\ r.node[e].index = b + (h - d) /\ r.node[e].active
        /\ r.node[n].index = i /\ b = j + 1
    BY Zenon, <1>1, <1>2, <1>5, <1>7
  <2>3. i \in Nat /\ j \in Nat /\ h \in Nat /\ d <= h
    BY Zenon, <1>1, <1>3, <1>5
  <2> HIDE DEF i, j, h
  <2> QED BY ONLY <2>1, <2>2, <2>3
<1>13. ActiveNode(r, to, n)
  BY <1>2, <1>3, <1>7, <1>8, <1>9, <1>10, <1>11, <1>12 DEF ActiveNode
<1> QED BY <1>12, <1>13

(* The list the chunks join: the new chunks are active and follow the old  *)
(* ones in number.                                                         *)
LEMMA ToActiveNew ==
  ASSUME NEW m \in Mem, NEW from \in Lists, NEW to \in Lists,
         ShapeInv(m, from), ShapeInv(m, to), NEW k \in Nat, NEW d \in Nat, NEW b \in Nat,
         NEW s, NEW e, NEW a, NEW c, NEW r, NEW M,
         ToPlace(m, from, to, d, k, b, s, e, a, c),
         ToSetting(m, r, M, from, to, d, k, b, s, e, a, c),
         NEW n \in M
  PROVE  ActiveNode(r, to, n) /\ b <= r.node[n].index
<1>1. /\ IsAt(m, from, d, s) /\ e = m.list[from].tail
      /\ e \in Own(m, from) /\ m.node[e].active
      /\ a = NULL => b = 0
      /\ a # NULL => a \in Own(m, to) /\ m.node[a].active /\ b = m.node[a].index + 1
      /\ c # NULL => c \in Own(m, to) /\ ~m.node[c].active
  BY DEF ToPlace
<1>2. /\ Own(r, to) = Own(m, to) \cup M
      /\ M = LastOnes(m, from, d) /\ \A z \in M : z \notin Own(m, to)
      /\ \A z \in Own(m, to) :
           /\ r.node[z].next = IF a # NULL /\ z = a THEN s ELSE m.node[z].next
           /\ r.node[z].active = m.node[z].active
           /\ m.node[z].active => r.node[z].index = m.node[z].index
      /\ \A z \in M :
           /\ r.node[z].next = IF z = e THEN c ELSE m.node[z].next
           /\ r.node[z].prev = IF z = s THEN a ELSE m.node[z].prev
           /\ r.node[z].active
           /\ r.node[z].index = b + (m.node[z].index - d)
      /\ r.list[to].head = IF a = NULL THEN s ELSE m.list[to].head
      /\ r.list[to].tail = e
  BY DEF ToSetting
<1>3. \A z \in Own(m, from) : m.node[z].index \in Nat /\ z # NULL
  BY MemTypes, ConstantsAssumption DEF Own
<1>4. /\ n \in LastOnes(m, from, d) /\ n \in Own(m, from) /\ d <= m.node[n].index
      /\ m.node[n].index \in Nat /\ n # NULL
  BY Zenon, <1>2, <1>3 DEF LastOnes
<1>5. m.node[n].index <= m.node[e].index /\ m.node[e].index \in Nat /\ e # NULL
  BY <1>1, <1>3, <1>4, AmongLast
<1>6. d <= m.node[e].index /\ e \in M
  <2>1. d <= m.node[e].index
    BY <1>4, <1>5
  <2> QED BY <1>1, <1>2, <2>1 DEF LastOnes
<1>9. /\ r.node[n].prev = NULL => r.list[to].head = n /\ r.node[n].index = 0
      /\ r.node[n].prev # NULL =>
           /\ r.node[n].prev \in Own(r, to) /\ r.node[r.node[n].prev].active
           /\ r.node[r.node[n].prev].next = n
           /\ r.node[n].index = r.node[r.node[n].prev].index + 1
  <2>1. CASE n = s
    <3>1. m.node[n].index = d
      BY <1>1, <2>1 DEF IsAt
    <3>2. r.node[n].index = b /\ r.node[n].prev = a
      BY <1>2, <2>1, <3>1
    <3>3. a = NULL => r.list[to].head = n /\ r.node[n].index = 0
      BY <1>1, <1>2, <2>1, <3>2
    <3>4. a # NULL => /\ a \in Own(r, to) /\ r.node[a].active /\ r.node[a].next = n
                      /\ r.node[n].index = r.node[a].index + 1
      BY <1>1, <1>2, <2>1, <3>2
    <3> QED BY <3>2, <3>3, <3>4
  <2>2. CASE n # s
    <3> DEFINE p == m.node[n].prev
    <3>1. /\ p \in LastOnes(m, from, d) /\ p # e /\ p # NULL /\ m.node[p].next = n
          /\ m.node[n].index = m.node[p].index + 1
      BY <1>1, <1>4, <2>2, AmongLast
    <3>2. p \in M /\ r.node[n].prev = p /\ r.node[p].next = n /\ r.node[p].active
      BY <1>2, <2>2, <3>1
    <3>3. m.node[p].index \in Nat
      BY <1>3, <3>1 DEF LastOnes
    <3>4. r.node[n].index = r.node[p].index + 1
      <4> DEFINE i == m.node[p].index
                 j == m.node[n].index
      <4>1. /\ r.node[n].index = b + (j - d) /\ r.node[p].index = b + (i - d)
            /\ j = i + 1 /\ i \in Nat
        BY <1>2, <3>1, <3>2, <3>3
      <4> HIDE DEF i, j
      <4> QED BY <4>1
    <3> QED BY <1>2, <3>1, <3>2, <3>4
  <2> QED BY <2>1, <2>2
<1>10. n = e => (r.node[n].next # NULL => ~r.node[r.node[n].next].active)
  BY <1>1, <1>2
<1>11. ASSUME n # e PROVE r.node[n].next # NULL /\ r.node[r.node[n].next].active
  <2> DEFINE w == m.node[n].next
  <2>1. w \in LastOnes(m, from, d) /\ w # NULL
    BY <1>1, <1>4, <1>11, AmongLast
  <2> QED BY <1>2, <1>11, <2>1
<1>12. /\ b <= r.node[n].index /\ r.node[n].index <= r.node[e].index /\ r.node[e].active
  <2> DEFINE i == m.node[n].index
             j == m.node[e].index
  <2>1. /\ r.node[n].index = b + (i - d) /\ r.node[e].index = b + (j - d)
        /\ i \in Nat /\ j \in Nat /\ d <= i /\ i <= j /\ r.node[e].active
    BY <1>2, <1>4, <1>5, <1>6
  <2> HIDE DEF i, j
  <2> QED BY <2>1
<1>13. ActiveNode(r, to, n)
  BY <1>2, <1>5, <1>9, <1>10, <1>11, <1>12 DEF ActiveNode
<1> QED BY <1>12, <1>13

(* The list the chunks join: its head and its tail.                        *)
LEMMA ToEnds ==
  ASSUME NEW m \in Mem, NEW from \in Lists, NEW to \in Lists,
         ShapeInv(m, from), ShapeInv(m, to), NEW k \in Nat, NEW d \in Nat, NEW b \in Nat,
         NEW s, NEW e, NEW a, NEW c, NEW r, NEW M,
         ToPlace(m, from, to, d, k, b, s, e, a, c),
         ToSetting(m, r, M, from, to, d, k, b, s, e, a, c)
  PROVE  EndsInv(r, to)
<1>1. /\ IsAt(m, from, d, s) /\ e = m.list[from].tail
      /\ e \in Own(m, from) /\ m.node[e].active /\ m.node[e].index + 1 = d + k
      /\ a # NULL => a = m.list[to].tail
      /\ c # NULL => m.node[c].prev = a
  BY DEF ToPlace
<1>2. /\ Own(r, to) = Own(m, to) \cup M
      /\ M = LastOnes(m, from, d) /\ \A z \in M : z \notin Own(m, to)
      /\ \A z \in Own(m, to) :
           r.node[z].prev = IF c # NULL /\ z = c THEN e ELSE m.node[z].prev
      /\ \A z \in M :
           /\ r.node[z].prev = IF z = s THEN a ELSE m.node[z].prev
           /\ r.node[z].active
           /\ r.node[z].index = b + (m.node[z].index - d)
      /\ r.list[to].head = IF a = NULL THEN s ELSE m.list[to].head
      /\ r.list[to].tail = e /\ r.list[to].numNodes = b + k
  BY Zenon DEF ToSetting
<1>3. /\ e # NULL /\ s # NULL /\ m.node[e].index \in Nat /\ d <= d
  BY <1>1, MemTypes, ConstantsAssumption DEF Own, IsAt
<1>4. s \in M
  BY Zenon, <1>1, <1>2, <1>3 DEF IsAt, LastOnes
<1>5. e \in M
  <2>1. m.node[s].index <= m.node[e].index
    BY <1>1, <1>2, <1>4, AmongLast
  <2>2. d <= m.node[e].index
    BY <1>1, <2>1 DEF IsAt
  <2> QED BY Zenon, <1>1, <1>2, <2>2 DEF LastOnes
<1>6. r.list[to].numNodes = r.node[e].index + 1 /\ r.node[e].active
  <2> DEFINE i == m.node[e].index
  <2>1. /\ r.node[e].index = b + (i - d) /\ r.node[e].active /\ i + 1 = d + k
        /\ r.list[to].numNodes = b + k /\ i \in Nat
    BY <1>1, <1>2, <1>3, <1>5
  <2> HIDE DEF i
  <2> QED BY <2>1
<1>7. /\ r.list[to].head # NULL /\ r.list[to].head \in Own(r, to)
      /\ r.node[r.list[to].head].prev = NULL
  <2>1. CASE a = NULL
    BY <1>2, <1>3, <1>4, <2>1
  <2>2. CASE a # NULL
    <3> DEFINE h == m.list[to].head
    <3>1. h # NULL /\ h \in Own(m, to) /\ m.node[h].prev = NULL
      BY <1>1, <2>2 DEF ShapeInv, EndsInv
    <3>2. ~(c # NULL /\ h = c)
      BY <1>1, <2>2, <3>1
    <3> QED BY Zenon, <1>2, <2>2, <3>1, <3>2
  <2> QED BY <2>1, <2>2
<1> QED BY <1>2, <1>3, <1>5, <1>6, <1>7 DEF EndsInv

(* The list the chunks join is well shaped.                                *)
LEMMA ToShape ==
  ASSUME NEW m \in Mem, NEW from \in Lists, NEW to \in Lists,
         ShapeInv(m, from), ShapeInv(m, to), NEW k \in Nat, NEW d \in Nat, NEW b \in Nat,
         NEW s, NEW e, NEW a, NEW c, NEW r, NEW M,
         ToPlace(m, from, to, d, k, b, s, e, a, c),
         ToSetting(m, r, M, from, to, d, k, b, s, e, a, c)
  PROVE  ShapeInv(r, to)
<1>1. /\ Own(r, to) = Own(m, to) \cup M /\ M = LastOnes(m, from, d)
      /\ \A z \in Own(m, to) : /\ r.node[z].active = m.node[z].active
                               /\ m.node[z].active => r.node[z].index = m.node[z].index
      /\ \A z \in M : r.node[z].index = b + (m.node[z].index - d)
  BY DEF ToSetting
<1>2. \A z \in Own(m, to) :
        m.node[z].active => ActiveNode(r, to, z) /\ r.node[z].index < b
  BY ToActiveOld
<1>3. \A z \in M : ActiveNode(r, to, z) /\ b <= r.node[z].index
  BY ToActiveNew
<1>4. ActiveInv(r, to)
  BY <1>1, <1>2, <1>3 DEF ActiveInv
<1>5. IndexInv(r, to)
  <2> SUFFICES ASSUME NEW n1 \in Own(m, to) \cup M, NEW n2 \in Own(m, to) \cup M,
                      r.node[n1].active, r.node[n2].active,
                      r.node[n1].index = r.node[n2].index
               PROVE  n1 = n2
    BY <1>1 DEF IndexInv
  <2>1. \A z \in Own(m, to) : m.node[z].index \in Nat
    BY MemTypes DEF Own
  <2>2. \A z \in M : m.node[z].index \in Nat /\ z \in Own(m, from) /\ m.node[z].active
    BY <1>1, MemTypes DEF LastOnes, Own
  <2>3. CASE n1 \in Own(m, to) /\ n2 \in Own(m, to)
    BY <1>1, <2>3 DEF ShapeInv, IndexInv
  <2>4. CASE n1 \in M /\ n2 \in M
    <3>1. m.node[n1].index = m.node[n2].index
      <4> DEFINE i == m.node[n1].index
                 j == m.node[n2].index
      <4>1. b + (i - d) = b + (j - d) /\ i \in Nat /\ j \in Nat
        BY <1>1, <2>2, <2>4
      <4> HIDE DEF i, j
      <4> QED BY <4>1 DEF i, j
    <3> QED BY <2>2, <2>4, <3>1 DEF ShapeInv, IndexInv
  <2>5. ASSUME NEW y \in Own(m, to), NEW z \in M, r.node[y].active,
               r.node[y].index = r.node[z].index
        PROVE  FALSE
    <3>1. r.node[y].index < b /\ b <= r.node[y].index /\ r.node[y].index = m.node[y].index
      BY <1>1, <1>2, <1>3, <2>5
    <3> QED BY <2>1, <3>1
  <2> QED BY <2>3, <2>4, <2>5
<1>6. LinksInv(r, to)
  BY ToLinks
<1>7. EndsInv(r, to)
  BY ToEnds
<1> QED BY <1>4, <1>5, <1>6, <1>7 DEF ShapeInv

(* A list that takes no part keeps its links. *)
LEMMA ThirdShape ==
  ASSUME NEW m \in Mem, NEW from \in Lists, NEW to \in Lists, from # to,
         ShapeInv(m, from), NEW k \in Nat, NEW d \in Nat, d + k = m.list[from].numNodes,
         NEW b, NEW s, NEW e, NEW f, NEW x, NEW t, NEW y, NEW r,
         Transferred(m, r, from, to, k, d, b, s, e, f, x, t, y),
         NEW l \in Lists \ {from, to}, ShapeInv(m, l)
  PROVE  ShapeInv(r, l)
<1> DEFINE M == LastOnes(m, from, d)
<1>1. /\ LeavesFrom(m, from, d, s, e, f, x) /\ JoinsTo(m, to, b, t, y)
      /\ MovedNexts(m, r, s, e, f, x, t, y) /\ MovedPrevs(m, r, s, e, f, x, t, y)
      /\ MovedNodes(m, r, M, d, b, to, x, t)
      /\ r.list[l] = m.list[l]
  BY DEF Transferred, MovedLists
<1>2. /\ Own(r, l) = Own(m, l) /\ Own(m, l) \subseteq Nodes /\ M \subseteq Own(m, from)
  BY <1>1, TransferOwn
<1>3. \A z \in Own(m, l) : z \notin Own(m, from) /\ z \notin Own(m, to)
  BY Zenon DEF Own
<1>4. /\ s \in Own(m, from) /\ e \in Own(m, from)
      /\ f # NULL => f \in Own(m, from)
      /\ x # NULL => x \in Own(m, from)
      /\ ActiveTail(m, t) => t \in Own(m, to) /\ (y # NULL => y \in Own(m, to))
      /\ IdleTail(m, t) => t \in Own(m, to)
      /\ NULL \notin Own(m, l)
  <2>1. NULL \notin Own(m, l)
    BY <1>2, ConstantsAssumption
  <2> QED BY Zenon, <1>1, <2>1 DEF LeavesFrom, JoinsTo, IsAt
<1>5. ASSUME NEW z \in Own(m, l)
      PROVE  /\ r.node[z].next = m.node[z].next /\ r.node[z].prev = m.node[z].prev
             /\ r.node[z].active = m.node[z].active /\ r.node[z].index = m.node[z].index
  <2>1. /\ z \in Nodes /\ z # s /\ z # e /\ ~(f # NULL /\ z = f)
        /\ ~(x # NULL /\ z = x)
        /\ ~(ActiveTail(m, t) /\ z = t) /\ ~(IdleTail(m, t) /\ z = t)
        /\ ~(ActiveTail(m, t) /\ y # NULL /\ z = y)
    BY <1>2, <1>3, <1>4
  <2>2. r.node[z].next = m.node[z].next
    BY <1>1, <2>1 DEF MovedNexts
  <2>3. r.node[z].prev = m.node[z].prev
    BY <1>1, <2>1 DEF MovedPrevs
  <2>4. r.node[z].active = m.node[z].active
    BY <1>1, <2>1 DEF MovedNodes
  <2>5. z # x /\ z # t /\ z \in m.heap \ M
    <3>1. t # NULL => ActiveTail(m, t) \/ IdleTail(m, t)
      BY DEF ActiveTail, IdleTail
    <3> QED BY <1>2, <1>3, <1>4, <2>1, <3>1 DEF Own
  <2>6. r.node[z].index = m.node[z].index
    BY <1>1, <2>5 DEF MovedNodes
  <2> QED BY <2>2, <2>3, <2>4, <2>6
<1>6. SameShape(m, r, l)
  BY <1>1, <1>2, <1>5 DEF SameShape
<1> QED BY <1>6, SameShapeKeeps

(* _transferNNodes leaves every list well shaped: the one it takes from,   *)
(* the one it gives to, and the others.                                    *)
LEMMA TransferShape ==
  ASSUME NEW m, MemInv(m), NEW from \in Lists, NEW to \in Lists, from # to,
         NEW k \in Nat, NEW d \in Nat, d + k = m.list[from].numNodes,
         NEW b, b = m.list[to].numNodes,
         NEW s, NEW e, NEW f, NEW x, NEW t, NEW y, NEW r,
         Transferred(m, r, from, to, k, d, b, s, e, f, x, t, y)
  PROVE  \A l \in Lists : ShapeInv(r, l)
<1>1. m \in Mem /\ \A l \in Lists : ShapeInv(m, l)
  BY DEF MemInv
<1>2. b \in Nat
  BY <1>1, MemTypes
<1>3. ShapeInv(r, from)
  <2>1. FromSetting(m, r, LastOnes(m, from, d), from, d, s, e, f, x)
    BY <1>1, FromSettingHolds
  <2> QED BY <1>1, <2>1, FromShape
<1>4. ShapeInv(r, to)
  <2>1. PICK a, c : /\ a = IF ActiveTail(m, t) THEN t ELSE NULL
                    /\ c = IF ActiveTail(m, t) THEN y ELSE t
    OBVIOUS
  <2>2. /\ ToPlace(m, from, to, d, k, b, s, e, a, c)
        /\ ToSetting(m, r, LastOnes(m, from, d), from, to, d, k, b, s, e, a, c)
    BY <1>1, <2>1, ToSettingHolds
  <2> QED BY <1>1, <1>2, <2>2, ToShape
<1>5. \A l \in Lists \ {from, to} : ShapeInv(r, l)
  BY <1>1, ThirdShape
<1> QED BY <1>3, <1>4, <1>5

(* The counts of the two lists after a transfer. *)
LEMMA HeldSplit ==
  ASSUME NEW m \in Mem, StoredOnce(m), NEW S \in SUBSET m.heap, NEW T \in SUBSET m.heap,
         S \cap T = {}
  PROVE  Cardinality(HeldBy(m, S \cup T)) =
           Cardinality(HeldBy(m, S)) + Cardinality(HeldBy(m, T))
<1>1. HeldBy(m, S \cup T) = HeldBy(m, S) \cup HeldBy(m, T)
  BY DEF HeldBy
<1>2. HeldBy(m, S) \cap HeldBy(m, T) = {}
  <2> SUFFICES ASSUME NEW n1 \in S, NEW n2 \in T, NEW e \in Held(m, n1), e \in Held(m, n2)
               PROVE  FALSE
    BY DEF HeldBy
  <2>1. n1 # n2 /\ n1 \in m.heap /\ n2 \in m.heap
    OBVIOUS
  <2>2. Held(m, n1) \cap Held(m, n2) = {}
    BY <2>1, HeldApart
  <2> QED BY <2>2
<1>3. S \in SUBSET Nodes /\ T \in SUBSET Nodes
  BY MemTypes
<1>4. /\ IsFiniteSet(HeldBy(m, S)) /\ IsFiniteSet(HeldBy(m, T))
      /\ Cardinality(HeldBy(m, S)) \in Nat /\ Cardinality(HeldBy(m, T)) \in Nat
  BY <1>3, HeldFinite
<1>5. Cardinality(HeldBy(m, S) \cap HeldBy(m, T)) = 0
  BY <1>2, FS_EmptySet
<1>6. PICK A, B : A = HeldBy(m, S) /\ B = HeldBy(m, T)
  OBVIOUS
<1>7. IsFiniteSet(A) /\ IsFiniteSet(B)
  BY <1>4, <1>6
<1>8. Cardinality(A \cup B) = Cardinality(A) + Cardinality(B) - Cardinality(A \cap B)
  BY <1>7, FS_Union
<1>9. Cardinality(A) \in Nat /\ Cardinality(B) \in Nat /\ Cardinality(A \cap B) = 0
  BY <1>4, <1>5, <1>6
<1>10. Cardinality(A \cup B) = Cardinality(A) + Cardinality(B)
  BY <1>8, <1>9
<1> QED BY <1>1, <1>6, <1>10

(* _transferNNodes loses and duplicates no element, and both lists'        *)
(* counters follow the chunks.                                             *)
LEMMA TransferCount ==
  ASSUME NEW m, MemInv(m), NEW from \in Lists, NEW to \in Lists, from # to,
         NEW k \in Nat, NEW d \in Nat, NEW b, NEW s, NEW e, NEW f, NEW x, NEW t, NEW y,
         NEW r, Transferred(m, r, from, to, k, d, b, s, e, f, x, t, y)
  PROVE  FillInv(r) /\ StoredOnce(r) /\ CountInv(r)
<1> DEFINE M == LastOnes(m, from, d)
           num == Cardinality(HeldBy(m, M))
<1>1. MovedNodes(m, r, M, d, b, to, x, t)
  BY DEF Transferred
<1>2. MovedLists(m, r, from, to, k, num, s, e, f, x, t)
  BY DEF Transferred
<1>3. m \in Mem /\ m.heap \subseteq Nodes /\ FillInv(m) /\ StoredOnce(m) /\ CountInv(m)
  BY MemTypes DEF MemInv
<1>4. SameStore(m, r)
  BY <1>1 DEF MovedNodes, SameStore
<1>5. /\ FillInv(r) /\ StoredOnce(r)
      /\ \A S \in SUBSET Nodes : HeldBy(r, S) = HeldBy(m, S)
  BY <1>3, <1>4, SameStoreKeeps
<1>6. /\ M \subseteq Own(m, from) /\ Own(r, from) = Own(m, from) \ M
      /\ Own(r, to) = Own(m, to) \cup M
      /\ \A l \in Lists \ {from, to} : Own(r, l) = Own(m, l)
      /\ \A z \in Own(m, to) : z \notin Own(m, from)
  BY <1>1, <1>3, TransferOwn
<1>7. /\ r.list[from].numElements = m.list[from].numElements - num
      /\ r.list[to].numElements = m.list[to].numElements + num
      /\ \A l \in Lists \ {from, to} : r.list[l].numElements = m.list[l].numElements
  BY <1>2 DEF MovedLists
<1> HIDE DEF M
<1>8. \A l \in Lists : Own(m, l) \in SUBSET m.heap /\ Own(r, l) \in SUBSET Nodes
                       /\ Own(m, l) \in SUBSET Nodes
  BY <1>1, <1>3 DEF Own, MovedNodes
<1>9. M \in SUBSET m.heap /\ Own(m, from) \ M \in SUBSET m.heap
      /\ Own(m, to) \in SUBSET m.heap
  BY <1>6, <1>8
<1>10. \A l \in Lists : m.list[l].numElements = Cardinality(HeldBy(m, Own(m, l)))
  BY <1>3 DEF CountInv
<1>11. \A S \in SUBSET m.heap : Cardinality(HeldBy(m, S)) \in Nat
  BY <1>3, HeldFinite
<1>12. r.list[from].numElements = Cardinality(HeldBy(r, Own(r, from)))
  <2>1. (Own(m, from) \ M) \cap M = {} /\ (Own(m, from) \ M) \cup M = Own(m, from)
    BY <1>6
  <2>2. Cardinality(HeldBy(m, (Own(m, from) \ M) \cup M)) =
          Cardinality(HeldBy(m, Own(m, from) \ M)) + Cardinality(HeldBy(m, M))
    BY <1>3, <1>9, <2>1, HeldSplit
  <2>3. m.list[from].numElements = Cardinality(HeldBy(m, Own(m, from) \ M)) + num
    BY <1>10, <2>1, <2>2
  <2>4. Cardinality(HeldBy(m, Own(m, from) \ M)) \in Nat /\ num \in Nat
    BY <1>9, <1>11
  <2>5. HeldBy(r, Own(r, from)) = HeldBy(m, Own(m, from) \ M)
    BY <1>5, <1>6, <1>8
  <2> HIDE DEF num
  <2> QED BY <1>7, <2>3, <2>4, <2>5
<1>13. r.list[to].numElements = Cardinality(HeldBy(r, Own(r, to)))
  <2>1. Own(m, to) \cap M = {}
    BY <1>6
  <2>2. Cardinality(HeldBy(m, Own(m, to) \cup M)) =
          Cardinality(HeldBy(m, Own(m, to))) + Cardinality(HeldBy(m, M))
    BY <1>3, <1>9, <2>1, HeldSplit
  <2>3. HeldBy(r, Own(r, to)) = HeldBy(m, Own(m, to) \cup M)
    BY <1>5, <1>6, <1>8
  <2> QED BY <1>7, <1>10, <2>2, <2>3
<1>14. \A l \in Lists \ {from, to} :
         r.list[l].numElements = Cardinality(HeldBy(r, Own(r, l)))
  BY <1>5, <1>6, <1>7, <1>8, <1>10
<1>15. CountInv(r)
  BY <1>12, <1>13, <1>14 DEF CountInv
<1> QED BY <1>5, <1>15
=============================================================================
