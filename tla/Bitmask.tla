------------------------------ MODULE Bitmask ------------------------------
(***************************************************************************)
(* struct pumaBitmask (bitmask.c): one bit per element, stored in buckets   *)
(* of BucketBits bits, the first element in a bucket's highest bit.  A      *)
(* bucket is the function from bit positions to bits; a 64-bit operation on *)
(* it is the same operation on every bit.  For the bitmap of a chunk        *)
(* createPumaBitmaskForElemArray() also decides how many elements fit into  *)
(* the block next to the bitmap itself.                                     *)
(*                                                                         *)
(* PumaThreadList takes a chunk's bitmap for the set of its taken slots and *)
(* the scans for the least and the greatest member; this module says why.   *)
(***************************************************************************)
EXTENDS Integers, FiniteSets, FiniteSetsExt

CONSTANTS
  BucketBits,   \* 64
  BucketBytes,  \* sizeof(uint64_t)
  MaxElements,  \* largest bitmap made by createPumaBitmask
  ArraySizes,   \* bytes left in a block behind the struct pumaNode
  ElemSizes     \* sizes of an element

ASSUME BitmaskAssumption ==
  /\ BucketBits \in Nat \ {0}
  /\ BucketBytes \in Nat \ {0}
  /\ MaxElements \in Nat
  /\ ArraySizes \subseteq Nat
  /\ ElemSizes \subseteq Nat \ {0}

VARIABLES
  bm,     \* the bitmap, with the block it lies in
  ones    \* history: the indices whose bit was last set to 1

vars == <<bm, ones>>

Bits == {0, 1}
Positions == 0..(BucketBits - 1)
NotFound == -1                       \* (size_t)-1

NumBuckets(n) == (n + BucketBits - 1) \div BucketBits
None == [numElements |-> 0, buckets |-> <<>>, arraySize |-> 0, elemSize |-> 0,
         arrayStart |-> 0]

TypeOK ==
  /\ bm.numElements \in Nat
  /\ bm = None \/ bm.buckets \in [0..(NumBuckets(bm.numElements) - 1)
                                    -> [Positions -> Bits]]
  /\ ones \subseteq 0..(bm.numElements - 1)

-----------------------------------------------------------------------------
LOffset(index) == BucketBits - 1 - (index % BucketBits)

(* pumaBitmaskGet *)
PumaBitmaskGet(b, index) == b.buckets[index \div BucketBits][LOffset(index)]

(* Mutant: the bit is set and never cleared. *)
OnlyOr(b, index, value) ==
  [b EXCEPT !.buckets[index \div BucketBits][LOffset(index)] =
              IF value = 1 THEN 1 ELSE @]

(* |= value << lOffset, then &= ~((1 - value) << lOffset) *)
SetBit(b, index, value) ==
  [b EXCEPT !.buckets[index \div BucketBits][LOffset(index)] = value]

(* memset(bm->buckets, value, ...): the bits past numElements as well. *)
Filled(n, value) ==
  [k \in 0..(NumBuckets(n) - 1) |-> [p \in Positions |-> value]]

(* min(numElements - bucket * 64, 64) *)
NumInBucket(b, bucket) == Min({b.numElements - bucket * BucketBits, BucketBits})

(* Mutant: the last bucket is scanned as if it were full. *)
MaskAll(b, bucket) == Positions

(* The positions of bucketValueMask: shifted left, low bits drop out. *)
ValueMask(b, bucket) ==
  {p \in Positions : p >= BucketBits - NumInBucket(b, bucket)}

(* ((bucket ^ maskValue) & bucketValueMask) != 0, where maskValue is 0 for   *)
(* value 1 and, sign-extended, all ones for value 0.                        *)
MayHold(b, bucket, value) ==
  \E p \in ValueMask(b, bucket) : (b.buckets[bucket][p] + 1 - value) % 2 = 1

(* Bit positions at which the inner loop of either scan may return. *)
Hits(b, bucket, value) ==
  IF MayHold(b, bucket, value)
  THEN {p \in ValueMask(b, bucket) : b.buckets[bucket][p] = value}
  ELSE {}

BucketsWith(b, value) ==
  {k \in 0..(NumBuckets(b.numElements) - 1) : Hits(b, k, value) # {}}

(* pumaFirstIndexOfValue: upwards, each bucket from its high end. *)
PumaFirstIndexOfValue(b, value) ==
  IF BucketsWith(b, value) = {} THEN NotFound
  ELSE LET k == Min(BucketsWith(b, value))
       IN  k * BucketBits + BucketBits - 1 - Max(Hits(b, k, value))

(* pumaLastIndexOfValue: downwards, each bucket from its low end. *)
PumaLastIndexOfValue(b, value) ==
  IF BucketsWith(b, value) = {} THEN NotFound
  ELSE LET k == Max(BucketsWith(b, value))
       IN  k * BucketBits + BucketBits - 1 - Min(Hits(b, k, value))

-----------------------------------------------------------------------------
(* How many elements share arraySize bytes with their bitmap. *)
SpacePerBucket(e) == BucketBits * e + BucketBytes
BaseNumElements(A, e) == BucketBits * (A \div SpacePerBucket(e))

SpaceLeft(A, e) ==
  A - (BaseNumElements(A, e) * SpacePerBucket(e)) \div BucketBits

(* Mutant: no room is kept for the last bucket. *)
ExtraUnreserved(A, e) ==
  IF SpaceLeft(A, e) > e + BucketBytes THEN SpaceLeft(A, e) \div e ELSE 0

ExtraElements(A, e) ==
  IF SpaceLeft(A, e) > e + BucketBytes
  THEN (SpaceLeft(A, e) - BucketBytes) \div e
  ELSE 0

ArrayCapacity(A, e) == BaseNumElements(A, e) + ExtraElements(A, e)

-----------------------------------------------------------------------------
Init == bm = None /\ ones = {}

CreatePumaBitmask(n, value) ==
  /\ bm = None
  /\ bm' = [None EXCEPT !.numElements = n, !.buckets = Filled(n, value)]
  /\ ones' = IF value = 1 THEN 0..(n - 1) ELSE {}

(* Called by _appendPumaNode, which refuses elements larger than the array. *)
CreatePumaBitmaskForElemArray(A, e, value) ==
  LET n == ArrayCapacity(A, e)
  IN  /\ bm = None
      /\ A >= e
      /\ bm' = [numElements |-> n, buckets |-> Filled(n, value),
                arraySize |-> A, elemSize |-> e,
                arrayStart |-> NumBuckets(n) * BucketBytes]
      /\ ones' = IF value = 1 THEN 0..(n - 1) ELSE {}

PumaBitmaskSet(index, value) ==
  /\ bm' = SetBit(bm, index, value)
  /\ ones' = IF value = 1 THEN ones \cup {index} ELSE ones \ {index}

DestroyPumaBitmask == bm # None /\ bm' = None /\ ones' = {}

Next ==
  \/ \E n \in 0..MaxElements, value \in Bits : CreatePumaBitmask(n, value)
  \/ \E A \in ArraySizes, e \in ElemSizes, value \in Bits :
       CreatePumaBitmaskForElemArray(A, e, value)
  \/ \E index \in 0..(bm.numElements - 1), value \in Bits :
       PumaBitmaskSet(index, value)
  \/ DestroyPumaBitmask

Spec == Init /\ [][Next]_vars

-----------------------------------------------------------------------------
(* Properties *)

(* A bit is read back as it was last written, whatever was done to the bits *)
(* that share its bucket.                                                   *)
BitsAgree ==
  \A i \in 0..(bm.numElements - 1) : PumaBitmaskGet(bm, i) = 1 <=> i \in ones

IndicesOf(value) ==
  IF value = 1 THEN ones ELSE (0..(bm.numElements - 1)) \ ones

(* The scans give the least and the greatest index of a value, and report   *)
(* that there is none when there is none, although the unused bits of the   *)
(* last bucket hold one value or the other.                                 *)
ScansAgree ==
  \A value \in Bits :
    LET found == IndicesOf(value)
    IN  /\ PumaFirstIndexOfValue(bm, value) =
             IF found = {} THEN NotFound ELSE Min(found)
        /\ PumaLastIndexOfValue(bm, value) =
             IF found = {} THEN NotFound ELSE Max(found)

(* In a chunk the bitmap and the elements lie side by side within the block, *)
(* and one element more would not fit unless exactly that one is left.  The *)
(* assertion at the end of createPumaBitmaskForElemArray holds except when  *)
(* the rest of the block has room for an element and at most its bucket,    *)
(* and a chunk has no slot at all when that happens in the first bucket.    *)
LayoutSound ==
  LET A == bm.arraySize
      e == bm.elemSize
      n == bm.numElements
      left == SpaceLeft(A, e)
  IN  e > 0 =>
        /\ bm.arrayStart + n * e <= A
        /\ \/ NumBuckets(n + 1) * BucketBytes + (n + 1) * e > A
           \/ left = e + BucketBytes
        /\ (A - bm.arrayStart) \div e = n <=> ~(left \in e..(e + BucketBytes))
        /\ n = 0 <=> A <= e + BucketBytes
=============================================================================
