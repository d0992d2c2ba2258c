--------------------------- MODULE BitmaskProofs ---------------------------
(***************************************************************************)
(* A bit is read back as it was written, the scans find the least and the   *)
(* greatest index of a value, and a chunk's bitmap and elements fit into    *)
(* its block: for buckets of any width, bitmaps of any length, and arrays   *)
(* and elements of any size.                                                *)
(*                                                                         *)
(* Everything follows from the place of an index: bucket k and position p   *)
(* hold index Place(k, p), and each index is at one place only.             *)
(***************************************************************************)
EXTENDS Bitmask, NaturalsInduction, WellFoundedInduction, TLAPS

-----------------------------------------------------------------------------
(* Division, minima and maxima. *)

LEMMA Quotient ==
  ASSUME NEW b \in Nat \ {0}, NEW q \in Nat, NEW r \in 0..(b - 1)
  PROVE  (b * q + r) \div b = q /\ (b * q + r) % b = r
<1>1. (b * q + r) \div b = q
  OBVIOUS
<1>2. (b * q + r) % b = r
  OBVIOUS
<1> QED BY <1>1, <1>2

LEMMA Divided ==
  ASSUME NEW n \in Nat, NEW b \in Nat \ {0}
  PROVE  /\ n \div b \in Nat /\ n % b \in 0..(b - 1)
         /\ n = b * (n \div b) + (n % b)
<1> DEFINE q == n \div b
           r == n - b * q
<1>1. q \in Nat
  OBVIOUS
<1>2. r \in 0..(b - 1)
  OBVIOUS
<1>3. b * q \in Nat
  BY <1>1
<1> HIDE DEF q
<1>4. n = b * q + r
  BY <1>3
<1> HIDE DEF r
<1>5. (b * q + r) % b = r
  BY <1>1, <1>2, Quotient
<1>6. n % b = r
  BY <1>4, <1>5
<1> QED BY <1>1, <1>2, <1>4, <1>6 DEF q

LEMMA MinIs ==
  ASSUME NEW S \in SUBSET Int, NEW x \in S, \A y \in S : x <= y
  PROVE  Min(S) = x
<1>1. Min(S) \in S /\ \A y \in S : Min(S) <= y
  BY DEF Min
<1>2. Min(S) \in Int /\ x \in Int /\ Min(S) <= x /\ x <= Min(S)
  BY <1>1
<1> QED BY <1>2

LEMMA MaxIs ==
  ASSUME NEW S \in SUBSET Int, NEW x \in S, \A y \in S : y <= x
  PROVE  Max(S) = x
<1>1. Max(S) \in S /\ \A y \in S : Max(S) >= y
  BY DEF Max
<1>2. Max(S) \in Int /\ x \in Int /\ Max(S) >= x /\ Max(S) <= x
  BY <1>1
<1> QED BY <1>2

LEMMA MinOf ==
  ASSUME NEW S \in SUBSET Nat, S # {}
  PROVE  Min(S) \in S /\ \A y \in S : Min(S) <= y
<1> DEFINE R == {p \in Nat \X Nat : p[1] < p[2]}
<1>1. IsWellFoundedOn(R, Nat)
  BY NatLessThanWellFounded DEF OpToRel
<1>2. PICK x \in S : \A y \in S : <<y, x>> \notin R
  <2> HIDE DEF R
  <2> QED BY <1>1, WFMin
<1>3. \A y \in S : ~(y < x)
  BY <1>2
<1>4. \A y \in S : x <= y
  BY <1>3
<1> QED BY <1>4, MinIs

LEMMA MaxOf ==
  ASSUME NEW b \in Nat, NEW S \in SUBSET (0..b), S # {}
  PROVE  Max(S) \in S /\ \A y \in S : y <= Max(S)
<1> DEFINE T == {b - y : y \in S}
<1>1. T \in SUBSET Nat /\ T # {}
  BY SMT
<1>2. Min(T) \in T /\ \A z \in T : Min(T) <= z
  <2> HIDE DEF T
  <2> QED BY <1>1, MinOf
<1>3. PICK x \in S : Min(T) = b - x
  BY <1>2
<1>4. \A y \in S : b - x <= b - y
  BY <1>2, <1>3
<1>5. \A y \in S : y <= x
  BY <1>4
<1> QED BY <1>5, MaxIs

-----------------------------------------------------------------------------
(* The index at position p of bucket k. *)
Place(k, p) == k * BucketBits + BucketBits - 1 - p

LEMMA IndexAt ==
  ASSUME NEW k \in Nat, NEW p \in Positions
  PROVE  /\ Place(k, p) \in Nat
         /\ Place(k, p) \div BucketBits = k /\ LOffset(Place(k, p)) = p
<1> DEFINE r == BucketBits - 1 - p
<1>1. BucketBits \in Nat \ {0} /\ r \in 0..(BucketBits - 1)
  BY BitmaskAssumption DEF Positions
<1>2. k * BucketBits \in Nat /\ k * BucketBits = BucketBits * k
  BY <1>1
<1>3. Place(k, p) = BucketBits * k + r
  BY <1>1, <1>2 DEF Place, Positions
<1>4. p = BucketBits - 1 - r
  BY <1>1 DEF Positions
<1> HIDE DEF r
<1>5. (BucketBits * k + r) \div BucketBits = k /\ (BucketBits * k + r) % BucketBits = r
  BY <1>1, Quotient
<1> QED BY <1>1, <1>2, <1>3, <1>4, <1>5 DEF LOffset

LEMMA PlaceOf ==
  ASSUME NEW i \in Nat
  PROVE  /\ i \div BucketBits \in Nat /\ LOffset(i) \in Positions
         /\ i = Place(i \div BucketBits, LOffset(i))
<1> DEFINE q == i \div BucketBits
           r == i % BucketBits
<1>1. /\ BucketBits \in Nat \ {0} /\ q \in Nat /\ r \in 0..(BucketBits - 1)
      /\ i = BucketBits * q + r
  BY BitmaskAssumption, Divided
<1>2. LOffset(i) = BucketBits - 1 - r
  BY DEF LOffset
<1> HIDE DEF q, r
<1>3. BucketBits * q \in Nat /\ q * BucketBits = BucketBits * q
  BY <1>1
<1>4. LOffset(i) \in Positions /\ i = Place(q, LOffset(i))
  BY <1>1, <1>2, <1>3 DEF Positions, Place
<1> QED BY <1>1, <1>4 DEF q

(* The buckets are those that hold an index. *)
LEMMA BucketsCover ==
  ASSUME NEW n \in Nat
  PROVE  /\ NumBuckets(n) \in Nat
         /\ \A k \in Nat : k < NumBuckets(n) <=> k * BucketBits < n
<1> DEFINE m == n + BucketBits - 1
           q == m \div BucketBits
           r == m % BucketBits
<1>1. BucketBits \in Nat \ {0} /\ m \in Nat
  BY BitmaskAssumption
<1>2. q \in Nat /\ r \in 0..(BucketBits - 1) /\ m = BucketBits * q + r
  <2> HIDE DEF m
  <2> QED BY <1>1, Divided
<1>3. NumBuckets(n) = q
  BY DEF NumBuckets
<1> HIDE DEF q, r
<1>4. ASSUME NEW k \in Nat PROVE k < q <=> k * BucketBits < n
  <2>1. k * BucketBits = BucketBits * k /\ BucketBits * k \in Nat /\ BucketBits * q \in Nat
    BY <1>1, <1>2
  <2>2. ASSUME k < q PROVE BucketBits * k + BucketBits <= BucketBits * q
    <3>1. k + 1 <= q
      BY <1>2, <2>2
    <3>2. BucketBits * (k + 1) <= BucketBits * q
      BY <1>1, <1>2, <3>1
    <3> QED BY <1>1, <3>2
  <2>3. ASSUME q <= k PROVE BucketBits * q <= BucketBits * k
    BY <1>1, <1>2, <2>3
  <2> QED BY <1>1, <1>2, <2>1, <2>2, <2>3
<1> QED BY <1>2, <1>3, <1>4

(* The bucket of an index is one of them. *)
LEMMA IndexInBucket ==
  ASSUME NEW n \in Nat, NEW i \in 0..(n - 1)
  PROVE  i \div BucketBits \in 0..(NumBuckets(n) - 1)
<1> DEFINE k == i \div BucketBits
<1>1. i \in Nat /\ BucketBits \in Nat \ {0}
  BY BitmaskAssumption
<1>2. k \in Nat /\ k * BucketBits <= i
  <2>1. k \in Nat /\ i % BucketBits \in Nat /\ i = BucketBits * k + (i % BucketBits)
    BY <1>1, Divided
  <2> HIDE DEF k
  <2> QED BY <1>1, <2>1
<1>3. NumBuckets(n) \in Nat /\ (k < NumBuckets(n) <=> k * BucketBits < n)
  BY <1>2, BucketsCover
<1> HIDE DEF k
<1>4. k * BucketBits \in Nat
  BY <1>1, <1>2
<1>5. k \in 0..(NumBuckets(n) - 1)
  BY <1>2, <1>3, <1>4
<1> QED BY <1>5 DEF k

-----------------------------------------------------------------------------
(* The inductive invariant: the bitmap's type, its bits, and where it lies. *)

BitmapType ==
  bm = [numElements |-> bm.numElements, buckets |-> bm.buckets,
        arraySize |-> bm.arraySize, elemSize |-> bm.elemSize,
        arrayStart |-> bm.arrayStart]

(* A bitmap of a chunk lies in a block with room for an element at least. *)
InBlock ==
  bm.elemSize # 0 =>
    /\ bm.arraySize \in Nat /\ bm.elemSize \in Nat /\ bm.elemSize <= bm.arraySize
    /\ bm.numElements = ArrayCapacity(bm.arraySize, bm.elemSize)
    /\ bm.arrayStart = NumBuckets(bm.numElements) * BucketBytes

BitmaskInv == TypeOK /\ BitmapType /\ InBlock /\ BitsAgree

LEMMA FilledBits ==
  ASSUME NEW n \in Nat, NEW v \in Bits, NEW i \in 0..(n - 1)
  PROVE  Filled(n, v)[i \div BucketBits][LOffset(i)] = v
<1>1. i \in Nat
  OBVIOUS
<1>2. i \div BucketBits \in Nat /\ LOffset(i) \in Positions
  BY <1>1, PlaceOf
<1>3. i \div BucketBits \in 0..(NumBuckets(n) - 1)
  BY <1>1, IndexInBucket
<1> QED BY <1>2, <1>3 DEF Filled

-----------------------------------------------------------------------------
(* createPumaBitmaskForElemArray: q buckets with their elements fill the    *)
(* block up to a remainder, which holds x elements and their bucket, if any. *)
Layout(A, e, q, left, x) ==
  /\ q \in Nat /\ left \in Nat /\ x \in Nat
  /\ A = q * BucketBytes + (BucketBits * q) * e + left
  /\ left < SpacePerBucket(e) /\ SpaceLeft(A, e) = left
  /\ x < BucketBits
  /\ left <= e + BucketBytes => x = 0
  /\ left > e + BucketBytes => /\ x # 0 /\ x * e <= left - BucketBytes
                               /\ left - BucketBytes < (x + 1) * e
                               /\ x = (left - BucketBytes) \div e
  /\ ArrayCapacity(A, e) = BucketBits * q + x

LEMMA LayoutOf ==
  ASSUME NEW A \in Nat, NEW e \in Nat \ {0}
  PROVE  \E q, left, x : Layout(A, e, q, left, x)
<1> DEFINE B == BucketBits
           c == BucketBytes
           S == SpacePerBucket(e)
           q == A \div S
           left == A % S
           x == ExtraElements(A, e)
<1>1. B \in Nat \ {0} /\ c \in Nat \ {0}
  BY BitmaskAssumption
<1>2. B * e \in Nat /\ S = B * e + c /\ S \in Nat \ {0}
  BY <1>1 DEF SpacePerBucket
<1>3. q \in Nat /\ left \in 0..(S - 1) /\ A = S * q + left
  <2> HIDE DEF S
  <2> QED BY <1>2, Divided
<1>4. BaseNumElements(A, e) = B * q
  BY DEF BaseNumElements
<1>5. SpaceLeft(A, e) = A - (((B * q) * S) \div B)
  BY <1>4 DEF SpaceLeft
<1>6. ArrayCapacity(A, e) = B * q + x
  BY <1>4 DEF ArrayCapacity
<1> HIDE DEF S, q, left
<1>7. SpaceLeft(A, e) = left
  <2>1. (B * q) * S = B * (q * S) + 0 /\ q * S \in Nat /\ 0 \in 0..(B - 1)
    BY <1>1, <1>2, <1>3
  <2>2. (B * (q * S) + 0) \div B = q * S
    BY <1>1, <2>1, Quotient
  <2>3. q * S = S * q
    BY <1>2, <1>3
  <2> QED BY <1>2, <1>3, <1>5, <2>1, <2>2, <2>3
<1>8. A = q * c + (B * q) * e + left
  <2>1. S * q = (B * e) * q + c * q
    BY <1>1, <1>2, <1>3
  <2>2. (B * e) * q = (B * q) * e /\ c * q = q * c
    BY <1>1, <1>3
  <2>3. (B * q) * e \in Nat /\ q * c \in Nat
    BY <1>1, <1>3
  <2> QED BY <1>3, <2>1, <2>2, <2>3
<1>9. CASE left <= e + c
  <2>1. x = 0
    BY <1>1, <1>3, <1>7, <1>9 DEF ExtraElements
  <2>2. Layout(A, e, q, left, x)
    BY <1>1, <1>2, <1>3, <1>6, <1>7, <1>8, <1>9, <2>1 DEF Layout, S
  <2> QED BY <2>2
<1>10. CASE left > e + c
  <2> DEFINE o == left - c
  <2>1. o \in Nat /\ e < o /\ x = o \div e /\ o < B * e
    BY <1>1, <1>2, <1>3, <1>7, <1>10 DEF ExtraElements
  <2> HIDE DEF o, x
  <2>2. x \in Nat /\ e * x \in Nat /\ e * x <= o /\ o < e * x + e
    <3>1. x \in Nat /\ o % e \in 0..(e - 1) /\ o = e * x + (o % e)
      BY <2>1, Divided
    <3> QED BY <3>1
  <2>3. x # 0
    BY <2>1, <2>2
  <2>4. x < B
    <3>1. e * x < e * B
      BY <1>1, <1>2, <2>1, <2>2
    <3> QED BY <1>1, <2>2, <3>1
  <2>5. x * e <= o /\ o < (x + 1) * e
    <3>1. x * e = e * x /\ (x + 1) * e = e * x + e
      BY <2>2
    <3> QED BY <2>2, <3>1
  <2>6. Layout(A, e, q, left, x)
    BY <1>1, <1>2, <1>3, <1>6, <1>7, <1>8, <1>10, <2>1, <2>2, <2>3, <2>4, <2>5
       DEF Layout, S, o, x
  <2> QED BY <2>6
<1> QED BY <1>1, <1>3, <1>9, <1>10

(* The buckets such a bitmap needs, and those that one bit more would need.  *)
LEMMA BucketsOf ==
  ASSUME NEW A \in Nat, NEW e \in Nat \ {0}, NEW q, NEW left, NEW x,
         Layout(A, e, q, left, x)
  PROVE  /\ NumBuckets(BucketBits * q + x) = IF x = 0 THEN q ELSE q + 1
         /\ NumBuckets(BucketBits * q + x + 1) = q + 1
<1> DEFINE B == BucketBits
<1>1. B \in Nat \ {0} /\ q \in Nat /\ x \in Nat /\ x < B
  BY BitmaskAssumption DEF Layout
<1>2. B * q \in Nat /\ B * (q + 1) = B * q + B
  BY <1>1
<1>3. NumBuckets(B * q + x + 1) = q + 1
  <2>1. B * q + x + 1 + B - 1 = B * (q + 1) + x /\ x \in 0..(B - 1) /\ q + 1 \in Nat
    BY <1>1, <1>2
  <2>2. (B * (q + 1) + x) \div B = q + 1
    BY <1>1, <2>1, Quotient
  <2> QED BY <2>1, <2>2 DEF NumBuckets
<1>4. CASE x = 0
  <2>1. B * q + x + B - 1 = B * q + (B - 1) /\ B - 1 \in 0..(B - 1)
    BY <1>1, <1>2, <1>4
  <2>2. (B * q + (B - 1)) \div B = q
    BY <1>1, <2>1, Quotient
  <2>3. NumBuckets(B * q + x) = q
    BY <2>1, <2>2 DEF NumBuckets
  <2> QED BY <1>3, <1>4, <2>3
<1>5. CASE x # 0
  <2>1. B * q + x + B - 1 = B * (q + 1) + (x - 1) /\ x - 1 \in 0..(B - 1) /\ q + 1 \in Nat
    BY <1>1, <1>2, <1>5
  <2>2. (B * (q + 1) + (x - 1)) \div B = q + 1
    BY <1>1, <2>1, Quotient
  <2>3. NumBuckets(B * q + x) = q + 1
    BY <2>1, <2>2 DEF NumBuckets
  <2> QED BY <1>3, <1>5, <2>3
<1> QED BY <1>4, <1>5

(* LayoutSound speaks of numbers only. *)
SoundFor(A, e, n, start) ==
  /\ start + n * e <= A
  /\ \/ NumBuckets(n + 1) * BucketBytes + (n + 1) * e > A
     \/ SpaceLeft(A, e) = e + BucketBytes
  /\ (A - start) \div e = n <=> ~(SpaceLeft(A, e) \in e..(e + BucketBytes))
  /\ n = 0 <=> A <= e + BucketBytes

LEMMA LayoutIsSound ==
  ASSUME BucketBits > 1, NEW A \in Nat, NEW e \in Nat \ {0}, NEW n, NEW start,
         n = ArrayCapacity(A, e), start = NumBuckets(n) * BucketBytes
  PROVE  SoundFor(A, e, n, start)
<1> DEFINE B == BucketBits
           c == BucketBytes
<1>1. PICK q, left, x : Layout(A, e, q, left, x)
  BY LayoutOf
<1>2. /\ B \in Nat \ {0} /\ c \in Nat \ {0} /\ q \in Nat /\ x \in Nat /\ left \in Nat
      /\ n = B * q + x /\ SpaceLeft(A, e) = left
      /\ A = q * c + (B * q) * e + left
  BY <1>1, BitmaskAssumption DEF Layout
<1>3. /\ NumBuckets(n) = IF x = 0 THEN q ELSE q + 1
      /\ NumBuckets(n + 1) = q + 1
  BY <1>1, <1>2, BucketsOf
<1> DEFINE b == B * q
<1>4. /\ b \in Nat /\ b * e \in Nat /\ q * c \in Nat /\ (q + 1) * c = q * c + c
      /\ n = b + x /\ A = q * c + b * e + left /\ n \in Nat
  BY <1>2
<1>5. (n + 1) * e = b * e + (x + 1) * e
  BY <1>4, <1>2
<1>6. e <= b * e \/ b = 0
  BY <1>4
<1>7. b = 0 <=> q = 0
  BY <1>2
<1> HIDE DEF b
<1>8. CASE left <= e + c
  <2>1. x = 0 /\ n = b /\ start = q * c
    BY <1>1, <1>3, <1>4, <1>8 DEF Layout
  <2>2. start + n * e <= A
    BY <1>2, <1>4, <2>1
  <2>3. NumBuckets(n + 1) * c + (n + 1) * e = q * c + c + b * e + e
    <3>1. NumBuckets(n + 1) * c = q * c + c
      BY <1>3, <1>4
    <3>2. (x + 1) * e = e
      BY <2>1
    <3> QED BY <1>2, <1>4, <1>5, <3>1, <3>2
  <2>4. NumBuckets(n + 1) * c + (n + 1) * e > A \/ left = e + c
    BY <1>2, <1>4, <1>8, <2>3
  <2>5. (A - start) \div e = n <=> left < e
    <3>1. A - start = e * b + left /\ e * b \in Nat
      BY <1>2, <1>4, <2>1
    <3>2. CASE left < e
      BY <1>2, <1>4, <2>1, <3>1, <3>2, Quotient
    <3>3. CASE e <= left
      <4> DEFINE o == A - start
      <4>1. o \in Nat /\ e * b + e <= o
        BY <1>2, <3>1, <3>3
      <4> HIDE DEF o
      <4>2. o \div e \in Nat /\ o = e * (o \div e) + (o % e) /\ o % e \in 0..(e - 1)
        BY <4>1, Divided
      <4>3. o \div e # b
        <5> SUFFICES ASSUME o \div e = b PROVE FALSE
          OBVIOUS
        <5>1. o = e * b + (o % e) /\ o % e < e
          BY <4>2
        <5> QED BY <3>1, <4>1, <4>2, <5>1
      <4> QED BY <2>1, <3>3, <4>3, <1>2 DEF o
    <3> QED BY <1>2, <3>2, <3>3
  <2>6. n = 0 <=> A <= e + c
    <3>1. CASE q = 0
      BY <1>2, <1>4, <1>7, <1>8, <2>1, <3>1
    <3>2. CASE q # 0
      <4>1. c <= q * c
        BY <1>2, <3>2
      <4>2. 2 <= b
        BY <1>2, <3>2 DEF b
      <4>3. e + e <= b * e
        BY <1>4, <4>2
      <4> QED BY <1>2, <1>4, <1>7, <2>1, <3>2, <4>1, <4>3
    <3> QED BY <3>1, <3>2
  <2> QED BY <1>2, <1>8, <2>2, <2>4, <2>5, <2>6 DEF SoundFor
<1>9. CASE left > e + c
  <2>1. /\ x # 0 /\ x * e <= left - c /\ left - c < (x + 1) * e
        /\ x = (left - c) \div e
    BY <1>1, <1>9 DEF Layout
  <2>2. start = q * c + c
    BY <1>2, <1>3, <1>4, <2>1
  <2>3. n * e = b * e + x * e /\ x * e \in Nat /\ (x + 1) * e \in Nat
    BY <1>2, <1>4
  <2>4. start + n * e <= A
    BY <1>2, <1>4, <2>1, <2>2, <2>3
  <2>5. NumBuckets(n + 1) * c + (n + 1) * e > A
    BY <1>2, <1>3, <1>4, <1>5, <2>1, <2>3
  <2>6. (A - start) \div e = n
    <3> DEFINE o == left - c
    <3>1. o \in Nat /\ x = o \div e
      BY <1>2, <1>9, <2>1
    <3>2. A - start = e * b + o /\ e * b \in Nat
      BY <1>2, <1>4, <2>2
    <3> HIDE DEF o
    <3>3. o = e * x + (o % e) /\ o % e \in 0..(e - 1)
      BY <3>1, Divided
    <3>4. A - start = e * (b + x) + (o % e) /\ b + x \in Nat
      BY <1>2, <1>4, <3>2, <3>3
    <3>5. (e * (b + x) + (o % e)) \div e = b + x
      BY <3>3, <3>4, Quotient
    <3> QED BY <1>4, <3>4, <3>5
  <2>7. n # 0 /\ ~(A <= e + c)
    BY <1>2, <1>4, <1>9, <2>1
  <2> QED BY <1>2, <1>9, <2>4, <2>5, <2>6, <2>7 DEF SoundFor
<1> QED BY <1>2, <1>8, <1>9

-----------------------------------------------------------------------------
(* Every step keeps the invariant. *)

(* A new bitmap holds one value throughout. *)
LEMMA FilledKeeps ==
  ASSUME NEW n \in Nat, NEW v \in Bits, bm'.numElements = n,
         bm'.buckets = Filled(n, v), ones' = IF v = 1 THEN 0..(n - 1) ELSE {}
  PROVE  TypeOK' /\ BitsAgree'
<1>1. bm'.buckets \in [0..(NumBuckets(n) - 1) -> [Positions -> Bits]]
  BY DEF Filled
<1>2. ones' \subseteq 0..(n - 1)
  OBVIOUS
<1>3. TypeOK'
  BY <1>1, <1>2 DEF TypeOK
<1>4. ASSUME NEW i \in 0..(n - 1)
      PROVE  PumaBitmaskGet(bm, i)' = 1 <=> i \in ones'
  <2>1. bm'.buckets[i \div BucketBits][LOffset(i)] = v
    BY FilledBits
  <2> QED BY <2>1 DEF PumaBitmaskGet, Bits
<1>5. BitsAgree'
  BY <1>4 DEF BitsAgree
<1> QED BY <1>3, <1>5

LEMMA EmptyHolds == bm = None /\ ones = {} => BitmaskInv
<1> SUFFICES ASSUME bm = None, ones = {} PROVE BitmaskInv
  OBVIOUS
<1>1. bm.numElements = 0 /\ bm.elemSize = 0
  BY DEF None
<1>2. TypeOK
  BY <1>1 DEF TypeOK
<1>3. BitmapType
  BY DEF BitmapType, None
<1>4. InBlock /\ BitsAgree
  BY <1>1 DEF InBlock, BitsAgree
<1> QED BY <1>2, <1>3, <1>4 DEF BitmaskInv

LEMMA CreateKeeps ==
  ASSUME NEW n \in 0..MaxElements, NEW v \in Bits, CreatePumaBitmask(n, v)
  PROVE  BitmaskInv'
<1>1. n \in Nat
  BY BitmaskAssumption
<1>2. /\ bm'.numElements = n /\ bm'.buckets = Filled(n, v) /\ bm'.elemSize = 0
      /\ ones' = IF v = 1 THEN 0..(n - 1) ELSE {}
  BY DEF CreatePumaBitmask, None
<1>3. TypeOK' /\ BitsAgree'
  BY <1>1, <1>2, FilledKeeps
<1>4. BitmapType'
  BY DEF CreatePumaBitmask, None, BitmapType
<1>5. InBlock'
  BY <1>2 DEF InBlock
<1> QED BY <1>3, <1>4, <1>5 DEF BitmaskInv

LEMMA CreateForKeeps ==
  ASSUME NEW A \in ArraySizes, NEW e \in ElemSizes, NEW v \in Bits,
         CreatePumaBitmaskForElemArray(A, e, v)
  PROVE  BitmaskInv'
<1> DEFINE n == ArrayCapacity(A, e)
<1>1. A \in Nat /\ e \in Nat \ {0} /\ e <= A
  BY BitmaskAssumption DEF CreatePumaBitmaskForElemArray
<1>2. n \in Nat
  <2>1. PICK q, left, x : Layout(A, e, q, left, x)
    BY <1>1, LayoutOf
  <2> QED BY <2>1, BitmaskAssumption DEF Layout
<1>3. /\ bm'.numElements = n /\ bm'.buckets = Filled(n, v)
      /\ bm'.elemSize = e /\ bm'.arraySize = A
      /\ bm'.arrayStart = NumBuckets(n) * BucketBytes
      /\ ones' = IF v = 1 THEN 0..(n - 1) ELSE {}
  BY DEF CreatePumaBitmaskForElemArray
<1> HIDE DEF n
<1>4. TypeOK' /\ BitsAgree'
  BY <1>2, <1>3, FilledKeeps
<1>5. BitmapType'
  BY DEF CreatePumaBitmaskForElemArray, BitmapType
<1>6. InBlock'
  BY <1>1, <1>3 DEF InBlock, n
<1> QED BY <1>4, <1>5, <1>6 DEF BitmaskInv

(* A bit is written: no other index is at its place. *)
LEMMA SetKeeps ==
  ASSUME BitmaskInv, NEW index \in 0..(bm.numElements - 1), NEW v \in Bits,
         PumaBitmaskSet(index, v)
  PROVE  BitmaskInv'
<1> DEFINE n == bm.numElements
           K == 0..(NumBuckets(n) - 1)
           k == index \div BucketBits
           p == LOffset(index)
<1>1. n \in Nat /\ bm # None /\ bm.buckets \in [K -> [Positions -> Bits]]
  BY DEF BitmaskInv, TypeOK, None
<1>2. k \in K /\ p \in Positions /\ index \in Nat /\ index = Place(k, p)
  BY <1>1, IndexInBucket, PlaceOf
<1>3. bm' = [bm EXCEPT !.buckets[k][p] = v]
  BY DEF PumaBitmaskSet, SetBit
<1> HIDE DEF n, K, k, p
<1>4. /\ BitmapType'
      /\ bm'.numElements = n /\ bm'.arraySize = bm.arraySize
      /\ bm'.elemSize = bm.elemSize /\ bm'.arrayStart = bm.arrayStart
      /\ bm'.buckets = [bm.buckets EXCEPT ![k][p] = v]
  BY <1>3 DEF BitmaskInv, BitmapType, n
<1>5. /\ bm'.buckets \in [K -> [Positions -> Bits]]
      /\ \A j \in K, o \in Positions :
           bm'.buckets[j][o] = IF j = k /\ o = p THEN v ELSE bm.buckets[j][o]
  BY <1>1, <1>2, <1>4
<1>6. ones' = IF v = 1 THEN ones \cup {index} ELSE ones \ {index}
  BY DEF PumaBitmaskSet
<1>7. TypeOK'
  BY <1>1, <1>4, <1>5, <1>6 DEF BitmaskInv, TypeOK, n, K
<1>8. InBlock'
  BY <1>4 DEF BitmaskInv, InBlock, n
<1>9. ASSUME NEW i \in 0..(n - 1)
      PROVE  PumaBitmaskGet(bm, i)' = 1 <=> i \in ones'
  <2>1. i \div BucketBits \in K /\ LOffset(i) \in Positions
        /\ i = Place(i \div BucketBits, LOffset(i))
    BY <1>1, IndexInBucket, PlaceOf DEF K
  <2>2. PumaBitmaskGet(bm, i) = 1 <=> i \in ones
    BY DEF BitmaskInv, BitsAgree, n
  <2>3. CASE i = index
    BY <1>2, <1>5, <1>6, <2>3 DEF PumaBitmaskGet, Bits, k, p
  <2>4. CASE i # index
    <3>1. ~(i \div BucketBits = k /\ LOffset(i) = p)
      BY <1>2, <2>1, <2>4
    <3>2. PumaBitmaskGet(bm, i)' = PumaBitmaskGet(bm, i)
      BY <1>5, <2>1, <3>1 DEF PumaBitmaskGet
    <3> QED BY <1>6, <2>2, <2>4, <3>2
  <2> QED BY <2>3, <2>4
<1>10. BitsAgree'
  BY <1>4, <1>9 DEF BitsAgree
<1> QED BY <1>4, <1>7, <1>8, <1>10 DEF BitmaskInv

(* The bitmap keeps its invariant, however often bits of it are written and  *)
(* it is destroyed and made anew.                                           *)
THEOREM BitmaskInvariant == Spec => []BitmaskInv
<1>1. Init => BitmaskInv
  BY EmptyHolds DEF Init
<1>2. BitmaskInv /\ [Next]_vars => BitmaskInv'
  <2> SUFFICES ASSUME BitmaskInv, [Next]_vars PROVE BitmaskInv'
    OBVIOUS
  <2>1. CASE \E n \in 0..MaxElements, value \in Bits : CreatePumaBitmask(n, value)
    BY <2>1, CreateKeeps
  <2>2. CASE \E A \in ArraySizes, e \in ElemSizes, value \in Bits :
               CreatePumaBitmaskForElemArray(A, e, value)
    BY <2>2, CreateForKeeps
  <2>3. CASE \E index \in 0..(bm.numElements - 1), value \in Bits :
               PumaBitmaskSet(index, value)
    BY <2>3, SetKeeps
  <2>4. CASE DestroyPumaBitmask
    <3>1. (bm = None /\ ones = {})'
      BY <2>4 DEF DestroyPumaBitmask, None
    <3> QED BY <3>1, EmptyHolds, PTL
  <2>5. CASE UNCHANGED vars
    BY <2>5 DEF vars, BitmaskInv, TypeOK, BitmapType, InBlock, BitsAgree, PumaBitmaskGet
  <2> QED BY <2>1, <2>2, <2>3, <2>4, <2>5 DEF Next
<1> QED BY <1>1, <1>2, PTL DEF Spec

-----------------------------------------------------------------------------
(* The scans.  Hits are the positions of a bucket that hold an index of the  *)
(* value, the unused positions of the last bucket excepted.                 *)
LEMMA HitsAre ==
  ASSUME BitmaskInv, NEW v \in Bits, NEW k \in 0..(NumBuckets(bm.numElements) - 1)
  PROVE  Hits(bm, k, v) = {p \in Positions : Place(k, p) \in IndicesOf(v)}
<1> DEFINE n == bm.numElements
           w == NumInBucket(bm, k)
<1>1. /\ n \in Nat /\ k \in Nat /\ BucketBits \in Nat \ {0}
      /\ ones \subseteq 0..(n - 1)
  BY BitmaskAssumption DEF BitmaskInv, TypeOK
<1>2. k * BucketBits \in Nat /\ k * BucketBits < n
  <2>1. k < NumBuckets(n) /\ NumBuckets(n) \in Nat
    BY <1>1, BucketsCover
  <2> QED BY <1>1, <2>1, BucketsCover
<1>3. bm.buckets[k] \in [Positions -> Bits]
  <2>1. bm # None
    BY <1>1, <1>2 DEF None
  <2> QED BY <2>1 DEF BitmaskInv, TypeOK
<1>4. w \in Nat /\ w <= BucketBits /\ w <= n - k * BucketBits
      /\ (w = BucketBits \/ w = n - k * BucketBits)
  <2> DEFINE a == n - k * BucketBits
  <2>1. a \in Nat
    BY <1>1, <1>2
  <2>2. w = Min({a, BucketBits})
    BY DEF NumInBucket
  <2> HIDE DEF a, w
  <2>3. CASE a <= BucketBits
    <3>1. Min({a, BucketBits}) = a
      BY <1>1, <2>1, <2>3, MinIs
    <3> QED BY <1>1, <2>1, <2>2, <2>3, <3>1 DEF a
  <2>4. CASE BucketBits <= a
    <3>1. Min({a, BucketBits}) = BucketBits
      BY <1>1, <2>1, <2>4, MinIs
    <3> QED BY <1>1, <2>1, <2>2, <2>4, <3>1 DEF a
  <2> QED BY <1>1, <2>1, <2>3, <2>4 DEF w
<1>5. ASSUME NEW p \in Positions PROVE p \in ValueMask(bm, k) <=> Place(k, p) < n
  <2>1. p \in Nat /\ p < BucketBits
    BY <1>1 DEF Positions
  <2>2. p \in ValueMask(bm, k) <=> p >= BucketBits - w
    BY DEF ValueMask
  <2> HIDE DEF w
  <2> QED BY <1>1, <1>2, <1>4, <2>1, <2>2 DEF Place
<1>6. ASSUME NEW p \in Positions, Place(k, p) < n
      PROVE  bm.buckets[k][p] = v <=> Place(k, p) \in IndicesOf(v)
  <2> DEFINE i == Place(k, p)
  <2>1. i \in 0..(n - 1) /\ i \div BucketBits = k /\ LOffset(i) = p
    BY <1>1, <1>6, IndexAt
  <2>2. bm.buckets[k][p] = 1 <=> i \in ones
    BY <2>1 DEF BitmaskInv, BitsAgree, PumaBitmaskGet
  <2> HIDE DEF i
  <2>3. bm.buckets[k][p] = v <=> i \in IndicesOf(v)
    BY <1>3, <2>1, <2>2 DEF IndicesOf, Bits
  <2> QED BY <2>3 DEF i
<1>7. IndicesOf(v) \subseteq 0..(n - 1)
  BY <1>1 DEF IndicesOf
<1>8. Hits(bm, k, v) = {p \in ValueMask(bm, k) : bm.buckets[k][p] = v}
  <2>1. ASSUME NEW p \in Positions
        PROVE  bm.buckets[k][p] = v => (bm.buckets[k][p] + 1 - v) % 2 = 1
    <3>1. bm.buckets[k][p] = v => bm.buckets[k][p] + 1 - v = 1
      BY <1>3 DEF Bits
    <3>2. 1 % 2 = 1
      OBVIOUS
    <3> QED BY <3>1, <3>2
  <2> QED BY <2>1 DEF Hits, MayHold, ValueMask
<1>9. ASSUME NEW p \in Positions
      PROVE  p \in Hits(bm, k, v) <=> Place(k, p) \in IndicesOf(v)
  <2>1. Place(k, p) \in IndicesOf(v) => Place(k, p) < n
    BY <1>1, <1>7
  <2> QED BY <1>5, <1>6, <1>8, <2>1
<1>10. Hits(bm, k, v) \subseteq Positions
  BY <1>8 DEF ValueMask
<1> QED BY <1>9, <1>10

(* Which buckets hold an index, and at which position.                      *)
LEMMA BucketsWithAre ==
  ASSUME BitmaskInv, NEW v \in Bits
  PROVE  /\ IndicesOf(v) \subseteq Nat
         /\ BucketsWith(bm, v) \subseteq Nat
         /\ \A k \in BucketsWith(bm, v) :
              /\ Hits(bm, k, v) # {} /\ Hits(bm, k, v) \subseteq Positions
              /\ \A p \in Hits(bm, k, v) : Place(k, p) \in IndicesOf(v)
         /\ \A i \in IndicesOf(v) :
              /\ i \div BucketBits \in BucketsWith(bm, v)
              /\ LOffset(i) \in Hits(bm, i \div BucketBits, v)
<1> DEFINE n == bm.numElements
<1>1. n \in Nat /\ IndicesOf(v) \subseteq 0..(n - 1) /\ NumBuckets(n) \in Nat
  BY BucketsCover DEF BitmaskInv, TypeOK, IndicesOf
<1>2. ASSUME NEW k \in BucketsWith(bm, v)
      PROVE  /\ k \in 0..(NumBuckets(n) - 1)
             /\ Hits(bm, k, v) # {} /\ Hits(bm, k, v) \subseteq Positions
             /\ \A p \in Hits(bm, k, v) : Place(k, p) \in IndicesOf(v)
  BY HitsAre DEF BucketsWith
<1>3. ASSUME NEW i \in IndicesOf(v)
      PROVE  /\ i \div BucketBits \in BucketsWith(bm, v)
             /\ LOffset(i) \in Hits(bm, i \div BucketBits, v)
  <2> DEFINE k == i \div BucketBits
             p == LOffset(i)
  <2>1. i \in 0..(n - 1) /\ i \in Nat
    BY <1>1
  <2>2. k \in 0..(NumBuckets(n) - 1) /\ p \in Positions /\ i = Place(k, p)
    BY <1>1, <2>1, IndexInBucket, PlaceOf
  <2> HIDE DEF k, p
  <2>3. p \in Hits(bm, k, v)
    BY <2>2, HitsAre
  <2>4. k \in BucketsWith(bm, v)
    BY <2>2, <2>3 DEF BucketsWith
  <2> QED BY <2>3, <2>4 DEF k, p
<1>4. IndicesOf(v) \subseteq Nat /\ BucketsWith(bm, v) \subseteq Nat
  BY <1>1, <1>2
<1> QED BY <1>2, <1>3, <1>4

(* Indices grow with the bucket, and fall with the position in it. *)
LEMMA PlaceOrder ==
  ASSUME NEW j \in Nat, NEW k \in Nat, NEW o \in Positions, NEW p \in Positions,
         j < k \/ (j = k /\ p <= o)
  PROVE  Place(j, o) <= Place(k, p)
<1>1. /\ BucketBits \in Nat \ {0} /\ o \in Nat /\ p \in Nat
      /\ o < BucketBits /\ p < BucketBits
  BY BitmaskAssumption DEF Positions
<1>2. CASE j < k
  <2>1. BucketBits * (j + 1) <= BucketBits * k
    <3>1. j + 1 <= k
      BY <1>2
    <3> QED BY <1>1, <3>1
  <2>2. /\ BucketBits * (j + 1) = j * BucketBits + BucketBits
        /\ BucketBits * k = k * BucketBits
        /\ j * BucketBits \in Nat /\ k * BucketBits \in Nat
    BY <1>1
  <2> QED BY <1>1, <2>1, <2>2 DEF Place
<1>3. CASE j = k /\ p <= o
  <2>1. k * BucketBits \in Nat
    BY <1>1
  <2> QED BY <1>1, <1>3, <2>1 DEF Place
<1> QED BY <1>2, <1>3

LEMMA ScansAreRight ==
  ASSUME BitmaskInv, NEW v \in Bits
  PROVE  /\ PumaFirstIndexOfValue(bm, v) =
              IF IndicesOf(v) = {} THEN NotFound ELSE Min(IndicesOf(v))
         /\ PumaLastIndexOfValue(bm, v) =
              IF IndicesOf(v) = {} THEN NotFound ELSE Max(IndicesOf(v))
<1> DEFINE found == IndicesOf(v)
           K == BucketsWith(bm, v)
<1>1. found = {} <=> K = {}
  BY BucketsWithAre
<1>2. CASE K = {}
  BY <1>1, <1>2 DEF PumaFirstIndexOfValue, PumaLastIndexOfValue
<1>3. CASE K # {}
  <2>1. /\ K \subseteq Nat /\ found \in SUBSET Int
        /\ \A k \in K : /\ Hits(bm, k, v) # {} /\ Hits(bm, k, v) \subseteq Positions
                        /\ \A p \in Hits(bm, k, v) : Place(k, p) \in found
    BY BucketsWithAre
  <2>2. ASSUME NEW i \in found
        PROVE  /\ i \div BucketBits \in K
               /\ LOffset(i) \in Hits(bm, i \div BucketBits, v)
               /\ i = Place(i \div BucketBits, LOffset(i))
    BY BucketsWithAre, PlaceOf
  <2>3. PumaFirstIndexOfValue(bm, v) = Min(found)
    <3> DEFINE k == Min(K)
               o == Max(Hits(bm, k, v))
    <3>1. k \in K /\ \A j \in K : k <= j
      BY <1>3, <2>1, MinOf
    <3>2. o \in Hits(bm, k, v) /\ \A p \in Hits(bm, k, v) : p <= o
      <4>1. Hits(bm, k, v) \in SUBSET (0..(BucketBits - 1)) /\ BucketBits - 1 \in Nat
        BY <2>1, <3>1, BitmaskAssumption DEF Positions
      <4> QED BY <2>1, <3>1, <4>1, MaxOf
    <3>3. PumaFirstIndexOfValue(bm, v) = Place(k, o)
      BY <1>3 DEF PumaFirstIndexOfValue, Place
    <3> HIDE DEF k, o, K, found
    <3>4. Place(k, o) \in found
      BY <2>1, <3>1, <3>2
    <3>5. ASSUME NEW i \in found PROVE Place(k, o) <= i
      <4> DEFINE j == i \div BucketBits
                 p == LOffset(i)
      <4>1. j \in K /\ p \in Hits(bm, j, v) /\ i = Place(j, p)
        BY <2>2
      <4> HIDE DEF j, p
      <4>2. j \in Nat /\ k \in Nat /\ o \in Positions /\ p \in Positions
        BY <2>1, <3>1, <3>2, <4>1
      <4>3. k < j \/ (k = j /\ p <= o)
        BY <3>1, <3>2, <4>1, <4>2
      <4> QED BY <4>1, <4>2, <4>3, PlaceOrder
    <3> QED BY <2>1, <3>3, <3>4, <3>5, MinIs
  <2>4. PumaLastIndexOfValue(bm, v) = Max(found)
    <3> DEFINE k == Max(K)
               o == Min(Hits(bm, k, v))
    <3>1. k \in K /\ \A j \in K : j <= k
      <4>1. NumBuckets(bm.numElements) \in Nat
        BY BucketsCover DEF BitmaskInv, TypeOK
      <4>2. K \in SUBSET (0..NumBuckets(bm.numElements))
        BY <4>1 DEF BucketsWith
      <4> HIDE DEF K
      <4> QED BY <1>3, <4>1, <4>2, MaxOf
    <3>2. o \in Hits(bm, k, v) /\ \A p \in Hits(bm, k, v) : o <= p
      <4>1. Hits(bm, k, v) \in SUBSET Nat
        BY <2>1, <3>1, BitmaskAssumption DEF Positions
      <4> QED BY <2>1, <3>1, <4>1, MinOf
    <3>3. PumaLastIndexOfValue(bm, v) = Place(k, o)
      BY <1>3 DEF PumaLastIndexOfValue, Place
    <3> HIDE DEF k, o, K, found
    <3>4. Place(k, o) \in found
      BY <2>1, <3>1, <3>2
    <3>5. ASSUME NEW i \in found PROVE i <= Place(k, o)
      <4> DEFINE j == i \div BucketBits
                 p == LOffset(i)
      <4>1. j \in K /\ p \in Hits(bm, j, v) /\ i = Place(j, p)
        BY <2>2
      <4> HIDE DEF j, p
      <4>2. j \in Nat /\ k \in Nat /\ o \in Positions /\ p \in Positions
        BY <2>1, <3>1, <3>2, <4>1
      <4>3. j < k \/ (k = j /\ o <= p)
        BY <3>1, <3>2, <4>1, <4>2
      <4> QED BY <4>1, <4>2, <4>3, PlaceOrder
    <3> QED BY <2>1, <3>3, <3>4, <3>5, MaxIs
  <2> QED BY <1>1, <1>3, <2>3, <2>4
<1> QED BY <1>2, <1>3

-----------------------------------------------------------------------------
(* pumaBitmaskGet returns what pumaBitmaskSet last wrote, whatever was done  *)
(* to other bits of the bucket.                                             *)
THEOREM BitsReadBack == Spec => []BitsAgree
<1>1. BitmaskInv => BitsAgree
  BY DEF BitmaskInv
<1> QED BY <1>1, BitmaskInvariant, PTL

(* pumaFirstIndexOfValue and pumaLastIndexOfValue find the least and the     *)
(* greatest index of a value, or none if there is none.                     *)
THEOREM ScansCorrect == Spec => []ScansAgree
<1>1. BitmaskInv => ScansAgree
  BY ScansAreRight DEF ScansAgree
<1> QED BY <1>1, BitmaskInvariant, PTL

(* createPumaBitmaskForElemArray: bitmap and elements fit into the block, and *)
(* one more would not, with the exceptions that LayoutSound names.  Buckets  *)
(* of a single bit are left out: there a block with just the room for an     *)
(* element and its bucket is no exception, the chunk has its slot.          *)
THEOREM LayoutCorrect ==
  ASSUME BucketBits > 1
  PROVE  Spec => []LayoutSound
<1>1. BitmaskInv => LayoutSound
  <2> SUFFICES ASSUME BitmaskInv, bm.elemSize > 0 PROVE LayoutSound
    BY DEF LayoutSound
  <2> DEFINE A == bm.arraySize
             e == bm.elemSize
             n == bm.numElements
  <2>1. /\ A \in Nat /\ e \in Nat \ {0} /\ n = ArrayCapacity(A, e)
        /\ bm.arrayStart = NumBuckets(n) * BucketBytes
    BY DEF BitmaskInv, InBlock
  <2>2. SoundFor(A, e, n, bm.arrayStart)
    BY <2>1, LayoutIsSound
  <2> QED BY <2>2 DEF SoundFor, LayoutSound
<1> QED BY <1>1, BitmaskInvariant, PTL
=============================================================================
