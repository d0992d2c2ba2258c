--------------------------- MODULE BalanceProofs ---------------------------
(***************************************************************************)
(* The balancer's transfers are legal for every number of lists, every      *)
(* split into domains and every history of run times.  The sums that fix    *)
(* the shares play no part in that: BalanceInv needs of a share only that   *)
(* it is a natural number.  They do for SharesReached, the second part:     *)
(* no list is left short of its share.                                     *)
(***************************************************************************)
EXTENDS Balance, Integers, SequenceTheorems, NaturalsInduction,
        WellFoundedInduction, TLAPS

(* No list is on a stack before the balancer is called. *)
LEMMA InitBalanceInv == Init => BalanceInv
<1>. SUFFICES ASSUME Init PROVE BalanceInv
  OBVIOUS
<1>1. TypeOK
  BY BalanceAssumption DEF Init, TypeOK, Lists
<1>2. ScanInv /\ PosInv /\ NegInv
  BY DEF Init, ScanInv, PosInv, NegInv
<1>. QED  BY <1>1, <1>2 DEF BalanceInv

(* A share is a natural number, whatever the run times (a NaN included). *)
LEMMA BeginKeeps == BalanceInv /\ Begin => BalanceInv'
<1>. SUFFICES ASSUME BalanceInv, Begin PROVE BalanceInv'
  OBVIOUS
<1>. USE DEF BalanceInv, Begin
<1>1. PICK avg \in 0..MaxNodes, r \in 0..(NumLists - 1) :
        rem' = r /\ share' \in NewShares(avg)
  OBVIOUS
<1>2. rem' \in Nat
  BY <1>1, BalanceAssumption
<1>3. share' \in [Lists -> Nat]
  <2>1. CASE SumOf(time) = 0
    BY <1>1, <2>1, BalanceAssumption DEF NewShares
  <2>2. CASE SumOf(time) # 0
    BY <1>1, <2>2 DEF NewShares
  <2>. QED  BY <2>1, <2>2
<1>4. TypeOK'
  BY <1>2, <1>3 DEF TypeOK
<1>5. posStack = <<>> /\ negStack = <<>> /\ next = 1
  BY DEF ScanInv
<1>6. (ScanInv /\ PosInv /\ NegInv)'
  BY <1>5, BalanceAssumption DEF ScanInv, PosInv, NegInv, Lists
<1>. QED  BY <1>4, <1>6

(* Lists are numbered. *)
LEMMA ListsAreNat == \A l \in Lists : l \in Nat
BY DEF Lists

(* What is left of rem after a conditional decrement. *)
LEMMA RemStep ==
  ASSUME NEW r \in Nat, NEW cond \in BOOLEAN
  PROVE  /\ r - AsInt(r > 0 /\ cond) \in Nat
         /\ AsInt(r - AsInt(r > 0 /\ cond) > 0) <= AsInt(r > 0)
         /\ ~cond => r - AsInt(r > 0 /\ cond) = r
         /\ AsInt(r > 0) \in {0, 1}
BY DEF AsInt

(* Pushing on a stack. *)
LEMMA AppendLast ==
  ASSUME NEW S, NEW s \in Seq(S), NEW x \in S
  PROVE  /\ Append(s, x) \in Seq(S)
         /\ Len(Append(s, x)) = Len(s) + 1
         /\ Len(s) \in Nat
         /\ \A i \in 1..Len(s) : Append(s, x)[i] = s[i] /\ s[i] \in S
         /\ Append(s, x)[Len(s) + 1] = x
OBVIOUS

(* The scan pushes a list of its own side of its share, and rem only falls. *)
LEMMA ScanKeeps == BalanceInv /\ Scan => BalanceInv'
<1>. SUFFICES ASSUME BalanceInv, Scan PROVE BalanceInv'
  OBVIOUS
<1>. DEFINE l == next
            left == rem - AsInt(rem > 0 /\ numNodes[l] = share[l] + 1)
            above == numNodes[l] > share[l] + AsInt(left > 0)
<1>1. /\ l \in Lists /\ l \in Nat /\ next' = next + 1 /\ rem' = left
      /\ numNodes[l] \in Nat /\ share[l] \in Nat /\ rem \in Nat
      /\ UNCHANGED <<numNodes, share, time>>
  BY DEF BalanceInv, TypeOK, ScanInv, Scan, Left, Lists
<1>2. left \in Nat /\ AsInt(left > 0) <= AsInt(rem > 0)
      /\ AsInt(left > 0) \in {0, 1} /\ AsInt(rem > 0) \in {0, 1}
  BY <1>1, RemStep DEF AsInt
<1>3. /\ posStack' = IF above THEN Append(posStack, l) ELSE posStack
      /\ negStack' = IF ~above /\ numNodes[l] < share[l]
                     THEN Append(negStack, l) ELSE negStack
  BY DEF Scan, Above, Left
<1>. HIDE DEF left, above
<1>4. posStack \in Seq(Lists) /\ negStack \in Seq(Lists)
  BY DEF BalanceInv, TypeOK
<1>5. posStack' \in Seq(Lists) /\ negStack' \in Seq(Lists)
  BY <1>1, <1>3, <1>4
<1>6. TypeOK'
  <2>1. phase' \in {"idle", "scan", "match", "done"}
    BY DEF Scan
  <2>2. next' \in 1..(NumLists + 1)
    BY <1>1, BalanceAssumption DEF Lists
  <2>. QED  BY <1>1, <1>2, <1>5, <2>1, <2>2 DEF BalanceInv, TypeOK
<1>7. ScanInv'
  BY <1>1, BalanceAssumption DEF Scan, ScanInv, Lists
<1>8. PosInv'
  <2>0. \A i \in 1..Len(posStack) : posStack[i] \in Lists /\ posStack[i] \in Nat
    BY <1>4, ListsAreNat
  <2>1. \A i \in 1..Len(posStack) :
          /\ posStack[i] \in Lists /\ posStack[i] < l
          /\ numNodes[posStack[i]] > share[posStack[i]] + AsInt(left > 0)
    <3>. TAKE i \in 1..Len(posStack)
    <3>1. /\ posStack[i] < l
          /\ numNodes[posStack[i]] > share[posStack[i]] + AsInt(rem > 0)
      BY DEF BalanceInv, PosInv
    <3>2. numNodes[posStack[i]] \in Nat /\ share[posStack[i]] \in Nat
      BY <2>0 DEF BalanceInv, TypeOK
    <3>. QED  BY <1>2, <2>0, <3>1, <3>2
  <2>2. CASE ~above
    BY <1>1, <1>3, <2>1, <2>2 DEF BalanceInv, PosInv, Lists
  <2>3. CASE above
    <3>1. above => numNodes[l] > share[l] + AsInt(left > 0)
      BY DEF above
    <3>2. posStack' = Append(posStack, l)
      BY <1>3, <2>3
    <3>3. /\ Len(posStack') = Len(posStack) + 1 /\ Len(posStack) \in Nat
          /\ \A i \in 1..Len(posStack) : posStack'[i] = posStack[i]
          /\ posStack'[Len(posStack) + 1] = l
      BY <1>1, <1>4, <3>2, AppendLast
    <3>4. \A i \in 1..Len(posStack') :
            \/ i \in 1..Len(posStack) /\ posStack'[i] = posStack[i]
            \/ i = Len(posStack) + 1 /\ posStack'[i] = l
      BY <3>3
    <3>5. \A i \in 1..Len(posStack') :
            /\ posStack'[i] < next'
            /\ numNodes'[posStack'[i]] > share'[posStack'[i]] + AsInt(rem' > 0)
      BY <1>1, <2>1, <2>3, <3>1, <3>4 DEF Lists
    <3>6. \A i, j \in 1..Len(posStack') : posStack'[i] = posStack'[j] => i = j
      BY <1>1, <2>1, <3>4 DEF BalanceInv, PosInv, Lists
    <3>. QED  BY <3>5, <3>6 DEF PosInv
  <2>. QED  BY <2>2, <2>3
<1>9. NegInv'
  <2>0. \A i \in 1..Len(negStack) : negStack[i] \in Lists /\ negStack[i] \in Nat
    BY <1>4, ListsAreNat
  <2>1. \A i \in 1..Len(negStack) :
          /\ negStack[i] \in Lists /\ negStack[i] < l
          /\ numNodes[negStack[i]] < share[negStack[i]]
    BY <2>0 DEF BalanceInv, NegInv
  <2>2. CASE ~(~above /\ numNodes[l] < share[l])
    BY <1>1, <1>3, <2>1, <2>2 DEF BalanceInv, NegInv, Lists
  <2>3. CASE ~above /\ numNodes[l] < share[l]
    <3>2. negStack' = Append(negStack, l)
      BY <1>3, <2>3
    <3>3. /\ Len(negStack') = Len(negStack) + 1 /\ Len(negStack) \in Nat
          /\ \A i \in 1..Len(negStack) : negStack'[i] = negStack[i]
          /\ negStack'[Len(negStack) + 1] = l
      BY <1>1, <1>4, <3>2, AppendLast
    <3>4. \A i \in 1..Len(negStack') :
            \/ i \in 1..Len(negStack) /\ negStack'[i] = negStack[i]
            \/ i = Len(negStack) + 1 /\ negStack'[i] = l
      BY <3>3
    <3>5. \A i \in 1..Len(negStack') :
            /\ negStack'[i] < next'
            /\ numNodes'[negStack'[i]] < share'[negStack'[i]]
      BY <1>1, <2>1, <2>3, <3>4 DEF Lists
    <3>6. \A i, j \in 1..Len(negStack') : negStack'[i] = negStack'[j] => i = j
      BY <1>1, <2>1, <3>4 DEF BalanceInv, NegInv, Lists
    <3>. QED  BY <3>5, <3>6 DEF NegInv
  <2>. QED  BY <2>2, <2>3
<1>. QED  BY <1>6, <1>7, <1>8, <1>9 DEF BalanceInv

(* The top of a stack, and what is left when it is popped. *)
LEMMA TopOf ==
  ASSUME NEW S, NEW s \in Seq(S), s # <<>>
  PROVE  /\ Len(s) \in Nat /\ Len(s) >= 1 /\ Len(s) \in 1..Len(s)
         /\ Top(s) \in S /\ Top(s) = s[Len(s)]
BY DEF Top

(* Popping a stack. *)
LEMMA PopOf ==
  ASSUME NEW S, NEW s \in Seq(S), s # <<>>
  PROVE  /\ SubSeq(s, 1, Len(s) - 1) \in Seq(S)
         /\ Len(SubSeq(s, 1, Len(s) - 1)) = Len(s) - 1
         /\ \A i \in 1..(Len(s) - 1) : SubSeq(s, 1, Len(s) - 1)[i] = s[i]
<1>1. Len(s) \in Nat /\ Len(s) >= 1
  BY TopOf
<1>. DEFINE n == Len(s) - 1
<1>2. n \in Int /\ n >= 0
  BY <1>1
<1>3. \A i \in 1..n : s[i] \in S
  BY <1>1
<1>. HIDE DEF n
<1>4. /\ SubSeq(s, 1, n) \in Seq(S)
      /\ Len(SubSeq(s, 1, n)) = IF 1 <= n THEN n - 1 + 1 ELSE 0
      /\ \A i \in 1..(n - 1 + 1) : SubSeq(s, 1, n)[i] = s[1 + i - 1]
  BY <1>2, <1>3, SubSeqProperties
<1>5. /\ SubSeq(s, 1, n) \in Seq(S)
      /\ Len(SubSeq(s, 1, n)) = n
      /\ \A i \in 1..n : SubSeq(s, 1, n)[i] = s[i]
  BY <1>2, <1>4
<1>. QED  BY <1>5 DEF n

(* What the two stack tops and rem are while the stacks are matched. *)
LEMMA TopsDiffer ==
  ASSUME BalanceInv, posStack # <<>>, negStack # <<>>
  PROVE  /\ Donor \in Lists /\ Receiver \in Lists /\ Donor # Receiver
         /\ numNodes[Donor] \in Nat /\ share[Donor] \in Nat
         /\ numNodes[Receiver] \in Nat /\ share[Receiver] \in Nat
         /\ AsInt(rem > 0) \in {0, 1}
         /\ numNodes[Donor] > share[Donor] + AsInt(rem > 0)
         /\ numNodes[Receiver] < share[Receiver]
<1>1. posStack \in Seq(Lists) /\ negStack \in Seq(Lists)
  BY DEF BalanceInv, TypeOK
<1>2. /\ Len(posStack) \in 1..Len(posStack) /\ Donor = posStack[Len(posStack)]
      /\ Donor \in Lists
  BY <1>1, TopOf DEF Donor
<1>3. /\ Len(negStack) \in 1..Len(negStack) /\ Receiver = negStack[Len(negStack)]
      /\ Receiver \in Lists
  BY <1>1, TopOf DEF Receiver
<1>4. /\ numNodes[Donor] \in Nat /\ share[Donor] \in Nat
      /\ numNodes[Receiver] \in Nat /\ share[Receiver] \in Nat
  BY <1>2, <1>3 DEF BalanceInv, TypeOK
<1>5. numNodes[Donor] > share[Donor] + AsInt(rem > 0)
  BY <1>2 DEF BalanceInv, PosInv
<1>6. numNodes[Receiver] < share[Receiver]
  BY <1>3 DEF BalanceInv, NegInv
<1>7. AsInt(rem > 0) \in {0, 1}
  BY DEF AsInt
<1>8. Donor # Receiver
  BY <1>4, <1>5, <1>6, <1>7
<1>. QED  BY <1>2, <1>3, <1>4, <1>5, <1>6, <1>7, <1>8

(* The number of chunks to move leaves donor and receiver on their sides. *)
LEMMA TransferBounds ==
  ASSUME BalanceInv, posStack # <<>>, negStack # <<>>
  PROVE  /\ NToTransfer \in 1..numNodes[Donor]
         /\ numNodes[Donor] - NToTransfer >= share[Donor] + AsInt(rem > 0)
         /\ numNodes[Receiver] + NToTransfer <= share[Receiver]
BY TopsDiffer DEF NToTransfer, Min2

(* A transfer leaves on the stacks only what is still off its share. *)
LEMMA MatchKeeps == BalanceInv /\ Match => BalanceInv'
<1>. SUFFICES ASSUME BalanceInv, Match PROVE BalanceInv'
  OBVIOUS
<1>. DEFINE n == NToTransfer
            donorIsTarget ==
              numNodes[Donor] - n = share[Donor] + AsInt(rem > 0)
            receiverIsTarget == numNodes[Receiver] + n = share[Receiver]
<1>1. /\ posStack # <<>> /\ negStack # <<>> /\ phase = "match"
      /\ numNodes' = [numNodes EXCEPT ![Donor] = @ - n, ![Receiver] = @ + n]
      /\ rem' = rem - AsInt(rem > 0 /\ donorIsTarget)
      /\ posStack' = Pop(posStack, donorIsTarget)
      /\ negStack' = Pop(negStack, receiverIsTarget)
      /\ UNCHANGED <<phase, time, share, next>>
  BY DEF Match, Matching, DonorIsTarget, ReceiverIsTarget
<1>2. /\ Donor \in Lists /\ Receiver \in Lists /\ Donor # Receiver
      /\ numNodes[Donor] \in Nat /\ share[Donor] \in Nat
      /\ numNodes[Receiver] \in Nat /\ share[Receiver] \in Nat
      /\ AsInt(rem > 0) \in {0, 1}
  BY <1>1, TopsDiffer
<1>3. /\ n \in 1..numNodes[Donor]
      /\ numNodes[Donor] - n >= share[Donor] + AsInt(rem > 0)
      /\ numNodes[Receiver] + n <= share[Receiver]
  BY <1>1, TransferBounds
<1>4. /\ posStack \in Seq(Lists) /\ negStack \in Seq(Lists)
      /\ numNodes \in [Lists -> Nat] /\ share \in [Lists -> Nat] /\ rem \in Nat
  BY DEF BalanceInv, TypeOK
<1>5. /\ rem' \in Nat /\ AsInt(rem' > 0) <= AsInt(rem > 0)
      /\ AsInt(rem' > 0) \in {0, 1}
  BY <1>1, <1>4, RemStep DEF AsInt
<1>7. /\ Len(posStack) \in Nat /\ Len(posStack) >= 1
      /\ Donor = posStack[Len(posStack)]
      /\ posStack' \in Seq(Lists)
      /\ donorIsTarget => Len(posStack') = Len(posStack) - 1
      /\ ~donorIsTarget => Len(posStack') = Len(posStack)
      /\ \A i \in 1..Len(posStack') : posStack'[i] = posStack[i]
  <2>1. /\ Len(posStack) \in Nat /\ Len(posStack) >= 1
        /\ Donor = posStack[Len(posStack)]
    BY <1>1, <1>4, TopOf DEF Donor
  <2>2. posStack' = IF donorIsTarget THEN SubSeq(posStack, 1, Len(posStack) - 1)
                                   ELSE posStack
    BY <1>1 DEF Pop
  <2>. HIDE DEF donorIsTarget
  <2>. QED  BY <1>1, <1>4, <2>1, <2>2, PopOf
<1>8. /\ Len(negStack) \in Nat /\ Len(negStack) >= 1
      /\ Receiver = negStack[Len(negStack)]
      /\ negStack' \in Seq(Lists)
      /\ receiverIsTarget => Len(negStack') = Len(negStack) - 1
      /\ ~receiverIsTarget => Len(negStack') = Len(negStack)
      /\ \A i \in 1..Len(negStack') : negStack'[i] = negStack[i]
  <2>1. /\ Len(negStack) \in Nat /\ Len(negStack) >= 1
        /\ Receiver = negStack[Len(negStack)]
    BY <1>1, <1>4, TopOf DEF Receiver
  <2>2. negStack' = IF receiverIsTarget THEN SubSeq(negStack, 1, Len(negStack) - 1)
                                   ELSE negStack
    BY <1>1 DEF Pop
  <2>. HIDE DEF receiverIsTarget
  <2>. QED  BY <1>1, <1>4, <2>1, <2>2, PopOf
<1>9. /\ numNodes' \in [Lists -> Nat]
      /\ numNodes'[Donor] = numNodes[Donor] - n
      /\ numNodes'[Receiver] = numNodes[Receiver] + n
      /\ \A l \in Lists \ {Donor, Receiver} : numNodes'[l] = numNodes[l]
  <2>. HIDE DEF n
  <2>1. n \in Nat /\ numNodes[Donor] - n \in Nat /\ numNodes[Receiver] + n \in Nat
    BY <1>2, <1>3
  <2>. QED  BY <1>1, <1>2, <1>4, <2>1
<1>10. TypeOK'
  BY <1>1, <1>5, <1>7, <1>8, <1>9 DEF BalanceInv, TypeOK
<1>11. ScanInv'
  BY <1>1 DEF ScanInv
<1>12. PosInv'
  <2>1. \A i \in 1..Len(posStack') :
          /\ i \in 1..Len(posStack) /\ posStack'[i] = posStack[i]
          /\ posStack[i] \in Lists /\ posStack[i] < next
          /\ numNodes[posStack[i]] > share[posStack[i]] + AsInt(rem > 0)
          /\ posStack[i] # Receiver
    <3>. TAKE i \in 1..Len(posStack')
    <3>1. i \in 1..Len(posStack) /\ posStack'[i] = posStack[i]
      BY <1>7
    <3>2. /\ posStack[i] \in Lists /\ posStack[i] < next
          /\ numNodes[posStack[i]] > share[posStack[i]] + AsInt(rem > 0)
      BY <1>4, <3>1 DEF BalanceInv, PosInv
    <3>3. numNodes[Receiver] < share[Receiver]
      BY <1>2, <1>3
    <3>4. posStack[i] # Receiver
      BY <1>2, <3>2, <3>3
    <3>. QED  BY <3>1, <3>2, <3>4
  <2>2. \A i \in 1..Len(posStack') : posStack[i] = Donor => ~donorIsTarget
    <3>. SUFFICES ASSUME NEW i \in 1..Len(posStack'), posStack[i] = Donor,
                         donorIsTarget
                  PROVE  FALSE
      OBVIOUS
    <3>1. i \in 1..Len(posStack) /\ Len(posStack) \in 1..Len(posStack)
          /\ i # Len(posStack)
      BY <1>7
    <3>. QED  BY <1>7, <3>1 DEF BalanceInv, PosInv
  <2>3. \A i \in 1..Len(posStack') :
          numNodes'[posStack'[i]] > share'[posStack'[i]] + AsInt(rem' > 0)
    <3>. TAKE i \in 1..Len(posStack')
    <3>1. CASE posStack[i] = Donor
      <4>1. ~donorIsTarget
        BY <2>2, <3>1
      <4>2. numNodes[Donor] - n > share[Donor] + AsInt(rem > 0)
        BY <1>2, <1>3, <4>1
      <4>. QED  BY <1>1, <1>2, <1>3, <1>5, <1>9, <2>1, <3>1, <4>2
    <3>2. CASE posStack[i] # Donor
      <4>1. /\ numNodes'[posStack[i]] = numNodes[posStack[i]]
            /\ numNodes[posStack[i]] \in Nat /\ share[posStack[i]] \in Nat
        BY <1>4, <1>9, <2>1, <3>2
      <4>. QED  BY <1>1, <1>2, <1>5, <2>1, <4>1
    <3>. QED  BY <3>1, <3>2
  <2>4. \A i, j \in 1..Len(posStack') : posStack'[i] = posStack'[j] => i = j
    BY <2>1 DEF BalanceInv, PosInv
  <2>. QED  BY <1>1, <2>1, <2>3, <2>4 DEF PosInv
<1>13. NegInv'
  <2>1. \A i \in 1..Len(negStack') :
          /\ i \in 1..Len(negStack) /\ negStack'[i] = negStack[i]
          /\ negStack[i] \in Lists /\ negStack[i] < next
          /\ numNodes[negStack[i]] < share[negStack[i]]
          /\ negStack[i] # Donor
    <3>. TAKE i \in 1..Len(negStack')
    <3>1. i \in 1..Len(negStack) /\ negStack'[i] = negStack[i]
      BY <1>8
    <3>2. /\ negStack[i] \in Lists /\ negStack[i] < next
          /\ numNodes[negStack[i]] < share[negStack[i]]
      BY <1>4, <3>1 DEF BalanceInv, NegInv
    <3>3. numNodes[Donor] > share[Donor]
      BY <1>2, <1>3
    <3>4. negStack[i] # Donor
      BY <1>2, <3>2, <3>3
    <3>. QED  BY <3>1, <3>2, <3>4
  <2>2. \A i \in 1..Len(negStack') : negStack[i] = Receiver => ~receiverIsTarget
    <3>. SUFFICES ASSUME NEW i \in 1..Len(negStack'), negStack[i] = Receiver,
                         receiverIsTarget
                  PROVE  FALSE
      OBVIOUS
    <3>1. i \in 1..Len(negStack) /\ Len(negStack) \in 1..Len(negStack)
          /\ i # Len(negStack)
      BY <1>8
    <3>. QED  BY <1>8, <3>1 DEF BalanceInv, NegInv
  <2>3. \A i \in 1..Len(negStack') :
          numNodes'[negStack'[i]] < share'[negStack'[i]]
    <3>. TAKE i \in 1..Len(negStack')
    <3>1. CASE negStack[i] = Receiver
      <4>1. ~receiverIsTarget
        BY <2>2, <3>1
      <4>2. numNodes[Receiver] + n < share[Receiver]
        BY <1>2, <1>3, <4>1
      <4>. QED  BY <1>1, <1>9, <2>1, <3>1, <4>2
    <3>2. CASE negStack[i] # Receiver
      BY <1>1, <1>9, <2>1, <3>2
    <3>. QED  BY <3>1, <3>2
  <2>4. \A i, j \in 1..Len(negStack') : negStack'[i] = negStack'[j] => i = j
    BY <2>1 DEF BalanceInv, NegInv
  <2>. QED  BY <1>1, <2>1, <2>3, <2>4 DEF NegInv
<1>. QED  BY <1>10, <1>11, <1>12, <1>13 DEF BalanceInv

(* What is on the stacks is still right in the next domain. *)
LEMMA NextDomainKeeps == BalanceInv /\ NextDomain => BalanceInv'
<1>. SUFFICES ASSUME BalanceInv, NextDomain PROVE BalanceInv'
  OBVIOUS
<1>1. TypeOK' /\ PosInv' /\ NegInv'
  BY DEF NextDomain, BalanceInv, TypeOK, PosInv, NegInv
<1>2. ScanInv'
  BY BalanceAssumption DEF NextDomain, BalanceInv, TypeOK, ScanInv, Lists
<1>. QED  BY <1>1, <1>2 DEF BalanceInv

(* The next call starts with empty stacks. *)
LEMMA KernelRunsKeeps == BalanceInv /\ KernelRuns => BalanceInv'
<1>. SUFFICES ASSUME BalanceInv, KernelRuns PROVE BalanceInv'
  OBVIOUS
<1>1. TypeOK'
  BY BalanceAssumption DEF KernelRuns, BalanceInv, TypeOK, Lists
<1>2. ScanInv' /\ PosInv' /\ NegInv'
  BY DEF KernelRuns, ScanInv, PosInv, NegInv
<1>. QED  BY <1>1, <1>2 DEF BalanceInv

(* Every step keeps the invariant. *)
LEMMA BalanceInvStep == BalanceInv /\ [Next]_vars => BalanceInv'
<1>. SUFFICES ASSUME BalanceInv, [Next]_vars PROVE BalanceInv'
  OBVIOUS
<1>1. CASE Begin
  BY <1>1, BeginKeeps
<1>2. CASE Scan
  BY <1>2, ScanKeeps
<1>3. CASE Match
  BY <1>3, MatchKeeps
<1>4. CASE NextDomain
  BY <1>4, NextDomainKeeps
<1>5. CASE KernelRuns
  BY <1>5, KernelRunsKeeps
<1>6. CASE UNCHANGED vars
  BY <1>6 DEF vars, BalanceInv, TypeOK, ScanInv, PosInv, NegInv
<1>. QED  BY <1>1, <1>2, <1>3, <1>4, <1>5, <1>6 DEF Next

(* The stacks of _autobalanceThreadLoad hold, at every point of its loops,   *)
(* lists that are strictly above or strictly below their share, each once.   *)
THEOREM BalanceInvariant == Spec => []BalanceInv
<1>. QED  BY InitBalanceInv, BalanceInvStep, PTL DEF Spec

(* Every call the balancer makes satisfies the assertions at the top of      *)
(* _transferNNodes, and the subtractions before it do not wrap.              *)
THEOREM TransfersAreLegal == Spec => []TransferLegal
<1>1. BalanceInv => TransferLegal
  BY TopsDiffer, TransferBounds DEF TransferLegal, Matching
<1>. QED  BY <1>1, BalanceInvariant, PTL

(* A step of the balancer that takes chunks from a list leaves it its share, *)
(* and one that adds chunks to a list adds no more than its share.           *)
THEOREM SharesAreRespected == Spec => NoOvershoot
<1>. DEFINE Step ==
       \A l \in Lists :
         /\ numNodes'[l] < numNodes[l] => numNodes'[l] >= share[l]
         /\ numNodes'[l] > numNodes[l] => numNodes'[l] <= share[l]
<1>1. BalanceInv /\ Match => Step
  <2>. SUFFICES ASSUME BalanceInv, Match PROVE Step
    OBVIOUS
  <2>1. posStack # <<>> /\ negStack # <<>>
        /\ numNodes' = [numNodes EXCEPT ![Donor] = @ - NToTransfer,
                                        ![Receiver] = @ + NToTransfer]
    BY DEF Match, Matching
  <2>2. /\ Donor \in Lists /\ Receiver \in Lists /\ Donor # Receiver
        /\ numNodes[Donor] \in Nat /\ share[Donor] \in Nat
        /\ numNodes[Receiver] \in Nat /\ share[Receiver] \in Nat
        /\ AsInt(rem > 0) \in {0, 1}
    BY <2>1, TopsDiffer
  <2>3. /\ NToTransfer \in 1..numNodes[Donor]
        /\ numNodes[Donor] - NToTransfer >= share[Donor] + AsInt(rem > 0)
        /\ numNodes[Receiver] + NToTransfer <= share[Receiver]
    BY <2>1, TransferBounds
  <2>4. numNodes \in [Lists -> Nat]
    BY DEF BalanceInv, TypeOK
  <2>5. /\ numNodes'[Donor] = numNodes[Donor] - NToTransfer
        /\ numNodes'[Receiver] = numNodes[Receiver] + NToTransfer
        /\ \A l \in Lists \ {Donor, Receiver} : numNodes'[l] = numNodes[l]
    BY <2>1, <2>2, <2>4
  <2>. SUFFICES ASSUME NEW l \in Lists
                PROVE  /\ numNodes'[l] < numNodes[l] => numNodes'[l] >= share[l]
                       /\ numNodes'[l] > numNodes[l] => numNodes'[l] <= share[l]
    OBVIOUS
  <2>6. CASE l = Donor
    BY <2>2, <2>3, <2>5, <2>6
  <2>7. CASE l = Receiver
    BY <2>2, <2>3, <2>5, <2>7
  <2>8. CASE l \notin {Donor, Receiver}
    BY <2>4, <2>5, <2>8
  <2>. QED  BY <2>6, <2>7, <2>8
<1>2. BalanceInv /\ [Next]_vars /\ ~Match => Step
  <2>. SUFFICES ASSUME BalanceInv, [Next]_vars, ~Match PROVE Step
    OBVIOUS
  <2>1. numNodes' = numNodes /\ numNodes \in [Lists -> Nat]
    BY DEF Next, Begin, Scan, NextDomain, KernelRuns, vars, BalanceInv, TypeOK
  <2>. QED  BY <2>1
<1>3. BalanceInv /\ [Next]_vars => [Step]_vars
  BY <1>1, <1>2
<1>. QED  BY <1>3, BalanceInvariant, PTL DEF Spec, NoOvershoot

-----------------------------------------------------------------------------
(* Sums over the lists. *)

(* Induction over numbers, for a set that stands for what holds. *)
LEMMA NumberInduction ==
  ASSUME NEW P, 0 \in P, \A n \in Nat : n \in P => n + 1 \in P
  PROVE  \A n \in Nat : n \in P
<1> DEFINE T == {n \in Nat : n \notin P}
           R == {p \in Nat \X Nat : p[1] < p[2]}
<1> SUFFICES ASSUME T # {} PROVE FALSE
  OBVIOUS
<1>1. IsWellFoundedOn(R, Nat)
  BY NatLessThanWellFounded DEF OpToRel
<1>2. PICK n \in T : \A k \in T : <<k, n>> \notin R
  <2> HIDE DEF R
  <2> QED BY <1>1, WFMin
<1>3. n \in Nat /\ n # 0
  OBVIOUS
<1>4. n - 1 \in Nat /\ n - 1 < n /\ (n - 1) + 1 = n
  BY <1>3
<1>5. n - 1 \notin T
  BY <1>2, <1>4
<1> QED BY <1>4, <1>5

(* The same along the lists. *)
LEMMA ListInduction ==
  ASSUME NEW P, 0 \in P, \A l \in Lists : l - 1 \in P => l \in P
  PROVE  NumLists \in P
<1> DEFINE Q == {n \in Nat : n <= NumLists => n \in P}
<1>1. NumLists \in Nat
  BY BalanceAssumption
<1>2. 0 \in Q
  OBVIOUS
<1>3. ASSUME NEW n \in Nat, n \in Q PROVE n + 1 \in Q
  <2> SUFFICES ASSUME n + 1 <= NumLists PROVE n + 1 \in P
    OBVIOUS
  <2>1. n + 1 \in Lists /\ (n + 1) - 1 = n /\ n \in P
    BY <1>1, <1>3 DEF Lists
  <2>2. (n + 1) - 1 \in P
    BY <2>1
  <2> QED BY <2>1, <2>2
<1> HIDE DEF Q
<1>4. \A n \in Nat : n \in Q
  BY <1>2, <1>3, NumberInduction
<1> QED BY <1>1, <1>4 DEF Q

(* u adds up f from the first list on. *)
Sums(u, f) ==
  /\ u \in [0..NumLists -> Int]
  /\ u[0] = 0
  /\ \A l \in Lists : u[l] = u[l - 1] + f[l]

(* A pass over the lists adds them up one after the other. *)
LEMMA SumRuns ==
  ASSUME NEW f, \A l \in Lists : f[l] \in Int
  PROVE  \E u : Sums(u, f) /\ SumOf(f) = u[NumLists]
<1> DEFINE IsRun(u, n) == u = [l \in 0..n |-> IF l = 0 THEN 0 ELSE u[l - 1] + f[l]]
<1>1. NumLists \in Nat /\ \A n \in Nat : 1..n \subseteq Nat
  BY BalanceAssumption
<1>2. \A n \in Nat : n <= NumLists => \E u : IsRun(u, n)
  <2> DEFINE P == {n \in Nat : n <= NumLists => \E u : IsRun(u, n)}
  <2>1. 0 \in P
    <3>1. IsRun([l \in 0..0 |-> 0], 0)
      OBVIOUS
    <3> QED BY <3>1
  <2>2. ASSUME NEW n \in Nat, n \in P PROVE n + 1 \in P
    <3> SUFFICES ASSUME n + 1 <= NumLists PROVE \E u : IsRun(u, n + 1)
      OBVIOUS
    <3>1. PICK u : IsRun(u, n)
      BY <1>1, <2>2
    <3> DEFINE v == [l \in 0..(n + 1) |-> IF l = n + 1 THEN u[n] + f[n + 1] ELSE u[l]]
    <3>2. \A l \in 0..n : v[l] = u[l]
      OBVIOUS
    <3>3. \A l \in 0..(n + 1) : v[l] = IF l = 0 THEN 0 ELSE v[l - 1] + f[l]
      <4>1. ASSUME NEW l \in 0..n PROVE v[l] = IF l = 0 THEN 0 ELSE v[l - 1] + f[l]
        <5>1. u[l] = IF l = 0 THEN 0 ELSE u[l - 1] + f[l]
          BY <3>1
        <5>2. l # 0 => l - 1 \in 0..n
          OBVIOUS
        <5> QED BY <3>2, <5>1, <5>2
      <4>2. v[n + 1] = v[n] + f[n + 1] /\ n + 1 # 0
        BY <3>2
      <4>3. \A l \in 0..(n + 1) : l \in 0..n \/ l = n + 1
        OBVIOUS
      <4> HIDE DEF v
      <4> QED BY <4>1, <4>2, <4>3
    <3>4. IsRun(v, n + 1)
      <4>1. v = [l \in 0..(n + 1) |-> v[l]]
        OBVIOUS
      <4> HIDE DEF v
      <4> QED BY <3>3, <4>1
    <3> QED BY <3>4
  <2> HIDE DEF P
  <2>3. \A n \in Nat : n \in P
    BY <2>1, <2>2, NumberInduction
  <2> QED BY <2>3 DEF P
<1>3. PICK u : IsRun(u, NumLists) /\ SumOf(f) = u[NumLists]
  <2> DEFINE u == CHOOSE v : IsRun(v, NumLists)
  <2>1. IsRun(u, NumLists)
    <3>1. \E v : IsRun(v, NumLists)
      BY <1>1, <1>2
    <3> HIDE DEF IsRun
    <3> QED BY <3>1
  <2>2. SumOf(f) = u[NumLists]
    BY DEF SumOf
  <2> QED BY <2>1, <2>2
<1>4. u[0] = 0 /\ \A l \in Lists : u[l] = u[l - 1] + f[l]
  <2>1. \A l \in 0..NumLists : u[l] = IF l = 0 THEN 0 ELSE u[l - 1] + f[l]
    BY <1>3
  <2>2. 0 \in 0..NumLists /\ \A l \in Lists : l \in 0..NumLists /\ l # 0
    BY <1>1 DEF Lists
  <2> QED BY <2>1, <2>2
<1>5. \A n \in 0..NumLists : u[n] \in Int
  <2> DEFINE P == {n \in Nat : n <= NumLists => u[n] \in Int}
  <2>1. 0 \in P
    BY <1>4
  <2>2. ASSUME NEW n \in Nat, n \in P PROVE n + 1 \in P
    <3> SUFFICES ASSUME n + 1 <= NumLists PROVE u[n + 1] \in Int
      OBVIOUS
    <3>1. n + 1 \in Lists /\ (n + 1) - 1 = n /\ u[n] \in Int
      BY <1>1, <2>2 DEF Lists
    <3> QED BY <1>4, <3>1
  <2> HIDE DEF P
  <2>3. \A n \in Nat : n \in P
    BY <2>1, <2>2, NumberInduction
  <2> QED BY <1>1, <2>3 DEF P
<1>6. u \in [0..NumLists -> Int]
  <2>1. u = [l \in 0..NumLists |-> u[l]]
    BY <1>3
  <2> QED BY <1>1, <1>5, <2>1
<1> QED BY <1>3, <1>4, <1>6 DEF Sums

(* Lists are numbers, and what precedes one is a place in the sums. *)
LEMMA ListPlaces ==
  /\ NumLists \in Nat /\ NumLists \in 0..NumLists /\ 0 \in 0..NumLists
  /\ \A l \in Lists : /\ l \in Nat /\ l >= 1 /\ l <= NumLists
                      /\ l \in 0..NumLists /\ l - 1 \in 0..NumLists
BY BalanceAssumption DEF Lists

(* A sum is a number; it changes by what one of its terms changes. *)
LEMMA SumChangesOne ==
  ASSUME NEW f, \A l \in Lists : f[l] \in Int,
         NEW g, \A l \in Lists : g[l] \in Int,
         NEW d \in Lists, \A l \in Lists \ {d} : g[l] = f[l]
  PROVE  /\ SumOf(f) \in Int
         /\ SumOf(g) = SumOf(f) + (g[d] - f[d])
<1>1. PICK u : Sums(u, f) /\ SumOf(f) = u[NumLists]
  BY SumRuns
<1>2. PICK w : Sums(w, g) /\ SumOf(g) = w[NumLists]
  BY SumRuns
<1> DEFINE P == {n \in 0..NumLists : w[n] = u[n] + (IF d <= n THEN g[d] - f[d] ELSE 0)}
<1>3. 0 \in P
  BY <1>1, <1>2, ListPlaces DEF Sums
<1>4. ASSUME NEW l \in Lists, l - 1 \in P PROVE l \in P
  <2>1. /\ w[l - 1] = u[l - 1] + (IF d <= l - 1 THEN g[d] - f[d] ELSE 0)
        /\ w[l] = w[l - 1] + g[l] /\ u[l] = u[l - 1] + f[l]
        /\ u[l - 1] \in Int /\ f[l] \in Int /\ g[l] \in Int
        /\ f[d] \in Int /\ g[d] \in Int
        /\ l \in Nat /\ d \in Nat /\ l \in 0..NumLists
    BY <1>1, <1>2, <1>4, ListPlaces DEF Sums
  <2>2. CASE l = d
    BY <2>1, <2>2
  <2>3. CASE l # d
    <3>1. g[l] = f[l] /\ (d <= l <=> d <= l - 1)
      BY <2>1, <2>3
    <3> QED BY <2>1, <3>1
  <2> QED BY <2>2, <2>3
<1> HIDE DEF P
<1>5. NumLists \in P
  BY <1>3, <1>4, ListInduction
<1>6. u[NumLists] \in Int
  BY <1>1, ListPlaces DEF Sums
<1> QED BY <1>1, <1>2, <1>5, <1>6, ListPlaces DEF P

(* It changes by what two of its terms change. *)
LEMMA SumChangesTwo ==
  ASSUME NEW f, \A l \in Lists : f[l] \in Int,
         NEW g, \A l \in Lists : g[l] \in Int,
         NEW d \in Lists, NEW v \in Lists, d # v,
         \A l \in Lists \ {d, v} : g[l] = f[l]
  PROVE  /\ SumOf(f) \in Int
         /\ SumOf(g) = SumOf(f) + (g[d] - f[d]) + (g[v] - f[v])
<1> DEFINE h == [l \in Lists |-> IF l = d THEN g[l] ELSE f[l]]
<1>1. /\ \A l \in Lists : h[l] \in Int
      /\ h[d] = g[d] /\ h[v] = f[v]
      /\ \A l \in Lists \ {d} : h[l] = f[l]
      /\ \A l \in Lists \ {v} : g[l] = h[l]
  OBVIOUS
<1> HIDE DEF h
<1>2. SumOf(f) \in Int /\ SumOf(h) = SumOf(f) + (h[d] - f[d])
  BY <1>1, SumChangesOne
<1>3. SumOf(g) = SumOf(h) + (g[v] - h[v])
  BY <1>1, SumChangesOne
<1> QED BY <1>1, <1>2, <1>3

(* A sum of numbers none of which is positive, and one of which is negative. *)
LEMMA SumNegative ==
  ASSUME NEW f, \A l \in Lists : f[l] \in Int /\ f[l] <= 0,
         NEW d \in Lists, f[d] < 0
  PROVE  SumOf(f) \in Int /\ SumOf(f) < 0
<1>1. PICK u : Sums(u, f) /\ SumOf(f) = u[NumLists]
  BY SumRuns
<1> DEFINE P == {n \in 0..NumLists : u[n] <= 0 /\ (d <= n => u[n] < 0)}
<1>2. 0 \in P
  BY <1>1, ListPlaces DEF Sums
<1>3. ASSUME NEW l \in Lists, l - 1 \in P PROVE l \in P
  <2>1. /\ u[l] = u[l - 1] + f[l] /\ u[l - 1] \in Int /\ f[l] \in Int /\ f[l] <= 0
        /\ u[l - 1] <= 0 /\ (d <= l - 1 => u[l - 1] < 0)
        /\ l \in Nat /\ d \in Nat /\ l \in 0..NumLists
    BY <1>1, <1>3, ListPlaces DEF Sums
  <2>2. l = d => f[l] < 0
    OBVIOUS
  <2> QED BY <2>1, <2>2
<1> HIDE DEF P
<1>4. NumLists \in P
  BY <1>2, <1>3, ListInduction
<1>5. u[NumLists] \in Int
  BY <1>1, ListPlaces DEF Sums
<1> QED BY <1>1, <1>4, <1>5, ListPlaces DEF P

(* Shares rounded down add up to no more than there is, less what the       *)
(* division left over: the relative speeds add up to the number of lists.   *)
LEMMA SharesFit ==
  ASSUME NEW s \in [Lists -> Nat], NEW t \in [Lists -> Nat], NEW h \in [Lists -> Nat],
         NEW avg \in Nat, NEW r \in Nat, SumOf(t) > 0,
         \A l \in Lists : s[l] * (NumLists * SumOf(t)) <=
                            ((NumLists + 1) * SumOf(t) - NumLists * t[l]) * avg,
         avg * NumLists + r = SumOf(h),
         NEW g, \A l \in Lists : g[l] = h[l] - s[l]
  PROVE  SumOf(g) \in Int /\ SumOf(g) >= r
<1>1. PICK us : Sums(us, s) /\ SumOf(s) = us[NumLists]
  BY SumRuns
<1>2. PICK ut : Sums(ut, t) /\ SumOf(t) = ut[NumLists]
  BY SumRuns
<1>3. PICK uh : Sums(uh, h) /\ SumOf(h) = uh[NumLists]
  BY SumRuns
<1>4. PICK ug : Sums(ug, g) /\ SumOf(g) = ug[NumLists]
  BY SumRuns
<1> DEFINE N == NumLists
           T == SumOf(t)
           den == N * T
           c == N * avg
           e == ((N + 1) * T) * avg
<1>5. N \in Nat /\ N >= 1 /\ T \in Int /\ T > 0
  BY <1>2, ListPlaces, BalanceAssumption DEF Sums
<1>6. den \in Int /\ den > 0 /\ c \in Int /\ e \in Int
  <2>1. (N + 1) * T \in Int
    BY <1>5
  <2> QED BY <1>5, <2>1
<1>7. ASSUME NEW l \in Lists PROVE s[l] * den + c * t[l] <= e
  <2>1. t[l] \in Nat /\ s[l] \in Nat
    OBVIOUS
  <2>2. s[l] * den <= ((N + 1) * T - N * t[l]) * avg
    OBVIOUS
  <2> HIDE DEF T, N
  <2> DEFINE x == (N + 1) * T
             y == N * t[l]
  <2>3. x \in Int /\ y \in Int
    BY <1>5, <2>1
  <2>4. c * t[l] = y * avg
    BY <1>5, <2>1
  <2>5. (x - y) * avg = x * avg - y * avg
    <3> HIDE DEF x, y
    <3> QED BY <2>3
  <2>6. s[l] * den \in Int /\ y * avg \in Int /\ x * avg \in Int
    BY <1>6, <2>1, <2>3
  <2>7. s[l] * den <= x * avg - y * avg
    BY <2>2, <2>5
  <2> HIDE DEF x, y, den, c
  <2>8. s[l] * den + y * avg <= x * avg
    BY <2>6, <2>7
  <2> QED BY <2>4, <2>8 DEF x
<1> HIDE DEF N, T, den, c, e
<1> DEFINE P == {n \in 0..NumLists : /\ us[n] * den + c * ut[n] <= n * e
                                     /\ ug[n] = uh[n] - us[n]}
<1>8. 0 \in P
  <2>1. us[0] = 0 /\ ut[0] = 0 /\ ug[0] = 0 /\ uh[0] = 0
    BY <1>1, <1>2, <1>3, <1>4 DEF Sums
  <2>2. 0 * den + c * 0 <= 0 * e
    BY <1>6
  <2> QED BY <2>1, <2>2, ListPlaces
<1>9. ASSUME NEW l \in Lists, l - 1 \in P PROVE l \in P
  <2> DEFINE a == us[l - 1]
             b == ut[l - 1]
  <2>1. /\ a \in Int /\ b \in Int /\ s[l] \in Nat /\ t[l] \in Nat /\ h[l] \in Nat
        /\ us[l] = a + s[l] /\ ut[l] = b + t[l]
        /\ uh[l] = uh[l - 1] + h[l] /\ ug[l] = ug[l - 1] + g[l] /\ g[l] = h[l] - s[l]
        /\ uh[l - 1] \in Int /\ ug[l - 1] = uh[l - 1] - us[l - 1]
        /\ a * den + c * b <= (l - 1) * e /\ l \in Nat /\ l \in 0..NumLists
    BY <1>1, <1>2, <1>3, <1>4, <1>9, ListPlaces DEF Sums
  <2>2. ug[l] = uh[l] - us[l]
    BY <2>1
  <2>3. us[l] * den + c * ut[l] <= l * e
    <3>1. s[l] * den + c * t[l] <= e
      BY <1>7
    <3> HIDE DEF a, b
    <3>2. (a + s[l]) * den = a * den + s[l] * den
      BY <1>6, <2>1
    <3>3. c * (b + t[l]) = c * b + c * t[l]
      BY <1>6, <2>1
    <3>4. l * e = (l - 1) * e + e
      BY <1>6, <2>1
    <3>5. /\ a * den \in Int /\ s[l] * den \in Int /\ c * b \in Int /\ c * t[l] \in Int
          /\ (l - 1) * e \in Int
      BY <1>6, <2>1
    <3> QED BY <1>6, <2>1, <3>1, <3>2, <3>3, <3>4, <3>5
  <2> QED BY <2>1, <2>2, <2>3
<1> HIDE DEF P
<1>10. NumLists \in P
  BY <1>8, <1>9, ListInduction
<1>11. us[N] * den + c * T <= N * e /\ ug[N] = uh[N] - us[N]
  BY <1>2, <1>10 DEF P, N, T
<1>12. us[N] \in Int /\ uh[N] \in Int
  BY <1>1, <1>3, ListPlaces DEF Sums, N
<1>13. us[N] <= c
  <2>1. c * T = avg * den
    BY <1>5 DEF c, den
  <2>2. N * e = c * den + avg * den
    <3>1. N * e = (N * avg) * ((N + 1) * T)
      BY <1>5 DEF e
    <3>2. (N + 1) * T = den + T
      BY <1>5 DEF den
    <3>3. c * (den + T) = c * den + c * T
      BY <1>5, <1>6
    <3> QED BY <2>1, <3>1, <3>2, <3>3 DEF c
  <2>3. us[N] * den \in Int /\ c * den \in Int /\ avg * den \in Int
    BY <1>6, <1>12
  <2>4. us[N] * den <= c * den
    BY <1>11, <2>1, <2>2, <2>3
  <2> QED BY <1>6, <1>12, <2>4
<1> QED BY <1>3, <1>4, <1>5, <1>6, <1>11, <1>12, <1>13 DEF N, c

-----------------------------------------------------------------------------
(* No list is left short. *)

(* The lists on a stack. *)
On(stack) == {stack[i] : i \in 1..Len(stack)}
OnPos == On(posStack)
OnNeg == On(negStack)

(* List l keeps one chunk beyond its share, as one of those left over. *)
Kept(l) == l < next /\ l \notin OnPos /\ numNodes[l] = share[l] + 1

(* What l has beyond its share and what it keeps. *)
Excess == [l \in Lists |-> numNodes[l] - share[l] - AsInt(Kept(l))]

(* The lists have together at least rem chunks in excess, those looked at    *)
(* that are off their share by more than a kept chunk are on a stack.       *)
Settling ==
  /\ SumOf(Excess) \in Int /\ SumOf(Excess) >= rem
  /\ \A l \in Lists : l < next => l \in OnPos \/ numNodes[l] <= share[l] + 1
  /\ \A l \in Lists : l < next => l \in OnNeg \/ numNodes[l] >= share[l]

SharesInv ==
  SumOf(time) > 0 => /\ phase \in {"scan", "match"} => Settling
                     /\ phase = "done" => \A l \in Lists : numNodes[l] >= share[l]

(* Types, as far as they are needed here. *)
LEMMA ExcessType ==
  ASSUME BalanceInv, NEW l \in Lists
  PROVE  /\ numNodes[l] \in Nat /\ share[l] \in Nat /\ rem \in Nat /\ l \in Nat
         /\ Excess[l] = numNodes[l] - share[l] - AsInt(Kept(l))
         /\ AsInt(Kept(l)) \in {0, 1} /\ Excess[l] \in Int
<1>1. /\ numNodes[l] \in Nat /\ share[l] \in Nat /\ rem \in Nat /\ l \in Nat
  BY ListsAreNat DEF BalanceInv, TypeOK
<1>2. AsInt(Kept(l)) \in {0, 1}
  BY DEF AsInt
<1>3. Excess[l] = numNodes[l] - share[l] - AsInt(Kept(l))
  BY DEF Excess
<1> QED BY <1>1, <1>2, <1>3

(* The shares fit. *)
LEMMA BeginSettles ==
  ASSUME BalanceInv, Begin
  PROVE  SharesInv'
<1> SUFFICES ASSUME SumOf(time)' > 0 PROVE Settling'
  BY DEF SharesInv, Begin
<1>1. PICK avg \in 0..MaxNodes, r \in 0..(NumLists - 1) :
        /\ avg * NumLists + r = SumOf(numNodes)
        /\ rem' = r /\ share' \in NewShares(avg)
  BY DEF Begin
<1>2. /\ UNCHANGED <<numNodes, time, next, posStack, negStack>>
      /\ next = 1 /\ posStack = <<>>
  BY DEF Begin, BalanceInv, ScanInv
<1>3. avg \in Nat /\ r \in Nat
  BY BalanceAssumption
<1>4. SumOf(time) > 0
  BY <1>2
<1>5. share' \in [Lists -> Nat] /\ \A l \in Lists : IsShare(share'[l], l, avg)
  BY <1>1, <1>4 DEF NewShares
<1>6. \A l \in Lists : Excess'[l] = numNodes[l] - share'[l]
  <2> TAKE l \in Lists
  <2>1. ~Kept(l)'
    BY <1>2, ListPlaces DEF Kept
  <2>2. numNodes[l] \in Nat /\ share'[l] \in Nat
    BY <1>5, ExcessType
  <2>3. Excess'[l] = numNodes[l] - share'[l] - 0
    BY <1>2, <2>1 DEF Excess, AsInt
  <2> QED BY <2>2, <2>3
<1>7. SumOf(Excess)' \in Int /\ SumOf(Excess)' >= r
  <2>1. PICK g : g = Excess'
    OBVIOUS
  <2>2. PICK s : s = share'
    OBVIOUS
  <2>3. \A l \in Lists : s[l] * (NumLists * SumOf(time)) <=
           ((NumLists + 1) * SumOf(time) - NumLists * time[l]) * avg
    BY <1>5, <2>2 DEF IsShare
  <2>4. s \in [Lists -> Nat] /\ \A l \in Lists : g[l] = numNodes[l] - s[l]
    BY <1>5, <1>6, <2>1, <2>2
  <2>5. time \in [Lists -> Nat] /\ numNodes \in [Lists -> Nat]
    BY DEF BalanceInv, TypeOK
  <2>6. SumOf(g) \in Int /\ SumOf(g) >= r
    BY <1>1, <1>3, <1>4, <2>3, <2>4, <2>5, SharesFit
  <2> QED BY <2>1, <2>6
<1>8. \A l \in Lists : ~(l < next')
  BY <1>2, ListPlaces
<1> QED BY <1>1, <1>7, <1>8 DEF Settling

(* A list that the scan leaves one chunk beyond its share is counted in rem. *)
LEMMA ScanSettles ==
  ASSUME BalanceInv, SharesInv, Scan
  PROVE  SharesInv'
<1> SUFFICES ASSUME SumOf(time) > 0 PROVE Settling'
  BY DEF SharesInv, Scan
<1>1. PICK l \in Lists : l = next
  BY DEF Scan, BalanceInv, ScanInv
<1>2. /\ UNCHANGED <<numNodes, share>> /\ next' = l + 1 /\ rem' = Left(l)
      /\ posStack' = IF Above(l) THEN Append(posStack, l) ELSE posStack
      /\ negStack' = IF ~Above(l) /\ numNodes[l] < share[l]
                     THEN Append(negStack, l) ELSE negStack
  BY <1>1 DEF Scan
<1>3. Settling
  BY DEF SharesInv, Scan
<1>4. /\ OnPos' = IF Above(l) THEN OnPos \cup {l} ELSE OnPos
      /\ OnNeg' = IF ~Above(l) /\ numNodes[l] < share[l] THEN OnNeg \cup {l} ELSE OnNeg
  <2>1. ASSUME NEW s \in Seq(Lists)
        PROVE  {Append(s, l)[i] : i \in 1..Len(Append(s, l))} =
                 {s[i] : i \in 1..Len(s)} \cup {l}
    <3> DEFINE v == Append(s, l)
    <3>1. /\ Len(v) = Len(s) + 1 /\ Len(s) \in Nat
          /\ \A i \in 1..Len(s) : v[i] = s[i]
          /\ v[Len(s) + 1] = l
      BY AppendLast
    <3> HIDE DEF v
    <3>2. \A i \in 1..Len(v) : i \in 1..Len(s) \/ i = Len(s) + 1
      BY <3>1
    <3>3. 1..Len(s) \subseteq 1..Len(v) /\ Len(s) + 1 \in 1..Len(v)
      BY <3>1
    <3>4. {v[i] : i \in 1..Len(v)} = {s[i] : i \in 1..Len(s)} \cup {l}
      BY <3>1, <3>2, <3>3
    <3> QED BY <3>4 DEF v
  <2>2. posStack \in Seq(Lists) /\ negStack \in Seq(Lists)
    BY DEF BalanceInv, TypeOK
  <2> QED BY <1>2, <2>1, <2>2 DEF OnPos, OnNeg, On
<1>5. /\ numNodes[l] \in Nat /\ share[l] \in Nat /\ rem \in Nat /\ l \in Nat
      /\ Excess[l] = numNodes[l] - share[l] - AsInt(Kept(l))
  BY ExcessType
<1>6. ~Kept(l) /\ Excess[l] = numNodes[l] - share[l]
  <2>1. ~Kept(l)
    BY <1>1, <1>5 DEF Kept
  <2> QED BY <1>5, <2>1 DEF AsInt
<1>7. Kept(l)' <=> ~Above(l) /\ numNodes[l] = share[l] + 1
  <2>1. l \notin OnPos
    <3> SUFFICES ASSUME l \in OnPos PROVE FALSE
      OBVIOUS
    <3>1. l < next
      BY DEF OnPos, On, BalanceInv, PosInv
    <3> QED BY <1>1, <1>5, <3>1
  <2>2. l < next'
    BY <1>2, <1>5
  <2> QED BY <1>2, <1>4, <2>1, <2>2 DEF Kept
<1>8. \A m \in Lists \ {l} : (m < next' <=> m < next) /\ (Kept(m)' <=> Kept(m))
  <2> TAKE m \in Lists \ {l}
  <2>1. m < next' <=> m < next
    <3>1. m \in Nat /\ m # l
      BY ListsAreNat
    <3> QED BY <1>1, <1>2, <1>5, <3>1
  <2> QED BY <1>2, <1>4, <2>1 DEF Kept
<1>9. /\ \A m \in Lists \ {l} : Excess'[m] = Excess[m]
      /\ Excess'[l] = Excess[l] - AsInt(Kept(l)')
      /\ AsInt(Kept(l)') \in {0, 1}
  <2>1. \A m \in Lists : Excess'[m] = numNodes[m] - share[m] - AsInt(Kept(m)')
    BY <1>2 DEF Excess, AsInt
  <2>2. \A m \in Lists \ {l} : Excess'[m] = Excess[m]
    BY <1>8, <2>1 DEF Excess, AsInt
  <2> QED BY <1>6, <2>1, <2>2 DEF AsInt
<1>10. SumOf(Excess)' \in Int /\ SumOf(Excess)' = SumOf(Excess) - AsInt(Kept(l)')
  <2>1. PICK g : g = Excess'
    OBVIOUS
  <2>2. /\ \A m \in Lists : Excess[m] \in Int /\ g[m] \in Int
        /\ \A m \in Lists \ {l} : g[m] = Excess[m]
        /\ g[l] = Excess[l] - AsInt(Kept(l)')
    BY <1>9, <2>1, ExcessType
  <2>3. SumOf(g) = SumOf(Excess) + (g[l] - Excess[l]) /\ SumOf(Excess) \in Int
    BY <2>2, SumChangesOne
  <2>4. g[l] - Excess[l] = 0 - AsInt(Kept(l)')
    BY <1>9, <2>2
  <2>5. SumOf(g) = SumOf(Excess) - AsInt(Kept(l)') /\ SumOf(g) \in Int
    BY <1>9, <2>3, <2>4
  <2> QED BY <2>1, <2>5
<1>11. SumOf(Excess)' >= rem'
  <2>1. rem' = Left(l) /\ SumOf(Excess) >= rem /\ SumOf(Excess) \in Int
    BY <1>2, <1>3 DEF Settling
  <2>2. Kept(l)' => rem > 0 /\ Left(l) = rem - 1
    BY <1>5, <1>7 DEF Above, Left, AsInt
  <2>3. Left(l) \in Nat /\ Left(l) <= rem
    BY <1>5 DEF Left, AsInt
  <2>4. CASE Kept(l)'
    BY <1>5, <1>10, <2>1, <2>2, <2>3, <2>4 DEF AsInt
  <2>5. CASE ~Kept(l)'
    BY <1>5, <1>10, <2>1, <2>3, <2>5 DEF AsInt
  <2> QED BY <2>4, <2>5
<1>12. \A m \in Lists : m < next' => m \in OnPos' \/ numNodes[m] <= share[m] + 1
  <2> TAKE m \in Lists
  <2>1. CASE m = l
    <3>1. Above(l) \/ numNodes[l] <= share[l] + 1
      BY <1>5 DEF Above, AsInt
    <3> QED BY <1>4, <2>1, <3>1
  <2>2. CASE m # l
    BY <1>3, <1>4, <1>8, <2>2 DEF Settling
  <2> QED BY <2>1, <2>2
<1>13. \A m \in Lists : m < next' => m \in OnNeg' \/ numNodes[m] >= share[m]
  <2> TAKE m \in Lists
  <2>1. CASE m = l
    <3>1. (~Above(l) /\ numNodes[l] < share[l]) \/ numNodes[l] >= share[l]
      BY <1>5 DEF Above, AsInt
    <3> QED BY <1>4, <2>1, <3>1
  <2>2. CASE m # l
    BY <1>3, <1>4, <1>8, <2>2 DEF Settling
  <2> QED BY <2>1, <2>2
<1> QED BY <1>2, <1>10, <1>11, <1>12, <1>13 DEF Settling

(* What a stack without repetitions holds once its top is popped, or not. *)
LEMMA PopSets ==
  ASSUME NEW s \in Seq(Lists), s # <<>>, NEW cond \in BOOLEAN,
         \A i, j \in 1..Len(s) : s[i] = s[j] => i = j,
         NEW p, p = Pop(s, cond)
  PROVE  On(p) = On(s) \ (IF cond THEN {Top(s)} ELSE {})
<1>1. Len(s) \in Nat /\ Len(s) >= 1 /\ Top(s) = s[Len(s)]
  BY TopOf
<1>2. CASE ~cond
  BY <1>2 DEF Pop
<1>3. CASE cond
  <2>1. /\ Len(p) = Len(s) - 1
        /\ \A i \in 1..(Len(s) - 1) : p[i] = s[i]
    BY <1>3, PopOf DEF Pop
  <2>2. \A i \in 1..Len(s) : i \in 1..(Len(s) - 1) \/ i = Len(s)
    BY <1>1
  <2>3. \A i \in 1..(Len(s) - 1) : i \in 1..Len(s) /\ i # Len(s) /\ Len(s) \in 1..Len(s)
    BY <1>1
  <2> DEFINE n == Len(s) - 1
  <2>4. \A i \in 1..n : s[i] # s[Len(s)]
    BY <2>3
  <2> DEFINE B == {s[i] : i \in 1..n}
  <2>5. On(p) = B
    BY <2>1 DEF On
  <2>6. On(s) = B \cup {s[Len(s)]}
    BY <2>2, <2>3, <1>1 DEF On
  <2>7. s[Len(s)] \notin B
    BY <2>4
  <2> HIDE DEF n, B
  <2> QED BY <1>1, <1>3, <2>5, <2>6, <2>7
<1> QED BY <1>2, <1>3

(* A donor left with a chunk beyond its share is counted in rem; the rest   *)
(* goes to the receiver.                                                    *)
LEMMA MatchSettles ==
  ASSUME BalanceInv, SharesInv, Match
  PROVE  SharesInv'
<1> SUFFICES ASSUME SumOf(time) > 0 PROVE Settling'
  BY DEF SharesInv, Match, Matching
<1>1. PICK d \in Lists, v \in Lists, n \in Nat : d = Donor /\ v = Receiver /\ n = NToTransfer
  BY TopsDiffer, TransferBounds DEF Match, Matching
<1>2. /\ posStack # <<>> /\ negStack # <<>>
      /\ numNodes' = [numNodes EXCEPT ![d] = @ - n, ![v] = @ + n]
      /\ rem' = rem - AsInt(rem > 0 /\ DonorIsTarget(n))
      /\ posStack' = Pop(posStack, DonorIsTarget(n))
      /\ negStack' = Pop(negStack, ReceiverIsTarget(n))
      /\ UNCHANGED <<phase, time, share, next>>
  BY <1>1 DEF Match, Matching
<1>3. /\ d # v /\ AsInt(rem > 0) \in {0, 1}
      /\ numNodes[d] \in Nat /\ share[d] \in Nat /\ numNodes[v] \in Nat /\ share[v] \in Nat
      /\ numNodes[d] > share[d] + AsInt(rem > 0) /\ numNodes[v] < share[v]
      /\ numNodes[d] - n >= share[d] + AsInt(rem > 0)
      /\ numNodes[v] + n <= share[v]
  BY <1>1, <1>2, TopsDiffer, TransferBounds
<1>4. Settling
  BY DEF SharesInv, Match, Matching
<1>5. numNodes \in [Lists -> Nat] /\ rem \in Nat
  BY DEF BalanceInv, TypeOK
<1>6. /\ numNodes'[d] = numNodes[d] - n /\ numNodes'[v] = numNodes[v] + n
      /\ \A m \in Lists \ {d, v} : numNodes'[m] = numNodes[m]
  BY <1>2, <1>3, <1>5
<1>7. /\ OnPos' = OnPos \ (IF DonorIsTarget(n) THEN {d} ELSE {})
      /\ OnNeg' = OnNeg \ (IF ReceiverIsTarget(n) THEN {v} ELSE {})
      /\ d \in OnPos
  <2>1. posStack \in Seq(Lists) /\ negStack \in Seq(Lists)
    BY DEF BalanceInv, TypeOK
  <2>2. d = Top(posStack) /\ v = Top(negStack)
    BY <1>1 DEF Donor, Receiver
  <2>3. DonorIsTarget(n) \in BOOLEAN /\ ReceiverIsTarget(n) \in BOOLEAN
    BY DEF DonorIsTarget, ReceiverIsTarget
  <2>4. OnPos' = OnPos \ (IF DonorIsTarget(n) THEN {d} ELSE {})
    <3>1. \A i, j \in 1..Len(posStack) : posStack[i] = posStack[j] => i = j
      BY DEF BalanceInv, PosInv
    <3>2. PICK p : p = posStack' /\ p = Pop(posStack, DonorIsTarget(n))
      BY <1>2
    <3>3. On(p) = On(posStack) \ (IF DonorIsTarget(n) THEN {Top(posStack)} ELSE {})
      BY <1>2, <2>1, <2>3, <3>1, <3>2, PopSets
    <3> QED BY <2>2, <3>2, <3>3 DEF OnPos
  <2>5. OnNeg' = OnNeg \ (IF ReceiverIsTarget(n) THEN {v} ELSE {})
    <3>1. \A i, j \in 1..Len(negStack) : negStack[i] = negStack[j] => i = j
      BY DEF BalanceInv, NegInv
    <3>2. PICK p : p = negStack' /\ p = Pop(negStack, ReceiverIsTarget(n))
      BY <1>2
    <3>3. On(p) = On(negStack) \ (IF ReceiverIsTarget(n) THEN {Top(negStack)} ELSE {})
      BY <1>2, <2>1, <2>3, <3>1, <3>2, PopSets
    <3> QED BY <2>2, <3>2, <3>3 DEF OnNeg
  <2>6. d \in OnPos
    <3>1. Len(posStack) \in 1..Len(posStack) /\ d = posStack[Len(posStack)]
      BY <1>2, <2>1, <2>2, TopOf
    <3> QED BY <3>1 DEF OnPos, On
  <2> QED BY <2>4, <2>5, <2>6
<1>8. d < next
  BY <1>7 DEF OnPos, On, BalanceInv, PosInv
<1>9. ~Kept(d) /\ ~Kept(v)
  BY <1>3, <1>7 DEF Kept
<1>10. Kept(d)' <=> DonorIsTarget(n) /\ rem > 0
  <2>1. Kept(d)' <=> DonorIsTarget(n) /\ numNodes[d] - n = share[d] + 1
    BY <1>2, <1>6, <1>7, <1>8 DEF Kept
  <2>2. CASE rem > 0
    BY <1>1, <1>3, <2>1, <2>2 DEF DonorIsTarget, AsInt
  <2>3. CASE ~(rem > 0)
    <3>1. AsInt(rem > 0) = 0
      BY <2>3 DEF AsInt
    <3>2. DonorIsTarget(n) => numNodes[d] - n # share[d] + 1
      BY <1>1, <1>3, <3>1 DEF DonorIsTarget
    <3> QED BY <2>1, <2>3, <3>2
  <2> QED BY <2>2, <2>3
<1>11. ~Kept(v)'
  BY <1>2, <1>3, <1>6 DEF Kept
<1>12. \A m \in Lists \ {d, v} : Kept(m)' <=> Kept(m)
  BY <1>2, <1>6, <1>7 DEF Kept
<1>13. PICK k \in {0, 1} : k = AsInt(DonorIsTarget(n) /\ rem > 0)
  BY DEF AsInt
<1>14. /\ rem' = rem - k
       /\ AsInt(Kept(d)') = k /\ AsInt(Kept(v)') = 0 /\ AsInt(Kept(d)) = 0 /\ AsInt(Kept(v)) = 0
  BY <1>2, <1>9, <1>10, <1>11, <1>13 DEF AsInt
<1>15. SumOf(Excess)' \in Int /\ SumOf(Excess)' = SumOf(Excess) - k
  <2>1. PICK g : g = Excess'
    OBVIOUS
  <2>2. \A m \in Lists : g[m] = numNodes'[m] - share[m] - AsInt(Kept(m)')
    BY <1>2, <2>1 DEF Excess, AsInt
  <2>3. \A m \in Lists \ {d, v} : g[m] = Excess[m]
    BY <1>6, <1>12, <2>2 DEF Excess, AsInt
  <2>4. /\ g[d] = numNodes[d] - n - share[d] - k
        /\ g[v] = numNodes[v] + n - share[v]
        /\ Excess[d] = numNodes[d] - share[d] /\ Excess[v] = numNodes[v] - share[v]
    <3>1. /\ Excess[d] = numNodes[d] - share[d] - AsInt(Kept(d))
          /\ Excess[v] = numNodes[v] - share[v] - AsInt(Kept(v))
      BY DEF Excess
    <3> QED BY <1>3, <1>6, <1>14, <2>2, <3>1
  <2>5. \A m \in Lists : Excess[m] \in Int /\ g[m] \in Int
    <3> TAKE m \in Lists
    <3>1. Excess[m] \in Int
      BY ExcessType
    <3>2. g[d] \in Int /\ g[v] \in Int
      BY <1>3, <2>4
    <3> QED BY <2>3, <3>1, <3>2
  <2>6. /\ SumOf(Excess) \in Int
        /\ SumOf(g) = SumOf(Excess) + (g[d] - Excess[d]) + (g[v] - Excess[v])
    BY <1>3, <2>3, <2>5, SumChangesTwo
  <2>7. SumOf(g) = SumOf(Excess) - k /\ SumOf(g) \in Int
    BY <1>3, <2>4, <2>6
  <2> QED BY <2>1, <2>7
<1>16. SumOf(Excess)' >= rem'
  <2>1. SumOf(Excess) >= rem /\ SumOf(Excess) \in Int
    BY <1>4 DEF Settling
  <2> QED BY <1>5, <1>14, <1>15, <2>1
<1>17. \A m \in Lists : m < next' => m \in OnPos' \/ numNodes'[m] <= share'[m] + 1
  <2> TAKE m \in Lists
  <2>1. CASE m = d
    <3>1. CASE DonorIsTarget(n)
      <4>1. numNodes[d] - n = share[d] + AsInt(rem > 0)
        BY <1>1, <3>1 DEF DonorIsTarget
      <4> QED BY <1>2, <1>3, <1>6, <2>1, <4>1
    <3>2. CASE ~DonorIsTarget(n)
      BY <1>7, <2>1, <3>2
    <3> QED BY <3>1, <3>2
  <2>2. CASE m = v
    BY <1>2, <1>3, <1>6, <2>2
  <2>3. CASE m \notin {d, v}
    BY <1>2, <1>4, <1>6, <1>7, <2>3 DEF Settling
  <2> QED BY <2>1, <2>2, <2>3
<1>18. \A m \in Lists : m < next' => m \in OnNeg' \/ numNodes'[m] >= share'[m]
  <2> TAKE m \in Lists
  <2>1. CASE m = d
    BY <1>2, <1>3, <1>6, <2>1
  <2>2. CASE m = v
    <3>1. CASE ReceiverIsTarget(n)
      BY <1>1, <1>2, <1>3, <1>6, <2>2, <3>1 DEF ReceiverIsTarget
    <3>2. CASE ~ReceiverIsTarget(n)
      <4>1. v < next => v \in OnNeg
        BY <1>3, <1>4 DEF Settling
      <4> QED BY <1>2, <1>7, <2>2, <3>2, <4>1
    <3> QED BY <3>1, <3>2
  <2>3. CASE m \notin {d, v}
    BY <1>2, <1>4, <1>6, <1>7, <2>3 DEF Settling
  <2> QED BY <2>1, <2>2, <2>3
<1> QED BY <1>15, <1>16, <1>17, <1>18 DEF Settling

(* Once all lists are looked at and one of the stacks is empty, no list is  *)
(* short: if there is no donor left, a list that is short would be one that  *)
(* no excess makes up for.                                                  *)
LEMMA NextDomainSettles ==
  ASSUME BalanceInv, SharesInv, NextDomain
  PROVE  SharesInv'
<1> SUFFICES ASSUME SumOf(time) > 0
             PROVE  /\ phase' = "scan" => Settling'
                    /\ phase' = "done" => \A l \in Lists : numNodes[l] >= share[l]
  BY DEF SharesInv, NextDomain
<1>1. /\ Settling
      /\ phase' = IF next > NumLists THEN "done" ELSE "scan"
      /\ posStack = <<>> \/ negStack = <<>>
      /\ UNCHANGED <<numNodes, share, rem, next, posStack, negStack>>
  BY DEF SharesInv, NextDomain, Matching
<1>2. Settling'
  <2>1. Excess' = Excess /\ OnPos' = OnPos /\ OnNeg' = OnNeg
    BY <1>1 DEF Excess, Kept, OnPos, OnNeg, On, AsInt
  <2>2. SumOf(Excess)' = SumOf(Excess)
    BY <2>1
  <2> QED BY <1>1, <2>1, <2>2 DEF Settling
<1>3. ASSUME phase' = "done", NEW l \in Lists PROVE numNodes[l] >= share[l]
  <2>1. next > NumLists /\ next \in Nat /\ NumLists \in Nat
    BY <1>1, <1>3, ListPlaces DEF BalanceInv, TypeOK
  <2>2. \A m \in Lists : m < next
    <3> TAKE m \in Lists
    <3>1. m \in Nat /\ m <= NumLists
      BY ListPlaces
    <3> QED BY <2>1, <3>1
  <2>3. CASE negStack = <<>>
    BY <1>1, <2>2, <2>3 DEF Settling, OnNeg, On
  <2>4. CASE posStack = <<>>
    <3> SUFFICES ASSUME ~(numNodes[l] >= share[l]) PROVE FALSE
      OBVIOUS
    <3>1. OnPos = {}
      BY <2>4 DEF OnPos, On
    <3>2. \A m \in Lists : numNodes[m] <= share[m] + 1
      BY <1>1, <2>2, <3>1 DEF Settling
    <3>3. \A m \in Lists : Excess[m] \in Int /\ Excess[m] <= 0
      <4> TAKE m \in Lists
      <4>1. /\ numNodes[m] \in Nat /\ share[m] \in Nat
            /\ Excess[m] = numNodes[m] - share[m] - AsInt(Kept(m))
            /\ AsInt(Kept(m)) \in {0, 1}
        BY ExcessType
      <4>2. numNodes[m] = share[m] + 1 => AsInt(Kept(m)) = 1
        BY <2>2, <3>1 DEF Kept, AsInt
      <4> QED BY <3>2, <4>1, <4>2
    <3>4. Excess[l] < 0
      <4>1. /\ numNodes[l] \in Nat /\ share[l] \in Nat
            /\ Excess[l] = numNodes[l] - share[l] - AsInt(Kept(l))
            /\ AsInt(Kept(l)) \in {0, 1}
        BY ExcessType
      <4> QED BY <4>1
    <3>5. SumOf(Excess) \in Int /\ SumOf(Excess) < 0
      BY <3>3, <3>4, SumNegative
    <3>6. SumOf(Excess) >= rem /\ rem \in Nat
      BY <1>1 DEF Settling, BalanceInv, TypeOK
    <3> QED BY <3>5, <3>6
  <2> QED BY <1>1, <2>3, <2>4
<1> QED BY <1>2, <1>3

(* When the balancer is done no list is short of its share: what the shares  *)
(* add up to fits what there is, the chunks that lists may keep come out of  *)
(* what the division leaves over, and the stacks carry from one domain to    *)
(* the next what is still off (pumabalance.c:182-264).                       *)
THEOREM SharesFilled == Spec => []SharesReached
<1>1. Init => SharesInv
  BY DEF Init, SharesInv
<1>2. BalanceInv /\ SharesInv /\ [Next]_vars => SharesInv'
  <2> SUFFICES ASSUME BalanceInv, SharesInv, [Next]_vars PROVE SharesInv'
    OBVIOUS
  <2>1. CASE Begin
    BY <2>1, BeginSettles
  <2>2. CASE Scan
    BY <2>2, ScanSettles
  <2>3. CASE Match
    BY <2>3, MatchSettles
  <2>4. CASE NextDomain
    BY <2>4, NextDomainSettles
  <2>5. CASE KernelRuns
    BY <2>5 DEF KernelRuns, SharesInv
  <2>6. CASE UNCHANGED vars
    <3>1. UNCHANGED <<phase, numNodes, time, share, rem, next, posStack, negStack>>
      BY <2>6 DEF vars
    <3>2. Excess' = Excess /\ OnPos' = OnPos /\ OnNeg' = OnNeg
      BY <3>1 DEF Excess, Kept, OnPos, OnNeg, On, AsInt
    <3>3. SumOf(Excess)' = SumOf(Excess) /\ SumOf(time)' = SumOf(time)
      BY <3>1, <3>2
    <3> QED BY <3>1, <3>2, <3>3 DEF SharesInv, Settling
  <2> QED BY <2>1, <2>2, <2>3, <2>4, <2>5, <2>6 DEF Next
<1>3. SharesInv => SharesReached
  BY DEF SharesInv, SharesReached
<1> QED BY <1>1, <1>2, <1>3, BalanceInvariant, PTL DEF Spec
=============================================================================
