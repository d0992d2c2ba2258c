------------------------------ MODULE Balance ------------------------------
(***************************************************************************)
(* _autobalanceThreadLoad: before a kernel runs, chunks are moved from the  *)
(* thread lists that have more than their share to those that have less.    *)
(* A share depends on how long a thread's last kernels took.  The lists are *)
(* numbered in the order of the scan, domain after domain; here a list is   *)
(* its number of active chunks, and moving chunks is arithmetic on those    *)
(* (PumaThreadList has the pointers).                                       *)
(*                                                                         *)
(* Times are whole units, so that the real-valued share is an exact         *)
(* fraction.  The code computes it in floating point and truncates: where   *)
(* the exact value is a whole number the truncated one may be one less, and *)
(* where no kernel has run yet (0.0 / 0.0) the conversion of a NaN to       *)
(* size_t is undefined: NewShares has every outcome.                        *)
(***************************************************************************)
EXTENDS Naturals, Sequences

CONSTANTS
  NumLists,    \* active lists, one per pool thread
  DomainEnd,   \* numbers of the lists that are last in their NUMA domain
  MaxNodes,    \* bound on a list's chunks
  MaxTime,     \* bound on a list's lastNRunTime
  Huge         \* what x86 makes of a NaN (2^63 in the code)

Lists == 1..NumLists

ASSUME BalanceAssumption ==
  /\ NumLists \in Nat \ {0}
  /\ DomainEnd \subseteq Lists /\ NumLists \in DomainEnd
  /\ MaxNodes \in Nat /\ MaxTime \in Nat
  /\ Huge \in Nat /\ Huge > MaxNodes * NumLists

VARIABLES
  phase,      \* "idle", "scan", "match" or "done"
  numNodes,   \* tl->numNodes
  time,       \* tl->lastNRunTime
  share,      \* (size_t)(tl->relativeSpeed * avgNodes)
  rem,        \* chunks left over by the division, as the code counts them
  next,       \* the list the scan is at
  posStack, negStack

vars == <<phase, numNodes, time, share, rem, next, posStack, negStack>>

TypeOK ==
  /\ phase \in {"idle", "scan", "match", "done"}
  /\ numNodes \in [Lists -> Nat]
  /\ time \in [Lists -> Nat]
  /\ share \in [Lists -> Nat]
  /\ rem \in Nat
  /\ next \in 1..(NumLists + 1)
  /\ posStack \in Seq(Lists)
  /\ negStack \in Seq(Lists)

Init ==
  /\ phase = "idle"
  /\ numNodes \in [Lists -> 0..MaxNodes]
  /\ time \in [Lists -> 0..MaxTime]
  /\ share = [l \in Lists |-> 0]
  /\ rem = 0
  /\ next = 1
  /\ posStack = <<>>
  /\ negStack = <<>>

-----------------------------------------------------------------------------
(* What a pass over tidToThreadList adds up. *)
SumOf(f) ==
  LET upTo[l \in 0..NumLists] == IF l = 0 THEN 0 ELSE upTo[l - 1] + f[l]
  IN  upTo[NumLists]

(* A C condition used as a number. *)
AsInt(cond) == IF cond THEN 1 ELSE 0

Min2(a, b) == IF a < b THEN a ELSE b

(* s is what truncation makes of ((numLists + 1.0) / numLists               *)
(* - lastNRunTime / total) * avg, which is num / den.                       *)
IsShare(s, l, avg) ==
  LET total == SumOf(time)
      num == ((NumLists + 1) * total - NumLists * time[l]) * avg
      den == NumLists * total
  IN  s * den <= num /\ num <= (s + 1) * den

(* The relative speeds as shares, for the average and for a NaN. *)
NewShares(avg) ==
  IF SumOf(time) = 0
  THEN {[l \in Lists |-> s] : s \in {0, Huge}}
  ELSE {f \in [Lists -> 0..(avg + avg \div NumLists)] :
          \A l \in Lists : IsShare(f[l], l, avg)}

(* Both passes over tidToThreadList, and the division by numLists. *)
Begin ==
  /\ phase = "idle"
  /\ phase' = "scan"
  /\ \E avg \in 0..MaxNodes, r \in 0..(NumLists - 1) :
       /\ avg * NumLists + r = SumOf(numNodes)
       /\ rem' = r
       /\ share' \in NewShares(avg)
  /\ UNCHANGED <<numNodes, time, next, posStack, negStack>>

(* rem once list l is looked at: a list that is one chunk above its share   *)
(* keeps that chunk as one of those left over.                              *)
Left(l) == rem - AsInt(rem > 0 /\ numNodes[l] = share[l] + 1)

(* Mutant: a list that has what it should have is a donor too. *)
AboveOrAt(l) == numNodes[l] >= share[l] + AsInt(Left(l) > 0)

Above(l) == numNodes[l] > share[l] + AsInt(Left(l) > 0)

(* One list of the scan of a domain. *)
Scan ==
  LET l == next
  IN  /\ phase = "scan"
      /\ rem' = Left(l)
      /\ posStack' = IF Above(l) THEN Append(posStack, l) ELSE posStack
      /\ negStack' = IF ~Above(l) /\ numNodes[l] < share[l]
                     THEN Append(negStack, l) ELSE negStack
      /\ next' = next + 1
      /\ phase' = IF l \in DomainEnd THEN "match" ELSE "scan"
      /\ UNCHANGED <<numNodes, time, share>>

Top(s) == s[Len(s)]
Pop(s, cond) == IF cond THEN SubSeq(s, 1, Len(s) - 1) ELSE s

Donor == Top(posStack)
Receiver == Top(negStack)

(* Mutant: the receiver is filled whatever the donor can give. *)
NToFill == share[Receiver] - numNodes[Receiver]

NToTransfer ==
  Min2(share[Receiver] - numNodes[Receiver],
       numNodes[Donor] - (share[Donor] + AsInt(rem > 0)))

(* Mutant: the chunk a donor may keep beyond its share is forgotten. *)
DonorIsExact(n) == numNodes[Donor] - n = share[Donor]

DonorIsTarget(n) == numNodes[Donor] - n = share[Donor] + AsInt(rem > 0)
ReceiverIsTarget(n) == numNodes[Receiver] + n = share[Receiver]

Matching == phase = "match" /\ posStack # <<>> /\ negStack # <<>>

(* One round of the loop that empties the stacks against each other. *)
Match ==
  LET n == NToTransfer
  IN  /\ Matching
      /\ numNodes' = [numNodes EXCEPT ![Donor] = @ - n, ![Receiver] = @ + n]
      /\ rem' = rem - AsInt(rem > 0 /\ DonorIsTarget(n))
      /\ posStack' = Pop(posStack, DonorIsTarget(n))
      /\ negStack' = Pop(negStack, ReceiverIsTarget(n))
      /\ UNCHANGED <<phase, time, share, next>>

(* Mutant: the stacks start empty in every domain. *)
NextDomainAlone ==
  /\ phase = "match"
  /\ ~Matching
  /\ phase' = IF next > NumLists THEN "done" ELSE "scan"
  /\ posStack' = <<>>
  /\ negStack' = <<>>
  /\ UNCHANGED <<numNodes, time, share, rem, next>>

(* The next domain finds on the stacks what this one could not settle. *)
NextDomain ==
  /\ phase = "match"
  /\ ~Matching
  /\ phase' = IF next > NumLists THEN "done" ELSE "scan"
  /\ UNCHANGED <<numNodes, time, share, rem, next, posStack, negStack>>

(* The kernel runs and changes how long the threads took; then again. *)
KernelRuns ==
  /\ phase = "done"
  /\ phase' = "idle"
  /\ time' \in [Lists -> 0..MaxTime]
  /\ share' = [l \in Lists |-> 0]
  /\ rem' = 0
  /\ next' = 1
  /\ posStack' = <<>>
  /\ negStack' = <<>>
  /\ UNCHANGED numNodes

Next == Begin \/ Scan \/ Match \/ NextDomain \/ KernelRuns

Spec == Init /\ [][Next]_vars
FairSpec == Spec /\ WF_vars(Begin \/ Scan \/ Match \/ NextDomain)

-----------------------------------------------------------------------------
(* What _transferNNodes asserts: at least one chunk, and no more than the   *)
(* donor has.  A size_t that wrapped below zero would break it.             *)
TransferLegal ==
  Matching => /\ Donor # Receiver
              /\ NToTransfer \in 1..numNodes[Donor]

(* A donor is never left below its share and no list is filled beyond it. *)
NoOvershoot ==
  [][\A l \in Lists :
       /\ numNodes'[l] < numNodes[l] => numNodes'[l] >= share[l]
       /\ numNodes'[l] > numNodes[l] => numNodes'[l] <= share[l]]_vars

(* When balancing is over no list is short of its share, although the scan   *)
(* lets lists keep one chunk too many and later domains see only what        *)
(* earlier ones left on the stacks.  (Before the first kernel there are no   *)
(* run times and no shares.)                                                 *)
SharesReached ==
  phase = "done" /\ SumOf(time) > 0 => \A l \in Lists : numNodes[l] >= share[l]

(* The loops end: every round settles a donor or a receiver. *)
BalanceTerminates == phase = "scan" ~> phase = "done"

-----------------------------------------------------------------------------
(* The inductive invariant behind TransferLegal and NoOvershoot.             *)

ScanInv ==
  /\ phase = "scan" => next \in Lists
  /\ phase = "idle" => next = 1 /\ posStack = <<>> /\ negStack = <<>>

PosInv ==
  /\ \A i \in 1..Len(posStack) :
       /\ posStack[i] < next
       /\ numNodes[posStack[i]] > share[posStack[i]] + AsInt(rem > 0)
  /\ \A i, j \in 1..Len(posStack) : posStack[i] = posStack[j] => i = j

NegInv ==
  /\ \A i \in 1..Len(negStack) :
       /\ negStack[i] < next
       /\ numNodes[negStack[i]] < share[negStack[i]]
  /\ \A i, j \in 1..Len(negStack) : negStack[i] = negStack[j] => i = j

(* Every list on a stack is still strictly above or below its share, with    *)
(* rem as it is now and not as it was when the list was pushed, and is there *)
(* once: the differences _autobalanceThreadLoad takes of size_t's never wrap. *)
BalanceInv == TypeOK /\ ScanInv /\ PosInv /\ NegInv
=============================================================================
