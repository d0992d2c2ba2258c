SPECIFICATION FairSpec
CONSTANTS
  NumLists = 4
  DomainEnd = {2, 4}
  MaxNodes = 3
  MaxTime = 2
  Huge = 1000
INVARIANTS BalanceInv TransferLegal SharesReached
PROPERTIES NoOvershoot BalanceTerminates
