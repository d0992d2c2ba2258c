SPECIFICATION FairSpec
CONSTANTS
  Threads = {t1, t2}
  Blocks = {b1, b2, b3}
  MaxKeys = 6
  Sizes = {2}
  PageSize = 3
  HeaderSize = 2
  NULL = NULL
INVARIANTS NoCrash OwnBlocksLive UsedWithinBlock
PROPERTY DeleteReturns
CHECK_DEADLOCK FALSE
