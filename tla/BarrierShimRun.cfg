SPECIFICATION FairSpec
CONSTANTS
  Threads = {t1, t2, t3, t4}
  TripCount = 4
  NoThread = NoThread
INVARIANT ShimInv
PROPERTIES ImplementsBarrier BarrierOpens
