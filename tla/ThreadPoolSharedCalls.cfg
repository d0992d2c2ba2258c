SPECIFICATION FairSpec
CONSTANTS
  NumThreads = 2
  Affinity = NoAffinity
  NoAffinity = NoAffinity
  Callers = {c1, c2}
  Jobs = {j1, j2}
  NoJob = NoJob
  NoCaller = NoCaller
PROPERTY CallsReturn
CHECK_DEADLOCK FALSE
