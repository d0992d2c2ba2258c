SPECIFICATION FairSpec
CONSTANTS
  NumThreads = 3
  Affinity = NoAffinity
  NoAffinity = NoAffinity
  Callers = {c1}
  Jobs = {j1, j2}
  NoJob = NoJob
  NoCaller = NoCaller
INVARIANTS TypeOK TimesAreOwn FreedPoolIdle
PROPERTY CallsReturn
\* After freeThreadPool nothing is left to do.
CHECK_DEADLOCK FALSE
