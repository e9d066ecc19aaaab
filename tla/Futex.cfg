\* Three threads, a word of two values, wakes of none, one and everybody.
CONSTANTS
  Threads = {t1, t2, t3}
  Words = {0, 1}
  Counts = {0, 1, 2}
  NoThread = NoThread
SPECIFICATION FairSpec
INVARIANT FutexInv
PROPERTY ChangedWordReleases
