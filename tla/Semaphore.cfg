\* Four threads that each call anything at any time: two may sleep while two
\* post at once.  Values up to MaxValue plus one per concurrent post.
CONSTANTS
  Threads = {t1, t2, t3, t4}
  Values = {0, 1}
  ValueMod = 8
  MaxValue = 2
SPECIFICATION FairSpec
INVARIANT SemInv
INVARIANT CountMirrorsValue
PROPERTY ImplementsSemaphore
PROPERTY PermitsAreTaken
