\* Three threads, a mutex and a condition, each of which may be destroyed and
\* made again; a block more than there are objects, so that blocks are reused.
CONSTANTS
  Threads = {t1, t2, t3}
  Mutexes = {m1}
  Conds = {c1}
  Nodes = {n1, n2, n3}
  MaxDepth = 2
  NoThread = NoThread
  NoObject = NoObject
  NoNode = NoNode
SPECIFICATION Spec
INVARIANT ObjectsInv
INVARIANT Exclusion
INVARIANT AttrsInUse
PROPERTY BroadcastReachesAll
