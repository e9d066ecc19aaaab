----------------------- MODULE PthreadObjectsProofs -----------------------
(***************************************************************************)
(* The registry of host mutexes and conditions: no thread ever uses a      *)
(* node that is not its object's, mutexes exclude, and a broadcast reaches *)
(* everybody, for any number of threads, objects and heap blocks.          *)
(***************************************************************************)
EXTENDS PthreadObjects, TLAPS

\* The type in a mutex's word reads back, and what is in it is a type.
LEMMA WordFacts ==
  /\ \A a \in 0 .. 2 : AndroidMutexType(TypeWord(a)) = a
  /\ TypeWord(0) = 0
  /\ \A o \in Objects, a \in 0 .. 2 : Word(o, a) \in {TypeWord(b) : b \in 0 .. 2}
  /\ \A o \in Objects, a \in 0 .. 2 : HostAttr(o, a) \in 0 .. 2
  /\ \A o \in Objects : Attrs(o) \subseteq 0 .. 2
<1>1. 2^14 = 16384
  OBVIOUS
<1>2. \A a \in 0 .. 2 : AndroidMutexType(TypeWord(a)) = a
  BY <1>1 DEF TypeWord, AndroidMutexType
<1>3. TypeWord(0) = 0
  BY <1>1 DEF TypeWord
<1>4. \A o \in Objects, a \in 0 .. 2 : Word(o, a) \in {TypeWord(b) : b \in 0 .. 2}
  BY <1>3 DEF Word
<1>5. \A o \in Objects, a \in 0 .. 2 : HostAttr(o, a) \in 0 .. 2
  BY DEF HostAttr, HostMutexType, PTHREAD_MUTEX_NORMAL, PTHREAD_MUTEX_ERRORCHECK,
         PTHREAD_MUTEX_RECURSIVE
<1>6. \A o \in Objects : Attrs(o) \subseteq 0 .. 2
  BY DEF Attrs, MutexTypes, Clocks
<1> QED BY <1>2, <1>3, <1>4, <1>5, <1>6

\* The objects are not NoObject, a node in the list is allocated, and a new one
\* has its type.
LEMMA NodeFacts ==
  /\ NoObject \notin Objects
  /\ \A o \in Objects, a \in 0 .. 2 : NewNode(o, a) \in NodeRecs
  /\ Blank \in NodeRecs /\ Blank.object = NoObject
BY ObjectsAssumption DEF Objects, NewNode, Blank, NodeRecs

\* A thread leaves a call that uses a node, goes on in its wait, or stays.
Moves(u) == \/ pc'[u] = pc[u] /\ loc'[u] = loc[u]
            \/ pc[u] \in UsesNode /\ pc'[u] = "out" /\ loc'[u] = NoLoc
            \/ pc[u] \in Waits /\ pc'[u] \in Waits /\ loc'[u] = loc[u]

\* A step that leaves the list and the objects of the nodes alone, and in which
\* threads only go on with or leave calls that use a node.
LEMMA MovesStep ==
  ASSUME ObjectsInv, UNCHANGED <<memory, linked, wanted>>,
         node' \in [Nodes -> NodeRecs], held' \in [Threads -> [Mutexes -> 0 .. MaxDepth]],
         pc' \in [Threads -> PC], loc' \in [Threads -> Locs],
         \A k \in Nodes : node'[k].object = node[k].object /\ node'[k].attr = node[k].attr,
         \A u \in Threads : Moves(u),
         \A u \in Threads, m \in Mutexes : held'[u][m] = held[u][m] \/ Find(m) # {},
         OwnersAgree', HoldersInside'
  PROVE  ObjectsInv'
<1>0. /\ TypeOK /\ OneNode /\ PointersLive /\ CallsTyped /\ MakersAlone /\ AttrsKept
      /\ WordsKept /\ linked \subseteq Nodes
  BY DEF ObjectsInv, TypeOK
<1>1. TypeOK'
  BY <1>0 DEF TypeOK
<1>2. \A o : Find(o)' = Find(o)
  BY <1>0 DEF Find
<1>3. OneNode'
  BY <1>0, <1>2 DEF OneNode
<1>4. PointersLive'
  BY <1>0 DEF PointersLive, NodeOf, Moves, UsesNode, Waits, PC
<1>5. CallsTyped'
  BY <1>0, ObjectsAssumption DEF CallsTyped, Moves, UsesNode, Waits, PC, NoLoc, Loc
<1>6. \A u \in Threads : pc'[u] \in {"init", "destroy"} => pc'[u] = pc[u] /\ loc'[u] = loc[u]
  BY DEF Moves, UsesNode, Waits
<1>7. \A u \in Threads : pc[u] \in {"init", "destroy"} => pc'[u] = pc[u] /\ loc'[u] = loc[u]
  BY DEF Moves, UsesNode, Waits
<1>8. \A o \in Objects : InCall(o)' \subseteq InCall(o)
  BY <1>0, NodeFacts DEF InCall, Moves, UsesNode, Waits, NoLoc, Loc
<1>9. MakersAlone'
  <2> SUFFICES ASSUME NEW u \in Threads, pc'[u] \in {"init", "destroy"}
               PROVE  LET o == loc'[u].object n == loc'[u].node IN
                      /\ InCall(loc[u].object)' = {u} /\ Find(loc[u].object)' = {}
                      /\ o \in Mutexes => \A v \in Threads : held'[v][o] = 0
                      /\ n # NoNode => n \notin linked' /\ node'[n].object = o
    BY DEF MakersAlone
  <2>1. pc'[u] = pc[u] /\ loc'[u] = loc[u] /\ pc[u] \in {"init", "destroy"}
    BY <1>6
  <2> DEFINE o == loc[u].object
  <2>2. /\ InCall(o) = {u} /\ Find(o) = {} /\ o \in Objects
        /\ o \in Mutexes => \A v \in Threads : held[v][o] = 0
        /\ loc[u].node # NoNode =>
             loc[u].node \notin linked /\ node[loc[u].node].object = o
    BY <1>0, <2>1 DEF MakersAlone, CallsTyped
  <2>3. {v \in Threads : pc'[v] # "out" /\ o \in {loc'[v].object, loc'[v].mutex}} = {u}
    <3>1. u \in {v \in Threads : pc'[v] # "out" /\ o \in {loc'[v].object, loc'[v].mutex}}
      BY <2>1
    <3>2. {v \in Threads : pc'[v] # "out" /\ o \in {loc'[v].object, loc'[v].mutex}}
            \subseteq InCall(o)
      BY <1>8, <2>2 DEF InCall
    <3> QED BY <2>2, <3>1, <3>2
  <2>4. InCall(loc[u].object)' = {u} /\ Find(loc[u].object)' = {}
    <3>1. InCall(loc[u].object)' = {u}
      BY <2>1, <2>3 DEF InCall
    <3>2. Find(loc[u].object)' = {}
      BY <1>0, <2>1, <2>2 DEF Find
    <3> QED BY <3>1, <3>2
  <2>5. loc[u].node \in Nodes \cup {NoNode}
    BY <1>0 DEF TypeOK, Locs
  <2> QED BY <2>1, <2>2, <2>4, <2>5, SMTT(30)
<1>10. AttrsKept'
  BY <1>0 DEF AttrsKept
<1>11. \A c \in Conds : Usable(c)' => Usable(c)
  BY <1>7 DEF Usable, InCall
<1>12. WordsKept'
  BY <1>0, <1>2, <1>11 DEF WordsKept
<1> QED BY <1>1, <1>3, <1>4, <1>5, <1>9, <1>10, <1>12 DEF ObjectsInv

\* The host's lock and unlock of a node change its owner and depth only.
LEMMA AcquireEffect ==
  ASSUME TypeOK, NEW t \in Threads, NEW n \in Nodes, Acquire(t, n)
  PROVE  /\ node' \in [Nodes -> [object : Objects \cup {NoObject}, attr : 0 .. 2,
                                 owner : Threads \cup {NoThread}, depth : Nat]]
         /\ node'[n].owner = t /\ node'[n].depth = node[n].depth + 1
         /\ \A k \in Nodes : node'[k].object = node[k].object /\ node'[k].attr = node[k].attr
         /\ \A k \in Nodes \ {n} : node'[k] = node[k]
BY ObjectsAssumption DEF TypeOK, NodeRecs, Acquire

\* See AcquireEffect.
LEMMA ReleaseEffect ==
  ASSUME TypeOK, NEW n \in Nodes, Release(n), node[n].depth > 0
  PROVE  /\ node' \in [Nodes -> NodeRecs]
         /\ node'[n].owner = IF node[n].depth = 1 THEN NoThread ELSE node[n].owner
         /\ node'[n].depth = node[n].depth - 1
         /\ \A k \in Nodes : node'[k].object = node[k].object /\ node'[k].attr = node[k].attr
         /\ \A k \in Nodes \ {n} : node'[k] = node[k]
BY ObjectsAssumption DEF TypeOK, NodeRecs, Release

\* The owner and depth of a mutex's node are what its callers count, and stay so
\* when a thread and its node count one up or down together.
LEMMA OwnersStep ==
  ASSUME ObjectsInv, NEW t \in Threads, NEW m \in Mutexes, NEW n \in linked,
         node[n].object = m, linked' = linked, node' \in [Nodes -> NodeRecs],
         held'[t][m] = node'[n].depth,
         \A u \in Threads, l \in Mutexes : u # t \/ l # m => held'[u][l] = held[u][l],
         \A k \in Nodes : node'[k].object = node[k].object,
         \A k \in Nodes \ {n} : node'[k] = node[k],
         node'[n].owner \in {t, NoThread}, node'[n].owner = NoThread <=> node'[n].depth = 0,
         \A u \in Threads \ {t} : held[u][m] = 0
  PROVE  OwnersAgree'
<1>0. TypeOK /\ OneNode /\ OwnersAgree /\ linked \subseteq Nodes
  BY DEF ObjectsInv, TypeOK
<1>1. \A u \in Threads, l \in Mutexes : u # t \/ l # m => held'[u][l] = held[u][l]
  OBVIOUS
<1>2. \A o : Find(o)' = Find(o)
  BY <1>0 DEF Find
<1>3. \A l \in Mutexes : Find(l)' = {} => \A u \in Threads : held'[u][l] = 0
  <2>1. Find(m) # {}
    BY DEF Find
  <2> QED BY <1>0, <1>1, <1>2, <2>1 DEF OwnersAgree
<1>4. ASSUME NEW k \in linked
      PROVE  /\ node'[k].object \in Objects
             /\ node'[k].object \in Mutexes => \A u \in Threads :
                  held'[u][node'[k].object] = IF node'[k].owner = u THEN node'[k].depth ELSE 0
             /\ node'[k].owner = NoThread <=> node'[k].depth = 0
  <2>1. CASE k = n
    <3>1. node'[k].object = m /\ m \in Objects
      BY <1>0, <2>1 DEF Objects
    <3>2. ASSUME NEW u \in Threads
          PROVE  held'[u][m] = IF node'[n].owner = u THEN node'[n].depth ELSE 0
      <4>1. CASE u = t
        BY <1>1, <4>1, ObjectsAssumption
      <4>2. CASE u # t
        BY <1>1, <4>2, ObjectsAssumption
      <4> QED BY <4>1, <4>2
    <3> QED BY <2>1, <3>1, <3>2
  <2>2. CASE k # n
    <3>1. node'[k] = node[k] /\ node[k].object # m
      BY <1>0, <2>2 DEF OneNode, Find, Objects
    <3> QED BY <1>0, <1>1, <3>1 DEF OwnersAgree
  <2> QED BY <2>1, <2>2
<1> QED BY <1>3, <1>4 DEF OwnersAgree

\* What an acquisition and a release of the node of a mutex leave behind.
LEMMA AcquireStep ==
  ASSUME ObjectsInv, NEW t \in Threads, NEW m \in Mutexes, NEW n \in linked,
         node[n].object = m, linked' = linked, Acquire(t, n), held[t][m] < MaxDepth,
         held' = [held EXCEPT ![t][m] = @ + 1]
  PROVE  /\ node' \in [Nodes -> NodeRecs] /\ OwnersAgree'
         /\ held' \in [Threads -> [Mutexes -> 0 .. MaxDepth]]
         /\ \A k \in Nodes : node'[k].object = node[k].object /\ node'[k].attr = node[k].attr
<1>0. TypeOK /\ OwnersAgree /\ n \in Nodes /\ MaxDepth \in Nat
  BY ObjectsAssumption DEF ObjectsInv, TypeOK
<1>1. /\ node' \in [Nodes -> [object : Objects \cup {NoObject}, attr : 0 .. 2,
                              owner : Threads \cup {NoThread}, depth : Nat]]
      /\ node'[n].owner = t /\ node'[n].depth = node[n].depth + 1
      /\ \A k \in Nodes : node'[k].object = node[k].object /\ node'[k].attr = node[k].attr
      /\ \A k \in Nodes \ {n} : node'[k] = node[k]
  BY <1>0, AcquireEffect
<1>2. /\ \A u \in Threads : held[u][m] = IF node[n].owner = u THEN node[n].depth ELSE 0
      /\ node[n].owner = NoThread <=> node[n].depth = 0
      /\ node[n].depth \in 0 .. MaxDepth /\ held[t][m] \in 0 .. MaxDepth
  BY <1>0 DEF OwnersAgree, TypeOK, NodeRecs
<1>3. held[t][m] = node[n].depth /\ \A u \in Threads \ {t} : held[u][m] = 0
  BY <1>2, ObjectsAssumption DEF Acquire
<1>4. node'[n].depth \in 0 .. MaxDepth /\ node'[n].depth # 0
  BY <1>0, <1>1, <1>2, <1>3
<1>5. node' \in [Nodes -> NodeRecs]
  <2>1. \A k \in Nodes : node'[k].depth \in 0 .. MaxDepth
    BY <1>0, <1>1, <1>4 DEF TypeOK, NodeRecs
  <2> QED BY <1>1, <2>1 DEF NodeRecs
<1>6. /\ held'[t][m] = node'[n].depth
      /\ \A u \in Threads, l \in Mutexes : u # t \/ l # m => held'[u][l] = held[u][l]
  BY <1>0, <1>1, <1>3 DEF TypeOK
<1>7. OwnersAgree'
  <2>1. node'[n].owner \in {t, NoThread} /\ (node'[n].owner = NoThread <=> node'[n].depth = 0)
    BY <1>1, <1>4, ObjectsAssumption
  <2> QED BY <1>1, <1>3, <1>5, <1>6, <2>1, OwnersStep
<1>8. held' \in [Threads -> [Mutexes -> 0 .. MaxDepth]]
  BY <1>0, <1>1, <1>4, <1>6 DEF TypeOK
<1> QED BY <1>1, <1>5, <1>7, <1>8

\* See AcquireStep.
LEMMA ReleaseStep ==
  ASSUME ObjectsInv, NEW t \in Threads, NEW m \in Mutexes, NEW n \in linked,
         node[n].object = m, linked' = linked, Release(n), held[t][m] > 0,
         held' = [held EXCEPT ![t][m] = @ - 1]
  PROVE  /\ node' \in [Nodes -> NodeRecs] /\ OwnersAgree'
         /\ held' \in [Threads -> [Mutexes -> 0 .. MaxDepth]]
         /\ \A k \in Nodes : node'[k].object = node[k].object /\ node'[k].attr = node[k].attr
<1>0. TypeOK /\ OwnersAgree /\ n \in Nodes /\ MaxDepth \in Nat
  BY ObjectsAssumption DEF ObjectsInv, TypeOK
<1>1. /\ \A u \in Threads : held[u][m] = IF node[n].owner = u THEN node[n].depth ELSE 0
      /\ node[n].owner = NoThread <=> node[n].depth = 0
      /\ node[n].depth \in 0 .. MaxDepth /\ held[t][m] \in 0 .. MaxDepth
  BY <1>0 DEF OwnersAgree, TypeOK, NodeRecs
<1>2. /\ node[n].owner = t /\ held[t][m] = node[n].depth /\ node[n].depth > 0
      /\ \A u \in Threads \ {t} : held[u][m] = 0
  BY <1>1
<1>3. /\ node' \in [Nodes -> NodeRecs]
      /\ node'[n].owner = IF node[n].depth = 1 THEN NoThread ELSE node[n].owner
      /\ node'[n].depth = node[n].depth - 1
      /\ \A k \in Nodes : node'[k].object = node[k].object /\ node'[k].attr = node[k].attr
      /\ \A k \in Nodes \ {n} : node'[k] = node[k]
  BY <1>0, <1>2, ReleaseEffect
<1>4. /\ held'[t][m] = node'[n].depth
      /\ \A u \in Threads, l \in Mutexes : u # t \/ l # m => held'[u][l] = held[u][l]
  BY <1>0, <1>2, <1>3 DEF TypeOK
<1>5. node'[n].owner \in {t, NoThread} /\ (node'[n].owner = NoThread <=> node'[n].depth = 0)
  BY <1>1, <1>2, <1>3, ObjectsAssumption
<1>6. OwnersAgree'
  <2>1. /\ \A k \in Nodes : node'[k].object = node[k].object
        /\ \A k \in Nodes \ {n} : node'[k] = node[k]
        /\ \A u \in Threads \ {t} : held[u][m] = 0
    BY <1>2, <1>3
  <2>2. node' \in [Nodes -> NodeRecs]
    BY <1>3
  <2> QED BY <1>4, <1>5, <2>1, <2>2, OwnersStep
<1>7. held' \in [Threads -> [Mutexes -> 0 .. MaxDepth]]
  <2>1. node'[n].depth \in 0 .. MaxDepth
    BY <1>0, <1>3 DEF NodeRecs
  <2> QED BY <1>0, <1>4, <2>1 DEF TypeOK
<1> QED BY <1>3, <1>6, <1>7

\* The steps with which threads go on with a call or leave it.
LEMMA HostLockStep ==
  ASSUME ObjectsInv, NEW t \in Threads, HostLock(t)
  PROVE  ObjectsInv'
<1> DEFINE n == loc[t].node
           m == loc[t].object
<1>0. /\ TypeOK /\ PointersLive /\ CallsTyped /\ OwnersAgree /\ HoldersInside
      /\ linked \subseteq Nodes
  BY DEF ObjectsInv, TypeOK
<1>1. pc[t] = "lock" /\ pc' = [pc EXCEPT ![t] = "out"] /\ loc' = [loc EXCEPT ![t] = NoLoc]
      /\ UNCHANGED <<memory, linked, wanted>>
  BY DEF HostLock, Return
<1>2. n \in linked /\ node[n].object = m /\ m \in Mutexes /\ held[t][m] < MaxDepth
  BY <1>0, <1>1 DEF PointersLive, NodeOf, UsesNode, PC, CallsTyped, HoldersInside
<1>3. /\ pc' \in [Threads -> PC] /\ loc' \in [Threads -> Locs]
      /\ \A u \in Threads : Moves(u)
  BY <1>0, <1>1 DEF TypeOK, Moves, PC, UsesNode, Locs, NoLoc, Loc
<1>4. Find(m) # {}
  BY <1>2 DEF Find
<1>5. CASE Acquire(t, n) /\ held' = [held EXCEPT ![t][m] = @ + 1]
  <2>1. /\ node' \in [Nodes -> NodeRecs] /\ OwnersAgree'
        /\ held' \in [Threads -> [Mutexes -> 0 .. MaxDepth]]
        /\ \A k \in Nodes : node'[k].object = node[k].object /\ node'[k].attr = node[k].attr
    BY <1>1, <1>2, <1>5, AcquireStep
  <2>2. \A u \in Threads, l \in Mutexes : held'[u][l] = held[u][l] \/ Find(l) # {}
    BY <1>0, <1>4, <1>5 DEF TypeOK
  <2>3. HoldersInside'
    BY <1>0, <1>1, <1>5 DEF TypeOK, HoldersInside
  <2> QED BY <1>1, <1>3, <2>1, <2>2, <2>3, MovesStep
<1>6. CASE UNCHANGED <<node, held>>
  <2>1. OwnersAgree'
    BY <1>0, <1>1, <1>6 DEF OwnersAgree, Find
  <2>2. HoldersInside'
    BY <1>0, <1>1, <1>6 DEF TypeOK, HoldersInside
  <2>3. node' \in [Nodes -> NodeRecs] /\ held' \in [Threads -> [Mutexes -> 0 .. MaxDepth]]
    BY <1>0, <1>6 DEF TypeOK
  <2> QED BY <1>1, <1>3, <1>6, <2>1, <2>2, <2>3, MovesStep
<1> QED BY <1>5, <1>6 DEF HostLock

\* See HostLockStep.
LEMMA HostUnlockStep ==
  ASSUME ObjectsInv, NEW t \in Threads, HostUnlock(t)
  PROVE  ObjectsInv'
<1> DEFINE n == loc[t].node
           m == loc[t].object
<1>0. /\ TypeOK /\ PointersLive /\ CallsTyped /\ OwnersAgree /\ HoldersInside
      /\ linked \subseteq Nodes
  BY DEF ObjectsInv, TypeOK
<1>1. pc[t] = "unlock" /\ pc' = [pc EXCEPT ![t] = "out"] /\ loc' = [loc EXCEPT ![t] = NoLoc]
      /\ UNCHANGED <<memory, linked, wanted>>
      /\ Release(n) /\ held' = [held EXCEPT ![t][m] = @ - 1]
  BY DEF HostUnlock, Return
<1>2. n \in linked /\ node[n].object = m /\ m \in Mutexes /\ held[t][m] > 0
  BY <1>0, <1>1 DEF PointersLive, NodeOf, UsesNode, PC, CallsTyped, HoldersInside
<1>3. /\ pc' \in [Threads -> PC] /\ loc' \in [Threads -> Locs]
      /\ \A u \in Threads : Moves(u)
  BY <1>0, <1>1 DEF TypeOK, Moves, PC, UsesNode, Locs, NoLoc, Loc
<1>4. Find(m) # {}
  BY <1>2 DEF Find
<1>5. /\ node' \in [Nodes -> NodeRecs] /\ OwnersAgree'
      /\ held' \in [Threads -> [Mutexes -> 0 .. MaxDepth]]
      /\ \A k \in Nodes : node'[k].object = node[k].object /\ node'[k].attr = node[k].attr
  BY <1>1, <1>2, ReleaseStep
<1>6. \A u \in Threads, l \in Mutexes : held'[u][l] = held[u][l] \/ Find(l) # {}
  BY <1>0, <1>1, <1>4 DEF TypeOK
<1>7. HoldersInside'
  BY <1>0, <1>1 DEF TypeOK, HoldersInside
<1> QED BY <1>1, <1>3, <1>5, <1>6, <1>7, MovesStep

\* See HostLockStep.
LEMMA HostWaitStep ==
  ASSUME ObjectsInv, NEW t \in Threads, HostWait(t)
  PROVE  ObjectsInv'
<1> DEFINE n == loc[t].mnode
           m == loc[t].mutex
<1>0. /\ TypeOK /\ PointersLive /\ CallsTyped /\ OwnersAgree /\ HoldersInside
      /\ linked \subseteq Nodes
  BY DEF ObjectsInv, TypeOK
<1>1. pc[t] = "wait" /\ pc' = [pc EXCEPT ![t] = "sleeping"] /\ loc' = loc
      /\ UNCHANGED <<memory, linked, wanted>>
      /\ Release(n) /\ held' = [held EXCEPT ![t][m] = @ - 1]
  BY DEF HostWait
<1>2. n \in linked /\ node[n].object = m /\ m \in Mutexes
      /\ held[t][m] = 1 /\ held[t][m] > 0
  BY <1>0, <1>1 DEF PointersLive, NodeOf, Waits, CallsTyped, HoldersInside
<1>3. /\ pc' \in [Threads -> PC] /\ loc' \in [Threads -> Locs]
      /\ \A u \in Threads : Moves(u)
  BY <1>0, <1>1 DEF TypeOK, Moves, PC, Waits
<1>4. Find(m) # {}
  BY <1>2 DEF Find
<1>5. /\ node' \in [Nodes -> NodeRecs] /\ OwnersAgree'
      /\ held' \in [Threads -> [Mutexes -> 0 .. MaxDepth]]
      /\ \A k \in Nodes : node'[k].object = node[k].object /\ node'[k].attr = node[k].attr
  BY <1>1, <1>2, ReleaseStep
<1>6. \A u \in Threads, l \in Mutexes : held'[u][l] = held[u][l] \/ Find(l) # {}
  BY <1>0, <1>1, <1>4 DEF TypeOK
<1>7. HoldersInside'
  <2>1. held'[t][m] = 0 /\ MaxDepth > 0
    BY <1>0, <1>1, <1>2, ObjectsAssumption DEF TypeOK
  <2>2. \A u \in Threads \ {t} : pc'[u] = pc[u] /\ held'[u] = held[u]
    BY <1>0, <1>1 DEF TypeOK
  <2>3. pc'[t] = "sleeping"
    BY <1>0, <1>1 DEF TypeOK
  <2> QED BY <1>0, <1>1, <2>1, <2>2, <2>3 DEF HoldersInside
<1> QED BY <1>1, <1>3, <1>5, <1>6, <1>7, MovesStep

\* See HostLockStep.
LEMMA RelockStep ==
  ASSUME ObjectsInv, NEW t \in Threads, Relock(t)
  PROVE  ObjectsInv'
<1> DEFINE n == loc[t].mnode
           m == loc[t].mutex
<1>0. /\ TypeOK /\ PointersLive /\ CallsTyped /\ OwnersAgree /\ HoldersInside
      /\ linked \subseteq Nodes
  BY DEF ObjectsInv, TypeOK
<1>1. pc[t] = "relock" /\ pc' = [pc EXCEPT ![t] = "out"] /\ loc' = [loc EXCEPT ![t] = NoLoc]
      /\ UNCHANGED <<memory, linked, wanted>>
      /\ Acquire(t, n) /\ held' = [held EXCEPT ![t][m] = @ + 1]
  BY DEF Relock, Return
<1>2. n \in linked /\ node[n].object = m /\ m \in Mutexes /\ held[t][m] < MaxDepth
  BY <1>0, <1>1 DEF PointersLive, NodeOf, Waits, CallsTyped, HoldersInside
<1>3. /\ pc' \in [Threads -> PC] /\ loc' \in [Threads -> Locs]
      /\ \A u \in Threads : Moves(u)
  BY <1>0, <1>1 DEF TypeOK, Moves, PC, UsesNode, Locs, NoLoc, Loc
<1>4. Find(m) # {}
  BY <1>2 DEF Find
<1>5. /\ node' \in [Nodes -> NodeRecs] /\ OwnersAgree'
      /\ held' \in [Threads -> [Mutexes -> 0 .. MaxDepth]]
      /\ \A k \in Nodes : node'[k].object = node[k].object /\ node'[k].attr = node[k].attr
  BY <1>1, <1>2, AcquireStep
<1>6. \A u \in Threads, l \in Mutexes : held'[u][l] = held[u][l] \/ Find(l) # {}
  BY <1>0, <1>1, <1>4 DEF TypeOK
<1>7. HoldersInside'
  BY <1>0, <1>1 DEF TypeOK, HoldersInside
<1> QED BY <1>1, <1>3, <1>5, <1>6, <1>7, MovesStep

\* Waiters are woken, by themselves, a signal or a broadcast.
LEMMA WakeStep ==
  ASSUME ObjectsInv, UNCHANGED <<memory, node, linked, held, wanted>>,
         pc' \in [Threads -> PC], loc' \in [Threads -> Locs],
         \A u \in Threads : \/ pc'[u] = pc[u] /\ loc'[u] = loc[u]
                            \/ pc[u] \in UsesNode /\ pc'[u] = "out" /\ loc'[u] = NoLoc
                            \/ pc[u] = "sleeping" /\ pc'[u] = "relock" /\ loc'[u] = loc[u]
  PROVE  ObjectsInv'
<1>0. TypeOK /\ OwnersAgree /\ HoldersInside
  BY DEF ObjectsInv
<1>1. OwnersAgree'
  BY <1>0 DEF OwnersAgree, Find
<1>2. HoldersInside'
  BY <1>0 DEF HoldersInside
<1>3. \A u \in Threads : Moves(u)
  BY DEF Moves, Waits
<1>4. node' \in [Nodes -> NodeRecs] /\ held' \in [Threads -> [Mutexes -> 0 .. MaxDepth]]
  BY <1>0 DEF TypeOK
<1> QED BY <1>1, <1>2, <1>3, <1>4, MovesStep

\* See WakeStep.
LEMMA RouseStep ==
  ASSUME ObjectsInv, NEW t \in Threads, WakeAlone(t) \/ HostSignal(t) \/ HostBroadcast(t)
  PROVE  ObjectsInv'
<1>0. TypeOK
  BY DEF ObjectsInv
<1>1. CASE WakeAlone(t)
  <2>1. /\ UNCHANGED <<memory, node, linked, held, wanted>>
        /\ pc' \in [Threads -> PC] /\ loc' \in [Threads -> Locs]
        /\ \A u \in Threads : \/ pc'[u] = pc[u] /\ loc'[u] = loc[u]
                              \/ pc[u] = "sleeping" /\ pc'[u] = "relock" /\ loc'[u] = loc[u]
    BY <1>0, <1>1 DEF WakeAlone, TypeOK, PC
  <2> QED BY <2>1, WakeStep
<1>2. ASSUME NEW chosen, chosen \subseteq Sleepers(loc[t].node), Rouse(t, chosen),
             pc[t] \in {"signal", "broadcast"}
      PROVE  ObjectsInv'
  <2>1. /\ UNCHANGED <<memory, node, linked, held, wanted>>
        /\ pc' \in [Threads -> PC] /\ loc' \in [Threads -> Locs]
        /\ \A u \in Threads : \/ pc'[u] = pc[u] /\ loc'[u] = loc[u]
                              \/ pc[u] \in UsesNode /\ pc'[u] = "out" /\ loc'[u] = NoLoc
                              \/ pc[u] = "sleeping" /\ pc'[u] = "relock" /\ loc'[u] = loc[u]
    BY <1>0, <1>2 DEF Rouse, Sleepers, TypeOK, PC, UsesNode, Locs, NoLoc, Loc
  <2> QED BY <2>1, WakeStep
<1> QED BY <1>1, <1>2 DEF HostSignal, HostBroadcast

-----------------------------------------------------------------------------
\* What Get leaves: the object's node, found or new, and every other node and
\* every user of one as they were.
LEMMA GetEffect ==
  ASSUME ObjectsInv, NEW o \in Objects, NEW n \in Nodes, Usable(o), Get(n, o),
         UNCHANGED <<memory, held, wanted>>
  PROVE  /\ node' \in [Nodes -> NodeRecs] /\ linked' = linked \cup {n}
         /\ node'[n].object = o /\ node'[n].attr = HostAttr(o, wanted[o])
         /\ \A k \in linked : node'[k] = node[k]
         /\ \A k \in Nodes : node[k].object \in Objects => node'[k] = node[k]
         /\ n \in linked => node' = node
         /\ n \notin linked => /\ Find(o) = {} /\ node'[n].owner = NoThread
                               /\ node'[n].depth = 0 /\ node[n].object = NoObject
                               /\ \A k \in Nodes \ {n} : node'[k] = node[k]
<1>0. TypeOK /\ OwnersAgree /\ AttrsKept /\ WordsKept /\ linked \subseteq Nodes
  BY DEF ObjectsInv, TypeOK
<1>1. CASE n \in Find(o) /\ UNCHANGED <<node, linked>>
  BY <1>0, <1>1 DEF Find, AttrsKept, TypeOK
<1>2. CASE Find(o) = {} /\ CreateStatic(n, o)
  <2> DEFINE a == IF o \in Mutexes THEN HostMutexType(AndroidMutexType(memory[o])) ELSE 0
  <2>1. /\ node[n] = Blank /\ node' = [node EXCEPT ![n] = NewNode(o, a)]
        /\ linked' = linked \cup {n}
    BY <1>2 DEF CreateStatic, Create
  <2>2. a = HostAttr(o, wanted[o])
    BY <1>0, <1>2 DEF WordsKept, HostAttr, Objects
  <2>3. a \in 0 .. 2 /\ node[n].object = NoObject
    BY <1>0, <2>1, <2>2, WordFacts, NodeFacts DEF TypeOK
  <2>4. NewNode(o, a) \in NodeRecs
    BY <2>3, NodeFacts
  <2>5. n \notin linked /\ node[n].object \notin Objects
    BY <1>0, <2>3, NodeFacts DEF OwnersAgree
  <2>6. node'[n] = NewNode(o, a) /\ \A k \in Nodes \ {n} : node'[k] = node[k]
    BY <1>0, <2>1 DEF TypeOK
  <2>7. /\ node'[n].object = o /\ node'[n].attr = a /\ node'[n].owner = NoThread
        /\ node'[n].depth = 0
    BY <2>6 DEF NewNode
  <2>8. node' \in [Nodes -> NodeRecs]
    BY <1>0, <2>1, <2>4 DEF TypeOK
  <2> HIDE DEF a
  <2> QED BY <1>0, <1>2, <2>1, <2>2, <2>3, <2>5, <2>6, <2>7, <2>8
<1> QED BY <1>1, <1>2 DEF Get

\* A call begins: the thread has its object's node.
LEMMA CallStep ==
  ASSUME ObjectsInv, NEW t \in Threads, NEW o \in Objects, NEW to \in UsesNode \ Waits,
         Call(t, to, o),
         to \in {"lock", "unlock"} => o \in Mutexes,
         to \in {"wait_mutex", "signal", "broadcast"} => o \in Conds,
         to = "lock" => held[t][o] < MaxDepth,
         to = "unlock" => held[t][o] > 0
  PROVE  ObjectsInv'
<1>0. /\ TypeOK /\ OneNode /\ PointersLive /\ CallsTyped /\ MakersAlone /\ OwnersAgree
      /\ HoldersInside /\ AttrsKept /\ WordsKept /\ linked \subseteq Nodes
  BY DEF ObjectsInv, TypeOK
<1>1. PICK n \in Nodes :
        /\ pc[t] = "out" /\ Usable(o) /\ Get(n, o) /\ pc' = [pc EXCEPT ![t] = to]
        /\ loc' = [loc EXCEPT ![t] = Loc(o, n, 0)]
        /\ UNCHANGED <<memory, held, wanted>>
  BY DEF Call
<1>2. /\ node' \in [Nodes -> NodeRecs] /\ linked' = linked \cup {n}
      /\ node'[n].object = o /\ node'[n].attr = HostAttr(o, wanted[o])
      /\ \A k \in linked : node'[k] = node[k]
      /\ \A k \in Nodes : node[k].object \in Objects => node'[k] = node[k]
      /\ n \in linked => node' = node
      /\ n \notin linked => /\ Find(o) = {} /\ node'[n].owner = NoThread
                            /\ node'[n].depth = 0 /\ node[n].object = NoObject
                            /\ \A k \in Nodes \ {n} : node'[k] = node[k]
  BY <1>1, GetEffect
<1>3. /\ pc'[t] = to /\ \A u \in Threads \ {t} : pc'[u] = pc[u] /\ loc'[u] = loc[u]
      /\ loc'[t].object = o /\ loc'[t].node = n /\ loc'[t].mutex = NoObject
      /\ pc' \in [Threads -> PC] /\ loc' \in [Threads -> Locs]
  <2>1. /\ Loc(o, n, 0).object = o /\ Loc(o, n, 0).node = n
        /\ Loc(o, n, 0).mutex = NoObject /\ Loc(o, n, 0) \in Locs
    BY DEF Locs, Loc
  <2> QED BY <1>0, <1>1, <2>1 DEF TypeOK, UsesNode
<1>4. TypeOK'
  BY <1>0, <1>1, <1>2, <1>3 DEF TypeOK
<1>5. OneNode'
  BY <1>0, <1>2 DEF OneNode, Find
<1>6. PointersLive'
  BY <1>0, <1>2, <1>3 DEF PointersLive, NodeOf
<1>7. CallsTyped'
  <2>1. to \notin Waits /\ to \notin {"out", "init", "destroy"}
    BY DEF UsesNode
  <2> QED BY <1>0, <1>3, <2>1 DEF CallsTyped
<1>8. ASSUME NEW u \in Threads, pc'[u] \in {"init", "destroy"}
      PROVE  /\ u # t /\ pc[u] = pc'[u] /\ loc'[u] = loc[u] /\ loc[u].object # o
             /\ loc[u].object \in Objects /\ u \in InCall(loc[u].object)
  <2>1. u # t /\ pc[u] = pc'[u] /\ loc'[u] = loc[u]
    BY <1>3, <1>8 DEF UsesNode
  <2>2. loc[u].object \in Objects /\ u \in InCall(loc[u].object)
    BY <1>0, <1>8, <2>1 DEF CallsTyped, InCall
  <2> QED BY <1>1, <1>8, <2>1, <2>2 DEF Usable
<1>9. MakersAlone'
  <2> SUFFICES ASSUME NEW u \in Threads, pc'[u] \in {"init", "destroy"}
               PROVE  LET q == loc'[u].object k == loc'[u].node IN
                      /\ InCall(loc[u].object)' = {u} /\ Find(loc[u].object)' = {}
                      /\ q \in Mutexes => \A v \in Threads : held'[v][q] = 0
                      /\ k # NoNode => k \notin linked' /\ node'[k].object = q
    BY DEF MakersAlone
  <2> DEFINE q == loc[u].object
             k == loc[u].node
  <2>1. /\ u # t /\ pc[u] = pc'[u] /\ loc'[u] = loc[u] /\ q # o /\ q \in Objects
    BY <1>8
  <2>2. /\ InCall(q) = {u} /\ Find(q) = {}
        /\ q \in Mutexes => \A v \in Threads : held[v][q] = 0
        /\ k # NoNode => k \notin linked /\ node[k].object = q
        /\ k \in Nodes \cup {NoNode}
    BY <1>0, <2>1 DEF MakersAlone, TypeOK, Locs
  <2>3. InCall(loc[u].object)' = {u}
    BY <1>0, <1>1, <1>3, <2>1, <2>2, NodeFacts DEF InCall
  <2>4. Find(loc[u].object)' = {}
    BY <1>0, <1>2, <2>1, <2>2 DEF Find
  <2>5. k # NoNode => k \notin linked' /\ node'[k].object = q
    BY <1>2, <2>1, <2>2
  <2> QED BY <1>1, <2>1, <2>2, <2>3, <2>4, <2>5
<1>10. OwnersAgree'
  <2>1. \A m \in Mutexes : Find(m)' = {} => \A u \in Threads : held'[u][m] = 0
    BY <1>0, <1>1, <1>2 DEF OwnersAgree, Find
  <2>2. ASSUME NEW k \in linked
        PROVE  /\ node'[k].object \in Objects
               /\ node'[k].object \in Mutexes => \A u \in Threads :
                    held'[u][node'[k].object] =
                      IF node'[k].owner = u THEN node'[k].depth ELSE 0
               /\ node'[k].owner = NoThread <=> node'[k].depth = 0
    BY <1>0, <1>1, <1>2 DEF OwnersAgree
  <2>3. n \notin linked => \A u \in Threads : o \in Mutexes => held'[u][o] = 0
    BY <1>0, <1>1, <1>2 DEF OwnersAgree
  <2>4. n \notin linked =>
          /\ node'[n].object \in Objects
          /\ node'[n].object \in Mutexes => \A u \in Threads :
               held'[u][node'[n].object] = IF node'[n].owner = u THEN node'[n].depth ELSE 0
          /\ node'[n].owner = NoThread <=> node'[n].depth = 0
    BY <1>2, <2>3
  <2> QED BY <1>2, <2>1, <2>2, <2>4 DEF OwnersAgree
<1>11. HoldersInside'
  BY <1>0, <1>1, <1>3 DEF HoldersInside, UsesNode, Waits
<1>12. AttrsKept'
  BY <1>0, <1>1, <1>2 DEF AttrsKept
<1>13. \A c \in Conds : Usable(c)' => Usable(c)
  BY <1>1, <1>3 DEF Usable, InCall
<1>14. WordsKept'
  <2>1. \A c \in Conds : Find(c)' = {} => Find(c) = {}
    BY <1>2 DEF Find
  <2> QED BY <1>0, <1>1, <1>13, <2>1 DEF WordsKept
<1> QED BY <1>4, <1>5, <1>6, <1>7, <1>9, <1>10, <1>11, <1>12, <1>14 DEF ObjectsInv

\* A waiter has its mutex's node too: it holds the mutex, so there is one.
LEMMA CondWaitMutexStep ==
  ASSUME ObjectsInv, NEW t \in Threads, CondWaitMutex(t)
  PROVE  ObjectsInv'
<1>0. /\ TypeOK /\ OneNode /\ PointersLive /\ CallsTyped /\ MakersAlone /\ OwnersAgree
      /\ HoldersInside /\ AttrsKept /\ WordsKept /\ linked \subseteq Nodes
  BY DEF ObjectsInv, TypeOK
<1>1. PICK m \in Mutexes, n \in Nodes :
        /\ held[t][m] = 1 /\ pc[t] = "wait_mutex" /\ Get(n, m)
        /\ pc' = [pc EXCEPT ![t] = "wait"]
        /\ loc' = [loc EXCEPT ![t].mutex = m, ![t].mnode = n]
        /\ UNCHANGED <<memory, held, wanted>>
  BY DEF CondWaitMutex
<1>2. n \in Find(m) /\ UNCHANGED <<node, linked>>
  <2>1. Find(m) # {}
    BY <1>0, <1>1 DEF OwnersAgree
  <2> QED BY <1>1, <2>1 DEF Get
<1>3. /\ pc'[t] = "wait" /\ \A u \in Threads \ {t} : pc'[u] = pc[u] /\ loc'[u] = loc[u]
      /\ loc'[t].object = loc[t].object /\ loc'[t].node = loc[t].node
      /\ loc'[t].mutex = m /\ loc'[t].mnode = n
      /\ pc' \in [Threads -> PC] /\ loc' \in [Threads -> Locs]
  <2>1. pc'[t] = "wait" /\ \A u \in Threads \ {t} : pc'[u] = pc[u] /\ loc'[u] = loc[u]
    BY <1>0, <1>1 DEF TypeOK
  <2>2. /\ loc'[t].object = loc[t].object /\ loc'[t].node = loc[t].node
        /\ loc'[t].mutex = m /\ loc'[t].mnode = n
    BY <1>0, <1>1 DEF TypeOK, Locs
  <2>3. pc' \in [Threads -> PC]
    BY <1>0, <1>1 DEF TypeOK, PC
  <2>4. loc' \in [Threads -> Locs]
    <3> DEFINE half == [loc EXCEPT ![t].mutex = m]
    <3>1. half \in [Threads -> Locs]
      BY <1>0 DEF TypeOK, Locs
    <3>2. loc' = [half EXCEPT ![t].mnode = n]
      BY <1>0, <1>1 DEF TypeOK
    <3> HIDE DEF half
    <3> QED BY <3>1, <3>2 DEF Locs
  <2> QED BY <2>1, <2>2, <2>3, <2>4
<1>4. TypeOK'
  BY <1>0, <1>1, <1>2, <1>3 DEF TypeOK
<1>5. OneNode' /\ OwnersAgree' /\ AttrsKept'
  BY <1>0, <1>1, <1>2 DEF OneNode, OwnersAgree, AttrsKept, Find
<1>6. PointersLive'
  BY <1>0, <1>1, <1>2, <1>3 DEF PointersLive, NodeOf, UsesNode, PC, Find
<1>7. CallsTyped'
  BY <1>0, <1>1, <1>3 DEF CallsTyped, Waits
<1>8. HoldersInside'
  BY <1>0, <1>1, <1>3 DEF HoldersInside
<1>9. MakersAlone'
  <2> SUFFICES ASSUME NEW u \in Threads, pc'[u] \in {"init", "destroy"}
               PROVE  LET q == loc'[u].object k == loc'[u].node IN
                      /\ InCall(loc[u].object)' = {u} /\ Find(loc[u].object)' = {}
                      /\ q \in Mutexes => \A v \in Threads : held'[v][q] = 0
                      /\ k # NoNode => k \notin linked' /\ node'[k].object = q
    BY DEF MakersAlone
  <2> DEFINE q == loc[u].object
             k == loc[u].node
  <2>1. u # t /\ pc[u] = pc'[u] /\ loc'[u] = loc[u]
    BY <1>3
  <2>2. /\ InCall(q) = {u} /\ Find(q) = {}
        /\ q \in Mutexes => \A v \in Threads : held[v][q] = 0
        /\ k # NoNode => k \notin linked /\ node[k].object = q
    BY <1>0, <2>1 DEF MakersAlone
  <2>3. q # m
    BY <1>1, <2>2
  <2>4. InCall(loc[u].object)' = {u}
    BY <1>0, <1>1, <1>3, <2>1, <2>2, <2>3 DEF InCall
  <2>5. Find(loc[u].object)' = {}
    BY <1>2, <2>1, <2>2 DEF Find
  <2>6. k # NoNode => k \notin linked' /\ node'[k].object = q
    BY <1>2, <2>2
  <2> QED BY <1>1, <2>1, <2>2, <2>4, <2>5, <2>6
<1>10. WordsKept'
  <2>1. \A c \in Conds : Usable(c)' => Usable(c)
    BY <1>1, <1>3 DEF Usable, InCall
  <2>2. \A c \in Conds : Find(c)' = {} => Find(c) = {}
    BY <1>2 DEF Find
  <2> QED BY <1>0, <1>1, <2>1, <2>2 DEF WordsKept
<1> QED BY <1>4, <1>5, <1>6, <1>7, <1>8, <1>9, <1>10 DEF ObjectsInv

\* A thread takes the node of an object, which nobody uses, out of the list.
LEMMA TakeStep ==
  ASSUME ObjectsInv, NEW t \in Threads, NEW o \in Objects, NEW to \in {"init", "destroy"},
         NEW a \in 0 .. 2, Take(t, to, o, a)
  PROVE  ObjectsInv'
<1>0. /\ TypeOK /\ OneNode /\ PointersLive /\ CallsTyped /\ MakersAlone /\ OwnersAgree
      /\ HoldersInside /\ AttrsKept /\ WordsKept /\ linked \subseteq Nodes
  BY DEF ObjectsInv, TypeOK
<1>1. PICK n \in Nodes \cup {NoNode} :
        /\ pc[t] = "out" /\ Quiet(o) /\ Remove(n, o) /\ pc' = [pc EXCEPT ![t] = to]
        /\ loc' = [loc EXCEPT ![t] = Loc(o, n, a)]
        /\ UNCHANGED <<memory, node, held, wanted>>
  BY DEF Take
<1>2. /\ linked' = linked \ {n} /\ Find(o) \subseteq {n}
      /\ n # NoNode => n \in linked /\ node[n].object = o
  BY <1>0, <1>1 DEF Remove, OneNode, Find
<1>3. InCall(o) = {} /\ (o \in Mutexes => \A u \in Threads : held[u][o] = 0)
  BY <1>1 DEF Quiet
<1>4. /\ pc'[t] = to /\ \A u \in Threads \ {t} : pc'[u] = pc[u] /\ loc'[u] = loc[u]
      /\ loc'[t].object = o /\ loc'[t].node = n /\ loc'[t].mutex = NoObject
      /\ pc' \in [Threads -> PC] /\ loc' \in [Threads -> Locs]
  <2>1. /\ Loc(o, n, a).object = o /\ Loc(o, n, a).node = n
        /\ Loc(o, n, a).mutex = NoObject /\ Loc(o, n, a) \in Locs
    BY DEF Locs, Loc
  <2> QED BY <1>0, <1>1, <2>1 DEF TypeOK, PC
<1>5. TypeOK'
  BY <1>0, <1>1, <1>2, <1>4 DEF TypeOK
<1>6. \A q \in Objects \ {o} : Find(q)' = Find(q)
  BY <1>0, <1>1, <1>2, ObjectsAssumption DEF Find
<1>7. Find(o)' = {}
  BY <1>1, <1>2 DEF Find
<1>8. OneNode'
  BY <1>0, <1>6, <1>7 DEF OneNode
<1>9. PointersLive'
  <2> SUFFICES ASSUME NEW u \in Threads \ {t}
               PROVE  /\ pc[u] \in UsesNode => NodeOf(loc[u].node, loc[u].object)'
                      /\ pc[u] \in Waits => NodeOf(loc[u].mnode, loc[u].mutex)'
    BY <1>4 DEF PointersLive, UsesNode, Waits
  <2>1. pc'[u] = pc[u] /\ loc'[u] = loc[u]
    BY <1>4
  <2>2. pc[u] \in UsesNode => loc[u].node \in linked /\ node[loc[u].node].object = loc[u].object
    BY <1>0 DEF PointersLive, NodeOf
  <2>3. pc[u] \in Waits => loc[u].mnode \in linked /\ node[loc[u].mnode].object = loc[u].mutex
    BY <1>0 DEF PointersLive, NodeOf
  <2>4. pc[u] # "out" => loc[u].object # o /\ loc[u].mutex # o
    BY <1>3 DEF InCall
  <2>5. pc[u] \in UsesNode => loc[u].node # n
    BY <1>0, <1>2, <2>2, <2>4, ObjectsAssumption DEF UsesNode
  <2>6. pc[u] \in Waits => loc[u].mnode # n
    BY <1>0, <1>2, <2>3, <2>4, ObjectsAssumption DEF Waits
  <2> QED BY <1>1, <1>2, <2>1, <2>2, <2>3, <2>5, <2>6 DEF NodeOf
<1>10. CallsTyped'
  BY <1>0, <1>4 DEF CallsTyped, Waits
<1>11. HoldersInside'
  BY <1>0, <1>1, <1>4 DEF HoldersInside
<1>12. MakersAlone'
  <2> SUFFICES ASSUME NEW u \in Threads, pc'[u] \in {"init", "destroy"}
               PROVE  LET q == loc'[u].object k == loc'[u].node IN
                      /\ InCall(loc[u].object)' = {u} /\ Find(loc[u].object)' = {}
                      /\ q \in Mutexes => \A v \in Threads : held'[v][q] = 0
                      /\ k # NoNode => k \notin linked' /\ node'[k].object = q
    BY DEF MakersAlone
  <2>1. CASE u = t
    <3>1. InCall(loc[u].object)' = {u}
      BY <1>3, <1>4, <2>1 DEF InCall
    <3>2. Find(loc[u].object)' = {}
      BY <1>4, <1>7, <2>1 DEF Find
    <3> QED BY <1>1, <1>2, <1>3, <1>4, <2>1, <3>1, <3>2
  <2>2. CASE u # t
    <3> DEFINE q == loc[u].object
               k == loc[u].node
    <3>1. pc[u] = pc'[u] /\ loc'[u] = loc[u]
      BY <1>4, <2>2
    <3>2. /\ InCall(q) = {u} /\ Find(q) = {} /\ q \in Objects
          /\ q \in Mutexes => \A v \in Threads : held[v][q] = 0
          /\ k # NoNode => k \notin linked /\ node[k].object = q
      BY <1>0, <3>1 DEF MakersAlone, CallsTyped
    <3>3. q # o
      BY <1>3, <3>2
    <3>4. InCall(loc[u].object)' = {u}
      BY <1>1, <1>4, <3>1, <3>2, <3>3, NodeFacts DEF InCall
    <3>5. Find(loc[u].object)' = {}
      BY <1>1, <1>2, <3>1, <3>2 DEF Find
    <3> QED BY <1>1, <1>2, <3>1, <3>2, <3>4, <3>5
  <2> QED BY <2>1, <2>2
<1>13. OwnersAgree'
  <2>1. \A m \in Mutexes : Find(m)' = {} => \A u \in Threads : held'[u][m] = 0
    BY <1>0, <1>1, <1>3, <1>6 DEF OwnersAgree, Objects
  <2> QED BY <1>0, <1>1, <1>2, <2>1 DEF OwnersAgree
<1>14. AttrsKept'
  BY <1>0, <1>1, <1>2 DEF AttrsKept
<1>15. WordsKept'
  <2>1. \A c \in Conds : Usable(c)' => Usable(c) /\ c # o
    BY <1>1, <1>4 DEF Usable, InCall
  <2>2. \A c \in Conds : c # o => Find(c)' = Find(c)
    BY <1>6 DEF Objects
  <2> QED BY <1>0, <1>1, <2>1, <2>2 DEF WordsKept
<1> QED BY <1>5, <1>8, <1>9, <1>10, <1>11, <1>12, <1>13, <1>14, <1>15 DEF ObjectsInv

\* An object that has no node and no user is made anew: its word says its type,
\* it has a new node or none, and its maker, if there was one, leaves its call.
LEMMA MakeStep ==
  ASSUME ObjectsInv, NEW o \in Objects, Find(o) = {}, UNCHANGED held,
         o \in Mutexes => \A u \in Threads : held[u][o] = 0,
         node' \in [Nodes -> NodeRecs], linked' \subseteq Nodes, linked \subseteq linked',
         \A k, j \in linked' \ linked : k = j,
         \A k \in linked' \ linked :
           /\ node'[k].object = o /\ node'[k].attr = HostAttr(o, wanted'[o])
           /\ node'[k].owner = NoThread /\ node'[k].depth = 0,
         \A k \in Nodes : node[k].object \in Objects \ {o} => node'[k] = node[k],
         memory' \in [Objects -> {TypeWord(a) : a \in 0 .. 2}],
         wanted' \in [Objects -> 0 .. 2],
         \A q \in Objects \ {o} : memory'[q] = memory[q] /\ wanted'[q] = wanted[q],
         o \in Mutexes => AndroidMutexType(memory'[o]) = wanted'[o],
         o \in Conds /\ linked' = linked => wanted'[o] = 0,
         pc' \in [Threads -> PC], loc' \in [Threads -> Locs],
         \A u \in Threads :
           \/ /\ pc'[u] = pc[u] /\ loc'[u] = loc[u]
              /\ pc[u] # "out" => loc[u].object # o /\ loc[u].mutex # o
           \/ /\ pc'[u] = "out" /\ loc'[u] = NoLoc
              /\ pc[u] \in {"init", "destroy"} /\ loc[u].object = o
  PROVE  ObjectsInv'
<1>0. /\ TypeOK /\ OneNode /\ PointersLive /\ CallsTyped /\ MakersAlone /\ OwnersAgree
      /\ HoldersInside /\ AttrsKept /\ WordsKept /\ linked \subseteq Nodes
  BY DEF ObjectsInv, TypeOK
<1>1. \A k \in linked : node'[k] = node[k] /\ node[k].object \in Objects \ {o}
  BY <1>0 DEF OwnersAgree, Find
<1>2. TypeOK'
  BY <1>0 DEF TypeOK
<1>3. \A q \in Objects \ {o} : Find(q)' = Find(q)
  BY <1>1 DEF Find
<1>4. Find(o)' = linked' \ linked
  BY <1>1 DEF Find
<1>5. OneNode'
  BY <1>0, <1>3, <1>4 DEF OneNode
<1>6. PointersLive'
  BY <1>0, <1>1 DEF PointersLive, NodeOf, UsesNode, Waits
<1>7. CallsTyped'
  BY <1>0, ObjectsAssumption DEF CallsTyped, Waits, NoLoc, Loc
<1>8. HoldersInside'
  BY <1>0 DEF HoldersInside
<1>9. MakersAlone'
  <2> SUFFICES ASSUME NEW u \in Threads, pc'[u] \in {"init", "destroy"}
               PROVE  LET q == loc'[u].object k == loc'[u].node IN
                      /\ InCall(loc[u].object)' = {u} /\ Find(loc[u].object)' = {}
                      /\ q \in Mutexes => \A v \in Threads : held'[v][q] = 0
                      /\ k # NoNode => k \notin linked' /\ node'[k].object = q
    BY DEF MakersAlone
  <2> DEFINE q == loc[u].object
             k == loc[u].node
  <2>1. pc[u] = pc'[u] /\ loc'[u] = loc[u] /\ q # o
    OBVIOUS
  <2>2. /\ InCall(q) = {u} /\ Find(q) = {} /\ q \in Objects
        /\ q \in Mutexes => \A v \in Threads : held[v][q] = 0
        /\ k # NoNode => k \notin linked /\ node[k].object = q
        /\ k \in Nodes \cup {NoNode}
    BY <1>0, <2>1 DEF MakersAlone, CallsTyped, TypeOK, Locs
  <2>3. InCall(loc[u].object)' = {u}
    BY <2>1, <2>2 DEF InCall
  <2>4. Find(loc[u].object)' = {}
    BY <1>1, <2>1, <2>2 DEF Find
  <2>5. k # NoNode => k \notin linked' /\ node'[k].object = q
    BY <2>1, <2>2
  <2> QED BY <2>1, <2>2, <2>3, <2>4, <2>5
<1>10. OwnersAgree'
  <2>1. \A m \in Mutexes : Find(m)' = {} => \A u \in Threads : held'[u][m] = 0
    BY <1>0, <1>3 DEF OwnersAgree, Objects
  <2>2. ASSUME NEW k \in linked'
        PROVE  /\ node'[k].object \in Objects
               /\ node'[k].object \in Mutexes => \A u \in Threads :
                    held'[u][node'[k].object] =
                      IF node'[k].owner = u THEN node'[k].depth ELSE 0
               /\ node'[k].owner = NoThread <=> node'[k].depth = 0
    <3>1. CASE k \in linked
      BY <1>0, <1>1, <3>1 DEF OwnersAgree
    <3>2. CASE k \notin linked
      BY <3>2
    <3> QED BY <3>1, <3>2
  <2> QED BY <2>1, <2>2 DEF OwnersAgree
<1>11. AttrsKept'
  BY <1>0, <1>1 DEF AttrsKept
<1>12. WordsKept'
  <2>1. \A m \in Mutexes : AndroidMutexType(memory'[m]) = wanted'[m]
    BY <1>0 DEF WordsKept, Objects
  <2>2. \A c \in Conds \ {o} : Usable(c)' => Usable(c)
    <3>1. \A u \in Threads : pc[u] \in {"init", "destroy"} => loc[u].mutex = NoObject
      BY <1>0 DEF CallsTyped, Waits
    <3> QED BY <3>1, NodeFacts DEF Usable, InCall, Objects
  <2>3. \A c \in Conds \ {o} : Find(c)' = {} /\ Usable(c)' => wanted'[c] = 0
    BY <1>0, <1>3, <2>2 DEF WordsKept, Objects
  <2>4. o \in Conds /\ Find(o)' = {} => wanted'[o] = 0
    BY <1>4
  <2> QED BY <2>1, <2>3, <2>4 DEF WordsKept
<1> QED BY <1>2, <1>5, <1>6, <1>7, <1>8, <1>9, <1>10, <1>11, <1>12 DEF ObjectsInv

\* What a maker knows when it returns: it is alone on its object, which has no
\* node in the list; the block it took is the object's.
LEMMA MakerFacts ==
  ASSUME ObjectsInv, NEW t \in Threads, NEW from \in {"init", "destroy"}, Return(t, from)
  PROVE  /\ loc[t].object \in Objects /\ Find(loc[t].object) = {}
         /\ loc[t].attr \in 0 .. 2 /\ loc[t].node \notin linked
         /\ loc[t].node \in Nodes => node[loc[t].node].object = loc[t].object
         /\ loc[t].object \in Mutexes => \A u \in Threads : held[u][loc[t].object] = 0
         /\ pc' \in [Threads -> PC] /\ loc' \in [Threads -> Locs]
         /\ \A u \in Threads :
              \/ /\ pc'[u] = pc[u] /\ loc'[u] = loc[u]
                 /\ pc[u] # "out" => loc[u].object # loc[t].object /\ loc[u].mutex # loc[t].object
              \/ /\ pc'[u] = "out" /\ loc'[u] = NoLoc
                 /\ pc[u] \in {"init", "destroy"} /\ loc[u].object = loc[t].object
<1>0. TypeOK /\ CallsTyped /\ MakersAlone /\ linked \subseteq Nodes
  BY DEF ObjectsInv, TypeOK
<1>1. /\ pc[t] = from /\ pc' = [pc EXCEPT ![t] = "out"] /\ loc' = [loc EXCEPT ![t] = NoLoc]
  BY DEF Return
<1>2. /\ loc[t].object \in Objects /\ Find(loc[t].object) = {} /\ InCall(loc[t].object) = {t}
      /\ loc[t].node # NoNode => /\ loc[t].node \notin linked
                                 /\ node[loc[t].node].object = loc[t].object
      /\ loc[t].object \in Mutexes => \A u \in Threads : held[u][loc[t].object] = 0
  BY <1>0, <1>1 DEF CallsTyped, MakersAlone
<1>3. loc[t].node \notin linked /\ (loc[t].node \in Nodes => loc[t].node # NoNode)
  BY <1>0, <1>2, ObjectsAssumption
<1>4. loc[t].attr \in 0 .. 2
  BY <1>0 DEF TypeOK, Locs
<1>5. pc' \in [Threads -> PC] /\ loc' \in [Threads -> Locs]
  BY <1>0, <1>1 DEF TypeOK, PC, Locs, NoLoc, Loc
<1>6. pc'[t] = "out" /\ loc'[t] = NoLoc
      /\ \A u \in Threads \ {t} : pc'[u] = pc[u] /\ loc'[u] = loc[u]
  BY <1>0, <1>1 DEF TypeOK
<1>7. \A u \in Threads \ {t} :
        pc[u] # "out" => loc[u].object # loc[t].object /\ loc[u].mutex # loc[t].object
  BY <1>2 DEF InCall
<1> QED BY <1>1, <1>2, <1>3, <1>4, <1>5, <1>6, <1>7

\* A word and an attribute, written at one address.
LEMMA WordStep ==
  ASSUME TypeOK, NEW o \in Objects, NEW a \in 0 .. 2,
         memory' = [memory EXCEPT ![o] = Word(o, a)], wanted' = [wanted EXCEPT ![o] = a]
  PROVE  /\ memory' \in [Objects -> {TypeWord(b) : b \in 0 .. 2}]
         /\ wanted' \in [Objects -> 0 .. 2] /\ wanted'[o] = a
         /\ \A q \in Objects \ {o} : memory'[q] = memory[q] /\ wanted'[q] = wanted[q]
         /\ o \in Mutexes => AndroidMutexType(memory'[o]) = wanted'[o]
<1>1. Word(o, a) \in {TypeWord(b) : b \in 0 .. 2}
  BY WordFacts
<1>2. o \in Mutexes => AndroidMutexType(Word(o, a)) = a
  BY WordFacts DEF Word
<1>3. memory'[o] = Word(o, a) /\ wanted'[o] = a
  BY DEF TypeOK
<1> HIDE DEF Word
<1> QED BY <1>1, <1>2, <1>3 DEF TypeOK

\* The end of an init: the node that was taken is freed, and one is made.
LEMMA InitCreateStep ==
  ASSUME ObjectsInv, NEW t \in Threads, InitCreate(t)
  PROVE  ObjectsInv'
<1> DEFINE o == loc[t].object
           old == loc[t].node
<1>0. TypeOK /\ OwnersAgree /\ linked \subseteq Nodes
  BY DEF ObjectsInv, TypeOK
<1>1. PICK n \in Nodes :
        /\ Return(t, "init") /\ Freed(old)[n] = Blank
        /\ node' = [Freed(old) EXCEPT ![n] = NewNode(o, HostAttr(o, loc[t].attr))]
        /\ linked' = linked \cup {n}
        /\ memory' = [memory EXCEPT ![o] = Word(o, loc[t].attr)]
        /\ wanted' = [wanted EXCEPT ![o] = loc[t].attr]
        /\ UNCHANGED held
  BY DEF InitCreate
<1> DEFINE a == loc[t].attr
           new == NewNode(o, HostAttr(o, a))
<1>2. /\ o \in Objects /\ Find(o) = {} /\ a \in 0 .. 2 /\ old \notin linked
      /\ old \in Nodes => node[old].object = o
      /\ o \in Mutexes => \A u \in Threads : held[u][o] = 0
      /\ pc' \in [Threads -> PC] /\ loc' \in [Threads -> Locs]
      /\ \A u \in Threads :
           \/ /\ pc'[u] = pc[u] /\ loc'[u] = loc[u]
              /\ pc[u] # "out" => loc[u].object # o /\ loc[u].mutex # o
           \/ /\ pc'[u] = "out" /\ loc'[u] = NoLoc
              /\ pc[u] \in {"init", "destroy"} /\ loc[u].object = o
  BY <1>1, MakerFacts
<1> HIDE DEF o, old, a
<1>3. /\ memory' \in [Objects -> {TypeWord(b) : b \in 0 .. 2}]
      /\ wanted' \in [Objects -> 0 .. 2] /\ wanted'[o] = a
      /\ \A q \in Objects \ {o} : memory'[q] = memory[q] /\ wanted'[q] = wanted[q]
      /\ o \in Mutexes => AndroidMutexType(memory'[o]) = wanted'[o]
  BY <1>0, <1>1, <1>2, WordStep DEF a
<1>4. new \in NodeRecs /\ new.object = o /\ new.attr = HostAttr(o, a)
      /\ new.owner = NoThread /\ new.depth = 0
  <2>1. HostAttr(o, a) \in 0 .. 2
    BY <1>2, WordFacts
  <2> QED BY <1>2, <2>1, NodeFacts DEF NewNode
<1> HIDE DEF new
<1>5. /\ node'[n] = new /\ \A k \in Nodes \ {n, old} : node'[k] = node[k]
      /\ node' \in [Nodes -> NodeRecs]
  BY <1>0, <1>1, <1>4, NodeFacts DEF TypeOK, Freed, new, a
<1>6. n = old \/ node[n] = Blank
  BY <1>1 DEF Freed
<1>7. n \notin linked /\ node[n].object \notin Objects \ {o}
  BY <1>0, <1>2, <1>6, NodeFacts DEF OwnersAgree
<1>8. \A k \in Nodes : node[k].object \in Objects \ {o} => node'[k] = node[k]
  BY <1>2, <1>5, <1>7
<1>9. /\ linked' \subseteq Nodes /\ linked \subseteq linked' /\ linked' # linked
      /\ \A k, j \in linked' \ linked : k = j
      /\ \A k \in linked' \ linked :
           /\ node'[k].object = o /\ node'[k].attr = HostAttr(o, wanted'[o])
           /\ node'[k].owner = NoThread /\ node'[k].depth = 0
  BY <1>0, <1>1, <1>3, <1>4, <1>5, <1>7
<1> QED BY <1>1, <1>2, <1>3, <1>5, <1>8, <1>9, MakeStep

\* The end of an init without memory, and of a destroy: the node is freed.
LEMMA DiscardStep ==
  ASSUME ObjectsInv, NEW t \in Threads, InitNoMemory(t) \/ DestroyFree(t)
  PROVE  ObjectsInv'
<1> DEFINE o == loc[t].object
           old == loc[t].node
<1>0. TypeOK /\ linked \subseteq Nodes
  BY DEF ObjectsInv, TypeOK
<1>1. PICK from \in {"init", "destroy"} :
        Return(t, from) /\ node' = Freed(old) /\ UNCHANGED <<linked, held>>
  BY DEF InitNoMemory, DestroyFree
<1>2. /\ o \in Objects /\ Find(o) = {} /\ loc[t].attr \in 0 .. 2 /\ old \notin linked
      /\ old \in Nodes => node[old].object = o
      /\ o \in Mutexes => \A u \in Threads : held[u][o] = 0
      /\ pc' \in [Threads -> PC] /\ loc' \in [Threads -> Locs]
      /\ \A u \in Threads :
           \/ /\ pc'[u] = pc[u] /\ loc'[u] = loc[u]
              /\ pc[u] # "out" => loc[u].object # o /\ loc[u].mutex # o
           \/ /\ pc'[u] = "out" /\ loc'[u] = NoLoc
              /\ pc[u] \in {"init", "destroy"} /\ loc[u].object = o
  BY <1>1, MakerFacts
<1>3. PICK a \in 0 .. 2 : /\ memory' = [memory EXCEPT ![o] = Word(o, a)]
                          /\ wanted' = [wanted EXCEPT ![o] = a]
                          /\ o \notin Mutexes => a = 0
  <2>1. CASE InitNoMemory(t)
    <3> DEFINE b == IF o \in Mutexes THEN loc[t].attr ELSE 0
    <3>1. /\ memory' = [memory EXCEPT ![o] = Word(o, b)]
          /\ wanted' = [wanted EXCEPT ![o] = b]
      BY <2>1 DEF InitNoMemory
    <3>2. b \in 0 .. 2 /\ (o \notin Mutexes => b = 0)
      BY <1>2
    <3> HIDE DEF b, o
    <3> QED BY <3>1, <3>2
  <2>2. CASE DestroyFree(t)
    <3>1. Word(o, 0) = 0
      BY WordFacts DEF Word
    <3>2. /\ memory' = [memory EXCEPT ![o] = Word(o, 0)]
          /\ wanted' = [wanted EXCEPT ![o] = 0]
      BY <2>2, <3>1 DEF DestroyFree
    <3> HIDE DEF o
    <3> QED BY <3>2
  <2> QED BY <2>1, <2>2
<1> HIDE DEF o, old
<1>4. /\ memory' \in [Objects -> {TypeWord(b) : b \in 0 .. 2}]
      /\ wanted' \in [Objects -> 0 .. 2] /\ wanted'[o] = a
      /\ \A q \in Objects \ {o} : memory'[q] = memory[q] /\ wanted'[q] = wanted[q]
      /\ o \in Mutexes => AndroidMutexType(memory'[o]) = wanted'[o]
  BY <1>0, <1>2, <1>3, WordStep
<1>5. node' \in [Nodes -> NodeRecs] /\ \A k \in Nodes \ {old} : node'[k] = node[k]
  BY <1>0, <1>1, NodeFacts DEF TypeOK, Freed
<1>6. \A k \in Nodes : node[k].object \in Objects \ {o} => node'[k] = node[k]
  BY <1>2, <1>5
<1>7. o \in Conds => wanted'[o] = 0
  BY <1>3, <1>4, ObjectsAssumption
<1>8. linked' \subseteq Nodes /\ linked \subseteq linked' /\ linked' \ linked = {}
  BY <1>0, <1>1
<1> QED BY <1>1, <1>2, <1>4, <1>5, <1>6, <1>7, <1>8, MakeStep

\* A static initialiser at an address without a node.
LEMMA StaticInitStep ==
  ASSUME ObjectsInv, NEW o \in Objects, StaticInit(o)
  PROVE  ObjectsInv'
<1>0. TypeOK /\ linked \subseteq Nodes
  BY DEF ObjectsInv, TypeOK
<1>1. PICK a \in Attrs(o) :
        /\ Quiet(o) /\ Find(o) = {} /\ (o \in Conds => a = 0)
        /\ memory' = [memory EXCEPT ![o] = Word(o, a)] /\ wanted' = [wanted EXCEPT ![o] = a]
        /\ UNCHANGED <<node, linked, pc, loc, held>>
  BY DEF StaticInit
<1>2. a \in 0 .. 2
  BY WordFacts
<1>3. /\ memory' \in [Objects -> {TypeWord(b) : b \in 0 .. 2}]
      /\ wanted' \in [Objects -> 0 .. 2] /\ wanted'[o] = a
      /\ \A q \in Objects \ {o} : memory'[q] = memory[q] /\ wanted'[q] = wanted[q]
      /\ o \in Mutexes => AndroidMutexType(memory'[o]) = wanted'[o]
  BY <1>0, <1>1, <1>2, WordStep
<1>4. /\ \A u \in Threads : pc[u] # "out" => loc[u].object # o /\ loc[u].mutex # o
      /\ o \in Mutexes => \A u \in Threads : held[u][o] = 0
  BY <1>1 DEF Quiet, InCall
<1>5. /\ node' \in [Nodes -> NodeRecs] /\ pc' \in [Threads -> PC]
      /\ loc' \in [Threads -> Locs]
  BY <1>0, <1>1 DEF TypeOK
<1>6. linked' \subseteq Nodes /\ linked \subseteq linked' /\ linked' \ linked = {}
  BY <1>0, <1>1
<1> QED BY <1>1, <1>3, <1>4, <1>5, <1>6, MakeStep
-----------------------------------------------------------------------------
\* The registry's invariant holds at the start, with no node and no call.
LEMMA ObjectsInit == Init => ObjectsInv
<1> SUFFICES ASSUME Init PROVE ObjectsInv
  OBVIOUS
<1>1. /\ wanted \in [Objects -> 0 .. 2] /\ \A c \in Conds : wanted[c] = 0
      /\ memory = [o \in Objects |-> Word(o, wanted[o])]
      /\ node = [n \in Nodes |-> Blank] /\ linked = {}
      /\ pc = [t \in Threads |-> "out"] /\ loc = [t \in Threads |-> NoLoc]
      /\ held = [t \in Threads |-> [m \in Mutexes |-> 0]]
  BY DEF Init
<1>2. TypeOK
  <2>1. memory \in [Objects -> {TypeWord(a) : a \in 0 .. 2}]
    BY <1>1, WordFacts
  <2>2. node \in [Nodes -> NodeRecs]
    BY <1>1, NodeFacts
  <2>3. pc \in [Threads -> PC] /\ loc \in [Threads -> Locs]
    BY <1>1 DEF PC, Locs, NoLoc, Loc
  <2>4. held \in [Threads -> [Mutexes -> 0 .. MaxDepth]]
    BY <1>1, ObjectsAssumption
  <2> QED BY <1>1, <2>1, <2>2, <2>3, <2>4 DEF TypeOK
<1>3. OneNode /\ AttrsKept /\ OwnersAgree
  BY <1>1 DEF OneNode, AttrsKept, OwnersAgree, Find
<1>4. PointersLive /\ CallsTyped /\ MakersAlone /\ HoldersInside
  BY <1>1 DEF PointersLive, CallsTyped, MakersAlone, HoldersInside, UsesNode, Waits, NoLoc, Loc
<1>5. WordsKept
  BY <1>1, WordFacts DEF WordsKept, Word, Objects
<1> QED BY <1>2, <1>3, <1>4, <1>5 DEF ObjectsInv

\* Every step of a thread or of the program keeps the registry's invariant.
LEMMA ObjectsStep == ObjectsInv /\ [Next]_vars => ObjectsInv'
<1> SUFFICES ASSUME ObjectsInv, [Next]_vars PROVE ObjectsInv'
  OBVIOUS
<1>1. CASE UNCHANGED vars
  <2>1. TypeOK
    BY DEF ObjectsInv
  <2> QED BY <1>1, <2>1, WakeStep DEF vars, TypeOK
<1>2. ASSUME NEW o \in Objects, StaticInit(o) PROVE ObjectsInv'
  BY <1>2, StaticInitStep
<1>3. ASSUME NEW t \in Threads, NEW m \in Mutexes, MutexLock(t, m) \/ MutexUnlock(t, m)
      PROVE  ObjectsInv'
  <2>1. m \in Objects
    BY DEF Objects
  <2>2. CASE MutexLock(t, m)
    <3>1. "lock" \in UsesNode \ Waits
      BY DEF UsesNode, PC, Waits
    <3>2. Call(t, "lock", m) /\ held[t][m] < MaxDepth
      BY <2>2 DEF MutexLock
    <3> QED BY <2>1, <3>1, <3>2, CallStep
  <2>3. CASE MutexUnlock(t, m)
    <3>1. "unlock" \in UsesNode \ Waits
      BY DEF UsesNode, PC, Waits
    <3>2. Call(t, "unlock", m) /\ held[t][m] > 0
      BY <2>3 DEF MutexUnlock
    <3> QED BY <2>1, <3>1, <3>2, CallStep
  <2> QED BY <1>3, <2>2, <2>3
<1>4. ASSUME NEW t \in Threads, NEW c \in Conds,
             CondWait(t, c) \/ CondSignal(t, c) \/ CondBroadcast(t, c)
      PROVE  ObjectsInv'
  <2>1. c \in Objects
    BY DEF Objects
  <2>2. PICK to \in {"wait_mutex", "signal", "broadcast"} : Call(t, to, c)
    BY <1>4 DEF CondWait, CondSignal, CondBroadcast
  <2>3. to \in UsesNode \ Waits /\ to \notin {"lock", "unlock"}
    BY DEF UsesNode, PC, Waits
  <2> QED BY <2>1, <2>2, <2>3, CallStep
<1>5. ASSUME NEW t \in Threads, NEW o \in Objects, ObjectInit(t, o) \/ ObjectDestroy(t, o)
      PROVE  ObjectsInv'
  <2>1. PICK to \in {"init", "destroy"}, a \in 0 .. 2 : Take(t, to, o, a)
    BY <1>5, WordFacts DEF ObjectInit, ObjectDestroy
  <2> QED BY <2>1, TakeStep
<1>6. ASSUME NEW t \in Threads,
             \/ HostLock(t) \/ HostUnlock(t) \/ CondWaitMutex(t) \/ HostWait(t)
             \/ WakeAlone(t) \/ Relock(t) \/ HostSignal(t) \/ HostBroadcast(t)
             \/ InitCreate(t) \/ InitNoMemory(t) \/ DestroyFree(t)
      PROVE  ObjectsInv'
  BY <1>6, HostLockStep, HostUnlockStep, CondWaitMutexStep, HostWaitStep, RouseStep,
     RelockStep, InitCreateStep, DiscardStep
<1> QED BY <1>1, <1>2, <1>3, <1>4, <1>5, <1>6 DEF Next

\* The nodes, their owners and words, and what the threads in a call hold stay
\* consistent in every run of pthread_compat.c's mutexes and conditions.
THEOREM ObjectsInvariant == Spec => []ObjectsInv
BY ObjectsInit, ObjectsStep, PTL DEF Spec

\* Two threads never hold a mutex at the same time, first uses, recursion,
\* waits on conditions and reinitialisation included.
THEOREM MutualExclusion == Spec => []Exclusion
<1>1. ASSUME ObjectsInv PROVE Exclusion
  <2>0. OwnersAgree /\ TypeOK
    BY <1>1 DEF ObjectsInv
  <2> SUFFICES ASSUME NEW t \in Threads, NEW u \in Threads, NEW m \in Mutexes,
                      held[t][m] > 0, held[u][m] > 0
               PROVE  t = u
    BY DEF Exclusion
  <2>1. PICK n \in linked : node[n].object = m
    BY <2>0 DEF OwnersAgree, Find
  <2>2. \A v \in Threads : held[v][m] = IF node[n].owner = v THEN node[n].depth ELSE 0
    BY <2>0, <2>1 DEF OwnersAgree
  <2> QED BY <2>2
<1> QED BY <1>1, ObjectsInvariant, PTL

\* A host mutex or condition in use has the type or clock that the program gave
\* its object, whichever of an init call or a first use made it.
THEOREM AttributesInUse == Spec => []AttrsInUse
<1>1. ASSUME ObjectsInv PROVE AttrsInUse
  BY <1>1 DEF ObjectsInv, AttrsInUse, AttrsKept, PointersLive, NodeOf
<1> QED BY <1>1, ObjectsInvariant, PTL

\* A broadcast wakes every thread that sleeps on its condition: it found the
\* same node that they sleep on.
THEOREM BroadcastReaches == Spec => BroadcastReachesAll
<1>1. ASSUME ObjectsInv, NEW t \in Threads, NEW u \in Threads, HostBroadcast(t),
             pc[u] = "sleeping", loc[u].object = loc[t].object
      PROVE  pc'[u] = "relock"
  <2>1. OneNode /\ PointersLive /\ CallsTyped
    BY <1>1 DEF ObjectsInv
  <2>2. pc[t] = "broadcast" /\ Rouse(t, Sleepers(loc[t].node))
    BY <1>1 DEF HostBroadcast
  <2>3. loc[t].object \in Objects
    BY <2>1, <2>2 DEF CallsTyped, Objects
  <2>4. loc[t].node \in Find(loc[t].object) /\ loc[u].node \in Find(loc[t].object)
    BY <1>1, <2>1, <2>2 DEF PointersLive, NodeOf, Find, UsesNode, PC
  <2>5. u \in Sleepers(loc[t].node)
    BY <1>1, <2>1, <2>3, <2>4 DEF OneNode, Sleepers
  <2> QED BY <1>1, <2>2, <2>5 DEF Rouse
<1>2. ASSUME ObjectsInv
      PROVE  [\A t, u \in Threads :
                HostBroadcast(t) /\ pc[u] = "sleeping" /\ loc[u].object = loc[t].object
                  => pc'[u] = "relock"]_vars
  BY <1>1, <1>2
<1> QED BY <1>2, ObjectsInvariant, PTL DEF BroadcastReachesAll
=============================================================================
