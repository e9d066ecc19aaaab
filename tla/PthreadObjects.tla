--------------------------- MODULE PthreadObjects ---------------------------
(***************************************************************************)
(* Mutexes and conditions of templates/pthread_compat.c.  The Android      *)
(* objects only lend their addresses: g_objects, under g_objects_lock,     *)
(* maps an address and a kind to a node with the host's mutex or           *)
(* condition, made by an init call or, for a static initialiser, by the    *)
(* first use.  A node found under the lock is used after the unlock.       *)
(***************************************************************************)
EXTENDS Integers

CONSTANTS Threads,
          Mutexes, Conds,   \* the addresses, each with its kind
          Nodes,            \* the heap blocks a node can be
          MaxDepth,         \* bound: how deep callers lock a recursive mutex
          NoThread, NoObject, NoNode

ASSUME ObjectsAssumption == /\ Mutexes \cap Conds = {} /\ MaxDepth \in Nat
                            /\ NoObject \notin Mutexes \cup Conds
                            /\ NoNode \notin Nodes /\ NoThread \notin Threads

Objects == Mutexes \cup Conds

VARIABLES memory,   \* the first word of each Android object
          node,     \* the nodes
          linked,   \* those that g_objects reaches
          pc, loc,  \* where each thread is, its arguments and its node pointers
          held,     \* how often each thread has locked each mutex (history)
          wanted    \* the type or clock the program last gave each object (history)

vars == <<memory, node, linked, pc, loc, held, wanted>>

PC == {"out", "lock", "unlock", "wait_mutex", "wait", "sleeping", "relock", "signal",
       "broadcast", "init", "destroy"}

\* What mutexattr_settype and condattr_setclock let an attribute say.
MutexTypes == 0 .. 2
Clocks     == 0 .. 1
Attrs(o)   == IF o \in Mutexes THEN MutexTypes ELSE Clocks

\* The types as Darwin numbers them.
PTHREAD_MUTEX_NORMAL == 0
PTHREAD_MUTEX_ERRORCHECK == 1
PTHREAD_MUTEX_RECURSIVE == 2

HostMutexType(type) == IF type = 1 THEN PTHREAD_MUTEX_RECURSIVE
                       ELSE IF type = 2 THEN PTHREAD_MUTEX_ERRORCHECK
                       ELSE PTHREAD_MUTEX_NORMAL

\* The type in the word of a mutex, written by mutex_init or by a static initialiser.
TypeWord(type) == (type % 4) * 2^14
AndroidMutexType(w) == (w \div 2^14) % 4

HostAttr(o, a) == IF o \in Mutexes THEN HostMutexType(a) ELSE a
Word(o, a)     == IF o \in Mutexes THEN TypeWord(a) ELSE 0

\* A node with a host mutex that nobody holds, or a host condition; and none.
NewNode(o, attr) == [object |-> o, attr |-> attr, owner |-> NoThread, depth |-> 0]
Blank == NewNode(NoObject, 0)

\* The arguments and the node of a call on one object, before any second one; and none.
Loc(o, n, a) == [object |-> o, node |-> n, mutex |-> NoObject, mnode |-> NoNode, attr |-> a]
NoLoc == Loc(NoObject, NoNode, 0)

Init == /\ wanted \in {w \in [Objects -> 0 .. 2] : \A o \in Conds : w[o] = 0}
        /\ memory = [o \in Objects |-> Word(o, wanted[o])]
        /\ node = [n \in Nodes |-> Blank] /\ linked = {}
        /\ pc = [t \in Threads |-> "out"] /\ loc = [t \in Threads |-> NoLoc]
        /\ held = [t \in Threads |-> [m \in Mutexes |-> 0]]
-----------------------------------------------------------------------------
\* The callers' side: nobody initialises or destroys an object that another
\* thread holds or is in a call on, nor calls on one that is being initialised
\* or destroyed.
InCall(o) == {t \in Threads : pc[t] # "out" /\ o \in {loc[t].object, loc[t].mutex}}
Usable(o) == \A t \in InCall(o) : pc[t] \notin {"init", "destroy"}
Quiet(o)  == InCall(o) = {} /\ (o \in Mutexes => \A t \in Threads : held[t][o] = 0)

\* a2i_find_object_locked.  The list is searched from its newest node; that a
\* search has only one answer is OneNode below.
Find(o) == {n \in linked : node[n].object = o}

\* a2i_create_mutex_locked, a2i_create_cond_locked: calloc, and insert.
Create(n, o, attr) == /\ n \in Nodes /\ node[n] = Blank
                      /\ node' = [node EXCEPT ![n] = NewNode(o, attr)]
                      /\ linked' = linked \cup {n}

\* A node for a static initialiser: the type in the word, or clock 0.
CreateStatic(n, o) ==
  Create(n, o, IF o \in Mutexes THEN HostMutexType(AndroidMutexType(memory[o])) ELSE 0)

\* Mutant of Get: the search and the insertion are two critical sections, and
\* the search has missed a node that is there now.
GetStale(n, o) == \/ n \in Find(o) /\ UNCHANGED <<node, linked>>
                  \/ CreateStatic(n, o)

\* a2i_get_mutex, a2i_get_cond: found or made in one critical section.
Get(n, o) == \/ n \in Find(o) /\ UNCHANGED <<node, linked>>
             \/ Find(o) = {} /\ CreateStatic(n, o)

\* A call on o of t: it has the node of o and goes on without the lock.  With
\* no memory for a node the call fails and changes nothing.
Call(t, to, o) == \E n \in Nodes :
  /\ pc[t] = "out" /\ Usable(o) /\ Get(n, o)
  /\ pc' = [pc EXCEPT ![t] = to]
  /\ loc' = [loc EXCEPT ![t] = Loc(o, n, 0)]
  /\ UNCHANGED <<memory, held, wanted>>

Return(t, from) == /\ pc[t] = from /\ pc' = [pc EXCEPT ![t] = "out"]
                   /\ loc' = [loc EXCEPT ![t] = NoLoc]
-----------------------------------------------------------------------------
\* The host's mutex (external): t becomes the owner of n, or one level deeper.
Acquire(t, n) ==
  /\ \/ node[n].owner = NoThread
     \/ node[n].owner = t /\ node[n].attr = PTHREAD_MUTEX_RECURSIVE
  /\ node' = [node EXCEPT ![n].owner = t, ![n].depth = @ + 1]
Release(n) == node' = [node EXCEPT ![n].owner = IF node[n].depth = 1 THEN NoThread ELSE @,
                                   ![n].depth = @ - 1]

\* pthread_mutex_lock.  Callers relock only what is not of the normal type.
MutexLock(t, m) == /\ held[t][m] < MaxDepth
                   /\ held[t][m] > 0 => HostMutexType(wanted[m]) # PTHREAD_MUTEX_NORMAL
                   /\ Call(t, "lock", m)
HostLock(t) ==
  \/ /\ Return(t, "lock") /\ Acquire(t, loc[t].node)
     /\ held' = [held EXCEPT ![t][loc[t].object] = @ + 1]
     /\ UNCHANGED <<memory, linked, wanted>>
  \/ /\ Return(t, "lock")                      \* EDEADLK
     /\ node[loc[t].node].owner = t /\ node[loc[t].node].attr = PTHREAD_MUTEX_ERRORCHECK
     /\ UNCHANGED <<memory, node, linked, held, wanted>>

\* pthread_mutex_unlock of a mutex the caller holds.
MutexUnlock(t, m) == held[t][m] > 0 /\ Call(t, "unlock", m)
HostUnlock(t) == /\ Return(t, "unlock") /\ Release(loc[t].node)
                 /\ held' = [held EXCEPT ![t][loc[t].object] = @ - 1]
                 /\ UNCHANGED <<memory, linked, wanted>>

\* pthread_cond_wait and pthread_cond_timedwait: first the condition's node,
\* then the mutex's, then the host's wait.
CondWait(t, c) == (\E m \in Mutexes : held[t][m] = 1) /\ Call(t, "wait_mutex", c)
CondWaitMutex(t) == \E m \in Mutexes, n \in Nodes :
  /\ held[t][m] = 1 /\ pc[t] = "wait_mutex" /\ Get(n, m)
  /\ pc' = [pc EXCEPT ![t] = "wait"]
  /\ loc' = [loc EXCEPT ![t].mutex = m, ![t].mnode = n]
  /\ UNCHANGED <<memory, held, wanted>>
HostWait(t) == /\ pc[t] = "wait" /\ pc' = [pc EXCEPT ![t] = "sleeping"]
               /\ Release(loc[t].mnode)
               /\ held' = [held EXCEPT ![t][loc[t].mutex] = @ - 1]
               /\ UNCHANGED <<memory, linked, loc, wanted>>

\* The host's wait ends without a signal, or at its deadline.
WakeAlone(t) == /\ pc[t] = "sleeping" /\ pc' = [pc EXCEPT ![t] = "relock"]
                /\ UNCHANGED <<memory, node, linked, loc, held, wanted>>
Relock(t) == /\ Return(t, "relock") /\ Acquire(t, loc[t].mnode)
             /\ held' = [held EXCEPT ![t][loc[t].mutex] = @ + 1]
             /\ UNCHANGED <<memory, linked, wanted>>

\* pthread_cond_signal and pthread_cond_broadcast wake who sleeps on the node
\* they found, one or all.
Sleepers(n) == {u \in Threads : pc[u] = "sleeping" /\ loc[u].node = n}
Rouse(t, chosen) ==
  /\ pc' = [u \in Threads |-> IF u = t THEN "out" ELSE IF u \in chosen THEN "relock" ELSE pc[u]]
  /\ loc' = [loc EXCEPT ![t] = NoLoc]
  /\ UNCHANGED <<memory, node, linked, held, wanted>>
CondSignal(t, c)    == Call(t, "signal", c)
CondBroadcast(t, c) == Call(t, "broadcast", c)
HostSignal(t) == /\ pc[t] = "signal"
                 /\ \/ Sleepers(loc[t].node) = {} /\ Rouse(t, {})
                    \/ \E u \in Sleepers(loc[t].node) : Rouse(t, {u})
HostBroadcast(t) == pc[t] = "broadcast" /\ Rouse(t, Sleepers(loc[t].node))
-----------------------------------------------------------------------------
\* Mutant of Remove: the node is found and returned, but stays in the list.
RemoveLeaves(n, o) == /\ IF Find(o) = {} THEN n = NoNode ELSE n \in Find(o)
                      /\ UNCHANGED linked

\* a2i_remove_object: out of the list, for the caller to free.
Remove(n, o) == /\ IF Find(o) = {} THEN n = NoNode ELSE n \in Find(o)
                /\ linked' = linked \ {n}

Take(t, to, o, a) == \E n \in Nodes \cup {NoNode} :
  /\ pc[t] = "out" /\ Quiet(o) /\ Remove(n, o)
  /\ pc' = [pc EXCEPT ![t] = to]
  /\ loc' = [loc EXCEPT ![t] = Loc(o, n, a)]
  /\ UNCHANGED <<memory, node, held, wanted>>

\* What a freed block leaves behind.
Freed(n) == [k \in Nodes |-> IF k = n THEN Blank ELSE node[k]]

\* Mutant of InitCreate: the attribute reaches the word but not the node.
InitCreateDefault(t) == \E n \in Nodes :
  /\ Return(t, "init") /\ Freed(loc[t].node)[n] = Blank
  /\ node' = [Freed(loc[t].node) EXCEPT ![n].object = loc[t].object]
  /\ linked' = linked \cup {n}
  /\ memory' = [memory EXCEPT ![loc[t].object] = Word(loc[t].object, loc[t].attr)]
  /\ wanted' = [wanted EXCEPT ![loc[t].object] = loc[t].attr]
  /\ UNCHANGED held

\* pthread_mutex_init, pthread_cond_init: the old node is removed and freed,
\* the word is written, and then a node with the attribute is made.
ObjectInit(t, o) == \E a \in Attrs(o) : Take(t, "init", o, a)
InitCreate(t) == \E n \in Nodes :
  /\ Return(t, "init") /\ Freed(loc[t].node)[n] = Blank
  /\ node' = [Freed(loc[t].node) EXCEPT
                ![n] = NewNode(loc[t].object, HostAttr(loc[t].object, loc[t].attr))]
  /\ linked' = linked \cup {n}
  /\ memory' = [memory EXCEPT ![loc[t].object] = Word(loc[t].object, loc[t].attr)]
  /\ wanted' = [wanted EXCEPT ![loc[t].object] = loc[t].attr]
  /\ UNCHANGED held

\* No memory for the new node: ENOMEM, with the old node gone and the word
\* written.  (The object is then not initialised: only its word counts.)
InitNoMemory(t) ==
  LET o == loc[t].object a == IF o \in Mutexes THEN loc[t].attr ELSE 0 IN
  /\ Return(t, "init") /\ node' = Freed(loc[t].node)
  /\ memory' = [memory EXCEPT ![o] = Word(o, a)]
  /\ wanted' = [wanted EXCEPT ![o] = a]
  /\ UNCHANGED <<linked, held>>

\* pthread_mutex_destroy, pthread_cond_destroy: the node is removed, then freed
\* and the object cleared.
ObjectDestroy(t, o) == Take(t, "destroy", o, 0)
DestroyFree(t) == /\ Return(t, "destroy")
                  /\ node' = Freed(loc[t].node)
                  /\ memory' = [memory EXCEPT ![loc[t].object] = 0]
                  /\ wanted' = [wanted EXCEPT ![loc[t].object] = 0]
                  /\ UNCHANGED <<linked, held>>

\* The program puts an object with a static initialiser at an address (external),
\* once an object that was there before is destroyed.  (A node that outlives its
\* object would be found by the next one at the address, with its type.)
StaticInit(o) == \E a \in Attrs(o) :
  /\ Quiet(o) /\ Find(o) = {} /\ (o \in Conds => a = 0)
  /\ memory' = [memory EXCEPT ![o] = Word(o, a)] /\ wanted' = [wanted EXCEPT ![o] = a]
  /\ UNCHANGED <<node, linked, pc, loc, held>>

Next == \/ \E o \in Objects : StaticInit(o)
        \/ \E t \in Threads :
             \/ HostLock(t) \/ HostUnlock(t) \/ CondWaitMutex(t) \/ HostWait(t)
             \/ WakeAlone(t) \/ Relock(t) \/ HostSignal(t) \/ HostBroadcast(t)
             \/ InitCreate(t) \/ InitNoMemory(t) \/ DestroyFree(t)
             \/ \E m \in Mutexes : MutexLock(t, m) \/ MutexUnlock(t, m)
             \/ \E c \in Conds : CondWait(t, c) \/ CondSignal(t, c) \/ CondBroadcast(t, c)
             \/ \E o \in Objects : ObjectInit(t, o) \/ ObjectDestroy(t, o)

Spec == Init /\ [][Next]_vars
-----------------------------------------------------------------------------
Locs == [object : Objects \cup {NoObject}, node : Nodes \cup {NoNode},
         mutex : Mutexes \cup {NoObject}, mnode : Nodes \cup {NoNode}, attr : 0 .. 2]
NodeRecs == [object : Objects \cup {NoObject}, attr : 0 .. 2,
             owner : Threads \cup {NoThread}, depth : 0 .. MaxDepth]

\* The types of the objects' words, the nodes and the callers' locals.
TypeOK == /\ memory \in [Objects -> {TypeWord(a) : a \in 0 .. 2}]
          /\ node \in [Nodes -> NodeRecs]
          /\ linked \subseteq Nodes
          /\ pc \in [Threads -> PC] /\ loc \in [Threads -> Locs]
          /\ held \in [Threads -> [Mutexes -> 0 .. MaxDepth]]
          /\ wanted \in [Objects -> 0 .. 2]

\* An address and kind have at most one node, however many threads use a
\* statically initialised object for the first time at once.
OneNode == \A o \in Objects : \A n, k \in Find(o) : n = k

UsesNode == PC \ {"out", "init", "destroy"}
Waits    == {"wait", "sleeping", "relock"}

NodeOf(n, o) == n \in linked /\ node[n].object = o

\* A node pointer that a thread holds without the lock is still the object's
\* node in the list: nobody uses a freed node, and waiters and signallers of
\* a condition meet on the same node.
PointersLive == \A t \in Threads :
                  /\ pc[t] \in UsesNode => NodeOf(loc[t].node, loc[t].object)
                  /\ pc[t] \in Waits => NodeOf(loc[t].mnode, loc[t].mutex)

\* Mutual exclusion as the callers see it: two threads never hold a mutex.
Exclusion == \A t, u \in Threads, m \in Mutexes :
               held[t][m] > 0 /\ held[u][m] > 0 => t = u

\* Every node has the type or clock that the program last gave its object.
AttrsKept == \A n \in linked : node[n].attr = HostAttr(node[n].object, wanted[node[n].object])

\* Whoever uses an object uses a host mutex of the type, or a condition with the
\* clock, that the program gave it, by attribute or by static initialiser.
AttrsInUse == \A t \in Threads : pc[t] \in UsesNode =>
  node[loc[t].node].attr = HostAttr(loc[t].object, wanted[loc[t].object])

\* A broadcast leaves nobody asleep on its condition.
BroadcastReachesAll ==
  [][\A t, u \in Threads :
       HostBroadcast(t) /\ pc[u] = "sleeping" /\ loc[u].object = loc[t].object
         => pc'[u] = "relock"]_vars

\* What a thread passes to each call.
CallsTyped == \A t \in Threads :
  /\ pc[t] = "out" => loc[t] = NoLoc
  /\ pc[t] \in {"lock", "unlock"} => loc[t].object \in Mutexes
  /\ pc[t] \in Waits \cup {"wait_mutex", "signal", "broadcast"} => loc[t].object \in Conds
  /\ pc[t] \in {"init", "destroy"} => loc[t].object \in Objects
  /\ IF pc[t] \in Waits THEN loc[t].mutex \in Mutexes ELSE loc[t].mutex = NoObject

\* A thread that initialises or destroys an object is alone on it; the node it
\* took out of the list is still the object's, and the list has no other.
MakersAlone == \A t \in Threads : pc[t] \in {"init", "destroy"} =>
  LET o == loc[t].object n == loc[t].node IN
  /\ InCall(o) = {t} /\ Find(o) = {}
  /\ o \in Mutexes => \A u \in Threads : held[u][o] = 0
  /\ n # NoNode => n \notin linked /\ node[n].object = o

\* The nodes in the list are allocated, and the host's owner and depth are what
\* the callers count; a mutex without a node is not held.
OwnersAgree ==
  /\ \A n \in linked :
       /\ node[n].object \in Objects
       /\ node[n].object \in Mutexes => \A t \in Threads :
            held[t][node[n].object] = IF node[n].owner = t THEN node[n].depth ELSE 0
       /\ node[n].owner = NoThread <=> node[n].depth = 0
  /\ \A m \in Mutexes : Find(m) = {} => \A t \in Threads : held[t][m] = 0

\* What the callers hold in the middle of a call.
HoldersInside == \A t \in Threads :
  /\ pc[t] = "lock" => held[t][loc[t].object] < MaxDepth
  /\ pc[t] = "unlock" => held[t][loc[t].object] > 0
  /\ pc[t] = "wait" => held[t][loc[t].mutex] = 1
  /\ pc[t] \in {"sleeping", "relock"} => held[t][loc[t].mutex] < MaxDepth

\* The word of a mutex tells the type the program gave it, and a condition
\* without a node has clock 0: what a node made on first use needs.
WordsKept ==
  /\ \A m \in Mutexes : AndroidMutexType(memory[m]) = wanted[m]
  /\ \A c \in Conds : Find(c) = {} /\ Usable(c) => wanted[c] = 0

\* The strengthening of the invariants above that is inductive.
ObjectsInv == /\ TypeOK /\ OneNode /\ PointersLive /\ CallsTyped /\ MakersAlone
              /\ OwnersAgree /\ HoldersInside /\ AttrsKept /\ WordsKept
=============================================================================
