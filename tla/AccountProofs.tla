---------------------------- MODULE AccountProofs ----------------------------
(***************************************************************************)
(* Theorems about AccountManager, for any number of requests: the types,   *)
(* and that the task lock keeps an account to one running task as long as  *)
(* its requests take the lock and leave it in place.                       *)
(***************************************************************************)
EXTENDS AccountManager, TLAPS

(* Without updates and removals there is one lock, the task its holder waits *)
(* for is the registered one, and only the registered task runs.            *)
SerialInv ==
  /\ \A l \in Requests : queue[l] # <<>> => l = lock
  /\ \A r \in Requests : pc[r] = "end" => awaited[r] = tasks
  /\ \A r \in Requests : pc[r] # "stop"
  /\ \A s \in Requests : Running(s) => tasks = s
  /\ \A s \in Requests : sess[s] = "up" => instances = s

TaskInv == TypeInv /\ (Serial => SerialInv)

-----------------------------------------------------------------------------
(* The parts of TypeOK that requests and tasks change. *)
QueueType ==
  /\ queue \in [Requests -> Seq(Requests)]
  /\ kind \in [Requests -> Kinds \cup {Nil}] /\ pc \in [Requests -> Steps]
  /\ held \in [Requests -> Entries] /\ awaited \in [Requests -> Entries]

TaskType ==
  /\ tasks \in Entries
  /\ sess \in [Requests -> Stages] /\ cancelled \in [Requests -> BOOLEAN]

(* A request r about to run under lock l: its queue, once r is in it, is q. *)
Enters(r, l, q) ==
  /\ q \in Seq(Requests) /\ Heads(r, q)
  /\ q = queue[l] \/ queue[l] = <<>>

(* The three ways a request leaves a step under a lock keep the queues in   *)
(* order: it ends and unlocks, it waits for a task, or it queues.           *)
LEMMA FinishOrdered ==
  ASSUME TypeInv, NEW r \in Requests, NEW l \in Requests, NEW q,
         Enters(r, l, q), Finish(r, l, q), kind' = kind, pc[r] # "idle"
  PROVE  QueueType' /\ HolderInv'
  <1>1. QueueType'
    <2>1. Tail(q) \in Seq(Requests)
      BY DEF Enters, Heads
    <2> QED BY <2>1 DEF TypeInv, TypeOK, QueueType, Finish, Unlocked, Entries, Steps
  <1>2. ASSUME NEW s \in Requests, pc'[s] = "end" PROVE Heads(s, queue'[held'[s]])
    <2>1. s # r /\ pc[s] = "end" /\ held'[s] = held[s] /\ held[s] \in Requests
      BY <1>2 DEF TypeInv, TypeOK, HolderInv, Finish
    <2>2. Heads(s, queue[held[s]])
      BY <2>1 DEF TypeInv, HolderInv
    <2>3. held[s] # l
      BY <2>1, <2>2 DEF Enters, Heads
    <2> QED BY <2>1, <2>2, <2>3 DEF Finish, TypeInv, TypeOK
  <1> QED BY <1>1, <1>2 DEF TypeInv, TypeOK, HolderInv, Finish

LEMMA AwaitOrdered ==
  ASSUME TypeInv, NEW r \in Requests, NEW l \in Requests, NEW q, NEW t \in Requests,
         Enters(r, l, q), AwaitEnd(r, l, q, t), kind' = kind, pc[r] # "idle"
  PROVE  QueueType' /\ HolderInv' /\ cancelled' \in [Requests -> BOOLEAN]
  <1>1. QueueType' /\ cancelled' \in [Requests -> BOOLEAN]
    BY DEF TypeInv, TypeOK, QueueType, AwaitEnd, Entries, Steps, Enters
  <1>2. ASSUME NEW s \in Requests, pc'[s] = "end" PROVE Heads(s, queue'[held'[s]])
    <2>1. CASE s = r
      BY <2>1 DEF AwaitEnd, Enters, TypeInv, TypeOK
    <2>2. CASE s # r
      <3>1. pc[s] = "end" /\ held'[s] = held[s] /\ held[s] \in Requests
        BY <1>2, <2>2 DEF TypeInv, TypeOK, HolderInv, AwaitEnd
      <3>2. Heads(s, queue[held[s]])
        BY <3>1 DEF TypeInv, HolderInv
      <3>3. held[s] # l
        BY <2>2, <3>2 DEF Enters, Heads
      <3> QED BY <3>1, <3>2, <3>3 DEF AwaitEnd, TypeInv, TypeOK
    <2> QED BY <2>1, <2>2
  <1> QED BY <1>1, <1>2 DEF TypeInv, TypeOK, HolderInv, AwaitEnd

LEMMA QueueOrdered ==
  ASSUME TypeInv, NEW r \in Requests, NEW l \in Requests,
         Queue(r, l), kind' = kind, pc[r] \in {"called", "stop"}
  PROVE  QueueType' /\ HolderInv'
  <1>1. QueueType'
    BY DEF TypeInv, TypeOK, QueueType, Queue, Queued, Entries, Steps
  <1>2. ASSUME NEW s \in Requests, pc'[s] = "end" PROVE Heads(s, queue'[held'[s]])
    <2>1. s # r /\ pc[s] = "end" /\ held'[s] = held[s] /\ held[s] \in Requests
      BY <1>2 DEF TypeInv, TypeOK, HolderInv, Queue
    <2>2. Heads(s, queue[held[s]]) /\ queue[held[s]] \in Seq(Requests)
      BY <2>1 DEF TypeInv, HolderInv, TypeOK
    <2>3. Heads(s, Append(queue[held[s]], r))
      BY <2>2 DEF Heads
    <2> QED BY <2>1, <2>2, <2>3 DEF Queue, Queued, TypeInv, TypeOK
  <1> QED BY <1>1, <1>2 DEF TypeInv, TypeOK, HolderInv, Queue

(* A request that finds its lock free, or heads its queue, enters.          *)
LEMMA FreeEnters ==
  ASSUME NEW r \in Requests, NEW l, queue[l] = <<>>
  PROVE  Enters(r, l, <<r>>)
  BY DEF Enters, Heads

LEMMA HeadEnters ==
  ASSUME TypeInv, NEW r \in Requests, NEW l \in Requests, Heads(r, queue[l])
  PROVE  Enters(r, l, queue[l])
  BY DEF Enters, TypeInv, TypeOK

LEMMA AddTyped ==
  ASSUME TypeInv, NEW r \in Requests, NEW l \in Requests, NEW q, NEW t \in Entries,
         Enters(r, l, q), AddSection(r, l, q, t), kind' = kind, pc[r] # "idle"
  PROVE  QueueType' /\ HolderInv' /\ TaskType'
  <1>1. CASE Finish(r, l, q) /\ tasks' = t /\ UNCHANGED sessionVars
    BY <1>1, FinishOrdered DEF TaskType, TypeInv, TypeOK, sessionVars
  <1>2. CASE Running(t) /\ AwaitEnd(r, l, q, t) /\ tasks' = t /\ UNCHANGED sess
    <2>1. t \in Requests
      BY <1>2 DEF Running, Entries
    <2> QED BY <1>2, <2>1, AwaitOrdered DEF TaskType, TypeInv, TypeOK
  <1>3. CASE Create(r, l, q)
    <2>1. sess' \in [Requests -> Stages]
      BY <1>3 DEF Create, TypeInv, TypeOK, Stages
    <2> QED BY <1>3, <2>1, FinishOrdered DEF Create, TaskType, TypeInv, TypeOK, Entries
  <1> QED BY <1>1, <1>2, <1>3 DEF AddSection

LEMMA AddEnterTyped ==
  ASSUME TypeInv, NEW r \in Requests, NEW t \in Entries,
         AddEnter(r, t), pc[r] \in {"called", "stop"}
  PROVE  QueueType' /\ HolderInv' /\ TaskType' /\ lock' \in Entries /\ enabled' \in BOOLEAN
  <1> DEFINE l == LockFor(r)
  <1>1. l \in Requests
    BY DEF LockFor, TypeInv, TypeOK, Entries
  <1>2. lock' = l /\ enabled' = enabled /\ kind' = kind
    BY DEF AddEnter
  <1>3. CASE queue[l] = <<>>
    <2>1. AddSection(r, l, <<r>>, t)
      BY <1>3 DEF AddEnter
    <2>2. Enters(r, l, <<r>>)
      BY <1>3, FreeEnters
    <2>3. QueueType' /\ HolderInv' /\ TaskType'
      BY <1>1, <1>2, <2>1, <2>2, AddTyped
    <2> QED BY <1>1, <1>2, <2>3 DEF TypeInv, TypeOK, Entries
  <1>4. CASE queue[l] # <<>>
    <2>1. Queue(r, l) /\ tasks' = t /\ UNCHANGED sessionVars
      BY <1>4 DEF AddEnter
    <2>2. QueueType' /\ HolderInv'
      BY <1>1, <1>2, <2>1, QueueOrdered
    <2>3. TaskType'
      BY <2>1 DEF TaskType, TypeInv, TypeOK, sessionVars
    <2> QED BY <1>1, <1>2, <2>2, <2>3 DEF TypeInv, TypeOK, Entries
  <1> QED BY <1>3, <1>4

(* The types after a step, from the types of its parts. *)
LEMMA TypedParts ==
  ASSUME QueueType', HolderInv', TaskType', instances' \in Entries,
         lock' \in Entries, enabled' \in BOOLEAN
  PROVE  TypeInv'
  BY DEF TypeInv, TypeOK, QueueType, TaskType

LEMMA RemoveTyped ==
  ASSUME TypeInv, NEW r \in Requests, NEW l \in Requests, NEW q, NEW current \in Entries,
         Enters(r, l, q), RemoveSection(r, l, q, current), pc[r] # "idle"
  PROVE  TypeInv'
  <1>1. kind' = kind /\ sess' = sess /\ tasks' = Nil
    BY DEF RemoveSection
  <1>2. CASE Running(tasks)
    <2>1. tasks \in Requests
      BY <1>2 DEF Running, TypeInv, TypeOK, Entries
    <2>2. AwaitEnd(r, l, q, tasks) /\ lock' = current /\ UNCHANGED <<instances, enabled>>
      BY <1>2 DEF RemoveSection
    <2>3. QueueType' /\ HolderInv' /\ cancelled' \in [Requests -> BOOLEAN]
      BY <1>1, <2>1, <2>2, AwaitOrdered
    <2>4. TaskType'
      BY <1>1, <2>3 DEF TaskType, TypeInv, TypeOK, Entries
    <2> QED BY <2>2, <2>3, <2>4, TypedParts DEF TypeInv, TypeOK
  <1>3. CASE ~Running(tasks)
    <2>1. Forget(r, l, q) /\ UNCHANGED cancelled
      BY <1>3 DEF RemoveSection
    <2>2. QueueType' /\ HolderInv'
      BY <1>1, <2>1, FinishOrdered DEF Forget
    <2>3. TaskType'
      BY <1>1, <2>1 DEF TaskType, TypeInv, TypeOK, Entries
    <2> QED BY <2>1, <2>2, <2>3, TypedParts DEF Forget, Entries
  <1> QED BY <1>2, <1>3

LEMMA SessionTyped ==
  ASSUME TypeInv, NEW s \in Requests, SessionStep(s)
  PROVE  TypeInv'
  <1>1. QueueType' /\ HolderInv'
    BY DEF SessionStep, Begin, Checked, Leave, Closed, QueueType, HolderInv, Heads,
           TypeInv, TypeOK, requestVars
  <1>2. TaskType'
    BY DEF SessionStep, Begin, Checked, Leave, Closed, LeaveRun, TaskType, Stages,
           TypeInv, TypeOK, managerVars
  <1>3. instances' \in Entries /\ lock' \in Entries /\ enabled' \in BOOLEAN
    BY DEF SessionStep, Begin, Checked, Leave, Closed, LeaveRun, Entries,
           TypeInv, TypeOK, managerVars
  <1> QED BY <1>1, <1>2, <1>3, TypedParts

LEMMA RequestTyped ==
  ASSUME TypeInv, NEW r \in Requests, Call(r) \/ RequestStep(r)
  PROVE  TypeInv'
  <1>1. CASE Call(r)
    <2>1. QueueType' /\ HolderInv'
      BY <1>1 DEF Call, QueueType, HolderInv, Heads, TypeInv, TypeOK, Steps
    <2>2. enabled' \in BOOLEAN
      BY <1>1 DEF Call
    <2> QED BY <1>1, <2>1, <2>2, TypedParts DEF Call, TaskType, TypeInv, TypeOK, sessionVars
  <1>2. CASE AddStart(r)
    BY <1>2, AddEnterTyped, TypedParts DEF AddStart, TypeInv, TypeOK
  <1>3. CASE StartupSkip(r)
    <2>1. QueueType' /\ HolderInv'
      BY <1>3 DEF StartupSkip, QueueType, HolderInv, Heads, TypeInv, TypeOK, Steps
    <2> QED BY <1>3, <2>1, TypedParts
            DEF StartupSkip, TaskType, TypeInv, TypeOK, sessionVars, managerVars
  <1>4. CASE AddLocked(r)
    <2>1. held[r] \in Requests /\ Enters(r, held[r], queue[held[r]])
      BY <1>4, HeadEnters DEF AddLocked, TypeInv, HolderInv
    <2>2. QueueType' /\ HolderInv' /\ TaskType'
      BY <1>4, <2>1, AddTyped DEF AddLocked, TypeInv, TypeOK
    <2> QED BY <1>4, <2>2, TypedParts DEF AddLocked, TypeInv, TypeOK
  <1>5. CASE AddResume(r)
    <2>1. held[r] \in Requests /\ Enters(r, held[r], queue[held[r]])
      BY <1>5, HeadEnters DEF AddResume, TypeInv, HolderInv
    <2>2. QueueType' /\ HolderInv'
      BY <1>5, <2>1, FinishOrdered DEF AddResume, Create
    <2>3. TaskType'
      BY <1>5 DEF AddResume, Create, TaskType, TypeInv, TypeOK, Stages, Entries
    <2> QED BY <1>5, <2>2, <2>3, TypedParts DEF AddResume, TypeInv, TypeOK
  <1>6. CASE UpdateStart(r)
    <2>1. CASE Running(tasks)
      <3>1. tasks \in Requests
        BY <2>1 DEF Running, TypeInv, TypeOK, Entries
      <3>2. QueueType'
        BY <1>6, <2>1, <3>1 DEF UpdateStart, QueueType, TypeInv, TypeOK, Steps, Entries
      <3>3. HolderInv'
        BY <1>6, <2>1, <3>1 DEF UpdateStart, HolderInv, Heads, TypeInv, TypeOK
      <3>4. TaskType'
        BY <1>6, <2>1, <3>1 DEF UpdateStart, TaskType, TypeInv, TypeOK, managerVars
      <3> QED BY <1>6, <2>1, <3>2, <3>3, <3>4, TypedParts
              DEF UpdateStart, TypeInv, TypeOK, managerVars
    <2>2. CASE ~Running(tasks)
      <3>1. AddEnter(r, Nil) /\ instances' = Nil /\ pc[r] = "called"
        BY <1>6, <2>2 DEF UpdateStart
      <3> QED BY <3>1, AddEnterTyped, TypedParts DEF Entries
    <2> QED BY <2>1, <2>2
  <1>7. CASE UpdateResume(r)
    BY <1>7, AddEnterTyped, TypedParts DEF UpdateResume, Entries
  <1>8. CASE RemoveStart(r)
    <2> DEFINE l == LockFor(r)
    <2>1. l \in Requests
      BY DEF LockFor, TypeInv, TypeOK, Entries
    <2>2. CASE queue[l] = <<>>
      <3>1. RemoveSection(r, l, <<r>>, l) /\ pc[r] = "called"
        BY <1>8, <2>2 DEF RemoveStart
      <3>2. Enters(r, l, <<r>>)
        BY <2>2, FreeEnters
      <3> QED BY <2>1, <3>1, <3>2, RemoveTyped DEF Entries
    <2>3. CASE queue[l] # <<>>
      <3>1. Queue(r, l) /\ UNCHANGED <<managerVars, kind, sessionVars>> /\ pc[r] = "called"
        BY <1>8, <2>3 DEF RemoveStart
      <3>2. QueueType' /\ HolderInv'
        BY <2>1, <3>1, QueueOrdered
      <3> QED BY <3>1, <3>2, TypedParts
              DEF TaskType, TypeInv, TypeOK, managerVars, sessionVars
    <2> QED BY <2>2, <2>3
  <1>9. CASE RemoveLocked(r)
    <2>1. held[r] \in Requests /\ Enters(r, held[r], queue[held[r]])
      BY <1>9, HeadEnters DEF RemoveLocked, TypeInv, HolderInv
    <2> QED BY <1>9, <2>1, RemoveTyped DEF RemoveLocked, TypeInv, TypeOK
  <1>10. CASE RemoveResume(r)
    <2>1. held[r] \in Requests /\ Enters(r, held[r], queue[held[r]])
      BY <1>10, HeadEnters DEF RemoveResume, TypeInv, HolderInv
    <2>2. QueueType' /\ HolderInv'
      BY <1>10, <2>1, FinishOrdered DEF RemoveResume, Forget
    <2> QED BY <1>10, <2>2, TypedParts
            DEF RemoveResume, Forget, TaskType, TypeInv, TypeOK, sessionVars, Entries
  <1> QED BY <1>1, <1>2, <1>3, <1>4, <1>5, <1>6, <1>7, <1>8, <1>9, <1>10 DEF RequestStep

(* Every variable of the account manager keeps its type, a request that     *)
(* waits under a lock heads that lock's queue, for any requests.            *)
THEOREM AccountTypes == Spec => []TypeInv
  <1>1. Init => TypeInv
    BY DEF Init, TypeInv, TypeOK, HolderInv, Entries, Steps, Stages
  <1>2. TypeInv /\ [Next]_vars => TypeInv'
    <2> SUFFICES ASSUME TypeInv, [Next]_vars PROVE TypeInv'
      OBVIOUS
    <2>1. CASE UNCHANGED vars
      BY <2>1 DEF vars, managerVars, requestVars, sessionVars, TypeInv, TypeOK, HolderInv, Heads
    <2>2. ASSUME NEW r \in Requests, Call(r) \/ RequestStep(r) \/ SessionStep(r)
          PROVE  TypeInv'
      BY <2>2, RequestTyped, SessionTyped
    <2> QED BY <2>1, <2>2 DEF Next
  <1> QED BY <1>1, <1>2, PTL DEF Spec

-----------------------------------------------------------------------------
(* One running task *)

(* Nobody but the request that enters waits for a task under the lock.      *)
LEMMA NoOtherWaits ==
  ASSUME TypeInv, SerialInv, NEW r \in Requests, NEW q, Enters(r, LockFor(r), q),
         NEW x \in Requests, pc[x] = "end"
  PROVE  x = r
  <1>1. held[x] \in Requests /\ Heads(x, queue[held[x]])
    BY DEF TypeInv, HolderInv
  <1>2. held[x] = lock
    BY <1>1 DEF SerialInv, Heads
  <1>3. LockFor(r) = lock
    BY <1>1, <1>2, AccountAssumption DEF LockFor
  <1> QED BY <1>1, <1>2, <1>3 DEF Enters, Heads

(* A request's queues and lock after a step leave one lock in use.          *)
LEMMA OneLock ==
  ASSUME TypeInv, SerialInv, NEW r \in Requests, NEW q,
         queue' = [queue EXCEPT ![LockFor(r)] = q], lock' = LockFor(r),
         NEW x \in Requests, queue'[x] # <<>>
  PROVE  x = lock'
  <1>1. CASE x = LockFor(r)
    BY <1>1
  <1>2. CASE x # LockFor(r)
    <2>1. x = lock
      BY <1>2 DEF TypeInv, TypeOK, SerialInv
    <2> QED BY <2>1, AccountAssumption DEF LockFor
  <1> QED BY <1>1, <1>2

LEMMA CreateSerial ==
  ASSUME TypeInv, SerialInv, NEW r \in Requests, NEW q, Enters(r, LockFor(r), q),
         Create(r, LockFor(r), q), ~Running(tasks), lock' = LockFor(r),
         instances' = instances
  PROVE  SerialInv'
  <1>1. \A x \in Requests : queue'[x] # <<>> => x = lock'
    BY OneLock DEF Create, Finish
  <1>2. \A x \in Requests : pc'[x] \notin {"end", "stop"}
    BY NoOtherWaits DEF Create, Finish, SerialInv, TypeInv, TypeOK
  <1>3. \A x \in Requests : ~Running(x)
    BY DEF SerialInv
  <1>4. \A x \in Requests : Running(x)' => tasks' = x
    BY <1>3 DEF Create, Running, TypeInv, TypeOK
  <1>5. \A x \in Requests : sess'[x] = "up" => instances' = x
    BY DEF Create, SerialInv, TypeInv, TypeOK
  <1> QED BY <1>1, <1>2, <1>4, <1>5 DEF SerialInv

LEMMA AddSerial ==
  ASSUME TypeInv, SerialInv, NEW r \in Requests, NEW q, Enters(r, LockFor(r), q),
         AddSection(r, LockFor(r), q, tasks), lock' = LockFor(r),
         instances' = instances
  PROVE  SerialInv'
  <1>1. CASE Finish(r, LockFor(r), q) /\ tasks' = tasks /\ UNCHANGED sessionVars
    <2>1. \A x \in Requests : queue'[x] # <<>> => x = lock'
      BY <1>1, OneLock DEF Finish
    <2>2. \A x \in Requests : pc'[x] \notin {"end", "stop"}
      BY <1>1, NoOtherWaits DEF Finish, SerialInv, TypeInv, TypeOK
    <2> QED BY <1>1, <2>1, <2>2 DEF SerialInv, Running, sessionVars
  <1>2. CASE AwaitEnd(r, LockFor(r), q, tasks) /\ tasks' = tasks /\ UNCHANGED sess
    <2>1. \A x \in Requests : queue'[x] # <<>> => x = lock'
      BY <1>2, OneLock DEF AwaitEnd
    <2>2. \A x \in Requests : pc'[x] # "stop"
      BY <1>2 DEF AwaitEnd, SerialInv, TypeInv, TypeOK
    <2>3. \A x \in Requests : pc'[x] = "end" => awaited'[x] = tasks'
      BY <1>2, NoOtherWaits DEF AwaitEnd, TypeInv, TypeOK
    <2> QED BY <1>2, <2>1, <2>2, <2>3 DEF SerialInv, Running
  <1>3. CASE ~Running(tasks) /\ Create(r, LockFor(r), q)
    BY <1>3, CreateSerial
  <1> QED BY <1>1, <1>2, <1>3 DEF AddSection

(* A request that heads a queue holds the account's lock. *)
LEMMA HeadsLock ==
  ASSUME TypeInv, SerialInv, NEW r \in Requests, NEW l \in Requests, Heads(r, queue[l])
  PROVE  l = LockFor(r) /\ l = lock /\ Enters(r, LockFor(r), queue[l])
  <1>1. l = lock
    BY DEF Heads, SerialInv
  <1> QED BY <1>1, AccountAssumption, HeadEnters DEF LockFor

LEMMA RequestSerial ==
  ASSUME TypeInv, SerialInv, Serial, NEW r \in Requests, Call(r) \/ RequestStep(r)
  PROVE  SerialInv'
  <1>1. CASE Call(r)
    BY <1>1 DEF Call, SerialInv, Running, TypeInv, TypeOK, sessionVars
  <1>2. CASE AddStart(r)
    <2>1. lock' = LockFor(r) /\ LockFor(r) \in Requests /\ instances' = instances
      BY <1>2 DEF AddStart, AddEnter, LockFor, TypeInv, TypeOK, Entries
    <2>2. CASE queue[LockFor(r)] = <<>>
      <3>1. AddSection(r, LockFor(r), <<r>>, tasks)
        BY <1>2, <2>2 DEF AddStart, AddEnter
      <3> QED BY <2>1, <2>2, <3>1, FreeEnters, AddSerial
    <2>3. CASE queue[LockFor(r)] # <<>>
      <3>1. Queue(r, LockFor(r)) /\ tasks' = tasks /\ UNCHANGED sessionVars
        BY <1>2, <2>3 DEF AddStart, AddEnter
      <3>2. \A x \in Requests : queue'[x] # <<>> => x = lock'
        BY <2>1, <3>1, OneLock DEF Queue
      <3>3. \A x \in Requests : pc'[x] # "stop" /\ (pc'[x] = "end" => awaited'[x] = tasks')
        BY <3>1 DEF Queue, SerialInv, TypeInv, TypeOK
      <3> QED BY <2>1, <3>1, <3>2, <3>3 DEF SerialInv, Running, sessionVars
    <2> QED BY <2>2, <2>3
  <1>3. CASE StartupSkip(r)
    BY <1>3 DEF StartupSkip, SerialInv, Running, TypeInv, TypeOK, managerVars, sessionVars
  <1>4. CASE AddLocked(r)
    <2>1. held[r] \in Requests /\ Heads(r, queue[held[r]])
      BY <1>4 DEF AddLocked, TypeInv, HolderInv
    <2> QED BY <1>4, <2>1, HeadsLock, AddSerial DEF AddLocked
  <1>5. CASE AddResume(r)
    <2>1. held[r] \in Requests /\ Heads(r, queue[held[r]]) /\ ~Running(tasks)
      BY <1>5 DEF AddResume, TypeInv, HolderInv, SerialInv
    <2> QED BY <1>5, <2>1, HeadsLock, CreateSerial DEF AddResume
  <1>6. kind[r] \notin {"update", "remove"} /\ pc[r] # "stop"
    BY AccountAssumption DEF AllKinds, Serial, SerialInv
  <1> QED BY <1>1, <1>2, <1>3, <1>4, <1>5, <1>6
          DEF RequestStep, UpdateStart, UpdateResume, RemoveStart, RemoveLocked, RemoveResume

LEMMA SessionSerial ==
  ASSUME TypeInv, SerialInv, NEW s \in Requests, SessionStep(s)
  PROVE  SerialInv'
  <1>1. UNCHANGED <<tasks, lock, requestVars>>
    BY DEF SessionStep, Begin, Checked, Leave, Closed, managerVars
  <1>2. Running(s) /\ tasks = s
    BY AccountAssumption
       DEF SessionStep, Begin, Checked, Leave, Closed, Running, Stages, SerialInv
  <1>3. \A x \in Requests : x # s => ~Running(x)
    BY <1>2 DEF SerialInv
  <1>4. \A x \in Requests : x # s => sess'[x] = sess[x]
    BY DEF SessionStep, Begin, Checked, Leave, Closed, LeaveRun, TypeInv, TypeOK
  <1>5. \A x \in Requests : Running(x)' => tasks' = x
    BY <1>1, <1>2, <1>3, <1>4 DEF Running
  <1>6. \A x \in Requests : sess'[x] = "up" => x = s
    BY <1>3, <1>4, AccountAssumption DEF Running, Stages
  <1>7. sess'[s] = "up" => instances' = s
    BY DEF SessionStep, Begin, Checked, Leave, Closed, LeaveRun, TypeInv, TypeOK
  <1> QED BY <1>1, <1>5, <1>6, <1>7 DEF SerialInv, requestVars

(* While an account is only added and started, its task lock keeps it to    *)
(* one running task, and a connection that is up is the registered one, for *)
(* any number of requests and however tasks end.                            *)
THEOREM OneTaskAtATime == Spec => [](OneTask /\ Registered)
  <1>1. Init => TaskInv
    <2>1. Init => TypeInv
      BY DEF Init, TypeInv, TypeOK, HolderInv, Entries, Steps, Stages
    <2>2. Init => SerialInv
      BY DEF Init, SerialInv, Running
    <2> QED BY <2>1, <2>2 DEF TaskInv
  <1>2. TaskInv /\ [Next]_vars => TaskInv'
    <2> SUFFICES ASSUME TaskInv, [Next]_vars PROVE TaskInv'
      OBVIOUS
    <2>1. CASE UNCHANGED vars
      <3>1. TypeInv'
        BY <2>1 DEF vars, managerVars, requestVars, sessionVars, TaskInv, TypeInv, TypeOK,
                    HolderInv, Heads
      <3>2. Serial' => SerialInv'
        BY <2>1 DEF vars, managerVars, requestVars, sessionVars, TaskInv, Serial, SerialInv,
                    Running
      <3> QED BY <3>1, <3>2 DEF TaskInv
    <2>2. ASSUME NEW r \in Requests, Call(r) \/ RequestStep(r) \/ SessionStep(r)
          PROVE  TaskInv'
      <3>1. TypeInv'
        BY <2>2, RequestTyped, SessionTyped DEF TaskInv
      <3>2. ASSUME Serial' PROVE Serial
        <4>1. CASE Call(r)
          BY <3>2, <4>1 DEF Call, Serial, TaskInv, TypeInv, TypeOK, HolderInv
        <4>2. CASE RequestStep(r) \/ SessionStep(r)
          <5>1. kind' = kind
            BY <4>2 DEF RequestStep, SessionStep, AddStart, StartupSkip, AddLocked, AddResume,
                        UpdateStart, UpdateResume, RemoveStart, RemoveLocked, RemoveResume,
                        AddEnter, RemoveSection, Begin, Checked, Leave, Closed, requestVars
          <5> QED BY <3>2, <5>1 DEF Serial
        <4> QED BY <2>2, <4>1, <4>2
      <3>3. Serial' => SerialInv'
        BY <2>2, <3>2, RequestSerial, SessionSerial DEF TaskInv
      <3> QED BY <3>1, <3>3 DEF TaskInv
    <2> QED BY <2>1, <2>2 DEF Next
  <1>3. TaskInv => OneTask /\ Registered
    BY AccountAssumption DEF TaskInv, TypeInv, TypeOK, SerialInv, Running, OneTask, Registered
  <1> QED BY <1>1, <1>2, <1>3, PTL DEF Spec
=============================================================================
