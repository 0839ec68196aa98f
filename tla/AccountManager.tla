--------------------------- MODULE AccountManager ---------------------------
(***************************************************************************)
(* CookieManager (websocket/app/services/xianyu/cookie_manager.py) for one *)
(* account: the requests that add, remove, update and start its task, the  *)
(* lock they share, and the life of the tasks they create.  Its            *)
(* dictionaries are keyed by the account and share nothing between         *)
(* accounts, so that one account stands for all.                           *)
(*                                                                         *)
(* Everything runs on one event loop: an action is the code between two    *)
(* awaits.  Each request creates at most one asyncio task and at most one  *)
(* lock; both are named after the request, so that no counter is needed.   *)
(***************************************************************************)
EXTENDS Naturals, Sequences

CONSTANTS
  Requests,  \* calls of the manager, each made once
  Kinds,     \* the kinds of call that are made: a subset of AllKinds
  Nil        \* a missing dictionary entry

(* add: add_cookie and start_account; startup: start_all_tasks, which skips *)
(* a running or disabled account; update: update_cookie and the session's   *)
(* own _restart_instance; remove: remove_cookie, called by stop_account.    *)
(* restart_account calls remove and add.                                    *)
AllKinds == {"add", "startup", "update", "remove"}

ASSUME AccountAssumption == Kinds \subseteq AllKinds /\ Nil \notin Requests \cup AllKinds

VARIABLES
  tasks,      \* tasks: the registered task
  instances,  \* instances: the task whose XianyuAsync is registered
  lock,       \* _task_locks: the lock object
  enabled,    \* cookie_status
  queue,      \* a lock's holder, followed by its waiters in order
  kind,       \* what a request is
  pc,         \* the await a request stands at
  held,       \* the lock a request holds or waits for
  awaited,    \* the task a request waits for
  sess,       \* how far a task is
  cancelled   \* cancel() was called on a task

managerVars == <<tasks, instances, lock, enabled>>
requestVars == <<queue, kind, pc, held, awaited>>
sessionVars == <<sess, cancelled>>
vars == <<managerVars, requestVars, sessionVars>>

Entries == Requests \cup {Nil}

(* stop: _stop_task_async waits for the task, 3 seconds at most; lock: the  *)
(* task lock is waited for; end: the end of the task is waited for, with    *)
(* the lock held.                                                           *)
Steps == {"idle", "called", "stop", "lock", "end", "done"}

(* check: the expiry of the account's user is looked up; up: the connection *)
(* loop of main(); closing: main()'s finally.                               *)
Stages == {"none", "new", "check", "up", "closing", "over"}

Init ==
  /\ tasks = Nil /\ instances = Nil /\ lock = Nil /\ enabled \in BOOLEAN
  /\ queue = [l \in Requests |-> <<>>]
  /\ kind = [r \in Requests |-> Nil] /\ pc = [r \in Requests |-> "idle"]
  /\ held = [r \in Requests |-> Nil] /\ awaited = [r \in Requests |-> Nil]
  /\ sess = [s \in Requests |-> "none"]
  /\ cancelled = [s \in Requests |-> FALSE]

-----------------------------------------------------------------------------
(* The task of an account: _run_xianyu around XianyuAsync.main *)

(* not task.done(); the mutant takes a cancelled task for a finished one. *)
UncancelledRunning(t) == t # Nil /\ sess[t] \in Stages \ {"none", "over"} /\ ~cancelled[t]
Running(t) == t # Nil /\ sess[t] \in Stages \ {"none", "over"}

(* The task's first step.  A task cancelled before it ends without running, *)
(* its finally included; without a user there is nothing to look up.        *)
Begin(s) ==
  /\ sess[s] = "new"
  /\ \/ /\ cancelled[s]
        /\ sess' = [sess EXCEPT ![s] = "over"]
        /\ UNCHANGED instances
     \/ /\ ~cancelled[s]
        /\ sess' = [sess EXCEPT ![s] = "check"]
        /\ UNCHANGED instances
     \/ /\ ~cancelled[s]
        /\ sess' = [sess EXCEPT ![s] = "up"]
        /\ instances' = s
  /\ UNCHANGED <<tasks, lock, enabled, requestVars, cancelled>>

(* _run_xianyu's finally, whatever instance is registered by now.           *)
LeaveRun(s) ==
  /\ sess' = [sess EXCEPT ![s] = "over"]
  /\ instances' = Nil

(* The user has expired and the account is disabled, the instance cannot be *)
(* made, the task is cancelled, or the instance is registered and started.  *)
Checked(s) ==
  /\ sess[s] = "check"
  /\ \/ LeaveRun(s) /\ UNCHANGED enabled
     \/ ~cancelled[s] /\ LeaveRun(s) /\ enabled' = FALSE
     \/ /\ ~cancelled[s]
        /\ sess' = [sess EXCEPT ![s] = "up"] /\ instances' = s
        /\ UNCHANGED enabled
  /\ UNCHANGED <<tasks, lock, requestVars, cancelled>>

(* main() is left because the task was cancelled, or by itself: the account *)
(* was disabled in the database.                                            *)
Leave(s) ==
  /\ sess[s] = "up"
  /\ sess' = [sess EXCEPT ![s] = "closing"]
  /\ UNCHANGED <<managerVars, requestVars, cancelled>>

(* The background tasks were waited for and the HTTP session is closed; a   *)
(* cancellation meanwhile is swallowed there.                               *)
Closed(s) ==
  /\ sess[s] = "closing"
  /\ LeaveRun(s)
  /\ UNCHANGED <<tasks, lock, enabled, requestVars, cancelled>>

-----------------------------------------------------------------------------
(* The task lock *)

(* _get_task_lock: the account's lock, made by the first who asks. *)
LockFor(r) == IF lock = Nil THEN r ELSE lock

(* Waiters are served in order; the mutant lets a newcomer go first. *)
QueuedFirst(q, r) == <<r>> \o q
Queued(q, r) == Append(q, r)

Queue(r, l) ==
  /\ queue' = [queue EXCEPT ![l] = Queued(@, r)]
  /\ held' = [held EXCEPT ![r] = l]
  /\ pc' = [pc EXCEPT ![r] = "lock"]
  /\ awaited' = [awaited EXCEPT ![r] = Nil]

Heads(r, q) == q # <<>> /\ Head(q) = r

(* The end of "async with lock": the next waiter is woken.  (Mutant: a      *)
(* return that keeps the lock.)                                             *)
UnlockedForgotten(q) == q
Unlocked(q) == Tail(q)

Finish(r, l, q) ==
  /\ queue' = [queue EXCEPT ![l] = Unlocked(q)]
  /\ held' = [held EXCEPT ![r] = Nil]
  /\ pc' = [pc EXCEPT ![r] = "done"]
  /\ awaited' = [awaited EXCEPT ![r] = Nil]

(* cancel() and the wait for the task's end, with the lock held. *)
AwaitEnd(r, l, q, t) ==
  /\ queue' = [queue EXCEPT ![l] = q]
  /\ held' = [held EXCEPT ![r] = l]
  /\ pc' = [pc EXCEPT ![r] = "end"]
  /\ awaited' = [awaited EXCEPT ![r] = t]
  /\ cancelled' = [cancelled EXCEPT ![t] = TRUE]

-----------------------------------------------------------------------------
(* The requests *)

(* The call: add_cookie and start_account enable the account before the     *)
(* coroutine runs.                                                          *)
Call(r) ==
  /\ pc[r] = "idle"
  /\ \E k \in Kinds : /\ kind' = [kind EXCEPT ![r] = k]
                      /\ enabled' = (enabled \/ k = "add")
  /\ pc' = [pc EXCEPT ![r] = "called"]
  /\ UNCHANGED <<tasks, instances, lock, queue, held, awaited, sessionVars>>

Create(r, l, q) ==
  /\ Finish(r, l, q)
  /\ tasks' = r
  /\ sess' = [sess EXCEPT ![r] = "new"]
  /\ UNCHANGED cancelled

(* _add_cookie_async under lock l, whose queue q is headed by r; t is the   *)
(* registered task.                                                         *)
AddSection(r, l, q, t) ==
  \/ /\ kind[r] = "startup" /\ (enabled => Running(t))
     /\ Finish(r, l, q)
     /\ tasks' = t /\ UNCHANGED sessionVars
  \/ /\ kind[r] # "startup" /\ Running(t)
     /\ AwaitEnd(r, l, q, t)
     /\ tasks' = t /\ UNCHANGED sess
  \/ /\ kind[r] = "startup" => enabled
     /\ ~Running(t)
     /\ Create(r, l, q)

(* _add_cookie_async from its start: at once when the lock is free.         *)
AddEnter(r, t) ==
  LET l == LockFor(r) IN
  /\ lock' = l
  /\ IF queue[l] = <<>> THEN AddSection(r, l, <<r>>, t)
     ELSE Queue(r, l) /\ tasks' = t /\ UNCHANGED sessionVars
  /\ UNCHANGED <<enabled, kind>>

AddStart(r) ==
  /\ pc[r] = "called" /\ kind[r] \in {"add", "startup"}
  /\ kind[r] = "startup" => enabled
  /\ AddEnter(r, tasks)
  /\ UNCHANGED instances

(* start_all_tasks skips a disabled account without asking for the lock.    *)
StartupSkip(r) ==
  /\ pc[r] = "called" /\ kind[r] = "startup" /\ ~enabled
  /\ pc' = [pc EXCEPT ![r] = "done"]
  /\ UNCHANGED <<managerVars, queue, kind, held, awaited, sessionVars>>

AddLocked(r) ==
  LET l == held[r] IN
  /\ pc[r] = "lock" /\ kind[r] # "remove" /\ Heads(r, queue[l])
  /\ AddSection(r, l, queue[l], tasks)
  /\ UNCHANGED <<instances, lock, enabled, kind>>

(* The old task has ended: its entry is popped, whoever's it is by now.     *)
AddResume(r) ==
  LET l == held[r] IN
  /\ pc[r] = "end" /\ kind[r] # "remove" /\ ~Running(awaited[r])
  /\ Create(r, l, queue[l])
  /\ UNCHANGED <<instances, lock, enabled, kind>>

(* _stop_task_async, without the lock, and then _add_cookie_async.          *)
UpdateStart(r) ==
  /\ pc[r] = "called" /\ kind[r] = "update"
  /\ IF Running(tasks)
     THEN /\ cancelled' = [cancelled EXCEPT ![tasks] = TRUE]
          /\ pc' = [pc EXCEPT ![r] = "stop"]
          /\ awaited' = [awaited EXCEPT ![r] = tasks]
          /\ UNCHANGED <<managerVars, queue, kind, held, sess>>
     ELSE AddEnter(r, Nil) /\ instances' = Nil

(* The old task has ended, or its 3 seconds are over and it is forgotten.   *)
UpdateResume(r) ==
  /\ pc[r] = "stop"
  /\ AddEnter(r, Nil) /\ instances' = Nil

(* The end of _remove_cookie_async: the entries are popped, the lock's too. *)
Forget(r, l, q) ==
  /\ Finish(r, l, q)
  /\ instances' = Nil /\ lock' = Nil /\ enabled' = FALSE

(* _remove_cookie_async under the lock: wait_for(task, 10) waits for the    *)
(* end of the task, as it cancels it again after 10 seconds and awaits it.  *)
(* current is the account's lock, which may have replaced l by now.         *)
RemoveSection(r, l, q, current) ==
  /\ tasks' = Nil
  /\ IF Running(tasks)
     THEN AwaitEnd(r, l, q, tasks) /\ lock' = current /\ UNCHANGED <<instances, enabled>>
     ELSE Forget(r, l, q) /\ UNCHANGED cancelled
  /\ UNCHANGED <<kind, sess>>

RemoveStart(r) ==
  LET l == LockFor(r) IN
  /\ pc[r] = "called" /\ kind[r] = "remove"
  /\ IF queue[l] = <<>> THEN RemoveSection(r, l, <<r>>, l)
     ELSE Queue(r, l) /\ UNCHANGED <<managerVars, kind, sessionVars>>

RemoveLocked(r) ==
  LET l == held[r] IN
  /\ pc[r] = "lock" /\ kind[r] = "remove" /\ Heads(r, queue[l])
  /\ RemoveSection(r, l, queue[l], lock)

RemoveResume(r) ==
  LET l == held[r] IN
  /\ pc[r] = "end" /\ kind[r] = "remove" /\ ~Running(awaited[r])
  /\ Forget(r, l, queue[l])
  /\ UNCHANGED <<tasks, kind, sessionVars>>

RequestStep(r) ==
  \/ AddStart(r) \/ StartupSkip(r) \/ AddLocked(r) \/ AddResume(r)
  \/ UpdateStart(r) \/ UpdateResume(r)
  \/ RemoveStart(r) \/ RemoveLocked(r) \/ RemoveResume(r)

SessionStep(s) == Begin(s) \/ Checked(s) \/ Leave(s) \/ Closed(s)

Next == \E r \in Requests : Call(r) \/ RequestStep(r) \/ SessionStep(r)

Spec == Init /\ [][Next]_vars

(* Ready coroutines run, a cancelled task leaves main(), and every await of *)
(* main()'s finally has a timeout.  A session need not end by itself.       *)
Fairness ==
  \A r \in Requests :
    /\ WF_vars(RequestStep(r))
    /\ WF_vars(Begin(r) \/ Checked(r) \/ Closed(r) \/ (cancelled[r] /\ Leave(r)))

FairSpec == Spec /\ Fairness
-----------------------------------------------------------------------------
TypeOK ==
  /\ tasks \in Entries /\ instances \in Entries /\ lock \in Entries
  /\ enabled \in BOOLEAN
  /\ queue \in [Requests -> Seq(Requests)]
  /\ kind \in [Requests -> Kinds \cup {Nil}] /\ pc \in [Requests -> Steps]
  /\ held \in [Requests -> Entries] /\ awaited \in [Requests -> Entries]
  /\ sess \in [Requests -> Stages] /\ cancelled \in [Requests -> BOOLEAN]

(* Whoever waits for the end of a task holds the lock it names: it is the   *)
(* first in that lock's queue.                                              *)
HolderInv ==
  /\ \A r \in Requests : pc[r] \in {"lock", "end"} => held[r] \in Requests
  /\ \A r \in Requests : pc[r] = "end" => Heads(r, queue[held[r]])
  /\ \A r \in Requests : pc[r] = "idle" => kind[r] = Nil

(* The types, with the order of the lock's queue: a request that waits for  *)
(* the old task's end is not overtaken on its lock.                         *)
TypeInv == TypeOK /\ HolderInv

(* Only additions and start-up: no update, which works without the lock,    *)
(* and no removal, which drops it.                                          *)
Serial == \A r \in Requests : kind[r] \in {"add", "startup", Nil}

(* The task lock does what it is for: with additions and start-up alone,    *)
(* whatever their order and wherever a task is when it is cancelled, one    *)
(* task of the account runs at a time.                                      *)
OneTask ==
  Serial => \A s, t \in Requests :
              sess[s] \notin {"none", "over"} /\ sess[t] \notin {"none", "over"} => s = t

(* The instance of a connection that nobody asked to stop is the registered *)
(* one, which requests to deliver look up, although every ending task pops  *)
(* the entry.                                                               *)
Registered ==
  Serial => \A s \in Requests : sess[s] = "up" => instances = s

(* Every request ends: no two of them wait for each other, and a lock that  *)
(* is dropped by a removal still wakes its waiters.                         *)
EveryRequestEnds == \A r \in Requests : pc[r] = "called" ~> pc[r] = "done"

-----------------------------------------------------------------------------
(* What the repository says of itself, and the code does not do *)

(* "each account's task lock, against repeated creation"                    *)
(* (cookie_manager.py): one connection of the account that nobody asked to  *)
(* stop, whatever the requests.                                             *)
OneSession ==
  \A s, t \in Requests :
     /\ sess[s] = "up" /\ ~cancelled[s]
     /\ sess[t] = "up" /\ ~cancelled[t]
     => s = t
=============================================================================
