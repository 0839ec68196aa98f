--------------------------- MODULE WeightedRunner ---------------------------
(***************************************************************************)
(* WeightedTaskRunner (common/services/captcha/weighted_runner.py): slider *)
(* tasks that move the one real mouse wait here, in front of the browser   *)
(* thread pool, and a dispatcher hands them over one at a time.  Local and *)
(* remote tasks share the mouse by smooth weighted round-robin.            *)
(*                                                                         *)
(* All of it runs on one event loop and nothing awaits with the lock held, *)
(* so that the lock is never waited for: an action is the code between two *)
(* awaits.  The three deques are the set of waiting tasks and, for each,   *)
(* the tasks that were there before it.                                    *)
(***************************************************************************)
EXTENDS Integers

CONSTANTS
  Tasks,        \* callers of submit, each with one call at a time
  Dispatchers,  \* names for the asyncio tasks that run _dispatch_loop
  Scale,        \* the larger of two weights once they are scaled
  Weights,      \* the weights an administrator may set
  MaxCalls,     \* bound on the calls of submit
  MaxSettings,  \* bound on the changes of the weights
  Nil           \* None

Buckets == {"local", "remote"}
Classes == {"local", "remote", "remote_cookie"}
BucketOf(c) == IF c = "local" THEN "local" ELSE "remote"

(* The code divides both weights by the larger one, and takes 1:1 when both *)
(* are 0; here they are integers, the larger one being Scale.               *)
Scaled == {w \in [Buckets -> 0..Scale] : \E b \in Buckets : w[b] = Scale}

ASSUME RunnerAssumption ==
  /\ Scale \in Nat \ {0} /\ Weights \subseteq Scaled /\ {MaxCalls, MaxSettings} \subseteq Nat
  /\ Dispatchers # {} /\ Nil \notin Tasks \cup Dispatchers \cup Scaled \cup Classes

VARIABLES
  weights,     \* the weights in system_settings
  settings,    \* how often they were changed
  calls,       \* how often submit was called
  class,       \* the deque a task waits in, or Nil
  future,      \* none: nobody waits for it; pending; cancelled by its caller
  before,      \* those that were enqueued before each of them
  aged,        \* those that have waited for 70 seconds
  dispatcher,  \* _dispatcher_task
  loop,        \* where a dispatcher stands
  picked,      \* the task it runs
  stranded,    \* history: a CancelledError ended the last one while tasks waited
  current,     \* _current
  signature,   \* _weight_signature; Nil: _was_contended is False
  passed       \* history: how often a waiting bucket was passed over

queueVars == <<class, future, before, aged, calls>>
shareVars == <<current, signature, passed>>
dispatchVars == <<dispatcher, loop, picked, stranded>>
settingVars == <<weights, settings>>
runnerVars == <<queueVars, shareVars, dispatchVars, settingVars>>

waiting == {t \in Tasks : class[t] # Nil}

Zero == [b \in Buckets |-> 0]

RunnerInit ==
  /\ weights \in Weights /\ settings = 0 /\ calls = 0
  /\ class = [t \in Tasks |-> Nil] /\ future = [t \in Tasks |-> "none"]
  /\ before = [t \in Tasks |-> {}] /\ aged = {}
  /\ dispatcher = Nil /\ stranded = FALSE
  /\ loop = [d \in Dispatchers |-> "none"]
  /\ picked = [d \in Dispatchers |-> Nil]
  /\ current = Zero /\ signature = Nil /\ passed = Zero

-----------------------------------------------------------------------------
(* The callers *)

(* _ensure_dispatcher_locked: a dispatcher is started unless one is there.  *)
(* (Mutant: started without looking.)                                       *)
Free == CHOOSE d \in Dispatchers : loop[d] = "none"
NeededAlways == \E d \in Dispatchers : loop[d] = "none"
Needed == dispatcher = Nil

Ensure ==
  IF Needed
  THEN dispatcher' = Free /\ loop' = [loop EXCEPT ![Free] = "top"] /\ stranded' = FALSE
  ELSE UNCHANGED <<dispatcher, loop, stranded>>

Submit(t, c) ==
  /\ future[t] = "none" /\ calls < MaxCalls /\ calls' = calls + 1
  /\ class' = [class EXCEPT ![t] = c]
  /\ future' = [future EXCEPT ![t] = "pending"]
  /\ before' = [before EXCEPT ![t] = waiting]
  /\ Ensure
  /\ UNCHANGED <<aged, picked, shareVars, settingVars>>

(* The caller is cancelled, and its future with it: the task stays in its   *)
(* deque until the next purge, or runs to its end.  Nobody will answer a    *)
(* lost one.                                                                *)
Lost(t) == class[t] = Nil /\ \A d \in Dispatchers : picked[d] # t
Cancel(t) ==
  /\ future[t] = "pending"
  /\ future' = [future EXCEPT ![t] = IF Lost(t) THEN "none" ELSE "cancelled"]
  /\ UNCHANGED <<class, before, aged, calls, shareVars, dispatchVars, settingVars>>

(* Seventy seconds have passed since a remote task was enqueued, and then   *)
(* since every remote task before it.                                       *)
Remote(t) == BucketOf(class[t]) = "remote"
Age(t) ==
  /\ t \in waiting \ aged /\ Remote(t)
  /\ \A u \in before[t] : Remote(u) => u \in aged
  /\ aged' = aged \cup {t}
  /\ UNCHANGED <<class, future, before, calls, shareVars, dispatchVars, settingVars>>

SetWeights(w) ==
  /\ settings < MaxSettings
  /\ weights' = w /\ settings' = settings + 1
  /\ UNCHANGED <<queueVars, shareVars, dispatchVars>>

-----------------------------------------------------------------------------
(* Choosing the next task *)

(* _purge_cancelled_locked.                                                  *)
Live == {t \in waiting : future[t] # "cancelled"}

Pending(q) == {BucketOf(class[t]) : t \in q}

(* The head of each of a bucket's deques.                                   *)
Heads(q, b) == {t \in q : /\ BucketOf(class[t]) = b
                          /\ \A u \in before[t] \cap q : class[u] # class[t]}

(* _subqueue_order_key: a head that has waited for 70 seconds goes first,   *)
(* the earlier of two; otherwise the queue without a cookie goes first.     *)
(* (Mutant: it always does.)                                                *)
WithoutCookieFirst(q, b) ==
  {t \in Heads(q, b) : \A u \in Heads(q, b) : class[t] = "remote_cookie" => class[u] = class[t]}
Foremost(q, b) ==
  LET old == Heads(q, b) \cap aged
  IN  IF old # {} THEN {t \in old : before[t] \cap old = {}}
      ELSE {t \in Heads(q, b) :
              \A u \in Heads(q, b) : class[t] = "remote_cookie" => class[u] = class[t]}

(* _pick_task_locked when both buckets wait: the scores of another round,   *)
(* of other weights, are forgotten; each bucket gains its weight, the       *)
(* higher score is served, the local bucket on a tie, and pays for both.    *)
(* (Mutants: the lower score is served; it pays nothing.)                   *)
Gained(w) == [b \in Buckets |-> (IF signature = w THEN current[b] ELSE 0) + w[b]]
Lowest(w) == IF Gained(w)["local"] <= Gained(w)["remote"] THEN "local" ELSE "remote"
Best(w) == IF Gained(w)["local"] >= Gained(w)["remote"] THEN "local" ELSE "remote"
PaidNothing(w) == Gained(w)
Paid(w) == [Gained(w) EXCEPT ![Best(w)] = @ - (w["local"] + w["remote"])]

Share(w) ==
  /\ signature' = w /\ current' = Paid(w)
  /\ passed' = [b \in Buckets |->
       IF b = Best(w) THEN 0 ELSE (IF signature = w THEN passed[b] ELSE 0) + 1]

(* _reset_smooth_state *)
NoShare == signature' = Nil /\ current' = Zero /\ passed' = Zero

(* The deques become q: what was picked, answered or cancelled is gone.     *)
Remaining(q, answered) ==
  /\ class' = [t \in Tasks |-> IF t \in q THEN class[t] ELSE Nil]
  /\ future' = [t \in Tasks |-> 
       IF t \in answered \cup (waiting \ Live) THEN "none" ELSE future[t]]
  /\ before' = [t \in Tasks |-> before[t] \cap q]
  /\ aged' = aged \cap q

Run(d, b, answered) ==
  \E t \in Foremost(Live, b) :
    /\ Remaining(Live \ {t}, answered)
    /\ picked' = [picked EXCEPT ![d] = t] /\ loop' = [loop EXCEPT ![d] = "run"]
    /\ UNCHANGED dispatcher

(* The finally clause after a return, which finds the deques empty.         *)
Return(d, answered) ==
  /\ Remaining({}, answered) /\ NoShare
  /\ dispatcher' = Nil
  /\ loop' = [loop EXCEPT ![d] = "none"] /\ picked' = [picked EXCEPT ![d] = Nil]

(* The top of the loop: nothing waits, one bucket waits, or the weights are *)
(* needed and are read from the database in a thread.                       *)
Top(d, answered) ==
  \/ Live = {} /\ Return(d, answered)
  \/ \E b \in Buckets : Pending(Live) = {b} /\ Run(d, b, answered) /\ NoShare
  \/ /\ Pending(Live) = Buckets
     /\ Remaining(Live, answered)
     /\ loop' = [loop EXCEPT ![d] = "weights"] /\ picked' = [picked EXCEPT ![d] = Nil]
     /\ UNCHANGED <<dispatcher, shareVars>>

Begin(d) ==
  /\ loop[d] = "top" /\ Top(d, {})
  /\ UNCHANGED <<calls, stranded, settingVars>>

(* The weights have come; by now a caller may have been cancelled.  The     *)
(* loader keeps the last weights when the database fails.                   *)
Choose(d) ==
  /\ loop[d] = "weights"
  /\ \/ Pending(Live) = Buckets /\ Run(d, Best(weights), {}) /\ Share(weights)
     \/ Pending(Live) # Buckets /\ Top(d, {})
  /\ UNCHANGED <<calls, stranded, settingVars>>

(* The call has returned or raised an Exception: its caller is answered,    *)
(* unless it was cancelled, and the loop goes on.                           *)
Finish(d) ==
  /\ loop[d] = "run" /\ Top(d, {picked[d]})
  /\ UNCHANGED <<calls, stranded, settingVars>>

(* The finally clause alone, after something that is no Exception: the next *)
(* dispatcher is started, with the same name here, if tasks wait and        *)
(* restart_pending says so.  The caller of the task that ran is never       *)
(* answered.  (Mutant: no next dispatcher is started.)                      *)
RestartNever == FALSE
Restart == Live # {}

Leave(d, restart_pending) ==
  LET again == restart_pending /\ Restart
  IN  /\ Remaining(Live, {t \in Tasks : t = picked[d] /\ future[t] = "cancelled"})
      /\ dispatcher' = IF again THEN d ELSE Nil
      /\ loop' = [loop EXCEPT ![d] = IF again THEN "top" ELSE "none"]
      /\ picked' = [picked EXCEPT ![d] = Nil]
      /\ stranded' = (Live # {} /\ ~restart_pending)
      /\ IF Live = {} THEN NoShare ELSE UNCHANGED shareVars
      /\ UNCHANGED <<calls, settingVars>>

(* The call has raised it.  (The weights are read by code that raises        *)
(* Exceptions only.)                                                        *)
Abort(d) == loop[d] = "run" /\ Leave(d, TRUE)

(* A CancelledError: no dispatcher follows, and what waits stays in its     *)
(* deque until somebody calls submit.  The call may raise one, or an        *)
(* executor drop the future that is awaited.  (The event loop cancels the   *)
(* dispatcher itself only when the process ends; then nobody submits.)      *)
Cancelled(d) == loop[d] \in {"weights", "run"} /\ Leave(d, FALSE)

RunnerNext ==
  \/ \E t \in Tasks, c \in Classes : Submit(t, c)
  \/ \E t \in Tasks : Cancel(t) \/ Age(t)
  \/ \E w \in Weights : SetWeights(w)
  \/ \E d \in Dispatchers : Begin(d) \/ Choose(d) \/ Finish(d) \/ Abort(d) \/ Cancelled(d)

RunnerSpec == RunnerInit /\ [][RunnerNext]_runnerVars

(* The dispatcher is run by the event loop, and the database and a browser  *)
(* task answer or time out.                                                 *)
RunnerFairness ==
  WF_runnerVars(\E d \in Dispatchers :
                  Begin(d) \/ Choose(d) \/ Finish(d) \/ Abort(d) \/ Cancelled(d))

RunnerFairSpec == RunnerSpec /\ RunnerFairness

-----------------------------------------------------------------------------
RunnerTypes ==
  /\ weights \in Weights /\ settings \in 0..MaxSettings /\ calls \in 0..MaxCalls
  /\ class \in [Tasks -> Classes \cup {Nil}]
  /\ future \in [Tasks -> {"none", "pending", "cancelled"}]
  /\ before \in [Tasks -> SUBSET Tasks] /\ aged \subseteq Tasks
  /\ dispatcher \in Dispatchers \cup {Nil} /\ stranded \in BOOLEAN
  /\ loop \in [Dispatchers -> {"none", "top", "weights", "run"}]
  /\ picked \in [Dispatchers -> Tasks \cup {Nil}]
  /\ current \in [Buckets -> -Scale..Scale] /\ passed \in [Buckets -> Nat]
  /\ signature \in Weights \cup {Nil}

(* The one mouse: two tasks never run at the same time, and a task runs for *)
(* the registered dispatcher only.                                          *)
OneCursor == \A d \in Dispatchers : loop[d] # "none" => d = dispatcher

(* A task that waits has a dispatcher that will come back for it, whatever  *)
(* its predecessor's call ended with, unless that was a CancelledError:     *)
(* then there is none, and the next call of submit starts one.              *)
NoLostTask ==
  waiting # {} => IF stranded THEN dispatcher = Nil
                  ELSE dispatcher # Nil /\ loop[dispatcher] # "none"

(* The share of a bucket: as long as both wait and the weights stand, a     *)
(* bucket of weight w is passed over at most ceil(v / w) times in a row in  *)
(* favour of one of weight v.                                               *)
FairShare ==
  signature # Nil =>
    \A b, o \in Buckets : b # o /\ passed[b] > 0 =>
      (passed[b] - 1) * signature[b] < signature[o]

(* A remote task that has waited for 70 seconds is not overtaken by a       *)
(* remote task that came later.                                             *)
AgedInOrder ==
  [][\A d \in Dispatchers, t \in aged : 
       picked'[d] # picked[d] /\ picked'[d] \in waiting /\ Remote(picked'[d]) /\ t \in waiting'
         => picked'[d] \in before[t]]_runnerVars

(* Every task that is submitted leaves its deque: it is run, or dropped     *)
(* because its caller was cancelled, or a CancelledError has left it        *)
(* without a dispatcher; the next call of submit ends that, and from then   *)
(* on the same is promised again.                                           *)
EveryTaskServed == \A t \in Tasks : t \in waiting ~> t \notin waiting \/ stranded
=============================================================================
