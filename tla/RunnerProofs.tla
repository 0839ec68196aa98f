---------------------------- MODULE RunnerProofs ----------------------------
(***************************************************************************)
(* Theorems about WeightedRunner, for any number of tasks, any weights and *)
(* any number of calls: the types, one task at a time on the mouse, no     *)
(* task without a dispatcher, and the share of each bucket.                *)
(***************************************************************************)
EXTENDS WeightedRunner, FiniteSetTheorems, TLAPS

(* The dispatcher that is registered is there, and strands nobody. *)
Registered == dispatcher # Nil => loop[dispatcher] # "none" /\ ~stranded

Total(w) == w["local"] + w["remote"]

(* The scores of a round cancel out and stay within half the sum of the     *)
(* weights.                                                                 *)
Balanced(w) ==
  /\ current["local"] + current["remote"] = 0
  /\ \A b \in Buckets : -Total(w) <= 2 * current[b] /\ 2 * current[b] <= Total(w)

(* A bucket that is passed over keeps the weights it has gained since it    *)
(* was served.                                                              *)
Gains(w) ==
  /\ 2 * (passed["local"] * w["local"]) <= 2 * current["local"] + Total(w)
  /\ 2 * (passed["remote"] * w["remote"]) < 2 * current["remote"] + Total(w)
  /\ passed["local"] > 0 => 2 * current["local"] < Total(w)

ShareInv == signature # Nil => Balanced(signature) /\ Gains(signature)

RunnerInv == RunnerTypes /\ OneCursor /\ NoLostTask /\ Registered /\ ShareInv

-----------------------------------------------------------------------------
LEMMA WeightTypes ==
  ASSUME NEW w \in Weights
  PROVE  /\ w \in [Buckets -> 0..Scale] /\ w # Nil
         /\ w["local"] \in Nat /\ w["remote"] \in Nat
         /\ Total(w) \in Nat /\ 0 < Total(w) /\ Total(w) <= 2 * Scale
  <1>1. w \in [Buckets -> 0..Scale] /\ w # Nil /\ \E b \in Buckets : w[b] = Scale
    BY RunnerAssumption DEF Scaled
  <1>2. w["local"] \in 0..Scale /\ w["remote"] \in 0..Scale
    BY <1>1 DEF Buckets
  <1>3. w["local"] = Scale \/ w["remote"] = Scale
    BY <1>1 DEF Buckets
  <1> QED BY <1>1, <1>2, <1>3, RunnerAssumption DEF Total

LEMMA OneMore ==
  ASSUME NEW k \in Nat, NEW w \in Nat
  PROVE  (k + 1) * w = k * w + w /\ k * w \in Nat /\ 0 * w = 0
  OBVIOUS

(* The arithmetic of a round: l and r are the scores, v and w the weights,  *)
(* x and y what the buckets have gained.                                    *)
LEMMA LocalServed ==
  ASSUME NEW l \in Int, NEW r \in Int, NEW v \in Nat, NEW w \in Nat, NEW y \in Nat,
         0 < v + w, l + r = 0, 2 * y < 2 * r + (v + w),
         -(v + w) <= 2 * l, 2 * l <= v + w, l + v >= r + w
  PROVE  /\ l + v - (v + w) + (r + w) = 0
         /\ -(v + w) <= 2 * (l + v - (v + w)) /\ 2 * (l + v - (v + w)) <= v + w
         /\ -(v + w) <= 2 * (r + w) /\ 2 * (r + w) <= v + w
         /\ 0 <= 2 * (l + v - (v + w)) + (v + w)
         /\ 2 * (y + w) < 2 * (r + w) + (v + w)
  OBVIOUS

LEMMA RemoteServed ==
  ASSUME NEW l \in Int, NEW r \in Int, NEW v \in Nat, NEW w \in Nat, NEW x \in Nat,
         0 < v + w, l + r = 0, 2 * x <= 2 * l + (v + w),
         -(v + w) <= 2 * l, 2 * l <= v + w, ~(l + v >= r + w)
  PROVE  /\ l + v + (r + w - (v + w)) = 0
         /\ -(v + w) <= 2 * (r + w - (v + w)) /\ 2 * (r + w - (v + w)) <= v + w
         /\ -(v + w) <= 2 * (l + v) /\ 2 * (l + v) < v + w
         /\ 0 < 2 * (r + w - (v + w)) + (v + w)
         /\ 2 * (x + v) <= 2 * (l + v) + (v + w)
  OBVIOUS

ShareTypes ==
  /\ current \in [Buckets -> -Scale..Scale] /\ passed \in [Buckets -> Nat]
  /\ signature \in Weights \cup {Nil}

LEMMA ShareStep ==
  ASSUME RunnerTypes, ShareInv, NEW w \in Weights, Share(w)
  PROVE  ShareInv' /\ ShareTypes'
  <1> DEFINE l == IF signature = w THEN current["local"] ELSE 0
             r == IF signature = w THEN current["remote"] ELSE 0
             p == IF signature = w THEN passed["local"] ELSE 0
             q == IF signature = w THEN passed["remote"] ELSE 0
             x == p * w["local"]
             y == q * w["remote"]
  <1>1. /\ w["local"] \in Nat /\ w["remote"] \in Nat /\ w # Nil
        /\ 0 < Total(w) /\ Total(w) <= 2 * Scale /\ Scale \in Nat
    BY WeightTypes, RunnerAssumption
  <1>2. l \in Int /\ r \in Int /\ p \in Nat /\ q \in Nat
    BY DEF RunnerTypes, Buckets
  <1>3. x \in Nat /\ y \in Nat
    BY <1>1, <1>2, OneMore
  <1>4. /\ l + r = 0 /\ -Total(w) <= 2 * l /\ 2 * l <= Total(w)
        /\ 2 * x <= 2 * l + Total(w) /\ 2 * y < 2 * r + Total(w)
    <2>1. CASE signature = w
      <3>1. Balanced(w) /\ Gains(w)
        BY <2>1, <1>1 DEF ShareInv
      <3> QED BY <2>1, <3>1 DEF Balanced, Gains, Buckets
    <2>2. CASE signature # w
      BY <2>2, <1>1, OneMore DEF Total
    <2> QED BY <2>1, <2>2
  <1>5. Gained(w) = [b \in Buckets |-> IF b = "local" THEN l + w["local"] ELSE r + w["remote"]]
    BY DEF Gained, Buckets
  <1>6. Gained(w)["local"] = l + w["local"] /\ Gained(w)["remote"] = r + w["remote"]
    BY <1>5 DEF Buckets
  <1>7. current' = Paid(w) /\ signature' = w
    BY DEF Share
  <1> HIDE DEF l, r, x, y
  <1>8. CASE l + w["local"] >= r + w["remote"]
    <2>1. Best(w) = "local"
      BY <1>6, <1>8 DEF Best
    <2>2. current' = [b \in Buckets |-> IF b = "local" THEN l + w["local"] - Total(w)
                                        ELSE r + w["remote"]]
      <3>1. Paid(w) = [Gained(w) EXCEPT !["local"] = Gained(w)["local"] - Total(w)]
        BY <2>1 DEF Paid, Total
      <3>2. Paid(w) = [b \in Buckets |-> Paid(w)[b]]
        BY <1>5, <3>1
      <3>3. Paid(w)["local"] = l + w["local"] - Total(w) /\ Paid(w)["remote"] = r + w["remote"]
        <4>1. DOMAIN Gained(w) = {"local", "remote"}
          BY <1>5 DEF Buckets
        <4>2. Paid(w)["local"] = Gained(w)["local"] - Total(w) /\ Paid(w)["remote"] = Gained(w)["remote"]
          BY <3>1, <4>1
        <4>3. Total(w) \in Int
          BY <1>1 DEF Total
        <4> QED BY <1>1, <1>2, <1>6, <4>2, <4>3
      <3> QED BY <1>7, <3>2, <3>3 DEF Buckets
    <2>3. current'["local"] = l + w["local"] - Total(w) /\ current'["remote"] = r + w["remote"]
      BY <2>2 DEF Buckets
    <2>4. passed' = [b \in Buckets |-> IF b = "local" THEN 0 ELSE q + 1]
      BY <2>1 DEF Share, Buckets
    <2>5. passed'["local"] = 0 /\ passed'["remote"] = q + 1
      BY <2>4 DEF Buckets
    <2>6. (q + 1) * w["remote"] = y + w["remote"] /\ 0 * w["local"] = 0
      BY <1>1, <1>2, OneMore DEF y
    <2>7. /\ current'["local"] + current'["remote"] = 0
          /\ -Total(w) <= 2 * current'["local"] /\ 2 * current'["local"] <= Total(w)
          /\ -Total(w) <= 2 * current'["remote"] /\ 2 * current'["remote"] <= Total(w)
          /\ 0 <= 2 * current'["local"] + Total(w)
          /\ 2 * (y + w["remote"]) < 2 * current'["remote"] + Total(w)
      BY <1>1, <1>2, <1>3, <1>4, <1>8, <2>3, LocalServed DEF Total
    <2>8. ShareInv'
      BY <1>7, <2>5, <2>6, <2>7 DEF ShareInv, Balanced, Gains, Total, Buckets
    <2>9. current'["local"] \in -Scale..Scale /\ current'["remote"] \in -Scale..Scale
      BY <1>1, <1>2, <2>3, <2>7 DEF Total
    <2>10. current' \in [Buckets -> -Scale..Scale] /\ passed' \in [Buckets -> Nat]
      BY <1>2, <2>2, <2>3, <2>4, <2>9 DEF Buckets
    <2> QED BY <1>7, <2>8, <2>10 DEF ShareTypes
  <1>9. CASE ~(l + w["local"] >= r + w["remote"])
    <2>1. Best(w) = "remote"
      BY <1>6, <1>9 DEF Best
    <2>2. current' = [b \in Buckets |-> IF b = "local" THEN l + w["local"]
                                        ELSE r + w["remote"] - Total(w)]
      <3>1. Paid(w) = [Gained(w) EXCEPT !["remote"] = Gained(w)["remote"] - Total(w)]
        BY <2>1 DEF Paid, Total
      <3>2. Paid(w) = [b \in Buckets |-> Paid(w)[b]]
        BY <1>5, <3>1
      <3>3. Paid(w)["local"] = l + w["local"] /\ Paid(w)["remote"] = r + w["remote"] - Total(w)
        <4>1. DOMAIN Gained(w) = {"local", "remote"}
          BY <1>5 DEF Buckets
        <4>2. Paid(w)["local"] = Gained(w)["local"] /\ Paid(w)["remote"] = Gained(w)["remote"] - Total(w)
          BY <3>1, <4>1
        <4>3. Total(w) \in Int
          BY <1>1 DEF Total
        <4> QED BY <1>1, <1>2, <1>6, <4>2, <4>3
      <3> QED BY <1>7, <3>2, <3>3 DEF Buckets
    <2>3. current'["local"] = l + w["local"] /\ current'["remote"] = r + w["remote"] - Total(w)
      BY <2>2 DEF Buckets
    <2>4. passed' = [b \in Buckets |-> IF b = "remote" THEN 0 ELSE p + 1]
      BY <2>1 DEF Share, Buckets
    <2>5. passed'["local"] = p + 1 /\ passed'["remote"] = 0
      BY <2>4 DEF Buckets
    <2>6. (p + 1) * w["local"] = x + w["local"] /\ 0 * w["remote"] = 0
      BY <1>1, <1>2, OneMore DEF x
    <2>7. /\ current'["local"] + current'["remote"] = 0
          /\ -Total(w) <= 2 * current'["local"] /\ 2 * current'["local"] < Total(w)
          /\ -Total(w) <= 2 * current'["remote"] /\ 2 * current'["remote"] <= Total(w)
          /\ 0 < 2 * current'["remote"] + Total(w)
          /\ 2 * (x + w["local"]) <= 2 * current'["local"] + Total(w)
      BY <1>1, <1>2, <1>3, <1>4, <1>9, <2>3, RemoteServed DEF Total
    <2>8. ShareInv'
      <3>1. current'["local"] \in Int /\ Total(w) \in Int
        BY <1>1, <1>2, <2>3 DEF Total
      <3> QED BY <1>7, <2>5, <2>6, <2>7, <3>1 DEF ShareInv, Balanced, Gains, Total, Buckets
    <2>9. current'["local"] \in -Scale..Scale /\ current'["remote"] \in -Scale..Scale
      BY <1>1, <1>2, <2>3, <2>7 DEF Total
    <2>10. current' \in [Buckets -> -Scale..Scale] /\ passed' \in [Buckets -> Nat]
      BY <1>2, <2>2, <2>3, <2>4, <2>9 DEF Buckets
    <2> QED BY <1>7, <2>8, <2>10 DEF ShareTypes
  <1> QED BY <1>8, <1>9

LEMMA NoShareStep ==
  ASSUME NoShare
  PROVE  ShareInv' /\ ShareTypes'
  <1>1. 0 \in -Scale..Scale
    BY RunnerAssumption
  <1> QED BY <1>1 DEF NoShare, ShareInv, ShareTypes, Zero

LEMMA ShareKept ==
  ASSUME RunnerTypes, ShareInv, UNCHANGED shareVars
  PROVE  ShareInv' /\ ShareTypes'
  BY DEF RunnerTypes, ShareTypes, shareVars, ShareInv, Balanced, Gains

LEMMA ShareImpliesFair == RunnerTypes /\ ShareInv => FairShare
  <1> SUFFICES ASSUME RunnerTypes, ShareInv, signature # Nil,
                      NEW b \in Buckets, NEW o \in Buckets, b # o, passed[b] > 0
               PROVE  (passed[b] - 1) * signature[b] < signature[o]
    BY DEF FairShare
  <1>1. signature \in Weights /\ Balanced(signature) /\ Gains(signature)
    BY DEF RunnerTypes, ShareInv
  <1>2. /\ signature["local"] \in Nat /\ signature["remote"] \in Nat
        /\ signature[b] \in Nat
        /\ passed[b] \in Nat /\ passed[b] - 1 \in Nat
        /\ current["local"] \in Int /\ current["remote"] \in Int
    BY <1>1, WeightTypes DEF RunnerTypes, Buckets
  <1> DEFINE z == (passed[b] - 1) * signature[b]
  <1>3. z \in Nat /\ passed[b] * signature[b] = z + signature[b]
    <2>1. passed[b] = (passed[b] - 1) + 1
      BY <1>2
    <2> QED BY <1>2, <2>1, OneMore
  <1>4. 2 * (z + signature[b]) < 2 * Total(signature)
    <2>1. CASE b = "local"
      BY <1>1, <1>2, <1>3, <2>1 DEF Gains, Total
    <2>2. CASE b = "remote"
      BY <1>1, <1>2, <1>3, <2>2 DEF Gains, Balanced, Total, Buckets
    <2> QED BY <2>1, <2>2 DEF Buckets
  <1> HIDE DEF z
  <1>5. Total(signature) = signature[b] + signature[o]
    BY <1>2 DEF Total, Buckets
  <1>6. signature[o] \in Nat
    BY <1>2 DEF Buckets
  <1>7. z < signature[o]
    BY <1>2, <1>3, <1>4, <1>5, <1>6
  <1> QED BY <1>7 DEF z

-----------------------------------------------------------------------------
(* The deques and the dispatcher. *)
QueueTypes ==
  /\ class \in [Tasks -> Classes \cup {Nil}]
  /\ future \in [Tasks -> {"none", "pending", "cancelled"}]
  /\ before \in [Tasks -> SUBSET Tasks] /\ aged \subseteq Tasks

LoopTypes ==
  /\ dispatcher \in Dispatchers \cup {Nil}
  /\ loop \in [Dispatchers -> {"none", "top", "weights", "run"}]
  /\ picked \in [Dispatchers -> Tasks \cup {Nil}] /\ stranded \in BOOLEAN

Dispatched == LoopTypes /\ OneCursor /\ NoLostTask /\ Registered

LEMMA RemainingTypes ==
  ASSUME RunnerTypes, NEW q \in SUBSET Tasks, NEW answered, Remaining(q, answered)
  PROVE  QueueTypes' /\ waiting' \subseteq q
  <1>1. QueueTypes'
    BY DEF RunnerTypes, QueueTypes, Remaining
  <1>2. waiting' \subseteq q
    BY DEF waiting, Remaining
  <1> QED BY <1>1, <1>2

(* A dispatcher that goes on stays the registered one. *)
LEMMA GoesOn ==
  ASSUME RunnerInv, NEW d \in Dispatchers, loop[d] # "none",
         NEW s \in {"top", "weights", "run"}, loop' = [loop EXCEPT ![d] = s],
         NEW t \in Tasks \cup {Nil}, picked' = [picked EXCEPT ![d] = t],
         dispatcher' \in {dispatcher, d}, stranded' \in {stranded, FALSE}
  PROVE  Dispatched'
  <1>1. dispatcher = d /\ dispatcher' = d
    BY DEF RunnerInv, OneCursor
  <1>2. d # Nil
    BY RunnerAssumption
  <1>3. LoopTypes' /\ loop'[d] = s /\ \A e \in Dispatchers : loop'[e] # "none" => e = d
    BY <1>1 DEF RunnerInv, RunnerTypes, LoopTypes, OneCursor
  <1>4. stranded' = FALSE
    BY <1>1, <1>2 DEF RunnerInv, RunnerTypes, Registered
  <1> QED BY <1>1, <1>2, <1>3, <1>4 DEF Dispatched, OneCursor, NoLostTask, Registered

(* A dispatcher that ends leaves no task behind that is not stranded.       *)
LEMMA Ends ==
  ASSUME RunnerInv, NEW d \in Dispatchers, loop[d] # "none",
         loop' = [loop EXCEPT ![d] = "none"], picked' = [picked EXCEPT ![d] = Nil],
         dispatcher' = Nil, stranded' \in BOOLEAN, waiting' = {} \/ stranded'
  PROVE  Dispatched'
  BY DEF RunnerInv, RunnerTypes, LoopTypes, Dispatched, OneCursor, NoLostTask, Registered

LEMMA LiveTasks == Live \subseteq waiting /\ waiting \subseteq Tasks
  BY DEF Live, waiting

LEMMA RunStep ==
  ASSUME RunnerInv, NEW d \in Dispatchers, loop[d] # "none", NEW b, NEW answered,
         Run(d, b, answered), UNCHANGED stranded
  PROVE  QueueTypes' /\ Dispatched'
  <1>1. PICK t \in Foremost(Live, b) :
          /\ Remaining(Live \ {t}, answered)
          /\ picked' = [picked EXCEPT ![d] = t] /\ loop' = [loop EXCEPT ![d] = "run"]
          /\ UNCHANGED dispatcher
    BY DEF Run
  <1>2. t \in Tasks
    BY LiveTasks DEF Foremost, Heads
  <1>3. QueueTypes'
    BY <1>1, LiveTasks, RemainingTypes DEF RunnerInv
  <1> QED BY <1>1, <1>2, <1>3, GoesOn

LEMMA TopStep ==
  ASSUME RunnerInv, NEW d \in Dispatchers, loop[d] # "none", NEW answered, Top(d, answered),
         UNCHANGED stranded
  PROVE  QueueTypes' /\ Dispatched' /\ ShareTypes' /\ ShareInv'
  <1>1. CASE Live = {} /\ Return(d, answered)
    <2>1. QueueTypes' /\ waiting' \subseteq {}
      BY <1>1, RemainingTypes DEF Return, RunnerInv
    <2> QED BY <1>1, <2>1, Ends, NoShareStep DEF Return, RunnerInv, RunnerTypes
  <1>2. ASSUME NEW b \in Buckets, Run(d, b, answered), NoShare
        PROVE  QueueTypes' /\ Dispatched' /\ ShareTypes' /\ ShareInv'
    BY <1>2, RunStep, NoShareStep
  <1>3. CASE /\ Remaining(Live, answered)
             /\ loop' = [loop EXCEPT ![d] = "weights"] /\ picked' = [picked EXCEPT ![d] = Nil]
             /\ UNCHANGED <<dispatcher, shareVars>>
    <2>1. QueueTypes'
      BY <1>3, LiveTasks, RemainingTypes DEF RunnerInv
    <2> QED BY <1>3, <2>1, GoesOn, ShareKept DEF RunnerInv
  <1> QED BY <1>1, <1>2, <1>3 DEF Top

(* The parts together. *)
LEMMA Together ==
  ASSUME RunnerInv, QueueTypes', Dispatched', ShareTypes', ShareInv',
         UNCHANGED <<calls, settingVars>>
  PROVE  RunnerInv'
  BY DEF RunnerInv, RunnerTypes, QueueTypes, Dispatched, LoopTypes, ShareTypes, settingVars

LEMMA SubmitStep ==
  ASSUME RunnerInv, NEW t \in Tasks, NEW c \in Classes, Submit(t, c)
  PROVE  RunnerInv'
  <1>1. QueueTypes'
    BY DEF Submit, RunnerInv, RunnerTypes, QueueTypes, waiting
  <1>2. ShareInv' /\ ShareTypes'
    BY ShareKept DEF Submit, RunnerInv
  <1>3. Dispatched'
    <2>1. CASE dispatcher = Nil
      <3>1. \A d \in Dispatchers : loop[d] = "none"
        BY <2>1, RunnerAssumption DEF RunnerInv, OneCursor
      <3>2. Free \in Dispatchers
        BY <3>1, RunnerAssumption DEF Free
      <3>3. /\ dispatcher' = Free /\ loop' = [loop EXCEPT ![Free] = "top"] /\ picked' = picked
             /\ stranded' = FALSE
        BY <2>1 DEF Submit, Ensure, Needed
      <3> QED BY <3>1, <3>2, <3>3, RunnerAssumption
              DEF RunnerInv, RunnerTypes, Dispatched, LoopTypes, OneCursor, NoLostTask, Registered
    <2>2. CASE dispatcher # Nil
      <3>1. UNCHANGED <<dispatcher, loop, picked, stranded>>
        BY <2>2 DEF Submit, Ensure, Needed
      <3> QED BY <2>2, <3>1
              DEF RunnerInv, RunnerTypes, Dispatched, LoopTypes, OneCursor, NoLostTask, Registered
    <2> QED BY <2>1, <2>2
  <1>4. calls' \in 0..MaxCalls
    BY RunnerAssumption DEF Submit, RunnerInv, RunnerTypes
  <1> QED BY <1>1, <1>2, <1>3, <1>4
          DEF Submit, settingVars, RunnerInv, RunnerTypes, QueueTypes, Dispatched, LoopTypes, ShareTypes

(* An action that starts and ends no dispatcher and enqueues nothing.       *)
LEMMA DispatchKept ==
  ASSUME RunnerInv, UNCHANGED <<class, dispatchVars>>
  PROVE  Dispatched'
  <1>1. waiting' = waiting
    BY DEF waiting
  <1> QED BY <1>1 DEF RunnerInv, RunnerTypes, Dispatched, LoopTypes, OneCursor, NoLostTask,
                      Registered, dispatchVars

LEMMA CallerStep ==
  ASSUME RunnerInv, NEW t \in Tasks, Cancel(t) \/ Age(t)
  PROVE  RunnerInv'
  <1>1. QueueTypes'
    <2>1. CASE Cancel(t)
      BY <2>1 DEF Cancel, RunnerInv, RunnerTypes, QueueTypes
    <2>2. CASE Age(t)
      BY <2>2 DEF Age, RunnerInv, RunnerTypes, QueueTypes
    <2> QED BY <2>1, <2>2
  <1>2. UNCHANGED <<calls, class, shareVars, dispatchVars, settingVars>>
    BY DEF Cancel, Age
  <1> QED BY <1>1, <1>2, DispatchKept, ShareKept, Together DEF RunnerInv

LEMMA SettingStep ==
  ASSUME RunnerInv, NEW w \in Weights, SetWeights(w)
  PROVE  RunnerInv'
  <1>1. UNCHANGED <<class, future, before, aged, calls, dispatchVars, shareVars>>
    BY DEF SetWeights, queueVars
  <1>2. Dispatched' /\ ShareInv' /\ ShareTypes'
    BY <1>1, DispatchKept, ShareKept DEF RunnerInv
  <1>3. settings' \in 0..MaxSettings /\ weights' \in Weights
    BY RunnerAssumption DEF SetWeights, RunnerInv, RunnerTypes
  <1> QED BY <1>1, <1>2, <1>3 DEF RunnerInv, RunnerTypes, Dispatched, LoopTypes, ShareTypes

LEMMA ChooseStep ==
  ASSUME RunnerInv, NEW d \in Dispatchers, Choose(d)
  PROVE  RunnerInv'
  <1>1. loop[d] # "none" /\ UNCHANGED <<calls, stranded, settingVars>>
    BY DEF Choose
  <1>2. CASE Run(d, Best(weights), {}) /\ Share(weights)
    <2>1. ShareInv' /\ ShareTypes'
      BY <1>2, ShareStep DEF RunnerInv, RunnerTypes
    <2> QED BY <1>1, <1>2, <2>1, RunStep, Together
  <1>3. CASE Top(d, {})
    BY <1>1, <1>3, TopStep, Together
  <1> QED BY <1>2, <1>3 DEF Choose

LEMMA LeaveStep ==
  ASSUME RunnerInv, NEW d \in Dispatchers, Abort(d) \/ Cancelled(d)
  PROVE  RunnerInv'
  <1>1. PICK restart_pending \in BOOLEAN : loop[d] # "none" /\ Leave(d, restart_pending)
    BY DEF Abort, Cancelled
  <1>2. QueueTypes' /\ waiting' \subseteq Live
    BY <1>1, LiveTasks, RemainingTypes DEF Leave, RunnerInv
  <1>3. ShareInv' /\ ShareTypes'
    BY <1>1, NoShareStep, ShareKept DEF Leave, RunnerInv
  <1>4. Dispatched'
    <2>1. CASE restart_pending /\ Restart
      <3>1. /\ loop' = [loop EXCEPT ![d] = "top"] /\ picked' = [picked EXCEPT ![d] = Nil]
            /\ dispatcher' = d /\ stranded' = FALSE
        BY <1>1, <2>1 DEF Leave
      <3> QED BY <1>1, <3>1, GoesOn
    <2>2. CASE ~(restart_pending /\ Restart)
      <3>1. /\ loop' = [loop EXCEPT ![d] = "none"] /\ picked' = [picked EXCEPT ![d] = Nil]
            /\ dispatcher' = Nil /\ stranded' = (Live # {} /\ ~restart_pending)
        BY <1>1, <2>2 DEF Leave
      <3>2. waiting' = {} \/ stranded'
        BY <1>2, <2>2, <3>1 DEF Restart
      <3> QED BY <1>1, <3>1, <3>2, Ends
    <2> QED BY <2>1, <2>2
  <1>5. UNCHANGED <<calls, settingVars>>
    BY <1>1 DEF Leave
  <1> QED BY <1>2, <1>3, <1>4, <1>5, Together

LEMMA RunnerStart == RunnerInit => RunnerInv
  <1> SUFFICES ASSUME RunnerInit PROVE RunnerInv
    OBVIOUS
  <1>1. 0 \in -Scale..Scale /\ 0 \in 0..MaxCalls /\ 0 \in 0..MaxSettings
    BY RunnerAssumption
  <1>2. RunnerTypes
    BY <1>1 DEF RunnerInit, RunnerTypes, Zero
  <1>3. waiting = {} /\ \A d \in Dispatchers : loop[d] = "none"
    BY DEF RunnerInit, waiting
  <1> QED BY <1>2, <1>3 DEF RunnerInit, RunnerInv, OneCursor, NoLostTask, Registered, ShareInv

LEMMA RunnerStep == RunnerInv /\ [RunnerNext]_runnerVars => RunnerInv'
  <1> SUFFICES ASSUME RunnerInv, [RunnerNext]_runnerVars PROVE RunnerInv'
    OBVIOUS
  <1>1. CASE UNCHANGED runnerVars
    BY <1>1, DispatchKept, ShareKept, Together
       DEF runnerVars, queueVars, RunnerInv, RunnerTypes, QueueTypes
  <1>2. CASE RunnerNext
    <2>1. ASSUME NEW t \in Tasks, NEW c \in Classes, Submit(t, c) PROVE RunnerInv'
      BY <2>1, SubmitStep
    <2>2. ASSUME NEW t \in Tasks, Cancel(t) \/ Age(t) PROVE RunnerInv'
      BY <2>2, CallerStep
    <2>3. ASSUME NEW w \in Weights, SetWeights(w) PROVE RunnerInv'
      BY <2>3, SettingStep
    <2>4. ASSUME NEW d \in Dispatchers, Begin(d) \/ Finish(d) PROVE RunnerInv'
      BY <2>4, TopStep, Together DEF Begin, Finish
    <2>5. ASSUME NEW d \in Dispatchers, Choose(d) PROVE RunnerInv'
      BY <2>5, ChooseStep
    <2>6. ASSUME NEW d \in Dispatchers, Abort(d) \/ Cancelled(d) PROVE RunnerInv'
      BY <2>6, LeaveStep
    <2> QED BY <1>2, <2>1, <2>2, <2>3, <2>4, <2>5, <2>6 DEF RunnerNext
  <1> QED BY <1>1, <1>2

LEMMA RunnerInvariant == RunnerSpec => []RunnerInv
  BY RunnerStart, RunnerStep, PTL DEF RunnerSpec

(* The variables of WeightedTaskRunner keep their types: above all, the     *)
(* scores of _pick_task_locked never grow beyond the larger weight.         *)
THEOREM RunnerTypesHold == RunnerSpec => []RunnerTypes
  <1>1. RunnerInv => RunnerTypes
    BY DEF RunnerInv
  <1> QED BY <1>1, RunnerInvariant, PTL

(* One task at a time has the mouse, however many are submitted, cancelled  *)
(* or aborted: _ensure_dispatcher_locked starts no second dispatch loop.    *)
THEOREM MouseIsExclusive == RunnerSpec => []OneCursor
  <1>1. RunnerInv => OneCursor
    BY DEF RunnerInv
  <1> QED BY <1>1, RunnerInvariant, PTL

(* There is no lost wake-up between submit and the end of _dispatch_loop: a *)
(* task that waits has a dispatcher, except after a CancelledError, and     *)
(* then none is registered, so that the next submit will start one.         *)
THEOREM NoTaskIsLost == RunnerSpec => []NoLostTask
  <1>1. RunnerInv => NoLostTask
    BY DEF RunnerInv
  <1> QED BY <1>1, RunnerInvariant, PTL

(* Smooth weighted round-robin starves nobody: for any two weights, a       *)
(* bucket of weight w is passed over less than v / w + 1 times in a row.    *)
THEOREM SharesAreFair == RunnerSpec => []FairShare
  <1>1. RunnerInv => FairShare
    BY ShareImpliesFair DEF RunnerInv
  <1> QED BY <1>1, RunnerInvariant, PTL

-----------------------------------------------------------------------------
(* The order of the deques. *)

(* What waits is finite, has its caller or its caller's cancellation, and   *)
(* came one after the other; what is aged is a remote task, and so is every *)
(* remote task before it.                                                   *)
Ordered ==
  /\ IsFiniteSet(waiting)
  /\ \A t \in waiting : future[t] # "none"
  /\ \A t \in Tasks : before[t] \subseteq waiting
  /\ \A t \in waiting : t \notin before[t]
  /\ \A t, u \in waiting : t = u \/ t \in before[u] \/ u \in before[t]
  /\ \A t, u \in waiting : u \in before[t] => before[u] \subseteq before[t]
  /\ aged \subseteq waiting
  /\ \A t \in aged : Remote(t) /\ \A u \in before[t] : Remote(u) => u \in aged

(* What runs does not wait, and its caller has not been answered.           *)
Runs ==
  \A d \in Dispatchers : picked[d] # Nil =>
    loop[d] = "run" /\ picked[d] \notin waiting /\ future[picked[d]] # "none"

(* Of some tasks that wait one was there first. *)
LEMMA FirstOf ==
  ASSUME Ordered, NEW S \in SUBSET waiting, S # {}
  PROVE  \E t \in S : before[t] \cap S = {}
  <1> DEFINE Rank == {before[t] \cap S : t \in S}
  <1>1. IsFiniteSet(S)
    BY FS_Subset DEF Ordered
  <1>2. Rank \subseteq SUBSET S /\ Rank # {}
    OBVIOUS
  <1>3. IsWellFoundedOn(StrictSubsetOrdering(S), SUBSET S)
    BY <1>1, FS_StrictSubsetOrderingWellFounded, FS_FiniteSubsetsOfFinite
  <1>4. \E r \in Rank : \A y \in Rank : <<y, r>> \notin StrictSubsetOrdering(S)
    <2> HIDE DEF Rank
    <2> QED BY <1>2, <1>3, WFMin
  <1>5. PICK t \in S : \A u \in S :
          <<before[u] \cap S, before[t] \cap S>> \notin StrictSubsetOrdering(S)
    BY <1>4
  <1>6. ASSUME NEW u \in before[t] \cap S
        PROVE  FALSE
    <2>1. before[u] \subseteq before[t] /\ u \notin before[u]
      BY <1>6 DEF Ordered
    <2>2. /\ before[u] \cap S \subseteq before[t] \cap S
          /\ before[u] \cap S # before[t] \cap S
      BY <1>6, <2>1
    <2>3. <<before[u] \cap S, before[t] \cap S>> \in StrictSubsetOrdering(S)
      BY <2>2 DEF StrictSubsetOrdering
    <2> QED BY <1>5, <1>6, <2>3
  <1> QED BY <1>6

(* The foremost of a bucket's heads was there before every aged task. *)
LEMMA AgedGoFirst ==
  ASSUME RunnerTypes, Ordered, NEW p \in Foremost(Live, "remote"),
         NEW t \in aged, t \in Live, t # p
  PROVE  p \in before[t]
  <1> DEFINE S == {u \in Live : class[u] = class[t]}
             old == Heads(Live, "remote") \cap aged
  <1>1. Live \subseteq waiting /\ S \subseteq waiting /\ t \in S
    BY LiveTasks
  <1>2. PICK h \in S : before[h] \cap S = {}
    BY <1>1, FirstOf
  <1>3. Remote(t) /\ \A u \in before[t] : Remote(u) => u \in aged
    BY DEF Ordered
  <1>4. h \in Heads(Live, "remote")
    BY <1>2, <1>3 DEF Heads, Remote
  <1>5. h = t \/ h \in before[t]
    BY <1>1, <1>2 DEF Ordered
  <1>6. h \in old
    BY <1>2, <1>3, <1>4, <1>5 DEF Remote
  <1>7. p \in old /\ before[p] \cap old = {}
    BY <1>6 DEF Foremost
  <1>8. p \in waiting /\ h \in waiting /\ t \in waiting
    BY <1>1, <1>6, <1>7 DEF Heads
  <1>9. h = p \/ p \in before[h]
    BY <1>6, <1>7, <1>8 DEF Ordered
  <1>10. CASE h = p
    BY <1>5, <1>10
  <1>11. CASE p \in before[h]
    BY <1>5, <1>8, <1>11 DEF Ordered
  <1> QED BY <1>9, <1>10, <1>11

(* A purge keeps the order. *)
LEMMA RemainingOrder ==
  ASSUME RunnerTypes, Ordered, NEW q \in SUBSET Live, NEW answered,
         answered \cap waiting = {}, Remaining(q, answered)
  PROVE  /\ Ordered' /\ waiting' = q
         /\ \A t \in Live : future'[t] # "none"
  <1>1. q \subseteq waiting /\ q \subseteq Tasks /\ Live \subseteq waiting
    BY LiveTasks
  <1>2. waiting' = q /\ \A t \in q : class'[t] = class[t]
    BY <1>1 DEF waiting, Remaining
  <1>3. \A t \in Live : future'[t] # "none"
    BY <1>1, LiveTasks DEF Remaining, Ordered
  <1>4. /\ \A t \in Tasks : before'[t] = before[t] \cap q
        /\ aged' = aged \cap q
    BY DEF Remaining
  <1>5. IsFiniteSet(q)
    BY <1>1, FS_Subset DEF Ordered
  <1>6. \A t \in q : Remote(t)' <=> Remote(t)
    BY <1>2 DEF Remote
  <1>7. aged' \subseteq q /\ \A t \in aged' : Remote(t)' /\ \A u \in before'[t] : Remote(u)' => u \in aged'
    BY <1>1, <1>4, <1>6 DEF Ordered
  <1>8. /\ \A t \in Tasks : before'[t] \subseteq q
        /\ \A t \in q : t \notin before'[t]
        /\ \A t, u \in q : t = u \/ t \in before'[u] \/ u \in before'[t]
        /\ \A t, u \in q : u \in before'[t] => before'[u] \subseteq before'[t]
    BY <1>1, <1>4 DEF Ordered
  <1>9. \A t \in q : future'[t] # "none"
    BY <1>3
  <1> QED BY <1>2, <1>3, <1>5, <1>7, <1>8, <1>9 DEF Ordered


(* No other dispatcher runs anything. *)
LEMMA OnlyOneRuns ==
  ASSUME RunnerInv, Runs, NEW d \in Dispatchers, loop[d] # "none"
  PROVE  \A e \in Dispatchers \ {d} : picked[e] = Nil
  BY DEF RunnerInv, OneCursor, Runs

LEMMA RunOrder ==
  ASSUME RunnerInv, Ordered, Runs, NEW d \in Dispatchers, loop[d] # "none", NEW b,
         NEW answered, answered \cap waiting = {}, Run(d, b, answered)
  PROVE  Ordered' /\ Runs'
  <1>1. PICK t \in Foremost(Live, b) :
          /\ Remaining(Live \ {t}, answered)
          /\ picked' = [picked EXCEPT ![d] = t] /\ loop' = [loop EXCEPT ![d] = "run"]
    BY DEF Run
  <1>2. t \in Live
    BY DEF Foremost, Heads
  <1>3. Ordered' /\ waiting' = Live \ {t} /\ future'[t] # "none"
    BY <1>1, <1>2, RemainingOrder DEF RunnerInv
  <1>4. \A e \in Dispatchers : IF e = d THEN picked'[e] = t /\ loop'[e] = "run"
                               ELSE picked'[e] = Nil
    BY <1>1, OnlyOneRuns DEF RunnerInv, RunnerTypes
  <1> QED BY <1>3, <1>4 DEF Runs

LEMMA NobodyRuns ==
  ASSUME RunnerInv, Runs, NEW d \in Dispatchers, loop[d] # "none",
         picked' = [picked EXCEPT ![d] = Nil]
  PROVE  Runs'
  <1>1. \A e \in Dispatchers : picked'[e] = Nil
    BY OnlyOneRuns DEF RunnerInv, RunnerTypes
  <1> QED BY <1>1 DEF Runs

LEMMA TopOrder ==
  ASSUME RunnerInv, Ordered, Runs, NEW d \in Dispatchers, loop[d] # "none",
         NEW answered, answered \cap waiting = {}, Top(d, answered)
  PROVE  Ordered' /\ Runs'
  <1>1. CASE Return(d, answered)
    <2>1. Ordered'
      BY <1>1, RemainingOrder DEF Return, RunnerInv
    <2> QED BY <1>1, <2>1, NobodyRuns DEF Return
  <1>2. ASSUME NEW b \in Buckets, Run(d, b, answered)
        PROVE  Ordered' /\ Runs'
    BY <1>2, RunOrder
  <1>3. CASE Remaining(Live, answered) /\ picked' = [picked EXCEPT ![d] = Nil]
    <2>1. Ordered'
      BY <1>3, RemainingOrder DEF RunnerInv
    <2> QED BY <1>3, <2>1, NobodyRuns
  <1> QED BY <1>1, <1>2, <1>3 DEF Top

LEMMA SubmitOrder ==
  ASSUME RunnerInv, Ordered, Runs, NEW t \in Tasks, NEW c \in Classes, Submit(t, c)
  PROVE  Ordered' /\ Runs'
  <1>1. future[t] = "none" /\ class' = [class EXCEPT ![t] = c]
        /\ future' = [future EXCEPT ![t] = "pending"]
        /\ before' = [before EXCEPT ![t] = waiting] /\ aged' = aged /\ picked' = picked
    BY DEF Submit
  <1>2. t \notin waiting
    BY <1>1 DEF Ordered
  <1>3. c # Nil /\ class \in [Tasks -> Classes \cup {Nil}]
        /\ before \in [Tasks -> SUBSET Tasks] /\ future \in [Tasks -> {"none", "pending", "cancelled"}]
    BY RunnerAssumption DEF RunnerInv, RunnerTypes
  <1>4. /\ waiting' = waiting \cup {t} /\ waiting \subseteq Tasks
        /\ \A u \in Tasks \ {t} : class'[u] = class[u] /\ before'[u] = before[u]
                                  /\ future'[u] = future[u]
        /\ before'[t] = waiting /\ future'[t] = "pending"
    BY <1>1, <1>3 DEF waiting
  <1>5. IsFiniteSet(waiting')
    BY <1>4, FS_AddElement DEF Ordered
  <1>6. \A u \in waiting' : future'[u] # "none"
    BY <1>4 DEF Ordered
  <1>7. \A u \in Tasks : before'[u] \subseteq waiting'
    BY <1>4 DEF Ordered
  <1>8. /\ \A u \in waiting' : u \notin before'[u]
        /\ \A u, v \in waiting' : u = v \/ u \in before'[v] \/ v \in before'[u]
    BY <1>2, <1>4 DEF Ordered
  <1>9. \A u, v \in waiting' : v \in before'[u] => before'[v] \subseteq before'[u]
    <2> SUFFICES ASSUME NEW u \in waiting', NEW v \in waiting', v \in before'[u]
                 PROVE  before'[v] \subseteq before'[u]
      OBVIOUS
    <2>1. CASE u = t
      BY <1>2, <1>4, <2>1 DEF Ordered
    <2>2. CASE u # t
      <3>1. v # t /\ v \in before[u] /\ u \in waiting /\ v \in waiting
        BY <1>2, <1>4, <2>2 DEF Ordered
      <3> QED BY <1>4, <2>2, <3>1 DEF Ordered
    <2> QED BY <2>1, <2>2
  <1>10. /\ aged' \subseteq waiting'
         /\ \A u \in aged' : Remote(u)' /\ \A v \in before'[u] : Remote(v)' => v \in aged'
    <2>1. \A u \in waiting : u # t /\ u \in Tasks /\ (Remote(u)' <=> Remote(u))
      BY <1>2, <1>4 DEF Remote
    <2> QED BY <1>1, <1>4, <2>1 DEF Ordered
  <1>11. Ordered'
    BY <1>5, <1>6, <1>7, <1>8, <1>9, <1>10 DEF Ordered
  <1>12. Runs'
    <2> SUFFICES ASSUME NEW d \in Dispatchers, picked[d] # Nil
                 PROVE  loop'[d] = "run" /\ picked[d] \notin waiting' /\ future'[picked[d]] # "none"
      BY <1>1 DEF Runs
    <2>1. loop[d] = "run" /\ picked[d] \notin waiting /\ future[picked[d]] # "none"
          /\ picked[d] \in Tasks
      BY DEF Runs, RunnerInv, RunnerTypes
    <2>2. picked[d] # t
      BY <1>1, <2>1
    <2>3. dispatcher # Nil
      BY <2>1, RunnerAssumption DEF RunnerInv, OneCursor
    <2>4. loop' = loop
      BY <2>3 DEF Submit, Ensure, Needed
    <2> QED BY <1>4, <2>1, <2>2, <2>4
  <1> QED BY <1>11, <1>12

LEMMA CallerOrder ==
  ASSUME RunnerInv, Ordered, Runs, NEW t \in Tasks, Cancel(t) \/ Age(t)
  PROVE  Ordered' /\ Runs'
  <1>1. UNCHANGED <<class, before, loop, picked>> /\ waiting' = waiting
        /\ \A u \in Tasks : Remote(u)' <=> Remote(u)
    BY DEF Cancel, Age, dispatchVars, waiting, Remote
  <1>2. waiting \subseteq Tasks
    BY LiveTasks
  <1>3. CASE Cancel(t)
    <2>1. aged' = aged /\ future' = [future EXCEPT ![t] = IF Lost(t) THEN "none" ELSE "cancelled"]
      BY <1>3 DEF Cancel
    <2>2. t \in waiting => ~Lost(t)
      BY DEF Lost, waiting
    <2>3. \A d \in Dispatchers : picked[d] = t => ~Lost(t)
      BY DEF Lost
    <2>4. \A u \in Tasks : future'[u] # "none" \/ future'[u] = future[u] \/ (u = t /\ Lost(t))
      BY <2>1 DEF RunnerInv, RunnerTypes
    <2>5. \A u \in waiting : future'[u] # "none"
      BY <1>2, <2>2, <2>4 DEF Ordered
    <2>6. Runs'
      BY <1>1, <2>3, <2>4 DEF Runs, RunnerInv, RunnerTypes
    <2> QED BY <1>1, <1>2, <2>1, <2>5, <2>6 DEF Ordered
  <1>4. CASE Age(t)
    <2>1. /\ t \in waiting /\ Remote(t) /\ aged' = aged \cup {t} /\ future' = future
          /\ \A u \in before[t] : Remote(u) => u \in aged
      BY <1>4 DEF Age
    <2>2. Runs'
      BY <1>1, <2>1 DEF Runs
    <2>3. \A u \in aged' : Remote(u)' /\ \A v \in before'[u] : Remote(v)' => v \in aged'
      <3>1. \A u \in aged' : u \in Tasks /\ Remote(u) /\ \A v \in before[u] : v \in Tasks /\ (Remote(v) => v \in aged)
        BY <1>2, <2>1 DEF Ordered
      <3> QED BY <1>1, <2>1, <3>1
    <2> QED BY <1>1, <1>2, <2>1, <2>2, <2>3 DEF Ordered
  <1> QED BY <1>3, <1>4

LEMMA OrderKept ==
  ASSUME Ordered, Runs, UNCHANGED <<class, future, before, aged, dispatchVars>>
  PROVE  Ordered' /\ Runs'
  <1>1. waiting' = waiting /\ \A t : Remote(t)' <=> Remote(t)
    BY DEF waiting, Remote
  <1> QED BY <1>1 DEF Ordered, Runs, dispatchVars

LEMMA FinishOrder ==
  ASSUME RunnerInv, Ordered, Runs, NEW d \in Dispatchers,
         Begin(d) \/ Choose(d) \/ Finish(d) \/ Abort(d) \/ Cancelled(d)
  PROVE  Ordered' /\ Runs'
  <1>0. Live \subseteq waiting
    BY LiveTasks
  <1>1. loop[d] # "none"
    BY DEF Begin, Choose, Finish, Abort, Cancelled
  <1>2. picked[d] \notin waiting
    BY LiveTasks, RunnerAssumption DEF Runs
  <1>3. CASE Begin(d) \/ Finish(d)
    BY <1>1, <1>2, <1>3, TopOrder DEF Begin, Finish
  <1>4. CASE Choose(d)
    BY <1>1, <1>4, TopOrder, RunOrder DEF Choose
  <1>5. CASE Abort(d) \/ Cancelled(d)
    <2> DEFINE answered == {t \in Tasks : t = picked[d] /\ future[t] = "cancelled"}
    <2>1. Remaining(Live, answered) /\ picked' = [picked EXCEPT ![d] = Nil]
      BY <1>5 DEF Abort, Cancelled, Leave
    <2>2. answered \cap waiting = {}
      BY <1>2
    <2>3. Ordered'
      <3> HIDE DEF answered
      <3> QED BY <2>1, <2>2, RemainingOrder DEF RunnerInv
    <2> QED BY <1>1, <2>1, <2>3, NobodyRuns
  <1> QED BY <1>3, <1>4, <1>5

LEMMA OrderStart == RunnerInit => Ordered /\ Runs
  <1> SUFFICES ASSUME RunnerInit PROVE Ordered /\ Runs
    OBVIOUS
  <1>1. waiting = {}
    BY DEF RunnerInit, waiting
  <1>2. Ordered
    BY <1>1, FS_EmptySet DEF RunnerInit, Ordered
  <1> QED BY <1>2 DEF RunnerInit, Runs

LEMMA OrderStep == RunnerInv /\ Ordered /\ Runs /\ [RunnerNext]_runnerVars => (Ordered /\ Runs)'
  <1> SUFFICES ASSUME RunnerInv, Ordered, Runs, [RunnerNext]_runnerVars PROVE (Ordered /\ Runs)'
    OBVIOUS
  <1>1. CASE UNCHANGED runnerVars \/ \E w \in Weights : SetWeights(w)
    BY <1>1, OrderKept DEF runnerVars, queueVars, SetWeights
  <1> QED BY <1>1, SubmitOrder, CallerOrder, FinishOrder DEF RunnerNext

(* The steps that choose a task. *)
Overtakes(d, t) ==
  /\ picked'[d] # picked[d] /\ picked'[d] \in waiting /\ Remote(picked'[d])
  /\ t \in waiting' /\ picked'[d] \notin before[t]

LEMMA RunOvertakes ==
  ASSUME RunnerInv, Ordered, Runs, NEW d \in Dispatchers, loop[d] # "none", NEW b \in Buckets,
         NEW answered, answered \cap waiting = {}, Run(d, b, answered),
         NEW e \in Dispatchers, NEW t \in aged
  PROVE  ~Overtakes(e, t)
  <1>1. PICK p \in Foremost(Live, b) :
          Remaining(Live \ {p}, answered) /\ picked' = [picked EXCEPT ![d] = p]
    BY DEF Run
  <1>2. waiting' = Live \ {p}
    BY <1>1, RemainingOrder DEF RunnerInv
  <1>3. CASE e # d
    BY <1>1, <1>3 DEF Overtakes, RunnerInv, RunnerTypes
  <1>4. CASE e = d
    <2> SUFFICES ASSUME Overtakes(d, t) PROVE FALSE
      BY <1>4
    <2>1. picked'[d] = p /\ Remote(p) /\ t \in Live /\ t # p
      BY <1>1, <1>2 DEF Overtakes, RunnerInv, RunnerTypes
    <2>2. b = "remote"
      BY <2>1 DEF Foremost, Heads, Remote
    <2>3. p \in before[t]
      BY <2>1, <2>2, AgedGoFirst DEF RunnerInv
    <2> QED BY <2>1, <2>3 DEF Overtakes
  <1> QED BY <1>3, <1>4

LEMMA TopOvertakes ==
  ASSUME RunnerInv, Ordered, Runs, NEW d \in Dispatchers, loop[d] # "none",
         NEW answered, answered \cap waiting = {}, Top(d, answered),
         NEW e \in Dispatchers, NEW t \in aged
  PROVE  ~Overtakes(e, t)
  <1>1. CASE picked' = [picked EXCEPT ![d] = Nil]
    <2>1. Nil \notin waiting
      BY LiveTasks, RunnerAssumption
    <2> QED BY <1>1, <2>1 DEF Overtakes, RunnerInv, RunnerTypes
  <1>2. ASSUME NEW b \in Buckets, Run(d, b, answered)
        PROVE  ~Overtakes(e, t)
    BY <1>2, RunOvertakes
  <1> QED BY <1>1, <1>2 DEF Top, Return

LEMMA NobodyOvertakes ==
  ASSUME RunnerInv, Ordered, Runs, [RunnerNext]_runnerVars, NEW e \in Dispatchers, NEW t \in aged
  PROVE  ~Overtakes(e, t)
  <1>1. ASSUME picked' = picked PROVE ~Overtakes(e, t)
    BY <1>1 DEF Overtakes
  <1>2. CASE \/ UNCHANGED runnerVars
             \/ \E u \in Tasks, c \in Classes : Submit(u, c)
             \/ \E u \in Tasks : Cancel(u) \/ Age(u)
             \/ \E w \in Weights : SetWeights(w)
    <2>1. picked' = picked
      BY <1>2 DEF runnerVars, dispatchVars, Submit, Cancel, Age, SetWeights
    <2> QED BY <1>1, <2>1
  <1>3. ASSUME NEW d \in Dispatchers,
               Begin(d) \/ Choose(d) \/ Finish(d) \/ Abort(d) \/ Cancelled(d)
        PROVE  ~Overtakes(e, t)
    <2>1. loop[d] # "none" /\ picked[d] \notin waiting
      BY <1>3, LiveTasks, RunnerAssumption DEF Begin, Choose, Finish, Abort, Cancelled, Runs
    <2>2. CASE Begin(d) \/ Finish(d)
      BY <2>1, <2>2, TopOvertakes DEF Begin, Finish
    <2>3. CASE Choose(d)
      <3>1. Best(weights) \in Buckets
        BY DEF Best, Buckets
      <3> QED BY <2>1, <2>3, <3>1, TopOvertakes, RunOvertakes DEF Choose
    <2>4. CASE Abort(d) \/ Cancelled(d)
      <3>1. Nil \notin waiting /\ picked' = [picked EXCEPT ![d] = Nil]
        BY <2>4, LiveTasks, RunnerAssumption DEF Abort, Cancelled, Leave
      <3> QED BY <3>1 DEF Overtakes, RunnerInv, RunnerTypes
    <2> QED BY <1>3, <2>2, <2>3, <2>4
  <1> QED BY <1>2, <1>3 DEF RunnerNext

(* A remote task that has waited for 70 seconds is overtaken by no later
   remote task, whether the two wait in one deque or in both: among the heads
   that _subqueue_order_key compares, there is an aged one that came no later. *)
THEOREM AgedKeepTheirPlace == RunnerSpec => AgedInOrder
  <1>1. ASSUME RunnerInv, Ordered, Runs, [RunnerNext]_runnerVars
        PROVE  [\A d \in Dispatchers, t \in aged :
                  picked'[d] # picked[d] /\ picked'[d] \in waiting /\ Remote(picked'[d])
                  /\ t \in waiting' => picked'[d] \in before[t]]_runnerVars
    BY <1>1, NobodyOvertakes DEF Overtakes
  <1>2. RunnerSpec => [](Ordered /\ Runs)
    BY RunnerInvariant, OrderStart, OrderStep, PTL DEF RunnerSpec
  <1> QED BY <1>1, <1>2, RunnerInvariant, PTL DEF RunnerSpec, AgedInOrder

=============================================================================
