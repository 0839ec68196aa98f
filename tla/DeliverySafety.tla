--------------------------- MODULE DeliverySafety ---------------------------
(***************************************************************************)
(* One flow per order, and one card per order, for any number of orders,   *)
(* cards, flows and callers.                                               *)
(***************************************************************************)
EXTENDS DeliveryProofs, DeliveryRefinement

-----------------------------------------------------------------------------
(* How a step of one flow leaves the local locks *)

LEMMA LockSame ==
  ASSUME HoldsLock, UNCHANGED <<pc, ord, lk, local>>
  PROVE  HoldsLock'
BY DEF HoldsLock, Working

(* A flow that works, or that will not work next, keeps its locks. *)
LEMMA LockMove ==
  ASSUME LockInv, NEW f \in Flows, pc[f] # "idle", NEW step, Goto(f, step),
         Working(f) \/ step \in {"local", "release"},
         UNCHANGED <<ord, lk, local>>
  PROVE  HoldsLock'
BY DEF LockInv, TypeInv, FlowInv, FlowType, HoldsLock, Working, Goto

(* A flow that finds the lock of its order free takes it. *)
LEMMA LockTake ==
  ASSUME LockInv, NEW f \in Flows, pc[f] # "idle", NEW step, Goto(f, step),
         local[lk[f]][ord[f]] = Nil,
         local' = [local EXCEPT ![lk[f]][ord[f]] = f],
         UNCHANGED <<ord, lk>>
  PROVE  HoldsLock'
<1>1. ord[f] \in Orders /\ lk[f] = 1 /\ 1 \in Insts
  BY DEF LockInv, TypeInv, FlowInv, HoldsLock, NoRestart, AccountInv, AccountType
<1>2. \A o \in Orders : local'[1][o] = IF o = ord[f] THEN f ELSE local[1][o]
  BY <1>1 DEF LockInv, TypeInv, LockType
<1>3. ASSUME NEW g \in Flows
      PROVE  /\ pc'[g] # "idle" => lk'[g] = 1
             /\ Working(g)' => local'[1][ord'[g]] = g
  <2>1. CASE g = f
    BY <1>1, <1>2, <2>1
  <2>2. CASE g # f
    <3>1. pc'[g] = pc[g]
      BY <2>2 DEF Goto, LockInv, TypeInv, FlowInv, FlowType
    <3>2. Working(g) => ord[g] \in Orders /\ ord[g] # ord[f]
      BY <1>1, DeliveryAssumption DEF Working, LockInv, HoldsLock, TypeInv, FlowInv,
         Flows
    <3>3. QED
      BY <1>2, <3>1, <3>2 DEF Working, LockInv, HoldsLock
  <2>3. QED
    BY <2>1, <2>2
<1>4. QED
  BY <1>3 DEF HoldsLock

(* A flow that ends frees no lock but its own. *)
LEMMA LockEnd ==
  ASSUME LockInv, NEW f \in Flows, FreeLocal(f), EndFlow(f)
  PROVE  HoldsLock'
<1>1. 1 \in Insts
  BY DEF LockInv, TypeInv, NoRestart, AccountInv, AccountType
<1>2. ASSUME NEW g \in Flows
      PROVE  /\ pc'[g] # "idle" => lk'[g] = 1
             /\ Working(g)' => local'[1][ord'[g]] = g
  <2>1. CASE g = f
    BY <2>1 DEF EndFlow, Goto, Working, LockInv, TypeInv, FlowInv, FlowType
  <2>2. CASE g # f
    <3>1. pc'[g] = pc[g] /\ ord'[g] = ord[g] /\ lk'[g] = lk[g]
      BY <2>2 DEF EndFlow, Goto, LockInv, TypeInv, FlowInv, FlowType
    <3>2. Working(g) => ord[g] \in Orders /\ local[1][ord[g]] = g
      BY DEF Working, LockInv, HoldsLock, TypeInv, FlowInv
    <3>3. QED
      BY <1>1, <2>2, <3>1, <3>2 DEF FreeLocal, Working, LockInv, HoldsLock
  <2>3. QED
    BY <2>1, <2>2
<1>3. QED
  BY <1>2 DEF HoldsLock

(* A flow that starts, starts on the only instance. *)
LEMMA LockStart ==
  ASSUME LockInv, NEW f \in Flows, NEW step \in {"redis", "local"}, Goto(f, step),
         pc[f] = "idle", NEW o, ord' = [ord EXCEPT ![f] = o],
         lk' = [lk EXCEPT ![f] = 1], UNCHANGED local
  PROVE  HoldsLock'
BY DEF LockInv, TypeInv, FlowInv, FlowType, HoldsLock, Working, Goto

LEMMA LockFlowStep ==
  ASSUME LockInv, NEW f \in Flows, FlowStep(f)
  PROVE  HoldsLock'
<1>1. CASE AutoRedis(f)
  BY <1>1, LockMove DEF AutoRedis
<1>2. CASE AutoLocal(f)
  BY <1>2, LockMove, LockTake DEF AutoLocal
<1>3. CASE HandlerLocal(f)
  <2>1. pc[f] = "local" /\ lk[f] = 1
    BY <1>3 DEF HandlerLocal, LockInv, HoldsLock
  <2>2. UNCHANGED <<ord, lk>>
    BY <1>3 DEF HandlerLocal
  <2>3. \/ Goto(f, "release") /\ UNCHANGED local
        \/ /\ Goto(f, "pre") /\ local[lk[f]][ord[f]] = Nil
           /\ local' = [local EXCEPT ![lk[f]][ord[f]] = f]
    BY <1>3, <2>1 DEF HandlerLocal
  <2>4. QED
    BY <2>1, <2>2, <2>3, LockMove, LockTake
<1>4. CASE AutoRelease(f) \/ HandlerRelease(f)
  BY <1>4, LockEnd DEF AutoRelease, HandlerRelease
<1>5. CASE HandlerPre(f) \/ Prep(f) \/ ConfirmNothing(f) \/ ConfirmRefused(f)
           \/ ConfirmFirst(f) \/ TakeCard(f)
  <2>1. Working(f) /\ pc[f] # "idle" /\ UNCHANGED <<ord, lk, local>>
    BY <1>5 DEF Working, FlowSteps, HandlerPre, Prep, ConfirmNothing, ConfirmRefused,
       ConfirmFirst, TakeCard, lockVars
  <2>2. \E step : Goto(f, step)
    <3>1. CASE ConfirmFirst(f)
      <4>1. Answers(ord[f]) \subseteq {"ok", "fail", "already", "unknown"}
        BY DEF Answers
      <4>2. Goto(f, "card") \/ Goto(f, "release")
        BY <3>1, <4>1 DEF ConfirmFirst, EndEmpty
      <4>3. QED
        BY <4>2
    <3>2. CASE TakeCard(f)
      <4>1. Goto(f, "release") \/ Goto(f, "send")
        BY <3>2 DEF TakeCard, EndEmpty
      <4>2. QED
        BY <4>1
    <3>3. CASE HandlerPre(f)
      <4>1. Goto(f, "release") \/ Goto(f, "prep")
        BY <3>3 DEF HandlerPre
      <4>2. QED
        BY <4>1
    <3>4. QED
      BY <1>5, <3>1, <3>2, <3>3 DEF Prep, ConfirmNothing, ConfirmRefused, EndEmpty
  <2>3. QED
    BY <2>1, <2>2, LockMove
<1>6. CASE Send(f) \/ Receipt(f) \/ ConfirmAfter(f) \/ SkipConfirmAfter(f)
           \/ Write(f) \/ Flag(f)
  <2>1. Working(f) /\ pc[f] # "idle" /\ UNCHANGED <<ord, lk, local>>
    BY <1>6 DEF Working, FlowSteps, Send, Receipt, ConfirmAfter, SkipConfirmAfter,
       Write, Flag, lockVars
  <2>2. \E step : Goto(f, step)
    BY <1>6 DEF Send, Receipt, ConfirmAfter, SkipConfirmAfter, Write, Flag
  <2>3. QED
    BY <2>1, <2>2, LockMove
<1>7. QED
  BY <1>1, <1>2, <1>3, <1>4, <1>5, <1>6 DEF FlowStep

LEMMA LockStep ==
  ASSUME OneInstance, LockInv, [Next]_vars
  PROVE  LockInv'
<1>1. TypeInv'
  BY TypeStep DEF LockInv
<1>2. CASE \E f \in Autos : AutoStart(f)
  <2>1. PICK f \in Autos : AutoStart(f)
    BY <1>2
  <2>2. f \in Flows /\ inst = 1
    BY DEF Flows, LockInv, NoRestart
  <2>3. \/ UNCHANGED <<pc, ord, lk, local>>
        \/ \E o : /\ Goto(f, "redis") /\ ord' = [ord EXCEPT ![f] = o]
                  /\ lk' = [lk EXCEPT ![f] = inst] /\ UNCHANGED local
    BY <2>1 DEF AutoStart, flowVars, lockVars
  <2>4. pc[f] = "idle" /\ UNCHANGED instVars
    BY <2>1 DEF AutoStart
  <2>5. QED
    BY <1>1, <2>2, <2>3, <2>4, LockSame, LockStart DEF LockInv, NoRestart, instVars
<1>3. CASE \E f \in Flows : FlowStep(f)
  <2>1. UNCHANGED instVars
    <3> PICK f \in Flows : FlowStep(f)
      BY <1>3
    <3>1. CASE AutoRedis(f) \/ AutoLocal(f) \/ HandlerLocal(f) \/ HandlerPre(f) \/ Prep(f)
      BY <3>1, Zenon DEF AutoRedis, AutoLocal, HandlerLocal, HandlerPre, Prep
    <3>2. CASE ConfirmNothing(f) \/ ConfirmRefused(f) \/ ConfirmFirst(f) \/ TakeCard(f)
      BY <3>2, Zenon DEF ConfirmNothing, ConfirmRefused, ConfirmFirst, TakeCard
    <3>3. CASE Send(f) \/ Receipt(f) \/ ConfirmAfter(f) \/ SkipConfirmAfter(f)
      BY <3>3, Zenon DEF Send, Receipt, ConfirmAfter, SkipConfirmAfter
    <3>4. CASE Write(f) \/ Flag(f) \/ AutoRelease(f) \/ HandlerRelease(f)
      BY <3>4, Zenon DEF Write, Flag, AutoRelease, HandlerRelease
    <3> QED BY <3>1, <3>2, <3>3, <3>4 DEF FlowStep
  <2>2. QED
    BY <1>1, <1>3, <2>1, LockFlowStep DEF LockInv, NoRestart, instVars
<1>4. CASE SchedScan \/ SchedPick \/ ManualStart
  BY <1>1, <1>4, LockSame
  DEF SchedScan, SchedPick, ManualStart, LockInv, NoRestart, flowVars, lockVars, instVars
<1>5. CASE \E c \in Callers : Post(c)
  <2>1. PICK c \in Callers, h \in Handlers :
          /\ pc[h] = "idle" /\ Goto(h, "local")
          /\ ord' = [ord EXCEPT ![h] = cord[c]]
          /\ lk' = [lk EXCEPT ![h] = IF live THEN inst ELSE 0]
          /\ UNCHANGED <<lockVars, instVars>>
    BY <1>5 DEF Post
  <2>2. h \in Flows /\ inst = 1 /\ live /\ UNCHANGED local
    BY <2>1 DEF Flows, LockInv, NoRestart, lockVars
  <2>3. HoldsLock'
    BY <2>1, <2>2, LockStart
  <2>4. QED
    BY <1>1, <2>1, <2>3 DEF LockInv, NoRestart, instVars
<1>6. CASE \E c \in Callers : CallerStep(c) /\ ~Post(c)
  BY <1>1, <1>6, LockSame
  DEF CallerStep, CallerRedis, SchedRecheck, SchedCheck, Timeout, CallerReply,
      CallerRelease, LockInv, NoRestart, flowVars, lockVars, instVars
<1>7. CASE World
  <2>1. ~Stop /\ ~Restart
    BY DEF Stop, Restart, OneInstance, LockInv, NoRestart
  <2>2. QED
    BY <1>1, <1>7, <2>1, LockSame
    DEF World, RedisExpire, Forget, ChangeSetting, PlatformClose, SyncFetch, SyncLoad,
        SyncUpsert, LockInv, NoRestart, flowVars, lockVars, instVars
<1>8. CASE UNCHANGED vars
  BY <1>1, <1>8, LockSame DEF vars, LockInv, NoRestart, flowVars, lockVars, instVars
<1>9. QED
  BY <1>2, <1>3, <1>4, <1>5, <1>6, <1>7, <1>8 DEF Next

LEMMA LockInit == Init => LockInv
BY TypeInit DEF Init, LockInv, NoRestart, HoldsLock, Working

LEMMA LockExcludes == LockInv => Exclusive
<1> SUFFICES ASSUME LockInv PROVE Exclusive
  OBVIOUS
<1>1. OneFlowPerOrder
  BY DEF LockInv, HoldsLock, OneFlowPerOrder
<1>2. ASSUME NEW f \in Flows, NEW g \in Flows, pc[f] = "local",
             local[lk[f]][ord[f]] = Nil, Working(g), ord[g] = ord[f]
      PROVE  FALSE
  <2>1. lk[f] = 1 /\ local[1][ord[g]] = g
    BY <1>2 DEF LockInv, HoldsLock
  <2>2. g # Nil
    BY DeliveryAssumption DEF Flows
  <2>3. QED
    BY <1>2, <2>1, <2>2
<1>3. QED
  BY <1>1, <1>2 DEF Exclusive

-----------------------------------------------------------------------------
(* How a step leaves the Redis locks *)

(* A flow or a caller past its wait for the lock of an order. *)
PastRedis(step) == step \notin {"idle", "redis", "release"}

(* Nobody loses the lock of an order, and no handler its caller. *)
LEMMA RedisSame ==
  ASSUME RedisInv,
         \A f \in Autos : PastRedis(pc'[f]) =>
            PastRedis(pc[f]) /\ ord'[f] = ord[f] /\ redis'[ord[f]] = redis[ord[f]],
         \A c \in Callers : PastRedis(cpc'[c]) =>
            PastRedis(cpc[c]) /\ cord'[c] = cord[c] /\ redis'[cord[c]] = redis[cord[c]],
         \A h \in Handlers : pc'[h] # "idle" => pc[h] # "idle" /\ ord'[h] = ord[h],
         \A c \in Callers : cpc[c] = "wait" /\ pc'[cjob[c].to] # "idle" =>
            cpc'[c] = "wait" /\ cjob'[c].to = cjob[c].to
  PROVE  HoldsRedis'
<1>1. ASSUME NEW f \in Autos, PastRedis(pc'[f]) PROVE redis'[ord'[f]] = f
  BY <1>1 DEF RedisInv, HoldsRedis, PastRedis
<1>2. ASSUME NEW c \in Callers, PastRedis(cpc'[c]) PROVE redis'[cord'[c]] = c
  BY <1>2 DEF RedisInv, HoldsRedis, PastRedis
<1>3. ASSUME NEW h \in Handlers, pc'[h] # "idle"
      PROVE  \E c \in Callers : cpc'[c] = "wait" /\ cjob'[c].to = h /\ cord'[c] = ord'[h]
  <2>1. PICK c \in Callers : cpc[c] = "wait" /\ cjob[c].to = h /\ cord[c] = ord[h]
    BY <1>3 DEF RedisInv, HoldsRedis
  <2>2. cpc'[c] = "wait" /\ cjob'[c].to = h
    BY <1>3, <2>1
  <2>3. cord'[c] = cord[c]
    BY <2>2 DEF PastRedis
  <2>4. QED
    BY <1>3, <2>1, <2>2, <2>3
<1>4. QED
  BY <1>1, <1>2, <1>3 DEF HoldsRedis, PastRedis

(* A flow under way moves on. *)
LEMMA RedisMove ==
  ASSUME RedisInv, NEW f \in Flows, pc[f] # "idle", NEW step, Goto(f, step),
         PastRedis(pc[f]) \/ step \in {"idle", "release"},
         step = "idle" => f \in Autos,
         \A g \in Flows : g # f => ord'[g] = ord[g],
         step # "idle" => ord'[f] = ord[f],
         \A o \in Orders : redis'[o] = redis[o] \/ (step = "idle" /\ redis[o] = f),
         UNCHANGED callVars
  PROVE  HoldsRedis'
<1>1. pc' = [pc EXCEPT ![f] = step] /\ pc \in [Flows -> FlowSteps]
  BY DEF Goto, RedisInv, TypeInv, FlowInv, FlowType
<1>2. ASSUME NEW g \in Autos, PastRedis(pc'[g])
      PROVE  PastRedis(pc[g]) /\ ord'[g] = ord[g] /\ redis'[ord[g]] = redis[ord[g]]
  <2>1. g \in Flows
    BY DEF Flows
  <2>2. PastRedis(pc[g])
    BY <1>1, <1>2, <2>1 DEF PastRedis
  <2>3. ord[g] \in Orders /\ redis[ord[g]] = g
    BY <2>1, <2>2 DEF PastRedis, RedisInv, HoldsRedis, TypeInv, FlowInv
  <2>4. QED
    BY <1>1, <1>2, <2>1, <2>2, <2>3 DEF PastRedis
<1>3. ASSUME NEW c \in Callers, PastRedis(cpc'[c])
      PROVE  PastRedis(cpc[c]) /\ cord'[c] = cord[c] /\ redis'[cord[c]] = redis[cord[c]]
  <2>1. cpc' = cpc /\ cord' = cord
    BY DEF callVars
  <2>2. cord[c] \in Orders /\ redis[cord[c]] = c
    BY <1>3, <2>1 DEF PastRedis, RedisInv, HoldsRedis, TypeInv, CallInv
  <2>3. step = "idle" => c # f
    BY DeliveryAssumption
  <2>4. QED
    BY <1>3, <2>1, <2>2, <2>3
<1>4. ASSUME NEW h \in Handlers, pc'[h] # "idle"
      PROVE  pc[h] # "idle" /\ ord'[h] = ord[h]
  <2>1. h \in Flows /\ (step = "idle" => h # f)
    BY <1>1, <1>4 DEF Flows
  <2>2. QED
    BY <1>1, <1>4, <2>1
<1>5. \A c \in Callers : cpc[c] = "wait" => cpc'[c] = "wait" /\ cjob'[c].to = cjob[c].to
  BY DEF callVars
<1>6. QED
  BY <1>2, <1>3, <1>4, <1>5, RedisSame

LEMMA RedisAutoRedis ==
  ASSUME RedisSound, RedisInv, NEW f \in Flows, AutoRedis(f)
  PROVE  HoldsRedis'
<1>1. /\ f \in Autos /\ pc[f] = "redis" /\ ord[f] \in Orders
      /\ UNCHANGED <<ord, card, job>> /\ UNCHANGED callVars
  BY DEF AutoRedis, RedisInv, TypeInv, FlowInv
<1>2. CASE redis[ord[f]] = Nil /\ redis' = [redis EXCEPT ![ord[f]] = f] /\ Goto(f, "local")
  <2>1. /\ pc' = [pc EXCEPT ![f] = "local"] /\ pc \in [Flows -> FlowSteps]
        /\ \A o \in Orders : redis'[o] = IF o = ord[f] THEN f ELSE redis[o]
    BY <1>1, <1>2 DEF Goto, RedisInv, TypeInv, FlowInv, FlowType, LockType
  <2>2. ASSUME NEW g \in Autos, PastRedis(pc'[g]) PROVE redis'[ord'[g]] = g
    <3>1. CASE g = f
      BY <1>1, <2>1, <3>1
    <3>2. CASE g # f
      <4>1. g \in Flows /\ g # Nil
        BY DeliveryAssumption DEF Flows
      <4>2. PastRedis(pc[g]) /\ ord[g] \in Orders /\ redis[ord[g]] = g
        BY <2>1, <2>2, <3>2, <4>1 DEF PastRedis, RedisInv, HoldsRedis, TypeInv, FlowInv
      <4>3. QED
        BY <1>1, <1>2, <2>1, <4>1, <4>2
    <3>3. QED
      BY <3>1, <3>2
  <2>3. ASSUME NEW c \in Callers, PastRedis(cpc'[c]) PROVE redis'[cord'[c]] = c
    <3>1. cpc'[c] = cpc[c] /\ cord'[c] = cord[c] /\ c # Nil
      BY <1>1, DeliveryAssumption DEF callVars
    <3>2. cord[c] \in Orders /\ redis[cord[c]] = c
      BY <2>3, <3>1 DEF PastRedis, RedisInv, HoldsRedis, TypeInv, CallInv
    <3>3. QED
      BY <1>1, <1>2, <2>1, <3>1, <3>2
  <2>4. ASSUME NEW h \in Handlers, pc'[h] # "idle"
        PROVE  \E c \in Callers : cpc'[c] = "wait" /\ cjob'[c].to = h /\ cord'[c] = ord'[h]
    <3>1. h # f /\ h \in Flows
      BY <1>1, DeliveryAssumption DEF Flows
    <3>2. pc[h] # "idle"
      BY <2>1, <2>4, <3>1
    <3>3. QED
      BY <1>1, <3>2 DEF RedisInv, HoldsRedis, callVars
  <2>5. QED
    BY <2>2, <2>3, <2>4 DEF HoldsRedis, PastRedis
<1>3. CASE UNCHANGED redis /\ Goto(f, "release")
  BY <1>1, <1>3, RedisMove
<1>4. QED
  BY <1>2, <1>3 DEF AutoRedis, AskRedis, RedisSound

LEMMA RedisHandlerRelease ==
  ASSUME RedisInv, NEW f \in Flows, HandlerRelease(f)
  PROVE  HoldsRedis'
<1>1. /\ f \in Handlers /\ f \notin Autos /\ pc' = [pc EXCEPT ![f] = "idle"]
      /\ pc \in [Flows -> FlowSteps] /\ UNCHANGED <<redis, cord>>
      /\ \A g \in Flows : g # f => ord'[g] = ord[g]
  BY DeliveryAssumption DEF HandlerRelease, EndFlow, Goto, RedisInv, TypeInv, FlowInv, FlowType
<1>2. ASSUME NEW c \in Callers
      PROVE  /\ PastRedis(cpc'[c]) => PastRedis(cpc[c])
             /\ cpc[c] = "wait" /\ cjob[c].to # f =>
                  cpc'[c] = "wait" /\ cjob'[c].to = cjob[c].to
  BY DEF HandlerRelease, PastRedis
<1>3. ASSUME NEW g \in Autos, PastRedis(pc'[g])
      PROVE  PastRedis(pc[g]) /\ ord'[g] = ord[g] /\ redis'[ord[g]] = redis[ord[g]]
  BY <1>1, <1>3 DEF Flows
<1>4. ASSUME NEW h \in Handlers, pc'[h] # "idle"
      PROVE  pc[h] # "idle" /\ ord'[h] = ord[h]
  BY <1>1, <1>4 DEF Flows
<1>5. \A c \in Callers : cpc[c] = "wait" /\ pc'[cjob[c].to] # "idle" =>
         cpc'[c] = "wait" /\ cjob'[c].to = cjob[c].to
  BY <1>1, <1>2
<1>6. QED
  BY <1>1, <1>2, <1>3, <1>4, <1>5, RedisSame

LEMMA RedisFlowStep ==
  ASSUME RedisSound, RedisInv, NEW f \in Flows, FlowStep(f)
  PROVE  HoldsRedis'
<1>1. CASE AutoRedis(f)
  BY <1>1, RedisAutoRedis
<1>2. CASE HandlerRelease(f)
  BY <1>2, RedisHandlerRelease
<1>3. CASE AutoRelease(f)
  <2>1. f \in Autos /\ pc[f] = "release" /\ Goto(f, "idle") /\ ord' = [ord EXCEPT ![f] = Nil]
        /\ DropRedis(ord[f], f) /\ UNCHANGED callVars
    BY <1>3 DEF AutoRelease, EndFlow
  <2>2. \A g \in Flows : g # f => ord'[g] = ord[g]
    BY <2>1 DEF RedisInv, TypeInv, FlowInv, FlowType
  <2>3. \A o \in Orders : redis'[o] = redis[o] \/ redis[o] = f
    BY <2>1 DEF DropRedis, RedisInv, TypeInv, LockType
  <2>4. QED
    BY <2>1, <2>2, <2>3, RedisMove
<1>4. CASE AutoLocal(f) \/ HandlerLocal(f) \/ HandlerPre(f) \/ Prep(f)
           \/ ConfirmNothing(f) \/ ConfirmRefused(f)
  <2>1. UNCHANGED <<ord, redis>> /\ UNCHANGED callVars
    BY <1>4, Zenon DEF AutoLocal, HandlerLocal, HandlerPre, Prep, ConfirmNothing,
       ConfirmRefused, lockVars
  <2>2. PastRedis(pc[f]) /\ pc[f] # "idle"
    BY <1>4 DEF AutoLocal, HandlerLocal, HandlerPre, Prep, ConfirmNothing, ConfirmRefused,
       PastRedis
  <2>3. Goto(f, "release") \/ Goto(f, "prep") \/ Goto(f, "pre") \/ Goto(f, "confirm")
        \/ Goto(f, "card")
    BY <1>4 DEF AutoLocal, HandlerLocal, HandlerPre, Prep, ConfirmNothing, ConfirmRefused,
       EndEmpty
  <2>4. QED
    BY <2>1, <2>2, <2>3, RedisMove
<1>5. CASE ConfirmFirst(f) \/ TakeCard(f)
  <2>1. UNCHANGED <<ord, redis>> /\ UNCHANGED callVars
    BY <1>5, Zenon DEF ConfirmFirst, TakeCard, lockVars
  <2>2. PastRedis(pc[f]) /\ pc[f] # "idle"
    BY <1>5 DEF ConfirmFirst, TakeCard, PastRedis
  <2>3. Answers(ord[f]) \subseteq {"ok", "fail", "already", "unknown"}
    BY DEF Answers
  <2>4. Goto(f, "release") \/ Goto(f, "card") \/ Goto(f, "send")
    BY <1>5, <2>3 DEF ConfirmFirst, TakeCard, EndEmpty
  <2>5. QED
    BY <2>1, <2>2, <2>4, RedisMove
<1>6. CASE Send(f) \/ Receipt(f) \/ ConfirmAfter(f) \/ SkipConfirmAfter(f)
           \/ Write(f) \/ Flag(f)
  <2>1. UNCHANGED <<ord, redis>> /\ UNCHANGED callVars
    BY <1>6, Zenon DEF Send, Receipt, ConfirmAfter, SkipConfirmAfter, Write, Flag, lockVars
  <2>2. PastRedis(pc[f]) /\ pc[f] # "idle"
    BY <1>6 DEF Send, Receipt, ConfirmAfter, SkipConfirmAfter, Write, Flag, PastRedis
  <2>3. \E step : step # "idle" /\ Goto(f, step)
    BY <1>6 DEF Send, Receipt, ConfirmAfter, SkipConfirmAfter, Write, Flag
  <2>4. QED
    BY <2>1, <2>2, <2>3, RedisMove
<1>7. QED
  BY <1>1, <1>2, <1>3, <1>4, <1>5, <1>6 DEF FlowStep

(* A caller that does not wait for a handler moves on with its lock. *)
LEMMA RedisCallerMove ==
  ASSUME RedisInv, NEW c \in Callers, cpc[c] # "wait", NEW step, CGoto(c, step),
         step # "wait",
         PastRedis(step) => /\ PastRedis(cpc[c]) /\ cord'[c] = cord[c]
                            /\ redis'[cord[c]] = redis[cord[c]],
         \A d \in Callers : d # c => cord'[d] = cord[d] /\ cjob'[d].to = cjob[d].to,
         \A o \in Orders : redis'[o] = redis[o] \/ redis[o] = c,
         UNCHANGED <<pc, ord>>
  PROVE  HoldsRedis'
<1>1. cpc' = [cpc EXCEPT ![c] = step] /\ cpc \in [Callers -> CallSteps]
  BY DEF CGoto, RedisInv, TypeInv, CallInv, CallType
<1>2. ASSUME NEW f \in Autos, PastRedis(pc'[f])
      PROVE  PastRedis(pc[f]) /\ ord'[f] = ord[f] /\ redis'[ord[f]] = redis[ord[f]]
  <2>1. f \in Flows /\ f # c
    BY DeliveryAssumption DEF Flows
  <2>2. ord[f] \in Orders /\ redis[ord[f]] = f
    BY <1>2, <2>1 DEF PastRedis, RedisInv, HoldsRedis, TypeInv, FlowInv
  <2>3. QED
    BY <1>2, <2>1, <2>2
<1>3. ASSUME NEW d \in Callers, PastRedis(cpc'[d])
      PROVE  PastRedis(cpc[d]) /\ cord'[d] = cord[d] /\ redis'[cord[d]] = redis[cord[d]]
  <2>1. CASE d = c
    BY <1>1, <1>3, <2>1
  <2>2. CASE d # c
    <3>1. PastRedis(cpc[d])
      BY <1>1, <1>3, <2>2
    <3>2. cord[d] \in Orders /\ redis[cord[d]] = d
      BY <3>1 DEF PastRedis, RedisInv, HoldsRedis, TypeInv, CallInv
    <3>3. QED
      BY <2>2, <3>1, <3>2
  <2>3. QED
    BY <2>1, <2>2
<1>4. \A d \in Callers : cpc[d] = "wait" => cpc'[d] = "wait" /\ cjob'[d].to = cjob[d].to
  BY <1>1
<1>5. QED
  BY <1>2, <1>3, <1>4, RedisSame

LEMMA RedisCallerRedis ==
  ASSUME RedisSound, RedisInv, NEW c \in Callers, CallerRedis(c)
  PROVE  HoldsRedis'
<1>1. /\ cpc[c] = "redis" /\ cord[c] \in Orders
      /\ UNCHANGED <<pc, ord>> /\ UNCHANGED <<cord, cjob>>
  BY DEF CallerRedis, RedisInv, TypeInv, CallInv, flowVars
<1>2. ASSUME NEW step \in {"recheck", "post"}, CGoto(c, step),
             redis[cord[c]] = Nil, redis' = [redis EXCEPT ![cord[c]] = c]
      PROVE  HoldsRedis'
  <2>1. /\ cpc' = [cpc EXCEPT ![c] = step] /\ cpc \in [Callers -> CallSteps]
        /\ \A o \in Orders : redis'[o] = IF o = cord[c] THEN c ELSE redis[o]
    BY <1>1, <1>2 DEF CGoto, RedisInv, TypeInv, CallInv, CallType, LockType
  <2>2. ASSUME NEW f \in Autos, PastRedis(pc'[f]) PROVE redis'[ord'[f]] = f
    <3>1. f \in Flows /\ f # Nil
      BY DeliveryAssumption DEF Flows
    <3>2. ord[f] \in Orders /\ redis[ord[f]] = f /\ ord'[f] = ord[f]
      BY <1>1, <2>2, <3>1 DEF PastRedis, RedisInv, HoldsRedis, TypeInv, FlowInv
    <3>3. QED
      BY <1>2, <2>1, <3>1, <3>2
  <2>3. ASSUME NEW d \in Callers, PastRedis(cpc'[d]) PROVE redis'[cord'[d]] = d
    <3>1. CASE d = c
      BY <1>1, <2>1, <3>1
    <3>2. CASE d # c
      <4>1. PastRedis(cpc[d]) /\ d # Nil
        BY <2>1, <2>3, <3>2, DeliveryAssumption
      <4>2. cord[d] \in Orders /\ redis[cord[d]] = d
        BY <4>1 DEF PastRedis, RedisInv, HoldsRedis, TypeInv, CallInv
      <4>3. QED
        BY <1>1, <1>2, <2>1, <4>1, <4>2
    <3>3. QED
      BY <3>1, <3>2
  <2>4. ASSUME NEW h \in Handlers, pc'[h] # "idle"
        PROVE  \E d \in Callers : cpc'[d] = "wait" /\ cjob'[d].to = h /\ cord'[d] = ord'[h]
    <3>1. PICK d \in Callers : cpc[d] = "wait" /\ cjob[d].to = h /\ cord[d] = ord[h]
      BY <1>1, <2>4 DEF RedisInv, HoldsRedis
    <3>2. QED
      BY <1>1, <2>1, <3>1
  <2>5. QED
    BY <2>2, <2>3, <2>4 DEF HoldsRedis, PastRedis
<1>3. ASSUME CGoto(c, "release"), UNCHANGED redis
      PROVE  HoldsRedis'
  BY <1>1, <1>3, RedisCallerMove DEF PastRedis
<1>4. QED
  BY <1>2, <1>3 DEF CallerRedis, AskRedis, RedisSound

LEMMA RedisPost ==
  ASSUME RedisInv, NEW c \in Callers, Post(c)
  PROVE  HoldsRedis'
<1>1. PICK h \in Handlers :
        /\ pc[h] = "idle" /\ Goto(h, "local")
        /\ ord' = [ord EXCEPT ![h] = cord[c]]
        /\ SetCall(c, [cjob[c] EXCEPT !.to = h, !.tries = @ + 1])
  BY DEF Post
<1>2. /\ pc' = [pc EXCEPT ![h] = "local"] /\ pc \in [Flows -> FlowSteps]
      /\ ord' = [ord EXCEPT ![h] = cord[c]] /\ ord \in [Flows -> Orders \cup {Nil}]
      /\ h \in Flows /\ h \notin Autos
  BY <1>1, DeliveryAssumption DEF Goto, Flows, RedisInv, TypeInv, FlowInv, FlowType
<1>3. /\ cpc[c] = "post" /\ cpc' = [cpc EXCEPT ![c] = "wait"] /\ cpc \in [Callers -> CallSteps]
      /\ cjob'[c].to = h /\ \A d \in Callers : d # c => cjob'[d] = cjob[d]
      /\ UNCHANGED <<cord, redis>>
  <2>1. cpc \in [Callers -> CallSteps] /\ cjob \in [Callers -> CallJobs]
    BY DEF RedisInv, TypeInv, CallInv, CallType
  <2>2. [cjob[c] EXCEPT !.to = h, !.tries = @ + 1].to = h
    BY <2>1 DEF CallJobs
  <2>3. cjob'[c].to = h /\ \A d \in Callers : d # c => cjob'[d] = cjob[d]
    BY <1>1, <2>1, <2>2 DEF SetCall
  <2>4. cpc[c] = "post" /\ cpc' = [cpc EXCEPT ![c] = "wait"] /\ UNCHANGED <<cord, redis>>
    BY DEF Post, CGoto, lockVars
  <2>5. QED
    BY <2>1, <2>3, <2>4
<1>4. ASSUME NEW f \in Autos, PastRedis(pc'[f]) PROVE redis'[ord'[f]] = f
  <2>1. f \in Flows /\ f # h
    BY <1>2 DEF Flows
  <2>2. QED
    BY <1>2, <1>3, <1>4, <2>1 DEF PastRedis, RedisInv, HoldsRedis
<1>5. ASSUME NEW d \in Callers, PastRedis(cpc'[d]) PROVE redis'[cord'[d]] = d
  BY <1>3, <1>5 DEF PastRedis, RedisInv, HoldsRedis
<1>6. ASSUME NEW g \in Handlers, pc'[g] # "idle"
      PROVE  \E d \in Callers : cpc'[d] = "wait" /\ cjob'[d].to = g /\ cord'[d] = ord'[g]
  <2>1. CASE g = h
    BY <1>2, <1>3, <2>1
  <2>2. CASE g # h
    <3>1. g \in Flows /\ pc[g] # "idle" /\ ord'[g] = ord[g]
      BY <1>2, <1>6, <2>2 DEF Flows
    <3>2. PICK d \in Callers : cpc[d] = "wait" /\ cjob[d].to = g /\ cord[d] = ord[g]
      BY <3>1 DEF RedisInv, HoldsRedis
    <3>3. QED
      BY <1>3, <3>1, <3>2
  <2>3. QED
    BY <2>1, <2>2
<1>7. QED
  BY <1>4, <1>5, <1>6 DEF HoldsRedis, PastRedis

LEMMA RedisCallerStep ==
  ASSUME RedisSound, RedisInv, NEW c \in Callers, CallerStep(c)
  PROVE  HoldsRedis'
<1>1. CASE CallerRedis(c)
  BY <1>1, RedisCallerRedis
<1>2. CASE Post(c)
  BY <1>2, RedisPost
<1>3. CASE c = "scheduler" /\ (SchedRecheck \/ SchedCheck)
  <2>1. UNCHANGED <<pc, ord, cord, redis>> /\ UNCHANGED <<cjob>>
    BY <1>3, Zenon DEF SchedRecheck, SchedCheck, flowVars, lockVars
  <2>2. cpc[c] \in {"recheck", "check"}
    BY <1>3 DEF SchedRecheck, SchedCheck
  <2>3. CGoto(c, "check") \/ CGoto(c, "post") \/ CGoto(c, "release")
    BY <1>3 DEF SchedRecheck, SchedCheck
  <2>4. QED
    BY <2>1, <2>2, <2>3, RedisCallerMove DEF PastRedis
<1>4. CASE CallerReply(c)
  <2>1. UNCHANGED <<pc, ord, cord, redis>> /\ UNCHANGED <<cjob>>
    BY <1>4, Zenon DEF CallerReply, flowVars, lockVars
  <2>2. QED
    BY <1>4, <2>1, RedisCallerMove DEF CallerReply, PastRedis
<1>5. CASE CallerRelease(c)
  <2>1. UNCHANGED <<pc, ord>> /\ cpc[c] = "release" /\ CGoto(c, "idle")
        /\ cord' = [cord EXCEPT ![c] = Nil] /\ cjob' = [cjob EXCEPT ![c] = NewCall]
        /\ DropRedis(cord[c], c)
    BY <1>5 DEF CallerRelease, flowVars, SetCall
  <2>2. \A d \in Callers : d # c => cord'[d] = cord[d] /\ cjob'[d].to = cjob[d].to
    BY <2>1 DEF RedisInv, TypeInv, CallInv, CallType
  <2>3. \A o \in Orders : redis'[o] = redis[o] \/ redis[o] = c
    BY <2>1 DEF DropRedis, RedisInv, TypeInv, LockType
  <2>4. QED
    BY <2>1, <2>2, <2>3, RedisCallerMove DEF PastRedis
<1>6. ~Timeout(c)
  BY DEF Timeout, RedisSound
<1>7. QED
  BY <1>1, <1>2, <1>3, <1>4, <1>5, <1>6 DEF CallerStep

LEMMA RedisFixed ==
  ASSUME RedisInv, UNCHANGED <<pc, ord, cpc, cord, cjob, redis>>
  PROVE  HoldsRedis'
BY DEF RedisInv, HoldsRedis

LEMMA RedisStart ==
  ASSUME RedisInv, SchedScan \/ SchedPick \/ ManualStart
  PROVE  HoldsRedis'
<1>1. UNCHANGED <<pc, ord, cjob, redis>>
  BY Zenon DEF SchedScan, SchedPick, ManualStart, flowVars, lockVars
<1>2. CASE SchedScan
  BY <1>1, <1>2, RedisFixed DEF SchedScan
<1>3. ASSUME NEW c \in Callers, cpc[c] = "idle", CGoto(c, "redis"),
             NEW o, cord' = [cord EXCEPT ![c] = o]
      PROVE  HoldsRedis'
  <2>1. \A d \in Callers : d # c => cord'[d] = cord[d]
    BY <1>3 DEF RedisInv, TypeInv, CallInv, CallType
  <2>2. QED
    BY <1>1, <1>3, <2>1, RedisCallerMove DEF PastRedis
<1>4. CASE SchedPick \/ ManualStart
  BY <1>3, <1>4 DEF SchedPick, ManualStart
<1>5. QED
  BY <1>2, <1>4

LEMMA RedisStep ==
  ASSUME RedisSound, RedisInv, [Next]_vars
  PROVE  RedisInv'
<1>1. TypeInv'
  BY TypeStep DEF RedisInv
<1>2. CASE \E f \in Autos : AutoStart(f)
  <2>1. PICK f \in Autos : AutoStart(f)
    BY <1>2
  <2>2. f \in Flows /\ f \notin Handlers /\ pc[f] = "idle" /\ UNCHANGED redis
        /\ UNCHANGED callVars
    BY <2>1, DeliveryAssumption DEF AutoStart, Flows, lockVars
  <2>3. CASE UNCHANGED flowVars
    BY <1>1, <2>2, <2>3, RedisFixed DEF flowVars, callVars, RedisInv
  <2>4. ASSUME NEW o, Goto(f, "redis"), ord' = [ord EXCEPT ![f] = o]
        PROVE  HoldsRedis'
    <3>1. \A g \in Flows : g # f => pc'[g] = pc[g] /\ ord'[g] = ord[g]
      BY <2>4 DEF Goto, RedisInv, TypeInv, FlowInv, FlowType
    <3>2. ~PastRedis(pc'[f])
      BY <2>2, <2>4 DEF Goto, PastRedis, RedisInv, TypeInv, FlowInv, FlowType
    <3>3. \A g \in Autos : PastRedis(pc'[g]) => PastRedis(pc[g]) /\ ord'[g] = ord[g]
      BY <3>1, <3>2 DEF Flows
    <3>4. \A h \in Handlers : pc'[h] # "idle" => pc[h] # "idle" /\ ord'[h] = ord[h]
      BY <2>2, <3>1 DEF Flows
    <3>5. QED
      BY <2>2, <3>3, <3>4, RedisSame DEF callVars
  <2>5. \/ UNCHANGED flowVars
        \/ \E o : Goto(f, "redis") /\ ord' = [ord EXCEPT ![f] = o]
    BY <2>1 DEF AutoStart
  <2>6. QED
    BY <1>1, <2>3, <2>4, <2>5 DEF RedisInv
<1>3. CASE \E f \in Flows : FlowStep(f)
  BY <1>1, <1>3, RedisFlowStep DEF RedisInv
<1>4. CASE SchedScan \/ SchedPick \/ ManualStart
  BY <1>1, <1>4, RedisStart DEF RedisInv
<1>5. CASE \E c \in Callers : CallerStep(c)
  BY <1>1, <1>5, RedisCallerStep DEF RedisInv
<1>6. CASE World
  <2>1. ~RedisExpire
    BY DEF RedisExpire, RedisSound
  <2>2. UNCHANGED <<pc, ord, cpc, cord, cjob, redis>>
    BY <1>6, <2>1, Zenon DEF World, Forget, Stop, Restart, ChangeSetting, PlatformClose,
       SyncFetch, SyncLoad, SyncUpsert, lockVars, flowVars, callVars
  <2>3. QED
    BY <1>1, <2>2, RedisFixed DEF RedisInv
<1>7. CASE UNCHANGED vars
  BY <1>1, <1>7, RedisFixed DEF vars, RedisInv, flowVars, callVars, lockVars
<1>8. QED
  BY <1>2, <1>3, <1>4, <1>5, <1>6, <1>7 DEF Next

LEMMA RedisInit == Init => RedisInv
BY TypeInit DEF Init, RedisInv, HoldsRedis, Flows

(* A flow under way is known to the lock: to itself or to its caller. *)
LEMMA RedisHolder ==
  ASSUME RedisInv, NEW f \in Flows, PastRedis(pc[f])
  PROVE  \/ f \in Autos /\ redis[ord[f]] = f
         \/ \E c \in Callers : redis[ord[f]] = c /\ cjob[c].to = f
BY DEF RedisInv, HoldsRedis, PastRedis, Flows

LEMMA RedisExcludes == RedisInv => Exclusive
<1> SUFFICES ASSUME RedisInv PROVE Exclusive
  OBVIOUS
<1>1. ASSUME NEW f \in Flows, NEW g \in Flows, PastRedis(pc[f]), PastRedis(pc[g]),
             ord[f] = ord[g]
      PROVE  f = g
  BY <1>1, RedisHolder, DeliveryAssumption
<1>2. \A f \in Flows : Working(f) \/ pc[f] = "local" => PastRedis(pc[f])
  BY DEF Working, PastRedis, FlowSteps
<1>3. \A f \in Flows : ~(Working(f) /\ pc[f] = "local")
  BY DEF Working
<1>4. QED
  BY <1>1, <1>2, <1>3 DEF Exclusive, OneFlowPerOrder

-----------------------------------------------------------------------------
(* Either of the two locks is enough *)

LEMMA GuardInit == Init /\ (OneInstance \/ RedisSound) => GuardInv
BY LockInit, RedisInit DEF GuardInv

LEMMA GuardStep == GuardInv /\ [Next]_vars => GuardInv'
<1>1. OneInstance' = OneInstance /\ RedisSound' = RedisSound
  BY DEF OneInstance, RedisSound
<1>2. QED
  BY <1>1, LockStep, RedisStep DEF GuardInv

LEMMA GuardHolds ==
  ASSUME OneInstance \/ RedisSound PROVE Spec => [](TypeInv /\ Exclusive)
<1>1. GuardInv => TypeInv /\ Exclusive
  BY LockExcludes, RedisExcludes DEF GuardInv, LockInv, RedisInv
<1>2. Init => GuardInv
  BY GuardInit
<1>3. QED
  BY <1>1, <1>2, GuardStep, PTL DEF Spec

(* Two flows never work on one order as long as either of the two locks is  *)
(* sound: with one instance of the account, its local lock keeps them apart *)
(* even when Redis is down, its keys expire and requests time out and are   *)
(* posted again; with Redis sound and no request timing out, the lock of    *)
(* the order does, however often the account is stopped and started again.  *)
THEOREM ExclusiveDelivery ==
  ASSUME OneInstance \/ RedisSound PROVE Spec => []OneFlowPerOrder
<1>1. Exclusive => OneFlowPerOrder
  BY DEF Exclusive
<1>2. Spec => [](TypeInv /\ Exclusive)
  BY GuardHolds
<1>3. QED
  BY <1>1, <1>2, PTL

-----------------------------------------------------------------------------
(* Rows that are handled stay handled *)

Kept == \A o \in Orders : Handled(o) => Handled(o)'

LEMMA SameRows ==
  ASSUME UNCHANGED row PROVE Kept
BY DEF Kept, Handled

LEMMA WarnKeeps ==
  ASSUME OrderType, NEW o, Warn(o) PROVE Kept
<1>1. ASSUME NEW p \in Orders
      PROVE  row'[p].status = row[p].status /\ row'[p].cardOnly = row[p].cardOnly
  BY DEF Warn, SetRow, OrderType, Rows
<1>2. QED
  BY <1>1 DEF Kept, Handled

LEMMA EndEmptyKeeps ==
  ASSUME OrderType, NEW f, WarnEmpty(f) PROVE Kept
BY SameRows, WarnKeeps DEF WarnEmpty

LEMMA PreCheckKeeps ==
  ASSUME OrderType, NEW o, NEW v, PreCheck(o, v) PROVE Kept
BY SameRows, WarnKeeps DEF PreCheck

(* The record itself makes its order handled. *)
LEMMA WriteHandles ==
  ASSUME TypeInv, NEW f \in Flows, Write(f)
  PROVE  Kept /\ Handled(ord[f])'
<1>1. PICK how : SetRow(ord[f], Recorded(ord[f], how, card[f]))
  BY DEF Write
<1>2. ord[f] \in Orders /\ card[f] \in Cards
  BY DEF Write, TypeInv, FlowInv, Holding
<1>3. row[ord[f]] \in Rows
  BY <1>2 DEF TypeInv, OrderType
<1>4. \/ row'[ord[f]] = [row[ord[f]] EXCEPT !.cardOnly = TRUE, !.content = card[f]]
      \/ row'[ord[f]] = [row[ord[f]] EXCEPT !.status = "shipped", !.content = card[f],
                                            !.warned = FALSE]
  BY <1>1, <1>2 DEF Recorded, SetRow, TypeInv, OrderType
<1>5. row'[ord[f]].cardOnly \/ row'[ord[f]].status = "shipped"
  BY <1>3, <1>4 DEF Rows
<1>6. \A p \in Orders : p # ord[f] => row'[p] = row[p]
  BY <1>1 DEF SetRow, TypeInv, OrderType
<1>7. ord' = ord
  BY DEF Write
<1>8. QED
  BY <1>2, <1>5, <1>6, <1>7 DEF Kept, Handled

LEMMA SchedCheckKeeps ==
  ASSUME TypeInv, NeverClosed, SchedCheck PROVE Kept
<1> DEFINE o == cord["scheduler"]
<1>1. o \in Orders /\ "scheduler" \in Callers
  BY DEF SchedCheck, TypeInv, CallInv
<1>2. CASE UNCHANGED row
  BY <1>2, SameRows
<1>3. CASE Warn(o)
  BY <1>3, WarnKeeps DEF TypeInv
<1>4. CASE platform[o] # "pending" /\ SetRow(o, [row[o] EXCEPT !.status = platform[o]])
  <2>1. platform[o] = "shipped" /\ row[o] \in Rows
    BY <1>1, <1>4 DEF NeverClosed, TypeInv, OrderType, Statuses
  <2>2. row'[o].status = "shipped"
    BY <1>1, <1>4, <2>1 DEF SetRow, TypeInv, OrderType, Rows
  <2>3. \A p \in Orders : p # o => row'[p] = row[p]
    BY <1>4 DEF SetRow, TypeInv, OrderType
  <2>4. QED
    BY <2>2, <2>3 DEF Kept, Handled
<1>5. QED
  BY <1>2, <1>3, <1>4 DEF SchedCheck

LEMMA CallerReplyKeeps ==
  ASSUME TypeInv, NEW c \in Callers, CallerReply(c) PROVE Kept
<1>1. cord[c] \in Orders
  BY DEF CallerReply, TypeInv, CallInv
<1>2. row[cord[c]] \in Rows
  BY <1>1 DEF TypeInv, OrderType
<1>3. LET r == row[cord[c]]
          a == cjob[c].content
      IN row'[cord[c]] \in {r, [r EXCEPT !.warned = TRUE],
                            [r EXCEPT !.cardOnly = TRUE, !.content = a],
                            [r EXCEPT !.status = "shipped", !.content = a]}
  BY <1>1 DEF CallerReply, SetRow, RowAfterReply, TypeInv, OrderType
<1>4. Handled(cord[c]) => row'[cord[c]].cardOnly \/ row'[cord[c]].status = "shipped"
  BY <1>2, <1>3 DEF Handled, Rows
<1>5. \A p \in Orders : p # cord[c] => row'[p] = row[p]
  BY DEF CallerReply, SetRow, TypeInv, OrderType
<1>6. QED
  BY <1>4, <1>5 DEF Kept, Handled

-----------------------------------------------------------------------------
(* How a step leaves the cards *)

CardParts == TakesOnce /\ RecordsEach /\ AtMostOneCard

LEMMA CardSame ==
  ASSUME CardInv, Kept, UNCHANGED <<pc, ord, card, given>>
  PROVE  CardParts'
<1>1. TakesOnce' /\ AtMostOneCard'
  BY DEF CardInv, TakesOnce, AtMostOneCard
<1>2. RecordsEach'
  BY DEF CardInv, RecordsEach, Kept
<1>3. QED
  BY <1>1, <1>2 DEF CardParts

(* A flow moves on: to where it may take a card only if none was taken, and *)
(* away from the card it holds only when the order is handled.              *)
LEMMA CardMove ==
  ASSUME CardInv, Kept, NEW f \in Flows, pc[f] # "idle", NEW step, Goto(f, step),
         step \in Taking => pc[f] \in Taking \/ given[ord[f]] = {},
         step \in Holding => pc[f] \in Holding,
         pc[f] \in Holding => step \in Holding \/ Handled(ord[f])',
         UNCHANGED <<ord, card, given>>
  PROVE  CardParts'
<1>1. pc' = [pc EXCEPT ![f] = step] /\ pc \in [Flows -> FlowSteps]
  BY DEF Goto, CardInv, TypeInv, FlowInv, FlowType
<1>2. TakesOnce'
  BY <1>1 DEF CardInv, TakesOnce
<1>3. ASSUME NEW o \in Orders
      PROVE  \/ given'[o] = {} \/ Handled(o)'
             \/ \E g \in Flows : pc'[g] \in Holding /\ ord'[g] = o
  <2>1. CASE given[o] = {}
    BY <2>1
  <2>2. CASE Handled(o)
    BY <2>2 DEF Kept
  <2>3. CASE \E g \in Flows : pc[g] \in Holding /\ ord[g] = o
    BY <1>1, <2>3
  <2>4. QED
    BY <2>1, <2>2, <2>3 DEF CardInv, RecordsEach
<1>4. RecordsEach'
  BY <1>3 DEF RecordsEach
<1>5. AtMostOneCard'
  BY DEF CardInv, AtMostOneCard
<1>6. QED
  BY <1>2, <1>4, <1>5 DEF CardParts

(* A flow that finds the lock free and the order not handled: nobody took a *)
(* card for it.                                                             *)
LEMMA NoneTaken ==
  ASSUME CardInv, NEW f \in Flows, pc[f] = "local", lk[f] # 0, ~Handled(ord[f]),
         local[lk[f]][ord[f]] = Nil
  PROVE  given[ord[f]] = {}
<1>1. ord[f] \in Orders
  BY DEF CardInv, TypeInv, FlowInv
<1>2. ASSUME NEW g \in Flows, pc[g] \in Holding, ord[g] = ord[f] PROVE FALSE
  <2>1. Working(g)
    BY <1>2 DEF Holding, Working, FlowSteps
  <2>2. QED
    BY <1>2, <2>1 DEF CardInv, Exclusive
<1>3. QED
  BY <1>1, <1>2 DEF CardInv, RecordsEach

LEMMA CardTake ==
  ASSUME CardInv, NEW f \in Flows, pc[f] = "card", NEW c \in Cards,
         Goto(f, "send"), card' = [card EXCEPT ![f] = c],
         given' = [given EXCEPT ![ord[f]] = @ \cup {c}],
         UNCHANGED <<row, ord>>
  PROVE  CardParts'
<1>1. given[ord[f]] = {} /\ ord[f] \in Orders
  BY DEF CardInv, TakesOnce, Taking, TypeInv, FlowInv
<1>2. \A o \in Orders : given'[o] = IF o = ord[f] THEN {c} ELSE given[o]
  BY <1>1 DEF CardInv, TypeInv, OrderType
<1>3. /\ pc' = [pc EXCEPT ![f] = "send"] /\ pc \in [Flows -> FlowSteps]
      /\ card' = [card EXCEPT ![f] = c] /\ card \in [Flows -> Cards \cup {Nil}]
  BY DEF Goto, CardInv, TypeInv, FlowInv, FlowType
<1>4. ASSUME NEW g \in Flows, g # f, pc[g] \in Taking \cup Holding
      PROVE  ord[g] # ord[f] /\ ord[g] \in Orders
  <2>1. Working(g) /\ Working(f)
    BY <1>4 DEF Working, Taking, Holding, FlowSteps
  <2>2. OneFlowPerOrder
    BY DEF CardInv, Exclusive
  <2>3. ord[g] \in Orders
    BY <2>1 DEF Working, CardInv, TypeInv, FlowInv
  <2>4. QED
    BY <1>4, <2>1, <2>2, <2>3 DEF OneFlowPerOrder
<1>5. ASSUME NEW g \in Flows
      PROVE  /\ pc'[g] \in Taking => given'[ord'[g]] = {}
             /\ pc'[g] \in Holding => given'[ord'[g]] = {card'[g]}
  <2>1. CASE g = f
    BY <1>1, <1>2, <1>3, <2>1 DEF Taking
  <2>2. CASE g # f
    BY <1>2, <1>3, <1>4, <2>2 DEF CardInv, TakesOnce
  <2>3. QED
    BY <2>1, <2>2
<1>6. TakesOnce'
  BY <1>5 DEF TakesOnce
<1>7. ASSUME NEW o \in Orders
      PROVE  \/ given'[o] = {} \/ Handled(o)'
             \/ \E g \in Flows : pc'[g] \in Holding /\ ord'[g] = o
  <2>1. CASE o = ord[f]
    BY <1>3, <2>1 DEF Holding
  <2>2. CASE o # ord[f]
    <3>1. CASE \E g \in Flows : pc[g] \in Holding /\ ord[g] = o
      BY <1>3, <2>2, <3>1
    <3>2. CASE given[o] = {} \/ Handled(o)
      BY <1>2, <2>2, <3>2 DEF Handled
    <3>3. QED
      BY <3>1, <3>2 DEF CardInv, RecordsEach
  <2>3. QED
    BY <2>1, <2>2
<1>8. RecordsEach'
  BY <1>7 DEF RecordsEach
<1>9. AtMostOneCard'
  BY <1>2 DEF CardInv, AtMostOneCard
<1>10. QED
  BY <1>6, <1>8, <1>9 DEF CardParts

(* A flow that starts or ends has no card. *)
LEMMA CardEdge ==
  ASSUME CardInv, Kept, NEW f \in Flows, pc[f] \notin Holding,
         NEW step \in {"idle", "redis", "local"}, Goto(f, step),
         NEW o, ord' = [ord EXCEPT ![f] = o],
         \A g \in Flows : g # f => card'[g] = card[g],
         UNCHANGED given
  PROVE  CardParts'
<1>1. /\ pc' = [pc EXCEPT ![f] = step] /\ pc \in [Flows -> FlowSteps]
      /\ ord \in [Flows -> Orders \cup {Nil}]
  BY DEF Goto, CardInv, TypeInv, FlowInv, FlowType
<1>2. step \notin Taking \cup Holding
  BY DEF Taking, Holding
<1>3. TakesOnce'
  BY <1>1, <1>2 DEF CardInv, TakesOnce
<1>4. ASSUME NEW p \in Orders
      PROVE  \/ given'[p] = {} \/ Handled(p)'
             \/ \E g \in Flows : pc'[g] \in Holding /\ ord'[g] = p
  <2>1. CASE given[p] = {} \/ Handled(p)
    BY <2>1 DEF Kept
  <2>2. CASE \E g \in Flows : pc[g] \in Holding /\ ord[g] = p
    BY <1>1, <2>2
  <2>3. QED
    BY <2>1, <2>2 DEF CardInv, RecordsEach
<1>5. RecordsEach'
  BY <1>4 DEF RecordsEach
<1>6. QED
  BY <1>3, <1>5 DEF CardInv, AtMostOneCard, CardParts

-----------------------------------------------------------------------------
(* Steps keep the cards: flows *)

LEMMA CardFlowStep ==
  ASSUME RowsKept, CardInv, NEW f \in Flows, FlowStep(f)
  PROVE  CardParts'
<1> USE DEF CardInv, TypeInv
<1>1. CASE AutoRedis(f)
  BY <1>1, CardMove, SameRows DEF AutoRedis, Taking, Holding, histVars
<1>2. CASE AutoLocal(f)
  <2>1. Kept /\ pc[f] = "local" /\ UNCHANGED <<ord, card, given>>
    BY <1>2, SameRows DEF AutoLocal, histVars
  <2>2. CASE Goto(f, "release")
    BY <2>1, <2>2, CardMove DEF Taking, Holding
  <2>3. CASE Goto(f, "prep") /\ local[lk[f]][ord[f]] = Nil /\ ~Handled(ord[f])
    <3>1. given[ord[f]] = {}
      <4>1. lk[f] # 0
        BY <1>2, <2>1 DEF AutoLocal, FlowInv
      <4>2. QED
        BY <2>1, <2>3, <4>1, NoneTaken
    <3>2. QED
      BY <2>1, <2>3, <3>1, CardMove DEF Taking, Holding
  <2>4. QED
    BY <1>2, <2>2, <2>3 DEF AutoLocal
<1>3. CASE HandlerLocal(f)
  <2>1. Kept /\ pc[f] = "local" /\ UNCHANGED <<ord, card, given>>
    BY <1>3, SameRows DEF HandlerLocal, histVars
  <2>2. CASE Goto(f, "release")
    BY <2>1, <2>2, CardMove DEF Taking, Holding
  <2>3. CASE Goto(f, "pre") /\ lk[f] # 0 /\ local[lk[f]][ord[f]] = Nil /\ ~Handled(ord[f])
    <3>1. given[ord[f]] = {}
      BY <2>1, <2>3, NoneTaken
    <3>2. QED
      BY <2>1, <2>3, <3>1, CardMove DEF Taking, Holding
  <2>4. QED
    BY <1>3, <2>2, <2>3 DEF HandlerLocal, Handled
<1>4. CASE HandlerPre(f)
  <2>1. Kept /\ pc[f] = "pre" /\ UNCHANGED <<ord, card, given>>
    BY <1>4, PreCheckKeeps DEF HandlerPre, histVars
  <2>2. Goto(f, "release") \/ Goto(f, "prep")
    BY <1>4 DEF HandlerPre
  <2>3. QED
    BY <2>1, <2>2, CardMove DEF Taking, Holding
<1>5. CASE Prep(f) \/ ConfirmNothing(f)
  BY <1>5, CardMove, SameRows DEF Prep, ConfirmNothing, Taking, Holding, histVars
<1>6. CASE ConfirmRefused(f)
  BY <1>6, CardMove, EndEmptyKeeps DEF ConfirmRefused, EndEmpty, Taking, Holding, histVars
<1>7. CASE ConfirmFirst(f)
  <2>1. Answers(ord[f]) \subseteq {"ok", "fail", "already", "unknown"}
    BY DEF Answers
  <2>2. \/ Goto(f, "card") /\ UNCHANGED row
        \/ Goto(f, "release") /\ WarnEmpty(f)
    BY <1>7, <2>1 DEF ConfirmFirst, EndEmpty
  <2>3. pc[f] = "confirm" /\ UNCHANGED <<ord, card, given>>
    BY <1>7 DEF ConfirmFirst, histVars
  <2>4. Kept
    BY <2>2, SameRows, EndEmptyKeeps
  <2>5. QED
    BY <2>2, <2>3, <2>4, CardMove DEF Taking, Holding
<1>8. CASE TakeCard(f)
  <2>1. CASE EndEmpty(f, "fail") /\ UNCHANGED <<stock, card, given>>
    BY <1>8, <2>1, CardMove, EndEmptyKeeps DEF TakeCard, EndEmpty, Taking, Holding
  <2>2. ASSUME NEW c \in stock, card' = [card EXCEPT ![f] = c],
               given' = [given EXCEPT ![ord[f]] = @ \cup {c}],
               Goto(f, "send"), UNCHANGED row
        PROVE  CardParts'
    <3>1. c \in Cards /\ pc[f] = "card" /\ UNCHANGED ord
      BY <1>8 DEF OrderType, TakeCard
    <3>2. QED
      BY <2>2, <3>1, CardTake
  <2>3. QED
    BY <1>8, <2>1, <2>2 DEF TakeCard
<1>9. CASE Send(f) \/ Receipt(f) \/ ConfirmAfter(f) \/ SkipConfirmAfter(f)
  <2>1. Kept
    BY <1>9, SameRows DEF Send, Receipt, ConfirmAfter, SkipConfirmAfter
  <2>2. \E step \in Holding : Goto(f, step)
    BY <1>9 DEF Send, Receipt, ConfirmAfter, SkipConfirmAfter, Holding
  <2>3. pc[f] \in Holding /\ UNCHANGED <<ord, card, given>>
    BY <1>9 DEF Send, Receipt, ConfirmAfter, SkipConfirmAfter, Holding, histVars
  <2>4. QED
    BY <2>1, <2>2, <2>3, CardMove DEF Taking, Holding
<1>10. CASE Write(f)
  <2>1. Kept /\ Handled(ord[f])'
    BY <1>10, WriteHandles
  <2>2. Goto(f, "flag") \/ Goto(f, "release")
    BY <1>10 DEF Write
  <2>3. pc[f] = "write" /\ UNCHANGED <<ord, card, given>>
    BY <1>10 DEF Write, histVars
  <2>4. QED
    BY <2>1, <2>2, <2>3, CardMove DEF Taking, Holding
<1>11. CASE Flag(f)
  BY <1>11, CardMove, WarnKeeps DEF Flag, Taking, Holding, histVars
<1>12. CASE AutoRelease(f) \/ HandlerRelease(f)
  <2>1. Kept
    BY <1>12, SameRows DEF AutoRelease, HandlerRelease
  <2>2. pc[f] \notin Holding /\ Goto(f, "idle") /\ ord' = [ord EXCEPT ![f] = Nil]
        /\ UNCHANGED given /\ card' = [card EXCEPT ![f] = Nil]
    BY <1>12 DEF AutoRelease, HandlerRelease, EndFlow, Holding, histVars
  <2>3. \A g \in Flows : g # f => card'[g] = card[g]
    BY <2>2 DEF FlowInv, FlowType
  <2>4. QED
    BY <2>1, <2>2, <2>3, CardEdge
<1>13. QED
  BY <1>1, <1>2, <1>3, <1>4, <1>5, <1>6, <1>7, <1>8, <1>9, <1>10, <1>11, <1>12
  DEF FlowStep

LEMMA CardAutoStart ==
  ASSUME CardInv, NEW f \in Autos, AutoStart(f)
  PROVE  CardParts'
<1>1. Kept
  BY PreCheckKeeps DEF AutoStart, CardInv, TypeInv
<1>2. \/ UNCHANGED flowVars
      \/ \E o : /\ Goto(f, "redis") /\ ord' = [ord EXCEPT ![f] = o]
                /\ UNCHANGED card
  BY DEF AutoStart
<1>3. f \in Flows /\ pc[f] \notin Holding /\ UNCHANGED given
  BY DEF AutoStart, Flows, Holding, histVars
<1>4. QED
  BY <1>1, <1>2, <1>3, CardSame, CardEdge DEF flowVars

LEMMA CardPost ==
  ASSUME CardInv, NEW c \in Callers, Post(c)
  PROVE  CardParts'
<1>1. Kept
  BY SameRows DEF Post
<1>2. PICK h \in Handlers : /\ pc[h] = "idle" /\ Goto(h, "local")
                            /\ ord' = [ord EXCEPT ![h] = cord[c]]
  BY DEF Post
<1>3. h \in Flows /\ pc[h] \notin Holding /\ UNCHANGED <<given, card>>
  BY <1>2 DEF Post, Flows, Holding, histVars
<1>4. QED
  BY <1>1, <1>2, <1>3, CardEdge

(* Callers and the rest of the world leave the flows alone. *)
LEMMA CardElse ==
  ASSUME RowsKept, CardInv,
         \/ SchedScan \/ SchedPick \/ ManualStart \/ World
         \/ \E c \in Callers : CallerStep(c) /\ ~Post(c)
  PROVE  CardParts'
<1> USE DEF CardInv, TypeInv
<1>1. CASE SchedScan \/ SchedPick \/ ManualStart
  BY <1>1, SameRows, CardSame
  DEF SchedScan, SchedPick, ManualStart, flowVars, histVars
<1>2. CASE World
  <2>1. ASSUME NEW o \in Orders PROVE ~SyncUpsert(o)
    <3>1. sync[o] = <<>>
      BY DEF NeverFetched
    <3>2. Len(sync[o]) # 2
      BY <3>1
    <3>3. QED
      BY <3>2 DEF SyncUpsert
  <2>2. UNCHANGED row
    BY <1>2, <2>1
    DEF World, RedisExpire, Forget, Stop, Restart, ChangeSetting, PlatformClose,
        SyncFetch, SyncLoad
  <2>3. UNCHANGED flowVars /\ UNCHANGED histVars
    BY <1>2
    DEF World, RedisExpire, Forget, Stop, Restart, ChangeSetting, PlatformClose,
        SyncFetch, SyncLoad, SyncUpsert
  <2>4. QED
    BY <2>2, <2>3, SameRows, CardSame DEF flowVars, histVars
<1>3. CASE \E c \in Callers : CallerStep(c) /\ ~Post(c)
  <2>1. PICK c \in Callers : CallerStep(c) /\ ~Post(c)
    BY <1>3
  <2>2. UNCHANGED flowVars /\ UNCHANGED histVars
    BY <2>1 DEF CallerStep, CallerRedis, SchedRecheck, SchedCheck, Timeout,
       CallerReply, CallerRelease
  <2>3. CASE SchedCheck \/ CallerReply(c)
    BY <2>1, <2>3, SchedCheckKeeps, CallerReplyKeeps, <2>2, CardSame DEF flowVars, histVars
  <2>4. CASE Timeout(c)
    <3>1. Kept
      BY <2>4, WarnKeeps, SameRows DEF Timeout
    <3>2. QED
      BY <2>2, <3>1, CardSame DEF flowVars, histVars
  <2>5. CASE CallerRedis(c) \/ SchedRecheck \/ CallerRelease(c)
    BY <2>2, <2>5, SameRows, CardSame
    DEF CallerRedis, SchedRecheck, CallerRelease, flowVars, histVars
  <2>6. QED
    BY <2>1, <2>3, <2>4, <2>5 DEF CallerStep
<1>4. QED
  BY <1>1, <1>2, <1>3

-----------------------------------------------------------------------------
(* What keeps handled rows handled stays true *)

LEMMA NotFetchedStep ==
  ASSUME "sync" \notin Faults, NeverFetched, [Next]_vars
  PROVE  NeverFetched'
<1>1. ASSUME NEW o \in Orders
      PROVE  ~SyncFetch(o) /\ ~SyncLoad(o) /\ ~SyncUpsert(o)
  <2>1. Len(sync[o]) = 0
    BY DEF NeverFetched
  <2>2. QED
    BY <2>1 DEF SyncFetch, SyncLoad, SyncUpsert
<1>2. CASE World
  BY <1>1, <1>2
  DEF World, RedisExpire, Forget, Stop, Restart, ChangeSetting, PlatformClose, NeverFetched
<1>3. CASE \E f \in Flows : FlowStep(f)
  <2>1. UNCHANGED sync
    BY <1>3 DEF FlowStep, AutoRedis, AutoLocal, HandlerLocal, HandlerPre, Prep,
       ConfirmNothing, ConfirmRefused, ConfirmFirst, TakeCard, Send, Receipt,
       ConfirmAfter, SkipConfirmAfter, Write, Flag, AutoRelease, HandlerRelease
  <2>2. QED
    BY <2>1 DEF NeverFetched
<1>4. CASE \/ \E f \in Autos : AutoStart(f)
           \/ SchedScan \/ SchedPick \/ ManualStart
           \/ \E c \in Callers : CallerStep(c)
           \/ UNCHANGED vars
  <2>1. UNCHANGED sync
    BY <1>4 DEF AutoStart, SchedScan, SchedPick, ManualStart, CallerStep, CallerRedis,
       SchedRecheck, SchedCheck, Post, Timeout, CallerReply, CallerRelease, vars
  <2>2. QED
    BY <2>1 DEF NeverFetched
<1>5. QED
  BY <1>2, <1>3, <1>4 DEF Next

LEMMA PreCheckOpen ==
  ASSUME RowsKept, "scheduler" \in Callers, NEW o, NEW v \in Verdicts, PreCheck(o, v)
  PROVE  UNCHANGED platform
BY DEF RowsKept, PreCheck

LEMMA NotClosedStep ==
  ASSUME RowsKept, TypeInv, NeverClosed, [Next]_vars
  PROVE  NeverClosed'
<1> SUFFICES ASSUME "scheduler" \in Callers, NEW o \in Orders
             PROVE  platform'[o] # "closed"
  BY DEF NeverClosed
<1>1. platform[o] # "closed"
  BY DEF NeverClosed
<1>2. ASSUME NEW f, NEW answer, ConfirmOnPlatform(ord[f], answer)
      PROVE  platform'[o] # "closed"
  BY <1>1, <1>2 DEF ConfirmOnPlatform, TypeInv, OrderType
<1>3. CASE \E f \in Flows : FlowStep(f)
  <2>1. PICK f \in Flows : FlowStep(f)
    BY <1>3
  <2>2. CASE HandlerPre(f)
    BY <1>1, <2>2, PreCheckOpen DEF HandlerPre
  <2>3. CASE ConfirmFirst(f) \/ ConfirmAfter(f)
    BY <1>2, <2>3 DEF ConfirmFirst, ConfirmAfter
  <2>4. CASE ~HandlerPre(f) /\ ~ConfirmFirst(f) /\ ~ConfirmAfter(f)
    BY <1>1, <2>1, <2>4 DEF FlowStep, AutoRedis, AutoLocal, HandlerLocal, Prep,
       ConfirmNothing, ConfirmRefused, TakeCard, Send, Receipt, SkipConfirmAfter,
       Write, Flag, AutoRelease, HandlerRelease
  <2>5. QED
    BY <2>2, <2>3, <2>4
<1>4. CASE \E f \in Autos : AutoStart(f)
  BY <1>1, <1>4, PreCheckOpen DEF AutoStart
<1>5. CASE World
  BY <1>1, <1>5
  DEF World, RowsKept, RedisExpire, Forget, Stop, Restart, ChangeSetting, PlatformClose,
      SyncFetch, SyncLoad, SyncUpsert
<1>6. CASE \/ SchedScan \/ SchedPick \/ ManualStart
           \/ \E c \in Callers : CallerStep(c)
           \/ UNCHANGED vars
  BY <1>1, <1>6 DEF SchedScan, SchedPick, ManualStart, CallerStep, CallerRedis,
     SchedRecheck, SchedCheck, Post, Timeout, CallerReply, CallerRelease, vars
<1>7. QED
  BY <1>3, <1>4, <1>5, <1>6 DEF Next

LEMMA CardStep ==
  ASSUME RowsKept, CardInv, [Next]_vars, TypeInv', Exclusive'
  PROVE  CardInv'
<1>1. NeverFetched' /\ NeverClosed'
  BY NotFetchedStep, NotClosedStep DEF CardInv, RowsKept
<1>2. CardParts'
  <2>1. CASE \E f \in Autos : AutoStart(f)
    BY <2>1, CardAutoStart
  <2>2. CASE \E f \in Flows : FlowStep(f)
    BY <2>2, CardFlowStep
  <2>3. CASE \E c \in Callers : Post(c)
    BY <2>3, CardPost
  <2>4. CASE \/ SchedScan \/ SchedPick \/ ManualStart \/ World
             \/ \E c \in Callers : CallerStep(c) /\ ~Post(c)
    BY <2>4, CardElse
  <2>5. CASE UNCHANGED vars
    BY <2>5, SameRows, CardSame DEF vars, flowVars, histVars
  <2>6. QED
    BY <2>1, <2>2, <2>3, <2>4, <2>5 DEF Next
<1>3. QED
  BY <1>1, <1>2 DEF CardInv, CardParts

LEMMA CardInit == Init => CardInv
BY TypeInit, LockInit, LockExcludes
DEF Init, CardInv, NeverFetched, NeverClosed, TakesOnce, RecordsEach, AtMostOneCard,
    Taking, Holding

LEMMA CardHolds ==
  ASSUME OneInstance \/ RedisSound, RowsKept PROVE Spec => []CardInv
<1>1. CardInv /\ [Next]_vars /\ (TypeInv /\ Exclusive)' => CardInv'
  BY CardStep
<1>2. Spec => [](TypeInv /\ Exclusive)
  BY GuardHolds
<1>3. QED
  BY <1>1, <1>2, CardInit, PTL DEF Spec

(* No order is given a second card, with answers lost, settings switched    *)
(* and a caller or a message coming at any time, as long as one of the two  *)
(* locks is sound (Redis down, keys expiring and requests timing out but    *)
(* one instance, or restarts but Redis sound) and handled rows are kept: no *)
(* list fetch runs, and either the scheduler does not run or no order is    *)
(* closed on the platform.                                                  *)
THEOREM NoSecondCard ==
  ASSUME OneInstance \/ RedisSound, RowsKept PROVE Spec => []AtMostOneCard
<1>1. CardInv => AtMostOneCard
  BY DEF CardInv
<1>2. Spec => []CardInv
  BY CardHolds
<1>3. QED
  BY <1>1, <1>2, PTL

-----------------------------------------------------------------------------
(* What happens to the card of an order *)

KeepsContent == \A o \in Orders : row'[o].content = row[o].content

(* No card leaves the stock, none reaches a buyer, none is recorded.        *)
NoDelivery == UNCHANGED <<stock, given, chat>> /\ KeepsContent

(* The flows that hold a card are the same, for the same orders.            *)
SameHolders ==
  \A g \in Flows :
    /\ pc'[g] \in Holding <=> pc[g] \in Holding
    /\ pc[g] \in Holding => ord'[g] = ord[g]
    /\ pc'[g] = "send" => pc[g] = "send"

LEMMA SameContent ==
  ASSUME UNCHANGED row PROVE KeepsContent
BY DEF KeepsContent

LEMMA WarnContent ==
  ASSUME OrderType, NEW o, Warn(o) PROVE KeepsContent
BY DEF KeepsContent, Warn, SetRow, OrderType, Rows

LEMMA WarnEmptyContent ==
  ASSUME OrderType, NEW f, WarnEmpty(f) PROVE KeepsContent
BY SameContent, WarnContent DEF WarnEmpty

LEMMA PreCheckContent ==
  ASSUME OrderType, NEW o, NEW v, PreCheck(o, v) PROVE KeepsContent
BY SameContent, WarnContent DEF PreCheck

LEMMA StatusContent ==
  ASSUME OrderType, NEW o, NEW s, SetRow(o, [row[o] EXCEPT !.status = s])
  PROVE  KeepsContent
BY DEF KeepsContent, SetRow, OrderType, Rows

LEMMA HoldersFixed ==
  ASSUME UNCHANGED <<pc, ord>> PROVE SameHolders
BY DEF SameHolders

(* One flow moves, and does not take its card or leave it behind. *)
LEMMA HoldersMove ==
  ASSUME FlowType, NEW f \in Flows, NEW step, Goto(f, step),
         step \in Holding <=> pc[f] \in Holding, step # "send",
         \A g \in Flows : g # f => ord'[g] = ord[g],
         pc[f] \in Holding => ord'[f] = ord[f]
  PROVE  SameHolders
BY DEF SameHolders, Goto, FlowType

LEMMA TraceSame ==
  ASSUME TraceInv, NoDelivery, SameHolders
  PROVE  Traced'
<1>1. ASSUME NEW o \in Orders
      PROVE  /\ chat'[o] \subseteq given'[o]
             /\ row'[o].content = Nil =>
                  given'[o] = {} \/ \E f \in Flows : pc'[f] \in Holding /\ ord'[f] = o
             /\ row'[o].content # Nil => given'[o] = {row'[o].content}
  BY DEF TraceInv, Traced, NoDelivery, KeepsContent, SameHolders
<1>2. ASSUME NEW f \in Flows
      PROVE  /\ pc'[f] \in Holding => row'[ord'[f]].content = Nil
             /\ pc'[f] = "send" => chat'[ord'[f]] = {}
  <2>1. pc[f] \in Holding => ord[f] \in Orders
    BY DEF TraceInv, CardInv, TypeInv, FlowInv, Holding
  <2>2. "send" \in Holding
    BY DEF Holding
  <2>3. QED
    BY <2>1, <2>2 DEF TraceInv, Traced, NoDelivery, KeepsContent, SameHolders
<1>3. QED
  BY <1>1, <1>2 DEF Traced

(* Before it may take a card, and after it recorded one. *)
LEMMA QuietFlowStep ==
  ASSUME OrderType, FlowInv, NEW f \in Flows, FlowStep(f),
         ~Write(f), ~Send(f), ~(TakeCard(f) /\ stock # {})
  PROVE  NoDelivery /\ SameHolders
<1> USE DEF FlowInv
<1>1. CASE AutoRedis(f) \/ AutoLocal(f)
  <2>1. UNCHANGED <<stock, given, chat, row, ord>>
    BY <1>1, Zenon DEF AutoRedis, AutoLocal, histVars
  <2>2. \E step : Goto(f, step) /\ step \notin Holding
    BY <1>1 DEF AutoRedis, AutoLocal, Holding
  <2>3. pc[f] \notin Holding
    BY <1>1 DEF AutoRedis, AutoLocal, Holding
  <2>4. QED
    BY <2>1, <2>2, <2>3, SameContent, HoldersMove DEF NoDelivery, Holding
<1>2. CASE HandlerLocal(f)
  <2>1. UNCHANGED <<stock, given, chat, row, ord>>
    BY <1>2, Zenon DEF HandlerLocal, histVars
  <2>2. Goto(f, "release") \/ Goto(f, "pre")
    BY <1>2 DEF HandlerLocal
  <2>3. pc[f] \notin Holding
    BY <1>2 DEF HandlerLocal, Holding
  <2>4. QED
    BY <2>1, <2>2, <2>3, SameContent, HoldersMove DEF NoDelivery, Holding
<1>3. CASE HandlerPre(f)
  <2>1. UNCHANGED <<stock, given, chat, ord>> /\ KeepsContent
    BY <1>3, PreCheckContent DEF HandlerPre, histVars
  <2>2. \E step : Goto(f, step) /\ step \notin Holding
    BY <1>3 DEF HandlerPre, Holding
  <2>3. pc[f] \notin Holding
    BY <1>3 DEF HandlerPre, Holding
  <2>4. QED
    BY <2>1, <2>2, <2>3, HoldersMove DEF NoDelivery, Holding
<1>4. CASE Prep(f) \/ ConfirmNothing(f)
  <2>1. UNCHANGED <<stock, given, chat, row, ord>>
    BY <1>4, Zenon DEF Prep, ConfirmNothing, histVars
  <2>2. \E step : Goto(f, step) /\ step \notin Holding
    BY <1>4 DEF Prep, ConfirmNothing, Holding
  <2>3. pc[f] \notin Holding
    BY <1>4 DEF Prep, ConfirmNothing, Holding
  <2>4. QED
    BY <2>1, <2>2, <2>3, SameContent, HoldersMove DEF NoDelivery, Holding
<1>5. CASE ConfirmRefused(f) \/ TakeCard(f)
  <2>1. UNCHANGED <<stock, given, chat, ord>> /\ EndEmpty(f, "fail")
    BY <1>5 DEF ConfirmRefused, TakeCard, histVars
  <2>2. pc[f] \notin Holding /\ "release" \notin Holding
    BY <1>5 DEF ConfirmRefused, TakeCard, Holding
  <2>3. KeepsContent
    BY <2>1, WarnEmptyContent DEF EndEmpty
  <2>4. QED
    BY <2>1, <2>2, <2>3, HoldersMove DEF NoDelivery, EndEmpty
<1>6. CASE ConfirmFirst(f)
  <2>1. UNCHANGED <<stock, given, chat, ord>> /\ pc[f] \notin Holding
    BY <1>6 DEF ConfirmFirst, histVars, Holding
  <2>2. Answers(ord[f]) \subseteq {"ok", "fail", "already", "unknown"}
    BY DEF Answers
  <2>3. \/ Goto(f, "card") /\ UNCHANGED row
        \/ Goto(f, "release") /\ WarnEmpty(f)
    BY <1>6, <2>2 DEF ConfirmFirst, EndEmpty
  <2>4. QED
    BY <2>1, <2>3, SameContent, WarnEmptyContent, HoldersMove DEF NoDelivery, Holding
<1>7. CASE Receipt(f) \/ ConfirmAfter(f) \/ SkipConfirmAfter(f)
  <2>1. UNCHANGED <<stock, given, chat, row, ord>>
    BY <1>7, Zenon DEF Receipt, ConfirmAfter, SkipConfirmAfter, histVars
  <2>2. \E step \in {"after", "write"} : Goto(f, step)
    BY <1>7 DEF Receipt, ConfirmAfter, SkipConfirmAfter
  <2>3. pc[f] \in Holding
    BY <1>7 DEF Receipt, ConfirmAfter, SkipConfirmAfter, Holding
  <2>4. QED
    BY <2>1, <2>2, <2>3, SameContent, HoldersMove DEF NoDelivery, Holding
<1>8. CASE Flag(f)
  <2>1. UNCHANGED <<stock, given, chat, ord>> /\ KeepsContent
    BY <1>8, WarnContent DEF Flag, histVars
  <2>2. QED
    BY <1>8, <2>1, HoldersMove DEF NoDelivery, Flag, Holding
<1>9. CASE AutoRelease(f) \/ HandlerRelease(f)
  <2>1. UNCHANGED <<stock, given, chat, row>> /\ EndFlow(f) /\ pc[f] \notin Holding
    BY <1>9 DEF AutoRelease, HandlerRelease, histVars, Holding
  <2>2. \A g \in Flows : g # f => ord'[g] = ord[g]
    BY <2>1 DEF EndFlow, FlowType
  <2>3. QED
    BY <2>1, <2>2, SameContent, HoldersMove DEF NoDelivery, EndFlow, Holding
<1>10. QED
  BY <1>1, <1>2, <1>3, <1>4, <1>5, <1>6, <1>7, <1>8, <1>9 DEF FlowStep

(* Messages, callers and the rest of the world; the scheduler would record  *)
(* the content of an answer.                                                *)
LEMMA QuietElse ==
  ASSUME NoScheduler, TypeInv, [Next]_vars, ~(\E f \in Flows : FlowStep(f))
  PROVE  NoDelivery /\ SameHolders
<1> USE DEF TypeInv, FlowInv
<1>1. CASE \E f \in Autos : AutoStart(f)
  <2>1. PICK f \in Autos : AutoStart(f)
    BY <1>1
  <2>2. f \in Flows /\ pc[f] \notin Holding /\ UNCHANGED <<stock, given, chat>>
    BY <2>1 DEF AutoStart, Flows, Holding, histVars
  <2>3. KeepsContent
    BY <2>1, PreCheckContent DEF AutoStart
  <2>4. \/ UNCHANGED <<pc, ord>>
        \/ \E o : Goto(f, "redis") /\ ord' = [ord EXCEPT ![f] = o]
    BY <2>1 DEF AutoStart, flowVars
  <2>5. SameHolders
    <3>1. CASE UNCHANGED <<pc, ord>>
      BY <3>1, HoldersFixed
    <3>2. ASSUME NEW o, Goto(f, "redis"), ord' = [ord EXCEPT ![f] = o]
          PROVE  SameHolders
      <4>1. \A g \in Flows : g # f => ord'[g] = ord[g]
        BY <3>2 DEF FlowType
      <4>2. QED
        BY <2>2, <3>2, <4>1, HoldersMove DEF Holding
    <3>3. QED
      BY <2>4, <3>1, <3>2
  <2>6. QED
    BY <2>2, <2>3, <2>5 DEF NoDelivery
<1>2. CASE SchedScan \/ SchedPick \/ ManualStart \/ UNCHANGED vars
  BY <1>2, SameContent, HoldersFixed
  DEF SchedScan, SchedPick, ManualStart, vars, flowVars, histVars, NoDelivery
<1>3. CASE \E c \in Callers : CallerStep(c)
  <2>1. PICK c \in Callers : CallerStep(c)
    BY <1>3
  <2>2. c # "scheduler"
    BY DEF NoScheduler
  <2>3. CASE CallerRedis(c) \/ CallerRelease(c)
    BY <2>3, SameContent, HoldersFixed
    DEF CallerRedis, CallerRelease, flowVars, histVars, NoDelivery
  <2>4. CASE Post(c)
    <3>1. PICK h \in Handlers : /\ pc[h] = "idle" /\ Goto(h, "local")
                                /\ ord' = [ord EXCEPT ![h] = cord[c]]
      BY <2>4 DEF Post
    <3>2. h \in Flows /\ \A g \in Flows : g # h => ord'[g] = ord[g]
      BY <3>1 DEF Flows, FlowType
    <3>3. UNCHANGED <<stock, given, chat, row>>
      BY <2>4 DEF Post, histVars
    <3>4. QED
      BY <3>1, <3>2, <3>3, SameContent, HoldersMove DEF NoDelivery, Holding
  <2>5. CASE Timeout(c)
    <3>1. UNCHANGED <<stock, given, chat, pc, ord>>
      BY <2>5 DEF Timeout, histVars, flowVars
    <3>2. KeepsContent
      BY <2>5, SameContent, WarnContent DEF Timeout
    <3>3. QED
      BY <3>1, <3>2, HoldersFixed DEF NoDelivery
  <2>6. CASE CallerReply(c)
    <3>1. UNCHANGED <<stock, given, chat, pc, ord>>
      BY <2>6 DEF CallerReply, histVars, flowVars
    <3>2. SetRow(cord[c], row[cord[c]]) \/ Warn(cord[c])
      BY <2>2, <2>6 DEF CallerReply, RowAfterReply, Warn
    <3>3. KeepsContent
      BY <3>2, WarnContent DEF SetRow, KeepsContent, OrderType
    <3>4. QED
      BY <3>1, <3>3, HoldersFixed DEF NoDelivery
  <2>7. QED
    BY <2>1, <2>2, <2>3, <2>4, <2>5, <2>6 DEF CallerStep
<1>4. CASE World
  <2>1. UNCHANGED <<stock, given, chat, pc, ord>>
    BY <1>4, Zenon DEF World, RedisExpire, Forget, Stop, Restart, ChangeSetting,
       PlatformClose, SyncFetch, SyncLoad, SyncUpsert, histVars, flowVars
  <2>2. UNCHANGED row \/ \E o \in Orders : SyncUpsert(o)
    BY <1>4, Zenon DEF World, RedisExpire, Forget, Stop, Restart, ChangeSetting,
       PlatformClose, SyncFetch, SyncLoad
  <2>3. KeepsContent
    BY <2>2, SameContent, StatusContent DEF SyncUpsert
  <2>4. QED
    BY <2>1, <2>3, HoldersFixed DEF NoDelivery
<1>5. QED
  BY <1>1, <1>2, <1>3, <1>4 DEF Next

-----------------------------------------------------------------------------
(* The three steps of a delivery, as steps on the order's card *)

TakesCard(f, c) ==
  /\ pc[f] = "card" /\ c \in stock
  /\ Goto(f, "send") /\ card' = [card EXCEPT ![f] = c]
  /\ stock' = stock \ {c} /\ given' = [given EXCEPT ![ord[f]] = @ \cup {c}]
  /\ UNCHANGED <<row, chat, ord>>

SendsCard(f) ==
  /\ pc[f] = "send" /\ Goto(f, "receipt")
  /\ \/ chat' = [chat EXCEPT ![ord[f]] = @ \cup {card[f]}]
     \/ UNCHANGED chat
  /\ UNCHANGED <<row, stock, given, ord, card>>

RecordsCard(f) ==
  /\ pc[f] = "write" /\ (Goto(f, "flag") \/ Goto(f, "release"))
  /\ row'[ord[f]].content = card[f]
  /\ \A p \in Orders : p # ord[f] => row'[p] = row[p]
  /\ UNCHANGED <<stock, given, chat, ord, card>>

LEMMA RecordedContent ==
  ASSUME TypeInv, NEW f \in Flows, Write(f)
  PROVE  RecordsCard(f)
<1>1. PICK how : SetRow(ord[f], Recorded(ord[f], how, card[f]))
  BY DEF Write
<1>2. ord[f] \in Orders /\ row[ord[f]] \in Rows
  BY DEF Write, TypeInv, FlowInv, OrderType
<1>3. row'[ord[f]].content = card[f]
  <2>1. \/ row'[ord[f]] = [row[ord[f]] EXCEPT !.cardOnly = TRUE, !.content = card[f]]
        \/ row'[ord[f]] = [row[ord[f]] EXCEPT !.status = "shipped", !.content = card[f],
                                              !.warned = FALSE]
    BY <1>1, <1>2 DEF Recorded, SetRow, TypeInv, OrderType
  <2>2. QED
    BY <1>2, <2>1 DEF Rows
<1>4. \A p \in Orders : p # ord[f] => row'[p] = row[p]
  BY <1>1 DEF SetRow, TypeInv, OrderType
<1>5. Goto(f, "flag") \/ Goto(f, "release")
  BY DEF Write
<1>6. QED
  BY <1>3, <1>4, <1>5 DEF Write, RecordsCard, histVars

(* Without the scheduler, every step is one of the three, or leaves the     *)
(* cards, what the buyers got and what is recorded as they are.             *)
LEMMA DeliverySteps ==
  ASSUME NoScheduler, TypeInv, [Next]_vars
  PROVE  \/ \E f \in Flows : \/ \E c \in Cards : TakesCard(f, c)
                             \/ SendsCard(f) \/ RecordsCard(f)
         \/ NoDelivery /\ SameHolders
<1>1. CASE ~\E f \in Flows : FlowStep(f)
  BY <1>1, QuietElse
<1>2. ASSUME NEW f \in Flows, FlowStep(f)
      PROVE  \/ \E c \in Cards : TakesCard(f, c)
             \/ SendsCard(f) \/ RecordsCard(f)
             \/ NoDelivery /\ SameHolders
  <2>1. CASE Write(f)
    BY <2>1, RecordedContent
  <2>2. CASE Send(f)
    BY <2>2 DEF Send, SendsCard
  <2>3. CASE TakeCard(f) /\ stock # {}
    BY <2>3 DEF TakeCard, TakesCard, TypeInv, OrderType
  <2>4. QED
    BY <1>2, <2>1, <2>2, <2>3, QuietFlowStep DEF TypeInv
<1>3. QED
  BY <1>1, <1>2

-----------------------------------------------------------------------------
(* The steps keep what the rows and the chats say *)

(* A flow with a card is alone on its order. *)
LEMMA HolderAlone ==
  ASSUME CardInv, NEW f \in Flows, pc[f] \in Holding \cup {"card"},
         NEW g \in Flows, g # f, pc[g] \in Holding
  PROVE  ord[g] # ord[f]
<1>1. Working(f) /\ Working(g)
  BY DEF Working, FlowSteps, Holding
<1>2. QED
  BY <1>1 DEF CardInv, Exclusive, OneFlowPerOrder

(* Nothing is recorded or sent of an order that was given no card. *)
LEMMA NothingYet ==
  ASSUME TraceInv, NEW o \in Orders, given[o] = {}
  PROVE  row[o].content = Nil /\ chat[o] = {}
<1>1. /\ chat[o] \subseteq given[o]
      /\ row[o].content # Nil => given[o] = {row[o].content}
  BY DEF TraceInv, Traced
<1>2. chat[o] = {}
  BY <1>1
<1>3. {row[o].content} # {}
  OBVIOUS
<1>4. QED
  BY <1>1, <1>2, <1>3

LEMMA TraceTake ==
  ASSUME TraceInv, NEW f \in Flows, NEW c \in Cards, TakesCard(f, c)
  PROVE  Traced'
<1>1. /\ ord[f] \in Orders /\ given[ord[f]] = {} /\ c # Nil
      /\ given \in [Orders -> SUBSET Cards]
      /\ pc' = [pc EXCEPT ![f] = "send"] /\ pc \in [Flows -> FlowSteps]
  BY DeliveryAssumption DEF TakesCard, Goto, TraceInv, CardInv, TakesOnce, Taking, TypeInv,
     FlowInv, FlowType, OrderType
<1>2. row[ord[f]].content = Nil /\ chat[ord[f]] = {}
  BY <1>1, NothingYet
<1>3. \A o \in Orders : given'[o] = IF o = ord[f] THEN {c} ELSE given[o]
  BY <1>1 DEF TakesCard
<1>4. UNCHANGED <<row, chat, ord>> /\ "send" \in Holding
  BY DEF TakesCard, Holding
<1>5. ASSUME NEW o \in Orders
      PROVE  /\ chat'[o] \subseteq given'[o]
             /\ row'[o].content = Nil =>
                  given'[o] = {} \/ \E g \in Flows : pc'[g] \in Holding /\ ord'[g] = o
             /\ row'[o].content # Nil => given'[o] = {row'[o].content}
  <2>1. CASE o = ord[f]
    BY <1>1, <1>2, <1>3, <1>4, <2>1
  <2>2. CASE o # ord[f]
    <3>1. \A g \in Flows : pc[g] \in Holding => pc'[g] \in Holding
      BY <1>1, <1>4
    <3>2. QED
      BY <1>3, <1>4, <2>2, <3>1 DEF TraceInv, Traced
  <2>3. QED
    BY <2>1, <2>2
<1>6. ASSUME NEW g \in Flows
      PROVE  /\ pc'[g] \in Holding => row'[ord'[g]].content = Nil
             /\ pc'[g] = "send" => chat'[ord'[g]] = {}
  BY <1>1, <1>2, <1>4 DEF TraceInv, Traced
<1>7. QED
  BY <1>5, <1>6 DEF Traced

LEMMA TraceSend ==
  ASSUME TraceInv, NEW f \in Flows, SendsCard(f)
  PROVE  Traced'
<1>1. /\ ord[f] \in Orders /\ given[ord[f]] = {card[f]}
      /\ chat \in [Orders -> SUBSET Cards]
      /\ pc' = [pc EXCEPT ![f] = "receipt"] /\ pc \in [Flows -> FlowSteps]
      /\ pc[f] = "send" /\ UNCHANGED <<row, given, ord, card>>
  BY DEF SendsCard, Goto, TraceInv, CardInv, TakesOnce, Holding, TypeInv,
     FlowInv, FlowType, OrderType
<1>2. /\ \A o \in Orders : o # ord[f] => chat'[o] = chat[o]
      /\ chat'[ord[f]] \subseteq given[ord[f]]
  <2>1. chat[ord[f]] = {}
    BY <1>1 DEF TraceInv, Traced
  <2>2. QED
    BY <1>1, <2>1 DEF SendsCard
<1>3. \A g \in Flows : /\ pc'[g] \in Holding <=> pc[g] \in Holding
                       /\ pc'[g] = "send" => pc[g] = "send" /\ g # f
  BY <1>1 DEF Holding
<1>4. ASSUME NEW o \in Orders
      PROVE  /\ chat'[o] \subseteq given'[o]
             /\ row'[o].content = Nil =>
                  given'[o] = {} \/ \E g \in Flows : pc'[g] \in Holding /\ ord'[g] = o
             /\ row'[o].content # Nil => given'[o] = {row'[o].content}
  <2>1. chat[o] \subseteq given[o]
    BY DEF TraceInv, Traced
  <2>2. chat'[o] \subseteq given'[o]
    BY <1>1, <1>2, <2>1
  <2>3. QED
    BY <1>1, <1>3, <2>2 DEF TraceInv, Traced
<1>5. ASSUME NEW g \in Flows
      PROVE  /\ pc'[g] \in Holding => row'[ord'[g]].content = Nil
             /\ pc'[g] = "send" => chat'[ord'[g]] = {}
  <2>1. pc'[g] \in Holding => row'[ord'[g]].content = Nil
    BY <1>1, <1>3 DEF TraceInv, Traced
  <2>2. ASSUME pc'[g] = "send" PROVE chat'[ord'[g]] = {}
    <3>1. pc[g] = "send" /\ g # f /\ ord'[g] = ord[g]
      BY <1>1, <1>3, <2>2
    <3>2. ord[g] # ord[f] /\ ord[g] \in Orders
      BY <1>1, <3>1, HolderAlone DEF TraceInv, CardInv, TypeInv, FlowInv, Holding
    <3>3. QED
      BY <1>2, <3>1, <3>2 DEF TraceInv, Traced
  <2>3. QED
    BY <2>1, <2>2
<1>6. QED
  BY <1>4, <1>5 DEF Traced

LEMMA TraceRecord ==
  ASSUME TraceInv, NEW f \in Flows, RecordsCard(f)
  PROVE  Traced'
<1>1. /\ ord[f] \in Orders /\ given[ord[f]] = {card[f]} /\ card[f] # Nil
      /\ pc[f] = "write" /\ UNCHANGED <<given, chat, ord, card>>
  BY DeliveryAssumption DEF RecordsCard, TraceInv, CardInv, TakesOnce, Holding,
     TypeInv, FlowInv
<1>2. /\ pc'[f] \notin Holding
      /\ \A g \in Flows : g # f => pc'[g] = pc[g]
  BY DEF RecordsCard, Goto, Holding, TraceInv, CardInv, TypeInv, FlowInv, FlowType
<1>3. /\ row'[ord[f]].content = card[f]
      /\ \A p \in Orders : p # ord[f] => row'[p] = row[p]
  BY DEF RecordsCard
<1>4. ASSUME NEW o \in Orders
      PROVE  /\ chat'[o] \subseteq given'[o]
             /\ row'[o].content = Nil =>
                  given'[o] = {} \/ \E g \in Flows : pc'[g] \in Holding /\ ord'[g] = o
             /\ row'[o].content # Nil => given'[o] = {row'[o].content}
  <2>1. chat'[o] \subseteq given'[o]
    BY <1>1 DEF TraceInv, Traced
  <2>2. CASE o = ord[f]
    BY <1>1, <1>3, <2>1, <2>2
  <2>3. CASE o # ord[f]
    <3>1. \A g \in Flows : pc[g] \in Holding /\ ord[g] = o => pc'[g] \in Holding
      BY <1>2, <2>3
    <3>2. QED
      BY <1>1, <1>3, <2>1, <2>3, <3>1 DEF TraceInv, Traced
  <2>4. QED
    BY <2>2, <2>3
<1>5. ASSUME NEW g \in Flows
      PROVE  /\ pc'[g] \in Holding => row'[ord'[g]].content = Nil
             /\ pc'[g] = "send" => chat'[ord'[g]] = {}
  <2>1. CASE g = f
    BY <1>2, <2>1 DEF Holding
  <2>2. CASE g # f
    <3>1. pc[g] \in Holding => ord[g] \in Orders /\ ord[g] # ord[f]
      BY <1>1, <2>2, HolderAlone DEF TraceInv, CardInv, TypeInv, FlowInv, Holding
    <3>2. QED
      BY <1>1, <1>2, <1>3, <2>2, <3>1 DEF TraceInv, Traced, Holding
  <2>3. QED
    BY <2>1, <2>2
<1>6. QED
  BY <1>4, <1>5 DEF Traced

LEMMA TraceStep ==
  ASSUME NoScheduler, TraceInv, [Next]_vars, CardInv'
  PROVE  TraceInv'
<1>1. Traced'
  BY DeliverySteps, TraceSame, TraceTake, TraceSend, TraceRecord DEF TraceInv, CardInv
<1>2. QED
  BY <1>1 DEF TraceInv

LEMMA TraceInit == Init => TraceInv
BY CardInit DEF Init, TraceInv, Traced, Holding

LEMMA TraceHolds ==
  ASSUME OneInstance \/ RedisSound, RowsKept, NoScheduler PROVE Spec => []TraceInv
<1>1. TraceInv /\ [Next]_vars /\ CardInv' => TraceInv'
  BY TraceStep
<1>2. Spec => []CardInv
  BY CardHolds
<1>3. QED
  BY <1>1, <1>2, TraceInit, PTL DEF Spec

(* Where only messages and sellers deliver, every card consumed can be read *)
(* back from its order once the flow that consumed it has recorded it, with *)
(* answers lost, orders closed on the platform and settings switched, as    *)
(* long as one of the two locks is sound and no list fetch overwrites a row. *)
THEOREM CardsAreTraceable ==
  ASSUME OneInstance \/ RedisSound, RowsKept, NoScheduler PROVE Spec => []CardTraceable
<1>1. TraceInv => CardTraceable
  <2> SUFFICES ASSUME TraceInv, NEW o \in Orders, NEW c \in given[o]
               PROVE  row[o].content = c \/ \E f \in Flows : Working(f) /\ card[f] = c
    BY DEF CardTraceable
  <2>1. CASE row[o].content # Nil
    BY <2>1 DEF TraceInv, Traced
  <2>2. CASE row[o].content = Nil
    <3>1. PICK f \in Flows : pc[f] \in Holding /\ ord[f] = o
      BY <2>2 DEF TraceInv, Traced
    <3>2. Working(f) /\ given[o] = {card[f]}
      BY <3>1 DEF TraceInv, CardInv, TakesOnce, Working, Holding, FlowSteps
    <3>3. QED
      BY <3>2
  <2>3. QED
    BY <2>1, <2>2
<1>2. Spec => []TraceInv
  BY TraceHolds
<1>3. QED
  BY <1>1, <1>2, PTL

-----------------------------------------------------------------------------
(* The contract, step by step *)

HeldIn(S) == IF S = {} THEN Nil ELSE CHOOSE d \in S : TRUE

LEMMA HeldCard ==
  /\ HeldIn({}) = Nil
  /\ \A c : HeldIn({c}) = c
BY DEF HeldIn

LEMMA HeldNow ==
  ASSUME NEW o
  PROVE  HeldFor(o) = HeldIn(given[o]) /\ HeldFor(o)' = HeldIn(given'[o])
BY Zenon DEF HeldFor, HeldIn

LEMMA StutterStep ==
  ASSUME NoDelivery PROVE UNCHANGED Contract!vars
<1>1. \A o \in Orders : HeldFor(o)' = HeldFor(o)
  BY HeldNow DEF NoDelivery
<1>2. [o \in Orders |-> HeldFor(o)]' = [o \in Orders |-> HeldFor(o)]
  BY <1>1
<1>3. [o \in Orders |-> row[o].content]' = [o \in Orders |-> row[o].content]
  BY DEF NoDelivery, KeepsContent
<1>4. [o \in Orders |-> chat[o] # {} /\ chat[o] \subseteq given[o]]'
        = [o \in Orders |-> chat[o] # {} /\ chat[o] \subseteq given[o]]
  BY DEF NoDelivery
<1>5. stock' = stock
  BY DEF NoDelivery
<1>6. QED
  BY <1>2, <1>3, <1>4, <1>5 DEF Contract!vars

LEMMA HandStep ==
  ASSUME TraceInv, NEW f \in Flows, NEW c \in Cards, TakesCard(f, c),
         NEW o \in Orders, o = ord[f]
  PROVE  Contract!Hand(o)
<1>1. given[o] = {} /\ given \in [Orders -> SUBSET Cards]
  BY DEF TakesCard, TraceInv, CardInv, TakesOnce, Taking, TypeInv, OrderType
<1>2. chat[o] = {}
  BY <1>1, NothingYet
<1>3. given'[o] = {c} /\ \A p \in Orders : p # o => given'[p] = given[p]
  BY <1>1 DEF TakesCard
<1>4. HeldFor(o) = Nil /\ HeldFor(o)' = c
  BY <1>1, <1>3, HeldCard, HeldNow
<1>5. \A p \in Orders : p # o => HeldFor(p)' = HeldFor(p)
  BY <1>3, HeldNow
<1>6. [p \in Orders |-> HeldFor(p)]' = [[p \in Orders |-> HeldFor(p)] EXCEPT ![o] = c]
  BY <1>4, <1>5
<1>7. c \in stock /\ stock' = stock \ {c} /\ UNCHANGED <<row, chat>>
  BY DEF TakesCard
<1>8. \A p \in Orders :
        (chat[p] # {} /\ chat[p] \subseteq given[p])'
          = (chat[p] # {} /\ chat[p] \subseteq given[p])
  BY <1>2, <1>3, <1>7
<1>9. /\ [p \in Orders |-> chat[p] # {} /\ chat[p] \subseteq given[p]]'
           = [p \in Orders |-> chat[p] # {} /\ chat[p] \subseteq given[p]]
      /\ [p \in Orders |-> row[p].content]' = [p \in Orders |-> row[p].content]
  BY <1>7, <1>8
<1>10. QED
  BY <1>4, <1>6, <1>7, <1>9 DEF Contract!Hand

(* A flow with a card: the card is the order's, and is not recorded yet. *)
LEMMA HolderCard ==
  ASSUME TraceInv, NEW f \in Flows, pc[f] \in Holding, NEW o, o = ord[f]
  PROVE  /\ given[o] = {card[f]} /\ card[f] # Nil
         /\ row[o].content = Nil /\ (pc[f] = "send" => chat[o] = {})
<1>1. given[o] = {card[f]}
  BY DEF TraceInv, CardInv, TakesOnce
<1>2. card[f] \in Cards /\ Nil \notin Cards
  BY DeliveryAssumption DEF TraceInv, CardInv, TypeInv, FlowInv
<1>3. row[o].content = Nil /\ (pc[f] = "send" => chat[o] = {})
  BY DEF TraceInv, Traced
<1>4. QED
  BY <1>1, <1>2, <1>3

LEMMA ReceiveStep ==
  ASSUME TraceInv, NEW f \in Flows, SendsCard(f), NEW o \in Orders, o = ord[f]
  PROVE  Contract!Receive(o) \/ UNCHANGED Contract!vars
<1>1. /\ given[o] = {card[f]} /\ card[f] # Nil
      /\ row[o].content = Nil /\ chat[o] = {}
  BY HolderCard DEF SendsCard, Holding
<1>2. chat \in [Orders -> SUBSET Cards] /\ UNCHANGED <<row, stock, given>>
  BY DEF SendsCard, TraceInv, CardInv, TypeInv, OrderType
<1>3. CASE UNCHANGED chat
  <2>1. NoDelivery
    BY <1>2, <1>3, SameContent DEF NoDelivery
  <2>2. QED
    BY <2>1, StutterStep
<1>4. CASE chat' = [chat EXCEPT ![ord[f]] = @ \cup {card[f]}]
  <2>1. HeldFor(o) # Nil
    BY <1>1, HeldCard, HeldNow
  <2>2. \A p \in Orders : HeldFor(p)' = HeldFor(p)
    BY <1>2, HeldNow
  <2>3. chat'[o] # {} /\ chat'[o] \subseteq given'[o]
    BY <1>1, <1>2, <1>4
  <2>4. \A p \in Orders : p # o => chat'[p] = chat[p] /\ given'[p] = given[p]
    BY <1>2, <1>4
  <2>5. [p \in Orders |-> chat[p] # {} /\ chat[p] \subseteq given[p]]'
         = [[p \in Orders |-> chat[p] # {} /\ chat[p] \subseteq given[p]] EXCEPT ![o] = TRUE]
    BY <2>3, <2>4
  <2>6. [p \in Orders |-> HeldFor(p)]' = [p \in Orders |-> HeldFor(p)]
    BY <2>2
  <2>7. [p \in Orders |-> row[p].content]' = [p \in Orders |-> row[p].content]
    BY <1>2
  <2>8. ~(chat[o] # {} /\ chat[o] \subseteq given[o])
    BY <1>1
  <2>9. QED
    BY <1>1, <1>2, <2>1, <2>5, <2>6, <2>7, <2>8 DEF Contract!Receive
<1>5. QED
  BY <1>3, <1>4 DEF SendsCard

LEMMA RecordStep ==
  ASSUME TraceInv, NEW f \in Flows, RecordsCard(f), NEW o \in Orders, o = ord[f]
  PROVE  Contract!Record(o)
<1>1. /\ given[o] = {card[f]} /\ card[f] # Nil /\ row[o].content = Nil
  BY HolderCard DEF RecordsCard, Holding
<1>2. HeldFor(o) = card[f]
  BY <1>1, HeldCard, HeldNow
<1>3. UNCHANGED <<stock, given, chat>>
  BY DEF RecordsCard
<1>4. \A p \in Orders : HeldFor(p)' = HeldFor(p)
  BY <1>3, HeldNow
<1>5. [p \in Orders |-> row[p].content]'
        = [[p \in Orders |-> row[p].content] EXCEPT ![o] = card[f]]
  BY DEF RecordsCard
<1>6. [p \in Orders |-> HeldFor(p)]' = [p \in Orders |-> HeldFor(p)]
  BY <1>4
<1>7. [p \in Orders |-> chat[p] # {} /\ chat[p] \subseteq given[p]]'
        = [p \in Orders |-> chat[p] # {} /\ chat[p] \subseteq given[p]]
  BY <1>3
<1>8. QED
  BY <1>1, <1>2, <1>3, <1>5, <1>6, <1>7 DEF Contract!Record

LEMMA ContractStep ==
  ASSUME NoScheduler, TraceInv, [Next]_vars
  PROVE  [Contract!Next]_(Contract!vars)
<1>1. ASSUME NEW f \in Flows,
             \/ \E c \in Cards : TakesCard(f, c)
             \/ SendsCard(f) \/ RecordsCard(f)
      PROVE  [Contract!Next]_(Contract!vars)
  <2>1. PICK o \in Orders : o = ord[f]
    BY <1>1 DEF TakesCard, SendsCard, RecordsCard, TraceInv, CardInv, TypeInv,
       FlowInv
  <2>2. Contract!Hand(o) \/ Contract!Receive(o) \/ Contract!Record(o)
        \/ UNCHANGED Contract!vars
    BY <1>1, <2>1, HandStep, ReceiveStep, RecordStep
  <2>3. QED
    BY <2>2 DEF Contract!Next
<1>2. QED
  BY <1>1, DeliverySteps, StutterStep DEF TraceInv, CardInv

LEMMA ContractInit == Init => Contract!Init
<1> SUFFICES ASSUME Init PROVE Contract!Init
  OBVIOUS
<1>1. \A o \in Orders : HeldFor(o) = Nil
  BY DEF Init, HeldFor
<1>2. [o \in Orders |-> HeldFor(o)] = [o \in Orders |-> Nil]
  BY <1>1
<1>3. [o \in Orders |-> row[o].content] = [o \in Orders |-> Nil]
  BY DEF Init
<1>4. [o \in Orders |-> chat[o] # {} /\ chat[o] \subseteq given[o]]
        = [o \in Orders |-> FALSE]
  BY DEF Init
<1>5. QED
  BY <1>2, <1>3, <1>4 DEF Init, Contract!Init

(* Deliveries by messages and sellers' clicks keep the safety part of the   *)
(* contract: each line of the stock is taken for one order, no order takes  *)
(* two, the buyer is sent the line taken for the order, once, and that line *)
(* is recorded, once and after it was taken.                                *)
THEOREM DeliveryKeepsContract ==
  ASSUME OneInstance \/ RedisSound, RowsKept, NoScheduler
  PROVE  Spec => Contract!Init /\ [][Contract!Next]_(Contract!vars)
<1>1. Spec => []TraceInv
  BY TraceHolds
<1>2. TraceInv /\ [Next]_vars => [Contract!Next]_(Contract!vars)
  BY ContractStep
<1>3. QED
  BY <1>1, <1>2, ContractInit, PTL DEF Spec

-----------------------------------------------------------------------------
(* How a step leaves what is known of confirmations *)

(* The stock only shrinks, an order that is closed or handed out unshipped  *)
(* stays so, and one that is shipped here and there stays recorded.         *)
Lasting ==
  /\ stock' \subseteq stock
  /\ \A o \in Orders :
       /\ platform[o] = "closed" => platform'[o] = "closed"
       /\ row[o].cardOnly => row'[o].cardOnly
       /\ row[o].status = "shipped" /\ platform[o] = "shipped" => row'[o].status = "shipped"

(* For order o nothing new is confirmed, and no card handed out unshipped.  *)
Unmoved(o) ==
  /\ platform'[o] = "shipped" => platform[o] = "shipped"
  /\ row'[o].cardOnly => row[o].cardOnly

Still == Lasting /\ \A o \in Orders : Unmoved(o)

SameState ==
  \A o \in Orders : row'[o].status = row[o].status /\ row'[o].cardOnly = row[o].cardOnly

LEMMA StillSame ==
  ASSUME UNCHANGED <<row, platform>>, stock' \subseteq stock PROVE Still
BY DEF Still, Lasting, Unmoved

LEMMA SameStateWarn ==
  ASSUME OrderType, NEW o, Warn(o) PROVE SameState
BY DEF SameState, Warn, SetRow, OrderType, Rows

LEMMA StillState ==
  ASSUME SameState, stock' \subseteq stock, UNCHANGED platform PROVE Still
BY DEF Still, Lasting, Unmoved, SameState

LEMMA StillPreCheck ==
  ASSUME OrderType, NEW o, NEW v, PreCheck(o, v), UNCHANGED stock
  PROVE  Still
<1>1. SameState
  BY SameStateWarn DEF PreCheck, SameState
<1>2. \A p \in Orders :
        /\ platform[p] = "closed" => platform'[p] = "closed"
        /\ platform'[p] = "shipped" => platform[p] = "shipped"
        /\ platform[p] = "shipped" => platform'[p] = "shipped"
  BY DEF PreCheck, OrderType
<1>3. QED
  BY <1>1, <1>2 DEF Still, Lasting, Unmoved, SameState

LEMMA StillReply ==
  ASSUME OnlyCardInv, NEW c \in Callers, CallerReply(c)
  PROVE  Still
<1>1. OrderType /\ cord[c] \in Orders /\ UNCHANGED <<platform, stock>>
  BY DEF CallerReply, OnlyCardInv, TypeInv, CallInv
<1>2. row[cord[c]] \in Rows
  BY <1>1 DEF OrderType
<1>3. LET r == row[cord[c]]
          a == cjob[c].content
      IN \/ row'[cord[c]] \in {r, [r EXCEPT !.warned = TRUE],
                               [r EXCEPT !.status = "shipped", !.content = a]}
         \/ /\ cjob[c].reply = "onlyCard"
            /\ row'[cord[c]] = [r EXCEPT !.cardOnly = TRUE, !.content = a]
  BY <1>1 DEF CallerReply, SetRow, RowAfterReply, OrderType
<1>4. cjob[c].reply = "onlyCard" => row[cord[c]].cardOnly
  BY DEF CallerReply, OnlyCardInv, ToldOnlyCard
<1>5. /\ row'[cord[c]].cardOnly = row[cord[c]].cardOnly
      /\ row[cord[c]].status = "shipped" => row'[cord[c]].status = "shipped"
  BY <1>2, <1>3, <1>4 DEF Rows
<1>6. \A p \in Orders : p # cord[c] => row'[p] = row[p]
  BY <1>1 DEF CallerReply, SetRow, OrderType
<1>7. QED
  BY <1>1, <1>5, <1>6 DEF Still, Lasting, Unmoved

LEMMA StillFlowStep ==
  ASSUME OrderType, NEW f \in Flows, FlowStep(f),
         ~ConfirmFirst(f), ~ConfirmAfter(f), ~Write(f)
  PROVE  Still
<1>1. CASE HandlerPre(f)
  BY <1>1, StillPreCheck DEF HandlerPre
<1>2. CASE ConfirmRefused(f) \/ TakeCard(f) \/ Flag(f)
  <2>1. UNCHANGED row \/ Warn(ord[f])
    BY <1>2 DEF ConfirmRefused, TakeCard, Flag, EndEmpty, WarnEmpty
  <2>2. SameState
    BY <2>1, SameStateWarn DEF SameState
  <2>3. UNCHANGED platform /\ stock' \subseteq stock
    BY <1>2 DEF ConfirmRefused, TakeCard, Flag
  <2>4. QED
    BY <2>2, <2>3, StillState
<1>3. CASE ~HandlerPre(f) /\ ~ConfirmRefused(f) /\ ~TakeCard(f) /\ ~Flag(f)
  <2>1. UNCHANGED <<row, platform, stock>>
    BY <1>3, Zenon DEF FlowStep, AutoRedis, AutoLocal, HandlerLocal, Prep, ConfirmNothing, Send,
       Receipt, SkipConfirmAfter, AutoRelease, HandlerRelease
  <2>2. QED
    BY <2>1, StillSame
<1>4. QED
  BY <1>1, <1>2, <1>3

LEMMA StillElse ==
  ASSUME OnlyCardInv,
         \/ \E f \in Autos : AutoStart(f)
         \/ SchedScan \/ SchedPick \/ ManualStart \/ World
         \/ \E c \in Callers : CallerStep(c)
         \/ UNCHANGED vars
  PROVE  Still
<1>1. TypeInv /\ OrderType
  BY DEF OnlyCardInv, TypeInv
<1>2. CASE \E f \in Autos : AutoStart(f)
  BY <1>1, <1>2, StillPreCheck DEF AutoStart
<1>3. CASE \E c \in Callers : CallerReply(c)
  BY <1>3, StillReply
<1>4. CASE \E c \in Callers : Timeout(c)
  <2>1. SameState
    BY <1>1, <1>4, SameStateWarn DEF Timeout, SameState
  <2>2. QED
    BY <1>4, <2>1, StillState DEF Timeout
<1>5. CASE "scheduler" \in Callers /\ SchedCheck
  <2> DEFINE o == cord["scheduler"]
  <2>1. o \in Orders /\ UNCHANGED <<platform, stock>>
    BY <1>1, <1>5 DEF SchedCheck, TypeInv, CallInv
  <2>2. CASE UNCHANGED row \/ Warn(o)
    <3>1. SameState
      BY <1>1, <2>2, SameStateWarn DEF SameState
    <3>2. QED
      BY <2>1, <3>1, StillState
  <2>3. CASE SetRow(o, [row[o] EXCEPT !.status = platform[o]])
    <3>1. row'[o].status = platform[o] /\ row'[o].cardOnly = row[o].cardOnly
          /\ \A p \in Orders : p # o => row'[p] = row[p]
      BY <1>1, <2>1, <2>3 DEF SetRow, OrderType, Rows
    <3>2. QED
      BY <2>1, <3>1 DEF Still, Lasting, Unmoved
  <2>4. QED
    BY <1>5, <2>2, <2>3 DEF SchedCheck
<1>6. CASE PlatformClose
  BY <1>1, <1>6 DEF PlatformClose, Still, Lasting, Unmoved, OrderType
<1>7. CASE \E o \in Orders : SyncUpsert(o)
  BY <1>7 DEF SyncUpsert, OnlyCardInv, NeverFetched
<1>8. CASE \/ SchedScan \/ SchedPick \/ ManualStart
           \/ \E c \in Callers : CallerRedis(c) \/ Post(c) \/ CallerRelease(c)
           \/ SchedRecheck \/ UNCHANGED vars
           \/ RedisExpire \/ Forget \/ Stop \/ Restart \/ ChangeSetting
           \/ \E o \in Orders : SyncFetch(o) \/ SyncLoad(o)
  <2>1. UNCHANGED <<row, platform, stock>>
    BY <1>8, Zenon DEF SchedScan, SchedPick, ManualStart, CallerRedis, Post, CallerRelease,
       SchedRecheck, vars, RedisExpire, Forget, Stop, Restart, ChangeSetting,
       SyncFetch, SyncLoad
  <2>2. QED
    BY <2>1, StillSame
<1>9. QED
  BY <1>2, <1>3, <1>4, <1>5, <1>6, <1>7, <1>8, Zenon DEF CallerStep, World

LEMMA ConfirmsOnly ==
  ASSUME OnlyCardInv, AnswersArrive, NEW f \in Flows, ConfirmFirst(f) \/ ConfirmAfter(f)
  PROVE  /\ Lasting /\ SameState
         /\ \A o \in Orders : o # ord[f] => Unmoved(o)
         /\ platform'[ord[f]] = "shipped" /\ platform[ord[f]] # "shipped" => Confirmed(f)'
<1>1. OrderType /\ FlowType /\ ord[f] \in Orders
  BY DEF OnlyCardInv, TypeInv, FlowInv, ConfirmFirst, ConfirmAfter
<1>2. "lost" \notin Faults
  BY DEF AnswersArrive
<1>3. PICK answer \in Answers(ord[f]) :
        /\ ConfirmOnPlatform(ord[f], answer)
        /\ answer = "ok" => Confirmed(f)'
  <2>1. CASE ConfirmFirst(f)
    <3>1. PICK answer \in Answers(ord[f]) :
            /\ ConfirmOnPlatform(ord[f], answer)
            /\ answer = "ok" => Goto(f, "card") /\ SetJob(f, [job[f] EXCEPT !.psc = TRUE])
      BY <2>1 DEF ConfirmFirst
    <3>2. ASSUME answer = "ok" PROVE Confirmed(f)'
      <4>1. pc'[f] = "card"
        BY <1>1, <3>1, <3>2 DEF Goto, FlowType
      <4>2. job'[f].psc
        BY <1>1, <3>1, <3>2, FieldsConfirmed
      <4>3. QED
        BY <4>1, <4>2 DEF Confirmed
    <3>3. QED
      BY <3>1, <3>2
  <2>2. CASE ConfirmAfter(f)
    <3>1. pc'[f] = "write"
      BY <1>1, <2>2 DEF ConfirmAfter, Goto, FlowType
    <3>2. PICK answer \in Answers(ord[f]) :
            /\ ConfirmOnPlatform(ord[f], answer)
            /\ job'[f].psc = (job[f].psc \/ answer \in {"ok", "already"})
      BY <1>1, <2>2, FieldsAfter
    <3>3. QED
      BY <3>1, <3>2 DEF Confirmed, Holding
  <2>3. QED
    BY <2>1, <2>2
<1>4. UNCHANGED stock /\ SameState
  <2>1. UNCHANGED stock
    BY DEF ConfirmFirst, ConfirmAfter
  <2>2. Answers(ord[f]) \subseteq {"ok", "fail", "already", "unknown"}
    BY DEF Answers
  <2>3. UNCHANGED row \/ Warn(ord[f])
    BY <2>2 DEF ConfirmFirst, ConfirmAfter, EndEmpty, WarnEmpty
  <2>4. QED
    BY <1>1, <2>1, <2>3, SameStateWarn DEF SameState
<1>5. \A o \in Orders :
        \/ platform'[o] = platform[o]
        \/ platform'[o] = "shipped" /\ platform[o] = "pending" /\ answer = "ok" /\ o = ord[f]
  BY <1>1, <1>2, <1>3 DEF ConfirmOnPlatform, Answers, OrderType
<1>6. QED
  BY <1>1, <1>3, <1>4, <1>5 DEF Lasting, Unmoved, SameState

LEMMA RecordsOnly ==
  ASSUME OnlyCardInv, NEW f \in Flows, Write(f)
  PROVE  /\ Lasting /\ UNCHANGED <<platform, stock>>
         /\ \A o \in Orders : o # ord[f] => Unmoved(o)
         /\ row'[ord[f]].cardOnly => platform[ord[f]] # "shipped"
         /\ Confirmed(f) /\ platform[ord[f]] # "closed" => row'[ord[f]].status = "shipped"
         /\ job'[f].reply = "onlyCard" => row'[ord[f]].cardOnly
<1>1. OrderType /\ FlowType /\ ord[f] \in Orders /\ UNCHANGED <<platform, stock>>
  BY DEF OnlyCardInv, TypeInv, FlowInv, Write
<1>2. row[ord[f]] \in Rows
  BY <1>1 DEF OrderType
<1>3. /\ ~row[ord[f]].cardOnly
      /\ platform[ord[f]] = "shipped" => job[f].psc
      /\ job[f].closed => platform[ord[f]] = "closed"
  BY DEF OnlyCardInv, FlowKnows, Working, FlowSteps, Write, Taking, Confirmed
<1>4. SetRow(ord[f], Recorded(ord[f], job'[f].reply, card[f]))
  BY <1>1, FieldsWrite
<1>5. \A o \in Orders : o # ord[f] => row'[o] = row[o]
  BY <1>1, <1>4 DEF SetRow, OrderType
<1>6. CASE job'[f].reply \in {"closed", "onlyCard"}
  <2>1. row'[ord[f]] = [row[ord[f]] EXCEPT !.cardOnly = TRUE, !.content = card[f]]
    BY <1>1, <1>4, <1>6 DEF SetRow, Recorded, OrderType
  <2>2. row'[ord[f]].cardOnly /\ row'[ord[f]].status = row[ord[f]].status
    BY <1>2, <2>1 DEF Rows
  <2>3. job[f].closed \/ ~job[f].psc
    BY <1>1, <1>6, FieldsWrite
  <2>4. QED
    BY <1>1, <1>3, <1>5, <2>2, <2>3 DEF Lasting, Unmoved, Confirmed
<1>7. CASE job'[f].reply = "ok"
  <2>1. row'[ord[f]] = [row[ord[f]] EXCEPT !.status = "shipped", !.content = card[f],
                                           !.warned = FALSE]
    BY <1>1, <1>4, <1>7 DEF SetRow, Recorded, OrderType
  <2>2. row'[ord[f]].status = "shipped" /\ row'[ord[f]].cardOnly = row[ord[f]].cardOnly
    BY <1>2, <2>1 DEF Rows
  <2>3. QED
    BY <1>1, <1>3, <1>5, <1>7, <2>2 DEF Lasting, Unmoved
<1>8. QED
  BY <1>1, <1>6, <1>7, FieldsWrite

(* What an order keeps of its confirmation.                                 *)
LEMMA KnownStill ==
  ASSUME OnlyCardInv, Lasting, NEW o \in Orders, Unmoved(o),
         \A g \in Flows : Confirmed(g) /\ ord[g] = o =>
            \/ Confirmed(g)' /\ ord'[g] = o
            \/ stock = {} \/ row'[o].status = "shipped" \/ platform'[o] # "shipped"
  PROVE  Known(o)'
BY DEF OnlyCardInv, Known, Lasting, Unmoved

(* What a flow that does not move keeps.                                    *)
LEMMA KnowsStill ==
  ASSUME OnlyCardInv, Lasting, NEW f \in Flows, UNCHANGED <<pc[f], ord[f], job[f]>>,
         Working(f) /\ pc[f] # "flag" => Unmoved(ord[f])
  PROVE  FlowKnows(f)'
<1>1. FlowKnows(f) /\ (pc[f] # "idle" => ord[f] \in Orders)
  BY DEF OnlyCardInv, TypeInv, FlowInv
<1>2. Working(f) <=> Working(f)'
  BY DEF Working
<1>3. Confirmed(f) <=> Confirmed(f)'
  BY DEF Confirmed
<1>4. Working(f) => pc[f] # "idle"
  BY DEF Working
<1>5. Answered(f)' <=> Answered(f)
  BY DEF Answered
<1>6. Answered(f) => pc[f] # "idle"
  BY DEF Answered
<1>7. QED
  BY <1>1, <1>2, <1>3, <1>4, <1>5, <1>6 DEF FlowKnows, Lasting, Unmoved

(* Who finds the lock of its order free and the row not handled starts to   *)
(* work on an order that is not confirmed, or when no card is left.         *)
LEMMA FindsUnconfirmed ==
  ASSUME OnlyCardInv, Exclusive, NEW f \in Flows, NEW o \in Orders, o = ord[f],
         pc[f] = "local", lk[f] # 0, local[lk[f]][o] = Nil, ~Handled(o)
  PROVE  ~row[o].cardOnly /\ (platform[o] = "shipped" => stock = {})
<1>1. \A g \in Flows : Confirmed(g) => ord[g] # o
  <2>1. \A g \in Flows : Confirmed(g) => Working(g)
    BY DEF Confirmed, Working, Holding, FlowSteps
  <2>2. QED
    BY <2>1 DEF Exclusive
<1>2. QED
  BY <1>1 DEF OnlyCardInv, Known, Handled

(* The flow that moves.                                                     *)
LEMMA KnowsMove ==
  ASSUME OnlyCardInv, Exclusive, AnswersArrive, NEW f \in Flows, FlowStep(f), LinkInv'
  PROVE  FlowKnows(f)'
<1>1. /\ FlowType /\ FlowKnows(f)
      /\ pc[f] # "idle" => ord[f] \in Orders
  BY DEF OnlyCardInv, TypeInv, FlowInv
<1>2. CASE AutoRelease(f) \/ HandlerRelease(f)
  <2>1. pc'[f] = "idle" /\ job'[f] = NewJob
    BY <1>1, <1>2, JobSet DEF AutoRelease, HandlerRelease, EndFlow, Goto, FlowType
  <2>2. QED
    BY <2>1 DEF FlowKnows, Answered, NewJob, Working, FlowSteps
<1>3. CASE ~AutoRelease(f) /\ ~HandlerRelease(f)
  <2>1. PICK o \in Orders : o = ord[f] /\ ord'[f] = o /\ pc[f] # "idle" /\ pc'[f] # "idle"
    BY <1>1, <1>3, FlowFrame DEF FlowMoves
  <2>2. OrderType
    BY DEF OnlyCardInv, TypeInv
  <2>3. ~Answered(f)' => job'[f].reply = "none"
    BY DEF LinkInv
  <2> DEFINE Goal ==
        /\ pc'[f] \in FlowSteps \ {"idle", "redis", "local", "release", "flag"} =>
             /\ ~row'[o].cardOnly
             /\ platform'[o] = "shipped" =>
                  \/ job'[f].psc /\ pc'[f] \in {"card"} \cup Holding
                  \/ stock' = {} /\ pc'[f] \in Taking
        /\ job'[f].closed => platform'[o] = "closed"
        /\ pc'[f] \in {"redis", "local", "pre", "prep", "confirm"} => ~job'[f].psc
        /\ pc'[f] \in {"flag", "release"} /\ job'[f].reply = "onlyCard" => row'[o].cardOnly
  <2> SUFFICES Goal
    BY <2>1 DEF FlowKnows, Answered, Working, Confirmed
  <2>4. /\ pc[f] \in FlowSteps \ {"idle", "redis", "local", "release", "flag"} =>
             /\ ~row[o].cardOnly
             /\ platform[o] = "shipped" =>
                  \/ job[f].psc /\ pc[f] \in {"card"} \cup Holding
                  \/ stock = {} /\ pc[f] \in Taking
        /\ job[f].closed => platform[o] = "closed"
        /\ pc[f] \in {"redis", "local", "pre", "prep", "confirm"} => ~job[f].psc
        /\ pc[f] \in {"flag", "release"} /\ job[f].reply = "onlyCard" => row[o].cardOnly
    BY <1>1, <2>1 DEF FlowKnows, Answered, Working, Confirmed
  <2>5. CASE AutoRedis(f)
    <3>1. UNCHANGED <<job, platform>> /\ pc[f] = "redis" /\ pc'[f] \in {"release", "local"}
      BY <1>1, <2>5 DEF AutoRedis, Goto, FlowType
    <3>2. job'[f].reply = "none"
      BY <3>1 DEF OnlyCardInv, LinkInv, Answered
    <3>3. QED
      BY <2>4, <3>1, <3>2
  <2>6. CASE AutoLocal(f)
    <3>1. UNCHANGED <<job, platform, row, stock>> /\ pc[f] = "local"
      BY <2>6 DEF AutoLocal
    <3>2. \/ pc'[f] = "release"
          \/ /\ pc'[f] = "prep" /\ lk[f] # 0
             /\ local[lk[f]][o] = Nil /\ ~Handled(o)
      BY <1>1, <2>1, <2>6 DEF AutoLocal, Goto, FlowType, OnlyCardInv, TypeInv, FlowInv
    <3>3. job'[f].reply = "none"
      BY <3>1 DEF OnlyCardInv, LinkInv, Answered
    <3>4. QED
      BY <2>1, <2>4, <3>1, <3>2, <3>3, FindsUnconfirmed DEF Taking
  <2>7. CASE HandlerLocal(f)
    <3>1. UNCHANGED <<platform, row, stock>> /\ pc[f] = "local"
      BY <2>7 DEF HandlerLocal
    <3> DEFINE Answer(reply, content) ==
          SetJob(f, [job[f] EXCEPT !.reply = reply, !.content = content])
    <3>2. \/ /\ Goto(f, "pre") /\ UNCHANGED job /\ lk[f] # 0
             /\ local[lk[f]][ord[f]] = Nil /\ ~Handled(ord[f])
          \/ /\ Goto(f, "release")
             /\ \/ Answer("busy", Nil)
                \/ Answer("onlyCard", row[ord[f]].content) /\ row[ord[f]].cardOnly
                \/ Answer("already", Nil) \/ Answer("fail", Nil)
      BY <2>7 DEF HandlerLocal, Handled
    <3>3. CASE Goto(f, "pre") /\ UNCHANGED job /\ lk[f] # 0
               /\ local[lk[f]][ord[f]] = Nil /\ ~Handled(ord[f])
      <4>1. pc'[f] = "pre"
        BY <1>1, <3>3 DEF Goto, FlowType
      <4>2. QED
        BY <2>1, <2>4, <3>1, <3>3, <4>1, FindsUnconfirmed DEF Taking
    <3>4. ASSUME NEW reply, NEW content, Goto(f, "release"), Answer(reply, content),
                 reply = "onlyCard" => row[ord[f]].cardOnly
          PROVE  Goal
      <4>1. pc'[f] = "release"
        BY <1>1, <3>4 DEF Goto, FlowType
      <4>2. job'[f].reply = reply /\ job'[f].closed = job[f].closed
        BY <1>1, <3>4, FieldsAnswer
      <4>3. QED
        BY <2>1, <2>4, <3>1, <3>4, <4>1, <4>2
    <3> HIDE DEF Answer
    <3>5. QED
      BY <3>2, <3>3, <3>4
  <2>8. CASE HandlerPre(f)
    <3>1. PICK v : PreCheck(o, v) /\ UNCHANGED stock /\ pc[f] = "pre"
      BY <2>1, <2>8 DEF HandlerPre
    <3>2. SameState /\ (platform'[o] = "shipped" => platform[o] = "shipped")
          /\ (platform[o] = "closed" => platform'[o] = "closed")
      BY <2>2, <3>1, SameStateWarn DEF PreCheck, SameState, OrderType
    <3>3. CASE pc'[f] = "release"
      <4>1. SetJob(f, [job[f] EXCEPT !.reply = "fail"])
        BY <1>1, <2>8, <3>3 DEF HandlerPre, Goto, FlowType
      <4>2. job'[f].reply = "fail" /\ job'[f].closed = job[f].closed
        BY <1>1, <4>1, FieldsAnswer
      <4>3. QED
        BY <2>4, <3>2, <3>3, <4>2
    <3>4. CASE pc'[f] # "release"
      <4>1. pc'[f] = "prep"
        BY <1>1, <2>8, <3>4 DEF HandlerPre, Goto, FlowType
      <4>2. PICK w \in Verdicts : PreCheck(o, w) /\ job'[f].closed = (w = "card_only")
        BY <1>1, <2>1, <2>8, <3>4, FieldsPre
      <4>3. job'[f].psc = job[f].psc /\ job'[f].reply = "none"
        BY <1>1, <2>3, <2>8, <3>4, <4>1, FieldsPre DEF Answered
      <4>4. job'[f].closed => platform'[o] = "closed"
        BY <2>2, <4>2 DEF PreCheck, OrderType
      <4>5. QED
        BY <2>4, <3>1, <3>2, <4>1, <4>3, <4>4 DEF SameState, Taking, FlowSteps, Holding
    <3>5. QED
      BY <3>3, <3>4
  <2>9. CASE Prep(f)
    <3>1. pc[f] = "prep" /\ pc'[f] = "confirm" /\ UNCHANGED <<row, platform, stock>>
      BY <1>1, <2>9 DEF Prep, Goto, FlowType
    <3>2. QED
      BY <1>1, <2>4, <2>9, <3>1, FieldsPrep DEF Taking, FlowSteps, Holding
  <2>10. CASE ConfirmNothing(f)
    <3>1. /\ pc[f] = "confirm" /\ pc'[f] = "card"
          /\ UNCHANGED <<row, platform, stock, job>>
      BY <1>1, <2>10 DEF ConfirmNothing, Goto, FlowType
    <3>2. QED
      BY <2>4, <3>1 DEF Taking, FlowSteps, Holding
  <2>11. CASE ConfirmRefused(f)
    <3>1. /\ pc'[f] = "release" /\ SetJob(f, [job[f] EXCEPT !.reply = "fail"])
          /\ UNCHANGED platform
      BY <1>1, <2>11 DEF ConfirmRefused, EndEmpty, Goto, FlowType
    <3>2. job'[f].reply = "fail" /\ job'[f].closed = job[f].closed
      BY <1>1, <3>1, FieldsAnswer
    <3>3. QED
      BY <2>4, <3>1, <3>2
  <2>12. CASE ConfirmFirst(f)
    <3>1. /\ pc[f] = "confirm" /\ UNCHANGED stock
          /\ Lasting /\ SameState
          /\ platform'[o] = "shipped" /\ platform[o] # "shipped" => Confirmed(f)'
      BY <2>1, <2>12, ConfirmsOnly DEF ConfirmFirst
    <3>2. pc'[f] \in {"card", "release"}
      <4>1. Answers(ord[f]) \subseteq {"ok", "fail", "already", "unknown"}
        BY DEF Answers
      <4>2. Goto(f, "card") \/ Goto(f, "release")
        BY <2>12, <4>1 DEF ConfirmFirst, EndEmpty
      <4>3. QED
        BY <1>1, <4>2 DEF Goto, FlowType
    <3>3. job'[f].closed = job[f].closed /\ job'[f].reply # "onlyCard"
      <4>1. Answers(ord[f]) \subseteq {"ok", "fail", "already", "unknown"}
        BY DEF Answers
      <4>2. \/ UNCHANGED job
            \/ SetJob(f, [job[f] EXCEPT !.psc = TRUE])
            \/ SetJob(f, [job[f] EXCEPT !.psc = TRUE, !.already = TRUE, !.reply = "already"])
            \/ SetJob(f, [job[f] EXCEPT !.reply = "fail"])
        BY <2>12, <4>1 DEF ConfirmFirst, EndEmpty
      <4>3. job[f].reply = "none"
        BY <3>1 DEF OnlyCardInv, LinkInv, Answered
      <4>4. QED
        BY <1>1, <4>2, <4>3, FieldsAnswer, FieldsAlready, FieldsConfirmed
    <3>4. platform[o] = "shipped" => stock = {}
      BY <2>4, <3>1 DEF Holding, FlowSteps
    <3>5. QED
      BY <2>1, <2>4, <3>1, <3>2, <3>3, <3>4
      DEF Lasting, SameState, Confirmed, Taking, FlowSteps, Holding
  <2>13. CASE TakeCard(f)
    <3>1. CASE stock = {}
      <4>1. /\ pc'[f] = "release" /\ SetJob(f, [job[f] EXCEPT !.reply = "fail"])
            /\ UNCHANGED platform
        BY <1>1, <2>13, <3>1 DEF TakeCard, EndEmpty, Goto, FlowType
      <4>2. job'[f].reply = "fail" /\ job'[f].closed = job[f].closed
        BY <1>1, <4>1, FieldsAnswer
      <4>3. QED
        BY <2>4, <4>1, <4>2
    <3>2. CASE stock # {}
      <4>1. pc[f] = "card" /\ pc'[f] = "send" /\ UNCHANGED <<row, job, platform>>
        BY <1>1, <2>13, <3>2 DEF TakeCard, Goto, FlowType
      <4>2. QED
        BY <2>4, <3>2, <4>1 DEF FlowSteps, Holding
    <3>3. QED
      BY <3>1, <3>2
  <2>14. CASE Send(f)
    <3>1. pc[f] = "send" /\ pc'[f] = "receipt" /\ UNCHANGED <<row, platform>>
      BY <1>1, <2>14 DEF Send, Goto, FlowType
    <3>2. QED
      BY <1>1, <2>4, <2>14, <3>1, FieldsSend DEF Taking, FlowSteps, Holding
  <2>15. CASE Receipt(f)
    <3>1. pc[f] = "receipt" /\ pc'[f] = "after" /\ UNCHANGED <<row, platform>>
      BY <1>1, <2>15 DEF Receipt, Goto, FlowType
    <3>2. QED
      BY <1>1, <2>4, <2>15, <3>1, FieldsReceipt DEF Taking, FlowSteps, Holding
  <2>16. CASE ConfirmAfter(f)
    <3>1. pc[f] = "after" /\ pc'[f] = "write"
      BY <1>1, <2>16 DEF ConfirmAfter, Goto, FlowType
    <3>2. /\ Lasting /\ SameState
          /\ platform'[o] = "shipped" /\ platform[o] # "shipped" => Confirmed(f)'
      BY <2>1, <2>16, ConfirmsOnly
    <3>3. (job[f].psc => job'[f].psc) /\ job'[f].closed = job[f].closed
      BY <1>1, <2>16, FieldsAfter
    <3>4. QED
      BY <2>4, <3>1, <3>2, <3>3
      DEF Lasting, SameState, Confirmed, Taking, FlowSteps, Holding
  <2>17. CASE SkipConfirmAfter(f)
    <3>1. pc[f] = "after" /\ pc'[f] = "write" /\ UNCHANGED <<row, platform>>
      BY <1>1, <2>17 DEF SkipConfirmAfter, Goto, FlowType
    <3>2. QED
      BY <1>1, <2>4, <2>17, <3>1, FieldsSkip DEF Taking, FlowSteps, Holding
  <2>18. CASE Write(f)
    <3>1. pc'[f] \in {"flag", "release"}
      BY <1>1, <2>18 DEF Write, Goto, FlowType
    <3>2. /\ UNCHANGED platform
          /\ job'[f].reply = "onlyCard" => row'[o].cardOnly
          /\ job'[f].closed = job[f].closed
      BY <1>1, <2>1, <2>18, RecordsOnly, FieldsWrite
    <3>3. QED
      BY <2>4, <3>1, <3>2
  <2>19. CASE Flag(f)
    <3>1. /\ pc[f] = "flag" /\ pc'[f] = "release" /\ Warn(ord[f])
          /\ UNCHANGED <<platform, job>>
      BY <1>1, <2>19 DEF Flag, Goto, FlowType
    <3>2. SameState
      BY <2>2, <3>1, SameStateWarn
    <3>3. QED
      BY <2>4, <3>1, <3>2 DEF SameState
  <2>20. QED
    BY <1>3, <2>5, <2>6, <2>7, <2>8, <2>9, <2>10, <2>11, <2>12, <2>13, <2>14, <2>15,
       <2>16, <2>17, <2>18, <2>19 DEF FlowStep
<1>4. QED
  BY <1>2, <1>3

-----------------------------------------------------------------------------
(* The invariant *)

LEMMA ToldStep ==
  ASSUME OnlyCardInv, [Next]_vars, Lasting,
         NEW c \in Callers, cpc'[c] = "reply", cjob'[c].reply = "onlyCard"
  PROVE  row'[cord'[c]].cardOnly
<1>1. TypeInv /\ LinkInv
  BY DEF OnlyCardInv
<1>2. row[cord[c]].cardOnly
  <2>1. CASE cpc[c] = "reply" /\ cjob'[c].reply = cjob[c].reply
    BY <2>1 DEF OnlyCardInv, ToldOnlyCard
  <2>2. CASE \E f \in Flows : pc[f] = "release" /\ ord[f] = cord[c]
                              /\ job[f].reply = cjob'[c].reply
    BY <2>2 DEF OnlyCardInv, FlowKnows, Answered
  <2>3. QED
    BY <1>1, <2>1, <2>2, ReplyStep
<1>3. QED
  BY <1>1, <1>2, ReplyStep DEF Lasting

(* A confirmed flow has its card, or finds none left, and then records it.  *)
LEMMA ConfirmedMoves ==
  ASSUME OnlyCardInv, NEW f \in Flows, FlowStep(f), Confirmed(f)
  PROVE  \/ Confirmed(f)' /\ ord'[f] = ord[f]
         \/ stock = {} \/ Write(f)
<1>1. FlowType
  BY DEF OnlyCardInv, TypeInv, FlowInv
<1>2. pc[f] \in {"card", "send", "receipt", "after", "write"} /\ job[f].psc
  BY DEF Confirmed, Holding
<1>3. CASE TakeCard(f) /\ stock # {}
  BY <1>1, <1>2, <1>3 DEF TakeCard, Goto, FlowType, Confirmed, Holding
<1>4. CASE Send(f)
  <2>1. pc'[f] = "receipt" /\ UNCHANGED ord
    BY <1>1, <1>4 DEF Send, Goto, FlowType
  <2>2. QED
    BY <1>1, <1>2, <1>4, <2>1, FieldsSend DEF Confirmed, Holding
<1>5. CASE Receipt(f)
  <2>1. pc'[f] = "after" /\ UNCHANGED ord
    BY <1>1, <1>5 DEF Receipt, Goto, FlowType
  <2>2. QED
    BY <1>1, <1>2, <1>5, <2>1, FieldsReceipt DEF Confirmed, Holding
<1>6. CASE ConfirmAfter(f) \/ SkipConfirmAfter(f)
  <2>1. pc'[f] = "write" /\ UNCHANGED ord
    BY <1>1, <1>6 DEF ConfirmAfter, SkipConfirmAfter, Goto, FlowType
  <2>2. QED
    BY <1>1, <1>2, <1>6, <2>1, FieldsAfter, FieldsSkip DEF Confirmed, Holding
<1>7. TakeCard(f) \/ Send(f) \/ Receipt(f) \/ ConfirmAfter(f) \/ SkipConfirmAfter(f) \/ Write(f)
  BY <1>2 DEF FlowStep, AutoRedis, AutoLocal, HandlerLocal, HandlerPre, Prep,
     ConfirmNothing, ConfirmRefused, ConfirmFirst, Flag, AutoRelease, HandlerRelease
<1>8. QED
  BY <1>3, <1>4, <1>5, <1>6, <1>7

LEMMA KnownFlowStep ==
  ASSUME OnlyCardInv, Exclusive, AnswersArrive, NEW f \in Flows, FlowStep(f)
  PROVE  /\ Lasting /\ \A o \in Orders : Known(o)'
         /\ \A g \in Flows : g # f /\ Working(g) => Unmoved(ord[g])
<1>1. FlowType /\ OrderType /\ \A g \in Flows : pc[g] # "idle" => ord[g] \in Orders
  BY DEF OnlyCardInv, TypeInv, FlowInv
<1>2. \A g \in Flows : Confirmed(g) => Working(g) /\ ord[g] \in Orders
  BY <1>1 DEF Confirmed, Working, Holding, FlowSteps
<1>3. \A g \in Flows : g # f /\ Confirmed(g) => Confirmed(g)' /\ ord'[g] = ord[g]
  BY <1>1, FlowFrame DEF FlowMoves, FlowEnds, Confirmed
<1>4. Confirmed(f) => \/ Confirmed(f)' /\ ord'[f] = ord[f]
                      \/ stock = {} \/ Write(f)
  BY ConfirmedMoves
<1>5. \A g \in Flows : Working(g) => ord[g] \in Orders
  BY <1>1 DEF Working
<1>6. CASE ~ConfirmFirst(f) /\ ~ConfirmAfter(f) /\ ~Write(f)
  <2>1. Still
    BY <1>1, <1>6, StillFlowStep
  <2>2. \A o \in Orders : Known(o)'
    BY <1>3, <1>4, <1>6, <2>1, KnownStill DEF Still
  <2>3. QED
    BY <1>5, <2>1, <2>2 DEF Still
<1>7. CASE ConfirmFirst(f) \/ ConfirmAfter(f) \/ Write(f)
  <2>1. pc[f] \in {"confirm", "after", "write"}
    BY <1>7 DEF ConfirmFirst, ConfirmAfter, Write
  <2>2. Working(f) /\ ord[f] \in Orders /\ UNCHANGED ord
    BY <1>1, <1>7, <2>1 DEF Working, FlowSteps, ConfirmFirst, ConfirmAfter, Write
  <2>3. \A g \in Flows : g # f /\ Working(g) => ord[g] # ord[f]
    BY <2>2 DEF Exclusive, OneFlowPerOrder
  <2>4. Lasting /\ \A o \in Orders : o # ord[f] => Unmoved(o)
    BY <1>7, ConfirmsOnly, RecordsOnly
  <2>5. \A o \in Orders : o # ord[f] => Known(o)'
    BY <1>2, <1>3, <2>4, KnownStill
  <2>6. ASSUME NEW o \in Orders, o = ord[f] PROVE Known(o)'
    <3>1. CASE ConfirmFirst(f) \/ ConfirmAfter(f)
      <4>1. SameState /\ ~row[o].cardOnly
        BY <2>1, <2>2, <2>6, <3>1, ConfirmsOnly DEF OnlyCardInv, FlowKnows
      <4>2. CASE platform[o] = "shipped"
        <5>1. Unmoved(o)
          BY <4>1, <4>2 DEF Unmoved, SameState
        <5>2. \A g \in Flows : Confirmed(g) /\ ord[g] = o =>
                (Confirmed(g)' /\ ord'[g] = o) \/ stock = {}
          <6>1. ~Write(f)
            BY <3>1 DEF ConfirmFirst, ConfirmAfter, Write
          <6>2. QED
            BY <1>3, <1>4, <2>6, <6>1
        <5>3. QED
          BY <2>4, <5>1, <5>2, KnownStill
      <4>3. CASE platform[o] # "shipped"
        <5>1. platform'[o] = "shipped" => Confirmed(f)' /\ ord'[f] = o
          BY <2>2, <2>6, <3>1, <4>3, ConfirmsOnly
        <5>2. QED
          BY <4>1, <5>1 DEF Known, SameState
      <4>4. QED
        BY <4>2, <4>3
    <3>2. CASE Write(f)
      <4>1. /\ UNCHANGED <<platform, stock>>
            /\ row'[o].cardOnly => platform[o] # "shipped"
            /\ Confirmed(f) /\ platform[o] # "closed" => row'[o].status = "shipped"
        BY <2>6, <3>2, RecordsOnly
      <4>2. platform[o] = "shipped" => Confirmed(f)
        BY <2>2, <2>6, <3>2 DEF Write, OnlyCardInv, FlowKnows, Taking
      <4>3. QED
        BY <4>1, <4>2 DEF Known
    <3>3. QED
      BY <1>7, <3>1, <3>2
  <2>7. \A g \in Flows : g # f /\ Working(g) => Unmoved(ord[g])
    BY <1>5, <2>3, <2>4
  <2>8. QED
    BY <2>4, <2>5, <2>6, <2>7
<1>8. QED
  BY <1>6, <1>7

LEMMA OnlyCardInit == Init => OnlyCardInv
<1> SUFFICES ASSUME Init PROVE OnlyCardInv
  OBVIOUS
<1>1. TypeInv /\ LinkInv
  BY TypeInit, LinkInit
<1>2. NeverFetched /\ \A o \in Orders : platform[o] = "pending"
  BY DEF Init, NeverFetched
<1>3. \A f \in Flows : pc[f] = "idle"
  BY DEF Init
<1>4. ToldOnlyCard
  BY DEF Init, ToldOnlyCard
<1>5. QED
  BY <1>1, <1>2, <1>3, <1>4 DEF OnlyCardInv, Known, FlowKnows, Working, Answered, FlowSteps

LEMMA OnlyCardStep ==
  ASSUME AnswersArrive, OnlyCardInv, [Next]_vars, Exclusive
  PROVE  OnlyCardInv'
<1>1. TypeInv /\ LinkInv /\ TypeInv' /\ LinkInv' /\ FlowType
  BY TypeStep, LinkStep DEF OnlyCardInv, TypeInv, FlowInv
<1>2. NeverFetched'
  BY NotFetchedStep DEF AnswersArrive, OnlyCardInv
<1>3. CASE \E f \in Flows : FlowStep(f)
  <2>1. PICK f \in Flows : FlowStep(f)
    BY <1>3
  <2>2. /\ Lasting /\ \A o \in Orders : Known(o)'
        /\ \A g \in Flows : g # f /\ Working(g) => Unmoved(ord[g])
    BY <2>1, KnownFlowStep
  <2>3. FlowKnows(f)'
    BY <1>1, <2>1, KnowsMove
  <2>4. ASSUME NEW g \in Flows, g # f PROVE FlowKnows(g)'
    <3>1. UNCHANGED <<pc[g], ord[g], job[g]>>
      BY <1>1, <2>1, <2>4, FlowFrame DEF FlowMoves, FlowEnds
    <3>2. QED
      BY <2>2, <2>4, <3>1, KnowsStill
  <2>5. ToldOnlyCard'
    BY <2>2, ToldStep DEF ToldOnlyCard
  <2>6. QED
    BY <1>1, <1>2, <2>2, <2>3, <2>4, <2>5 DEF OnlyCardInv
<1>4. CASE ~\E f \in Flows : FlowStep(f)
  <2>1. Still
    BY <1>4, StillElse, Zenon DEF Next
  <2>2. ToldOnlyCard'
    BY <2>1, ToldStep DEF ToldOnlyCard, Still
  <2>3. ASSUME NEW f \in Flows, UNCHANGED <<pc[f], ord[f], job[f]>> PROVE FlowKnows(f)'
    <3>1. Working(f) => ord[f] \in Orders
      BY <1>1 DEF Working, TypeInv, FlowInv
    <3>2. QED
      BY <2>1, <2>3, <3>1, KnowsStill DEF Still
  <2>4. (\A f \in Flows : FlowKnows(f)')
        /\ \A f \in Flows : pc[f] # "idle" => UNCHANGED <<pc[f], ord[f], job[f]>>
    <3>1. CASE \E g \in Autos : AutoStart(g)
      <4>1. PICK g \in Autos : AutoStart(g)
        BY <3>1
      <4>2. g \in Flows /\ pc[g] = "idle" /\ job[g] = NewJob /\ job[g] \in Jobs
        BY <1>1, <4>1, JobOf DEF AutoStart, Flows, LinkInv
      <4>3. PICK o \in Orders, v \in Verdicts :
              /\ PreCheck(o, v)
              /\ \/ UNCHANGED flowVars
                 \/ /\ Goto(g, "redis") /\ ord' = [ord EXCEPT ![g] = o]
                    /\ SetJob(g, [job[g] EXCEPT !.closed = (v = "card_only"),
                                                !.osc = (setting.mode = "onlyCard")])
        BY <4>1, Zenon DEF AutoStart
      <4>4. CASE UNCHANGED flowVars
        BY <2>3, <4>4 DEF flowVars
      <4>5. CASE /\ Goto(g, "redis") /\ ord' = [ord EXCEPT ![g] = o]
                 /\ SetJob(g, [job[g] EXCEPT !.closed = (v = "card_only"),
                                             !.osc = (setting.mode = "onlyCard")])
        <5>1. \A f \in Flows : f # g => UNCHANGED <<pc[f], ord[f], job[f]>>
          BY <1>1, <4>2, <4>5, JobSet DEF Goto, FlowType
        <5>2. pc'[g] = "redis" /\ ord'[g] = o
          BY <1>1, <4>2, <4>5 DEF Goto, FlowType
        <5>3. job'[g] = [job[g] EXCEPT !.closed = (v = "card_only"),
                                       !.osc = (setting.mode = "onlyCard")]
          BY <1>1, <4>2, <4>5, JobSet
        <5>4. job'[g].closed = (v = "card_only") /\ job'[g].psc = NewJob.psc
          BY <4>2, <5>3 DEF Jobs
        <5>5. v = "card_only" => platform'[o] = "closed"
          BY <1>1, <4>3 DEF PreCheck, TypeInv, OrderType
        <5>6. FlowKnows(g)'
          BY <5>2, <5>4, <5>5 DEF FlowKnows, Working, Answered, FlowSteps, NewJob
        <5>7. QED
          BY <2>3, <4>2, <5>1, <5>6
      <4>6. QED
        BY <4>3, <4>4, <4>5
    <3>2. CASE \E c \in Callers : Post(c)
      <4>1. PICK c \in Callers, h \in Handlers :
              /\ pc[h] = "idle" /\ Goto(h, "local") /\ UNCHANGED job
              /\ ord' = [ord EXCEPT ![h] = cord[c]]
        BY <3>2 DEF Post
      <4>2. h \in Flows /\ job[h] = NewJob
        BY <1>1, <4>1 DEF Flows, LinkInv
      <4>3. \A f \in Flows : f # h => UNCHANGED <<pc[f], ord[f], job[f]>>
        BY <1>1, <4>1, <4>2 DEF Goto, FlowType
      <4>4. pc'[h] = "local" /\ job'[h] = NewJob
        BY <1>1, <4>1, <4>2 DEF Goto, FlowType
      <4>5. FlowKnows(h)'
        BY <4>4 DEF FlowKnows, Working, Answered, FlowSteps, NewJob
      <4>6. QED
        BY <2>3, <4>1, <4>3, <4>5
    <3>3. CASE \/ SchedScan \/ SchedPick \/ ManualStart
               \/ \E c \in Callers : CallerStep(c) /\ ~Post(c)
               \/ UNCHANGED vars \/ World
      <4>1. UNCHANGED <<pc, ord, job>>
        BY <3>3, Zenon DEF SchedScan, SchedPick, ManualStart, CallerStep, CallerRedis,
           SchedRecheck, SchedCheck, Timeout, CallerReply, CallerRelease, vars, flowVars,
           World, RedisExpire, Forget, Stop, Restart, ChangeSetting, PlatformClose,
           SyncFetch, SyncLoad, SyncUpsert
      <4>2. QED
        BY <2>3, <4>1
    <3>4. QED
      BY <1>4, <3>1, <3>2, <3>3 DEF Next
  <2>5. \A g \in Flows : Confirmed(g) => Confirmed(g)' /\ ord'[g] = ord[g]
    BY <2>4 DEF Confirmed, Holding
  <2>6. \A o \in Orders : Known(o)'
    BY <2>1, <2>5, KnownStill DEF Still
  <2>7. QED
    BY <1>1, <1>2, <2>2, <2>4, <2>6 DEF OnlyCardInv
<1>5. QED
  BY <1>3, <1>4

(* An order handed out "card only, not shipped" is never confirmed on the   *)
(* platform, whatever the seller switches to while flows run: as long as    *)
(* flows exclude each other (either lock is enough), the platform's answers *)
(* arrive, and no list fetch rewrites the rows.                             *)
THEOREM CardOnlyStaysUnconfirmed ==
  ASSUME OneInstance \/ RedisSound, AnswersArrive PROVE Spec => []CardOnlyUnconfirmed
<1>1. OnlyCardInv => CardOnlyUnconfirmed
  BY DEF OnlyCardInv, Known, CardOnlyUnconfirmed
<1>2. OnlyCardInv /\ [Next]_vars /\ Exclusive => OnlyCardInv'
  BY OnlyCardStep
<1>3. Spec => [](TypeInv /\ Exclusive)
  BY GuardHolds
<1>4. QED
  BY <1>1, <1>2, <1>3, OnlyCardInit, PTL DEF Spec

=============================================================================
