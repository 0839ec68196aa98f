--------------------------- MODULE DeliveryProofs ---------------------------
(***************************************************************************)
(* Theorems about Delivery for any number of orders, cards, flows and      *)
(* callers.                                                                *)
(***************************************************************************)
EXTENDS DeliveryInvariant, SequenceTheorems, TLAPS

-----------------------------------------------------------------------------
(* What is left alone keeps its type *)

LEMMA SameOrders ==
  ASSUME OrderType, UNCHANGED <<row, platform, stock, given, chat>>
  PROVE  OrderType'
BY DEF OrderType

LEMMA SameLocks ==
  ASSUME LockType, UNCHANGED <<redis, local>> PROVE LockType'
BY DEF LockType

LEMMA SameAccount ==
  ASSUME AccountInv, UNCHANGED <<userVars, instVars, memoVars>> PROVE AccountInv'
BY DEF AccountInv, AccountType, userVars, instVars, memoVars

LEMMA SameFlows ==
  ASSUME FlowInv, UNCHANGED flowVars PROVE FlowInv'
BY DEF FlowInv, FlowType, flowVars

LEMMA SameCalls ==
  ASSUME CallInv, UNCHANGED callVars PROVE CallInv'
BY DEF CallInv, CallType, callVars

-----------------------------------------------------------------------------
(* Updates keep the types *)

LEMMA RowUpdate ==
  ASSUME OrderType, NEW o, NEW r, o \in Orders => r \in Rows, SetRow(o, r)
  PROVE  row' \in [Orders -> Rows]
BY DEF OrderType, SetRow

LEMMA WarnUpdate ==
  ASSUME OrderType, NEW o, Warn(o)
  PROVE  row' \in [Orders -> Rows]
<1>1. o \in Orders => [row[o] EXCEPT !.warned = TRUE] \in Rows
  BY DEF OrderType, Rows
<1>2. QED
  BY <1>1, RowUpdate DEF Warn

LEMMA PreCheckUpdate ==
  ASSUME OrderType, NEW o \in Orders, NEW v, PreCheck(o, v)
  PROVE  row' \in [Orders -> Rows] /\ platform' \in [Orders -> Statuses]
<1>1. CASE UNCHANGED <<row, platform>>
  BY <1>1 DEF OrderType
<1>2. CASE Warn(o) /\ UNCHANGED platform
  BY <1>2, WarnUpdate DEF OrderType
<1>3. CASE Warn(o) /\ platform' = [platform EXCEPT ![o] = "closed"]
  BY <1>3, WarnUpdate DEF OrderType, Statuses
<1>4. QED
  BY <1>1, <1>2, <1>3 DEF PreCheck

LEMMA ConfirmUpdate ==
  ASSUME OrderType, NEW o, NEW answer, ConfirmOnPlatform(o, answer)
  PROVE  platform' \in [Orders -> Statuses]
BY DEF OrderType, ConfirmOnPlatform, Statuses

LEMMA WarnEmptyUpdate ==
  ASSUME OrderType, NEW f, WarnEmpty(f)
  PROVE  row' \in [Orders -> Rows]
<1>1. CASE Warn(ord[f])
  BY <1>1, WarnUpdate
<1>2. CASE UNCHANGED row
  BY <1>2 DEF OrderType
<1>3. QED
  BY <1>1, <1>2 DEF WarnEmpty

LEMMA MemoUpdate ==
  ASSUME NEW M \in [Insts -> SUBSET Orders], NEW i, NEW o \in Orders
  PROVE  [M EXCEPT ![i] = @ \cup {o}] \in [Insts -> SUBSET Orders]
OBVIOUS

LEMMA JobOf ==
  ASSUME FlowType, NEW f \in Flows PROVE job[f] \in Jobs
BY DEF FlowType

LEMMA JobUpdate ==
  ASSUME FlowType, NEW f, NEW j \in Jobs, SetJob(f, j)
  PROVE  job' \in [Flows -> Jobs]
BY DEF FlowType, SetJob

(* A flow under way moves on. *)
LEMMA StepUpdate ==
  ASSUME FlowInv, NEW f \in Flows, pc[f] # "idle",
         NEW step \in FlowSteps, Goto(f, step),
         job' \in [Flows -> Jobs], UNCHANGED <<ord, lk, card>>,
         step \in Holding => pc[f] \in Holding
  PROVE  FlowInv'
<1>1. FlowType'
  BY DEF FlowInv, FlowType, Goto
<1>2. ASSUME NEW g \in Flows, pc'[g] # "idle" PROVE ord'[g] \in Orders
  BY <1>2 DEF FlowInv, FlowType, Goto
<1>3. ASSUME NEW g \in Flows, pc'[g] \in Holding PROVE card'[g] \in Cards
  BY <1>3 DEF FlowInv, FlowType, Goto
<1>4. ASSUME NEW g \in Autos, pc'[g] # "idle" PROVE lk'[g] # 0
  BY <1>4 DEF FlowInv, FlowType, Goto, Flows
<1>5. QED
  BY <1>1, <1>2, <1>3, <1>4 DEF FlowInv

LEMMA EndEmptyUpdate ==
  ASSUME OrderType, FlowInv, NEW f \in Flows, pc[f] # "idle",
         NEW reply \in Replies, EndEmpty(f, reply), UNCHANGED <<ord, lk, card>>
  PROVE  row' \in [Orders -> Rows] /\ FlowInv'
<1>1. row' \in [Orders -> Rows]
  BY WarnEmptyUpdate DEF EndEmpty
<1>2. [job[f] EXCEPT !.reply = reply] \in Jobs
  BY JobOf DEF Jobs, FlowInv
<1>3. job' \in [Flows -> Jobs]
  BY <1>2, JobUpdate DEF EndEmpty, FlowInv
<1>4. QED
  BY <1>1, <1>3, StepUpdate DEF Holding, EndEmpty, FlowSteps, FlowInv, FlowType

LEMMA RedisUpdate ==
  ASSUME LockType, NEW o, NEW who \in Autos \cup Callers,
         (\E outcome \in {"mine", "refused", "degraded"} : AskRedis(o, who, outcome))
         \/ DropRedis(o, who)
  PROVE  redis' \in [Orders -> Autos \cup Callers \cup {Nil}]
BY DEF LockType, AskRedis, DropRedis

LEMMA LocalUpdate ==
  ASSUME LockType, NEW i, NEW o, NEW f \in Flows,
         local' = [local EXCEPT ![i][o] = f]
  PROVE  local' \in [Insts -> [Orders -> Flows \cup {Nil}]]
<1>1. ASSUME NEW j \in Insts
      PROVE  [local[j] EXCEPT ![o] = f] \in [Orders -> Flows \cup {Nil}]
  BY DEF LockType
<1>2. local' = [j \in Insts |->
                  IF j = i THEN [local[j] EXCEPT ![o] = f] ELSE local[j]]
  BY DEF LockType
<1>3. ASSUME NEW j \in Insts
      PROVE  local'[j] \in [Orders -> Flows \cup {Nil}]
  BY <1>1, <1>2 DEF LockType
<1>4. QED
  BY <1>2, <1>3

LEMMA CallUpdate ==
  ASSUME CallInv, NEW c \in Callers, cpc[c] # "idle", NEW step \in CallSteps, CGoto(c, step),
         cpc[c] \notin {"wait", "reply", "release"}
           \/ step \in {"wait", "reply", "release"},
         UNCHANGED <<cord, cjob, batch>>
  PROVE  CallInv'
BY DEF CallInv, CallType, CGoto

-----------------------------------------------------------------------------
(* Steps keep the types: up to the lock *)

LEMMA JobModes ==
  ASSUME NEW j \in Jobs, NEW closed \in BOOLEAN, NEW osc \in BOOLEAN
  PROVE  [j EXCEPT !.closed = closed, !.osc = osc] \in Jobs
BY DEF Jobs

LEMMA TypeAutoStart ==
  ASSUME TypeInv, NEW f \in Autos, AutoStart(f)
  PROVE  TypeInv'
<1> USE DEF TypeInv
<1>1. PICK o \in Orders, v \in Verdicts :
        /\ PreCheck(o, v)
        /\ \/ UNCHANGED flowVars
           \/ /\ Goto(f, "redis")
              /\ ord' = [ord EXCEPT ![f] = o] /\ lk' = [lk EXCEPT ![f] = inst]
              /\ SetJob(f, [job[f] EXCEPT !.closed = (v = "card_only"),
                                          !.osc = (setting.mode = "onlyCard")])
              /\ UNCHANGED card
  BY DEF AutoStart
<1>2. OrderType'
  BY <1>1, PreCheckUpdate DEF OrderType, AutoStart, histVars
<1>3. FlowInv'
  <2>1. CASE UNCHANGED flowVars
    BY <2>1, SameFlows
  <2>2. CASE ~ UNCHANGED flowVars
    <3>1. f \in Flows
      BY DEF Flows
    <3>2. [job[f] EXCEPT !.closed = (v = "card_only"),
                         !.osc = (setting.mode = "onlyCard")] \in Jobs
      <4>1. job[f] \in Jobs
        BY <3>1, JobOf DEF FlowInv
      <4>2. (v = "card_only") \in BOOLEAN /\ (setting.mode = "onlyCard") \in BOOLEAN
        OBVIOUS
      <4> HIDE DEF TypeInv
      <4>3. QED BY <4>1, <4>2, JobModes
    <3>3. job' \in [Flows -> Jobs]
      BY <1>1, <2>2, <3>2, JobUpdate DEF FlowInv
    <3>4. /\ pc' = [pc EXCEPT ![f] = "redis"]
          /\ ord' = [ord EXCEPT ![f] = o] /\ lk' = [lk EXCEPT ![f] = inst]
          /\ card' = card
      BY <1>1, <2>2 DEF Goto
    <3>5. inst \in 0..MaxInst
      BY DeliveryAssumption DEF AccountInv, AccountType, Insts
    <3>6. FlowType'
      BY <3>3, <3>4, <3>5 DEF FlowInv, FlowType, FlowSteps
    <3>7. ASSUME NEW g \in Flows, pc'[g] # "idle" PROVE ord'[g] \in Orders
      BY <3>4, <3>7 DEF FlowInv, FlowType
    <3>8. ASSUME NEW g \in Flows, pc'[g] \in Holding PROVE card'[g] \in Cards
      BY <3>4, <3>8 DEF FlowInv, FlowType, Holding
    <3>9. ASSUME NEW g \in Autos, pc'[g] # "idle" PROVE lk'[g] # 0
      <4>1. inst # 0
        BY DEF AccountInv, AccountType, Insts
      <4>2. QED
        BY <3>4, <3>9, <4>1 DEF FlowInv, FlowType, Flows
    <3>10. QED
      BY <3>6, <3>7, <3>8, <3>9 DEF FlowInv
  <2>3. QED
    BY <2>1, <2>2
<1>4. LockType' /\ AccountInv' /\ CallInv' /\ sync' = sync
  BY SameLocks, SameAccount, SameCalls DEF AutoStart, lockVars
<1>5. QED
  BY <1>2, <1>3, <1>4

LEMMA TypeAutoRedis ==
  ASSUME TypeInv, NEW f \in Autos, AutoRedis(f)
  PROVE  TypeInv'
<1> USE DEF TypeInv
<1>1. LockType'
  BY RedisUpdate DEF LockType, AutoRedis
<1>2. f \in Flows
  BY DEF Flows
<1>3. FlowInv'
  BY <1>2, StepUpdate DEF Holding, AutoRedis, FlowSteps, FlowInv, FlowType
<1>4. OrderType' /\ AccountInv' /\ CallInv' /\ sync' = sync
  BY SameOrders, SameAccount, SameCalls DEF AutoRedis, histVars
<1>5. QED
  BY <1>1, <1>3, <1>4

LEMMA TypeAutoLocal ==
  ASSUME TypeInv, NEW f \in Flows, AutoLocal(f)
  PROVE  TypeInv'
<1> USE DEF TypeInv
<1>1. LockType'
  BY LocalUpdate DEF AutoLocal, LockType
<1>2. FlowInv'
  BY StepUpdate DEF Holding, AutoLocal, FlowSteps, FlowInv, FlowType
<1>3. OrderType' /\ AccountInv' /\ CallInv' /\ sync' = sync
  BY SameOrders, SameAccount, SameCalls DEF AutoLocal, histVars
<1>4. QED
  BY <1>1, <1>2, <1>3

LEMMA TypeHandlerLocal ==
  ASSUME TypeInv, NEW f \in Flows, HandlerLocal(f)
  PROVE  TypeInv'
<1> USE DEF TypeInv
<1>1. \/ \E reply \in Replies, content \in Cards \cup {Nil} :
           /\ Goto(f, "release") /\ UNCHANGED local
           /\ SetJob(f, [job[f] EXCEPT !.reply = reply, !.content = content])
      \/ /\ Goto(f, "pre") /\ UNCHANGED job
         /\ local' = [local EXCEPT ![lk[f]][ord[f]] = f]
  <2>1. row[ord[f]].content \in Cards \cup {Nil}
    BY DEF OrderType, Rows, FlowInv, HandlerLocal
  <2>2. QED
    BY <2>1 DEF HandlerLocal, Replies
<1>2. LockType'
  BY <1>1, LocalUpdate DEF HandlerLocal, LockType
<1>3. job' \in [Flows -> Jobs]
  <2>1. ASSUME NEW reply \in Replies, NEW content \in Cards \cup {Nil}
        PROVE  [job[f] EXCEPT !.reply = reply, !.content = content] \in Jobs
    BY JobOf DEF Jobs, FlowInv
  <2>2. QED
    BY <1>1, <2>1, JobUpdate DEF FlowInv, FlowType
<1>4. FlowInv'
  BY <1>1, <1>3, StepUpdate DEF Holding, HandlerLocal, FlowSteps, FlowInv, FlowType
<1>5. OrderType' /\ AccountInv' /\ CallInv' /\ sync' = sync
  BY SameOrders, SameAccount, SameCalls DEF HandlerLocal, histVars
<1>6. QED
  BY <1>2, <1>4, <1>5

LEMMA TypeHandlerPre ==
  ASSUME TypeInv, NEW f \in Flows, HandlerPre(f)
  PROVE  TypeInv'
<1> USE DEF TypeInv
<1>1. ord[f] \in Orders
  BY DEF HandlerPre, FlowInv
<1>2. OrderType'
  BY <1>1, PreCheckUpdate DEF OrderType, HandlerPre, histVars
<1>3. [job[f] EXCEPT !.reply = "fail"] \in Jobs
  BY JobOf DEF Jobs, FlowInv, Replies
<1>4. ASSUME NEW b \in BOOLEAN PROVE [job[f] EXCEPT !.closed = b] \in Jobs
  BY JobOf DEF Jobs, FlowInv
<1>5. job' \in [Flows -> Jobs]
  BY <1>3, <1>4, JobUpdate DEF HandlerPre, FlowInv
<1>6. FlowInv'
  BY <1>5, StepUpdate DEF Holding, HandlerPre, FlowSteps, FlowInv, FlowType
<1>7. LockType' /\ AccountInv' /\ CallInv' /\ sync' = sync
  BY SameLocks, SameAccount, SameCalls DEF HandlerPre, lockVars
<1>8. QED
  BY <1>2, <1>6, <1>7

-----------------------------------------------------------------------------
(* Steps keep the types: from the lock to the record *)

LEMMA TypePrep ==
  ASSUME TypeInv, NEW f \in Flows, Prep(f)
  PROVE  TypeInv'
<1> USE DEF TypeInv
<1>1. ASSUME NEW a \in BOOLEAN, NEW b \in BOOLEAN
      PROVE  [job[f] EXCEPT !.osc = a, !.sbc = b] \in Jobs
  BY JobOf DEF Jobs, FlowInv
<1>2. job[f].osc \in BOOLEAN
  BY JobOf DEF Jobs, FlowInv
<1>3. job' \in [Flows -> Jobs]
  BY <1>1, <1>2, JobUpdate DEF Prep, FlowInv
<1>4. FlowInv'
  BY <1>3, StepUpdate DEF Holding, Prep, FlowSteps, FlowInv, FlowType
<1>5. OrderType' /\ LockType' /\ AccountInv' /\ CallInv' /\ sync' = sync
  BY SameOrders, SameLocks, SameAccount, SameCalls DEF Prep, lockVars, histVars
<1>6. QED
  BY <1>4, <1>5

LEMMA TypeConfirmNothing ==
  ASSUME TypeInv, NEW f \in Flows, ConfirmNothing(f)
  PROVE  TypeInv'
<1> USE DEF TypeInv
<1>1. FlowInv'
  BY StepUpdate DEF Holding, ConfirmNothing, FlowSteps, FlowInv, FlowType
<1>2. OrderType' /\ LockType' /\ AccountInv' /\ CallInv' /\ sync' = sync
  BY SameOrders, SameLocks, SameAccount, SameCalls DEF ConfirmNothing, lockVars, histVars
<1>3. QED
  BY <1>1, <1>2

LEMMA TypeConfirmRefused ==
  ASSUME TypeInv, NEW f \in Flows, ConfirmRefused(f)
  PROVE  TypeInv'
<1> USE DEF TypeInv
<1>1. row' \in [Orders -> Rows] /\ FlowInv'
  BY EndEmptyUpdate DEF ConfirmRefused, Replies
<1>2. OrderType'
  BY <1>1 DEF ConfirmRefused, OrderType, histVars
<1>3. LockType' /\ AccountInv' /\ CallInv' /\ sync' = sync
  BY SameLocks, SameAccount, SameCalls DEF ConfirmRefused, lockVars
<1>4. QED
  BY <1>1, <1>2, <1>3

LEMMA TypeConfirmFirst ==
  ASSUME TypeInv, NEW f \in Flows, ConfirmFirst(f)
  PROVE  TypeInv'
<1> USE DEF TypeInv
<1>1. PICK answer \in {"ok", "fail", "already", "unknown"} :
        /\ ConfirmOnPlatform(ord[f], answer)
        /\ \/ /\ Goto(f, "card") /\ UNCHANGED row
              /\ SetJob(f, [job[f] EXCEPT !.psc = TRUE])
           \/ /\ Goto(f, "release") /\ WarnEmpty(f)
              /\ SetJob(f, [job[f] EXCEPT !.psc = TRUE, !.already = TRUE,
                                          !.reply = "already"])
           \/ EndEmpty(f, "fail")
           \/ Goto(f, "card") /\ UNCHANGED <<row, job>>
  <2>1. Answers(ord[f]) \subseteq {"ok", "fail", "already", "unknown"}
    BY DEF Answers
  <2>2. QED
    BY <2>1 DEF ConfirmFirst
<1>2. pc[f] # "idle" /\ UNCHANGED <<ord, lk, card>>
  BY DEF ConfirmFirst
<1>3. row' \in [Orders -> Rows] /\ FlowInv'
  <2>1. CASE Goto(f, "card") /\ UNCHANGED row
             /\ SetJob(f, [job[f] EXCEPT !.psc = TRUE])
    <3>1. [job[f] EXCEPT !.psc = TRUE] \in Jobs
      BY JobOf DEF Jobs, FlowInv
    <3>2. job' \in [Flows -> Jobs]
      BY <2>1, <3>1, JobUpdate DEF FlowInv
    <3>3. QED
      BY <1>2, <2>1, <3>2, StepUpdate DEF Holding, OrderType, FlowSteps, FlowInv, FlowType
  <2>2. CASE Goto(f, "release") /\ WarnEmpty(f)
             /\ SetJob(f, [job[f] EXCEPT !.psc = TRUE, !.already = TRUE,
                                         !.reply = "already"])
    <3>1. [job[f] EXCEPT !.psc = TRUE, !.already = TRUE, !.reply = "already"] \in Jobs
      BY JobOf DEF Jobs, FlowInv, Replies
    <3>2. job' \in [Flows -> Jobs]
      BY <2>2, <3>1, JobUpdate DEF FlowInv
    <3>3. QED
      BY <1>2, <2>2, <3>2, StepUpdate, WarnEmptyUpdate DEF Holding, FlowSteps, FlowInv, FlowType
  <2>3. CASE EndEmpty(f, "fail")
    BY <1>2, <2>3, EndEmptyUpdate DEF Replies
  <2>4. CASE Goto(f, "card") /\ UNCHANGED <<row, job>>
    BY <1>2, <2>4, StepUpdate DEF Holding, OrderType, FlowSteps, FlowInv, FlowType
  <2>5. QED
    BY <1>1, <2>1, <2>2, <2>3, <2>4
<1>4. OrderType'
  BY <1>1, <1>3, ConfirmUpdate DEF ConfirmFirst, OrderType, histVars
<1>5. AccountInv'
  <2>1. ord[f] \in Orders
    BY DEF ConfirmFirst, FlowInv
  <2>2. recent' \in [Insts -> SUBSET Orders] /\ confirmed' \in [Insts -> SUBSET Orders]
    BY <2>1, MemoUpdate DEF ConfirmFirst, AccountInv, AccountType
  <2>3. QED
    BY <2>2 DEF ConfirmFirst, AccountInv, AccountType, userVars, instVars
<1>6. LockType' /\ CallInv' /\ sync' = sync
  BY SameLocks, SameCalls DEF ConfirmFirst, lockVars
<1>7. QED
  BY <1>3, <1>4, <1>5, <1>6

LEMMA TypeTakeCard ==
  ASSUME TypeInv, NEW f \in Flows, TakeCard(f)
  PROVE  TypeInv'
<1> USE DEF TypeInv
<1>1. row' \in [Orders -> Rows] /\ FlowInv'
  <2>1. CASE EndEmpty(f, "fail") /\ UNCHANGED card
    BY <2>1, EndEmptyUpdate DEF TakeCard, Replies
  <2>2. ASSUME NEW c \in stock, card' = [card EXCEPT ![f] = c],
               Goto(f, "send"), UNCHANGED <<row, job, ord, lk>>
        PROVE  row' \in [Orders -> Rows] /\ FlowInv'
    <3>1. c \in Cards
      BY DEF OrderType
    <3>2. FlowType'
      BY <2>2, <3>1 DEF FlowInv, FlowType, Goto, FlowSteps
    <3>3. ASSUME NEW g \in Flows
          PROVE  /\ pc'[g] # "idle" => ord'[g] \in Orders
                 /\ pc'[g] \in Holding => card'[g] \in Cards
      <4>1. pc[f] = "card"
        BY DEF TakeCard
      <4>2. QED
        BY <2>2, <3>1, <4>1 DEF FlowInv, FlowType, Goto
    <3>4. ASSUME NEW g \in Autos, pc'[g] # "idle" PROVE lk'[g] # 0
      <4>1. pc[f] = "card"
        BY DEF TakeCard
      <4>2. QED
        BY <2>2, <3>4, <4>1 DEF FlowInv, FlowType, Goto, Flows
    <3>5. QED
      BY <2>2, <3>2, <3>3, <3>4 DEF FlowInv, OrderType
  <2>3. QED
    BY <2>1, <2>2 DEF TakeCard
<1>2. OrderType'
  BY <1>1 DEF TakeCard, OrderType
<1>3. LockType' /\ AccountInv' /\ CallInv' /\ sync' = sync
  BY SameLocks, SameAccount, SameCalls DEF TakeCard, lockVars
<1>4. QED
  BY <1>1, <1>2, <1>3

LEMMA TypeSend ==
  ASSUME TypeInv, NEW f \in Flows, Send(f)
  PROVE  TypeInv'
<1> USE DEF TypeInv
<1>1. ord[f] \in Orders
  BY DEF Send, FlowInv
<1>2. FlowInv'
  <2>1. ASSUME NEW out \in {"failed", "accepted", "rejected"}
        PROVE  [job[f] EXCEPT !.out = out] \in Jobs
    BY JobOf DEF Jobs, FlowInv
  <2>2. job' \in [Flows -> Jobs]
    BY <2>1, JobUpdate DEF Send, FlowInv
  <2>3. QED
    BY <2>2, StepUpdate DEF Holding, Send, FlowSteps, FlowInv, FlowType
<1>3. chat' \in [Orders -> SUBSET Cards]
  <2>1. card[f] \in Cards
    BY DEF Send, Holding, FlowInv
  <2>2. QED
    BY <1>1, <2>1 DEF Send, OrderType
<1>4. OrderType'
  BY <1>3 DEF Send, OrderType
<1>5. recent' \in [Insts -> SUBSET Orders]
  BY <1>1, MemoUpdate DEF Send, AccountInv, AccountType
<1>6. AccountInv'
  BY <1>5 DEF Send, AccountInv, AccountType, userVars, instVars
<1>7. LockType' /\ CallInv' /\ sync' = sync
  BY SameLocks, SameCalls DEF Send, lockVars
<1>8. QED
  BY <1>2, <1>4, <1>6, <1>7

LEMMA TypeReceipt ==
  ASSUME TypeInv, NEW f \in Flows, Receipt(f)
  PROVE  TypeInv'
<1> USE DEF TypeInv
<1>1. PICK a \in BOOLEAN, b \in BOOLEAN, d \in BOOLEAN :
        SetJob(f, [job[f] EXCEPT !.osc = a, !.sbc = b, !.seen = d])
  <2>1. job[f].osc \in BOOLEAN /\ job[f].sbc \in BOOLEAN
    BY JobOf DEF Jobs, FlowInv
  <2>2. QED
    BY <2>1 DEF Receipt
<1>2. [job[f] EXCEPT !.osc = a, !.sbc = b, !.seen = d] \in Jobs
  BY JobOf DEF Jobs, FlowInv
<1>3. job' \in [Flows -> Jobs]
  BY <1>1, <1>2, JobUpdate DEF FlowInv
<1>4. FlowInv'
  BY <1>3, StepUpdate DEF Holding, Receipt, FlowSteps, FlowInv, FlowType
<1>5. OrderType' /\ LockType' /\ AccountInv' /\ CallInv' /\ sync' = sync
  BY SameOrders, SameLocks, SameAccount, SameCalls DEF Receipt, lockVars, histVars
<1>6. QED
  BY <1>4, <1>5

LEMMA TypeConfirmAfter ==
  ASSUME TypeInv, NEW f \in Flows, ConfirmAfter(f)
  PROVE  TypeInv'
<1> USE DEF TypeInv
<1>1. PICK a \in BOOLEAN, b \in BOOLEAN, d \in BOOLEAN :
        SetJob(f, [job[f] EXCEPT !.psc = a, !.osc = b, !.flag = d])
  <2>1. job[f].osc \in BOOLEAN /\ job[f].psc \in BOOLEAN
    BY JobOf DEF Jobs, FlowInv
  <2>2. QED
    BY <2>1 DEF ConfirmAfter, LastRead
<1>2. [job[f] EXCEPT !.psc = a, !.osc = b, !.flag = d] \in Jobs
  BY JobOf DEF Jobs, FlowInv
<1>3. job' \in [Flows -> Jobs]
  BY <1>1, <1>2, JobUpdate DEF FlowInv
<1>4. FlowInv'
  BY <1>3, StepUpdate DEF Holding, ConfirmAfter, FlowSteps, FlowInv, FlowType
<1>5. OrderType'
  BY ConfirmUpdate DEF ConfirmAfter, OrderType, histVars
<1>6. LockType' /\ AccountInv' /\ CallInv' /\ sync' = sync
  BY SameLocks, SameAccount, SameCalls DEF ConfirmAfter, lockVars
<1>7. QED
  BY <1>4, <1>5, <1>6

LEMMA TypeSkipConfirmAfter ==
  ASSUME TypeInv, NEW f \in Flows, SkipConfirmAfter(f)
  PROVE  TypeInv'
<1> USE DEF TypeInv
<1>1. PICK a \in BOOLEAN, b \in BOOLEAN :
        SetJob(f, [job[f] EXCEPT !.osc = a, !.flag = b])
  <2>1. /\ job[f].osc \in BOOLEAN /\ job[f].psc \in BOOLEAN
        /\ job[f].sbc \in BOOLEAN /\ job[f].seen \in BOOLEAN
    BY JobOf DEF Jobs, FlowInv
  <2>2. LastRead(f, job[f].psc) \in BOOLEAN
    BY <2>1 DEF LastRead
  <2>3. QED
    BY <2>1, <2>2 DEF SkipConfirmAfter, LeavesReason, SendFailed
<1>2. [job[f] EXCEPT !.osc = a, !.flag = b] \in Jobs
  BY JobOf DEF Jobs, FlowInv
<1>3. job' \in [Flows -> Jobs]
  BY <1>1, <1>2, JobUpdate DEF FlowInv
<1>4. FlowInv'
  BY <1>3, StepUpdate DEF Holding, SkipConfirmAfter, FlowSteps, FlowInv, FlowType
<1>5. OrderType' /\ LockType' /\ AccountInv' /\ CallInv' /\ sync' = sync
  BY SameOrders, SameLocks, SameAccount, SameCalls DEF SkipConfirmAfter, lockVars, histVars
<1>6. QED
  BY <1>4, <1>5

LEMMA TypeWrite ==
  ASSUME TypeInv, NEW f \in Flows, Write(f)
  PROVE  TypeInv'
<1> USE DEF TypeInv
<1>1. PICK a \in BOOLEAN, how \in {"closed", "onlyCard", "ok"} :
        /\ SetRow(ord[f], Recorded(ord[f], how, card[f]))
        /\ SetJob(f, [job[f] EXCEPT !.osc = a, !.reply = how, !.content = card[f]])
  <2>1. job[f].osc \in BOOLEAN
    BY JobOf DEF Jobs, FlowInv
  <2>2. QED
    BY <2>1 DEF Write
<1>2. ord[f] \in Orders /\ card[f] \in Cards
  BY DEF Write, FlowInv, Holding
<1>3. Recorded(ord[f], how, card[f]) \in Rows
  <2>1. row[ord[f]] \in Rows
    BY <1>2 DEF OrderType
  <2>2. [row[ord[f]] EXCEPT !.cardOnly = TRUE, !.content = card[f]] \in Rows
    BY <1>2, <2>1 DEF Rows
  <2>3. [row[ord[f]] EXCEPT !.status = "shipped", !.content = card[f],
                            !.warned = FALSE] \in Rows
    BY <1>2, <2>1 DEF Rows, Statuses
  <2>4. QED
    BY <2>2, <2>3 DEF Recorded
<1>4. OrderType'
  BY <1>1, <1>3, RowUpdate DEF Write, OrderType, histVars
<1>5. [job[f] EXCEPT !.osc = a, !.reply = how, !.content = card[f]] \in Jobs
  BY <1>2, JobOf DEF Jobs, Replies, FlowInv
<1>6. job' \in [Flows -> Jobs]
  BY <1>1, <1>5, JobUpdate DEF FlowInv
<1>7. FlowInv'
  BY <1>6, StepUpdate DEF Holding, Write, FlowSteps, FlowInv, FlowType
<1>8. LockType' /\ AccountInv' /\ CallInv' /\ sync' = sync
  BY SameLocks, SameAccount, SameCalls DEF Write, lockVars
<1>9. QED
  BY <1>4, <1>7, <1>8

LEMMA TypeFlag ==
  ASSUME TypeInv, NEW f \in Flows, Flag(f)
  PROVE  TypeInv'
<1> USE DEF TypeInv
<1>1. OrderType'
  BY WarnUpdate DEF Flag, OrderType, histVars
<1>2. FlowInv'
  BY StepUpdate DEF Holding, Flag, FlowSteps, FlowInv, FlowType
<1>3. LockType' /\ AccountInv' /\ CallInv' /\ sync' = sync
  BY SameLocks, SameAccount, SameCalls DEF Flag, lockVars
<1>4. QED
  BY <1>1, <1>2, <1>3

LEMMA EndUpdate ==
  ASSUME LockType, FlowInv, NEW f \in Flows, FreeLocal(f), EndFlow(f)
  PROVE  local' \in [Insts -> [Orders -> Flows \cup {Nil}]] /\ FlowInv'
<1>1. local' \in [Insts -> [Orders -> Flows \cup {Nil}]]
  BY DEF FreeLocal, LockType
<1>2. NewJob \in Jobs
  BY DEF NewJob, Jobs, Replies
<1>3. job' \in [Flows -> Jobs]
  BY <1>2, JobUpdate DEF EndFlow, FlowInv
<1>4. 0 \in 0..MaxInst
  BY DeliveryAssumption
<1>5. FlowType'
  BY <1>3, <1>4 DEF EndFlow, FlowInv, FlowType, Goto, FlowSteps
<1>6. ASSUME NEW g \in Flows
      PROVE  /\ pc'[g] # "idle" => ord'[g] \in Orders
             /\ pc'[g] \in Holding => card'[g] \in Cards
  BY DEF EndFlow, FlowInv, FlowType, Goto, Holding
<1>7. ASSUME NEW g \in Autos, pc'[g] # "idle" PROVE lk'[g] # 0
  BY <1>7 DEF EndFlow, FlowInv, FlowType, Goto, Flows
<1>8. QED
  BY <1>1, <1>5, <1>6, <1>7 DEF FlowInv

LEMMA TypeAutoRelease ==
  ASSUME TypeInv, NEW f \in Autos, AutoRelease(f)
  PROVE  TypeInv'
<1> USE DEF TypeInv
<1>1. f \in Flows
  BY DEF Flows
<1>2. local' \in [Insts -> [Orders -> Flows \cup {Nil}]] /\ FlowInv'
  BY <1>1, EndUpdate DEF AutoRelease
<1>3. LockType'
  BY <1>2, RedisUpdate DEF AutoRelease, LockType
<1>4. OrderType' /\ AccountInv' /\ CallInv' /\ sync' = sync
  BY SameOrders, SameAccount, SameCalls DEF AutoRelease, histVars
<1>5. QED
  BY <1>2, <1>3, <1>4

LEMMA TypeHandlerRelease ==
  ASSUME TypeInv, NEW f \in Flows, HandlerRelease(f)
  PROVE  TypeInv'
<1> USE DEF TypeInv
<1>1. local' \in [Insts -> [Orders -> Flows \cup {Nil}]] /\ FlowInv'
  BY EndUpdate DEF HandlerRelease
<1>2. LockType'
  BY <1>1 DEF HandlerRelease, LockType
<1>3. job[f].reply \in Replies /\ job[f].content \in Cards \cup {Nil}
  BY JobOf DEF Jobs, FlowInv
<1>4. ASSUME NEW c \in Callers
      PROVE  [cjob[c] EXCEPT !.reply = job[f].reply, !.content = job[f].content]
               \in CallJobs
  BY <1>3 DEF CallInv, CallType, CallJobs
<1>5. CallType'
  BY <1>4 DEF HandlerRelease, CallInv, CallType, CallSteps
<1>6. ASSUME NEW c \in Callers
      PROVE  /\ cpc'[c] # "idle" => cord'[c] \in Orders
             /\ cpc'[c] \notin {"wait", "reply", "release"} => cjob'[c].tries < MaxTries
  BY DEF HandlerRelease, CallInv
<1>7. OrderType' /\ AccountInv' /\ sync' = sync
  BY SameOrders, SameAccount DEF HandlerRelease, histVars
<1>8. QED
  BY <1>1, <1>2, <1>5, <1>6, <1>7 DEF CallInv

LEMMA TypeFlowStep ==
  ASSUME TypeInv, NEW f \in Flows, FlowStep(f)
  PROVE  TypeInv'
<1>1. QED
  BY TypeAutoRedis, TypeAutoLocal, TypeHandlerLocal, TypeHandlerPre, TypePrep,
     TypeConfirmNothing, TypeConfirmRefused, TypeConfirmFirst, TypeTakeCard,
     TypeSend, TypeReceipt, TypeConfirmAfter, TypeSkipConfirmAfter, TypeWrite,
     TypeFlag, TypeAutoRelease, TypeHandlerRelease
  DEF FlowStep, AutoRedis, AutoRelease

-----------------------------------------------------------------------------
(* Steps keep the types: the callers *)

LEMMA TypeSchedScan ==
  ASSUME TypeInv, SchedScan
  PROVE  TypeInv'
<1> USE DEF TypeInv
<1>1. CallInv'
  BY DEF SchedScan, CallInv, CallType
<1>2. OrderType' /\ LockType' /\ FlowInv' /\ AccountInv' /\ sync' = sync
  BY SameOrders, SameLocks, SameFlows, SameAccount DEF SchedScan, lockVars, histVars
<1>3. QED
  BY <1>1, <1>2

LEMMA TypeSchedPick ==
  ASSUME TypeInv, SchedPick
  PROVE  TypeInv'
<1> USE DEF TypeInv
<1>1. CallInv'
  BY DEF SchedPick, CallInv, CallType, CGoto, CallSteps
<1>2. OrderType' /\ LockType' /\ FlowInv' /\ AccountInv' /\ sync' = sync
  BY SameOrders, SameLocks, SameFlows, SameAccount DEF SchedPick, lockVars, histVars
<1>3. QED
  BY <1>1, <1>2

LEMMA TypeManualStart ==
  ASSUME TypeInv, ManualStart
  PROVE  TypeInv'
<1> USE DEF TypeInv
<1>1. CallInv'
  BY DEF ManualStart, CallInv, CallType, CGoto, CallSteps
<1>2. OrderType' /\ LockType' /\ FlowInv' /\ AccountInv' /\ sync' = sync
  BY SameOrders, SameLocks, SameFlows, SameAccount DEF ManualStart, lockVars, histVars
<1>3. QED
  BY <1>1, <1>2

LEMMA TypeCallerRedis ==
  ASSUME TypeInv, NEW c \in Callers, CallerRedis(c)
  PROVE  TypeInv'
<1> USE DEF TypeInv
<1>1. LockType'
  BY RedisUpdate DEF CallerRedis, LockType
<1>2. CallInv'
  BY CallUpdate DEF CallerRedis, CallSteps
<1>3. OrderType' /\ FlowInv' /\ AccountInv' /\ sync' = sync
  BY SameOrders, SameFlows, SameAccount DEF CallerRedis, histVars
<1>4. QED
  BY <1>1, <1>2, <1>3

LEMMA TypeSchedRecheck ==
  ASSUME TypeInv, SchedRecheck
  PROVE  TypeInv'
<1> USE DEF TypeInv
<1>1. CallInv'
  BY CallUpdate DEF SchedRecheck, CallSteps
<1>2. OrderType' /\ LockType' /\ FlowInv' /\ AccountInv' /\ sync' = sync
  BY SameOrders, SameLocks, SameFlows, SameAccount DEF SchedRecheck, lockVars, histVars
<1>3. QED
  BY <1>1, <1>2

LEMMA TypeSchedCheck ==
  ASSUME TypeInv, SchedCheck
  PROVE  TypeInv'
<1> USE DEF TypeInv
<1> DEFINE o == cord["scheduler"]
<1>1. o \in Orders
  BY DEF SchedCheck, CallInv
<1>2. [row[o] EXCEPT !.status = platform[o]] \in Rows
  BY <1>1 DEF OrderType, Rows
<1>3. row' \in [Orders -> Rows]
  BY <1>2, RowUpdate, WarnUpdate DEF SchedCheck, OrderType
<1>4. OrderType'
  BY <1>3 DEF SchedCheck, OrderType, histVars
<1>5. CallInv'
  BY CallUpdate DEF SchedCheck, CallSteps
<1>6. LockType' /\ FlowInv' /\ AccountInv' /\ sync' = sync
  BY SameLocks, SameFlows, SameAccount DEF SchedCheck, lockVars
<1>7. QED
  BY <1>4, <1>5, <1>6

LEMMA TypePost ==
  ASSUME TypeInv, NEW c \in Callers, Post(c)
  PROVE  TypeInv'
<1> USE DEF TypeInv
<1>1. PICK h \in Handlers :
        /\ pc[h] = "idle" /\ Goto(h, "local")
        /\ ord' = [ord EXCEPT ![h] = cord[c]]
        /\ lk' = [lk EXCEPT ![h] = IF live THEN inst ELSE 0]
        /\ SetCall(c, [cjob[c] EXCEPT !.to = h, !.tries = @ + 1])
  BY DEF Post
<1>2. h \in Flows /\ cord[c] \in Orders /\ cjob[c] \in CallJobs
      /\ cjob[c].tries < MaxTries
  BY DEF Post, Flows, CallInv, CallType
<1>3. FlowInv'
  <2>1. (IF live THEN inst ELSE 0) \in 0..MaxInst
    BY DeliveryAssumption DEF AccountInv, AccountType, Insts
  <2>2. FlowType'
    BY <1>1, <1>2, <2>1 DEF Post, FlowInv, FlowType, Goto, FlowSteps
  <2>3. ASSUME NEW g \in Flows
        PROVE  /\ pc'[g] # "idle" => ord'[g] \in Orders
               /\ pc'[g] \in Holding => card'[g] \in Cards
    BY <1>1, <1>2 DEF Post, FlowInv, FlowType, Goto, Holding
  <2>4. ASSUME NEW g \in Autos, pc'[g] # "idle" PROVE lk'[g] # 0
    <3>1. g # h /\ g \in Flows
      BY DeliveryAssumption DEF Flows
    <3>2. QED
      BY <1>1, <2>4, <3>1 DEF FlowInv, FlowType, Goto
  <2>5. QED
    BY <2>2, <2>3, <2>4 DEF FlowInv
<1>4. CallInv'
  <2>1. [cjob[c] EXCEPT !.to = h, !.tries = @ + 1] \in CallJobs
    <3>1. cjob[c].tries + 1 \in 0..MaxTries
      BY <1>2, DeliveryAssumption DEF CallJobs
    <3>2. QED
      BY <1>2, <3>1 DEF CallJobs
  <2>2. CallType'
    BY <1>1, <2>1 DEF Post, CallInv, CallType, CGoto, CallSteps, SetCall
  <2>3. ASSUME NEW d \in Callers
        PROVE  /\ cpc'[d] # "idle" => cord'[d] \in Orders
               /\ cpc'[d] \notin {"wait", "reply", "release"}
                    => cjob'[d].tries < MaxTries
    BY <1>1, <1>2 DEF Post, CallInv, CallType, CGoto, SetCall
  <2>4. QED
    BY <2>2, <2>3 DEF CallInv
<1>5. OrderType' /\ LockType' /\ AccountInv' /\ sync' = sync
  BY SameOrders, SameLocks, SameAccount DEF Post, lockVars, histVars
<1>6. QED
  BY <1>3, <1>4, <1>5

LEMMA TypeTimeout ==
  ASSUME TypeInv, NEW c \in Callers, Timeout(c)
  PROVE  TypeInv'
<1> USE DEF TypeInv
<1>1. cord[c] \in Orders /\ cjob[c] \in CallJobs
  BY DEF Timeout, CallInv, CallType
<1>2. OrderType'
  BY WarnUpdate DEF Timeout, OrderType, histVars
<1>3. CallInv'
  <2>1. [cjob[c] EXCEPT !.to = Nil] \in CallJobs
    BY <1>1 DEF CallJobs
  <2>2. CallType'
    BY <2>1 DEF Timeout, CallInv, CallType, CGoto, CallSteps, SetCall
  <2>3. ASSUME NEW d \in Callers
        PROVE  /\ cpc'[d] # "idle" => cord'[d] \in Orders
               /\ cpc'[d] \notin {"wait", "reply", "release"}
                    => cjob'[d].tries < MaxTries
    <3>1. cjob'[d].tries = cjob[d].tries
      BY <1>1 DEF Timeout, CallInv, CallType, SetCall, CallJobs
    <3>2. QED
      BY <1>1, <3>1 DEF Timeout, CallInv, CallType, CGoto, TriesLeft
  <2>4. QED
    BY <2>2, <2>3 DEF CallInv
<1>4. LockType' /\ FlowInv' /\ AccountInv' /\ sync' = sync
  BY SameLocks, SameFlows, SameAccount DEF Timeout, lockVars
<1>5. QED
  BY <1>2, <1>3, <1>4

LEMMA TypeCallerReply ==
  ASSUME TypeInv, NEW c \in Callers, CallerReply(c)
  PROVE  TypeInv'
<1> USE DEF TypeInv
<1>1. cord[c] \in Orders /\ cjob[c].content \in Cards \cup {Nil}
  BY DEF CallerReply, CallInv, CallType, CallJobs
<1>2. RowAfterReply(c) \in Rows
  <2>1. row[cord[c]] \in Rows
    BY <1>1 DEF OrderType
  <2>2. /\ [row[cord[c]] EXCEPT !.warned = TRUE] \in Rows
        /\ [row[cord[c]] EXCEPT !.cardOnly = TRUE, !.content = cjob[c].content] \in Rows
        /\ [row[cord[c]] EXCEPT !.status = "shipped", !.content = cjob[c].content] \in Rows
    BY <1>1, <2>1 DEF Rows, Statuses
  <2>3. QED
    BY <2>1, <2>2 DEF RowAfterReply
<1>3. OrderType'
  BY <1>2, RowUpdate DEF CallerReply, OrderType, histVars
<1>4. CallInv'
  BY CallUpdate DEF CallerReply, CallSteps
<1>5. LockType' /\ FlowInv' /\ AccountInv' /\ sync' = sync
  BY SameLocks, SameFlows, SameAccount DEF CallerReply, lockVars
<1>6. QED
  BY <1>3, <1>4, <1>5

LEMMA TypeCallerRelease ==
  ASSUME TypeInv, NEW c \in Callers, CallerRelease(c)
  PROVE  TypeInv'
<1> USE DEF TypeInv
<1>1. LockType'
  BY RedisUpdate DEF CallerRelease, LockType
<1>2. NewCall \in CallJobs /\ NewCall.tries < MaxTries
  BY DeliveryAssumption DEF NewCall, CallJobs, Replies
<1>3. CallInv'
  BY <1>2 DEF CallerRelease, CallInv, CallType, CGoto, CallSteps, SetCall
<1>4. OrderType' /\ FlowInv' /\ AccountInv' /\ sync' = sync
  BY SameOrders, SameFlows, SameAccount DEF CallerRelease, histVars
<1>5. QED
  BY <1>1, <1>3, <1>4

-----------------------------------------------------------------------------
(* Steps keep the types: the rest of the world *)

LEMMA TypeLocksMemory ==
  ASSUME TypeInv, RedisExpire \/ Forget
  PROVE  TypeInv'
<1> USE DEF TypeInv
<1>1. CASE RedisExpire
  <2>1. LockType'
    BY <1>1 DEF RedisExpire, LockType
  <2>2. OrderType' /\ FlowInv' /\ CallInv' /\ AccountInv' /\ sync' = sync
    BY <1>1, SameOrders, SameFlows, SameCalls, SameAccount DEF RedisExpire, histVars
  <2>3. QED
    BY <2>1, <2>2
<1>2. CASE Forget
  <2>1. AccountInv'
    BY <1>2 DEF Forget, AccountInv, AccountType, userVars, instVars
  <2>2. OrderType' /\ LockType' /\ FlowInv' /\ CallInv' /\ sync' = sync
    BY <1>2, SameOrders, SameLocks, SameFlows, SameCalls DEF Forget, lockVars, histVars
  <2>3. QED
    BY <2>1, <2>2
<1>3. QED
  BY <1>1, <1>2

LEMMA TypeAccount ==
  ASSUME TypeInv, Stop \/ Restart \/ ChangeSetting
  PROVE  TypeInv'
<1> USE DEF TypeInv
<1>1. AccountInv'
  <2>1. CASE Stop
    BY <2>1 DEF Stop, AccountInv, AccountType, userVars, memoVars
  <2>2. CASE Restart
    BY <2>2, DeliveryAssumption DEF Restart, AccountInv, AccountType, userVars,
       memoVars, Insts
  <2>3. CASE ChangeSetting
    <3>1. ASSUME NEW m \in Modes, NEW b \in BOOLEAN, m = "onlyCard" => ~b
          PROVE  [mode |-> m, autoConfirm |-> b] \in AllSettings
      BY <3>1 DEF AllSettings
    <3>2. /\ setting.mode \in Modes /\ setting.autoConfirm \in BOOLEAN
          /\ setting.mode = "onlyCard" => ~setting.autoConfirm
      BY DEF AccountInv, AccountType, AllSettings
    <3>3. \E m \in Modes, b \in BOOLEAN :
             /\ m = "onlyCard" => ~b
             /\ setting' = [mode |-> m, autoConfirm |-> b]
      <4>1. CASE \E m \in Modes \ {setting.mode} :
                   setting' = [mode |-> m,
                               autoConfirm |-> setting.autoConfirm /\ m # "onlyCard"]
        BY <3>2, <4>1
      <4>2. CASE setting' = [mode |-> IF ~setting.autoConfirm /\ setting.mode = "onlyCard"
                                      THEN "plain" ELSE setting.mode,
                             autoConfirm |-> ~setting.autoConfirm]
        <5>1. (~setting.autoConfirm) \in BOOLEAN
          BY <3>2
        <5>2. "plain" \in Modes
          BY DEF Modes
        <5>3. QED
          BY <3>2, <4>2, <5>1, <5>2
      <4>3. QED
        BY <2>3, <4>1, <4>2 DEF ChangeSetting
    <3>4. setting' \in AllSettings
      BY <3>1, <3>3
    <3>5. toggles' \in 0..MaxToggles
      BY <2>3, DeliveryAssumption DEF ChangeSetting, AccountInv, AccountType
    <3>6. QED
      BY <2>3, <3>4, <3>5 DEF ChangeSetting, AccountInv, AccountType, instVars, memoVars
  <2>4. QED
    BY <2>1, <2>2, <2>3
<1>2. OrderType' /\ LockType' /\ FlowInv' /\ CallInv' /\ sync' = sync
  BY SameOrders, SameLocks, SameFlows, SameCalls
  DEF Stop, Restart, ChangeSetting, lockVars, histVars
<1>3. QED
  BY <1>1, <1>2

LEMMA TypePlatform ==
  ASSUME TypeInv, PlatformClose
  PROVE  TypeInv'
<1> USE DEF TypeInv
<1>1. OrderType'
  BY DEF PlatformClose, OrderType, histVars, Statuses
<1>2. LockType' /\ FlowInv' /\ CallInv' /\ AccountInv' /\ sync' = sync
  BY SameLocks, SameFlows, SameCalls, SameAccount DEF PlatformClose, lockVars
<1>3. QED
  BY <1>1, <1>2

LEMMA TypeSync ==
  ASSUME TypeInv, NEW o \in Orders, SyncFetch(o) \/ SyncLoad(o) \/ SyncUpsert(o)
  PROVE  TypeInv'
<1> USE DEF TypeInv
<1>1. platform[o] \in Statuses /\ row[o] \in Rows /\ row[o].status \in Statuses
      /\ sync[o] \in Seq(Statuses)
  BY DEF OrderType, Rows
<1>2. sync' \in [Orders -> Seq(Statuses)]
  <2>1. <<>> \in Seq(Statuses) /\ <<platform[o]>> \in Seq(Statuses)
    BY <1>1
  <2>2. Append(sync[o], row[o].status) \in Seq(Statuses)
    BY <1>1
  <2>3. \/ sync' = [sync EXCEPT ![o] = <<platform[o]>>]
        \/ sync' = [sync EXCEPT ![o] = Append(sync[o], row[o].status)]
        \/ sync' = [sync EXCEPT ![o] = <<>>]
    BY DEF SyncFetch, SyncLoad, SyncUpsert
  <2>4. QED
    BY <2>1, <2>2, <2>3
<1>3. row' \in [Orders -> Rows]
  <2>1. CASE SyncUpsert(o)
    <3>1. Len(sync[o]) = 2
      BY <2>1 DEF SyncUpsert
    <3>2. sync[o][1] \in Statuses
      <4>1. 1 \in 1..Len(sync[o])
        BY <3>1
      <4>2. QED
        BY <1>1, <4>1, ElementOfSeq
    <3>3. [row[o] EXCEPT !.status = sync[o][1]] \in Rows
      BY <1>1, <3>2 DEF Rows
    <3>4. QED
      BY <2>1, <3>3, RowUpdate DEF SyncUpsert, OrderType
  <2>2. CASE SyncFetch(o) \/ SyncLoad(o)
    BY <2>2 DEF SyncFetch, SyncLoad, OrderType
  <2>3. QED
    BY <2>1, <2>2
<1>4. OrderType'
  BY <1>3 DEF SyncFetch, SyncLoad, SyncUpsert, OrderType, histVars
<1>5. LockType' /\ FlowInv' /\ CallInv' /\ AccountInv'
  BY SameLocks, SameFlows, SameCalls, SameAccount
  DEF SyncFetch, SyncLoad, SyncUpsert, lockVars
<1>6. QED
  BY <1>2, <1>4, <1>5

-----------------------------------------------------------------------------
LEMMA TypeInit == Init => TypeInv
<1> SUFFICES ASSUME Init PROVE TypeInv
  OBVIOUS
<1> USE DeliveryAssumption
<1>1. OrderType /\ LockType
  BY DEF Init, OrderType, LockType, Rows, Statuses
<1>2. FlowInv
  <2>1. NewJob \in Jobs
    BY DEF NewJob, Jobs, Replies
  <2>2. FlowType
    BY <2>1 DEF Init, FlowType, FlowSteps
  <2>3. \A f \in Flows : pc[f] = "idle"
    BY DEF Init
  <2>4. QED
    BY <2>2, <2>3 DEF FlowInv, Flows, Holding
<1>3. CallInv
  <2>1. NewCall \in CallJobs /\ NewCall.tries < MaxTries
    BY DEF NewCall, CallJobs, Replies
  <2>2. QED
    BY <2>1 DEF Init, CallInv, CallType, CallSteps
<1>4. AccountInv
  BY DEF Init, AccountInv, AccountType, Insts
<1>5. QED
  BY <1>1, <1>2, <1>3, <1>4 DEF TypeInv, Init

LEMMA TypeStep == TypeInv /\ [Next]_vars => TypeInv'
<1> SUFFICES ASSUME TypeInv, [Next]_vars PROVE TypeInv'
  OBVIOUS
<1>1. CASE \E f \in Autos : AutoStart(f)
  BY <1>1, TypeAutoStart
<1>2. CASE \E f \in Flows : FlowStep(f)
  BY <1>2, TypeFlowStep
<1>3. CASE SchedScan \/ SchedPick \/ ManualStart
  BY <1>3, TypeSchedScan, TypeSchedPick, TypeManualStart
<1>4. CASE \E c \in Callers : CallerStep(c)
  BY <1>4, TypeCallerRedis, TypeSchedRecheck, TypeSchedCheck, TypePost,
     TypeTimeout, TypeCallerReply, TypeCallerRelease DEF CallerStep
<1>5. CASE World
  BY <1>5, TypeLocksMemory, TypeAccount, TypePlatform, TypeSync DEF World
<1>6. CASE UNCHANGED vars
  BY <1>6, SameOrders, SameLocks, SameFlows, SameCalls, SameAccount
  DEF vars, TypeInv, lockVars, histVars
<1>7. QED
  BY <1>1, <1>2, <1>3, <1>4, <1>5, <1>6 DEF Next

(* Every variable of Delivery keeps its type, whatever fails: in particular *)
(* a caller never posts more often than http_client's max_retries.          *)
THEOREM TypeCorrect == Spec => []TypeOK
<1>1. TypeInv => TypeOK
  BY DEF TypeInv, TypeOK, FlowInv, CallInv, AccountInv
<1>2. Spec => []TypeInv
  BY TypeInit, TypeStep, PTL DEF Spec
<1>3. QED
  BY <1>1, <1>2, PTL

-----------------------------------------------------------------------------
(* A step of a flow changes no other flow, and no caller but at the end *)

FlowMoves(f) ==
  /\ pc[f] # "idle" /\ pc'[f] # "idle" /\ UNCHANGED <<ord, lk>> /\ UNCHANGED callVars
  /\ \A g \in Flows : g # f => pc'[g] = pc[g] /\ job'[g] = job[g]

FlowEnds(f) ==
  /\ pc[f] = "release" /\ pc'[f] = "idle" /\ job'[f] = NewJob
  /\ \A g \in Flows : g # f => pc'[g] = pc[g] /\ ord'[g] = ord[g] /\ job'[g] = job[g]

LEMMA MoveFrame ==
  ASSUME FlowType, NEW f \in Flows, pc[f] # "idle", NEW step, Goto(f, step), step # "idle",
         UNCHANGED job \/ \E j : SetJob(f, j), UNCHANGED <<ord, lk>>, UNCHANGED callVars
  PROVE  FlowMoves(f)
BY DEF FlowType, Goto, SetJob, FlowMoves

LEMMA FlowFrame ==
  ASSUME FlowType, NEW f \in Flows, FlowStep(f)
  PROVE  \/ FlowMoves(f)
         \/ AutoRelease(f) /\ FlowEnds(f) /\ UNCHANGED callVars
         \/ HandlerRelease(f) /\ FlowEnds(f)
<1>1. CASE AutoRedis(f) \/ AutoLocal(f)
  <2>1. pc[f] # "idle" /\ UNCHANGED job /\ UNCHANGED <<ord, lk>> /\ UNCHANGED callVars
    BY <1>1, Zenon DEF AutoRedis, AutoLocal
  <2>2. Goto(f, "release") \/ Goto(f, "local") \/ Goto(f, "prep")
    BY <1>1 DEF AutoRedis, AutoLocal
  <2>3. QED
    BY <2>1, <2>2, MoveFrame
<1>2. CASE HandlerLocal(f)
  <2>1. pc[f] # "idle" /\ UNCHANGED <<ord, lk>> /\ UNCHANGED callVars
    BY <1>2, Zenon DEF HandlerLocal
  <2>2. \/ Goto(f, "release") /\ \E j : SetJob(f, j)
        \/ Goto(f, "pre") /\ UNCHANGED job
    BY <1>2 DEF HandlerLocal
  <2>3. QED
    BY <2>1, <2>2, MoveFrame
<1>3. CASE HandlerPre(f) \/ Prep(f)
  <2>1. pc[f] # "idle" /\ UNCHANGED <<ord, lk>> /\ UNCHANGED callVars
    BY <1>3, Zenon DEF HandlerPre, Prep
  <2>2. Goto(f, "release") \/ Goto(f, "prep") \/ Goto(f, "confirm")
    BY <1>3 DEF HandlerPre, Prep
  <2>3. \E j : SetJob(f, j)
    BY <1>3 DEF HandlerPre, Prep
  <2>4. QED
    BY <2>1, <2>2, <2>3, MoveFrame
<1>4. CASE ConfirmNothing(f) \/ ConfirmRefused(f) \/ TakeCard(f)
  <2>1. pc[f] # "idle" /\ UNCHANGED <<ord, lk>> /\ UNCHANGED callVars
    BY <1>4, Zenon DEF ConfirmNothing, ConfirmRefused, TakeCard
  <2>2. Goto(f, "release") \/ Goto(f, "card") \/ Goto(f, "send")
    BY <1>4 DEF ConfirmNothing, ConfirmRefused, TakeCard, EndEmpty
  <2>3. UNCHANGED job \/ \E j : SetJob(f, j)
    BY <1>4 DEF ConfirmNothing, ConfirmRefused, TakeCard, EndEmpty
  <2>4. QED
    BY <2>1, <2>2, <2>3, MoveFrame
<1>5. CASE ConfirmFirst(f)
  <2>1. pc[f] # "idle" /\ UNCHANGED <<ord, lk>> /\ UNCHANGED callVars
    BY <1>5, Zenon DEF ConfirmFirst
  <2>2. Answers(ord[f]) \subseteq {"ok", "fail", "already", "unknown"}
    BY DEF Answers
  <2>3. Goto(f, "release") \/ Goto(f, "card")
    BY <1>5, <2>2 DEF ConfirmFirst, EndEmpty
  <2>4. UNCHANGED job \/ \E j : SetJob(f, j)
    BY <1>5, <2>2 DEF ConfirmFirst, EndEmpty
  <2>5. QED
    BY <2>1, <2>3, <2>4, MoveFrame
<1>6. CASE Send(f) \/ Receipt(f) \/ ConfirmAfter(f) \/ SkipConfirmAfter(f)
  <2>1. pc[f] # "idle" /\ UNCHANGED <<ord, lk>> /\ UNCHANGED callVars
    BY <1>6, Zenon DEF Send, Receipt, ConfirmAfter, SkipConfirmAfter
  <2>2. Goto(f, "receipt") \/ Goto(f, "after") \/ Goto(f, "write")
    BY <1>6 DEF Send, Receipt, ConfirmAfter, SkipConfirmAfter
  <2>3. \E j : SetJob(f, j)
    BY <1>6 DEF Send, Receipt, ConfirmAfter, SkipConfirmAfter
  <2>4. QED
    BY <2>1, <2>2, <2>3, MoveFrame
<1>7. CASE Write(f) \/ Flag(f)
  <2>1. pc[f] # "idle" /\ UNCHANGED <<ord, lk>> /\ UNCHANGED callVars
    BY <1>7, Zenon DEF Write, Flag
  <2>2. Goto(f, "flag") \/ Goto(f, "release")
    BY <1>7 DEF Write, Flag
  <2>3. UNCHANGED job \/ \E j : SetJob(f, j)
    BY <1>7 DEF Write, Flag
  <2>4. QED
    BY <2>1, <2>2, <2>3, MoveFrame
<1>8. CASE AutoRelease(f) \/ HandlerRelease(f)
  BY <1>8 DEF AutoRelease, HandlerRelease, EndFlow, FlowEnds, FlowType, Goto, SetJob
<1>9. QED
  BY <1>1, <1>2, <1>3, <1>4, <1>5, <1>6, <1>7, <1>8 DEF FlowStep

-----------------------------------------------------------------------------
(* What each action changes of a flow's record *)

LEMMA JobSet ==
  ASSUME FlowType, NEW f \in Flows, NEW j, SetJob(f, j)
  PROVE  job'[f] = j /\ \A g \in Flows : g # f => job'[g] = job[g]
BY DEF FlowType, SetJob

LEMMA FieldsPre ==
  ASSUME FlowType, NEW f \in Flows, HandlerPre(f), pc'[f] # "release"
  PROVE  /\ \E v \in Verdicts : PreCheck(ord[f], v) /\ job'[f].closed = (v = "card_only")
         /\ job'[f].osc = job[f].osc /\ job'[f].sbc = job[f].sbc
         /\ job'[f].psc = job[f].psc /\ job'[f].reply = job[f].reply
<1>1. job[f] \in Jobs
  BY JobOf
<1>2. PICK v \in Verdicts :
        PreCheck(ord[f], v) /\ SetJob(f, [job[f] EXCEPT !.closed = (v = "card_only")])
  BY DEF HandlerPre, Goto, FlowType
<1>3. job'[f] = [job[f] EXCEPT !.closed = (v = "card_only")]
  BY <1>2, JobSet
<1>4. QED
  BY <1>1, <1>2, <1>3 DEF Jobs

LEMMA FieldsPrep ==
  ASSUME FlowType, NEW f \in Flows, Prep(f)
  PROVE  /\ job'[f].osc = (job[f].osc \/ setting.mode = "onlyCard")
         /\ job'[f].sbc = (f \in Handlers /\ ~job[f].closed /\ setting.mode = "sendFirst"
                           /\ ~job[f].osc)
         /\ job'[f].closed = job[f].closed /\ job'[f].psc = job[f].psc
         /\ job'[f].reply = job[f].reply
<1> DEFINE osc == job[f].osc \/ setting.mode = "onlyCard"
           sbc == /\ f \in Handlers /\ ~job[f].closed
                  /\ ~osc /\ setting.mode = "sendFirst"
<1>1. job[f] \in Jobs
  BY JobOf
<1>2. SetJob(f, [job[f] EXCEPT !.osc = osc, !.sbc = sbc])
  BY DEF Prep
<1>3. job'[f] = [job[f] EXCEPT !.osc = osc, !.sbc = sbc]
  BY <1>2, JobSet
<1> HIDE DEF osc, sbc
<1>4. /\ job'[f].osc = osc /\ job'[f].sbc = sbc /\ job'[f].closed = job[f].closed
      /\ job'[f].psc = job[f].psc /\ job'[f].reply = job[f].reply
  BY <1>1, <1>3 DEF Jobs
<1>5. QED
  BY <1>4 DEF osc, sbc

LEMMA FieldsConfirmed ==
  ASSUME FlowType, NEW f \in Flows, SetJob(f, [job[f] EXCEPT !.psc = TRUE])
  PROVE  /\ job'[f].psc
         /\ job'[f].osc = job[f].osc /\ job'[f].sbc = job[f].sbc
         /\ job'[f].closed = job[f].closed /\ job'[f].reply = job[f].reply
<1>1. job[f] \in Jobs
  BY JobOf
<1>2. job'[f] = [job[f] EXCEPT !.psc = TRUE]
  BY JobSet
<1>3. QED
  BY <1>1, <1>2 DEF Jobs

LEMMA FieldsSend ==
  ASSUME FlowType, NEW f \in Flows, Send(f)
  PROVE  /\ job'[f].osc = job[f].osc /\ job'[f].sbc = job[f].sbc
         /\ job'[f].closed = job[f].closed /\ job'[f].psc = job[f].psc
         /\ job'[f].reply = job[f].reply
<1>1. job[f] \in Jobs
  BY JobOf
<1>2. PICK out \in {"failed", "accepted", "rejected"} :
        SetJob(f, [job[f] EXCEPT !.out = out])
  BY DEF Send
<1>3. job'[f] = [job[f] EXCEPT !.out = out]
  BY <1>2, JobSet
<1>4. QED
  BY <1>1, <1>3 DEF Jobs

LEMMA FieldsReceipt ==
  ASSUME FlowType, NEW f \in Flows, Receipt(f)
  PROVE  /\ job'[f].osc = (job[f].osc \/ (~job[f].psc /\ setting.mode = "onlyCard"))
         /\ job'[f].sbc = (~job'[f].osc /\ IF f \in Autos
                             THEN ~job[f].closed /\ setting.mode = "sendFirst"
                             ELSE job[f].sbc)
         /\ job'[f].closed = job[f].closed /\ job'[f].psc = job[f].psc
         /\ job'[f].reply = job[f].reply
<1> DEFINE osc == job[f].osc \/ (~job[f].psc /\ setting.mode = "onlyCard")
           sbc == ~osc /\ IF f \in Autos
                          THEN ~job[f].closed /\ setting.mode = "sendFirst"
                          ELSE job[f].sbc
<1>1. job[f] \in Jobs
  BY JobOf
<1>2. PICK seen : SetJob(f, [job[f] EXCEPT !.osc = osc, !.sbc = sbc, !.seen = seen])
  BY DEF Receipt
<1>3. job'[f] = [job[f] EXCEPT !.osc = osc, !.sbc = sbc, !.seen = seen]
  BY <1>2, JobSet
<1> HIDE DEF osc, sbc
<1>4. /\ job'[f].osc = osc /\ job'[f].sbc = sbc /\ job'[f].closed = job[f].closed
      /\ job'[f].psc = job[f].psc /\ job'[f].reply = job[f].reply
  BY <1>1, <1>3 DEF Jobs
<1>5. QED
  BY <1>4 DEF osc, sbc

LEMMA FieldsAfter ==
  ASSUME FlowType, NEW f \in Flows, ConfirmAfter(f)
  PROVE  \E answer \in Answers(ord[f]) :
           /\ ConfirmOnPlatform(ord[f], answer)
           /\ job'[f].psc = (job[f].psc \/ answer \in {"ok", "already"})
           /\ job'[f].osc = LastRead(f, job'[f].psc)
           /\ job'[f].flag = (answer \notin {"ok", "already"})
           /\ job'[f].sbc = job[f].sbc /\ job'[f].closed = job[f].closed
           /\ job'[f].reply = job[f].reply
<1>1. job[f] \in Jobs
  BY JobOf
<1>2. PICK answer \in Answers(ord[f]) :
        /\ ConfirmOnPlatform(ord[f], answer)
        /\ SetJob(f, [job[f] EXCEPT
             !.psc = job[f].psc \/ answer \in {"ok", "already"},
             !.osc = LastRead(f, job[f].psc \/ answer \in {"ok", "already"}),
             !.flag = answer \notin {"ok", "already"}])
  BY DEF ConfirmAfter
<1> DEFINE psc == job[f].psc \/ answer \in {"ok", "already"}
           osc == LastRead(f, psc)
           flag == answer \notin {"ok", "already"}
<1>3. job'[f] = [job[f] EXCEPT !.psc = psc, !.osc = osc, !.flag = flag]
  BY <1>2, JobSet
<1> HIDE DEF psc, osc, flag
<1>4. /\ job'[f].psc = psc /\ job'[f].osc = osc /\ job'[f].flag = flag
      /\ job'[f].sbc = job[f].sbc /\ job'[f].closed = job[f].closed
      /\ job'[f].reply = job[f].reply
  BY <1>1, <1>3 DEF Jobs
<1>5. osc = LastRead(f, job'[f].psc)
  BY <1>4 DEF osc
<1>6. QED
  BY <1>2, <1>4, <1>5 DEF psc, flag

LEMMA FieldsSkip ==
  ASSUME FlowType, NEW f \in Flows, SkipConfirmAfter(f)
  PROVE  /\ job'[f].osc = LastRead(f, job[f].psc)
         /\ job'[f].flag = LeavesReason(f, LastRead(f, job[f].psc))
         /\ job'[f].psc = job[f].psc
         /\ job'[f].sbc = job[f].sbc /\ job'[f].closed = job[f].closed
         /\ job'[f].reply = job[f].reply
<1> DEFINE osc == LastRead(f, job[f].psc)
           flag == LeavesReason(f, osc)
<1>1. job[f] \in Jobs
  BY JobOf
<1>2. SetJob(f, [job[f] EXCEPT !.osc = osc, !.flag = flag])
  BY DEF SkipConfirmAfter
<1>3. job'[f] = [job[f] EXCEPT !.osc = osc, !.flag = flag]
  BY <1>2, JobSet
<1> HIDE DEF osc, flag
<1>4. /\ job'[f].osc = osc /\ job'[f].flag = flag /\ job'[f].psc = job[f].psc
      /\ job'[f].sbc = job[f].sbc /\ job'[f].closed = job[f].closed
      /\ job'[f].reply = job[f].reply
  BY <1>1, <1>3 DEF Jobs
<1>5. QED
  BY <1>4 DEF osc, flag

LEMMA FieldsAnswer ==
  ASSUME FlowType, NEW f \in Flows, NEW reply, NEW content,
         SetJob(f, [job[f] EXCEPT !.reply = reply])
         \/ SetJob(f, [job[f] EXCEPT !.reply = reply, !.content = content])
  PROVE  /\ job'[f].reply = reply
         /\ job'[f].osc = job[f].osc /\ job'[f].sbc = job[f].sbc
         /\ job'[f].psc = job[f].psc /\ job'[f].closed = job[f].closed
<1>1. job[f] \in Jobs
  BY JobOf
<1>2. \/ job'[f] = [job[f] EXCEPT !.reply = reply]
      \/ job'[f] = [job[f] EXCEPT !.reply = reply, !.content = content]
  BY JobSet
<1>3. QED
  BY <1>1, <1>2 DEF Jobs

LEMMA FieldsAlready ==
  ASSUME FlowType, NEW f \in Flows,
         SetJob(f, [job[f] EXCEPT !.psc = TRUE, !.already = TRUE, !.reply = "already"])
  PROVE  /\ job'[f].reply = "already" /\ job'[f].psc
         /\ job'[f].osc = job[f].osc /\ job'[f].sbc = job[f].sbc
         /\ job'[f].closed = job[f].closed
<1>1. job[f] \in Jobs
  BY JobOf
<1>2. job'[f] = [job[f] EXCEPT !.psc = TRUE, !.already = TRUE, !.reply = "already"]
  BY JobSet
<1>3. QED
  BY <1>1, <1>2 DEF Jobs

LEMMA FieldsWrite ==
  ASSUME FlowType, NEW f \in Flows, Write(f)
  PROVE  LET osc == \/ job[f].osc
                    \/ f \in Handlers /\ ~job[f].psc /\ setting.mode = "onlyCard"
         IN /\ job'[f].reply = CASE job[f].closed -> "closed"
                                 [] ~job[f].closed /\ osc /\ ~job[f].psc -> "onlyCard"
                                 [] OTHER -> "ok"
            /\ SetRow(ord[f], Recorded(ord[f], job'[f].reply, card[f]))
            /\ job'[f].osc = osc /\ job'[f].sbc = job[f].sbc
            /\ job'[f].psc = job[f].psc /\ job'[f].closed = job[f].closed
<1> DEFINE osc == job[f].osc \/ (f \in Handlers /\ ~job[f].psc /\ setting.mode = "onlyCard")
           how == CASE job[f].closed -> "closed"
                    [] ~job[f].closed /\ osc /\ ~job[f].psc -> "onlyCard"
                    [] OTHER -> "ok"
<1>1. job[f] \in Jobs
  BY JobOf
<1>2. /\ SetJob(f, [job[f] EXCEPT !.osc = osc, !.reply = how, !.content = card[f]])
      /\ SetRow(ord[f], Recorded(ord[f], how, card[f]))
  BY DEF Write
<1>3. job'[f] = [job[f] EXCEPT !.osc = osc, !.reply = how, !.content = card[f]]
  BY <1>2, JobSet
<1> HIDE DEF osc, how
<1>4. /\ job'[f].reply = how /\ job'[f].osc = osc /\ job'[f].sbc = job[f].sbc
      /\ job'[f].psc = job[f].psc /\ job'[f].closed = job[f].closed
  BY <1>1, <1>3 DEF Jobs
<1>5. SetRow(ord[f], Recorded(ord[f], job'[f].reply, card[f]))
  BY <1>2, <1>4
<1>6. QED
  BY <1>4, <1>5 DEF osc, how

-----------------------------------------------------------------------------
(* A flow that moves has an answer from where it ends on, and not before. *)
LEMMA FlowAnswers ==
  ASSUME FlowType, NEW f \in Flows, FlowStep(f), ~Answered(f)',
         job[f].reply = "none"
  PROVE  job'[f].reply = "none"
<1>2. ASSUME NEW step, Goto(f, step) PROVE step \notin {"flag", "release"}
  BY <1>2 DEF Answered, Goto, FlowType
<1>3. CASE UNCHANGED job
  BY <1>3
<1>4. CASE HandlerPre(f) \/ Prep(f) \/ Send(f)
  <2>1. CASE HandlerPre(f)
    <3>1. pc'[f] # "release"
      BY DEF Answered
    <3>2. QED
      BY <2>1, <3>1, FieldsPre
  <2>2. QED
    BY <1>4, <2>1, FieldsPrep, FieldsSend
<1>5. CASE Receipt(f) \/ ConfirmAfter(f) \/ SkipConfirmAfter(f)
  BY <1>5, FieldsReceipt, FieldsAfter, FieldsSkip
<1>6. CASE ConfirmFirst(f)
  <2>1. Answers(ord[f]) \subseteq {"ok", "fail", "already", "unknown"}
    BY DEF Answers
  <2>2. UNCHANGED job \/ SetJob(f, [job[f] EXCEPT !.psc = TRUE])
    BY <1>2, <1>6, <2>1 DEF ConfirmFirst, EndEmpty
  <2>3. QED
    BY <2>2, FieldsConfirmed
<1>7. CASE AutoRelease(f) \/ HandlerRelease(f)
  <2>1. job'[f] = NewJob
    BY <1>7, JobSet DEF AutoRelease, HandlerRelease, EndFlow
  <2>2. QED
    BY <2>1 DEF NewJob
<1>8. CASE HandlerLocal(f)
  BY <1>2, <1>3, <1>8 DEF HandlerLocal
<1>9. CASE ConfirmRefused(f) \/ TakeCard(f) \/ Write(f)
  BY <1>2, <1>3, <1>9 DEF ConfirmRefused, TakeCard, Write, EndEmpty
<1>10. CASE AutoRedis(f) \/ AutoLocal(f) \/ ConfirmNothing(f) \/ Flag(f)
  BY <1>3, <1>10 DEF AutoRedis, AutoLocal, ConfirmNothing, Flag
<1>11. QED
  BY <1>4, <1>5, <1>6, <1>7, <1>8, <1>9, <1>10 DEF FlowStep

-----------------------------------------------------------------------------
(* Callers and their requests *)

LEMMA LinkSame ==
  ASSUME LinkInv,
         \A f \in Flows : UNCHANGED <<pc[f], job[f]>>
            \/ /\ pc'[f] = "idle" => job'[f] = NewJob
               /\ ~Answered(f)' => job'[f].reply = "none",
         \A c \in Callers : cpc'[c] = "wait" =>
            cpc[c] = "wait" /\ cjob'[c].to = cjob[c].to /\ cord'[c] = cord[c]
            /\ pc'[cjob[c].to] # "idle" /\ ord'[cjob[c].to] = ord[cjob[c].to]
  PROVE  LinkInv'
BY DEF LinkInv, Answered

LEMMA LinkFlowStep ==
  ASSUME TypeInv, LinkInv, NEW f \in Flows, FlowStep(f)
  PROVE  LinkInv'
<1>1. FlowType
  BY DEF TypeInv, FlowInv
<1>2. \A c \in Callers : cpc[c] = "wait" =>
        cjob[c].to \in Flows /\ cjob[c].to \in Handlers /\ pc[cjob[c].to] # "idle"
  BY DEF LinkInv, Flows
<1>3. ~Answered(f)' => job'[f].reply = "none"
  <2>1. CASE Answered(f)
    <3>1. CASE Flag(f)
      BY <1>1, <3>1 DEF Flag, Goto, FlowType, Answered
    <3>2. CASE AutoRelease(f) \/ HandlerRelease(f)
      <4>1. job'[f] = NewJob
        BY <1>1, <3>2, JobSet DEF AutoRelease, HandlerRelease, EndFlow
      <4>2. QED
        BY <4>1 DEF NewJob
    <3>3. QED
      BY <2>1, <3>1, <3>2
      DEF FlowStep, Answered, AutoRedis, AutoLocal, HandlerLocal, HandlerPre, Prep,
          ConfirmNothing, ConfirmRefused, ConfirmFirst, TakeCard, Send, Receipt,
          ConfirmAfter, SkipConfirmAfter, Write
  <2>2. CASE ~Answered(f)
    BY <1>1, <2>2, FlowAnswers DEF LinkInv
  <2>3. QED
    BY <2>1, <2>2
<1>4. CASE FlowMoves(f)
  BY <1>2, <1>3, <1>4, LinkSame DEF FlowMoves, callVars
<1>5. CASE FlowEnds(f) /\ UNCHANGED callVars /\ AutoRelease(f)
  <2>1. f \notin Handlers
    BY <1>5, DeliveryAssumption DEF AutoRelease
  <2>2. QED
    BY <1>2, <1>3, <1>5, <2>1, LinkSame DEF FlowEnds, callVars
<1>6. CASE FlowEnds(f) /\ HandlerRelease(f)
  <2>1. ASSUME NEW c \in Callers, cpc'[c] = "wait"
        PROVE  cpc[c] = "wait" /\ cjob'[c].to = cjob[c].to /\ cord'[c] = cord[c]
               /\ cjob[c].to # f
    BY <1>6, <2>1 DEF HandlerRelease
  <2>2. QED
    BY <1>2, <1>3, <1>6, <2>1, LinkSame DEF FlowEnds
<1>7. QED
  BY <1>1, <1>4, <1>5, <1>6, FlowFrame

LEMMA LinkStep ==
  ASSUME TypeInv, LinkInv, [Next]_vars
  PROVE  LinkInv'
<1>1. FlowType /\ CallType
  BY DEF TypeInv, FlowInv, CallInv
<1>2. \A c \in Callers : cpc[c] = "wait" =>
        cjob[c].to \in Flows /\ cjob[c].to \in Handlers /\ pc[cjob[c].to] # "idle"
  BY DEF LinkInv, Flows
<1>3. CASE \E f \in Autos : AutoStart(f)
  <2>1. PICK f \in Autos : AutoStart(f)
    BY <1>3
  <2>2. f \in Flows /\ pc[f] = "idle" /\ UNCHANGED callVars
    BY <2>1 DEF AutoStart, Flows
  <2>3. CASE UNCHANGED flowVars
    BY <1>2, <2>2, <2>3, LinkSame DEF flowVars, callVars
  <2>4. ASSUME NEW o, NEW a, NEW b, Goto(f, "redis"), ord' = [ord EXCEPT ![f] = o],
               SetJob(f, [job[f] EXCEPT !.closed = a, !.osc = b])
        PROVE  LinkInv'
    <3>1. \A g \in Flows : g # f => pc'[g] = pc[g] /\ ord'[g] = ord[g] /\ job'[g] = job[g]
      BY <1>1, <2>4 DEF FlowType, Goto, SetJob
    <3>2. pc'[f] = "redis" /\ job'[f].reply = "none"
      <4>1. job[f] \in Jobs /\ job[f].reply = "none"
        BY <1>1, <2>2, JobOf DEF LinkInv, Answered
      <4>2. QED
        <5>1. job'[f] = [job[f] EXCEPT !.closed = a, !.osc = b]
          BY <1>1, <2>2, <2>4, JobSet
        <5>2. job'[f].reply = "none"
          BY <4>1, <5>1 DEF Jobs
        <5>3. QED
          BY <1>1, <2>2, <2>4, <5>2 DEF FlowType, Goto
    <3>3. QED
      BY <1>2, <2>2, <3>1, <3>2, LinkSame DEF callVars
  <2>5. QED
    BY <2>1, <2>3, <2>4 DEF AutoStart
<1>4. CASE \E f \in Flows : FlowStep(f)
  BY <1>4, LinkFlowStep
<1>5. CASE SchedScan \/ SchedPick \/ ManualStart
  <2>1. UNCHANGED <<pc, ord, job, cjob>>
    BY <1>5, Zenon DEF SchedScan, SchedPick, ManualStart, flowVars
  <2>2. \A c \in Callers : cpc'[c] = "wait" => cpc[c] = "wait" /\ cord'[c] = cord[c]
    BY <1>1, <1>5 DEF SchedScan, SchedPick, ManualStart, CGoto, CallType
  <2>3. QED
    BY <1>2, <2>1, <2>2, LinkSame
<1>6. CASE \E c \in Callers : Post(c)
  <2>1. PICK c \in Callers, h \in Handlers :
          /\ pc[h] = "idle" /\ Goto(h, "local")
          /\ ord' = [ord EXCEPT ![h] = cord[c]]
          /\ SetCall(c, [cjob[c] EXCEPT !.to = h, !.tries = @ + 1])
          /\ CGoto(c, "wait") /\ UNCHANGED <<job, cord>>
    BY <1>6 DEF Post
  <2>2. h \in Flows /\ pc'[h] = "local" /\ ord'[h] = cord[c]
        /\ \A g \in Flows : g # h => pc'[g] = pc[g] /\ ord'[g] = ord[g]
    BY <1>1, <2>1 DEF FlowType, Goto, Flows
  <2>3. cjob'[c].to = h /\ \A d \in Callers : d # c => cjob'[d] = cjob[d] /\ cpc'[d] = cpc[d]
    <3>1. [cjob[c] EXCEPT !.to = h, !.tries = @ + 1].to = h
      BY <1>1 DEF CallType, CallJobs
    <3>2. QED
      BY <1>1, <2>1, <3>1 DEF SetCall, CGoto, CallType
  <2>4. ASSUME NEW f \in Flows
        PROVE  /\ pc'[f] = "idle" => job'[f] = NewJob
               /\ ~Answered(f)' => job'[f].reply = "none"
    BY <2>1, <2>2 DEF LinkInv, Answered
  <2>5. ASSUME NEW d \in Callers, cpc'[d] = "wait"
        PROVE  /\ cjob'[d].to \in Handlers /\ pc'[cjob'[d].to] # "idle"
               /\ ord'[cjob'[d].to] = cord'[d]
    <3>1. CASE d = c
      BY <2>1, <2>2, <2>3, <3>1
    <3>2. CASE d # c
      BY <1>2, <2>1, <2>2, <2>3, <2>5, <3>2 DEF LinkInv
    <3>3. QED
      BY <3>1, <3>2
  <2>6. QED
    BY <2>4, <2>5 DEF LinkInv
<1>7. CASE \E c \in Callers : CallerStep(c) /\ ~Post(c)
  <2>1. PICK c \in Callers : CallerStep(c) /\ ~Post(c)
    BY <1>7
  <2>2. UNCHANGED <<pc, ord, job>>
    BY <2>1, Zenon DEF CallerStep, CallerRedis, SchedRecheck, SchedCheck, Timeout,
       CallerReply, CallerRelease, flowVars
  <2>3. cpc'[c] # "wait" /\ \A d \in Callers : d # c => cpc'[d] = cpc[d]
    BY <1>1, <2>1 DEF CallerStep, CallerRedis, SchedRecheck, SchedCheck, Timeout,
       CallerReply, CallerRelease, CGoto, CallType
  <2>4. \A d \in Callers : d # c => cjob'[d] = cjob[d] /\ cord'[d] = cord[d]
    BY <1>1, <2>1 DEF CallerStep, CallerRedis, SchedRecheck, SchedCheck, Timeout,
       CallerReply, CallerRelease, SetCall, CallType
  <2>5. QED
    BY <1>2, <2>2, <2>3, <2>4, LinkSame
<1>8. CASE World \/ UNCHANGED vars
  <2>1. UNCHANGED <<pc, ord, job, cpc, cjob, cord>>
    BY <1>8, Zenon DEF World, RedisExpire, Forget, Stop, Restart, ChangeSetting,
       PlatformClose, SyncFetch, SyncLoad, SyncUpsert, vars, flowVars, callVars
  <2>2. QED
    BY <1>2, <2>1, LinkSame
<1>9. QED
  BY <1>3, <1>4, <1>5, <1>6, <1>7, <1>8 DEF Next

LEMMA LinkInit == Init => LinkInv
BY DEF Init, LinkInv, NewJob

-----------------------------------------------------------------------------
(* What the platform was told is not taken back, nor is a reason *)

PlatformGrows ==
  \A o \in Orders : platform[o] # "pending" => platform'[o] # "pending"

LEMMA PlatformStep ==
  ASSUME TypeInv, [Next]_vars PROVE PlatformGrows
<1> SUFFICES ASSUME NEW o \in Orders, platform[o] # "pending"
             PROVE  platform'[o] # "pending"
  BY DEF PlatformGrows
<1>1. ASSUME NEW p, NEW v, PreCheck(p, v)
      PROVE  platform'[o] # "pending"
  BY <1>1 DEF PreCheck, TypeInv, OrderType
<1>2. ASSUME NEW p, NEW answer, ConfirmOnPlatform(p, answer)
      PROVE  platform'[o] # "pending"
  BY <1>2 DEF ConfirmOnPlatform, TypeInv, OrderType
<1>3. CASE \E f \in Flows : FlowStep(f)
  <2>1. PICK f \in Flows : FlowStep(f)
    BY <1>3
  <2>2. CASE HandlerPre(f)
    BY <1>1, <2>2 DEF HandlerPre
  <2>3. CASE ConfirmFirst(f) \/ ConfirmAfter(f)
    BY <1>2, <2>3 DEF ConfirmFirst, ConfirmAfter
  <2>4. CASE ~HandlerPre(f) /\ ~ConfirmFirst(f) /\ ~ConfirmAfter(f)
    BY <2>1, <2>4 DEF FlowStep, AutoRedis, AutoLocal, HandlerLocal, Prep,
       ConfirmNothing, ConfirmRefused, TakeCard, Send, Receipt, SkipConfirmAfter,
       Write, Flag, AutoRelease, HandlerRelease
  <2>5. QED
    BY <2>2, <2>3, <2>4
<1>4. CASE \E f \in Autos : AutoStart(f)
  BY <1>1, <1>4 DEF AutoStart
<1>5. CASE PlatformClose
  BY <1>5 DEF PlatformClose, TypeInv, OrderType
<1>6. CASE \/ SchedScan \/ SchedPick \/ ManualStart
           \/ \E c \in Callers : CallerStep(c)
           \/ World /\ ~PlatformClose
           \/ UNCHANGED vars
  BY <1>6 DEF SchedScan, SchedPick, ManualStart, CallerStep, CallerRedis,
     SchedRecheck, SchedCheck, Post, Timeout, CallerReply, CallerRelease, vars,
     World, RedisExpire, Forget, Stop, Restart, ChangeSetting, SyncFetch, SyncLoad,
     SyncUpsert
<1>7. QED
  BY <1>3, <1>4, <1>5, <1>6 DEF Next

(* A step that clears no reason, and shows as shipped only what is settled. *)
Calm ==
  \A o \in Orders :
    /\ row[o].warned => row'[o].warned
    /\ row'[o].status = "shipped" => row[o].status = "shipped" \/ Settled(o)

LEMMA CalmSame ==
  ASSUME UNCHANGED row PROVE Calm
BY DEF Calm

LEMMA CalmWarn ==
  ASSUME OrderType, NEW o, Warn(o)
  PROVE  Calm /\ (o \in Orders => row'[o].warned)
BY DEF Calm, Warn, SetRow, OrderType, Rows

LEMMA CalmEmpty ==
  ASSUME OrderType, NEW f, WarnEmpty(f) PROVE Calm
BY CalmSame, CalmWarn DEF WarnEmpty

LEMMA CalmPreCheck ==
  ASSUME OrderType, NEW o, NEW v, PreCheck(o, v) PROVE Calm
BY CalmSame, CalmWarn DEF PreCheck

LEMMA CalmStatus ==
  ASSUME OrderType, NEW o \in Orders, NEW s, SetRow(o, [row[o] EXCEPT !.status = s]),
         s = "shipped" => Settled(o)
  PROVE  Calm
BY DEF Calm, SetRow, OrderType, Rows

LEMMA CalmReply ==
  ASSUME SettledInv, NEW c \in Callers, CallerReply(c)
  PROVE  Calm
<1>1. cord[c] \in Orders /\ OrderType
  BY DEF CallerReply, SettledInv, TypeInv, CallInv
<1>2. row[cord[c]] \in Rows
  BY <1>1 DEF OrderType
<1>3. LET r == row[cord[c]]
          a == cjob[c].content
      IN \/ row'[cord[c]] \in {r, [r EXCEPT !.warned = TRUE],
                               [r EXCEPT !.cardOnly = TRUE, !.content = a]}
         \/ /\ cjob[c].reply \in {"ok", "already"}
            /\ row'[cord[c]] = [r EXCEPT !.status = "shipped", !.content = a]
  BY <1>1 DEF CallerReply, SetRow, RowAfterReply, OrderType
<1>4. cjob[c].reply \in {"ok", "already"} => Settled(cord[c])
  BY DEF CallerReply, SettledInv
<1>5. \A p \in Orders : p # cord[c] => row'[p] = row[p]
  BY <1>1 DEF CallerReply, SetRow, OrderType
<1>6. /\ row[cord[c]].warned => row'[cord[c]].warned
      /\ row'[cord[c]].status = "shipped" => row[cord[c]].status = "shipped" \/ Settled(cord[c])
  BY <1>2, <1>3, <1>4 DEF Rows
<1>7. QED
  BY <1>5, <1>6 DEF Calm

(* What is settled stays so, and what is shown as shipped is settled.       *)
SettleKept ==
  \A o \in Orders : /\ Settled(o) => Settled(o)'
                    /\ row'[o].status = "shipped" => Settled(o)'

LEMMA SettleCalm ==
  ASSUME SettledInv, Calm, PlatformGrows,
         \A g \in Flows : pc[g] = "flag" =>
            \/ pc'[g] = "flag" /\ ord'[g] = ord[g]
            \/ row'[ord[g]].warned
  PROVE  SettleKept
BY DEF SettledInv, Calm, PlatformGrows, Settled, SettleKept

(* With "send first" nothing is confirmed before it is sent.                *)
LEMMA SendsFirst ==
  ASSUME SettledInv, NEW f \in Flows PROVE ~ConfirmFirst(f) /\ ~ConfirmRefused(f)
BY DEF SettledInv, SendFirstOnly, FlowSettles, ConfirmFirst, ConfirmRefused, SendFirst,
       Skip, Flows

LEMMA SettleWrite ==
  ASSUME SettledInv, NEW f \in Flows, Write(f), PlatformGrows
  PROVE  /\ SettleKept
         /\ job'[f].reply \in {"ok", "already"} => Settled(ord[f])'
<1>1. TypeInv /\ FlowType /\ OrderType /\ FlowSettles(f) /\ pc[f] = "write"
  BY DEF SettledInv, TypeInv, FlowInv, Write
<1>2. PICK o \in Orders : o = ord[f] /\ row[o] \in Rows
  BY <1>1 DEF TypeInv, FlowInv, OrderType
<1>3. ord' = ord /\ \A g \in Flows : g # f => pc'[g] = pc[g]
  BY <1>1 DEF Write, Goto, FlowType
<1>4. SetRow(o, Recorded(o, job'[f].reply, card[f]))
  BY <1>1, <1>2, FieldsWrite
<1>5. \A p \in Orders : p # o => row'[p] = row[p]
  BY <1>1, <1>4 DEF SetRow, OrderType
<1>6. ASSUME NEW p \in Orders, p # o
      PROVE  /\ Settled(p) => Settled(p)'
             /\ row'[p].status = "shipped" => Settled(p)'
  <2>1. \A g \in Flows : pc[g] = "flag" /\ ord[g] = p => pc'[g] = "flag"
    BY <1>1, <1>3, <1>6
  <2>2. Settled(p) => Settled(p)'
    BY <1>3, <1>5, <1>6, <2>1 DEF Settled, PlatformGrows
  <2>3. QED
    BY <1>5, <1>6, <2>2 DEF SettledInv
<1>7. CASE job'[f].reply \in {"closed", "onlyCard"}
  <2>1. row'[o] = [row[o] EXCEPT !.cardOnly = TRUE, !.content = card[f]]
    BY <1>1, <1>2, <1>4, <1>7 DEF Recorded, SetRow, OrderType
  <2>2. row'[o].warned = row[o].warned /\ row'[o].status = row[o].status
    BY <1>2, <2>1 DEF Rows
  <2>3. \A g \in Flows : pc[g] = "flag" => pc'[g] = "flag"
    BY <1>1, <1>3
  <2>4. Settled(o) => Settled(o)'
    BY <1>2, <1>3, <2>2, <2>3 DEF Settled, PlatformGrows
  <2>5. row[o].status = "shipped" => Settled(o)
    BY <1>2 DEF SettledInv
  <2>6. row'[o].status = "shipped" => Settled(o)'
    BY <2>2, <2>4, <2>5
  <2>7. \A p \in Orders : /\ Settled(p) => Settled(p)'
                          /\ row'[p].status = "shipped" => Settled(p)'
    <3>1. ASSUME NEW p \in Orders, p = o
          PROVE  /\ Settled(p) => Settled(p)'
                 /\ row'[p].status = "shipped" => Settled(p)'
      BY <2>4, <2>6, <3>1
    <3>2. QED
      BY <1>6, <3>1
  <2>8. QED
    BY <1>7, <2>7 DEF SettleKept
<1>8. CASE job'[f].reply = "ok"
  <2>1. ~job[f].closed
    BY <1>1, <1>8, FieldsWrite
  <2>2. job[f].psc \/ job[f].flag
    BY <1>1, <2>1 DEF FlowSettles
  <2>3. ASSUME job[f].psc PROVE Settled(o)'
    BY <1>1, <1>2, <1>3, <2>3 DEF FlowSettles, Settled, PlatformGrows
  <2>4. ASSUME job[f].flag PROVE Settled(o)'
    <3>1. pc'[f] = "flag"
      BY <1>1, <2>4 DEF Write, Goto, FlowType
    <3>2. QED
      BY <1>2, <1>3, <3>1 DEF Settled
  <2>5. Settled(o)'
    BY <2>2, <2>3, <2>4
  <2>6. Settled(ord[f])'
    BY <1>2, <1>3, <2>5 DEF Settled
  <2>7. \A p \in Orders : /\ Settled(p) => Settled(p)'
                          /\ row'[p].status = "shipped" => Settled(p)'
    <3>1. ASSUME NEW p \in Orders, p = o PROVE Settled(p)'
      BY <2>5, <3>1
    <3>2. QED
      BY <1>6, <3>1
  <2>8. QED
    BY <2>6, <2>7 DEF SettleKept
<1>9. QED
  BY <1>1, <1>7, <1>8, FieldsWrite

LEMMA SettleFlowStep ==
  ASSUME SettledInv, NEW f \in Flows, FlowStep(f), PlatformGrows
  PROVE  SettleKept
<1>1. FlowType /\ OrderType
  BY DEF SettledInv, TypeInv, FlowInv
<1>2. CASE Write(f)
  BY <1>2, SettleWrite
<1>3. CASE ~Write(f)
  <2>1. Calm /\ (Flag(f) /\ ord[f] \in Orders => row'[ord[f]].warned)
    <3>1. CASE HandlerPre(f)
      <4>1. ~Flag(f)
        BY <3>1 DEF HandlerPre, Flag
      <4>2. QED
        BY <1>1, <3>1, <4>1, CalmPreCheck DEF HandlerPre
    <3>2. CASE TakeCard(f)
      <4>1. ~Flag(f)
        BY <3>2 DEF TakeCard, Flag
      <4>2. QED
        BY <1>1, <3>2, <4>1, CalmSame, CalmEmpty DEF TakeCard, EndEmpty
    <3>3. CASE Flag(f)
      BY <1>1, <3>3, CalmWarn DEF Flag
    <3>4. CASE ~HandlerPre(f) /\ ~TakeCard(f) /\ ~Flag(f)
      <4>1. UNCHANGED row
        BY <1>3, <3>4, SendsFirst DEF FlowStep, AutoRedis, AutoLocal, HandlerLocal, Prep,
           ConfirmNothing, Send, Receipt, ConfirmAfter, SkipConfirmAfter, AutoRelease,
           HandlerRelease
      <4>2. QED
        BY <3>4, <4>1, CalmSame
    <3>5. QED
      BY <3>1, <3>2, <3>3, <3>4
  <2>2. \A g \in Flows : pc[g] = "flag" =>
          \/ pc'[g] = "flag" /\ ord'[g] = ord[g]
          \/ row'[ord[g]].warned
    <3>1. pc[f] = "flag" => Flag(f) /\ ord[f] \in Orders
      BY <1>1 DEF SettledInv, TypeInv, FlowInv, FlowStep, AutoRedis, AutoLocal, HandlerLocal, HandlerPre,
         Prep, ConfirmNothing, ConfirmRefused, ConfirmFirst, TakeCard, Send, Receipt,
         ConfirmAfter, SkipConfirmAfter, Write, AutoRelease, HandlerRelease
    <3>2. \A g \in Flows : g # f => pc'[g] = pc[g] /\ ord'[g] = ord[g]
      BY <1>1, FlowFrame DEF FlowMoves, FlowEnds
    <3>3. QED
      BY <2>1, <3>1, <3>2
  <2>3. QED
    BY <2>1, <2>2, SettleCalm
<1>4. QED
  BY <1>2, <1>3

LEMMA SettleStep ==
  ASSUME SettledInv, [Next]_vars PROVE SettleKept /\ PlatformGrows
<1>1. TypeInv /\ FlowType /\ OrderType /\ PlatformGrows
  BY PlatformStep DEF SettledInv, TypeInv, FlowInv
<1>2. CASE \E f \in Flows : FlowStep(f)
  BY <1>1, <1>2, SettleFlowStep
<1>3. CASE ~\E f \in Flows : FlowStep(f)
  <2>1. Calm
    <3>1. CASE \E f \in Autos : AutoStart(f)
      BY <1>1, <3>1, CalmPreCheck DEF AutoStart
    <3>2. CASE "scheduler" \in Callers /\ SchedCheck
      <4> DEFINE o == cord["scheduler"]
      <4>1. o \in Orders
        BY <1>1, <3>2 DEF SchedCheck, TypeInv, CallInv
      <4>2. CASE Warn(o)
        BY <1>1, <4>2, CalmWarn
      <4>3. CASE platform[o] # "pending" /\ SetRow(o, [row[o] EXCEPT !.status = platform[o]])
        BY <1>1, <4>1, <4>3, CalmStatus DEF Settled
      <4>4. CASE UNCHANGED row
        BY <4>4, CalmSame
      <4>5. QED
        BY <3>2, <4>2, <4>3, <4>4 DEF SchedCheck
    <3>3. CASE \E c \in Callers : CallerReply(c)
      BY <3>3, CalmReply
    <3>4. CASE \E c \in Callers : Timeout(c)
      BY <1>1, <3>4, CalmWarn, CalmSame DEF Timeout
    <3>5. CASE \E o \in Orders : SyncUpsert(o)
      <4>1. PICK o \in Orders : SyncUpsert(o)
        BY <3>5
      <4>2. CASE UNCHANGED row
        BY <4>2, CalmSame
      <4>3. CASE SetRow(o, [row[o] EXCEPT !.status = sync[o][1]])
        <5>1. sync[o] # <<>>
          BY <4>1 DEF SyncUpsert
        <5>2. sync[o][1] = "shipped" => Settled(o)
          BY <5>1 DEF SettledInv, Settled
        <5>3. QED
          BY <1>1, <4>3, <5>2, CalmStatus
      <4>4. QED
        BY <4>1, <4>2, <4>3 DEF SyncUpsert
    <3>6. CASE \/ SchedScan \/ SchedPick \/ ManualStart
               \/ \E c \in Callers : CallerRedis(c) \/ Post(c) \/ CallerRelease(c)
               \/ SchedRecheck \/ UNCHANGED vars
               \/ RedisExpire \/ Forget \/ Stop \/ Restart \/ ChangeSetting \/ PlatformClose
               \/ \E o \in Orders : SyncFetch(o) \/ SyncLoad(o)
      <4>1. UNCHANGED row
        BY <3>6 DEF SchedScan, SchedPick, ManualStart, CallerRedis, Post, CallerRelease,
           SchedRecheck, vars, RedisExpire, Forget, Stop, Restart, ChangeSetting,
           PlatformClose, SyncFetch, SyncLoad
      <4>2. QED
        BY <4>1, CalmSame
    <3>7. QED
      BY <1>3, <3>1, <3>2, <3>3, <3>4, <3>5, <3>6, Zenon DEF Next, CallerStep, World
  <2>2. \A g \in Flows : pc[g] # "idle" => pc'[g] = pc[g] /\ ord'[g] = ord[g]
    <3>1. CASE \E f \in Autos : AutoStart(f)
      <4>1. PICK f \in Autos : AutoStart(f)
        BY <3>1
      <4>2. pc[f] = "idle" /\ (UNCHANGED flowVars \/ \E o \in Orders :
               Goto(f, "redis") /\ ord' = [ord EXCEPT ![f] = o])
        BY <4>1 DEF AutoStart
      <4>3. QED
        BY <1>1, <4>2 DEF flowVars, FlowType, Goto
    <3>2. CASE \E c \in Callers : Post(c)
      BY <1>1, <3>2 DEF Post, FlowType, Goto
    <3>3. CASE \/ SchedScan \/ SchedPick \/ ManualStart
               \/ \E c \in Callers : CallerStep(c) /\ ~Post(c)
               \/ UNCHANGED vars \/ World
      <4>1. UNCHANGED <<pc, ord>>
        BY <3>3, Zenon DEF SchedScan, SchedPick, ManualStart, CallerStep, CallerRedis,
           SchedRecheck, SchedCheck, Timeout, CallerReply, CallerRelease, vars, flowVars,
           World, RedisExpire, Forget, Stop, Restart, ChangeSetting, PlatformClose,
           SyncFetch, SyncLoad, SyncUpsert
      <4>2. QED
        BY <4>1
    <3>4. QED
      BY <1>3, <3>1, <3>2, <3>3 DEF Next
  <2>3. QED
    BY <1>1, <2>1, <2>2, SettleCalm
<1>4. QED
  BY <1>1, <1>2, <1>3

-----------------------------------------------------------------------------
(* A flow that is not for a closed order leaves its order settled *)

LEMMA FlowKeepsSettling ==
  ASSUME SettledInv, NEW f \in Flows, FlowStep(f), SettleKept, PlatformGrows, LinkInv'
  PROVE  FlowSettles(f)'
<1>1. /\ FlowType /\ SendFirstOnly /\ FlowSettles(f)
      /\ pc[f] # "idle" => ord[f] \in Orders
  BY DEF SettledInv, TypeInv, FlowInv
<1>2. setting.mode = "sendFirst" /\ setting.autoConfirm
  BY <1>1 DEF SendFirstOnly
<1>3. CASE AutoRelease(f) \/ HandlerRelease(f)
  <2>1. pc'[f] = "idle" /\ job'[f] = NewJob
    BY <1>1, <1>3, JobSet DEF AutoRelease, HandlerRelease, EndFlow, Goto, FlowType
  <2>2. QED
    BY <2>1 DEF FlowSettles, Answered, NewJob
<1>4. CASE ~AutoRelease(f) /\ ~HandlerRelease(f)
  <2>1. PICK o \in Orders : o = ord[f] /\ ord'[f] = o /\ pc[f] # "idle" /\ pc'[f] # "idle"
    BY <1>1, <1>4, FlowFrame DEF FlowMoves
  <2>2. /\ Settled(o) => Settled(o)'
        /\ platform[o] # "pending" => platform'[o] # "pending"
        /\ row'[o].status = "shipped" => Settled(o)'
    BY DEF SettleKept, PlatformGrows
  <2>3. Settled(ord[f]) <=> Settled(o)
    BY <2>1 DEF Settled
  <2>4. Settled(ord[f])' <=> Settled(o)'
    BY <2>1 DEF Settled
  <2>5. ~Answered(f)' => job'[f].reply = "none"
    BY DEF LinkInv
  <2> DEFINE Goal ==
        /\ ~job'[f].osc
        /\ job'[f].psc => platform'[o] # "pending"
        /\ f \in Handlers /\ pc'[f] \in {"confirm", "card", "send", "receipt"} /\ ~job'[f].closed
             => job'[f].sbc
        /\ pc'[f] = "after" /\ ~job'[f].closed => job'[f].sbc
        /\ pc'[f] = "write" /\ ~job'[f].closed => job'[f].psc \/ job'[f].flag
        /\ pc'[f] \in {"flag", "release"} /\ job'[f].reply \in {"ok", "already"} => Settled(o)'
  <2> SUFFICES Goal
    BY <2>1, <2>4 DEF FlowSettles, Answered
  <2>6. CASE AutoRedis(f) \/ AutoLocal(f)
    <3>1. UNCHANGED job /\ pc'[f] \in {"release", "local", "prep"} /\ ~Answered(f)
      BY <1>1, <2>6 DEF AutoRedis, AutoLocal, Goto, FlowType, Answered
    <3>2. job'[f].reply = "none"
      BY <3>1 DEF SettledInv, LinkInv
    <3>3. QED
      BY <1>1, <2>1, <2>2, <3>1, <3>2 DEF FlowSettles
  <2>7. CASE HandlerLocal(f)
    <3>1. CASE pc'[f] = "pre"
      <4>1. UNCHANGED job
        BY <1>1, <2>7, <3>1 DEF HandlerLocal, Goto, FlowType
      <4>2. QED
        BY <1>1, <2>1, <2>2, <3>1, <4>1 DEF FlowSettles
    <3>2. CASE pc'[f] # "pre"
      <4>1. PICK reply, content :
              /\ SetJob(f, [job[f] EXCEPT !.reply = reply, !.content = content])
              /\ reply \in {"ok", "already"} => row[o].status = "shipped"
              /\ pc'[f] = "release"
        <5> DEFINE Answer(reply, content) ==
              SetJob(f, [job[f] EXCEPT !.reply = reply, !.content = content])
        <5>1. \/ Goto(f, "pre")
              \/ /\ Goto(f, "release")
                 /\ \/ Answer("busy", Nil) \/ Answer("onlyCard", row[ord[f]].content)
                    \/ Answer("already", Nil) /\ row[ord[f]].status = "shipped"
                    \/ Answer("fail", Nil)
          BY <2>7 DEF HandlerLocal
        <5>2. pc'[f] = "release" /\ ~Goto(f, "pre")
          BY <1>1, <3>2, <5>1 DEF Goto, FlowType
        <5> HIDE DEF Answer
        <5>3. PICK reply, content :
                Answer(reply, content)
                /\ (reply \in {"ok", "already"} => row[o].status = "shipped")
          BY <2>1, <5>1, <5>2
        <5>4. QED
          BY <5>2, <5>3 DEF Answer
      <4>2. /\ job'[f].reply = reply /\ job'[f].osc = job[f].osc
            /\ job'[f].psc = job[f].psc
        BY <1>1, <4>1, FieldsAnswer
      <4>3. row[o].status = "shipped" => Settled(o)
        BY DEF SettledInv
      <4>4. QED
        BY <1>1, <2>1, <2>2, <4>1, <4>2, <4>3 DEF FlowSettles
    <3>3. QED
      BY <3>1, <3>2
  <2>8. CASE HandlerPre(f)
    <3>1. CASE pc'[f] = "release"
      <4>1. SetJob(f, [job[f] EXCEPT !.reply = "fail"])
        BY <1>1, <2>8, <3>1 DEF HandlerPre, Goto, FlowType
      <4>2. job'[f].reply = "fail" /\ job'[f].osc = job[f].osc /\ job'[f].psc = job[f].psc
        BY <1>1, <4>1, FieldsAnswer
      <4>3. QED
        BY <1>1, <2>1, <2>2, <3>1, <4>2 DEF FlowSettles
    <3>2. CASE pc'[f] # "release"
      <4>1. pc'[f] = "prep"
        BY <1>1, <2>8, <3>2 DEF HandlerPre, Goto, FlowType
      <4>2. job'[f].osc = job[f].osc /\ job'[f].psc = job[f].psc
        BY <1>1, <2>8, <3>2, FieldsPre
      <4>3. QED
        BY <1>1, <2>1, <2>2, <4>1, <4>2 DEF FlowSettles
    <3>3. QED
      BY <3>1, <3>2
  <2>9. CASE Prep(f)
    <3>1. pc'[f] = "confirm"
      BY <1>1, <2>9 DEF Prep, Goto, FlowType
    <3>2. QED
      BY <1>1, <1>2, <2>1, <2>2, <2>9, <3>1, FieldsPrep DEF FlowSettles
  <2>10. CASE ConfirmNothing(f)
    <3>1. pc[f] = "confirm" /\ pc'[f] = "card" /\ UNCHANGED job
      BY <1>1, <2>10 DEF ConfirmNothing, Goto, FlowType
    <3>2. QED
      BY <1>1, <2>1, <2>2, <3>1 DEF FlowSettles
  <2>11. CASE TakeCard(f)
    <3>1. CASE stock = {}
      <4>1. pc'[f] = "release" /\ SetJob(f, [job[f] EXCEPT !.reply = "fail"])
        BY <1>1, <2>11, <3>1 DEF TakeCard, EndEmpty, Goto, FlowType
      <4>2. job'[f].reply = "fail" /\ job'[f].osc = job[f].osc /\ job'[f].psc = job[f].psc
        BY <1>1, <4>1, FieldsAnswer
      <4>3. QED
        BY <1>1, <2>1, <2>2, <4>1, <4>2 DEF FlowSettles
    <3>2. CASE stock # {}
      <4>1. pc[f] = "card" /\ pc'[f] = "send" /\ UNCHANGED job
        BY <1>1, <2>11, <3>2 DEF TakeCard, Goto, FlowType
      <4>2. QED
        BY <1>1, <2>1, <2>2, <4>1 DEF FlowSettles
    <3>3. QED
      BY <3>1, <3>2
  <2>12. CASE Send(f)
    <3>1. pc[f] = "send" /\ pc'[f] = "receipt"
      BY <1>1, <2>12 DEF Send, Goto, FlowType
    <3>2. QED
      BY <1>1, <2>1, <2>2, <2>12, <3>1, FieldsSend DEF FlowSettles
  <2>13. CASE Receipt(f)
    <3>1. pc[f] = "receipt" /\ pc'[f] = "after" /\ (f \in Autos \/ f \in Handlers)
      BY <1>1, <2>13 DEF Receipt, Goto, FlowType, Flows
    <3>2. QED
      BY <1>1, <1>2, <2>1, <2>2, <2>13, <3>1, FieldsReceipt DEF FlowSettles
  <2>14. CASE ConfirmAfter(f)
    <3>1. pc'[f] = "write" /\ (pc[f] = "after" /\ UNCHANGED ord)
      BY <1>1, <2>14 DEF ConfirmAfter, Goto, FlowType
    <3>2. PICK answer \in Answers(o) :
            /\ ConfirmOnPlatform(o, answer)
            /\ job'[f].psc = (job[f].psc \/ answer \in {"ok", "already"})
            /\ job'[f].osc = LastRead(f, job'[f].psc)
            /\ job'[f].flag = (answer \notin {"ok", "already"})
      BY <1>1, <2>1, <2>14, FieldsAfter
    <3>3. answer \in {"ok", "already"} => platform'[o] # "pending"
      BY <3>2 DEF ConfirmOnPlatform, Answers, SettledInv, TypeInv, OrderType
    <3>4. ~job'[f].osc
      BY <1>1, <1>2, <3>2 DEF LastRead, FlowSettles
    <3>5. QED
      BY <1>1, <2>1, <2>2, <3>1, <3>2, <3>3, <3>4 DEF FlowSettles
  <2>15. CASE SkipConfirmAfter(f)
    <3>1. pc[f] = "after" /\ pc'[f] = "write"
      BY <1>1, <2>15 DEF SkipConfirmAfter, Goto, FlowType
    <3>2. QED
      BY <1>1, <1>2, <2>1, <2>2, <2>15, <3>1, FieldsSkip
      DEF FlowSettles, LastRead, LeavesReason
  <2>16. CASE Write(f)
    <3>1. pc'[f] \in {"flag", "release"}
      BY <1>1, <2>16 DEF Write, Goto, FlowType
    <3>2. job'[f].reply \in {"ok", "already"} => Settled(o)'
      BY <2>4, <2>16, SettleWrite
    <3>3. QED
      BY <1>1, <1>2, <2>1, <2>2, <2>16, <3>1, <3>2, FieldsWrite DEF FlowSettles
  <2>17. CASE Flag(f)
    <3>1. pc[f] = "flag" /\ pc'[f] = "release" /\ UNCHANGED job
      BY <1>1, <2>17 DEF Flag, Goto, FlowType
    <3>2. QED
      BY <1>1, <2>1, <2>2, <2>3, <3>1 DEF FlowSettles, Answered
  <2>18. QED
    BY <1>4, <2>6, <2>7, <2>8, <2>9, <2>10, <2>11, <2>12, <2>13, <2>14, <2>15, <2>16,
       <2>17, SendsFirst DEF FlowStep
<1>5. QED
  BY <1>3, <1>4

LEMMA FlowKeepsStill ==
  ASSUME SettledInv, SettleKept, PlatformGrows, NEW f \in Flows,
         UNCHANGED <<pc[f], ord[f], job[f]>>
  PROVE  FlowSettles(f)'
<1>1. FlowSettles(f) /\ (pc[f] # "idle" => ord[f] \in Orders)
  BY DEF SettledInv, TypeInv, FlowInv
<1>2. CASE pc[f] = "idle"
  BY <1>1, <1>2 DEF FlowSettles, Answered
<1>3. CASE pc[f] # "idle"
  <2>1. PICK o \in Orders : o = ord[f] /\ o = ord'[f]
    BY <1>1, <1>3
  <2>2. (Settled(ord[f]) <=> Settled(o)) /\ (Settled(ord[f])' <=> Settled(o)')
    BY <2>1 DEF Settled
  <2>3. Settled(ord[f]) => Settled(ord[f])'
    BY <2>2 DEF SettleKept
  <2>4. platform[ord[f]] # "pending" => platform'[ord'[f]] # "pending"
    BY <2>1 DEF PlatformGrows
  <2>5. QED
    BY <1>1, <2>3, <2>4 DEF FlowSettles, Answered
<1>4. QED
  BY <1>2, <1>3

-----------------------------------------------------------------------------
(* The rest of the invariant *)

LEMMA SettingStep ==
  ASSUME SendFirstKept, SendFirstOnly, [Next]_vars PROVE SendFirstOnly'
<1>1. ~ChangeSetting
  BY DEF SendFirstKept, SendFirstOnly, ChangeSetting
<1>2. UNCHANGED userVars
  <2>1. ASSUME NEW f \in Flows, FlowStep(f) PROVE UNCHANGED userVars
    BY <2>1, Zenon DEF FlowStep, AutoRedis, AutoLocal, HandlerLocal, HandlerPre, Prep,
       ConfirmNothing, ConfirmRefused, ConfirmFirst, TakeCard, Send, Receipt, ConfirmAfter,
       SkipConfirmAfter, Write, Flag, AutoRelease, HandlerRelease
  <2>2. CASE \/ SchedScan \/ SchedPick \/ ManualStart \/ \E c \in Callers : CallerStep(c)
    BY <2>2, Zenon DEF SchedScan, SchedPick, ManualStart, CallerStep, CallerRedis,
       SchedRecheck, SchedCheck, Post, Timeout, CallerReply, CallerRelease
  <2>3. CASE (\E f \in Autos : AutoStart(f)) \/ World \/ UNCHANGED vars
    BY <1>1, <2>3, Zenon DEF AutoStart, vars, World, RedisExpire, Forget, Stop, Restart,
       PlatformClose, SyncFetch, SyncLoad, SyncUpsert
  <2>4. QED
    BY <2>1, <2>2, <2>3 DEF Next
<1>3. QED
  BY <1>2 DEF SendFirstOnly, userVars

(* A fetch that saw an order as shipped saw the platform.                   *)
LEMMA SyncSettled ==
  ASSUME SettledInv, [Next]_vars, PlatformGrows,
         NEW o \in Orders, sync'[o] # <<>>, sync'[o][1] = "shipped"
  PROVE  platform'[o] # "pending"
<1>1. TypeInv /\ sync[o] \in Seq(Statuses)
  BY DEF SettledInv, TypeInv
<1>2. ASSUME sync[o] # <<>>, sync[o][1] = "shipped" PROVE platform'[o] # "pending"
  BY <1>2 DEF SettledInv, PlatformGrows
<1>3. CASE \E p \in Orders : SyncFetch(p)
  <2>1. PICK p \in Orders : SyncFetch(p)
    BY <1>3
  <2>2. CASE p = o
    <3>1. sync'[o] = <<platform[o]>> /\ UNCHANGED platform
      BY <1>1, <2>1, <2>2 DEF SyncFetch, TypeInv
    <3>2. QED
      BY <3>1
  <2>3. CASE p # o
    BY <1>1, <1>2, <2>1, <2>3 DEF SyncFetch, TypeInv
  <2>4. QED
    BY <2>2, <2>3
<1>4. CASE \E p \in Orders : SyncLoad(p)
  <2>1. PICK p \in Orders : SyncLoad(p)
    BY <1>4
  <2>2. CASE p = o
    <3>1. sync'[o] = Append(sync[o], row[o].status) /\ Len(sync[o]) = 1
      BY <1>1, <2>1, <2>2 DEF SyncLoad, TypeInv
    <3>2. sync[o] # <<>> /\ sync'[o][1] = sync[o][1]
      BY <1>1, <3>1
    <3>3. QED
      BY <1>2, <3>2
  <2>3. CASE p # o
    BY <1>1, <1>2, <2>1, <2>3 DEF SyncLoad, TypeInv
  <2>4. QED
    BY <2>2, <2>3
<1>5. CASE \E p \in Orders : SyncUpsert(p)
  <2>1. PICK p \in Orders : SyncUpsert(p)
    BY <1>5
  <2>2. p # o
    BY <1>1, <2>1 DEF SyncUpsert, TypeInv
  <2>3. QED
    BY <1>1, <1>2, <2>1, <2>2 DEF SyncUpsert, TypeInv
<1>6. CASE ~\E p \in Orders : SyncFetch(p) \/ SyncLoad(p) \/ SyncUpsert(p)
  <2>1. UNCHANGED sync
    <3>1. ASSUME NEW f \in Flows, FlowStep(f) PROVE UNCHANGED sync
      BY <3>1, Zenon DEF FlowStep, AutoRedis, AutoLocal, HandlerLocal, HandlerPre, Prep,
         ConfirmNothing, ConfirmRefused, ConfirmFirst, TakeCard, Send, Receipt, ConfirmAfter,
         SkipConfirmAfter, Write, Flag, AutoRelease, HandlerRelease
    <3>2. CASE \/ SchedScan \/ SchedPick \/ ManualStart \/ \E c \in Callers : CallerStep(c)
      BY <3>2, Zenon DEF SchedScan, SchedPick, ManualStart, CallerStep, CallerRedis,
         SchedRecheck, SchedCheck, Post, Timeout, CallerReply, CallerRelease
    <3>3. CASE (\E f \in Autos : AutoStart(f)) \/ World \/ UNCHANGED vars
      BY <1>6, <3>3, Zenon DEF AutoStart, vars, World, RedisExpire, Forget, Stop, Restart,
         ChangeSetting, PlatformClose
    <3>4. QED
      BY <3>1, <3>2, <3>3 DEF Next
  <2>2. QED
    BY <1>2, <2>1
<1>7. QED
  BY <1>3, <1>4, <1>5, <1>6

(* An answer reaches the caller that waits for it: a caller that is told    *)
(* something was told it before, or by the flow that ends with its order.   *)
LEMMA ReplyStep ==
  ASSUME TypeInv, LinkInv, [Next]_vars, NEW c \in Callers, cpc'[c] = "reply"
  PROVE  /\ cord[c] \in Orders /\ cord'[c] = cord[c]
         /\ \/ cpc[c] = "reply" /\ cjob'[c].reply = cjob[c].reply
            \/ \E f \in Flows : pc[f] = "release" /\ ord[f] = cord[c]
                                /\ job[f].reply = cjob'[c].reply
<1> DEFINE Goal ==
      /\ cord[c] \in Orders /\ cord'[c] = cord[c]
      /\ \/ cpc[c] = "reply" /\ cjob'[c].reply = cjob[c].reply
         \/ \E f \in Flows : pc[f] = "release" /\ ord[f] = cord[c]
                             /\ job[f].reply = cjob'[c].reply
<1>1. FlowType /\ CallType
  BY DEF TypeInv, FlowInv, CallInv
<1>2. ASSUME UNCHANGED <<cpc[c], cjob[c], cord[c]>> PROVE Goal
  BY <1>2 DEF TypeInv, CallInv
<1>3. CASE \E f \in Flows : FlowStep(f)
  <2>1. PICK f \in Flows : FlowStep(f)
    BY <1>3
  <2>2. CASE UNCHANGED callVars
    BY <1>2, <2>2 DEF callVars
  <2>3. CASE HandlerRelease(f)
    <3>1. CASE cpc[c] = "wait" /\ cjob[c].to = f
      <4>1. cjob'[c] = [cjob[c] EXCEPT !.reply = job[f].reply, !.content = job[f].content]
        BY <2>3, <3>1 DEF HandlerRelease
      <4>2. cjob'[c].reply = job[f].reply
        BY <1>1, <4>1 DEF CallType, CallJobs
      <4>3. pc[f] = "release" /\ ord[f] = cord[c] /\ cord' = cord
        BY <2>3, <3>1 DEF HandlerRelease, LinkInv
      <4>4. cord[c] \in Orders
        BY <3>1 DEF TypeInv, CallInv
      <4>5. QED
        BY <4>2, <4>3, <4>4
    <3>2. CASE ~(cpc[c] = "wait" /\ cjob[c].to = f)
      <4>1. UNCHANGED <<cpc[c], cjob[c], cord[c]>>
        BY <2>3, <3>2 DEF HandlerRelease
      <4>2. QED
        BY <1>2, <4>1
    <3>3. QED
      BY <3>1, <3>2
  <2>4. QED
    BY <1>1, <2>1, <2>2, <2>3, FlowFrame DEF FlowMoves
<1>4. CASE ~\E f \in Flows : FlowStep(f)
  <2>1. CASE CallerStep(c)
    <3>1. cpc'[c] # "reply"
      BY <1>1, <2>1 DEF CallerStep, CallerRedis, SchedRecheck, SchedCheck, Post, Timeout,
         CallerReply, CallerRelease, CGoto, CallType
    <3>2. QED
      BY <3>1
  <2>2. CASE SchedPick \/ ManualStart
    <3>1. \/ UNCHANGED <<cpc[c], cjob[c], cord[c]>>
          \/ cpc'[c] = "redis"
      BY <1>1, <2>2 DEF SchedPick, ManualStart, CGoto, CallType
    <3>2. QED
      BY <1>2, <3>1
  <2>3. CASE \E d \in Callers : d # c /\ CallerStep(d)
    <3>1. UNCHANGED <<cpc[c], cjob[c], cord[c]>>
      BY <1>1, <2>3 DEF CallerStep, CallerRedis, SchedRecheck, SchedCheck, Post, Timeout,
         CallerReply, CallerRelease, CGoto, SetCall, CallType
    <3>2. QED
      BY <1>2, <3>1
  <2>4. CASE SchedScan \/ (\E f \in Autos : AutoStart(f)) \/ World \/ UNCHANGED vars
    <3>1. UNCHANGED <<cpc, cjob, cord>>
      BY <2>4, Zenon DEF SchedScan, AutoStart, World, RedisExpire, Forget, Stop, Restart,
         ChangeSetting, PlatformClose, SyncFetch, SyncLoad, SyncUpsert, vars, callVars
    <3>2. QED
      BY <1>2, <3>1
  <2>5. QED
    BY <1>4, <2>1, <2>2, <2>3, <2>4 DEF Next
<1>5. QED
  BY <1>3, <1>4

LEMMA ReplySettled ==
  ASSUME SettledInv, [Next]_vars, SettleKept,
         NEW c \in Callers, cpc'[c] = "reply", cjob'[c].reply \in {"ok", "already"}
  PROVE  Settled(cord[c])'
<1>1. TypeInv /\ LinkInv
  BY DEF SettledInv
<1>2. PICK o \in Orders : o = cord[c] /\ o = cord'[c]
  BY <1>1, ReplyStep
<1>3. Settled(o)
  <2>1. CASE cpc[c] = "reply" /\ cjob'[c].reply = cjob[c].reply
    BY <1>2, <2>1 DEF SettledInv, Settled
  <2>2. CASE \E f \in Flows : pc[f] = "release" /\ ord[f] = o /\ job[f].reply = cjob'[c].reply
    BY <1>2, <2>2 DEF SettledInv, FlowSettles, Answered, Settled
  <2>3. QED
    BY <1>1, <1>2, <2>1, <2>2, ReplyStep
<1>4. Settled(o)'
  BY <1>3 DEF SettleKept
<1>5. QED
  BY <1>2, <1>4 DEF Settled

LEMMA SettledInit == SendFirstKept /\ Init => SettledInv
<1> SUFFICES ASSUME SendFirstKept, Init PROVE SettledInv
  OBVIOUS
<1>1. TypeInv /\ LinkInv
  BY TypeInit, LinkInit
<1>2. SendFirstOnly
  BY DEF SendFirstKept, Init, SendFirstOnly
<1>3. \A f \in Flows : FlowSettles(f)
  BY DEF Init, FlowSettles, NewJob, Answered
<1>4. \A o \in Orders : row[o].status = "pending" /\ sync[o] = <<>>
  BY DEF Init
<1>5. \A c \in Callers : cpc[c] = "idle"
  BY DEF Init
<1>6. QED
  BY <1>1, <1>2, <1>3, <1>4, <1>5 DEF SettledInv

LEMMA SettledStep ==
  ASSUME SendFirstKept, SettledInv, [Next]_vars PROVE SettledInv'
<1>1. TypeInv /\ LinkInv /\ TypeInv' /\ LinkInv' /\ SendFirstOnly'
  BY TypeStep, LinkStep, SettingStep DEF SettledInv
<1>2. SettleKept /\ PlatformGrows
  BY SettleStep
<1>3. ASSUME NEW f \in Flows PROVE FlowSettles(f)'
  <2>1. FlowType
    BY <1>1 DEF TypeInv, FlowInv
  <2>2. CASE UNCHANGED <<pc[f], ord[f], job[f]>>
    BY <1>2, <2>2, FlowKeepsStill
  <2>3. CASE FlowStep(f)
    BY <1>1, <1>2, <2>3, FlowKeepsSettling
  <2>4. CASE \E g \in Flows : g # f /\ FlowStep(g)
    <3>1. UNCHANGED <<pc[f], ord[f], job[f]>>
      BY <2>1, <2>4, FlowFrame DEF FlowMoves, FlowEnds
    <3>2. QED
      BY <2>2, <3>1
  <2>5. CASE \E g \in Autos : AutoStart(g)
    <3>1. PICK g \in Autos : AutoStart(g)
      BY <2>5
    <3>2. g \in Flows
      BY DEF Flows
    <3>3. \/ UNCHANGED flowVars
          \/ \E o \in Orders : \E a :
               /\ Goto(g, "redis") /\ ord' = [ord EXCEPT ![g] = o]
               /\ SetJob(g, [job[g] EXCEPT !.closed = a,
                                           !.osc = (setting.mode = "onlyCard")])
      BY <3>1, Zenon DEF AutoStart
    <3>4. CASE UNCHANGED flowVars
      BY <2>2, <3>4 DEF flowVars
    <3>5. ASSUME NEW o \in Orders, NEW a, Goto(g, "redis"), ord' = [ord EXCEPT ![g] = o],
                 SetJob(g, [job[g] EXCEPT !.closed = a,
                                          !.osc = (setting.mode = "onlyCard")])
          PROVE  FlowSettles(f)'
      <4>1. CASE f = g
        <5>1. pc[f] = "idle" /\ job[f] = NewJob /\ job[f] \in Jobs
          BY <1>1, <2>1, <3>1, <4>1, JobOf DEF AutoStart, LinkInv
        <5>2. job'[f] = [NewJob EXCEPT !.closed = a, !.osc = (setting.mode = "onlyCard")]
          BY <2>1, <3>2, <3>5, <4>1, <5>1, JobSet
        <5>3. setting.mode # "onlyCard" /\ ~NewJob.psc
          BY DEF SettledInv, SendFirstOnly, NewJob
        <5>4. ~job'[f].osc /\ ~job'[f].psc
          BY <5>1, <5>2, <5>3 DEF Jobs
        <5>5. pc'[f] = "redis"
          BY <2>1, <3>5, <4>1 DEF Goto, FlowType
        <5>6. QED
          BY <5>4, <5>5 DEF FlowSettles, Answered
      <4>2. CASE f # g
        <5>1. UNCHANGED <<pc[f], ord[f], job[f]>>
          BY <2>1, <3>2, <3>5, <4>2, JobSet DEF Goto, FlowType
        <5>2. QED
          BY <2>2, <5>1
      <4>3. QED
        BY <4>1, <4>2
    <3>6. QED
      BY <3>3, <3>4, <3>5
  <2>6. CASE \E c \in Callers : Post(c)
    <3>1. PICK c \in Callers, h \in Handlers :
            /\ pc[h] = "idle" /\ Goto(h, "local") /\ UNCHANGED job
            /\ ord' = [ord EXCEPT ![h] = cord[c]]
      BY <2>6 DEF Post
    <3>2. CASE f = h
      <4>1. pc'[f] = "local" /\ job'[f] = NewJob
        BY <1>1, <2>1, <3>1, <3>2 DEF Goto, FlowType, LinkInv
      <4>2. QED
        BY <4>1 DEF FlowSettles, Answered, NewJob
    <3>3. CASE f # h
      <4>1. UNCHANGED <<pc[f], ord[f], job[f]>>
        BY <2>1, <3>1, <3>3 DEF Goto, FlowType
      <4>2. QED
        BY <2>2, <4>1
    <3>4. QED
      BY <3>2, <3>3
  <2>7. CASE \/ SchedScan \/ SchedPick \/ ManualStart
             \/ \E c \in Callers : CallerStep(c) /\ ~Post(c)
             \/ UNCHANGED vars \/ World
    <3>1. UNCHANGED <<pc, ord, job>>
      BY <2>7, Zenon DEF SchedScan, SchedPick, ManualStart, CallerStep, CallerRedis,
         SchedRecheck, SchedCheck, Timeout, CallerReply, CallerRelease, vars, flowVars,
         World, RedisExpire, Forget, Stop, Restart, ChangeSetting, PlatformClose,
         SyncFetch, SyncLoad, SyncUpsert
    <3>2. QED
      BY <2>2, <3>1
  <2>8. QED
    BY <2>3, <2>4, <2>5, <2>6, <2>7 DEF Next
<1>4. \A o \in Orders :
        /\ row'[o].status = "shipped" => Settled(o)'
        /\ sync'[o] # <<>> /\ sync'[o][1] = "shipped" => platform'[o] # "pending"
  BY <1>2, SyncSettled DEF SettleKept
<1>5. \A c \in Callers :
        cpc'[c] = "reply" /\ cjob'[c].reply \in {"ok", "already"} => Settled(cord[c])'
  BY <1>2, ReplySettled
<1>6. QED
  BY <1>1, <1>3, <1>4, <1>5 DEF SettledInv

(* With "send first" and automatic confirmation on for good, an order shown *)
(* as shipped that the platform has as unshipped carries a reason for the   *)
(* seller: whatever answers are lost, fetches overwrite or requests time    *)
(* out.                                                                     *)
THEOREM ShippedOrExplained ==
  ASSUME SendFirstKept PROVE Spec => []FlaggedIfUnconfirmed
<1>1. SettledInv => FlaggedIfUnconfirmed
  BY DEF SettledInv, FlaggedIfUnconfirmed, Settled
<1>2. Spec => []SettledInv
  BY SettledInit, SettledStep, PTL DEF Spec
<1>3. QED
  BY <1>1, <1>2, PTL


=============================================================================
