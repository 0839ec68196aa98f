------------------------------ MODULE Delivery ------------------------------
(***************************************************************************)
(* Delivering one card per order.  Three entrances hand a card of the      *)
(* stock to the buyer of an order and record it in xy_orders:              *)
(*   - auto flows, started by a chat message of the account's connection   *)
(*     (auto_delivery_handler.py, _handle_auto_delivery);                  *)
(*   - the scheduler's redelivery task (redelivery_task.py);               *)
(*   - a seller pressing "deliver" (backend-web orders.py).                *)
(* The last two POST to the websocket service, where a handler             *)
(* (internal.py, deliver_order) does the work.  A Redis lock named by the  *)
(* order is shared by the three entrances and may fail open; a lock local  *)
(* to one XyInstance is shared by auto flows and handlers.                 *)
(*                                                                         *)
(* An action is the code between two awaits.  Modelled: own cards of type  *)
(* "data", quantity 1, not a bargain order, agree-deliver off.             *)
(***************************************************************************)
EXTENDS Naturals, Sequences

CONSTANTS
  Orders,       \* order numbers of one account
  Cards,        \* lines of the data card: each is sold once
  Autos,        \* concurrent _handle_auto_delivery tasks
  Handlers,     \* concurrent POST /orders/deliver tasks
  Callers,      \* which of "scheduler" and "manual" run
  Settings,     \* the delivery settings the account may start with
  Verdicts,     \* what pre_delivery_check_and_close may answer
  Faults,       \* what may go wrong, see FaultKinds
  MaxInst,      \* bound: instances of the account started over time
  MaxTries,     \* http_client max_retries
  MaxToggles,   \* bound: changes of the settings
  Nil

FaultKinds == {"redis",     \* Redis unreachable: the caller goes on without
               "ttl",       \* a Redis lock expires while held
               "timeout",   \* the POST times out while the handler runs on
               "restart",   \* the account's instance is replaced
               "lost",      \* the platform confirms, the answer is lost
               "close",     \* the order is closed on the platform
               "sync"}      \* an order fetch overwrites the status

Modes == {"plain", "confirmFirst", "sendFirst", "onlyCard"}
AllSettings == {s \in [mode : Modes, autoConfirm : BOOLEAN] :
                  s.mode = "onlyCard" => ~s.autoConfirm}
AllVerdicts == {"allow", "block", "card_only"}

ASSUME DeliveryAssumption ==
  /\ Callers \subseteq {"scheduler", "manual"}
  /\ Autos \cap Handlers = {} /\ Autos \cap Callers = {}
  /\ Nil \notin Orders \cup Cards \cup Autos \cup Handlers \cup Callers
  /\ Settings \subseteq AllSettings
  /\ Verdicts \subseteq AllVerdicts
  /\ Faults \subseteq FaultKinds
  /\ MaxInst \in Nat \ {0} /\ MaxTries \in Nat \ {0} /\ MaxToggles \in Nat

VARIABLES
  row,        \* xy_orders: status, card_only_delivered, content, fail reason set
  platform,   \* the order's status on the platform
  stock,      \* data_content of the card: lines not consumed yet
  setting,    \* the account's delivery switches
  toggles,    \* changes of the settings so far
  redis,      \* holder of the Redis lock of each order
  inst, live, \* current instance of the account, and whether it is registered
  local,      \* _order_locks of each instance: which flow holds it
  recent,     \* _lock_hold_info and last_delivery_time of each instance
  confirmed,  \* confirmed_orders of each instance
  pc, ord, lk, card, job,      \* flows: step, order, lock's instance, card, rest
  cpc, cord, cjob, batch,      \* callers, and the scheduler's order list
  sync,       \* an order fetch in progress for each order
  given, chat \* history: cards consumed for, and received by, each buyer

flowVars == <<pc, ord, lk, card, job>>
callVars == <<cpc, cord, cjob, batch>>
instVars == <<inst, live>>
memoVars == <<recent, confirmed>>
lockVars == <<redis, local>>
userVars == <<setting, toggles>>
histVars == <<given, chat>>
vars == <<row, platform, stock, userVars, lockVars, instVars, memoVars,
          flowVars, callVars, sync, histVars>>

Flows == Autos \cup Handlers
Insts == 1..MaxInst
Statuses == {"pending", "shipped", "closed"}
Rows == [status : Statuses, cardOnly : BOOLEAN, content : Cards \cup {Nil},
         warned : BOOLEAN]
FlowSteps == {"idle", "redis", "local", "pre", "prep", "confirm", "card", "send",
              "receipt", "after", "write", "flag", "release"}
Replies == {"none", "ok", "onlyCard", "closed", "already", "busy", "fail"}
Jobs == [closed : BOOLEAN, osc : BOOLEAN, sbc : BOOLEAN, psc : BOOLEAN,
         out : {"none", "failed", "accepted", "rejected"}, seen : BOOLEAN,
         flag : BOOLEAN, already : BOOLEAN, reply : Replies,
         content : Cards \cup {Nil}]
CallSteps == {"idle", "redis", "recheck", "check", "post", "wait", "reply", "release"}
CallJobs == [to : Handlers \cup {Nil}, tries : 0..MaxTries, reply : Replies,
             content : Cards \cup {Nil}]

NewJob == [closed |-> FALSE, osc |-> FALSE, sbc |-> FALSE, psc |-> FALSE,
           out |-> "none", seen |-> FALSE, flag |-> FALSE, already |-> FALSE,
           reply |-> "none", content |-> Nil]
NewCall == [to |-> Nil, tries |-> 0, reply |-> "none", content |-> Nil]

Init ==
  /\ row = [o \in Orders |-> [status |-> "pending", cardOnly |-> FALSE,
                              content |-> Nil, warned |-> FALSE]]
  /\ platform = [o \in Orders |-> "pending"]
  /\ stock = Cards
  /\ setting \in Settings /\ toggles = 0
  /\ redis = [o \in Orders |-> Nil]
  /\ inst = 1 /\ live = TRUE
  /\ local = [i \in Insts |-> [o \in Orders |-> Nil]]
  /\ recent = [i \in Insts |-> {}] /\ confirmed = [i \in Insts |-> {}]
  /\ pc = [f \in Flows |-> "idle"] /\ ord = [f \in Flows |-> Nil]
  /\ lk = [f \in Flows |-> 0] /\ card = [f \in Flows |-> Nil]
  /\ job = [f \in Flows |-> NewJob]
  /\ cpc = [c \in Callers |-> "idle"] /\ cord = [c \in Callers |-> Nil]
  /\ cjob = [c \in Callers |-> NewCall] /\ batch = {}
  /\ sync = [o \in Orders |-> <<>>]
  /\ given = [o \in Orders |-> {}] /\ chat = [o \in Orders |-> {}]

(* The row says that the order needs no card any more: the test every      *)
(* entrance repeats once it holds its lock.  (Mutant: the status alone.)    *)
HandledByStatus(o) == row[o].status = "shipped"
Handled(o) == row[o].status = "shipped" \/ row[o].cardOnly

Goto(f, step) == pc' = [pc EXCEPT ![f] = step]
SetJob(f, j) == job' = [job EXCEPT ![f] = j]
SetRow(o, r) == row' = [row EXCEPT ![o] = r]
Warn(o) == SetRow(o, [row[o] EXCEPT !.warned = TRUE])

-----------------------------------------------------------------------------
(* What flows share *)

(* pre_delivery_check_and_close: a rule that hits records the reason, and   *)
(* may close the order on the platform; the local status does not change.   *)
PreCheck(o, v) ==
  \/ v = "allow" /\ UNCHANGED <<row, platform>>
  \/ v = "block" /\ Warn(o) /\ UNCHANGED platform
  \/ v \in {"block", "card_only"} /\ platform[o] = "pending" /\ Warn(o)
     /\ platform' = [platform EXCEPT ![o] = "closed"]

(* What auto_confirm can come back with.  The service repeats the request   *)
(* after a network error, so that when the first answer is lost the platform *)
(* answers "already shipped" to a seller who has sent nothing yet.          *)
Answers(o) ==
  CASE platform[o] = "pending" -> {"ok", "fail"}
                 \cup (IF "lost" \in Faults THEN {"already", "unknown"} ELSE {})
    [] platform[o] = "shipped" -> {"already", "fail"}
    [] OTHER -> {"fail"}

ConfirmOnPlatform(o, answer) ==
  platform' = IF platform[o] = "pending" /\ answer # "fail"
              THEN [platform EXCEPT ![o] = "shipped"] ELSE platform

SendFirst(f) == IF f \in Autos THEN setting.mode = "sendFirst" ELSE job[f].sbc
Skip(f) == job[f].closed \/ job[f].osc

(* No card: an auto flow records the reason, unless the rule engine already *)
(* did or the row says shipped; a handler's caller records what it is told. *)
WarnEmpty(f) ==
  IF f \in Autos /\ ~job[f].closed /\ row[ord[f]].status # "shipped"
  THEN Warn(ord[f]) ELSE UNCHANGED row

EndEmpty(f, reply) ==
  /\ Goto(f, "release") /\ WarnEmpty(f)
  /\ SetJob(f, [job[f] EXCEPT !.reply = reply])

-----------------------------------------------------------------------------
(* An auto flow up to the lock of the order *)

(* A message of order o reaches the current instance: pre-check, then the   *)
(* held-lock and cool-down tests, all before any lock is taken.             *)
AutoStart(f) ==
  /\ pc[f] = "idle" /\ live
  /\ \E o \in Orders, v \in Verdicts :
       /\ PreCheck(o, v)
       /\ IF v = "block" \/ o \in recent[inst]
          THEN UNCHANGED flowVars
          ELSE /\ Goto(f, "redis")
               /\ ord' = [ord EXCEPT ![f] = o] /\ lk' = [lk EXCEPT ![f] = inst]
               /\ SetJob(f, [job[f] EXCEPT !.closed = (v = "card_only"),
                                           !.osc = (setting.mode = "onlyCard")])
               /\ UNCHANGED card
  /\ UNCHANGED <<stock, userVars, lockVars, instVars, memoVars, callVars, sync, histVars>>

(* try_acquire_delivery_lock for who, then "mine" or, when Redis fails,     *)
(* "degraded"; "refused" when another holder outlasts the 5 second wait.    *)
(* (Mutant: a wait in vain is taken for a failure of Redis.)                *)
AskRedisFailingOpen(o, who, outcome) ==
  \/ outcome = "mine" /\ redis[o] = Nil /\ redis' = [redis EXCEPT ![o] = who]
  \/ outcome = "degraded" /\ (redis[o] # Nil \/ "redis" \in Faults) /\ UNCHANGED redis
AskRedis(o, who, outcome) ==
  \/ outcome = "mine" /\ redis[o] = Nil /\ redis' = [redis EXCEPT ![o] = who]
  \/ outcome = "refused" /\ redis[o] # Nil /\ UNCHANGED redis
  \/ outcome = "degraded" /\ "redis" \in Faults /\ UNCHANGED redis

(* release: compare-and-delete, so that only the holder frees the key.      *)
(* (Mutant: an exit that forgets to release.)                               *)
DropRedisForgotten(o, who) == UNCHANGED redis
DropRedis(o, who) ==
  redis' = IF redis[o] = who THEN [redis EXCEPT ![o] = Nil] ELSE redis

AutoRedis(f) ==
  /\ pc[f] = "redis" /\ f \in Autos
  /\ \E outcome \in {"mine", "refused", "degraded"} :
       /\ AskRedis(ord[f], f, outcome)
       /\ Goto(f, IF outcome = "refused" THEN "release" ELSE "local")
  /\ UNCHANGED <<row, platform, stock, userVars, local, instVars, memoVars,
                 ord, lk, card, job, callVars, sync, histVars>>

(* The instance's lock, and under it the test of the row and of the memory. *)
AutoLocal(f) ==
  LET o == ord[f]
      i == lk[f]
  IN /\ pc[f] = "local" /\ f \in Autos
     /\ IF local[i][o] # Nil \/ Handled(o) \/ o \in recent[i]
        THEN Goto(f, "release") /\ UNCHANGED local
        ELSE Goto(f, "prep") /\ local' = [local EXCEPT ![i][o] = f]
     /\ UNCHANGED <<row, platform, stock, userVars, redis, instVars, memoVars,
                    ord, lk, card, job, callVars, sync, histVars>>

-----------------------------------------------------------------------------
(* A handler up to the point where it prepares the delivery *)

(* The handler waits for the lock of the instance its request found; with   *)
(* no instance it runs unlocked, and ends before it would consume a card.   *)
HandlerLocal(f) ==
  LET o == ord[f]
      i == lk[f]
      Answer(reply, content) ==
        /\ Goto(f, "release") /\ UNCHANGED local
        /\ SetJob(f, [job[f] EXCEPT !.reply = reply, !.content = content])
  IN /\ pc[f] = "local" /\ f \in Handlers
     /\ CASE i # 0 /\ local[i][o] # Nil  -> Answer("busy", Nil)
          [] i = 0 \/ local[i][o] = Nil  ->
               IF row[o].cardOnly THEN Answer("onlyCard", row[o].content)
               ELSE IF row[o].status = "shipped" THEN Answer("already", Nil)
               ELSE IF i = 0 \/ ~live THEN Answer("fail", Nil)
               ELSE /\ Goto(f, "pre") /\ UNCHANGED job
                    /\ local' = [local EXCEPT ![i][o] = f]
     /\ UNCHANGED <<row, platform, stock, userVars, redis, instVars, memoVars,
                    ord, lk, card, callVars, sync, histVars>>

HandlerPre(f) ==
  /\ pc[f] = "pre"
  /\ \E v \in Verdicts :
       /\ PreCheck(ord[f], v)
       /\ IF v = "block"
          THEN /\ Goto(f, "release") /\ SetJob(f, [job[f] EXCEPT !.reply = "fail"])
          ELSE /\ Goto(f, "prep")
               /\ SetJob(f, [job[f] EXCEPT !.closed = (v = "card_only")])
  /\ UNCHANGED <<stock, userVars, lockVars, instVars, memoVars, ord, lk, card,
                 callVars, sync, histVars>>

-----------------------------------------------------------------------------
(* From the lock to the record, for both kinds of flow *)

(* An auto flow reads the only-card switch again before the card's delay; a *)
(* handler reads the switches here for the first time.                      *)
Prep(f) ==
  /\ pc[f] = "prep"
  /\ LET osc == job[f].osc \/ setting.mode = "onlyCard"
         sbc == /\ f \in Handlers /\ ~job[f].closed
                /\ ~osc /\ setting.mode = "sendFirst"
     IN SetJob(f, [job[f] EXCEPT !.osc = osc, !.sbc = sbc])
  /\ Goto(f, "confirm")
  /\ UNCHANGED <<row, platform, stock, userVars, lockVars, instVars, memoVars,
                 ord, lk, card, callVars, sync, histVars>>

(* Nothing to confirm before sending. *)
ConfirmNothing(f) ==
  /\ pc[f] = "confirm"
  /\ \/ Skip(f)
     \/ SendFirst(f) /\ setting.autoConfirm
     \/ ~SendFirst(f) /\ ~setting.autoConfirm
        /\ (f \in Handlers \/ setting.mode # "confirmFirst")
     \/ ~SendFirst(f) /\ f \in Autos /\ ord[f] \in confirmed[lk[f]]
  /\ Goto(f, "card")
  /\ UNCHANGED <<row, platform, stock, userVars, lockVars, instVars, memoVars,
                 ord, lk, card, job, callVars, sync, histVars>>

(* The settings ask for a confirmation that the account does not make. *)
ConfirmRefused(f) ==
  /\ pc[f] = "confirm" /\ ~Skip(f) /\ ~setting.autoConfirm
  /\ SendFirst(f) \/ (f \in Autos /\ setting.mode = "confirmFirst")
  /\ EndEmpty(f, "fail")
  /\ UNCHANGED <<platform, stock, userVars, lockVars, instVars, memoVars,
                 ord, lk, card, callVars, sync, histVars>>

(* Confirm on the platform, then send.  An order the platform already has   *)
(* as shipped gets no card.                                                 *)
ConfirmFirst(f) ==
  LET o == ord[f]
      i == lk[f]
  IN /\ pc[f] = "confirm" /\ ~Skip(f) /\ ~SendFirst(f) /\ setting.autoConfirm
     /\ f \in Handlers \/ o \notin confirmed[i]
     /\ \E answer \in Answers(o) :
          /\ ConfirmOnPlatform(o, answer)
          /\ confirmed' = IF f \in Autos /\ answer \in {"ok", "already"}
                          THEN [confirmed EXCEPT ![i] = @ \cup {o}] ELSE confirmed
          /\ recent' = IF f \in Autos /\ answer = "already"
                       THEN [recent EXCEPT ![i] = @ \cup {o}] ELSE recent
          /\ CASE answer = "ok" ->
                    /\ Goto(f, "card") /\ UNCHANGED row
                    /\ SetJob(f, [job[f] EXCEPT !.psc = TRUE])
               [] answer = "already" ->
                    /\ Goto(f, "release") /\ WarnEmpty(f)
                    /\ SetJob(f, [job[f] EXCEPT !.psc = TRUE, !.already = TRUE,
                                                !.reply = "already"])
               [] answer \in {"fail", "unknown"} ->
                    IF setting.mode = "confirmFirst" THEN EndEmpty(f, "fail")
                    ELSE Goto(f, "card") /\ UNCHANGED <<row, job>>
     /\ UNCHANGED <<stock, userVars, lockVars, instVars, ord, lk, card,
                    callVars, sync, histVars>>

(* consume_batch_data takes one line off the stock for good.                *)
TakeCard(f) ==
  LET o == ord[f]
  IN /\ pc[f] = "card"
     /\ IF stock = {}
        THEN EndEmpty(f, "fail") /\ UNCHANGED <<stock, card, given>>
        ELSE \E c \in stock :
               /\ stock' = stock \ {c}
               /\ card' = [card EXCEPT ![f] = c]
               /\ given' = [given EXCEPT ![o] = @ \cup {c}]
               /\ Goto(f, "send") /\ UNCHANGED <<row, job>>
     /\ UNCHANGED <<platform, userVars, lockVars, instVars, memoVars, ord, lk,
                    callVars, sync, chat>>

(* The message is written to the connection or not ("failed"); the platform *)
(* may still reject what was written.  An auto flow first remembers the     *)
(* order for its cool-down and held-lock tests.                             *)
Send(f) ==
  LET o == ord[f]
  IN /\ pc[f] = "send"
     /\ \E out \in {"failed", "accepted", "rejected"} :
          /\ SetJob(f, [job[f] EXCEPT !.out = out])
          /\ chat' = IF out = "accepted" THEN [chat EXCEPT ![o] = @ \cup {card[f]}]
                     ELSE chat
     /\ recent' = IF f \in Autos THEN [recent EXCEPT ![lk[f]] = @ \cup {o}] ELSE recent
     /\ Goto(f, "receipt")
     /\ UNCHANGED <<row, platform, stock, userVars, lockVars, instVars, confirmed,
                    ord, lk, card, callVars, sync, given>>

(* An auto flow counts a send that failed; a handler ignores the result of  *)
(* _send_text_with_separator and send_image_msg, which never raise.         *)
SendFailed(f) == f \in Autos /\ job[f].out = "failed"

(* Read the switches again, then wait for the server's receipt: a rejection *)
(* is seen, or comes after the wait.                                        *)
Receipt(f) ==
  LET osc == job[f].osc \/ (~job[f].psc /\ setting.mode = "onlyCard")
      sbc == ~osc /\ IF f \in Autos
                     THEN ~job[f].closed /\ setting.mode = "sendFirst"
                     ELSE job[f].sbc
      waits == \/ f \in Handlers
               \/ sbc \/ (osc /\ ~job[f].psc)
  IN /\ pc[f] = "receipt"
     /\ \E seen \in IF waits /\ job[f].out = "rejected" THEN BOOLEAN ELSE {FALSE} :
          SetJob(f, [job[f] EXCEPT !.osc = osc, !.sbc = sbc, !.seen = seen])
     /\ Goto(f, "after")
     /\ UNCHANGED <<row, platform, stock, userVars, lockVars, instVars, memoVars,
                    ord, lk, card, callVars, sync, histVars>>

(* Confirm after sending, where the settings say so and nothing went wrong. *)
(* (Mutant: confirm whatever became of the message.)                        *)
ConfirmableBlindly(f) == job[f].sbc
Confirmable(f) == job[f].sbc /\ ~job[f].seen /\ ~SendFailed(f)

(* An auto flow reads the only-card switch a last time before it records.   *)
LastRead(f, psc) ==
  job[f].osc \/ (f \in Autos /\ ~psc /\ setting.mode = "onlyCard")

(* A reason is left for the seller when the confirmation is due and was not *)
(* made.  (Mutant: a rejected message leaves none.)                         *)
LeavesReasonUnlessRejected(f, osc) ==
  job[f].sbc /\ ~job[f].seen
LeavesReason(f, osc) ==
  \/ job[f].sbc
  \/ f \in Handlers /\ job[f].seen
  \/ f \in Autos /\ osc /\ ~job[f].psc /\ (job[f].seen \/ SendFailed(f))

ConfirmAfter(f) ==
  /\ pc[f] = "after" /\ Confirmable(f) /\ setting.autoConfirm
  /\ \E answer \in Answers(ord[f]) :
       LET psc == job[f].psc \/ answer \in {"ok", "already"}
       IN /\ ConfirmOnPlatform(ord[f], answer)
          /\ SetJob(f, [job[f] EXCEPT !.psc = psc, !.osc = LastRead(f, psc),
                                      !.flag = answer \notin {"ok", "already"}])
  /\ Goto(f, "write")
  /\ UNCHANGED <<row, stock, userVars, lockVars, instVars, memoVars, ord, lk, card,
                 callVars, sync, histVars>>

SkipConfirmAfter(f) ==
  /\ pc[f] = "after" /\ ~(Confirmable(f) /\ setting.autoConfirm)
  /\ LET osc == LastRead(f, job[f].psc)
     IN SetJob(f, [job[f] EXCEPT !.osc = osc, !.flag = LeavesReason(f, osc)])
  /\ Goto(f, "write")
  /\ UNCHANGED <<row, platform, stock, userVars, lockVars, instVars, memoVars,
                 ord, lk, card, callVars, sync, histVars>>

(* record_delivery_for_closed_order, record_card_only_delivery and          *)
(* update_order_delivery_info, whatever became of the message.  (Mutant: a  *)
(* record without the card.)                                                *)
RecordedNoContent(o, how, c) ==
  IF how \in {"closed", "onlyCard"}
  THEN [row[o] EXCEPT !.cardOnly = TRUE]
  ELSE [row[o] EXCEPT !.status = "shipped", !.content = c, !.warned = FALSE]
Recorded(o, how, c) ==
  IF how \in {"closed", "onlyCard"}
  THEN [row[o] EXCEPT !.cardOnly = TRUE, !.content = c]
  ELSE [row[o] EXCEPT !.status = "shipped", !.content = c, !.warned = FALSE]

(* A handler reads the only-card switch a last time here. *)
Write(f) ==
  LET osc == job[f].osc \/ (f \in Handlers /\ ~job[f].psc /\ setting.mode = "onlyCard")
      how == CASE job[f].closed -> "closed"
               [] ~job[f].closed /\ osc /\ ~job[f].psc -> "onlyCard"
               [] OTHER -> "ok"
  IN /\ pc[f] = "write"
     /\ SetRow(ord[f], Recorded(ord[f], how, card[f]))
     /\ SetJob(f, [job[f] EXCEPT !.osc = osc, !.reply = how, !.content = card[f]])
     /\ Goto(f, IF job[f].flag THEN "flag" ELSE "release")
     /\ UNCHANGED <<platform, stock, userVars, lockVars, instVars, memoVars,
                    ord, lk, card, callVars, sync, histVars>>

(* The reason goes in with a second commit, since the first one clears it.  *)
Flag(f) ==
  /\ pc[f] = "flag"
  /\ Warn(ord[f]) /\ Goto(f, "release")
  /\ UNCHANGED <<platform, stock, userVars, lockVars, instVars, memoVars,
                 ord, lk, card, job, callVars, sync, histVars>>

(* Only the lock the flow holds.                                            *)
FreeLocal(f) ==
  local' = [i \in Insts |-> [o \in Orders |->
              IF local[i][o] = f THEN Nil ELSE local[i][o]]]

EndFlow(f) ==
  /\ Goto(f, "idle")
  /\ ord' = [ord EXCEPT ![f] = Nil] /\ lk' = [lk EXCEPT ![f] = 0]
  /\ card' = [card EXCEPT ![f] = Nil] /\ SetJob(f, NewJob)

AutoRelease(f) ==
  /\ pc[f] = "release" /\ f \in Autos
  /\ FreeLocal(f) /\ DropRedis(ord[f], f) /\ EndFlow(f)
  /\ UNCHANGED <<row, platform, stock, userVars, instVars, memoVars, callVars,
                 sync, histVars>>

(* The response reaches the caller if it is still waiting for this request. *)
HandlerRelease(f) ==
  /\ pc[f] = "release" /\ f \in Handlers
  /\ FreeLocal(f) /\ EndFlow(f)
  /\ LET waiting(c) == cpc[c] = "wait" /\ cjob[c].to = f
     IN /\ cpc' = [c \in Callers |-> IF waiting(c) THEN "reply" ELSE cpc[c]]
        /\ cjob' = [c \in Callers |->
                      IF waiting(c) THEN [cjob[c] EXCEPT !.reply = job[f].reply,
                                                         !.content = job[f].content]
                      ELSE cjob[c]]
  /\ UNCHANGED <<row, platform, stock, userVars, redis, instVars, memoVars,
                 cord, batch, sync, histVars>>

FlowStep(f) ==
  \/ AutoRedis(f) \/ AutoLocal(f) \/ HandlerLocal(f) \/ HandlerPre(f) \/ Prep(f)
  \/ ConfirmNothing(f) \/ ConfirmRefused(f) \/ ConfirmFirst(f) \/ TakeCard(f)
  \/ Send(f) \/ Receipt(f) \/ ConfirmAfter(f) \/ SkipConfirmAfter(f) \/ Write(f)
  \/ Flag(f) \/ AutoRelease(f) \/ HandlerRelease(f)

-----------------------------------------------------------------------------
(* The callers of the handler: the scheduler's task and a seller's click *)

CGoto(c, step) == cpc' = [cpc EXCEPT ![c] = step]
SetCall(c, k) == cjob' = [cjob EXCEPT ![c] = k]

(* _get_pending_orders: the rows are read once, and stay in the session.    *)
SchedScan ==
  /\ "scheduler" \in Callers /\ cpc["scheduler"] = "idle" /\ batch = {}
  /\ setting.autoConfirm \/ setting.mode = "onlyCard"
  /\ batch' = {o \in Orders : row[o].status = "pending" /\ ~row[o].cardOnly}
  /\ batch' # {}
  /\ UNCHANGED <<row, platform, stock, userVars, lockVars, instVars, memoVars,
                 flowVars, cpc, cord, cjob, sync, histVars>>

SchedPick ==
  /\ "scheduler" \in Callers /\ cpc["scheduler"] = "idle"
  /\ \E o \in batch : /\ batch' = batch \ {o}
                      /\ cord' = [cord EXCEPT !["scheduler"] = o]
  /\ CGoto("scheduler", "redis")
  /\ UNCHANGED <<row, platform, stock, userVars, lockVars, instVars, memoVars,
                 flowVars, cjob, sync, histVars>>

(* The seller's request ends at once for an order that needs no card.       *)
ManualStart ==
  /\ "manual" \in Callers /\ cpc["manual"] = "idle" /\ live
  /\ \E o \in Orders : ~Handled(o) /\ cord' = [cord EXCEPT !["manual"] = o]
  /\ CGoto("manual", "redis")
  /\ UNCHANGED <<row, platform, stock, userVars, lockVars, instVars, memoVars,
                 flowVars, cjob, batch, sync, histVars>>

CallerRedis(c) ==
  /\ cpc[c] = "redis"
  /\ \E outcome \in {"mine", "refused", "degraded"} :
       /\ AskRedis(cord[c], c, outcome)
       /\ CGoto(c, CASE outcome = "refused" -> "release"
                     [] outcome # "refused" /\ c = "scheduler" -> "recheck"
                     [] OTHER -> "post")
  /\ UNCHANGED <<row, platform, stock, userVars, local, instVars, memoVars,
                 flowVars, cord, cjob, batch, sync, histVars>>

(* The row is selected again under the lock, but through the session that   *)
(* already holds the order: SQLAlchemy answers with the object of the scan, *)
(* which was pending, so that the test never finds the order handled.       *)
SchedRecheck ==
  /\ "scheduler" \in Callers /\ cpc["scheduler"] = "recheck"
  /\ CGoto("scheduler", "check")
  /\ UNCHANGED <<row, platform, stock, userVars, lockVars, instVars, memoVars,
                 flowVars, cord, cjob, batch, sync, histVars>>

(* check_can_ship asks the platform, and copies an answer that ends it.     *)
SchedCheck ==
  LET o == cord["scheduler"]
  IN /\ "scheduler" \in Callers /\ cpc["scheduler"] = "check"
     /\ \/ CGoto("scheduler", "release") /\ Warn(o)
        \/ platform[o] = "pending" /\ CGoto("scheduler", "post") /\ UNCHANGED row
        \/ platform[o] # "pending" /\ CGoto("scheduler", "release")
           /\ SetRow(o, [row[o] EXCEPT !.status = platform[o]])
     /\ UNCHANGED <<platform, stock, userVars, lockVars, instVars, memoVars,
                    flowVars, cord, cjob, batch, sync, histVars>>

(* POST /orders/deliver starts a handler, on the instance registered now.   *)
Post(c) ==
  /\ cpc[c] = "post"
  /\ \E h \in Handlers :
       /\ pc[h] = "idle"
       /\ Goto(h, "local")
       /\ ord' = [ord EXCEPT ![h] = cord[c]]
       /\ lk' = [lk EXCEPT ![h] = IF live THEN inst ELSE 0]
       /\ SetCall(c, [cjob[c] EXCEPT !.to = h, !.tries = @ + 1])
  /\ CGoto(c, "wait")
  /\ UNCHANGED <<row, platform, stock, userVars, lockVars, instVars, memoVars,
                 card, job, cord, batch, sync, histVars>>

(* (Mutant: one attempt too many.)                                          *)
TriesLeftOffByOne(c) == cjob[c].tries <= MaxTries
TriesLeft(c) == cjob[c].tries < MaxTries

(* The request times out; http_client posts it again, up to MaxTries times, *)
(* while the handler of the first attempt may still be running.             *)
Timeout(c) ==
  /\ "timeout" \in Faults /\ cpc[c] = "wait"
  /\ SetCall(c, [cjob[c] EXCEPT !.to = Nil])
  /\ IF TriesLeft(c) THEN CGoto(c, "post") /\ UNCHANGED row
     ELSE CGoto(c, "release") /\ Warn(cord[c])
  /\ UNCHANGED <<platform, stock, userVars, lockVars, instVars, memoVars,
                 flowVars, cord, batch, sync, histVars>>

(* What a caller writes for an answer: a seller's request only the reason   *)
(* of a failure; the scheduler also the row, with response "content".       *)
RowAfterReply(c) ==
  LET r == row[cord[c]]
      a == cjob[c]
  IN CASE a.reply = "fail" -> [r EXCEPT !.warned = TRUE]
       [] c = "scheduler" /\ a.reply = "onlyCard" ->
            [r EXCEPT !.cardOnly = TRUE, !.content = a.content]
       [] c = "scheduler" /\ a.reply \in {"ok", "already"} ->
            [r EXCEPT !.status = "shipped", !.content = a.content]
       [] OTHER -> r

CallerReply(c) ==
  /\ cpc[c] = "reply"
  /\ SetRow(cord[c], RowAfterReply(c)) /\ CGoto(c, "release")
  /\ UNCHANGED <<platform, stock, userVars, lockVars, instVars, memoVars,
                 flowVars, cord, cjob, batch, sync, histVars>>

CallerRelease(c) ==
  /\ cpc[c] = "release"
  /\ DropRedis(cord[c], c) /\ CGoto(c, "idle")
  /\ cord' = [cord EXCEPT ![c] = Nil] /\ SetCall(c, NewCall)
  /\ UNCHANGED <<row, platform, stock, userVars, local, instVars, memoVars,
                 flowVars, batch, sync, histVars>>

CallerStep(c) ==
  \/ CallerRedis(c) \/ (c = "scheduler" /\ (SchedRecheck \/ SchedCheck))
  \/ Post(c) \/ Timeout(c) \/ CallerReply(c) \/ CallerRelease(c)

-----------------------------------------------------------------------------
(* The rest of the world *)

RedisExpire ==
  /\ "ttl" \in Faults
  /\ \E o \in Orders : redis[o] # Nil /\ redis' = [redis EXCEPT ![o] = Nil]
  /\ UNCHANGED <<row, platform, stock, userVars, local, instVars, memoVars,
                 flowVars, callVars, sync, histVars>>

(* Hold (10 min), cool-down (60 s) and confirmation memory (300 s) run out. *)
Forget ==
  /\ \E i \in Insts, o \in Orders :
       \/ /\ o \in recent[i] /\ recent' = [recent EXCEPT ![i] = @ \ {o}]
          /\ UNCHANGED confirmed
       \/ /\ o \in confirmed[i] /\ confirmed' = [confirmed EXCEPT ![i] = @ \ {o}]
          /\ UNCHANGED recent
  /\ UNCHANGED <<row, platform, stock, userVars, lockVars, instVars, flowVars,
                 callVars, sync, histVars>>

(* The account is stopped, and started again as a new object with new locks *)
(* and an empty memory; flows of the old one that outlive the stop go on.   *)
Stop ==
  /\ "restart" \in Faults /\ live /\ inst < MaxInst
  /\ live' = FALSE
  /\ UNCHANGED <<row, platform, stock, userVars, lockVars, inst, memoVars,
                 flowVars, callVars, sync, histVars>>

Restart ==
  /\ ~live /\ live' = TRUE /\ inst' = inst + 1
  /\ UNCHANGED <<row, platform, stock, userVars, lockVars, memoVars,
                 flowVars, callVars, sync, histVars>>

(* The settings page.  The modes exclude each other, and only-card also     *)
(* excludes the automatic confirmation.                                     *)
ChangeSetting ==
  /\ toggles < MaxToggles /\ toggles' = toggles + 1
  /\ \/ \E m \in Modes \ {setting.mode} :
          setting' = [mode |-> m,
                      autoConfirm |-> setting.autoConfirm /\ m # "onlyCard"]
     \/ setting' = [mode |-> IF ~setting.autoConfirm /\ setting.mode = "onlyCard"
                             THEN "plain" ELSE setting.mode,
                    autoConfirm |-> ~setting.autoConfirm]
  /\ UNCHANGED <<row, platform, stock, lockVars, instVars, memoVars,
                 flowVars, callVars, sync, histVars>>

PlatformClose ==
  /\ "close" \in Faults
  /\ \E o \in Orders : platform[o] # "closed"
                       /\ platform' = [platform EXCEPT ![o] = "closed"]
  /\ UNCHANGED <<row, stock, userVars, lockVars, instVars, memoVars, flowVars,
                 callVars, sync, histVars>>

(* fetch_xianyu_orders: a page of the platform's list, then the rows of its *)
(* orders, then one update for each row whose status differs.               *)
SyncFetch(o) ==
  /\ "sync" \in Faults /\ sync[o] = <<>>
  /\ sync' = [sync EXCEPT ![o] = <<platform[o]>>]
  /\ UNCHANGED <<row, platform, stock, userVars, lockVars, instVars, memoVars,
                 flowVars, callVars, histVars>>

SyncLoad(o) ==
  /\ Len(sync[o]) = 1
  /\ sync' = [sync EXCEPT ![o] = Append(@, row[o].status)]
  /\ UNCHANGED <<row, platform, stock, userVars, lockVars, instVars, memoVars,
                 flowVars, callVars, histVars>>

SyncUpsert(o) ==
  /\ Len(sync[o]) = 2
  /\ IF sync[o][1] = sync[o][2] THEN UNCHANGED row
     ELSE SetRow(o, [row[o] EXCEPT !.status = sync[o][1]])
  /\ sync' = [sync EXCEPT ![o] = <<>>]
  /\ UNCHANGED <<platform, stock, userVars, lockVars, instVars, memoVars,
                 flowVars, callVars, histVars>>

World == RedisExpire \/ Forget \/ Stop \/ Restart \/ ChangeSetting
         \/ PlatformClose
         \/ \E o \in Orders : SyncFetch(o) \/ SyncLoad(o) \/ SyncUpsert(o)

Next ==
  \/ \E f \in Autos : AutoStart(f)
  \/ \E f \in Flows : FlowStep(f)
  \/ SchedScan \/ SchedPick \/ ManualStart
  \/ \E c \in Callers : CallerStep(c)
  \/ World

Spec == Init /\ [][Next]_vars

(* Every await of a flow and of a caller ends: the locks are waited for with *)
(* a timeout, the receipt for 8 seconds, requests time out.  The scheduler's *)
(* task runs at an interval.  Nothing is assumed of messages, sellers,       *)
(* settings or the platform.                                                 *)
Fairness ==
  /\ \A f \in Flows : WF_vars(FlowStep(f))
  /\ \A c \in Callers : WF_vars(CallerStep(c))
  /\ WF_vars(SchedScan) /\ WF_vars(SchedPick)

FairSpec == Spec /\ Fairness

-----------------------------------------------------------------------------
OrderType ==
  /\ row \in [Orders -> Rows] /\ platform \in [Orders -> Statuses]
  /\ stock \subseteq Cards
  /\ given \in [Orders -> SUBSET Cards] /\ chat \in [Orders -> SUBSET Cards]

LockType ==
  /\ redis \in [Orders -> Autos \cup Callers \cup {Nil}]
  /\ local \in [Insts -> [Orders -> Flows \cup {Nil}]]

AccountType ==
  /\ setting \in AllSettings /\ toggles \in 0..MaxToggles
  /\ inst \in Insts /\ live \in BOOLEAN
  /\ recent \in [Insts -> SUBSET Orders] /\ confirmed \in [Insts -> SUBSET Orders]

FlowType ==
  /\ pc \in [Flows -> FlowSteps] /\ ord \in [Flows -> Orders \cup {Nil}]
  /\ lk \in [Flows -> 0..MaxInst] /\ card \in [Flows -> Cards \cup {Nil}]
  /\ job \in [Flows -> Jobs]

CallType ==
  /\ cpc \in [Callers -> CallSteps] /\ cord \in [Callers -> Orders \cup {Nil}]
  /\ cjob \in [Callers -> CallJobs] /\ batch \subseteq Orders

TypeOK ==
  /\ OrderType /\ LockType /\ AccountType /\ FlowType /\ CallType
  /\ sync \in [Orders -> Seq(Statuses)]

(* One card per order: whatever the entrances, their retries and the locks  *)
(* that fail, no second line of the stock is consumed for an order.         *)
AtMostOneCard == \A o \in Orders : \A c, d \in given[o] : c = d

(* A flow between the lock and the end of its record. *)
Working(f) == pc[f] \in FlowSteps \ {"idle", "redis", "local", "release"}

(* No two flows work on one order at a time, auto flow or handler, although *)
(* each of the two locks that keep them apart may be absent.                *)
OneFlowPerOrder ==
  \A f, g \in Flows : Working(f) /\ Working(g) /\ ord[f] = ord[g] => f = g

(* A consumed card can be read back from the order (delivery_content), once *)
(* the flow that consumed it has recorded it.                               *)
CardTraceable ==
  \A o \in Orders : \A c \in given[o] :
     row[o].content = c \/ \E f \in Flows : Working(f) /\ card[f] = c

(* With "send first" and automatic confirmation on: an order shown as       *)
(* shipped that the platform still has as unshipped carries a reason that   *)
(* tells the seller to confirm it by hand.                                  *)
FlaggedIfUnconfirmed ==
  \A o \in Orders :
     row[o].status = "shipped" /\ platform[o] = "pending" =>
        row[o].warned \/ \E f \in Flows : pc[f] = "flag" /\ ord[f] = o

(* An order recorded as "card only, not shipped" stays unshipped on the     *)
(* platform: no later flow confirms it, whatever the seller switches to.    *)
CardOnlyUnconfirmed ==
  \A o \in Orders : row[o].cardOnly => platform[o] # "shipped"

(* Every pending order is handled in the end, as long as the scheduler runs *)
(* and the platform does not fail its question forever.                     *)
EveryOrderHandled == \A o \in Orders : <>[]Handled(o)

(* The assumption on the platform that EveryOrderHandled needs.             *)
LiveSpec == FairSpec /\ SF_vars(SchedCheck /\ cpc'["scheduler"] = "post")
=============================================================================
