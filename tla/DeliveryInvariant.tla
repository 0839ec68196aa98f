------------------------- MODULE DeliveryInvariant --------------------------
(***************************************************************************)
(* The strengthenings that make the invariants of Delivery inductive, and  *)
(* the conditions under which they hold for every value of the constants.  *)
(***************************************************************************)
EXTENDS Delivery

Taking == {"pre", "prep", "confirm", "card"}
Holding == {"send", "receipt", "after", "write"}

(* A flow and a caller under way have their order, a flow that sends and    *)
(* records has a card, and an auto flow an instance; an attempt is left as  *)
(* long as none is under way, and an instance while the account is stopped. *)
FlowInv ==
  /\ FlowType
  /\ \A f \in Flows :
       /\ pc[f] # "idle" => ord[f] \in Orders
       /\ pc[f] \in Holding => card[f] \in Cards
  /\ \A f \in Autos : pc[f] # "idle" => lk[f] # 0

CallInv ==
  /\ CallType
  /\ \A c \in Callers :
       /\ cpc[c] # "idle" => cord[c] \in Orders
       /\ cpc[c] \notin {"wait", "reply", "release"} => cjob[c].tries < MaxTries

AccountInv == AccountType /\ (live \/ inst < MaxInst)

TypeInv == /\ OrderType /\ LockType /\ FlowInv /\ CallInv /\ AccountInv
           /\ sync \in [Orders -> Seq(Statuses)]

(* Nobody stops the account, so that one instance holds the local locks.    *)
OneInstance == "restart" \notin Faults

(* The Redis lock of an order is held until its holder drops it, and a      *)
(* caller keeps it for as long as its handler runs.                         *)
RedisSound == {"redis", "ttl", "timeout"} \cap Faults = {}

(* A handled row stays handled: no list fetch overwrites it, and where the  *)
(* scheduler copies the platform's status, no order is closed there.        *)
RowsKept ==
  /\ "sync" \notin Faults
  /\ "scheduler" \in Callers => "close" \notin Faults /\ Verdicts \subseteq {"allow"}

-----------------------------------------------------------------------------
(* Why two flows never work on one order: either of the two locks is enough *)

NoRestart == inst = 1 /\ live

(* A flow under way has the only instance; a working one also holds that    *)
(* instance's lock of its order.                                            *)
HoldsLock ==
  \A f \in Flows :
    /\ pc[f] # "idle" => lk[f] = 1
    /\ Working(f) => local[1][ord[f]] = f

LockInv == TypeInv /\ NoRestart /\ HoldsLock

(* An auto flow that got past the Redis lock of its order holds it, so does *)
(* a caller, and a handler has a caller that waits for it.                  *)
HoldsRedis ==
  /\ \A f \in Autos : pc[f] \notin {"idle", "redis", "release"} => redis[ord[f]] = f
  /\ \A c \in Callers : cpc[c] \notin {"idle", "redis", "release"} => redis[cord[c]] = c
  /\ \A h \in Handlers : pc[h] # "idle" =>
       \E c \in Callers : cpc[c] = "wait" /\ cjob[c].to = h /\ cord[c] = ord[h]

RedisInv == TypeInv /\ HoldsRedis

GuardInv == (OneInstance /\ LockInv) \/ (RedisSound /\ RedisInv)

(* What the proofs about cards need of the locks: nobody works on an order  *)
(* while a flow finds the instance's lock of the order free.                *)
Exclusive ==
  /\ OneFlowPerOrder
  /\ \A f, g \in Flows :
       /\ pc[f] = "local" /\ lk[f] # 0 /\ local[lk[f]][ord[f]] = Nil
       /\ Working(g)
       => ord[g] # ord[f]

-----------------------------------------------------------------------------
(* Why an order gets one card *)

NeverClosed == "scheduler" \in Callers => \A o \in Orders : platform[o] # "closed"

NeverFetched == \A o \in Orders : sync[o] = <<>>

(* Before it takes a card a flow finds that none was taken for its order;   *)
(* afterwards the one it holds is the only one.                             *)
TakesOnce ==
  \A f \in Flows :
    /\ pc[f] \in Taking => given[ord[f]] = {}
    /\ pc[f] \in Holding => given[ord[f]] = {card[f]}

(* An order whose card is not recorded yet has a flow that will record it.  *)
RecordsEach ==
  \A o \in Orders : \/ given[o] = {} \/ Handled(o)
                    \/ \E f \in Flows : pc[f] \in Holding /\ ord[f] = o

CardInv ==
  /\ TypeInv /\ Exclusive
  /\ NeverFetched /\ NeverClosed /\ TakesOnce /\ RecordsEach /\ AtMostOneCard

(* The row of an order shows the card that was taken for it, from the       *)
(* record of the flow that took it on and not before; nothing else reaches  *)
(* the buyer, and nothing before that flow sends.                           *)
Traced ==
  /\ \A o \in Orders :
       /\ chat[o] \subseteq given[o]
       /\ row[o].content = Nil =>
            given[o] = {} \/ \E f \in Flows : pc[f] \in Holding /\ ord[f] = o
       /\ row[o].content # Nil => given[o] = {row[o].content}
  /\ \A f \in Flows :
       /\ pc[f] \in Holding => row[ord[f]].content = Nil
       /\ pc[f] = "send" => chat[ord[f]] = {}

(* The scheduler overwrites the card of a row with the content of an        *)
(* answer, and the answer "already" has none.                               *)
NoScheduler == "scheduler" \notin Callers

TraceInv == CardInv /\ Traced

-----------------------------------------------------------------------------
(* What a caller is told is about its order *)

Answered(f) == pc[f] \in {"flag", "release"}

(* A flow starts afresh and has its answer only at the end, and the request *)
(* that a caller waits for is about the caller's order.                     *)
LinkInv ==
  /\ \A f \in Flows : /\ pc[f] = "idle" => job[f] = NewJob
                      /\ ~Answered(f) => job[f].reply = "none"
  /\ \A c \in Callers : cpc[c] = "wait" =>
       cjob[c].to \in Handlers /\ pc[cjob[c].to] # "idle" /\ ord[cjob[c].to] = cord[c]

-----------------------------------------------------------------------------
(* Why "card only" orders stay unconfirmed *)

(* A confirmation that the platform made was answered, and nothing but the  *)
(* record of a delivery makes an order shipped.                             *)
AnswersArrive == "lost" \notin Faults /\ "sync" \notin Faults

Confirmed(f) == job[f].psc /\ pc[f] \in {"card"} \cup Holding

(* The platform shows an order as shipped: a flow confirmed it, and records *)
(* it as shipped unless the stock was empty; no other flow gets a card.     *)
Known(o) ==
  platform[o] = "shipped" =>
     /\ ~row[o].cardOnly
     /\ \/ row[o].status = "shipped" \/ stock = {}
        \/ \E f \in Flows : Confirmed(f) /\ ord[f] = o

FlowKnows(f) ==
  /\ Working(f) /\ pc[f] # "flag" =>
       /\ ~row[ord[f]].cardOnly
       /\ platform[ord[f]] = "shipped" => Confirmed(f) \/ (stock = {} /\ pc[f] \in Taking)
  /\ pc[f] # "idle" /\ job[f].closed => platform[ord[f]] = "closed"
  /\ pc[f] \in {"redis", "local", "pre", "prep", "confirm"} => ~job[f].psc
  /\ Answered(f) /\ job[f].reply = "onlyCard" => row[ord[f]].cardOnly

ToldOnlyCard ==
  \A c \in Callers :
    cpc[c] = "reply" /\ cjob[c].reply = "onlyCard" => row[cord[c]].cardOnly

OnlyCardInv ==
  /\ TypeInv /\ LinkInv /\ NeverFetched
  /\ \A o \in Orders : Known(o)
  /\ \A f \in Flows : FlowKnows(f)
  /\ ToldOnlyCard

-----------------------------------------------------------------------------
(* Why shipped orders that are not confirmed carry a reason *)

(* "Send first" with automatic confirmation, from the start and for good.   *)
SendFirstKept ==
  Settings \subseteq {[mode |-> "sendFirst", autoConfirm |-> TRUE]} /\ MaxToggles = 0

Settled(o) ==
  platform[o] # "pending" \/ row[o].warned \/ \E f \in Flows : pc[f] = "flag" /\ ord[f] = o

(* A delivery that is not for a closed order is one to confirm after        *)
(* sending; at the record it is confirmed, or leaves a reason.              *)
FlowSettles(f) ==
  /\ ~job[f].osc
  /\ job[f].psc /\ pc[f] # "idle" => platform[ord[f]] # "pending"
  /\ f \in Handlers /\ pc[f] \in {"confirm", "card", "send", "receipt"} /\ ~job[f].closed
       => job[f].sbc
  /\ pc[f] = "after" /\ ~job[f].closed => job[f].sbc
  /\ pc[f] = "write" /\ ~job[f].closed => job[f].psc \/ job[f].flag
  /\ Answered(f) /\ job[f].reply \in {"ok", "already"} => Settled(ord[f])

SendFirstOnly == setting = [mode |-> "sendFirst", autoConfirm |-> TRUE] /\ toggles = 0

SettledInv ==
  /\ TypeInv /\ LinkInv /\ SendFirstOnly
  /\ \A f \in Flows : FlowSettles(f)
  /\ \A o \in Orders :
       /\ row[o].status = "shipped" => Settled(o)
       /\ sync[o] # <<>> /\ sync[o][1] = "shipped" => platform[o] # "pending"
  /\ \A c \in Callers :
       cpc[c] = "reply" /\ cjob[c].reply \in {"ok", "already"} => Settled(cord[c])
=============================================================================
