----------------------------- MODULE AgentOrders -----------------------------
(***************************************************************************)
(* The money and the stock of agent orders.  A dealer sells a card of its  *)
(* owner, at level 2 through a level-1 agent; every order moves balances   *)
(* (rows of xy_user_settings) and takes one line of the card's data.       *)
(*                                                                         *)
(*   delivery  an automatic delivery (auto_delivery_handler.py): the       *)
(*             dealer's balance is checked without a lock, the line is     *)
(*             taken by compare-and-set in a transaction of its own, then  *)
(*             one transaction records the order and moves the money;      *)
(*   pickup    the pickup page (pickup_service.py): one transaction locks  *)
(*             the balances of all parties, checks them, takes the line    *)
(*             under a row lock and moves the money.                       *)
(*                                                                         *)
(* A step is one statement that may wait for a row, or a commit.  What a   *)
(* transaction has written is in view and moved until it commits.  A user's *)
(* balance is a row once money has moved: SELECT ... FOR UPDATE of a row    *)
(* that is missing locks the gap where it would be, which excludes nobody   *)
(* but those who insert there (InnoDB's REPEATABLE READ, the default that   *)
(* the code leaves as it is).  The Redis lock of the pickup page serialises *)
(* the requests of one docking record only and is given up when Redis is   *)
(* down; it is left out.                                                    *)
(***************************************************************************)
EXTENDS Integers, Sequences, FiniteSets

CONSTANTS
  Users,        \* user ids
  Cards,
  Deliveries,
  Pickups,
  Deal,         \* who takes part in an order, see Roles
  Prices,       \* the terms it may find whenever it reads them, see Terms
  FirstBalance,
  FirstRows,    \* the sets of users who may have a balance row at first
  Gap,          \* the gap of uk_user_key that a user's first row falls into
  FirstLines,   \* data_content of each card, a sequence of lines
  MaxRounds,    \* max_cas_retries (50)
  Postings,     \* the withdrawals and recharges, each made once at most
  Nil

Orders == Deliveries \cup Pickups
Lines == UNION {{FirstLines[c][i] : i \in DOMAIN FirstLines[c]} : c \in Cards}

(* dealer pays cost2 to level1, who pays cost1 to the owner; without a      *)
(* level1 the dealer pays cost1 to the owner.  payer is the card's          *)
(* fee_payer, which the card forms require.  Sellers change the prices and  *)
(* administrators the fee whenever they like.  (A transfer of zero is left  *)
(* out by the code; here all amounts are positive.)                         *)
Amounts == Nat \ {0}
Roles == [card : Cards, dealer : Users, level1 : Users \cup {Nil}, owner : Users]
Terms == [cost1 : Amounts, cost2 : Amounts, fee : Amounts, payer : {"dealer", "distributor"}]

ASSUME AgentAssumption ==
  /\ Users \subseteq Nat /\ IsFiniteSet(Users) /\ Nil \notin Users
  /\ Nil \notin Int /\ Nil \notin Orders /\ Nil \notin Lines
  /\ Deliveries \cap Pickups = {} /\ Users \cap Cards = {}
  /\ Deal \in [Orders -> Roles]
  /\ Prices \in [Orders -> SUBSET Terms] /\ \A o \in Orders : Prices[o] # {}
  /\ FirstBalance \in [Users -> Int] /\ FirstLines \in [Cards -> Seq(Lines)]
  /\ FirstRows \subseteq SUBSET Users /\ Gap \in [Users -> Users]
  /\ \A rs \in FirstRows : \A u \in Users \ rs : FirstBalance[u] = 0
  /\ MaxRounds \in Nat \ {0}
  /\ Postings \subseteq [who : Users, amount : Int]

VARIABLES
  stage,    \* where an order stands
  balance,  \* committed balances
  flows,    \* committed FundFlow rows: their sum for each user
  stock,    \* committed data_content of each card
  rows,     \* the users who have a committed balance row
  lock,     \* row locks of users and cards
  gap,      \* the orders that have locked a gap
  fresh,    \* the user whose first row an order has yet to insert
  price,    \* the terms an order has read last
  checked,  \* what check_balance returned for a delivery
  asked,    \* what its check asked for
  read,     \* the data_content an order has read
  rounds,   \* compare-and-set rounds that failed
  line,     \* the line an order has taken
  view,     \* balances a transaction has loaded, and changed
  moved,    \* FundFlow rows of a transaction: their sum for each user
  done,     \* transfers done by a transaction
  posted    \* withdrawals and recharges so far

txVars == <<lock, gap, fresh, view, moved, done>>
books == <<balance, flows, rows>>
dealVars == <<price, checked, asked>>
lineVars == <<read, rounds, line>>
agentVars == <<stage, books, stock, txVars, dealVars, lineVars, posted>>

Ended == {"refused", "undone", "unrecorded", "partial", "settled"}
Stages == {"idle", "take", "swap", "record", "lock", "card", "pay"} \cup Ended

At(o, from) == stage[o] = from
Goto(o, to) == stage' = [stage EXCEPT ![o] = to]

Nothing == [u \in Users |-> 0]
Unread == [u \in Users |-> Nil]

AgentInit ==
  /\ stage = [o \in Orders |-> "idle"]
  /\ balance = FirstBalance /\ flows = Nothing /\ rows \in FirstRows
  /\ stock = FirstLines /\ lock = [r \in Users \cup Cards |-> Nil]
  /\ gap = [u \in Users |-> {}] /\ fresh = [o \in Orders |-> Nil]
  /\ price = [o \in Orders |-> CHOOSE p \in Prices[o] : TRUE]
  /\ checked = [o \in Orders |-> 0] /\ asked = [o \in Orders |-> 0]
  /\ read = [o \in Orders |-> <<>>] /\ rounds = [o \in Orders |-> 0]
  /\ line = [o \in Orders |-> Nil]
  /\ view = [o \in Orders |-> Unread] /\ moved = [o \in Orders |-> Nothing]
  /\ done = [o \in Orders |-> 0] /\ posted = {}

-----------------------------------------------------------------------------
(* The terms of an order *)

Cost(o, p) == IF Deal[o].level1 = Nil THEN p.cost1 ELSE p.cost2
Parties(o) == {Deal[o].dealer, Deal[o].owner, Deal[o].level1} \ {Nil}

Part(u, n) == [who |-> u, amount |-> n]

(* settle_level1_order and settle_level2_order, in the order of their       *)
(* statements. (Mutant: the owner of a level-2 order gets what the dealer   *)
(* pays.)                                                                   *)
Chain(o, p, received) ==
  LET d     == Deal[o]
      pays  == <<Part(d.dealer, 0 - Cost(o, p))>>
      agent == IF d.level1 = Nil THEN <<>>
               ELSE <<Part(d.level1, p.cost2), Part(d.level1, 0 - p.cost1)>>
      owner == <<Part(d.owner, received)>>
      fee(u) == <<Part(u, 0 - p.fee)>>
  IN IF p.payer = "distributor" THEN pays \o agent \o owner \o fee(d.owner)
     ELSE pays \o fee(d.dealer) \o agent \o owner
TransfersOfDealerPrice(o) == Chain(o, price[o], Cost(o, price[o]))
Transfers(o) == Chain(o, price[o], price[o].cost1)

(* What _validate_dock_delivery asks of the dealer's balance. (Mutant: the  *)
(* fee is forgotten.)                                                       *)
NeededWithoutFee(o, p) == Cost(o, p)
Needed(o, p) == Cost(o, p) + IF p.payer = "dealer" THEN p.fee ELSE 0

(* _compute_net_deltas of the pickup page. (Mutant: the fee is forgotten.)  *)
Gain(o, u) ==
  LET d == Deal[o]
      p == price[o]
      of(b, n) == IF b THEN n ELSE 0
  IN of(u = d.owner, p.cost1) - of(u = d.dealer, Cost(o, p))
     + of(u = d.level1, p.cost2 - p.cost1)
DeltaWithoutFee(o, u) == Gain(o, u)
Delta(o, u) ==
  Gain(o, u) - IF u = (IF price[o].payer = "dealer" THEN Deal[o].dealer ELSE Deal[o].owner)
               THEN price[o].fee ELSE 0

-----------------------------------------------------------------------------
(* Transactions *)

(* SELECT ... FOR UPDATE of a row waits while another transaction has it,   *)
(* or has inserted it and not committed.  (Mutant: the row is read without  *)
(* a lock.)                                                                 *)
GrantedAlways(o, r) == TRUE
Granted(o, r) == lock[r] \in {Nil, o}

(* Of a balance that has no row it locks the gap, together with others.     *)
Exists(o, u) == u \in rows \/ lock[u] = o
SelectForUpdate(o, u) ==
  /\ Granted(o, u)
  /\ IF Exists(o, u) THEN lock' = [lock EXCEPT ![u] = o] /\ UNCHANGED gap
     ELSE gap' = [gap EXCEPT ![Gap[u]] = @ \cup {o}] /\ UNCHANGED lock

Loaded(o, u) == IF view[o][u] = Nil THEN balance[u] ELSE view[o][u]

(* The end of a transaction gives its locks back, and the session forgets   *)
(* what it has read.                                                        *)
Forget(o) == read' = [read EXCEPT ![o] = <<>>] /\ rounds' = [rounds EXCEPT ![o] = 0]
EndTx(o) ==
  /\ lock' = [r \in Users \cup Cards |-> IF lock[r] = o THEN Nil ELSE lock[r]]
  /\ gap' = [u \in Users |-> gap[u] \ {o}] /\ fresh' = [fresh EXCEPT ![o] = Nil]
  /\ view' = [view EXCEPT ![o] = Unread] /\ moved' = [moved EXCEPT ![o] = Nothing]
  /\ done' = [done EXCEPT ![o] = 0] /\ Forget(o)

(* commit writes the balances the transaction has loaded, as absolute       *)
(* values, the rows it has inserted and its flows; a pickup writes what is  *)
(* left of the lines it has read.                                           *)
Commit(o) ==
  /\ balance' = [u \in Users |-> Loaded(o, u)]
  /\ flows' = [u \in Users |-> flows[u] + moved[o][u]]
  /\ rows' = rows \cup {u \in Users : lock[u] = o}
  /\ stock' = IF o \in Pickups THEN [stock EXCEPT ![Deal[o].card] = Tail(read[o])] ELSE stock
  /\ EndTx(o)

Rollback(o) == EndTx(o) /\ UNCHANGED <<books, stock>>

-----------------------------------------------------------------------------
(* A delivery, up to its line *)

(* _validate_dock_delivery: the terms and the balance are read without a    *)
(* lock.  It refuses for more reasons than the balance: the sale price does *)
(* not cover the cost, or a level-1 agent would lose.                       *)
Check(o) ==
  /\ o \in Deliveries /\ At(o, "idle")
  /\ \/ Goto(o, "refused") /\ UNCHANGED dealVars
     \/ \E p \in Prices[o] :
          /\ balance[Deal[o].dealer] >= Needed(o, p)
          /\ Deal[o].level1 # Nil => p.cost1 <= p.cost2
          /\ Goto(o, "take")
          /\ price' = [price EXCEPT ![o] = p]
          /\ checked' = [checked EXCEPT ![o] = balance[Deal[o].dealer]]
          /\ asked' = [asked EXCEPT ![o] = Needed(o, p)]
  /\ UNCHANGED <<books, stock, txVars, lineVars, posted>>

(* consume_batch_data of common/db/compat.py: read ...                      *)
ReadLines(o) ==
  LET lines == stock[Deal[o].card]
  IN /\ At(o, "take")
     /\ Goto(o, IF lines = <<>> THEN "refused" ELSE "swap")
     /\ read' = [read EXCEPT ![o] = lines]
     /\ UNCHANGED <<books, stock, txVars, dealVars, rounds, line, posted>>

(* ... and write what is left if the content is still the one read.         *)
(* (Mutant: without the comparison.)                                        *)
SameAlways(o) == TRUE
Same(o) == stock[Deal[o].card] = read[o]

Swap(o) ==
  /\ At(o, "swap") /\ lock[Deal[o].card] = Nil /\ Same(o)
  /\ Goto(o, "record")
  /\ stock' = [stock EXCEPT ![Deal[o].card] = Tail(read[o])]
  /\ line' = [line EXCEPT ![o] = Head(read[o])] /\ Forget(o)
  /\ UNCHANGED <<books, txVars, dealVars, posted>>

SwapLost(o) ==
  /\ At(o, "swap") /\ lock[Deal[o].card] = Nil /\ ~Same(o)
  /\ IF rounds[o] + 1 = MaxRounds THEN Goto(o, "refused") /\ Forget(o)
     ELSE Goto(o, "take") /\ rounds' = [rounds EXCEPT ![o] = @ + 1] /\ UNCHANGED read
  /\ UNCHANGED <<books, stock, txVars, dealVars, line, posted>>

(* _create_agent_order reads the terms again, and checks nothing.           *)
Record(o) ==
  /\ At(o, "record") /\ Goto(o, "pay")
  /\ \E p \in Prices[o] : price' = [price EXCEPT ![o] = p]
  /\ UNCHANGED <<books, stock, txVars, checked, asked, lineVars, posted>>

-----------------------------------------------------------------------------
(* A pickup, up to its line *)

(* session.get(Card): from here on the object keeps what it has read, and   *)
(* the terms are read once.                                                 *)
ReadCard(o) ==
  /\ o \in Pickups /\ At(o, "idle") /\ Goto(o, "lock")
  /\ read' = [read EXCEPT ![o] = stock[Deal[o].card]]
  /\ \E p \in Prices[o] : price' = [price EXCEPT ![o] = p]
  /\ UNCHANGED <<books, stock, txVars, checked, asked, rounds, line, posted>>

(* _check_parties_balance locks the balances of all parties by ascending    *)
(* id. (Mutant: in the order in which the settlement uses them.)            *)
Missing(o) == {u \in Parties(o) : view[o][u] = Nil}
NextDealerFirst(o) ==
  IF Deal[o].dealer \in Missing(o) THEN Deal[o].dealer
  ELSE IF Deal[o].level1 \in Missing(o) THEN Deal[o].level1 ELSE Deal[o].owner
NextParty(o) == CHOOSE u \in Missing(o) : \A v \in Missing(o) : u <= v

LockParty(o) ==
  /\ At(o, "lock") /\ Missing(o) # {}
  /\ LET u == NextParty(o)
     IN SelectForUpdate(o, u) /\ view' = [view EXCEPT ![o][u] = balance[u]]
  /\ UNCHANGED <<stage, books, stock, fresh, moved, done, dealVars, lineVars, posted>>

(* ... and then checks those that lose.  A pickup that is refused returns   *)
(* without a rollback: the end of its session is one. (Mutant: it is not.)  *)
Left(o) == UNCHANGED <<txVars, books, stock>> /\ Forget(o)
Closed(o) == Rollback(o)
Weigh(o) ==
  /\ At(o, "lock") /\ Missing(o) = {}
  /\ IF \A u \in Parties(o) : Delta(o, u) < 0 => view[o][u] + Delta(o, u) >= 0
     THEN Goto(o, "card") /\ UNCHANGED <<txVars, books, stock, read, rounds>>
     ELSE Goto(o, "refused") /\ Closed(o)
  /\ UNCHANGED <<dealVars, line, posted>>

(* consume_batch_data of card_delivery_content.py: the row is locked, but   *)
(* the session answers with the object it has read before.                  *)
TakeLine(o) ==
  /\ At(o, "card") /\ Granted(o, Deal[o].card)
  /\ IF read[o] = <<>>
     THEN Goto(o, "refused") /\ Rollback(o) /\ UNCHANGED line
     ELSE /\ Goto(o, "pay")
          /\ lock' = [lock EXCEPT ![Deal[o].card] = o]
          /\ line' = [line EXCEPT ![o] = Head(read[o])]
          /\ UNCHANGED <<books, stock, gap, fresh, view, moved, done, read, rounds>>
  /\ UNCHANGED <<dealVars, posted>>

-----------------------------------------------------------------------------
(* The settlement *)

Unpaid(o) == done[o] < Len(Transfers(o))
Next1(o) == Transfers(o)[done[o] + 1]

(* _add_balance, _deduct_balance: a user without a row gets one.            *)
Pay(o) ==
  /\ At(o, "pay") /\ Unpaid(o) /\ fresh[o] = Nil
  /\ LET t == Next1(o)
     IN /\ SelectForUpdate(o, t.who)
        /\ fresh' = [fresh EXCEPT ![o] = IF Exists(o, t.who) THEN Nil ELSE t.who]
        /\ view' = [view EXCEPT ![o][t.who] = Loaded(o, t.who) + t.amount]
        /\ moved' = [moved EXCEPT ![o][t.who] = @ + t.amount]
        /\ done' = [done EXCEPT ![o] = @ + 1]
  /\ UNCHANGED <<stage, books, stock, dealVars, lineVars, posted>>

(* The session sends the INSERT before its next query, or with the commit:  *)
(* it waits while another transaction has locked the gap.                   *)
Insertable(o) == gap[Gap[fresh[o]]] \subseteq {o}
Insert(o) ==
  /\ At(o, "pay") /\ fresh[o] # Nil /\ Insertable(o)
  /\ lock' = [lock EXCEPT ![fresh[o]] = o] /\ fresh' = [fresh EXCEPT ![o] = Nil]
  /\ UNCHANGED <<stage, books, stock, gap, view, moved, done, dealVars, lineVars, posted>>

Settle(o) ==
  /\ At(o, "pay") /\ ~Unpaid(o) /\ fresh[o] = Nil
  /\ Goto(o, "settled") /\ Commit(o)
  /\ UNCHANGED <<dealVars, line, posted>>

-----------------------------------------------------------------------------
(* What goes wrong *)

(* The row an order waits for, and those who keep it waiting                *)
Wants(o) ==
  CASE At(o, "swap") -> Deal[o].card
    [] At(o, "card") -> Deal[o].card
    [] At(o, "lock") /\ Missing(o) # {} -> NextParty(o)
    [] At(o, "pay") /\ Unpaid(o) -> Next1(o).who
    [] OTHER -> Nil
Blockers(o) ==
  IF fresh[o] # Nil THEN gap[Gap[fresh[o]]] \ {o}
  ELSE IF Wants(o) # Nil /\ ~Granted(o, Wants(o)) THEN {lock[Wants(o)]} ELSE {}
Waits(o) == Blockers(o) # {}

(* A lock wait that times out ends the statement only.  The settlement of a *)
(* delivery is caught, and what has been moved is committed with the order; *)
(* anything else gives up.  But a statement that the session sent by itself *)
(* takes the transaction with it: the commit fails.                         *)
WaitTimeout(o) ==
  /\ Waits(o)
  /\ IF ~At(o, "pay") THEN Goto(o, "undone") /\ Rollback(o)
     ELSE IF fresh[o] # Nil THEN Goto(o, "unrecorded") /\ Rollback(o)
     ELSE Goto(o, "partial") /\ Commit(o)
  /\ UNCHANGED <<dealVars, line, posted>>

(* Transactions that wait for each other in a circle: the database rolls    *)
(* one of them back.  A delivery goes on, without a record.                 *)
Deadlocked(S) == S # {} /\ \A o \in S : Blockers(o) \cap S # {}
Circle(S) == Deadlocked(S) /\ \A T \in SUBSET S : Deadlocked(T) => T = S
Victim(o) ==
  /\ Goto(o, IF At(o, "pay") THEN "unrecorded" ELSE "undone") /\ Rollback(o)
  /\ Waits(o) /\ \E S \in SUBSET {p \in Orders : Waits(p)} : o \in S /\ Circle(S)
  /\ UNCHANGED <<dealVars, line, posted>>

(* The process dies.                                                        *)
Crash(o) ==
  /\ stage[o] \notin Ended \cup {"idle"}
  /\ Goto(o, "undone") /\ Rollback(o)
  /\ UNCHANGED <<dealVars, line, posted>>

-----------------------------------------------------------------------------
(* create_withdraw_record and _process_recharge_success lock, check, insert *)
(* a first row and commit in one transaction, which is one step here.       *)

Post(p) ==
  /\ p \notin posted /\ posted' = posted \cup {p}
  /\ lock[p.who] = Nil /\ (p.amount < 0 => balance[p.who] + p.amount >= 0)
  /\ p.who \notin rows => gap[Gap[p.who]] = {}
  /\ balance' = [balance EXCEPT ![p.who] = @ + p.amount]
  /\ flows' = [flows EXCEPT ![p.who] = @ + p.amount]
  /\ rows' = rows \cup {p.who}
  /\ UNCHANGED <<stage, stock, txVars, dealVars, lineVars>>

-----------------------------------------------------------------------------
Step(o) ==
  \/ ReadLines(o) \/ Swap(o) \/ SwapLost(o) \/ Record(o)
  \/ LockParty(o) \/ Weigh(o) \/ TakeLine(o)
  \/ Pay(o) \/ Insert(o) \/ Settle(o) \/ Victim(o)

AgentNext ==
  \/ \E o \in Orders : Check(o) \/ ReadCard(o) \/ Step(o) \/ WaitTimeout(o) \/ Crash(o)
  \/ \E p \in Postings : Post(p)

AgentSpec == AgentInit /\ [][AgentNext]_agentVars

(* Something goes on as long as one order can: every step brings its order  *)
(* nearer to its end, and the database finds every circle.                  *)
AgentFairSpec == AgentSpec /\ WF_agentVars(\E o \in Orders : Step(o))

-----------------------------------------------------------------------------
(* The types; and a transaction has loaded only rows that it has locked, or *)
(* rows that nobody can insert before it ends.                              *)
AgentTypes ==
  /\ stage \in [Orders -> Stages]
  /\ balance \in [Users -> Int] /\ flows \in [Users -> Int] /\ rows \subseteq Users
  /\ stock \in [Cards -> Seq(Lines)]
  /\ lock \in [Users \cup Cards -> Orders \cup {Nil}]
  /\ gap \in [Users -> SUBSET Orders] /\ fresh \in [Orders -> Users \cup {Nil}]
  /\ price \in [Orders -> Terms] /\ \A o \in Orders : price[o] \in Prices[o]
  /\ checked \in [Orders -> Int] /\ asked \in [Orders -> Int]
  /\ read \in [Orders -> Seq(Lines)]
  /\ rounds \in [Orders -> 0..MaxRounds] /\ line \in [Orders -> Lines \cup {Nil}]
  /\ view \in [Orders -> [Users -> Int \cup {Nil}]]
  /\ \A o \in Orders, u \in Users : view[o][u] # Nil =>
       lock[u] = o \/ (u \notin rows /\ lock[u] = Nil /\ o \in gap[Gap[u]])
  /\ moved \in [Orders -> [Users -> Int]]
  /\ done \in [Orders -> Nat] /\ \A o \in Orders : done[o] <= Len(Transfers(o))
  /\ posted \subseteq Postings

(* Every balance is what its flows add up to: no transaction overwrites     *)
(* what another one has paid, although each writes an absolute value.       *)
BooksMatch == \A u \in Users : balance[u] = FirstBalance[u] + flows[u]

Ends(o, S) == stage[o] \notin Ended /\ stage'[o] \in S

(* A settled order has moved, in one step, what _compute_net_deltas says of *)
(* each party, and one that was given up has moved nothing.                 *)
SettledAsAgreed ==
  [][\A o \in Orders :
       /\ Ends(o, {"settled"}) =>
            \A u \in Users : flows'[u] - flows[u] = Delta(o, u)
       /\ Ends(o, {"refused", "undone", "unrecorded"}) => flows' = flows]_agentVars

(* Of everything that moves money, only the settlement of a delivery may    *)
(* leave a balance below zero: a pickup or a withdrawal never does.         *)
OnlyDeliveriesOverdraw ==
  [][\A u \in Users :
       balance'[u] < 0 /\ balance'[u] < balance[u] =>
         \E o \in Deliveries : Ends(o, {"settled", "partial"})]_agentVars

(* A delivery overdraws its dealer only if since the check the dealer's     *)
(* balance has become smaller, or the price, the fee or its payer has       *)
(* changed so that more is charged than the check has asked for.            *)
CheckSuffices ==
  [][\A o \in Deliveries :
       Ends(o, {"settled", "partial"}) /\ balance[Deal[o].dealer] >= checked[o]
       /\ Needed(o, price[o]) <= asked[o] => balance'[Deal[o].dealer] >= 0]_agentVars

(* Pickups wait for each other in a circle only over a first balance row    *)
(* that one of them inserts: over rows that exist they never do.            *)
PickupsDeadlockOnInserts ==
  \A S \in SUBSET Pickups : Deadlocked(S) => \E o \in S : fresh[o] # Nil

(* Two deliveries never get the same line of a card that is not picked up.  *)
PickedUp == {Deal[o].card : o \in Pickups}
DeliveriesShareNoLine ==
  \A o, p \in Deliveries :
     /\ line[o] = line[p] /\ line[o] # Nil
     /\ Deal[o].card = Deal[p].card /\ Deal[o].card \notin PickedUp
     => o = p

(* The row lock keeps one line from going to two pickups, as the docstring  *)
(* of consume_batch_data says.                                              *)
PickupsShareNoLine ==
  \A o, p \in Pickups :
     stage[o] = "settled" /\ stage[p] = "settled" /\ line[o] = line[p] => o = p

(* In the end every order that was begun has ended, whatever it waited for. *)
EveryOrderEnds == <>[](\A o \in Orders : stage[o] \in Ended \cup {"idle"})
=============================================================================
