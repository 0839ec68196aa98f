----------------------------- MODULE AgentProofs -----------------------------
(***************************************************************************)
(* Theorems about AgentOrders, for any users, cards, orders, rows and      *)
(* terms.                                                                  *)
(***************************************************************************)
EXTENDS AgentOrders, FiniteSetTheorems, SequenceTheorems, WellFoundedInduction, TLAPS

(* The rounds of a delivery are counted, its content is not empty when a    *)
(* line is taken from it, and only the settlement moves money.              *)
Counted ==
  \A o \in Orders :
    /\ stage[o] = "idle" => rounds[o] = 0
    /\ stage[o] \in {"take", "swap", "record"} => o \in Deliveries
    /\ stage[o] \in {"take", "swap"} => rounds[o] < MaxRounds
    /\ stage[o] = "swap" => read[o] # <<>>
    /\ stage[o] = "pay" /\ o \in Pickups => read[o] # <<>>
    /\ stage[o] # "pay" => done[o] = 0

(* What a transaction has in view is the committed balance and what it has  *)
(* moved itself.                                                            *)
Ledger ==
  \A o \in Orders, u \in Users :
    IF view[o][u] = Nil THEN moved[o][u] = 0
    ELSE view[o][u] = balance[u] + moved[o][u]

(* A transaction has moved money of users whose row it has locked, or       *)
(* inserted, or has yet to insert; in the last case nobody has the row.     *)
Inserting ==
  \A o \in Orders :
    /\ fresh[o] # Nil => view[o][fresh[o]] # Nil /\ lock[fresh[o]] = Nil
    /\ \A u \in Users : moved[o][u] # 0 => lock[u] = o \/ fresh[o] = u

AgentInv == AgentTypes /\ Counted /\ Ledger /\ Inserting /\ BooksMatch

(* A pickup locks its parties by ascending id and has them all when it      *)
(* takes its line; a card is locked only while its pickup pays.             *)
Ascending ==
  \A o \in Pickups :
    /\ stage[o] = "idle" => \A u \in Users : view[o][u] = Nil
    /\ stage[o] = "lock" =>
         \A u, v \in Parties(o) : view[o][u] # Nil /\ view[o][v] = Nil => u < v
    /\ stage[o] \in {"card", "pay"} => Missing(o) = {}
    /\ \A u \in Users : view[o][u] # Nil => u \in Parties(o)
Holders ==
  /\ \A o \in Orders, u \in Users : lock[u] = o => view[o][u] # Nil
  /\ \A o \in Orders, c \in Cards : lock[c] = o => o \in Pickups /\ stage[o] = "pay"
  /\ \A o \in Orders : stage[o] \in {"lock", "card"} => o \in Pickups

PickupInv == AgentInv /\ Ascending /\ Holders

-----------------------------------------------------------------------------
(* The terms *)

LEMMA RolesTyped ==
  ASSUME NEW o \in Orders
  PROVE  /\ Deal[o].card \in Cards /\ Deal[o].dealer \in Users /\ Deal[o].owner \in Users
         /\ Deal[o].level1 \in Users \cup {Nil}
         /\ Parties(o) \subseteq Users
  BY AgentAssumption DEF Roles, Parties

LEMMA PriceTyped ==
  ASSUME NEW o \in Orders, NEW p \in Terms
  PROVE  /\ p.cost1 \in Nat /\ p.cost2 \in Nat /\ p.fee \in Nat
         /\ p.payer \in {"dealer", "distributor"}
         /\ Cost(o, p) \in Nat /\ Needed(o, p) \in Nat
  BY DEF Terms, Amounts, Cost, Needed

LEMMA PricesAreTerms ==
  ASSUME NEW o \in Orders, NEW p \in Prices[o]
  PROVE  p \in Terms
  BY AgentAssumption

(* An order whose terms are not read again keeps its transfers.             *)
LEMMA SameTerms ==
  ASSUME NEW o \in Orders, price'[o] = price[o]
  PROVE  /\ Transfers(o)' = Transfers(o) /\ Cost(o, price[o])' = Cost(o, price[o])
         /\ Needed(o, price[o])' = Needed(o, price[o])
         /\ \A u \in Users : Delta(o, u)' = Delta(o, u)
  BY DEF Transfers, Chain, Cost, Part, Needed, Delta, Gain

(* Every transfer is to or from a party of the order. *)
LEMMA TransfersTyped ==
  ASSUME NEW o \in Orders, price[o] \in Terms
  PROVE  Transfers(o) \in Seq([who : Parties(o), amount : Int]) /\ Len(Transfers(o)) \in Nat
  <1> DEFINE S == [who : Parties(o), amount : Int]
             d == Deal[o]
             t == price[o]
             agent == IF d.level1 = Nil THEN <<>>
                      ELSE <<Part(d.level1, t.cost2), Part(d.level1, 0 - t.cost1)>>
  <1>2. d.dealer \in Parties(o) /\ d.owner \in Parties(o)
        /\ (d.level1 # Nil => d.level1 \in Parties(o))
    BY RolesTyped, AgentAssumption DEF Parties
  <1>3. \A u \in Parties(o), n \in Int : Part(u, n) \in S
    BY DEF Part
  <1>n. /\ t.cost1 \in Int /\ t.cost2 \in Int /\ 0 - t.cost1 \in Int
        /\ 0 - t.fee \in Int /\ 0 - Cost(o, t) \in Int
    BY PriceTyped
  <1>6. Transfers(o) = Chain(o, t, t.cost1)
    BY DEF Transfers
  <1> HIDE DEF S, d, t
  <1>s. \A x, y \in S : <<x>> \in Seq(S) /\ <<x, y>> \in Seq(S)
    OBVIOUS
  <1>4. agent \in Seq(S)
    <2>1. CASE d.level1 = Nil
      BY <2>1 DEF agent
    <2>2. CASE d.level1 # Nil
      <3>1. Part(d.level1, t.cost2) \in S /\ Part(d.level1, 0 - t.cost1) \in S
        BY <1>2, <1>3, <1>n, <2>2
      <3> QED BY <1>s, <2>2, <3>1 DEF agent
    <2> QED BY <2>1, <2>2
  <1>5. /\ <<Part(d.dealer, 0 - Cost(o, t))>> \in Seq(S) /\ <<Part(d.owner, t.cost1)>> \in Seq(S)
        /\ <<Part(d.owner, 0 - t.fee)>> \in Seq(S) /\ <<Part(d.dealer, 0 - t.fee)>> \in Seq(S)
    BY <1>2, <1>3, <1>s, <1>n
  <1> HIDE DEF agent
  <1>7. Chain(o, t, t.cost1) \in Seq(S)
    <2>1. CASE t.payer = "distributor"
      <3>1. Chain(o, t, t.cost1) = <<Part(d.dealer, 0 - Cost(o, t))>> \o agent
                                \o <<Part(d.owner, t.cost1)>> \o <<Part(d.owner, 0 - t.fee)>>
        BY <2>1 DEF Chain, agent, d
      <3> QED BY <3>1, <1>4, <1>5, ConcatProperties
    <2>2. CASE t.payer # "distributor"
      <3>1. Chain(o, t, t.cost1) = <<Part(d.dealer, 0 - Cost(o, t))>> \o <<Part(d.dealer, 0 - t.fee)>>
                                \o agent \o <<Part(d.owner, t.cost1)>>
        BY <2>2 DEF Chain, agent, d
      <3> QED BY <3>1, <1>4, <1>5, ConcatProperties
    <2> QED BY <2>1, <2>2
  <1> QED BY <1>6, <1>7, LenProperties DEF S

LEMMA NextTyped ==
  ASSUME AgentTypes, NEW o \in Orders, Unpaid(o)
  PROVE  /\ Next1(o).who \in Parties(o) /\ Next1(o).who \in Users /\ Next1(o).amount \in Int
         /\ done[o] + 1 \in Nat /\ done[o] + 1 <= Len(Transfers(o))
  <1>1. Transfers(o) \in Seq([who : Parties(o), amount : Int]) /\ Parties(o) \subseteq Users
    BY TransfersTyped, RolesTyped DEF AgentTypes
  <1>2. done[o] \in Nat /\ done[o] < Len(Transfers(o))
    BY DEF AgentTypes, Unpaid
  <1>3. done[o] + 1 \in 1..Len(Transfers(o)) /\ Len(Transfers(o)) \in Nat
    BY <1>1, <1>2, LenProperties
  <1>4. Transfers(o)[done[o] + 1] \in [who : Parties(o), amount : Int]
    BY <1>1, <1>3, ElementOfSeq
  <1> QED BY <1>1, <1>3, <1>4 DEF Next1

LEMMA LineTaken ==
  ASSUME AgentTypes, NEW o \in Orders, read[o] # <<>>
  PROVE  Head(read[o]) \in Lines /\ Tail(read[o]) \in Seq(Lines)
  <1>1. read[o] \in Seq(Lines)
    BY DEF AgentTypes
  <1> QED BY <1>1, HeadTailProperties

-----------------------------------------------------------------------------
(* Transactions *)

(* A balance that an order has loaded is locked, or is a row that nobody    *)
(* can insert before the order ends.                                        *)
Loads ==
  \A o \in Orders, u \in Users : view[o][u] # Nil =>
    lock[u] = o \/ (u \notin rows /\ lock[u] = Nil /\ o \in gap[Gap[u]])

TxTypes ==
  /\ lock \in [Users \cup Cards -> Orders \cup {Nil}]
  /\ gap \in [Users -> SUBSET Orders] /\ fresh \in [Orders -> Users \cup {Nil}]
  /\ view \in [Orders -> [Users -> Int \cup {Nil}]]
  /\ Loads
  /\ moved \in [Orders -> [Users -> Int]]
  /\ Inserting

DealTypes ==
  /\ price \in [Orders -> Terms] /\ \A o \in Orders : price[o] \in Prices[o]
  /\ checked \in [Orders -> Int] /\ asked \in [Orders -> Int]
  /\ done \in [Orders -> Nat] /\ \A o \in Orders : done[o] <= Len(Transfers(o))

DbTypes ==
  /\ balance \in [Users -> Int] /\ flows \in [Users -> Int] /\ rows \subseteq Users
  /\ stock \in [Cards -> Seq(Lines)]

LineTypes ==
  /\ read \in [Orders -> Seq(Lines)]
  /\ rounds \in [Orders -> 0..MaxRounds] /\ line \in [Orders -> Lines \cup {Nil}]

LEMMA NextInv ==
  ASSUME stage' \in [Orders -> Stages], posted' \subseteq Postings,
         TxTypes', DealTypes', DbTypes', LineTypes', Counted', Ledger', BooksMatch'
  PROVE  AgentInv'
  BY DEF AgentInv, AgentTypes, TxTypes, DealTypes, DbTypes, LineTypes, Loads

(* The terms do not change, and an order's transfers are done one by one.   *)
LEMMA DealKept ==
  ASSUME AgentInv, UNCHANGED dealVars, done' \in [Orders -> Nat],
         \A o \in Orders : done'[o] <= Len(Transfers(o))
  PROVE  DealTypes'
  <1>1. \A o \in Orders : Transfers(o)' = Transfers(o)
    BY SameTerms DEF dealVars
  <1> QED BY <1>1 DEF dealVars, AgentInv, AgentTypes, DealTypes

LEMMA EndTxStep ==
  ASSUME AgentInv, NEW o \in Orders, EndTx(o), UNCHANGED dealVars,
         \A u \in rows' : u \in rows \/ lock[u] = o
  PROVE  /\ TxTypes' /\ DealTypes'
         /\ \A u \in Users : view'[o][u] = Nil /\ moved'[o][u] = 0
         /\ \A p \in Orders \ {o} : view'[p] = view[p] /\ moved'[p] = moved[p]
         /\ read'[o] = <<>> /\ read' \in [Orders -> Seq(Lines)]
         /\ rounds'[o] = 0 /\ rounds' \in [Orders -> 0..MaxRounds]
         /\ done'[o] = 0
         /\ \A p \in Orders \ {o} : read'[p] = read[p] /\ rounds'[p] = rounds[p] /\ done'[p] = done[p]
  <1>1. \A u \in Users : Unread[u] = Nil /\ Nothing[u] = 0
    BY DEF Unread, Nothing
  <1>2. Unread \in [Users -> Int \cup {Nil}] /\ Nothing \in [Users -> Int]
    BY DEF Unread, Nothing
  <1>3. lock \in [Users \cup Cards -> Orders \cup {Nil}]
        /\ gap \in [Users -> SUBSET Orders] /\ fresh \in [Orders -> Users \cup {Nil}]
        /\ view \in [Orders -> [Users -> Int \cup {Nil}]]
        /\ moved \in [Orders -> [Users -> Int]]
        /\ read \in [Orders -> Seq(Lines)] /\ rounds \in [Orders -> 0..MaxRounds]
        /\ done \in [Orders -> Nat] /\ MaxRounds \in Nat
    BY AgentAssumption DEF AgentInv, AgentTypes
  <1>4. /\ view' = [view EXCEPT ![o] = Unread]
        /\ moved' = [moved EXCEPT ![o] = Nothing]
        /\ lock' = [r \in Users \cup Cards |-> IF lock[r] = o THEN Nil ELSE lock[r]]
        /\ gap' = [u \in Users |-> gap[u] \ {o}] /\ fresh' = [fresh EXCEPT ![o] = Nil]
        /\ done' = [done EXCEPT ![o] = 0]
        /\ read' = [read EXCEPT ![o] = <<>>] /\ rounds' = [rounds EXCEPT ![o] = 0]
    BY DEF EndTx, Forget
  <1>5. \A p \in Orders \ {o} : /\ view'[p] = view[p] /\ moved'[p] = moved[p]
                                /\ fresh'[p] = fresh[p]
                                /\ read'[p] = read[p] /\ rounds'[p] = rounds[p] /\ done'[p] = done[p]
    BY <1>3, <1>4
  <1>6. /\ view'[o] = Unread /\ moved'[o] = Nothing /\ fresh'[o] = Nil
        /\ read'[o] = <<>> /\ rounds'[o] = 0 /\ done'[o] = 0
    BY <1>3, <1>4
  <1>7. lock' \in [Users \cup Cards -> Orders \cup {Nil}] /\ gap' \in [Users -> SUBSET Orders]
        /\ fresh' \in [Orders -> Users \cup {Nil}]
    BY <1>3, <1>4
  <1>8. view' \in [Orders -> [Users -> Int \cup {Nil}]] /\ moved' \in [Orders -> [Users -> Int]]
    BY <1>2, <1>3, <1>4
  <1>9. Loads'
    <2> SUFFICES ASSUME NEW p \in Orders, NEW u \in Users, view'[p][u] # Nil
                 PROVE  lock'[u] = p \/ (u \notin rows' /\ lock'[u] = Nil /\ p \in gap'[Gap[u]])
      BY DEF Loads
    <2>1. p # o /\ view[p][u] # Nil
      BY <1>1, <1>5, <1>6
    <2>2. CASE lock[u] = p
      BY <2>1, <2>2, <1>4
    <2>3. CASE u \notin rows /\ lock[u] = Nil /\ p \in gap[Gap[u]]
      <3>1. u \notin rows' /\ lock'[u] = Nil
        BY <2>3, <1>4, AgentAssumption
      <3>2. p \in gap'[Gap[u]]
        BY <2>1, <2>3, <1>4, AgentAssumption
      <3> QED BY <3>1, <3>2
    <2> QED BY <2>1, <2>2, <2>3 DEF AgentInv, AgentTypes
  <1>10. DealTypes'
    <2>1. \A p \in Orders : Len(Transfers(p)) \in Nat
      BY TransfersTyped DEF AgentInv, AgentTypes
    <2>2. done' \in [Orders -> Nat] /\ \A p \in Orders : done'[p] <= Len(Transfers(p))
      BY <2>1, <1>4 DEF AgentInv, AgentTypes
    <2> QED BY <2>2, DealKept
  <1>11. Inserting'
    <2> SUFFICES ASSUME NEW p \in Orders
                 PROVE  /\ fresh'[p] # Nil => view'[p][fresh'[p]] # Nil /\ lock'[fresh'[p]] = Nil
                        /\ \A u \in Users : moved'[p][u] # 0 => lock'[u] = p \/ fresh'[p] = u
      BY DEF Inserting
    <2>1. CASE p = o
      BY <1>1, <1>6, <2>1
    <2>2. CASE p # o
      <3>1. /\ fresh[p] # Nil => view[p][fresh[p]] # Nil /\ lock[fresh[p]] = Nil
            /\ \A u \in Users : moved[p][u] # 0 => lock[u] = p \/ fresh[p] = u
        BY DEF AgentInv, Inserting
      <3>2. fresh[p] # Nil => fresh[p] \in Users
        BY <1>3
      <3>3. \A u \in Users : (lock[u] = p => lock'[u] = p) /\ (lock[u] = Nil => lock'[u] = Nil)
        BY <1>4, <2>2
      <3> QED BY <1>5, <2>2, <3>1, <3>2, <3>3
    <2> QED BY <2>1, <2>2
  <1>12. read' \in [Orders -> Seq(Lines)] /\ rounds' \in [Orders -> 0..MaxRounds]
    <2>1. <<>> \in Seq(Lines) /\ 0 \in 0..MaxRounds
      BY <1>3
    <2> QED BY <1>3, <1>4, <2>1
  <1> QED BY <1>1, <1>5, <1>6, <1>7, <1>8, <1>9, <1>10, <1>11, <1>12 DEF TxTypes

LEMMA RollbackStep ==
  ASSUME AgentInv, NEW o \in Orders, Rollback(o), UNCHANGED dealVars
  PROVE  TxTypes' /\ DealTypes' /\ DbTypes' /\ Ledger' /\ BooksMatch'
  <1>1. /\ EndTx(o) /\ balance' = balance /\ flows' = flows /\ rows' = rows /\ stock' = stock
    BY DEF Rollback, books
  <1>2. /\ TxTypes' /\ DealTypes'
        /\ \A u \in Users : view'[o][u] = Nil /\ moved'[o][u] = 0
        /\ \A p \in Orders \ {o} : view'[p] = view[p] /\ moved'[p] = moved[p]
    BY <1>1, EndTxStep
  <1>3. Ledger'
    BY <1>1, <1>2 DEF AgentInv, Ledger
  <1>4. DbTypes' /\ BooksMatch'
    BY <1>1 DEF AgentInv, AgentTypes, DbTypes, BooksMatch
  <1> QED BY <1>2, <1>3, <1>4

(* A commit changes only balances of rows that the transaction has locked:  *)
(* whoever else has loaded one has loaded a row that does not exist, and    *)
(* the transaction has moved nothing there.                                 *)
LEMMA CommitMoves ==
  ASSUME AgentInv, NEW o \in Orders, Commit(o), NEW u \in Users
  PROVE  /\ balance'[u] = balance[u] + moved[o][u] /\ flows'[u] = flows[u] + moved[o][u]
         /\ balance[u] \in Int /\ flows[u] \in Int /\ moved[o][u] \in Int
  <1>1. /\ balance[u] \in Int /\ flows[u] \in Int /\ moved[o][u] \in Int
        /\ view[o][u] \in Int \cup {Nil}
    BY DEF AgentInv, AgentTypes
  <1>2. Loaded(o, u) = balance[u] + moved[o][u]
    BY <1>1 DEF Loaded, AgentInv, Ledger
  <1> QED BY <1>1, <1>2 DEF Commit

LEMMA CommitKeeps ==
  ASSUME AgentInv, NEW o \in Orders, NEW p \in Orders, p # o, NEW u \in Users,
         view[p][u] # Nil, Commit(o), fresh[o] = Nil
  PROVE  balance'[u] = balance[u]
  <1>1. lock[u] # o
    BY AgentAssumption DEF AgentInv, AgentTypes
  <1>2. moved[o][u] = 0
    BY <1>1, AgentAssumption DEF AgentInv, Inserting
  <1> QED BY <1>2, CommitMoves

LEMMA CommitStep ==
  ASSUME AgentInv, NEW o \in Orders, Commit(o), fresh[o] = Nil, UNCHANGED dealVars,
         o \in Pickups => read[o] # <<>>
  PROVE  TxTypes' /\ DealTypes' /\ DbTypes' /\ Ledger' /\ BooksMatch'
  <1>1. /\ EndTx(o)
        /\ balance' = [u \in Users |-> Loaded(o, u)]
        /\ flows' = [u \in Users |-> flows[u] + moved[o][u]]
        /\ rows' = rows \cup {u \in Users : lock[u] = o}
    BY DEF Commit
  <1>2. /\ TxTypes' /\ DealTypes'
        /\ \A u \in Users : view'[o][u] = Nil /\ moved'[o][u] = 0
        /\ \A p \in Orders \ {o} : view'[p] = view[p] /\ moved'[p] = moved[p]
    BY <1>1, EndTxStep
  <1>3. \A u \in Users : /\ balance'[u] = balance[u] + moved[o][u]
                         /\ flows'[u] = flows[u] + moved[o][u]
                         /\ balance[u] \in Int /\ flows[u] \in Int /\ moved[o][u] \in Int
    BY CommitMoves
  <1>6. balance' \in [Users -> Int] /\ flows' \in [Users -> Int] /\ rows' \subseteq Users
    <2>1. \A u \in Users : balance'[u] \in Int /\ flows'[u] \in Int
      BY <1>3
    <2> QED BY <1>1, <2>1 DEF AgentInv, AgentTypes
  <1>7. BooksMatch'
    <2> SUFFICES ASSUME NEW u \in Users
                 PROVE  balance'[u] = FirstBalance[u] + flows'[u]
      BY DEF BooksMatch
    <2>1. balance[u] = FirstBalance[u] + flows[u] /\ FirstBalance[u] \in Int
      BY AgentAssumption DEF AgentInv, BooksMatch
    <2> QED BY <2>1, <1>3
  <1>8. Ledger'
    <2> SUFFICES ASSUME NEW p \in Orders, NEW u \in Users
                 PROVE  IF view'[p][u] = Nil THEN moved'[p][u] = 0
                        ELSE view'[p][u] = balance'[u] + moved'[p][u]
      BY DEF Ledger
    <2>1. CASE p = o
      BY <2>1, <1>2
    <2>2. CASE p # o
      <3>1. IF view[p][u] = Nil THEN moved[p][u] = 0
            ELSE view[p][u] = balance[u] + moved[p][u]
        BY DEF AgentInv, Ledger
      <3>3. view[p][u] # Nil => balance'[u] = balance[u]
        BY <2>2, CommitKeeps
      <3>4. view'[p][u] = view[p][u] /\ moved'[p][u] = moved[p][u]
        BY <2>2, <1>2
      <3> QED BY <3>1, <3>3, <3>4
    <2> QED BY <2>1, <2>2
  <1>9. stock' \in [Cards -> Seq(Lines)]
    <2>1. CASE o \in Pickups
      <3>1. Tail(read[o]) \in Seq(Lines) /\ Deal[o].card \in Cards
        BY <2>1, LineTaken, RolesTyped DEF AgentInv
      <3> QED BY <2>1, <3>1 DEF Commit, AgentInv, AgentTypes
    <2>2. CASE o \notin Pickups
      BY <2>2 DEF Commit, AgentInv, AgentTypes
    <2> QED BY <2>1, <2>2
  <1> QED BY <1>2, <1>6, <1>7, <1>8, <1>9 DEF DbTypes

-----------------------------------------------------------------------------
(* The steps *)

(* A step that neither ends nor changes a transaction *)
LEMMA Untouched ==
  ASSUME AgentInv, UNCHANGED <<books, txVars>>
  PROVE  /\ TxTypes' /\ Ledger' /\ BooksMatch'
         /\ balance' \in [Users -> Int] /\ flows' \in [Users -> Int] /\ rows' \subseteq Users
         /\ done' = done
         /\ UNCHANGED dealVars => DealTypes'
  <1>1. /\ TxTypes' /\ Ledger' /\ BooksMatch'
        /\ balance' \in [Users -> Int] /\ flows' \in [Users -> Int] /\ rows' \subseteq Users
        /\ done' = done
    BY DEF books, txVars, AgentInv, AgentTypes, TxTypes, Loads, Inserting, Ledger, BooksMatch
  <1>2. done \in [Orders -> Nat] /\ \A o \in Orders : done[o] <= Len(Transfers(o))
    BY DEF AgentInv, AgentTypes
  <1> QED BY <1>1, <1>2, DealKept

(* An order reads its terms before it has moved anything.                   *)
LEMMA Repriced ==
  ASSUME AgentInv, NEW o \in Orders, NEW p \in Prices[o], stage[o] # "pay", done' = done,
         price' = [price EXCEPT ![o] = p],
         checked' \in [Orders -> Int], asked' \in [Orders -> Int]
  PROVE  DealTypes' /\ price'[o] = p /\ \A q \in Orders \ {o} : price'[q] = price[q]
  <1>1. /\ price' \in [Orders -> Terms] /\ price'[o] = p
        /\ \A q \in Orders \ {o} : price'[q] = price[q]
        /\ \A q \in Orders : price'[q] \in Prices[q]
    BY PricesAreTerms DEF AgentInv, AgentTypes
  <1>2. \A q \in Orders : done'[q] <= Len(Transfers(q))'
    <2> TAKE q \in Orders
    <2>1. CASE q = o
      <3>1. done[o] = 0
        BY DEF AgentInv, Counted
      <3>2. price'[o] \in Terms
        BY <1>1
      <3>3. Len(Transfers(o))' \in Nat
        BY <3>2, TransfersTyped
      <3> QED BY <2>1, <3>1, <3>3
    <2>2. CASE q # o
      <3>1. Transfers(q)' = Transfers(q)
        BY <1>1, <2>2, SameTerms
      <3> QED BY <3>1 DEF AgentInv, AgentTypes
    <2> QED BY <2>1, <2>2
  <1> QED BY <1>1, <1>2 DEF AgentInv, AgentTypes, DealTypes

LEMMA CheckStep ==
  ASSUME AgentInv, NEW o \in Orders, Check(o)
  PROVE  AgentInv'
  <1>1. UNCHANGED <<books, stock, txVars, lineVars, posted>> /\ stage[o] = "idle" /\ o \in Deliveries
    BY DEF Check, At
  <1>2. TxTypes' /\ DbTypes' /\ Ledger' /\ BooksMatch' /\ LineTypes' /\ posted' \subseteq Postings
    BY <1>1, Untouched DEF lineVars, AgentInv, AgentTypes, DbTypes, LineTypes
  <1>3. CASE Goto(o, "refused") /\ UNCHANGED dealVars
    <2>1. DealTypes'
      BY <1>1, <1>3, Untouched
    <2>2. stage' \in [Orders -> Stages] /\ Counted'
      BY <1>1, <1>3 DEF Goto, Stages, Ended, lineVars, txVars, Counted, AgentInv, AgentTypes
    <2> QED BY <1>2, <2>1, <2>2, NextInv
  <1>4. ASSUME NEW p \in Prices[o], Goto(o, "take"), price' = [price EXCEPT ![o] = p],
               checked' = [checked EXCEPT ![o] = balance[Deal[o].dealer]],
               asked' = [asked EXCEPT ![o] = Needed(o, p)]
        PROVE  AgentInv'
    <2>1. balance[Deal[o].dealer] \in Int /\ Needed(o, p) \in Int
      BY RolesTyped, PricesAreTerms, PriceTyped DEF AgentInv, AgentTypes
    <2>2. checked' \in [Orders -> Int] /\ asked' \in [Orders -> Int]
      BY <1>4, <2>1 DEF AgentInv, AgentTypes
    <2>3. DealTypes'
      BY <1>1, <1>4, <2>2, Repriced DEF txVars
    <2>4. stage' \in [Orders -> Stages] /\ Counted'
      BY <1>1, <1>4, AgentAssumption DEF Goto, Stages, lineVars, txVars, Counted, AgentInv, AgentTypes
    <2> QED BY <1>2, <2>3, <2>4, NextInv
  <1> QED BY <1>3, <1>4 DEF Check

LEMMA ReadLinesStep ==
  ASSUME AgentInv, NEW o \in Orders, ReadLines(o)
  PROVE  AgentInv'
  <1>1. UNCHANGED <<books, stock, txVars, dealVars, rounds, line, posted>>
    BY DEF ReadLines
  <1>2. TxTypes' /\ DealTypes' /\ DbTypes' /\ Ledger' /\ BooksMatch' /\ posted' \subseteq Postings
    BY <1>1, Untouched DEF AgentInv, AgentTypes, DbTypes
  <1>3. stock[Deal[o].card] \in Seq(Lines)
    BY RolesTyped DEF AgentInv, AgentTypes
  <1>4. stage' \in [Orders -> Stages] /\ LineTypes'
    BY <1>1, <1>3 DEF ReadLines, Goto, Stages, Ended, AgentInv, AgentTypes, LineTypes
  <1>5. Counted'
    BY <1>1 DEF ReadLines, At, Goto, txVars, Counted, AgentInv, AgentTypes
  <1> QED BY <1>2, <1>4, <1>5, NextInv

LEMMA SwapStep ==
  ASSUME AgentInv, NEW o \in Orders, Swap(o)
  PROVE  AgentInv'
  <1>1. UNCHANGED <<books, txVars, dealVars, posted>> /\ Forget(o)
    BY DEF Swap
  <1>2. o \in Deliveries /\ o \notin Pickups /\ read[o] # <<>>
    BY AgentAssumption DEF Swap, At, AgentInv, Counted
  <1>3. Head(read[o]) \in Lines /\ Tail(read[o]) \in Seq(Lines) /\ Deal[o].card \in Cards
    BY <1>2, LineTaken, RolesTyped DEF AgentInv
  <1>4. TxTypes' /\ DealTypes' /\ Ledger' /\ BooksMatch'
    BY <1>1, Untouched
  <1>5. DbTypes' /\ stage' \in [Orders -> Stages] /\ posted' \subseteq Postings
    BY <1>1, <1>3, Untouched DEF Swap, Goto, Stages, AgentInv, AgentTypes, DbTypes
  <1>6. LineTypes'
    <2>1. <<>> \in Seq(Lines) /\ 0 \in 0..MaxRounds
      BY AgentAssumption
    <2> QED BY <1>1, <1>3, <2>1 DEF Swap, Forget, AgentInv, AgentTypes, LineTypes
  <1>7. Counted'
    BY <1>1, <1>2 DEF Swap, Forget, At, Goto, txVars, Counted, AgentInv, AgentTypes
  <1> QED BY <1>4, <1>5, <1>6, <1>7, NextInv

LEMMA SwapLostStep ==
  ASSUME AgentInv, NEW o \in Orders, SwapLost(o)
  PROVE  AgentInv'
  <1>1. UNCHANGED <<books, stock, txVars, dealVars, line, posted>> /\ stage[o] = "swap"
    BY DEF SwapLost, At
  <1>2. TxTypes' /\ DealTypes' /\ DbTypes' /\ Ledger' /\ BooksMatch' /\ posted' \subseteq Postings
    BY <1>1, Untouched DEF AgentInv, AgentTypes, DbTypes
  <1>3. rounds[o] \in Nat /\ rounds[o] < MaxRounds /\ MaxRounds \in Nat /\ o \in Deliveries
    BY <1>1, AgentAssumption DEF AgentInv, AgentTypes, Counted
  <1>4. CASE rounds[o] + 1 = MaxRounds
    <2>1. Goto(o, "refused") /\ Forget(o)
      BY <1>4 DEF SwapLost
    <2>2. <<>> \in Seq(Lines) /\ 0 \in 0..MaxRounds
      BY <1>3
    <2>3. stage' \in [Orders -> Stages] /\ LineTypes'
      BY <1>1, <2>1, <2>2 DEF Goto, Forget, Stages, Ended, AgentInv, AgentTypes, LineTypes
    <2>4. Counted'
      BY <1>1, <2>1, <2>2 DEF Goto, Forget, txVars, Counted, AgentInv, AgentTypes
    <2> QED BY <1>2, <2>3, <2>4, NextInv
  <1>5. CASE rounds[o] + 1 # MaxRounds
    <2>1. Goto(o, "take") /\ rounds' = [rounds EXCEPT ![o] = rounds[o] + 1] /\ read' = read
      BY <1>5 DEF SwapLost
    <2>2. rounds' \in [Orders -> 0..MaxRounds] /\ rounds'[o] < MaxRounds
          /\ \A p \in Orders \ {o} : rounds'[p] = rounds[p]
      <3>1. rounds[o] + 1 \in 0..MaxRounds /\ rounds[o] + 1 < MaxRounds
        BY <1>3, <1>5
      <3> QED BY <2>1, <3>1 DEF AgentInv, AgentTypes
    <2>3. stage' \in [Orders -> Stages] /\ LineTypes'
      BY <1>1, <2>1, <2>2 DEF Goto, Stages, AgentInv, AgentTypes, LineTypes
    <2>4. Counted'
      BY <1>1, <1>3, <2>1, <2>2 DEF Goto, txVars, Counted, AgentInv, AgentTypes
    <2> QED BY <1>2, <2>3, <2>4, NextInv
  <1> QED BY <1>4, <1>5

LEMMA RecordStep ==
  ASSUME AgentInv, NEW o \in Orders, Record(o)
  PROVE  AgentInv'
  <1>1. UNCHANGED <<books, stock, txVars, checked, asked, lineVars, posted>> /\ stage[o] = "record"
        /\ Goto(o, "pay") /\ o \in Deliveries /\ o \notin Pickups
    BY AgentAssumption DEF Record, At, AgentInv, Counted
  <1>2. TxTypes' /\ DbTypes' /\ Ledger' /\ BooksMatch' /\ LineTypes' /\ posted' \subseteq Postings
    BY <1>1, Untouched DEF lineVars, AgentInv, AgentTypes, DbTypes, LineTypes
  <1>3. PICK p \in Prices[o] : price' = [price EXCEPT ![o] = p]
    BY DEF Record
  <1>4. DealTypes'
    BY <1>1, <1>3, Repriced DEF txVars, AgentInv, AgentTypes
  <1>5. stage' \in [Orders -> Stages] /\ Counted'
    BY <1>1 DEF Goto, Stages, lineVars, txVars, Counted, AgentInv, AgentTypes
  <1> QED BY <1>2, <1>4, <1>5, NextInv

LEMMA ReadCardStep ==
  ASSUME AgentInv, NEW o \in Orders, ReadCard(o)
  PROVE  AgentInv'
  <1>1. UNCHANGED <<books, stock, txVars, checked, asked, rounds, line, posted>>
        /\ stage[o] = "idle" /\ Goto(o, "lock") /\ read' = [read EXCEPT ![o] = stock[Deal[o].card]]
    BY DEF ReadCard, At
  <1>2. TxTypes' /\ DbTypes' /\ Ledger' /\ BooksMatch' /\ posted' \subseteq Postings
    BY <1>1, Untouched DEF AgentInv, AgentTypes, DbTypes
  <1>3. stock[Deal[o].card] \in Seq(Lines)
    BY RolesTyped DEF AgentInv, AgentTypes
  <1>4. PICK p \in Prices[o] : price' = [price EXCEPT ![o] = p]
    BY DEF ReadCard
  <1>5. DealTypes'
    BY <1>1, <1>4, Repriced DEF txVars, AgentInv, AgentTypes
  <1>6. stage' \in [Orders -> Stages] /\ LineTypes' /\ Counted'
    BY <1>1, <1>3 DEF Goto, Stages, txVars, Counted, AgentInv, AgentTypes, LineTypes
  <1> QED BY <1>2, <1>5, <1>6, NextInv

(* A transaction locks a free row, or the gap of a row that does not exist, *)
(* and loads or changes the balance; a balance it changes is locked or has  *)
(* yet to be inserted.                                                      *)
LEMMA RowStep ==
  ASSUME AgentInv, NEW o \in Orders, NEW u \in Users, NEW n \in Int, SelectForUpdate(o, u),
         view' = [view EXCEPT ![o][u] = Loaded(o, u) + n],
         moved' = [moved EXCEPT ![o][u] = @ + n],
         \/ fresh' = fresh /\ n = 0
         \/ fresh[o] = Nil /\ fresh' = [fresh EXCEPT ![o] = IF Exists(o, u) THEN Nil ELSE u],
         UNCHANGED books
  PROVE  /\ TxTypes' /\ Ledger' /\ BooksMatch'
         /\ view'[o][u] # Nil
         /\ \A p \in Orders, v \in Users : p # o \/ v # u => view'[p][v] = view[p][v]
         /\ \A p \in Orders, r \in Users \cup Cards : lock'[r] = p => lock[r] = p \/ (p = o /\ r = u)
  <1>1. /\ balance[u] \in Int /\ moved[o][u] \in Int /\ view[o][u] \in Int \cup {Nil}
        /\ view \in [Orders -> [Users -> Int \cup {Nil}]] /\ moved \in [Orders -> [Users -> Int]]
        /\ lock \in [Users \cup Cards -> Orders \cup {Nil}]
        /\ gap \in [Users -> SUBSET Orders] /\ fresh \in [Orders -> Users \cup {Nil}]
        /\ Loads /\ Inserting
    BY DEF AgentInv, AgentTypes, Loads
  <1>2. Loaded(o, u) \in Int /\ Loaded(o, u) = balance[u] + moved[o][u]
    BY <1>1 DEF Loaded, AgentInv, Ledger
  <1>g. Granted(o, u) /\ Gap[u] \in Users /\ rows' = rows
    BY AgentAssumption DEF SelectForUpdate, books
  <1>l. \/ /\ Exists(o, u) /\ lock' = [lock EXCEPT ![u] = o] /\ gap' = gap
        \/ /\ ~Exists(o, u) /\ lock' = lock /\ gap' = [gap EXCEPT ![Gap[u]] = gap[Gap[u]] \cup {o}]
    BY DEF SelectForUpdate
  <1>3. /\ lock' \in [Users \cup Cards -> Orders \cup {Nil}]
        /\ gap' \in [Users -> SUBSET Orders]
        /\ view' \in [Orders -> [Users -> Int \cup {Nil}]]
        /\ moved' \in [Orders -> [Users -> Int]]
        /\ fresh' \in [Orders -> Users \cup {Nil}]
    <2>1. lock' \in [Users \cup Cards -> Orders \cup {Nil}] /\ gap' \in [Users -> SUBSET Orders]
      <3>1. gap[Gap[u]] \cup {o} \in SUBSET Orders
        BY <1>1, <1>g
      <3>2. CASE lock' = [lock EXCEPT ![u] = o] /\ gap' = gap
        BY <1>1, <3>2
      <3>3. CASE lock' = lock /\ gap' = [gap EXCEPT ![Gap[u]] = gap[Gap[u]] \cup {o}]
        BY <1>1, <3>1, <3>3
      <3> QED BY <1>l, <3>2, <3>3
    <2>2. view' \in [Orders -> [Users -> Int \cup {Nil}]] /\ moved' \in [Orders -> [Users -> Int]]
      BY <1>1, <1>2
    <2>3. fresh' \in [Orders -> Users \cup {Nil}]
      BY <1>1
    <2> QED BY <2>1, <2>2, <2>3
  <1>4. view'[o][u] = balance[u] + (moved[o][u] + n) /\ moved'[o][u] = moved[o][u] + n
    BY <1>1, <1>2
  <1>n. view'[o][u] # Nil
    BY <1>1, <1>4, AgentAssumption
  <1>5. \A p \in Orders, v \in Users :
          p # o \/ v # u => view'[p][v] = view[p][v] /\ moved'[p][v] = moved[p][v]
    BY <1>1
  <1>k. /\ \A r \in Users \cup Cards : r # u => lock'[r] = lock[r]
        /\ \A v \in Users : gap[v] \subseteq gap'[v]
        /\ Exists(o, u) => lock'[u] = o
        /\ ~Exists(o, u) => u \notin rows /\ lock[u] = Nil /\ lock'[u] = Nil /\ o \in gap'[Gap[u]]
    <2>1. CASE Exists(o, u)
      BY <2>1, <1>1, <1>l
    <2>2. CASE ~Exists(o, u)
      BY <2>2, <1>1, <1>g, <1>l DEF Exists, Granted
    <2> QED BY <2>1, <2>2
  <1>6. Loads'
    <2> SUFFICES ASSUME NEW p \in Orders, NEW v \in Users, view'[p][v] # Nil
                 PROVE  lock'[v] = p \/ (v \notin rows' /\ lock'[v] = Nil /\ p \in gap'[Gap[v]])
      BY DEF Loads
    <2>0. Gap[v] \in Users
      BY AgentAssumption
    <2>1. CASE p = o /\ v = u
      BY <2>1, <1>g, <1>k
    <2>2. CASE v # u
      <3>1. lock[v] = p \/ (v \notin rows /\ lock[v] = Nil /\ p \in gap[Gap[v]])
        BY <2>2, <1>1, <1>5 DEF Loads
      <3> QED BY <2>0, <2>2, <3>1, <1>g, <1>k
    <2>3. CASE p # o /\ v = u
      <3>1. lock[u] = p \/ (u \notin rows /\ lock[u] = Nil /\ p \in gap[Gap[u]])
        BY <2>3, <1>1, <1>5 DEF Loads
      <3>2. u \notin rows /\ lock[u] = Nil /\ p \in gap[Gap[u]]
        BY <2>3, <3>1, <1>g, AgentAssumption DEF Granted
      <3>3. ~Exists(o, u)
        BY <3>2, AgentAssumption DEF Exists
      <3> QED BY <2>0, <2>3, <3>2, <3>3, <1>g, <1>k
    <2> QED BY <2>1, <2>2, <2>3
  <1>i. Inserting'
    <2> SUFFICES ASSUME NEW p \in Orders
                 PROVE  /\ fresh'[p] # Nil => view'[p][fresh'[p]] # Nil /\ lock'[fresh'[p]] = Nil
                        /\ \A v \in Users : moved'[p][v] # 0 => lock'[v] = p \/ fresh'[p] = v
      BY DEF Inserting
    <2>1. /\ fresh[p] # Nil => view[p][fresh[p]] # Nil /\ lock[fresh[p]] = Nil
          /\ \A v \in Users : moved[p][v] # 0 => lock[v] = p \/ fresh[p] = v
      BY <1>1 DEF Inserting
    <2>2. fresh[p] # Nil => fresh[p] \in Users
      BY <1>1
    <2>3. fresh[p] # Nil => ~(Exists(o, u) /\ fresh[p] = u)
      <3> SUFFICES ASSUME fresh[p] = u, fresh[p] # Nil, Exists(o, u) PROVE FALSE
        OBVIOUS
      <3>1. view[p][u] # Nil /\ lock[u] = Nil
        BY <2>1
      <3>2. u \notin rows
        BY <3>1, <1>1, AgentAssumption DEF Loads
      <3> QED BY <3>1, <3>2, AgentAssumption DEF Exists
    <2>4. fresh[p] # Nil => view'[p][fresh[p]] # Nil /\ lock'[fresh[p]] = Nil
      <3> SUFFICES ASSUME fresh[p] # Nil PROVE view'[p][fresh[p]] # Nil /\ lock'[fresh[p]] = Nil
        OBVIOUS
      <3>1. view'[p][fresh[p]] # Nil
        BY <2>1, <2>2, <1>5, <1>n
      <3>2. lock'[fresh[p]] = Nil
        BY <2>1, <2>2, <2>3, <1>k
      <3> QED BY <3>1, <3>2
    <2>5. \A v \in Users : lock[v] = p => lock'[v] = p
      <3>1. lock[u] = p => p = o /\ Exists(o, u)
        BY <1>g, AgentAssumption DEF Granted, Exists
      <3> QED BY <1>k, <3>1
    <2>6. CASE fresh' = fresh /\ n = 0
      <3>1. \A v \in Users : moved'[p][v] = moved[p][v]
        BY <2>6, <1>1, <1>4, <1>5
      <3> QED BY <2>1, <2>4, <2>5, <2>6, <3>1
    <2>7. CASE fresh[o] = Nil /\ fresh' = [fresh EXCEPT ![o] = IF Exists(o, u) THEN Nil ELSE u] /\ p = o
      <3>1. fresh'[o] = IF Exists(o, u) THEN Nil ELSE u
        BY <2>7, <1>1
      <3>2. \A v \in Users : moved[o][v] # 0 => lock[v] = o
        BY <2>1, <2>7, AgentAssumption
      <3>3. \A v \in Users : moved'[o][v] # 0 => lock'[v] = o \/ fresh'[o] = v
        BY <2>5, <2>7, <3>1, <3>2, <1>5, <1>k
      <3> QED BY <2>7, <3>1, <3>3, <1>k, <1>n
    <2>8. CASE fresh[o] = Nil /\ fresh' = [fresh EXCEPT ![o] = IF Exists(o, u) THEN Nil ELSE u] /\ p # o
      <3>1. fresh'[p] = fresh[p] /\ \A v \in Users : moved'[p][v] = moved[p][v]
        BY <2>8, <1>1, <1>5
      <3> QED BY <2>1, <2>4, <2>5, <3>1
    <2> QED BY <2>6, <2>7, <2>8
  <1>7. Ledger'
    <2> SUFFICES ASSUME NEW p \in Orders, NEW v \in Users
                 PROVE  IF view'[p][v] = Nil THEN moved'[p][v] = 0
                        ELSE view'[p][v] = balance'[v] + moved'[p][v]
      BY DEF Ledger
    <2>1. CASE p = o /\ v = u
      BY <2>1, <1>1, <1>4, AgentAssumption DEF books
    <2>2. CASE p # o \/ v # u
      BY <2>2, <1>5 DEF books, AgentInv, Ledger
    <2> QED BY <2>1, <2>2
  <1>8. BooksMatch'
    BY DEF books, AgentInv, BooksMatch
  <1>9. \A p \in Orders, r \in Users \cup Cards : lock'[r] = p => lock[r] = p \/ (p = o /\ r = u)
    BY <1>1, <1>l, AgentAssumption
  <1> QED BY <1>3, <1>5, <1>6, <1>7, <1>8, <1>9, <1>i, <1>n DEF TxTypes

(* The next party to lock is the one of smallest id. *)
LEMMA NextLeast ==
  ASSUME NEW o \in Orders, Missing(o) # {}
  PROVE  /\ NextParty(o) \in Missing(o) /\ NextParty(o) \in Users
         /\ \A v \in Missing(o) : NextParty(o) <= v
  <1>1. Missing(o) \subseteq Nat /\ Missing(o) \subseteq Users
    BY RolesTyped, AgentAssumption DEF Missing
  <1>2. PICK u \in Missing(o) : \A v \in Missing(o) : <<v, u>> \notin OpToRel(<, Nat)
    BY <1>1, WFMin, NatLessThanWellFounded
  <1>3. \A v \in Missing(o) : ~(v < u)
    BY <1>1, <1>2 DEF OpToRel
  <1>4. \A v \in Missing(o) : u <= v
    BY <1>1, <1>3
  <1> QED BY <1>1, <1>4 DEF NextParty

(* What locking a party does to the transactions.                           *)
LEMMA PartyLocked ==
  ASSUME AgentInv, NEW o \in Orders, LockParty(o)
  PROVE  /\ NextParty(o) \in Missing(o) /\ NextParty(o) \in Users
         /\ TxTypes' /\ Ledger' /\ BooksMatch'
         /\ view'[o][NextParty(o)] # Nil
         /\ \A p \in Orders, v \in Users : p # o \/ v # NextParty(o) => view'[p][v] = view[p][v]
         /\ \A p \in Orders, r \in Users \cup Cards :
              lock'[r] = p => lock[r] = p \/ (p = o /\ r = NextParty(o))
  <1>1. NextParty(o) \in Missing(o) /\ NextParty(o) \in Users
    BY NextLeast DEF LockParty
  <1>2. view[o][NextParty(o)] = Nil
    BY <1>1 DEF Missing
  <1>3. balance[NextParty(o)] \in Int /\ moved[o][NextParty(o)] = 0
    BY <1>1, <1>2 DEF AgentInv, AgentTypes, Ledger
  <1>4. Loaded(o, NextParty(o)) + 0 = balance[NextParty(o)]
    BY <1>2, <1>3 DEF Loaded
  <1>5. moved = [moved EXCEPT ![o][NextParty(o)] = @ + 0]
    BY <1>1, <1>3 DEF AgentInv, AgentTypes
  <1>6. /\ SelectForUpdate(o, NextParty(o)) /\ fresh' = fresh /\ UNCHANGED books
        /\ view' = [view EXCEPT ![o][NextParty(o)] = Loaded(o, NextParty(o)) + 0]
        /\ moved' = [moved EXCEPT ![o][NextParty(o)] = @ + 0]
    BY <1>4, <1>5 DEF LockParty
  <1> QED BY <1>1, <1>6, RowStep, 0 \in Int

LEMMA LockPartyStep ==
  ASSUME AgentInv, NEW o \in Orders, LockParty(o)
  PROVE  AgentInv'
  <1>1. UNCHANGED <<stage, books, stock, done, dealVars, lineVars, posted>>
    BY DEF LockParty
  <1>2. TxTypes' /\ Ledger' /\ BooksMatch'
    BY PartyLocked
  <1>3. DealTypes'
    BY <1>1, DealKept DEF AgentInv, AgentTypes
  <1>4. DbTypes' /\ LineTypes' /\ Counted' /\ stage' \in [Orders -> Stages] /\ posted' \subseteq Postings
    BY <1>1 DEF books, lineVars, DbTypes, LineTypes, AgentInv, AgentTypes, Counted
  <1> QED BY <1>2, <1>3, <1>4, NextInv

(* What a transfer does to the transactions.                                *)
LEMMA PartyPaid ==
  ASSUME AgentInv, NEW o \in Orders, Pay(o)
  PROVE  /\ Next1(o).who \in Users /\ Next1(o).who \in Parties(o)
         /\ TxTypes' /\ Ledger' /\ BooksMatch'
         /\ view'[o][Next1(o).who] # Nil
         /\ \A p \in Orders, v \in Users : p # o \/ v # Next1(o).who => view'[p][v] = view[p][v]
         /\ \A p \in Orders, r \in Users \cup Cards :
              lock'[r] = p => lock[r] = p \/ (p = o /\ r = Next1(o).who)
  <1>1. Next1(o).who \in Users /\ Next1(o).who \in Parties(o) /\ Next1(o).amount \in Int
    BY NextTyped DEF Pay, AgentInv
  <1>2. /\ SelectForUpdate(o, Next1(o).who) /\ UNCHANGED books
        /\ view' = [view EXCEPT ![o][Next1(o).who] = Loaded(o, Next1(o).who) + Next1(o).amount]
        /\ moved' = [moved EXCEPT ![o][Next1(o).who] = @ + Next1(o).amount]
        /\ fresh[o] = Nil
        /\ fresh' = [fresh EXCEPT ![o] = IF Exists(o, Next1(o).who) THEN Nil ELSE Next1(o).who]
    BY DEF Pay
  <1> DEFINE u == Next1(o).who
             n == Next1(o).amount
  <1> HIDE DEF u, n
  <1>3. /\ SelectForUpdate(o, u) /\ UNCHANGED books
        /\ view' = [view EXCEPT ![o][u] = Loaded(o, u) + n]
        /\ moved' = [moved EXCEPT ![o][u] = @ + n]
        /\ fresh[o] = Nil
        /\ fresh' = [fresh EXCEPT ![o] = IF Exists(o, u) THEN Nil ELSE u]
        /\ u \in Users /\ n \in Int
    BY <1>1, <1>2 DEF u, n
  <1>4. /\ TxTypes' /\ Ledger' /\ BooksMatch'
        /\ view'[o][u] # Nil
        /\ \A p \in Orders, v \in Users : p # o \/ v # u => view'[p][v] = view[p][v]
        /\ \A p \in Orders, r \in Users \cup Cards :
             lock'[r] = p => lock[r] = p \/ (p = o /\ r = u)
    BY <1>3, RowStep
  <1> QED BY <1>1, <1>4 DEF u

LEMMA PayStep ==
  ASSUME AgentInv, NEW o \in Orders, Pay(o)
  PROVE  AgentInv'
  <1>1. /\ UNCHANGED <<stage, books, stock, dealVars, lineVars, posted>>
        /\ done' = [done EXCEPT ![o] = done[o] + 1] /\ stage[o] = "pay"
    BY DEF Pay, At
  <1>2. TxTypes' /\ Ledger' /\ BooksMatch'
    BY PartyPaid
  <1>3. DealTypes'
    <2>1. done[o] + 1 \in Nat /\ done[o] + 1 <= Len(Transfers(o))
      BY NextTyped DEF Pay, AgentInv
    <2>2. done' \in [Orders -> Nat] /\ \A p \in Orders : done'[p] <= Len(Transfers(p))
      BY <1>1, <2>1 DEF AgentInv, AgentTypes
    <2> QED BY <1>1, <2>2, DealKept
  <1>4. DbTypes' /\ LineTypes' /\ Counted' /\ stage' \in [Orders -> Stages] /\ posted' \subseteq Postings
    BY <1>1 DEF books, lineVars, DbTypes, LineTypes, AgentInv, AgentTypes, Counted
  <1> QED BY <1>2, <1>3, <1>4, NextInv

(* A row is inserted: nobody else has loaded it, because nobody else has    *)
(* its gap.                                                                 *)
LEMMA InsertStep ==
  ASSUME AgentInv, NEW o \in Orders, Insert(o)
  PROVE  AgentInv'
  <1> DEFINE u == fresh[o]
  <1>1. /\ lock' = [lock EXCEPT ![u] = o] /\ fresh' = [fresh EXCEPT ![o] = Nil]
        /\ u # Nil /\ gap[Gap[u]] \subseteq {o}
        /\ UNCHANGED <<stage, books, stock, gap, view, moved, done, dealVars, lineVars, posted>>
    BY DEF Insert, Insertable
  <1>2. /\ u \in Users /\ view[o][u] # Nil /\ lock[u] = Nil
        /\ lock \in [Users \cup Cards -> Orders \cup {Nil}]
        /\ gap \in [Users -> SUBSET Orders] /\ fresh \in [Orders -> Users \cup {Nil}]
        /\ view \in [Orders -> [Users -> Int \cup {Nil}]] /\ moved \in [Orders -> [Users -> Int]]
        /\ Loads /\ Inserting
    BY <1>1 DEF AgentInv, AgentTypes, Loads, Inserting
  <1> HIDE DEF u
  <1>3. /\ lock' \in [Users \cup Cards -> Orders \cup {Nil}] /\ lock'[u] = o
        /\ \A r \in Users \cup Cards : r # u => lock'[r] = lock[r]
        /\ fresh' \in [Orders -> Users \cup {Nil}] /\ fresh'[o] = Nil
        /\ \A p \in Orders \ {o} : fresh'[p] = fresh[p]
    BY <1>1, <1>2
  <1>4. \A p \in Orders : p # o => view[p][u] = Nil
    <2> SUFFICES ASSUME NEW p \in Orders, p # o, view[p][u] # Nil PROVE FALSE
      OBVIOUS
    <2>1. p \in gap[Gap[u]]
      BY <1>2, AgentAssumption DEF Loads
    <2> QED BY <2>1, <1>1
  <1>5. Loads'
    <2> SUFFICES ASSUME NEW p \in Orders, NEW v \in Users, view[p][v] # Nil
                 PROVE  lock'[v] = p \/ (v \notin rows /\ lock'[v] = Nil /\ p \in gap[Gap[v]])
      BY <1>1 DEF Loads, books
    <2>1. CASE v = u
      BY <2>1, <1>3, <1>4
    <2>2. CASE v # u
      BY <2>2, <1>2, <1>3 DEF Loads
    <2> QED BY <2>1, <2>2
  <1>6. Inserting'
    <2> SUFFICES ASSUME NEW p \in Orders
                 PROVE  /\ fresh'[p] # Nil => view[p][fresh'[p]] # Nil /\ lock'[fresh'[p]] = Nil
                        /\ \A v \in Users : moved[p][v] # 0 => lock'[v] = p \/ fresh'[p] = v
      BY <1>1 DEF Inserting
    <2>1. /\ fresh[p] # Nil => view[p][fresh[p]] # Nil /\ lock[fresh[p]] = Nil
          /\ \A v \in Users : moved[p][v] # 0 => lock[v] = p \/ fresh[p] = v
      BY <1>2 DEF Inserting
    <2>2. \A v \in Users : lock[v] = p => lock'[v] = p
      BY <1>2, <1>3, AgentAssumption
    <2>3. CASE p = o
      BY <2>1, <2>2, <2>3, <1>3 DEF u
    <2>4. CASE p # o
      <3>1. fresh[p] # Nil => fresh[p] \in Users /\ fresh[p] # u
        BY <2>1, <2>4, <1>2, <1>4
      <3> QED BY <2>1, <2>2, <2>4, <3>1, <1>3
    <2> QED BY <2>3, <2>4
  <1>7. TxTypes'
    BY <1>1, <1>2, <1>3, <1>5, <1>6 DEF TxTypes
  <1>8. DealTypes'
    BY <1>1, DealKept DEF AgentInv, AgentTypes
  <1>9. DbTypes' /\ LineTypes' /\ Counted' /\ stage' \in [Orders -> Stages] /\ posted' \subseteq Postings
        /\ Ledger' /\ BooksMatch'
    BY <1>1 DEF books, lineVars, DbTypes, LineTypes, AgentInv, AgentTypes, Counted, Ledger, BooksMatch
  <1> QED BY <1>7, <1>8, <1>9, NextInv

(* The ends of an order *)
LEMMA EndStep ==
  ASSUME AgentInv, NEW o \in Orders, NEW s \in Ended, Goto(o, s),
         Rollback(o) \/ (Commit(o) /\ fresh[o] = Nil /\ (o \in Pickups => read[o] # <<>>)),
         UNCHANGED <<dealVars, line, posted>>
  PROVE  AgentInv'
  <1>1. TxTypes' /\ DealTypes' /\ DbTypes' /\ Ledger' /\ BooksMatch'
    BY RollbackStep, CommitStep
  <1>2. /\ read'[o] = <<>> /\ read' \in [Orders -> Seq(Lines)]
        /\ rounds'[o] = 0 /\ rounds' \in [Orders -> 0..MaxRounds] /\ done'[o] = 0
        /\ \A p \in Orders \ {o} : read'[p] = read[p] /\ rounds'[p] = rounds[p] /\ done'[p] = done[p]
    BY EndTxStep DEF Rollback, Commit, books
  <1>3. stage' \in [Orders -> Stages] /\ stage'[o] \in Ended
        /\ \A p \in Orders \ {o} : stage'[p] = stage[p]
    BY DEF Goto, Stages, AgentInv, AgentTypes
  <1>4. Counted'
    BY <1>2, <1>3 DEF Ended, Counted, AgentInv
  <1>5. LineTypes' /\ posted' \subseteq Postings
    BY <1>2 DEF AgentInv, AgentTypes, LineTypes
  <1> QED BY <1>1, <1>3, <1>4, <1>5, NextInv

LEMMA WeighStep ==
  ASSUME AgentInv, NEW o \in Orders, Weigh(o)
  PROVE  AgentInv'
  <1>1. CASE Goto(o, "card") /\ UNCHANGED <<txVars, books, stock, read, rounds>>
    <2>1. UNCHANGED <<txVars, books, stock, dealVars, lineVars, posted>> /\ stage[o] = "lock"
      BY <1>1 DEF Weigh, lineVars, At
    <2>2. TxTypes' /\ DealTypes' /\ DbTypes' /\ Ledger' /\ BooksMatch'
      BY <2>1, Untouched DEF AgentInv, AgentTypes, DbTypes
    <2>3. stage' \in [Orders -> Stages] /\ Counted' /\ LineTypes' /\ posted' \subseteq Postings
      BY <1>1, <2>1 DEF Goto, Stages, lineVars, txVars, AgentInv, AgentTypes, LineTypes, Counted
    <2> QED BY <2>2, <2>3, NextInv
  <1>2. CASE Goto(o, "refused") /\ Rollback(o)
    BY <1>2, EndStep DEF Weigh, Ended
  <1> QED BY <1>1, <1>2 DEF Weigh, Closed

LEMMA TakeLineStep ==
  ASSUME AgentInv, NEW o \in Orders, TakeLine(o)
  PROVE  AgentInv'
  <1>1. CASE read[o] = <<>>
    BY <1>1, EndStep DEF TakeLine, Ended
  <1>2. CASE read[o] # <<>>
    <2>1. /\ Goto(o, "pay") /\ lock' = [lock EXCEPT ![Deal[o].card] = o] /\ stage[o] = "card"
          /\ line' = [line EXCEPT ![o] = Head(read[o])]
          /\ UNCHANGED <<books, stock, gap, fresh, view, moved, done, dealVars, read, rounds, posted>>
      BY <1>2 DEF TakeLine, At
    <2>2. Head(read[o]) \in Lines /\ Deal[o].card \in Cards
      BY <1>2, LineTaken, RolesTyped DEF AgentInv
    <2>3. lock' \in [Users \cup Cards -> Orders \cup {Nil}]
          /\ \A u \in Users : lock'[u] = lock[u]
      BY <2>1, <2>2, AgentAssumption DEF AgentInv, AgentTypes
    <2>4. LineTypes' /\ stage' \in [Orders -> Stages] /\ posted' \subseteq Postings
      BY <2>1, <2>2 DEF Goto, Stages, AgentInv, AgentTypes, LineTypes
    <2>5. Counted'
      BY <1>2, <2>1 DEF Goto, AgentInv, AgentTypes, Counted
    <2>6. Ledger' /\ BooksMatch' /\ DbTypes'
      BY <2>1 DEF books, AgentInv, AgentTypes, Ledger, BooksMatch, DbTypes
    <2>7. TxTypes'
      <3>1. Loads'
        BY <2>1, <2>3 DEF books, AgentInv, AgentTypes, Loads
      <3>2. Inserting'
        <4>1. \A p \in Orders : fresh[p] # Nil => fresh[p] \in Users
          BY DEF AgentInv, AgentTypes
        <4>2. Inserting
          BY DEF AgentInv
        <4> QED BY <2>1, <2>3, <4>1, <4>2 DEF Inserting
      <3> QED BY <2>1, <2>3, <3>1, <3>2 DEF AgentInv, AgentTypes, TxTypes
    <2>8. DealTypes'
      BY <2>1, DealKept DEF AgentInv, AgentTypes
    <2> QED BY <2>4, <2>5, <2>6, <2>7, <2>8, NextInv
  <1> QED BY <1>1, <1>2

(* A withdrawal or a recharge changes a balance that nobody has loaded.     *)
LEMMA PostMoves ==
  ASSUME AgentInv, NEW p \in Postings, Post(p), NEW u \in Users
  PROVE  /\ (\E o \in Orders : view[o][u] # Nil) => u # p.who /\ balance'[u] = balance[u]
         /\ balance'[u] < balance[u] => balance'[u] >= 0
         /\ balance'[u] \in Int
  <1>0. p.who \in Users /\ p.amount \in Int
    BY AgentAssumption
  <1>1. /\ p.who \in Users /\ p.amount \in Int /\ balance[u] \in Int /\ balance[p.who] \in Int
        /\ Loads
    BY <1>0 DEF AgentInv, AgentTypes, Loads
  <1>2. /\ balance' = [balance EXCEPT ![p.who] = balance[p.who] + p.amount]
        /\ lock[p.who] = Nil /\ (p.amount < 0 => balance[p.who] + p.amount >= 0)
        /\ p.who \notin rows => gap[Gap[p.who]] = {}
        /\ balance \in [Users -> Int]
    BY DEF Post, AgentInv, AgentTypes
  <1>3. CASE u = p.who
    <2>1. \A o \in Orders : view[o][u] = Nil
      BY <1>1, <1>2, <1>3, AgentAssumption DEF Loads
    <2>2. balance'[u] = balance[u] + p.amount
      BY <1>1, <1>2, <1>3
    <2> QED BY <1>1, <1>2, <1>3, <2>1, <2>2
  <1>4. CASE u # p.who
    <2>1. balance'[u] = balance[u]
      BY <1>1, <1>2, <1>4
    <2> QED BY <1>1, <1>4, <2>1
  <1> QED BY <1>3, <1>4

LEMMA PostStep ==
  ASSUME AgentInv, NEW p \in Postings, Post(p)
  PROVE  AgentInv'
  <1>1. p.who \in Users /\ p.amount \in Int
    BY AgentAssumption
  <1>2. \A u \in Users : balance[u] \in Int /\ flows[u] \in Int /\ FirstBalance[u] \in Int
    BY AgentAssumption DEF AgentInv, AgentTypes
  <1>3. /\ balance' = [balance EXCEPT ![p.who] = @ + p.amount]
        /\ flows' = [flows EXCEPT ![p.who] = @ + p.amount]
        /\ rows' = rows \cup {p.who}
        /\ UNCHANGED <<stage, stock, txVars, dealVars, lineVars>> /\ posted' \subseteq Postings
    BY DEF Post, AgentInv, AgentTypes
  <1>4. DbTypes'
    BY <1>1, <1>2, <1>3 DEF AgentInv, AgentTypes, DbTypes
  <1>5. BooksMatch'
    BY <1>1, <1>2, <1>3 DEF BooksMatch, AgentInv, AgentTypes
  <1>6. \A o \in Orders, u \in Users : view[o][u] # Nil => u # p.who /\ balance'[u] = balance[u]
    BY PostMoves
  <1>7. Ledger'
    BY <1>3, <1>6 DEF txVars, AgentInv, Ledger
  <1>8. TxTypes'
    <2>1. Loads'
      BY <1>3, <1>6 DEF txVars, AgentInv, AgentTypes, Loads
    <2> QED BY <1>3, <2>1 DEF txVars, AgentInv, AgentTypes, TxTypes, Inserting
  <1>9. DealTypes'
    BY <1>3, DealKept DEF txVars, AgentInv, AgentTypes
  <1>10. Counted' /\ LineTypes' /\ stage' \in [Orders -> Stages]
    BY <1>3 DEF txVars, lineVars, AgentInv, AgentTypes, Counted, LineTypes
  <1> QED BY <1>3, <1>4, <1>5, <1>7, <1>8, <1>9, <1>10, NextInv

(* Every step keeps the invariant. *)
LEMMA AgentStep ==
  ASSUME AgentInv, [AgentNext]_agentVars
  PROVE  AgentInv'
  <1>1. ASSUME NEW o \in Orders, Check(o) \/ ReadCard(o)
        PROVE  AgentInv'
    BY <1>1, CheckStep, ReadCardStep
  <1>2. ASSUME NEW o \in Orders, ReadLines(o) \/ Swap(o) \/ SwapLost(o) \/ Record(o)
        PROVE  AgentInv'
    BY <1>2, ReadLinesStep, SwapStep, SwapLostStep, RecordStep
  <1>3. ASSUME NEW o \in Orders, LockParty(o) \/ Weigh(o) \/ TakeLine(o)
        PROVE  AgentInv'
    BY <1>3, LockPartyStep, WeighStep, TakeLineStep
  <1>4. ASSUME NEW o \in Orders, Pay(o) \/ Insert(o)
        PROVE  AgentInv'
    BY <1>4, PayStep, InsertStep
  <1>5. ASSUME NEW o \in Orders, Settle(o)
        PROVE  AgentInv'
    <2>1. o \in Pickups => read[o] # <<>>
      BY <1>5 DEF Settle, At, AgentInv, Counted
    <2> QED BY <1>5, <2>1, EndStep DEF Settle, Ended
  <1>6. ASSUME NEW o \in Orders, WaitTimeout(o)
        PROVE  AgentInv'
    <2>1. At(o, "pay") /\ o \in Pickups => read[o] # <<>>
      BY DEF At, AgentInv, Counted
    <2> QED BY <1>6, <2>1, EndStep DEF WaitTimeout, Ended
  <1>7. ASSUME NEW o \in Orders, Victim(o) \/ Crash(o)
        PROVE  AgentInv'
    BY <1>7, EndStep DEF Victim, Crash, Ended
  <1>8. ASSUME NEW p \in Postings, Post(p)
        PROVE  AgentInv'
    BY <1>8, PostStep
  <1>9. CASE UNCHANGED agentVars
    <2>1. UNCHANGED <<stage, books, stock, txVars, dealVars, lineVars, posted>>
      BY <1>9 DEF agentVars
    <2>2. TxTypes' /\ DealTypes' /\ DbTypes' /\ Ledger' /\ BooksMatch'
      BY <2>1, Untouched DEF AgentInv, AgentTypes, DbTypes
    <2>3. Counted' /\ LineTypes' /\ stage' \in [Orders -> Stages] /\ posted' \subseteq Postings
      BY <2>1 DEF txVars, lineVars, AgentInv, AgentTypes, Counted, LineTypes
    <2> QED BY <2>2, <2>3, NextInv
  <1> QED BY <1>1, <1>2, <1>3, <1>4, <1>5, <1>6, <1>7, <1>8, <1>9 DEF AgentNext, Step

LEMMA AgentStart ==
  ASSUME AgentInit
  PROVE  AgentInv
  <1>1. Unread \in [Users -> Int \cup {Nil}] /\ Nothing \in [Users -> Int]
        /\ \A u \in Users : Unread[u] = Nil /\ Nothing[u] = 0
    BY DEF Unread, Nothing
  <1>2. price \in [Orders -> Terms] /\ \A o \in Orders : price[o] \in Prices[o]
    <2>1. \A o \in Orders : (CHOOSE p \in Prices[o] : TRUE) \in Prices[o]
      BY AgentAssumption
    <2>2. price = [o \in Orders |-> CHOOSE p \in Prices[o] : TRUE]
      BY DEF AgentInit
    <2>3. \A o \in Orders : price[o] \in Prices[o]
      BY <2>1, <2>2
    <2>4. \A o \in Orders : price[o] \in Terms
      BY <2>3, PricesAreTerms
    <2> QED BY <2>2, <2>3, <2>4
  <1>3. DealTypes
    <2>1. \A o \in Orders : Len(Transfers(o)) \in Nat
      BY <1>2, TransfersTyped
    <2>2. /\ checked = [o \in Orders |-> 0] /\ asked = [o \in Orders |-> 0]
          /\ done = [o \in Orders |-> 0]
      BY DEF AgentInit
    <2>3. done \in [Orders -> Nat] /\ \A o \in Orders : done[o] <= Len(Transfers(o))
      BY <2>1, <2>2
    <2> QED BY <1>2, <2>2, <2>3 DEF DealTypes
  <1>4. TxTypes
    <2>1. Loads /\ Inserting
      BY <1>1 DEF AgentInit, Loads, Inserting
    <2> QED BY <1>1, <2>1, AgentAssumption DEF AgentInit, TxTypes
  <1>5. DbTypes /\ LineTypes
    BY <1>1, AgentAssumption DEF AgentInit, DbTypes, LineTypes
  <1>6. Ledger
    BY <1>1 DEF AgentInit, Ledger
  <1>7. BooksMatch
    <2>1. \A u \in Users : FirstBalance[u] \in Int
      BY AgentAssumption
    <2> QED BY <1>1, <2>1 DEF AgentInit, BooksMatch
  <1>8. Counted
    BY AgentAssumption DEF AgentInit, Counted
  <1>9. stage \in [Orders -> Stages] /\ posted \subseteq Postings
    BY DEF AgentInit, Stages
  <1> QED BY <1>3, <1>4, <1>5, <1>6, <1>7, <1>8, <1>9
      DEF AgentInv, AgentTypes, TxTypes, DealTypes, DbTypes, LineTypes, Loads

LEMMA AgentInvariant == AgentSpec => []AgentInv
  <1>1. AgentInit => AgentInv
    BY AgentStart
  <1>2. AgentInv /\ [AgentNext]_agentVars => AgentInv'
    BY AgentStep
  <1> QED BY <1>1, <1>2, PTL DEF AgentSpec

(* The types hold; a transaction has loaded only balances that it has       *)
(* locked, or that have no row and get none before it ends.                 *)
THEOREM AgentTypesHold == AgentSpec => []AgentTypes
  BY AgentInvariant, PTL DEF AgentInv

(* No transaction overwrites what another one has paid, however settlements *)
(* of any number of orders, pickups and withdrawals interleave, first rows  *)
(* that several of them would insert included.                              *)
THEOREM TheBooksMatch == AgentSpec => []BooksMatch
  BY AgentInvariant, PTL DEF AgentInv

-----------------------------------------------------------------------------
(* Pickups wait for each other in a circle only over first rows. *)

LEMMA PickupEnds ==
  ASSUME PickupInv, NEW o \in Orders, NEW s \in Ended, Goto(o, s), EndTx(o)
  PROVE  Ascending' /\ Holders'
  <1>1. /\ view'[o] = Unread /\ \A u \in Users : Unread[u] = Nil
        /\ \A p \in Orders \ {o} : view'[p] = view[p]
    BY DEF EndTx, Unread, PickupInv, AgentInv, AgentTypes
  <1>2. stage'[o] \in Ended /\ \A p \in Orders \ {o} : stage'[p] = stage[p]
    BY DEF Goto, PickupInv, AgentInv, AgentTypes
  <1>3. \A r \in Users \cup Cards, p \in Orders : lock'[r] = p => p # o /\ lock[r] = p
    BY AgentAssumption DEF EndTx
  <1>4. \A p \in Pickups : p = o \/ (stage'[p] = stage[p] /\ view'[p] = view[p])
    BY <1>1, <1>2 DEF Orders
  <1>5. Ascending'
    <2> SUFFICES ASSUME NEW p \in Pickups
                 PROVE  /\ stage'[p] = "idle" => \A u \in Users : view'[p][u] = Nil
                        /\ stage'[p] = "lock" =>
                             \A u, v \in Parties(p) : view'[p][u] # Nil /\ view'[p][v] = Nil => u < v
                        /\ stage'[p] \in {"card", "pay"} => Missing(p)' = {}
                        /\ \A u \in Users : view'[p][u] # Nil => u \in Parties(p)
      BY DEF Ascending, Parties
    <2>1. CASE p = o
      BY <2>1, <1>1, <1>2 DEF Ended
    <2>2. CASE p # o
      BY <2>2, <1>4 DEF PickupInv, Ascending, Missing, Parties
    <2> QED BY <2>1, <2>2
  <1>6. Holders'
    BY <1>1, <1>2, <1>3 DEF PickupInv, Holders, Ended
  <1> QED BY <1>5, <1>6

(* A pickup that has loaded a balance never waits for it.                   *)
LEMMA LoadedGranted ==
  ASSUME AgentInv, NEW o \in Orders, NEW u \in Users, view[o][u] # Nil
  PROVE  Granted(o, u)
  BY DEF AgentInv, AgentTypes, Granted

LEMMA PickupStep ==
  ASSUME PickupInv, [AgentNext]_agentVars
  PROVE  Ascending' /\ Holders'
  <1> USE DEF PickupInv
  <1>r. ASSUME NEW o \in Orders, NEW u \in Users, stage' = stage,
               \A p \in Orders, r \in Users \cup Cards : lock'[r] = p => lock[r] = p \/ (p = o /\ r = u),
               view'[o][u] # Nil,
               \A p \in Orders, v \in Users : p # o \/ v # u => view'[p][v] = view[p][v]
        PROVE  Holders'
    <2>1. \A p \in Orders, v \in Users : lock'[v] = p => view'[p][v] # Nil
      BY <1>r DEF Holders
    <2>2. \A p \in Orders, c \in Cards : lock'[c] = p => lock[c] = p
      BY <1>r, AgentAssumption
    <2> QED BY <1>r, <2>1, <2>2 DEF Holders
  <1>1. ASSUME NEW o \in Orders, Check(o) \/ ReadLines(o) \/ Swap(o) \/ SwapLost(o) \/ Record(o)
        PROVE  Ascending' /\ Holders'
    <2>1. o \notin Pickups
      BY <1>1, AgentAssumption DEF Check, ReadLines, Swap, SwapLost, Record, At, AgentInv, Counted
    <2>2. \E s \in {"take", "refused", "swap", "record", "pay"} : Goto(o, s)
      BY <1>1 DEF Check, ReadLines, Swap, SwapLost, Record
    <2>3. UNCHANGED txVars
      BY <1>1 DEF Check, ReadLines, Swap, SwapLost, Record
    <2>4. \A p \in Pickups : stage'[p] = stage[p]
      BY <2>1, <2>2 DEF Goto, AgentInv, AgentTypes, Orders
    <2>5. \A p \in Orders : stage'[p] \in {"lock", "card"} => stage'[p] = stage[p]
      BY <2>2 DEF Goto, AgentInv, AgentTypes
    <2>6. Ascending'
      BY <2>3, <2>4 DEF txVars, Ascending, Missing
    <2>7. Holders'
      BY <2>3, <2>4, <2>5 DEF txVars, Holders
    <2> QED BY <2>6, <2>7
  <1>2. ASSUME NEW o \in Orders, ReadCard(o)
        PROVE  Ascending' /\ Holders'
    <2>1. /\ stage[o] = "idle" /\ o \in Pickups /\ stage' = [stage EXCEPT ![o] = "lock"]
          /\ UNCHANGED txVars
      BY <1>2 DEF ReadCard, At, Goto
    <2>2. stage'[o] = "lock" /\ \A p \in Orders \ {o} : stage'[p] = stage[p]
      BY <2>1 DEF AgentInv, AgentTypes
    <2>3. \A u \in Users : view'[o][u] = Nil
      BY <2>1 DEF txVars, Ascending
    <2>4. Parties(o) \subseteq Users
      BY RolesTyped
    <2>5. ASSUME NEW p \in Pickups, p # o
          PROVE  stage'[p] = stage[p] /\ view'[p] = view[p] /\ Missing(p)' = Missing(p)
      BY <2>1, <2>2, <2>5 DEF txVars, Missing, Orders, Parties
    <2>6. Ascending'
      BY <2>2, <2>3, <2>4, <2>5 DEF Ascending, Parties
    <2>7. Holders'
      BY <2>1, <2>2 DEF txVars, Holders
    <2> QED BY <2>6, <2>7
  <1>3. ASSUME NEW o \in Orders, LockParty(o)
        PROVE  Ascending' /\ Holders'
    <2> DEFINE u == NextParty(o)
    <2>1. u \in Missing(o) /\ u \in Users /\ \A v \in Missing(o) : u <= v
      BY <1>3, NextLeast DEF LockParty
    <2>2. stage[o] = "lock" /\ stage' = stage
      BY <1>3 DEF LockParty, At
    <2>3. /\ \A p \in Orders, r \in Users \cup Cards : lock'[r] = p => lock[r] = p \/ (p = o /\ r = u)
          /\ view'[o][u] # Nil
          /\ \A p \in Orders, v \in Users : p # o \/ v # u => view'[p][v] = view[p][v]
      BY <1>3, PartyLocked
    <2> HIDE DEF u
    <2>4. \A p \in Pickups : Parties(p) \subseteq Users /\ p \in Orders
      BY RolesTyped DEF Orders
    <2>5. Holders'
      BY <1>r, <2>1, <2>2, <2>3
    <2>6. ASSUME NEW p \in Pickups
          PROVE  /\ stage'[p] = "idle" => \A v \in Users : view'[p][v] = Nil
                 /\ stage'[p] \in {"card", "pay"} => Missing(p)' = {}
                 /\ \A v \in Users : view'[p][v] # Nil => v \in Parties(p)
      <3>1. CASE p = o
        BY <3>1, <2>1, <2>2, <2>3 DEF Ascending, Missing
      <3>2. CASE p # o
        BY <3>2, <2>2, <2>3, <2>4 DEF Ascending, Missing, Parties
      <3> QED BY <3>1, <3>2
    <2>7. ASSUME NEW p \in Pickups, stage'[p] = "lock", NEW v \in Parties(p), NEW w \in Parties(p),
                 view'[p][v] # Nil, view'[p][w] = Nil
          PROVE  v < w
      <3>1. v \in Users /\ w \in Users /\ v \in Nat /\ w \in Nat /\ p \in Orders
        BY <2>4, <2>7, AgentAssumption
      <3>2. CASE p = o /\ v = u
        <4>1. w # u /\ view[p][w] = Nil
          BY <2>3, <2>7, <3>1, <3>2
        <4>2. w \in Missing(o)
          BY <4>1, <3>2, <2>7 DEF Missing
        <4> QED BY <4>1, <4>2, <3>1, <3>2, <2>1
      <3>3. CASE p # o \/ v # u
        <4>1. view[p][v] # Nil
          BY <2>3, <2>7, <3>1, <3>3
        <4>2. view[p][w] = Nil
          BY <2>1, <2>3, <2>7, <3>1 DEF Missing
        <4> QED BY <4>1, <4>2, <2>2, <2>7 DEF Ascending
      <3> QED BY <3>2, <3>3
    <2>8. Parties(o)' = Parties(o) /\ \A p \in Pickups : Parties(p)' = Parties(p)
      BY DEF Parties
    <2>9. Ascending'
      BY <2>6, <2>7, <2>8 DEF Ascending
    <2> QED BY <2>5, <2>9
  <1>4. ASSUME NEW o \in Orders, Weigh(o)
        PROVE  Ascending' /\ Holders'
    <2>1. CASE Goto(o, "card") /\ UNCHANGED <<txVars, books, stock, read, rounds>>
      <3>1. o \in Pickups /\ Missing(o) = {} /\ stage[o] = "lock"
        BY <1>4 DEF Weigh, At, Holders
      <3> QED BY <2>1, <3>1 DEF Goto, txVars, Ascending, Holders, Missing, Orders, AgentInv, AgentTypes
    <2>2. CASE Goto(o, "refused") /\ Rollback(o)
      BY <2>2, PickupEnds DEF Rollback, Ended
    <2> QED BY <1>4, <2>1, <2>2 DEF Weigh, Closed
  <1>5. ASSUME NEW o \in Orders, TakeLine(o)
        PROVE  Ascending' /\ Holders'
    <2>1. CASE read[o] = <<>>
      BY <1>5, <2>1, PickupEnds DEF TakeLine, Rollback, Ended
    <2>2. CASE read[o] # <<>>
      <3>1. /\ Goto(o, "pay") /\ lock' = [lock EXCEPT ![Deal[o].card] = o]
            /\ view' = view /\ stage[o] = "card" /\ o \in Pickups
        BY <1>5, <2>2 DEF TakeLine, At, Holders
      <3>2. /\ stage'[o] = "pay" /\ \A p \in Orders \ {o} : stage'[p] = stage[p]
            /\ \A u \in Users : lock'[u] = lock[u]
            /\ \A c \in Cards : lock'[c] = lock[c] \/ lock'[c] = o
        BY <3>1, RolesTyped, AgentAssumption DEF Goto, AgentInv, AgentTypes
      <3>3. Holders'
        BY <3>1, <3>2 DEF Holders
      <3>4. Ascending'
        BY <3>1, <3>2 DEF Ascending, Missing, Orders
      <3> QED BY <3>3, <3>4
    <2> QED BY <2>1, <2>2
  <1>6. ASSUME NEW o \in Orders, Pay(o)
        PROVE  Ascending' /\ Holders'
    <2> DEFINE u == Next1(o).who
    <2>1. stage[o] = "pay" /\ stage' = stage
      BY <1>6 DEF Pay, At
    <2>2. /\ u \in Users /\ u \in Parties(o)
          /\ \A p \in Orders, r \in Users \cup Cards : lock'[r] = p => lock[r] = p \/ (p = o /\ r = u)
          /\ view'[o][u] # Nil
          /\ \A p \in Orders, v \in Users : p # o \/ v # u => view'[p][v] = view[p][v]
      BY <1>6, PartyPaid
    <2> HIDE DEF u
    <2>5. Holders'
      BY <1>r, <2>1, <2>2
    <2>6. \A p \in Pickups : Parties(p) \subseteq Users /\ p \in Orders
      BY RolesTyped DEF Orders
    <2>7. Ascending'
      <3>1. ASSUME NEW p \in Pickups
            PROVE  /\ stage'[p] = "idle" => \A v \in Users : view'[p][v] = Nil
                   /\ stage'[p] = "lock" => p # o
                   /\ stage'[p] \in {"card", "pay"} => Missing(p)' = {}
                   /\ \A v \in Users : view'[p][v] # Nil => v \in Parties(p)
        BY <2>1, <2>2, <2>6 DEF Ascending, Missing, Parties
      <3>2. \A p \in Pickups, v \in Users : p # o => view'[p][v] = view[p][v]
        BY <2>2, <2>6
      <3> QED BY <2>1, <2>6, <3>1, <3>2 DEF Ascending, Parties
    <2> QED BY <2>5, <2>7
  <1>7. ASSUME NEW o \in Orders, Insert(o)
        PROVE  Ascending' /\ Holders'
    <2>1. /\ stage' = stage /\ view' = view /\ lock' = [lock EXCEPT ![fresh[o]] = o]
          /\ fresh[o] # Nil
      BY <1>7 DEF Insert
    <2>2. fresh[o] \in Users /\ view[o][fresh[o]] # Nil
      BY <2>1 DEF AgentInv, AgentTypes, Inserting
    <2>3. \A p \in Orders, r \in Users \cup Cards : lock'[r] = p => lock[r] = p \/ (p = o /\ r = fresh[o])
      BY <2>1, <2>2 DEF AgentInv, AgentTypes
    <2>4. Holders'
      BY <1>r, <2>1, <2>2, <2>3
    <2>5. Ascending'
      BY <2>1 DEF Ascending, Missing
    <2> QED BY <2>4, <2>5
  <1>8. ASSUME NEW o \in Orders, Settle(o) \/ WaitTimeout(o) \/ Victim(o) \/ Crash(o)
        PROVE  Ascending' /\ Holders'
    <2>1. EndTx(o) /\ \E s \in Ended : Goto(o, s)
      BY <1>8 DEF Settle, WaitTimeout, Victim, Crash, Commit, Rollback, Ended
    <2> QED BY <2>1, PickupEnds
  <1>9. ASSUME NEW p \in Postings, Post(p)
        PROVE  Ascending' /\ Holders'
    BY <1>9 DEF Post, txVars, Ascending, Holders, Missing
  <1>10. CASE UNCHANGED agentVars
    BY <1>10 DEF agentVars, txVars, Ascending, Holders, Missing
  <1> QED BY <1>1, <1>2, <1>3, <1>4, <1>5, <1>6, <1>7, <1>8, <1>9, <1>10 DEF AgentNext, Step

LEMMA PickupStart == AgentInit => PickupInv
  <1>1. AgentInit => \A o \in Orders, u \in Users : view[o][u] = Nil
    BY DEF AgentInit, Unread
  <1> QED BY <1>1, AgentStart, AgentAssumption DEF AgentInit, PickupInv, Ascending, Holders, Orders

(* A pickup that waits for another one, and not to insert a row, wants a    *)
(* balance, and the other one wants one of a greater id.                    *)
LEMMA WaitsUpwards ==
  ASSUME PickupInv, NEW S \in SUBSET Pickups, Deadlocked(S), \A q \in S : fresh[q] = Nil, NEW o \in S
  PROVE  /\ NextParty(o) \in Users
         /\ \E p \in S : NextParty(p) \in Users /\ NextParty(o) < NextParty(p)
  <1> USE DEF PickupInv
  <1>1. \A p \in S : /\ p \in Pickups /\ p \in Orders
                     /\ Wants(p) # Nil /\ ~Granted(p, Wants(p)) /\ lock[Wants(p)] \in S
    BY DEF Deadlocked, Blockers, Orders
  <1>2. ASSUME NEW p \in S
        PROVE  stage[p] # "pay"
    <2> SUFFICES ASSUME stage[p] = "pay" PROVE FALSE
      OBVIOUS
    <2>1. Unpaid(p) /\ Wants(p) = Next1(p).who
      BY <1>1 DEF Wants, At
    <2>2. Next1(p).who \in Parties(p) /\ Next1(p).who \in Users /\ p \in Pickups
      BY <1>1, <2>1, NextTyped DEF AgentInv
    <2>3. view[p][Next1(p).who] # Nil
      BY <1>1, <2>2 DEF Ascending, Missing
    <2> QED BY <1>1, <2>1, <2>2, <2>3, LoadedGranted
  <1>3. ASSUME NEW p \in S
        PROVE  stage[p] = "lock" /\ Missing(p) # {} /\ Wants(p) = NextParty(p)
    <2>1. stage[p] # "swap"
      BY <1>1, AgentAssumption DEF AgentInv, Counted
    <2>2. stage[p] # "card"
      <3> SUFFICES ASSUME stage[p] = "card" PROVE FALSE
        OBVIOUS
      <3>1. Wants(p) = Deal[p].card /\ Deal[p].card \in Cards
        BY <1>1, RolesTyped DEF Wants, At
      <3>2. stage[lock[Deal[p].card]] = "pay"
        BY <1>1, <3>1 DEF Holders
      <3> QED BY <1>1, <1>2, <3>1, <3>2
    <2>3. stage[p] \in {"swap", "card", "lock", "pay"}
      BY <1>1 DEF Wants, At
    <2>4. stage[p] = "lock"
      BY <1>2, <2>1, <2>2, <2>3
    <2> QED BY <1>1, <2>4 DEF Wants, At
  <1>4. \A p \in S : NextParty(p) \in Missing(p) /\ NextParty(p) \in Users
    BY <1>1, <1>3, NextLeast
  <1> DEFINE p == lock[NextParty(o)]
  <1>5. p \in S /\ p \in Pickups /\ p \in Orders
    BY <1>1, <1>3
  <1>6. view[p][NextParty(o)] # Nil
    BY <1>4, <1>5 DEF Holders
  <1>7. NextParty(o) \in Parties(p)
    BY <1>4, <1>5, <1>6 DEF Ascending
  <1>8. NextParty(o) < NextParty(p)
    BY <1>3, <1>4, <1>5, <1>6, <1>7 DEF Ascending, Missing
  <1> QED BY <1>4, <1>5, <1>8

LEMMA NoCircle ==
  ASSUME PickupInv, NEW S \in SUBSET Pickups, \A q \in S : fresh[q] = Nil
  PROVE  ~Deadlocked(S)
  <1> SUFFICES ASSUME Deadlocked(S) PROVE FALSE
    OBVIOUS
  <1> DEFINE Above(n) == {u \in Users : u > n}
             Ranks == {Cardinality(Above(NextParty(o))) : o \in S}
  <1>1. \A n \in Nat : IsFiniteSet(Above(n)) /\ Cardinality(Above(n)) \in Nat
    BY AgentAssumption, FS_Subset, FS_CardinalityType
  <1>2. \A o \in S : NextParty(o) \in Users /\ NextParty(o) \in Nat
    BY WaitsUpwards, AgentAssumption
  <1>3. Ranks \subseteq Nat /\ Ranks # {}
    BY <1>1, <1>2 DEF Deadlocked
  <1>4. PICK r \in Ranks : \A q \in Ranks : <<q, r>> \notin OpToRel(<, Nat)
    BY <1>3, WFMin, NatLessThanWellFounded
  <1>5. PICK o \in S : r = Cardinality(Above(NextParty(o)))
    BY <1>4
  <1>6. PICK p \in S : NextParty(o) < NextParty(p)
    BY WaitsUpwards
  <1>u. Users \subseteq Nat
    BY AgentAssumption
  <1>7. Above(NextParty(p)) \subseteq Above(NextParty(o)) /\ NextParty(p) \in Above(NextParty(o))
        /\ NextParty(p) \notin Above(NextParty(p))
    <2>1. \A m, n \in Nat : m < n => Above(n) \subseteq Above(m) /\ n \notin Above(n)
      <3> TAKE m, n \in Nat
      <3>1. \A v \in Nat : v > n /\ m < n => v > m
        OBVIOUS
      <3>2. m < n => \A v \in Above(n) : v \in Above(m)
        BY <1>u, <3>1
      <3>3. ~(n > n)
        OBVIOUS
      <3> QED BY <3>2, <3>3
    <2>2. \A m \in Nat, n \in Users : m < n => n \in Above(m)
      BY <1>u
    <2> HIDE DEF Above
    <2> QED BY <1>2, <1>6, <2>1, <2>2
  <1> HIDE DEF Above
  <1>a. IsFiniteSet(Above(NextParty(o))) /\ Cardinality(Above(NextParty(o))) \in Nat
        /\ Cardinality(Above(NextParty(p))) \in Nat
    BY <1>1, <1>2
  <1>b. /\ Cardinality(Above(NextParty(p))) <= Cardinality(Above(NextParty(o)))
        /\ Cardinality(Above(NextParty(p))) # Cardinality(Above(NextParty(o)))
    BY <1>7, <1>a, FS_Subset
  <1>8. Cardinality(Above(NextParty(p))) < Cardinality(Above(NextParty(o)))
    BY <1>a, <1>b
  <1> QED BY <1>3, <1>4, <1>5, <1>8 DEF OpToRel

(* Pickups lock balances by ascending user id, whatever their parties and   *)
(* terms: a set of them that waits in a circle waits for a first balance    *)
(* row that one of them inserts.                                            *)
THEOREM PickupsWaitUpwards == AgentSpec => []PickupsDeadlockOnInserts
  <1>1. AgentInit => PickupInv
    BY PickupStart
  <1>2. PickupInv /\ [AgentNext]_agentVars => PickupInv'
    BY AgentStep, PickupStep DEF PickupInv
  <1>3. PickupInv => PickupsDeadlockOnInserts
    BY NoCircle DEF PickupsDeadlockOnInserts
  <1> QED BY <1>1, <1>2, <1>3, PTL DEF AgentSpec

-----------------------------------------------------------------------------
(* What an order moves *)

(* What the first n of an order's transfers move for a user: an order has   *)
(* three or five transfers.                                                 *)
Leg(s, u, n, i) == IF i <= n /\ s[i].who = u THEN s[i].amount ELSE 0
PaidUp(s, u, n) ==
  Leg(s, u, n, 1) + Leg(s, u, n, 2) + Leg(s, u, n, 3) + Leg(s, u, n, 4) + Leg(s, u, n, 5)

(* A transaction has moved its first transfers.                             *)
Moved == \A o \in Orders, u \in Users : moved[o][u] = PaidUp(Transfers(o), u, done[o])

(* A pickup that has weighed its parties can pay for all of them, and a     *)
(* delivery was checked before it began.                                    *)
Afforded ==
  /\ \A o \in Pickups : stage[o] \in {"card", "pay"} =>
       \A u \in Parties(o) : Delta(o, u) < 0 => balance[u] + Delta(o, u) >= 0
  /\ \A o \in Deliveries : stage[o] \in {"take", "swap", "record", "pay"} => checked[o] >= asked[o]

MoneyInv == PickupInv /\ Moved /\ Afforded

(* Tuples put together *)

LEMMA OneOne ==
  ASSUME NEW a, NEW b
  PROVE  <<a>> \o <<b>> = <<a, b>>
  <1> DEFINE S == {a, b}
  <1>0. a \in S /\ b \in S
    OBVIOUS
  <1> HIDE DEF S
  <1>1. <<a>> \in Seq(S) /\ <<b>> \in Seq(S) /\ <<a, b>> \in Seq(S)
    BY <1>0
  <1>2. Len(<<a>> \o <<b>>) = 2 /\ \A i \in 1..2 : (<<a>> \o <<b>>)[i] = <<a, b>>[i]
    BY <1>0, <1>1
  <1>3. <<a>> \o <<b>> \in Seq(S)
    BY <1>1
  <1> QED BY <1>1, <1>2, <1>3, SeqEqual

LEMMA OneTwo ==
  ASSUME NEW a, NEW b, NEW c
  PROVE  <<a>> \o <<b, c>> = <<a, b, c>>
  <1> DEFINE S == {a, b, c}
  <1>0. a \in S /\ b \in S /\ c \in S
    OBVIOUS
  <1> HIDE DEF S
  <1>1. <<a>> \in Seq(S) /\ <<b, c>> \in Seq(S) /\ <<a, b, c>> \in Seq(S)
    BY <1>0
  <1>2. Len(<<a>> \o <<b, c>>) = 3 /\ \A i \in 1..3 : (<<a>> \o <<b, c>>)[i] = <<a, b, c>>[i]
    BY <1>0, <1>1
  <1>3. <<a>> \o <<b, c>> \in Seq(S)
    BY <1>1
  <1> QED BY <1>1, <1>2, <1>3, SeqEqual

LEMMA TwoOne ==
  ASSUME NEW a, NEW b, NEW c
  PROVE  <<a, b>> \o <<c>> = <<a, b, c>>
  <1> DEFINE S == {a, b, c}
  <1>0. a \in S /\ b \in S /\ c \in S
    OBVIOUS
  <1> HIDE DEF S
  <1>1. <<a, b>> \in Seq(S) /\ <<c>> \in Seq(S) /\ <<a, b, c>> \in Seq(S)
    BY <1>0
  <1>2. Len(<<a, b>> \o <<c>>) = 3 /\ \A i \in 1..3 : (<<a, b>> \o <<c>>)[i] = <<a, b, c>>[i]
    BY <1>0, <1>1
  <1>3. <<a, b>> \o <<c>> \in Seq(S)
    BY <1>1
  <1> QED BY <1>1, <1>2, <1>3, SeqEqual

LEMMA TwoTwo ==
  ASSUME NEW a, NEW b, NEW c, NEW d
  PROVE  <<a, b>> \o <<c, d>> = <<a, b, c, d>>
  <1> DEFINE S == {a, b, c, d}
  <1>0. a \in S /\ b \in S /\ c \in S /\ d \in S
    OBVIOUS
  <1> HIDE DEF S
  <1>1. <<a, b>> \in Seq(S) /\ <<c, d>> \in Seq(S) /\ <<a, b, c, d>> \in Seq(S)
    BY <1>0
  <1>2. Len(<<a, b>> \o <<c, d>>) = 4 /\ \A i \in 1..4 : (<<a, b>> \o <<c, d>>)[i] = <<a, b, c, d>>[i]
    BY <1>0, <1>1
  <1>3. <<a, b>> \o <<c, d>> \in Seq(S)
    BY <1>1
  <1> QED BY <1>1, <1>2, <1>3, SeqEqual

LEMMA ThreeOne ==
  ASSUME NEW a, NEW b, NEW c, NEW d
  PROVE  <<a, b, c>> \o <<d>> = <<a, b, c, d>>
  <1> DEFINE S == {a, b, c, d}
  <1>0. a \in S /\ b \in S /\ c \in S /\ d \in S
    OBVIOUS
  <1> HIDE DEF S
  <1>1. <<a, b, c>> \in Seq(S) /\ <<d>> \in Seq(S) /\ <<a, b, c, d>> \in Seq(S)
    BY <1>0
  <1>2. Len(<<a, b, c>> \o <<d>>) = 4 /\ \A i \in 1..4 : (<<a, b, c>> \o <<d>>)[i] = <<a, b, c, d>>[i]
    BY <1>0, <1>1
  <1>3. <<a, b, c>> \o <<d>> \in Seq(S)
    BY <1>1
  <1> QED BY <1>1, <1>2, <1>3, SeqEqual

LEMMA FourOne ==
  ASSUME NEW a, NEW b, NEW c, NEW d, NEW e
  PROVE  <<a, b, c, d>> \o <<e>> = <<a, b, c, d, e>>
  <1> DEFINE S == {a, b, c, d, e}
  <1>0. a \in S /\ b \in S /\ c \in S /\ d \in S /\ e \in S
    OBVIOUS
  <1> HIDE DEF S
  <1>1. <<a, b, c, d>> \in Seq(S) /\ <<e>> \in Seq(S) /\ <<a, b, c, d, e>> \in Seq(S)
    BY <1>0
  <1>2. Len(<<a, b, c, d>> \o <<e>>) = 5 /\ \A i \in 1..5 : (<<a, b, c, d>> \o <<e>>)[i] = <<a, b, c, d, e>>[i]
    BY <1>0, <1>1
  <1>3. <<a, b, c, d>> \o <<e>> \in Seq(S)
    BY <1>1
  <1> QED BY <1>1, <1>2, <1>3, SeqEqual

LEMMA Legs ==
  ASSUME NEW o \in Orders
  PROVE  LET d == Deal[o]
             t == price[o]
             pays == Part(d.dealer, 0 - Cost(o, t))
             in == Part(d.level1, t.cost2)
             out == Part(d.level1, 0 - t.cost1)
             gets == Part(d.owner, t.cost1)
         IN Transfers(o) =
              IF t.payer = "distributor"
              THEN IF d.level1 = Nil THEN <<pays, gets, Part(d.owner, 0 - t.fee)>>
                   ELSE <<pays, in, out, gets, Part(d.owner, 0 - t.fee)>>
              ELSE IF d.level1 = Nil THEN <<pays, Part(d.dealer, 0 - t.fee), gets>>
                   ELSE <<pays, Part(d.dealer, 0 - t.fee), in, out, gets>>
  <1> DEFINE d == Deal[o]
             t == price[o]
             pays == Part(d.dealer, 0 - Cost(o, t))
             in == Part(d.level1, t.cost2)
             out == Part(d.level1, 0 - t.cost1)
             gets == Part(d.owner, t.cost1)
             feeo == Part(d.owner, 0 - t.fee)
             feed == Part(d.dealer, 0 - t.fee)
  <1>1. Transfers(o) = IF t.payer = "distributor"
                       THEN <<pays>> \o (IF d.level1 = Nil THEN <<>> ELSE <<in, out>>) \o <<gets>> \o <<feeo>>
                       ELSE <<pays>> \o <<feed>> \o (IF d.level1 = Nil THEN <<>> ELSE <<in, out>>) \o <<gets>>
    BY DEF Transfers, Chain
  <1> HIDE DEF d, t, pays, in, out, gets, feeo, feed
  <1>2. /\ <<pays>> \o <<>> \o <<gets>> \o <<feeo>> = <<pays, gets, feeo>>
        /\ <<pays>> \o <<in, out>> \o <<gets>> \o <<feeo>> = <<pays, in, out, gets, feeo>>
        /\ <<pays>> \o <<feed>> \o <<>> \o <<gets>> = <<pays, feed, gets>>
        /\ <<pays>> \o <<feed>> \o <<in, out>> \o <<gets>> = <<pays, feed, in, out, gets>>
    <2>1. <<pays>> \o <<>> = <<pays>> /\ <<pays, feed>> \o <<>> = <<pays, feed>>
      OBVIOUS
    <2>2. <<pays>> \o <<gets>> = <<pays, gets>> /\ <<pays, gets>> \o <<feeo>> = <<pays, gets, feeo>>
      BY OneOne, TwoOne, Zenon
    <2>3. /\ <<pays>> \o <<in, out>> = <<pays, in, out>>
          /\ <<pays, in, out>> \o <<gets>> = <<pays, in, out, gets>>
          /\ <<pays, in, out, gets>> \o <<feeo>> = <<pays, in, out, gets, feeo>>
      <3>1. <<pays>> \o <<in, out>> = <<pays, in, out>>
        BY OneTwo, Zenon
      <3>2. <<pays, in, out>> \o <<gets>> = <<pays, in, out, gets>>
        BY ThreeOne, Zenon
      <3>3. <<pays, in, out, gets>> \o <<feeo>> = <<pays, in, out, gets, feeo>>
        BY FourOne, Zenon
      <3> QED BY <3>1, <3>2, <3>3
    <2>4. <<pays>> \o <<feed>> = <<pays, feed>> /\ <<pays, feed>> \o <<gets>> = <<pays, feed, gets>>
      BY OneOne, TwoOne, Zenon
    <2>5. /\ <<pays, feed>> \o <<in, out>> = <<pays, feed, in, out>>
          /\ <<pays, feed, in, out>> \o <<gets>> = <<pays, feed, in, out, gets>>
      BY TwoTwo, FourOne, Zenon
    <2> QED BY <2>1, <2>2, <2>3, <2>4, <2>5, Zenon
  <1>3. Transfers(o) =
              IF t.payer = "distributor"
              THEN IF d.level1 = Nil THEN <<pays, gets, feeo>>
                   ELSE <<pays, in, out, gets, feeo>>
              ELSE IF d.level1 = Nil THEN <<pays, feed, gets>>
                   ELSE <<pays, feed, in, out, gets>>
    BY <1>1, <1>2
  <1> QED BY <1>3 DEF d, t, pays, in, out, gets, feeo, feed

LEMMA DeltaTyped ==
  ASSUME NEW o \in Orders, NEW u \in Users, price[o] \in Terms
  PROVE  Delta(o, u) \in Int /\ Needed(o, price[o]) \in Int
  BY PriceTyped DEF Delta, Gain

(* All transfers together move what _compute_net_deltas says.               *)
LEMMA PaidAll ==
  ASSUME NEW o \in Orders, NEW u \in Users, price[o] \in Terms
  PROVE  /\ PaidUp(Transfers(o), u, Len(Transfers(o))) = Delta(o, u)
         /\ PaidUp(Transfers(o), u, 0) = 0
         /\ Len(Transfers(o)) \in {3, 5}
  <1> DEFINE d == Deal[o]
             t == price[o]
             s == Transfers(o)
  <1>1. /\ Cost(o, t) \in Int /\ t.cost1 \in Int /\ t.cost2 \in Int /\ t.fee \in Int
        /\ Cost(o, t) = IF d.level1 = Nil THEN t.cost1 ELSE t.cost2
        /\ u # Nil /\ t.payer \in {"dealer", "distributor"}
    BY PriceTyped, AgentAssumption DEF Cost
  <1>2. PaidUp(Transfers(o), u, 0) = 0
    BY DEF PaidUp, Leg
  <1>3. CASE t.payer = "distributor" /\ d.level1 = Nil
    <2>1. Transfers(o) = <<Part(d.dealer, 0 - Cost(o, t)), Part(d.owner, t.cost1), Part(d.owner, 0 - t.fee)>>
      BY <1>3, Legs
    <2>2. /\ Len(Transfers(o)) = 3 /\ Leg(s, u, 3, 4) = 0 /\ Leg(s, u, 3, 5) = 0
          /\ Leg(s, u, 3, 1) = IF d.dealer = u THEN 0 - Cost(o, t) ELSE 0
          /\ Leg(s, u, 3, 2) = IF d.owner = u THEN t.cost1 ELSE 0
          /\ Leg(s, u, 3, 3) = IF d.owner = u THEN 0 - t.fee ELSE 0
      BY <2>1 DEF Leg, Part
    <2>3. Delta(o, u) = (IF d.owner = u THEN t.cost1 ELSE 0) - (IF d.dealer = u THEN Cost(o, t) ELSE 0)
                        - (IF d.owner = u THEN t.fee ELSE 0)
      BY <1>1, <1>3 DEF Delta, Gain
    <2> HIDE DEF d
    <2> QED BY <1>1, <1>2, <2>2, <2>3 DEF PaidUp
  <1>4. CASE t.payer = "distributor" /\ d.level1 # Nil
    <2>1. Transfers(o) = <<Part(d.dealer, 0 - Cost(o, t)), Part(d.level1, t.cost2),
                           Part(d.level1, 0 - t.cost1), Part(d.owner, t.cost1),
                           Part(d.owner, 0 - t.fee)>>
      BY <1>4, Legs
    <2>2. /\ Len(Transfers(o)) = 5
          /\ Leg(s, u, 5, 1) = IF d.dealer = u THEN 0 - Cost(o, t) ELSE 0
          /\ Leg(s, u, 5, 2) = IF d.level1 = u THEN t.cost2 ELSE 0
          /\ Leg(s, u, 5, 3) = IF d.level1 = u THEN 0 - t.cost1 ELSE 0
          /\ Leg(s, u, 5, 4) = IF d.owner = u THEN t.cost1 ELSE 0
          /\ Leg(s, u, 5, 5) = IF d.owner = u THEN 0 - t.fee ELSE 0
      BY <2>1 DEF Leg, Part
    <2>3. Delta(o, u) = ((IF u = d.owner THEN t.cost1 ELSE 0) - (IF u = d.dealer THEN Cost(o, t) ELSE 0)
                         + (IF u = d.level1 THEN t.cost2 - t.cost1 ELSE 0))
                        - (IF u = d.owner THEN t.fee ELSE 0)
      BY <1>1, <1>4 DEF Delta, Gain
    <2> HIDE DEF d
    <2> DEFINE A == Leg(s, u, 5, 1)
               B == Leg(s, u, 5, 2)
               C == Leg(s, u, 5, 3)
               D == Leg(s, u, 5, 4)
               E == Leg(s, u, 5, 5)
               X == IF u = d.owner THEN t.cost1 ELSE 0
               Y == IF u = d.dealer THEN Cost(o, t) ELSE 0
               Z == IF u = d.level1 THEN t.cost2 - t.cost1 ELSE 0
               W == IF u = d.owner THEN t.fee ELSE 0
    <2>4. A = 0 - Y /\ Y \in Int
      BY <1>1, <2>2
    <2>5. B + C = Z /\ B \in Int /\ C \in Int
      BY <1>1, <2>2
    <2>6. D = X /\ X \in Int
      BY <1>1, <2>2
    <2>7. E = 0 - W /\ W \in Int
      BY <1>1, <2>2
    <2>8. PaidUp(Transfers(o), u, 5) = A + B + C + D + E /\ Delta(o, u) = (X - Y + Z) - W
      BY <2>3 DEF PaidUp
    <2>9. PaidUp(Transfers(o), u, 5) = Delta(o, u)
      <3> HIDE DEF A, B, C, D, E, W, X, Y, Z
      <3> QED BY <2>4, <2>5, <2>6, <2>7, <2>8
    <2> QED BY <1>2, <2>2, <2>9
  <1>5. CASE t.payer = "dealer" /\ d.level1 = Nil
    <2>1. Transfers(o) = <<Part(d.dealer, 0 - Cost(o, t)), Part(d.dealer, 0 - t.fee), Part(d.owner, t.cost1)>>
      BY <1>5, Legs
    <2> QED BY <1>1, <1>2, <1>5, <2>1 DEF PaidUp, Leg, Part, Delta, Gain
  <1>6. CASE t.payer = "dealer" /\ d.level1 # Nil
    <2>1. Transfers(o) = <<Part(d.dealer, 0 - Cost(o, t)), Part(d.dealer, 0 - t.fee),
                           Part(d.level1, t.cost2), Part(d.level1, 0 - t.cost1),
                           Part(d.owner, t.cost1)>>
      BY <1>6, Legs
    <2>2. /\ Len(Transfers(o)) = 5
          /\ Leg(s, u, 5, 1) = IF d.dealer = u THEN 0 - Cost(o, t) ELSE 0
          /\ Leg(s, u, 5, 2) = IF d.dealer = u THEN 0 - t.fee ELSE 0
          /\ Leg(s, u, 5, 3) = IF d.level1 = u THEN t.cost2 ELSE 0
          /\ Leg(s, u, 5, 4) = IF d.level1 = u THEN 0 - t.cost1 ELSE 0
          /\ Leg(s, u, 5, 5) = IF d.owner = u THEN t.cost1 ELSE 0
      BY <2>1 DEF Leg, Part
    <2>3. Delta(o, u) = ((IF u = d.owner THEN t.cost1 ELSE 0) - (IF u = d.dealer THEN Cost(o, t) ELSE 0)
                         + (IF u = d.level1 THEN t.cost2 - t.cost1 ELSE 0))
                        - (IF u = d.dealer THEN t.fee ELSE 0)
      BY <1>1, <1>6 DEF Delta, Gain
    <2> HIDE DEF d, t
    <2> DEFINE A == Leg(s, u, 5, 1)
               B == Leg(s, u, 5, 2)
               C == Leg(s, u, 5, 3)
               D == Leg(s, u, 5, 4)
               E == Leg(s, u, 5, 5)
               X == IF u = d.owner THEN t.cost1 ELSE 0
               Y == IF u = d.dealer THEN Cost(o, t) ELSE 0
               Z == IF u = d.level1 THEN t.cost2 - t.cost1 ELSE 0
               W == IF u = d.dealer THEN t.fee ELSE 0
    <2>4. A = 0 - Y /\ Y \in Int
      BY <1>1, <2>2
    <2>5. B = 0 - W /\ W \in Int
      BY <1>1, <2>2
    <2>6. C + D = Z /\ C \in Int /\ D \in Int
      BY <1>1, <2>2
    <2>7. E = X /\ X \in Int
      BY <1>1, <2>2
    <2>8. PaidUp(Transfers(o), u, 5) = A + B + C + D + E /\ Delta(o, u) = (X - Y + Z) - W
      BY <2>3 DEF PaidUp
    <2>9. PaidUp(Transfers(o), u, 5) = Delta(o, u)
      <3> HIDE DEF A, B, C, D, E, W, X, Y, Z
      <3> QED BY <2>4, <2>5, <2>6, <2>7, <2>8
    <2> QED BY <1>2, <2>2, <2>9
  <1> QED BY <1>1, <1>3, <1>4, <1>5, <1>6

(* One more transfer.                                                       *)
LEMMA PaidNext ==
  ASSUME AgentTypes, NEW o \in Orders, Unpaid(o), NEW u \in Users
  PROVE  PaidUp(Transfers(o), u, done[o] + 1) =
           PaidUp(Transfers(o), u, done[o]) + IF Next1(o).who = u THEN Next1(o).amount ELSE 0
  <1>1. done[o] \in 0..4 /\ done[o] < Len(Transfers(o)) /\ Len(Transfers(o)) \in {3, 5}
    <2>1. Len(Transfers(o)) \in {3, 5}
      BY PaidAll DEF AgentTypes
    <2>2. done[o] \in Nat /\ done[o] < Len(Transfers(o))
      BY DEF AgentTypes, Unpaid
    <2> DEFINE m == Len(Transfers(o))
    <2>3. m \in {3, 5} /\ done[o] \in Nat /\ done[o] < m
      BY <2>1, <2>2
    <2> HIDE DEF m
    <2>4. done[o] \in 0..4
      BY <2>3
    <2> QED BY <2>3, <2>4 DEF m
  <1>2. Next1(o).amount \in Int /\ Next1(o) = Transfers(o)[done[o] + 1]
    BY NextTyped DEF Next1
  <1>3. \A i \in 1..5 : i <= done[o] + 1 => Transfers(o)[i].amount \in Int
    <2>1. \A i \in 1..Len(Transfers(o)) : Transfers(o)[i].amount \in Int
      <3> TAKE i \in 1..Len(Transfers(o))
      <3>1. Transfers(o)[i] \in [who : Parties(o), amount : Int]
        BY TransfersTyped, ElementOfSeq DEF AgentTypes
      <3> QED BY <3>1
    <2> QED BY <1>1, <2>1
  <1>4. CASE done[o] = 0
    BY <1>2, <1>3, <1>4 DEF PaidUp, Leg
  <1>5. CASE done[o] = 1
    BY <1>2, <1>3, <1>5 DEF PaidUp, Leg
  <1>6. CASE done[o] = 2
    BY <1>2, <1>3, <1>6 DEF PaidUp, Leg
  <1>7. CASE done[o] = 3
    BY <1>2, <1>3, <1>7 DEF PaidUp, Leg
  <1>8. CASE done[o] = 4
    BY <1>2, <1>3, <1>8 DEF PaidUp, Leg
  <1> QED BY <1>1, <1>4, <1>5, <1>6, <1>7, <1>8

(* A dealer is not its own agent (create_sub_dock_record refuses it), and   *)
(* an owner that deals in its own card and pays the fee gets more for the   *)
(* card than the fee, whatever the terms it finds.                          *)
DealersApart ==
  \A o \in Deliveries :
    /\ Deal[o].dealer # Deal[o].level1
    /\ Deal[o].dealer = Deal[o].owner =>
         \A p \in Prices[o] : p.payer = "distributor" => p.fee <= p.cost1

(* The dealer never loses more than its terms ask of its balance, wherever  *)
(* the settlement stops.                                                    *)
LEMMA PaidNeeded ==
  ASSUME DealersApart, AgentTypes, NEW o \in Deliveries
  PROVE  PaidUp(Transfers(o), Deal[o].dealer, done[o]) + Needed(o, price[o]) >= 0
  <1> DEFINE d == Deal[o]
             t == price[o]
             s == Transfers(o)
             n == done[o]
  <1>1. /\ Cost(o, t) \in Nat /\ t.cost1 \in Nat /\ t.cost2 \in Nat /\ t.fee \in Nat
        /\ t.payer \in {"dealer", "distributor"} /\ o \in Orders
        /\ Cost(o, t) = IF d.level1 = Nil THEN t.cost1 ELSE t.cost2
    BY PriceTyped DEF Cost, Orders, AgentTypes
  <1>2. /\ d.dealer # d.level1
        /\ d.dealer = d.owner /\ t.payer = "distributor" => t.fee <= t.cost1
    BY <1>1 DEF DealersApart, AgentTypes
  <1>3. n \in Nat /\ n <= Len(Transfers(o))
    BY <1>1 DEF AgentTypes
  <1>4. CASE t.payer = "distributor" /\ d.level1 = Nil
    <2>1. Transfers(o) = <<Part(d.dealer, 0 - Cost(o, t)), Part(d.owner, t.cost1), Part(d.owner, 0 - t.fee)>>
      BY <1>1, <1>4, Legs
    <2>2. n \in 0..3
      BY <1>3, <2>1
    <2>3. /\ Leg(s, d.dealer, n, 4) = 0 /\ Leg(s, d.dealer, n, 5) = 0
          /\ Leg(s, d.dealer, n, 1) = IF n >= 1 THEN 0 - Cost(o, t) ELSE 0
          /\ Leg(s, d.dealer, n, 2) = IF n >= 2 /\ d.owner = d.dealer THEN t.cost1 ELSE 0
          /\ Leg(s, d.dealer, n, 3) = IF n >= 3 /\ d.owner = d.dealer THEN 0 - t.fee ELSE 0
      BY <2>1, <2>2 DEF Leg, Part
    <2>4. Needed(o, t) = Cost(o, t) + 0
      BY <1>4 DEF Needed
    <2>5. PaidUp(s, d.dealer, n) + Needed(o, t) >= 0
      <3> HIDE DEF d, n, t, s
      <3> QED BY <1>1, <1>2, <1>4, <2>2, <2>3, <2>4 DEF PaidUp
    <2> QED BY <2>5
  <1>5. CASE t.payer = "distributor" /\ d.level1 # Nil
    <2>1. Transfers(o) = <<Part(d.dealer, 0 - Cost(o, t)), Part(d.level1, t.cost2),
                           Part(d.level1, 0 - t.cost1), Part(d.owner, t.cost1),
                           Part(d.owner, 0 - t.fee)>>
      BY <1>1, <1>5, Legs
    <2>2. n \in 0..5
      BY <1>3, <2>1
    <2>3. /\ Leg(s, d.dealer, n, 2) = 0 /\ Leg(s, d.dealer, n, 3) = 0
          /\ Leg(s, d.dealer, n, 1) = IF n >= 1 THEN 0 - Cost(o, t) ELSE 0
          /\ Leg(s, d.dealer, n, 4) = IF n >= 4 /\ d.owner = d.dealer THEN t.cost1 ELSE 0
          /\ Leg(s, d.dealer, n, 5) = IF n >= 5 /\ d.owner = d.dealer THEN 0 - t.fee ELSE 0
      BY <1>2, <2>1, <2>2 DEF Leg, Part
    <2>4. Needed(o, t) = Cost(o, t) + 0
      BY <1>5 DEF Needed
    <2>5. PaidUp(s, d.dealer, n) + Needed(o, t) >= 0
      <3> HIDE DEF d, n, t, s
      <3> QED BY <1>1, <1>2, <1>5, <2>2, <2>3, <2>4 DEF PaidUp
    <2> QED BY <2>5
  <1>6. CASE t.payer = "dealer" /\ d.level1 = Nil
    <2>1. Transfers(o) = <<Part(d.dealer, 0 - Cost(o, t)), Part(d.dealer, 0 - t.fee), Part(d.owner, t.cost1)>>
      BY <1>1, <1>6, Legs
    <2>2. n \in 0..3
      BY <1>3, <2>1
    <2> QED BY <1>1, <1>2, <1>6, <2>1, <2>2 DEF PaidUp, Leg, Part, Needed, n
  <1>7. CASE t.payer = "dealer" /\ d.level1 # Nil
    <2>1. Transfers(o) = <<Part(d.dealer, 0 - Cost(o, t)), Part(d.dealer, 0 - t.fee),
                           Part(d.level1, t.cost2), Part(d.level1, 0 - t.cost1),
                           Part(d.owner, t.cost1)>>
      BY <1>1, <1>7, Legs
    <2>2. n \in 0..5
      BY <1>3, <2>1
    <2> QED BY <1>1, <1>2, <1>7, <2>1, <2>2 DEF PaidUp, Leg, Part, Needed, n
  <1> QED BY <1>1, <1>4, <1>5, <1>6, <1>7

-----------------------------------------------------------------------------

(* The steps, for the money *)

LEMMA MoneyEnds ==
  ASSUME MoneyInv, NEW o \in Orders, NEW s \in Ended, Goto(o, s),
         Rollback(o) \/ (Commit(o) /\ fresh[o] = Nil), UNCHANGED dealVars
  PROVE  Moved' /\ Afforded'
  <1>1. EndTx(o)
    BY DEF Rollback, Commit
  <1>2. /\ \A u \in Users : moved'[o][u] = 0
        /\ \A p \in Orders \ {o} : moved'[p] = moved[p] /\ done'[p] = done[p]
        /\ done'[o] = 0
    BY <1>1, EndTxStep DEF MoneyInv, PickupInv, Rollback, Commit, books
  <1>3. /\ \A p \in Orders : Transfers(p)' = Transfers(p)
        /\ \A p \in Orders, u \in Users : Delta(p, u)' = Delta(p, u)
        /\ checked' = checked /\ asked' = asked
    BY SameTerms DEF dealVars
  <1>4. stage'[o] = s /\ \A p \in Orders \ {o} : stage'[p] = stage[p]
    BY DEF Goto, MoneyInv, PickupInv, AgentInv, AgentTypes
  <1>5. s \notin {"card", "pay", "take", "swap", "record"}
    BY DEF Ended
  <1>6. Moved'
    <2> SUFFICES ASSUME NEW p \in Orders, NEW u \in Users
                 PROVE  moved'[p][u] = PaidUp(Transfers(p), u, done'[p])
      BY <1>3 DEF Moved, PaidUp, Leg
    <2>1. CASE p = o
      BY <1>2, <2>1, PaidAll DEF MoneyInv, PickupInv, AgentInv, AgentTypes
    <2>2. CASE p # o
      BY <1>2, <2>2 DEF MoneyInv, Moved
    <2> QED BY <2>1, <2>2
  <1>7. ASSUME NEW p \in Pickups, stage'[p] \in {"card", "pay"}, NEW u \in Parties(p), Delta(p, u) < 0
        PROVE  balance'[u] + Delta(p, u) >= 0
    <2>1. p \in Orders /\ p # o /\ stage[p] \in {"card", "pay"} /\ u \in Users
      BY <1>4, <1>5, <1>7, RolesTyped DEF Orders
    <2>2. balance[u] + Delta(p, u) >= 0
      BY <1>7, <2>1 DEF MoneyInv, Afforded
    <2>3. view[p][u] # Nil
      BY <1>7, <2>1 DEF MoneyInv, PickupInv, Ascending, Missing
    <2>4. balance'[u] = balance[u]
      BY <2>1, <2>3, CommitKeeps DEF MoneyInv, PickupInv, Rollback, books
    <2> QED BY <2>2, <2>4
  <1>8. ASSUME NEW p \in Deliveries, stage'[p] \in {"take", "swap", "record", "pay"}
        PROVE  checked'[p] >= asked'[p]
    <2>1. p \in Orders /\ p # o /\ stage[p] \in {"take", "swap", "record", "pay"}
      BY <1>4, <1>5, <1>8 DEF Orders
    <2> QED BY <1>3, <1>8, <2>1 DEF MoneyInv, Afforded
  <1>9. Afforded'
    <2>1. \A p \in Pickups : \A u \in Parties(p) : Delta(p, u)' = Delta(p, u)
      BY <1>3, RolesTyped DEF Orders
    <2> QED BY <1>7, <1>8, <2>1 DEF Afforded, Parties
  <1> QED BY <1>6, <1>9

LEMMA PaidNone ==
  ASSUME NEW s, NEW u
  PROVE  PaidUp(s, u, 0) = 0
  BY DEF PaidUp, Leg

LEMMA MoneyStep ==
  ASSUME MoneyInv, [AgentNext]_agentVars
  PROVE  Moved' /\ Afforded'
  <1> USE DEF MoneyInv, PickupInv
  <1> DEFINE Begun == {"take", "swap", "record", "pay"}
  <1>m. ASSUME moved' = moved, done' = done,
               \A p \in Orders : price'[p] = price[p] \/ stage[p] # "pay"
        PROVE  Moved'
    <2> SUFFICES ASSUME NEW p \in Orders, NEW u \in Users
                 PROVE  moved'[p][u] = PaidUp(Transfers(p)', u, done'[p])
      BY DEF Moved, PaidUp, Leg
    <2>1. moved[p][u] = PaidUp(Transfers(p), u, done[p])
      BY DEF Moved
    <2>2. CASE price'[p] = price[p]
      <3>1. Transfers(p)' = Transfers(p)
        BY <2>2, SameTerms
      <3> QED BY <1>m, <2>1, <3>1
    <2>3. CASE stage[p] # "pay"
      <3>1. done[p] = 0
        BY <2>3 DEF AgentInv, Counted
      <3> QED BY <1>m, <2>1, <3>1, PaidNone
    <2> QED BY <1>m, <2>2, <2>3
  <1>f. ASSUME balance' = balance,
               \A p \in Pickups : stage'[p] \in {"card", "pay"} =>
                  stage[p] \in {"card", "pay"} /\ price'[p] = price[p],
               \A p \in Deliveries : stage'[p] \in Begun =>
                  stage[p] \in Begun /\ checked'[p] = checked[p] /\ asked'[p] = asked[p]
        PROVE  Afforded'
    <2>1. ASSUME NEW p \in Pickups, stage'[p] \in {"card", "pay"}, NEW u \in Parties(p)
          PROVE  Delta(p, u)' < 0 => balance'[u] + Delta(p, u)' >= 0
      <3>1. Delta(p, u)' = Delta(p, u)
        BY <1>f, <2>1, SameTerms, RolesTyped DEF Orders
      <3> QED BY <1>f, <2>1, <3>1 DEF Afforded
    <2> QED BY <1>f, <2>1 DEF Afforded, Parties
  <1>1. ASSUME NEW o \in Orders, ReadLines(o) \/ Swap(o) \/ SwapLost(o) \/ Record(o)
        PROVE  Moved' /\ Afforded'
    <2>1. /\ stage[o] \in {"take", "swap", "record"} /\ UNCHANGED <<books, txVars, checked, asked>>
          /\ \E s \in {"take", "refused", "swap", "record", "pay"} : Goto(o, s)
      BY <1>1 DEF ReadLines, Swap, SwapLost, Record, At, dealVars
    <2>2. o \in Deliveries /\ o \notin Pickups
      BY <2>1, AgentAssumption DEF AgentInv, Counted
    <2>3. \A p \in Orders \ {o} : stage'[p] = stage[p]
      BY <2>1 DEF Goto, AgentInv, AgentTypes
    <2>p. \A p \in Orders \ {o} : price'[p] = price[p]
      BY <1>1 DEF ReadLines, Swap, SwapLost, Record, dealVars, AgentInv, AgentTypes
    <2>4. Moved'
      BY <1>m, <2>1, <2>p DEF txVars
    <2>5. Afforded'
      BY <1>f, <2>1, <2>2, <2>3, <2>p DEF books, Orders
    <2> QED BY <2>4, <2>5
  <1>2. ASSUME NEW o \in Orders, Check(o)
        PROVE  Moved' /\ Afforded'
    <2>1. /\ stage[o] = "idle" /\ UNCHANGED <<books, txVars>> /\ o \in Deliveries /\ o \notin Pickups
          /\ \E s \in {"take", "refused"} : Goto(o, s)
      BY <1>2, AgentAssumption DEF Check, At
    <2>2. \A p \in Orders \ {o} : /\ stage'[p] = stage[p] /\ checked'[p] = checked[p]
                                  /\ asked'[p] = asked[p] /\ price'[p] = price[p]
      BY <1>2, <2>1 DEF Check, Goto, dealVars, AgentInv, AgentTypes
    <2>3. stage'[o] \in Begun => checked'[o] >= asked'[o]
      <3>1. CASE Goto(o, "refused")
        BY <3>1 DEF Goto, AgentInv, AgentTypes
      <3>2. ASSUME NEW p \in Prices[o], balance[Deal[o].dealer] >= Needed(o, p),
                   checked' = [checked EXCEPT ![o] = balance[Deal[o].dealer]],
                   asked' = [asked EXCEPT ![o] = Needed(o, p)]
            PROVE  checked'[o] >= asked'[o]
        BY <3>2 DEF AgentInv, AgentTypes
      <3> QED BY <1>2, <3>1, <3>2 DEF Check
    <2>4. Moved'
      BY <1>m, <2>1, <2>2 DEF txVars
    <2>6. ASSUME NEW p \in Pickups, stage'[p] \in {"card", "pay"}, NEW u \in Parties(p)
          PROVE  Delta(p, u)' < 0 => balance'[u] + Delta(p, u)' >= 0
      <3>1. p \in Orders \ {o} /\ u \in Users
        BY <2>1, RolesTyped DEF Orders
      <3>2. Delta(p, u)' = Delta(p, u)
        BY <2>2, <3>1, SameTerms
      <3> QED BY <2>1, <2>2, <2>6, <3>1, <3>2 DEF Afforded, books
    <2>7. ASSUME NEW p \in Deliveries, stage'[p] \in Begun
          PROVE  checked'[p] >= asked'[p]
      BY <2>2, <2>3, <2>7 DEF Afforded, Orders
    <2>8. Afforded'
      BY <2>6, <2>7 DEF Afforded, Parties
    <2> QED BY <2>4, <2>8
  <1>3. ASSUME NEW o \in Orders, ReadCard(o)
        PROVE  Moved' /\ Afforded'
    <2>1. /\ stage[o] = "idle" /\ UNCHANGED <<books, txVars, checked, asked>> /\ Goto(o, "lock")
      BY <1>3 DEF ReadCard, At
    <2>2. /\ stage'[o] = "lock" /\ \A p \in Orders \ {o} : stage'[p] = stage[p]
          /\ \A p \in Orders \ {o} : price'[p] = price[p]
      BY <1>3, <2>1 DEF ReadCard, Goto, AgentInv, AgentTypes
    <2>3. Moved'
      BY <1>m, <2>1, <2>2 DEF txVars
    <2>4. Afforded'
      BY <1>f, <2>1, <2>2 DEF books, Orders
    <2> QED BY <2>3, <2>4
  <1>4. ASSUME NEW o \in Orders, LockParty(o) \/ Insert(o)
        PROVE  Moved' /\ Afforded'
    <2>1. UNCHANGED <<stage, books, moved, done, dealVars>>
      BY <1>4 DEF LockParty, Insert
    <2>2. Moved'
      BY <1>m, <2>1 DEF dealVars
    <2>3. Afforded'
      BY <1>f, <2>1 DEF books, dealVars
    <2> QED BY <2>2, <2>3
  <1>5. ASSUME NEW o \in Orders, Weigh(o)
        PROVE  Moved' /\ Afforded'
    <2>1. CASE Goto(o, "card") /\ UNCHANGED <<txVars, books, stock, read, rounds>>
                /\ \A u \in Parties(o) : Delta(o, u) < 0 => view[o][u] + Delta(o, u) >= 0
      <3>1. /\ stage'[o] = "card" /\ \A p \in Orders \ {o} : stage'[p] = stage[p]
            /\ stage[o] = "lock" /\ Missing(o) = {} /\ o \in Pickups /\ UNCHANGED dealVars
            /\ o \notin Deliveries
        BY <1>5, <2>1, AgentAssumption DEF Weigh, At, Goto, AgentInv, AgentTypes, Holders
      <3>2. Moved'
        BY <1>m, <2>1, <3>1 DEF txVars, dealVars
      <3>3. \A u \in Parties(o) : view[o][u] = balance[u]
        <4> TAKE u \in Parties(o)
        <4>1. u \in Users /\ view[o][u] # Nil
          BY <3>1, RolesTyped DEF Missing
        <4>2. moved[o][u] = 0
          BY <3>1, <4>1, PaidNone DEF Moved, AgentInv, Counted
        <4>3. balance[u] \in Int
          BY <4>1 DEF AgentInv, AgentTypes
        <4> QED BY <4>1, <4>2, <4>3 DEF AgentInv, Ledger
      <3>4. ASSUME NEW p \in Pickups, stage'[p] \in {"card", "pay"}, NEW u \in Parties(p)
            PROVE  Delta(p, u)' < 0 => balance'[u] + Delta(p, u)' >= 0
        <4>1. Delta(p, u)' = Delta(p, u)
          BY <3>1, SameTerms, RolesTyped DEF dealVars, Orders
        <4>2. Delta(p, u) < 0 => balance[u] + Delta(p, u) >= 0
          BY <2>1, <3>1, <3>3, <3>4 DEF Afforded, Orders
        <4> QED BY <2>1, <4>1, <4>2 DEF books
      <3>5. \A p \in Deliveries : stage'[p] \in Begun => checked'[p] >= asked'[p]
        BY <3>1 DEF Afforded, Orders, dealVars
      <3>6. Afforded'
        BY <3>4, <3>5 DEF Afforded, Parties
      <3> QED BY <3>2, <3>6
    <2>2. CASE Goto(o, "refused") /\ Rollback(o)
      BY <1>5, <2>2, MoneyEnds DEF Weigh, Ended
    <2> QED BY <1>5, <2>1, <2>2 DEF Weigh, Closed
  <1>6. ASSUME NEW o \in Orders, TakeLine(o)
        PROVE  Moved' /\ Afforded'
    <2>1. CASE read[o] = <<>>
      BY <1>6, <2>1, MoneyEnds DEF TakeLine, Ended
    <2>2. CASE read[o] # <<>>
      <3>1. /\ Goto(o, "pay") /\ stage[o] = "card" /\ UNCHANGED <<books, moved, done, dealVars>>
        BY <1>6, <2>2 DEF TakeLine, At
      <3>2. stage'[o] = "pay" /\ \A p \in Orders \ {o} : stage'[p] = stage[p]
        BY <3>1 DEF Goto, AgentInv, AgentTypes
      <3>3. o \notin Deliveries
        BY <3>1, AgentAssumption DEF Holders
      <3>4. Moved'
        BY <1>m, <3>1, <3>2 DEF dealVars
      <3>5. Afforded'
        BY <1>f, <3>1, <3>2, <3>3 DEF books, dealVars, Orders
      <3> QED BY <3>4, <3>5
    <2> QED BY <2>1, <2>2
  <1>7. ASSUME NEW o \in Orders, Pay(o)
        PROVE  Moved' /\ Afforded'
    <2> DEFINE v == Next1(o).who
               n == Next1(o).amount
    <2>1. /\ moved' = [moved EXCEPT ![o][v] = moved[o][v] + n]
          /\ done' = [done EXCEPT ![o] = done[o] + 1]
          /\ UNCHANGED <<stage, books, dealVars>> /\ stage[o] = "pay" /\ Unpaid(o)
      BY <1>7 DEF Pay, At
    <2>2. v \in Users /\ n \in Int
      BY <2>1, NextTyped DEF AgentInv
    <2>3. \A u \in Users : PaidUp(Transfers(o), u, done[o] + 1)
                             = PaidUp(Transfers(o), u, done[o]) + IF v = u THEN n ELSE 0
      BY <2>1, PaidNext DEF AgentInv
    <2> HIDE DEF v, n
    <2>4. /\ \A u \in Users : moved'[o][u] = moved[o][u] + IF v = u THEN n ELSE 0
          /\ \A p \in Orders \ {o} : moved'[p] = moved[p] /\ done'[p] = done[p]
          /\ done'[o] = done[o] + 1
      <3>1. /\ moved \in [Orders -> [Users -> Int]] /\ done \in [Orders -> Nat]
        BY DEF AgentInv, AgentTypes
      <3>2. \A u \in Users : moved[o][u] \in Int /\ moved[o][u] + 0 = moved[o][u]
        BY <3>1
      <3>3. \A p \in Orders \ {o} : moved'[p] = moved[p] /\ done'[p] = done[p]
        BY <2>1, <3>1
      <3> QED BY <2>1, <2>2, <3>1, <3>2, <3>3
    <2>5. \A u \in Users : moved'[o][u] = PaidUp(Transfers(o), u, done'[o])
      BY <2>3, <2>4 DEF Moved
    <2>6. \A p \in Orders, u \in Users : moved'[p][u] = PaidUp(Transfers(p), u, done'[p])
      BY <2>4, <2>5 DEF Moved
    <2>t. \A p \in Orders : Transfers(p)' = Transfers(p)
      BY <2>1, SameTerms DEF dealVars
    <2>7. Moved'
      BY <2>6, <2>t DEF Moved, PaidUp, Leg
    <2>8. Afforded'
      BY <1>f, <2>1 DEF books, dealVars
    <2> QED BY <2>7, <2>8
  <1>8. ASSUME NEW o \in Orders, Settle(o) \/ WaitTimeout(o) \/ Victim(o) \/ Crash(o)
        PROVE  Moved' /\ Afforded'
    <2>1. /\ \E s \in Ended : Goto(o, s)
          /\ Rollback(o) \/ (Commit(o) /\ fresh[o] = Nil)
          /\ UNCHANGED dealVars
      BY <1>8 DEF Settle, WaitTimeout, Victim, Crash, Ended
    <2> QED BY <2>1, MoneyEnds
  <1>9. ASSUME NEW p \in Postings, Post(p)
        PROVE  Moved' /\ Afforded'
    <2>1. UNCHANGED <<stage, txVars, dealVars>>
      BY <1>9 DEF Post
    <2>2. Moved'
      BY <1>m, <2>1 DEF txVars, dealVars
    <2>3. ASSUME NEW o \in Pickups, stage'[o] \in {"card", "pay"}, NEW u \in Parties(o)
          PROVE  Delta(o, u)' < 0 => balance'[u] + Delta(o, u)' >= 0
      <3>1. u \in Users /\ o \in Orders /\ view[o][u] # Nil
        BY <2>1, <2>3, RolesTyped DEF Ascending, Missing, Orders
      <3>2. balance'[u] = balance[u]
        BY <1>9, <3>1, PostMoves
      <3>3. Delta(o, u)' = Delta(o, u)
        BY <2>1, <3>1, SameTerms DEF dealVars
      <3> QED BY <2>1, <2>3, <3>2, <3>3 DEF Afforded
    <2>4. Afforded'
      BY <2>1, <2>3 DEF Afforded, Parties, dealVars
    <2> QED BY <2>2, <2>4
  <1>10. CASE UNCHANGED agentVars
    <2>1. UNCHANGED <<stage, balance, moved, done, dealVars>>
      BY <1>10 DEF agentVars, books, txVars
    <2> QED BY <1>m, <1>f, <2>1 DEF dealVars
  <1> QED BY <1>1, <1>2, <1>3, <1>4, <1>5, <1>6, <1>7, <1>8, <1>9, <1>10 DEF AgentNext, Step

LEMMA MoneyInvariant == AgentSpec => []MoneyInv
  <1>1. AgentInit => MoneyInv
    <2>1. AgentInit => Moved
      BY PaidNone DEF AgentInit, Moved, Nothing
    <2>2. AgentInit => Afforded
      BY DEF AgentInit, Afforded, Orders
    <2> QED BY <2>1, <2>2, PickupStart DEF MoneyInv
  <1>2. MoneyInv /\ [AgentNext]_agentVars => MoneyInv'
    BY AgentStep, PickupStep, MoneyStep DEF MoneyInv, PickupInv
  <1> QED BY <1>1, <1>2, PTL DEF AgentSpec

-----------------------------------------------------------------------------
(* What the steps may do *)

(* An order that ends has settled, has committed what a lock wait has cut   *)
(* short, or has moved nothing.                                             *)
LEMMA EndsHow ==
  ASSUME AgentInv, [AgentNext]_agentVars, NEW o \in Orders,
         stage[o] \notin Ended, stage'[o] \in Ended
  PROVE  \/ Settle(o) /\ stage'[o] = "settled"
         \/ stage[o] = "pay" /\ Commit(o) /\ stage'[o] = "partial"
         \/ stage'[o] \in {"refused", "undone", "unrecorded"} /\ flows' = flows
  <1> DEFINE Result == \/ Settle(o) /\ stage'[o] = "settled"
                       \/ stage[o] = "pay" /\ Commit(o) /\ stage'[o] = "partial"
                       \/ stage'[o] \in {"refused", "undone", "unrecorded"} /\ flows' = flows
  <1>s. \A p \in Orders : \A t : Goto(p, t) => stage'[p] = t /\ (p # o => stage'[o] = stage[o])
    BY DEF Goto, AgentInv, AgentTypes
  <1>1. ASSUME NEW p \in Orders, Check(p) \/ ReadCard(p) \/ ReadLines(p)
        PROVE  Result
    <2>1. UNCHANGED books /\ \E t \in {"take", "lock", "swap", "refused"} : Goto(p, t)
      BY <1>1 DEF Check, ReadCard, ReadLines
    <2> QED BY <2>1, <1>s DEF books, Ended
  <1>2. ASSUME NEW p \in Orders, Swap(p) \/ SwapLost(p) \/ Record(p)
        PROVE  Result
    <2>1. UNCHANGED books /\ \E t \in {"record", "pay", "take", "refused"} : Goto(p, t)
      BY <1>2 DEF Swap, SwapLost, Record
    <2> QED BY <2>1, <1>s DEF books, Ended
  <1>3. ASSUME NEW p \in Orders, LockParty(p) \/ Pay(p) \/ Insert(p)
        PROVE  Result
    BY <1>3 DEF LockParty, Pay, Insert
  <1>4. ASSUME NEW p \in Orders, Weigh(p) \/ TakeLine(p)
        PROVE  Result
    <2>1. UNCHANGED books /\ \E t \in {"card", "pay", "refused"} : Goto(p, t)
      BY <1>4 DEF Weigh, TakeLine, Closed, Rollback
    <2> QED BY <2>1, <1>s DEF books, Ended
  <1>5. ASSUME NEW p \in Orders, Settle(p)
        PROVE  Result
    <2>1. Goto(p, "settled")
      BY <1>5 DEF Settle
    <2> QED BY <1>5, <2>1, <1>s
  <1>6. ASSUME NEW p \in Orders, WaitTimeout(p) \/ Victim(p) \/ Crash(p)
        PROVE  Result
    <2>1. \/ Goto(p, "partial") /\ Commit(p) /\ stage[p] = "pay"
          \/ UNCHANGED books /\ \E t \in {"undone", "unrecorded"} : Goto(p, t)
      BY <1>6 DEF WaitTimeout, Victim, Crash, Rollback, At
    <2> QED BY <2>1, <1>s DEF books
  <1>7. ASSUME NEW p \in Postings, Post(p)
        PROVE  Result
    BY <1>7 DEF Post
  <1>8. CASE UNCHANGED agentVars
    BY <1>8 DEF agentVars
  <1> QED BY <1>1, <1>2, <1>3, <1>4, <1>5, <1>6, <1>7, <1>8 DEF AgentNext, Step

(* A settled order has moved, in one step, what _compute_net_deltas says of *)
(* each party, however its statements interleaved with others; an order     *)
(* that was given up has moved nothing.                                     *)
THEOREM OrdersSettleAsAgreed == AgentSpec => SettledAsAgreed
  <1> DEFINE Agreed == \A o \in Orders :
        /\ Ends(o, {"settled"}) => \A u \in Users : flows'[u] - flows[u] = Delta(o, u)
        /\ Ends(o, {"refused", "undone", "unrecorded"}) => flows' = flows
  <1>1. ASSUME MoneyInv, [AgentNext]_agentVars
        PROVE  Agreed
    <2> SUFFICES ASSUME NEW o \in Orders, stage[o] \notin Ended, stage'[o] \in Ended
                 PROVE  /\ stage'[o] = "settled" => \A u \in Users : flows'[u] - flows[u] = Delta(o, u)
                        /\ stage'[o] \in {"refused", "undone", "unrecorded"} => flows' = flows
      BY DEF Ends, Ended
    <2>1. CASE Settle(o) /\ stage'[o] = "settled"
      <3>1. done[o] = Len(Transfers(o)) /\ Commit(o)
        <4>1. Len(Transfers(o)) \in Nat /\ done[o] \in Nat /\ done[o] <= Len(Transfers(o))
          BY <1>1, TransfersTyped DEF MoneyInv, PickupInv, AgentInv, AgentTypes
        <4> QED BY <2>1, <4>1 DEF Settle, Unpaid
      <3>2. \A u \in Users : moved[o][u] = Delta(o, u)
        BY <1>1, <3>1, PaidAll DEF MoneyInv, PickupInv, AgentInv, AgentTypes, Moved
      <3>3. \A u \in Users : flows'[u] = flows[u] + moved[o][u] /\ flows[u] \in Int /\ moved[o][u] \in Int
        BY <1>1, <3>1, CommitMoves DEF MoneyInv, PickupInv
      <3>4. \A u \in Users : flows'[u] - flows[u] = Delta(o, u)
        <4> TAKE u \in Users
        <4> QED BY <3>2, <3>3
      <3> QED BY <2>1, <3>4
    <2>2. CASE stage'[o] = "partial"
      BY <2>2
    <2>3. CASE stage'[o] \in {"refused", "undone", "unrecorded"} /\ flows' = flows
      BY <2>3
    <2> QED BY <1>1, <2>1, <2>2, <2>3, EndsHow DEF MoneyInv, PickupInv
  <1>2. MoneyInv /\ [AgentNext]_agentVars => [Agreed]_agentVars
    BY <1>1
  <1> QED BY <1>2, MoneyInvariant, PTL DEF AgentSpec, SettledAsAgreed

(* A delivery overdraws its dealer only if since the check the dealer's     *)
(* balance has become smaller or the terms have changed so that more is     *)
(* charged than was asked, also when a lock wait cuts its settlement short. *)
THEOREM CheckedDealersPay ==
  ASSUME DealersApart
  PROVE  AgentSpec => CheckSuffices
  <1> DEFINE Sufficient == \A o \in Deliveries :
        Ends(o, {"settled", "partial"}) /\ balance[Deal[o].dealer] >= checked[o]
        /\ Needed(o, price[o]) <= asked[o] => balance'[Deal[o].dealer] >= 0
  <1>1. ASSUME MoneyInv, [AgentNext]_agentVars
        PROVE  Sufficient
    <2> SUFFICES ASSUME NEW o \in Deliveries, stage[o] \notin Ended, stage'[o] \in {"settled", "partial"},
                        balance[Deal[o].dealer] >= checked[o], Needed(o, price[o]) <= asked[o]
                 PROVE  balance'[Deal[o].dealer] >= 0
      BY DEF Ends
    <2> DEFINE u == Deal[o].dealer
    <2>1. o \in Orders /\ u \in Users /\ stage'[o] \in Ended
      BY RolesTyped DEF Orders, Ended
    <2>2. Commit(o) /\ stage[o] = "pay"
      BY <1>1, <2>1, EndsHow DEF MoneyInv, PickupInv, Settle, At
    <2>3. /\ checked[o] >= asked[o] /\ checked[o] \in Int /\ asked[o] \in Int
          /\ Needed(o, price[o]) \in Int
      BY <1>1, <2>1, <2>2, DeltaTyped DEF MoneyInv, Afforded, PickupInv, AgentInv, AgentTypes
    <2>4. moved[o][u] + Needed(o, price[o]) >= 0
      BY <1>1, <2>1, PaidNeeded DEF MoneyInv, Moved, PickupInv, AgentInv
    <2>5. balance'[u] = balance[u] + moved[o][u] /\ balance[u] \in Int /\ moved[o][u] \in Int
      BY <1>1, <2>1, <2>2, CommitMoves DEF MoneyInv, PickupInv
    <2> QED BY <2>3, <2>4, <2>5
  <1>2. MoneyInv /\ [AgentNext]_agentVars => [Sufficient]_agentVars
    BY <1>1
  <1> QED BY <1>2, MoneyInvariant, PTL DEF AgentSpec, CheckSuffices

(* Of everything that moves money, only the settlement of a delivery may    *)
(* leave a balance below zero.  A pickup cannot: it keeps the balances it   *)
(* has weighed locked until it commits, and waits for none of them.         *)
THEOREM PickupsNeverOverdraw == AgentSpec => OnlyDeliveriesOverdraw
  <1> DEFINE OnlyDeliveries == \A u \in Users :
        balance'[u] < 0 /\ balance'[u] < balance[u] =>
          \E o \in Deliveries : Ends(o, {"settled", "partial"})
  <1>1. ASSUME MoneyInv, [AgentNext]_agentVars
        PROVE  OnlyDeliveries
    <2> USE <1>1 DEF MoneyInv, PickupInv
    <2> SUFFICES ASSUME NEW u \in Users, balance'[u] < 0, balance'[u] < balance[u]
                 PROVE  \E o \in Deliveries : Ends(o, {"settled", "partial"})
      OBVIOUS
    <2>0. balance[u] \in Int
      BY DEF AgentInv, AgentTypes
    <2>u. balance' # balance
      BY <2>0
    <2>c. ASSUME NEW o \in Orders, stage[o] = "pay", Commit(o), \E s \in {"settled", "partial"} : Goto(o, s),
                 o \in Pickups => ~Unpaid(o)
          PROVE  \E p \in Deliveries : Ends(p, {"settled", "partial"})
      <3>1. CASE o \in Deliveries
        BY <2>c, <3>1 DEF Goto, Ends, Ended, AgentInv, AgentTypes
      <3>2. CASE o \in Pickups
        <4>1. done[o] = Len(Transfers(o))
          <5>1. Len(Transfers(o)) \in Nat /\ done[o] \in Nat /\ done[o] <= Len(Transfers(o))
            BY TransfersTyped DEF AgentInv, AgentTypes
          <5> QED BY <2>c, <3>2, <5>1 DEF Unpaid
        <4>2. balance'[u] = balance[u] + Delta(o, u) /\ Delta(o, u) \in Int
          BY <2>c, <4>1, CommitMoves, PaidAll, DeltaTyped DEF Moved, AgentInv, AgentTypes
        <4>3. CASE u \in Parties(o)
          BY <2>0, <2>c, <3>2, <4>2, <4>3 DEF Afforded
        <4>4. CASE u \notin Parties(o)
          <5>1. view[o][u] = Nil
            BY <3>2, <4>4 DEF Ascending
          <5>2. balance'[u] = balance[u]
            BY <2>c, <5>1 DEF Commit, Loaded
          <5> QED BY <2>0, <5>2
        <4> QED BY <4>3, <4>4
      <3> QED BY <3>1, <3>2 DEF Orders
    <2>1. ASSUME NEW o \in Orders, Settle(o)
          PROVE  \E p \in Deliveries : Ends(p, {"settled", "partial"})
      <3>1. stage[o] = "pay" /\ ~Unpaid(o) /\ Commit(o) /\ Goto(o, "settled")
        BY <2>1 DEF Settle, At
      <3> QED BY <2>c, <3>1
    <2>2. ASSUME NEW o \in Orders, WaitTimeout(o)
          PROVE  \E p \in Deliveries : Ends(p, {"settled", "partial"})
      <3>1. stage[o] = "pay" /\ Goto(o, "partial") /\ Commit(o) /\ Waits(o) /\ fresh[o] = Nil
        BY <2>2, <2>u DEF WaitTimeout, Rollback, books, At
      <3>2. o \in Pickups => ~Unpaid(o)
        <4> SUFFICES ASSUME o \in Pickups, Unpaid(o) PROVE FALSE
          OBVIOUS
        <4> DEFINE v == Next1(o).who
        <4>1. v \in Parties(o) /\ v \in Users /\ Wants(o) = v
          BY <3>1, NextTyped DEF AgentInv, Wants, At
        <4>2. view[o][v] # Nil
          BY <3>1, <4>1 DEF Ascending, Missing
        <4>3. Granted(o, v)
          BY <4>1, <4>2, LoadedGranted
        <4> QED BY <3>1, <4>1, <4>3 DEF Waits, Blockers
      <3> QED BY <2>c, <3>1, <3>2
    <2>3. ASSUME NEW p \in Postings, Post(p)
          PROVE  FALSE
      BY <2>3, <2>0, PostMoves
    <2>4. ASSUME NEW o \in Orders,
                 \/ Check(o) \/ ReadCard(o) \/ ReadLines(o) \/ Swap(o) \/ SwapLost(o)
                 \/ Record(o) \/ LockParty(o) \/ Weigh(o) \/ TakeLine(o)
          PROVE  FALSE
      BY <2>4, <2>u DEF Check, ReadCard, ReadLines, Swap, SwapLost, Record, LockParty, Weigh, TakeLine, Closed, Rollback, books
    <2>5. ASSUME NEW o \in Orders, Pay(o) \/ Insert(o) \/ Victim(o) \/ Crash(o)
          PROVE  FALSE
      BY <2>5, <2>u DEF Pay, Insert, Victim, Crash, Rollback, books
    <2>6. ~UNCHANGED agentVars
      BY <2>u DEF agentVars, books
    <2> QED BY <2>1, <2>2, <2>3, <2>4, <2>5, <2>6 DEF AgentNext, Step
  <1>2. MoneyInv /\ [AgentNext]_agentVars => [OnlyDeliveries]_agentVars
    BY <1>1
  <1> QED BY <1>2, MoneyInvariant, PTL DEF AgentSpec, OnlyDeliveriesOverdraw

-----------------------------------------------------------------------------
(* No line goes to two deliveries. *)

(* The lines of a card that is not picked up are all different: two lines   *)
(* of the same text cannot be told apart.                                   *)
LinesDiffer ==
  \A c \in Cards \ PickedUp : \A i, j \in 1..Len(FirstLines[c]) :
     FirstLines[c][i] = FirstLines[c][j] => i = j

(* What is left of such a card has been given to nobody.                    *)
StockInv ==
  /\ \A c \in Cards \ PickedUp : \A i, j \in 1..Len(stock[c]) : stock[c][i] = stock[c][j] => i = j
  /\ \A o \in Deliveries : line[o] # Nil /\ Deal[o].card \notin PickedUp =>
       \A i \in 1..Len(stock[Deal[o].card]) : stock[Deal[o].card][i] # line[o]
  /\ DeliveriesShareNoLine

LEMMA StockStep ==
  ASSUME PickupInv, StockInv, [AgentNext]_agentVars
  PROVE  StockInv'
  <1> USE DEF PickupInv
  <1>u. ASSUME \A c \in Cards \ PickedUp : stock'[c] = stock[c],
               \A o \in Deliveries : line'[o] = line[o]
        PROVE  StockInv'
    <2>1. \A o \in Deliveries : Deal[o].card \in Cards
      BY RolesTyped DEF Orders
    <2> QED BY <1>u, <2>1 DEF StockInv, DeliveriesShareNoLine, PickedUp
  <1>c. ASSUME NEW o \in Orders, Commit(o)
        PROVE  \A c \in Cards \ PickedUp : stock'[c] = stock[c]
    BY <1>c DEF Commit, PickedUp, AgentInv, AgentTypes
  <1>1. ASSUME NEW o \in Orders, Check(o) \/ ReadCard(o) \/ ReadLines(o) \/ SwapLost(o)
                                      \/ Record(o) \/ LockParty(o) \/ Pay(o) \/ Insert(o)
        PROVE  StockInv'
    <2>1. UNCHANGED <<stock, line>>
      BY <1>1 DEF Check, ReadCard, ReadLines, SwapLost, Record, LockParty, Pay, Insert, lineVars
    <2> QED BY <1>u, <2>1
  <1>2. ASSUME NEW o \in Orders, Weigh(o) \/ Victim(o) \/ Crash(o)
        PROVE  StockInv'
    <2>1. UNCHANGED <<stock, line>>
      BY <1>2 DEF Weigh, Closed, Victim, Crash, Rollback, lineVars
    <2> QED BY <1>u, <2>1
  <1>3. ASSUME NEW o \in Orders, Settle(o) \/ WaitTimeout(o)
        PROVE  StockInv'
    <2>1. (Commit(o) \/ stock' = stock) /\ line' = line
      BY <1>3 DEF Settle, WaitTimeout, Rollback, lineVars
    <2> QED BY <1>u, <1>c, <2>1
  <1>4. ASSUME NEW o \in Orders, TakeLine(o)
        PROVE  StockInv'
    <2>1. o \notin Deliveries
      BY <1>4, AgentAssumption DEF TakeLine, At, Holders
    <2>2. stock' = stock /\ (line' = line \/ line' = [line EXCEPT ![o] = Head(read[o])])
      BY <1>4 DEF TakeLine, Rollback
    <2>3. \A p \in Deliveries : line'[p] = line[p]
      BY <2>1, <2>2 DEF AgentInv, AgentTypes, Orders
    <2> QED BY <1>u, <2>2, <2>3
  <1>5. ASSUME NEW o \in Orders, Swap(o)
        PROVE  StockInv'
    <2> DEFINE c == Deal[o].card
               old == stock[c]
    <2>1. /\ o \in Deliveries /\ c \in Cards /\ read[o] = old /\ old # <<>> /\ old \in Seq(Lines)
          /\ stock' = [stock EXCEPT ![c] = Tail(old)]
          /\ line' = [line EXCEPT ![o] = Head(old)]
      BY <1>5, RolesTyped DEF Swap, At, Same, AgentInv, AgentTypes, Counted
    <2>2. /\ stock'[c] = Tail(old) /\ \A d \in Cards \ {c} : stock'[d] = stock[d]
          /\ line'[o] = Head(old) /\ \A p \in Orders \ {o} : line'[p] = line[p]
      BY <2>1 DEF AgentInv, AgentTypes
    <2> HIDE DEF c, old
    <2>3. /\ Head(old) = old[1] /\ Len(old) \in Nat /\ Len(old) >= 1
          /\ Len(Tail(old)) = Len(old) - 1
          /\ \A i \in 1..Len(Tail(old)) : Tail(old)[i] = old[i + 1] /\ i + 1 \in 1..Len(old)
      BY <2>1, HeadTailProperties, LenProperties
    <2>4. CASE c \in PickedUp
      <3>1. \A d \in Cards \ PickedUp : stock'[d] = stock[d]
        BY <2>2, <2>4
      <3>2. \A p \in Deliveries : Deal[p].card \notin PickedUp =>
               p # o /\ line'[p] = line[p] /\ stock'[Deal[p].card] = stock[Deal[p].card]
        BY <2>2, <2>4, <3>1, RolesTyped DEF Orders, c
      <3> QED BY <3>1, <3>2 DEF StockInv, DeliveriesShareNoLine, PickedUp
    <2>5. CASE c \notin PickedUp
      <3>1. \A i, j \in 1..Len(old) : old[i] = old[j] => i = j
        BY <2>1, <2>5 DEF StockInv, old
      <3>2. \A i \in 1..Len(Tail(old)) : Tail(old)[i] # Head(old)
        <4> TAKE i \in 1..Len(Tail(old))
        <4>1. Tail(old)[i] = old[i + 1] /\ i + 1 \in 1..Len(old) /\ 1 \in 1..Len(old) /\ i + 1 # 1
          BY <2>3
        <4> QED BY <2>3, <3>1, <4>1
      <3>3. \A i, j \in 1..Len(Tail(old)) : Tail(old)[i] = Tail(old)[j] => i = j
        <4> TAKE i, j \in 1..Len(Tail(old))
        <4>1. /\ Tail(old)[i] = old[i + 1] /\ i + 1 \in 1..Len(old)
              /\ Tail(old)[j] = old[j + 1] /\ j + 1 \in 1..Len(old)
          BY <2>3
        <4>2. i + 1 = j + 1 => i = j
          BY <2>3
        <4> QED BY <3>1, <4>1, <4>2
      <3>4. \A p \in Deliveries : line[p] # Nil /\ Deal[p].card = c =>
               /\ line[p] # Head(old)
               /\ \A i \in 1..Len(Tail(old)) : Tail(old)[i] # line[p]
        <4> SUFFICES ASSUME NEW p \in Deliveries, line[p] # Nil, Deal[p].card = c
                     PROVE  /\ line[p] # Head(old)
                            /\ \A i \in 1..Len(Tail(old)) : Tail(old)[i] # line[p]
          OBVIOUS
        <4>1. \A i \in 1..Len(old) : old[i] # line[p]
          BY <2>5 DEF StockInv, old
        <4>2. 1 \in 1..Len(old)
          BY <2>3
        <4> QED BY <2>3, <4>1, <4>2
      <3>5. \A d \in Cards \ PickedUp' : \A i, j \in 1..Len(stock'[d]) : stock'[d][i] = stock'[d][j] => i = j
        BY <2>2, <3>3 DEF StockInv, PickedUp
      <3>6. ASSUME NEW p \in Deliveries, line'[p] # Nil, Deal[p].card \notin PickedUp
            PROVE  \A i \in 1..Len(stock'[Deal[p].card]) : stock'[Deal[p].card][i] # line'[p]
        <4>1. CASE p = o
          BY <2>2, <3>2, <4>1 DEF c
        <4>2. CASE p # o /\ Deal[p].card = c
          <5>1. line'[p] = line[p]
            BY <2>2, <4>2 DEF Orders
          <5> QED BY <2>2, <3>4, <3>6, <4>2, <5>1
        <4>3. CASE p # o /\ Deal[p].card # c
          <5>1. line'[p] = line[p] /\ stock'[Deal[p].card] = stock[Deal[p].card]
            BY <2>2, <4>3, RolesTyped DEF Orders
          <5> QED BY <3>6, <5>1 DEF StockInv
        <4> QED BY <4>1, <4>2, <4>3
      <3>7. DeliveriesShareNoLine'
        <4> SUFFICES ASSUME NEW p \in Deliveries, NEW q \in Deliveries, line'[p] = line'[q], line'[p] # Nil,
                            Deal[p].card = Deal[q].card, Deal[p].card \notin PickedUp
                     PROVE  p = q
          BY DEF DeliveriesShareNoLine, PickedUp
        <4>1. CASE p # o /\ q # o
          <5>1. line'[p] = line[p] /\ line'[q] = line[q]
            BY <2>2, <4>1 DEF Orders
          <5> QED BY <5>1 DEF StockInv, DeliveriesShareNoLine
        <4>2. CASE p = o /\ q # o
          <5>1. line'[q] = line[q] /\ line[q] # Nil /\ Deal[q].card = c /\ line[q] = Head(old)
            BY <2>2, <4>2 DEF Orders, c
          <5> QED BY <3>4, <5>1
        <4>3. CASE p # o /\ q = o
          <5>1. line'[p] = line[p] /\ line[p] # Nil /\ Deal[p].card = c /\ line[p] = Head(old)
            BY <2>2, <4>3 DEF Orders, c
          <5> QED BY <3>4, <5>1
        <4> QED BY <4>1, <4>2, <4>3
      <3> QED BY <3>5, <3>6, <3>7 DEF StockInv, PickedUp
    <2> QED BY <2>4, <2>5
  <1>6. ASSUME NEW p \in Postings, Post(p)
        PROVE  StockInv'
    BY <1>6, <1>u DEF Post, lineVars
  <1>7. CASE UNCHANGED agentVars
    BY <1>7, <1>u DEF agentVars, lineVars
  <1> QED BY <1>1, <1>2, <1>3, <1>4, <1>5, <1>6, <1>7 DEF AgentNext, Step

(* Two deliveries never take the same line of a card, however many read its *)
(* content at the same time, and whatever fails in between: the content     *)
(* only shrinks, so that one that is equal to what was read is the one that *)
(* was read.                                                                *)
THEOREM LinesGoToOneDelivery ==
  ASSUME LinesDiffer
  PROVE  AgentSpec => []DeliveriesShareNoLine
  <1>1. AgentInit => PickupInv /\ StockInv
    BY PickupStart DEF AgentInit, StockInv, LinesDiffer, DeliveriesShareNoLine, Orders
  <1>2. PickupInv /\ StockInv /\ [AgentNext]_agentVars => (PickupInv /\ StockInv)'
    BY AgentStep, PickupStep, StockStep DEF PickupInv
  <1>3. StockInv => DeliveriesShareNoLine
    BY DEF StockInv
  <1> QED BY <1>1, <1>2, <1>3, PTL DEF AgentSpec
=============================================================================
