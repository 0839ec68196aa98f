---------------------------- MODULE SessionProofs ----------------------------
(***************************************************************************)
(* Theorems about Session, for any number of loops and chats, any limits,  *)
(* any number of tokens and any set of faults.                             *)
(***************************************************************************)
EXTENDS Session, TLAPS

(* What one record of loc holds, and the counters.                         *)
Local == [tok : Token \cup {NoToken}, how : Hows, cap : 0 .. MaxCaptcha,
          exp : 0 .. 1]
Fails == [net : 0 .. MaxNet, conn : 0 .. MaxConn, fetch : 0 .. MaxFetch,
          short : 0 .. MaxShort]

(* Where conn may stand at its limit, or the loop has ended.               *)
Busy == {"drop", "relogin", "done", "left"}

(* The end of the main loop.                                               *)
Finishes == Finish("done") \/ Finish("left")

(* A counter at its limit is judged in the step that takes it there: the   *)
(* loop does not go on with it.  A request is made below the captcha limit. *)
Bounded ==
  /\ pc[Main] \notin {"done", "left"} =>
       fails.net < MaxNet /\ fails.short < MaxShort /\ fails.fetch < MaxFetch
  /\ pc[Main] \notin {"drop", "relogin", "done", "left"} => fails.conn < MaxConn
  /\ \A f \in Instance : pc[f] = "api" => loc[f].cap < MaxCaptcha

TypeInv == TypeOK /\ Bounded

(* Where a flow is between taking the lock and the answer of its refresh.  *)
Held == {"inside", "use", "api", "save", "close"}

(* There it has the lock, unless some flow went on without it.             *)
HasLock == bare \/ \A f \in Flows : pc[f] \in Held => lock = f

TokenInv == HasLock /\ NoWastedRequest

(* A step outside: it takes no flow there, takes the lock from none that is *)
(* there, and makes no row good again.                                     *)
Outside ==
  /\ bare' = bare
  /\ \A g \in Flows : pc'[g] \in Held =>
       /\ pc'[g] = pc[g] /\ loc'[g] = loc[g] /\ (lock = g => lock' = g)
  /\ Current(cache') => Current(cache)
  /\ Due(cache) => Due(cache')

-----------------------------------------------------------------------------
(* The locals of a flow that has none. *)
LEMMA IdleTypes == Idle \in Local
  BY SessionAssumption DEF Idle, Local, Hows, NoToken

(* A result leaves the counts of a flow and the locals of the others. *)
LEMMA ResultTypes ==
  ASSUME TypeInv, NEW f \in Flows, NEW t \in Token \cup {NoToken}, NEW how \in Hows,
         Result(f, t, how)
  PROVE  /\ loc' \in [Flows -> Local] 
         /\ loc'[f].cap = loc[f].cap /\ loc'[f].exp = loc[f].exp
         /\ \A g \in Flows \ {f} : loc'[g] = loc[g]
         /\ loc'[f].tok = t /\ loc'[f].how = how
  <1>1. loc \in [Flows -> Local]
    BY DEF TypeInv, TypeOK, Local
  <1> DEFINE l == [loc[f] EXCEPT !.tok = t, !.how = how]
  <1>2. l \in Local /\ l.cap = loc[f].cap /\ l.exp = loc[f].exp /\ l.tok = t /\ l.how = how
    BY <1>1 DEF Local
  <1>3. loc' = [loc EXCEPT ![f] = l]
    BY DEF Result
  <1> HIDE DEF l
  <1> QED BY <1>1, <1>2, <1>3

(* One more round of a request, while its counts allow one. *)
LEMMA AgainTypes ==
  ASSUME TypeInv, NEW f \in Instance, pc[f] = "api", NEW field \in {"cap", "exp"},
         field = "exp" => loc[f].exp < 1, Again(f, field)
  PROVE  /\ Go(f, "inside") /\ loc' \in [Flows -> Local]
         /\ \A g \in Flows \ {f} : loc'[g] = loc[g]
  <1>1. loc \in [Flows -> Local] /\ f \in Flows /\ loc[f].cap < MaxCaptcha
    BY DEF TypeInv, TypeOK, Local, Bounded, Flows
  <1> DEFINE l == [tok |-> NoToken, how |-> "none",
                   cap |-> loc[f].cap + (IF field = "cap" THEN 1 ELSE 0),
                   exp |-> IF field = "cap" THEN 0 ELSE loc[f].exp + 1]
  <1>2. l \in Local
    BY <1>1, SessionAssumption DEF Local, Hows, NoToken
  <1>3. loc' = [loc EXCEPT ![f] = l] /\ Go(f, "inside")
    BY DEF Again
  <1> HIDE DEF l
  <1> QED BY <1>1, <1>2, <1>3

(* A step of one flow to an await outside Busy keeps the bounds. *)
LEMMA StepBounded ==
  ASSUME TypeInv, NEW f \in Flows, NEW w \in Awaits \ {"drop", "relogin", "done", "left"},
         Go(f, w),
         fails' = fails, f = Main => pc[f] \notin {"drop", "relogin", "done", "left"},
         \A g \in Flows \ {f} : loc'[g] = loc[g],
         w = "api" /\ f \in Instance => loc'[f].cap < MaxCaptcha
  PROVE  Bounded' /\ pc' \in [Flows -> Awaits]
  BY SessionAssumption DEF TypeInv, TypeOK, Bounded, Go, Flows, Instance

(* A flow's locals are put back. *)
LEMMA IdleStep ==
  ASSUME TypeInv, NEW f \in Flows, loc' = [loc EXCEPT ![f] = Idle]
  PROVE  loc' \in [Flows -> Local] /\ \A g \in Flows \ {f} : loc'[g] = loc[g]
  BY IdleTypes DEF TypeInv, TypeOK, Local

(* A refresh that returns. *)
LEMMA GiveTypes ==
  ASSUME TypeInv, NEW f \in Flows, NEW t \in Token \cup {NoToken}, NEW c \in BOOLEAN,
         Give(f, t, c), fails' = fails,
     f = Main => pc[f] \notin {"drop", "relogin", "done", "left"}
  PROVE  Bounded' /\ pc' \in [Flows -> Awaits] /\ loc' \in [Flows -> Local] /\ counts' \in BOOLEAN
  <1>1. Result(f, t, "plain") /\ Go(f, "back") /\ "plain" \in Hows /\ "back" \in Awaits \ {"drop", "relogin", "done", "left"} /\ counts' = c
    BY DEF Give, Hows, Awaits
  <1>2. loc' \in [Flows -> Local] /\ \A g \in Flows \ {f} : loc'[g] = loc[g]
    BY <1>1, ResultTypes
  <1> QED BY <1>1, <1>2, StepBounded

(* The emptied row. *)
LEMMA DropTypes ==
  ASSUME TypeInv, DropCache
  PROVE  cache' \in [token : Token \cup {NoToken}, expire : 0 .. 2, renew : 0 .. 2]
  BY DEF TypeInv, TypeOK, DropCache, NoRow, May, NoToken

-----------------------------------------------------------------------------
(* Types: the actions of a refresh, one lemma each. *)
LEMMA LockTypes ==
  ASSUME TypeInv, NEW f \in Flows, Lock(f)
  PROVE  TypeInv'
  <1>1. loc' \in [Flows -> Local] /\ \A g \in Flows \ {f} : loc'[g] = loc[g]
    BY IdleStep DEF Lock
  <1>2. Bounded' /\ pc' \in [Flows -> Awaits]
    BY <1>1, StepBounded DEF Lock, Awaits
  <1> QED BY <1>1, <1>2, SessionAssumption DEF TypeInv, TypeOK, Local, memory, world, Lock

LEMMA LockTimeoutTypes ==
  ASSUME TypeInv, NEW f \in Flows, LockTimeout(f)
  PROVE  TypeInv'
  <1>1. loc' \in [Flows -> Local] /\ \A g \in Flows \ {f} : loc'[g] = loc[g]
    BY IdleStep DEF LockTimeout
  <1>2. CASE f = Renewal
    <2>1. Bounded' /\ pc' \in [Flows -> Awaits]
      BY <1>1, <1>2, StepBounded DEF LockTimeout, Awaits
    <2> QED BY <1>1, <1>2, <2>1 DEF TypeInv, TypeOK, Local, memory, world, LockTimeout
  <1>3. CASE f # Renewal
    <2>1. Bounded' /\ pc' \in [Flows -> Awaits]
      BY <1>1, <1>3, StepBounded DEF LockTimeout, Awaits
    <2> QED BY <1>1, <1>3, <2>1 DEF TypeInv, TypeOK, Local, memory, world, LockTimeout,
               NoToken
  <1> QED BY <1>1, <1>2, <1>3, SessionAssumption DEF TypeInv, TypeOK, Local, memory,
             world, LockTimeout

LEMMA UseTypes ==
  ASSUME TypeInv, NEW f \in Instance, Use(f)
  PROVE  TypeInv'
  <1>1. f \in Flows BY DEF Flows
  <1>2. Bounded' /\ pc' \in [Flows -> Awaits]
    BY <1>1, StepBounded DEF Use, Awaits
  <1>3. loc[f].tok \in Token \cup {NoToken}
    BY <1>1 DEF TypeInv, TypeOK
  <1> QED BY <1>1, <1>2, <1>3, SessionAssumption DEF TypeInv, TypeOK, Local, memory,
             world, Use

LEMMA SliderUnknownTypes ==
  ASSUME TypeInv, NEW f \in Instance, SliderUnknown(f)
  PROVE  TypeInv'
  <1>1. f \in Flows BY DEF Flows
  <1>2. Bounded' /\ pc' \in [Flows -> Awaits] /\ loc' \in [Flows -> Local] /\ counts' \in BOOLEAN
    BY <1>1, GiveTypes DEF SliderUnknown
  <1> QED BY <1>1, <1>2, SessionAssumption DEF TypeInv, TypeOK, Local, memory, world,
             SliderUnknown

LEMMA CacheMissTypes ==
  ASSUME TypeInv, NEW f \in Instance, NEW slider \in Sliders, CacheMiss(f, slider)
  PROVE  TypeInv'
  <1>1. f \in Flows BY DEF Flows
  <1>2. pc[f] = "inside" /\ fails' = fails /\ startup' \in BOOLEAN
    BY DEF CacheMiss, StartupLeft, TypeInv, TypeOK
  <1>3. ASSUME Go(f, "api"), Result(f, NoToken, slider), loc[f].cap < MaxCaptcha,
               counts' = TRUE
        PROVE  Bounded' /\ pc' \in [Flows -> Awaits] /\ loc' \in [Flows -> Local] /\ counts' \in BOOLEAN
    <2>1. slider \in Hows BY DEF Sliders, Hows, CacheMiss
    <2>2. loc' \in [Flows -> Local] /\ (\A g \in Flows \ {f} : loc'[g] = loc[g]) /\ loc'[f].cap = loc[f].cap
      BY <1>1, <1>3, <2>1, ResultTypes
    <2>3. "api" \in Awaits \ {"drop", "relogin", "done", "left"} BY DEF Awaits
    <2>4. Bounded' /\ pc' \in [Flows -> Awaits]
      BY <1>1, <1>2, <1>3, <2>2, <2>3, StepBounded
    <2> QED BY <1>3, <2>2, <2>4
  <1>4. ASSUME Give(f, cur, FALSE) \/ Give(f, NoToken, FALSE)
        PROVE  Bounded' /\ pc' \in [Flows -> Awaits] /\ loc' \in [Flows -> Local] /\ counts' \in BOOLEAN
    <2>1. cur \in Token \cup {NoToken} BY DEF TypeInv, TypeOK
    <2>2. ASSUME NEW t \in Token \cup {NoToken}, NEW c \in BOOLEAN, Give(f, t, c)
          PROVE  Bounded' /\ pc' \in [Flows -> Awaits] /\ loc' \in [Flows -> Local] /\ counts' \in BOOLEAN
      BY <1>1, <1>2, <2>2, GiveTypes
    <2> QED BY <1>4, <2>1, <2>2, Zenon
  <1>5. Bounded' /\ pc' \in [Flows -> Awaits] /\ loc' \in [Flows -> Local] /\ counts' \in BOOLEAN
    BY <1>3, <1>4, Zenon DEF CacheMiss
  <1> QED BY <1>1, <1>2, <1>3, <1>4, <1>5, SessionAssumption DEF TypeInv, TypeOK, Local,
             memory, world, CacheMiss

LEMMA GetTokenTypes ==
  ASSUME TypeInv, NEW f \in Instance, GetToken(f)
  PROVE  TypeInv'
  <1>1. f \in Flows BY DEF Flows
  <1>2. PICK t \in Token : Issue(t) /\ cur' = t /\ Result(f, t, Changed(t))
    BY DEF GetToken
  <1>3. loc' \in [Flows -> Local] /\ \A g \in Flows \ {f} : loc'[g] = loc[g]
    BY <1>1, <1>2, ResultTypes DEF Changed, Hows
  <1>4. Bounded' /\ pc' \in [Flows -> Awaits]
    BY <1>1, <1>3, StepBounded DEF GetToken, Awaits
  <1> QED BY <1>1, <1>2, <1>3, <1>4, SessionAssumption DEF TypeInv, TypeOK, Local,
             memory, world, GetToken, Issue

LEMMA ApiTokenExpiredTypes ==
  ASSUME TypeInv, NEW f \in Instance, ApiTokenExpired(f)
  PROVE  TypeInv'
  <1>1. f \in Flows BY DEF Flows
  <1>2. Go(f, "inside") /\ loc' \in [Flows -> Local] /\ \A g \in Flows \ {f} : loc'[g] = loc[g]
    BY AgainTypes DEF ApiTokenExpired
  <1>3. Bounded' /\ pc' \in [Flows -> Awaits]
    BY <1>1, <1>2, StepBounded DEF ApiTokenExpired, Awaits
  <1> QED BY <1>1, <1>2, <1>3, SessionAssumption DEF TypeInv, TypeOK, Local, memory,
             world, ApiTokenExpired

LEMMA ApiCaptchaTypes ==
  ASSUME TypeInv, NEW f \in Instance, ApiCaptcha(f)
  PROVE  TypeInv'
  <1>1. f \in Flows BY DEF Flows
  <1>2. ASSUME Again(f, "cap")
        PROVE  Bounded' /\ pc' \in [Flows -> Awaits] /\ loc' \in [Flows -> Local]
    <2>1. Go(f, "inside") /\ loc' \in [Flows -> Local] /\ \A g \in Flows \ {f} : loc'[g] = loc[g]
      BY <1>2, AgainTypes DEF ApiCaptcha
    <2> QED BY <1>1, <2>1, StepBounded DEF ApiCaptcha, Awaits
  <1>3. ASSUME NEW t \in Token \cup {NoToken}, NEW c \in BOOLEAN, Give(f, t, c)
        PROVE  Bounded' /\ pc' \in [Flows -> Awaits] /\ loc' \in [Flows -> Local] /\ counts' \in BOOLEAN
    BY <1>1, <1>3, GiveTypes DEF ApiCaptcha
  <1>4. DropCache => cache' \in [token : Token \cup {NoToken}, expire : 0 .. 2, renew : 0 .. 2]
    BY DropTypes
  <1> QED BY <1>1, <1>2, <1>3, <1>4, SessionAssumption DEF TypeInv, TypeOK, Local,
             memory, world, ApiCaptcha

(* An account is disabled, or is not. *)
LEMMA DisableTypes ==
  ASSUME Disable \/ UNCHANGED enabled
  PROVE  enabled' \in {enabled, FALSE}
  BY DEF Disable

LEMMA ApiSessionOverTypes ==
  ASSUME TypeInv, NEW f \in Instance, ApiSessionOver(f)
  PROVE  TypeInv'
  <1>1. f \in Flows BY DEF Flows
  <1>2. ASSUME Again(f, "cap")
        PROVE  Bounded' /\ pc' \in [Flows -> Awaits] /\ loc' \in [Flows -> Local]
    <2>1. Go(f, "inside") /\ loc' \in [Flows -> Local] /\ \A g \in Flows \ {f} : loc'[g] = loc[g]
      BY <1>2, AgainTypes DEF ApiSessionOver
    <2> QED BY <1>1, <2>1, StepBounded DEF ApiSessionOver, Awaits
  <1>3. ASSUME NEW t \in Token \cup {NoToken}, NEW c \in BOOLEAN, Give(f, t, c)
        PROVE  Bounded' /\ pc' \in [Flows -> Awaits] /\ loc' \in [Flows -> Local] /\ counts' \in BOOLEAN
    BY <1>1, <1>3, GiveTypes DEF ApiSessionOver
  <1>4. DropCache => cache' \in [token : Token \cup {NoToken}, expire : 0 .. 2, renew : 0 .. 2]
    BY DropTypes
  <1>5. CASE Again(f, "cap") /\ DropCache /\ UNCHANGED <<enabled, cur, counts>>
    BY <1>2, <1>4, <1>5 DEF TypeInv, TypeOK, Local, memory, world, ApiSessionOver
  <1>6. ASSUME NEW c \in BOOLEAN, Give(f, NoToken, c), cur' = NoToken, DropCache,
               enabled' \in {enabled, FALSE}
        PROVE  TypeInv'
    <2>1. Bounded' /\ pc' \in [Flows -> Awaits] /\ loc' \in [Flows -> Local] /\ counts' \in BOOLEAN
      BY <1>3, <1>6, Zenon
    <2> QED BY <1>4, <1>6, <2>1 DEF TypeInv, TypeOK, Local, memory, world,
               ApiSessionOver, NoToken
  <1>7. CASE Give(f, NoToken, counts) /\ enabled' \in {enabled, FALSE} /\ UNCHANGED <<cache, cur>>
    <2>1. counts \in BOOLEAN BY DEF TypeInv, TypeOK
    <2>2. Bounded' /\ pc' \in [Flows -> Awaits] /\ loc' \in [Flows -> Local] /\ counts' \in BOOLEAN
      BY <1>3, <1>7, <2>1, Zenon
    <2> QED BY <1>7, <2>2 DEF TypeInv, TypeOK, Local, memory, world, ApiSessionOver
  <1> QED
    <2>1. \/ Again(f, "cap") /\ DropCache /\ UNCHANGED <<enabled, cur, counts>>
          \/ Disable /\ Give(f, NoToken, counts) /\ UNCHANGED <<cache, cur>>
          \/ /\ DropCache /\ cur' = NoToken /\ (Disable \/ UNCHANGED enabled)
             /\ Give(f, NoToken, FALSE) \/ Give(f, NoToken, TRUE)
      BY DEF ApiSessionOver
    <2> QED BY <1>5, <1>6, <1>7, <2>1, DisableTypes

-----------------------------------------------------------------------------
(* Where the main loop goes, nothing else moves. *)
LEMMA MainGo ==
  ASSUME TypeInv, NEW w \in Awaits \ {"api"}, Go(Main, w)
  PROVE  /\ pc' \in [Flows -> Awaits] /\ pc'[Main] = w
         /\ \A f \in Flows \ {Main} : pc'[f] = pc[f]
         /\ \A f \in Instance : pc'[f] = "api" => pc[f] = "api"
  BY SessionAssumption DEF TypeInv, TypeOK, Go, Flows, Instance

(* The end of the main loop. *)
LEMMA FinishTypes ==
  ASSUME TypeInv, Finishes
  PROVE  /\ pc' \in [Flows -> Awaits] /\ pc'[Main] \in Ended
         /\ \A f \in Instance : pc'[f] = "api" => pc[f] = "api"
         /\ lock' \in Flows \cup {Nobody, Dead}
  BY SessionAssumption DEF TypeInv, TypeOK, Finishes, Finish, Ended, Flows, Instance, Awaits

(* A step of the main loop keeps the bounds if its counters do. *)
LEMMA MainBounded ==
  ASSUME TypeInv, NEW w \in Awaits, pc'[Main] = w, loc' = loc,
         \A f \in Instance : pc'[f] = "api" => pc[f] = "api",
         w \notin Ended => fails'.net < MaxNet /\ fails'.short < MaxShort /\ fails'.fetch < MaxFetch,
         w \notin Busy => fails'.conn < MaxConn
  PROVE  Bounded'
  BY DEF TypeInv, Bounded, Busy, Ended

(* The end of the main loop is in no bound's way. *)
LEMMA FinishBounded ==
  ASSUME TypeInv, Finishes, loc' = loc
  PROVE  Bounded' /\ pc' \in [Flows -> Awaits] /\ lock' \in Flows \cup {Nobody, Dead}
  <1>1. /\ pc' \in [Flows -> Awaits] /\ pc'[Main] \in Ended
        /\ \A f \in Instance : pc'[f] = "api" => pc[f] = "api"
        /\ lock' \in Flows \cup {Nobody, Dead}
    BY FinishTypes
  <1>2. pc'[Main] \in Awaits /\ pc'[Main] \in Busy BY <1>1 DEF Ended, Awaits, Busy
  <1> QED BY <1>1, <1>2, MainBounded

(* The loop gives the account up. *)
LEMMA GiveUpEnds ==
  ASSUME GiveUp
  PROVE  Finishes /\ enabled' \in {enabled, FALSE}
  BY DEF GiveUp, Finishes

(* What the type invariant says of the counters. *)
LEMMA FailsTypes ==
  ASSUME TypeInv
  PROVE  /\ fails \in Fails
         /\ pc[Main] \notin Busy =>
              /\ fails.net < MaxNet /\ fails.short < MaxShort
              /\ fails.fetch < MaxFetch /\ fails.conn < MaxConn
         /\ pc[Main] \notin Ended => /\ fails.net < MaxNet /\ fails.short < MaxShort /\ fails.fetch < MaxFetch
         /\ {MaxNet, MaxConn, MaxFetch, MaxShort} \subseteq Nat \ {0}
  BY SessionAssumption DEF TypeInv, TypeOK, Bounded, Fails, Busy, Ended

(* A connection that stands, or a login, sets two counters to 0. *)
LEMMA ResetTypes ==
  ASSUME fails \in Fails, fails' = [fails EXCEPT !.conn = 0, !.net = 0],
         {MaxNet, MaxConn} \subseteq Nat \ {0}
  PROVE  fails' \in Fails /\ fails'.net = 0 /\ fails'.conn = 0
         /\ fails'.fetch = fails.fetch /\ fails'.short = fails.short
  <1>1. 0 \in 0 .. MaxNet /\ 0 \in 0 .. MaxConn OBVIOUS
  <1> DEFINE s == [fails EXCEPT !.conn = 0]
  <1>2. s \in Fails /\ s.conn = 0 /\ s.fetch = fails.fetch /\ s.short = fails.short
    BY <1>1 DEF Fails
  <1>3. fails' = [s EXCEPT !.net = 0] OBVIOUS
  <1> HIDE DEF s
  <1> QED BY <1>1, <1>2, <1>3 DEF Fails

(* Types: the actions of the main loop, one lemma each. *)
LEMMA HeadGoesOnTypes ==
  ASSUME TypeInv, HeadGoesOn
  PROVE  TypeInv'
  <1>1. pc[Main] = "got" /\ pc[Main] \notin Busy /\ loc' = loc
    BY DEF HeadGoesOn, Busy
  <1>2. fails \in Fails /\ fails.net < MaxNet /\ fails.short < MaxShort
        /\ fails.fetch < MaxFetch /\ fails.conn < MaxConn /\ MaxFetch \in Nat \ {0}
    BY <1>1, FailsTypes
  <1>3. CASE \E w \in {"connect",
             "head"} : Go(Main, w) /\ fails' = fails /\ enabled' = enabled /\ lock' = lock
    <2>1. PICK w \in {"connect", "head"} : Go(Main, w) BY <1>3
    <2>2. w \in Awaits \ {"api"} /\ w \notin Busy BY DEF Awaits, Busy
    <2>3. Bounded' /\ pc' \in [Flows -> Awaits]
      BY <1>1, <1>2, <1>3, <2>1, <2>2, MainGo, MainBounded
    <2> QED BY <1>3, <2>3 DEF HeadGoesOn, TypeInv, TypeOK, memory, world
  <1>4. CASE fails' = [fails EXCEPT !.fetch = MaxFetch] /\ GiveUp
    <2>0. Finishes /\ enabled' \in {enabled, FALSE} BY <1>4, GiveUpEnds
    <2>1. fails' \in Fails /\ fails'.net = fails.net BY <1>2, <1>4 DEF Fails
    <2>3. Bounded' /\ pc' \in [Flows -> Awaits] /\ lock' \in Flows \cup {Nobody, Dead}
      BY <1>1, <2>0, FinishBounded
    <2> QED BY <2>0, <2>1, <2>3 DEF HeadGoesOn, TypeInv, TypeOK, memory, world, Fails
  <1>5. CASE /\ fails.fetch + 1 < MaxFetch /\ fails' = [fails EXCEPT !.fetch = @ + 1]
             /\ Go(Main, "head") /\ UNCHANGED <<enabled, lock>>
    <2>1. fails' \in Fails /\ fails'.net < MaxNet /\ fails'.short < MaxShort
          /\ fails'.fetch < MaxFetch /\ fails'.conn < MaxConn
      BY <1>2, <1>5 DEF Fails
    <2>2. "head" \in Awaits \ {"api"} /\ "head" \notin Busy BY DEF Awaits, Busy
    <2>3. Bounded' /\ pc' \in [Flows -> Awaits]
      BY <1>1, <1>5, <2>1, <2>2, MainGo, MainBounded
    <2> QED BY <1>5, <2>1, <2>3 DEF HeadGoesOn, TypeInv, TypeOK, memory, world, Fails
  <1> QED
    <2>1. ~(fails.fetch + 1 >= MaxFetch) => fails.fetch + 1 < MaxFetch BY <1>2 DEF Fails
    <2> QED BY <1>3, <1>4, <1>5, <2>1 DEF HeadGoesOn

LEMMA ReloginTypes ==
  ASSUME TypeInv, Relogin
  PROVE  TypeInv'
  <1>1. /\ pc[Main] = "relogin" /\ pc[Main] \notin Ended
        /\ loc' = loc /\ Go(Main, "head") /\ lock' = lock
    BY DEF Relogin, CoolDown, Ended
  <1>2. fails \in Fails /\ fails.net < MaxNet /\ fails.short < MaxShort
        /\ fails.fetch < MaxFetch /\ {MaxNet, MaxConn, MaxFetch, MaxShort} \subseteq Nat \ {0}
    BY <1>1, FailsTypes
  <1>3. fails' \in Fails /\ fails'.net < MaxNet /\ fails'.short < MaxShort
        /\ fails'.fetch < MaxFetch /\ fails'.conn < MaxConn
    <2>1. CASE fails' = [fails EXCEPT !.conn = 0, !.net = 0]
      BY <1>2, <2>1, ResetTypes
    <2>2. CASE fails' = [fails EXCEPT !.conn = 0]
      BY <1>2, <2>2 DEF Fails
    <2> QED BY <2>1, <2>2 DEF Relogin
  <1>4. Bounded' /\ pc' \in [Flows -> Awaits]
    <2>1. "head" \in Awaits \ {"api"} BY DEF Awaits
    <2> QED BY <1>1, <1>3, <2>1, MainGo, MainBounded
  <1>5. /\ enabled' \in BOOLEAN /\ cur' \in Token \cup {NoToken}
        /\ cache' \in [token : Token \cup {NoToken}, expire : 0 .. 2, renew : 0 .. 2]
    <2>1. enabled' \in BOOLEAN
      <3>1. enabled \in BOOLEAN BY DEF TypeInv, TypeOK
      <3>2. enabled' = enabled \/ enabled' = FALSE BY Zenon DEF Relogin
      <3> QED BY <3>1, <3>2
    <2>2. cur' \in Token \cup {NoToken}
      BY DEF Relogin, TypeInv, TypeOK
    <2>3. cache' \in [token : Token \cup {NoToken}, expire : 0 .. 2, renew : 0 .. 2]
      <3>1. cache' = cache \/ cache' = NoRow BY DEF Relogin
      <3>2. cache \in [token : Token \cup {NoToken}, expire : 0 .. 2, renew : 0 .. 2]
        BY DEF TypeInv, TypeOK
      <3>3. NoRow \in [token : Token \cup {NoToken}, expire : 0 .. 2, renew : 0 .. 2]
        BY DEF NoRow
      <3> QED BY <3>1, <3>2, <3>3
    <2> QED BY <2>1, <2>2, <2>3
  <1>6. UNCHANGED <<inUse, startup, expired, counts, ws, holds, site, world, banned>>
    BY DEF Relogin
  <1> QED BY <1>1, <1>3, <1>4, <1>5, <1>6 DEF TypeInv, TypeOK, world, Fails

(* A startup token given up after a brief connection. *)
LEMMA RejectTypes ==
  ASSUME TypeInv, RejectStartup, ws' = NoSocket, pc[Main] \notin Busy
  PROVE  TypeInv'
  <1>1. "head" \in Awaits \ {"api"} BY DEF Awaits
  <1>2. Go(Main, "head") /\ loc' = loc /\ fails' = fails BY DEF RejectStartup
  <1>3. Bounded' /\ pc' \in [Flows -> Awaits]
    BY <1>1, <1>2, MainGo, MainBounded, FailsTypes
  <1>4. banned' \subseteq Token /\ cur' \in Token \cup {NoToken}
    BY DEF RejectStartup, TypeInv, TypeOK
  <1> QED BY <1>3, <1>4 DEF RejectStartup, TypeInv, TypeOK, memory, world, NoSocket

(* A network error: the counter that reaches its limit ends the loop. *)
LEMMA NetErrorTypes ==
  ASSUME TypeInv, NEW was \in BOOLEAN, NEW opened \in BOOLEAN, NEW brief \in BOOLEAN,
         NEW short \in BOOLEAN, NetError(was, opened, brief, short), pc[Main] \notin Busy
  PROVE  TypeInv'
  <1>1. CASE expired /\ brief /\ (was \/ opened)
    BY <1>1, RejectTypes DEF NetError
  <1>2. CASE ~(expired /\ brief /\ (was \/ opened))
    <2>1. PICK n \in IF ~was THEN {fails.short}
                     ELSE IF short THEN 1 .. fails.short + 1 ELSE {0} :
            /\ fails' = [fails EXCEPT !.short = n,
                           !.net = IF fails.net + 1 >= MaxNet /\ n < MaxShort
                                   THEN 0 ELSE fails.net + 1]
            /\ IF was /\ n >= MaxShort
               THEN GiveUp
               ELSE Go(Main, "head") /\ UNCHANGED <<enabled, lock>>
      BY <1>2 DEF NetError
    <2>2. loc' = loc BY <1>2 DEF NetError
    <2>3. fails \in Fails /\ fails.net < MaxNet /\ fails.short < MaxShort
          /\ fails.fetch < MaxFetch /\ fails.conn < MaxConn
          /\ {MaxNet, MaxConn, MaxFetch, MaxShort} \subseteq Nat \ {0}
      BY FailsTypes
    <2>4. n \in 0 .. MaxShort /\ (~was => n < MaxShort)
      BY <2>1, <2>3 DEF Fails
    <2>5. fails' \in Fails /\ fails'.fetch < MaxFetch /\ fails'.conn < MaxConn
          /\ fails'.short = n /\ (n < MaxShort => fails'.net < MaxNet)
      <3> DEFINE net == IF fails.net + 1 >= MaxNet /\ n < MaxShort
                        THEN 0 ELSE fails.net + 1
                 s == [fails EXCEPT !.short = n]
      <3>1. net \in 0 .. MaxNet /\ (n < MaxShort => net < MaxNet)
        <4>1. fails.net \in 0 .. MaxNet /\ MaxShort \in Nat /\ n \in Nat
          BY <2>3, <2>4 DEF Fails
        <4> QED BY <2>3, <4>1
      <3>2. s \in Fails /\ s.fetch = fails.fetch /\ s.conn = fails.conn /\ s.short = n
        BY <2>3, <2>4 DEF Fails
      <3>3. fails' = [s EXCEPT !.net = net] BY <2>1
      <3> HIDE DEF net, s
      <3>4. fails' \in Fails /\ fails'.fetch = fails.fetch /\ fails'.conn = fails.conn
            /\ fails'.short = n /\ fails'.net = net
        BY <3>1, <3>2, <3>3 DEF Fails
      <3> QED BY <2>3, <3>1, <3>4
    <2>6. Bounded' /\ pc' \in [Flows -> Awaits] /\ lock' \in Flows \cup {Nobody, Dead} /\ enabled' \in BOOLEAN
      <3>1. CASE was /\ n >= MaxShort
        <4>1. Finishes /\ enabled' \in {enabled, FALSE} BY <2>1, <3>1, GiveUpEnds
        <4> QED BY <2>2, <4>1, FinishBounded DEF TypeInv, TypeOK
      <3>2. CASE ~(was /\ n >= MaxShort)
        <4>1. Go(Main, "head") /\ enabled' = enabled /\ lock' = lock BY <2>1, <3>2
        <4>2. "head" \in Awaits \ {"api"} BY DEF Awaits
        <4>3. n < MaxShort BY <2>3, <2>4, <3>2
        <4>4. Bounded' /\ pc' \in [Flows -> Awaits]
          BY <2>2, <2>5, <4>1, <4>2, <4>3, MainGo, MainBounded
        <4> QED BY <4>1, <4>4 DEF TypeInv, TypeOK
      <3> QED BY <3>1, <3>2
    <2>7. UNCHANGED <<cache, memory, holds, loc, site, world, banned>> /\ ws' = NoSocket
      BY <1>2 DEF NetError
    <2> QED BY <2>5, <2>6, <2>7 DEF TypeInv, TypeOK, memory, world, Fails, NoSocket
  <1> QED BY <1>1, <1>2

(* An error counted in conn: at the limit the loop goes to the login. *)
LEMMA JudgeTypes ==
  ASSUME TypeInv, NEW conn, conn \in 1 .. MaxConn, Judge(conn), loc' = loc,
         fails' \in Fails,
         fails'.conn = conn, fails'.net = fails.net, fails'.short = fails.short,
         fails'.fetch = fails.fetch, pc[Main] \notin Ended
  PROVE  Bounded' /\ pc' \in [Flows -> Awaits] /\ cur' \in Token \cup {NoToken}
  <1>1. fails.net < MaxNet /\ fails.short < MaxShort /\ fails.fetch < MaxFetch
        /\ MaxConn \in Nat
    BY FailsTypes
  <1>2. CASE conn >= MaxConn
    <2>1. "relogin" \in Awaits \ {"api"} /\ "relogin" \in Busy BY DEF Awaits, Busy
    <2>2. Go(Main, "relogin") /\ cur' = cur BY <1>2 DEF Judge, Enough
    <2> QED BY <1>1, <2>1, <2>2, MainGo, MainBounded DEF TypeInv, TypeOK
  <1>3. CASE ~(conn >= MaxConn)
    <2>1. "head" \in Awaits \ {"api"} BY DEF Awaits
    <2>2. Go(Main, "head") /\ cur' = NoToken BY <1>3 DEF Judge, Enough
    <2>3. conn < MaxConn BY <1>1, <1>3
    <2> QED BY <1>1, <2>1, <2>2, <2>3, MainGo, MainBounded
  <1> QED BY <1>2, <1>3

(* Any other error of the connection. *)
LEMMA ConnErrorTypes ==
  ASSUME TypeInv, NEW auth \in BOOLEAN, ConnError(auth), pc[Main] \notin Busy
  PROVE  TypeInv'
  <1>1. fails \in Fails /\ fails.net < MaxNet /\ fails.short < MaxShort
        /\ fails.fetch < MaxFetch /\ fails.conn < MaxConn
        /\ {MaxNet, MaxConn, MaxFetch, MaxShort} \subseteq Nat \ {0}
    BY FailsTypes
  <1>2. fails' = [fails EXCEPT !.conn = @ + 1] /\ loc' = loc BY DEF ConnError
  <1>3. fails' \in Fails /\ fails'.conn = fails.conn + 1 /\ fails'.net = fails.net
        /\ fails'.short = fails.short /\ fails'.fetch = fails.fetch
        /\ fails.conn + 1 \in 1 .. MaxConn
    BY <1>1, <1>2 DEF Fails
  <1>4. CASE auth
    <2>1. "drop" \in Awaits \ {"api"} /\ "drop" \in Busy BY DEF Awaits, Busy
    <2>2. Go(Main, "drop") /\ cur' = NoToken /\ expired' = FALSE BY <1>4 DEF ConnError
    <2>3. Bounded' /\ pc' \in [Flows -> Awaits]
      BY <1>1, <1>2, <1>3, <2>1, <2>2, MainGo, MainBounded
    <2> QED BY <1>3, <2>2, <2>3 DEF ConnError, TypeInv, TypeOK, memory, world, Fails,
               NoSocket
  <1>5. CASE ~auth
    <2>1. Judge(fails.conn + 1) /\ expired' = expired BY <1>5 DEF ConnError
    <2>2. pc[Main] \notin Ended BY DEF Busy, Ended
    <2>3. Bounded' /\ pc' \in [Flows -> Awaits] /\ cur' \in Token \cup {NoToken}
      BY <1>2, <1>3, <2>1, <2>2, JudgeTypes
    <2> QED BY <1>3, <2>1, <2>3 DEF ConnError, TypeInv, TypeOK, memory, world, Fails,
               NoSocket, NoToken
  <1> QED BY <1>4, <1>5

LEMMA ConnectTypes ==
  ASSUME TypeInv, Connect
  PROVE  TypeInv'
  <1>1. pc[Main] \notin Busy BY DEF Connect, Busy
  <1>2. CASE /\ ws' = [NoSocket EXCEPT !.st = "open"] /\ holds' = {}
             /\ Go(Main, "init")
             /\ UNCHANGED <<enabled, cache, memory, fails, lock, loc, site, world, banned>>
    <2>1. "init" \in Awaits \ {"api"} BY DEF Awaits
    <2>2. Bounded' /\ pc' \in [Flows -> Awaits]
      BY <1>1, <1>2, <2>1, MainGo, MainBounded, FailsTypes
    <2> QED BY <1>2, <2>2 DEF TypeInv, TypeOK, memory, world, NoSocket
  <1> QED BY <1>1, <1>2, NetErrorTypes, ConnErrorTypes DEF Connect

LEMMA RegisterTypes ==
  ASSUME TypeInv, Register
  PROVE  TypeInv'
  <1>1. pc[Main] \notin Busy BY DEF Register, Busy
  <1>2. CASE \E w \in {"wait", "reg"} :
               /\ Go(Main, w) /\ ws' \in {ws, [ws EXCEPT !.token = cur]}
               /\ site' \in {site, "init"}
               /\ UNCHANGED <<enabled, cache, memory, holds, fails, lock, loc, world, banned>>
    <2>1. PICK w \in {"wait", "reg"} : Go(Main, w) BY <1>2
    <2>2. w \in Awaits \ {"api"} BY DEF Awaits
    <2>3. Bounded' /\ pc' \in [Flows -> Awaits]
      BY <1>1, <1>2, <2>1, <2>2, MainGo, MainBounded, FailsTypes
    <2> QED BY <1>2, <2>3 DEF TypeInv, TypeOK, memory, world
  <1>3. CASE \E brief \in BOOLEAN : NetError(FALSE, TRUE, brief, TRUE)
    BY <1>1, <1>3, NetErrorTypes
  <1> QED BY <1>2, <1>3 DEF Register

LEMMA InitGoesOnTypes ==
  ASSUME TypeInv, InitGoesOn
  PROVE  TypeInv'
  <1>1. pc[Main] \notin Busy BY DEF InitGoesOn, Busy
  <1>2. CASE cur = NoToken
    BY <1>1, <1>2, ConnErrorTypes DEF InitGoesOn
  <1>3. CASE cur # NoToken
    <2>1. Go(Main, "init") /\ UNCHANGED <<enabled, cache, memory, ws, holds, fails, lock, loc, site, world, banned>>
      BY <1>3 DEF InitGoesOn
    <2>2. "init" \in Awaits \ {"api"} BY DEF Awaits
    <2>3. Bounded' /\ pc' \in [Flows -> Awaits]
      BY <1>1, <2>1, <2>2, MainGo, MainBounded, FailsTypes
    <2> QED BY <2>1, <2>3 DEF TypeInv, TypeOK, memory, world
  <1> QED BY <1>2, <1>3

LEMMA ReadyTypes ==
  ASSUME TypeInv, Ready
  PROVE  TypeInv'
  <1>1. pc[Main] \notin Busy BY DEF Ready, Busy
  <1>2. CASE /\ ws' = [ws EXCEPT !.st = "up"]
             /\ fails' = [fails EXCEPT !.conn = 0, !.net = 0]
             /\ pc' = [f \in Flows |-> IF f = Main THEN "listen"
                         ELSE IF pc[f] = "off" THEN "idle" ELSE pc[f]]
             /\ UNCHANGED <<enabled, cache, memory, holds, lock, loc, site, world, banned>>
    <2>1. fails' \in Fails /\ fails'.net < MaxNet /\ fails'.short < MaxShort
          /\ fails'.fetch < MaxFetch /\ fails'.conn < MaxConn
      <3>1. fails \in Fails /\ fails.fetch < MaxFetch /\ fails.short < MaxShort
            /\ {MaxNet, MaxConn, MaxFetch, MaxShort} \subseteq Nat \ {0}
        BY <1>1, FailsTypes
      <3>2. fails' \in Fails /\ fails'.net = 0 /\ fails'.conn = 0
            /\ fails'.fetch = fails.fetch /\ fails'.short = fails.short
        BY <1>2, <3>1, ResetTypes
      <3> QED BY <3>1, <3>2
    <2>2. pc' \in [Flows -> Awaits] /\ pc'[Main] = "listen" /\ "listen" \in Awaits
          /\ \A f \in Instance : pc'[f] = "api" => pc[f] = "api"
      BY <1>2, SessionAssumption DEF TypeInv, TypeOK, Awaits, Flows, Instance
    <2>3. Bounded'
      BY <1>2, <2>1, <2>2, MainBounded
    <2> QED BY <1>2, <2>1, <2>2, <2>3 DEF TypeInv, TypeOK, memory, world, Fails
  <1>3. CASE \E brief \in BOOLEAN : NetError(FALSE, TRUE, brief, TRUE)
    BY <1>1, <1>3, NetErrorTypes
  <1>4. CASE ConnError(TRUE)
    BY <1>1, <1>4, ConnErrorTypes
  <1> QED BY <1>2, <1>3, <1>4 DEF Ready

LEMMA DisconnectTypes ==
  ASSUME TypeInv, Disconnect
  PROVE  TypeInv'
  <1>1. pc[Main] \notin Busy BY DEF Disconnect, Busy
  <1>2. ASSUME NEW brief \in BOOLEAN, Ends(brief)
        PROVE  TypeInv'
    <2>1. CASE expired /\ brief
      BY <1>1, <1>2, <2>1, RejectTypes DEF Ends
    <2>2. CASE ~(expired /\ brief)
      <3>1. Go(Main, "head") /\ ws' = NoSocket
            /\ UNCHANGED <<enabled, cache, memory, holds, fails, lock, loc, site, world, banned>>
        BY <1>2, <2>2 DEF Ends
      <3>2. "head" \in Awaits \ {"api"} BY DEF Awaits
      <3>3. Bounded' /\ pc' \in [Flows -> Awaits]
        BY <1>1, <3>1, <3>2, MainGo, MainBounded, FailsTypes
      <3> QED BY <3>1, <3>3 DEF TypeInv, TypeOK, memory, world, NoSocket
    <2> QED BY <2>1, <2>2
  <1>3. CASE \E brief, short \in BOOLEAN : NetError(TRUE, TRUE, brief, short)
    BY <1>1, <1>3, NetErrorTypes
  <1>4. CASE ConnError(TRUE) \/ ConnError(FALSE)
    BY <1>1, <1>4, ConnErrorTypes
  <1> QED BY <1>2, <1>3, <1>4 DEF Disconnect

LEMMA ClearTokenTypes ==
  ASSUME TypeInv, ClearToken
  PROVE  TypeInv'
  BY SessionAssumption DEF TypeInv, TypeOK, Bounded, ClearToken, Go, Flows, Instance,
     Token, NoToken, memory, world, Awaits, Hows, DropCache, NoRow, Judge, Enough

-----------------------------------------------------------------------------
(* Types: the flows beside the main loop, and the world. *)
LEMMA FlowEndTypes ==
  ASSUME TypeInv, NEW f \in Instance, FlowEnd(f)
  PROVE  TypeInv'
  <1>1. f \in Flows /\ f # Main BY SessionAssumption DEF Flows, FlowEnd
  <1>2. loc' \in [Flows -> Local] /\ \A g \in Flows \ {f} : loc'[g] = loc[g]
    BY <1>1, IdleStep DEF FlowEnd
  <1>3. Bounded' /\ pc' \in [Flows -> Awaits]
    BY <1>1, <1>2, StepBounded DEF FlowEnd, Awaits
  <1>4. lock' \in Flows \cup {Nobody, Dead} /\ expired' \in BOOLEAN
    BY DEF FlowEnd, Unlocked, TypeInv, TypeOK
  <1>5. ws' \in {ws, Shut(ws)} /\ Shut(ws) \in [st : {"none", "open", "up", "closing"}, token : Token \cup {NoToken}]
    BY DEF FlowEnd, Shut, TypeInv, TypeOK
  <1> QED BY <1>2, <1>3, <1>4, <1>5 DEF FlowEnd, TypeInv, TypeOK, Local, world

LEMMA RenewAnswerTypes ==
  ASSUME TypeInv, RenewAnswer
  PROVE  TypeInv'
  <1>1. Renewal \in Flows /\ Renewal \notin Instance /\ Renewal # Main
    BY SessionAssumption DEF Flows, Instance
  <1>2. CASE \E t \in Token : Issue(t) /\ Result(Renewal, t, "plain") /\ Go(Renewal, "save") /\ lock' = lock
    <2>1. PICK t \in Token : Issue(t) /\ Result(Renewal, t, "plain") /\ Go(Renewal, "save") /\ lock' = lock
      BY <1>2
    <2>2. loc' \in [Flows -> Local] /\ \A g \in Flows \ {Renewal} : loc'[g] = loc[g]
      BY <1>1, <2>1, ResultTypes DEF Hows
    <2>3. Bounded' /\ pc' \in [Flows -> Awaits]
      BY <1>1, <2>1, <2>2, StepBounded DEF Awaits, RenewAnswer
    <2> QED BY <2>1, <2>2, <2>3 DEF RenewAnswer, Issue, TypeInv, TypeOK, Local, memory
  <1>3. CASE RenewDone /\ UNCHANGED <<loc, world, banned>>
    <2>1. Bounded' /\ pc' \in [Flows -> Awaits]
      BY <1>1, <1>3, StepBounded DEF RenewAnswer, Awaits, RenewDone
    <2> QED BY <1>1, <1>3, <2>1 DEF RenewAnswer, RenewDone, Unlocked, TypeInv, TypeOK,
               memory, world
  <1> QED BY <1>2, <1>3 DEF RenewAnswer

LEMMA RenewWriteTypes ==
  ASSUME TypeInv, RenewWrite
  PROVE  TypeInv'
  <1>1. Renewal \in Flows /\ Renewal \notin Instance /\ Renewal # Main
    BY SessionAssumption DEF Flows, Instance
  <1>2. loc' \in [Flows -> Local] /\ \A g \in Flows \ {Renewal} : loc'[g] = loc[g]
    BY <1>1, IdleStep DEF RenewWrite
  <1>3. Bounded' /\ pc' \in [Flows -> Awaits]
    BY <1>1, <1>2, StepBounded DEF RenewWrite, RenewDone, Awaits
  <1>4. loc[Renewal].tok \in Token \cup {NoToken} BY <1>1 DEF TypeInv, TypeOK
  <1>5. cache' \in [token : Token \cup {NoToken}, expire : 0 .. 2, renew : 0 .. 2]
    <2> DEFINE row == [cache EXCEPT !.token = loc[Renewal].tok]
               Rows == [token : Token \cup {NoToken}, expire : 0 .. 2, renew : 0 .. 2]
    <2>1. cache \in Rows BY DEF TypeInv, TypeOK
    <2>2. row \in Rows BY <1>4, <2>1
    <2>3. cache' = cache \/ cache' = [row EXCEPT !.renew = 2] BY DEF RenewWrite
    <2> HIDE DEF row
    <2> QED BY <2>1, <2>2, <2>3
  <1>6. renewed' \subseteq Token \cup {NoToken}
    <2>1. renewed \subseteq Token \cup {NoToken} BY DEF TypeInv, TypeOK
    <2>2. renewed' \in {renewed, renewed \cup {loc[Renewal].tok}} BY DEF RenewWrite
    <2> QED BY <1>4, <2>1, <2>2
  <1>7. lock' \in Flows \cup {Nobody, Dead}
    BY DEF RenewWrite, RenewDone, Unlocked, TypeInv, TypeOK
  <1>8. UNCHANGED <<enabled, memory, ws, holds, fails, site, weather, issued, dead, starts, bare, banned>>
    BY DEF RenewWrite
  <1> QED BY <1>2, <1>3, <1>5, <1>6, <1>7, <1>8 DEF TypeInv, TypeOK, Local, memory

LEMMA RestartTypes ==
  ASSUME TypeInv, Restart
  PROVE  TypeInv'
  <1>1. loc' \in [Flows -> Local]
    BY IdleTypes DEF Restart, TypeInv, TypeOK, Local
  <1>2. pc' \in [Flows -> Awaits]
    BY SessionAssumption DEF Restart, TypeInv, TypeOK, Awaits
  <1>3. NoFails \in Fails /\ NoFails.net = 0 /\ NoFails.conn = 0 /\ NoFails.fetch = 0 /\ NoFails.short = 0
    BY FailsTypes DEF Fails, NoFails
  <1>4. Bounded'
    BY <1>3, FailsTypes, SessionAssumption DEF Bounded, Restart, Flows, Instance
  <1>5. lock' \in Flows \cup {Nobody, Dead}
    BY DEF Restart, TypeInv, TypeOK
  <1>6. /\ {enabled', startup', expired', counts'} \subseteq BOOLEAN
        /\ {cur', inUse'} \subseteq Token \cup {NoToken} /\ holds' \subseteq Forces
        /\ ws' \in [st : {"none", "open", "up", "closing"}, token : Token \cup {NoToken}]
        /\ site' \in {"head", "init"} /\ banned' \subseteq Token
    BY DEF Restart, NoSocket
  <1>7. starts' \in 0 .. MaxStarts
    BY SessionAssumption DEF Restart, TypeInv, TypeOK
  <1>8. fails' = NoFails /\ UNCHANGED <<cache, weather, issued, dead, renewed, bare>>
    BY DEF Restart
  <1> QED BY <1>1, <1>2, <1>3, <1>4, <1>5, <1>6, <1>7, <1>8 DEF TypeInv, TypeOK, Local,
             Fails

(* Types: actions that the solver settles in one step. *)
LEMMA LockExpireTypes ==
  ASSUME TypeInv, LockExpire
  PROVE  TypeInv'
  BY SessionAssumption
  DEF TypeInv, TypeOK, Bounded, LockExpire, Go, Flows, Instance, Token, NoToken, memory,
      world, Awaits, Hows

LEMMA RefreshDisabledTypes ==
  ASSUME TypeInv, NEW f \in Instance, RefreshDisabled(f)
  PROVE  TypeInv'
  BY SessionAssumption
  DEF TypeInv, TypeOK, Bounded, RefreshDisabled, Go, Flows, Instance, Token, NoToken,
    memory,
      world, Awaits, Hows, Give, Result

LEMMA CacheHitTypes ==
  ASSUME TypeInv, NEW f \in Instance, NEW slider \in Sliders, CacheHit(f, slider)
  PROVE  TypeInv'
  BY SessionAssumption
  DEF TypeInv, TypeOK, Bounded, CacheHit, Go, Flows, Instance, Token, NoToken, memory,
      world, Awaits, Hows, Result, Promoted, Current, Usable, AnyAge, Looks, StartupLeft

LEMMA CacheUnreadTypes ==
  ASSUME TypeInv, NEW f \in Instance, NEW slider \in Sliders, CacheUnread(f, slider)
  PROVE  TypeInv'
  BY SessionAssumption
  DEF TypeInv, TypeOK, Bounded, CacheUnread, Go, Flows, Instance, Token, NoToken, memory,
      world, Awaits, Hows, Give, Result

LEMMA SaveTypes ==
  ASSUME TypeInv, NEW f \in Instance, Save(f)
  PROVE  TypeInv'
  BY SessionAssumption
  DEF TypeInv, TypeOK, Bounded, Save, Go, Flows, Instance, Token, NoToken, memory,
      world, Awaits, Hows, Fresh

LEMMA CloseSocketTypes ==
  ASSUME TypeInv, NEW f \in Instance, CloseSocket(f)
  PROVE  TypeInv'
  BY SessionAssumption
  DEF TypeInv, TypeOK, Bounded, CloseSocket, Go, Flows, Instance, Token, NoToken, memory,
      world, Awaits, Hows, Shut

LEMMA ApiFailsTypes ==
  ASSUME TypeInv, NEW f \in Instance, ApiFails(f)
  PROVE  TypeInv'
  BY SessionAssumption
  DEF TypeInv, TypeOK, Bounded, ApiFails, Go, Flows, Instance, Token, NoToken, memory,
      world, Awaits, Hows, Give, Result, DropCache, NoRow

LEMMA HeadStopsTypes ==
  ASSUME TypeInv, HeadStops
  PROVE  TypeInv'
  BY SessionAssumption
  DEF TypeInv, TypeOK, Bounded, HeadStops, Go, Flows, Instance, Token, NoToken, memory,
      world, Awaits, Hows, Finish, Ended

LEMMA HeadTypes ==
  ASSUME TypeInv, Head
  PROVE  TypeInv'
  BY SessionAssumption
  DEF TypeInv, TypeOK, Bounded, Head, Go, Flows, Instance, Token, NoToken, memory,
      world, Awaits, Hows

LEMMA LoopStartTypes ==
  ASSUME TypeInv, NEW f \in Instance, LoopStart(f)
  PROVE  TypeInv'
  BY SessionAssumption
  DEF TypeInv, TypeOK, Bounded, LoopStart, Go, Flows, Instance, Token, NoToken, memory,
      world, Awaits, Hows

LEMMA ForceStartTypes ==
  ASSUME TypeInv, NEW f \in Instance, ForceStart(f)
  PROVE  TypeInv'
  BY SessionAssumption
  DEF TypeInv, TypeOK, Bounded, ForceStart, Go, Flows, Instance, Token, NoToken, memory,
      world, Awaits, Hows, DropCache, NoRow

LEMMA RenewStartTypes ==
  ASSUME TypeInv, RenewStart
  PROVE  TypeInv'
  BY SessionAssumption
  DEF TypeInv, TypeOK, Bounded, RenewStart, Go, Flows, Instance, Token, NoToken, memory,
      world, Awaits, Hows

LEMMA RenewCheckTypes ==
  ASSUME TypeInv, RenewCheck
  PROVE  TypeInv'
  BY SessionAssumption
  DEF TypeInv, TypeOK, Bounded, RenewCheck, Go, Flows, Instance, Token, NoToken, memory,
      world, Awaits, Hows, RenewDone, Unlocked

LEMMA AgeTypes ==
  ASSUME TypeInv, Age
  PROVE  TypeInv'
  BY SessionAssumption
  DEF TypeInv, TypeOK, Bounded, Age, Go, Flows, Instance, Token, NoToken, memory,
      world, Awaits, Hows

LEMMA KillTypes ==
  ASSUME TypeInv, NEW t \in Token, Kill(t)
  PROVE  TypeInv'
  BY SessionAssumption
  DEF TypeInv, TypeOK, Bounded, Kill, Go, Flows, Instance, Token, NoToken, memory,
      world, Awaits, Hows

LEMMA CalmDownTypes ==
  ASSUME TypeInv, CalmDown
  PROVE  TypeInv'
  BY SessionAssumption
  DEF TypeInv, TypeOK, Bounded, CalmDown, Go, Flows, Instance, Token, NoToken, memory,
      world, Awaits, Hows

LEMMA UnlockTypes ==
  ASSUME TypeInv, NEW f \in Instance, Unlock(f)
  PROVE  TypeInv'
  BY SessionAssumption, SMTT(40)
  DEF TypeInv, TypeOK, Bounded, Unlock, Go, Flows, Instance, Token, NoToken, memory,
      world, Awaits, Hows, Unlocked, Idle

-----------------------------------------------------------------------------
(* The initial states. *)
LEMMA InitTypes == Init => TypeInv
  <1> SUFFICES ASSUME Init PROVE TypeInv
    OBVIOUS
  <1>1. loc \in [Flows -> Local] /\ NoFails \in Fails
    BY IdleTypes, SessionAssumption DEF Init, Fails, NoFails
  <1>2. pc \in [Flows -> Awaits] /\ pc[Main] = "head" /\ Main \in Flows
        /\ \A f \in Flows : pc[f] # "api"
    BY SessionAssumption DEF Init, Awaits, Flows, Instance
  <1>3. fails = NoFails /\ NoFails.net = 0 /\ NoFails.conn = 0 /\ NoFails.fetch = 0 /\ NoFails.short = 0
    BY DEF Init, NoFails
  <1>4. Bounded
    BY <1>2, <1>3, SessionAssumption DEF Bounded, Flows
  <1>5. cache \in [token : Token \cup {NoToken}, expire : 0 .. 2, renew : 0 .. 2]
    BY SessionAssumption DEF Init, NoRow, Fresh, NoToken, Token
  <1>6. issued \in Token /\ starts \in 0 .. MaxStarts /\ bare \in BOOLEAN
    <2>1. issued = 1 /\ starts = 0 /\ bare = FALSE BY DEF Init
    <2>2. 1 \in Token /\ 0 \in 0 .. MaxStarts BY SessionAssumption DEF Token
    <2> QED BY <2>1, <2>2
  <1>7. ws \in [st : {"none", "open", "up", "closing"}, token : Token \cup {NoToken}]
    BY DEF Init, NoSocket
  <1>8. /\ {enabled, startup, expired, counts} \subseteq BOOLEAN
        /\ {cur, inUse} \subseteq Token \cup {NoToken} /\ holds \subseteq Forces
        /\ lock \in Flows \cup {Nobody, Dead} /\ site \in {"head", "init"}
        /\ weather \in Faults \cup {{}}
        /\ dead \subseteq Token /\ banned \subseteq Token /\ renewed \subseteq Token \cup {NoToken}
    BY DEF Init
  <1> QED BY <1>1, <1>2, <1>3, <1>4, <1>5, <1>6, <1>7, <1>8 DEF TypeInv, TypeOK, Local,
             Fails

(* The steps, by groups. *)
LEMMA RefreshKeepsTypes ==
  ASSUME TypeInv, NEW f \in Instance, Refresh(f)
  PROVE  TypeInv'
  <1>1. f \in Flows BY DEF Flows
  <1>2. CASE Lock(f) \/ LockTimeout(f) \/ Unlock(f)
    BY <1>1, <1>2, LockTypes, LockTimeoutTypes, UnlockTypes
  <1>3. CASE \E slider \in Sliders : CacheHit(f, slider) \/ CacheUnread(f, slider) \/ CacheMiss(f, slider)
    BY <1>3, CacheHitTypes, CacheUnreadTypes, CacheMissTypes
  <1>4. CASE RefreshDisabled(f) \/ Use(f) \/ SliderUnknown(f) \/ GetToken(f) \/ Save(f) \/ CloseSocket(f)
    BY <1>4, RefreshDisabledTypes, UseTypes, SliderUnknownTypes, GetTokenTypes,
       SaveTypes, CloseSocketTypes
  <1>5. CASE ApiFails(f) \/ ApiTokenExpired(f) \/ ApiCaptcha(f) \/ ApiSessionOver(f)
    BY <1>5, ApiFailsTypes, ApiTokenExpiredTypes, ApiCaptchaTypes, ApiSessionOverTypes
  <1> QED BY <1>2, <1>3, <1>4, <1>5 DEF Refresh

LEMMA MainKeepsTypes ==
  ASSUME TypeInv, MainStep
  PROVE  TypeInv'
  BY HeadStopsTypes, HeadTypes, HeadGoesOnTypes, ClearTokenTypes, ReloginTypes,
     ConnectTypes,
     RegisterTypes, InitGoesOnTypes, ReadyTypes, DisconnectTypes DEF MainStep

LEMMA RenewKeepsTypes ==
  ASSUME TypeInv, RenewStart \/ RenewStep
  PROVE  TypeInv'
  <1>1. Renewal \in Flows BY DEF Flows
  <1> QED BY <1>1, RenewStartTypes, LockTypes, LockTimeoutTypes, RenewCheckTypes,
             RenewAnswerTypes,
             RenewWriteTypes DEF RenewStep

LEMMA WorldKeepsTypes ==
  ASSUME TypeInv, World
  PROVE  TypeInv'
  BY RestartTypes, AgeTypes, CalmDownTypes, LockExpireTypes, KillTypes DEF World

LEMMA NextTypes == TypeInv /\ [Next]_vars => TypeInv'
  <1> SUFFICES ASSUME TypeInv, [Next]_vars PROVE TypeInv'
    OBVIOUS
  <1>1. CASE UNCHANGED vars
    BY <1>1 DEF vars, memory, world, TypeInv, TypeOK, Bounded
  <1>2. CASE \E f \in Instance : Refresh(f) \/ LoopStart(f) \/ ForceStart(f) \/ FlowEnd(f)
    BY <1>2, RefreshKeepsTypes, LoopStartTypes, ForceStartTypes, FlowEndTypes
  <1> QED BY <1>1, <1>2, MainKeepsTypes, RenewKeepsTypes, WorldKeepsTypes DEF Next

(* The type invariant of Session holds in every reachable state: among its
   conjuncts, no failure counter of main() and no captcha count of a refresh
   passes its limit, whatever the order of errors, logins and restarts. *)
THEOREM SessionTypes == Spec => []TypeOK
  <1>1. TypeInv => TypeOK BY DEF TypeInv
  <1> QED BY <1>1, InitTypes, NextTypes, PTL DEF Spec

-----------------------------------------------------------------------------
(* A step outside keeps the lock's invariant. *)
LEMMA OutsideKeeps ==
  ASSUME TokenInv, Outside
  PROVE  TokenInv'
  <1>1. CASE bare
    BY <1>1 DEF Outside, TokenInv, HasLock, NoWastedRequest
  <1>2. CASE ~bare
    <2>1. HasLock' BY <1>2 DEF Outside, TokenInv, HasLock
    <2>2. ASSUME NEW f \in Flows, pc'[f] = "api"
          PROVE  IF f = Renewal THEN Due(cache') ELSE First(f)' => ~Current(cache')
      <3>1. pc[f] = "api" /\ loc'[f] = loc[f] BY <2>2 DEF Outside, Held
      <3>2. First(f)' <=> First(f) BY <3>1 DEF First
      <3>3. IF f = Renewal THEN Due(cache) ELSE First(f) => ~Current(cache)
        BY <1>2, <3>1 DEF TokenInv, NoWastedRequest, Asking
      <3> QED BY <3>2, <3>3 DEF Outside
    <2>3. NoWastedRequest' BY <2>2 DEF NoWastedRequest, Asking
    <2> QED BY <2>1, <2>3 DEF TokenInv
  <1> QED BY <1>1, <1>2

(* So does a step of the flow that has the lock, if a request it begins is due. *)
LEMMA HolderKeeps ==
  ASSUME TokenInv, TypeInv, NEW f \in Flows, pc[f] \in Held, NEW w \in Awaits, Go(f, w),
         bare' = bare, \A g \in Flows \ {f} : loc'[g] = loc[g],
         w \in Held => lock' = lock,
         w = "api" => IF f = Renewal THEN Due(cache') ELSE First(f)' => ~Current(cache')
  PROVE  TokenInv'
  <1>1. CASE bare
    BY <1>1 DEF TokenInv, HasLock, NoWastedRequest
  <1>2. CASE ~bare
    <2>1. \A g \in Flows \ {f} : pc'[g] = pc[g] /\ pc[g] \notin Held
      BY <1>2 DEF TokenInv, HasLock, Go, TypeInv, TypeOK
    <2>2. pc'[f] = w BY DEF Go, TypeInv, TypeOK
    <2>3. lock = f BY <1>2 DEF TokenInv, HasLock
    <2>4. HasLock' BY <2>1, <2>2, <2>3 DEF HasLock
    <2>5. ASSUME NEW g \in Flows, pc'[g] = "api"
          PROVE  IF g = Renewal THEN Due(cache') ELSE First(g)' => ~Current(cache')
      <3>1. "api" \in Held BY DEF Held
      <3>2. g = f /\ w = "api" BY <2>1, <2>2, <2>5, <3>1
      <3> QED BY <3>2
    <2>6. NoWastedRequest' BY <2>5 DEF NoWastedRequest, Asking
    <2> QED BY <2>4, <2>6 DEF TokenInv
  <1> QED BY <1>1, <1>2

(* And the step that takes it. *)
LEMMA LockKeeps ==
  ASSUME TokenInv, TypeInv, NEW f \in Flows, Lock(f)
  PROVE  TokenInv'
  <1>1. CASE bare'
    BY <1>1 DEF TokenInv, HasLock, NoWastedRequest
  <1>2. CASE ~bare'
    <2>1. ~bare /\ lock = Nobody /\ lock' = f /\ cache' = cache
      <3>1. CASE lock = Nobody /\ lock' = f /\ bare' = bare
        <4>1. cache' = cache BY DEF Lock
        <4> QED BY <1>2, <3>1, <4>1
      <3>2. CASE bare' = TRUE
        BY <1>2, <3>2
      <3> QED BY <3>1, <3>2 DEF Lock
    <2>2. \A g \in Flows : pc[g] \notin Held
      BY <2>1, SessionAssumption DEF TokenInv, HasLock
    <2>3. pc'[f] = "inside" /\ \A g \in Flows \ {f} : pc'[g] = pc[g]
      BY DEF Lock, Go, TypeInv, TypeOK
    <2>4. HasLock' BY <2>1, <2>2, <2>3 DEF HasLock
    <2>5. NoWastedRequest' BY <2>2, <2>3 DEF NoWastedRequest, Asking, Held
    <2> QED BY <2>4, <2>5 DEF TokenInv
  <1> QED BY <1>1, <1>2

(* A flow that goes where no lock is needed. *)
LEMMA GoOutside ==
  ASSUME TypeInv, NEW f \in Flows, NEW w \in Awaits \ Held, Go(f, w), bare' = bare,
         \A g \in Flows \ {f} : loc'[g] = loc[g], lock' = lock \/ lock = f, cache' \in {cache, NoRow}
  PROVE  Outside
  <1>1. Current(cache') => Current(cache) BY DEF Current, NoRow, NoToken
  <1>2. Due(cache) => Due(cache') BY DEF Due, NoRow
  <1> QED BY <1>1, <1>2 DEF Outside, Go, TypeInv, TypeOK

(* The end of the main loop cancels the flows that may have it. *)
LEMMA FinishOutside ==
  ASSUME TypeInv, Finishes, bare' = bare, loc' = loc, cache' = cache
  PROVE  Outside
  BY SessionAssumption DEF Outside, Finishes, Finish, TypeInv, TypeOK, Held, Flows, Instance

(* No step of the main loop itself is under the lock. *)
LEMMA MainOutside ==
  ASSUME TypeInv, MainStep
  PROVE  Outside
  <1>1. Main \in Flows BY DEF Flows, Instance
  <1>2. {"head", "wait", "connect", "drop", "relogin", "init", "reg", "got", "resume"} \subseteq Awaits \ Held
    BY DEF Awaits, Held
  <1> DEFINE Same == bare' = bare /\ loc' = loc
             Goes == /\ \E w \in {"head", "wait", "connect", "drop", "relogin", "init", "reg"} : Go(Main, w)
                     /\ lock' = lock /\ cache' \in {cache, NoRow}
             Stops == Finishes /\ cache' = cache
  <1>3. ASSUME Same, Goes \/ Stops
        PROVE  Outside
    BY <1>1, <1>2, <1>3, GoOutside, FinishOutside
  <1>4. ASSUME NEW was \in BOOLEAN, NEW opened \in BOOLEAN, NEW brief \in BOOLEAN,
               NEW short \in BOOLEAN,
               NetError(was, opened, brief, short)
        PROVE  Same /\ (Goes \/ Stops)
    <2>1. CASE expired /\ brief /\ (was \/ opened)
      BY <1>4, <2>1 DEF NetError, RejectStartup, world
    <2>2. CASE ~(expired /\ brief /\ (was \/ opened))
      <3>1. /\ loc' = loc /\ bare' = bare /\ cache' = cache
            /\ Finishes \/ (Go(Main, "head") /\ lock' = lock)
        BY <1>4, <2>2, GiveUpEnds DEF NetError, world
      <3> QED BY <3>1
    <2> QED BY <2>1, <2>2
  <1>5. ASSUME NEW auth \in BOOLEAN, ConnError(auth)
        PROVE  Same /\ Goes
    BY <1>5 DEF ConnError, Judge, Enough, world
  <1>6. CASE HeadStops
    BY <1>3, <1>6 DEF HeadStops, Finishes, world
  <1>7. CASE Head
    BY <1>3, <1>7 DEF Head, world
  <1>8. CASE HeadGoesOn
    <2>1. Same /\ (Goes \/ Stops) BY <1>8, GiveUpEnds DEF HeadGoesOn, world
    <2> QED BY <1>3, <2>1
  <1>9. CASE ClearToken
    <2>1. Same /\ Goes BY <1>9 DEF ClearToken, Judge, Enough, DropCache, world
    <2> QED BY <1>3, <2>1
  <1>10. CASE Relogin
    <2>1. Same /\ Goes BY <1>10 DEF Relogin, CoolDown, world
    <2> QED BY <1>3, <2>1
  <1>11. CASE Connect
    <2>1. Same /\ (Goes \/ Stops) BY <1>4, <1>5, <1>11 DEF Connect, world
    <2> QED BY <1>3, <2>1
  <1>12. CASE Register
    <2>1. Same /\ (Goes \/ Stops) BY <1>4, <1>12 DEF Register, world
    <2> QED BY <1>3, <2>1
  <1>13. CASE InitGoesOn
    <2>1. Same /\ (Goes \/ Stops) BY <1>5, <1>13 DEF InitGoesOn, world
    <2> QED BY <1>3, <2>1
  <1>14. CASE Ready
    <2>1. CASE /\ pc' = [f \in Flows |-> IF f = Main THEN "listen"
                           ELSE IF pc[f] = "off" THEN "idle" ELSE pc[f]]
               /\ UNCHANGED <<cache, lock, loc, bare>>
      BY <2>1 DEF Outside, Held
    <2>2. CASE \E brief \in BOOLEAN : NetError(FALSE, TRUE, brief, TRUE)
      BY <1>3, <1>4, <2>2
    <2>3. CASE ConnError(TRUE)
      BY <1>3, <1>5, <2>3
    <2> QED BY <1>14, <2>1, <2>2, <2>3 DEF Ready, world
  <1>15. CASE Disconnect
    <2>1. ASSUME NEW brief \in BOOLEAN, Ends(brief) PROVE Same /\ Goes
      BY <2>1 DEF Ends, RejectStartup, world
    <2>2. Same /\ (Goes \/ Stops) BY <1>4, <1>5, <1>15, <2>1 DEF Disconnect
    <2> QED BY <1>3, <2>2
  <1> QED BY <1>6, <1>7, <1>8, <1>9, <1>10, <1>11, <1>12, <1>13, <1>14, <1>15 DEF MainStep

(* The flows before and after their refresh. *)
LEMMA BesideOutside ==
  ASSUME TypeInv, NEW f \in Instance,
         LoopStart(f) \/ ForceStart(f) \/ FlowEnd(f) \/ Unlock(f) \/ LockTimeout(f)
  PROVE  Outside
  <1>1. f \in Flows BY DEF Flows
  <1>2. {"wait", "idle", "back", "got", "resume"} \subseteq Awaits \ Held
    BY DEF Awaits, Held
  <1>3. \A g \in Flows \ {f} : loc'[g] = loc[g]
    BY <1>1, IdleStep DEF LoopStart, ForceStart, FlowEnd, Unlock, LockTimeout
  <1>4. bare' = bare /\ cache' \in {cache, NoRow} /\ (lock' = lock \/ lock = f)
    BY DEF LoopStart, ForceStart, FlowEnd, Unlock, LockTimeout, DropCache, Unlocked, world
  <1>5. \E w \in {"wait", "idle", "back", "got", "resume"} : Go(f, w)
    BY DEF LoopStart, ForceStart, FlowEnd, Unlock, LockTimeout
  <1> QED BY <1>1, <1>2, <1>3, <1>4, <1>5, GoOutside

(* The renewal before and after its own. *)
LEMMA RenewOutside ==
  ASSUME TypeInv, RenewStart \/ LockTimeout(Renewal)
  PROVE  Outside
  <1>1. Renewal \in Flows BY DEF Flows
  <1>2. {"wait", "idle"} \subseteq Awaits \ Held BY DEF Awaits, Held
  <1>3. \A g \in Flows \ {Renewal} : loc'[g] = loc[g]
    BY <1>1, IdleStep DEF RenewStart, LockTimeout
  <1>4. bare' = bare /\ cache' = cache /\ lock' = lock
    BY DEF RenewStart, LockTimeout, world
  <1>5. \E w \in {"wait", "idle"} : Go(Renewal, w)
    BY DEF RenewStart, LockTimeout
  <1> QED BY <1>1, <1>2, <1>3, <1>4, <1>5, GoOutside

(* Restarts and the passing of time. *)
LEMMA WorldOutside ==
  ASSUME TypeInv, World
  PROVE  Outside
  <1>1. CASE Restart
    <2>1. cache' = cache /\ bare' = bare BY <1>1 DEF Restart
    <2>2. ASSUME NEW g \in Flows, pc'[g] \in Held
          PROVE  pc'[g] = pc[g] /\ loc'[g] = loc[g] /\ (lock = g => lock' = g)
      <3>1. g = Renewal
        BY <1>1, <2>2 DEF Restart, Held, Flows, Instance
      <3>2. loc'[g] = loc[g] /\ pc'[g] = pc[g]
        BY <1>1, <3>1, SessionAssumption DEF Restart, Instance
      <3>3. lock \notin Instance => lock' = lock
        BY <1>1 DEF Restart
      <3> QED BY <3>1, <3>2, <3>3, SessionAssumption
    <2> QED BY <2>1, <2>2 DEF Outside
  <1>2. CASE Age
    <2>1. (Current(cache') => Current(cache)) /\ (Due(cache) => Due(cache'))
      BY <1>2 DEF Age, Current, Due, TypeInv, TypeOK
    <2> QED BY <1>2, <2>1 DEF Age, Outside, world
  <1>3. CASE CalmDown \/ \E t \in Token : Kill(t)
    BY <1>3 DEF CalmDown, Kill, Outside
  <1>4. CASE LockExpire
    BY <1>4, SessionAssumption DEF LockExpire, Outside, world
  <1> QED BY <1>1, <1>2, <1>3, <1>4 DEF World

(* A first request is made on a row that is not good. *)
LEMMA CacheMissAsks ==
  ASSUME TypeInv, NEW f \in Instance, NEW slider \in Sliders, CacheMiss(f, slider),
         Go(f, "api"), Result(f, NoToken, slider)
  PROVE  First(f)' => ~Current(cache')
  <1>1. f \in Flows /\ slider \in Hows /\ NoToken \in Token \cup {NoToken} 
    <2>1. slider \in Hows BY DEF Sliders, Hows, CacheMiss
    <2> QED BY <2>1 DEF Flows
  <1>2. loc'[f].cap = loc[f].cap /\ loc'[f].exp = loc[f].exp BY <1>1, ResultTypes
  <1>3. First(f)' <=> First(f) BY <1>2 DEF First
  <1>4. First(f) => ~Current(cache) BY DEF CacheMiss, Looks, Usable
  <1>5. cache' = cache BY DEF CacheMiss
  <1> QED BY <1>3, <1>4, <1>5

(* The steps, by groups. *)
LEMMA RefreshHolds ==
  ASSUME TypeInv, TokenInv, NEW f \in Instance, Refresh(f)
  PROVE  TokenInv'
  <1>1. f \in Flows /\ f # Renewal BY SessionAssumption DEF Flows
  <1>2. CASE Lock(f)
    BY <1>1, <1>2, LockKeeps
  <1>3. CASE LockTimeout(f) \/ Unlock(f)
    BY <1>3, BesideOutside, OutsideKeeps
  <1>4. ASSUME NEW w \in {"use", "back", "close", "save", "inside"}, Go(f, w),
               pc[f] \in Held,
               bare' = bare, \A g \in Flows \ {f} : loc'[g] = loc[g], lock' = lock
        PROVE  TokenInv'
    <2>1. w \in Awaits /\ w # "api" BY DEF Awaits
    <2> QED BY <1>1, <1>4, <2>1, HolderKeeps
  <1>5. ASSUME NEW t, NEW how, Result(f, t, how)
        PROVE  \A g \in Flows \ {f} : loc'[g] = loc[g]
    BY <1>5 DEF Result, TypeInv, TypeOK
  <1>6. ASSUME NEW t, NEW c, Give(f, t, c)
        PROVE  Go(f, "back") /\ \A g \in Flows \ {f} : loc'[g] = loc[g]
    BY <1>5, <1>6 DEF Give
  <1>7. ASSUME NEW field, Again(f, field)
        PROVE  Go(f, "inside") /\ \A g \in Flows \ {f} : loc'[g] = loc[g]
    BY <1>7 DEF Again, TypeInv, TypeOK
  <1>8. CASE RefreshDisabled(f)
    BY <1>4, <1>6, <1>8 DEF RefreshDisabled, Held, world
  <1>9. CASE Use(f)
    BY <1>4, <1>9 DEF Use, Held, world
  <1>10. CASE SliderUnknown(f)
    BY <1>4, <1>6, <1>10 DEF SliderUnknown, Held, world
  <1>11. CASE GetToken(f)
    <2>1. pc[f] \in Held /\ Go(f, "save") /\ bare' = bare /\ lock' = lock
      BY <1>11 DEF GetToken, Issue, Held
    <2>2. PICK t \in Token : Result(f, t, Changed(t)) BY <1>11 DEF GetToken
    <2> QED BY <1>4, <1>5, <2>1, <2>2
  <1>12. CASE Save(f) \/ CloseSocket(f)
    BY <1>4, <1>12 DEF Save, CloseSocket, Held, world
  <1>13. CASE ApiFails(f)
    BY <1>4, <1>6, <1>13 DEF ApiFails, Held, world
  <1>14. CASE ApiTokenExpired(f)
    BY <1>4, <1>7, <1>14 DEF ApiTokenExpired, Held, world
  <1>15. CASE ApiCaptcha(f)
    <2>1. pc[f] \in Held /\ bare' = bare /\ lock' = lock
      BY <1>15 DEF ApiCaptcha, Held, world
    <2>2. \E w \in {"back", "inside"} : Go(f, w) /\ \A g \in Flows \ {f} : loc'[g] = loc[g]
      BY <1>6, <1>7, <1>15 DEF ApiCaptcha
    <2> QED BY <1>4, <2>1, <2>2
  <1>16. CASE ApiSessionOver(f)
    <2>1. pc[f] \in Held /\ bare' = bare /\ lock' = lock
      BY <1>16 DEF ApiSessionOver, Held, world
    <2>2. \E w \in {"back", "inside"} : Go(f, w) /\ \A g \in Flows \ {f} : loc'[g] = loc[g]
      BY <1>6, <1>7, <1>16 DEF ApiSessionOver
    <2> QED BY <1>4, <2>1, <2>2
  <1>17. ASSUME NEW slider \in Sliders, CacheHit(f, slider) \/ CacheUnread(f, slider)
         PROVE  TokenInv'
    <2>1. pc[f] \in Held /\ bare' = bare /\ lock' = lock
      BY <1>17 DEF CacheHit, CacheUnread, Held, world
    <2>2. \E w \in {"use", "back"} : Go(f, w) /\ \A g \in Flows \ {f} : loc'[g] = loc[g]
      BY <1>5, <1>6, <1>17 DEF CacheHit, CacheUnread
    <2> QED BY <1>4, <2>1, <2>2
  <1>18. ASSUME NEW slider \in Sliders, CacheMiss(f, slider)
         PROVE  TokenInv'
    <2>1. pc[f] \in Held /\ bare' = bare /\ lock' = lock
      BY <1>18 DEF CacheMiss, Held, world
    <2>2. CASE Go(f, "api") /\ Result(f, NoToken, slider)
      <3>1. First(f)' => ~Current(cache') BY <1>18, <2>2, CacheMissAsks
      <3>2. "api" \in Awaits BY DEF Awaits
      <3> QED BY <1>1, <1>5, <2>1, <2>2, <3>1, <3>2, HolderKeeps
    <2>3. CASE \E t, c : Give(f, t, c)
      BY <1>4, <1>6, <2>1, <2>3
    <2> QED BY <1>18, <2>2, <2>3 DEF CacheMiss
  <1> QED BY <1>2, <1>3, <1>8, <1>9, <1>10, <1>11, <1>12, <1>13, <1>14, <1>15, <1>16,
             <1>17, <1>18 DEF Refresh

LEMMA RenewHolds ==
  ASSUME TypeInv, TokenInv, RenewStart \/ RenewStep
  PROVE  TokenInv'
  <1>1. Renewal \in Flows BY DEF Flows
  <1>2. CASE Lock(Renewal)
    BY <1>1, <1>2, LockKeeps
  <1>3. CASE RenewStart \/ LockTimeout(Renewal)
    BY <1>3, RenewOutside, OutsideKeeps
  <1>4. CASE RenewCheck
    <2>1. CASE StillDue
      <3>1. Go(Renewal, "api") /\ lock' = lock /\ cache' = cache /\ bare' = bare /\ loc' = loc /\ pc[Renewal] \in Held
        BY <1>4, <2>1 DEF RenewCheck, Held, world
      <3>2. Due(cache') BY <2>1, <3>1 DEF StillDue
      <3>3. "api" \in Awaits BY DEF Awaits
      <3> QED BY <1>1, <3>1, <3>2, <3>3, HolderKeeps
    <2>2. CASE ~StillDue
      <3>1. Go(Renewal, "idle") /\ bare' = bare /\ loc' = loc /\ pc[Renewal] \in Held
        BY <1>4, <2>2 DEF RenewCheck, RenewDone, Held, world
      <3>2. "idle" \in Awaits /\ "idle" \notin Held BY DEF Awaits, Held
      <3> QED BY <1>1, <3>1, <3>2, HolderKeeps DEF Held
    <2> QED BY <2>1, <2>2
  <1>5. CASE RenewAnswer
    <2>1. bare' = bare /\ pc[Renewal] \in Held BY <1>5 DEF RenewAnswer, Issue, Held, world
    <2>2. \A g \in Flows \ {Renewal} : loc'[g] = loc[g]
      BY <1>5 DEF RenewAnswer, Result, TypeInv, TypeOK
    <2>3. \/ Go(Renewal, "save") /\ lock' = lock
          \/ Go(Renewal, "idle")
      BY <1>5 DEF RenewAnswer, RenewDone
    <2>4. {"save", "idle"} \subseteq Awaits \ {"api"} /\ "idle" \notin Held
      BY DEF Awaits, Held
    <2> QED BY <1>1, <2>1, <2>2, <2>3, <2>4, HolderKeeps
  <1>6. CASE RenewWrite
    <2>1. bare' = bare /\ pc[Renewal] \in Held /\ Go(Renewal, "idle")
      BY <1>6 DEF RenewWrite, RenewDone, Held
    <2>2. \A g \in Flows \ {Renewal} : loc'[g] = loc[g]
      BY <1>1, <1>6, IdleStep DEF RenewWrite
    <2>3. "idle" \in Awaits \ {"api"} /\ "idle" \notin Held BY DEF Awaits, Held
    <2> QED BY <1>1, <2>1, <2>2, <2>3, HolderKeeps
  <1> QED BY <1>2, <1>3, <1>4, <1>5, <1>6 DEF RenewStep

LEMMA NextHolds == TypeInv /\ TokenInv /\ [Next]_vars => TokenInv'
  <1> SUFFICES ASSUME TypeInv, TokenInv, [Next]_vars PROVE TokenInv'
    OBVIOUS
  <1>1. CASE UNCHANGED vars
    BY <1>1, OutsideKeeps DEF vars, Outside, world
  <1>2. CASE \E f \in Instance : Refresh(f) \/ LoopStart(f) \/ ForceStart(f) \/ FlowEnd(f)
    BY <1>2, RefreshHolds, BesideOutside, OutsideKeeps
  <1> QED BY <1>1, <1>2, MainOutside, OutsideKeeps, RenewHolds, WorldOutside DEF Next

(* The initial states. *)
LEMMA InitHolds == Init => TokenInv
  BY DEF Init, TokenInv, HasLock, NoWastedRequest, Asking, Held

(* One holder, one request. *)
LEMMA HeldAlone == TokenInv => OneRequest
  BY DEF TokenInv, HasLock, Held, OneRequest, Asking

(* As long as every flow goes through TokenRequestLock, one request for a
   token of the account is under way at a time, over the websocket process
   and the scheduler process. *)
THEOREM OneRequestAtATime == Spec => []OneRequest
  BY InitTypes, NextTypes, InitHolds, NextHolds, HeldAlone, PTL DEF Spec

(* As long as every flow goes through TokenRequestLock, a refresh asks the
   platform on its first round only while the row has no token in force, and
   the renewal task only while the row is due: nobody asks for a token that
   the flow before it has just got. *)
THEOREM NoRequestIsWasted == Spec => []NoWastedRequest
  <1>1. TokenInv => NoWastedRequest BY DEF TokenInv
  <1> QED BY <1>1, InitTypes, NextTypes, InitHolds, NextHolds, PTL DEF Spec

-----------------------------------------------------------------------------
(* What a step of the main loop leaves alone, how it gives a token up, and  *)
(* where it goes: to none of the awaits under the lock.                     *)
Apart == UNCHANGED <<loc, inUse, startup, weather, issued, renewed, bare>>
Plain == banned' = banned /\ cur' \in {cur, NoToken} /\ expired' \in {expired, FALSE}
Rejects == expired /\ cur' = NoToken /\ expired' = FALSE
           /\ banned' = (banned \cup {cur}) \ {NoToken}
Turns == \/ \E w \in {"head", "wait", "connect", "drop", "relogin", "init"} :
              Go(Main, w)
         \/ Finishes
Falls == Apart /\ ws' = NoSocket /\ cache' = cache /\ (Plain \/ Rejects) /\ Turns

(* How the socket changes with it.                                          *)
Registers == /\ pc[Main] = "init" /\ Go(Main, "reg") /\ ws.st = "open"
             /\ ws' = [ws EXCEPT !.token = cur]
             /\ cur # NoToken /\ UNCHANGED <<cur, banned, expired, cache>>
Rises == /\ pc[Main] = "reg" /\ ws.st = "open" /\ ws' = [ws EXCEPT !.st = "up"]
         /\ pc' = [f \in Flows |-> IF f = Main THEN "listen"
                                   ELSE IF pc[f] = "off" THEN "idle" ELSE pc[f]]
         /\ UNCHANGED <<cur, banned, expired, cache>>
Opens == ws' = [NoSocket EXCEPT !.st = "open"] /\ Plain /\ Turns /\ cache' = cache
Keeps == /\ ws' = ws /\ pc[Main] \notin {"reg", "listen"} /\ Plain /\ Turns
         /\ cache' \in {cache, NoRow}
MainMoves == Falls \/ (Apart /\ (Registers \/ Rises \/ Opens \/ Keeps))

LEMMA NetFalls ==
  ASSUME NEW was, NEW opened, NEW brief, NEW short, NetError(was, opened, brief, short)
  PROVE  Falls
  <1>1. CASE expired /\ brief /\ (was \/ opened)
    BY <1>1 DEF NetError, RejectStartup, Falls, Apart, Rejects, Turns, world
  <1>2. CASE ~(expired /\ brief /\ (was \/ opened))
    <2>1. /\ ws' = NoSocket /\ UNCHANGED <<cache, memory, loc, world, banned>>
          /\ Finishes \/ Go(Main, "head")
      BY <1>2, GiveUpEnds DEF NetError
    <2> QED BY <2>1 DEF Falls, Apart, Plain, Turns, memory, world
  <1> QED BY <1>1, <1>2

LEMMA ConnFalls ==
  ASSUME NEW auth \in BOOLEAN, ConnError(auth)
  PROVE  Falls
  <1>1. ws' = NoSocket /\ UNCHANGED <<cache, inUse, startup, loc, world, banned>>
    BY DEF ConnError
  <1>2. cur' \in {cur, NoToken} /\ expired' \in {expired, FALSE} /\ Turns
    BY DEF ConnError, Judge, Turns
  <1> QED BY <1>1, <1>2 DEF Falls, Apart, Plain, world

LEMMA EndsFalls ==
  ASSUME NEW brief, Ends(brief)
  PROVE  Falls
  <1>1. CASE expired /\ brief
    BY <1>1 DEF Ends, RejectStartup, Falls, Apart, Rejects, Turns, world
  <1>2. CASE ~(expired /\ brief)
    BY <1>2 DEF Ends, Falls, Apart, Plain, Turns, memory, world
  <1> QED BY <1>1, <1>2

LEMMA MainStepMoves ==
  ASSUME TypeInv, MainStep
  PROVE  MainMoves
  <1>1. CASE HeadStops \/ Head
    <2>1. /\ UNCHANGED <<cache, memory, ws, loc, world, banned>> /\ Turns
          /\ pc[Main] \notin {"reg", "listen"}
      BY <1>1 DEF HeadStops, Head, Turns, Finishes
    <2> QED BY <2>1 DEF MainMoves, Apart, Keeps, Plain, memory, world
  <1>2. CASE HeadGoesOn
    <2>1. /\ UNCHANGED <<cache, memory, ws, loc, world, banned>> /\ Turns
          /\ pc[Main] \notin {"reg", "listen"}
      BY <1>2, GiveUpEnds DEF HeadGoesOn, Turns
    <2> QED BY <2>1 DEF MainMoves, Apart, Keeps, Plain, memory, world
  <1>3. CASE ClearToken
    <2>1. /\ UNCHANGED <<inUse, startup, expired, ws, loc, world, banned>>
          /\ pc[Main] \notin {"reg", "listen"} /\ cache' \in {cache, NoRow}
          /\ cur' \in {cur, NoToken} /\ Turns
      BY <1>3 DEF ClearToken, DropCache, Judge, Turns
    <2> QED BY <2>1 DEF MainMoves, Apart, Keeps, Plain, world
  <1>4. CASE Relogin
    <2>1. /\ UNCHANGED <<inUse, startup, expired, ws, loc, world, banned>>
          /\ pc[Main] \notin {"reg", "listen"} /\ cache' \in {cache, NoRow}
          /\ cur' \in {cur, NoToken} /\ Turns
      BY <1>4 DEF Relogin, CoolDown, Turns
    <2> QED BY <2>1 DEF MainMoves, Apart, Keeps, Plain, world
  <1>5. CASE Connect
    <2>1. ASSUME ws' = [NoSocket EXCEPT !.st = "open"], Go(Main, "init"),
                 UNCHANGED <<cache, memory, loc, world, banned>>
          PROVE  MainMoves
      BY <2>1 DEF MainMoves, Apart, Opens, Plain, Turns, memory, world
    <2> QED BY <1>5, <2>1, NetFalls, ConnFalls DEF Connect, MainMoves
  <1>6. CASE Register
    <2>1. ASSUME pc[Main] = "init", Go(Main, "wait"),
                 UNCHANGED <<cache, memory, ws, loc, world, banned>>
          PROVE  MainMoves
      BY <2>1 DEF MainMoves, Apart, Keeps, Plain, Turns, memory, world
    <2>2. ASSUME pc[Main] = "init", Go(Main, "reg"), cur # NoToken, ws.st = "open",
                 ws' = [ws EXCEPT !.token = cur],
                 UNCHANGED <<cache, memory, loc, world, banned>>
          PROVE  MainMoves
      BY <2>2 DEF MainMoves, Apart, Registers, memory, world
    <2> QED BY <1>6, <2>1, <2>2, NetFalls DEF Register, MainMoves
  <1>7. CASE InitGoesOn
    <2>1. ASSUME pc[Main] = "resume", Go(Main, "init"),
                 UNCHANGED <<cache, memory, ws, loc, world, banned>>
          PROVE  MainMoves
      BY <2>1 DEF MainMoves, Apart, Keeps, Plain, Turns, memory, world
    <2> QED BY <1>7, <2>1, ConnFalls DEF InitGoesOn, MainMoves
  <1>8. CASE Ready
    <2>1. ASSUME pc[Main] = "reg", ws.st = "open", ws' = [ws EXCEPT !.st = "up"],
                 pc' = [f \in Flows |-> IF f = Main THEN "listen"
                          ELSE IF pc[f] = "off" THEN "idle" ELSE pc[f]],
                 UNCHANGED <<cache, memory, loc, world, banned>>
          PROVE  MainMoves
      BY <2>1 DEF MainMoves, Apart, Rises, memory, world
    <2>2. \/ NetError(FALSE, TRUE, TRUE, TRUE) \/ NetError(FALSE, TRUE, FALSE, TRUE)
          \/ ConnError(TRUE)
          \/ /\ pc[Main] = "reg" /\ ws.st = "open" /\ ws' = [ws EXCEPT !.st = "up"]
             /\ pc' = [f \in Flows |-> IF f = Main THEN "listen"
                          ELSE IF pc[f] = "off" THEN "idle" ELSE pc[f]]
             /\ UNCHANGED <<cache, memory, loc, world, banned>>
      BY <1>8 DEF Ready
    <2> QED BY <2>1, <2>2, NetFalls, ConnFalls DEF MainMoves
  <1>9. CASE Disconnect
    <2>1. \/ \E brief \in BOOLEAN : Ends(brief)
          \/ \E brief, short \in BOOLEAN : NetError(TRUE, TRUE, brief, short)
          \/ \E auth \in BOOLEAN : ConnError(auth)
      BY <1>9 DEF Disconnect
    <2> QED BY <2>1, NetFalls, ConnFalls, EndsFalls DEF MainMoves
  <1> QED BY <1>1, <1>2, <1>3, <1>4, <1>5, <1>6, <1>7, <1>8, <1>9 DEF MainStep

(* No flow enters an await under the lock by it, or leaves one but when the *)
(* main loop ends.                                                          *)
LEMMA MainMovesHeld ==
  ASSUME TypeInv, MainStep, MainMoves
  PROVE  /\ \A f \in Flows : pc'[f] \in Held => pc'[f] = pc[f]
         /\ \A f \in Flows : pc[f] \in Held => pc'[f] = pc[f] \/ pc'[Main] \in Ended
         /\ loc' = loc
  <1>0. pc[Main] \notin Held
    BY DEF MainStep, HeadStops, Head, HeadGoesOn, ClearToken, Relogin, Connect, Register,
           InitGoesOn, Ready, Disconnect, Held
  <1>1. Main \in Flows /\ pc \in [Flows -> Awaits]
    BY DEF TypeInv, TypeOK, Flows, Instance
  <1>2. \/ \E w \in Awaits \ Held : Go(Main, w)
        \/ Finishes
        \/ pc' = [f \in Flows |-> IF f = Main THEN "listen"
                                  ELSE IF pc[f] = "off" THEN "idle" ELSE pc[f]]
    <2>1. {"head", "wait", "connect", "drop", "relogin", "init", "reg"} \subseteq Awaits \ Held
      BY DEF Awaits, Held
    <2> QED BY <2>1 DEF MainMoves, Falls, Registers, Rises, Opens, Keeps, Turns
  <1>3. ASSUME NEW f \in Flows
        PROVE  /\ pc'[f] \in Held => pc'[f] = pc[f]
               /\ pc[f] \in Held => pc'[f] = pc[f] \/ pc'[Main] \in Ended
    BY <1>0, <1>1, <1>2 DEF Go, Finishes, Finish, Ended, Held
  <1>4. loc' = loc
    BY DEF MainMoves, Falls, Apart
  <1> QED BY <1>3, <1>4

-----------------------------------------------------------------------------
(* The token a new instance tries.                                          *)
(* A flow about to use an expired row under the leave of a new instance.    *)
Tries(f) == pc[f] = "use" /\ loc[f].how = "startup"

(* The leave is spent by the look that finds the row: one flow tries it, no *)
(* other has tried it before, and none has been given up.                   *)
StartupInv ==
  /\ cur \notin banned /\ ws.token \notin banned
  /\ startup => ~expired /\ banned = {}
  /\ \A f \in Instance : Tries(f) =>
       ~startup /\ ~expired /\ banned = {} /\ \A g \in Instance : Tries(g) => f = g

(* A step that tries nothing and gives nothing up.                          *)
LEMMA StartupStays ==
  ASSUME TypeInv, StartupInv, banned' \subseteq banned,
         cur' = NoToken \/ cur' \notin banned',
         ws'.token \in {ws.token, NoToken, cur},
         startup' => startup, expired' => expired,
         \A f \in Instance : Tries(f)' => Tries(f)
  PROVE  StartupInv'
  <1>1. NoToken \notin banned
    BY SessionAssumption DEF TypeInv, TypeOK, Token, NoToken
  <1>2. cur' \notin banned' /\ ws'.token \notin banned'
    BY <1>1 DEF StartupInv
  <1>3. startup' => ~expired' /\ banned' = {}
    BY DEF StartupInv
  <1>4. ASSUME NEW f \in Instance, Tries(f)'
        PROVE  /\ ~startup' /\ ~expired' /\ banned' = {}
               /\ \A g \in Instance : Tries(g)' => f = g
    BY <1>4 DEF StartupInv
  <1> QED BY <1>2, <1>3, <1>4 DEF StartupInv

(* A flow that moves on elsewhere than to "use".                            *)
LEMMA NoMoreTries ==
  ASSUME TypeInv, NEW f \in Flows, NEW w, w # "use", Go(f, w),
         \A g \in Flows \ {f} : loc'[g] = loc[g]
  PROVE  \A g \in Instance : Tries(g)' => Tries(g)
  BY DEF Tries, Go, TypeInv, TypeOK, Flows

LEMMA MainStartup ==
  ASSUME TypeInv, StartupInv, MainStep
  PROVE  StartupInv'
  <1>1. MainMoves /\ \A g \in Instance : Tries(g)' => Tries(g)
    BY MainStepMoves, MainMovesHeld DEF Tries, Held, Flows
  <1>2. startup' = startup
    BY <1>1 DEF MainMoves, Falls, Apart
  <1>3. ws'.token \in {ws.token, NoToken, cur}
    BY <1>1 DEF MainMoves, Falls, Registers, Rises, Opens, Keeps, NoSocket, TypeInv, TypeOK
  <1>4. CASE banned' = banned /\ cur' \in {cur, NoToken} /\ expired' \in {expired, FALSE}
    <2>1. (expired' => expired) /\ (startup' => startup)
      <3>1. expired' = expired \/ expired' = FALSE
        BY <1>4
      <3>2. CASE expired' = expired
        BY <1>2, <3>2
      <3>3. CASE expired' = FALSE
        BY <1>2, <3>3
      <3> QED BY <3>1, <3>2, <3>3
    <2>2. cur' = NoToken \/ cur' \notin banned'
      BY <1>4 DEF StartupInv
    <2> QED BY <1>1, <1>3, <1>4, <2>1, <2>2, StartupStays
  <1>5. CASE Rejects /\ ws' = NoSocket
    <2>1. ~startup /\ \A g \in Instance : ~Tries(g)
      BY <1>5 DEF Rejects, StartupInv
    <2>2. cur' \notin banned' /\ ws'.token \notin banned'
      BY <1>5 DEF Rejects, NoSocket
    <2> QED BY <1>1, <1>2, <2>1, <2>2 DEF StartupInv
  <1> QED BY <1>1, <1>4, <1>5
          DEF MainMoves, Falls, Plain, Registers, Rises, Opens, Keeps

(* The look into the row, and the use of what it found.                     *)
LEMMA HitStartup ==
  ASSUME TypeInv, StartupInv, NEW f \in Instance, NEW slider \in Sliders, CacheHit(f, slider)
  PROVE  StartupInv'
  <1> DEFINE how == IF Current(cache) THEN "current"
                    ELSE IF Promoted(cache) THEN "promoted"
                    ELSE IF slider = "off" THEN "startup" ELSE "stale"
  <1>1. f \in Flows /\ cache.token \in Token \cup {NoToken} /\ how \in Hows
    BY DEF Flows, TypeInv, TypeOK, Hows
  <1>2. Result(f, cache.token, how) /\ Go(f, "use")
    BY DEF CacheHit
  <1>3. UNCHANGED <<cur, ws, expired, banned>> /\ startup' = StartupLeft(f, slider)
    BY DEF CacheHit
  <1>4. how = "startup" => slider = "off" /\ Initial(f)
    BY DEF CacheHit, Usable, AnyAge
  <1> HIDE DEF how
  <1>5. loc'[f].how = how /\ \A g \in Flows \ {f} : loc'[g] = loc[g]
    BY <1>1, <1>2, ResultTypes
  <1>6. \A g \in Flows \ {f} : pc'[g] = pc[g]
    BY <1>2 DEF Go, TypeInv, TypeOK
  <1>7. \A g \in Instance \ {f} : Tries(g)' => Tries(g)
    BY <1>5, <1>6 DEF Tries, Flows
  <1>8. startup' => startup
    BY <1>3 DEF StartupLeft
  <1>9. CASE how # "startup"
    <2>1. ~Tries(f)'
      BY <1>5, <1>9 DEF Tries
    <2> QED BY <1>3, <1>7, <1>8, <2>1, StartupStays DEF StartupInv
  <1>10. CASE how = "startup"
    <2>1. startup /\ ~startup'
      BY <1>3, <1>4, <1>10 DEF StartupLeft, Initial
    <2>2. \A g \in Instance : ~Tries(g)
      BY <2>1 DEF StartupInv
    <2>3. \A g \in Instance : Tries(g)' => g = f
      BY <1>7, <2>2
    <2> QED BY <1>3, <2>1, <2>3 DEF StartupInv
  <1> QED BY <1>9, <1>10

LEMMA UseStartup ==
  ASSUME TypeInv, StartupInv, NEW f \in Instance, Use(f)
  PROVE  StartupInv'
  <1>1. f \in Flows /\ pc[f] = "use" /\ loc' = loc /\ ws' = ws /\ startup' = startup
    BY DEF Use, Flows
  <1>2. \A g \in Flows : pc'[g] = "use" => pc[g] = "use" /\ g # f
    BY <1>1 DEF Use, Go, TypeInv, TypeOK
  <1>3. \A g \in Instance : Tries(g)' => Tries(g) /\ g # f
    BY <1>1, <1>2 DEF Tries, Flows
  <1>4. CASE loc[f].how = "startup"
    <2>1. Tries(f) /\ banned' = banned
      BY <1>1, <1>4 DEF Tries, Use
    <2>2. banned = {} /\ ~startup /\ \A g \in Instance : ~Tries(g)'
      BY <1>3, <2>1 DEF StartupInv
    <2> QED BY <1>1, <2>1, <2>2 DEF StartupInv
  <1>5. CASE loc[f].how # "startup"
    <2>1. cur' \notin banned' /\ banned' \subseteq banned /\ expired' = FALSE
      BY <1>5 DEF Use
    <2> QED BY <1>1, <1>3, <2>1, StartupStays
  <1> QED BY <1>4, <1>5

LEMMA GetStartup ==
  ASSUME TypeInv, StartupInv, NEW f \in Instance, GetToken(f)
  PROVE  StartupInv'
  <1>1. f \in Flows
    BY DEF Flows
  <1>2. PICK t \in Token : Issue(t) /\ cur' = t /\ Result(f, t, Changed(t))
    BY DEF GetToken
  <1>3. \A g \in Flows \ {f} : loc'[g] = loc[g]
    BY <1>1, <1>2, ResultTypes DEF Changed, Hows
  <1>4. \A g \in Instance : Tries(g)' => Tries(g)
    BY <1>1, <1>3, NoMoreTries DEF GetToken
  <1>5. banned' \subseteq banned /\ cur' \notin banned'
    BY <1>2 DEF Issue
  <1>6. ws' = ws /\ startup' = startup /\ expired' = FALSE
    BY DEF GetToken
  <1> QED BY <1>4, <1>5, <1>6, StartupStays

(* A step of a flow that keeps the startup token out of it.                 *)
LEMMA AsideStartup ==
  ASSUME TypeInv, StartupInv, NEW f \in Flows, NEW w, w # "use", Go(f, w),
         \A g \in Flows \ {f} : loc'[g] = loc[g],
         banned' \subseteq banned, cur' \in {cur, NoToken}, ws'.token = ws.token,
         startup' => startup, expired' => expired
  PROVE  StartupInv'
  BY NoMoreTries, StartupStays DEF StartupInv

LEMMA ShutToken == ASSUME TypeInv PROVE Shut(ws).token = ws.token
  BY DEF Shut, TypeInv, TypeOK

LEMMA RefreshStartup ==
  ASSUME TypeInv, StartupInv, NEW f \in Instance, Refresh(f)
  PROVE  StartupInv'
  <1>0. f \in Flows
    BY DEF Flows
  <1> DEFINE Others == \A g \in Flows \ {f} : loc'[g] = loc[g]
             Aside  == /\ Others /\ banned' = banned /\ cur' \in {cur, NoToken}
                       /\ ws'.token = ws.token /\ startup' \in {startup, FALSE}
                       /\ expired' = expired
  <1>1. ASSUME NEW w, w # "use", Go(f, w), Aside
        PROVE  StartupInv'
    <2>1. (expired' => expired) /\ (startup' => startup)
      <3>1. startup' = startup \/ startup' = FALSE
        BY <1>1
      <3>2. CASE startup' = startup
        BY <1>1, <3>2
      <3>3. CASE startup' = FALSE
        BY <1>1, <3>3
      <3> QED BY <3>1, <3>2, <3>3
    <2> QED BY <1>0, <1>1, <2>1, AsideStartup
  <1>2. ASSUME NEW t, NEW how, Result(f, t, how)
        PROVE  Others
    BY <1>2 DEF Result, TypeInv, TypeOK
  <1>3. ASSUME NEW t, NEW c, Give(f, t, c)
        PROVE  Go(f, "back") /\ Others
    BY <1>2, <1>3 DEF Give
  <1>4. ASSUME NEW field, Again(f, field)
        PROVE  Go(f, "inside") /\ Others
    BY <1>4 DEF Again, TypeInv, TypeOK
  <1>5. CASE Lock(f) \/ LockTimeout(f) \/ Unlock(f)
    <2>1. Others
      BY <1>5 DEF Lock, LockTimeout, Unlock, TypeInv, TypeOK
    <2>2. /\ UNCHANGED <<banned, ws, startup, expired>> /\ cur' \in {cur, NoToken}
      BY <1>5 DEF Lock, LockTimeout, Unlock, memory
    <2>3. \E w \in {"inside", "idle", "back", "got", "resume"} : Go(f, w)
      BY <1>5 DEF Lock, LockTimeout, Unlock
    <2> QED BY <1>1, <2>1, <2>2, <2>3
  <1>6. CASE RefreshDisabled(f) \/ SliderUnknown(f) \/ ApiFails(f)
    <2>1. /\ UNCHANGED <<banned, ws, startup, expired>> /\ cur' \in {cur, NoToken}
      BY <1>6 DEF RefreshDisabled, SliderUnknown, ApiFails
    <2>2. Go(f, "back") /\ Others
      BY <1>3, <1>6 DEF RefreshDisabled, SliderUnknown, ApiFails
    <2> QED BY <1>1, <2>1, <2>2
  <1>7. CASE Save(f) \/ CloseSocket(f)
    <2>1. /\ UNCHANGED <<banned, startup, expired, cur>> /\ ws'.token = ws.token /\ loc' = loc
      BY <1>7, ShutToken DEF Save, CloseSocket, memory
    <2>2. \E w \in {"close", "back"} : Go(f, w)
      BY <1>7 DEF Save, CloseSocket
    <2> QED BY <1>1, <2>1, <2>2
  <1>8. CASE ApiTokenExpired(f) \/ ApiCaptcha(f) \/ ApiSessionOver(f)
    <2>1. /\ UNCHANGED <<banned, ws, startup, expired>> /\ cur' \in {cur, NoToken}
      BY <1>8 DEF ApiTokenExpired, ApiCaptcha, ApiSessionOver, memory
    <2>2. \E w \in {"inside", "back"} : Go(f, w) /\ Others
      BY <1>3, <1>4, <1>8 DEF ApiTokenExpired, ApiCaptcha, ApiSessionOver
    <2> QED BY <1>1, <2>1, <2>2
  <1>9. ASSUME NEW slider \in Sliders, CacheUnread(f, slider)
        PROVE  StartupInv'
    <2>1. /\ UNCHANGED <<banned, ws, startup, expired, cur>>
      BY <1>9 DEF CacheUnread
    <2>2. Go(f, "back") /\ Others
      BY <1>3, <1>9 DEF CacheUnread
    <2> QED BY <1>1, <2>1, <2>2
  <1>10. ASSUME NEW slider \in Sliders, CacheMiss(f, slider)
         PROVE  StartupInv'
    <2>1. /\ UNCHANGED <<banned, ws, expired, cur>> /\ startup' \in {startup, FALSE}
      BY <1>10 DEF CacheMiss, StartupLeft, TypeInv, TypeOK
    <2>2. \E w \in {"api", "back"} : Go(f, w) /\ Others
      BY <1>2, <1>3, <1>10 DEF CacheMiss
    <2> QED BY <1>1, <2>1, <2>2
  <1> QED BY <1>5, <1>6, <1>7, <1>8, <1>9, <1>10, HitStartup, UseStartup, GetStartup
          DEF Refresh

LEMMA BesideStartup ==
  ASSUME TypeInv, StartupInv, NEW f \in Instance, LoopStart(f) \/ ForceStart(f) \/ FlowEnd(f)
  PROVE  StartupInv'
  <1>1. f \in Flows /\ \A g \in Flows \ {f} : loc'[g] = loc[g]
    BY DEF LoopStart, ForceStart, FlowEnd, Flows, TypeInv, TypeOK
  <1>2. \E w \in {"wait", "idle"} : Go(f, w)
    BY DEF LoopStart, ForceStart, FlowEnd
  <1>3. /\ banned' = banned /\ cur' \in {cur, NoToken} /\ startup' = startup
    BY DEF LoopStart, ForceStart, FlowEnd, memory
  <1>4. expired' => expired
    BY DEF LoopStart, ForceStart, FlowEnd, memory
  <1>5. ws'.token = ws.token
    BY ShutToken DEF LoopStart, ForceStart, FlowEnd
  <1> QED BY <1>1, <1>2, <1>3, <1>4, <1>5, AsideStartup

LEMMA RenewStartup ==
  ASSUME TypeInv, StartupInv, RenewStart \/ RenewStep
  PROVE  StartupInv'
  <1>1. Renewal \in Flows
    BY DEF Flows
  <1>2. \A g \in Flows \ {Renewal} : loc'[g] = loc[g]
    BY <1>1, Zenon, IdleStep DEF RenewStart, RenewStep, Lock, LockTimeout, RenewCheck,
       RenewAnswer, RenewWrite, Result, TypeInv, TypeOK
  <1>3. \E w \in {"wait", "idle", "inside", "api", "save"} : Go(Renewal, w)
    BY SessionAssumption DEF RenewStart, RenewStep, Lock, LockTimeout, RenewCheck, RenewAnswer, RenewWrite,
       RenewDone
  <1>4. banned' \subseteq banned
    BY DEF RenewStart, RenewStep, Lock, LockTimeout, RenewCheck, RenewAnswer, RenewWrite, Issue
  <1>5. UNCHANGED <<cur, ws, startup, expired>>
    BY DEF RenewStart, RenewStep, Lock, LockTimeout, RenewCheck, RenewAnswer, RenewWrite,
           memory
  <1> QED BY <1>1, <1>2, <1>3, <1>4, <1>5, AsideStartup

LEMMA WorldStartup ==
  ASSUME TypeInv, StartupInv, World
  PROVE  StartupInv'
  <1>1. CASE Restart
    <2>1. cur' = NoToken /\ ws' = NoSocket /\ ~expired' /\ banned' = {}
      BY <1>1 DEF Restart
    <2>2. \A f \in Instance : pc'[f] # "use"
      BY <1>1, SessionAssumption DEF Restart, Instance, Flows
    <2> QED BY <2>1, <2>2 DEF StartupInv, Tries
  <1>2. CASE Age \/ CalmDown \/ LockExpire \/ \E t \in Token : Kill(t)
    <2>1. UNCHANGED <<cur, ws, startup, expired, banned, pc, loc>>
      BY <1>2 DEF Age, CalmDown, LockExpire, Kill, memory
    <2> QED BY <2>1 DEF StartupInv, Tries
  <1> QED BY <1>1, <1>2 DEF World

LEMMA StartupStep == TypeInv /\ StartupInv /\ [Next]_vars => StartupInv'
  <1> SUFFICES ASSUME TypeInv, StartupInv, [Next]_vars PROVE StartupInv'
    OBVIOUS
  <1>1. CASE UNCHANGED vars
    BY <1>1 DEF vars, memory, StartupInv, Tries
  <1>2. CASE \E f \in Instance : Refresh(f) \/ LoopStart(f) \/ ForceStart(f) \/ FlowEnd(f)
    BY <1>2, RefreshStartup, BesideStartup
  <1> QED BY <1>1, <1>2, MainStartup, RenewStartup, WorldStartup DEF Next

LEMMA StartupInit == Init => StartupInv
  BY SessionAssumption
     DEF Init, StartupInv, Tries, NoSocket, NoToken, Idle, Instance, Flows

(* The expired token a new instance may try is tried once: given up after a
   brief connection, it is registered again only if the platform issues it
   anew, or a later look takes it for another reason. *)
THEOREM StartupTokenTriedOnce == Spec => []StartupTokenOnce
  <1>1. StartupInv => StartupTokenOnce BY DEF StartupInv, StartupTokenOnce
  <1> QED BY <1>1, InitTypes, NextTypes, StartupInit, StartupStep, PTL DEF Spec


-----------------------------------------------------------------------------
(* The tokens at hand.                                                      *)
(* Every token anybody holds was issued.                                    *)
IssuedInv ==
  /\ cur <= issued /\ inUse <= issued /\ ws.token <= issued /\ cache.token <= issued
  /\ \A f \in Flows : loc[f].tok <= issued

Known == {NoToken, cur, inUse, ws.token, cache.token} \cup {loc[f].tok : f \in Flows}

LEMMA TokenNats ==
  ASSUME TypeInv
  PROVE  /\ {NoToken, cur, inUse, ws.token, cache.token, issued} \subseteq Nat
         /\ \A f \in Flows : loc[f].tok \in Nat
  BY SessionAssumption DEF TypeInv, TypeOK, Token, NoToken

LEMMA IssuedStays ==
  ASSUME TypeInv, IssuedInv, issued' \in Nat, issued <= issued',
         {cur', inUse', ws'.token, cache'.token} \subseteq Known \cup {issued'},
         \A f \in Flows : loc'[f].tok \in Known \cup {issued'}
  PROVE  IssuedInv'
  <1>1. \A t \in Known \cup {issued'} : t <= issued'
    BY TokenNats DEF IssuedInv, Known, NoToken
  <1> QED BY <1>1 DEF IssuedInv

LEMMA MainIssued ==
  ASSUME TypeInv, IssuedInv, MainStep
  PROVE  IssuedInv'
  <1>1. MainMoves
    BY MainStepMoves
  <1>2. loc' = loc /\ inUse' = inUse /\ issued' = issued
    BY <1>1 DEF MainMoves, Falls, Apart
  <1>3. cur' \in {cur, NoToken}
    BY <1>1 DEF MainMoves, Falls, Plain, Rejects, Registers, Rises, Opens, Keeps
  <1>4. cache'.token \in {cache.token, NoToken}
    BY <1>1 DEF MainMoves, Falls, Registers, Rises, Opens, Keeps, NoRow
  <1>5. ws'.token \in {ws.token, NoToken, cur}
    BY <1>1 DEF MainMoves, Falls, Registers, Rises, Opens, Keeps, NoSocket, TypeInv, TypeOK
  <1> QED BY <1>2, <1>3, <1>4, <1>5, TokenNats, IssuedStays DEF Known

(* The locals after a result, and after a flow's end.                       *)
LEMMA ResultIssued ==
  ASSUME TypeInv, NEW f \in Flows, NEW t, NEW how, Result(f, t, how)
  PROVE  \A g \in Flows : loc'[g].tok \in {loc[g].tok, t}
  BY DEF Result, TypeInv, TypeOK

LEMMA GiveIssued ==
  ASSUME TypeInv, NEW f \in Flows, NEW t, NEW c, Give(f, t, c)
  PROVE  \A g \in Flows : loc'[g].tok \in {loc[g].tok, t}
  BY ResultIssued DEF Give

LEMMA AgainIssued ==
  ASSUME TypeInv, NEW f \in Flows, NEW field, Again(f, field)
  PROVE  \A g \in Flows : loc'[g].tok \in {loc[g].tok, NoToken}
  BY DEF Again, TypeInv, TypeOK

LEMMA IdleIssued ==
  ASSUME TypeInv, NEW f \in Flows, loc' = loc \/ loc' = [loc EXCEPT ![f] = Idle]
  PROVE  \A g \in Flows : loc'[g].tok \in {loc[g].tok, NoToken}
  BY DEF Idle, TypeInv, TypeOK

LEMMA DropIssued ==
  ASSUME DropCache
  PROVE  cache'.token \in {cache.token, NoToken}
  BY DEF DropCache, NoRow

LEMMA RefreshIssued ==
  ASSUME TypeInv, IssuedInv, NEW f \in Instance, Refresh(f)
  PROVE  IssuedInv'
  <1>0. f \in Flows
    BY DEF Flows
  <1> DEFINE Seen == Known
  <1>1. ASSUME issued' = issued,
               {cur', inUse', ws'.token, cache'.token} \subseteq Known,
               \E t \in Known : \A g \in Flows : loc'[g].tok \in {loc[g].tok, t}
        PROVE  IssuedInv'
    <2>1. \A g \in Flows : loc'[g].tok \in Known
      BY <1>1 DEF Known
    <2> QED BY <1>1, <2>1, TokenNats, IssuedStays
  <1>2. /\ {NoToken, cur, inUse, ws.token, cache.token} \subseteq Known
        /\ \A g \in Flows : loc[g].tok \in Known
    BY DEF Known
  <1>3. CASE Lock(f) \/ LockTimeout(f) \/ Unlock(f)
    <2>1. \A g \in Flows : loc'[g].tok \in {loc[g].tok, NoToken}
      BY <1>0, <1>3, IdleIssued DEF Lock, LockTimeout, Unlock
    <2>2. UNCHANGED <<inUse, ws, cache, issued>> /\ cur' \in {cur, NoToken}
      BY <1>3 DEF Lock, LockTimeout, Unlock, memory, world
    <2> QED BY <1>1, <1>2, <2>1, <2>2
  <1>4. CASE RefreshDisabled(f) \/ SliderUnknown(f) \/ ApiFails(f)
    <2>1. \A g \in Flows : loc'[g].tok \in {loc[g].tok, NoToken}
      BY <1>0, <1>4, GiveIssued DEF RefreshDisabled, SliderUnknown, ApiFails
    <2>2. /\ UNCHANGED <<inUse, ws, issued>> /\ cur' \in {cur, NoToken}
          /\ cache'.token \in {cache.token, NoToken}
      BY <1>4, DropIssued DEF RefreshDisabled, SliderUnknown, ApiFails, world
    <2> QED BY <1>1, <1>2, <2>1, <2>2
  <1>5. CASE ApiTokenExpired(f) \/ ApiCaptcha(f) \/ ApiSessionOver(f)
    <2>1. \E t \in {NoToken, cur} : \A g \in Flows : loc'[g].tok \in {loc[g].tok, t}
      BY <1>0, <1>5, AgainIssued, GiveIssued
         DEF ApiTokenExpired, ApiCaptcha, ApiSessionOver
    <2>2. /\ UNCHANGED <<inUse, ws, issued>> /\ cur' \in {cur, NoToken}
          /\ cache'.token \in {cache.token, NoToken}
      BY <1>5, DropIssued DEF ApiTokenExpired, ApiCaptcha, ApiSessionOver, memory, world
    <2> QED BY <1>1, <1>2, <2>1, <2>2
  <1>6. CASE Use(f) \/ Save(f) \/ CloseSocket(f)
    <2>1. loc' = loc /\ issued' = issued
      BY <1>6 DEF Use, Save, CloseSocket, world
    <2>2. {cur', inUse', ws'.token, cache'.token} \subseteq Known
      BY <1>0, <1>2, <1>6, ShutToken DEF Use, Save, CloseSocket, memory, Fresh
    <2> QED BY <1>1, <1>2, <2>1, <2>2
  <1>7. CASE GetToken(f)
    <2>1. PICK t \in Token : Issue(t) /\ cur' = t /\ Result(f, t, Changed(t))
      BY <1>7 DEF GetToken
    <2>2. UNCHANGED <<inUse, ws, cache>> /\ issued' = t /\ t \in Nat /\ issued <= t
      BY <1>7, <2>1, TokenNats, SessionAssumption DEF GetToken, Issue, Token
    <2>3. \A g \in Flows : loc'[g].tok \in {loc[g].tok, t}
      BY <1>0, <2>1, ResultIssued
    <2> QED BY <1>2, <2>1, <2>2, <2>3, IssuedStays
  <1>8. ASSUME NEW slider \in Sliders,
               CacheHit(f, slider) \/ CacheUnread(f, slider) \/ CacheMiss(f, slider)
        PROVE  IssuedInv'
    <2>1. /\ UNCHANGED <<inUse, ws, issued, cur>>
      BY <1>8 DEF CacheHit, CacheUnread, CacheMiss, world
    <2>2. cache'.token = cache.token
      BY <1>8 DEF CacheHit, CacheUnread, CacheMiss, TypeInv, TypeOK
    <2>3. \E t \in {NoToken, cur, cache.token} :
             \A g \in Flows : loc'[g].tok \in {loc[g].tok, t}
      BY <1>0, <1>8, ResultIssued, GiveIssued DEF CacheHit, CacheUnread, CacheMiss
    <2> QED BY <1>1, <1>2, <2>1, <2>2, <2>3
  <1> QED BY <1>3, <1>4, <1>5, <1>6, <1>7, <1>8 DEF Refresh

LEMMA BesideIssued ==
  ASSUME TypeInv, IssuedInv, NEW f \in Instance, LoopStart(f) \/ ForceStart(f) \/ FlowEnd(f)
  PROVE  IssuedInv'
  <1>1. f \in Flows /\ (loc' = loc \/ loc' = [loc EXCEPT ![f] = Idle])
    BY DEF LoopStart, ForceStart, FlowEnd, Flows
  <1>2. \A g \in Flows : loc'[g].tok \in {loc[g].tok, NoToken}
    BY <1>1, IdleIssued
  <1>3. /\ UNCHANGED <<inUse, issued>> /\ cur' \in {cur, NoToken}
        /\ cache'.token \in {cache.token, NoToken} /\ ws'.token = ws.token
    BY DropIssued, ShutToken DEF LoopStart, ForceStart, FlowEnd, memory, world
  <1> QED BY <1>2, <1>3, TokenNats, IssuedStays DEF Known

LEMMA RenewIssued ==
  ASSUME TypeInv, IssuedInv, RenewStart \/ RenewStep
  PROVE  IssuedInv'
  <1>0. Renewal \in Flows
    BY DEF Flows
  <1>1. CASE RenewStart \/ Lock(Renewal) \/ LockTimeout(Renewal) \/ RenewCheck
    <2>1. loc' = loc \/ loc' = [loc EXCEPT ![Renewal] = Idle]
      BY <1>1 DEF RenewStart, Lock, LockTimeout, RenewCheck
    <2>2. UNCHANGED <<inUse, issued, ws, cache>> /\ cur' = cur
      BY <1>1 DEF RenewStart, Lock, LockTimeout, RenewCheck, memory, world
    <2> QED BY <1>0, <2>1, <2>2, IdleIssued, TokenNats, IssuedStays DEF Known
  <1>2. CASE RenewAnswer
    <2>1. UNCHANGED <<inUse, cur, ws, cache>>
      BY <1>2 DEF RenewAnswer, memory
    <2>2. CASE loc' = loc /\ issued' = issued
      BY <2>1, <2>2, TokenNats, IssuedStays DEF Known
    <2>3. ASSUME NEW t \in Token, Issue(t), Result(Renewal, t, "plain")
          PROVE  IssuedInv'
      <3>1. issued' = t /\ t \in Nat /\ issued <= t
        BY <2>3, TokenNats, SessionAssumption DEF Issue, Token
      <3>2. \A g \in Flows : loc'[g].tok \in {loc[g].tok, t}
        BY <1>0, <2>3, ResultIssued
      <3> QED BY <2>1, <3>1, <3>2, IssuedStays DEF Known
    <2> QED BY <1>2, <2>2, <2>3 DEF RenewAnswer, world
  <1>3. CASE RenewWrite
    <2>1. UNCHANGED <<inUse, cur, ws, issued>> /\ loc' = [loc EXCEPT ![Renewal] = Idle]
      BY <1>3 DEF RenewWrite, memory
    <2>2. cache'.token \in {cache.token, loc[Renewal].tok}
      BY <1>3 DEF RenewWrite, TypeInv, TypeOK
    <2>3. {cur', inUse', ws'.token, cache'.token} \subseteq Known
      BY <1>0, <2>1, <2>2 DEF Known
    <2>4. \A f \in Flows : loc'[f].tok \in Known
      BY <1>0, <2>1, IdleIssued DEF Known
    <2> QED BY <2>1, <2>3, <2>4, TokenNats, IssuedStays
  <1> QED BY <1>1, <1>2, <1>3 DEF RenewStep

LEMMA WorldIssued ==
  ASSUME TypeInv, IssuedInv, World
  PROVE  IssuedInv'
  <1>1. CASE Restart
    <2>1. UNCHANGED <<cache, issued>> /\ cur' = NoToken /\ inUse' = NoToken /\ ws' = NoSocket
      BY <1>1 DEF Restart
    <2>2. \A f \in Flows : loc'[f].tok \in {loc[f].tok, NoToken}
      BY <1>1 DEF Restart, Idle
    <2> QED BY <2>1, <2>2, TokenNats, IssuedStays DEF Known, NoSocket
  <1>2. CASE Age
    <2>1. UNCHANGED <<cur, inUse, ws, issued, loc>>
      BY <1>2 DEF Age, memory, world
    <2>2. cache'.token = cache.token
      BY <1>2 DEF Age, TypeInv, TypeOK
    <2> QED BY <2>1, <2>2, TokenNats, IssuedStays DEF Known
  <1>3. CASE CalmDown \/ LockExpire \/ \E t \in Token : Kill(t)
    <2>1. UNCHANGED <<cur, inUse, ws, cache, issued, loc>>
      BY <1>3 DEF CalmDown, LockExpire, Kill, memory, world
    <2> QED BY <2>1, TokenNats, IssuedStays DEF Known
  <1> QED BY <1>1, <1>2, <1>3 DEF World

LEMMA IssuedStep == TypeInv /\ IssuedInv /\ [Next]_vars => IssuedInv'
  <1> SUFFICES ASSUME TypeInv, IssuedInv, [Next]_vars PROVE IssuedInv'
    OBVIOUS
  <1>1. CASE UNCHANGED vars
    BY <1>1 DEF vars, memory, world, IssuedInv
  <1>2. CASE \E f \in Instance : Refresh(f) \/ LoopStart(f) \/ ForceStart(f) \/ FlowEnd(f)
    BY <1>2, RefreshIssued, BesideIssued
  <1> QED BY <1>1, <1>2, MainIssued, RenewIssued, WorldIssued DEF Next

LEMMA IssuedInit == Init => IssuedInv
  <1> SUFFICES ASSUME Init PROVE IssuedInv
    OBVIOUS
  <1>1. issued = 1 /\ cur = 0 /\ inUse = 0 /\ ws.token = 0 /\ \A f \in Flows : loc[f].tok = 0
    BY DEF Init, NoSocket, NoToken, Idle
  <1>2. cache.token \in {0, 1}
    BY DEF Init, NoRow, Fresh, NoToken
  <1> QED BY <1>1, <1>2 DEF IssuedInv

-----------------------------------------------------------------------------
(* The token of the connection in use.                                      *)
(* A connection on which a token is being, or was, registered.              *)
Linked == ws.st \in {"open", "up"} /\ ws.token # NoToken

(* The main loop stands by it.                                              *)
WiredInv ==
  /\ Linked => pc[Main] \in {"reg", "listen"}
  /\ ws.st = "up" => pc[Main] = "listen" /\ ws.token # NoToken
  /\ pc[Main] = "reg" => ws.token # NoToken

(* The row holds a token that a refresh would take.                         *)
Takeable == /\ cache.token # NoToken
            /\ \/ Current(cache) \/ Promoted(cache) \/ startup
               \/ May("switch") \/ May("unread")

(* One token in the place of another: only the renewal task puts a new one  *)
(* there without telling.                                                   *)
Fine(t, u) == t = u \/ t \in renewed

Nowhere(S) == \A f \in Instance : pc[f] \notin S

(* How the row, the token in memory, _cached_token_in_use and the           *)
(* connection fit together between two refreshes.                           *)
RowFits ==
  /\ cur # NoToken => inUse <= cur
  /\ Takeable /\ Nowhere({"save"}) /\ cur # NoToken => Fine(cache.token, cur)
  /\ Takeable /\ Nowhere({"save", "close"}) /\ Linked => Fine(cache.token, ws.token)
  /\ Linked /\ Nowhere({"save", "close"}) =>
       /\ cur # NoToken => Fine(cur, ws.token)
       /\ inUse <= ws.token \/ inUse \in renewed

(* And with what a refresh under way has in its hands: a token out of the   *)
(* row, or one from the platform; it asks the platform only if no write can *)
(* have failed, or the row holds nothing that a later refresh would take.   *)
Takes(f) == /\ cache.token \in {NoToken, loc[f].tok}
            /\ cur # NoToken => Fine(loc[f].tok, cur)
            /\ Linked => Fine(loc[f].tok, ws.token)
Saves(f) == /\ cur \in {NoToken, loc[f].tok} /\ inUse <= loc[f].tok
            /\ loc[f].how # "changed" => inUse = loc[f].tok
            /\ Linked => loc[f].how = "changed" \/ Fine(loc[f].tok, ws.token)
Asks(f)  == pc[f] \in {"api", "save"} \/ (pc[f] = "inside" /\ ~First(f))
FlowFits(f) ==
  /\ pc[f] = "use" => Takes(f)
  /\ pc[f] = "save" => Saves(f)
  /\ Asks(f) => (May("db") => ~Takeable)

Fits == RowFits /\ \A f \in Instance : FlowFits(f)
LiveInv == bare \/ pc[Main] \in Ended \/ Fits

(* No set of faults has both failing writes and a captcha switch that may   *)
(* be on or unreadable.                                                     *)
SwitchApart == \A F \in Faults : "db" \in F => F \cap {"switch", "unread"} = {}

-----------------------------------------------------------------------------
(* Where a flow's refresh takes it. *)
LEMMA RefreshGoes ==
  ASSUME NEW f \in Instance, Refresh(f)
  PROVE  /\ pc[f] \in {"wait", "inside", "use", "api", "save", "close", "back"}
         /\ \E w \in Held \cup {"back", "got", "resume", "idle"} : Go(f, w)
  <1>1. CASE Lock(f) \/ Unlock(f) \/ LockTimeout(f)
    BY <1>1 DEF Lock, Unlock, LockTimeout, Held
  <1>2. CASE RefreshDisabled(f) \/ SliderUnknown(f) \/ ApiFails(f)
    BY <1>2 DEF RefreshDisabled, SliderUnknown, ApiFails, Give, Held
  <1>3. CASE \E slider \in Sliders :
               CacheHit(f, slider) \/ CacheUnread(f, slider) \/ CacheMiss(f, slider)
    BY <1>3 DEF CacheHit, CacheUnread, CacheMiss, Give, Held
  <1>4. CASE Use(f) \/ GetToken(f) \/ Save(f) \/ CloseSocket(f)
    BY <1>4 DEF Use, GetToken, Save, CloseSocket, Held
  <1>5. CASE ApiTokenExpired(f) \/ ApiCaptcha(f) \/ ApiSessionOver(f)
    BY <1>5 DEF ApiTokenExpired, ApiCaptcha, ApiSessionOver, Again, Give, Held
  <1> QED BY <1>1, <1>2, <1>3, <1>4, <1>5 DEF Refresh

(* What it does to the socket. *)
LEMMA RefreshSocket ==
  ASSUME NEW f \in Instance, Refresh(f)
  PROVE  ws' \in {ws, Shut(ws)}
  <1>1. CASE CloseSocket(f)
    BY <1>1 DEF CloseSocket
  <1>2. CASE ~CloseSocket(f)
    <2>1. ws' = ws
      BY <1>2, Zenon DEF Refresh, Lock, Unlock, LockTimeout, RefreshDisabled, SliderUnknown,
         ApiFails, CacheHit, CacheUnread, CacheMiss, Use, GetToken, Save, ApiTokenExpired,
         ApiCaptcha, ApiSessionOver
    <2> QED BY <2>1
  <1> QED BY <1>1, <1>2

LEMMA BesideSocket ==
  ASSUME NEW f \in Instance, LoopStart(f) \/ ForceStart(f) \/ FlowEnd(f)
  PROVE  ws' \in {ws, Shut(ws)} /\ f # Main /\ \E w \in {"wait", "idle"} : Go(f, w)
  BY SessionAssumption DEF LoopStart, ForceStart, FlowEnd

LEMMA RenewGoes ==
  ASSUME RenewStart \/ RenewStep
  PROVE  ws' = ws /\ \E w \in {"wait", "idle", "inside", "api", "save"} : Go(Renewal, w)
  <1>1. ws' = ws
    BY DEF RenewStart, RenewStep, Lock, LockTimeout, RenewCheck, RenewAnswer, RenewWrite
  <1>2. \E w \in {"wait", "idle", "inside", "api", "save"} : Go(Renewal, w)
    BY DEF RenewStart, RenewStep, Lock, LockTimeout, RenewCheck, RenewAnswer, RenewWrite,
           RenewDone
  <1> QED BY <1>1, <1>2

LEMMA ShutUnlinks ==
  ASSUME TypeInv, ws' \in {ws, Shut(ws), NoSocket, [NoSocket EXCEPT !.st = "open"]}
  PROVE  /\ Linked' => Linked /\ ws' = ws
         /\ ws'.st = "up" => ws' = ws
  BY DEF Shut, Linked, NoSocket, TypeInv, TypeOK

-----------------------------------------------------------------------------
(* The main loop and its connection. *)
LEMMA WiredStays ==
  ASSUME TypeInv, WiredInv, ws' \in {ws, Shut(ws)},
         \/ pc'[Main] = pc[Main]
         \/ pc[Main] \notin {"reg", "listen"} /\ pc'[Main] # "reg"
  PROVE  WiredInv'
  <1>1. /\ Linked' => Linked /\ ws' = ws
        /\ ws'.st = "up" => ws' = ws
    BY ShutUnlinks
  <1>2. ws'.token = ws.token
    BY ShutToken
  <1>3. Linked' => pc'[Main] \in {"reg", "listen"}
    BY <1>1 DEF WiredInv
  <1>4. ws'.st = "up" => pc'[Main] = "listen" /\ ws'.token # NoToken
    BY <1>1 DEF WiredInv
  <1>5. pc'[Main] = "reg" => ws'.token # NoToken
    BY <1>2 DEF WiredInv
  <1> QED BY <1>3, <1>4, <1>5 DEF WiredInv

LEMMA MainWired ==
  ASSUME TypeInv, WiredInv, MainStep
  PROVE  WiredInv'
  <1>1. MainMoves
    BY MainStepMoves
  <1>2. Main \in Flows /\ pc \in [Flows -> Awaits]
    BY DEF TypeInv, TypeOK, Flows, Instance
  <1>3. Turns => pc'[Main] \notin {"reg", "listen"}
    BY <1>2 DEF Turns, Go, Finishes, Finish
  <1>4. CASE Falls \/ Opens
    <2>1. ws'.st \in {"none", "open"} /\ ws'.token = NoToken /\ Turns
      BY <1>4 DEF Falls, Opens, NoSocket
    <2> QED BY <1>3, <2>1 DEF WiredInv, Linked
  <1>5. CASE Keeps
    <2>1. ~Linked /\ ws.st # "up" /\ ws' = ws /\ Turns
      BY <1>5 DEF Keeps, WiredInv
    <2> QED BY <1>3, <2>1 DEF WiredInv, Linked
  <1>6. CASE Registers
    <2>1. pc'[Main] = "reg" /\ ws'.token # NoToken /\ ws'.st = "open"
      BY <1>2, <1>6 DEF Registers, Go, TypeInv, TypeOK
    <2> QED BY <2>1 DEF WiredInv, Linked
  <1>7. CASE Rises
    <2>1. pc'[Main] = "listen" /\ ws'.token = ws.token /\ ws.token # NoToken
      BY <1>2, <1>7 DEF Rises, WiredInv, TypeInv, TypeOK
    <2> QED BY <2>1 DEF WiredInv, Linked
  <1> QED BY <1>1, <1>4, <1>5, <1>6, <1>7 DEF MainMoves

LEMMA WiredStep == TypeInv /\ WiredInv /\ [Next]_vars => WiredInv'
  <1> SUFFICES ASSUME TypeInv, WiredInv, [Next]_vars PROVE WiredInv'
    OBVIOUS
  <1>0. Main \in Instance /\ Main # Renewal /\ Instance \subseteq Flows /\ Renewal \in Flows
        /\ pc \in [Flows -> Awaits]
    BY SessionAssumption DEF Instance, Flows, TypeInv, TypeOK
  <1>1. CASE UNCHANGED vars
    BY <1>1, WiredStays DEF vars
  <1>2. ASSUME NEW f \in Instance, Refresh(f)
        PROVE  WiredInv'
    <2>1. PICK w \in Held \cup {"back", "got", "resume", "idle"} : Go(f, w)
      BY <1>2, RefreshGoes
    <2>2. pc[f] \notin {"reg", "listen"}
      BY <1>2, RefreshGoes
    <2>3. \/ pc'[Main] = pc[Main]
          \/ pc[Main] \notin {"reg", "listen"} /\ pc'[Main] # "reg"
      BY <1>0, <2>1, <2>2 DEF Go, Held
    <2> QED BY <1>2, <2>3, RefreshSocket, WiredStays
  <1>3. ASSUME NEW f \in Instance, LoopStart(f) \/ ForceStart(f) \/ FlowEnd(f)
        PROVE  WiredInv'
    <2>1. pc'[Main] = pc[Main]
      BY <1>0, <1>3, BesideSocket DEF Go
    <2> QED BY <1>3, <2>1, BesideSocket, WiredStays
  <1>4. CASE RenewStart \/ RenewStep
    <2>1. pc'[Main] = pc[Main]
      BY <1>0, <1>4, RenewGoes DEF Go
    <2> QED BY <1>4, <2>1, RenewGoes, WiredStays
  <1>5. CASE Restart
    <2>1. ws' = NoSocket /\ pc'[Main] = "head"
      BY <1>0, <1>5 DEF Restart
    <2> QED BY <2>1 DEF WiredInv, Linked, NoSocket
  <1>6. CASE Age \/ CalmDown \/ LockExpire \/ \E t \in Token : Kill(t)
    <2>1. ws' = ws /\ pc' = pc
      BY <1>6 DEF Age, CalmDown, LockExpire, Kill
    <2> QED BY <2>1, WiredStays
  <1> QED BY <1>1, <1>2, <1>3, <1>4, <1>5, <1>6, MainWired DEF Next, World

LEMMA WiredInit == Init => WiredInv
  BY SessionAssumption DEF Init, WiredInv, Linked, NoSocket, Flows, Instance

-----------------------------------------------------------------------------
(* A step that puts no token anywhere: it may take one away, or close the   *)
(* socket.                                                                  *)
Dull == /\ renewed' = renewed /\ inUse' = inUse
        /\ cur' \in {cur, NoToken}
        /\ cache'.token \in {cache.token, NoToken}
        /\ Takeable' => Takeable
        /\ Linked' => Linked /\ ws'.token = ws.token
        /\ May("db")' => May("db")

(* No flow begins to use or to save a token, or leaves a save, or leaves a  *)
(* close with the connection still there.                                   *)
Comes(f) == \/ pc'[f] = pc[f] /\ loc'[f] = loc[f]
            \/ pc'[f] = "inside" /\ (First(f)' \/ pc[f] = "api")
            \/ pc'[f] = "api" /\ (May("db") => ~Takeable)
Tame == /\ Dull
        /\ \A f \in Instance : pc'[f] \in Held => Comes(f)
        /\ \A f \in Instance : /\ pc[f] = "save" => pc'[f] = "save"
                               /\ pc[f] = "close" /\ Linked' => pc'[f] = "close"

LEMMA TameFits ==
  ASSUME TypeInv, Fits, Tame
  PROVE  Fits'
  <1>1. Dull /\ RowFits /\ \A f \in Instance : FlowFits(f)
    BY DEF Tame, Fits
  <1>2. /\ Nowhere({"save"})' => Nowhere({"save"})
        /\ Nowhere({"save", "close"})' /\ Linked' => Nowhere({"save", "close"})
    BY DEF Tame, Nowhere
  <1>3. /\ cur' # NoToken => cur' = cur
        /\ Takeable' => Takeable /\ cache'.token = cache.token
        /\ Linked' => Linked /\ ws'.token = ws.token
        /\ renewed' = renewed /\ inUse' = inUse
    BY <1>1 DEF Dull, Takeable
  <1>4. RowFits'
    <2>1. cur' # NoToken => inUse' <= cur'
      BY <1>1, <1>3 DEF RowFits
    <2>2. Takeable' /\ Nowhere({"save"})' /\ cur' # NoToken => Fine(cache.token, cur)'
      BY <1>1, <1>2, <1>3 DEF RowFits, Fine
    <2>3. Takeable' /\ Nowhere({"save", "close"})' /\ Linked' => Fine(cache.token, ws.token)'
      BY <1>1, <1>2, <1>3 DEF RowFits, Fine
    <2>4. Linked' /\ Nowhere({"save", "close"})' =>
            /\ cur' # NoToken => Fine(cur, ws.token)'
            /\ inUse' <= ws'.token \/ inUse' \in renewed'
      BY <1>1, <1>2, <1>3 DEF RowFits, Fine
    <2> QED BY <2>1, <2>2, <2>3, <2>4 DEF RowFits
  <1>5. ASSUME NEW f \in Instance
        PROVE  FlowFits(f)'
    <2>1. pc'[f] \in Held => Comes(f)
      BY DEF Tame
    <2>2. CASE pc'[f] = pc[f] /\ loc'[f] = loc[f]
      <3>1. FlowFits(f) /\ (First(f)' <=> First(f)) /\ (Asks(f)' => Asks(f))
        BY <1>1, <2>2 DEF First, Asks
      <3>2. pc'[f] = "use" => Takes(f)'
        BY <1>1, <1>3, <2>2, <3>1 DEF FlowFits, Takes, Fine, Dull
      <3>3. pc'[f] = "save" => Saves(f)'
        BY <1>1, <1>3, <2>2, <3>1 DEF FlowFits, Saves, Fine, Dull
      <3>4. Asks(f)' => (May("db")' => ~Takeable')
        BY <1>1, <1>3, <3>1 DEF FlowFits, Dull
      <3> QED BY <3>2, <3>3, <3>4 DEF FlowFits
    <2>3. CASE pc'[f] = "inside" /\ First(f)'
      BY <2>3 DEF FlowFits, Asks
    <2>4. CASE pc'[f] = "inside" /\ pc[f] = "api"
      <3>1. May("db") => ~Takeable
        BY <1>1, <2>4 DEF FlowFits, Asks
      <3> QED BY <1>1, <1>3, <2>4, <3>1 DEF FlowFits, Dull
    <2>5. CASE pc'[f] = "api" /\ (May("db") => ~Takeable)
      BY <1>1, <1>3, <2>5 DEF FlowFits, Dull
    <2>6. CASE pc'[f] \notin Held
      BY <2>6 DEF FlowFits, Asks, Held
    <2> QED BY <2>1, <2>2, <2>3, <2>4, <2>5, <2>6 DEF Comes
  <1> QED BY <1>4, <1>5 DEF Fits

(* What a row given up, time and the end of the startup leave do to it.     *)
LEMMA LessTakeable ==
  ASSUME TypeInv, weather' = weather, startup' => startup, cache' \in {cache, NoRow}
  PROVE  Takeable' => Takeable
  BY DEF Takeable, Current, Promoted, May, NoRow

LEMMA DullStep ==
  ASSUME TypeInv, UNCHANGED <<renewed, inUse, weather>>, cur' \in {cur, NoToken},
         cache' \in {cache, NoRow}, startup' \in {startup, FALSE},
         ws' \in {ws, Shut(ws), NoSocket, [NoSocket EXCEPT !.st = "open"]}
  PROVE  Dull
  <1>1. startup' => startup
    <2>1. CASE startup' = startup
      BY <2>1
    <2>2. CASE startup' = FALSE
      BY <2>2
    <2> QED BY <2>1, <2>2
  <1>2. cache'.token \in {cache.token, NoToken}
    BY DEF NoRow
  <1>3. Takeable' => Takeable
    BY <1>1, LessTakeable
  <1>4. Linked' => Linked /\ ws'.token = ws.token
    BY ShutUnlinks
  <1> QED BY <1>2, <1>3, <1>4 DEF Dull, May

(* A flow that moves.                                                       *)
LEMMA FlowTame ==
  ASSUME TypeInv, NEW f \in Flows, NEW w, Go(f, w), Dull,
         \A g \in Flows \ {f} : loc'[g] = loc[g],
         f \in Instance => pc[f] # "save" /\ (pc[f] = "close" => ~Linked'),
         \/ w \notin Held
         \/ w = "inside" /\ (First(f)' \/ pc[f] = "api")
         \/ w = "api" /\ (May("db") => ~Takeable)
         \/ f \notin Instance
  PROVE  Tame
  <1>1. pc'[f] = w /\ \A g \in Flows \ {f} : pc'[g] = pc[g]
    BY DEF Go, TypeInv, TypeOK
  <1>2. Instance \subseteq Flows
    BY DEF Flows
  <1>3. \A g \in Instance : pc'[g] \in Held => Comes(g)
    BY <1>1, <1>2 DEF Comes
  <1>4. \A g \in Instance : /\ pc[g] = "save" => pc'[g] = "save"
                            /\ pc[g] = "close" /\ Linked' => pc'[g] = "close"
    BY <1>1, <1>2
  <1> QED BY <1>3, <1>4 DEF Tame

(* Under the lock a flow is alone.                                          *)
LEMMA Alone ==
  ASSUME TokenInv, ~bare, NEW f \in Flows, pc[f] \in Held
  PROVE  \A g \in Flows \ {f} : pc[g] \notin Held
  BY DEF TokenInv, HasLock

(* And a step of it, that no other flow takes part in.                      *)
LEMMA OneMoves ==
  ASSUME TypeInv, TokenInv, ~bare, NEW f \in Instance, pc[f] \in Held, NEW w, Go(f, w)
  PROVE  /\ pc'[f] = w
         /\ \A S \in SUBSET Held : Nowhere(S)' <=> w \notin S
         /\ \A g \in Instance \ {f} : FlowFits(g)'
  <1>1. f \in Flows /\ Instance \subseteq Flows
    BY DEF Flows
  <1>2. pc'[f] = w /\ \A g \in Instance \ {f} : pc'[g] = pc[g] /\ pc'[g] \notin Held
    BY <1>1, Alone DEF Go, TypeInv, TypeOK
  <1>3. \A S \in SUBSET Held : Nowhere(S)' <=> w \notin S
    BY <1>2 DEF Nowhere
  <1>4. \A g \in Instance \ {f} : FlowFits(g)'
    BY <1>2 DEF FlowFits, Asks, Held
  <1> QED BY <1>2, <1>3, <1>4

-----------------------------------------------------------------------------
(* The steps that put a token somewhere. *)
LEMMA HitFits ==
  ASSUME TypeInv, TokenInv, ~bare, Fits, NEW f \in Instance, NEW slider \in Sliders,
         CacheHit(f, slider)
  PROVE  Fits'
  <1> DEFINE how == IF Current(cache) THEN "current"
                    ELSE IF Promoted(cache) THEN "promoted"
                    ELSE IF slider = "off" THEN "startup" ELSE "stale"
  <1>1. f \in Flows /\ cache.token \in Token \cup {NoToken} /\ how \in Hows
    BY DEF Flows, TypeInv, TypeOK, Hows
  <1>2. Result(f, cache.token, how) /\ Go(f, "use") /\ pc[f] = "inside"
    BY DEF CacheHit
  <1>3. loc'[f].tok = cache.token
    BY <1>1, <1>2, ResultTypes
  <1>4. Takeable /\ cache.token # NoToken
    BY DEF CacheHit, Usable, AnyAge, Initial, Takeable, Sliders, May, Current, Promoted
  <1>5. UNCHANGED <<cur, inUse, ws, renewed, weather>> /\ cache'.token = cache.token
    BY DEF CacheHit, world, TypeInv, TypeOK
  <1>6. /\ pc'[f] = "use" /\ Nowhere({"save"})' /\ Nowhere({"save", "close"})'
        /\ \A g \in Instance \ {f} : FlowFits(g)'
    BY <1>2, OneMoves DEF Held
  <1>7. Nowhere({"save"}) /\ Nowhere({"save", "close"})
    BY <1>1, <1>2, Alone DEF Nowhere, Held, Flows
  <1>8. RowFits
    BY DEF Fits
  <1>9. RowFits'
    BY <1>4, <1>5, <1>6, <1>7, <1>8 DEF RowFits, Fine, Linked
  <1>10. Takes(f)'
    BY <1>3, <1>4, <1>5, <1>7, <1>8 DEF RowFits, Takes, Fine, Linked
  <1>11. FlowFits(f)'
    BY <1>6, <1>10 DEF FlowFits, Asks
  <1> QED BY <1>6, <1>9, <1>11 DEF Fits

LEMMA UseFits ==
  ASSUME TypeInv, TokenInv, ~bare, Fits, NEW f \in Instance, Use(f)
  PROVE  Fits'
  <1>1. pc[f] = "use" /\ loc' = loc /\ cur' = loc[f].tok /\ inUse' = loc[f].tok
    BY DEF Use
  <1>2. UNCHANGED <<cache, startup, ws, renewed, weather>>
    BY DEF Use, world
  <1>3. PICK w \in {"close", "back"} : Go(f, w)
    BY DEF Use
  <1>4. /\ pc'[f] = w /\ \A S \in SUBSET Held : Nowhere(S)' <=> w \notin S
        /\ \A g \in Instance \ {f} : FlowFits(g)'
    BY <1>1, <1>3, OneMoves DEF Held
  <1>5. Takes(f)
    BY <1>1 DEF Fits, FlowFits
  <1>6. loc[f].tok \in Nat
    BY TokenNats DEF Flows
  <1>7. /\ Takeable' => Takeable
        /\ (Linked' <=> Linked)
    BY <1>2 DEF Takeable, May, Current, Promoted, Linked
  <1>8. RowFits'
    <2>1. cur' # NoToken => inUse' <= cur'
      BY <1>1, <1>6
    <2>2. Takeable' => Fine(cache.token, cur)'
      BY <1>1, <1>2, <1>5, <1>7 DEF Takes, Fine, Takeable
    <2>3. Linked' => Fine(cur, ws.token)'
      BY <1>1, <1>2, <1>5, <1>7 DEF Takes, Fine
    <2>4. Linked' => inUse' <= ws'.token \/ inUse' \in renewed'
      BY <1>1, <1>2, <1>5, <1>6, <1>7 DEF Takes, Fine
    <2>5. Takeable' /\ Linked' => Fine(cache.token, ws.token)'
      BY <1>1, <1>2, <1>5, <1>7 DEF Takes, Fine, Takeable
    <2> QED BY <2>1, <2>2, <2>3, <2>4, <2>5 DEF RowFits
  <1>9. FlowFits(f)'
    BY <1>4 DEF FlowFits, Asks
  <1> QED BY <1>4, <1>8, <1>9 DEF Fits

LEMMA GetFits ==
  ASSUME TypeInv, TokenInv, IssuedInv, ~bare, Fits, NEW f \in Instance, GetToken(f)
  PROVE  Fits'
  <1>1. f \in Flows /\ pc[f] = "api" /\ Go(f, "save")
    BY DEF GetToken, Flows
  <1>2. PICK t \in Token : Issue(t) /\ cur' = t /\ Result(f, t, Changed(t))
    BY DEF GetToken
  <1>3. UNCHANGED <<cache, inUse, startup, ws, renewed, weather>>
    BY <1>2 DEF GetToken, Issue
  <1>4. loc'[f].tok = t /\ loc'[f].how = Changed(t)
    BY <1>1, <1>2, ResultTypes DEF Changed, Hows
  <1>5. t \in Nat /\ issued <= t /\ inUse <= t /\ ws.token <= t
    BY <1>2, TokenNats, SessionAssumption DEF Issue, Token, IssuedInv
  <1>6. /\ pc'[f] = "save" /\ ~Nowhere({"save"})' /\ ~Nowhere({"save", "close"})'
        /\ \A g \in Instance \ {f} : FlowFits(g)'
    BY <1>1, OneMoves DEF Held
  <1>7. Nowhere({"save"}) /\ Nowhere({"save", "close"})
    BY <1>1, Alone DEF Nowhere, Held, Flows
  <1>8. RowFits /\ FlowFits(f)
    BY DEF Fits
  <1>9. RowFits'
    BY <1>2, <1>3, <1>5, <1>6 DEF RowFits
  <1>10. Saves(f)'
    <2>1. loc'[f].how # "changed" => t = inUse
      BY <1>4 DEF Changed
    <2>2. ASSUME Linked, t = inUse PROVE Fine(t, ws.token)
      BY <1>5, <1>7, <1>8, <2>2, TokenNats DEF RowFits, Fine
    <2>3. (Linked' <=> Linked) /\ (Fine(t, ws.token)' <=> Fine(t, ws.token))
      BY <1>2, <1>3 DEF Linked, Fine, GetToken
    <2> QED BY <1>2, <1>3, <1>4, <1>5, <2>1, <2>2, <2>3 DEF Saves, Fine
  <1>11. May("db")' => ~Takeable'
    BY <1>1, <1>3, <1>8 DEF FlowFits, Asks, Takeable, May, Current, Promoted
  <1>12. FlowFits(f)'
    BY <1>6, <1>10, <1>11 DEF FlowFits
  <1> QED BY <1>6, <1>9, <1>12 DEF Fits

LEMMA SaveFits ==
  ASSUME TypeInv, TokenInv, ~bare, Fits, NEW f \in Instance, Save(f)
  PROVE  Fits'
  <1>1. pc[f] = "save" /\ loc' = loc /\ UNCHANGED <<cur, ws, startup, weather, renewed>>
    BY DEF Save, world
  <1>2. PICK w \in {"close", "back"} : Go(f, w)
    BY DEF Save
  <1>3. /\ pc'[f] = w /\ \A S \in SUBSET Held : Nowhere(S)' <=> w \notin S
        /\ \A g \in Instance \ {f} : FlowFits(g)'
    BY <1>1, <1>2, OneMoves DEF Held
  <1>4. Saves(f) /\ (May("db") => ~Takeable) /\ RowFits
    BY <1>1 DEF Fits, FlowFits, Asks
  <1>5. loc[f].tok \in Nat
    BY TokenNats DEF Flows
  <1>6. w = "back" => loc[f].how # "changed"
    BY <1>2, <1>3 DEF Save, Go, TypeInv, TypeOK, Flows
  <1>7. Nowhere({"save", "close"})' => w = "back"
    BY <1>2, <1>3 DEF Held
  <1>8. Linked' <=> Linked
    BY <1>1 DEF Linked
  <1>9. FlowFits(f)'
    BY <1>2, <1>3 DEF FlowFits, Asks
  <1>10. CASE cache' = Fresh(loc[f].tok) /\ inUse' = loc[f].tok
    <2>1. cache'.token = loc[f].tok
      BY <1>10 DEF Fresh
    <2>2. cur' # NoToken => cur' = loc[f].tok
      BY <1>1, <1>4 DEF Saves
    <2>3. Linked' /\ w = "back" => Fine(loc[f].tok, ws.token)'
      BY <1>1, <1>4, <1>6, <1>8 DEF Saves, Fine
    <2>4. Linked' /\ w = "back" => inUse' <= ws'.token \/ inUse' \in renewed'
      BY <1>1, <1>5, <1>10, <2>3 DEF Fine
    <2>5. RowFits'
      BY <1>1, <1>5, <1>7, <1>10, <2>1, <2>2, <2>3, <2>4 DEF RowFits, Fine
    <2> QED BY <1>3, <1>9, <2>5 DEF Fits
  <1>11. CASE May("db") /\ UNCHANGED <<cache, inUse>>
    <2>1. ~Takeable'
      BY <1>1, <1>4, <1>11 DEF Takeable, May, Current, Promoted
    <2>2. cur' # NoToken => inUse' <= cur'
      BY <1>1, <1>4, <1>11 DEF RowFits
    <2>3. Linked' /\ w = "back" => /\ Fine(loc[f].tok, ws.token)
                                   /\ inUse = loc[f].tok
      BY <1>4, <1>6, <1>8 DEF Saves
    <2>4. Linked' /\ w = "back" => /\ cur' # NoToken => Fine(cur, ws.token)'
                                   /\ inUse' <= ws'.token \/ inUse' \in renewed'
      BY <1>1, <1>4, <1>5, <1>11, <2>3 DEF Fine, Saves
    <2>5. RowFits'
      BY <1>7, <2>1, <2>2, <2>4 DEF RowFits
    <2> QED BY <1>3, <1>9, <2>5 DEF Fits
  <1> QED BY <1>10, <1>11 DEF Save

LEMMA RegisterFits ==
  ASSUME TypeInv, Fits, Apart, Registers
  PROVE  Fits'
  <1>1. /\ UNCHANGED <<loc, inUse, startup, weather, renewed, cur, cache>>
        /\ cur # NoToken /\ ws'.token = cur
    BY DEF Apart, Registers, TypeInv, TypeOK
  <1>2. Main \in Flows /\ pc'[Main] = "reg" /\ \A g \in Flows \ {Main} : pc'[g] = pc[g]
    BY DEF Registers, Go, TypeInv, TypeOK, Flows, Instance
  <1>3. pc[Main] = "init" /\ Instance \subseteq Flows
    BY DEF Registers, Flows
  <1>4. \A S \in SUBSET Held : Nowhere(S)' <=> Nowhere(S)
    BY <1>2, <1>3 DEF Nowhere, Held
  <1>5. (Nowhere({"save"})' <=> Nowhere({"save"}))
        /\ (Nowhere({"save", "close"})' <=> Nowhere({"save", "close"}))
    BY <1>4 DEF Held
  <1>6. (Takeable' <=> Takeable) /\ RowFits /\ \A g \in Instance : FlowFits(g)
    BY <1>1 DEF Takeable, May, Current, Promoted, Fits
  <1>7. Nowhere({"save", "close"}) => Nowhere({"save"})
    BY DEF Nowhere
  <1>8. RowFits'
    BY <1>1, <1>5, <1>6, <1>7 DEF RowFits, Fine
  <1>9. ASSUME NEW g \in Instance
        PROVE  FlowFits(g)'
    <2>1. pc'[g] \in Held \/ pc[g] \in Held => g # Main /\ pc'[g] = pc[g]
      BY <1>2, <1>3 DEF Held
    <2>2. pc'[g] = "use" => Takes(g)'
      BY <1>1, <1>6, <2>1 DEF FlowFits, Takes, Fine, Held
    <2>3. pc'[g] = "save" => Saves(g)'
      BY <1>1, <1>6, <2>1 DEF FlowFits, Saves, Fine, Held
    <2>4. Asks(g)' => Asks(g)
      BY <1>1, <2>1 DEF Asks, First, Held
    <2>5. Asks(g)' => (May("db")' => ~Takeable')
      BY <1>1, <1>6, <2>4 DEF FlowFits, May
    <2> QED BY <2>2, <2>3, <2>5 DEF FlowFits
  <1> QED BY <1>8, <1>9 DEF Fits

LEMMA RenewFits ==
  ASSUME TypeInv, TokenInv, ~bare, Fits, RenewWrite
  PROVE  Fits'
  <1>1. Renewal \in Flows /\ Renewal \notin Instance /\ Instance \subseteq Flows
        /\ pc[Renewal] = "save"
    BY SessionAssumption DEF Flows, RenewWrite
  <1>2. \A g \in Instance : pc[g] \notin Held /\ pc'[g] = pc[g]
    BY <1>1, Alone DEF RenewWrite, RenewDone, Go, TypeInv, TypeOK, Held
  <1>3. \A g \in Instance : FlowFits(g)'
    BY <1>2 DEF FlowFits, Asks, Held
  <1>4. UNCHANGED <<cur, inUse, startup, weather, ws>> /\ renewed \subseteq renewed'
    BY DEF RenewWrite, memory
  <1>5. Nowhere({"save"}) /\ Nowhere({"save", "close"}) /\ RowFits
    BY <1>2 DEF Nowhere, Held, Fits
  <1>6. Linked' <=> Linked
    BY <1>4 DEF Linked
  <1>7. CASE Due(cache)
    <2>1. Fine(cache.token, cur)' /\ Fine(cache.token, ws.token)'
      BY <1>7 DEF RenewWrite, Fine, TypeInv, TypeOK
    <2> QED BY <1>3, <1>4, <1>5, <1>6, <2>1 DEF RowFits, Fine, Fits
  <1>8. CASE ~Due(cache)
    <2>1. cache' = cache /\ (Takeable' <=> Takeable)
      BY <1>4, <1>8 DEF RenewWrite, Takeable, May, Current, Promoted
    <2> QED BY <1>3, <1>4, <1>5, <1>6, <2>1 DEF RowFits, Fine, Fits
  <1> QED BY <1>7, <1>8

LEMMA RestartFits ==
  ASSUME TypeInv, Restart
  PROVE  Fits'
  <1>1. cur' = NoToken /\ ~Linked'
    BY DEF Restart, Linked, NoSocket
  <1>2. \A f \in Instance : pc'[f] \in {"head", "off", "idle"}
    BY SessionAssumption DEF Restart, Instance, Flows
  <1> QED BY <1>1, <1>2 DEF Fits, RowFits, FlowFits, Asks

-----------------------------------------------------------------------------
(* The others. *)
LEMMA MissTame ==
  ASSUME TypeInv, Fits, SwitchApart, NEW f \in Instance, NEW slider \in Sliders,
         CacheMiss(f, slider)
  PROVE  May("db") => ~Takeable
  <1> SUFFICES ASSUME May("db") PROVE ~Takeable
    OBVIOUS
  <1>1. ~May("switch") /\ ~May("unread")
    BY DEF SwitchApart, May, TypeInv, TypeOK
  <1>2. slider = "off"
    BY <1>1 DEF Sliders
  <1>3. CASE First(f)
    BY <1>1, <1>2, <1>3 DEF CacheMiss, Looks, Usable, AnyAge, Initial, Takeable
  <1>4. CASE ~First(f)
    BY <1>4 DEF CacheMiss, Fits, FlowFits, Asks
  <1> QED BY <1>3, <1>4

LEMMA RefreshTame ==
  ASSUME TypeInv, Fits, SwitchApart, NEW f \in Instance, Refresh(f),
         \/ Lock(f) \/ Unlock(f) \/ RefreshDisabled(f)
         \/ \E slider \in Sliders : CacheUnread(f, slider) \/ CacheMiss(f, slider)
         \/ SliderUnknown(f) \/ CloseSocket(f) \/ LockTimeout(f) \/ ApiFails(f)
         \/ ApiTokenExpired(f) \/ ApiCaptcha(f) \/ ApiSessionOver(f)
  PROVE  Tame
  <1>0. f \in Flows /\ f # Renewal /\ ws' \in {ws, Shut(ws)}
    BY RefreshSocket, SessionAssumption DEF Flows
  <1> DEFINE Others == \A g \in Flows \ {f} : loc'[g] = loc[g]
             Data   == /\ UNCHANGED <<renewed, inUse, weather>>
                       /\ cur' \in {cur, NoToken} /\ cache' \in {cache, NoRow}
                       /\ startup' \in {startup, FALSE}
  <1>1. ASSUME NEW w, Go(f, w), Others, Data, pc[f] # "save",
               pc[f] = "close" => ~Linked',
               \/ w \notin Held
               \/ w = "inside" /\ (First(f)' \/ pc[f] = "api")
               \/ w = "api" /\ (May("db") => ~Takeable)
        PROVE  Tame
    <2>1. Dull
      BY <1>0, <1>1, DullStep
    <2> QED BY <1>0, <1>1, <2>1, FlowTame
  <1>2. ASSUME NEW t, NEW how, Result(f, t, how)
        PROVE  Others
    BY <1>2 DEF Result, TypeInv, TypeOK
  <1>3. ASSUME NEW t, NEW c, Give(f, t, c)
        PROVE  Go(f, "back") /\ Others
    BY <1>2, <1>3 DEF Give
  <1>4. ASSUME NEW field, Again(f, field)
        PROVE  Go(f, "inside") /\ Others
    BY <1>4 DEF Again, TypeInv, TypeOK
  <1>5. "back" \notin Held /\ "got" \notin Held /\ "resume" \notin Held
    BY DEF Held
  <1> HIDE DEF Others
  <1>6. CASE Lock(f)
    <2>1. Others /\ First(f)'
      BY <1>0, <1>6 DEF Lock, First, Idle, TypeInv, TypeOK, Others
    <2>2. Data /\ Go(f, "inside") /\ pc[f] = "wait"
      BY <1>6 DEF Lock, memory
    <2> QED BY <1>1, <2>1, <2>2
  <1>7. CASE Unlock(f) \/ LockTimeout(f)
    <2>1. Others
      BY <1>0, <1>7 DEF Unlock, LockTimeout, TypeInv, TypeOK, Others
    <2>2. Data /\ pc[f] \in {"back", "wait"}
      BY <1>7 DEF Unlock, LockTimeout, memory, world
    <2>3. \E w \in {"back", "got", "resume"} : Go(f, w)
      BY <1>0, <1>7 DEF Unlock, LockTimeout
    <2> QED BY <1>1, <1>5, <2>1, <2>2, <2>3
  <1>8. CASE RefreshDisabled(f) \/ SliderUnknown(f) \/ ApiFails(f)
    <2>1. Others /\ Go(f, "back")
      BY <1>3, <1>8 DEF RefreshDisabled, SliderUnknown, ApiFails
    <2>2. Data /\ pc[f] \in {"inside", "api"}
      BY <1>8 DEF RefreshDisabled, SliderUnknown, ApiFails, DropCache, world
    <2> QED BY <1>1, <1>5, <2>1, <2>2
  <1>9. ASSUME NEW slider \in Sliders, CacheUnread(f, slider)
        PROVE  Tame
    <2>1. Others /\ Go(f, "back")
      BY <1>3, <1>9 DEF CacheUnread
    <2>2. Data /\ pc[f] = "inside"
      BY <1>9 DEF CacheUnread, world
    <2> QED BY <1>1, <1>5, <2>1, <2>2
  <1>10. ASSUME NEW slider \in Sliders, CacheMiss(f, slider)
         PROVE  Tame
    <2>1. Data /\ pc[f] = "inside"
      BY <1>10 DEF CacheMiss, StartupLeft, TypeInv, TypeOK, world
    <2>2. Others /\ (Go(f, "back") \/ Go(f, "api"))
      BY <1>2, <1>3, <1>10 DEF CacheMiss
    <2>3. May("db") => ~Takeable
      BY <1>10, MissTame
    <2> QED BY <1>1, <1>5, <2>1, <2>2, <2>3
  <1>11. CASE CloseSocket(f)
    <2>1. Data /\ pc[f] = "close" /\ Go(f, "back") /\ loc' = loc /\ ws' = Shut(ws)
      BY <1>11 DEF CloseSocket, memory, world
    <2>2. Others
      BY <2>1 DEF Others
    <2>3. ~Linked'
      BY <2>1 DEF Shut, Linked, TypeInv, TypeOK
    <2> QED BY <1>1, <1>5, <2>1, <2>2, <2>3
  <1>12. CASE ApiTokenExpired(f) \/ ApiCaptcha(f) \/ ApiSessionOver(f)
    <2>1. Data /\ pc[f] = "api"
      BY <1>12 DEF ApiTokenExpired, ApiCaptcha, ApiSessionOver, DropCache, memory, world
    <2>2. Others /\ (Go(f, "inside") \/ Go(f, "back"))
      BY <1>3, <1>4, <1>12 DEF ApiTokenExpired, ApiCaptcha, ApiSessionOver
    <2> QED BY <1>1, <1>5, <2>1, <2>2
  <1> QED BY <1>6, <1>7, <1>8, <1>9, <1>10, <1>11, <1>12

LEMMA BesideTame ==
  ASSUME TypeInv, NEW f \in Instance, LoopStart(f) \/ ForceStart(f) \/ FlowEnd(f)
  PROVE  Tame
  <1>1. f \in Flows /\ \A g \in Flows \ {f} : loc'[g] = loc[g]
    BY DEF LoopStart, ForceStart, FlowEnd, Flows, TypeInv, TypeOK
  <1>2. /\ UNCHANGED <<renewed, inUse, weather, startup>>
        /\ cur' \in {cur, NoToken} /\ cache' \in {cache, NoRow}
    BY DEF LoopStart, ForceStart, FlowEnd, DropCache, memory, world
  <1>3. ws' \in {ws, Shut(ws)} /\ pc[f] \in {"idle", "back"}
    BY BesideSocket DEF LoopStart, ForceStart, FlowEnd
  <1>4. PICK w \in {"wait", "idle"} : Go(f, w)
    BY BesideSocket
  <1>5. Dull
    BY <1>2, <1>3, DullStep
  <1>6. w \notin Held
    BY DEF Held
  <1> QED BY <1>1, <1>3, <1>4, <1>5, <1>6, FlowTame

LEMMA RenewTame ==
  ASSUME TypeInv,
         RenewStart \/ Lock(Renewal) \/ LockTimeout(Renewal) \/ RenewCheck \/ RenewAnswer
  PROVE  Tame
  <1>1. Renewal \in Flows /\ Renewal \notin Instance
    BY SessionAssumption DEF Flows
  <1>2. \A g \in Flows \ {Renewal} : loc'[g] = loc[g]
    BY <1>1, IdleStep, Zenon DEF RenewStart, Lock, LockTimeout, RenewCheck,
       RenewAnswer, Result, TypeInv, TypeOK
  <1>3. UNCHANGED <<renewed, inUse, weather, startup, cache, cur, ws>>
    BY DEF RenewStart, Lock, LockTimeout, RenewCheck, RenewAnswer, Issue, memory, world
  <1>4. Dull
    BY <1>3, DullStep
  <1>5. \E w : Go(Renewal, w)
    BY RenewGoes DEF RenewStep
  <1> QED BY <1>1, <1>2, <1>4, <1>5, FlowTame

LEMMA MainFits ==
  ASSUME TypeInv, Fits, MainStep, pc'[Main] \notin Ended
  PROVE  Fits'
  <1>1. MainMoves
    BY MainStepMoves
  <1>2. CASE Apart /\ Registers
    BY <1>2, RegisterFits
  <1>3. CASE Falls \/ (Apart /\ (Rises \/ Opens \/ Keeps))
    <2>1. /\ UNCHANGED <<renewed, inUse, weather, startup, loc>>
          /\ cur' \in {cur, NoToken} /\ cache' \in {cache, NoRow}
      BY <1>3 DEF Falls, Apart, Plain, Rejects, Rises, Opens, Keeps
    <2>2. Dull
      <3>1. CASE Rises
        <4>1. Linked' => Linked /\ ws'.token = ws.token
          BY <3>1 DEF Rises, Linked, TypeInv, TypeOK
        <4>2. Takeable' => Takeable
          BY <2>1, LessTakeable
        <4> QED BY <2>1, <4>1, <4>2 DEF Dull, May, NoRow
      <3>2. CASE ~Rises
        <4>1. ws' \in {ws, Shut(ws), NoSocket, [NoSocket EXCEPT !.st = "open"]}
          BY <1>3, <3>2 DEF Falls, Opens, Keeps
        <4> QED BY <2>1, <4>1, DullStep
      <3> QED BY <3>1, <3>2
    <2>3. /\ \A f \in Instance : pc'[f] \in Held => pc'[f] = pc[f]
          /\ \A f \in Instance : pc[f] \in Held => pc'[f] = pc[f]
      BY <1>1, MainMovesHeld DEF Flows
    <2>4. \A f \in Instance : pc'[f] \in Held => Comes(f)
      BY <2>1, <2>3 DEF Comes
    <2>5. Tame
      BY <2>2, <2>3, <2>4 DEF Tame, Held
    <2> QED BY <2>5, TameFits
  <1> QED BY <1>1, <1>2, <1>3 DEF MainMoves

LEMMA WorldTame ==
  ASSUME TypeInv, Age \/ CalmDown \/ LockExpire \/ \E t \in Token : Kill(t)
  PROVE  Tame
  <1>1. UNCHANGED <<cur, inUse, ws, pc, loc, startup, renewed>>
    BY DEF Age, CalmDown, LockExpire, Kill, memory, world
  <1>2. cache'.token = cache.token
    BY DEF Age, CalmDown, LockExpire, Kill, TypeInv, TypeOK
  <1>3. weather' \in {weather, {}}
    BY DEF Age, CalmDown, LockExpire, Kill, world
  <1>4. Current(cache') \/ Promoted(cache') => Current(cache) \/ Promoted(cache)
    <2>1. CASE Age
      BY <2>1 DEF Age, Current, Promoted, TypeInv, TypeOK
    <2>2. CASE cache' = cache
      BY <2>2
    <2> QED BY <2>1, <2>2 DEF CalmDown, LockExpire, Kill
  <1>5. Takeable' => Takeable
    BY <1>1, <1>2, <1>3, <1>4 DEF Takeable, May
  <1>6. Dull
    BY <1>1, <1>2, <1>3, <1>5 DEF Dull, May, Linked
  <1> QED BY <1>1, <1>6 DEF Tame, Comes

(* A flow that has gone on without the lock is not forgotten; a main loop   *)
(* that has ended stays so until the instance is replaced.                  *)
LEMMA BareLasts ==
  ASSUME TypeInv, bare, Next
  PROVE  bare'
  <1>1. ASSUME NEW f \in Instance, Refresh(f) \/ LoopStart(f) \/ ForceStart(f) \/ FlowEnd(f)
        PROVE  bare'
    <2>1. CASE Lock(f)
      BY <2>1 DEF Lock
    <2>2. CASE ~Lock(f)
      <3>1. bare' = bare
        BY <1>1, <2>2, Zenon DEF Refresh, Unlock, LockTimeout, RefreshDisabled, SliderUnknown,
           ApiFails, CacheHit, CacheUnread, CacheMiss, Use, GetToken, Save, ApiTokenExpired,
           ApiCaptcha, ApiSessionOver, CloseSocket, Issue, LoopStart, ForceStart, FlowEnd,
           world
      <3> QED BY <3>1
    <2> QED BY <2>1, <2>2
  <1>2. CASE RenewStart \/ RenewStep
    <2>1. CASE Lock(Renewal)
      BY <2>1 DEF Lock
    <2>2. CASE ~Lock(Renewal)
      <3>1. bare' = bare
        BY <1>2, <2>2 DEF RenewStart, RenewStep, LockTimeout, RenewCheck, RenewAnswer,
           RenewWrite, Issue, world
      <3> QED BY <3>1
    <2> QED BY <2>1, <2>2
  <1>3. CASE MainStep
    BY <1>3, MainStepMoves DEF MainMoves, Falls, Apart
  <1>4. CASE World
    BY <1>4 DEF World, Restart, Age, CalmDown, LockExpire, Kill, world
  <1> QED BY <1>1, <1>2, <1>3, <1>4 DEF Next

LEMMA DoneLasts ==
  ASSUME TypeInv, pc[Main] \in Ended, Next, ~Restart
  PROVE  pc'[Main] \in Ended
  <1>0. Main \in Instance /\ Main # Renewal /\ Instance \subseteq Flows /\ Renewal \in Flows
        /\ pc \in [Flows -> Awaits]
    BY SessionAssumption DEF Instance, Flows, TypeInv, TypeOK
  <1>1. ASSUME NEW f \in Instance, Refresh(f)
        PROVE  pc'[Main] \in Ended
    BY <1>0, <1>1, RefreshGoes DEF Go, Ended
  <1>2. ASSUME NEW f \in Instance, LoopStart(f) \/ ForceStart(f) \/ FlowEnd(f)
        PROVE  pc'[Main] \in Ended
    BY <1>0, <1>2, BesideSocket DEF Go
  <1>3. CASE RenewStart \/ RenewStep
    BY <1>0, <1>3, RenewGoes DEF Go
  <1>4. ~MainStep
    BY DEF Ended, MainStep, HeadStops, Head, HeadGoesOn, ClearToken, Relogin, Connect, Register,
           InitGoesOn, Ready, Disconnect
  <1>5. CASE Age \/ CalmDown \/ LockExpire \/ \E t \in Token : Kill(t)
    BY <1>5 DEF Age, CalmDown, LockExpire, Kill
  <1> QED BY <1>1, <1>2, <1>3, <1>4, <1>5 DEF Next, World

LEMMA LiveStep ==
  ASSUME TypeInv, TokenInv, IssuedInv, SwitchApart, LiveInv, [Next]_vars
  PROVE  LiveInv'
  <1>1. CASE UNCHANGED vars
    BY <1>1 DEF vars, memory, world, LiveInv, Fits, RowFits, FlowFits, Takes, Saves, Asks,
                First, Takeable, Linked, Fine, Nowhere, Current, Promoted, May
  <1>2. CASE Restart
    BY <1>2, RestartFits DEF LiveInv
  <1>3. CASE Next /\ ~Restart /\ ~bare' /\ pc'[Main] \notin Ended
    <2>1. ~bare /\ Fits
      BY <1>3, BareLasts, DoneLasts DEF LiveInv
    <2>2. ASSUME NEW f \in Instance, Refresh(f)
          PROVE  Fits'
      <3>1. CASE \E slider \in Sliders : CacheHit(f, slider)
        BY <2>1, <3>1, HitFits
      <3>2. CASE Use(f) \/ GetToken(f) \/ Save(f)
        BY <2>1, <3>2, UseFits, GetFits, SaveFits
      <3>3. CASE \/ Lock(f) \/ Unlock(f) \/ RefreshDisabled(f)
                 \/ \E slider \in Sliders : CacheUnread(f, slider) \/ CacheMiss(f, slider)
                 \/ SliderUnknown(f) \/ CloseSocket(f) \/ LockTimeout(f) \/ ApiFails(f)
                 \/ ApiTokenExpired(f) \/ ApiCaptcha(f) \/ ApiSessionOver(f)
        BY <2>1, <2>2, <3>3, RefreshTame, TameFits
      <3> QED BY <2>2, <3>1, <3>2, <3>3 DEF Refresh
    <2>3. ASSUME NEW f \in Instance, LoopStart(f) \/ ForceStart(f) \/ FlowEnd(f)
          PROVE  Fits'
      BY <2>1, <2>3, BesideTame, TameFits
    <2>4. CASE RenewStart \/ RenewStep
      BY <2>1, <2>4, RenewTame, TameFits, RenewFits DEF RenewStep, LiveInv
    <2>5. CASE MainStep
      BY <1>3, <2>1, <2>5, MainFits DEF LiveInv
    <2>6. CASE Age \/ CalmDown \/ LockExpire \/ \E t \in Token : Kill(t)
      BY <2>1, <2>6, WorldTame, TameFits DEF LiveInv
    <2> QED BY <1>3, <2>2, <2>3, <2>4, <2>5, <2>6 DEF Next, World, LiveInv
  <1> QED BY <1>1, <1>2, <1>3 DEF LiveInv

LEMMA LiveInit == Init => LiveInv
  <1> SUFFICES ASSUME Init PROVE Fits
    BY DEF LiveInv
  <1>1. cur = NoToken /\ ~Linked
    BY DEF Init, Linked, NoSocket
  <1>2. \A f \in Instance : pc[f] \in {"head", "off", "idle"}
    BY DEF Init, Flows
  <1> QED BY <1>1, <1>2 DEF Fits, RowFits, FlowFits, Asks

(* Between two refreshes of it, a connection in use has registered the token
   in memory, unless a flow has gone on without the lock, or the renewal task
   wrote that token into a row that was still good: on every path that changes
   the token, _refresh_token_with_lock closes the socket, and what it compares
   the token with, _cached_token_in_use, is never behind the connection.  It
   needs that failing writes do not come with a captcha switch that is on or
   cannot be read: then the row left by a failed write may be taken again, and
   no flow closes the connection for it. *)
THEOREM ConnectionHasTheToken ==
  ASSUME SwitchApart
  PROVE  Spec => []LiveTokenCurrent
  <1>1. ASSUME WiredInv, LiveInv
        PROVE  LiveTokenCurrent
    <2> SUFFICES ASSUME ws.st = "up", cur # NoToken, Quiet, ~bare
                 PROVE  ws.token = cur \/ cur \in renewed
      BY DEF LiveTokenCurrent
    <2>1. Linked /\ pc[Main] = "listen" /\ pc[Main] \notin Ended
      BY <1>1 DEF WiredInv, Linked, Ended
    <2>2. Nowhere({"save", "close"})
      BY <2>1 DEF Nowhere, Quiet, Instance
    <2>3. RowFits
      BY <1>1, <2>1 DEF LiveInv, Fits
    <2> QED BY <2>1, <2>2, <2>3 DEF RowFits, Fine
  <1>2. TypeInv /\ TokenInv /\ IssuedInv /\ LiveInv /\ [Next]_vars => LiveInv'
    BY LiveStep
  <1> QED BY <1>1, <1>2, InitTypes, NextTypes, InitHolds, NextHolds, IssuedInit, IssuedStep,
             WiredInit, WiredStep, LiveInit, PTL DEF Spec

=============================================================================
