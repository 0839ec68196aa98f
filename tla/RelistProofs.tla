----------------------------- MODULE RelistProofs -----------------------------
(***************************************************************************)
(* Theorems about Relisting, for any number of workers and orders, any     *)
(* number of attempts and listings, and any budget of saves and mishaps.   *)
(***************************************************************************)
EXTENDS Relisting, TLAPS

EventType ==
  [status : Statuses, attempts : 0 .. MaxAttempts, token : Workers \cup {Nil},
   leased : BOOLEAN, pub : {"not_started", "submitted", "unknown", "succeeded"},
   item : Listings \cup {Nil}, old : Items \cup {Nil}]
RuleType ==
  [enabled : BOOLEAN, item : Items, version : Nat,
   status : {"active", "waiting", "retrying", "error", "paused", "disabled"}]
LogType == [status : {"none", "publishing", "failed", "success"},
            item : Listings \cup {Nil}]
JobType == [ord : Orders \cup {Nil}, done : BOOLEAN, seen : Nat,
            answer : {"none", "ok", "refused", "lost"}, item : Listings \cup {Nil}]

\* No item, or a listing the platform made for the order.
Own(o) == {Nil} \cup {<<o, k>> : k \in 1 .. listed[o]}

\* The item of an event is its own, it is there once publishing succeeded, and
\* an event that is checked to be published has an enabled rule.
EventFits(o) ==
  /\ event[o].item \in Own(o)
  /\ event[o].pub = "succeeded" => event[o].item # Nil
  /\ event[o].status = "checking" => event[o].pub = "succeeded" \/ rule.enabled
LogFits(o) ==
  /\ log[o].item \in Own(o) /\ (log[o].status = "success" => log[o].item # Nil)
  /\ blind[o] <= listed[o]

\* Where a worker has an event, and where it has not asked the platform yet.
Busy  == Steps \ {"idle", "mark", "recover", "discover", "insert", "next"}
Early == {"lock", "fetch", "still", "enter"}

\* A worker that is to migrate has the event's new item; one that is to publish
\* read that the event has published nothing, and so it stays while it holds it.
Fits(w) ==
  pc[w] \in Busy =>
    /\ loc[w].ord \in Orders /\ loc[w].item \in Own(loc[w].ord)
    /\ \/ pc[w] \in {"lock", "fetch"} /\ loc[w].done
       \/ pc[w] \in {"migrate", "cas"}
       \/ pc[w] \in {"record", "persist"} /\ loc[w].answer = "ok"
       => loc[w].item # Nil
    /\ pc[w] \in {"still", "enter"} => ~loc[w].done
    /\ pc[w] \in Early /\ ~loc[w].done /\ Holds(w, loc[w].ord, {"checking"})
         => event[loc[w].ord].pub # "succeeded"

RelistInv ==
  /\ TypeOK
  /\ \A o \in Orders : EventFits(o) /\ LogFits(o)
  /\ \A w \in Workers : Fits(w)

\* What the two action properties ask of a step.
Kept ==
  \A o \in Orders :
    /\ event[o].status # "publishing" /\ event'[o].status = "publishing" => rule.enabled
    /\ event[o].status # "success" /\ event'[o].status = "success" =>
         rule.item = event[o].old /\ \E k \in 1 .. listed[o] : rule'.item = <<o, k>>

\* A step that begins, publishes and finishes nothing: most of them.
Hot == {"checking", "publishing", "success"}
Calm ==
  /\ event' \in [Orders -> EventType] /\ rule' \in RuleType
  /\ \A o \in Orders :
       /\ event'[o].item \in {event[o].item, Nil}
       /\ event'[o].pub = "succeeded" =>
            event[o].pub = "succeeded" /\ event'[o].item = event[o].item
       /\ event'[o].status \in Hot => /\ event'[o].status = event[o].status
                                      /\ event'[o].token = event[o].token
                                      /\ event'[o].pub = event[o].pub
       /\ event'[o].status = "checking" /\ rule.enabled => rule'.enabled

-----------------------------------------------------------------------------
(* Calm steps *)

\* A calm step keeps the invariant, types aside, if the workers fit after it.
LEMMA CalmStep ==
  ASSUME RelistInv, Calm, log' = log, listed' = listed, blind' = blind,
         \A v \in Workers : (pc'[v] = pc[v] /\ loc'[v] = loc[v]) \/ Fits(v)'
  PROVE  /\ \A o \in Orders : EventFits(o)' /\ LogFits(o)'
         /\ \A v \in Workers : Fits(v)'
         /\ Kept
  <1>1. \A o \in Orders : EventFits(o)' /\ LogFits(o)'
    BY DEF RelistInv, Calm, EventFits, LogFits, Own, Hot
  <1>2. ASSUME NEW v \in Workers, pc'[v] = pc[v], loc'[v] = loc[v]
        PROVE  Fits(v)'
    BY <1>2 DEF RelistInv, Fits, Calm, Own, Hot, Holds
  <1>3. Kept
    BY DEF Kept, Calm, Hot
  <1> QED BY <1>1, <1>2, <1>3

\* The step of a worker that goes on with what it has, or leaves the event.
LEMMA CalmMove ==
  ASSUME RelistInv, Calm, log' = log, listed' = listed, blind' = blind,
         NEW w \in Workers, NEW p \in Steps, Go(w, p),
         p \in Busy => /\ pc[w] \in Busy /\ loc'[w] = loc[w]
                       /\ p \in {"fetch", "still", "enter", "migrate", "cas", "after"}
                       /\ p \in {"still", "enter"} => ~loc[w].done /\ pc[w] \in Early
                       /\ p = "fetch" => pc[w] = "lock"
                       /\ p = "cas" => pc[w] = "migrate"
                       /\ p = "migrate" => pc[w] = "fetch" /\ loc[w].done,
         \A v \in Workers \ {w} : loc'[v] = loc[v]
  PROVE  /\ \A o \in Orders : EventFits(o)' /\ LogFits(o)'
         /\ \A v \in Workers : Fits(v)'
         /\ Kept /\ pc' \in [Workers -> Steps]
  <1>1. pc' \in [Workers -> Steps] /\ pc'[w] = p
        /\ \A v \in Workers \ {w} : pc'[v] = pc[v]
    BY DEF RelistInv, TypeOK, Go
  <1>2. Fits(w)'
    BY <1>1 DEF RelistInv, Fits, Calm, Own, Hot, Holds, Early, Busy
  <1> QED BY <1>1, <1>2, CalmStep

LEMMA KeepCalm ==
  ASSUME RelistInv, KeepRows
  PROVE  Calm
  BY DEF RelistInv, TypeOK, Calm, KeepRows, EventType, RuleType

LEMMA PutCalm ==
  ASSUME RelistInv, NEW o \in Orders, NEW status \in Statuses \ Hot, Put(o, status),
         rule' \in RuleType, rule'.enabled = rule.enabled
  PROVE  Calm
  <1> DEFINE e == [Released(event[o]) EXCEPT !.status = status]
  <1>1. event[o] \in EventType
    BY DEF RelistInv, TypeOK, EventType
  <1>2. /\ e \in EventType /\ e.item = event[o].item /\ e.pub = event[o].pub
        /\ e.status = status
    BY <1>1 DEF Released, EventType
  <1>3. event' = [event EXCEPT ![o] = e]
    BY DEF Put, SetEvent
  <1> HIDE DEF e
  <1>4. \A p \in Orders : event'[p] = IF p = o THEN e ELSE event[p]
    BY <1>3 DEF RelistInv, TypeOK
  <1>5. event' \in [Orders -> EventType]
    BY <1>2, <1>3 DEF RelistInv, TypeOK, EventType
  <1> QED BY <1>2, <1>4, <1>5 DEF Calm, Hot

LEMMA RuleTypes ==
  ASSUME RelistInv, NEW o \in Orders,
         NEW status \in {"active", "waiting", "retrying", "error", "paused", "disabled"}
  PROVE  RuleOf(o, status) \in RuleType /\ RuleOf(o, status).enabled = rule.enabled
  BY DEF RelistInv, TypeOK, RuleOf, RuleType

LEMMA RetryCalm ==
  ASSUME RelistInv, NEW o \in Orders, NEW t, ScheduleRetry(o, t)
  PROVE  Calm
  <1>1. ASSUME Put(o, "failed"), rule' = RuleOf(o, "error")  PROVE Calm
    BY <1>1, PutCalm, RuleTypes DEF Statuses, Hot
  <1>2. ASSUME Put(o, "retry"), rule' = RuleOf(o, "retrying")  PROVE Calm
    BY <1>2, PutCalm, RuleTypes DEF Statuses, Hot, Open, Due
  <1> QED BY <1>1, <1>2, KeepCalm DEF ScheduleRetry

LEMMA MigrationCalm ==
  ASSUME RelistInv, NEW o \in Orders, NEW t, ScheduleMigration(o, t)
  PROVE  Calm
  <1>1. ASSUME Put(o, "migration_retry"),
               rule' = IF rule.enabled THEN RuleOf(o, "retrying")
                       ELSE [rule EXCEPT !.status = "disabled"]
        PROVE  Calm
    <2>1. rule' \in RuleType /\ rule'.enabled = rule.enabled
      BY <1>1, RuleTypes DEF RelistInv, TypeOK, RuleType
    <2> QED BY <1>1, <2>1, PutCalm DEF Statuses, Hot, Open, Due
  <1> QED BY <1>1, KeepCalm DEF ScheduleMigration

LEMMA ScheduleCalm ==
  ASSUME RelistInv, NEW o \in Orders, NEW t, NEW done, Schedule(done, o, t)
  PROVE  Calm
  BY RetryCalm, MigrationCalm DEF Schedule

LEMMA SkipCalm ==
  ASSUME RelistInv, NEW o \in Orders, NEW w \in Workers, SkipEvent(o, w)
  PROVE  Calm
  <1>1. rule' \in RuleType /\ rule'.enabled = rule.enabled
    BY DEF RelistInv, TypeOK, SkipEvent, RuleType
  <1>2. ASSUME Put(o, "skipped")  PROVE Calm
    BY <1>1, <1>2, PutCalm DEF Statuses, Hot
  <1> QED BY <1>2, KeepCalm DEF SkipEvent, KeepRows

LEMMA PauseCalm ==
  ASSUME RelistInv, NEW o \in Orders, NEW w \in Workers, PauseEvent(o, w)
  PROVE  Calm
  <1>1. ASSUME Put(o, "paused"), rule' = RuleOf(o, "paused")  PROVE Calm
    BY <1>1, PutCalm, RuleTypes DEF Statuses, Hot
  <1> QED BY <1>1, KeepCalm DEF PauseEvent

\* A lease that is renewed, or runs out.
LEMMA LeaseCalm ==
  ASSUME RelistInv, NEW o \in Orders, NEW b \in BOOLEAN,
         SetEvent(o, [event[o] EXCEPT !.leased = b]), rule' = rule
  PROVE  Calm
  <1> DEFINE e == [event[o] EXCEPT !.leased = b]
  <1>0. event[o] \in EventType
    BY DEF RelistInv, TypeOK, EventType
  <1>1. /\ e \in EventType /\ e.item = event[o].item /\ e.pub = event[o].pub
        /\ e.status = event[o].status /\ e.token = event[o].token
    <2>1. CASE b = TRUE
      BY <1>0, <2>1 DEF EventType
    <2>2. CASE b = FALSE
      BY <1>0, <2>2 DEF EventType
    <2> QED BY <2>1, <2>2
  <1>2. event' = [event EXCEPT ![o] = e]
    BY DEF SetEvent
  <1> HIDE DEF e
  <1>3. \A p \in Orders : event'[p] = IF p = o THEN e ELSE event[p]
    BY <1>2 DEF RelistInv, TypeOK
  <1>4. event' \in [Orders -> EventType] /\ rule' \in RuleType
    BY <1>1, <1>2 DEF RelistInv, TypeOK, EventType, RuleType
  <1> QED BY <1>1, <1>3, <1>4 DEF Calm, Hot

\* What else a calm step has to type.
LEMMA CalmTypes ==
  ASSUME RelistInv, Calm, UNCHANGED <<sale, log, listed, blind>>,
         fresh' \subseteq Orders,
         {runner', account'} \subseteq Workers \cup {Nil, Dead},
         pc' \in [Workers -> Steps], loc' \in [Workers -> JobType],
         reading' \in [Workers -> [Orders ->
           {"none", "keep", "retry", "migration_retry", "unknown"}]],
         todo' \in [Workers -> SUBSET Orders],
         {edits', mishaps'} \subseteq Nat, late' \subseteq Orders
  PROVE  TypeOK'
  BY DEF RelistInv, TypeOK, Calm, EventType, RuleType, JobType

LEMMA NoJobType == NoJob \in JobType
  BY DEF NoJob, JobType

LEMMA MishapType == ASSUME RelistInv, Mishap PROVE mishaps' \in Nat
  BY DEF Mishap, RelistInv, TypeOK

LEMMA LeaveTypes ==
  ASSUME RelistInv, NEW w \in Workers, LeaveEvent(w)
  PROVE  /\ Go(w, "next") /\ "next" \in Steps /\ "next" \notin Busy
         /\ loc' \in [Workers -> JobType]
         /\ \A v \in Workers \ {w} : loc'[v] = loc[v]
  BY NoJobType DEF LeaveEvent, RelistInv, TypeOK, JobType, Steps, Busy
-----------------------------------------------------------------------------
(* The actions of a round *)

LEMMA VerdictTypes ==
  ASSUME NEW e
  PROVE  Verdict(e) \in {"none", "retry", "migration_retry", "unknown"}
  BY DEF Verdict

LEMMA StartHolds ==
  ASSUME RelistInv, NEW w \in Workers, Start(w)
  PROVE  RelistInv' /\ Kept
  <1>1. Calm
    BY KeepCalm DEF Start, rows, KeepRows
  <1>2. Go(w, "recover") /\ "recover" \in Steps /\ "recover" \notin Busy
    BY DEF Start, Steps, Busy
  <1>3. log' = log /\ listed' = listed /\ blind' = blind /\ loc' = loc
    BY DEF Start, rows
  <1>4. /\ \A o \in Orders : EventFits(o)' /\ LogFits(o)'
        /\ \A v \in Workers : Fits(v)'
        /\ Kept /\ pc' \in [Workers -> Steps]
    BY <1>1, <1>2, <1>3, CalmMove
  <1>5. reading' \in [Workers -> [Orders ->
          {"none", "keep", "retry", "migration_retry", "unknown"}]]
    <2> DEFINE r == [o \in Orders |-> Verdict(event[o])]
    <2>1. r \in [Orders -> {"none", "keep", "retry", "migration_retry", "unknown"}]
      BY VerdictTypes
    <2>2. reading' = [reading EXCEPT ![w] = r]
      BY DEF Start
    <2> HIDE DEF r
    <2> QED BY <2>1, <2>2 DEF RelistInv, TypeOK
  <1>6. TypeOK'
    BY <1>1, <1>4, <1>5, CalmTypes DEF Start, rows, bounds, RelistInv, TypeOK, JobType
  <1> QED BY <1>4, <1>6 DEF RelistInv

\* An event that a recovery takes back is calm.
LEMMA RecoveredCalm ==
  ASSUME RelistInv, NEW o \in Orders,
         NEW v \in {"retry", "migration_retry", "unknown", "keep"}, v # "keep"
  PROVE  LET e == Recovered(event[o], v) IN
           /\ e \in EventType /\ e.status = v /\ e.item = event[o].item
           /\ e.pub = "succeeded" => event[o].pub = "succeeded"
  <1>1. event[o] \in EventType
    BY DEF RelistInv, TypeOK, EventType
  <1>2. v \in Statuses
    BY DEF Statuses, Open, Due
  <1>3. CASE v = "retry"
    BY <1>1, <1>2, <1>3 DEF Recovered, Released, EventType
  <1>4. CASE v = "unknown"
    BY <1>1, <1>2, <1>4 DEF Recovered, Released, EventType
  <1>5. CASE v = "migration_retry"
    BY <1>1, <1>2, <1>5 DEF Recovered, Released, EventType
  <1> QED BY <1>3, <1>4, <1>5

\* What a recovery is to make of an event is one of its three verdicts.
Reads ==
  /\ pc \in [Workers -> Steps]
  /\ reading \in [Workers -> [Orders ->
       {"none", "keep", "retry", "migration_retry", "unknown"}]]
  /\ \A w \in Workers : pc[w] = "recover" => \A o \in Orders : reading[w][o] # "keep"

LEMMA RecoverHolds ==
  ASSUME RelistInv, Reads, NEW w \in Workers, Recover(w)
  PROVE  RelistInv' /\ Kept
  <1> DEFINE hit  == {o \in Orders : reading[w][o] # "none" /\ Expired(event[o])}
             e(o) == Recovered(event[o], reading[w][o])
  <1>1. ASSUME NEW o \in hit
        PROVE  /\ e(o) \in EventType /\ e(o).status \notin Hot
               /\ e(o).item = event[o].item
               /\ e(o).pub = "succeeded" => event[o].pub = "succeeded"
    <2>1. reading[w][o] \in {"retry", "migration_retry", "unknown"} /\ o \in Orders
      BY DEF Recover, Reads
    <2> QED BY <2>1, RecoveredCalm DEF Hot
  <1>2. event' = [o \in Orders |-> IF o \in hit THEN e(o) ELSE event[o]]
    BY DEF Recover
  <1>3. rule' \in RuleType /\ rule'.enabled = rule.enabled
    <2>1. ASSUME NEW o \in hit, NEW s \in {"error", "retrying"}, rule' = RuleOf(o, s)
          PROVE  rule' \in RuleType /\ rule'.enabled = rule.enabled
      BY <2>1, RuleTypes
    <2>2. ASSUME rule' = rule  PROVE rule' \in RuleType /\ rule'.enabled = rule.enabled
      BY <2>2 DEF RelistInv, TypeOK, RuleType
    <2> QED BY <2>1, <2>2 DEF Recover
  <1>4. Calm
    <2> HIDE DEF hit, e
    <2>1. \A o \in Orders : event[o] \in EventType
      BY DEF RelistInv, TypeOK, EventType
    <2>2. event' \in [Orders -> EventType]
      BY <1>1, <1>2, <2>1
    <2>3. \A o \in Orders : event'[o] = IF o \in hit THEN e(o) ELSE event[o]
      BY <1>2
    <2> QED BY <1>1, <1>3, <2>2, <2>3 DEF Calm, Hot
  <1>5. Go(w, "discover") /\ "discover" \in Steps /\ "discover" \notin Busy
    BY DEF Recover, Steps, Busy
  <1>6. log' = log /\ listed' = listed /\ blind' = blind /\ loc' = loc
    BY DEF Recover
  <1>7. /\ \A o \in Orders : EventFits(o)' /\ LogFits(o)'
        /\ \A v \in Workers : Fits(v)'
        /\ Kept /\ pc' \in [Workers -> Steps]
    BY <1>4, <1>5, <1>6, CalmMove
  <1>8. reading' \in [Workers -> [Orders ->
          {"none", "keep", "retry", "migration_retry", "unknown"}]]
    BY DEF Recover, RelistInv, TypeOK, Nothing
  <1>9. TypeOK'
    BY <1>4, <1>7, <1>8, CalmTypes DEF Recover, locks, bounds, RelistInv, TypeOK, JobType
  <1> QED BY <1>7, <1>9 DEF RelistInv

\* A worker turns to the events that are due.
LEMMA ReadDueMoves ==
  ASSUME RelistInv, NEW w \in Workers, ReadDue(w)
  PROVE  /\ Go(w, "next") /\ "next" \in Steps /\ "next" \notin Busy
         /\ todo' \in [Workers -> SUBSET Orders]
  BY DEF ReadDue, RelistInv, TypeOK, Steps, Busy

LEMMA DiscoverHolds ==
  ASSUME RelistInv, NEW w \in Workers, Discover(w)
  PROVE  RelistInv' /\ Kept
  <1>1. Calm
    BY KeepCalm DEF Discover, KeepRows
  <1>2. log' = log /\ listed' = listed /\ blind' = blind /\ loc' = loc
    BY DEF Discover
  <1>3. /\ \E p \in Steps \ Busy : Go(w, p)
        /\ todo' \in [Workers -> SUBSET Orders]
    <2>1. CASE ReadDue(w)
      BY <2>1, ReadDueMoves
    <2>2. ASSUME NEW o \in Wanted, todo' = [todo EXCEPT ![w] = {o}], Go(w, "insert")
          PROVE  /\ \E p \in Steps \ Busy : Go(w, p)
                 /\ todo' \in [Workers -> SUBSET Orders]
      BY <2>2 DEF Wanted, Steps, Busy, RelistInv, TypeOK
    <2> QED BY <2>1, <2>2 DEF Discover
  <1>4. /\ \A o \in Orders : EventFits(o)' /\ LogFits(o)'
        /\ \A v \in Workers : Fits(v)'
        /\ Kept /\ pc' \in [Workers -> Steps]
    BY <1>1, <1>2, <1>3, CalmMove
  <1>5. TypeOK'
    BY <1>1, <1>3, <1>4, CalmTypes DEF Discover, locks, bounds, RelistInv, TypeOK, JobType
  <1> QED BY <1>4, <1>5 DEF RelistInv

LEMMA InsertHolds ==
  ASSUME RelistInv, NEW w \in Workers, Insert(w)
  PROVE  RelistInv' /\ Kept
  <1>1. PICK o \in Orders :
          /\ fresh' = fresh \ {o}
          /\ \/ /\ SetEvent(o, [NoEvent EXCEPT !.status = "pending", !.old = sale[o].item])
                /\ rule' \in {rule, [rule EXCEPT !.status = "waiting"]}
             \/ KeepRows
    BY DEF Insert, RelistInv, TypeOK
  <1>2. Calm
    <2>1. ASSUME SetEvent(o, [NoEvent EXCEPT !.status = "pending", !.old = sale[o].item]),
                 rule' \in {rule, [rule EXCEPT !.status = "waiting"]}
          PROVE  Calm
      <3> DEFINE e == [NoEvent EXCEPT !.status = "pending", !.old = sale[o].item]
      <3>1. /\ e \in EventType /\ e.status = "pending" /\ e.item = Nil
            /\ e.pub = "not_started"
        <4>1. "pending" \in Statuses /\ sale[o].item \in Items \cup {Nil}
              /\ 0 \in 0 .. MaxAttempts
          BY RelistAssumption DEF Statuses, Open, Due, RelistInv, TypeOK
        <4> QED BY <4>1 DEF NoEvent, EventType
      <3>2. event' = [event EXCEPT ![o] = e]
        BY <2>1 DEF SetEvent
      <3> HIDE DEF e
      <3>3. \A p \in Orders : event'[p] = IF p = o THEN e ELSE event[p]
        BY <3>2 DEF RelistInv, TypeOK
      <3>4. event' \in [Orders -> EventType]
        BY <3>1, <3>2 DEF RelistInv, TypeOK, EventType
      <3>5. rule' \in RuleType /\ rule'.enabled = rule.enabled
        BY <2>1 DEF RelistInv, TypeOK, RuleType
      <3> QED BY <3>1, <3>3, <3>4, <3>5 DEF Calm, Hot
    <2> QED BY <1>1, <2>1, KeepCalm
  <1>3. log' = log /\ listed' = listed /\ blind' = blind /\ loc' = loc
    BY DEF Insert
  <1>4. /\ Go(w, "next") /\ "next" \in Steps /\ "next" \notin Busy
        /\ todo' \in [Workers -> SUBSET Orders]
    BY ReadDueMoves DEF Insert
  <1>5. /\ \A q \in Orders : EventFits(q)' /\ LogFits(q)'
        /\ \A v \in Workers : Fits(v)'
        /\ Kept /\ pc' \in [Workers -> Steps]
    BY <1>2, <1>3, <1>4, CalmMove
  <1>6. fresh' \subseteq Orders
    BY <1>1 DEF RelistInv, TypeOK
  <1>7. TypeOK'
    BY <1>2, <1>4, <1>5, <1>6, CalmTypes
       DEF Insert, locks, bounds, RelistInv, TypeOK, JobType
  <1> QED BY <1>5, <1>7 DEF RelistInv

LEMMA FinishHolds ==
  ASSUME RelistInv, NEW w \in Workers, Finish(w)
  PROVE  RelistInv' /\ Kept
  <1>1. Calm
    BY KeepCalm DEF Finish, rows, KeepRows
  <1>2. Go(w, "idle") /\ "idle" \in Steps /\ "idle" \notin Busy
    BY DEF Finish, Steps, Busy
  <1>3. log' = log /\ listed' = listed /\ blind' = blind /\ loc' = loc
    BY DEF Finish, rows
  <1>4. /\ \A o \in Orders : EventFits(o)' /\ LogFits(o)'
        /\ \A v \in Workers : Fits(v)'
        /\ Kept /\ pc' \in [Workers -> Steps]
    BY <1>1, <1>2, <1>3, CalmMove
  <1>5. {runner', account'} \subseteq Workers \cup {Nil, Dead}
        /\ todo' \in [Workers -> SUBSET Orders]
    BY DEF Finish, RelistInv, TypeOK
  <1>6. TypeOK'
    BY <1>1, <1>4, <1>5, CalmTypes DEF Finish, rows, bounds, RelistInv, TypeOK, JobType
  <1> QED BY <1>4, <1>6 DEF RelistInv

LEMMA MarkReadHolds ==
  ASSUME RelistInv, NEW w \in Workers, MarkRead(w)
  PROVE  RelistInv' /\ Kept
  <1>1. Calm
    BY KeepCalm DEF MarkRead, rows, KeepRows
  <1>2. Go(w, "mark") /\ "mark" \in Steps /\ "mark" \notin Busy
    BY DEF MarkRead, Steps, Busy
  <1>3. log' = log /\ listed' = listed /\ blind' = blind /\ loc' = loc
    BY DEF MarkRead, rows
  <1>4. /\ \A o \in Orders : EventFits(o)' /\ LogFits(o)'
        /\ \A v \in Workers : Fits(v)'
        /\ Kept /\ pc' \in [Workers -> Steps]
    BY <1>1, <1>2, <1>3, CalmMove
  <1>5. reading' \in [Workers -> [Orders ->
          {"none", "keep", "retry", "migration_retry", "unknown"}]]
    BY DEF MarkRead, RelistInv, TypeOK
  <1>6. TypeOK'
    BY <1>1, <1>4, <1>5, MishapType, CalmTypes
       DEF MarkRead, rows, locks, RelistInv, TypeOK, JobType
  <1> QED BY <1>4, <1>6 DEF RelistInv

LEMMA MarkWriteHolds ==
  ASSUME RelistInv, NEW w \in Workers, MarkWrite(w)
  PROVE  RelistInv' /\ Kept
  <1>1. Calm
    <2> DEFINE e(o) == [event[o] EXCEPT !.status = "retry"]
    <2>1. ASSUME NEW o \in Orders
          PROVE  /\ e(o) \in EventType /\ e(o).status = "retry" /\ e(o).pub = event[o].pub
                 /\ e(o).item = event[o].item /\ event[o] \in EventType
      <3>1. event[o] \in EventType /\ "retry" \in Statuses
        BY DEF RelistInv, TypeOK, EventType, Statuses, Open, Due
      <3> QED BY <3>1 DEF EventType
    <2>2. event' = [o \in Orders |-> IF reading[w][o] = "retry" THEN e(o) ELSE event[o]]
      BY DEF MarkWrite
    <2>3. rule' \in RuleType /\ rule'.enabled = rule.enabled
      BY DEF MarkWrite, RelistInv, TypeOK, RuleType
    <2> HIDE DEF e
    <2>4. event' \in [Orders -> EventType]
      BY <2>1, <2>2
    <2>5. \A o \in Orders : event'[o] = IF reading[w][o] = "retry" THEN e(o) ELSE event[o]
      BY <2>2
    <2> QED BY <2>1, <2>3, <2>4, <2>5 DEF Calm, Hot
  <1>2. Go(w, "idle") /\ "idle" \in Steps /\ "idle" \notin Busy
    BY DEF MarkWrite, Steps, Busy
  <1>3. log' = log /\ listed' = listed /\ blind' = blind /\ loc' = loc
    BY DEF MarkWrite
  <1>4. /\ \A o \in Orders : EventFits(o)' /\ LogFits(o)'
        /\ \A v \in Workers : Fits(v)'
        /\ Kept /\ pc' \in [Workers -> Steps]
    BY <1>1, <1>2, <1>3, CalmMove
  <1>5. reading' \in [Workers -> [Orders ->
          {"none", "keep", "retry", "migration_retry", "unknown"}]]
    BY DEF MarkWrite, Nothing, RelistInv, TypeOK
  <1>6. TypeOK'
    BY <1>1, <1>4, <1>5, CalmTypes
       DEF MarkWrite, locks, bounds, RelistInv, TypeOK, JobType
  <1> QED BY <1>4, <1>6 DEF RelistInv

LEMMA ClaimHolds ==
  ASSUME RelistInv, NEW w \in Workers, NEW o \in Orders, Claim(w, o)
  PROVE  RelistInv' /\ Kept
  <1>1. todo' \in [Workers -> SUBSET Orders]
    BY DEF Claim, RelistInv, TypeOK
  <1>2. CASE Claimable(o)
    <2> DEFINE e == [event[o] EXCEPT !.status = "claimed", !.token = w, !.leased = TRUE]
               j == [NoJob EXCEPT !.ord = o]
    <2>1. /\ e \in EventType /\ e.status = "claimed" /\ e.pub = event[o].pub
          /\ e.item = event[o].item
      <3>1. event[o] \in EventType /\ "claimed" \in Statuses
        BY DEF RelistInv, TypeOK, EventType, Statuses, Open, Leased
      <3> QED BY <3>1 DEF EventType
    <2>2. j \in JobType /\ j.ord = o /\ j.item = Nil
      BY DEF NoJob, JobType
    <2>3. event' = [event EXCEPT ![o] = e] /\ loc' = [loc EXCEPT ![w] = j]
          /\ Go(w, "claimed") /\ reading' = Stale(o)
      BY <1>2 DEF Claim, SetEvent
    <2> HIDE DEF e, j
    <2>4. Calm
      <3>1. event' \in [Orders -> EventType] /\ rule' \in RuleType
        BY <2>1, <2>3 DEF Claim, RelistInv, TypeOK, EventType, RuleType
      <3>2. \A p \in Orders : event'[p] = IF p = o THEN e ELSE event[p]
        BY <2>3 DEF RelistInv, TypeOK
      <3> QED BY <2>1, <3>1, <3>2 DEF Claim, Calm, Hot
    <2>5. /\ pc' \in [Workers -> Steps] /\ pc'[w] = "claimed"
          /\ loc' \in [Workers -> JobType] /\ loc'[w] = j
          /\ \A v \in Workers \ {w} : pc'[v] = pc[v] /\ loc'[v] = loc[v]
      BY <2>2, <2>3 DEF Go, RelistInv, TypeOK, JobType, Steps
    <2>6. Fits(w)'
      BY <2>2, <2>5 DEF Fits, Own, Early, Holds
    <2>7. /\ \A p \in Orders : EventFits(p)' /\ LogFits(p)'
          /\ \A v \in Workers : Fits(v)'
          /\ Kept
      BY <2>4, <2>5, <2>6, CalmStep DEF Claim
    <2>8. reading' \in [Workers -> [Orders ->
            {"none", "keep", "retry", "migration_retry", "unknown"}]]
      BY <2>3 DEF Stale, RelistInv, TypeOK
    <2>9. TypeOK'
      BY <1>1, <2>4, <2>5, <2>8, CalmTypes DEF Claim, locks, bounds, RelistInv, TypeOK
    <2> QED BY <2>7, <2>9 DEF RelistInv
  <1>3. CASE ~Claimable(o)
    <2>1. Calm
      BY <1>3, KeepCalm DEF Claim, KeepRows
    <2>2. /\ \A p \in Orders : EventFits(p)' /\ LogFits(p)'
          /\ \A v \in Workers : Fits(v)'
          /\ Kept
      BY <1>3, <2>1, CalmStep DEF Claim
    <2>3. TypeOK'
      BY <1>1, <1>3, <2>1, CalmTypes DEF Claim, locks, bounds, RelistInv, TypeOK, JobType
    <2> QED BY <2>2, <2>3 DEF RelistInv
  <1> QED BY <1>2, <1>3

-----------------------------------------------------------------------------
(* The actions of one event, up to the call of the platform *)

\* A worker leaves its event by a calm step.
LEMMA LeaveHolds ==
  ASSUME RelistInv, Calm, NEW w \in Workers, LeaveEvent(w), KeepCheck,
         {runner', account'} \subseteq Workers \cup {Nil, Dead},
         {edits', mishaps'} \subseteq Nat, late' = late
  PROVE  RelistInv' /\ Kept
  <1>1. /\ \A p \in Orders : EventFits(p)' /\ LogFits(p)'
        /\ \A v \in Workers : Fits(v)'
        /\ Kept /\ pc' \in [Workers -> Steps]
    BY LeaveTypes, CalmMove DEF KeepCheck
  <1>2. TypeOK'
    BY <1>1, LeaveTypes, CalmTypes DEF KeepCheck, RelistInv, TypeOK
  <1> QED BY <1>1, <1>2 DEF RelistInv

\* A worker goes on with what it has, by a calm step.
LEMMA GoHolds ==
  ASSUME RelistInv, Calm, NEW w \in Workers,
         NEW p \in {"fetch", "still", "enter", "migrate", "cas", "after"}, Go(w, p),
         pc[w] \in Busy, loc' = loc,
         p \in {"still", "enter"} => ~loc[w].done /\ pc[w] \in Early,
         p = "fetch" => pc[w] = "lock",
         p = "cas" => pc[w] = "migrate",
         p = "migrate" => pc[w] = "fetch" /\ loc[w].done,
         KeepCheck,
         {runner', account'} \subseteq Workers \cup {Nil, Dead},
         {edits', mishaps'} \subseteq Nat, late' = late
  PROVE  RelistInv' /\ Kept
  <1>1. p \in Steps
    BY DEF Steps
  <1>2. /\ \A o \in Orders : EventFits(o)' /\ LogFits(o)'
        /\ \A v \in Workers : Fits(v)'
        /\ Kept /\ pc' \in [Workers -> Steps]
    BY <1>1, CalmMove DEF KeepCheck
  <1>3. TypeOK'
    BY <1>2, CalmTypes DEF KeepCheck, RelistInv, TypeOK, JobType
  <1> QED BY <1>2, <1>3 DEF RelistInv

LEMMA BeginHolds ==
  ASSUME RelistInv, NEW w \in Workers, NEW o \in Orders, o = loc[w].ord,
         Holds(w, o, {"claimed"}), Published(event[o]) \/ rule.enabled,
         Begin(w, o), KeepCheck, {runner', account'} \subseteq Workers \cup {Nil, Dead},
         {edits', mishaps'} \subseteq Nat, late' = late
  PROVE  RelistInv' /\ Kept
  <1> DEFINE n == IF event[o].attempts < MaxAttempts THEN event[o].attempts + 1
                  ELSE event[o].attempts
             i == IF Published(event[o]) THEN event[o].item ELSE Nil
             e == [event[o] EXCEPT !.status = "checking", !.attempts = n]
             j == [loc[w] EXCEPT !.done = Published(event[o]), !.seen = rule.version,
                                 !.item = i]
  <1>1. event[o] \in EventType /\ loc[w] \in JobType /\ rule \in RuleType
    BY DEF RelistInv, TypeOK, EventType, JobType, RuleType
  <1>2. /\ e \in EventType /\ e.status = "checking" /\ e.item = event[o].item
        /\ e.pub = event[o].pub /\ e.token = event[o].token
    <2>1. n \in 0 .. MaxAttempts /\ "checking" \in Statuses
      BY <1>1, RelistAssumption DEF EventType, Statuses, Open, Leased
    <2> HIDE DEF n
    <2> QED BY <1>1, <2>1 DEF EventType
  <1>3. /\ j \in JobType /\ j.ord = o /\ j.item = i /\ j.done = Published(event[o])
    <2>1. i \in Listings \cup {Nil} /\ rule.version \in Nat
      BY <1>1 DEF EventType, RuleType
    <2> HIDE DEF i
    <2>2. CASE Published(event[o])
      <3>1. j = [loc[w] EXCEPT !.done = TRUE, !.seen = rule.version, !.item = i]
        BY <2>2
      <3> QED BY <1>1, <2>1, <2>2, <3>1 DEF JobType
    <2>3. CASE ~Published(event[o])
      <3>0. Published(event[o]) = FALSE
        BY <2>3 DEF Published
      <3>1. j = [loc[w] EXCEPT !.done = FALSE, !.seen = rule.version, !.item = i]
        BY <3>0
      <3> QED BY <1>1, <2>1, <2>3, <3>1 DEF JobType
    <2> QED BY <2>2, <2>3
  <1>4. event' = [event EXCEPT ![o] = e] /\ loc' = [loc EXCEPT ![w] = j]
        /\ Go(w, "lock") /\ rule' = rule
    BY DEF Begin, SetEvent
  <1>5. i \in Own(o) /\ (Published(event[o]) => i # Nil)
    BY DEF RelistInv, EventFits, Published, Own
  <1> HIDE DEF e, j, i, n
  <1>6. \A p \in Orders : event'[p] = IF p = o THEN e ELSE event[p]
    BY <1>4 DEF RelistInv, TypeOK
  <1>7. /\ pc' \in [Workers -> Steps] /\ pc'[w] = "lock"
        /\ loc' \in [Workers -> JobType] /\ loc'[w] = j
        /\ \A v \in Workers \ {w} : pc'[v] = pc[v] /\ loc'[v] = loc[v]
    BY <1>3, <1>4 DEF Go, RelistInv, TypeOK, JobType, Steps
  <1>8. \A p \in Orders : EventFits(p)' /\ LogFits(p)'
    BY <1>2, <1>4, <1>6 DEF RelistInv, EventFits, LogFits, Published, Own, KeepCheck
  <1>9. Fits(w)'
    <2>1. i \in Own(o)'
      BY <1>5 DEF Own, KeepCheck
    <2>2. ~j.done => e.pub # "succeeded"
      BY <1>2, <1>3 DEF RelistInv, EventFits, Published
    <2>3. j.done => i # Nil
      BY <1>3, <1>5
    <2>4. loc'[w].ord = o /\ loc'[w].item = i /\ loc'[w].done = j.done /\ event'[o] = e
      BY <1>3, <1>6, <1>7
    <2> QED BY <1>7, <2>1, <2>2, <2>3, <2>4 DEF Fits, Early
  <1>10. ASSUME NEW v \in Workers \ {w}  PROVE Fits(v)'
    BY <1>2, <1>6, <1>7 DEF Fits, Own, KeepCheck, RelistInv, Holds, Early
  <1>11. Kept
    BY <1>2, <1>6 DEF Kept
  <1>12. TypeOK'
    BY <1>1, <1>2, <1>4, <1>7 DEF RelistInv, TypeOK, EventType, JobType, KeepCheck
  <1> QED BY <1>8, <1>9, <1>10, <1>11, <1>12 DEF RelistInv

\* A busy worker has an order.
LEMMA BusyOrder ==
  ASSUME RelistInv, NEW w \in Workers, pc[w] \in Busy
  PROVE  loc[w].ord \in Orders
  BY DEF RelistInv, Fits

LEMMA CheckHolds ==
  ASSUME RelistInv, NEW w \in Workers, Check(w)
  PROVE  RelistInv' /\ Kept
  <1> DEFINE o == loc[w].ord
  <1>1. o \in Orders
    BY BusyOrder DEF Check, At, Busy, Steps
  <1>2. KeepCheck /\ UNCHANGED <<locks, edits, late>> /\ mishaps' \in Nat
    BY MishapType DEF Check, RelistInv, TypeOK
  <1>3. /\ {runner', account'} \subseteq Workers \cup {Nil, Dead}
        /\ {edits', mishaps'} \subseteq Nat /\ late' = late
    BY <1>2 DEF locks, RelistInv, TypeOK
  <1>4. CASE Calm /\ LeaveEvent(w)
    BY <1>2, <1>3, <1>4, LeaveHolds
  <1>5. CASE /\ Holds(w, o, {"claimed"}) /\ Begin(w, o)
             /\ Published(event[o]) \/ rule.enabled
    BY <1>1, <1>2, <1>3, <1>5, BeginHolds
  <1>6. CheckFails(w, o) => Calm
    BY <1>1, SkipCalm, PauseCalm DEF CheckFails
  <1>7. ScheduleMigration(o, w) => Calm
    BY <1>1, MigrationCalm
  <1> QED BY <1>4, <1>5, <1>6, <1>7, KeepCalm DEF Check

LEMMA LockHolds ==
  ASSUME RelistInv, NEW w \in Workers, Lock(w)
  PROVE  RelistInv' /\ Kept
  <1> DEFINE o == loc[w].ord
  <1>1. o \in Orders /\ pc[w] = "lock" /\ pc[w] \in Busy
    BY BusyOrder DEF Lock, At, Busy, Steps
  <1>2. /\ KeepCheck /\ {edits', mishaps'} \subseteq Nat /\ late' = late
        /\ {runner', account'} \subseteq Workers \cup {Nil, Dead}
    BY MishapType DEF Lock, RelistInv, TypeOK
  <1>3. CASE Schedule(loc[w].done, o, w) /\ LeaveEvent(w)
    BY <1>1, <1>2, <1>3, ScheduleCalm, LeaveHolds
  <1>4. CASE /\ SetEvent(o, [event[o] EXCEPT !.leased = TRUE]) /\ Go(w, "fetch")
             /\ rule' = rule /\ loc' = loc
    BY <1>1, <1>2, <1>4, LeaseCalm, GoHolds
  <1>5. CASE event' = event /\ rule' = rule /\ loc' = loc /\ Go(w, "after")
    BY <1>1, <1>2, <1>5, KeepCalm, GoHolds DEF KeepRows
  <1> QED BY <1>3, <1>4, <1>5 DEF Lock

\* A worker that has read the rule again goes on, by a calm step.
LEMMA SeenHolds ==
  ASSUME RelistInv, Calm, NEW w \in Workers, pc[w] = "fetch",
         NEW seen \in Nat, loc' = [loc EXCEPT ![w].seen = seen],
         NEW p \in {"still", "enter", "migrate", "after"}, Go(w, p),
         p \in {"still", "enter"} => ~loc[w].done,
         p = "migrate" => loc[w].done,
         KeepCheck,
         {runner', account'} \subseteq Workers \cup {Nil, Dead},
         {edits', mishaps'} \subseteq Nat, late' = late
  PROVE  RelistInv' /\ Kept
  <1> DEFINE j == [loc[w] EXCEPT !.seen = seen]
  <1>1. PICK o \in Orders : o = loc[w].ord
    BY BusyOrder DEF Busy, Steps
  <1>2. /\ j \in JobType /\ j.ord = o /\ j.item = loc[w].item
        /\ j.done = loc[w].done
    <2>1. loc[w] \in JobType
      BY DEF RelistInv, TypeOK, JobType
    <2> QED BY <1>1, <2>1 DEF JobType
  <1>3. loc' = [loc EXCEPT ![w] = j]
    OBVIOUS
  <1> HIDE DEF j
  <1>4. pc' \in [Workers -> Steps] /\ pc'[w] = p
        /\ \A v \in Workers \ {w} : pc'[v] = pc[v]
    <2>1. p \in Steps
      BY DEF Steps
    <2> QED BY <2>1 DEF Go, RelistInv, TypeOK
  <1>5. /\ loc' \in [Workers -> JobType] /\ loc'[w] = j
        /\ \A v \in Workers \ {w} : loc'[v] = loc[v]
    <2>1. loc \in [Workers -> JobType]
      BY DEF RelistInv, TypeOK, JobType
    <2> QED BY <1>2, <1>3, <2>1
  <1>6. loc[w].item \in Own(o) /\ (loc[w].done => loc[w].item # Nil)
    BY <1>1 DEF RelistInv, Fits, Busy, Steps
  <1>7. j.item \in Own(o)' /\ (loc[w].done => j.item # Nil)
    BY <1>2, <1>6 DEF Own, KeepCheck
  <1>8. ~loc[w].done /\ Holds(w, o, {"checking"})' => event'[o].pub # "succeeded"
    BY <1>1 DEF RelistInv, Fits, Calm, Hot, Holds, Early, Busy, Steps
  <1>9. Fits(w)'
    BY <1>2, <1>4, <1>5, <1>7, <1>8 DEF Fits, Early
  <1>10. /\ \A q \in Orders : EventFits(q)' /\ LogFits(q)'
         /\ \A v \in Workers : Fits(v)'
         /\ Kept
    BY <1>4, <1>5, <1>9, CalmStep DEF KeepCheck
  <1>11. TypeOK'
    BY <1>4, <1>5, CalmTypes DEF KeepCheck, RelistInv, TypeOK
  <1> QED BY <1>10, <1>11 DEF RelistInv

LEMMA RecheckHolds ==
  ASSUME RelistInv, NEW w \in Workers, Recheck(w)
  PROVE  RelistInv' /\ Kept
  <1> DEFINE o == loc[w].ord
  <1>1. o \in Orders /\ pc[w] = "fetch" /\ pc[w] \in Busy /\ pc[w] \in Early
    BY BusyOrder DEF Recheck, At, Busy, Steps, Early
  <1>2. /\ KeepCheck /\ {edits', mishaps'} \subseteq Nat /\ late' = late
        /\ {runner', account'} \subseteq Workers \cup {Nil, Dead}
    BY MishapType DEF Recheck, RelistInv, TypeOK, locks
  <1>3. CASE Calm /\ Go(w, "after") /\ loc' = loc
    BY <1>1, <1>2, <1>3, GoHolds
  <1>4. ASSUME NEW seen \in Nat, loc' = [loc EXCEPT ![w].seen = seen], Calm,
               NEW p \in {"still", "enter", "migrate", "after"}, Go(w, p),
               p \in {"still", "enter"} => ~loc[w].done,
               p = "migrate" => loc[w].done
        PROVE  RelistInv' /\ Kept
    BY <1>1, <1>2, <1>4, SeenHolds
  <1>5. ASSUME NEW stale \in BOOLEAN,
               loc' = [loc EXCEPT ![w].seen = IF stale THEN @ ELSE rule.version]
        PROVE  \E seen \in Nat : loc' = [loc EXCEPT ![w].seen = seen]
    <2>1. (IF stale THEN loc[w].seen ELSE rule.version) \in Nat
      BY DEF RelistInv, TypeOK
    <2> QED BY <1>5, <2>1
  <1>6. /\ Schedule(loc[w].done, o, w) => Calm
        /\ SkipEvent(o, w) => Calm
        /\ PauseEvent(o, w) => Calm
        /\ KeepRows => Calm
        /\ SetEvent(o, [event[o] EXCEPT !.leased = TRUE]) /\ rule' = rule => Calm
    BY <1>1, ScheduleCalm, SkipCalm, PauseCalm, KeepCalm, LeaseCalm
  <1>7. CASE Schedule(loc[w].done, o, w) /\ Go(w, "after") /\ loc' = loc
    BY <1>3, <1>6, <1>7
  <1>8. CASE Go(w, "after") /\ KeepRows /\ loc' = loc
    BY <1>3, <1>6, <1>8
  <1>9. ASSUME NEW stale \in BOOLEAN,
               loc' = [loc EXCEPT ![w].seen = IF stale THEN @ ELSE rule.version],
               \/ SkipEvent(o, w) /\ Go(w, "after")
               \/ PauseEvent(o, w) /\ Go(w, "after")
               \/ /\ IF loc[w].done THEN Go(w, "migrate")
                     ELSE \E next \in {"still", "enter"} : Go(w, next)
                  /\ SetEvent(o, [event[o] EXCEPT !.leased = TRUE]) /\ rule' = rule
        PROVE  RelistInv' /\ Kept
    <2>1. PICK seen \in Nat : loc' = [loc EXCEPT ![w].seen = seen]
      BY <1>5, <1>9
    <2>2. CASE Calm /\ Go(w, "after")
      BY <1>4, <2>1, <2>2
    <2>3. CASE Calm /\ loc[w].done /\ Go(w, "migrate")
      BY <1>4, <2>1, <2>3
    <2>4. ASSUME Calm, ~loc[w].done, NEW p \in {"still", "enter"}, Go(w, p)
          PROVE  RelistInv' /\ Kept
      BY <1>4, <2>1, <2>4
    <2> QED BY <1>6, <1>9, <2>2, <2>3, <2>4
  <1> QED BY <1>7, <1>8, <1>9 DEF Recheck

LEMMA StillHolds ==
  ASSUME RelistInv, NEW w \in Workers, Still(w)
  PROVE  RelistInv' /\ Kept
  <1> DEFINE o == loc[w].ord
             n == IF event[o].attempts = 0 THEN 0 ELSE event[o].attempts - 1
             e == [Released(event[o]) EXCEPT !.status = "pending", !.attempts = n]
  <1>1. o \in Orders /\ pc[w] \in Busy
    BY BusyOrder DEF Still, At, Busy, Steps
  <1>2. event[o] \in EventType /\ "pending" \in Statuses
    BY <1>1 DEF RelistInv, TypeOK, EventType, Statuses, Open, Due
  <1>3. /\ e \in EventType /\ e.status = "pending" /\ e.item = event[o].item
        /\ e.pub = event[o].pub
    <2>1. n \in 0 .. MaxAttempts
      BY <1>2, RelistAssumption DEF EventType
    <2> HIDE DEF n
    <2> QED BY <1>2, <2>1 DEF Released, EventType
  <1>4. event' = [event EXCEPT ![o] = e]
    BY DEF Still, SetEvent, Released
  <1> HIDE DEF e
  <1>5. Calm
    <2>1. event' \in [Orders -> EventType] /\ rule' \in RuleType
          /\ rule'.enabled = rule.enabled
      BY <1>3, <1>4 DEF Still, RelistInv, TypeOK, EventType, RuleType
    <2>2. \A p \in Orders : event'[p] = IF p = o THEN e ELSE event[p]
      BY <1>4 DEF RelistInv, TypeOK
    <2> QED BY <1>3, <2>1, <2>2 DEF Calm, Hot
  <1>6. /\ KeepCheck /\ {edits', mishaps'} \subseteq Nat /\ late' = late /\ loc' = loc
        /\ {runner', account'} \subseteq Workers \cup {Nil, Dead} /\ Go(w, "after")
    BY DEF Still, KeepBounds, RelistInv, TypeOK, locks, bounds
  <1> QED BY <1>1, <1>5, <1>6, GoHolds

LEMMA EnterHolds ==
  ASSUME RelistInv, NEW w \in Workers, Enter(w)
  PROVE  RelistInv' /\ Kept
  <1> DEFINE o == loc[w].ord
             e == [event[o] EXCEPT !.status = "publishing", !.pub = "submitted"]
  <1>1. o \in Orders /\ pc[w] = "enter" /\ pc[w] \in Busy
    BY BusyOrder DEF Enter, At, Busy, Steps
  <1>2. /\ KeepCheck /\ {edits', mishaps'} \subseteq Nat /\ late' = late /\ loc' = loc
        /\ {runner', account'} \subseteq Workers \cup {Nil, Dead} /\ rule' = rule
    BY DEF Enter, KeepBounds, RelistInv, TypeOK, locks, bounds
  <1>3. CASE Holds(w, o, {"checking"})
    <2>1. event' = [event EXCEPT ![o] = e] /\ Go(w, "lookup")
      BY <1>3 DEF Enter, SetEvent
    <2>2. /\ e \in EventType /\ e.status = "publishing" /\ e.item = event[o].item
          /\ e.pub = "submitted"
      <3>1. event[o] \in EventType /\ "publishing" \in Statuses
        BY <1>1 DEF RelistInv, TypeOK, EventType, Statuses, Open, Leased
      <3> QED BY <3>1 DEF EventType
    <2> HIDE DEF e
    <2>3. \A p \in Orders : event'[p] = IF p = o THEN e ELSE event[p]
      BY <2>1 DEF RelistInv, TypeOK
    <2>4. rule.enabled
      BY <1>1, <1>3 DEF RelistInv, Fits, EventFits, Early, Holds
    <2>5. /\ pc' \in [Workers -> Steps] /\ pc'[w] = "lookup"
          /\ \A v \in Workers \ {w} : pc'[v] = pc[v]
      BY <2>1 DEF Go, RelistInv, TypeOK, Steps
    <2>6. \A p \in Orders : EventFits(p)' /\ LogFits(p)'
      BY <1>2, <2>2, <2>3 DEF RelistInv, EventFits, LogFits, Own, KeepCheck
    <2>7. \A v \in Workers : Fits(v)'
      BY <1>1, <1>2, <2>2, <2>3, <2>5 DEF RelistInv, Fits, Own, KeepCheck, Early, Holds
    <2>8. Kept
      BY <2>2, <2>3, <2>4 DEF Kept
    <2>9. TypeOK'
      BY <1>2, <2>1, <2>2, <2>5 DEF RelistInv, TypeOK, EventType, KeepCheck
    <2> QED BY <2>6, <2>7, <2>8, <2>9 DEF RelistInv
  <1>4. CASE ~Holds(w, o, {"checking"})
    <2>1. Calm /\ Go(w, "after")
      BY <1>2, <1>4, KeepCalm DEF Enter, KeepRows
    <2> QED BY <1>1, <1>2, <2>1, GoHolds
  <1> QED BY <1>3, <1>4

-----------------------------------------------------------------------------
(* The actions of execute_single_publish *)

\* The platform's listings and the log after a step of a publish.
PublishFits ==
  /\ {listed', blind'} \subseteq [Orders -> 0 .. MaxListings]
  /\ \A q \in Orders : listed[q] <= listed'[q]
  /\ log' \in [Orders -> LogType] /\ \A q \in Orders : LogFits(q)'

LEMMA OwnListings ==
  ASSUME RelistInv, NEW o \in Orders
  PROVE  Own(o) \subseteq Listings \cup {Nil}
  <1>1. listed[o] \in 0 .. MaxListings /\ MaxListings \in Nat
    BY RelistAssumption DEF RelistInv, TypeOK
  <1> QED BY <1>1 DEF Own, Listings

LEMMA OwnGrows ==
  ASSUME RelistInv, PublishFits, NEW o \in Orders
  PROVE  Own(o) \subseteq Own(o)'
  <1>1. listed[o] \in Nat /\ listed'[o] \in Nat /\ listed[o] <= listed'[o]
    BY RelistAssumption DEF RelistInv, TypeOK, PublishFits
  <1> QED BY <1>1 DEF Own

\* Nothing happened to the log or to the platform.
LEMMA SameLog ==
  ASSUME RelistInv, log' = log, listed' = listed, blind' = blind
  PROVE  PublishFits
  <1>1. \A q \in Orders : LogFits(q)'
    BY DEF RelistInv, LogFits, Own
  <1>2. \A q \in Orders : listed[q] <= listed'[q]
    BY RelistAssumption DEF RelistInv, TypeOK
  <1> QED BY <1>1, <1>2 DEF PublishFits, RelistInv, TypeOK, LogType

LEMMA AskHolds ==
  ASSUME RelistInv, PublishFits, KeepPublish, mishaps' \in Nat,
         NEW w \in Workers, NEW o \in Orders, o = loc[w].ord,
         NEW p \in {"reopen", "open", "call", "record", "persist"}, Go(w, p),
         NEW j \in JobType, loc' = [loc EXCEPT ![w] = j],
         j.ord = o, j.item \in Own(o)',
         p \in {"record", "persist"} /\ j.answer = "ok" => j.item # Nil
  PROVE  RelistInv' /\ Kept
  <1>1. pc' \in [Workers -> Steps] /\ pc'[w] = p
        /\ \A v \in Workers \ {w} : pc'[v] = pc[v]
    <2>1. p \in Steps
      BY DEF Steps
    <2> QED BY <2>1 DEF Go, RelistInv, TypeOK
  <1>2. loc' \in [Workers -> JobType] /\ loc'[w] = j
        /\ \A v \in Workers \ {w} : loc'[v] = loc[v]
    <2>1. loc \in [Workers -> JobType]
      BY DEF RelistInv, TypeOK, JobType
    <2> QED BY <2>1
  <1>3. event' = event /\ rule' = rule
    BY DEF KeepPublish
  <1>4. \A q \in Orders : EventFits(q)'
    BY <1>3, OwnGrows DEF RelistInv, EventFits
  <1>5. Fits(w)'
    BY <1>1, <1>2 DEF Fits, Early
  <1>6. ASSUME NEW v \in Workers \ {w}  PROVE Fits(v)'
    <2>1. CASE pc[v] \in Busy
      <3>1. loc[v].ord \in Orders
        BY <2>1, BusyOrder
      <3>2. Own(loc[v].ord) \subseteq Own(loc[v].ord)'
        <4>1. PICK q \in Orders : q = loc[v].ord
          BY <3>1
        <4>2. q = loc'[v].ord
          BY <1>2, <4>1
        <4>3. Own(q) \subseteq Own(q)'
          BY OwnGrows
        <4> QED BY <4>1, <4>2, <4>3
      <3> QED BY <1>1, <1>2, <1>3, <2>1, <3>2 DEF RelistInv, Fits, Holds
    <2>2. CASE pc[v] \notin Busy
      BY <1>1, <2>2 DEF Fits
    <2> QED BY <2>1, <2>2
  <1>7. Kept
    BY <1>3 DEF Kept
  <1>8. TypeOK'
    BY <1>1, <1>2 DEF KeepPublish, locks, PublishFits, LogType, JobType, RelistInv, TypeOK
  <1> QED BY <1>4, <1>5, <1>6, <1>7, <1>8 DEF RelistInv, PublishFits

\* A publish comes to an answer.
LEMMA AnswerHolds ==
  ASSUME RelistInv, PublishFits, KeepPublish, mishaps' \in Nat,
         NEW w \in Workers, NEW o \in Orders, o = loc[w].ord,
         NEW p \in {"record", "persist"}, Go(w, p),
         NEW a \in {"ok", "refused", "lost"}, NEW i, Answer(w, a, i),
         i \in Listings \cup {Nil}, i \in Own(o)', a = "ok" => i # Nil
  PROVE  RelistInv' /\ Kept
  <1> DEFINE j == [loc[w] EXCEPT !.answer = a, !.item = i]
  <1>1. j \in JobType /\ j.ord = o /\ j.answer = a /\ j.item = i
    <2>1. loc[w] \in JobType
      BY DEF RelistInv, TypeOK, JobType
    <2> QED BY <2>1 DEF JobType
  <1>2. loc' = [loc EXCEPT ![w] = j]
    BY DEF Answer, RelistInv, TypeOK
  <1> HIDE DEF j
  <1> QED BY <1>1, <1>2, AskHolds

\* A publish goes on.
LEMMA GoOnHolds ==
  ASSUME RelistInv, PublishFits, KeepPublish, mishaps' \in Nat,
         NEW w \in Workers, pc[w] \in Busy, loc' = loc,
         NEW p \in {"reopen", "open", "call"}, Go(w, p)
  PROVE  RelistInv' /\ Kept
  <1>1. PICK o \in Orders : o = loc[w].ord
    BY BusyOrder
  <1>2. loc[w] \in JobType /\ loc' = [loc EXCEPT ![w] = loc[w]]
    BY DEF RelistInv, TypeOK, JobType
  <1>3. PICK j \in JobType : j = loc[w]
    BY <1>2
  <1>4. j.item \in Own(o)
    BY <1>1, <1>3 DEF RelistInv, Fits
  <1>5. j.item \in Own(o)'
    BY <1>4, OwnGrows
  <1> QED BY <1>1, <1>2, <1>3, <1>5, AskHolds

LEMMA LookupHolds ==
  ASSUME RelistInv, NEW w \in Workers, Lookup(w)
  PROVE  RelistInv' /\ Kept
  <1>1. PICK o \in Orders : o = loc[w].ord
    BY BusyOrder DEF Lookup, At, Busy, Steps
  <1>2. /\ KeepPublish /\ PublishFits /\ mishaps' \in Nat
        /\ log' = log /\ listed' = listed /\ blind' = blind /\ pc[w] \in Busy
    BY SameLog DEF Lookup, At, Busy, Steps, RelistInv, TypeOK
  <1>3. PICK i : i = log[o].item
    OBVIOUS
  <1>4. i \in Listings \cup {Nil} /\ i \in Own(o)' /\ (log[o].status = "success" => i # Nil)
    BY <1>2, <1>3, OwnListings, OwnGrows DEF RelistInv, LogFits
  <1>5. CASE Answer(w, "ok", log[o].item) /\ log[o].status = "success" /\ Go(w, "persist")
    BY <1>1, <1>2, <1>3, <1>4, <1>5, AnswerHolds
  <1>6. CASE Answer(w, "lost", log[o].item) /\ Go(w, "persist")
    BY <1>1, <1>2, <1>3, <1>4, <1>6, AnswerHolds
  <1>7. CASE loc' = loc /\ \E p \in {"reopen", "open"} : Go(w, p)
    BY <1>2, <1>7, GoOnHolds
  <1> QED BY <1>1, <1>5, <1>6, <1>7 DEF Lookup

\* A log of the worker's order is written; the platform is not asked.
LEMMA LogWritten ==
  ASSUME RelistInv, NEW o \in Orders, NEW entry \in LogType,
         log' = [log EXCEPT ![o] = entry], listed' = listed, blind' = blind,
         entry.item \in Own(o), entry.status = "success" => entry.item # Nil
  PROVE  PublishFits
  <1>1. log \in [Orders -> LogType]
    BY DEF RelistInv, TypeOK, LogType
  <1>2. /\ log' \in [Orders -> LogType]
        /\ \A q \in Orders : log'[q] = IF q = o THEN entry ELSE log[q]
    BY <1>1
  <1>3. \A q \in Orders : LogFits(q)'
    BY <1>2 DEF RelistInv, LogFits, Own
  <1>4. \A q \in Orders : listed[q] <= listed'[q]
    BY RelistAssumption DEF RelistInv, TypeOK
  <1> QED BY <1>2, <1>3, <1>4 DEF PublishFits, RelistInv, TypeOK

LEMMA OpenLogHolds ==
  ASSUME RelistInv, NEW w \in Workers, OpenLog(w)
  PROVE  RelistInv' /\ Kept
  <1>1. PICK o \in Orders : o = loc[w].ord
    BY BusyOrder DEF OpenLog, At, Busy, Steps
  <1>2. /\ KeepPublish /\ mishaps' \in Nat /\ listed' = listed /\ blind' = blind
        /\ pc[w] \in Busy
    BY MishapType DEF OpenLog, At, Busy, Steps, RelistInv, TypeOK
  <1>3. ASSUME NEW status \in {"publishing", "failed"},
               log' = [log EXCEPT ![o].status = status]
        PROVE  PublishFits
    <2> DEFINE entry == [log[o] EXCEPT !.status = status]
    <2>1. log[o] \in LogType
      BY DEF RelistInv, TypeOK, LogType
    <2>2. entry \in LogType /\ entry.item = log[o].item /\ entry.status = status
      BY <2>1 DEF LogType
    <2>3. log' = [log EXCEPT ![o] = entry]
      BY <1>3
    <2> HIDE DEF entry
    <2> QED BY <1>2, <2>2, <2>3, LogWritten DEF RelistInv, LogFits
  <1>4. CASE /\ log' = [log EXCEPT ![o].status = "publishing"]
             /\ Go(w, "call") /\ loc' = loc
    BY <1>2, <1>3, <1>4, GoOnHolds
  <1>5. CASE /\ log' = [log EXCEPT ![o].status = "failed"]
             /\ Answer(w, "refused", Nil) /\ Go(w, "persist")
    BY <1>1, <1>2, <1>3, <1>5, AnswerHolds DEF Own
  <1> QED BY <1>1, <1>4, <1>5 DEF OpenLog

LEMMA OpenTakenHolds ==
  ASSUME RelistInv, NEW w \in Workers, OpenTaken(w)
  PROVE  RelistInv' /\ Kept
  <1>1. PICK o \in Orders : o = loc[w].ord
    BY BusyOrder DEF OpenTaken, At, Busy, Steps
  <1>2. /\ KeepPublish /\ PublishFits /\ mishaps' \in Nat /\ Go(w, "persist")
    BY SameLog DEF OpenTaken, RelistInv, TypeOK
  <1>3. PICK i : i = log[o].item
    OBVIOUS
  <1>4. i \in Listings \cup {Nil} /\ i \in Own(o)'
    BY <1>2, <1>3, OwnListings, OwnGrows DEF RelistInv, LogFits
  <1>5. \E a \in {"refused", "lost"} : Answer(w, a, i)
    BY <1>1, <1>3 DEF OpenTaken
  <1> QED BY <1>1, <1>2, <1>4, <1>5, AnswerHolds

LEMMA ReopenLogHolds ==
  ASSUME RelistInv, NEW w \in Workers, ReopenLog(w)
  PROVE  RelistInv' /\ Kept
  <1>1. PICK o \in Orders : o = loc[w].ord
    BY BusyOrder DEF ReopenLog, At, Busy, Steps
  <1>2. /\ KeepPublish /\ mishaps' \in Nat /\ listed' = listed /\ blind' = blind
        /\ pc[w] \in Busy
    BY MishapType DEF ReopenLog, At, Busy, Steps, RelistInv, TypeOK
  <1>3. CASE /\ log' = [log EXCEPT ![o] = [status |-> "publishing", item |-> Nil]]
             /\ Go(w, "call") /\ loc' = loc
    <2> DEFINE entry == [status |-> "publishing", item |-> Nil]
    <2>1. entry \in LogType /\ entry.item \in Own(o) /\ entry.status # "success"
      BY DEF LogType, Own
    <2> QED BY <1>2, <1>3, <2>1, LogWritten, GoOnHolds
  <1>4. CASE Answer(w, "refused", Nil) /\ Go(w, "persist") /\ log' = log
    <2>1. PublishFits /\ Nil \in Own(o)'
      BY <1>2, <1>4, SameLog DEF Own
    <2> QED BY <1>1, <1>2, <1>4, <2>1, AnswerHolds
  <1> QED BY <1>1, <1>3, <1>4 DEF ReopenLog

\* What a call of the platform comes to: the listings its posts made, those
\* nobody heard of, and the answer to the last post.
Called(w, o, hidden, last) ==
  /\ listed[o] + hidden + last <= MaxListings /\ hidden <= mishaps
  /\ mishaps' = mishaps - hidden
  /\ listed' = [listed EXCEPT ![o] = listed[o] + hidden + last]
  /\ blind' = [blind EXCEPT ![o] = blind[o] + hidden]
  /\ \/ Answer(w, "lost", Nil)
     \/ last = 0 /\ Answer(w, "refused", Nil)
     \/ last = 1 /\ \E answer \in {"ok", "lost"} :
          Answer(w, answer, <<o, listed[o] + hidden + last>>)

LEMMA CallPlatformCalls ==
  ASSUME RelistInv, NEW w \in Workers, CallPlatform(w)
  PROVE  /\ pc[w] = "call" /\ KeepPublish /\ log' = log /\ Go(w, "record")
         /\ \E o \in Orders : o = loc[w].ord
              /\ \E hidden \in Nat, last \in 0 .. 1 : Called(w, o, hidden, last)
  <1>1. PICK o \in Orders : o = loc[w].ord
    BY BusyOrder DEF CallPlatform, At, Busy, Steps
  <1>2. PICK hidden \in 0 .. MaxPosts - 1, last \in 0 .. 1 : Called(w, o, hidden, last)
    BY <1>1 DEF CallPlatform, Called
  <1>3. hidden \in Nat
    BY RelistAssumption
  <1> QED BY <1>1, <1>2, <1>3 DEF CallPlatform, At

LEMMA CalledCounts ==
  ASSUME RelistInv, NEW w \in Workers, NEW o \in Orders,
         NEW hidden \in Nat, NEW last \in 0 .. 1, Called(w, o, hidden, last)
  PROVE  /\ {listed', blind'} \subseteq [Orders -> 0 .. MaxListings] /\ mishaps' \in Nat
         /\ listed'[o] = listed[o] + hidden + last /\ blind'[o] = blind[o] + hidden
         /\ \A q \in Orders \ {o} : listed'[q] = listed[q] /\ blind'[q] = blind[q]
         /\ \A q \in Orders : listed[q] <= listed'[q] /\ blind'[q] <= listed'[q]
  <1>1. /\ \A q \in Orders : listed[q] \in Nat /\ blind[q] \in Nat /\ blind[q] <= listed[q]
        /\ MaxListings \in Nat /\ mishaps \in Nat
    BY RelistAssumption DEF RelistInv, TypeOK, LogFits
  <1>2. /\ listed[o] + hidden + last \in 0 .. MaxListings
        /\ blind[o] + hidden \in 0 .. MaxListings
    BY <1>1 DEF Called
  <1>3. /\ {listed', blind'} \subseteq [Orders -> 0 .. MaxListings]
        /\ listed'[o] = listed[o] + hidden + last /\ blind'[o] = blind[o] + hidden
        /\ \A q \in Orders \ {o} : listed'[q] = listed[q] /\ blind'[q] = blind[q]
    BY <1>2 DEF Called, RelistInv, TypeOK
  <1>4. mishaps' \in Nat
    BY <1>1 DEF Called
  <1>5. \A q \in Orders : listed[q] <= listed'[q] /\ blind'[q] <= listed'[q]
    <2>1. listed[o] <= listed'[o] /\ blind'[o] <= listed'[o]
      BY <1>1, <1>3
    <2>2. \A q \in Orders \ {o} : listed[q] <= listed'[q] /\ blind'[q] <= listed'[q]
      BY <1>1, <1>3
    <2> QED BY <2>1, <2>2
  <1> QED BY <1>3, <1>4, <1>5

LEMMA CallPlatformHolds ==
  ASSUME RelistInv, NEW w \in Workers, CallPlatform(w)
  PROVE  RelistInv' /\ Kept
  <1>1. KeepPublish /\ log' = log /\ Go(w, "record")
    BY CallPlatformCalls
  <1>2. PICK o \in Orders, hidden \in Nat, last \in 0 .. 1 :
          o = loc[w].ord /\ Called(w, o, hidden, last)
    BY CallPlatformCalls
  <1>3. /\ {listed', blind'} \subseteq [Orders -> 0 .. MaxListings] /\ mishaps' \in Nat
        /\ listed'[o] = listed[o] + hidden + last
        /\ \A q \in Orders : listed[q] <= listed'[q] /\ blind'[q] <= listed'[q]
    BY <1>2, CalledCounts
  <1>4. \A q \in Orders : LogFits(q)'
    <2>1. ASSUME NEW q \in Orders  PROVE Own(q) \subseteq Own(q)'
      <3>1. listed[q] \in Nat /\ listed'[q] \in Nat /\ listed[q] <= listed'[q]
        BY <1>3, RelistAssumption DEF RelistInv, TypeOK
      <3> QED BY <3>1 DEF Own
    <2> QED BY <1>1, <1>3, <2>1 DEF RelistInv, LogFits
  <1>5. PublishFits
    BY <1>1, <1>3, <1>4 DEF PublishFits, RelistInv, TypeOK, LogType
  <1>6. ASSUME NEW a \in {"refused", "lost"}, Answer(w, a, Nil)
        PROVE  RelistInv' /\ Kept
    <2>1. Nil \in Own(o)'
      BY DEF Own
    <2> QED BY <1>1, <1>2, <1>3, <1>5, <1>6, <2>1, AnswerHolds
  <1>7. ASSUME last = 1, NEW a \in {"ok", "lost"},
               Answer(w, a, <<o, listed[o] + hidden + last>>)
        PROVE  RelistInv' /\ Kept
    <2>1. PICK new : new = <<o, listed[o] + hidden + last>>
      OBVIOUS
    <2>2. listed'[o] \in 1 .. MaxListings /\ MaxListings \in Nat
      BY <1>3, <1>7, RelistAssumption DEF RelistInv, TypeOK
    <2>3. new = <<o, listed'[o]>>
      BY <1>3, <2>1
    <2>4. new \in Listings /\ new \in Own(o)' /\ new # Nil
      BY <2>2, <2>3, RelistAssumption DEF Own, Listings, Items
    <2> QED BY <1>1, <1>2, <1>3, <1>5, <1>7, <2>1, <2>4, AnswerHolds
  <1> QED BY <1>2, <1>6, <1>7 DEF Called

LEMMA RecordLogHolds ==
  ASSUME RelistInv, NEW w \in Workers, RecordLog(w)
  PROVE  RelistInv' /\ Kept
  <1>1. PICK o \in Orders : o = loc[w].ord
    BY BusyOrder DEF RecordLog, At, Busy, Steps
  <1>2. /\ KeepPublish /\ mishaps' \in Nat /\ listed' = listed /\ blind' = blind
        /\ pc[w] = "record" /\ Go(w, "persist")
    BY MishapType DEF RecordLog, At, RelistInv, TypeOK
  <1>3. loc[w] \in JobType /\ log[o] \in LogType
    BY DEF RelistInv, TypeOK, JobType, LogType
  <1>4. /\ loc[w].item \in Own(o) /\ log[o].item \in Own(o)
        /\ loc[w].answer = "ok" => loc[w].item # Nil
    BY <1>1, <1>2 DEF RelistInv, Fits, LogFits, Busy, Steps
  <1>5. ASSUME NEW status \in {"success", "failed", "publishing"},
               status = "success" => loc[w].answer = "ok",
               NEW item \in {log[o].item, loc[w].item},
               loc[w].answer = "ok" => item = loc[w].item,
               log' = [log EXCEPT ![o] = [status |-> status, item |-> item]],
               loc' = loc
        PROVE  RelistInv' /\ Kept
    <2>0. item \in Listings \cup {Nil}
      BY <1>3 DEF LogType, JobType
    <2>1. PICK entry \in LogType : entry = [status |-> status, item |-> item]
      BY <2>0 DEF LogType
    <2>2. PublishFits
      <3>1. entry.item \in Own(o) /\ (entry.status = "success" => entry.item # Nil)
        BY <1>4, <1>5, <2>1
      <3>2. log' = [log EXCEPT ![o] = entry]
        BY <1>5, <2>1
      <3> QED BY <1>2, <3>1, <3>2, LogWritten
    <2>3. PICK j \in JobType : j = loc[w]
      BY <1>3
    <2>4. j.item \in Own(o)
      BY <1>4, <2>3
    <2>5. j.item \in Own(o)'
      BY <2>2, <2>4, OwnGrows
    <2>6. loc' = [loc EXCEPT ![w] = j]
      BY <1>5, <2>3 DEF RelistInv, TypeOK
    <2> QED BY <1>1, <1>2, <1>4, <2>2, <2>3, <2>5, <2>6, AskHolds
  <1>6. ASSUME Answer(w, "lost", loc[w].item), log' = log
        PROVE  RelistInv' /\ Kept
    <2>1. PICK i : i = loc[w].item
      OBVIOUS
    <2>2. PublishFits
      BY <1>2, <1>6, SameLog
    <2>3. i \in Own(o)' /\ i \in Listings \cup {Nil}
      BY <1>4, <2>1, <2>2, OwnGrows, OwnListings
    <2> QED BY <1>1, <1>2, <1>6, <2>1, <2>2, <2>3, AnswerHolds
  <1>7. LET status == CASE loc[w].answer = "ok" -> "success"
                        [] loc[w].answer = "refused" -> "failed"
                        [] OTHER -> "publishing"
        IN  status \in {"success", "failed", "publishing"}
            /\ (status = "success" => loc[w].answer = "ok")
    BY <1>3 DEF JobType
  <1> QED BY <1>1, <1>5, <1>6, <1>7 DEF RecordLog

-----------------------------------------------------------------------------
(* The result, the associations and the rule *)

\* A row of an event is written, and its rule is neither enabled nor disabled.
LEMMA EventWritten ==
  ASSUME RelistInv, NEW o \in Orders, NEW e \in EventType,
         event' = [event EXCEPT ![o] = e],
         e.status # "checking", e.item \in Own(o),
         e.pub = "succeeded" => e.item # Nil,
         rule'.enabled = rule.enabled, listed' = listed, blind' = blind
  PROVE  /\ event' \in [Orders -> EventType] /\ event'[o] = e
         /\ \A q \in Orders : EventFits(q)'
         /\ \A v \in Workers : pc'[v] = pc[v] /\ loc'[v] = loc[v] => Fits(v)'
         /\ e.status \notin Hot \/ e.status = event[o].status => Kept
  <1>1. event \in [Orders -> EventType]
    BY DEF RelistInv, TypeOK, EventType
  <1>2. /\ event' \in [Orders -> EventType]
        /\ \A q \in Orders : event'[q] = IF q = o THEN e ELSE event[q]
    BY <1>1
  <1>3. \A q \in Orders : EventFits(q)'
    BY <1>2 DEF RelistInv, EventFits, Own
  <1>4. ASSUME NEW v \in Workers, pc'[v] = pc[v], loc'[v] = loc[v]
        PROVE  Fits(v)'
    BY <1>2, <1>4 DEF RelistInv, Fits, Own, Holds
  <1>5. e.status \notin Hot \/ e.status = event[o].status => Kept
    BY <1>2 DEF Kept, Hot
  <1> QED BY <1>2, <1>3, <1>4, <1>5

\* The worker goes on after it wrote the event's row.
LEMMA WrittenTypes ==
  ASSUME RelistInv, event' \in [Orders -> EventType], rule' \in RuleType,
         loc' \in [Workers -> JobType], NEW w \in Workers, NEW p \in Steps, Go(w, p),
         KeepCheck, UNCHANGED locks, {edits', mishaps'} \subseteq Nat, late' = late
  PROVE  /\ TypeOK' /\ \A q \in Orders : LogFits(q)'
         /\ pc'[w] = p /\ \A v \in Workers \ {w} : pc'[v] = pc[v]
  <1>1. pc' \in [Workers -> Steps] /\ pc'[w] = p
        /\ \A v \in Workers \ {w} : pc'[v] = pc[v]
    BY DEF Go, RelistInv, TypeOK
  <1>2. \A q \in Orders : LogFits(q)'
    BY DEF RelistInv, LogFits, Own, KeepCheck
  <1> QED BY <1>1, <1>2 DEF RelistInv, TypeOK, EventType, RuleType, JobType, KeepCheck, locks

LEMMA PersistHolds ==
  ASSUME RelistInv, NEW w \in Workers, Persist(w)
  PROVE  RelistInv' /\ Kept
  <1>1. PICK o \in Orders : o = loc[w].ord
    BY BusyOrder DEF Persist, At, Busy, Steps
  <1>2. /\ KeepCheck /\ UNCHANGED locks /\ {edits', mishaps'} \subseteq Nat /\ late' = late
        /\ {runner', account'} \subseteq Workers \cup {Nil, Dead}
        /\ pc[w] = "persist" /\ pc[w] \in Busy
    BY DEF Persist, At, KeepBounds, bounds, locks, RelistInv, TypeOK, Busy, Steps
  <1>3. loc \in [Workers -> JobType] /\ event[o] \in EventType /\ rule \in RuleType
    BY DEF RelistInv, TypeOK, JobType, EventType, RuleType
  <1>4. /\ loc[w].item \in Own(o) /\ event[o].item \in Own(o)
        /\ loc[w].answer = "ok" => loc[w].item # Nil
    BY <1>1, <1>2 DEF RelistInv, Fits, EventFits
  <1>5. CASE PersistLost(w, o)
    <2>1. CASE Holds(w, o, {"publishing"})
      <3> DEFINE i == IF loc[w].item = Nil THEN event[o].item ELSE loc[w].item
                 e == [Released(event[o]) EXCEPT !.status = "unknown", !.pub = "unknown",
                                                 !.item = i]
      <3>1. /\ e \in EventType /\ e.status = "unknown" /\ e.pub = "unknown"
            /\ e.item \in Own(o)
        <4>1. i \in Own(o) /\ i \in Listings \cup {Nil} /\ "unknown" \in Statuses
          BY <1>4, OwnListings DEF Statuses, Open
        <4> HIDE DEF i
        <4> QED BY <1>3, <4>1 DEF Released, EventType
      <3>2. event' = [event EXCEPT ![o] = e] /\ rule' = RuleOf(o, "error")
        BY <1>5, <2>1 DEF PersistLost, SetEvent, Released
      <3>3. Go(w, "after") /\ loc' = loc /\ "after" \in Steps
        BY <1>5 DEF PersistLost, Steps
      <3> HIDE DEF e
      <3>4. rule' \in RuleType /\ rule'.enabled = rule.enabled
        BY <3>2, RuleTypes
      <3>5. /\ event' \in [Orders -> EventType] /\ Kept
            /\ \A q \in Orders : EventFits(q)'
            /\ \A v \in Workers : pc'[v] = pc[v] /\ loc'[v] = loc[v] => Fits(v)'
        BY <1>2, <3>1, <3>2, <3>4, EventWritten DEF KeepCheck, Hot
      <3>6. /\ TypeOK' /\ \A q \in Orders : LogFits(q)'
            /\ pc'[w] = "after" /\ \A v \in Workers \ {w} : pc'[v] = pc[v]
        BY <1>2, <1>3, <3>3, <3>4, <3>5, WrittenTypes
      <3>7. Fits(w)'
        BY <1>1, <1>2, <1>4, <3>3, <3>6 DEF Fits, Early, Own, KeepCheck
      <3> QED BY <3>3, <3>5, <3>6, <3>7 DEF RelistInv
    <2>2. CASE ~Holds(w, o, {"publishing"})
      BY <1>2, <1>5, <2>2, KeepCalm, GoHolds DEF PersistLost
    <2> QED BY <2>1, <2>2
  <1>6. CASE PersistListed(w, o) /\ loc[w].answer = "ok"
    <2>1. CASE Holds(w, o, {"publishing"})
      <3> DEFINE e == [event[o] EXCEPT !.pub = "succeeded", !.item = loc[w].item,
                                       !.leased = TRUE]
                 j == [loc[w] EXCEPT !.done = TRUE]
      <3>1. /\ e \in EventType /\ e.status = event[o].status /\ e.pub = "succeeded"
            /\ e.item = loc[w].item /\ e.status = "publishing"
        <4>1. loc[w].item \in Listings \cup {Nil}
          BY <1>4, OwnListings
        <4> QED BY <1>3, <2>1, <4>1 DEF EventType, Holds
      <3>2. j \in JobType /\ j.ord = o /\ j.item = loc[w].item
        BY <1>1, <1>3 DEF JobType
      <3>3. /\ event' = [event EXCEPT ![o] = e] /\ rule' = rule
            /\ loc' = [loc EXCEPT ![w] = j] /\ Go(w, "migrate") /\ "migrate" \in Steps
        BY <1>6, <2>1 DEF PersistListed, SetEvent, Steps
      <3> HIDE DEF e, j
      <3>4. /\ event' \in [Orders -> EventType] /\ Kept
            /\ \A q \in Orders : EventFits(q)'
            /\ \A v \in Workers : pc'[v] = pc[v] /\ loc'[v] = loc[v] => Fits(v)'
        BY <1>2, <1>4, <1>6, <3>1, <3>3, EventWritten DEF KeepCheck
      <3>5. /\ loc' \in [Workers -> JobType] /\ loc'[w] = j
            /\ \A v \in Workers \ {w} : loc'[v] = loc[v]
        BY <1>3, <3>2, <3>3
      <3>6. /\ TypeOK' /\ \A q \in Orders : LogFits(q)'
            /\ pc'[w] = "migrate" /\ \A v \in Workers \ {w} : pc'[v] = pc[v]
        BY <1>2, <1>3, <3>3, <3>4, <3>5, WrittenTypes
      <3>7. loc[w].item \in Own(o)'
        BY <1>2, <1>4 DEF Own, KeepCheck
      <3>8. Fits(w)'
        BY <1>4, <1>6, <3>2, <3>5, <3>6, <3>7 DEF Fits, Early
      <3> QED BY <3>4, <3>5, <3>6, <3>8 DEF RelistInv
    <2>2. CASE ~Holds(w, o, {"publishing"})
      BY <1>2, <1>6, <2>2, KeepCalm, GoHolds DEF PersistListed, KeepRows
    <2> QED BY <2>1, <2>2
  <1>7. CASE ScheduleRetry(o, w) /\ Go(w, "after") /\ loc' = loc
    BY <1>2, <1>7, RetryCalm, GoHolds
  <1> QED BY <1>1, <1>5, <1>6, <1>7 DEF Persist

LEMMA MigrateHolds ==
  ASSUME RelistInv, NEW w \in Workers, Migrate(w)
  PROVE  RelistInv' /\ Kept
  <1>1. PICK o \in Orders : o = loc[w].ord
    BY BusyOrder DEF Migrate, At, Busy, Steps
  <1>2. /\ KeepCheck /\ {edits', mishaps'} \subseteq Nat /\ late' = late
        /\ {runner', account'} \subseteq Workers \cup {Nil, Dead}
        /\ pc[w] = "migrate" /\ pc[w] \in Busy /\ loc' = loc
    BY MishapType DEF Migrate, At, locks, RelistInv, TypeOK, Busy, Steps
  <1>3. CASE Go(w, "after") /\ KeepRows
    BY <1>2, <1>3, KeepCalm, GoHolds
  <1>4. CASE SetEvent(o, [event[o] EXCEPT !.leased = TRUE]) /\ rule' = rule /\ Go(w, "cas")
    BY <1>2, <1>4, LeaseCalm, GoHolds
  <1>5. CASE ScheduleMigration(o, w) /\ Go(w, "after")
    BY <1>2, <1>5, MigrationCalm, GoHolds
  <1> QED BY <1>1, <1>3, <1>4, <1>5 DEF Migrate

LEMMA MoveRuleHolds ==
  ASSUME RelistInv, NEW w \in Workers, MoveRule(w)
  PROVE  RelistInv' /\ Kept
  <1>1. PICK o \in Orders : o = loc[w].ord
    BY BusyOrder DEF MoveRule, At, Busy, Steps
  <1>2. /\ KeepCheck /\ UNCHANGED locks /\ {edits', mishaps'} \subseteq Nat /\ late' = late
        /\ {runner', account'} \subseteq Workers \cup {Nil, Dead}
        /\ pc[w] = "cas" /\ pc[w] \in Busy /\ loc' = loc /\ Go(w, "after")
        /\ "after" \in Steps
    BY DEF MoveRule, At, KeepBounds, bounds, locks, RelistInv, TypeOK, Busy, Steps
  <1>3. loc \in [Workers -> JobType] /\ event[o] \in EventType /\ rule \in RuleType
    BY DEF RelistInv, TypeOK, JobType, EventType, RuleType
  <1>4. /\ loc[w].item \in Own(o) /\ loc[w].item # Nil
        /\ event[o].item \in Own(o) /\ (event[o].pub = "succeeded" => event[o].item # Nil)
    BY <1>1, <1>2 DEF RelistInv, Fits, EventFits
  <1>5. CASE MovesRule(w, o)
    <2> DEFINE e == [Released(event[o]) EXCEPT !.status = "success"]
    <2>1. /\ e \in EventType /\ e.status = "success" /\ e.pub = event[o].pub
          /\ e.item = event[o].item
      BY <1>3 DEF Released, EventType, Statuses
    <2>2. event' = [event EXCEPT ![o] = e]
      BY <1>1, <1>5 DEF MoveRule, Put, SetEvent
    <2>3. /\ rule' \in RuleType /\ rule'.enabled = rule.enabled
          /\ rule'.item = loc[w].item
      <3>1. loc[w].item \in Items /\ rule.version + 1 \in Nat
        BY <1>3, <1>4, OwnListings DEF Items, RuleType
      <3>2. rule' = [rule EXCEPT !.item = loc[w].item, !.version = rule.version + 1,
                       !.status = IF rule.enabled THEN "active" ELSE "disabled"]
        BY <1>1, <1>5 DEF MoveRule
      <3> QED BY <1>3, <3>1, <3>2 DEF RuleType
    <2> HIDE DEF e
    <2>4. /\ event' \in [Orders -> EventType] /\ event'[o] = e
          /\ \A q \in Orders : EventFits(q)'
          /\ \A v \in Workers : pc'[v] = pc[v] /\ loc'[v] = loc[v] => Fits(v)'
      BY <1>2, <1>4, <2>1, <2>2, <2>3, EventWritten DEF KeepCheck
    <2>5. Kept
      <3>1. rule.item = event[o].old
        BY <1>5 DEF MovesRule
      <3>2. \E k \in 1 .. listed[o] : rule'.item = <<o, k>>
        BY <1>4, <2>3 DEF Own
      <3>3. \A q \in Orders \ {o} : event'[q] = event[q]
        BY <2>2 DEF RelistInv, TypeOK
      <3> QED BY <2>1, <2>4, <3>1, <3>2, <3>3 DEF Kept
    <2>6. /\ TypeOK' /\ \A q \in Orders : LogFits(q)'
          /\ pc'[w] = "after" /\ \A v \in Workers \ {w} : pc'[v] = pc[v]
      BY <1>2, <1>3, <2>3, <2>4, WrittenTypes
    <2>7. Fits(w)'
      BY <1>1, <1>2, <1>4, <2>6 DEF Fits, Early, Own, KeepCheck
    <2> QED BY <1>2, <2>4, <2>5, <2>6, <2>7 DEF RelistInv
  <1>6. CASE ~MovesRule(w, o)
    <2>1. Put(o, "migration_retry") /\ rule' = rule
      BY <1>1, <1>6 DEF MoveRule
    <2>2. Calm
      BY <1>3, <2>1, PutCalm DEF Statuses, Open, Due, Hot
    <2> QED BY <1>2, <2>2, GoHolds
  <1> QED BY <1>5, <1>6

LEMMA AfterHolds ==
  ASSUME RelistInv, NEW w \in Workers, After(w)
  PROVE  RelistInv' /\ Kept
  <1>1. PICK o \in Orders : o = loc[w].ord
    BY BusyOrder DEF After, At, Busy, Steps
  <1>2. Calm
    BY <1>1, KeepCalm, ScheduleCalm DEF After
  <1>3. /\ KeepCheck /\ {edits', mishaps'} \subseteq Nat /\ late' = late /\ LeaveEvent(w)
        /\ {runner', account'} \subseteq Workers \cup {Nil, Dead}
    BY DEF After, ReturnAccount, KeepBounds, bounds, RelistInv, TypeOK
  <1> QED BY <1>2, <1>3, LeaveHolds

LEMMA RaiseHolds ==
  ASSUME RelistInv, NEW w \in Workers, Raise(w)
  PROVE  RelistInv' /\ Kept
  <1>1. PICK o \in Orders : o = loc[w].ord
    BY BusyOrder DEF Raise, Busy, Steps
  <1>2. Calm
    BY <1>1, KeepCalm, ScheduleCalm DEF Raise
  <1>3. /\ KeepCheck /\ {edits', mishaps'} \subseteq Nat /\ late' = late /\ LeaveEvent(w)
        /\ {runner', account'} \subseteq Workers \cup {Nil, Dead}
    BY MishapType DEF Raise, ReturnAccount, RelistInv, TypeOK
  <1> QED BY <1>2, <1>3, LeaveHolds

-----------------------------------------------------------------------------
(* The seller, the orders, and what goes wrong *)

\* A calm step of somebody who is not a worker.
LEMMA QuietHolds ==
  ASSUME RelistInv, Calm, UNCHANGED <<sale, log, listed, blind, pc, loc, reading, todo>>,
         fresh' \subseteq Orders,
         {runner', account'} \subseteq Workers \cup {Nil, Dead},
         {edits', mishaps'} \subseteq Nat, late' \subseteq Orders
  PROVE  RelistInv' /\ Kept
  <1>1. /\ \A q \in Orders : EventFits(q)' /\ LogFits(q)'
        /\ \A v \in Workers : Fits(v)'
        /\ Kept
    BY CalmStep
  <1>2. TypeOK'
    BY CalmTypes DEF RelistInv, TypeOK, JobType
  <1> QED BY <1>1, <1>2 DEF RelistInv

LEMMA SellerTypes ==
  ASSUME RelistInv, KeepSeller, Edit \/ edits' = edits
  PROVE  /\ UNCHANGED <<sale, listed, blind, pc, loc, reading, todo>>
         /\ {runner', account'} \subseteq Workers \cup {Nil, Dead}
         /\ {edits', mishaps'} \subseteq Nat /\ late' \subseteq Orders
  BY DEF KeepSeller, Edit, locks, work, RelistInv, TypeOK

LEMMA DisableHolds ==
  ASSUME RelistInv, Disable
  PROVE  RelistInv' /\ Kept
  <1> DEFINE e(o) == [Released(event[o]) EXCEPT !.status = "skipped"]
  <1>1. ASSUME NEW o \in Orders
        PROVE  /\ e(o) \in EventType /\ event[o] \in EventType /\ e(o).status = "skipped"
               /\ e(o).item = event[o].item /\ e(o).pub = event[o].pub
    <2>1. event[o] \in EventType /\ "skipped" \in Statuses
      BY DEF RelistInv, TypeOK, EventType, Statuses
    <2> QED BY <2>1 DEF EventType, Released
  <1>2. event' = [o \in Orders |-> IF event[o].status \in GivenUp THEN e(o) ELSE event[o]]
    BY DEF Disable
  <1>3. rule' \in RuleType
    <2>1. rule \in RuleType
      BY DEF RelistInv, TypeOK, RuleType
    <2>2. rule' = [rule EXCEPT !.enabled = FALSE, !.status = "disabled",
                               !.version = rule.version + 1]
      BY DEF Disable
    <2>3. rule.version + 1 \in Nat
      BY <2>1 DEF RuleType
    <2> QED BY <2>1, <2>2, <2>3 DEF RuleType
  <1> HIDE DEF e
  <1>4. event' \in [Orders -> EventType]
    BY <1>1, <1>2
  <1>5. \A o \in Orders : event'[o] = IF event[o].status \in GivenUp THEN e(o) ELSE event[o]
    BY <1>2
  <1>6. Calm
    BY <1>1, <1>3, <1>4, <1>5 DEF Calm, Hot, GivenUp
  <1>7. fresh' \subseteq Orders /\ log' = log
    BY DEF Disable, RelistInv, TypeOK
  <1> QED BY <1>6, <1>7, SellerTypes, QuietHolds DEF Disable

LEMMA EnableHolds ==
  ASSUME RelistInv, NEW i \in Items, Enable(i)
  PROVE  RelistInv' /\ Kept
  <1> DEFINE e(o)   == [Released(event[o]) EXCEPT !.status = "retry", !.attempts = 0]
             back(o) == event[o].status \in {"paused", "failed"}
  <1>1. ASSUME NEW o \in Orders
        PROVE  /\ e(o) \in EventType /\ event[o] \in EventType /\ e(o).status = "retry"
               /\ e(o).item = event[o].item /\ e(o).pub = event[o].pub
    <2>1. event[o] \in EventType /\ "retry" \in Statuses /\ 0 \in 0 .. MaxAttempts
      BY RelistAssumption DEF RelistInv, TypeOK, EventType, Statuses, Open, Due
    <2> QED BY <2>1 DEF EventType, Released
  <1>2. event' = [o \in Orders |-> IF back(o) THEN e(o) ELSE event[o]]
    BY DEF Enable
  <1>3. rule' \in RuleType /\ rule'.enabled
    <2>1. rule.version + 1 \in Nat
      BY DEF RelistInv, TypeOK
    <2>2. rule' = [enabled |-> TRUE, status |-> "active", item |-> i,
                   version |-> rule.version + 1]
      BY DEF Enable
    <2> QED BY <2>1, <2>2 DEF RuleType
  <1> HIDE DEF e, back
  <1>4. event' \in [Orders -> EventType]
    BY <1>1, <1>2
  <1>5. \A o \in Orders : event'[o] = IF back(o) THEN e(o) ELSE event[o]
    BY <1>2
  <1>6. Calm
    BY <1>1, <1>3, <1>4, <1>5 DEF Calm, Hot
  <1>7. fresh' \subseteq Orders /\ log' = log
    BY DEF Enable, RelistInv, TypeOK
  <1> QED BY <1>6, <1>7, SellerTypes, QuietHolds DEF Enable

\* The seller's answer about an unknown result.
LEMMA AnsweredHolds ==
  ASSUME RelistInv, NEW o \in Orders, NEW e \in EventType,
         event' = [event EXCEPT ![o] = e],
         e.status \notin Hot, e.item \in Own(o), e.pub = "succeeded" => e.item # Nil,
         rule' = [rule EXCEPT !.status = "retrying"],
         \/ log' = log
         \/ \E entry \in LogType :
              /\ log' = [log EXCEPT ![o] = entry] /\ entry.item \in Own(o)
              /\ entry.status = "success" => entry.item # Nil,
         KeepSeller, UNCHANGED <<fresh, edits>>
  PROVE  RelistInv' /\ Kept
  <1>1. /\ UNCHANGED <<sale, listed, blind, pc, loc, reading, todo>>
        /\ {runner', account'} \subseteq Workers \cup {Nil, Dead}
        /\ {edits', mishaps'} \subseteq Nat /\ late' \subseteq Orders
    BY SellerTypes
  <1>2. rule' \in RuleType /\ rule'.enabled = rule.enabled
    BY DEF RelistInv, TypeOK, RuleType
  <1>3. /\ event' \in [Orders -> EventType]
        /\ \A q \in Orders : EventFits(q)'
        /\ \A v \in Workers : Fits(v)'
        /\ Kept
    BY <1>1, <1>2, EventWritten DEF Hot
  <1>4. PublishFits
    BY <1>1, SameLog, LogWritten
  <1>5. TypeOK'
    BY <1>1, <1>2, <1>3, <1>4
       DEF PublishFits, LogType, EventType, RuleType, RelistInv, TypeOK
  <1> QED BY <1>3, <1>4, <1>5 DEF RelistInv, PublishFits

LEMMA ReconcileHolds ==
  ASSUME RelistInv, NEW o \in Orders, Reconcile(o)
  PROVE  RelistInv' /\ Kept
  <1>1. PICK i \in Listings :
          /\ i[1] = o /\ i[2] <= listed[o]
          /\ SetEvent(o, [Resolved(event[o], "migration_retry") EXCEPT
                            !.pub = "succeeded", !.item = i])
          /\ log' = IF log[o].status = "none" THEN log
                    ELSE [log EXCEPT ![o] = [status |-> "success", item |-> i]]
    BY DEF Reconcile
  <1>2. i \in Own(o) /\ i # Nil
    <2>1. listed[o] \in Nat
      BY RelistAssumption DEF RelistInv, TypeOK
    <2>2. i = <<o, i[2]>> /\ i[2] \in 1 .. listed[o]
      BY <1>1, <2>1, RelistAssumption DEF Listings
    <2> QED BY <2>2, RelistAssumption DEF Own, Items
  <1> DEFINE e == [Resolved(event[o], "migration_retry") EXCEPT
                     !.pub = "succeeded", !.item = i]
             entry == [status |-> "success", item |-> i]
  <1>3. e \in EventType /\ e.status = "migration_retry" /\ e.item = i
    <2>1. event[o] \in EventType /\ "migration_retry" \in Statuses
      BY DEF RelistInv, TypeOK, EventType, Statuses, Open, Due
    <2> QED BY <2>1 DEF EventType, Resolved, Released
  <1>4. entry \in LogType /\ entry.item = i
    BY DEF LogType
  <1>5. event' = [event EXCEPT ![o] = e]
    BY <1>1 DEF SetEvent
  <1>6. log' = log \/ log' = [log EXCEPT ![o] = entry]
    BY <1>1
  <1> HIDE DEF e, entry
  <1> QED BY <1>2, <1>3, <1>4, <1>5, <1>6, AnsweredHolds DEF Reconcile, Hot

LEMMA NotPublishedHolds ==
  ASSUME RelistInv, NEW o \in Orders, NotPublished(o)
  PROVE  RelistInv' /\ Kept
  <1> DEFINE e == [Resolved(event[o], "retry") EXCEPT
                     !.pub = "not_started", !.item = Nil, !.attempts = 0]
             entry == [log[o] EXCEPT !.status = "failed"]
  <1>1. e \in EventType /\ e.status = "retry" /\ e.item = Nil /\ e.pub = "not_started"
    <2>1. event[o] \in EventType /\ "retry" \in Statuses /\ 0 \in 0 .. MaxAttempts
      BY RelistAssumption DEF RelistInv, TypeOK, EventType, Statuses, Open, Due
    <2> QED BY <2>1 DEF EventType, Resolved, Released
  <1>2. entry \in LogType /\ entry.item = log[o].item /\ entry.status = "failed"
    <2>1. log[o] \in LogType
      BY DEF RelistInv, TypeOK, LogType
    <2> QED BY <2>1 DEF LogType
  <1>3. entry.item \in Own(o)
    BY <1>2 DEF RelistInv, LogFits
  <1>4. event' = [event EXCEPT ![o] = e]
    BY DEF NotPublished, SetEvent
  <1>5. log' = log \/ log' = [log EXCEPT ![o] = entry]
    BY DEF NotPublished
  <1> HIDE DEF e, entry
  <1> QED BY <1>1, <1>2, <1>3, <1>4, <1>5, AnsweredHolds DEF NotPublished, Hot, Own

\* The platform's orders change: nothing else does.
LEMMA TradeHolds ==
  ASSUME RelistInv, sale' \in [Orders -> [item : Items \cup {Nil}, fit : BOOLEAN]],
         fresh' \subseteq Orders,
         UNCHANGED <<rule, event, log, listed, blind, locks, work, bounds>>
  PROVE  RelistInv' /\ Kept
  <1>1. UNCHANGED <<rule, event, log, listed, blind, runner, account, pc, loc, reading, todo,
                    edits, mishaps, late>>
    BY DEF locks, work, bounds
  <1>2. Calm
    BY <1>1, KeepCalm DEF KeepRows
  <1>3. /\ \A q \in Orders : EventFits(q)' /\ LogFits(q)'
        /\ \A v \in Workers : Fits(v)'
        /\ Kept
    BY <1>1, <1>2, CalmStep
  <1>4. TypeOK'
    BY <1>1 DEF RelistInv, TypeOK
  <1> QED BY <1>3, <1>4 DEF RelistInv

LEMMA SaleHolds ==
  ASSUME RelistInv, Trade
  PROVE  RelistInv' /\ Kept
  <1>1. sale \in [Orders -> [item : Items \cup {Nil}, fit : BOOLEAN]] /\ fresh \subseteq Orders
    BY DEF RelistInv, TypeOK
  <1>2. ASSUME NEW o \in Orders, OrderChanges(o)  PROVE RelistInv' /\ Kept
    <2>1. PICK fit \in {TRUE, FALSE} : sale' = [sale EXCEPT ![o].fit = fit]
      BY <1>2 DEF OrderChanges
    <2>2. CASE fit = TRUE
      BY <1>1, <1>2, <2>1, <2>2, TradeHolds DEF OrderChanges
    <2>3. CASE fit = FALSE
      BY <1>1, <1>2, <2>1, <2>3, TradeHolds DEF OrderChanges
    <2> QED BY <2>2, <2>3
  <1>3. ASSUME NEW o \in Orders, NEW i \in Items, Sell(o, i)  PROVE RelistInv' /\ Kept
    BY <1>1, <1>3, TradeHolds DEF Sell
  <1> QED BY <1>2, <1>3 DEF Trade

LEMMA CrashHolds ==
  ASSUME RelistInv, NEW w \in Workers, Crash(w)
  PROVE  RelistInv' /\ Kept
  <1>1. Calm
    BY KeepCalm DEF Crash, rows, KeepRows
  <1>2. /\ Go(w, "idle") /\ "idle" \in Steps /\ "idle" \notin Busy
        /\ loc' \in [Workers -> JobType] /\ \A v \in Workers \ {w} : loc'[v] = loc[v]
    BY NoJobType DEF Crash, Steps, Busy, RelistInv, TypeOK, JobType
  <1>3. /\ \A o \in Orders : EventFits(o)' /\ LogFits(o)'
        /\ \A v \in Workers : Fits(v)'
        /\ Kept /\ pc' \in [Workers -> Steps]
    BY <1>1, <1>2, CalmMove DEF Crash, rows
  <1>4. /\ reading' \in [Workers -> [Orders ->
             {"none", "keep", "retry", "migration_retry", "unknown"}]]
        /\ todo' \in [Workers -> SUBSET Orders]
        /\ {runner', account'} \subseteq Workers \cup {Nil, Dead}
        /\ fresh' \subseteq Orders /\ late' \subseteq Orders
        /\ {edits', mishaps'} \subseteq Nat
    BY MishapType DEF Crash, rows, Nothing, RelistInv, TypeOK
  <1>5. TypeOK'
    BY <1>1, <1>2, <1>3, <1>4, CalmTypes DEF Crash, rows
  <1> QED BY <1>3, <1>5 DEF RelistInv

LEMMA LocksHold ==
  ASSUME RelistInv, LockExpires \/ LoseLocks
  PROVE  RelistInv' /\ Kept
  <1>1. Calm
    BY KeepCalm DEF LockExpires, LoseLocks, rows, KeepRows
  <1>2. /\ UNCHANGED <<sale, fresh, log, listed, blind, pc, loc, reading, todo>>
        /\ late' = late /\ edits' = edits
    BY DEF LockExpires, LoseLocks, rows, work, bounds
  <1>3. mishaps' \in Nat
    BY MishapType DEF LockExpires, LoseLocks, bounds, RelistInv, TypeOK
  <1>4. {runner', account'} \subseteq Workers \cup {Nil, Dead}
    BY DEF LockExpires, LoseLocks, RelistInv, TypeOK
  <1> QED BY <1>1, <1>2, <1>3, <1>4, QuietHolds DEF RelistInv, TypeOK

LEMMA LeaseHolds ==
  ASSUME RelistInv, NEW o \in Orders, LeaseEnds(o) \/ Outlive(o)
  PROVE  RelistInv' /\ Kept
  <1>1. Calm
    BY LeaseCalm DEF LeaseEnds, Outlive
  <1>2. /\ UNCHANGED <<sale, fresh, log, listed, blind, pc, loc, reading, todo, edits>>
        /\ runner' = runner /\ account' = account
    BY DEF LeaseEnds, Outlive, locks, work, bounds
  <1>3. mishaps' \in Nat /\ late' \subseteq Orders
    BY MishapType DEF LeaseEnds, Outlive, bounds, RelistInv, TypeOK
  <1> QED BY <1>1, <1>2, <1>3, QuietHolds DEF RelistInv, TypeOK

LEMMA StutterHolds ==
  ASSUME RelistInv, UNCHANGED vars
  PROVE  RelistInv' /\ Kept
  <1>1. /\ UNCHANGED <<sale, fresh, rule, event, log, listed, blind, runner, account, pc, loc,
                       reading, todo, edits, mishaps, late>>
    BY DEF vars, rows, locks, work, bounds
  <1>2. Calm
    BY <1>1, KeepCalm DEF KeepRows
  <1> QED BY <1>1, <1>2, QuietHolds DEF RelistInv, TypeOK

-----------------------------------------------------------------------------
(* What a recovery reads *)

LEMMA SameReads ==
  ASSUME Reads, pc' = pc, reading' = reading
  PROVE  Reads'
  BY DEF Reads

LEMMA GoReads ==
  ASSUME Reads, NEW w \in Workers, NEW p \in Steps \ {"recover"}, Go(w, p),
         \/ reading' = reading
         \/ /\ reading' \in [Workers -> [Orders ->
                 {"none", "keep", "retry", "migration_retry", "unknown"}]]
            /\ \A v \in Workers \ {w} : reading'[v] = reading[v]
         \/ \E o \in Orders : reading' = Stale(o)
  PROVE  Reads'
  <1>1. pc' \in [Workers -> Steps] /\ pc'[w] = p
        /\ \A v \in Workers \ {w} : pc'[v] = pc[v]
    BY DEF Go, Reads
  <1>2. reading' \in [Workers -> [Orders ->
          {"none", "keep", "retry", "migration_retry", "unknown"}]]
    BY DEF Reads, Stale
  <1>3. ASSUME NEW v \in Workers, pc'[v] = "recover", NEW o \in Orders
        PROVE  reading'[v][o] # "keep"
    <2>1. v # w /\ pc[v] = "recover"
      BY <1>1, <1>3
    <2>2. reading[v][o] # "keep"
      BY <2>1 DEF Reads
    <2> QED BY <2>1, <2>2 DEF Reads, Stale
  <1> QED BY <1>1, <1>2, <1>3 DEF Reads

LEMMA RoundReads ==
  ASSUME Reads, NEW w \in Workers,
         \/ Start(w) \/ Recover(w) \/ Discover(w) \/ Insert(w) \/ Finish(w)
         \/ MarkRead(w) \/ MarkWrite(w) \/ (\E o \in Orders : Claim(w, o)) \/ Crash(w)
  PROVE  Reads'
  <1>1. CASE Start(w)
    <2> DEFINE r == [o \in Orders |-> Verdict(event[o])]
    <2>1. r \in [Orders -> {"none", "retry", "migration_retry", "unknown"}]
      BY VerdictTypes
    <2>2. reading' = [reading EXCEPT ![w] = r] /\ pc' = [pc EXCEPT ![w] = "recover"]
      BY <1>1 DEF Start, Go
    <2> HIDE DEF r
    <2>3. /\ pc' \in [Workers -> Steps]
          /\ reading' \in [Workers -> [Orders ->
               {"none", "keep", "retry", "migration_retry", "unknown"}]]
      BY <2>1, <2>2 DEF Reads, Steps
    <2>4. ASSUME NEW v \in Workers, pc'[v] = "recover", NEW o \in Orders
          PROVE  reading'[v][o] # "keep"
      BY <2>1, <2>2, <2>4 DEF Reads
    <2> QED BY <2>3, <2>4 DEF Reads
  <1>2. CASE Recover(w)
    BY <1>2, GoReads DEF Recover, Nothing, Reads, Steps
  <1>3. CASE Discover(w)
    BY <1>3, GoReads DEF Discover, ReadDue, Steps
  <1>4. CASE Finish(w)
    BY <1>4, GoReads DEF Finish, Steps
  <1>5. CASE MarkRead(w)
    BY <1>5, GoReads DEF MarkRead, Reads, Steps
  <1>6. CASE MarkWrite(w)
    BY <1>6, GoReads DEF MarkWrite, Nothing, Reads, Steps
  <1>7. ASSUME NEW o \in Orders, Claim(w, o)  PROVE Reads'
    BY <1>7, SameReads, GoReads DEF Claim, Steps
  <1>8. CASE Crash(w)
    BY <1>8, GoReads DEF Crash, Nothing, Reads, Steps
  <1>9. CASE Insert(w)
    BY <1>9, GoReads DEF Insert, ReadDue, Steps
  <1> QED BY <1>1, <1>2, <1>3, <1>4, <1>5, <1>6, <1>7, <1>8, <1>9

LEMMA EventReads ==
  ASSUME Reads, NEW w \in Workers,
         \/ Check(w) \/ Lock(w) \/ Recheck(w) \/ Still(w) \/ Enter(w)
         \/ Lookup(w) \/ OpenLog(w) \/ OpenTaken(w) \/ ReopenLog(w)
         \/ CallPlatform(w) \/ RecordLog(w) \/ Persist(w) \/ Migrate(w)
         \/ MoveRule(w) \/ After(w) \/ Raise(w)
  PROVE  Reads'
  <1> DEFINE Goes == \E p \in Steps \ {"recover"} : Go(w, p)
  <1>1. CASE Check(w) \/ Lock(w) \/ Recheck(w) \/ Still(w) \/ Enter(w)
    <2>1. reading' = reading
      BY <1>1 DEF Check, Lock, Recheck, Still, Enter, KeepCheck
    <2>2. Goes
      BY <1>1 DEF Check, Begin, LeaveEvent, Lock, Recheck, Still, Enter, Steps
    <2> QED BY <2>1, <2>2, GoReads
  <1>2. CASE \/ Lookup(w) \/ OpenLog(w) \/ OpenTaken(w) \/ ReopenLog(w)
             \/ CallPlatform(w) \/ RecordLog(w)
    <2>1. reading' = reading
      BY <1>2 DEF Lookup, OpenLog, OpenTaken, ReopenLog, CallPlatform, RecordLog,
                  KeepPublish
    <2>2. Goes
      BY <1>2 DEF Lookup, OpenLog, OpenTaken, ReopenLog, CallPlatform, RecordLog, Steps
    <2> QED BY <2>1, <2>2, GoReads
  <1>3. CASE Persist(w) \/ Migrate(w) \/ MoveRule(w) \/ After(w) \/ Raise(w)
    <2>1. reading' = reading
      BY <1>3 DEF Persist, Migrate, MoveRule, After, Raise, KeepCheck
    <2>2. Goes
      BY <1>3 DEF Persist, PersistLost, PersistListed, Migrate, MoveRule, After, Raise,
                  LeaveEvent, Steps
    <2> QED BY <2>1, <2>2, GoReads
  <1> QED BY <1>1, <1>2, <1>3

LEMMA ReadsHolds == Reads /\ [Next]_vars => Reads'
  <1> SUFFICES ASSUME Reads, [Next]_vars  PROVE Reads'
    OBVIOUS
  <1>1. CASE UNCHANGED vars
    BY <1>1, SameReads DEF vars, work
  <1>2. CASE Seller
    BY <1>2, SameReads
       DEF Seller, Disable, Enable, Reconcile, NotPublished, KeepSeller, work
  <1>3. CASE Trade
    BY <1>3, SameReads DEF Trade, OrderChanges, Sell, work
  <1>4. CASE \/ LockExpires \/ LoseLocks
             \/ \E o \in Orders : LeaseEnds(o) \/ Outlive(o)
    BY <1>4, SameReads DEF LockExpires, LoseLocks, LeaseEnds, Outlive, work
  <1> QED BY <1>1, <1>2, <1>3, <1>4, RoundReads, EventReads DEF Next, Step, Trouble

-----------------------------------------------------------------------------
(* The theorems *)

LEMMA RelistInit == Init => RelistInv /\ Reads
  <1> SUFFICES ASSUME Init  PROVE RelistInv /\ Reads
    OBVIOUS
  <1>1. NoEvent \in EventType /\ NoLog \in LogType /\ NoJob \in JobType
    BY RelistAssumption, NoJobType DEF NoEvent, NoLog, EventType, LogType, Statuses
  <1>2. event \in [Orders -> EventType] /\ log \in [Orders -> LogType]
        /\ loc \in [Workers -> JobType]
    BY <1>1 DEF Init
  <1>3. pc \in [Workers -> Steps] /\ \A w \in Workers : pc[w] = "idle"
    BY DEF Init, Steps
  <1>4. rule \in RuleType /\ sale \in [Orders -> [item : Items \cup {Nil}, fit : BOOLEAN]]
    BY DEF Init, RuleType, Items
  <1>5. /\ reading \in [Workers -> [Orders ->
             {"none", "keep", "retry", "migration_retry", "unknown"}]]
        /\ {listed, blind} \subseteq [Orders -> 0 .. MaxListings] /\ {edits, mishaps} \subseteq Nat
        /\ todo \in [Workers -> SUBSET Orders] /\ fresh \subseteq Orders
        /\ late \subseteq Orders /\ {runner, account} \subseteq Workers \cup {Nil, Dead}
    BY RelistAssumption DEF Init, Nothing
  <1>6. TypeOK
    BY <1>2, <1>3, <1>4, <1>5 DEF TypeOK, EventType, LogType, JobType, RuleType
  <1>7. \A o \in Orders : EventFits(o) /\ LogFits(o)
    BY DEF Init, NoEvent, NoLog, EventFits, LogFits, Own
  <1>8. \A w \in Workers : Fits(w)
    BY <1>3 DEF Fits, Busy
  <1> QED BY <1>3, <1>5, <1>6, <1>7, <1>8 DEF RelistInv, Reads

LEMMA RelistStep == RelistInv /\ Reads /\ [Next]_vars => RelistInv' /\ Kept
  <1> SUFFICES ASSUME RelistInv, Reads, [Next]_vars  PROVE RelistInv' /\ Kept
    OBVIOUS
  <1>1. ASSUME NEW w \in Workers, Step(w)  PROVE RelistInv' /\ Kept
    BY <1>1, StartHolds, RecoverHolds, DiscoverHolds, InsertHolds, FinishHolds, MarkWriteHolds,
       ClaimHolds, CheckHolds, LockHolds, RecheckHolds, StillHolds, EnterHolds,
       LookupHolds, OpenLogHolds, OpenTakenHolds, ReopenLogHolds, CallPlatformHolds,
       RecordLogHolds, PersistHolds, MigrateHolds, MoveRuleHolds, AfterHolds DEF Step
  <1>2. CASE Seller
    BY <1>2, DisableHolds, EnableHolds, ReconcileHolds, NotPublishedHolds DEF Seller
  <1>3. CASE Trouble
    BY <1>3, MarkReadHolds, RaiseHolds, CrashHolds, LocksHold, LeaseHolds DEF Trouble
  <1>4. CASE LockExpires \/ \E o \in Orders : LeaseEnds(o)
    BY <1>4, LocksHold, LeaseHolds
  <1> QED BY <1>1, <1>2, <1>3, <1>4, SaleHolds, StutterHolds DEF Next

\* The rows, and what every worker has read of them, fit one another: with the
\* lemmas above, the invariant the theorems below rest on.
THEOREM RelistInvHolds == Spec => [](RelistInv /\ Reads)
  <1>1. RelistInv /\ Reads /\ [Next]_vars => (RelistInv /\ Reads)'
    BY RelistStep, ReadsHolds
  <1> QED BY <1>1, RelistInit, PTL DEF Spec

\* Every variable keeps its type, whatever the workers, the seller and the
\* platform do.
THEOREM RelistTypes == Spec => []TypeOK
  <1>1. RelistInv => TypeOK
    BY DEF RelistInv
  <1> QED BY <1>1, RelistInvHolds, PTL

\* No event begins to publish under a rule that is switched off: a worker is in
\* front of the transition only with a rule that was enabled when its event was
\* read, and switching the rule off takes the event from it.
THEOREM PublishedWhileEnabled == Spec => OnlyWhileEnabled
  <1>1. RelistInv /\ Reads /\ [Next]_vars =>
          [\A o \in Orders :
             event[o].status # "publishing" /\ event'[o].status = "publishing"
               => rule.enabled]_vars
    BY RelistStep DEF Kept
  <1> QED BY <1>1, RelistInvHolds, PTL DEF Spec, OnlyWhileEnabled

\* The success of an event moves the rule from the item it watched to a listing
\* the platform made for that event's order.
THEOREM SuccessMovesTheRule == Spec => SuccessMovesRule
  <1>1. RelistInv /\ Reads /\ [Next]_vars =>
          [\A o \in Orders : event[o].status # "success" /\ event'[o].status = "success"
             => /\ rule.item = event[o].old
                /\ \E k \in 1 .. listed[o] : rule'.item = <<o, k>>]_vars
    BY RelistStep DEF Kept
  <1> QED BY <1>1, RelistInvHolds, PTL DEF Spec, SuccessMovesRule

-----------------------------------------------------------------------------
(* No second listing *)

\* Where a worker may still ask the platform, and what an event is then: the
\* worker's, or one that a round without a lock has written over.
Asking == {"lookup", "open", "reopen", "call", "record"}
Asked(e, w) == \/ e.status = "publishing" /\ e.token = w
               \/ e.status \in {"retry", "skipped"}

\* An order whose worker outlived no lease has one worker at most, whose lease
\* lasts; once it is listed by a call that was not repeated, its log says so, or
\* does not know, and nobody is about to ask again.
OnceFits(o) ==
  /\ \A v, w \in Workers : loc[v].ord = o /\ loc[w].ord = o => v = w
  /\ listed[o] <= 1 + blind[o]
  /\ listed[o] # blind[o] => log[o].status \in {"publishing", "success"}
  /\ \A w \in Workers : loc[w].ord = o =>
       /\ event[o].token = w => event[o].leased
       /\ pc[w] \in Asking => Asked(event[o], w)
       /\ pc[w] \in {"reopen", "call"} => listed[o] = blind[o]
       /\ pc[w] = "call" => log[o].status = "publishing"
       /\ pc[w] = "record" /\ loc[w].answer = "refused" => listed[o] = blind[o]

OnceInv == \A o \in Orders \ late : OnceFits(o)

\* The log and the listings stay, nobody begins to ask, and the event is still
\* the worker's where one asks.
LEMMA OnceStays ==
  ASSUME NEW o \in Orders, OnceFits(o),
         log'[o] = log[o], listed'[o] = listed[o], blind'[o] = blind[o],
         \A v \in Workers : loc'[v].ord = o =>
           /\ loc[v].ord = o
           /\ pc'[v] \in Asking => pc'[v] = pc[v] /\ loc'[v] = loc[v] /\ Asked(event'[o], v)
           /\ event'[o].token = v => event'[o].leased
  PROVE  OnceFits(o)'
  BY DEF OnceFits, Asking, Asked

\* What a worker writes to the row of its event: it keeps its token and its
\* lease, or loses the token.
Softly(o) ==
  /\ \A p \in Orders \ {o} : event'[p] = event[p]
  /\ \/ event'[o].token = Nil
     \/ event'[o].token = event[o].token /\ (event[o].leased => event'[o].leased)

LEMMA SetSoft ==
  ASSUME RelistInv, NEW o \in Orders, NEW e, SetEvent(o, e),
         e.token = Nil \/ (e.token = event[o].token /\ (event[o].leased => e.leased))
  PROVE  Softly(o)
  BY DEF Softly, SetEvent, RelistInv, TypeOK

LEMMA PutSoft ==
  ASSUME RelistInv, NEW o \in Orders, NEW status, Put(o, status)
  PROVE  Softly(o)
  <1> DEFINE e == [Released(event[o]) EXCEPT !.status = status]
  <1>1. event[o] \in EventType
    BY DEF RelistInv, TypeOK, EventType
  <1>2. e.token = Nil
    BY <1>1 DEF Released, EventType
  <1>3. SetEvent(o, e)
    BY DEF Put
  <1> HIDE DEF e
  <1> QED BY <1>2, <1>3, SetSoft

LEMMA KeepSoft ==
  ASSUME NEW o \in Orders, event' = event
  PROVE  Softly(o)
  BY DEF Softly

LEMMA ScheduleSoft ==
  ASSUME RelistInv, NEW o \in Orders, NEW t, NEW w \in Workers,
         \/ ScheduleRetry(o, t) \/ ScheduleMigration(o, t) \/ SkipEvent(o, w) \/ PauseEvent(o, w)
         \/ \E done \in BOOLEAN : Schedule(done, o, t)
  PROVE  Softly(o)
  BY PutSoft, KeepSoft
     DEF ScheduleRetry, ScheduleMigration, SkipEvent, PauseEvent, Schedule, KeepRows

\* The step of a worker that does not ask.
LEMMA SoftOnce ==
  ASSUME RelistInv, OnceInv, NEW w \in Workers, loc[w].ord \in Orders, Softly(loc[w].ord),
         log' = log, listed' = listed, blind' = blind, late' = late,
         NEW p \in Steps \ Asking, Go(w, p), loc'[w].ord \in {loc[w].ord, Nil},
         \A v \in Workers \ {w} : loc'[v] = loc[v]
  PROVE  OnceInv'
  <1> SUFFICES ASSUME NEW o \in Orders \ late
               PROVE  OnceFits(o)'
    BY DEF OnceInv
  <1>1. OnceFits(o) /\ o # Nil
    BY RelistAssumption DEF OnceInv
  <1>2. pc'[w] \notin Asking /\ \A v \in Workers \ {w} : pc'[v] = pc[v]
    BY DEF Go, RelistInv, TypeOK
  <1>3. ASSUME NEW v \in Workers, loc'[v].ord = o
        PROVE  /\ loc[v].ord = o
               /\ pc'[v] \in Asking => pc'[v] = pc[v] /\ loc'[v] = loc[v] /\ Asked(event'[o], v)
               /\ event'[o].token = v => event'[o].leased
    <2>1. loc[v].ord = o
      BY <1>1, <1>3
    <2>2. CASE loc[w].ord = o
      <3>1. v = w
        BY <1>1, <2>1, <2>2 DEF OnceFits
      <3>2. event'[o].token = w => event'[o].leased
        BY <1>1, <2>2, RelistAssumption DEF OnceFits, Softly
      <3> QED BY <1>2, <2>1, <3>1, <3>2
    <2>3. CASE loc[w].ord # o
      <3>1. v # w /\ event'[o] = event[o] /\ pc'[v] = pc[v] /\ loc'[v] = loc[v]
        BY <1>2, <2>1, <2>3 DEF Softly
      <3> QED BY <1>1, <2>1, <3>1 DEF OnceFits
    <2> QED BY <2>2, <2>3
  <1> QED BY <1>1, <1>3, OnceStays

\* A step that leaves the rows alone, and starts no worker on an event.
LEMMA SameOnce ==
  ASSUME OnceInv, UNCHANGED <<event, log, listed, blind, late>>,
         \A v \in Workers : \/ loc'[v].ord = Nil
                            \/ loc'[v] = loc[v] /\ (pc'[v] = pc[v] \/ pc'[v] \notin Asking)
  PROVE  OnceInv'
  <1> SUFFICES ASSUME NEW o \in Orders \ late
               PROVE  OnceFits(o)'
    BY DEF OnceInv
  <1>1. OnceFits(o) /\ o # Nil
    BY RelistAssumption DEF OnceInv
  <1> QED BY <1>1, OnceStays DEF OnceFits

\* The steps between the transition to "publishing" and the log's result.
LEMMA AskOnce ==
  ASSUME RelistInv, OnceInv, NEW w \in Workers, loc[w].ord \in Orders, late' = late,
         event' = event,
         \A o \in Orders \ {loc[w].ord} :
           log'[o] = log[o] /\ listed'[o] = listed[o] /\ blind'[o] = blind[o],
         NEW p \in Steps, Go(w, p), loc'[w].ord = loc[w].ord,
         \A v \in Workers \ {w} : loc'[v] = loc[v],
         p \in Asking => pc[w] \in Asking,
         LET o == loc[w].ord IN OnceFits(o) =>
           /\ listed'[o] <= 1 + blind'[o]
           /\ listed'[o] # blind'[o] => log'[o].status \in {"publishing", "success"}
           /\ p \in {"reopen", "call"} => listed'[o] = blind'[o]
           /\ p = "call" => log'[o].status = "publishing"
           /\ p = "record" /\ loc'[w].answer = "refused" => listed'[o] = blind'[o]
  PROVE  OnceInv'
  <1> SUFFICES ASSUME NEW o \in Orders \ late
               PROVE  OnceFits(o)'
    BY DEF OnceInv
  <1>1. OnceFits(o)
    BY DEF OnceInv
  <1>2. pc'[w] = p /\ \A v \in Workers \ {w} : pc'[v] = pc[v]
    BY DEF Go, RelistInv, TypeOK
  <1>3. CASE loc[w].ord # o
    <2>1. \A v \in Workers : loc'[v].ord = o => v # w /\ loc'[v] = loc[v] /\ pc'[v] = pc[v]
      BY <1>2, <1>3
    <2> QED BY <1>1, <1>2, <1>3, <2>1, OnceStays DEF OnceFits
  <1>4. CASE loc[w].ord = o
    <2>1. \A v \in Workers : loc[v].ord = o => v = w
      BY <1>1, <1>4 DEF OnceFits
    <2>2. \A v \in Workers : loc'[v].ord = o => v = w
      BY <2>1
    <2>3. event[o].token = w => event[o].leased
      BY <1>1, <1>4 DEF OnceFits
    <2>4. p \in Asking => Asked(event[o], w)
      BY <1>1, <1>4 DEF OnceFits
    <2>5. /\ listed'[o] <= 1 + blind'[o]
          /\ listed'[o] # blind'[o] => log'[o].status \in {"publishing", "success"}
          /\ p \in {"reopen", "call"} => listed'[o] = blind'[o]
          /\ p = "call" => log'[o].status = "publishing"
          /\ p = "record" /\ loc'[w].answer = "refused" => listed'[o] = blind'[o]
      BY <1>1, <1>4
    <2> QED BY <1>2, <1>4, <2>2, <2>3, <2>4, <2>5 DEF OnceFits, Asked
  <1> QED BY <1>3, <1>4

LEMMA AskingOrder ==
  ASSUME RelistInv, NEW w \in Workers, pc[w] \in Asking
  PROVE  /\ loc[w].ord \in Orders /\ pc[w] \in Steps
         /\ log[loc[w].ord] \in LogType /\ loc[w] \in JobType
         /\ listed[loc[w].ord] \in Nat /\ blind[loc[w].ord] \in Nat
  <1>1. loc[w].ord \in Orders
    BY BusyOrder DEF Asking, Busy, Steps
  <1> QED BY <1>1, RelistAssumption DEF RelistInv, TypeOK, LogType, JobType

\* What a worker notes of an answer leaves it its order.
LEMMA AnswerKeeps ==
  ASSUME RelistInv, NEW w \in Workers, NEW answer, NEW item, Answer(w, answer, item)
  PROVE  /\ loc'[w].ord = loc[w].ord /\ loc'[w].answer = answer
         /\ \A v \in Workers \ {w} : loc'[v] = loc[v]
  <1>1. loc[w] \in JobType /\ loc = [v \in Workers |-> loc[v]]
    BY DEF RelistInv, TypeOK, JobType
  <1> QED BY <1>1 DEF Answer, JobType

LEMMA LookupOnce ==
  ASSUME RelistInv, OnceInv, NEW w \in Workers, Lookup(w)
  PROVE  OnceInv'
  <1> DEFINE o == loc[w].ord
  <1>1. o \in Orders /\ pc[w] \in Asking
    BY AskingOrder DEF Lookup, At, Asking
  <1>2. event' = event /\ log' = log /\ listed' = listed /\ blind' = blind /\ late' = late
    BY DEF Lookup, KeepPublish
  <1>3. /\ loc'[w].ord = o /\ \A v \in Workers \ {w} : loc'[v] = loc[v]
    <2>1. ASSUME NEW answer, NEW item, Answer(w, answer, item)
          PROVE  /\ loc'[w].ord = o /\ \A v \in Workers \ {w} : loc'[v] = loc[v]
      BY <2>1, AnswerKeeps
    <2> QED BY <2>1 DEF Lookup
  <1>4. \/ Go(w, "persist")
        \/ Go(w, "reopen") /\ log[o].status = "failed"
        \/ Go(w, "open")
    BY DEF Lookup, Reusable
  <1> HIDE DEF o
  <1>5. CASE Go(w, "persist")
    BY <1>1, <1>2, <1>3, <1>5, AskOnce DEF OnceFits, Asking, Steps, o
  <1>6. CASE Go(w, "open")
    BY <1>1, <1>2, <1>3, <1>6, AskOnce DEF OnceFits, Asking, Steps, o
  <1>7. CASE Go(w, "reopen") /\ log[o].status = "failed"
    BY <1>1, <1>2, <1>3, <1>7, AskOnce DEF OnceFits, Asking, Steps, o
  <1> QED BY <1>4, <1>5, <1>6, <1>7

LEMMA OpenLogOnce ==
  ASSUME RelistInv, OnceInv, NEW w \in Workers, OpenLog(w)
  PROVE  OnceInv'
  <1> DEFINE o == loc[w].ord
  <1>1. o \in Orders /\ pc[w] \in Asking /\ log[o] \in LogType /\ log[o].status = "none"
    BY AskingOrder DEF OpenLog, At, Asking
  <1>2. event' = event /\ listed' = listed /\ blind' = blind /\ late' = late
    BY DEF OpenLog, KeepPublish
  <1>3. ASSUME log' = [log EXCEPT ![o].status = "publishing"], Go(w, "call"), loc' = loc
        PROVE  OnceInv'
    <2>1. /\ log'[o].status = "publishing" /\ \A p \in Orders \ {o} : log'[p] = log[p]
      BY <1>1, <1>3 DEF LogType, RelistInv, TypeOK
    <2> HIDE DEF o
    <2> QED BY <1>1, <1>2, <1>3, <2>1, AskOnce DEF OnceFits, Asking, Steps, o
  <1>4. ASSUME log' = [log EXCEPT ![o].status = "failed"], Go(w, "persist"),
               Answer(w, "refused", Nil)
        PROVE  OnceInv'
    <2>1. /\ \A p \in Orders \ {o} : log'[p] = log[p]
      BY <1>1, <1>4 DEF RelistInv, TypeOK
    <2>2. /\ loc'[w].ord = o /\ \A v \in Workers \ {w} : loc'[v] = loc[v]
      BY <1>4, AnswerKeeps
    <2> HIDE DEF o
    <2> QED BY <1>1, <1>2, <1>4, <2>1, <2>2, AskOnce DEF OnceFits, Asking, Steps, o
  <1> QED BY <1>3, <1>4 DEF OpenLog

LEMMA OpenTakenOnce ==
  ASSUME RelistInv, OnceInv, NEW w \in Workers, OpenTaken(w)
  PROVE  OnceInv'
  <1> DEFINE o == loc[w].ord
  <1>1. o \in Orders /\ pc[w] \in Asking
    BY AskingOrder DEF OpenTaken, At, Asking
  <1>2. event' = event /\ log' = log /\ listed' = listed /\ blind' = blind /\ late' = late
        /\ Go(w, "persist")
    BY DEF OpenTaken, KeepPublish
  <1>3. /\ loc'[w].ord = o /\ \A v \in Workers \ {w} : loc'[v] = loc[v]
    BY AnswerKeeps DEF OpenTaken
  <1> HIDE DEF o
  <1> QED BY <1>1, <1>2, <1>3, AskOnce DEF OnceFits, Asking, Steps, o

LEMMA ReopenLogOnce ==
  ASSUME RelistInv, OnceInv, NEW w \in Workers, ReopenLog(w)
  PROVE  OnceInv'
  <1> DEFINE o == loc[w].ord
  <1>1. o \in Orders /\ pc[w] \in Asking /\ pc[w] = "reopen"
    BY AskingOrder DEF ReopenLog, At, Asking
  <1>2. event' = event /\ listed' = listed /\ blind' = blind /\ late' = late
    BY DEF ReopenLog, KeepPublish
  <1>3. ASSUME log' = [log EXCEPT ![o] = [status |-> "publishing", item |-> Nil]],
               Go(w, "call"), loc' = loc
        PROVE  OnceInv'
    <2>1. /\ log'[o].status = "publishing" /\ \A p \in Orders \ {o} : log'[p] = log[p]
      BY <1>1, <1>3 DEF RelistInv, TypeOK
    <2> HIDE DEF o
    <2> QED BY <1>1, <1>2, <1>3, <2>1, AskOnce DEF OnceFits, Asking, Steps, o
  <1>4. ASSUME log' = log, Go(w, "persist"), Answer(w, "refused", Nil)
        PROVE  OnceInv'
    <2>2. /\ loc'[w].ord = o /\ \A v \in Workers \ {w} : loc'[v] = loc[v]
      BY <1>4, AnswerKeeps
    <2> HIDE DEF o
    <2> QED BY <1>1, <1>2, <1>4, <2>2, AskOnce DEF OnceFits, Asking, Steps, o
  <1> QED BY <1>3, <1>4 DEF ReopenLog

LEMMA CallPlatformOnce ==
  ASSUME RelistInv, OnceInv, NEW w \in Workers, CallPlatform(w)
  PROVE  OnceInv'
  <1>1. PICK o \in Orders, hidden \in Nat, last \in 0 .. 1 :
          o = loc[w].ord /\ Called(w, o, hidden, last)
    BY CallPlatformCalls
  <1>2. /\ pc[w] = "call" /\ pc[w] \in Asking
        /\ event' = event /\ log' = log /\ late' = late /\ Go(w, "record")
    BY CallPlatformCalls DEF KeepPublish, Asking
  <1>3. /\ listed'[o] = listed[o] + hidden + last /\ blind'[o] = blind[o] + hidden
        /\ \A q \in Orders \ {o} : listed'[q] = listed[q] /\ blind'[q] = blind[q]
    BY <1>1, CalledCounts
  <1>4. listed[o] \in Nat /\ blind[o] \in Nat
    BY <1>1, <1>2, AskingOrder
  <1>5. OnceFits(o) => listed[o] = blind[o] /\ log[o].status = "publishing"
    BY <1>1, <1>2 DEF OnceFits
  <1>6. OnceFits(o) => listed'[o] = blind'[o] + last /\ blind'[o] \in Nat
    BY <1>3, <1>4, <1>5
  <1>7. /\ loc'[w].ord = o /\ \A v \in Workers \ {w} : loc'[v] = loc[v]
        /\ loc'[w].answer = "refused" => last = 0
    <2>1. ASSUME NEW answer \in {"ok", "lost", "refused"}, NEW item, Answer(w, answer, item),
                 answer = "refused" => last = 0
          PROVE  /\ loc'[w].ord = o /\ \A v \in Workers \ {w} : loc'[v] = loc[v]
                 /\ loc'[w].answer = "refused" => last = 0
      BY <1>1, <2>1, AnswerKeeps
    <2> QED BY <1>1, <2>1 DEF Called
  <1>8. OnceFits(o) =>
          /\ listed'[o] <= 1 + blind'[o]
          /\ listed'[o] # blind'[o] => log'[o].status \in {"publishing", "success"}
          /\ loc'[w].answer = "refused" => listed'[o] = blind'[o]
    BY <1>2, <1>5, <1>6, <1>7
  <1> QED BY <1>1, <1>2, <1>3, <1>7, <1>8, AskOnce DEF Asking, Steps

LEMMA RecordLogOnce ==
  ASSUME RelistInv, OnceInv, NEW w \in Workers, RecordLog(w)
  PROVE  OnceInv'
  <1> DEFINE o == loc[w].ord
             status == CASE loc[w].answer = "ok" -> "success"
                         [] loc[w].answer = "refused" -> "failed"
                         [] OTHER -> "publishing"
  <1>1. o \in Orders /\ pc[w] \in Asking /\ pc[w] = "record"
    BY AskingOrder DEF RecordLog, At, Asking
  <1>2. event' = event /\ listed' = listed /\ blind' = blind /\ late' = late
        /\ Go(w, "persist")
    BY DEF RecordLog, KeepPublish
  <1>3. ASSUME NEW item, log' = [log EXCEPT ![o] = [status |-> status, item |-> item]],
               loc' = loc
        PROVE  OnceInv'
    <2>1. /\ log'[o].status = status /\ \A p \in Orders \ {o} : log'[p] = log[p]
      BY <1>1, <1>3 DEF RelistInv, TypeOK
    <2>2. loc[w].answer # "refused" => status \in {"publishing", "success"}
      OBVIOUS
    <2> HIDE DEF o, status
    <2>3. OnceFits(o) => /\ listed[o] <= 1 + blind[o]
                         /\ loc[w].answer = "refused" => listed[o] = blind[o]
      BY <1>1 DEF OnceFits, o
    <2> QED BY <1>1, <1>2, <1>3, <2>1, <2>2, <2>3, AskOnce DEF Asking, Steps, o
  <1>4. ASSUME log' = log, Answer(w, "lost", loc[w].item)
        PROVE  OnceInv'
    <2>2. /\ loc'[w].ord = o /\ \A v \in Workers \ {w} : loc'[v] = loc[v]
      BY <1>4, AnswerKeeps
    <2> HIDE DEF o
    <2> QED BY <1>1, <1>2, <1>4, <2>2, AskOnce DEF OnceFits, Asking, Steps, o
  <1> QED BY <1>3, <1>4 DEF RecordLog


\* A worker that leaves its event has none.
LEMMA LeaveOrder ==
  ASSUME RelistInv, NEW w \in Workers, LeaveEvent(w)
  PROVE  /\ loc'[w].ord = Nil /\ Go(w, "next") /\ "next" \in Steps \ Asking
         /\ \A v \in Workers \ {w} : loc'[v] = loc[v]
  BY DEF LeaveEvent, RelistInv, TypeOK, NoJob, Steps, Asking

\* It leaves after writing to its event, or without.
LEMMA LeaveOnce ==
  ASSUME RelistInv, OnceInv, NEW w \in Workers, loc[w].ord \in Orders,
         Softly(loc[w].ord), KeepCheck, late' = late, LeaveEvent(w)
  PROVE  OnceInv'
  BY LeaveOrder, SoftOnce DEF KeepCheck

\* It goes on, elsewhere than to the platform.
LEMMA GoOnce ==
  ASSUME RelistInv, OnceInv, NEW w \in Workers, loc[w].ord \in Orders,
         Softly(loc[w].ord), KeepCheck, late' = late, loc' = loc,
         NEW p \in {"fetch", "still", "enter", "migrate", "cas", "after"}, Go(w, p)
  PROVE  OnceInv'
  <1>1. p \in Steps \ Asking
    BY DEF Steps, Asking
  <1> QED BY <1>1, SoftOnce DEF KeepCheck

\* The lease of the worker's event is renewed.
LEMMA RenewSoft ==
  ASSUME RelistInv, NEW o \in Orders, SetEvent(o, [event[o] EXCEPT !.leased = TRUE])
  PROVE  Softly(o)
  <1> DEFINE e == [event[o] EXCEPT !.leased = TRUE]
  <1>1. e.token = event[o].token /\ e.leased
    BY DEF RelistInv, TypeOK
  <1>2. SetEvent(o, e)
    OBVIOUS
  <1> HIDE DEF e
  <1> QED BY <1>1, <1>2, SetSoft

LEMMA CheckOnce ==
  ASSUME RelistInv, OnceInv, NEW w \in Workers, Check(w)
  PROVE  OnceInv'
  <1> DEFINE o == loc[w].ord
  <1>1. o \in Orders /\ KeepCheck /\ late' = late
    BY BusyOrder DEF Check, At, Busy, Steps
  <1> HIDE DEF o
  <1>2. ASSUME LeaveEvent(w),
               KeepRows \/ ScheduleMigration(o, w) \/ SkipEvent(o, w) \/ PauseEvent(o, w)
        PROVE  OnceInv'
    <2>1. Softly(o)
      BY <1>1, <1>2, ScheduleSoft, KeepSoft DEF KeepRows
    <2> QED BY <1>1, <1>2, <2>1, LeaveOnce DEF o
  <1>3. ASSUME Begin(w, o)
        PROVE  OnceInv'
    <2> DEFINE n == IF event[o].attempts < MaxAttempts THEN event[o].attempts + 1
                    ELSE event[o].attempts
               e == [event[o] EXCEPT !.status = "checking", !.attempts = n]
    <2>1. e.token = event[o].token /\ e.leased = event[o].leased
      <3> HIDE DEF n
      <3> QED BY <1>1 DEF RelistInv, TypeOK
    <2>2. SetEvent(o, e)
      BY <1>3 DEF Begin
    <2> HIDE DEF e
    <2>3. Softly(o)
      BY <1>1, <2>1, <2>2, SetSoft
    <2>4. loc'[w].ord = o /\ \A v \in Workers \ {w} : loc'[v] = loc[v]
      <3> DEFINE d == Published(event[o])
                 i == IF Published(event[o]) THEN event[o].item ELSE Nil
      <3>1. loc' = [loc EXCEPT ![w] = [loc[w] EXCEPT !.done = d, !.seen = rule.version,
                                                     !.item = i]]
        BY <1>3 DEF Begin
      <3> HIDE DEF d, i
      <3> QED BY <3>1 DEF RelistInv, TypeOK, o
    <2>5. Go(w, "lock") /\ "lock" \in Steps \ Asking
      BY <1>3 DEF Begin, Steps, Asking
    <2> QED BY <1>1, <2>3, <2>4, <2>5, SoftOnce DEF KeepCheck, o
  <1> QED BY <1>2, <1>3 DEF Check, CheckFails, o

LEMMA LockOnce ==
  ASSUME RelistInv, OnceInv, NEW w \in Workers, Lock(w)
  PROVE  OnceInv'
  <1> DEFINE o == loc[w].ord
  <1>1. o \in Orders /\ KeepCheck /\ late' = late /\ loc[w].done \in BOOLEAN
    BY BusyOrder DEF Lock, At, Busy, Steps, RelistInv, TypeOK
  <1>2. ASSUME loc' = loc, SetEvent(o, [event[o] EXCEPT !.leased = TRUE]), Go(w, "fetch")
        PROVE  OnceInv'
    BY <1>1, <1>2, RenewSoft, GoOnce
  <1>3. ASSUME loc' = loc, event' = event, Go(w, "after")
        PROVE  OnceInv'
    BY <1>1, <1>3, KeepSoft, GoOnce
  <1>4. ASSUME Schedule(loc[w].done, o, w), LeaveEvent(w)
        PROVE  OnceInv'
    BY <1>1, <1>4, ScheduleSoft, LeaveOnce
  <1> QED BY <1>2, <1>3, <1>4 DEF Lock

LEMMA RecheckOnce ==
  ASSUME RelistInv, OnceInv, NEW w \in Workers, Recheck(w)
  PROVE  OnceInv'
  <1> DEFINE o == loc[w].ord
  <1>1. o \in Orders /\ KeepCheck /\ late' = late /\ loc[w].done \in BOOLEAN
    BY BusyOrder DEF Recheck, At, Busy, Steps, RelistInv, TypeOK
  <1>2. loc'[w].ord = o /\ \A v \in Workers \ {w} : loc'[v] = loc[v]
    <2>1. ASSUME NEW n, loc' = [loc EXCEPT ![w].seen = n]
          PROVE  loc'[w].ord = o /\ \A v \in Workers \ {w} : loc'[v] = loc[v]
      BY <2>1 DEF RelistInv, TypeOK
    <2> QED BY <2>1 DEF Recheck
  <1>3. \E p \in {"after", "migrate", "still", "enter"} : Go(w, p)
    BY DEF Recheck
  <1>4. \/ KeepRows \/ Schedule(loc[w].done, o, w) \/ SkipEvent(o, w) \/ PauseEvent(o, w)
        \/ SetEvent(o, [event[o] EXCEPT !.leased = TRUE])
    BY Zenon DEF Recheck
  <1> HIDE DEF o
  <1>5. Softly(o)
    BY <1>1, <1>4, KeepSoft, ScheduleSoft, RenewSoft DEF KeepRows
  <1>6. PICK p \in {"after", "migrate", "still", "enter"} : Go(w, p)
    BY <1>3
  <1>7. p \in Steps \ Asking
    BY DEF Steps, Asking
  <1> QED BY <1>1, <1>2, <1>5, <1>6, <1>7, SoftOnce DEF KeepCheck, o

LEMMA StillOnce ==
  ASSUME RelistInv, OnceInv, NEW w \in Workers, Still(w)
  PROVE  OnceInv'
  <1> DEFINE o == loc[w].ord
             n == IF event[o].attempts = 0 THEN 0 ELSE event[o].attempts - 1
             e == [Released(event[o]) EXCEPT !.status = "pending", !.attempts = n]
  <1>1. o \in Orders /\ KeepCheck /\ late' = late /\ loc' = loc /\ Go(w, "after")
    BY BusyOrder DEF Still, At, Busy, Steps, KeepBounds, bounds
  <1>2. e.token = Nil
    <2>1. event[o] \in EventType
      BY <1>1 DEF RelistInv, TypeOK, EventType
    <2> HIDE DEF n
    <2> QED BY <2>1 DEF Released, EventType
  <1>3. SetEvent(o, e)
    <2>1. Released(event[o]).attempts = event[o].attempts
      BY <1>1 DEF Released, RelistInv, TypeOK
    <2> QED BY <2>1 DEF Still
  <1> HIDE DEF e
  <1> QED BY <1>1, <1>2, <1>3, SetSoft, GoOnce

LEMMA EnterOnce ==
  ASSUME RelistInv, OnceInv, NEW w \in Workers, Enter(w)
  PROVE  OnceInv'
  <1> DEFINE o == loc[w].ord
             e == [event[o] EXCEPT !.status = "publishing", !.pub = "submitted"]
  <1>1. o \in Orders /\ KeepCheck /\ late' = late /\ loc' = loc
    BY BusyOrder DEF Enter, At, Busy, Steps, KeepBounds, bounds
  <1>2. CASE ~Holds(w, o, {"checking"})
    BY <1>1, <1>2, KeepSoft, GoOnce DEF Enter
  <1>3. CASE Holds(w, o, {"checking"})
    <2>1. e.token = w /\ e.status = "publishing" /\ e.leased = event[o].leased
          /\ event[o].token = w
      BY <1>1, <1>3 DEF Holds, RelistInv, TypeOK
    <2>2. SetEvent(o, e) /\ Go(w, "lookup")
      BY <1>3 DEF Enter
    <2> HIDE DEF e
    <2>3. event'[o] = e /\ \A p \in Orders \ {o} : event'[p] = event[p]
      BY <1>1, <2>2 DEF SetEvent, RelistInv, TypeOK
    <2>4. pc'[w] = "lookup" /\ \A v \in Workers \ {w} : pc'[v] = pc[v]
      BY <2>2 DEF Go, RelistInv, TypeOK
    <2> HIDE DEF o
    <2>5. ASSUME NEW p \in Orders \ late, p # o
          PROVE  OnceFits(p)'
      <3>1. \A v \in Workers : loc'[v].ord = p => pc'[v] = pc[v] /\ loc'[v] = loc[v]
        BY <1>1, <2>4, <2>5 DEF o
      <3> QED BY <1>1, <2>3, <2>5, <3>1, OnceStays DEF OnceInv, OnceFits, KeepCheck
    <2>6. ASSUME NEW p \in Orders \ late, p = o
          PROVE  OnceFits(p)'
      <3>1. OnceFits(p) /\ loc[w].ord = p
        BY <2>6 DEF OnceInv, o
      <3>2. \A v \in Workers : loc'[v].ord = p => v = w
        BY <1>1, <3>1 DEF OnceFits
      <3>3. log' = log /\ listed' = listed /\ blind' = blind
        BY <1>1 DEF KeepCheck
      <3>4. e.leased
        BY <2>1, <2>6, <3>1 DEF OnceFits
      <3>5. Asked(e, w) /\ event'[p] = e
        BY <2>1, <2>3, <2>6 DEF Asked
      <3> QED BY <2>4, <3>1, <3>2, <3>3, <3>4, <3>5 DEF OnceFits
    <2> SUFFICES ASSUME NEW p \in Orders \ late'
                 PROVE  OnceFits(p)'
      BY DEF OnceInv
    <2>7. p \in Orders \ late
      BY <1>1
    <2> QED BY <2>5, <2>6, <2>7
  <1> QED BY <1>2, <1>3

LEMMA PersistOnce ==
  ASSUME RelistInv, OnceInv, NEW w \in Workers, Persist(w)
  PROVE  OnceInv'
  <1> DEFINE o == loc[w].ord
  <1>1. o \in Orders /\ KeepCheck /\ late' = late
    BY BusyOrder DEF Persist, At, Busy, Steps, KeepBounds, bounds
  <1>2. event[o] \in EventType
    BY <1>1 DEF RelistInv, TypeOK, EventType
  <1>3. CASE PersistLost(w, o)
    <2> DEFINE i == IF loc[w].item = Nil THEN event[o].item ELSE loc[w].item
               e == [Released(event[o]) EXCEPT !.status = "unknown", !.pub = "unknown",
                                               !.item = i]
    <2>1. e.token = Nil
      <3> HIDE DEF i
      <3> QED BY <1>2 DEF Released, EventType
    <2>2. event' = event \/ SetEvent(o, e)
      <3>1. Released(event[o]).item = event[o].item
        BY <1>2 DEF Released, EventType
      <3> QED BY <1>3, <3>1 DEF PersistLost, KeepRows
    <2>3. loc' = loc /\ Go(w, "after")
      BY <1>3 DEF PersistLost
    <2> HIDE DEF e
    <2>4. Softly(o)
      BY <1>1, <2>1, <2>2, SetSoft, KeepSoft
    <2> QED BY <1>1, <2>3, <2>4, GoOnce
  <1>4. CASE PersistListed(w, o)
    <2> DEFINE e == [event[o] EXCEPT !.pub = "succeeded", !.item = loc[w].item,
                                     !.leased = TRUE]
    <2>1. e.token = event[o].token /\ e.leased
      BY <1>2 DEF EventType
    <2>2. event' = event \/ SetEvent(o, e)
      BY <1>4 DEF PersistListed
    <2>3. loc'[w].ord = o /\ \A v \in Workers \ {w} : loc'[v] = loc[v]
      BY <1>4 DEF PersistListed, RelistInv, TypeOK
    <2>4. Go(w, "migrate") \/ Go(w, "after")
      BY <1>4 DEF PersistListed
    <2>5. "migrate" \in Steps \ Asking /\ "after" \in Steps \ Asking
      BY DEF Steps, Asking
    <2> HIDE DEF e
    <2>6. Softly(o)
      BY <1>1, <2>1, <2>2, SetSoft, KeepSoft
    <2> QED BY <1>1, <2>3, <2>4, <2>5, <2>6, SoftOnce DEF KeepCheck
  <1>5. ASSUME ScheduleRetry(o, w), Go(w, "after"), loc' = loc
        PROVE  OnceInv'
    BY <1>1, <1>5, ScheduleSoft, GoOnce
  <1> QED BY <1>3, <1>4, <1>5 DEF Persist

LEMMA MigrateOnce ==
  ASSUME RelistInv, OnceInv, NEW w \in Workers, Migrate(w)
  PROVE  OnceInv'
  <1> DEFINE o == loc[w].ord
  <1>1. o \in Orders /\ KeepCheck /\ late' = late /\ loc' = loc
    BY BusyOrder DEF Migrate, At, Busy, Steps
  <1>2. Softly(o)
    BY <1>1, KeepSoft, RenewSoft, ScheduleSoft DEF Migrate, KeepRows
  <1>3. Go(w, "after") \/ Go(w, "cas")
    BY DEF Migrate
  <1> QED BY <1>1, <1>2, <1>3, GoOnce

LEMMA MoveRuleOnce ==
  ASSUME RelistInv, OnceInv, NEW w \in Workers, MoveRule(w)
  PROVE  OnceInv'
  <1> DEFINE o == loc[w].ord
  <1>1. o \in Orders /\ KeepCheck /\ late' = late /\ loc' = loc /\ Go(w, "after")
    BY BusyOrder DEF MoveRule, At, Busy, Steps, KeepBounds, bounds
  <1>2. Softly(o)
    BY <1>1, PutSoft DEF MoveRule
  <1> QED BY <1>1, <1>2, GoOnce

LEMMA AfterOnce ==
  ASSUME RelistInv, OnceInv, NEW w \in Workers, After(w)
  PROVE  OnceInv'
  <1> DEFINE o == loc[w].ord
  <1>1. o \in Orders /\ KeepCheck /\ late' = late /\ LeaveEvent(w)
    BY BusyOrder DEF After, At, Busy, Steps, KeepBounds, bounds
  <1>2. Softly(o)
    BY <1>1, KeepSoft, ScheduleSoft DEF After, KeepRows, Schedule
  <1> QED BY <1>1, <1>2, LeaveOnce

LEMMA RaiseOnce ==
  ASSUME RelistInv, OnceInv, NEW w \in Workers, Raise(w)
  PROVE  OnceInv'
  <1> DEFINE o == loc[w].ord
  <1>1. o \in Orders /\ KeepCheck /\ late' = late /\ LeaveEvent(w)
    BY BusyOrder DEF Raise, Busy, Steps
  <1>2. Softly(o)
    BY <1>1, KeepSoft, ScheduleSoft DEF Raise, KeepRows, Schedule
  <1> QED BY <1>1, <1>2, LeaveOnce


\* A step of nobody who has an event: where one asks, the event stays asked for.
LEMMA RowsOnce ==
  ASSUME RelistInv, OnceInv, UNCHANGED <<loc, log, listed, blind>>, late' = late,
         \A v \in Workers : pc'[v] = pc[v] \/ pc'[v] \notin Asking,
         \A o \in Orders, v \in Workers :
           /\ event'[o].token = v =>
                event[o].token = v /\ (loc[v].ord = o /\ event[o].leased => event'[o].leased)
           /\ loc[v].ord = o /\ Asked(event[o], v) /\ (event[o].token = v => event[o].leased)
                => Asked(event'[o], v)
  PROVE  OnceInv'
  <1> SUFFICES ASSUME NEW o \in Orders \ late
               PROVE  OnceFits(o)'
    BY DEF OnceInv
  <1>1. OnceFits(o)
    BY DEF OnceInv
  <1>2. ASSUME NEW v \in Workers, loc[v].ord = o
        PROVE  /\ pc'[v] \in Asking => pc'[v] = pc[v] /\ loc'[v] = loc[v] /\ Asked(event'[o], v)
               /\ event'[o].token = v => event'[o].leased
    <2>1. /\ event[o].token = v => event[o].leased
          /\ pc[v] \in Asking => Asked(event[o], v)
      BY <1>1, <1>2 DEF OnceFits
    <2> QED BY <1>2, <2>1
  <1> QED BY <1>1, <1>2, OnceStays

LEMMA RecoverOnce ==
  ASSUME RelistInv, Reads, OnceInv, NEW w \in Workers, Recover(w)
  PROVE  OnceInv'
  <1> DEFINE hit == {o \in Orders : reading[w][o] # "none" /\ Expired(event[o])}
  <1>1. /\ UNCHANGED <<loc, log, listed, blind>> /\ late' = late
        /\ \A v \in Workers : pc'[v] = pc[v] \/ pc'[v] \notin Asking
    BY DEF Recover, bounds, Go, Asking, RelistInv, TypeOK
  <1>2. ASSUME NEW o \in hit
        PROVE  /\ event'[o].token = Nil /\ o \in Orders
               /\ event[o].status \in Leased /\ ~event[o].leased
    <2>1. event'[o] = Recovered(event[o], reading[w][o]) /\ o \in Orders
      BY DEF Recover
    <2>2. event[o] \in EventType
      BY <2>1 DEF RelistInv, TypeOK, EventType
    <2>3. Recovered(event[o], reading[w][o]).token = Nil
      BY <2>2 DEF Recovered, Released, EventType
    <2> QED BY <2>1, <2>3 DEF Expired
  <1>3. \A o \in Orders \ hit : event'[o] = event[o]
    BY DEF Recover
  <1> HIDE DEF hit
  <1>4. ASSUME NEW o \in Orders, NEW v \in Workers
        PROVE  /\ event'[o].token = v =>
                    event[o].token = v /\ (loc[v].ord = o /\ event[o].leased => event'[o].leased)
               /\ loc[v].ord = o /\ Asked(event[o], v) /\ (event[o].token = v => event[o].leased)
                    => Asked(event'[o], v)
    <2>1. CASE o \in hit
      BY <1>2, <2>1, RelistAssumption DEF Asked, Leased
    <2>2. CASE o \notin hit
      BY <1>3, <2>2
    <2> QED BY <2>1, <2>2
  <1> QED BY <1>1, <1>4, RowsOnce

\* An event that is new is nobody's.
LEMMA InsertOnce ==
  ASSUME RelistInv, OnceInv, NEW w \in Workers, Insert(w)
  PROVE  OnceInv'
  <1>1. /\ UNCHANGED <<loc, log, listed, blind>> /\ late' = late
        /\ \A v \in Workers : pc'[v] = pc[v] \/ pc'[v] \notin Asking
    BY DEF Insert, ReadDue, bounds, Go, Asking, RelistInv, TypeOK
  <1>2. CASE event' = event
    BY <1>1, <1>2, RowsOnce
  <1>3. ASSUME NEW p \in Orders, event[p].status = "none",
               SetEvent(p, [NoEvent EXCEPT !.status = "pending", !.old = sale[p].item])
        PROVE  OnceInv'
    <2> DEFINE e == [NoEvent EXCEPT !.status = "pending", !.old = sale[p].item]
    <2>1. event'[p] = e /\ \A o \in Orders \ {p} : event'[o] = event[o]
      BY <1>3 DEF SetEvent, RelistInv, TypeOK
    <2>2. e.token = Nil
      BY DEF NoEvent
    <2> HIDE DEF e
    <2>3. ASSUME NEW o \in Orders, NEW v \in Workers
          PROVE  /\ event'[o].token = v =>
                      event[o].token = v /\ (loc[v].ord = o /\ event[o].leased => event'[o].leased)
                 /\ loc[v].ord = o /\ Asked(event[o], v) /\ (event[o].token = v => event[o].leased)
                      => Asked(event'[o], v)
      BY <1>3, <2>1, <2>2, RelistAssumption DEF Asked
    <2> QED BY <1>1, <2>3, RowsOnce
  <1>4. todo[w] \subseteq Orders
    BY DEF RelistInv, TypeOK
  <1> QED BY <1>2, <1>3, <1>4 DEF Insert, KeepRows

LEMMA MarkWriteOnce ==
  ASSUME RelistInv, OnceInv, NEW w \in Workers, MarkWrite(w)
  PROVE  OnceInv'
  <1>1. /\ UNCHANGED <<loc, log, listed, blind>> /\ late' = late
        /\ \A v \in Workers : pc'[v] = pc[v] \/ pc'[v] \notin Asking
    BY DEF MarkWrite, bounds, Go, Asking, RelistInv, TypeOK
  <1>2. ASSUME NEW o \in Orders
        PROVE  \/ event'[o] = event[o]
               \/ /\ event'[o].token = event[o].token /\ event'[o].leased = event[o].leased
                  /\ event'[o].status = "retry"
    <2>1. event[o] \in EventType
      BY DEF RelistInv, TypeOK, EventType
    <2>2. /\ [event[o] EXCEPT !.status = "retry"].token = event[o].token
          /\ [event[o] EXCEPT !.status = "retry"].leased = event[o].leased
          /\ [event[o] EXCEPT !.status = "retry"].status = "retry"
      BY <2>1 DEF EventType
    <2>3. event'[o] = event[o] \/ event'[o] = [event[o] EXCEPT !.status = "retry"]
      BY DEF MarkWrite
    <2> QED BY <2>2, <2>3
  <1>3. ASSUME NEW o \in Orders, NEW v \in Workers
        PROVE  /\ event'[o].token = v =>
                    event[o].token = v /\ (loc[v].ord = o /\ event[o].leased => event'[o].leased)
               /\ loc[v].ord = o /\ Asked(event[o], v) /\ (event[o].token = v => event[o].leased)
                    => Asked(event'[o], v)
    BY <1>2 DEF Asked
  <1> QED BY <1>1, <1>3, RowsOnce

\* A claim gives the event its only worker.
LEMMA ClaimOnce ==
  ASSUME RelistInv, OnceInv, NEW w \in Workers, NEW o \in Orders, Claim(w, o)
  PROVE  OnceInv'
  <1>1. log' = log /\ listed' = listed /\ blind' = blind /\ late' = late
    BY DEF Claim, bounds
  <1>2. CASE ~Claimable(o)
    BY <1>1, <1>2, SameOnce DEF Claim
  <1>3. CASE Claimable(o)
    <2> DEFINE e == [event[o] EXCEPT !.status = "claimed", !.token = w, !.leased = TRUE]
               j == [NoJob EXCEPT !.ord = o]
    <2>1. e.token = w /\ e.leased /\ j.ord = o
      BY DEF RelistInv, TypeOK, NoJob
    <2>2. SetEvent(o, e) /\ loc' = [loc EXCEPT ![w] = j] /\ Go(w, "claimed")
      BY <1>3 DEF Claim
    <2> HIDE DEF e, j
    <2>3. /\ event'[o] = e /\ \A p \in Orders \ {o} : event'[p] = event[p]
          /\ loc'[w] = j /\ \A v \in Workers \ {w} : loc'[v] = loc[v]
          /\ pc'[w] = "claimed" /\ \A v \in Workers \ {w} : pc'[v] = pc[v]
      BY <2>2 DEF SetEvent, Go, RelistInv, TypeOK
    <2> SUFFICES ASSUME NEW p \in Orders \ late
                 PROVE  OnceFits(p)'
      BY <1>1 DEF OnceInv
    <2>4. OnceFits(p)
      BY DEF OnceInv
    <2>5. CASE p # o
      <3>1. \A v \in Workers : loc'[v].ord = p => v # w /\ loc'[v] = loc[v] /\ pc'[v] = pc[v]
        BY <2>1, <2>3, <2>5
      <3>2. event'[p] = event[p]
        BY <2>3, <2>5
      <3> QED BY <1>1, <2>4, <3>1, <3>2, OnceStays DEF OnceFits
    <2>6. CASE p = o
      <3>1. \A v \in Workers : loc[v].ord # p
        BY <1>3, <2>6 DEF Claimable
      <3>2. \A v \in Workers : loc'[v].ord = p => v = w
        BY <2>3, <3>1
      <3> QED BY <1>1, <2>1, <2>3, <2>4, <2>6, <3>2 DEF OnceFits, Asking
    <2> QED BY <2>5, <2>6
  <1> QED BY <1>2, <1>3

LEMMA DisableOnce ==
  ASSUME RelistInv, OnceInv, Disable
  PROVE  OnceInv'
  <1>1. UNCHANGED <<loc, log, listed, blind, pc>> /\ late' = late
    BY DEF Disable, KeepSeller, work
  <1>2. ASSUME NEW o \in Orders
        PROVE  \/ event'[o] = event[o]
               \/ /\ event[o].status \in GivenUp
                  /\ event'[o].token = Nil /\ event'[o].status = "skipped"
    <2>1. event[o] \in EventType
      BY DEF RelistInv, TypeOK, EventType
    <2>2. /\ [Released(event[o]) EXCEPT !.status = "skipped"].token = Nil
          /\ [Released(event[o]) EXCEPT !.status = "skipped"].status = "skipped"
      BY <2>1 DEF Released, EventType
    <2> QED BY <2>2 DEF Disable
  <1>3. ASSUME NEW o \in Orders, NEW v \in Workers
        PROVE  /\ event'[o].token = v =>
                    event[o].token = v /\ (loc[v].ord = o /\ event[o].leased => event'[o].leased)
               /\ loc[v].ord = o /\ Asked(event[o], v) /\ (event[o].token = v => event[o].leased)
                    => Asked(event'[o], v)
    BY <1>2, RelistAssumption DEF Asked
  <1> QED BY <1>1, <1>3, RowsOnce

LEMMA EnableOnce ==
  ASSUME RelistInv, OnceInv, NEW i \in Items, Enable(i)
  PROVE  OnceInv'
  <1>1. UNCHANGED <<loc, log, listed, blind, pc>> /\ late' = late
    BY DEF Enable, KeepSeller, work
  <1>2. ASSUME NEW o \in Orders
        PROVE  \/ event'[o] = event[o]
               \/ event'[o].token = Nil /\ event'[o].status = "retry"
    <2> DEFINE e == [Released(event[o]) EXCEPT !.status = "retry", !.attempts = 0]
    <2>1. event[o] \in EventType
      BY DEF RelistInv, TypeOK, EventType
    <2>2. e.token = Nil /\ e.status = "retry"
      BY <2>1 DEF Released, EventType
    <2>3. event'[o] = event[o] \/ event'[o] = e
      BY DEF Enable
    <2> HIDE DEF e
    <2> QED BY <2>2, <2>3
  <1>3. ASSUME NEW o \in Orders, NEW v \in Workers
        PROVE  /\ event'[o].token = v =>
                    event[o].token = v /\ (loc[v].ord = o /\ event[o].leased => event'[o].leased)
               /\ loc[v].ord = o /\ Asked(event[o], v) /\ (event[o].token = v => event[o].leased)
                    => Asked(event'[o], v)
    BY <1>2, RelistAssumption DEF Asked
  <1> QED BY <1>1, <1>3, RowsOnce

\* The seller answers for an event that nobody is asking about.
LEMMA AnsweredOnce ==
  ASSUME RelistInv, OnceInv, NEW o \in Orders, event[o].status = "unknown",
         UNCHANGED <<loc, pc, listed, blind>>, late' = late,
         event'[o].token = Nil,
         \A p \in Orders \ {o} : event'[p] = event[p] /\ log'[p] = log[p],
         listed[o] # blind[o] => log'[o].status \in {log[o].status, "success"}
  PROVE  OnceInv'
  <1> SUFFICES ASSUME NEW p \in Orders \ late
               PROVE  OnceFits(p)'
    BY DEF OnceInv
  <1>1. OnceFits(p)
    BY DEF OnceInv
  <1>2. CASE p # o
    BY <1>1, <1>2, OnceStays DEF OnceFits
  <1>3. CASE p = o
    <2>1. \A v \in Workers : loc[v].ord = p => pc[v] \notin Asking
      BY <1>1, <1>3 DEF OnceFits, Asked
    <2> QED BY <1>1, <1>3, <2>1, RelistAssumption DEF OnceFits, Asking
  <1> QED BY <1>2, <1>3

LEMMA ReconcileOnce ==
  ASSUME RelistInv, OnceInv, NEW o \in Orders, Reconcile(o)
  PROVE  OnceInv'
  <1>1. UNCHANGED <<loc, pc, listed, blind>> /\ late' = late /\ event[o].status = "unknown"
    BY DEF Reconcile, Answerable, KeepSeller, work
  <1>2. PICK i \in Listings :
          /\ SetEvent(o, [Resolved(event[o], "migration_retry") EXCEPT
                            !.pub = "succeeded", !.item = i])
          /\ log' = IF log[o].status = "none" THEN log
                    ELSE [log EXCEPT ![o] = [status |-> "success", item |-> i]]
    BY DEF Reconcile
  <1> DEFINE e == [Resolved(event[o], "migration_retry") EXCEPT
                     !.pub = "succeeded", !.item = i]
  <1>3. e.token = Nil
    BY DEF RelistInv, TypeOK, Resolved, Released
  <1>4. SetEvent(o, e)
    BY <1>2
  <1> HIDE DEF e
  <1>5. event'[o] = e /\ \A p \in Orders \ {o} : event'[p] = event[p]
    BY <1>4 DEF SetEvent, RelistInv, TypeOK
  <1>6. /\ \A p \in Orders \ {o} : log'[p] = log[p]
        /\ log'[o].status \in {log[o].status, "success"}
    BY <1>2 DEF RelistInv, TypeOK
  <1> QED BY <1>1, <1>3, <1>5, <1>6, AnsweredOnce

LEMMA NothingListed ==
  ASSUME RelistInv, NEW o \in Orders, listed[o] = 0
  PROVE  listed[o] = blind[o]
  BY RelistAssumption DEF RelistInv, TypeOK, LogFits

LEMMA NotPublishedOnce ==
  ASSUME RelistInv, OnceInv, NEW o \in Orders, NotPublished(o)
  PROVE  OnceInv'
  <1>1. UNCHANGED <<loc, pc, listed, blind>> /\ late' = late /\ event[o].status = "unknown"
        /\ listed[o] = blind[o]
    BY NothingListed DEF NotPublished, Answerable, KeepSeller, work
  <1> DEFINE e == [Resolved(event[o], "retry") EXCEPT
                     !.pub = "not_started", !.item = Nil, !.attempts = 0]
  <1>3. e.token = Nil
    BY DEF RelistInv, TypeOK, Resolved, Released
  <1>4. SetEvent(o, e)
    BY DEF NotPublished
  <1> HIDE DEF e
  <1>5. event'[o] = e /\ \A p \in Orders \ {o} : event'[p] = event[p]
    BY <1>4 DEF SetEvent, RelistInv, TypeOK
  <1>6. \A p \in Orders \ {o} : log'[p] = log[p]
    BY DEF NotPublished, RelistInv, TypeOK
  <1> QED BY <1>1, <1>3, <1>5, <1>6, AnsweredOnce

LEMMA LeaseEndsOnce ==
  ASSUME RelistInv, OnceInv, NEW p \in Orders, LeaseEnds(p)
  PROVE  OnceInv'
  <1> DEFINE e == [event[p] EXCEPT !.leased = FALSE]
  <1>1. UNCHANGED <<loc, log, listed, blind, pc>> /\ late' = late
    BY DEF LeaseEnds, work, bounds
  <1>2. e.token = event[p].token /\ e.status = event[p].status
    BY DEF RelistInv, TypeOK
  <1>3. SetEvent(p, e)
    BY DEF LeaseEnds
  <1> HIDE DEF e
  <1>4. event'[p] = e /\ \A o \in Orders \ {p} : event'[o] = event[o]
    BY <1>3 DEF SetEvent, RelistInv, TypeOK
  <1>5. \A v \in Workers : ~(loc[v].ord = p /\ event[p].token = v)
    BY DEF LeaseEnds, Working
  <1>6. ASSUME NEW o \in Orders, NEW v \in Workers
        PROVE  /\ event'[o].token = v =>
                    event[o].token = v /\ (loc[v].ord = o /\ event[o].leased => event'[o].leased)
               /\ loc[v].ord = o /\ Asked(event[o], v) /\ (event[o].token = v => event[o].leased)
                    => Asked(event'[o], v)
    BY <1>2, <1>4, <1>5 DEF Asked
  <1> QED BY <1>1, <1>6, RowsOnce

\* An order whose worker is slower than the lease is left out from then on.
LEMMA OutliveOnce ==
  ASSUME RelistInv, OnceInv, NEW p \in Orders, Outlive(p)
  PROVE  OnceInv'
  <1>1. UNCHANGED <<loc, log, listed, blind, pc>> /\ late' = late \cup {p}
    BY DEF Outlive, work
  <1>2. \A o \in Orders \ {p} : event'[o] = event[o]
    BY DEF Outlive, SetEvent, RelistInv, TypeOK
  <1> SUFFICES ASSUME NEW o \in Orders \ (late \cup {p})
               PROVE  OnceFits(o)'
    BY <1>1 DEF OnceInv
  <1>3. OnceFits(o)
    BY DEF OnceInv
  <1> QED BY <1>1, <1>2, <1>3, OnceStays DEF OnceFits

\* The steps that leave the rows alone.
LEMMA AloneOnce ==
  ASSUME RelistInv, OnceInv,
         \/ UNCHANGED vars \/ Trade \/ LockExpires \/ LoseLocks
         \/ \E w \in Workers : Start(w) \/ Discover(w) \/ Finish(w) \/ MarkRead(w) \/ Crash(w)
  PROVE  OnceInv'
  <1>1. CASE UNCHANGED vars \/ LockExpires \/ LoseLocks
    BY <1>1, SameOnce DEF vars, LockExpires, LoseLocks, rows, work, bounds
  <1>2. CASE Trade
    BY <1>2, SameOnce DEF Trade, OrderChanges, Sell, work, bounds
  <1>3. ASSUME NEW w \in Workers, Start(w) \/ Discover(w) \/ Finish(w) \/ MarkRead(w)
        PROVE  OnceInv'
    <2>1. UNCHANGED <<event, log, listed, blind, late>> /\ loc' = loc
      BY <1>3 DEF Start, Discover, Finish, MarkRead, rows, bounds
    <2>2. \E p \in {"recover", "insert", "next", "idle", "mark"} : Go(w, p)
      BY <1>3 DEF Start, Discover, ReadDue, Finish, MarkRead
    <2>3. \A v \in Workers : pc'[v] = pc[v] \/ pc'[v] \notin Asking
      BY <2>2 DEF Go, Asking, RelistInv, TypeOK
    <2> QED BY <2>1, <2>3, SameOnce
  <1>4. ASSUME NEW w \in Workers, Crash(w)
        PROVE  OnceInv'
    <2>1. UNCHANGED <<event, log, listed, blind, late>>
      BY <1>4 DEF Crash, rows
    <2>2. loc'[w].ord = Nil /\ \A v \in Workers \ {w} : loc'[v] = loc[v] /\ pc'[v] = pc[v]
      BY <1>4 DEF Crash, Go, NoJob, RelistInv, TypeOK
    <2> QED BY <2>1, <2>2, SameOnce
  <1> QED BY <1>1, <1>2, <1>3, <1>4

LEMMA OnceInit == Init => OnceInv
  BY RelistAssumption DEF Init, OnceInv, OnceFits, NoEvent, NoJob, Asking

LEMMA OnceStep == RelistInv /\ Reads /\ OnceInv /\ [Next]_vars => OnceInv'
  <1> SUFFICES ASSUME RelistInv, Reads, OnceInv, [Next]_vars  PROVE OnceInv'
    OBVIOUS
  <1>1. ASSUME NEW w \in Workers, Step(w)  PROVE OnceInv'
    BY <1>1, AloneOnce, RecoverOnce, InsertOnce, MarkWriteOnce, ClaimOnce, CheckOnce,
       LockOnce, RecheckOnce, StillOnce, EnterOnce, LookupOnce, OpenLogOnce,
       OpenTakenOnce, ReopenLogOnce, CallPlatformOnce, RecordLogOnce, PersistOnce,
       MigrateOnce, MoveRuleOnce, AfterOnce DEF Step
  <1>2. CASE Seller
    BY <1>2, DisableOnce, EnableOnce, ReconcileOnce, NotPublishedOnce DEF Seller
  <1>3. CASE Trouble
    BY <1>3, AloneOnce, RaiseOnce, OutliveOnce DEF Trouble
  <1>4. CASE Trade \/ LockExpires \/ UNCHANGED vars
    BY <1>4, AloneOnce
  <1>5. CASE \E o \in Orders : LeaseEnds(o)
    BY <1>5, LeaseEndsOnce
  <1> QED BY <1>1, <1>2, <1>3, <1>4, <1>5 DEF Next

\* The material of an order is listed once at most, however many workers run,
\* crash and retry, whatever the platform answers and the seller saves, as long
\* as no worker outlives the lease on that order's event, and apart from what
\* mtop_call lists by posting again before it has answered: the workers and the
\* log add no listing to those.
THEOREM ListedOnlyOnce == Spec => []ListedOnce
  <1>1. (RelistInv /\ Reads) /\ OnceInv /\ [Next]_vars => OnceInv'
    BY OnceStep
  <1>2. OnceInv => ListedOnce
    BY DEF OnceInv, OnceFits, ListedOnce
  <1> QED BY <1>1, <1>2, OnceInit, RelistInvHolds, PTL DEF Spec

=============================================================================
