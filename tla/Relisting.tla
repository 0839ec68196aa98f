----------------------------- MODULE Relisting -----------------------------
(***************************************************************************)
(* Automatic relisting of one material: an order delivered for the item    *)
(* the rule watches becomes an event; a worker claims the event under a    *)
(* lease, makes sure that the item is sold, publishes the material again,  *)
(* moves the associations of the old item to the new one and the rule with *)
(* them.  Workers are the processes that run AutoRelistTask.execute; the   *)
(* seller saves the rule and answers for results nobody knows.  An action  *)
(* is the code between two points at which another actor may act; every    *)
(* transaction is one step.                                                *)
(***************************************************************************)
EXTENDS Naturals

CONSTANTS
  Workers, Orders,
  First,         \* the item the rule watches first
  Nil,           \* no token, no item, no order; a free lock
  Dead,          \* the holder of a lock whose process died
  MaxAttempts,   \* max_retries
  MaxPosts,      \* _MAX_ATTEMPTS of mtop_call
  MaxListings,   \* bound: listings the platform makes for one order
  Budgets        \* bound: how many saves of the rule, and how many mishaps
                 \* (crashes, locks lost, leases outlived, failed calls)

\* A listing is named by the order it was published for.
Listings == Orders \X (1 .. MaxListings)
Items    == {First} \cup Listings

ASSUME RelistAssumption ==
  /\ Nil \notin Workers \cup Items \cup Orders /\ Dead \notin Workers \cup {Nil}
  /\ First \notin Listings
  /\ {MaxAttempts, MaxPosts, MaxListings} \subseteq Nat \ {0}
  /\ Budgets \subseteq Nat \X Nat

VARIABLES
  sale,      \* the platform's orders: what was bought, whether it still counts
  fresh,     \* orders beyond the rule's cursor (last_order_updated_at)
  rule,      \* the row of xy_auto_relist_rules
  event,     \* the row of xy_auto_relist_events of an order
  log,       \* the publish log of the order's publish_request_id
  listed,    \* the platform: how often the material was listed for an order
  runner,    \* Redis: auto_relist:runner
  account,   \* Redis: auto_relist:<user>:<account>
  pc, loc,   \* per worker: where it stands, the locals of the event at hand
  reading,   \* per worker: what it means to make of the expired events it read
  todo,      \* per worker: the due events it read; before, the order it found
  edits, mishaps, \* what is left of the budget
  late,      \* history: orders whose worker outlived its lease
  blind      \* history: an order's listings that mtop_call did not hear of
             \* before it posted again

rows   == <<sale, fresh, rule, event, log, listed, blind>>
locks  == <<runner, account>>
work   == <<pc, loc, reading, todo>>
bounds == <<edits, mishaps, late>>
vars   == <<rows, locks, work, bounds>>

Steps == {"idle", "mark", "recover", "discover", "insert", "next", "claimed", "lock",
          "fetch", "still", "enter", "lookup", "open", "reopen", "call",
          "record", "persist", "migrate", "cas", "after"}

Due     == {"pending", "retry", "migration_retry"}
Leased  == {"claimed", "checking", "publishing"}
Open    == Due \cup Leased \cup {"unknown"}
Statuses == Open \cup {"none", "skipped", "paused", "failed", "success"}

NoEvent == [status |-> "none", attempts |-> 0, token |-> Nil, leased |-> FALSE,
            pub |-> "not_started", item |-> Nil, old |-> Nil]
NoLog   == [status |-> "none", item |-> Nil]
NoJob   == [ord |-> Nil, done |-> FALSE, seen |-> 0, answer |-> "none",
            item |-> Nil]
Nothing == [o \in Orders |-> "none"]

Init ==
  /\ sale = [o \in Orders |-> [item |-> Nil, fit |-> TRUE]]
  /\ fresh = {}
  /\ rule = [enabled |-> TRUE, status |-> "active", item |-> First, version |-> 0]
  /\ event = [o \in Orders |-> NoEvent]
  /\ log = [o \in Orders |-> NoLog]
  /\ listed = [o \in Orders |-> 0]
  /\ runner = Nil /\ account = Nil
  /\ pc = [w \in Workers |-> "idle"] /\ loc = [w \in Workers |-> NoJob]
  /\ reading = [w \in Workers |-> Nothing] /\ todo = [w \in Workers |-> {}]
  /\ \E b \in Budgets : edits = b[1] /\ mishaps = b[2]
  /\ late = {} /\ blind = [o \in Orders |-> 0]

(***************************************************************************)
(* Rows and what they say                                                  *)
(***************************************************************************)
Released(e)  == [e EXCEPT !.token = Nil, !.leased = FALSE]
Published(e) == e.pub = "succeeded" /\ e.item # Nil
\* An event comes due a minute after it was scheduled at the earliest: the
\* worker that scheduled it has left it, unless it is one that outlived its lease.
Claimable(o) == /\ event[o].status \in Due /\ ~event[o].leased
                /\ o \in late \/ \A w \in Workers : loc[w].ord # o
\* (Mutant: an event that is publishing is left alone.)
ExpiredUnpublished(e) == e.status \in Leased \ {"publishing"} /\ ~e.leased
Expired(e) == e.status \in Leased /\ ~e.leased
Holds(w, o, S) == event[o].token = w /\ event[o].status \in S

\* A conditional write to the rule goes to an enabled one that still watches
\* the event's item.
RuleOf(o, status) ==
  IF rule.enabled /\ rule.item = event[o].old
  THEN [rule EXCEPT !.status = status] ELSE rule

SetEvent(o, e) == event' = [event EXCEPT ![o] = e]
Put(o, status) == SetEvent(o, [Released(event[o]) EXCEPT !.status = status])
KeepRows       == UNCHANGED <<rule, event>>

\* _schedule_retry, for the holder of token t.
ScheduleRetry(o, t) ==
  IF event[o].token = t /\ event[o].status \in Leased
  THEN IF event[o].attempts >= MaxAttempts
       THEN Put(o, "failed") /\ rule' = RuleOf(o, "error")
       ELSE Put(o, "retry") /\ rule' = RuleOf(o, "retrying")
  ELSE KeepRows

\* _schedule_migration_retry
ScheduleMigration(o, t) ==
  IF event[o].token = t /\ event[o].status \in Leased \cup {"migration_retry"}
  THEN /\ Put(o, "migration_retry")
       /\ rule' = IF rule.enabled THEN RuleOf(o, "retrying")
                  ELSE [rule EXCEPT !.status = "disabled"]
  ELSE KeepRows

Schedule(done, o, t) ==
  IF done THEN ScheduleMigration(o, t) ELSE ScheduleRetry(o, t)

\* _skip_event, _pause_event
SkipEvent(o, w) ==
  /\ IF Holds(w, o, Leased) THEN Put(o, "skipped") ELSE UNCHANGED event
  /\ UNCHANGED rule
PauseEvent(o, w) ==
  IF Holds(w, o, Leased) THEN Put(o, "paused") /\ rule' = RuleOf(o, "paused")
  ELSE KeepRows

Renews(w, o) == Holds(w, o, Leased \cup {"migration_retry"})

Go(w, where) == pc' = [pc EXCEPT ![w] = where]
Mishap       == mishaps > 0 /\ mishaps' = mishaps - 1
KeepBounds   == UNCHANGED bounds

(***************************************************************************)
(* A round of execute()                                                    *)
(***************************************************************************)
\* What a recovery makes of an event whose lease ran out, by what it reads.
\* (Mutant: a listing that was made counts as unknown.)
VerdictUnknown(e) ==
  IF ~Expired(e) THEN "none"
  ELSE IF e.status # "publishing" /\ e.pub = "not_started" THEN "retry" ELSE "unknown"
Verdict(e) ==
  IF ~Expired(e) THEN "none"
  ELSE IF Published(e) THEN "migration_retry"
  ELSE IF e.status # "publishing" /\ e.pub = "not_started" THEN "retry"
  ELSE "unknown"

Recovered(e, verdict) ==
  [Released(e) EXCEPT !.status = verdict,
                      !.pub = CASE verdict = "retry" -> "not_started"
                                [] verdict = "unknown" -> "unknown"
                                [] OTHER -> @]

\* The round's lock, and the read of _recover_expired_events.
Start(w) ==
  /\ pc[w] = "idle" /\ runner = Nil
  /\ runner' = w
  /\ reading' = [reading EXCEPT ![w] = [o \in Orders |-> Verdict(event[o])]]
  /\ Go(w, "recover")
  /\ UNCHANGED <<rows, account, loc, todo, bounds>>

\* _recover_one_expired_event: each write is conditional on the status, the
\* lease and the token that was read; a claim in between brings another token.
Recover(w) ==
  LET hit == {o \in Orders : reading[w][o] # "none" /\ Expired(event[o])} IN
  /\ pc[w] = "recover"
  /\ event' = [o \in Orders |-> IF o \in hit THEN Recovered(event[o], reading[w][o])
                                ELSE event[o]]
  /\ \/ hit = {} /\ UNCHANGED rule
     \/ \E o \in hit :
          rule' = RuleOf(o, IF reading[w][o] = "unknown" THEN "error" ELSE "retrying")
  /\ reading' = [reading EXCEPT ![w] = Nothing]
  /\ Go(w, "discover")
  /\ UNCHANGED <<sale, fresh, log, listed, blind, locks, loc, todo, bounds>>

\* Orders of the watched item beyond the cursor.
Wanted == {o \in fresh : sale[o].fit /\ sale[o].item = rule.item}

Watching ==
  /\ rule.enabled /\ rule.status \notin {"error", "paused"}
  /\ \A o \in Orders : event[o].old = rule.item => event[o].status \notin Open

\* The due events are read.
ReadDue(w) ==
  /\ todo' = [todo EXCEPT ![w] = {o \in Orders : event'[o].status \in Due}]
  /\ Go(w, "next")

\* _discover_events reads the rule and its orders, without a lock.
Discover(w) ==
  /\ pc[w] = "discover"
  /\ \/ (~Watching \/ Wanted = {}) /\ UNCHANGED event /\ ReadDue(w)
     \/ /\ Watching
        /\ \E o \in Wanted : todo' = [todo EXCEPT ![w] = {o}]
        /\ Go(w, "insert") /\ UNCHANGED event
  /\ UNCHANGED <<sale, fresh, rule, log, listed, blind, locks, loc, reading, bounds>>

\* It writes the event, the cursor and the rule, whatever became of the rule
\* meanwhile; its status is written if another one was read.  An order that has
\* its event by now moves the cursor only.
Insert(w) ==
  /\ pc[w] = "insert"
  /\ \E o \in todo[w] :
       /\ fresh' = fresh \ {o}
       /\ IF event[o].status = "none"
          THEN /\ SetEvent(o, [NoEvent EXCEPT !.status = "pending", !.old = sale[o].item])
               /\ rule' \in {rule, [rule EXCEPT !.status = "waiting"]}
          ELSE KeepRows
  /\ ReadDue(w)
  /\ UNCHANGED <<sale, log, listed, blind, locks, loc, reading, bounds>>

\* The list is done, or the round's lock is known to be lost.
Finish(w) ==
  /\ pc[w] = "next" /\ (todo[w] = {} \/ runner # w)
  /\ runner' = IF runner = w THEN Nil ELSE runner
  /\ todo' = [todo EXCEPT ![w] = {}]
  /\ Go(w, "idle")
  /\ UNCHANGED <<rows, account, loc, reading, bounds>>

\* A claim's token is new: no recovery that read the event before matches it.
Stale(o) == [v \in Workers |-> IF pc[v] = "recover"
                               THEN [reading[v] EXCEPT ![o] = "none"] ELSE reading[v]]

Claim(w, o) ==
  /\ pc[w] = "next" /\ o \in todo[w]
  /\ todo' = [todo EXCEPT ![w] = @ \ {o}]
  /\ IF Claimable(o)
     THEN /\ SetEvent(o, [event[o] EXCEPT !.status = "claimed", !.token = w, !.leased = TRUE])
          /\ loc' = [loc EXCEPT ![w] = [NoJob EXCEPT !.ord = o]]
          /\ reading' = Stale(o)
          /\ Go(w, "claimed")
     ELSE UNCHANGED <<event, loc, reading, pc>>
  /\ UNCHANGED <<sale, fresh, rule, log, listed, blind, locks, bounds>>

(***************************************************************************)
(* Redis cannot be asked for the round's lock                              *)
(***************************************************************************)
MarkRead(w) ==
  /\ pc[w] = "idle" /\ Mishap
  /\ reading' = [reading EXCEPT ![w] = [o \in Orders |->
       IF ~Claimable(o) THEN "none"
       ELSE IF event[o].status = "pending" THEN "retry" ELSE "keep"]]
  /\ Go(w, "mark")
  /\ UNCHANGED <<rows, locks, loc, todo, edits, late>>

\* The rows read are written back, whatever became of them meanwhile.
MarkWrite(w) ==
  /\ pc[w] = "mark"
  /\ event' = [o \in Orders |-> IF reading[w][o] = "retry"
                                THEN [event[o] EXCEPT !.status = "retry"] ELSE event[o]]
  /\ rule' = IF rule.enabled /\ reading[w] # Nothing
             THEN [rule EXCEPT !.status = "retrying"] ELSE rule
  /\ reading' = [reading EXCEPT ![w] = Nothing]
  /\ Go(w, "idle")
  /\ UNCHANGED <<sale, fresh, log, listed, blind, locks, loc, todo, bounds>>

(***************************************************************************)
(* One event: _process_event, up to the account's lock                     *)
(***************************************************************************)
Event(w) == event[loc[w].ord]
At(w, step) == pc[w] = step
LeaveEvent(w) == Go(w, "next") /\ loc' = [loc EXCEPT ![w] = NoJob]
KeepCheck     == UNCHANGED <<sale, fresh, log, listed, blind, reading, todo>>

\* Out of the event once its account lock, if this worker has it, is returned.
ReturnAccount(w) == account' = IF account = w THEN Nil ELSE account

\* What can be wrong with an event that has published nothing yet; whether
\* the material, the account or the card are out of use is anybody's guess.
CheckFails(w, o) ==
  \/ (~sale[o].fit \/ ~rule.enabled \/ rule.item # event[o].old) /\ SkipEvent(o, w)
  \/ sale[o].fit /\ rule.enabled /\ PauseEvent(o, w)

Begin(w, o) ==
  /\ SetEvent(o, [event[o] EXCEPT !.status = "checking",
                    !.attempts = IF @ < MaxAttempts THEN @ + 1 ELSE @])
  /\ loc' = [loc EXCEPT ![w] = [@ EXCEPT !.done = Published(event[o]),
               !.seen = rule.version,
               !.item = IF Published(event[o]) THEN event[o].item ELSE Nil]]
  /\ Go(w, "lock")
  /\ UNCHANGED rule

Check(w) ==
  LET o == loc[w].ord IN
  /\ At(w, "claimed")
  /\ \/ ~Holds(w, o, {"claimed"}) /\ LeaveEvent(w) /\ KeepRows /\ UNCHANGED mishaps
     \/ /\ Holds(w, o, {"claimed"})
        /\ \/ /\ Published(event[o]) /\ Mishap          \* the account is gone
              /\ ScheduleMigration(o, w) /\ LeaveEvent(w)
           \/ /\ ~Published(event[o])
              /\ CheckFails(w, o) /\ LeaveEvent(w) /\ UNCHANGED mishaps
           \/ /\ \/ Published(event[o])
                 \/ sale[o].fit /\ rule.enabled /\ rule.item = event[o].old
              /\ Begin(w, o) /\ UNCHANGED mishaps
  /\ KeepCheck /\ UNCHANGED <<locks, edits, late>>

\* The account's lock, and the first renewal of the lease.
Lock(w) ==
  LET o == loc[w].ord IN
  /\ At(w, "lock")
  /\ \/ /\ account = Nil /\ account' = w
        /\ IF Renews(w, o)
           THEN SetEvent(o, [event[o] EXCEPT !.leased = TRUE]) /\ Go(w, "fetch")
           ELSE UNCHANGED event /\ Go(w, "after")
        /\ UNCHANGED <<rule, loc, mishaps>>
     \/ /\ \/ account # Nil /\ UNCHANGED mishaps
           \/ Mishap
        /\ Schedule(loc[w].done, o, w) /\ LeaveEvent(w)
        /\ UNCHANGED account
  /\ KeepCheck /\ UNCHANGED <<runner, edits, late>>

(***************************************************************************)
(* _publish_after_check                                                    *)
(***************************************************************************)
\* The account's items are fetched, the rule is read again and the lease is
\* renewed.  A fetch that stores nothing leaves the session in the snapshot
\* of the check: the rule is seen as it was then.
Recheck(w) ==
  LET o == loc[w].ord IN
  /\ At(w, "fetch")
  /\ \/ /\ Mishap                               \* the fetch failed
        /\ Schedule(loc[w].done, o, w) /\ Go(w, "after") /\ UNCHANGED loc
     \/ /\ ~Renews(w, o) /\ Go(w, "after")
        /\ KeepRows /\ UNCHANGED <<loc, mishaps>>
     \/ \E stale \in BOOLEAN :
          LET asBefore == stale \/ (rule.enabled /\ rule.item = event[o].old) IN
          /\ Renews(w, o)
          /\ loc' = [loc EXCEPT ![w].seen = IF stale THEN @ ELSE rule.version]
          /\ UNCHANGED mishaps
          /\ \/ ~loc[w].done /\ ~asBefore /\ SkipEvent(o, w) /\ Go(w, "after")
             \/ ~loc[w].done /\ asBefore /\ PauseEvent(o, w) /\ Go(w, "after")
             \/ /\ loc[w].done \/ asBefore
                /\ IF loc[w].done THEN Go(w, "migrate")
                   ELSE \E next \in {"still", "enter"} : Go(w, next)
                /\ SetEvent(o, [event[o] EXCEPT !.leased = TRUE])
                /\ UNCHANGED rule
  /\ KeepCheck /\ UNCHANGED <<locks, edits, late>>

\* The old item is on sale still: the attempt does not count.  The rows are
\* written as read, without a condition.
Still(w) ==
  LET o == loc[w].ord IN
  /\ At(w, "still")
  /\ SetEvent(o, [Released(event[o]) EXCEPT !.status = "pending",
                    !.attempts = IF @ = 0 THEN 0 ELSE @ - 1])
  /\ rule' = [rule EXCEPT !.status = "waiting"]
  /\ Go(w, "after")
  /\ KeepCheck /\ KeepBounds /\ UNCHANGED <<locks, loc>>

\* From here on the platform may be asked.  The rule read under its row lock
\* is the object read before: only the event's row can stop the step.
Enter(w) ==
  LET o == loc[w].ord IN
  /\ At(w, "enter")
  /\ IF Holds(w, o, {"checking"})
     THEN /\ SetEvent(o, [event[o] EXCEPT !.status = "publishing", !.pub = "submitted"])
          /\ Go(w, "lookup")
     ELSE UNCHANGED event /\ Go(w, "after")
  /\ KeepCheck /\ KeepBounds /\ UNCHANGED <<rule, locks, loc>>

(***************************************************************************)
(* execute_single_publish                                                  *)
(***************************************************************************)
KeepPublish == UNCHANGED <<sale, fresh, rule, event, locks, reading, todo, edits, late>>
\* (Mutant: the new item's id is not returned.)
AnswerWithoutItem(w, answer, item) ==
  loc' = [loc EXCEPT ![w].answer = answer]
Answer(w, answer, item) ==
  loc' = [loc EXCEPT ![w] = [@ EXCEPT !.answer = answer, !.item = item]]

\* A log with a failed call is used for the next one. (Mutant: an open one too.)
ReusableOpen(entry) == entry.status \in {"failed", "publishing"}
Reusable(entry) == entry.status = "failed"

\* The publish log of the request; one that is done or open decides.
Lookup(w) ==
  LET entry == log[loc[w].ord] IN
  /\ At(w, "lookup")
  /\ \/ entry.status = "success" /\ Answer(w, "ok", entry.item) /\ Go(w, "persist")
     \/ entry.status = "publishing" /\ Answer(w, "lost", entry.item) /\ Go(w, "persist")
     \/ Reusable(entry) /\ Go(w, "reopen") /\ UNCHANGED loc
     \/ entry.status = "none" /\ Go(w, "open") /\ UNCHANGED loc
  /\ KeepPublish /\ UNCHANGED <<log, listed, blind, mishaps>>

\* A log is inserted for a request that had none; the account may lack a
\* cookie, or its address, before anything is asked.
OpenLog(w) ==
  LET o == loc[w].ord IN
  /\ At(w, "open") /\ log[o].status = "none"
  /\ \/ /\ log' = [log EXCEPT ![o].status = "publishing"]
        /\ Go(w, "call") /\ UNCHANGED <<loc, mishaps>>
     \/ /\ Mishap
        /\ log' = [log EXCEPT ![o].status = "failed"]
        /\ Answer(w, "refused", Nil) /\ Go(w, "persist")
  /\ KeepPublish /\ UNCHANGED <<listed, blind>>

\* Another worker has inserted it: the unique request id refuses this one,
\* which takes that worker's result.
OpenTaken(w) ==
  LET entry == log[loc[w].ord] IN
  /\ At(w, "open") /\ entry.status # "none"
  /\ Answer(w, IF entry.status = "failed" THEN "refused" ELSE "lost", entry.item)
  /\ Go(w, "persist")
  /\ KeepPublish /\ UNCHANGED <<log, listed, blind, mishaps>>

\* The log of a failed call is used again, whatever became of it meanwhile.
ReopenLog(w) ==
  LET o == loc[w].ord IN
  /\ At(w, "reopen")
  /\ \/ /\ log' = [log EXCEPT ![o] = [status |-> "publishing", item |-> Nil]]
        /\ Go(w, "call") /\ UNCHANGED <<loc, mishaps>>
     \/ /\ Mishap /\ Answer(w, "refused", Nil) /\ Go(w, "persist")
        /\ UNCHANGED log
  /\ KeepPublish /\ UNCHANGED <<listed, blind>>

\* mtop_call posts the publication again after a request exception, which may
\* have listed the material: hidden counts those listings.  The last post lists
\* it or not; its answer says so, or says nothing (a timeout, an exception, an
\* item without its id).
CallPlatform(w) ==
  LET o == loc[w].ord IN
  /\ At(w, "call")
  /\ \E hidden \in 0 .. MaxPosts - 1, last \in 0 .. 1 :
       LET all == listed[o] + hidden + last IN
       /\ all <= MaxListings /\ hidden <= mishaps
       /\ mishaps' = mishaps - hidden
       /\ listed' = [listed EXCEPT ![o] = all]
       /\ blind' = [blind EXCEPT ![o] = @ + hidden]
       /\ \/ Answer(w, "lost", Nil)
          \/ last = 0 /\ Answer(w, "refused", Nil)
          \/ last = 1 /\ \E answer \in {"ok", "lost"} : Answer(w, answer, <<o, all>>)
  /\ Go(w, "record")
  /\ KeepPublish /\ UNCHANGED log

\* The log's result, or a write that failed: then nobody knows.  The item of an
\* unknown result is noted on some paths only, and none is ever erased.
RecordLog(w) ==
  LET o == loc[w].ord
      status == CASE loc[w].answer = "ok" -> "success"
                  [] loc[w].answer = "refused" -> "failed"
                  [] OTHER -> "publishing" IN
  /\ At(w, "record")
  /\ \/ /\ \E item \in {log[o].item, loc[w].item} :
             /\ loc[w].answer = "ok" => item = loc[w].item
             /\ item = Nil => log[o].item = Nil
             /\ log' = [log EXCEPT ![o] = [status |-> status, item |-> item]]
        /\ UNCHANGED <<loc, mishaps>>
     \/ Mishap /\ Answer(w, "lost", loc[w].item) /\ UNCHANGED log
  /\ Go(w, "persist")
  /\ KeepPublish /\ UNCHANGED <<listed, blind>>

(***************************************************************************)
(* The result, the associations and the rule                               *)
(***************************************************************************)
PersistLost(w, o) ==
  /\ IF Holds(w, o, {"publishing"})
     THEN /\ SetEvent(o, [Released(event[o]) EXCEPT !.status = "unknown", !.pub = "unknown",
                            !.item = IF loc[w].item = Nil THEN @ ELSE loc[w].item])
          /\ rule' = RuleOf(o, "error")
     ELSE KeepRows
  /\ Go(w, "after") /\ UNCHANGED loc

PersistListed(w, o) ==
  /\ IF Holds(w, o, {"publishing"})
     THEN /\ SetEvent(o, [event[o] EXCEPT !.pub = "succeeded", !.item = loc[w].item,
                            !.leased = TRUE])
          /\ loc' = [loc EXCEPT ![w].done = TRUE]
          /\ Go(w, "migrate")
     ELSE UNCHANGED <<event, loc>> /\ Go(w, "after")
  /\ UNCHANGED rule

Persist(w) ==
  LET o == loc[w].ord IN
  /\ At(w, "persist")
  /\ \/ loc[w].answer = "lost" /\ PersistLost(w, o)
     \/ loc[w].answer = "ok" /\ PersistListed(w, o)
     \/ /\ loc[w].answer = "refused"
        /\ ScheduleRetry(o, w)
        /\ Go(w, "after") /\ UNCHANGED loc
  /\ KeepCheck /\ KeepBounds /\ UNCHANGED locks

\* migrate_after_relist: the steps are idempotent, one that fails ends it.
Migrate(w) ==
  LET o == loc[w].ord IN
  /\ At(w, "migrate")
  /\ \/ ~Renews(w, o) /\ Go(w, "after") /\ KeepRows /\ UNCHANGED mishaps
     \/ /\ Renews(w, o) /\ Go(w, "cas")
        /\ SetEvent(o, [event[o] EXCEPT !.leased = TRUE])
        /\ UNCHANGED <<rule, mishaps>>
     \/ /\ Mishap /\ Renews(w, o)
        /\ ScheduleMigration(o, w) /\ Go(w, "after")
  /\ KeepCheck /\ UNCHANGED <<locks, loc, edits, late>>

\* The rule moves on if it is the one that was read, and still watches the
\* old item; the event is written in the same transaction. (Mutant: it is not
\* compared.)
MovesRuleBlindly(w, o) == TRUE
MovesRule(w, o) == rule.version = loc[w].seen /\ rule.item = event[o].old

MoveRule(w) ==
  LET o == loc[w].ord IN
  /\ At(w, "cas")
  /\ IF MovesRule(w, o)
     THEN /\ rule' = [rule EXCEPT !.item = loc[w].item, !.version = @ + 1,
                        !.status = IF rule.enabled THEN "active" ELSE "disabled"]
          /\ Put(o, "success")
     ELSE Put(o, "migration_retry") /\ UNCHANGED rule
  /\ Go(w, "after")
  /\ KeepCheck /\ KeepBounds /\ UNCHANGED <<locks, loc>>

\* The event is read again; a worker that lost the account's lock, and saw
\* it, schedules what it reads under the token it reads.
After(w) ==
  LET o == loc[w].ord IN
  /\ At(w, "after")
  /\ \/ KeepRows
     \/ /\ account # w /\ event[o].status \in Leased \cup {"migration_retry"}
        /\ Schedule(Published(event[o]), o, event[o].token)
  /\ ReturnAccount(w) /\ LeaveEvent(w)
  /\ KeepCheck /\ KeepBounds /\ UNCHANGED runner

\* An exception on the way: the event is scheduled again, or that fails too
\* and the lease is left to run out.
Raise(w) ==
  /\ pc[w] \in {"claimed", "fetch", "still", "enter", "lookup", "open", "reopen",
                "persist", "migrate", "cas"}
  /\ Mishap
  /\ \/ KeepRows
     \/ ~At(w, "claimed") /\ Schedule(loc[w].done, loc[w].ord, w)
  /\ ReturnAccount(w) /\ LeaveEvent(w)
  /\ KeepCheck /\ UNCHANGED <<runner, edits, late>>

(***************************************************************************)
(* The seller                                                              *)
(***************************************************************************)
Edit == edits > 0 /\ edits' = edits - 1
KeepSeller == UNCHANGED <<sale, listed, blind, locks, work, mishaps, late>>

\* save with enabled = False: what has not begun to publish is given up.
\* (Mutant: only what no worker has.)
GivenUpUnclaimed == {"pending", "retry"}
GivenUp == {"pending", "retry", "claimed", "checking"}

Disable ==
  /\ Edit
  /\ rule' = [rule EXCEPT !.enabled = FALSE, !.status = "disabled", !.version = @ + 1]
  /\ event' = [o \in Orders |->
       IF event[o].status \in GivenUp
       THEN [Released(event[o]) EXCEPT !.status = "skipped"] ELSE event[o]]
  /\ KeepSeller /\ UNCHANGED <<fresh, log>>

\* Results nobody knows, and listings not moved to yet, forbid a new cycle.
Unresolved ==
  \E o \in Orders : \/ event[o].status = "unknown"
                    \/ event[o].status = "migration_retry" /\ Published(event[o])

OnSale == {First} \cup {i \in Listings : i[2] <= listed[i[1]]}

\* save with enabled = True, for one of the account's items.
Enable(i) ==
  /\ Edit /\ ~Unresolved /\ i \in OnSale
  /\ rule' = [enabled |-> TRUE, status |-> "active", item |-> i,
              version |-> rule.version + 1]
  /\ event' = [o \in Orders |->
       IF event[o].status \in {"paused", "failed"}
       THEN [Released(event[o]) EXCEPT !.status = "retry", !.attempts = 0] ELSE event[o]]
  /\ fresh' = IF i = rule.item THEN fresh ELSE {}
  /\ KeepSeller /\ UNCHANGED log

Answerable(o) == event[o].status = "unknown" /\ rule.enabled
Resolved(e, status) == [Released(e) EXCEPT !.status = status]
Known(o) == IF log[o].item # Nil THEN log[o].item ELSE event[o].item

\* reconcile_event, "published": the listing the seller finds on the platform.
Reconcile(o) ==
  /\ Answerable(o)
  /\ \E i \in Listings :
       /\ i[1] = o /\ i[2] <= listed[o] /\ Known(o) \in {Nil, i}
       /\ SetEvent(o, [Resolved(event[o], "migration_retry") EXCEPT
                         !.pub = "succeeded", !.item = i])
       /\ log' = IF log[o].status = "none" THEN log
                 ELSE [log EXCEPT ![o] = [status |-> "success", item |-> i]]
  /\ rule' = [rule EXCEPT !.status = "retrying"]
  /\ KeepSeller /\ UNCHANGED <<fresh, edits>>

\* reconcile_event, "not_published", and mark_event_failed: nothing is listed.
NotPublished(o) ==
  /\ Answerable(o) /\ listed[o] = 0
  /\ ~(log[o].status = "success" /\ log[o].item # Nil)
  /\ SetEvent(o, [Resolved(event[o], "retry") EXCEPT
                    !.pub = "not_started", !.item = Nil, !.attempts = 0])
  /\ log' = IF log[o].status = "none" THEN log ELSE [log EXCEPT ![o].status = "failed"]
  /\ rule' = [rule EXCEPT !.status = "retrying"]
  /\ KeepSeller /\ UNCHANGED <<fresh, edits>>

(***************************************************************************)
(* Orders, and what goes wrong                                             *)
(***************************************************************************)
\* An order is paid and delivered automatically; its row may change again (it
\* is completed, or refunded), which brings it beyond the cursor once more.
Sell(o, i) ==
  /\ sale[o].item = Nil /\ i \in OnSale
  /\ sale' = [sale EXCEPT ![o].item = i]
  /\ fresh' = fresh \cup {o}
  /\ UNCHANGED <<rule, event, log, listed, blind, locks, work, bounds>>

OrderChanges(o) ==
  /\ sale[o].item # Nil
  /\ \E fit \in {TRUE, FALSE} :
       /\ fit => sale[o].fit
       /\ sale' = [sale EXCEPT ![o].fit = fit]
  /\ fresh' = fresh \cup {o}
  /\ UNCHANGED <<rule, event, log, listed, blind, locks, work, bounds>>

Crash(w) ==
  /\ pc[w] # "idle" /\ Mishap
  /\ Go(w, "idle")
  /\ loc' = [loc EXCEPT ![w] = NoJob]
  /\ reading' = [reading EXCEPT ![w] = Nothing]
  /\ todo' = [todo EXCEPT ![w] = {}]
  /\ runner' = IF runner = w THEN Dead ELSE runner
  /\ account' = IF account = w THEN Dead ELSE account
  /\ UNCHANGED <<rows, edits, late>>

\* The key of a dead holder runs out; Redis loses its keys.
LockExpires ==
  /\ Dead \in {runner, account}
  /\ runner' = IF runner = Dead THEN Nil ELSE runner
  /\ account' = IF account = Dead THEN Nil ELSE account
  /\ UNCHANGED <<rows, work, bounds>>

LoseLocks ==
  /\ {runner, account} # {Nil} /\ Mishap
  /\ runner' = Nil /\ account' = Nil
  /\ UNCHANGED <<rows, work, edits, late>>

\* A lease runs out once its worker is gone; it runs out under a worker that
\* is slower than the lease.
Working(w, o) == loc[w].ord = o /\ event[o].token = w

LeaseEnds(o) ==
  /\ event[o].leased /\ \A w \in Workers : ~Working(w, o)
  /\ SetEvent(o, [event[o] EXCEPT !.leased = FALSE])
  /\ UNCHANGED <<sale, fresh, rule, log, listed, blind, locks, work, bounds>>

Outlive(o) ==
  /\ event[o].leased /\ \E w \in Workers : Working(w, o)
  /\ Mishap
  /\ SetEvent(o, [event[o] EXCEPT !.leased = FALSE])
  /\ late' = late \cup {o}
  /\ UNCHANGED <<sale, fresh, rule, log, listed, blind, locks, work, edits>>

Step(w) ==
  \/ Start(w) \/ Recover(w) \/ Discover(w) \/ Insert(w) \/ Finish(w) \/ MarkWrite(w)
  \/ \E o \in Orders : Claim(w, o)
  \/ Check(w) \/ Lock(w) \/ Recheck(w) \/ Still(w) \/ Enter(w)
  \/ Lookup(w) \/ OpenLog(w) \/ OpenTaken(w) \/ ReopenLog(w)
  \/ CallPlatform(w) \/ RecordLog(w)
  \/ Persist(w) \/ Migrate(w) \/ MoveRule(w) \/ After(w)

Seller ==
  \/ Disable \/ \E i \in Items : Enable(i)
  \/ \E o \in Orders : Reconcile(o) \/ NotPublished(o)

Trade == \E o \in Orders : OrderChanges(o) \/ \E i \in Items : Sell(o, i)

Trouble ==
  \/ \E w \in Workers : MarkRead(w) \/ Raise(w) \/ Crash(w)
  \/ LoseLocks \/ \E o \in Orders : Outlive(o)

Next ==
  \/ \E w \in Workers : Step(w)
  \/ Seller \/ Trade \/ Trouble
  \/ LockExpires \/ \E o \in Orders : LeaseEnds(o)

Spec == Init /\ [][Next]_vars

FairSpec ==
  /\ Spec
  /\ \A w \in Workers : WF_vars(Step(w))
  /\ WF_vars(LockExpires)
  /\ \A o \in Orders : WF_vars(LeaseEnds(o))

(***************************************************************************)
(* Properties                                                              *)
(***************************************************************************)
TypeOK ==
  /\ sale \in [Orders -> [item : Items \cup {Nil}, fit : BOOLEAN]]
  /\ fresh \subseteq Orders
  /\ rule \in [enabled : BOOLEAN, item : Items, version : Nat,
               status : {"active", "waiting", "retrying", "error", "paused", "disabled"}]
  /\ event \in [Orders ->
       [status : Statuses, attempts : 0 .. MaxAttempts, token : Workers \cup {Nil},
        leased : BOOLEAN, pub : {"not_started", "submitted", "unknown", "succeeded"},
        item : Listings \cup {Nil}, old : Items \cup {Nil}]]
  /\ log \in [Orders -> [status : {"none", "publishing", "failed", "success"},
                         item : Listings \cup {Nil}]]
  /\ {listed, blind} \subseteq [Orders -> 0 .. MaxListings]
  /\ {runner, account} \subseteq Workers \cup {Nil, Dead}
  /\ pc \in [Workers -> Steps]
  /\ loc \in [Workers ->
       [ord : Orders \cup {Nil}, done : BOOLEAN, seen : Nat,
        answer : {"none", "ok", "refused", "lost"}, item : Listings \cup {Nil}]]
  /\ reading \in [Workers -> [Orders ->
       {"none", "keep", "retry", "migration_retry", "unknown"}]]
  /\ todo \in [Workers -> SUBSET Orders]
  /\ {edits, mishaps} \subseteq Nat /\ late \subseteq Orders

\* An order's material is listed once, whatever crashes, fails or stays
\* unanswered in between, and whoever processes the event next: the publish log
\* and the state "unknown" stand between a lost answer and a second listing.
\* They do not stand inside mtop_call, which posts again by itself: the listings
\* it made so are left out, and no other; a worker that outlives its lease can
\* list again too, and its orders are left out.
ListedOnce == \A o \in Orders \ late : listed[o] <= 1 + blind[o]

\* Once the seller has switched the rule off, no event begins to publish: the
\* row lock of the rule and the transition from "checking" exclude it.
OnlyWhileEnabled ==
  [][\A o \in Orders : event[o].status # "publishing" /\ event'[o].status = "publishing"
       => rule.enabled]_vars

\* An event ends in success only by moving the rule from the sold item to a
\* listing of the event's own order: the compare-and-set and the event's row
\* are one transaction, and the item was carried over claims and crashes.
SuccessMovesRule ==
  [][\A o \in Orders : event[o].status # "success" /\ event'[o].status = "success"
       => /\ rule.item = event[o].old
          /\ \E k \in 1 .. listed[o] : rule'.item = <<o, k>>]_vars

\* No event stays with a worker: one that crashes, loses its lock or cannot
\* write leaves a lease that runs out, and a later round takes the event back.
EveryClaimEnds ==
  \A o \in Orders : event[o].status \in Leased ~> event[o].status \notin Leased

\* A listing that was made is not forgotten: its event is retried until the
\* rule has moved, unless the seller gave the event or the item up.
ListingFollowed ==
  \A o \in Orders : Published(event[o]) ~> \/ event[o].status \in {"success", "skipped"}
                                            \/ rule.item # event[o].old
=============================================================================
