# Verification of xianyu-auto-reply

TLA+ models of the parts of this repository whose correctness depends on the
order in which several processes, messages and requests act, checked with TLC
on small instances and, for the properties that matter most, proved with TLAPS
for every size.

## 1. The system

The repository runs a shop on the Xianyu platform: it keeps one WebSocket
connection per seller account, answers buyers, and delivers a *card* (a line of
prepaid data, a text, an image) when an order is paid.

| Component | Where | State it keeps | Operations | What makes it correct |
|---|---|---|---|---|
| Order delivery | `websocket/app/services/xianyu/auto_delivery_handler.py`, `websocket/app/api/routes/internal.py` (`deliver_order`), `scheduler/.../redelivery_task.py`, `backend-web/app/api/routes/orders.py` | a flow's locals; cool-down and hold memory of an instance | a chat message, a scheduler round, a seller's click, the handler they POST to | one card per order; a consumed card can be found again; the platform and the row agree, or the seller is told |
| Order lock | `common/db/redis_client.py` | one Redis key per order, with a TTL | acquire with a wait, fail open, release by compare-and-delete | at most one holder; comes back |
| Order rows | `common/services/order_service.py`, `common/models/xy_order.py` | status, `card_only_delivered`, `delivery_content`, `delivery_fail_reason` | records, reasons, status checks, list fetches | a record is not undone by an older one |
| Card stock | `common/db/compat.py` (`consume_batch_data`) | `data_content` | take the first line, by compare-and-set | no line is sold twice |
| Account settings | `backend-web/app/services/account_service.py` | four delivery switches | one update per switch, which clears the others | the modes exclude each other |
| Account lifecycle | `websocket/.../cookie_manager.py`, `cookie_manager_lifecycle.py` | tasks, instances, task locks | add, remove, stop, update, load | one live task per account, registered |
| Connection | `connection_manager.py`, `xianyu_async.py` | state, failure counters, heartbeat | connect, fail, back off, heartbeat, restart | a lost connection is replaced, without storms |
| Message handling | `message_handler.py`, `resource_manager.py` | recent message ids, debounce timers, pauses | receive, debounce, pause | a message is handled once |
| Tokens and cookies | `cookie_token_manager.py`, `common/services/token_request_lock.py`, `token_renewal_cache_service.py`, `scheduler/.../token_renewal_task.py` | the token in memory, a cached row with two expiries, a Redis lock | refresh, renew, give up, log in again | one request at a time, none that repeats another's; a live connection has the current token |
| Settlement | `common/services/settlement_service.py`, `backend-web/.../pickup_service.py` | balances, fund flows, lines of a card | check, settle at two levels, pick up | a balance is the sum of its flows; an order moves all it should or nothing; nobody is overdrawn |
| Scheduler service | `scheduler/app/services/scheduler_service.py` | jobs, their settings | add, reload, run | no round overlaps itself |
| Captcha slots | `common/services/captcha/concurrency.py`, `weighted_runner.py` | slots, profile locks, the queue of the mouse | enter, run, leave | slots come back, one browser per profile, one task at the mouse, nobody starves |
| Relisting | `common/services/auto_relist_*.py`, `publish_execution_service.py`, `backend-web/app/services/auto_relist_rule_service.py` | a rule per material, an event per order, a publish log, two Redis locks | discover, claim, check, publish, move, recover; save, answer | a sold item is listed again once, and the rule follows |
| QR login, scheduled publishing | `backend-web/app/services/qr_login`, `common/services/scheduled_publish_task.py` | their tables | see the files | each step once |

Replies, AI calls, browser automation, the promotion sub-project, the user
interfaces and the launcher have no protocol to check and are not modelled.

**How they interact.** `scheduler` and `backend-web` are processes of their own.
They reach `websocket` by `POST /internal/orders/deliver`, through a client that
repeats a request after a timeout, and share MySQL and Redis with it. Inside
`websocket` everything runs on one event loop: a step of a model is the code
between two awaits. The platform is outside: it answers confirmations, may lose
an answer, rejects messages late, closes orders. An instance's token comes from a row that the scheduler's renewal
task writes as well, under a Redis lock on token requests; a login or a captcha
on the way to a token opens a browser, and so needs a slot, the account's
profile and, for a slider, the mouse. A delivery of an agent's card ends in a
settlement, which meets the pickup page at the rows of the same users. An order
delivered automatically may be the end of its item: the relisting round of the
scheduler process publishes the material again, while the seller edits the same rule
from `backend-web`.

**What is hard.** Two locks, each of which may be missing; a repeated request
whose first attempt runs on; an instance replaced under its flows; switches
read several times in one delivery; a confirmation whose answer is lost; a
record that clears the reason written before it; a list fetch that is older
than the row it overwrites; a session that answers a second look from its cache;
a token that changes under a live connection; failure counters that several
paths reset; a check without a lock before a settlement; a lock that a dead
process leaves behind; a slot that is given back twice; a listing that was made and
whose answer nobody got.
`PROJECT.json` lists these hazards with their lines.

## 2. Plan

Modules, in the order in which they are written:

1. `Delivery`: the entrances, the handler, the locks, the rows. *Done.*
   `DeliveryContract` (what delivery promises) and `DeliveryRefinement`. *Done.*
2. `DeliveryInvariant`, `DeliveryProofs`, `DeliverySafety`: types, one flow per
   order, one card per order, proved. *Done.*
3. `AccountManager` and `AccountProofs`: tasks, instances and task locks of an
   account, with the requests that add, start, update and remove it. *Done*;
   left: loading from the database while requests arrive, the stop at shutdown.
4. `WeightedRunner` and `BrowserSlots`, each with its proofs: the queue in front
   of the mouse, the slots and the profiles. *Done.*
5. `AgentOrders` and `AgentProofs`: lines of a card and balances of its dealers,
   shared by deliveries and pickups, in transactions. *Done.*
6. `Session` and `SessionProofs`: the main loop of an account, its connection and
   its token, with the renewal task beside it. *Done.*
7. `Relisting` and `RelistProofs`: an order's event from its discovery to the new
   listing, with the seller and the recovery beside it. *Done.*
8. `Messages`: duplicate messages, debounced replies, the pause after a manual
   message.
9. `Scheduler`: job instances, reloads, overlapping rounds, the cool-down of
   redelivery.
10. `Delivery` again: several cards per order, the agreed pickup as a fourth
   entrance, bargain orders, database writes that fail, status changes driven by
   messages.
11. Logins: sessions that expire. Scheduled publishing: the claim of a due rule.

The safety properties and the action properties that runs check are all stated by
theorems (section 9). Theorems still worth proving: the contract of a delivery with
the scheduler, weakened by the card text that its second record loses. An abstract
specification to come: an account whose sessions follow one another, above
`AccountManager` and `Session`.

## 3. Delivery

### The model and the code

`Delivery.tla` has one process per flow and per caller. A flow is one run of
`_handle_auto_delivery` (an element of `Autos`) or of `deliver_order` (an
element of `Handlers`); `pc` names the await it stands at, `ord` its order, `lk`
the instance whose lock it uses (0 when its request found none), `card` the
consumed line, and `job` the locals that later steps read:

| `job` field | local of the code |
|---|---|
| `closed` | `closed_order_card_only` |
| `osc`, `sbc` | `only_send_card_mode`, `send_before_confirm_mode` |
| `psc` | `platform_shipping_confirmed` |
| `out`, `seen` | what became of the message, and `card_intercept_reason` |
| `flag` | `send_before_confirm_fail_msg`, `card_only_send_fail_msg` |
| `already` | the `ORDER_ALREADY_DELIVERY` branch |
| `reply`, `content` | the response of the handler |

The row keeps `status` (pending: everything before shipping; closed: cancelled
and closed), `cardOnly`, `content` and whether a failure reason is `warned`.
`redis` and `local` are the two locks, `recent` the union of `_lock_hold_info` and
`last_delivery_time`, `confirmed` is `confirmed_orders`. `given` and `chat` are
history: what was consumed for an order, and what reached its buyer.

| Step | Code |
|---|---|
| `AutoStart` | rules, held lock and cool-down before any lock |
| `AutoRedis`, `CallerRedis` | `try_acquire_delivery_lock`: mine, refused, or failed open |
| `AutoLocal`, `HandlerLocal` | the instance's `_order_locks` and, under it, the row |
| `HandlerPre` | `pre_delivery_check_and_close` in the handler |
| `Prep`, `ConfirmNothing`, `ConfirmRefused`, `ConfirmFirst` | the switches, and the confirmation before sending |
| `TakeCard`, `Send`, `Receipt` | the stock, the message, the 8 seconds for a rejection |
| `ConfirmAfter`, `SkipConfirmAfter` | the confirmation after sending |
| `Write`, `Flag` | the record, and the reason in a second commit |
| `AutoRelease`, `HandlerRelease` | the `finally` blocks and the answer |
| `SchedScan`, `SchedPick`, `SchedRecheck`, `SchedCheck` | a round of the redelivery task |
| `ManualStart` | the seller's request |
| `Post`, `Timeout`, `CallerReply`, `CallerRelease` | the two callers around the handler |
| `RedisExpire`, `Forget`, `Stop`, `Restart`, `ChangeSetting`, `PlatformClose`, `SyncFetch`, `SyncLoad`, `SyncUpsert` | the rest of the world |

Two waits are abstracted to their outcome: a lock that stays taken for 5 seconds
refuses (`HandlerLocal` answers "busy"), and so does Redis. `Faults` chooses what
may go wrong in a run.

Outside the model: several cards per order, cards other than own data cards (an
agent's card is in `AgentOrders`), bargain orders, agree-deliver, forms without logistics, and database writes that
fail. Statuses the delivery does not distinguish are merged. The scheduler's
per-order cool-down (`redelivery_task.py` 40-89) only delays a pick, which the
model may always do, and is left out. A flow is not
cancelled in the middle: `Stop` lets the flows of the old instance run on, which
is the harder case for the locks; a process that dies between consuming and
recording loses the card and is listed as a hazard.

### Properties

* `AtMostOneCard`: no order takes a second line of the stock.
* `OneFlowPerOrder`: no two flows work on one order at a time.
* `CardTraceable`: a consumed card can be read back from the order.
* `FlaggedIfUnconfirmed`: an order shown as shipped but unshipped on the platform
  carries a reason, or is about to.
* `CardOnlyUnconfirmed`: a card-only order is never confirmed later.
* `EveryOrderHandled`: the redelivery task handles every order in the end; a lock
  that an exit keeps would stand in its way for good.
* `KeepsContract`: the refinement of `DeliveryContract`, liveness included.

### Runs

All runs use module `MCDelivery`, one order and two cards (a second order shares
only the stock with the first; two cards are enough to take one too many), two
requests at most per delivery (`MaxTries`, 3 in the code: the second already
overlaps the first), and check deadlock. Symmetry permutes cards and flows, and is left out where
temporal properties need it.

What each run cannot meet is said here once: `DeliveryRestart` has one handler, no
missing Redis and no key that runs out, so that a POST repeated beside its first
handler, and a lock lost to its TTL, are covered by the assumptions of the theorems
only; no run has a record overwritten by the scheduler's second write or by an old
page of a list, which the code allows.

| Run | Who | What may go wrong | Shows |
|---|---|---|---|
| `DeliveryRestart` | 2 messages, handler, seller | the instance is replaced, two changes of the switches | the Redis lock alone suffices for `AtMostOneCard` and `OneFlowPerOrder`; `CardOnlyUnconfirmed` |
| `DeliverySendFirst` | message, handler, scheduler | rules, Redis, timeouts, lost answers, list fetches | types, `FlaggedIfUnconfirmed` |
| `DeliveryLive` | message, handler, scheduler | nothing | liveness |
| `DeliveryRefines` | message, handler, seller | rules, Redis, timeouts, lost answers | `KeepsContract`, `CardTraceable` |

The invariants of the proofs are not run: they hold for either lock, and their
consequences are what the runs check.

What the runs leave out is as telling. With a restart *and* Redis down both
locks are gone at once and two flows do work on one order; so `DeliveryRestart`
has no Redis fault. With a list fetch or a closed order beside the scheduler a
handled row can be set back, and an order can take a second card: this is the
assumption `RowsKept` of the proofs. `CardTraceable` is checked without the scheduler, whose second
write loses the content (below).

### Fairness

`FairSpec` assumes that a flow and a caller go on: every await in them ends (locks
are waited for 5 seconds, receipts 8, requests 30), and asyncio runs ready tasks. The
redelivery task is run at an interval by the scheduler service. Nothing is
assumed of buyers, sellers, switches, Redis keys that expire, or the platform,
except in `LiveSpec`, which says that the platform does not fail the scheduler's
question about an order forever (strong fairness of the step that gets an
answer): without it no order needs to be handled at all. `EveryOrderHandled` also
starts from settings the scheduler looks at (`SchedulerEligible`) and without
confirm-first, where a failing confirmation keeps the card back.

### Where the code and its comments part

The model shows these; no run repeats them.

* The scheduler reads `content` (`redelivery_task.py:637`) where the handler answers
  `delivery_content` (`internal.py:1449`), and its own record empties the card that
  the handler has just recorded. `orders.py:695` reads the right key. This is why
  `CardTraceable` is checked without the scheduler.
* The handler ignores the result of `_send_text_with_separator`, and confirms an
  order whose card was not sent.
* "Only update the database" after `ORDER_ALREADY_DELIVERY` raises a NameError,
  which is swallowed, so that nothing is recorded.
* A seller is told "the status is synchronised" (`internal.py:1791`) when nobody
  wrote the row.
* The scheduler's second look at an order (`redelivery_task.py:414`) gets the row
  its session loaded first.
* An order "not picked up again" (`redelivery_task.py:673`) is picked up once a
  list fetch has set its row back to pending.

## 4. Account manager

`AccountManager.tla` models `CookieManager` for one account: its dictionaries are
keyed by the account and share nothing, so that one stands for all. A request
is one call; the task and the lock it may create carry its name.

| Definition | Code |
|---|---|
| `tasks`, `instances`, `lock`, `enabled` | `tasks`, `instances`, `_task_locks`, `cookie_status` at the account |
| `queue[l]` | the `asyncio.Lock` `l`: its holder and, in order, its waiters |
| `sess`, `cancelled` | the asyncio tasks around `_run_xianyu` |
| `Begin`, `Checked`, `Leave`, `Closed` | a task's first step, the look-up of its user, the end of `main()`'s loop, its `finally` |
| `AddStart`, `AddLocked`, `AddResume` | `_add_cookie_async`: from its start, once the lock is had, once the old task has ended |
| `StartupSkip` | `start_all_tasks` at a disabled account |
| `UpdateStart`, `UpdateResume` | `_stop_task_async`, then `_add_cookie_async` (`update_cookie`, `_restart_instance`) |
| `RemoveStart`, `RemoveLocked`, `RemoveResume` | `_remove_cookie_async` |

An action is the code between two awaits: a request that finds the lock free
runs on in the same step. `restart_account` is a removal and an addition called
one after the other. A task cancelled before its first step ends without its
`finally`; one that closes swallows a second cancellation. `wait_for(task, 10)`
of a removal cancels again and waits for the end, so that only an update goes
on without it.

* `TypeInv`: the types, and whoever waits for a task's end with the lock held is
  the head of that lock's queue.
* `OneTask`: with additions and start-up alone, one task runs at a time,
  and, as is proved (`Registered`), a connection that is up is the one that requests
  to deliver find.
* `EveryRequestEnds`: no request is stuck, whichever locks were dropped.

`AccountRequests` checks them with three requests of any of the four kinds: one
to hold the lock, one to wait, and one to arrive after the lock was dropped. The
system really stops when all requests are done and no task runs, so that
deadlock is not checked there; `EveryRequestEnds` is what it would show.
Fairness: coroutines that are ready run, and a cancelled task ends, as every
await of its `finally` has a timeout; a task need not end by itself.

`TwoSessions` is expected to fail: `_stop_task_async` works without the lock and
pops the entry of a task that an addition has just made; that task stays up
beside the one that the update creates, and nothing will ever stop it. The
comment on the lock says it is there to prevent this. A removal has a similar
flaw, which needs four requests: it drops the lock it holds, so that a waiter
and a newcomer hold two locks.

## 5. Session: connection and tokens

`Session.tla` models one account: `main()` of its instance, the background flows
that refresh its token beside it, and the renewal task of the scheduler process.
They meet at the account's row of `xy_token_cache`, at the token in memory, at the
socket, and at the Redis lock on token requests.

| Definition | Code |
|---|---|
| `cur`, `inUse`, `startup`, `expired`, `counts` | `current_token`, `_cached_token_in_use`, `_startup_expired_cache_available`, `_using_expired_startup_token`, whether `last_token_refresh_status` counts towards disabling |
| `cache` | the row: its token, and the hours left of `expire_at` and `renew_expire_at` (past, within the hour, later) |
| `ws` | the socket: opened, registered and ready, being closed; the token of its `/reg` |
| `fails` | `network_failures`, `connection_failures`, `_token_fetch_failures`, the short disconnections |
| `loc[f]` | a refresh's token and where it came from, its two retry counters |
| `Lock`, `LockTimeout`, `Unlock`, `LockExpire` | `TokenRequestLock`: had, waited for in vain, given back, run out after its process died |
| `CacheHit`, `Use`, `CacheUnread`, `SliderUnknown`, `CacheMiss` | `_refresh_token_with_lock` before a request: the row in force, renewed, or expired at the start of an instance; the captcha switch |
| `GetToken`, `Save`, `CloseSocket` | the answer, the write of the row, `_reconnect_websocket_for_renewed_token` |
| `ApiFails`, `ApiTokenExpired`, `ApiCaptcha`, `ApiSessionOver` | every other answer, with the retries and logins they lead to |
| `Head`, `HeadStops`, `HeadGoesOn` | the head of `main()`'s loop, with the token before the connection |
| `Connect`, `Register`, `InitGoesOn`, `Ready` | the connection, `init()` with its own call of `refresh_token`, `/reg` |
| `Disconnect`, `NetError`, `ConnError`, `ClearToken`, `Judge`, `Relogin` | every end of a connection, its counters, the password login and the cool-down |
| `GiveUp`, `Disable`, `Finish` | `disable_account`, which may fail and is caught, and the end of the loop all the same: "done" with the account disabled, "left" with an account that is still active |
| `LoopStart`, `ForceStart`, `FlowEnd` | the two refresh loops, a chat that was refused for its token |
| `RenewStart` to `RenewWrite` | a candidate of the renewal task |
| `Restart`, `Age`, `Kill`, `CalmDown` | a new instance, time, the platform's view of a token |

An action is the code between two awaits. `weather` is the set of things that may
go wrong in a behaviour; `CalmDown` ends it for good.

Outside the model: the inside of a captcha and of a password login, cookies, the
proxies, the heartbeat loop (a half-open socket is closed by the library's own
pings), the length of delays, the callers of `mark_token_cache_expired` other
than those above (the login flow, `im_token`, an internal route). The renewal's
own retries are part of `RenewAnswer`.

### Properties

* `NoWastedRequest`: a flow that asks for a token has seen, under the lock, that
  the row gives none: nobody asks again for what another has just got.
* `LiveTokenCurrent`: when no background flow is at work, a connection in use has
  registered the token in memory. Exempt are a token that the renewal task wrote
  into a row that was still good (`renewed`), and flows that went on without Redis
  (`bare`).
* `StartupTokenOnce`: an expired token that a new instance tried and gave up after
  a brief connection is not registered again by it.
* `Recovers`: once the trouble is over, the account is connected with a token the
  platform takes, or it was disabled, or its loop has ended because it was to be
  disabled and that failed ("left", below).
* `OneRequest`: one request at a time over both processes. It is proved and not
  run, because `NoWastedRequest` rests on it.

### Run, bounds and fairness

`SessionTokens` has one refresh loop and one chat, two tokens (the first may be
refused while another is at work), two failures before each limit (the first
counts, the second passes it), one captcha, and one restart or chat. Its 13 fault
sets pair what must meet for a case to happen: refused tokens with lost
connections, restarts with lost connections, a row renewed while a connection
drops. 408 438 states, in three and a half minutes. A disabled account really stops: deadlock is not checked.

`FairSpec` assumes that awaits of the main loop, the renewal task and each flow
end, and that the lock of a dead process runs out. Getting the lock is strongly
fair: a waiter polls it every 0.1 s, and the loops take it once in minutes.

### What the model shows

* `_token_fetch_failures` is reset only where a token is already there at the head
  of the loop (`xianyu_async.py` 3003-3076), not after a successful fetch: two
  failures with a success between them add up when the token is dropped again
  before the head is reached, although the log says "连续失败".
* Where `main()` gives an account up, it catches a failing `disable_account` and leaves
  its loop (`xianyu_async.py` 3043-3049, 3261-3267): the account stays active, nothing
  reconnects it, and only a new instance ends that. `Recovers` names this exit.
* A normal close reconnects at once, without a delay and without a counter.
* A row that the renewal task has changed while its `expire_at` is valid is taken
  without a reconnection, unlike a promoted one.
* With a failing cache write and the captcha switch on, a refresh goes back to the
  older token of the row. The run has no set with both.
* `skipped_cache_lookup_failed` counts towards disabling, and
  `skipped_startup_cache_lookup_failed` does not.
* `last_token_refresh_status` is shared: a background flow may decide whether the
  main loop's failure counts.
* `init()` that fetches a token itself closes its own socket when the token is new.

## 6. Agent orders: money and stock

`AgentOrders.tla` models the orders of agents: a dealer sells another user's card,
at level 2 through a level-1 agent. A step is one statement that may wait for a
row, or a commit. `view` and `moved` are what a transaction has loaded, changed
and added; `lock` are InnoDB's row locks.

Two readings matter. `Prices` are the terms that an order may find whenever it reads
them: a delivery reads them in its check (`Check`) and again for the charge
(`Record`), and a seller may have changed them in between; a pickup reads them once.
And a balance may have no row yet (`rows`): a SELECT FOR UPDATE then locks nobody out
of it but the gap where it would be (`gap`), together with others; the transfer that
follows leaves a row to be inserted (`fresh`), and `Insert` waits until nobody else has
the gap. This is InnoDB under REPEATABLE READ, the default, which the code does not
change; the unique key is `uk_user_key` (`init_database.py:541`).

| Step | Code |
|---|---|
| `Check` | `_validate_dock_delivery`, `check_balance`: terms and balance, without a lock |
| `ReadLines`, `Swap`, `SwapLost` | `consume_batch_data` of `compat.py`: read, compare and set, up to 50 rounds |
| `Record` | `_create_agent_order`: the terms again |
| `ReadCard`, `LockParty`, `Weigh`, `TakeLine` | the pickup: the card's object, the parties by ascending id, `_compute_net_deltas`, the line under the row lock |
| `Pay`, `Insert`, `Settle` | `_add_balance`, `_deduct_balance`, in the order of `settle_level1_order` and `settle_level2_order`; a first row, sent before the next query or with the commit; the commit |
| `WaitTimeout`, `Victim`, `Crash` | a lock wait that times out, a deadlock's victim, a dead process |
| `Post` | a withdrawal or a recharge |

* `BooksMatch`: every balance is the sum of its flows.
* `SettledAsAgreed`: a settled order moves what `_compute_net_deltas` says of each
  party in one step; an order given up moves nothing.
* `OnlyDeliveriesOverdraw`, `CheckSuffices`: only the settlement of a delivery may
  leave a balance negative, and its dealer's only if that balance has become
  smaller since the check, or the terms read for the charge ask for more than the
  check did.
* `PickupsDeadlockOnInserts`, `EveryOrderEnds`: pickups wait for each other in a circle
  only over a first row that one of them inserts, and every circle of waits ends.
* `DeliveriesShareNoLine`, `PickupsShareNoLine`: a line of a card goes to one order.

`AgentBooks` has two deliveries and two pickups in which four users meet in
different roles, a withdrawal, a price of one delivery that may rise between check
and charge, and two rounds of the compare-and-set (the first is lost, the second is
the last). The two users who have earned nothing have no rows and share a gap, so that
two pickups can block each other's inserts; the other two have rows and meet in
opposite orders, so that only the ascending ids keep the pickups from a circle over
rows: 61 328 states, in a minute. The orders are finitely many, so that
the system stops: deadlock is not checked, and `EveryOrderEnds` is what it
would show. Fairness: something goes on as long as one order can; the database
finds every circle.

`PickupsRepeatLine` is expected to fail: two pickups of one card take the same
line. `session.get(Card)` reads the row first; the locked select that follows in
`consume_batch_data` gets the object the session already has.

The model shows more, which no run repeats. `_check_parties_balance` says that it locks
all balances in ascending order so that no circle can arise (`pickup_service.py` 390-397,
"防死锁"): a balance without a row is not locked for anybody, and two pickups that
both credit users without a row deadlock over their inserts. `PickupsDeadlockOnInserts`
says that this is the only way. Two deliveries of one agent pass the
unlocked check together and overdraw, and so does one whose price is raised between
the check and the charge. The settlement of a delivery is caught
where it fails, so that a lock wait that times out commits the transfers done so
far ("partial"), while `settlement_service.py:37` promises one transaction; one that
fails in an insert sent by the session itself loses the whole transaction. The
victim of a deadlock has delivered a card and records nothing. A crash after the
compare-and-set loses a line. A pickup writes back what is left of the lines it
read, and so restores lines that deliveries took in between. `fee_payer` may be
None (`cards.py` 442-464): the settlement then charges the dealer, the check the
owner; the model assumes that it is set.

A withdrawal and a recharge (`Post`) are one step: they lock, check and commit in one
transaction of one balance. Outside: the Redis lock of the pickup page, which serialises one docking record
and is given up without Redis; refunds; the review of a withdrawal; the agreed
pickup of a buyer; cards from an API, which hold their locks during the request.

## 7. Captcha: the mouse and the browsers

`WeightedRunner.tla` models `WeightedTaskRunner`: the deques are the set of waiting
tasks and, for each, those that were there before it. Nothing awaits with the lock
held, so that an action is the code between two awaits.

| Step | Code |
|---|---|
| `Submit`, `Cancel` | a caller of `submit`; `Ensure` is `_ensure_dispatcher_locked` |
| `Begin`, `Choose`, `Finish` | `_dispatch_loop`: its first turn, the weights have come, the call has returned |
| `Abort`, `Cancelled` (`Leave`) | what the call has raised is no `Exception`: the `finally` clause starts a successor, but not after a `CancelledError` (192-194) |
| `Foremost`, `Gained`, `Best`, `Paid` | `_subqueue_order_key`, `_pick_task_locked` |
| `Age`, `SetWeights` | 70 seconds of waiting, an administrator |

* `OneCursor`: one dispatcher, so one task at the mouse.
* `EveryTaskServed`: a waiting task leaves its deque in the end, unless a
  `CancelledError` has left it without a dispatcher (`stranded`). Then it waits until
  somebody calls `submit`, however long that takes: the code promises no more. That
  it has a dispatcher otherwise, always, is proved (`NoLostTask`).
* `FairShare`: while both sources wait, a source of weight w is passed over at most
  ceil(v / w) times in a row for one of weight v.
* `AgedInOrder`: a remote task that waited for 70 seconds is not overtaken by a
  later one.

`RunnerShares` has three tasks, two ratios (2:1 and 1:2), four calls and one change
of the weights: enough for a task to be submitted again, for a third task to be
passed over, and for a round that starts under other weights. 315 178 states, in
about three and a half minutes. The calls are bounded, so that deadlock is not checked. Fairness:
the event loop runs the dispatcher, calls and the database answer; nothing is assumed
of callers, so that nobody need ever submit again.

`BrowserSlots.tla` models `BrowserSlotManager` and `AccountBrowserLockManager`. A job
is a thread that opens a browser: a verification or a renewal (`page`), a password
login of the pool (`login`), or one with a thread of its own (`api`). A step is the
code between two operations on the slots or the locks.

* `NoSlotLeak`: a slot that is counted belongs to a job.
* `BrowserLimit`: at most `MaxSlots` browsers, unless a job went `astray`.
* `OneBrowserPerAccount`, `LockReturned`: a profile has one owner, and comes free.

`BrowserLimits` has four jobs of the three kinds, three accounts (one with two
jobs) and two slots, so that jobs wait for both. Jobs start again and again, and
deadlock is checked. Fairness: every wait has a time limit.

`astray` marks the two ways on which a slot is given back too often, so that the
limit may be exceeded. After a wait for a face verification the slot has been
released while `_slot_acquired` is still set and `register_instance`, which does
nothing, is said to take it again (`xianyu_slider_stealth.py` 1222-1289). And the
thread of the login page releases a slot for an object whose constructor failed
(`password_login.py` 276-284). The mutant of `LockReturned` is the bug that
`password_login.py` 268-270 tells of.

Outside: the thread pool, which only delays a start, and the scheduler of threads
in `real_mouse_slider.py`, which the queue leaves with one user.

## 8. Relisting

### The model and the code

`Relisting.tla` models one material: its rule, the events of its orders, the
publish log of each order's request. Workers are processes that run
`AutoRelistTask.execute`; a worker's token stands for the uuid of its claim. An
action is the code between two points at which another process may act, and a
transaction is one step.

| Definition | Code |
|---|---|
| `rule`, `event`, `log` | the rows of `xy_auto_relist_rules`, `xy_auto_relist_events`, and the publish log with its unique `publish_request_id`; `pub` is `publish_state`, `item` the `publish_item_id`, `old` the `old_item_id`, `leased` whether `lease_expires_at` lies ahead |
| `fresh` | orders beyond `last_order_updated_at` |
| `runner`, `account` | the Redis locks of a round and of a user's account |
| `loc[w]` | the event at hand, whether it has its listing, the rule's `version` as read, the result of the call |
| `reading`, `todo` | expired events as the recovery read them; the due ones |
| `Start`, `Recover`, `Discover`, `Insert`, `Claim`, `Finish` | a round, which reads the rule and its orders without a lock and writes event, cursor and rule later; `MarkRead`, `MarkWrite`: one that cannot ask Redis |
| `Check`, `Lock`, `After` | `_process_event` |
| `Recheck`, `Still`, `Enter`, `Persist`, `Migrate`, `MoveRule` | `_publish_after_check`: the item's state, "publishing", the result, the associations, the compare-and-set of the rule |
| `Lookup`, `OpenLog`, `OpenTaken`, `ReopenLog`, `CallPlatform`, `RecordLog` | `execute_single_publish` |
| `Disable`, `Enable`, `Reconcile`, `NotPublished` | the seller: `save`, `reconcile_event`, `mark_event_failed` |
| `Raise`, `Crash`, `LoseLocks`, `Outlive`, `LockExpires`, `LeaseEnds` | an exception, a dead process, Redis without its keys, a worker slower than its lease; keys and leases that run out |

`CallPlatform` stands for `mtop_call`, which both publishers go through. It posts the
publication up to `MaxPosts` times, again after every request exception
(`xianyu_mtop.py` 166, 240-244). A post whose answer is lost may have listed the
material (`hidden` of the earlier ones, `last` of the last); the last post then lists
and says so, or says nothing, or is refused, and a refusal says nothing of the posts
before it: the log becomes "failed" and is used again. `blind` counts the listings that
were followed by another post.

The session keeps the objects it has read: `Recheck` may see the rule as `Check` saw
it (a fetch of items that writes nothing does not end the snapshot), and `Enter`
does not see the rule at all, although it locks its row: the select for update
returns the object at hand. This is why the event's row has to carry the seller's
decision, and `Disable` writes it there.

Abstracted: whether the material, the account or the card are in use, what the
platform says of an item and which association fails are choices; the number of
attempts stops at `MaxAttempts`; a delay before a retry, a minute at least, is longer than the worker that
scheduled it stays with the event, unless it has outlived its lease (`late`). A
seller answers by what the platform lists. The two commits of an unknown result
are one step. Left out: the recovery of events of an older release
(`_recover_legacy_manual_failed_events`), the arithmetic of the cursor, the
association tables, the events' page.

### Properties

* `ListedOnce`: apart from the listings `mtop_call` makes by posting again inside one
  call, the material is listed once for an order, except where a worker outlived its
  lease. The publish log and the state "unknown" stand between an answer that the
  worker lost and a second call; they do not stand between the posts of one call.
* `OnlyWhileEnabled`: no event begins to publish once the seller has switched the
  rule off.
* `SuccessMovesRule`: an event succeeds only in the step that moves the rule from
  the item it replaces to a listing of its own order.
* `EveryClaimEnds`: no event stays with a worker.
* `ListingFollowed`: a listing that was made is retried until the rule has moved to
  it, unless the seller gave up the event or the item.

### Run, bounds and fairness

`Relists` has two workers, the second of which may recover, claim or lock while the
first works, and one order: orders share the rule and the account's lock only, and
a second listing of one order is what the log has to prevent. Two attempts (one is
repeated, the second is the last), three posts, two listings (one too many; enough for
a hidden one beside a second) and, in turn, one save with one mishap, two mishaps
(a hidden listing is one), or three saves: 616 515 states, in three and a half minutes.
Orders may change for ever, so that nothing stops; deadlock is checked.

`FairSpec` assumes that a worker goes on (the loop of the scheduler service starts
its rounds, every await in them has a time limit) and that keys and leases run out.
Nothing is assumed of sellers, orders or the platform.

### What the model shows

No run repeats these.

* `mtop_call` says that a request exception may have reached the platform and that its
  caller must not take it for a failure that is safe to repeat (`xianyu_mtop.py`
  291-292), and repeats it itself. Two of its posts can list the material twice in
  one call; or the first lists and the last is refused, which is no longer
  `_request_status_unknown`: the log says "failed", and `execute_single_publish` reuses
  it because a clear failure "未产生平台副作用" (`publish_execution_service.py:209`).
* A result becomes unknown and the rule is switched off: `reconcile_event` and
  `mark_event_failed` ask the seller to enable the rule first
  (`auto_relist_rule_service.py` 379, 511), and `save` asks for the answer first (194).
  Neither is possible any more.
* Switching the rule off does not touch an event in "publishing" or
  "migration_retry": a listing whose move fails at that moment is kept in retry and
  the rule, which is off, moves to it later.
* An item changed by the seller during a publication makes every later
  compare-and-set fail: the event stays in "migration_retry" for good. The second
  part of `ListingFollowed` excludes it.
* `Still` writes the event and the rule as it read them, without a condition: it
  takes back what the recovery or the seller wrote in between.
* A worker that lost the account's lock schedules the event that it reads again
  under whatever token that has, which may be another worker's (`auto_relist_task.py`
  216-232).
* A worker that outlived its lease can list the material beside the one that
  claimed it next, once a seller has answered for the unknown result: `late` in
  `ListedOnce`.

## 9. Proofs

**Delivery.** `DeliveryProofs.tla` and `DeliverySafety.tla` hold seven theorems,
`DeliveryInvariant.tla` their invariants, for all orders, cards, flows, callers,
settings, verdicts and bounds allowed by `DeliveryAssumption` (names do not clash,
bounds are positive):

* `TypeCorrect`: `Spec => []TypeOK`. `TypeOK` is not inductive: a step of a flow
  indexes by `ord[f]`, so that a flow under way must have an order, a flow that
  records must have a card (`FlowInv`), a caller before its request must have an
  attempt left (`CallInv`) and a stopped account an instance left (`AccountInv`).
  `TypeInv` adds these; each action is one lemma.
* `ExclusiveDelivery`: with `OneInstance \/ RedisSound`, `Spec => []OneFlowPerOrder`.
  There is one argument for each lock, and neither mentions the other lock. `LockInv`
  says that a working flow holds the only instance's lock of its order; Redis may
  fail, expire or be forgotten. `RedisInv` says that a message's flow and a caller
  hold the Redis lock of the order, and that a handler has a caller that waits for
  it; the account may be restarted at any time. `GuardInv` is one or the other, and
  gives `Exclusive`, all that the other proofs use of locks.
* `NoSecondCard`: with `RowsKept` too, `Spec => []AtMostOneCard`. `CardInv` says that
  a flow that has passed the test of the row and has not taken a card found none
  taken (`TakesOnce`), and that an order with a card is handled or has the flow that
  will record it (`RecordsEach`). A flow entering finds nobody at work, so no such
  flow exists, and the row unhandled, so no card was taken. `NeverClosed` and
  `NeverFetched` carry `RowsKept` through the steps that write rows.
* `CardsAreTraceable`: with `NoScheduler` too, `Spec => []CardTraceable`. `TraceInv` adds
  that the content of a row is the card taken for it, from the record on and not
  before, and that nothing reaches the buyer before the flow that took it sends.
* `DeliveryKeepsContract`: under the same assumptions every step of `Delivery` is a step
  or a stutter of `DeliveryContract`. Taking, sending and recording map to the
  contract's steps, from `TraceInv`; all others change nothing it sees. This is
  `KeepsContract` without its fairness.
* `CardOnlyStaysUnconfirmed`: with either lock and `AnswersArrive`,
  `Spec => []CardOnlyUnconfirmed`. `OnlyCardInv` says which flow knows that the platform
  shows an order as shipped (`Known`), so that no other flow gets as far as a
  card-only record; `LinkInv` says that a caller is told about its own order.
* `ShippedOrExplained`: with `SendFirstKept`, `Spec => []FlaggedIfUnconfirmed`. It uses no
  lock. `SettledInv` follows a failed confirmation through the flow, its answer, the
  caller and the list fetch: each carries the reason or is about to write it.

The assumptions leave out what breaks the properties. Without `OneInstance` and
`RedisSound` both locks may be gone at once (section 3). `RowsKept` forbids list
fetches, and closed orders when the scheduler runs: both set a handled row back.
`NoScheduler`: its second record empties the content. `AnswersArrive`: if the answer to
a confirmation is lost, the flow takes a confirmed order for an unconfirmed one, and
a list fetch makes a row shipped that no flow confirmed. `SendFirstKept`: confirm-first
hands out nothing unconfirmed, and with confirmation off no reason is written.

**Account manager.** `AccountProofs.tla` holds two, for any number of requests:

* `AccountTypes`: `Spec => []TypeInv`. One lemma for each way a request leaves a
  step: it ends and unlocks, waits for a task, or queues. The head of a queue
  changes only when the head itself leaves.
* `OneTaskAtATime`: `Spec => [](OneTask /\ Registered)`. `SerialInv` says that
  without updates and removals all queues but the account's lock's are empty,
  that the task a request waits for is the registered one, and that only the
  registered task runs. A request that enters under the lock is then the only
  one to wait (`NoOtherWaits`), so that its task is the only one.

**Session.** `SessionProofs.tla` holds five, for any loops, chats, limits, tokens
and sets of faults:

* `SessionTypes`: `Spec => []TypeOK`. `TypeOK` bounds the counters, and an action adds
  one without looking; `TypeInv` says that a counter at its limit has ended the
  loop or sent it to a login, and that a flow that asks has a captcha left.
* `OneRequestAtATime`, `NoRequestIsWasted`: `Spec => []OneRequest`, and the same of
  `NoWastedRequest`. `TokenInv` says that, while no flow went on without it, a flow
  under the lock is its holder, and that a flow which asks found the row wanting.
  Steps are of three kinds: those outside the lock leave the row as it was or empty
  or age it, and give the lock back at most; those of the holder may write the
  row, as no other flow asks; and `Lock` adds a holder when there was none.
* `StartupTokenTriedOnce`: `Spec => []StartupTokenOnce`. `StartupInv` says that the
  leave to try an expired token is spent by the look that finds it: one flow tries
  it, nothing has been given up before, and neither the memory nor the connection
  has a token that was.
* `ConnectionHasTheToken`: with `SwitchApart`, `Spec => []LiveTokenCurrent`. Every token
  at hand was issued (`IssuedInv`), so that a new one differs from all of them. The
  main loop stands by a socket that is registering or registered (`WiredInv`).
  `LiveInv` has two parts. Between refreshes, what one would take out of the row, the
  token in memory and the connection's are the same or one the renewal task wrote
  silently, and `_cached_token_in_use` is not ahead of the connection (`RowFits`).
  A refresh under way takes such a token, or closes the socket for the one it saves,
  and asks the platform only if no write can have failed or the row holds nothing
  that a later refresh would take (`FlowFits`). Steps that touch none of this are
  `Tame` and share one lemma.

  `SwitchApart` says that no set of faults has a failing write and a captcha switch
  that is on or cannot be read. Without it the property is false, and TLC shows how:
  the write of a new token fails, which `_set_cached_token` swallows; the
  memory has the new token and the row the old one; the switch goes on, and the
  next refresh takes the row's token without closing the socket.

**Agent orders.** `AgentProofs.tla`, for any users, cards, prices, rows, gaps,
orders and postings:

* `AgentTypesHold`: types, and a transaction has loaded only rows it has locked, or
  balances whose gap it has, so that nobody inserts them before it ends.
* `TheBooksMatch`: `AgentInv` adds that a balance a transaction has loaded is the
  committed one plus what it has moved (`Ledger`). The row lock, or the gap, keeps others
  from changing the committed one, so that the absolute value it writes fits;
  `Inserting` says that it has moved only money of rows it has locked, inserted, or has
  yet to insert, and that nobody has the last.
* `PickupsWaitUpwards`: `Spec => []PickupsDeadlockOnInserts`. A pickup that waits for a
  row has locked smaller users only. Of a circle in which nobody inserts, the member
  that waits for the largest user waits for one that has it and asks for a smaller
  one, against that order; a pickup that settles has all the rows it needs and waits
  for an insert or for nobody.
* `OrdersSettleAsAgreed`, `PickupsNeverOverdraw`, `CheckedDealersPay`: the action
  properties `SettledAsAgreed`, `OnlyDeliveriesOverdraw` and `CheckSuffices`. `MoneyInv`
  adds that a settlement has moved the transfers it is past (`Moved`; `PaidUp` adds
  them up for each of a delivery's parties), and that a pickup which has weighed its
  parties, whose rows it keeps locked, can pay for all of them, and a delivery had
  what its check asked for (`Afforded`), whatever terms it reads for the charge.
  `CheckedDealersPay` assumes `DealersApart`. A dealer is not its own agent:
  `create_sub_dock_record` refuses one's own record
  (`src/backend-web/app/services/sub_dock_record_service.py:67`). An owner may deal
  in its own card; if it pays the in its own card; if it pays the fee too, the fee is at most what it gets, under all terms
  it may find. Otherwise
  the dealer pays in its other role what the check has not asked of it.
* `LinesGoToOneDelivery`: with `LinesDiffer`, `Spec => []DeliveriesShareNoLine`.
  `StockInv` says that what is left of a card that is not picked up has been given to
  nobody. The content only shrinks, so that a content equal to what was read is the
  one that was read, and the compare-and-set takes a line that is still there. Lines
  of one text cannot be told apart, by the code or by the property: hence
  `LinesDiffer`.

**Captcha.** `RunnerProofs.tla`, for any tasks, weights and bounds: types with scores
between plus and minus `Scale`, `OneCursor`, `NoLostTask` (the registered dispatcher
is the only one that has not ended; none is registered after a `CancelledError`, and
`Submit` then starts one) and `FairShare`, from `ShareInv`: the scores
add up to zero and stay within half the sum of the weights, and a source that is
passed over keeps the weights it has gained since it was served. `AgedKeepTheirPlace`
proves `AgedInOrder` from `Ordered`: what waits is finite, `before` orders it, and with
an aged task every remote task before it is aged. A set that waits has a first
element (`FirstOf`, by the well-foundedness of a strict order on a finite set, where one
would otherwise use induction), and that element is at the head of a deque. `SlotProofs.tla`, for any jobs: types, `NoSlotLeak` (an owner
of a slot is on its way to `close`, with its flag set), `BrowserLimit` (`SlotsExact` until a job goes astray: each
open browser is one of a job that owns a slot) and `OneBrowserPerAccount`.

**Relisting.** `RelistProofs.tla`, for any workers, orders, attempts, listings and
budgets:

* `RelistTypes`: `Spec => []TypeOK`. A worker that has an event must have an order,
  and one that moves the rule an item (`Fits`).
* `PublishedWhileEnabled`, `SuccessMovesTheRule`: the two action properties. `RelistInv`
  says that an event's and a log's item is a listing of their own order
  (`EventFits`, `LogFits`), that an event in "checking" which has published nothing
  has an enabled rule, and that a worker about to migrate carries the new item. The
  second is what `Disable` keeps by skipping events in "checking": without it `Enter`
  could find a rule that is off. Most steps are `Calm` (they begin, publish and finish nothing) and share one
  lemma; the others have one each.
  `Reads` says that what a recovery is about to write is one of its three verdicts.
* `ListedOnlyOnce`: `Spec => []ListedOnce`. `OnceInv` says, of an order whose worker did
  not outlive its lease, that it has one worker at most; that it is listed once at
  most beside its `blind` listings, and once it is, its log is at "publishing" or
  "success"; that a worker which may still ask has the event, or a round without a
  lock has written over it; and that nothing but blind listings is there while one
  reopens the log, is about to call, or has a refusal in hand. A log at "publishing"
  stops the next worker, which is what keeps an answer that the worker lost from a
  second listing; a "failed" one does not, which is how a refusal after a hidden
  listing leads to another. For posts inside one call there is nothing to prove.

Only model-checked: liveness under fairness (`EveryOrderHandled`, the liveness of
`KeepsContract`, `Recovers`, `EveryOrderEnds`, `EveryTaskServed`, `EveryRequestEnds`,
`LockReturned`, `EveryClaimEnds`, `ListingFollowed`), which needs ENABLED and is out of
the prover's reach. What the theorems assume and the runs do not is told above; the
runs check the same properties with the faults their tables name.

## 10. Not modelled

* Message handling and the scheduler service are the next in the plan: both keep
  state in one process only, and `Delivery` and `Session` already let their jobs and
  messages come at any time and in any order.
* QR and password login, scheduled publishing: mostly requests to the platform
  around rows with a status; `Session` has a login as an event with all its outcomes,
  `Relisting` the call of a publication.
* Replies, AI calls, browser automation, the promotion sub-project, the user
  interfaces, the creation of the database's tables, the launcher: input and output,
  text and data without a protocol. They are most of the repository's lines.
