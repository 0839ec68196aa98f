------------------------------ MODULE Session ------------------------------
(***************************************************************************)
(* One account's connection and the token it registers with: the main loop *)
(* of XianyuAsync, the background flows that refresh the token beside it   *)
(* (the cookie and token loops, a chat that forces a reconnection), and    *)
(* the renewal task of the scheduler process.  They share the account's    *)
(* row in xy_token_cache, the token in memory, the socket, and the Redis   *)
(* lock on token requests.  An action is the code between two awaits; a    *)
(* sleep is a state in which nothing else is said.                         *)
(***************************************************************************)
EXTENDS Naturals, FiniteSets

CONSTANTS
  Main,          \* the main loop
  Loops,         \* background flows: cookie_refresh_loop, token_refresh_loop
  Forces,        \* chats that call _reconnect_with_new_token
  Renewal,       \* the scheduler's renewal task
  Nobody, Dead,  \* the lock is free; its holder died with its process
  MaxToken,      \* bound: the tokens the platform issues
  MaxFetch,      \* 100 in main()
  MaxConn,       \* max_connection_failures
  MaxNet,        \* max_network_failures
  MaxShort,      \* frequent_disconnect_limit
  MaxCaptcha,    \* max_captcha_verification_count
  MaxStarts,     \* bound: instances replaced, chats refused
  Faults         \* bound: the sets of things that may happen together

Instance == {Main} \cup Loops \cup Forces
Flows    == Instance \cup {Renewal}
Token    == 1 .. MaxToken
NoToken  == 0

ASSUME SessionAssumption ==
  /\ Main \notin Loops \cup Forces /\ Renewal \notin Instance
  /\ Loops \cap Forces = {}
  /\ Nobody \notin Flows \cup {Dead} /\ Dead \notin Flows
  /\ {MaxToken, MaxFetch, MaxConn, MaxNet, MaxShort, MaxCaptcha}
       \subseteq Nat \ {0}
  /\ MaxStarts \in Nat

VARIABLES
  enabled,   \* the account's status is active
  cache,     \* its row: token, and the hours left of expire_at, renew_expire_at
  cur,       \* current_token
  inUse,     \* _cached_token_in_use
  startup,   \* _startup_expired_cache_available
  expired,   \* _using_expired_startup_token
  counts,    \* last_token_refresh_status is one that main() counts
  ws,        \* connection_manager.ws: its state, the token it registered
  holds,     \* chats whose old_ws is still the socket
  fails,     \* the failure counters
  lock,      \* the Redis key lock:token_request
  pc, loc,   \* per flow: the await it stands at, its locals
  site,      \* who called refresh_token in main()'s task: the loop, or init()
  weather,   \* what may happen besides; once nothing does, it stays so
  issued,    \* tokens issued so far
  dead,      \* tokens the platform takes no more
  banned,    \* history: startup tokens given up, not valid again since
  renewed,   \* history: tokens the renewal task wrote
  starts,    \* instances replaced and chats refused so far
  bare       \* history: a flow has gone on without the lock

memory == <<cur, inUse, startup, expired, counts>>
world  == <<weather, issued, dead, renewed, starts, bare>>
vars   == <<enabled, cache, memory, ws, holds, fails, lock, pc, loc, site,
            world, banned>>

\* Where a flow stands; where its token came from, or how the switch stood.
Awaits == {"head", "wait", "inside", "use", "api", "save", "close", "back",
           "got", "resume", "connect", "init", "reg", "listen", "drop",
           "relogin", "done", "left", "off", "idle"}
\* The main loop is over; "left": with the account still active.
Ended  == {"done", "left"}
Hows   == {"none", "plain", "current", "promoted", "startup", "stale",
           "on", "off", "same", "changed"}

NoSocket == [st |-> "none", token |-> NoToken]
NoRow    == [token |-> NoToken, expire |-> 0, renew |-> 0]
Fresh(t) == [token |-> t, expire |-> 2, renew |-> 0]
Idle     == [tok |-> NoToken, how |-> "none", cap |-> 0, exp |-> 0]
NoFails  == [net |-> 0, conn |-> 0, fetch |-> 0, short |-> 0]

\* An expiry is 0 when past (or NULL), 1 within the hour, 2 later.
Current(c)   == c.token # NoToken /\ c.expire > 0
Promoted(c)  == c.token # NoToken /\ c.expire = 0 /\ c.renew > 0
Due(c)       == c.expire <= 1 /\ c.renew <= 1

May(fault) == fault \in weather
Calm       == weather = {}

\* delete_token_cache: the row is emptied, or the write failed.
DropCache == cache' \in {NoRow} \cup (IF May("db") THEN {cache} ELSE {})

\* disable_account: the account is disabled, or the write failed.
Disable == enabled' \in {FALSE} \cup (IF May("db") THEN {enabled} ELSE {})

Init ==
  /\ enabled = TRUE
  /\ cache \in {NoRow, Fresh(1), [Fresh(1) EXCEPT !.expire = 0]}
  /\ cur = NoToken /\ inUse = NoToken
  /\ startup = TRUE /\ expired = FALSE /\ counts = TRUE
  /\ ws = NoSocket /\ holds = {} /\ fails = NoFails
  /\ lock = Nobody
  /\ pc = [f \in Flows |-> IF f = Main THEN "head"
                           ELSE IF f \in Loops THEN "off" ELSE "idle"]
  /\ loc = [f \in Flows |-> Idle]
  /\ site = "head"
  /\ weather \in Faults /\ issued = 1 /\ dead = {} /\ banned = {}
  /\ renewed = {} /\ starts = 0 /\ bare = FALSE

Go(f, where) == pc' = [pc EXCEPT ![f] = where]

(***************************************************************************)
(* The lock around every token flow                                        *)
(***************************************************************************)
\* refresh_token and _renew_candidate: the lock is had; without Redis the
\* flow goes on without it.
Lock(f) ==
  /\ pc[f] = "wait"
  /\ \/ lock = Nobody /\ lock' = f /\ UNCHANGED bare
     \/ May("redis") /\ bare' = TRUE /\ UNCHANGED lock
  /\ Go(f, "inside")
  /\ loc' = [loc EXCEPT ![f] = Idle]
  /\ UNCHANGED <<enabled, cache, memory, ws, holds, fails, site, weather, issued,
                 dead, renewed, starts, banned>>

\* The holder took longer than 900 seconds.
LockTimeout(f) ==
  /\ pc[f] = "wait" /\ May("timeout") /\ lock # Nobody
  /\ IF f = Renewal
     THEN Go(f, "idle") /\ UNCHANGED <<cur, counts>>
     ELSE Go(f, "back") /\ cur' = NoToken /\ counts' = TRUE
  /\ loc' = [loc EXCEPT ![f] = Idle]
  /\ UNCHANGED <<enabled, cache, inUse, startup, expired, ws, holds, fails,
                 lock, site, world, banned>>

Unlocked(f) == lock' = IF lock = f THEN Nobody ELSE lock

\* The end of the `async with`: the main loop goes on afterwards.
Unlock(f) ==
  /\ f = Main /\ pc[f] = "back"
  /\ Unlocked(f) /\ loc' = [loc EXCEPT ![f] = Idle]
  /\ Go(f, IF site = "head" THEN "got" ELSE "resume") /\ site' = "head"
  /\ UNCHANGED <<enabled, cache, memory, ws, holds, fails, world, banned>>

\* The key of a process that died runs out after 600 seconds.
LockExpire ==
  /\ lock = Dead /\ lock' = Nobody
  /\ UNCHANGED <<enabled, cache, memory, ws, holds, fails, pc, loc, site,
                 world, banned>>

(***************************************************************************)
(* _refresh_token_with_lock                                                *)
(***************************************************************************)
Result(f, t, how) == loc' = [loc EXCEPT ![f].tok = t, ![f].how = how]

\* It returns without a token or with the one at hand.
Give(f, t, counted) ==
  Go(f, "back") /\ Result(f, t, "plain") /\ counts' = counted

\* should_skip_account: a disabled account; the status is not touched.
RefreshDisabled(f) ==
  /\ pc[f] = "inside" /\ f \in Instance /\ ~enabled
  /\ Give(f, NoToken, counts)
  /\ UNCHANGED <<enabled, cache, cur, inUse, startup, expired, ws, holds,
                 fails, lock, site, world, banned>>

First(f)   == loc[f].cap = 0 /\ loc[f].exp = 0
Initial(f) == First(f) /\ startup

\* _is_local_slider_disabled: the captcha switch is read anew every time.
Sliders == {"off"} \cup (IF May("switch") THEN {"on"} ELSE {})
                   \cup (IF May("unread") THEN {"unknown"} ELSE {})

\* Whether this run looks into the cache, and takes an expired row too.
Looks(f, slider)     == slider # "off" \/ First(f)
AnyAge(f, slider)    == slider # "off" \/ Initial(f)
Usable(f, slider)    == \/ Current(cache) \/ Promoted(cache)
                        \/ AnyAge(f, slider) /\ cache.token # NoToken

\* The first look of a new instance spends its leave to take an expired row.
\* (Mutant: it does not.)
StartupKept(f, slider) == startup
StartupLeft(f, slider) == startup /\ ~(slider = "off" /\ Initial(f))

\* _get_cached_token finds a token; a renewed one takes its place.
CacheHit(f, slider) ==
  /\ pc[f] = "inside" /\ f \in Instance /\ enabled
  /\ Looks(f, slider) /\ Usable(f, slider)
  /\ Go(f, "use")
  /\ Result(f, cache.token,
            IF Current(cache) THEN "current"
            ELSE IF Promoted(cache) THEN "promoted"
            ELSE IF slider = "off" THEN "startup" ELSE "stale")
  /\ cache' = IF Promoted(cache) THEN [cache EXCEPT !.expire = cache.renew]
                                 ELSE cache
  /\ startup' = StartupLeft(f, slider)
  /\ UNCHANGED <<enabled, cur, inUse, expired, counts, ws, holds, fails, lock,
                 site, world, banned>>

\* _use_cached_token.
Use(f) ==
  /\ pc[f] = "use"
  /\ cur' = loc[f].tok /\ inUse' = loc[f].tok
  /\ expired' = (loc[f].how = "startup")
  /\ counts' = TRUE
  /\ Go(f, IF loc[f].how = "promoted" THEN "close" ELSE "back")
  /\ banned' = IF loc[f].how = "startup" THEN banned ELSE banned \ {loc[f].tok}
  /\ UNCHANGED <<enabled, cache, startup, ws, holds, fails, lock, loc, site,
                 world>>

\* The cache could not be read: no request is made.
CacheUnread(f, slider) ==
  /\ pc[f] = "inside" /\ f \in Instance /\ enabled
  /\ May("db") /\ Looks(f, slider)
  /\ Give(f, cur, ~AnyAge(f, slider))
  /\ UNCHANGED <<enabled, cache, cur, inUse, startup, expired, ws, holds,
                 fails, lock, site, world, banned>>

\* The switch could not be read and there is no token in the cache.
SliderUnknown(f) ==
  /\ pc[f] = "inside" /\ f \in Instance /\ enabled
  /\ May("unread") /\ cache.token = NoToken
  /\ cur' = NoToken /\ Give(f, NoToken, FALSE)
  /\ UNCHANGED <<enabled, cache, inUse, startup, expired, ws, holds, fails,
                 lock, site, world, banned>>

\* No token to reuse: a captcha under way elsewhere, too many of them, or a
\* message just received put the request off; otherwise it is made.
CacheMiss(f, slider) ==
  /\ pc[f] = "inside" /\ f \in Instance /\ enabled
  /\ slider # "unknown"
  /\ ~(Looks(f, slider) /\ Usable(f, slider))
  /\ startup' = StartupLeft(f, slider)
  /\ \/ May("risk") /\ Give(f, cur, FALSE)
     \/ loc[f].cap >= MaxCaptcha /\ Give(f, NoToken, FALSE)
     \/ May("cooldown") /\ Give(f, NoToken, FALSE)
     \/ /\ loc[f].cap < MaxCaptcha
        /\ Go(f, "api") /\ counts' = TRUE
        /\ Result(f, NoToken, slider)
  /\ UNCHANGED <<enabled, cache, cur, inUse, expired, ws, holds, fails, lock,
                 site, world, banned>>

\* The platform issues a new token, or repeats the last one.
Issue(t) ==
  /\ t \in Token
  /\ \/ t = issued + 1
     \/ t = issued /\ t \notin dead
  /\ issued' = t
  /\ banned' = banned \ {t}
  /\ UNCHANGED <<weather, dead, renewed, starts, bare>>

\* Compared before the row, and _cached_token_in_use with it, is written.
\* (Mutant: after.)
ChangedNever(t) == "same"
Changed(t) == IF t = inUse THEN "same" ELSE "changed"

\* A token from the platform, or from the remote solver of a captcha.
GetToken(f) ==
  /\ pc[f] = "api" /\ f \in Instance
  /\ \E t \in Token :
       /\ Issue(t)
       /\ cur' = t
       /\ Result(f, t, Changed(t))
  /\ expired' = FALSE /\ counts' = TRUE /\ Go(f, "save")
  /\ UNCHANGED <<enabled, cache, inUse, startup, ws, holds, fails, lock, site>>

\* _set_cached_token: the failure of its write is swallowed.
Save(f) ==
  /\ pc[f] = "save" /\ f \in Instance
  /\ \/ cache' = Fresh(loc[f].tok) /\ inUse' = loc[f].tok
     \/ May("db") /\ UNCHANGED <<cache, inUse>>
  /\ Go(f, IF loc[f].how = "changed" THEN "close" ELSE "back")
  /\ UNCHANGED <<enabled, cur, startup, expired, counts, ws, holds, fails,
                 lock, loc, site, world, banned>>

Shut(w) == IF w.st \in {"open", "up"} THEN [w EXCEPT !.st = "closing"] ELSE w

\* _reconnect_websocket_for_renewed_token.
CloseSocket(f) ==
  /\ pc[f] = "close"
  /\ ws' = Shut(ws) /\ Go(f, "back")
  /\ UNCHANGED <<enabled, cache, memory, holds, fails, lock, loc, site, world,
                 banned>>

\* No token: the cache is emptied too, unless the network is to blame.
ApiFails(f) ==
  /\ pc[f] = "api" /\ f \in Instance
  /\ \/ May("api") /\ DropCache
     \/ May("net") /\ UNCHANGED cache
  /\ cur' = NoToken /\ Give(f, NoToken, TRUE)
  /\ UNCHANGED <<enabled, inUse, startup, expired, ws, holds, fails, lock,
                 site, world, banned>>

Again(f, field) ==
  /\ Go(f, "inside")
  /\ loc' = [loc EXCEPT ![f] =
       [tok |-> NoToken, how |-> "none",
        cap |-> loc[f].cap + (IF field = "cap" THEN 1 ELSE 0),
        exp |-> IF field = "cap" THEN 0 ELSE loc[f].exp + 1]]

\* _m_h5_tk has run out: one more request, with the cookie just received.
ApiTokenExpired(f) ==
  /\ pc[f] = "api" /\ f \in Instance /\ May("expired") /\ loc[f].exp < 1
  /\ Again(f, "exp")
  /\ UNCHANGED <<enabled, cache, memory, ws, holds, fails, lock, site, world,
                 banned>>

\* A captcha: left alone when the switch says so, else solved here or not.
ApiCaptcha(f) ==
  /\ pc[f] = "api" /\ f \in Instance /\ May("captcha")
  /\ IF loc[f].how = "on"
     THEN cur' = NoToken /\ Give(f, NoToken, FALSE) /\ UNCHANGED cache
     ELSE \/ DropCache /\ Again(f, "cap") /\ UNCHANGED <<cur, counts>>
          \/ DropCache /\ cur' = NoToken /\ Give(f, NoToken, FALSE)
          \/ Give(f, cur, FALSE) /\ UNCHANGED <<cur, cache>>
          \/ Give(f, NoToken, TRUE) /\ UNCHANGED <<cur, cache>>  \* no log row
  /\ UNCHANGED <<enabled, inUse, startup, expired, ws, holds, fails, lock,
                 site, world, banned>>

\* The session is over: the cookie is renewed, by the interface or a login.
ApiSessionOver(f) ==
  /\ pc[f] = "api" /\ f \in Instance /\ May("session")
  /\ \/ DropCache /\ Again(f, "cap") /\ UNCHANGED <<enabled, cur, counts>>
     \/ /\ Disable                          \* no_credentials
        /\ Give(f, NoToken, counts) /\ UNCHANGED <<cache, cur>>
     \/ /\ DropCache /\ cur' = NoToken      \* skipped_cooldown
        /\ Give(f, NoToken, FALSE) /\ UNCHANGED enabled
     \/ /\ DropCache /\ cur' = NoToken      \* the login failed
        /\ Give(f, NoToken, TRUE) /\ (UNCHANGED enabled \/ Disable)
  /\ UNCHANGED <<inUse, startup, expired, ws, holds, fails, lock, site, world,
                 banned>>

Refresh(f) ==
  \/ Lock(f) \/ Unlock(f) \/ RefreshDisabled(f)
  \/ \E slider \in Sliders :
       CacheHit(f, slider) \/ CacheUnread(f, slider) \/ CacheMiss(f, slider)
  \/ SliderUnknown(f)
  \/ Use(f) \/ GetToken(f) \/ Save(f) \/ CloseSocket(f)
  \/ LockTimeout(f) \/ ApiFails(f) \/ ApiTokenExpired(f) \/ ApiCaptcha(f)
  \/ ApiSessionOver(f)

(***************************************************************************)
(* The main loop                                                           *)
(***************************************************************************)
\* The finally block: the background loops are cancelled, and a cancelled
\* refresh gives its lock back.
Finish(end) ==
  /\ pc' = [f \in Flows |-> IF f = Main THEN end
                            ELSE IF f \in Loops THEN "off" ELSE pc[f]]
  /\ lock' = IF lock \in Loops THEN Nobody ELSE lock

\* The loop disables the account and ends; it ends also when it could not
\* disable it, and leaves an active account behind.
GiveUp ==
  \/ enabled' = FALSE /\ Finish("done")
  \/ May("db") /\ UNCHANGED enabled /\ Finish("left")

\* The head of the loop finds the account disabled.
HeadStops ==
  /\ pc[Main] = "head" /\ ~enabled
  /\ Finish("done")
  /\ UNCHANGED <<enabled, cache, memory, ws, holds, fails, loc, site, world,
                 banned>>

\* Or goes on (also when the account's row cannot be read).
Head ==
  /\ pc[Main] = "head" /\ (enabled \/ May("db"))
  /\ IF cur = NoToken
     THEN Go(Main, "wait") /\ site' = "head" /\ UNCHANGED fails
     ELSE /\ Go(Main, "connect")
          /\ fails' = [fails EXCEPT !.fetch = 0] /\ UNCHANGED site
  /\ UNCHANGED <<enabled, cache, memory, ws, holds, lock, loc, world, banned>>

\* refresh_token has returned: connect, try again, or give the account up.
HeadGoesOn ==
  /\ pc[Main] = "got"
  /\ IF cur # NoToken
     THEN Go(Main, "connect") /\ UNCHANGED <<enabled, fails, lock>>
     ELSE IF ~counts
     THEN Go(Main, "head") /\ UNCHANGED <<enabled, fails, lock>>
     ELSE IF fails.fetch + 1 >= MaxFetch
     THEN /\ fails' = [fails EXCEPT !.fetch = MaxFetch]
          /\ GiveUp
     ELSE /\ fails' = [fails EXCEPT !.fetch = @ + 1]
          /\ Go(Main, "head") /\ UNCHANGED <<enabled, lock>>
  /\ UNCHANGED <<cache, memory, ws, holds, loc, site, world, banned>>

\* _reject_expired_startup_token_after_short_disconnect.
RejectStartup ==
  /\ cur' = NoToken /\ expired' = FALSE
  /\ banned' = (banned \cup {cur}) \ {NoToken}
  /\ Go(Main, "head")
  /\ UNCHANGED <<enabled, cache, inUse, startup, counts, holds, fails, lock,
                 loc, site, world>>

\* A network error.  was: init() had succeeded; brief: under 15 seconds;
\* short: under 30.  Old short disconnections fall out of the window.
NetError(was, opened, brief, short) ==
  /\ ws' = NoSocket
  /\ IF expired /\ brief /\ (was \/ opened)
     THEN RejectStartup
     ELSE /\ \E n \in IF ~was THEN {fails.short}
                      ELSE IF short THEN 1 .. fails.short + 1 ELSE {0} :
               LET net == IF fails.net + 1 >= MaxNet /\ n < MaxShort
                          THEN 0 ELSE fails.net + 1 IN
               /\ fails' = [fails EXCEPT !.short = n, !.net = net]
               /\ IF was /\ n >= MaxShort
                  THEN GiveUp
                  ELSE Go(Main, "head") /\ UNCHANGED <<enabled, lock>>
          /\ UNCHANGED <<cache, memory, holds, loc, site, world, banned>>

\* (Mutant: one more.)
EnoughTooLate(conn) == conn > MaxConn
Enough(conn) == conn >= MaxConn

\* After any other error: try again with another token, or log in first.
Judge(conn) ==
  IF Enough(conn)
  THEN Go(Main, "relogin") /\ UNCHANGED cur
  ELSE Go(Main, "head") /\ cur' = NoToken

\* An explicit refusal of the token clears it in memory, then in the cache.
ConnError(auth) ==
  /\ ws' = NoSocket
  /\ fails' = [fails EXCEPT !.conn = @ + 1]
  /\ IF auth THEN cur' = NoToken /\ expired' = FALSE /\ Go(Main, "drop")
             ELSE Judge(fails.conn + 1) /\ UNCHANGED expired
  /\ UNCHANGED <<enabled, cache, inUse, startup, counts, holds, lock, loc,
                 site, world, banned>>

ClearToken ==
  /\ pc[Main] = "drop"
  /\ DropCache /\ Judge(fails.conn)
  /\ UNCHANGED <<enabled, inUse, startup, expired, counts, ws, holds, fails,
                 lock, loc, site, world, banned>>

\* The instance cools down and goes on, whatever became of the login.
\* (Mutant: it ends.)
CoolDownForGood == Finish("done")
CoolDown == Go(Main, "head") /\ UNCHANGED lock

\* try_password_login_refresh: its success keeps the token in memory.
Relogin ==
  /\ pc[Main] = "relogin"
  /\ \/ /\ fails' = [fails EXCEPT !.conn = 0, !.net = 0]
        /\ cache' \in {cache, NoRow} /\ UNCHANGED <<enabled, cur>>
     \/ /\ fails' = [fails EXCEPT !.conn = 0]
        /\ cur' = NoToken /\ UNCHANGED cache
        /\ enabled' \in {enabled} \cup (IF Calm THEN {} ELSE {FALSE})
  /\ CoolDown
  /\ UNCHANGED <<inUse, startup, expired, counts, ws, holds, loc, site, world,
                 banned>>

Connect ==
  /\ pc[Main] = "connect"
  /\ \/ /\ ws' = [NoSocket EXCEPT !.st = "open"] /\ holds' = {}
        /\ Go(Main, "init")
        /\ UNCHANGED <<enabled, cache, memory, fails, lock, loc, site, world,
                       banned>>
     \/ May("net") /\ NetError(FALSE, FALSE, TRUE, TRUE)
     \/ May("conn") /\ \E auth \in BOOLEAN : ConnError(auth)

\* init(): a token first, if a flow took it away, then /reg.
Register ==
  /\ pc[Main] = "init"
  /\ \/ /\ cur = NoToken /\ Go(Main, "wait") /\ site' = "init"
        /\ UNCHANGED <<enabled, cache, memory, ws, holds, fails, lock, loc,
                       world, banned>>
     \/ /\ cur # NoToken /\ ws.st = "open"
        /\ ws' = [ws EXCEPT !.token = cur] /\ Go(Main, "reg")
        /\ UNCHANGED <<enabled, cache, memory, holds, fails, lock, loc, site,
                       world, banned>>
     \/ /\ cur # NoToken /\ ws.st = "closing"
        /\ \E brief \in BOOLEAN : NetError(FALSE, TRUE, brief, TRUE)

InitGoesOn ==
  /\ pc[Main] = "resume"
  /\ IF cur = NoToken
     THEN ConnError(FALSE)
     ELSE /\ Go(Main, "init")
          /\ UNCHANGED <<enabled, cache, memory, ws, holds, fails, lock, loc,
                         site, world, banned>>

\* A second later: the connection is ready, and the loops run.
Ready ==
  /\ pc[Main] = "reg"
  /\ \/ /\ ws.st = "open"
        /\ ws' = [ws EXCEPT !.st = "up"]
        /\ fails' = [fails EXCEPT !.conn = 0, !.net = 0]
        /\ pc' = [f \in Flows |-> IF f = Main THEN "listen"
                    ELSE IF pc[f] = "off" THEN "idle" ELSE pc[f]]
        /\ UNCHANGED <<enabled, cache, memory, holds, lock, loc, site, world,
                       banned>>
     \/ /\ ws.st = "closing"
        /\ \E brief \in BOOLEAN : NetError(FALSE, TRUE, brief, TRUE)
     \/ ws.token \in dead /\ ConnError(TRUE)
     \/ May("drop") /\ NetError(FALSE, TRUE, TRUE, TRUE)

\* The end of the message loop, by this side or the platform's.
Ends(brief) ==
  /\ ws' = NoSocket
  /\ IF expired /\ brief
     THEN RejectStartup
     ELSE /\ Go(Main, "head")
          /\ UNCHANGED <<enabled, cache, memory, holds, fails, lock, loc, site,
                         world, banned>>

Disconnect ==
  /\ pc[Main] = "listen"
  /\ \/ /\ ws.st = "closing" \/ May("drop")
        /\ \/ \E brief \in BOOLEAN : Ends(brief)
           \/ \E brief, short \in BOOLEAN :
                (brief => short) /\ NetError(TRUE, TRUE, brief, short)
     \/ ws.token \in dead /\ ConnError(TRUE)
     \/ May("conn") /\ ConnError(FALSE)

MainStep ==
  \/ HeadStops \/ Head \/ HeadGoesOn \/ ClearToken \/ Relogin \/ Connect
  \/ Register \/ InitGoesOn \/ Ready \/ Disconnect

(***************************************************************************)
(* The flows beside it                                                     *)
(***************************************************************************)
\* A refresh loop's interval is over.
LoopStart(f) ==
  /\ f \in Loops /\ pc[f] = "idle"
  /\ Go(f, "wait")
  /\ UNCHANGED <<enabled, cache, memory, ws, holds, fails, lock, loc, site,
                 world, banned>>

\* A chat was refused for its token: forget it everywhere, get another.
ForceStart(f) ==
  /\ f \in Forces /\ pc[f] = "idle" /\ ws.st # "none"
  /\ May("chat") /\ starts < MaxStarts /\ starts' = starts + 1
  /\ cur' = NoToken /\ DropCache
  /\ holds' = holds \cup {f} /\ Go(f, "wait")
  /\ UNCHANGED <<enabled, inUse, startup, expired, counts, ws, fails, lock,
                 loc, site, weather, issued, dead, renewed, bare, banned>>

\* It has its answer; a chat with a new token closes the socket it knew.
FlowEnd(f) ==
  /\ f \in Loops \cup Forces /\ pc[f] = "back"
  /\ Go(f, "idle") /\ Unlocked(f) /\ loc' = [loc EXCEPT ![f] = Idle]
  /\ IF f \in Forces /\ loc[f].tok # NoToken
        /\ loc[f].how \notin {"startup", "stale"}
     THEN /\ expired' = FALSE
          /\ ws' = IF f \in holds THEN Shut(ws) ELSE ws
     ELSE UNCHANGED <<expired, ws>>
  /\ holds' = holds \ {f}
  /\ UNCHANGED <<enabled, cache, cur, inUse, startup, counts, fails, site,
                 world, banned>>

\* The renewal task of the scheduler process: candidates are chosen before
\* the lock, and looked at again under it.
RenewStart ==
  /\ pc[Renewal] = "idle"
  /\ May("renew") /\ enabled /\ cache.token # NoToken /\ Due(cache)
  /\ Go(Renewal, "wait")
  /\ UNCHANGED <<enabled, cache, memory, ws, holds, fails, lock, loc, site,
                 world, banned>>

RenewDone == Go(Renewal, "idle") /\ Unlocked(Renewal)

\* get_reusable_token_cache, under the lock.  (Mutant: the dates are not read.)
StillThere == cache.token # NoToken
StillDue == cache.token # NoToken /\ Due(cache)

RenewCheck ==
  /\ pc[Renewal] = "inside"
  /\ IF StillDue
     THEN Go(Renewal, "api") /\ UNCHANGED lock
     ELSE RenewDone
  /\ UNCHANGED <<enabled, cache, memory, ws, holds, fails, loc, site, world,
                 banned>>

RenewAnswer ==
  /\ pc[Renewal] = "api"
  /\ \/ /\ \E t \in Token : Issue(t) /\ Result(Renewal, t, "plain")
        /\ Go(Renewal, "save") /\ UNCHANGED lock
     \/ RenewDone /\ UNCHANGED <<loc, world, banned>>
  /\ UNCHANGED <<enabled, cache, memory, ws, holds, fails, site>>

\* write_renewed_token_cache writes only what is still due, emptied rows
\* included; expire_at stays.
RenewWrite ==
  /\ pc[Renewal] = "save"
  /\ IF Due(cache)
     THEN /\ cache' = [cache EXCEPT !.token = loc[Renewal].tok, !.renew = 2]
          /\ renewed' = renewed \cup {loc[Renewal].tok}
     ELSE UNCHANGED <<cache, renewed>>
  /\ RenewDone /\ loc' = [loc EXCEPT ![Renewal] = Idle]
  /\ UNCHANGED <<enabled, memory, ws, holds, fails, site, weather, issued, dead,
                 starts, bare, banned>>

RenewStep ==
  \/ Lock(Renewal) \/ LockTimeout(Renewal)
  \/ RenewCheck \/ RenewAnswer \/ RenewWrite

(***************************************************************************)
(* The rest of the world                                                   *)
(***************************************************************************)
\* The instance is replaced, after a login, by a seller or with its process:
\* a new one starts, and a dead process leaves its lock behind.
Restart ==
  /\ May("restart") /\ starts < MaxStarts
  /\ starts' = starts + 1
  /\ enabled' = TRUE
  /\ cur' = NoToken /\ inUse' = NoToken /\ startup' = TRUE /\ expired' = FALSE
  /\ counts' = TRUE /\ ws' = NoSocket /\ holds' = {} /\ fails' = NoFails
  /\ lock' \in IF lock \in Instance THEN {Nobody, Dead} ELSE {lock}
  /\ pc' = [f \in Flows |-> IF f = Main THEN "head"
                            ELSE IF f \in Loops THEN "off"
                            ELSE IF f \in Forces THEN "idle" ELSE pc[f]]
  /\ loc' = [f \in Flows |-> IF f = Renewal THEN loc[f] ELSE Idle]
  /\ site' = "head" /\ banned' = {}
  /\ UNCHANGED <<cache, weather, issued, dead, renewed, bare>>

\* Hours pass: the renewal's date lies after the first one.  Every await of
\* the main loop but that for messages ends sooner, unless something is wrong.
Age ==
  /\ Calm => pc[Main] \in {"listen"} \cup Ended
  /\ \/ cache.expire > 0 /\ cache' = [cache EXCEPT !.expire = @ - 1]
     \/ cache.expire = 0 /\ cache.renew > 0
        /\ cache' = [cache EXCEPT !.renew = @ - 1]
  /\ UNCHANGED <<enabled, memory, ws, holds, fails, lock, pc, loc, site, world,
                 banned>>

\* The platform takes a token no more; it has another one to issue.
Kill(t) ==
  /\ May("refuse") /\ t <= issued /\ t < MaxToken
  /\ dead' = dead \cup {t}
  /\ UNCHANGED <<enabled, cache, memory, ws, holds, fails, lock, pc, loc, site,
                 weather, issued, renewed, starts, bare, banned>>

\* The storm is over.
CalmDown ==
  /\ ~Calm /\ weather' = {}
  /\ UNCHANGED <<enabled, cache, memory, ws, holds, fails, lock, pc, loc, site,
                 issued, dead, renewed, starts, bare, banned>>

World == Restart \/ Age \/ CalmDown \/ LockExpire \/ \E t \in Token : Kill(t)

Next ==
  \/ MainStep
  \/ \E f \in Instance : Refresh(f) \/ LoopStart(f) \/ ForceStart(f) \/ FlowEnd(f)
  \/ RenewStart \/ RenewStep
  \/ World

Spec == Init /\ [][Next]_vars

\* The awaits of a flow and of the main loop end; the lock is polled every
\* 0.1 s, and the refresh loops take it once in minutes only.
Fairness ==
  /\ WF_vars(MainStep) /\ WF_vars(RenewStep) /\ WF_vars(LockExpire)
  /\ \A f \in Instance : /\ WF_vars(Refresh(f)) /\ WF_vars(FlowEnd(f))
                         /\ SF_vars(Lock(f))
FairSpec == Spec /\ Fairness

(***************************************************************************)
(* Properties                                                              *)
(***************************************************************************)
TypeOK ==
  /\ {enabled, startup, expired, counts} \subseteq BOOLEAN
  /\ cache \in [token : Token \cup {NoToken}, expire : 0 .. 2, renew : 0 .. 2]
  /\ {cur, inUse} \subseteq Token \cup {NoToken}
  /\ ws \in [st : {"none", "open", "up", "closing"},
             token : Token \cup {NoToken}]
  /\ holds \subseteq Forces
  /\ fails \in [net : 0 .. MaxNet, conn : 0 .. MaxConn, fetch : 0 .. MaxFetch,
                short : 0 .. MaxShort]
  /\ lock \in Flows \cup {Nobody, Dead}
  /\ pc \in [Flows -> Awaits]
  /\ loc \in [Flows -> [tok : Token \cup {NoToken}, how : Hows,
                        cap : 0 .. MaxCaptcha, exp : 0 .. 1]]
  /\ site \in {"head", "init"}
  /\ weather \in Faults \cup {{}}
  /\ issued \in Token /\ starts \in 0 .. MaxStarts /\ bare \in BOOLEAN
  /\ dead \subseteq Token /\ banned \subseteq Token
  /\ renewed \subseteq Token \cup {NoToken}

Asking(f) == pc[f] = "api"

\* While every flow goes through the lock, one request for a token of the
\* account is under way at a time, over both processes (TokenRequestLock).
OneRequest ==
  bare \/ \A f, g \in Flows : Asking(f) /\ Asking(g) => f = g

\* And nobody asks for a token that another flow has just got: whoever waited
\* for the lock has looked at the row again (_refresh_token_with_lock and
\* _renew_candidate), and the row has not become good under it since.
NoWastedRequest ==
  bare \/ \A f \in Flows : Asking(f) =>
            IF f = Renewal THEN Due(cache)
            ELSE First(f) => ~Current(cache)

Quiet == \A f \in Loops \cup Forces : pc[f] \in {"idle", "wait", "off"}

\* A connection in use has registered the token in memory, unless a flow is
\* about to close it: _reconnect_websocket_for_renewed_token is reached on
\* every path that changes the token, but for one that the renewal task wrote
\* into a row that was still good.
LiveTokenCurrent ==
  ws.st = "up" /\ cur # NoToken /\ Quiet =>
    bare \/ ws.token = cur \/ cur \in renewed

\* An expired token that a new instance was allowed to try, and gave up after
\* a brief connection, is never registered again by that instance, unless the
\* platform issues it anew or the switch asks for it.
StartupTokenOnce == ws.token \notin banned

Healthy == ws.st = "up" /\ ws.token \notin dead

\* Once the platform behaves, an account that is not disabled is connected
\* with a good token in the end: no mix of counters, cool-downs, flags and a
\* lock left behind keeps main() from it.  One thing does: main() gave the
\* account up and disable_account failed.  The loop is over, the account stays
\* active, and nothing reconnects it before its instance is replaced.
Recovers == Calm ~> (Healthy \/ ~enabled \/ pc[Main] = "left")
=============================================================================
