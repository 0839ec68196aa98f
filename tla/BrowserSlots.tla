---------------------------- MODULE BrowserSlots ----------------------------
(***************************************************************************)
(* The limits on real browsers (common/services/captcha/concurrency.py):   *)
(* at most MaxSlots at a time (BrowserSlotManager), and one per account,   *)
(* because a Chrome profile has one owner (AccountBrowserLockManager).     *)
(*                                                                         *)
(* A job is one thread that opens a browser: a slider verification or a    *)
(* cookie renewal ("page"), a password login in the thread pool ("login"), *)
(* or one in a thread of its own, started by the login page ("api").  The  *)
(* pool only delays the start of a job and is left out.  A step is the     *)
(* code between two operations on the slots or on the account locks.       *)
(***************************************************************************)
EXTENDS Integers, FiniteSets

CONSTANTS
  Jobs,
  Accounts,
  Account,      \* the account of each job
  Kind,         \* "page", "login" or "api"
  MaxSlots,     \* max_captcha_concurrent
  Nil           \* nobody

ASSUME SlotAssumption ==
  /\ IsFiniteSet(Jobs) /\ MaxSlots \in Nat \ {0} /\ Nil \notin Jobs
  /\ Account \in [Jobs -> Accounts] /\ Kind \in [Jobs -> {"page", "login", "api"}]

VARIABLES
  stage,    \* where a job stands
  active,   \* _active_count
  flag,     \* _slot_acquired of the job's browser object
  holder,   \* who holds the lock of an account
  owning,   \* history: the jobs that took a slot and have not given it back
  astray    \* history: a job went a way that gives a slot back too often

slotVars == <<active, owning>>
jobVars == <<stage, active, flag, holder, owning, astray>>

Stages == {"idle", "slot", "lock", "browser", "face", "shut", "unlocked", "closed",
           "giveback", "failed"}

At(j, from, to) == stage[j] = from /\ stage' = [stage EXCEPT ![j] = to]

SlotInit ==
  /\ stage = [j \in Jobs |-> "idle"] /\ flag = [j \in Jobs |-> FALSE]
  /\ active = 0 /\ holder = [a \in Accounts |-> Nil]
  /\ owning = {} /\ astray = FALSE

-----------------------------------------------------------------------------
(* The slots *)

(* acquire waits while this holds. (Mutant: one slot too many.)             *)
FullLate == active > MaxSlots
Full == active >= MaxSlots

(* release does not ask who calls: it takes one off unless there is none.   *)
(* (Mutant: it takes one off in any case.)                                  *)
OneLessAlways == active - 1
OneLess == IF active > 0 THEN active - 1 ELSE 0
Release(j) == active' = OneLess /\ owning' = owning \ {j}

-----------------------------------------------------------------------------
(* The constructor: a slot, then the lock of the account, each with a time  *)
(* limit.                                                                   *)

Start(j) == At(j, "idle", "slot") /\ UNCHANGED <<slotVars, flag, holder, astray>>

TakeSlot(j) ==
  /\ ~Full /\ At(j, "slot", "lock")
  /\ active' = active + 1 /\ owning' = owning \cup {j}
  /\ flag' = [flag EXCEPT ![j] = TRUE]
  /\ UNCHANGED <<holder, astray>>

SlotTimeout(j) ==
  /\ Full /\ At(j, "slot", "failed")
  /\ UNCHANGED <<slotVars, flag, holder, astray>>

TakeLock(j) ==
  /\ holder[Account[j]] = Nil /\ At(j, "lock", "browser")
  /\ holder' = [holder EXCEPT ![Account[j]] = j]
  /\ UNCHANGED <<slotVars, flag, astray>>

(* (Mutant: the browser is opened although the lock was not obtained.)      *)
OnWithoutLock == "browser"
NoLock == "giveback"
LockTimeout(j) ==
  /\ holder[Account[j]] # Nil /\ At(j, "lock", NoLock)
  /\ UNCHANGED <<slotVars, flag, holder, astray>>

(* The constructor gives the slot back before it raises. (Mutant: it does   *)
(* not.)                                                                    *)
Kept(j) == UNCHANGED slotVars
Returned(j) == Release(j)
GiveBack(j) ==
  /\ At(j, "giveback", "failed") /\ Returned(j)
  /\ flag' = [flag EXCEPT ![j] = FALSE]
  /\ UNCHANGED <<holder, astray>>

(* The constructor has raised.  Then the thread of the login page has no    *)
(* object to close and releases a slot for the account all the same.        *)
Failed(j) ==
  /\ At(j, "failed", "idle")
  /\ IF Kind[j] = "api" THEN Release(j) /\ astray' = TRUE
     ELSE UNCHANGED <<slotVars, astray>>
  /\ UNCHANGED <<flag, holder>>

-----------------------------------------------------------------------------
(* With the browser open *)

(* _wait_for_face_verification gives the slot away for up to 300 seconds    *)
(* and leaves _slot_acquired set; register_instance, which is to take it    *)
(* again, does nothing.                                                     *)
FaceWait(j) ==
  /\ Kind[j] # "page" /\ At(j, "browser", "face")
  /\ Release(j) /\ astray' = TRUE
  /\ UNCHANGED <<flag, holder>>

(* close: the browser, then the lock of the account, then the slot.         *)
Shut(j) ==
  /\ At(j, "browser", "shut") \/ At(j, "face", "shut")
  /\ UNCHANGED <<slotVars, flag, holder, astray>>

(* (Mutant: as it was, the login page's thread gave only the slot back.)    *)
UnlockedUnlessApi(j) ==
  IF Kind[j] = "api" THEN holder ELSE [holder EXCEPT ![Account[j]] = Nil]
Unlocked(j) == [holder EXCEPT ![Account[j]] = Nil]
Unlock(j) ==
  /\ At(j, "shut", "unlocked") /\ holder' = Unlocked(j)
  /\ UNCHANGED <<slotVars, flag, astray>>

(* (Mutant: the flag is left set.)                                          *)
StillSet(j) == flag
Cleared(j) == [flag EXCEPT ![j] = FALSE]
CloseSlot(j) ==
  /\ IF flag[j] THEN Release(j) ELSE UNCHANGED slotVars
  /\ flag' = Cleared(j)
  /\ UNCHANGED <<holder, astray>>

Close(j) == At(j, "unlocked", "closed") /\ CloseSlot(j)

(* run and login_with_password_playwright close at their end, and so does   *)
(* their caller.                                                            *)
CloseAgain(j) == At(j, "closed", "idle") /\ CloseSlot(j)

Step(j) ==
  \/ TakeSlot(j) \/ SlotTimeout(j) \/ TakeLock(j) \/ LockTimeout(j) \/ GiveBack(j) \/ Failed(j)
  \/ Shut(j) \/ Unlock(j) \/ Close(j) \/ CloseAgain(j)

SlotNext == \E j \in Jobs : Start(j) \/ FaceWait(j) \/ Step(j)

SlotSpec == SlotInit /\ [][SlotNext]_jobVars

(* Every wait has a time limit and every browser a watchdog; nobody has to  *)
(* start a job.                                                             *)
SlotFairSpec == SlotSpec /\ \A j \in Jobs : WF_jobVars(Step(j))

-----------------------------------------------------------------------------
SlotTypes ==
  /\ stage \in [Jobs -> Stages] /\ flag \in [Jobs -> BOOLEAN]
  /\ active \in 0..MaxSlots
  /\ holder \in [Accounts -> Jobs \cup {Nil}]
  /\ owning \subseteq Jobs /\ astray \in BOOLEAN

(* A slot that is counted belongs to a job: none is ever lost, whatever     *)
(* fails in between.  With the default of one slot, a lost one would turn   *)
(* away every browser until the next restart.                               *)
NoSlotLeak == active <= Cardinality(owning)

(* As long as no login has waited for a face verification and no login page *)
(* has failed to get its browser, the count is exact ...                    *)
SlotsExact == ~astray => active = Cardinality(owning)

(* ... and there are at most MaxSlots browsers.                             *)
Open == {j \in Jobs : stage[j] \in {"browser", "face"}}
BrowserLimit == ~astray => Cardinality(Open) <= MaxSlots

(* Two browsers never have the profile of one account open.                 *)
OneBrowserPerAccount == \A i, j \in Open : Account[i] = Account[j] => i = j

(* The lock of an account comes free again, however the job ended.          *)
LockReturned == \A a \in Accounts : holder[a] # Nil ~> holder[a] = Nil
=============================================================================
