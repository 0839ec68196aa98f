----------------------------- MODULE SlotProofs -----------------------------
(***************************************************************************)
(* Theorems about BrowserSlots, for any number of jobs, accounts and slots.*)
(***************************************************************************)
EXTENDS BrowserSlots, FiniteSetTheorems, TLAPS

(* Only a job between taking a slot and closing has one, and its flag says so. *)
Owners ==
  \A j \in owning :
    stage[j] \in {"lock", "giveback", "browser", "shut", "unlocked"} /\ flag[j]

(* Without the two ways that give a slot back too often, each job's own     *)
(* flag tells who has a slot.                                               *)
Flags ==
  ~astray =>
    \A j \in Jobs :
      /\ stage[j] # "face" /\ (flag[j] <=> j \in owning)
      /\ stage[j] \in {"lock", "giveback", "browser"} => j \in owning

(* The lock of an account is held from before its browser opens until after *)
(* it is closed.                                                            *)
Locked == \A j \in Jobs : stage[j] \in {"browser", "face", "shut"} => holder[Account[j]] = j

SlotInv == SlotTypes /\ Owners /\ Flags /\ Locked /\ NoSlotLeak /\ SlotsExact

-----------------------------------------------------------------------------
LEMMA OwningFinite ==
  ASSUME SlotTypes
  PROVE  IsFiniteSet(owning) /\ Cardinality(owning) \in Nat
  BY SlotAssumption, FS_Subset, FS_CardinalityType DEF SlotTypes

(* Counting a release and a slot that is taken. *)
LEMMA Released ==
  ASSUME SlotInv, NEW j \in Jobs, Release(j)
  PROVE  /\ active' \in 0..MaxSlots /\ owning' \subseteq Jobs /\ NoSlotLeak'
         /\ j \in owning => (active = Cardinality(owning) => active' = Cardinality(owning'))
  <1>1. IsFiniteSet(owning) /\ Cardinality(owning) \in Nat
    BY OwningFinite DEF SlotInv
  <1>2. active \in 0..MaxSlots /\ MaxSlots \in Nat /\ active <= Cardinality(owning)
    BY SlotAssumption DEF SlotInv, SlotTypes, NoSlotLeak
  <1>3. active' = IF active > 0 THEN active - 1 ELSE 0
    BY DEF Release, OneLess
  <1>4. owning' = owning \ {j} /\ owning' \subseteq Jobs
    BY DEF Release, SlotInv, SlotTypes
  <1>5. CASE j \in owning
    <2>1. Cardinality(owning') = Cardinality(owning) - 1
      BY <1>1, <1>4, <1>5, FS_RemoveElement
    <2>2. IsFiniteSet(owning') /\ Cardinality(owning') \in Nat
      BY <1>1, <1>4, FS_Subset, FS_CardinalityType
    <2> QED BY <1>1, <1>2, <1>3, <1>4, <2>1, <2>2 DEF NoSlotLeak
  <1>6. CASE j \notin owning
    <2>1. owning' = owning
      BY <1>4, <1>6
    <2>2. Cardinality(owning') = Cardinality(owning)
      BY <2>1
    <2>3. active' \in 0..MaxSlots /\ active' <= Cardinality(owning')
      BY <1>1, <1>2, <1>3, <2>2
    <2> QED BY <1>4, <1>6, <2>3 DEF NoSlotLeak
  <1> QED BY <1>5, <1>6

LEMMA TakeSlotStep ==
  ASSUME SlotInv, NEW j \in Jobs, TakeSlot(j)
  PROVE  SlotInv'
  <1>1. stage[j] = "slot" /\ j \notin owning /\ active < MaxSlots
    BY SlotAssumption DEF TakeSlot, At, Full, SlotInv, Owners, SlotTypes
  <1>2. active' = active + 1 /\ owning' = owning \cup {j}
    BY DEF TakeSlot
  <1>3. Cardinality(owning') = Cardinality(owning) + 1 /\ Cardinality(owning) \in Nat
    BY <1>1, <1>2, OwningFinite, FS_AddElement DEF SlotInv
  <1>4. SlotTypes'
    BY <1>1, <1>2, SlotAssumption DEF TakeSlot, At, SlotInv, SlotTypes, Stages
  <1>5. Owners' /\ Flags' /\ Locked'
    BY <1>1, <1>2 DEF TakeSlot, At, SlotInv, SlotTypes, Owners, Flags, Locked
  <1>6. NoSlotLeak' /\ SlotsExact'
    BY <1>1, <1>2, <1>3 DEF TakeSlot, SlotInv, SlotTypes, NoSlotLeak, SlotsExact
  <1> QED BY <1>4, <1>5, <1>6 DEF SlotInv

(* Steps that leave the slots alone. *)
LEMMA CountKept ==
  ASSUME SlotInv, UNCHANGED <<slotVars, astray>>
  PROVE  NoSlotLeak' /\ SlotsExact'
  BY DEF slotVars, SlotInv, NoSlotLeak, SlotsExact

LEMMA WaitStep ==
  ASSUME SlotInv, NEW j \in Jobs,
         Start(j) \/ SlotTimeout(j) \/ LockTimeout(j) \/ Shut(j)
  PROVE  SlotInv'
  <1>1. UNCHANGED <<slotVars, flag, holder, astray>>
    BY DEF Start, SlotTimeout, LockTimeout, Shut
  <1>2. SlotTypes' /\ Owners' /\ Flags' /\ Locked'
    <2>1. CASE Start(j)
      BY <1>1, <2>1 DEF Start, At, slotVars, SlotInv, SlotTypes, Stages, Owners, Flags, Locked
    <2>2. CASE SlotTimeout(j)
      BY <1>1, <2>2
         DEF SlotTimeout, At, slotVars, SlotInv, SlotTypes, Stages, Owners, Flags, Locked
    <2>3. CASE LockTimeout(j)
      BY <1>1, <2>3
         DEF LockTimeout, NoLock, At, slotVars, SlotInv, SlotTypes, Stages, Owners, Flags, Locked
    <2>4. CASE Shut(j)
      BY <1>1, <2>4 DEF Shut, At, slotVars, SlotInv, SlotTypes, Stages, Owners, Flags, Locked
    <2> QED BY <2>1, <2>2, <2>3, <2>4
  <1> QED BY <1>1, <1>2, CountKept DEF SlotInv

LEMMA TakeLockStep ==
  ASSUME SlotInv, NEW j \in Jobs, TakeLock(j)
  PROVE  SlotInv'
  <1>1. SlotTypes'
    BY SlotAssumption DEF TakeLock, At, slotVars, SlotInv, SlotTypes, Stages
  <1>2. Owners' /\ Flags'
    BY DEF TakeLock, At, slotVars, SlotInv, SlotTypes, Owners, Flags
  <1>3. ASSUME NEW k \in Jobs, stage'[k] \in {"browser", "face", "shut"}
        PROVE  holder'[Account[k]] = k
    <2>1. CASE k = j
      BY <2>1, SlotAssumption DEF TakeLock, SlotInv, SlotTypes
    <2>2. CASE k # j
      <3>1. holder[Account[k]] = k
        BY <1>3, <2>2 DEF TakeLock, At, SlotInv, SlotTypes, Locked
      <3>2. Account[k] # Account[j]
        BY <3>1, SlotAssumption DEF TakeLock
      <3> QED BY <3>1, <3>2, SlotAssumption DEF TakeLock, SlotInv, SlotTypes
    <2> QED BY <2>1, <2>2
  <1> QED BY <1>1, <1>2, <1>3, CountKept DEF TakeLock, SlotInv, Locked

LEMMA UnlockStep ==
  ASSUME SlotInv, NEW j \in Jobs, Unlock(j)
  PROVE  SlotInv'
  <1>1. SlotTypes'
    BY SlotAssumption DEF Unlock, Unlocked, At, slotVars, SlotInv, SlotTypes, Stages
  <1>2. Owners' /\ Flags'
    BY DEF Unlock, At, slotVars, SlotInv, SlotTypes, Owners, Flags
  <1>3. ASSUME NEW k \in Jobs, stage'[k] \in {"browser", "face", "shut"}
        PROVE  holder'[Account[k]] = k
    <2>1. k # j /\ holder[Account[k]] = k /\ holder[Account[j]] = j
      BY <1>3 DEF Unlock, At, SlotInv, SlotTypes, Locked
    <2> QED BY <2>1, SlotAssumption DEF Unlock, Unlocked, SlotInv, SlotTypes
  <1> QED BY <1>1, <1>2, <1>3, CountKept DEF Unlock, SlotInv, Locked

LEMMA GiveBackStep ==
  ASSUME SlotInv, NEW j \in Jobs, GiveBack(j)
  PROVE  SlotInv'
  <1>1. Release(j) /\ stage[j] = "giveback" /\ stage' = [stage EXCEPT ![j] = "failed"]
    BY DEF GiveBack, Returned, At
  <1>2. SlotTypes' /\ NoSlotLeak'
    BY <1>1, Released DEF GiveBack, SlotInv, SlotTypes, Stages
  <1>3. SlotsExact'
    BY <1>1, Released DEF GiveBack, SlotInv, SlotsExact, Flags
  <1>4. Owners' /\ Flags' /\ Locked'
    BY <1>1 DEF GiveBack, Release, SlotInv, SlotTypes, Owners, Flags, Locked
  <1> QED BY <1>2, <1>3, <1>4 DEF SlotInv

(* A slot given back too often: nothing is claimed of the exact count.      *)
LEMMA StrayStep ==
  ASSUME SlotInv, NEW j \in Jobs, FaceWait(j) \/ Failed(j)
  PROVE  SlotInv'
  <1>1. CASE FaceWait(j)
    <2>1. SlotTypes' /\ NoSlotLeak'
      BY <1>1, Released DEF FaceWait, At, SlotInv, SlotTypes, Stages
    <2>2. Owners' /\ Flags' /\ Locked' /\ SlotsExact'
      BY <1>1 DEF FaceWait, At, Release, SlotInv, SlotTypes, Owners, Flags, Locked, SlotsExact
    <2> QED BY <2>1, <2>2 DEF SlotInv
  <1>2. CASE Failed(j) /\ Kind[j] = "api"
    <2>1. SlotTypes' /\ NoSlotLeak'
      BY <1>2, Released DEF Failed, At, SlotInv, SlotTypes, Stages
    <2>2. Owners' /\ Flags' /\ Locked' /\ SlotsExact'
      BY <1>2 DEF Failed, At, Release, SlotInv, SlotTypes, Owners, Flags, Locked, SlotsExact
    <2> QED BY <2>1, <2>2 DEF SlotInv
  <1>3. CASE Failed(j) /\ Kind[j] # "api"
    <2>1. UNCHANGED <<slotVars, flag, holder, astray>>
      BY <1>3 DEF Failed
    <2>2. SlotTypes' /\ Owners' /\ Flags' /\ Locked'
      BY <1>3, <2>1 DEF Failed, At, slotVars, SlotInv, SlotTypes, Stages, Owners, Flags, Locked
    <2> QED BY <2>1, <2>2, CountKept DEF SlotInv
  <1> QED BY <1>1, <1>2, <1>3

LEMMA CloseStep ==
  ASSUME SlotInv, NEW j \in Jobs, Close(j) \/ CloseAgain(j)
  PROVE  SlotInv'
  <1>1. PICK s \in {"closed", "idle"} : stage' = [stage EXCEPT ![j] = s]
    BY DEF Close, CloseAgain, At
  <1>2. stage[j] \in {"unlocked", "closed"} /\ CloseSlot(j)
    BY DEF Close, CloseAgain, At
  <1>3. UNCHANGED <<holder, astray>> /\ flag' = [flag EXCEPT ![j] = FALSE]
    BY <1>2 DEF CloseSlot, Cleared
  <1>4. CASE flag[j]
    <2>1. Release(j)
      BY <1>2, <1>4 DEF CloseSlot
    <2>2. SlotTypes' /\ NoSlotLeak'
      BY <1>1, <1>3, <2>1, Released DEF SlotInv, SlotTypes, Stages
    <2>3. SlotsExact'
      BY <1>3, <1>4, <2>1, Released DEF SlotInv, SlotsExact, Flags
    <2>4. owning' = owning \ {j} /\ \A k \in Jobs \ {j} : stage'[k] = stage[k] /\ flag'[k] = flag[k]
      BY <1>1, <1>3, <2>1 DEF Release, SlotInv, SlotTypes
    <2>5. stage'[j] = s /\ ~flag'[j]
      BY <1>1, <1>3 DEF SlotInv, SlotTypes
    <2>6. Owners'
      BY <2>4 DEF SlotInv, SlotTypes, Owners
    <2>7. Flags'
      BY <1>3, <2>4, <2>5 DEF SlotInv, Flags
    <2>8. Locked'
      BY <1>3, <2>4, <2>5 DEF SlotInv, Locked
    <2> QED BY <2>2, <2>3, <2>6, <2>7, <2>8 DEF SlotInv
  <1>5. CASE ~flag[j]
    <2>1. UNCHANGED slotVars
      BY <1>2, <1>5 DEF CloseSlot
    <2>2. SlotTypes'
      BY <1>1, <1>3, <2>1 DEF slotVars, SlotInv, SlotTypes, Stages
    <2>3. owning' = owning /\ \A k \in Jobs \ {j} : stage'[k] = stage[k] /\ flag'[k] = flag[k]
      BY <1>1, <1>3, <2>1 DEF slotVars, SlotInv, SlotTypes
    <2>4. stage'[j] = s /\ ~flag'[j]
      BY <1>1, <1>3 DEF SlotInv, SlotTypes
    <2>5. Flags'
      BY <1>3, <1>5, <2>3, <2>4 DEF SlotInv, Flags
    <2>6. Locked'
      BY <1>3, <2>3, <2>4 DEF SlotInv, Locked
    <2>7. Owners'
      BY <1>5, <2>3 DEF SlotInv, SlotTypes, Owners
    <2> QED BY <1>3, <2>1, <2>2, <2>5, <2>6, <2>7, CountKept DEF SlotInv
  <1> QED BY <1>4, <1>5

LEMMA SlotStart == SlotInit => SlotInv
  <1> SUFFICES ASSUME SlotInit PROVE SlotInv
    OBVIOUS
  <1>1. Cardinality(owning) = 0
    BY FS_EmptySet DEF SlotInit
  <1>2. SlotTypes
    <2>1. 0 \in 0..MaxSlots
      BY SlotAssumption
    <2>2. stage \in [Jobs -> Stages] /\ flag \in [Jobs -> BOOLEAN]
      BY DEF SlotInit, Stages
    <2>3. holder \in [Accounts -> Jobs \cup {Nil}]
      BY DEF SlotInit
    <2> QED BY <2>1, <2>2, <2>3 DEF SlotInit, SlotTypes
  <1>3. Owners /\ Flags /\ Locked
    BY DEF SlotInit, Owners, Flags, Locked
  <1>4. NoSlotLeak /\ SlotsExact
    BY <1>1 DEF SlotInit, NoSlotLeak, SlotsExact
  <1> QED BY <1>2, <1>3, <1>4 DEF SlotInv

LEMMA SlotStep == SlotInv /\ [SlotNext]_jobVars => SlotInv'
  <1> SUFFICES ASSUME SlotInv, [SlotNext]_jobVars PROVE SlotInv'
    OBVIOUS
  <1>1. CASE UNCHANGED jobVars
    BY <1>1 DEF jobVars, SlotInv, SlotTypes, Owners, Flags, Locked, NoSlotLeak, SlotsExact
  <1>2. ASSUME NEW j \in Jobs, Start(j) \/ FaceWait(j) \/ Step(j) PROVE SlotInv'
    BY <1>2, TakeSlotStep, WaitStep, TakeLockStep, UnlockStep, GiveBackStep, StrayStep, CloseStep
       DEF Step
  <1> QED BY <1>1, <1>2 DEF SlotNext

LEMMA SlotInvariant == SlotSpec => []SlotInv
  BY SlotStart, SlotStep, PTL DEF SlotSpec

(* BrowserSlotManager and the browser objects keep their types, above all:  *)
(* the count of slots stays between 0 and the limit although releases are   *)
(* not checked.                                                             *)
THEOREM SlotTypesHold == SlotSpec => []SlotTypes
  <1>1. SlotInv => SlotTypes
    BY DEF SlotInv
  <1> QED BY <1>1, SlotInvariant, PTL

(* No way through the constructor, the login and close loses a slot.        *)
THEOREM SlotsNeverLeak == SlotSpec => []NoSlotLeak
  <1>1. SlotInv => NoSlotLeak
    BY DEF SlotInv
  <1> QED BY <1>1, SlotInvariant, PTL

(* As long as neither a face verification nor a failed api login has given  *)
(* a slot back too often, the count is exact and bounds the browsers.       *)
THEOREM LimitIsKept == SlotSpec => [](SlotsExact /\ BrowserLimit)
  <1>1. SlotInv => SlotsExact /\ BrowserLimit
    <2> SUFFICES ASSUME SlotInv, ~astray PROVE Cardinality(Open) <= MaxSlots
      BY DEF SlotInv, BrowserLimit
    <2>1. Open \subseteq owning
      BY DEF SlotInv, Flags, Open
    <2>2. Cardinality(Open) <= Cardinality(owning) /\ Cardinality(Open) \in Nat
      BY <2>1, OwningFinite, FS_Subset, FS_CardinalityType DEF SlotInv
    <2> QED BY <2>2, SlotAssumption DEF SlotInv, SlotTypes, SlotsExact
  <1> QED BY <1>1, SlotInvariant, PTL

(* No two browsers open the profile of one account: the lock is taken       *)
(* before the browser and released after it, on every path.                 *)
THEOREM ProfileIsExclusive == SlotSpec => []OneBrowserPerAccount
  <1>1. SlotInv => OneBrowserPerAccount
    BY DEF SlotInv, Locked, OneBrowserPerAccount, Open
  <1> QED BY <1>1, SlotInvariant, PTL
=============================================================================
