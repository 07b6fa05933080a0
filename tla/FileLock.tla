------------------------------- MODULE FileLock -------------------------------
(***************************************************************************)
(* Flat locks of files, users and quotas (FileLockService): one Redis key  *)
(* per lock, set with SET NX EX and deleted or refreshed only by whoever   *)
(* still finds its own value in it.  withFileLock, withUserLock and        *)
(* withQuotaLock lock one key, withMultipleFileLocks an ordered set of     *)
(* keys; they differ in nothing else but the prefix of the key.            *)
(*                                                                         *)
(* ConcurrencyService answers false when Redis fails, so a lock may have   *)
(* been set although the caller was told it was not.  A session stands for *)
(* the random value of its current call.                                   *)
(***************************************************************************)
EXTENDS Integers, FiniteSets

CONSTANTS
  Session,   \* callers
  None,      \* "no value": the key does not exist
  Key,       \* lock keys
  Order,     \* Order[k]: position of k among the sorted keys
  LockTtl    \* ticks a key lives without a refresh

ASSUME FileLockAssumption ==
  /\ None \notin Session
  /\ Order \in [Key -> Nat]
  /\ LockTtl \in Nat \ {0}

VARIABLES
  slot,      \* the session whose value a key holds, or None
  slotTtl,   \* ticks left of the key
  phase,     \* where a session is in its call
  wanted,    \* keys it has still to lock
  taken      \* keys it was told it got and has not released

slots == <<slot, slotTtl>>
calls == <<phase, wanted, taken>>
lockVars == <<slot, slotTtl, phase, wanted, taken>>

Phase == {"free", "acquiring", "locked", "releasing", "dead"}

LockTypeOK ==
  /\ slot \in [Key -> Session \cup {None}]
  /\ slotTtl \in [Key -> Nat]
  /\ phase \in [Session -> Phase]
  /\ wanted \in [Session -> SUBSET Key]
  /\ taken \in [Session -> SUBSET Key]

LockInit ==
  /\ slot = [k \in Key |-> None]
  /\ slotTtl = [k \in Key |-> 0]
  /\ phase = [s \in Session |-> "free"]
  /\ wanted = [s \in Session |-> {}]
  /\ taken = [s \in Session |-> {}]

-----------------------------------------------------------------------------
(* ConcurrencyService: the three commands. *)

\* Faulty: SET EX without NX.
SetSlotAnyway(s, k) ==
  /\ slot' = [slot EXCEPT ![k] = s]
  /\ slotTtl' = [slotTtl EXCEPT ![k] = LockTtl]

\* setSlot: SET key value EX ttl NX.
SetSlot(s, k) ==
  /\ slot[k] = None
  /\ slot' = [slot EXCEPT ![k] = s]
  /\ slotTtl' = [slotTtl EXCEPT ![k] = LockTtl]

\* Faulty: DEL without comparing the value.
DeleteSlot(s, k) ==
  /\ slot' = [slot EXCEPT ![k] = None]
  /\ slotTtl' = [slotTtl EXCEPT ![k] = 0]

\* releaseSlotWithValue: compare the value, then DEL.
ReleaseSlotWithValue(s, k) ==
  IF slot[k] # s
  THEN UNCHANGED slots
  ELSE /\ slot' = [slot EXCEPT ![k] = None]
       /\ slotTtl' = [slotTtl EXCEPT ![k] = 0]

\* refreshSlotIfValue: compare the value, then EXPIRE.
RefreshSlotIfValue(s, k) ==
  /\ slotTtl' = IF slot[k] = s THEN [slotTtl EXCEPT ![k] = LockTtl] ELSE slotTtl
  /\ UNCHANGED slot

-----------------------------------------------------------------------------
(* FileLockService. *)

\* A call for the keys K: duplicates are dropped and the rest is sorted.
BeginLock(s, K) ==
  /\ phase[s] = "free"
  /\ phase' = [phase EXCEPT ![s] = "acquiring"]
  /\ wanted' = [wanted EXCEPT ![s] = K]
  /\ UNCHANGED <<slots, taken>>

FirstWanted(s, k) == k \in wanted[s] /\ \A l \in wanted[s] : Order[k] <= Order[l]

\* tryAcquireWithBackoff: an attempt that is told it got the key.  Attempts
\* that fail and are repeated before the deadline change nothing.
GetLock(s, k) ==
  /\ phase[s] = "acquiring"
  /\ FirstWanted(s, k)
  /\ SetSlot(s, k)
  /\ wanted' = [wanted EXCEPT ![s] = @ \ {k}]
  /\ taken' = [taken EXCEPT ![s] = @ \cup {k}]
  /\ UNCHANGED phase

\* The last attempt is told it did not get the key: it is taken, or Redis
\* failed, in which case the key may be set all the same.  The call throws after
\* it has released the keys it knows of.
MissLock(s, k) ==
  /\ phase[s] = "acquiring"
  /\ FirstWanted(s, k)
  /\ SetSlot(s, k) \/ UNCHANGED slots
  /\ phase' = [phase EXCEPT ![s] = "releasing"]
  /\ wanted' = [wanted EXCEPT ![s] = {}]
  /\ UNCHANGED taken

\* All keys are set: the timer of the heartbeat and the operation start.
EnterLocked(s) ==
  /\ phase[s] = "acquiring"
  /\ wanted[s] = {}
  /\ phase' = [phase EXCEPT ![s] = "locked"]
  /\ UNCHANGED <<slots, wanted, taken>>

\* startHeartbeat: one refresh; what it answers is ignored.
Heartbeat(s, k) ==
  /\ phase[s] = "locked"
  /\ k \in taken[s]
  /\ RefreshSlotIfValue(s, k)
  /\ UNCHANGED calls

\* The operation returned or threw: finally.
LeaveLocked(s) ==
  /\ phase[s] = "locked"
  /\ phase' = [phase EXCEPT ![s] = "releasing"]
  /\ UNCHANGED <<slots, wanted, taken>>

\* One release; when it fails it is logged and not repeated.
DropLock(s, k) ==
  /\ phase[s] = "releasing"
  /\ k \in taken[s]
  /\ ReleaseSlotWithValue(s, k) \/ UNCHANGED slots
  /\ taken' = [taken EXCEPT ![s] = @ \ {k}]
  /\ UNCHANGED <<phase, wanted>>

EndCall(s) ==
  /\ phase[s] = "releasing"
  /\ taken[s] = {}
  /\ phase' = [phase EXCEPT ![s] = "free"]
  /\ UNCHANGED <<slots, wanted, taken>>

\* The process dies in the middle of the call; nobody refreshes its keys.
LockerDies(s) ==
  /\ phase[s] \in {"acquiring", "locked", "releasing"}
  /\ phase' = [phase EXCEPT ![s] = "dead"]
  /\ wanted' = [wanted EXCEPT ![s] = {}]
  /\ taken' = [taken EXCEPT ![s] = {}]
  /\ UNCHANGED slots

\* Another process takes its place.
LockerRestarts(s) ==
  /\ phase[s] = "dead"
  /\ phase' = [phase EXCEPT ![s] = "free"]
  /\ UNCHANGED <<slots, wanted, taken>>

\* Time passes for Redis.
SlotTick ==
  /\ \E k \in Key : slotTtl[k] > 0
  /\ slotTtl' = [k \in Key |-> IF slotTtl[k] > 0 THEN slotTtl[k] - 1 ELSE 0]
  /\ slot' = [k \in Key |-> IF slotTtl[k] = 1 THEN None ELSE slot[k]]
  /\ UNCHANGED calls

LockNext ==
  \/ SlotTick
  \/ \E s \in Session :
       \/ \E K \in (SUBSET Key) \ {{}} : BeginLock(s, K)
       \/ \E k \in Key : \/ GetLock(s, k) \/ MissLock(s, k)
                         \/ Heartbeat(s, k) \/ DropLock(s, k)
       \/ EnterLocked(s) \/ LeaveLocked(s) \/ EndCall(s)
       \/ LockerDies(s) \/ LockerRestarts(s)

LockSpec == LockInit /\ [][LockNext]_lockVars

-----------------------------------------------------------------------------
(* Properties. *)

\* The keys alone implement a mutual exclusion: a key is set only while it does
\* not exist and its value never changes from one session to another without
\* being free in between (setSlot, releaseSlotWithValue, the heartbeat).
FileMutex == INSTANCE FolderMutex
               WITH Path <- Key, Anc <- [k \in Key |-> {}], owner <- slot

ImplementsFileMutex == FileMutex!Spec

\* A key that a session set is deleted by its own release or by time, never by
\* the late release of a call that lost the key (releaseSlotWithValue).
OnlyOwnerUnlocks ==
  [][\A s \in Session, k \in Key :
       slot[k] = s /\ slot'[k] # s =>
         \/ slotTtl[k] = 1 /\ slot'[k] = None /\ UNCHANGED taken
         \/ k \in taken[s] /\ k \notin taken'[s]]_lockVars
=============================================================================
