------------------------------- MODULE PathLock -------------------------------
(***************************************************************************)
(* Hierarchical path locks kept in Redis: PathConcurrencyService (three    *)
(* atomic Lua scripts) and its client FolderLockService, which locks one   *)
(* folder or a collapsed, ordered set of folders and refreshes the locks   *)
(* from a timer while the operation runs.                                  *)
(*                                                                         *)
(* A key is a value and the ticks it has left, 0 for a key without a TTL   *)
(* and for a key that is absent.  A token identifies one run of            *)
(* withFolderLock; a session is busy with one run at a time and drops its  *)
(* token when it ends, so the session stands for the token of its current  *)
(* run.  A lock that an earlier run left behind is not in "held".          *)
(***************************************************************************)
EXTENDS Naturals, FiniteSets

CONSTANTS
  Session,     \* callers of withFolderLock / withMultipleFolderLocks
  None,        \* "no token": the lock key does not exist
  Path,        \* the normalised paths of one namespace
  Anc,         \* Anc[p]: what ancestorsOf(p) returns, as a set
  Rank,        \* Rank[p]: position of p in the order of normalizeAndCollapse
  Request,     \* the sets of folders callers ask for
  Ttl,         \* the lock TTLs (in ticks) callers pass
  Strict,      \* values callers pass for strictSiblings
  MaxDesc      \* bound of the model: no counter grows beyond it

ASSUME SessionAssumption == None \notin Session
ASSUME PathAssumption ==
  /\ IsFiniteSet(Path)
  /\ Anc \in [Path -> SUBSET Path]
  /\ \A p \in Path : p \notin Anc[p]
  /\ \A p, q, r \in Path : p \in Anc[q] /\ q \in Anc[r] => p \in Anc[r]
  /\ Rank \in [Path -> Nat]
ASSUME CallerAssumption ==
  /\ Request \subseteq (SUBSET Path) \ {{}}
  /\ Ttl \subseteq Nat \ {0} /\ Ttl # {}
  /\ Strict \subseteq BOOLEAN /\ Strict # {}
  /\ MaxDesc \in Nat

VARIABLES
  lock,        \* lock key of a path: the token that owns it, or None
  lockTtl,     \* ticks left of the lock key
  desc,        \* descendant counter of a path, 0 when the key is absent
  descTtl,     \* ticks left of the counter
  pc,          \* "idle", "acquiring", "working", "releasing" or "dead"
  todo,        \* paths the session still has to lock
  held,        \* paths for which the session was told "ok" and not released yet
  opts,        \* the options of the session's run
  expired      \* history: some lock key has run out

redis == <<lock, lockTtl, desc, descTtl>>
sessions == <<pc, todo, held, opts>>
vars == <<redis, sessions, expired>>

Location == {"idle", "acquiring", "working", "releasing", "dead"}
Option == [ttl : Ttl, strict : Strict]

\* The options of a session that is not in a run: any fixed value will do.
NoRun == CHOOSE o \in Option : TRUE

TypeOK ==
  /\ lock \in [Path -> Session \cup {None}]
  /\ lockTtl \in [Path -> Nat]
  /\ desc \in [Path -> Nat]
  /\ descTtl \in [Path -> Nat]
  /\ pc \in [Session -> Location]
  /\ todo \in [Session -> SUBSET Path]
  /\ held \in [Session -> SUBSET Path]
  /\ opts \in [Session -> Option]
  /\ expired \in BOOLEAN

-----------------------------------------------------------------------------
(* The Lua scripts. *)

\* Faulty: the locks of the ancestors are not looked at.
GrantsUnderLockedAncestor(p, strict) ==
  /\ desc[p] = 0
  /\ strict => \A a \in Anc[p] : desc[a] = 0
  /\ lock[p] = None
  /\ \A a \in Anc[p] : desc[a] < MaxDesc

\* Faulty: the strict flag is not looked at.
GrantsIgnoringStrict(p, strict) ==
  /\ desc[p] = 0
  /\ \A a \in Anc[p] : lock[a] = None
  /\ lock[p] = None
  /\ \A a \in Anc[p] : desc[a] < MaxDesc

\* ACQUIRE_LUA answers {1,0}: no locked descendant, no locked ancestor, in
\* strict mode no ancestor with a locked descendant, and the path is free.
Grants(p, strict) ==
  /\ desc[p] = 0
  /\ \A a \in Anc[p] : lock[a] = None
  /\ strict => \A a \in Anc[p] : desc[a] = 0
  /\ lock[p] = None
  /\ \A a \in Anc[p] : desc[a] < MaxDesc

\* Faulty: SET without EX.
AcquireLuaWithoutTtl(s, p, ttl) ==
  /\ lock' = [lock EXCEPT ![p] = s]
  /\ desc' = [a \in Path |-> IF a \in Anc[p] THEN desc[a] + 1 ELSE desc[a]]
  /\ descTtl' = [a \in Path |-> IF a \in Anc[p] THEN ttl ELSE descTtl[a]]
  /\ UNCHANGED lockTtl

\* Faulty: INCR without EXPIRE.
AcquireLuaCountingForever(s, p, ttl) ==
  /\ lock' = [lock EXCEPT ![p] = s]
  /\ lockTtl' = [lockTtl EXCEPT ![p] = ttl]
  /\ desc' = [a \in Path |-> IF a \in Anc[p] THEN desc[a] + 1 ELSE desc[a]]
  /\ UNCHANGED descTtl

\* ACQUIRE_LUA, the part that writes: SET NX EX, then INCR and EXPIRE of the
\* counter of every ancestor.
AcquireLua(s, p, ttl) ==
  /\ lock' = [lock EXCEPT ![p] = s]
  /\ lockTtl' = [lockTtl EXCEPT ![p] = ttl]
  /\ desc' = [a \in Path |-> IF a \in Anc[p] THEN desc[a] + 1 ELSE desc[a]]
  /\ descTtl' = [a \in Path |-> IF a \in Anc[p] THEN ttl ELSE descTtl[a]]

\* Faulty: the token is not compared.
ReleaseLuaAnyToken(s, p) ==
  /\ lock' = [lock EXCEPT ![p] = None]
  /\ lockTtl' = [lockTtl EXCEPT ![p] = 0]
  /\ desc' = [a \in Path |-> IF a \in Anc[p] /\ desc[a] > 0 THEN desc[a] - 1 ELSE desc[a]]
  /\ descTtl' = [a \in Path |-> IF a \in Anc[p] /\ desc[a] <= 1 THEN 0 ELSE descTtl[a]]

\* Faulty: the counters are not decremented.
ReleaseLuaKeepingCounts(s, p) ==
  IF lock[p] # s
  THEN UNCHANGED redis
  ELSE /\ lock' = [lock EXCEPT ![p] = None]
       /\ lockTtl' = [lockTtl EXCEPT ![p] = 0]
       /\ UNCHANGED <<desc, descTtl>>

\* RELEASE_LUA: compare the token, delete the lock, decrement the counter of
\* every ancestor and delete the counters that reach 0.
ReleaseLua(s, p) ==
  IF lock[p] # s
  THEN UNCHANGED redis
  ELSE /\ lock' = [lock EXCEPT ![p] = None]
       /\ lockTtl' = [lockTtl EXCEPT ![p] = 0]
       /\ desc' = [a \in Path |-> IF a \in Anc[p] /\ desc[a] > 0
                                  THEN desc[a] - 1 ELSE desc[a]]
       /\ descTtl' = [a \in Path |-> IF a \in Anc[p] /\ desc[a] <= 1
                                     THEN 0 ELSE descTtl[a]]

\* Faulty: the counters of the ancestors are not refreshed.
RefreshLuaSelfOnly(s, p, ttl) ==
  /\ lockTtl' = IF lock[p] = s THEN [lockTtl EXCEPT ![p] = ttl] ELSE lockTtl
  /\ UNCHANGED <<lock, desc, descTtl>>

\* REFRESH_LUA: compare the token, then restart the TTL of the lock and of the
\* ancestors' counters that exist.
RefreshLua(s, p, ttl) ==
  IF lock[p] # s
  THEN UNCHANGED redis
  ELSE /\ lockTtl' = [lockTtl EXCEPT ![p] = ttl]
       /\ descTtl' = [a \in Path |-> IF a \in Anc[p] /\ desc[a] > 0
                                     THEN ttl ELSE descTtl[a]]
       /\ UNCHANGED <<lock, desc>>

-----------------------------------------------------------------------------
(* FolderLockService. *)

\* normalizeAndCollapse: drop a path that an ancestor of the request covers.
Collapse(S) == {p \in S : Anc[p] \cap S = {}}

Init ==
  /\ lock = [p \in Path |-> None]
  /\ lockTtl = [p \in Path |-> 0]
  /\ desc = [p \in Path |-> 0]
  /\ descTtl = [p \in Path |-> 0]
  /\ pc = [s \in Session |-> "idle"]
  /\ todo = [s \in Session |-> {}]
  /\ held = [s \in Session |-> {}]
  /\ opts = [s \in Session |-> NoRun]
  /\ expired = FALSE

\* A call of withFolderLock (a request of one path) or withMultipleFolderLocks.
Begin(s, S, o) ==
  /\ pc[s] = "idle"
  /\ pc' = [pc EXCEPT ![s] = "acquiring"]
  /\ todo' = [todo EXCEPT ![s] = Collapse(S)]
  /\ opts' = [opts EXCEPT ![s] = o]
  /\ UNCHANGED <<redis, held, expired>>

\* Faulty: in the order of the request.
IsAnyOf(s, p) == p \in todo[s]

\* Paths are locked one after the other in the order of normalizeAndCollapse.
IsNext(s, p) == p \in todo[s] /\ \A q \in todo[s] : Rank[p] <= Rank[q]

\* tryAcquire: an attempt that the script grants.
Acquire(s, p) ==
  /\ pc[s] = "acquiring"
  /\ IsNext(s, p)
  /\ Grants(p, opts[s].strict)
  /\ AcquireLua(s, p, opts[s].ttl)
  /\ held' = [held EXCEPT ![s] = @ \cup {p}]
  /\ todo' = [todo EXCEPT ![s] = @ \ {p}]
  /\ UNCHANGED <<pc, opts, expired>>

\* tryWithBackoff: attempts fail until the deadline; the call throws and the
\* finally block releases what was acquired.  A failed attempt that is retried
\* changes nothing.
GiveUp(s, p) ==
  /\ pc[s] = "acquiring"
  /\ IsNext(s, p)
  /\ ~Grants(p, opts[s].strict)
  /\ pc' = [pc EXCEPT ![s] = "releasing"]
  /\ todo' = [todo EXCEPT ![s] = {}]
  /\ UNCHANGED <<redis, held, opts, expired>>

\* The command fails or its answer does not come in time: tryAcquire throws, and
\* nobody knows the token of a lock that was granted all the same.
AcquireFails(s, p) ==
  /\ pc[s] = "acquiring"
  /\ IsNext(s, p)
  /\ \/ Grants(p, opts[s].strict) /\ AcquireLua(s, p, opts[s].ttl)
     \/ UNCHANGED redis
  /\ pc' = [pc EXCEPT ![s] = "releasing"]
  /\ todo' = [todo EXCEPT ![s] = {}]
  /\ UNCHANGED <<held, opts, expired>>

\* Every path is locked: the heartbeat timer and the operation start.
StartWork(s) ==
  /\ pc[s] = "acquiring"
  /\ todo[s] = {}
  /\ pc' = [pc EXCEPT ![s] = "working"]
  /\ UNCHANGED <<redis, todo, held, opts, expired>>

\* One refresh of the heartbeat; its result is ignored.
Refresh(s, p) ==
  /\ pc[s] = "working"
  /\ p \in held[s]
  /\ RefreshLua(s, p, opts[s].ttl)
  /\ UNCHANGED <<sessions, expired>>

\* The operation ends, normally or by throwing.
EndWork(s) ==
  /\ pc[s] = "working"
  /\ pc' = [pc EXCEPT ![s] = "releasing"]
  /\ UNCHANGED <<redis, todo, held, opts, expired>>

\* The finally block: one release per acquired path.
Release(s, p) ==
  /\ pc[s] = "releasing"
  /\ p \in held[s]
  /\ ReleaseLua(s, p)
  /\ held' = [held EXCEPT ![s] = @ \ {p}]
  /\ UNCHANGED <<pc, todo, opts, expired>>

\* A release that fails is not repeated; the lock stays until it runs out.
ReleaseFails(s, p) ==
  /\ pc[s] = "releasing"
  /\ p \in held[s]
  /\ held' = [held EXCEPT ![s] = @ \ {p}]
  /\ UNCHANGED <<redis, pc, todo, opts, expired>>

Return(s) ==
  /\ pc[s] = "releasing"
  /\ held[s] = {}
  /\ pc' = [pc EXCEPT ![s] = "idle"]
  /\ opts' = [opts EXCEPT ![s] = NoRun]
  /\ UNCHANGED <<redis, todo, held, expired>>

\* The process that runs the session dies; its keys stay until they run out.
Crash(s) ==
  /\ pc[s] \in {"acquiring", "working", "releasing"}
  /\ pc' = [pc EXCEPT ![s] = "dead"]
  /\ todo' = [todo EXCEPT ![s] = {}]
  /\ held' = [held EXCEPT ![s] = {}]
  /\ opts' = [opts EXCEPT ![s] = NoRun]
  /\ UNCHANGED <<redis, expired>>

\* A key without time left has none to lose.
Less(n) == IF n > 0 THEN n - 1 ELSE 0

\* Time passes for Redis: a key whose last tick goes disappears.
Tick ==
  /\ \E p \in Path : lockTtl[p] > 0 \/ descTtl[p] > 0
  /\ lockTtl' = [p \in Path |-> Less(lockTtl[p])]
  /\ descTtl' = [p \in Path |-> Less(descTtl[p])]
  /\ lock' = [p \in Path |-> IF lockTtl[p] = 1 THEN None ELSE lock[p]]
  /\ desc' = [p \in Path |-> IF descTtl[p] = 1 THEN 0 ELSE desc[p]]
  /\ expired' = (expired \/ \E p \in Path : lockTtl[p] = 1)
  /\ UNCHANGED sessions

Step(s) ==
  \/ StartWork(s) \/ EndWork(s) \/ Return(s)
  \/ \E p \in Path : Acquire(s, p) \/ GiveUp(s, p) \/ Release(s, p)

Next ==
  \/ Tick
  \/ \E s \in Session :
       \/ Step(s)
       \/ Crash(s)
       \/ \E S \in Request, o \in Option : Begin(s, S, o)
       \/ \E p \in Path : Refresh(s, p) \/ AcquireFails(s, p) \/ ReleaseFails(s, p)

Spec == Init /\ [][Next]_vars

\* Redis keeps time; a process that has not died runs its callbacks.
Fairness ==
  /\ WF_vars(Tick)
  /\ \A s \in Session : WF_vars(Step(s))

FairSpec == Spec /\ Fairness

-----------------------------------------------------------------------------
(* Properties. *)

\* Every caller passes the same TTL, as every caller that keeps the default does.
UniformTtl == \A t, u \in Ttl : t = u

LiveUnder(a) == {p \in Path : lock[p] # None /\ a \in Anc[p]}

\* Two locks are never live on a path and one of its ancestors: the promise of
\* the hierarchical lock (IPathConcurrencyService), whatever the order in which
\* sessions acquire, refresh, release, die and expire.
HierarchicalExclusion ==
  \A p \in Path : lock[p] # None => \A a \in Anc[p] : lock[a] = None

\* While a descendant is locked, the counter that keeps its ancestors from being
\* locked counts it and outlives it, through expiries and releases of others.
CounterCoversLocks ==
  \A a \in Path :
    /\ Cardinality(LiveUnder(a)) <= desc[a]
    /\ \A p \in LiveUnder(a) : lockTtl[p] <= descTtl[a]

\* As long as no lock has run out, the counters are exact: an ancestor can be
\* locked again at once after the last release below it.
CounterExactUntilExpiry ==
  ~expired => \A a \in Path : desc[a] = Cardinality(LiveUnder(a))

\* A key exists exactly while it has time left, so no key is left behind.
KeysHaveTtl ==
  \A p \in Path : /\ lock[p] = None <=> lockTtl[p] = 0
                  /\ desc[p] = 0 <=> descTtl[p] = 0

\* A lock is taken away from its owner only by its own release or by time: a
\* session that lost its lock never releases the lock of the next owner.
NoForeignRelease ==
  [][\A s \in Session, p \in Path :
       lock[p] = s /\ lock'[p] # s =>
         \/ lockTtl[p] = 1 /\ lock'[p] = None
         \/ p \in held[s] /\ p \notin held'[s]]_vars

\* A strict acquisition happens only when no ancestor of the path has a locked
\* descendant (the third rule of the interface's conflict semantics).
StrictAcquiresAlone ==
  [][\A s \in Session, p \in Path :
       lock[p] # s /\ lock'[p] = s /\ opts[s].strict =>
         \A a \in Anc[p] : LiveUnder(a) = {}]_vars

\* The lock keys alone implement the mutual exclusion of folders: the counters,
\* the timers and the sessions only ever take free folders without relatives, or
\* free some (tryAcquire, release, expiry).
Mutex == INSTANCE FolderMutex WITH owner <- lock

ImplementsFolderMutex == Mutex!Spec

\* The locks of a dead process are freed, and its counts leave the counters once
\* nobody locks or refreshes below the path any more.
DeadLocksFreed ==
  \A s \in Session, p \in Path :
    (pc[s] = "dead" /\ lock[p] = s) ~> (lock[p] = None \/ pc[lock[p]] # "dead")

\* The counter of a path goes back to 0 when its subtree stays quiet.
CountersDrain ==
  \A a \in Path : <>[](LiveUnder(a) = {}) => []<>(desc[a] = 0)

\* Session s has to lock a path that conflicts with a lock session t keeps.
WaitsFor(s, t) ==
  /\ pc[s] = "acquiring"
  /\ \E p, q \in Path :
       /\ IsNext(s, p)
       /\ lock[q] = t /\ q \in held[t]
       /\ q = p \/ q \in Anc[p] \/ p \in Anc[q]

\* Locking in one deterministic order avoids deadlocks (withMultipleFolderLocks):
\* sessions never wait for each other in a circle.
NoWaitCycle ==
  \A T \in (SUBSET Session) \ {{}} :
    \E s \in T : \A t \in T : ~WaitsFor(s, t)
=============================================================================
