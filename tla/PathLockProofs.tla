---------------------------- MODULE PathLockProofs ----------------------------
(***************************************************************************)
(* PathLock for every tree of paths, every set of sessions and requests:   *)
(* types, hierarchical exclusion and exact counters when every caller      *)
(* passes the same TTL, the refinement of FolderMutex, and the absence of  *)
(* circular waiting among requests that are not below each other.  The     *)
(* inductive invariant says that the counter of a path covers the live     *)
(* locks below it, in number and in time.                                  *)
(***************************************************************************)
EXTENDS PathLock, FiniteSetTheorems, TLAPS

\* No lock lives longer than any TTL a caller passes.
TtlBounded == \A p \in Path, t \in Ttl : lockTtl[p] <= t

IndInv ==
  /\ TypeOK
  /\ KeysHaveTtl
  /\ TtlBounded
  /\ CounterCoversLocks
  /\ HierarchicalExclusion

\* The options of an idle session are options.
LEMMA NoRunOption == NoRun \in Option
<1>1. \E o \in Option : TRUE
  <2>1. PICK t \in Ttl, b \in Strict : TRUE
    BY CallerAssumption
  <2>2. [ttl |-> t, strict |-> b] \in Option
    BY <2>1 DEF Option
  <2> QED
    BY <2>2
<1> QED
  BY <1>1 DEF NoRun

\* The locks below a path form a finite set, whose cardinality is a number.
LEMMA LiveUnderFinite ==
  ASSUME NEW a \in Path
  PROVE  IsFiniteSet(LiveUnder(a)) /\ Cardinality(LiveUnder(a)) \in Nat
<1>1. LiveUnder(a) \subseteq Path
  BY DEF LiveUnder
<1> QED
  BY <1>1, PathAssumption, FS_Subset, FS_CardinalityType

\* The scripts keep the types of the keys.
LEMMA ScriptTypes ==
  ASSUME TypeOK, NEW s \in Session, NEW p \in Path, NEW ttl \in Nat,
         AcquireLua(s, p, ttl) \/ ReleaseLua(s, p) \/ RefreshLua(s, p, ttl)
  PROVE  /\ lock' \in [Path -> Session \cup {None}]
         /\ lockTtl' \in [Path -> Nat]
         /\ desc' \in [Path -> Nat]
         /\ descTtl' \in [Path -> Nat]
<1> USE DEF TypeOK
<1>1. CASE AcquireLua(s, p, ttl)
  BY <1>1 DEF AcquireLua
<1>2. CASE ReleaseLua(s, p)
  BY <1>2 DEF ReleaseLua, redis
<1>3. CASE RefreshLua(s, p, ttl)
  BY <1>3 DEF RefreshLua, redis
<1> QED
  BY <1>1, <1>2, <1>3

\* The TTL of a session is a number.
LEMMA TtlType ==
  ASSUME TypeOK, NEW s \in Session
  PROVE  opts[s].ttl \in Ttl /\ opts[s].ttl \in Nat \ {0}
BY CallerAssumption DEF TypeOK, Option

LEMMA TypeInit == Init => TypeOK
<1> SUFFICES ASSUME Init PROVE TypeOK
  OBVIOUS
<1>1. opts \in [Session -> Option]
  BY NoRunOption DEF Init
<1> QED
  BY <1>1 DEF Init, TypeOK, Location

LEMMA TypeStep == TypeOK /\ [Next]_vars => TypeOK'
<1> SUFFICES ASSUME TypeOK, [Next]_vars
             PROVE  TypeOK'
  OBVIOUS
<1>1. CASE Tick
  BY <1>1 DEF Tick, Less, sessions, TypeOK
<1>2. ASSUME NEW s \in Session, StartWork(s) \/ EndWork(s)
      PROVE  TypeOK'
  BY <1>2 DEF StartWork, EndWork, redis, TypeOK, Location
<1>3. ASSUME NEW s \in Session, Return(s) \/ Crash(s)
      PROVE  TypeOK'
  BY <1>3, NoRunOption DEF Return, Crash, redis, TypeOK, Location
<1>4. ASSUME NEW s \in Session, NEW p \in Path, Acquire(s, p)
      PROVE  TypeOK'
  BY <1>4, ScriptTypes, TtlType DEF Acquire, TypeOK
<1>5. ASSUME NEW s \in Session, NEW p \in Path, GiveUp(s, p) \/ ReleaseFails(s, p)
      PROVE  TypeOK'
  BY <1>5 DEF GiveUp, ReleaseFails, redis, TypeOK, Location
<1>10. ASSUME NEW s \in Session, NEW p \in Path, AcquireFails(s, p)
       PROVE  TypeOK'
  <2>1. CASE AcquireLua(s, p, opts[s].ttl)
    BY <1>10, <2>1, ScriptTypes, TtlType DEF AcquireFails, TypeOK, Location
  <2>2. CASE UNCHANGED redis
    BY <1>10, <2>2 DEF AcquireFails, redis, TypeOK, Location
  <2> QED
    BY <1>10, <2>1, <2>2 DEF AcquireFails
<1>6. ASSUME NEW s \in Session, NEW p \in Path, Release(s, p)
      PROVE  TypeOK'
  <2>1. PICK ttl \in Nat : TRUE
    OBVIOUS
  <2> QED
    BY <1>6, <2>1, ScriptTypes DEF Release, TypeOK
<1>7. ASSUME NEW s \in Session, NEW p \in Path, Refresh(s, p)
      PROVE  TypeOK'
  BY <1>7, ScriptTypes, TtlType DEF Refresh, sessions, TypeOK
<1>8. ASSUME NEW s \in Session, NEW S \in Request, NEW o \in Option, Begin(s, S, o)
      PROVE  TypeOK'
  <2>1. Collapse(S) \subseteq Path
    BY CallerAssumption DEF Collapse
  <2> QED
    BY <1>8, <2>1 DEF Begin, redis, TypeOK, Location
<1>9. CASE UNCHANGED vars
  BY <1>9 DEF vars, redis, sessions, TypeOK
<1> QED
  BY <1>1, <1>2, <1>3, <1>4, <1>5, <1>6, <1>7, <1>8, <1>9, <1>10 DEF Next, Step

\* The variables keep their types: keys hold tokens or numbers, sessions hold
\* paths (PathConcurrencyService and FolderLockService).
THEOREM TypeCorrect == Spec => []TypeOK
BY TypeInit, TypeStep, PTL DEF Spec

-----------------------------------------------------------------------------
(* Hierarchical exclusion. *)

\* One more lock below a path counts one more, whatever its position.
LEMMA LiveUnderAcquire ==
  ASSUME TypeOK, NEW s \in Session, NEW p \in Path, NEW ttl \in Nat,
         lock[p] = None, AcquireLua(s, p, ttl), NEW a \in Path
  PROVE  /\ LiveUnder(a)' = IF a \in Anc[p] THEN LiveUnder(a) \cup {p} ELSE LiveUnder(a)
         /\ Cardinality(LiveUnder(a)') =
              IF a \in Anc[p] THEN Cardinality(LiveUnder(a)) + 1
                              ELSE Cardinality(LiveUnder(a))
<1>1. LiveUnder(a)' = IF a \in Anc[p] THEN LiveUnder(a) \cup {p} ELSE LiveUnder(a)
  BY SessionAssumption DEF LiveUnder, AcquireLua, TypeOK
<1>2. p \notin LiveUnder(a)
  BY DEF LiveUnder
<1> QED
  BY <1>1, <1>2, LiveUnderFinite, FS_AddElement

\* One lock less below a path counts one less.
LEMMA LiveUnderRelease ==
  ASSUME TypeOK, NEW s \in Session, NEW p \in Path,
         lock[p] = s, ReleaseLua(s, p), NEW a \in Path
  PROVE  /\ LiveUnder(a)' = LiveUnder(a) \ {p}
         /\ Cardinality(LiveUnder(a)') =
              IF a \in Anc[p] THEN Cardinality(LiveUnder(a)) - 1
                              ELSE Cardinality(LiveUnder(a))
<1>1. LiveUnder(a)' = LiveUnder(a) \ {p}
  BY DEF LiveUnder, ReleaseLua, TypeOK
<1>2. p \in LiveUnder(a) <=> a \in Anc[p]
  BY SessionAssumption DEF LiveUnder
<1> QED
  BY <1>1, <1>2, LiveUnderFinite, FS_RemoveElement

\* A path with a live descendant cannot be granted: its counter is not 0.
LEMMA GrantedPathIsClear ==
  ASSUME TypeOK, CounterCoversLocks, NEW p \in Path, NEW b \in BOOLEAN, Grants(p, b)
  PROVE  LiveUnder(p) = {}
<1>1. Cardinality(LiveUnder(p)) = 0
  BY LiveUnderFinite DEF CounterCoversLocks, Grants
<1> QED
  BY <1>1, LiveUnderFinite, FS_EmptySet

\* The script that grants a lock keeps the invariant.
LEMMA AcquireKeeps ==
  ASSUME UniformTtl, IndInv, NEW s \in Session, NEW p \in Path, NEW t \in Ttl,
         NEW b \in BOOLEAN, Grants(p, b), AcquireLua(s, p, t)
  PROVE  /\ KeysHaveTtl'
         /\ TtlBounded'
         /\ CounterCoversLocks'
         /\ HierarchicalExclusion'
<1> USE DEF IndInv
<1>1. t \in Nat \ {0} /\ lock[p] = None /\ s # None
  BY CallerAssumption, SessionAssumption DEF Grants
<1>2. KeysHaveTtl'
  BY <1>1 DEF AcquireLua, KeysHaveTtl, TypeOK
<1>3. TtlBounded'
  BY <1>1 DEF AcquireLua, TtlBounded, UniformTtl, TypeOK
<1>4. CounterCoversLocks'
  <2> SUFFICES ASSUME NEW a \in Path
               PROVE  /\ Cardinality(LiveUnder(a)') <= desc'[a]
                      /\ \A q \in LiveUnder(a)' : lockTtl'[q] <= descTtl'[a]
    BY DEF CounterCoversLocks
  <2>1. desc'[a] = IF a \in Anc[p] THEN desc[a] + 1 ELSE desc[a]
    BY DEF AcquireLua
  <2>2. Cardinality(LiveUnder(a)') <= desc'[a]
    BY <1>1, <2>1, LiveUnderAcquire, LiveUnderFinite DEF CounterCoversLocks, TypeOK
  <2>3. ASSUME NEW q \in LiveUnder(a)'
        PROVE  lockTtl'[q] <= descTtl'[a]
    <3>1. q \in Path
      BY DEF LiveUnder
    <3>2. CASE a \in Anc[p]
      BY <1>3, <3>1, <3>2 DEF AcquireLua, TtlBounded
    <3>3. CASE a \notin Anc[p]
      <4>1. q \in LiveUnder(a) /\ q # p
        BY <1>1, <3>3, LiveUnderAcquire DEF LiveUnder
      <4> QED
        BY <1>1, <3>1, <3>3, <4>1 DEF AcquireLua, CounterCoversLocks, TypeOK
    <3> QED
      BY <3>2, <3>3
  <2> QED
    BY <2>2, <2>3
<1>5. HierarchicalExclusion'
  <2>1. \A q \in Path : p \in Anc[q] => lock[q] = None
    BY GrantedPathIsClear DEF LiveUnder
  <2>2. \A a \in Anc[p] : lock[a] = None
    BY DEF Grants
  <2>3. p \notin Anc[p] /\ Anc \in [Path -> SUBSET Path]
    BY PathAssumption
  <2> QED
    BY <2>1, <2>2, <2>3, <1>1 DEF AcquireLua, HierarchicalExclusion, TypeOK
<1> QED
  BY <1>2, <1>3, <1>4, <1>5

\* The script that releases a lock keeps the invariant.
LEMMA ReleaseKeeps ==
  ASSUME IndInv, NEW s \in Session, NEW p \in Path, ReleaseLua(s, p)
  PROVE  /\ KeysHaveTtl'
         /\ TtlBounded'
         /\ CounterCoversLocks'
         /\ HierarchicalExclusion'
<1> USE DEF IndInv
<1>1. CASE lock[p] # s
  BY <1>1 DEF ReleaseLua, redis, KeysHaveTtl, TtlBounded, CounterCoversLocks,
              LiveUnder, HierarchicalExclusion
<1>2. CASE lock[p] = s
  <2>1. /\ lock' = [lock EXCEPT ![p] = None]
        /\ lockTtl' = [lockTtl EXCEPT ![p] = 0]
        /\ \A a \in Path :
             /\ desc'[a] = IF a \in Anc[p] /\ desc[a] > 0 THEN desc[a] - 1 ELSE desc[a]
             /\ descTtl'[a] = IF a \in Anc[p] /\ desc[a] <= 1 THEN 0 ELSE descTtl[a]
    BY <1>2 DEF ReleaseLua
  <2>2. KeysHaveTtl'
    BY <2>1 DEF KeysHaveTtl, TypeOK
  <2>3. TtlBounded'
    BY <2>1, CallerAssumption DEF TtlBounded, TypeOK
  <2>4. HierarchicalExclusion'
    <3>1. \A q \in Path : lock'[q] # None => lock[q] # None /\ q # p
      BY <2>1 DEF TypeOK
    <3>2. \A q \in Path : lock[q] = None => lock'[q] = None
      BY <2>1 DEF TypeOK
    <3> QED
      BY <3>1, <3>2, PathAssumption DEF HierarchicalExclusion
  <2>5. CounterCoversLocks'
    <3> SUFFICES ASSUME NEW a \in Path
                 PROVE  /\ Cardinality(LiveUnder(a)') <= desc'[a]
                        /\ \A q \in LiveUnder(a)' : lockTtl'[q] <= descTtl'[a]
      BY DEF CounterCoversLocks
    <3>1. /\ LiveUnder(a)' = LiveUnder(a) \ {p}
          /\ Cardinality(LiveUnder(a)') =
               IF a \in Anc[p] THEN Cardinality(LiveUnder(a)) - 1
                               ELSE Cardinality(LiveUnder(a))
      BY <1>2, LiveUnderRelease
    <3>2. /\ IsFiniteSet(LiveUnder(a)) /\ Cardinality(LiveUnder(a)) \in Nat
          /\ IsFiniteSet(LiveUnder(a)') /\ Cardinality(LiveUnder(a)') \in Nat
      BY <3>1, LiveUnderFinite, FS_RemoveElement, FS_CardinalityType
    <3>3. Cardinality(LiveUnder(a)) <= desc[a] /\ desc[a] \in Nat
      BY DEF CounterCoversLocks, TypeOK
    <3>4. Cardinality(LiveUnder(a)') <= desc'[a]
      BY <2>1, <3>1, <3>2, <3>3
    <3>5. ASSUME NEW q \in LiveUnder(a)'
          PROVE  lockTtl'[q] <= descTtl'[a]
      <4>1. q \in LiveUnder(a) /\ q # p
        BY <3>1
      <4>2. q \in Path /\ lockTtl[q] <= descTtl[a]
        BY <4>1 DEF CounterCoversLocks, LiveUnder
      <4>3. ~(a \in Anc[p] /\ desc[a] <= 1)
        <5> SUFFICES ASSUME a \in Anc[p], desc[a] <= 1
                     PROVE  FALSE
          OBVIOUS
        <5>1. Cardinality(LiveUnder(a)') = 0
          BY <3>1, <3>2, <3>3
        <5> QED
          BY <5>1, <3>2, FS_EmptySet
      <4> QED
        BY <2>1, <4>1, <4>2, <4>3 DEF TypeOK
    <3> QED
      BY <3>4, <3>5
  <2> QED
    BY <2>2, <2>3, <2>4, <2>5
<1> QED
  BY <1>1, <1>2

\* The script that refreshes a lock keeps the invariant.
LEMMA RefreshKeeps ==
  ASSUME UniformTtl, IndInv, NEW s \in Session, NEW p \in Path, NEW t \in Ttl,
         RefreshLua(s, p, t)
  PROVE  /\ KeysHaveTtl'
         /\ TtlBounded'
         /\ CounterCoversLocks'
         /\ HierarchicalExclusion'
<1> USE DEF IndInv
<1>1. CASE lock[p] # s
  BY <1>1 DEF RefreshLua, redis, KeysHaveTtl, TtlBounded, CounterCoversLocks,
              LiveUnder, HierarchicalExclusion
<1>2. CASE lock[p] = s
  <2>1. t \in Nat \ {0} /\ s # None
    BY CallerAssumption, SessionAssumption
  <2>2. KeysHaveTtl'
    <3>1. /\ lock' = lock /\ desc' = desc
          /\ lockTtl' = [lockTtl EXCEPT ![p] = t]
          /\ \A a \in Path :
               descTtl'[a] = IF a \in Anc[p] /\ desc[a] > 0 THEN t ELSE descTtl[a]
      BY <1>2 DEF RefreshLua
    <3> QED
      BY <1>2, <2>1, <3>1 DEF KeysHaveTtl, TypeOK
  <2>3. TtlBounded'
    BY <1>2, <2>1 DEF RefreshLua, TtlBounded, UniformTtl, TypeOK
  <2>4. HierarchicalExclusion'
    BY <1>2 DEF RefreshLua, HierarchicalExclusion
  <2>5. CounterCoversLocks'
    <3> SUFFICES ASSUME NEW a \in Path
                 PROVE  /\ Cardinality(LiveUnder(a)') <= desc'[a]
                        /\ \A q \in LiveUnder(a)' : lockTtl'[q] <= descTtl'[a]
      BY DEF CounterCoversLocks
    <3>1. LiveUnder(a)' = LiveUnder(a) /\ desc' = desc
      BY <1>2 DEF RefreshLua, LiveUnder
    <3>2. Cardinality(LiveUnder(a)') <= desc'[a]
      BY <3>1 DEF CounterCoversLocks
    <3>3. ASSUME NEW q \in LiveUnder(a)
          PROVE  lockTtl'[q] <= descTtl'[a]
      <4>1. q \in Path /\ lockTtl[q] <= descTtl[a] /\ a \in Anc[q]
        BY <3>3 DEF CounterCoversLocks, LiveUnder
      <4>2. CASE a \in Anc[p] /\ desc[a] > 0
        BY <1>2, <2>3, <4>1, <4>2 DEF RefreshLua, TtlBounded
      <4>3. CASE a \notin Anc[p]
        BY <1>2, <4>1, <4>3 DEF RefreshLua, TypeOK
      <4>4. CASE ~(desc[a] > 0)
        <5>1. Cardinality(LiveUnder(a)) = 0
          BY <4>4, LiveUnderFinite DEF CounterCoversLocks, TypeOK
        <5> QED
          BY <5>1, LiveUnderFinite, FS_EmptySet
      <4> QED
        BY <4>2, <4>3, <4>4
    <3> QED
      BY <3>1, <3>2, <3>3
  <2> QED
    BY <2>2, <2>3, <2>4, <2>5
<1> QED
  BY <1>1, <1>2

\* Time keeps the invariant: no counter disappears before the locks it counts.
LEMMA TickKeeps ==
  ASSUME IndInv, Tick
  PROVE  /\ KeysHaveTtl'
         /\ TtlBounded'
         /\ CounterCoversLocks'
         /\ HierarchicalExclusion'
<1> USE DEF IndInv
<1>1. KeysHaveTtl'
  BY DEF Tick, Less, KeysHaveTtl, TypeOK
<1>2. TtlBounded'
  BY CallerAssumption DEF Tick, Less, TtlBounded, TypeOK
<1>3. HierarchicalExclusion'
  BY PathAssumption DEF Tick, HierarchicalExclusion, TypeOK
<1>4. CounterCoversLocks'
  <2> SUFFICES ASSUME NEW a \in Path
               PROVE  /\ Cardinality(LiveUnder(a)') <= desc'[a]
                      /\ \A q \in LiveUnder(a)' : lockTtl'[q] <= descTtl'[a]
    BY DEF CounterCoversLocks
  <2>1. LiveUnder(a)' \subseteq LiveUnder(a)
    BY DEF Tick, LiveUnder, TypeOK
  <2>2. \A q \in LiveUnder(a)' : lockTtl[q] > 1 /\ q \in Path
    BY DEF Tick, LiveUnder, TypeOK, KeysHaveTtl
  <2>3. IsFiniteSet(LiveUnder(a)')
        /\ Cardinality(LiveUnder(a)') \in Nat
        /\ Cardinality(LiveUnder(a)') <= Cardinality(LiveUnder(a))
    BY <2>1, LiveUnderFinite, FS_Subset, FS_CardinalityType
  <2>4. Cardinality(LiveUnder(a)') <= desc'[a]
    <3>1. CASE descTtl[a] = 1
      <4>1. LiveUnder(a)' = {}
        BY <3>1, <2>1, <2>2 DEF CounterCoversLocks, TypeOK
      <4>2. desc'[a] = 0
        BY <3>1 DEF Tick
      <4> QED
        BY <4>1, <4>2, FS_EmptySet
    <3>2. CASE descTtl[a] # 1
      <4>1. desc'[a] = desc[a]
        BY <3>2 DEF Tick
      <4> QED
        BY <4>1, <2>3, LiveUnderFinite DEF CounterCoversLocks, TypeOK
    <3> QED
      BY <3>1, <3>2
  <2>5. ASSUME NEW q \in LiveUnder(a)'
        PROVE  lockTtl'[q] <= descTtl'[a]
    BY <2>1, <2>2 DEF Tick, Less, CounterCoversLocks, TypeOK
  <2> QED
    BY <2>4, <2>5
<1> QED
  BY <1>1, <1>2, <1>3, <1>4

LEMMA IndInvInit == Init => IndInv
<1> SUFFICES ASSUME Init PROVE IndInv
  OBVIOUS
<1>1. TypeOK
  BY TypeInit
<1>2. \A a \in Path : LiveUnder(a) = {}
  BY DEF Init, LiveUnder
<1>3. CounterCoversLocks
  BY <1>2, FS_EmptySet DEF Init, CounterCoversLocks
<1>4. KeysHaveTtl /\ TtlBounded /\ HierarchicalExclusion
  BY CallerAssumption, PathAssumption DEF Init, KeysHaveTtl, TtlBounded, HierarchicalExclusion
<1> QED
  BY <1>1, <1>3, <1>4 DEF IndInv

LEMMA IndInvStep ==
  ASSUME UniformTtl
  PROVE  IndInv /\ [Next]_vars => IndInv'
<1> SUFFICES ASSUME IndInv, [Next]_vars
             PROVE  IndInv'
  OBVIOUS
<1>1. TypeOK'
  BY TypeStep DEF IndInv
<1>2. CASE Tick
  BY <1>1, <1>2, TickKeeps DEF IndInv
<1>3. ASSUME NEW s \in Session, NEW p \in Path,
             Grants(p, opts[s].strict), AcquireLua(s, p, opts[s].ttl)
      PROVE  IndInv'
  <2>1. opts[s].ttl \in Ttl /\ opts[s].strict \in BOOLEAN
    BY CallerAssumption DEF IndInv, TypeOK, Option
  <2> QED
    BY <1>1, <1>3, <2>1, AcquireKeeps DEF IndInv
<1>4. ASSUME NEW s \in Session, NEW p \in Path, Release(s, p)
      PROVE  IndInv'
  BY <1>1, <1>4, ReleaseKeeps DEF Release, IndInv
<1>5. ASSUME NEW s \in Session, NEW p \in Path, Refresh(s, p)
      PROVE  IndInv'
  BY <1>1, <1>5, RefreshKeeps, TtlType DEF Refresh, IndInv
<1>6. CASE UNCHANGED redis
  BY <1>1, <1>6 DEF redis, IndInv, KeysHaveTtl, TtlBounded, CounterCoversLocks,
                    LiveUnder, HierarchicalExclusion
<1> QED
  BY <1>2, <1>3, <1>4, <1>5, <1>6
  DEF Next, Step, vars, StartWork, EndWork, Return, GiveUp, Crash, Begin,
      Acquire, AcquireFails, ReleaseFails

\* With one TTL for all callers, the counters of the ancestors cover the live
\* locks in every reachable state (ACQUIRE_LUA, RELEASE_LUA, REFRESH_LUA).
THEOREM CountersCover ==
  ASSUME UniformTtl
  PROVE  Spec => []CounterCoversLocks
<1>1. IndInv => CounterCoversLocks
  BY DEF IndInv
<1> QED
  BY IndInvInit, IndInvStep, <1>1, PTL DEF Spec

\* With one TTL for all callers, a path and its ancestor are never locked at the
\* same time, for any tree, sessions, requests, crashes and expiries.
THEOREM Exclusion ==
  ASSUME UniformTtl
  PROVE  Spec => []HierarchicalExclusion
<1>1. IndInv => HierarchicalExclusion
  BY DEF IndInv
<1> QED
  BY IndInvInit, IndInvStep, <1>1, PTL DEF Spec

-----------------------------------------------------------------------------
(* Action properties. *)

\* A lock is taken from its owner only by its own release or by time, whatever
\* TTLs callers pass: the token comparison of RELEASE_LUA protects the next owner.
THEOREM OnlyOwnerReleases == Spec => NoForeignRelease
<1> DEFINE Kept == \A s \in Session, p \in Path :
                     lock[p] = s /\ lock'[p] # s =>
                       \/ lockTtl[p] = 1 /\ lock'[p] = None
                       \/ p \in held[s] /\ p \notin held'[s]
<1>1. TypeOK /\ [Next]_vars => [Kept]_vars
  <2> SUFFICES ASSUME TypeOK, Next PROVE Kept
    OBVIOUS
  <2>1. CASE Tick
    BY <2>1, SessionAssumption DEF Tick, TypeOK
  <2>2. ASSUME NEW s \in Session, NEW p \in Path,
               Grants(p, opts[s].strict), AcquireLua(s, p, opts[s].ttl)
        PROVE  Kept
    BY <2>2, SessionAssumption DEF AcquireLua, Grants, TypeOK
  <2>3. ASSUME NEW s \in Session, NEW p \in Path, Release(s, p)
        PROVE  Kept
    <3>1. held' = [held EXCEPT ![s] = held[s] \ {p}] /\ p \in held[s]
      BY <2>3 DEF Release
    <3>2. lock' = lock \/ (lock[p] = s /\ lock' = [lock EXCEPT ![p] = None])
      BY <2>3 DEF Release, ReleaseLua, redis
    <3> QED
      BY <3>1, <3>2 DEF TypeOK
  <2>4. ASSUME NEW s \in Session, NEW p \in Path, Refresh(s, p)
        PROVE  Kept
    BY <2>4 DEF Refresh, RefreshLua, redis
  <2>5. CASE UNCHANGED redis
    BY <2>5 DEF redis
  <2> QED
    BY <2>1, <2>2, <2>3, <2>4, <2>5
    DEF Next, Step, StartWork, EndWork, Return, GiveUp, Crash, Begin,
        Acquire, AcquireFails, ReleaseFails
<1> QED
  BY <1>1, TypeCorrect, PTL DEF Spec, NoForeignRelease

\* With one TTL for all callers, a strict acquisition succeeds only when no
\* ancestor of the path has a locked descendant (ACQUIRE_LUA, strict mode).
THEOREM StrictIsAlone ==
  ASSUME UniformTtl
  PROVE  Spec => StrictAcquiresAlone
<1> DEFINE Alone == \A s \in Session, p \in Path :
                      lock[p] # s /\ lock'[p] = s /\ opts[s].strict =>
                        \A a \in Anc[p] : LiveUnder(a) = {}
<1>1. IndInv /\ [Next]_vars => [Alone]_vars
  <2> SUFFICES ASSUME IndInv, Next PROVE Alone
    OBVIOUS
  <2>1. CASE Tick
    BY <2>1, SessionAssumption DEF Tick, IndInv, TypeOK
  <2>2. ASSUME NEW s \in Session, NEW p \in Path,
               Grants(p, opts[s].strict), AcquireLua(s, p, opts[s].ttl)
        PROVE  Alone
    <3> SUFFICES ASSUME NEW t \in Session, NEW q \in Path,
                        lock[q] # t, lock'[q] = t, opts[t].strict,
                        NEW a \in Anc[q]
                 PROVE  LiveUnder(a) = {}
      OBVIOUS
    <3>1. t = s /\ q = p
      BY <2>2 DEF AcquireLua, IndInv, TypeOK
    <3>2. a \in Path /\ desc[a] = 0
      BY <2>2, <3>1, PathAssumption DEF Grants
    <3>3. Cardinality(LiveUnder(a)) = 0
      BY <3>2, LiveUnderFinite DEF IndInv, CounterCoversLocks
    <3> QED
      BY <3>2, <3>3, LiveUnderFinite, FS_EmptySet
  <2>3. ASSUME NEW s \in Session, NEW p \in Path, Release(s, p)
        PROVE  Alone
    <3>1. lock' = lock \/ lock' = [lock EXCEPT ![p] = None]
      BY <2>3 DEF Release, ReleaseLua, redis
    <3> QED
      BY <3>1, SessionAssumption DEF IndInv, TypeOK
  <2>4. ASSUME NEW s \in Session, NEW p \in Path, Refresh(s, p)
        PROVE  Alone
    BY <2>4 DEF Refresh, RefreshLua, redis
  <2>5. CASE UNCHANGED redis
    BY <2>5 DEF redis
  <2> QED
    BY <2>1, <2>2, <2>3, <2>4, <2>5
    DEF Next, Step, StartWork, EndWork, Return, GiveUp, Crash, Begin,
        Acquire, AcquireFails, ReleaseFails
<1> QED
  BY <1>1, IndInvInit, IndInvStep, PTL DEF Spec, StrictAcquiresAlone

-----------------------------------------------------------------------------
(* Refinement. *)

\* With one TTL for all callers, the Redis protocol implements the abstract mutual
\* exclusion of folders: every grant takes a free folder without a taken relative,
\* and whatever else happens to lock keys only frees folders.
THEOREM RefinesFolderMutex ==
  ASSUME UniformTtl
  PROVE  Spec => ImplementsFolderMutex
<1>1. Init => Mutex!Init
  BY DEF Init, Mutex!Init
<1>2. IndInv /\ [Next]_vars => [Mutex!Next]_lock
  <2> SUFFICES ASSUME IndInv, Next PROVE Mutex!Next \/ UNCHANGED lock
    BY DEF vars, redis
  <2>1. CASE Tick
    <3> DEFINE Out == {p \in Path : lockTtl[p] = 1}
    <3>1. lock' = [p \in Path |-> IF p \in Out THEN None ELSE lock[p]]
      BY <2>1 DEF Tick
    <3>2. Mutex!Free(Out)
      BY <3>1 DEF Mutex!Free
    <3>3. Out \subseteq Mutex!Owned
      BY DEF IndInv, KeysHaveTtl, Mutex!Owned
    <3> QED
      BY <3>2, <3>3 DEF Mutex!Next
  <2>2. ASSUME NEW s \in Session, NEW p \in Path,
               Grants(p, opts[s].strict), AcquireLua(s, p, opts[s].ttl)
        PROVE  Mutex!Next
    <3>1. Grants(p, opts[s].strict) /\ lock' = [lock EXCEPT ![p] = s]
      BY <2>2 DEF AcquireLua
    <3>2. lock[p] = None /\ \A a \in Anc[p] : lock[a] = None
      BY <3>1 DEF Grants
    <3>3. opts[s].strict \in BOOLEAN
      BY CallerAssumption DEF IndInv, TypeOK, Option
    <3>4. LiveUnder(p) = {}
      BY <3>1, <3>3, GrantedPathIsClear DEF IndInv
    <3>5. ASSUME NEW q \in Path, Mutex!Related(p, q)
          PROVE  lock[q] = None
      BY <3>2, <3>4, <3>5 DEF Mutex!Related, LiveUnder
    <3>6. Mutex!Take(s, p)
      BY <3>1, <3>5 DEF Mutex!Take
    <3> QED
      BY <3>6 DEF Mutex!Next
  <2>3. ASSUME NEW s \in Session, NEW p \in Path, Release(s, p)
        PROVE  Mutex!Next \/ UNCHANGED lock
    <3>1. CASE lock[p] # s
      BY <2>3, <3>1 DEF Release, ReleaseLua, redis
    <3>2. CASE lock[p] = s
      <4>1. lock' = [q \in Path |-> IF q \in {p} THEN None ELSE lock[q]]
        BY <2>3, <3>2 DEF Release, ReleaseLua, IndInv, TypeOK
      <4>2. Mutex!Free({p})
        BY <4>1 DEF Mutex!Free
      <4>3. {p} \subseteq Mutex!Owned
        BY <3>2, SessionAssumption DEF Mutex!Owned
      <4> QED
        BY <4>2, <4>3 DEF Mutex!Next
    <3> QED
      BY <3>1, <3>2
  <2>4. ASSUME NEW s \in Session, NEW p \in Path, Refresh(s, p)
        PROVE  UNCHANGED lock
    BY <2>4 DEF Refresh, RefreshLua, redis
  <2>5. CASE UNCHANGED redis
    BY <2>5 DEF redis
  <2> QED
    BY <2>1, <2>2, <2>3, <2>4, <2>5
    DEF Next, Step, StartWork, EndWork, Return, GiveUp, Crash, Begin,
        Acquire, AcquireFails, ReleaseFails
<1> QED
  BY <1>1, <1>2, IndInvInit, IndInvStep, PTL DEF Spec, ImplementsFolderMutex, Mutex!Spec

-----------------------------------------------------------------------------
(* Exact counters. *)

LEMMA CountersExactStep ==
  ASSUME UniformTtl
  PROVE  IndInv /\ CounterExactUntilExpiry /\ [Next]_vars => CounterExactUntilExpiry'
<1> SUFFICES ASSUME IndInv, CounterExactUntilExpiry, [Next]_vars, ~expired', NEW a \in Path
             PROVE  desc'[a] = Cardinality(LiveUnder(a)')
  BY DEF CounterExactUntilExpiry
<1>1. TypeOK /\ IsFiniteSet(LiveUnder(a)) /\ Cardinality(LiveUnder(a)) \in Nat
  BY LiveUnderFinite DEF IndInv
<1>2. ASSUME ~expired
      PROVE  desc[a] = Cardinality(LiveUnder(a))
  BY <1>2 DEF CounterExactUntilExpiry
<1>3. CASE Tick
  <2>1. ~expired /\ \A p \in Path : lockTtl[p] # 1
    BY <1>3 DEF Tick
  <2>2. LiveUnder(a)' = LiveUnder(a)
    BY <1>3, <2>1 DEF Tick, LiveUnder
  <2>3. desc'[a] = IF descTtl[a] = 1 THEN 0 ELSE desc[a]
    BY <1>3 DEF Tick
  <2>4. CASE descTtl[a] = 1
    <3>1. \A p \in LiveUnder(a) : p \in Path /\ lockTtl[p] <= 1 /\ lockTtl[p] # 0
      BY <2>4 DEF IndInv, CounterCoversLocks, KeysHaveTtl, LiveUnder
    <3>2. LiveUnder(a) = {}
      BY <1>1, <2>1, <3>1 DEF TypeOK
    <3> QED
      BY <2>2, <2>3, <2>4, <3>2, FS_EmptySet
  <2> QED
    BY <1>2, <2>1, <2>2, <2>3, <2>4
<1>4. ASSUME NEW s \in Session, NEW p \in Path, expired' = expired,
             Grants(p, opts[s].strict), AcquireLua(s, p, opts[s].ttl)
      PROVE  desc'[a] = Cardinality(LiveUnder(a)')
  <2>1. desc'[a] = IF a \in Anc[p] THEN desc[a] + 1 ELSE desc[a]
    BY <1>4 DEF AcquireLua
  <2>2. lock[p] = None /\ opts[s].ttl \in Nat
    BY <1>1, <1>4, TtlType DEF Grants
  <2> QED
    BY <1>1, <1>2, <1>4, <2>1, <2>2, LiveUnderAcquire
<1>5. ASSUME NEW s \in Session, NEW p \in Path, Release(s, p)
      PROVE  desc'[a] = Cardinality(LiveUnder(a)')
  <2>1. desc[a] = Cardinality(LiveUnder(a)) /\ ReleaseLua(s, p)
    BY <1>2, <1>5 DEF Release
  <2>2. CASE lock[p] # s
    BY <2>1, <2>2 DEF ReleaseLua, redis, LiveUnder
  <2>3. CASE lock[p] = s
    <3>1. Cardinality(LiveUnder(a)') = IF a \in Anc[p] THEN Cardinality(LiveUnder(a)) - 1
                                       ELSE Cardinality(LiveUnder(a))
      BY <1>1, <2>1, <2>3, LiveUnderRelease
    <3>2. desc'[a] = IF a \in Anc[p] /\ desc[a] > 0 THEN desc[a] - 1 ELSE desc[a]
      BY <2>1, <2>3 DEF ReleaseLua
    <3>3. a \in Anc[p] => Cardinality(LiveUnder(a)) # 0
      BY <1>1, <2>3, SessionAssumption, FS_EmptySet DEF LiveUnder
    <3> QED
      BY <1>1, <2>1, <3>1, <3>2, <3>3
  <2> QED
    BY <2>2, <2>3
<1>6. ASSUME NEW s \in Session, NEW p \in Path, Refresh(s, p)
      PROVE  desc'[a] = Cardinality(LiveUnder(a)')
  BY <1>2, <1>6 DEF Refresh, RefreshLua, redis, LiveUnder
<1>7. CASE UNCHANGED redis /\ expired' = expired
  BY <1>2, <1>7 DEF redis, LiveUnder
<1> QED
  BY <1>3, <1>4, <1>5, <1>6, <1>7
  DEF Next, Step, vars, StartWork, EndWork, Return, GiveUp, Crash, Begin,
      Acquire, AcquireFails, ReleaseFails

\* With one TTL for all callers and as long as no lock has run out, the counter of a path
\* is the number of live locks below it: INCR and DECR of the scripts are paired, so a
\* folder is free again at once after the last release below it.
THEOREM CountersExact ==
  ASSUME UniformTtl
  PROVE  Spec => []CounterExactUntilExpiry
<1>1. Init => CounterExactUntilExpiry
  <2> SUFFICES ASSUME Init PROVE CounterExactUntilExpiry
    OBVIOUS
  <2>1. \A a \in Path : LiveUnder(a) = {} /\ desc[a] = 0
    BY DEF Init, LiveUnder
  <2> QED
    BY <2>1, FS_EmptySet DEF CounterExactUntilExpiry
<1> QED
  BY <1>1, IndInvInit, IndInvStep, CountersExactStep, PTL DEF Spec

-----------------------------------------------------------------------------
(* Waiting. *)

\* Two paths have different positions in the common order.
RankIsTotal == \A p, q \in Path : Rank[p] = Rank[q] => p = q

\* Requests for several folders never have one folder below a folder of the other.
RequestsApart ==
  \A S, R \in Request :
    (\E p \in Collapse(S), q \in Collapse(R) : p \in Anc[q]) =>
      (\E x : Collapse(S) = {x}) \/ (\E x : Collapse(R) = {x})

\* A session that acquires has the first part of its request and wants the rest.
InOrder(s) ==
  /\ pc[s] = "acquiring" =>
       /\ \E S \in Request : held[s] \cup todo[s] = Collapse(S)
       /\ \A h \in held[s], p \in todo[s] : Rank[h] <= Rank[p] /\ h # p
  /\ pc[s] \in {"idle", "dead"} => held[s] = {}

Ordered == TypeOK /\ \A s \in Session : InOrder(s)

LEMMA OrderedInit == Init => Ordered
BY TypeInit DEF Init, Ordered, InOrder

LEMMA OrderedStep == Ordered /\ [Next]_vars => Ordered'
<1> SUFFICES ASSUME Ordered, [Next]_vars, NEW s \in Session
             PROVE  InOrder(s)'
  BY TypeStep DEF Ordered
<1>0. TypeOK /\ InOrder(s)
  BY DEF Ordered
<1>1. ASSUME NEW S \in Request, NEW o \in Option, Begin(s, S, o)
      PROVE  InOrder(s)'
  <2>1. held'[s] = {} /\ todo'[s] = Collapse(S) /\ pc'[s] = "acquiring"
    BY <1>0, <1>1 DEF Begin, InOrder, TypeOK
  <2> QED
    BY <2>1 DEF InOrder
<1>2. ASSUME NEW p \in Path, Acquire(s, p)
      PROVE  InOrder(s)'
  <2>1. /\ pc[s] = "acquiring" /\ pc' = pc /\ p \in todo[s]
        /\ \A q \in todo[s] : Rank[p] <= Rank[q]
        /\ held'[s] = held[s] \cup {p} /\ todo'[s] = todo[s] \ {p}
    BY <1>0, <1>2 DEF Acquire, IsNext, TypeOK
  <2>2. held'[s] \cup todo'[s] = held[s] \cup todo[s]
    BY <2>1
  <2> QED
    BY <1>0, <2>1, <2>2 DEF InOrder
<1>3. ASSUME NEW p \in Path, GiveUp(s, p) \/ AcquireFails(s, p) \/ Release(s, p) \/ ReleaseFails(s, p)
      PROVE  InOrder(s)'
  BY <1>0, <1>3 DEF GiveUp, AcquireFails, Release, ReleaseFails, InOrder, TypeOK
<1>4. CASE StartWork(s) \/ EndWork(s) \/ Return(s) \/ Crash(s)
  BY <1>0, <1>4 DEF StartWork, EndWork, Return, Crash, InOrder, TypeOK
<1>5. CASE pc'[s] = pc[s] /\ todo'[s] = todo[s] /\ held'[s] = held[s]
  BY <1>0, <1>5 DEF InOrder
<1>6. ASSUME NEW t \in Session \ {s},
             \/ Step(t) \/ Crash(t) \/ (\E S \in Request, o \in Option : Begin(t, S, o))
             \/ \E p \in Path : AcquireFails(t, p) \/ ReleaseFails(t, p)
      PROVE  pc'[s] = pc[s] /\ todo'[s] = todo[s] /\ held'[s] = held[s]
  BY <1>0, <1>6 DEF Step, Crash, Begin, AcquireFails, ReleaseFails, StartWork, EndWork, Return,
     Acquire, GiveUp, Release, TypeOK
<1>7. ASSUME NEW t \in Session, NEW p \in Path, Refresh(t, p)
      PROVE  pc'[s] = pc[s] /\ todo'[s] = todo[s] /\ held'[s] = held[s]
  BY <1>7 DEF Refresh, sessions
<1>8. CASE Tick \/ UNCHANGED vars
  BY <1>5, <1>8 DEF Tick, vars, sessions
<1> QED
  BY <1>1, <1>2, <1>3, <1>4, <1>5, <1>6, <1>7, <1>8 DEF Next, Step

\* In a finite set of paths some path comes last.
LEMMA LastPath ==
  ASSUME NEW W \in SUBSET Path, W # {}
  PROVE  \E p \in W : \A q \in W : ~(Rank[p] < Rank[q])
<1> DEFINE After(p) == {q \in W : Rank[p] < Rank[q]}
           T == {After(p) : p \in W}
           R == StrictSubsetOrdering(Path)
<1>1. IsWellFoundedOn(R, FiniteSubsetsOf(Path))
  BY FS_StrictSubsetOrderingWellFounded
<1>2. T \subseteq FiniteSubsetsOf(Path) /\ T # {}
  <2>1. \A p \in W : After(p) \in SUBSET Path
    OBVIOUS
  <2>2. \A p \in W : IsFiniteSet(After(p))
    BY <2>1, PathAssumption, FS_Subset
  <2> QED
    BY <2>1, <2>2 DEF FiniteSubsetsOf
<1>3. \E x \in T : \A y \in T : ~(<<y, x>> \in R)
  <2> HIDE DEF R, T
  <2> QED
    BY <1>1, <1>2, WFMin
<1>4. PICK p \in W : \A y \in T : ~(<<y, After(p)>> \in R)
  BY <1>3
<1>5. ASSUME NEW q \in W, Rank[p] < Rank[q]
      PROVE  FALSE
  <2>1. \A r \in W : Rank[r] \in Nat
    BY PathAssumption
  <2>2. After(q) \subseteq After(p) /\ q \in After(p) /\ q \notin After(q)
    BY <1>5, <2>1
  <2>3. <<After(q), After(p)>> \in R
    BY <2>2 DEF StrictSubsetOrdering
  <2> QED
    BY <1>4, <2>3
<1> QED
  BY <1>5

\* Requests of one folder, or for folders that are not below each other, never wait in a
\* circle (withMultipleFolderLocks, normalizeAndCollapse): whoever waits for a path keeps
\* only paths that come before it, so the waiter for the last path waits for nobody who
\* waits.  Without the hypothesis the order does not help: {a/b, a/x} and {a/x, a/b/c} wait for
\* each other.
THEOREM WaitsEnd ==
  ASSUME RankIsTotal, RequestsApart
  PROVE  Spec => []NoWaitCycle
<1>1. ASSUME Ordered
      PROVE  NoWaitCycle
  <2> SUFFICES ASSUME NEW T \in SUBSET Session, T # {},
                      \A s \in T : \E t \in T : WaitsFor(s, t)
               PROVE  FALSE
    BY DEF NoWaitCycle
  <2> DEFINE Waits(s, p) == pc[s] = "acquiring" /\ IsNext(s, p) /\ held[s] # {}
             W == {p \in Path : \E s \in T : Waits(s, p)}
  <2>1. ASSUME NEW s \in T, NEW t \in T, WaitsFor(s, t)
        PROVE  \E p \in Path : Waits(t, p)
    <3>1. held[t] # {}
      BY <2>1 DEF WaitsFor
    <3>2. PICK u \in T : WaitsFor(t, u)
      OBVIOUS
    <3> QED
      BY <3>1, <3>2 DEF WaitsFor
  <2>2. W # {}
    BY <2>1
  <2>3. ASSUME NEW p \in W
        PROVE  \E r \in W : Rank[p] < Rank[r]
    <3>1. PICK s \in T : Waits(s, p)
      OBVIOUS
    <3>2. PICK t \in T : WaitsFor(s, t)
      OBVIOUS
    <3>3. PICK r \in Path : Waits(t, r)
      BY <2>1, <3>2
    <3>4. PICK n, q \in Path : /\ IsNext(s, n) /\ q \in held[t]
                               /\ q = n \/ q \in Anc[n] \/ n \in Anc[q]
      BY <3>2 DEF WaitsFor
    <3>5. n = p /\ p \in Path /\ \A x \in Path : Rank[x] \in Nat
      BY <3>1, <3>4, PathAssumption DEF IsNext, RankIsTotal, Ordered, TypeOK
    <3>6. InOrder(s) /\ InOrder(t)
      <4>1. s \in Session /\ t \in Session
        OBVIOUS
      <4> QED
        BY <1>1, <4>1 DEF Ordered
    <3>7. PICK S \in Request : held[s] \cup todo[s] = Collapse(S)
      BY <3>1, <3>6 DEF InOrder
    <3>8. PICK R \in Request : held[t] \cup todo[t] = Collapse(R)
      BY <3>3, <3>6 DEF InOrder
    <3>9. p \in Collapse(S) /\ q \in Collapse(R)
      BY <3>1, <3>4, <3>7, <3>8 DEF IsNext
    <3>10. ~\E x : Collapse(S) = {x}
      <4>1. PICK h \in held[s] : h # p
        BY <3>1, <3>6 DEF InOrder, IsNext
      <4> QED
        BY <3>7, <3>9, <4>1
    <3>11. ~\E x : Collapse(R) = {x}
      <4>1. r \in todo[t] /\ q # r
        BY <3>3, <3>4, <3>6 DEF InOrder, IsNext
      <4> QED
        BY <3>8, <3>9, <4>1
    <3>12. q = p
      BY <3>4, <3>5, <3>9, <3>10, <3>11 DEF RequestsApart
    <3>13. Rank[p] <= Rank[r] /\ p # r
      BY <3>3, <3>4, <3>6, <3>12 DEF InOrder, IsNext
    <3>14. Rank[p] < Rank[r]
      BY <3>5, <3>13 DEF RankIsTotal
    <3> QED
      BY <3>3, <3>14
  <2> HIDE DEF W
  <2>4. W \in SUBSET Path
    BY DEF W
  <2> QED
    BY <2>2, <2>3, <2>4, LastPath
<1> QED
  BY <1>1, OrderedInit, OrderedStep, PTL DEF Spec

===============================================================================
