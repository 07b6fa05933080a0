------------------------- MODULE FileOperationsProofs -------------------------
(***************************************************************************)
(* Two results about the file operations, for any number of files, keys,   *)
(* sessions and requests.  Whatever the operations do, their lock keys     *)
(* behave as FileLock says: the keys implement a mutual exclusion and only *)
(* their owners, or time, take them away.  And with those keys, the unique *)
(* index and the order of the statements, rows and objects stay together:  *)
(* RowsInv, the invariant of the second part, has four layers, each built  *)
(* on those before: Database (writers, keys and statuses, whatever         *)
(* happens), Calls (the lock call a session is in), Sheltered (what the    *)
(* lock gives while nothing disorderly has happened) and Bytes (where the  *)
(* bytes of every file are; one accident spares all files but one).        *)
(***************************************************************************)
EXTENDS FileOperations, TLAPS

LEMMA LockTypeInit == LockInit => LockTypeOK
BY FileLockAssumption DEF LockInit, LockTypeOK, Phase

LEMMA LockTypeStep == LockTypeOK /\ [LockNext]_lockVars => LockTypeOK'
<1> SUFFICES ASSUME LockTypeOK, [LockNext]_lockVars PROVE LockTypeOK'
  OBVIOUS
<1> USE FileLockAssumption DEF LockTypeOK, Phase
<1>1. CASE SlotTick
  BY <1>1 DEF SlotTick, calls
<1>2. ASSUME NEW s \in Session, NEW K \in SUBSET Key, BeginLock(s, K)
      PROVE  LockTypeOK'
  BY <1>2 DEF BeginLock, slots
<1>3. ASSUME NEW s \in Session, NEW k \in Key, GetLock(s, k)
      PROVE  LockTypeOK'
  BY <1>3 DEF GetLock, SetSlot
<1>4. ASSUME NEW s \in Session, NEW k \in Key, MissLock(s, k)
      PROVE  LockTypeOK'
  BY <1>4 DEF MissLock, SetSlot, slots
<1>5. ASSUME NEW s \in Session, NEW k \in Key, Heartbeat(s, k)
      PROVE  LockTypeOK'
  BY <1>5 DEF Heartbeat, RefreshSlotIfValue, calls
<1>6. ASSUME NEW s \in Session, NEW k \in Key, DropLock(s, k)
      PROVE  LockTypeOK'
  BY <1>6 DEF DropLock, ReleaseSlotWithValue, slots
<1>7. ASSUME NEW s \in Session,
             EnterLocked(s) \/ LeaveLocked(s) \/ EndCall(s) \/ LockerRestarts(s)
      PROVE  LockTypeOK'
  BY <1>7 DEF EnterLocked, LeaveLocked, EndCall, LockerRestarts, slots
<1>8. ASSUME NEW s \in Session, LockerDies(s)
      PROVE  LockTypeOK'
  BY <1>8 DEF LockerDies, slots
<1>9. CASE UNCHANGED lockVars
  BY <1>9 DEF lockVars
<1> QED
  BY <1>1, <1>2, <1>3, <1>4, <1>5, <1>6, <1>7, <1>8, <1>9 DEF LockNext

LEMMA LockTypeCorrect == LockSpec => []LockTypeOK
BY LockTypeInit, LockTypeStep, PTL DEF LockSpec

-----------------------------------------------------------------------------
(* Types of the file operations. *)

LEMMA NoJobIsJob == NoJob \in Job
<1>1. \E o \in Op, f \in File, d \in Folder, n \in Name : TRUE
  BY FileAssumption DEF File
<1>2. \E j \in Job : TRUE
  <2>1. PICK o \in Op, f \in File, d \in Folder, n \in Name : TRUE
    BY <1>1
  <2>2. [op |-> o, file |-> f, folder |-> d, name |-> n] \in Job
    BY DEF Job
  <2> QED
    BY <2>2
<1> QED
  BY <1>2 DEF NoJob

\* What is typed besides the locks.
FilesOK ==
  /\ row \in [File -> Row \cup {Gone}]
  /\ object \in [Place -> File \cup {Gone}]
  /\ draft \in [Session -> Row \cup {Gone, None}]
  /\ job \in [Session -> Job]
  /\ copy \in [Session -> Row \cup {Gone}]
  /\ step \in [Session -> Step]
  /\ asked \in 0..MaxRequests
  /\ open \in [Session -> BOOLEAN]
  /\ touched \in [Session -> BOOLEAN]
  /\ cause \in SUBSET Cause

\* Whoever is about to write a row or change the store has read the row.
ReadFirst ==
  \A s \in Session :
    /\ step[s] \in {"check", "copying", "source", "copy", "cut", "uploaded",
                    "delete", "erase", "write"} => copy[s] \in Row
    /\ step[s] = "find" => job[s].op = "delete"
    /\ step[s] = "lock" /\ job[s].op = "apps" => copy[s] \in Row

FilesInv == FilesOK /\ ReadFirst

LEMMA FilesInit == Init => FilesInv
<1> SUFFICES ASSUME Init PROVE FilesOK /\ ReadFirst
  BY DEF FilesInv
<1>0. FilesOK
  <2>1. row \in [File -> Row \cup {Gone}]
    BY FileAssumption DEF Init, Row
  <2>2. object \in [Place -> File \cup {Gone}]
    <3>1. ASSUME NEW p \in Place, \E f \in File : Home[f] = p
          PROVE  (CHOOSE f \in File : Home[f] = p) \in File
      BY <3>1
    <3> QED
      BY <3>1 DEF Init
  <2>3. asked \in 0..MaxRequests
    BY FileAssumption DEF Init
  <2> QED
    BY <2>1, <2>2, <2>3, NoJobIsJob DEF Init, FilesOK, Step
<1>1. ReadFirst
  BY DEF Init, ReadFirst
<1> QED
  BY <1>0, <1>1

LEMMA StartKeeps ==
  ASSUME FilesOK, NEW s \in Session,
         \/ \E j \in Job : Request(s, j)
         \/ FindFile(s) \/ PurgeObject(s) \/ ReadEarly(s)
         \/ Locking(s) \/ Locked(s) \/ Beat(s)
  PROVE  FilesOK'
<1>1. ASSUME NEW j \in Job, Request(s, j) PROVE FilesOK'
  <2>1. asked' \in 0..MaxRequests
    BY <1>1, FileAssumption DEF Request, FilesOK
  <2> QED
    BY <1>1, <2>1 DEF Request, FilesOK, Goto, Step
<1>2. CASE FindFile(s)
  <2>1. job' \in [Session -> Job]
    <3>1. \A f \in File : [job EXCEPT ![s].file = f] \in [Session -> Job]
      BY DEF FilesOK, Job
    <3>2. job' = job \/ \E f \in File : job' = [job EXCEPT ![s].file = f]
      BY <1>2 DEF FindFile
    <3> QED
      BY <3>1, <3>2 DEF FilesOK
  <2>2. step' \in [Session -> Step]
    BY <1>2 DEF FindFile, FilesOK, Goto, Step
  <2> QED
    BY <1>2, <2>1, <2>2 DEF FindFile, FilesOK, Keep
<1>3. CASE PurgeObject(s)
  BY <1>3 DEF PurgeObject, FilesOK, Goto, Step, After, Cause
<1>4. CASE ReadEarly(s)
  BY <1>4 DEF ReadEarly, FilesOK, Goto, Step, Job
<1>5. CASE Locking(s)
  BY <1>5 DEF Locking, FilesOK, Goto, Step
<1>6. CASE Locked(s)
  BY <1>6 DEF Locked, FilesOK, Goto, Step, Keep
<1>7. CASE Beat(s)
  BY <1>7 DEF Beat, FilesOK, Keep
<1> QED
  BY <1>1, <1>2, <1>3, <1>4, <1>5, <1>6, <1>7

LEMMA StartReads ==
  ASSUME FilesInv, NEW s \in Session,
         \/ \E j \in Job : Request(s, j)
         \/ FindFile(s) \/ PurgeObject(s) \/ ReadEarly(s)
         \/ Locking(s) \/ Locked(s) \/ Beat(s)
  PROVE  ReadFirst'
<1>1. ASSUME NEW j \in Job, Request(s, j) PROVE ReadFirst'
  BY <1>1 DEF Request, FilesInv, FilesOK, ReadFirst, Goto, Keep, Step
<1>2. CASE FindFile(s)
  <2>1. job[s].op = "delete" /\ copy' = copy
    BY <1>2 DEF FindFile, FilesInv, ReadFirst, Keep
  <2>2. \E m \in {"lock", "abort", "purge"} : step' = [step EXCEPT ![s] = m]
    BY <1>2 DEF FindFile, Goto
  <2>3. \A t \in Session : job'[t].op = job[t].op
    <3>1. CASE job' = job
      BY <3>1
    <3>2. ASSUME NEW f \in File, job' = [job EXCEPT ![s].file = f]
          PROVE  \A t \in Session : job'[t].op = job[t].op
      BY <3>2 DEF FilesInv, FilesOK, Job
    <3> QED
      BY <1>2, <3>1, <3>2 DEF FindFile
  <2> QED
    BY <2>1, <2>2, <2>3 DEF FilesInv, FilesOK, ReadFirst
<1>3. CASE PurgeObject(s)
  BY <1>3 DEF PurgeObject, FilesInv, FilesOK, ReadFirst, Goto, Step
<1>4. CASE ReadEarly(s)
  BY <1>4 DEF ReadEarly, FilesInv, FilesOK, ReadFirst, Goto, Step, Job
<1>5. CASE Locking(s)
  BY <1>5 DEF Locking, FilesInv, FilesOK, ReadFirst, Goto, Step
<1>6. CASE Locked(s)
  BY <1>6 DEF Locked, FilesInv, FilesOK, ReadFirst, Goto, Step, Keep
<1>7. CASE Beat(s)
  BY <1>7 DEF Beat, FilesInv, FilesOK, ReadFirst, Keep
<1> QED
  BY <1>1, <1>2, <1>3, <1>4, <1>5, <1>6, <1>7

LEMMA TargetPlace ==
  ASSUME FilesOK, NEW s \in Session, copy[s] \in Row
  PROVE  /\ Target(s) \in Place
         /\ [copy[s] EXCEPT !.status = "COPYING", !.at = Target(s)] \in Row
         /\ [copy[s] EXCEPT !.at = Target(s)] \in Row
<1>1. copy[s].at[1] \in Folder /\ copy[s].at[2] \in Name
  BY DEF Row, Place
<1>2. Target(s) \in Place
  BY <1>1 DEF Target, FilesOK, Job, Place
<1> QED
  BY <1>2 DEF Row

LEMMA UpdateKeeps ==
  ASSUME FilesInv, NEW s \in Session, NEW r \in Row,
         NEW l \in {"source", "leave"}, UpdateRow(s, r, l),
         step[s] \in {"copying", "uploaded", "write"},
         UNCHANGED <<object, job, asked, open, touched>>, cause' \in SUBSET Cause
  PROVE  FilesInv'
<1>1. row' = row /\ copy' = copy /\ copy[s] \in Row
  BY DEF UpdateRow, FilesInv, ReadFirst
<1>2. draft' \in [Session -> Row \cup {Gone, None}]
  BY DEF UpdateRow, FilesInv, FilesOK
<1>3. \E m \in {l, "fail"} : step' = [step EXCEPT ![s] = m]
  BY DEF UpdateRow, Goto
<1>4. FilesOK'
  BY <1>1, <1>2, <1>3 DEF FilesInv, FilesOK, Step
<1>5. ReadFirst'
  BY <1>1, <1>3 DEF FilesInv, FilesOK, ReadFirst
<1> QED
  BY <1>4, <1>5 DEF FilesInv

LEMMA WorkKeeps ==
  ASSUME FilesInv, NEW s \in Session,
         \/ ReadRow(s) \/ CheckDestination(s) \/ WriteCopying(s) \/ CheckSource(s)
         \/ CopyObject(s) \/ CutObject(s) \/ WriteUploaded(s)
         \/ DeleteFileRow(s) \/ EraseObject(s) \/ WriteRow(s)
  PROVE  FilesInv'
<1>1. CASE ReadRow(s)
  <2>1. Visible(s, job[s].file) \in Row \cup {Gone}
    BY DEF Visible, FilesInv, FilesOK, Job
  <2> DEFINE r == Visible(s, job[s].file)
  <2>2. /\ copy' = [copy EXCEPT ![s] = r]
        /\ \E m \in {"fail", "check", "delete", "write"} :
              step' = [step EXCEPT ![s] = m] /\ (m # "fail" => r # Gone)
    BY <1>1 DEF ReadRow, Goto
  <2>3. UNCHANGED <<job, row, object, draft, asked, open, touched>>
    BY <1>1 DEF ReadRow, Working
  <2>4. cause' \in SUBSET Cause
    BY <1>1 DEF ReadRow, FilesInv, FilesOK, Cause
  <2>5. FilesOK'
    BY <2>1, <2>2, <2>3, <2>4 DEF FilesInv, FilesOK, Step
  <2>6. ReadFirst'
    BY <2>1, <2>2, <2>3 DEF FilesInv, FilesOK, ReadFirst
  <2> QED
    BY <2>5, <2>6 DEF FilesInv
<1>2. CASE CheckDestination(s)
  BY <1>2 DEF CheckDestination, Working, Keep, Goto, FilesInv, FilesOK, ReadFirst, Step
<1>3. CASE WriteCopying(s)
  BY <1>3, TargetPlace, UpdateKeeps
  DEF WriteCopying, Working, FilesInv, FilesOK, ReadFirst
<1>4. CASE CheckSource(s)
  BY <1>4 DEF CheckSource, Working, Goto, After, Cause, FilesInv, FilesOK, ReadFirst, Step
<1>5. CASE CopyObject(s)
  <2>1. Target(s) \in Place /\ copy[s].at \in Place
    BY <1>5, TargetPlace DEF CopyObject, Working, FilesInv, ReadFirst, Row
  <2> QED
    BY <1>5, <2>1 DEF CopyObject, Working, Goto, FilesInv, FilesOK, ReadFirst, Step
<1>6. CASE CutObject(s)
  BY <1>6 DEF CutObject, Working, Goto, FilesInv, FilesOK, ReadFirst, Step
<1>7. CASE WriteUploaded(s)
  BY <1>7, TargetPlace, UpdateKeeps
  DEF WriteUploaded, Working, FilesInv, FilesOK, ReadFirst
<1>8. CASE DeleteFileRow(s)
  BY <1>8 DEF DeleteFileRow, DeleteRow, Working, Goto, FilesInv, FilesOK, ReadFirst, Step
<1>9. CASE EraseObject(s)
  BY <1>9 DEF EraseObject, Working, Goto, FilesInv, FilesOK, ReadFirst, Step
<1>10. CASE WriteRow(s)
  <2>1. cause' \in SUBSET Cause
    BY <1>10 DEF WriteRow, FilesInv, FilesOK, Cause
  <2> QED
    BY <1>10, <2>1, UpdateKeeps DEF WriteRow, Working, FilesInv, FilesOK, ReadFirst
<1> QED
  BY <1>1, <1>2, <1>3, <1>4, <1>5, <1>6, <1>7, <1>8, <1>9, <1>10

LEMMA EndKeeps ==
  ASSUME FilesInv, NEW s \in Session,
         \/ Unlocked(s) \/ Commit(s) \/ Rollback(s)
         \/ Timeout(s) \/ Die(s) \/ Restart(s)
  PROVE  FilesInv'
<1>1. CASE Unlocked(s)
  BY <1>1 DEF Unlocked, Keep, Goto, FilesInv, FilesOK, ReadFirst, Step
<1>2. CASE Commit(s)
  <2>1. row' \in [File -> Row \cup {Gone}]
    BY <1>2 DEF Commit, FilesInv, FilesOK, Job
  <2> QED
    BY <1>2, <2>1, NoJobIsJob DEF Commit, Reset, Goto, FilesInv, FilesOK, ReadFirst, Step
<1>3. CASE Rollback(s)
  BY <1>3, NoJobIsJob
  DEF Rollback, Reset, Goto, After, Cause, FilesInv, FilesOK, ReadFirst, Step
<1>4. CASE Timeout(s)
  BY <1>4 DEF Timeout, Cause, FilesInv, FilesOK, ReadFirst
<1>5. CASE Die(s)
  BY <1>5, NoJobIsJob
  DEF Die, Reset, Goto, After, Cause, FilesInv, FilesOK, ReadFirst, Step
<1>6. CASE Restart(s)
  BY <1>6 DEF Restart, Keep, Goto, FilesInv, FilesOK, ReadFirst, Step
<1> QED
  BY <1>1, <1>2, <1>3, <1>4, <1>5, <1>6

LEMMA FilesStep == FilesInv /\ [Next]_vars => FilesInv'
<1> SUFFICES ASSUME FilesInv, [Next]_vars PROVE FilesInv'
  OBVIOUS
<1>1. CASE UNCHANGED vars
  BY <1>1 DEF vars, FilesInv, FilesOK, ReadFirst
<1>2. CASE Tick
  <2>1. cause' \in SUBSET Cause
    BY <1>2 DEF Tick, Cause, FilesInv, FilesOK
  <2> QED
    BY <1>2, <2>1 DEF Tick, FilesInv, FilesOK, ReadFirst
<1>3. ASSUME NEW s \in Session, \E j \in Job : Request(s, j)
      PROVE  FilesInv'
  BY <1>3, StartKeeps, StartReads DEF FilesInv
<1>4. ASSUME NEW s \in Session, Advance(s) \/ Beat(s) \/ Timeout(s) \/ Die(s) \/ Restart(s)
      PROVE  FilesInv'
  <2>1. CASE \/ FindFile(s) \/ PurgeObject(s) \/ ReadEarly(s)
             \/ Locking(s) \/ Locked(s) \/ Beat(s)
    BY <2>1, StartKeeps, StartReads DEF FilesInv
  <2>2. CASE \/ ReadRow(s) \/ CheckDestination(s) \/ WriteCopying(s) \/ CheckSource(s)
             \/ CopyObject(s) \/ CutObject(s) \/ WriteUploaded(s)
             \/ DeleteFileRow(s) \/ EraseObject(s) \/ WriteRow(s)
    BY <2>2, WorkKeeps
  <2>3. CASE \/ Unlocked(s) \/ Commit(s) \/ Rollback(s)
             \/ Timeout(s) \/ Die(s) \/ Restart(s)
    BY <2>3, EndKeeps
  <2> QED
    BY <1>4, <2>1, <2>2, <2>3 DEF Advance
<1> QED
  BY <1>1, <1>2, <1>3, <1>4 DEF Next

\* Every step of the file operations is a step of the lock service or leaves the
\* locks alone.
LEMMA EveryStepLocks == FilesInv /\ [Next]_vars => [LockNext]_lockVars
<1> SUFFICES ASSUME FilesInv, Next PROVE LockNext \/ UNCHANGED lockVars
  BY DEF vars
<1>0. ASSUME NEW s \in Session, NEW f \in File, BeginLock(s, {f})
      PROVE  LockNext
  <2>1. {f} \in (SUBSET Key) \ {{}}
    BY DEF File
  <2> QED
    BY <1>0, <2>1 DEF LockNext
<1>1. CASE Tick
  BY <1>1 DEF Tick, LockNext
<1>2. ASSUME NEW s \in Session, NEW j \in Job, Request(s, j)
      PROVE  LockNext \/ UNCHANGED lockVars
  <2>1. j.file \in File
    BY DEF Job
  <2>2. UNCHANGED lockVars \/ BeginLock(s, {j.file})
    BY <1>2 DEF Request
  <2> QED
    BY <1>0, <2>1, <2>2
<1>3. ASSUME NEW s \in Session, FindFile(s)
      PROVE  LockNext \/ UNCHANGED lockVars
  BY <1>0, <1>3 DEF FindFile
<1>4. ASSUME NEW s \in Session, ReadEarly(s)
      PROVE  LockNext \/ UNCHANGED lockVars
  <2>1. job[s].file \in File
    BY DEF FilesInv, FilesOK, Job
  <2> QED
    BY <1>0, <1>4, <2>1 DEF ReadEarly
<1>5. ASSUME NEW s \in Session,
             Locking(s) \/ Locked(s) \/ Beat(s) \/ Unlocked(s) \/ Die(s) \/ Restart(s)
      PROVE  LockNext \/ UNCHANGED lockVars
  BY <1>5 DEF Locking, Locked, Beat, Unlocked, Die, Restart, LockNext
<1>6. ASSUME NEW s \in Session, \E l \in Step : Working(s, l)
      PROVE  UNCHANGED lockVars
  BY <1>6 DEF Working
<1>7. ASSUME NEW s \in Session,
             PurgeObject(s) \/ Commit(s) \/ Rollback(s) \/ Timeout(s)
      PROVE  UNCHANGED lockVars
  BY <1>7 DEF PurgeObject, Commit, Rollback, Timeout
<1> QED
  BY <1>1, <1>2, <1>3, <1>4, <1>5, <1>6, <1>7
  DEF Next, Advance, Step, ReadRow, CheckDestination, WriteCopying, CheckSource,
      CopyObject, CutObject, WriteUploaded, DeleteFileRow, EraseObject, WriteRow

\* Types hold in every reachable state, for any number of files, places, requests
\* and any faults.
THEOREM TypeCorrect == Spec => []TypeOK
<1>1. Init => LockTypeOK /\ FilesInv
  BY LockTypeInit, FilesInit DEF Init
<1>2. LockTypeOK /\ FilesInv /\ [Next]_vars => (LockTypeOK /\ FilesInv)'
  BY LockTypeStep, FilesStep, EveryStepLocks
<1>3. LockTypeOK /\ FilesInv => TypeOK
  BY DEF TypeOK, FilesInv, FilesOK
<1> QED
  BY <1>1, <1>2, <1>3, PTL DEF Spec

\* The file operations implement the lock service: they lock, refresh and release
\* only through withFileLock, whatever they do to rows and objects meanwhile.
THEOREM OperationsUseLocks == Spec => LockSpec
<1>1. Init => LockInit
  BY DEF Init
<1> QED
  BY <1>1, FilesInit, FilesStep, EveryStepLocks, PTL DEF Spec, LockSpec

\* A slot has time left exactly while it has a value.
SlotsLive == \A k \in Key : slot[k] = None <=> slotTtl[k] = 0

LEMMA SlotsLiveStep == LockTypeOK /\ SlotsLive /\ [LockNext]_lockVars => SlotsLive'
<1> SUFFICES ASSUME LockTypeOK, SlotsLive, [LockNext]_lockVars PROVE SlotsLive'
  OBVIOUS
<1>1. CASE SlotTick
  BY <1>1 DEF SlotTick, SlotsLive, LockTypeOK
<1>2. ASSUME NEW s \in Session, NEW k \in Key, SetSlot(s, k)
      PROVE  SlotsLive'
  BY <1>2, FileLockAssumption DEF SetSlot, SlotsLive, LockTypeOK
<1>3. ASSUME NEW s \in Session, NEW k \in Key, Heartbeat(s, k)
      PROVE  SlotsLive'
  BY <1>3, FileLockAssumption DEF Heartbeat, RefreshSlotIfValue, SlotsLive, LockTypeOK
<1>4. ASSUME NEW s \in Session, NEW k \in Key, ReleaseSlotWithValue(s, k)
      PROVE  SlotsLive'
  BY <1>4 DEF ReleaseSlotWithValue, slots, SlotsLive, LockTypeOK
<1>5. CASE UNCHANGED slots
  BY <1>5 DEF slots, SlotsLive
<1> QED
  BY <1>1, <1>2, <1>3, <1>4, <1>5
  DEF LockNext, lockVars, slots, BeginLock, GetLock, MissLock, DropLock, EnterLocked,
      LeaveLocked, EndCall, LockerDies, LockerRestarts

LEMMA SlotsAlwaysLive == LockSpec => [](LockTypeOK /\ SlotsLive)
<1>1. LockInit => SlotsLive
  BY DEF LockInit, SlotsLive
<1> QED
  BY <1>1, LockTypeInit, LockTypeStep, SlotsLiveStep, PTL DEF LockSpec

\* The lock keys of files implement a mutual exclusion without keys, times or
\* sessions: setSlot takes only a free key, everything else only frees keys.
THEOREM LocksImplementMutex == Spec => ImplementsFileMutex
<1>1. LockInit => FileMutex!Init
  BY DEF LockInit, FileMutex!Init
<1>2. LockTypeOK /\ SlotsLive /\ [LockNext]_lockVars => [FileMutex!Next]_slot
  <2> SUFFICES ASSUME LockTypeOK, SlotsLive, LockNext
               PROVE  FileMutex!Next \/ UNCHANGED slot
    BY DEF lockVars
  <2>1. CASE SlotTick
    <3> DEFINE Out == {k \in Key : slotTtl[k] = 1}
    <3>1. FileMutex!Free(Out)
      BY <2>1 DEF SlotTick, FileMutex!Free
    <3>2. Out \subseteq FileMutex!Owned
      BY DEF SlotsLive, FileMutex!Owned
    <3> QED
      BY <3>1, <3>2 DEF FileMutex!Next
  <2>2. ASSUME NEW s \in Session, NEW k \in Key, SetSlot(s, k)
        PROVE  FileMutex!Next
    <3>1. FileMutex!Take(s, k)
      BY <2>2 DEF SetSlot, FileMutex!Take, FileMutex!Related
    <3> QED
      BY <3>1 DEF FileMutex!Next
  <2>3. ASSUME NEW s \in Session, NEW k \in Key, ReleaseSlotWithValue(s, k)
        PROVE  FileMutex!Next \/ UNCHANGED slot
    <3>1. CASE slot[k] # s
      BY <2>3, <3>1 DEF ReleaseSlotWithValue, slots
    <3>2. CASE slot[k] = s
      <4>1. FileMutex!Free({k})
        BY <2>3, <3>2 DEF ReleaseSlotWithValue, FileMutex!Free, LockTypeOK
      <4>2. {k} \subseteq FileMutex!Owned
        BY <3>2, FileLockAssumption DEF FileMutex!Owned
      <4> QED
        BY <4>1, <4>2 DEF FileMutex!Next
    <3> QED
      BY <3>1, <3>2
  <2>4. CASE UNCHANGED slot
    BY <2>4
  <2> QED
    BY <2>1, <2>2, <2>3, <2>4
    DEF LockNext, slots, BeginLock, GetLock, MissLock, Heartbeat, RefreshSlotIfValue,
        DropLock, EnterLocked, LeaveLocked, EndCall, LockerDies, LockerRestarts
<1> QED
  BY <1>1, <1>2, SlotsAlwaysLive, OperationsUseLocks, PTL
  DEF LockSpec, ImplementsFileMutex, FileMutex!Spec

\* A key that a call set goes away by that call's own release or by time: the late
\* release, or the heartbeat, of a call that lost its key touches nobody else's.
THEOREM OwnersUnlock == Spec => OnlyOwnerUnlocks
<1> DEFINE Kept == \A s \in Session, k \in Key :
                     slot[k] = s /\ slot'[k] # s =>
                       \/ slotTtl[k] = 1 /\ slot'[k] = None /\ UNCHANGED taken
                       \/ k \in taken[s] /\ k \notin taken'[s]
<1>1. LockTypeOK /\ [LockNext]_lockVars => [Kept]_lockVars
  <2> SUFFICES ASSUME LockTypeOK, LockNext PROVE Kept
    OBVIOUS
  <2>1. CASE SlotTick
    BY <2>1 DEF SlotTick, calls
  <2>2. ASSUME NEW s \in Session, NEW k \in Key, SetSlot(s, k)
        PROVE  Kept
    BY <2>2, FileLockAssumption DEF SetSlot, LockTypeOK
  <2>3. ASSUME NEW s \in Session, NEW k \in Key, DropLock(s, k)
        PROVE  Kept
    BY <2>3 DEF DropLock, ReleaseSlotWithValue, slots, LockTypeOK
  <2>4. CASE UNCHANGED slot
    BY <2>4
  <2> QED
    BY <2>1, <2>2, <2>3, <2>4
    DEF LockNext, slots, BeginLock, GetLock, MissLock, Heartbeat, RefreshSlotIfValue,
        EnterLocked, LeaveLocked, EndCall, LockerDies, LockerRestarts
<1> QED
  BY <1>1, LockTypeCorrect, OperationsUseLocks, PTL DEF LockSpec, OnlyOwnerUnlocks

-----------------------------------------------------------------------------
(* Rows.  The database alone keeps one writer per row and one row per key;   *)
(* the rest holds as long as no lock was lost, no transaction timed out and  *)
(* no row was read or written back beside an open change.                    *)

Writing == {"source", "copy", "cut", "uploaded"}
Holding == {"check", "copying", "source", "copy", "cut", "uploaded", "delete", "erase"}
Inside == Holding \cup {"read", "write"}
Ending == {"leave", "fail", "commit", "abort"}

\* The keys of a file: the one of its row, and the one an open transaction gives it.
KeysOf(f) ==
  {p \in Place : \/ row[f] # Gone /\ row[f].at = p
                 \/ \E t \in Session : /\ job[t].file = f /\ draft[t] \notin {None, Gone}
                                       /\ draft[t].at = p}

\* What holds of the transaction of s, whatever happens.
Transaction(s) ==
  /\ draft[s] # None => /\ step[s] \in Writing \cup {"erase"} \cup Ending /\ open[s]
                        /\ row[job[s].file] # Gone
                        /\ \A t \in Others(s) : draft[t] = None \/ job[t].file # job[s].file
  /\ touched[s] => step[s] \in {"cut", "uploaded"} \cup Ending
  /\ step[s] \in {"copying", "source", "copy", "cut", "uploaded"} => Target(s) # copy[s].at

\* No row in the status COPYING is committed.
Statuses(s) ==
  /\ step[s] \in Holding \cup {"write"} \/ (step[s] = "lock" /\ job[s].op = "apps") =>
       copy[s].status = "UPLOADED"
  /\ step[s] = "erase" => draft[s] \in {None, Gone}
  /\ draft[s] \notin {None, Gone} /\ step[s] \in {"leave", "commit"} => draft[s].status = "UPLOADED"

Database ==
  /\ \A s \in Session : Transaction(s) /\ Statuses(s)
  /\ \A f \in File : row[f] # Gone => row[f].status = "UPLOADED"
  /\ \A f, g \in File : f # g => KeysOf(f) \cap KeysOf(g) = {}

Orderly == cause \cap {"lockLost", "uncommitted", "stale", "timeout"} = {}

\* The call of the lock service that s is in, and the key it is about.
Calling(s) ==
  /\ step[s] \in {"idle", "find", "early", "purge", "commit", "abort"} => phase[s] = "free"
  /\ step[s] = "lock" => phase[s] = "acquiring"
  /\ step[s] \in Inside => phase[s] = "locked"
  /\ step[s] \in {"leave", "fail"} => phase[s] \in {"locked", "releasing"}
  /\ step[s] = "dead" => phase[s] \in {"free", "dead"}
  /\ phase[s] \in {"free", "dead"} => taken[s] = {} /\ wanted[s] = {}
  /\ phase[s] \in {"locked", "releasing"} => wanted[s] = {}
  /\ phase[s] \in {"acquiring", "locked"} => wanted[s] \cup taken[s] = {job[s].file}

Calls == \A s \in Session : Calling(s)

\* What the lock of the file gives to s.
Protected(s) ==
  /\ \A k \in taken[s] : slot[k] = s
  /\ step[s] \notin {"idle", "dead"} => open[s]
  /\ step[s] \in Writing \cup {"erase"} => draft[s] # None
  /\ step[s] \in Writing => draft[s] # Gone /\ draft[s].at = Target(s)
  /\ step[s] = "erase" => draft[s] = Gone
  /\ step[s] \in Holding \/ draft[s] # None => copy[s] = row[job[s].file]
  /\ step[s] \in Holding => Changing(job[s].file, Others(s)) = {}

Sheltered == Orderly => \A s \in Session : Protected(s)

\* The bytes of f are where its rows say, and nowhere else.
Fine(f) ==
  row[f] # Gone =>
    /\ \A p \in Place : object[p] = f => p \in KeysOf(f)
    /\ object[row[f].at] \in {f, Gone}
    /\ Changing(f, Session) = {} => object[row[f].at] = f
    /\ \A s \in Changing(f, Session) :
         /\ ~touched[s] => /\ object[row[f].at] = f
                           /\ draft[s] # Gone /\ draft[s].at # row[f].at => object[draft[s].at] # f
         /\ step[s] \in {"cut", "uploaded"} => object[draft[s].at] = f
         /\ step[s] = "uploaded" => object[row[f].at] = Gone
         /\ step[s] \in {"leave", "commit"} /\ draft[s] # Gone =>
              /\ object[draft[s].at] = f
              /\ draft[s].at # row[f].at => object[row[f].at] # f

\* After one accident there is one file that it hit.
Bytes ==
  /\ cause = {} => \A f \in File : Fine(f)
  /\ OneAccident => \E a \in File : \A f \in File \ {a} : Fine(f)

RowsInv == Database /\ Calls /\ Sheltered /\ Bytes

-----------------------------------------------------------------------------
(* What a step does.                                                        *)

Typed == LockTypeOK /\ FilesInv

\* A step of s changes nothing of another session.
OthersSame(s) ==
  \A t \in Others(s) :
    /\ step'[t] = step[t] /\ draft'[t] = draft[t] /\ job'[t] = job[t] /\ copy'[t] = copy[t]
    /\ touched'[t] = touched[t] /\ open'[t] = open[t]
    /\ phase'[t] = phase[t] /\ wanted'[t] = wanted[t] /\ taken'[t] = taken[t]

LEMMA LockOthers ==
  ASSUME LockTypeOK, NEW s \in Session,
         \/ UNCHANGED lockVars \/ (\E K : BeginLock(s, K))
         \/ (\E k \in Key : GetLock(s, k) \/ MissLock(s, k) \/ DropLock(s, k) \/ Heartbeat(s, k))
         \/ EnterLocked(s) \/ LeaveLocked(s) \/ EndCall(s) \/ LockerDies(s) \/ LockerRestarts(s)
  PROVE  \A t \in Others(s) : phase'[t] = phase[t] /\ wanted'[t] = wanted[t] /\ taken'[t] = taken[t]
<1> USE DEF Others
<1>1. CASE UNCHANGED lockVars
  BY <1>1 DEF lockVars
<1>2. ASSUME NEW K, BeginLock(s, K)
      PROVE  \A t \in Others(s) : phase'[t] = phase[t] /\ wanted'[t] = wanted[t] /\ taken'[t] = taken[t]
  BY <1>2 DEF BeginLock, LockTypeOK
<1>3. ASSUME NEW k \in Key, GetLock(s, k) \/ MissLock(s, k) \/ DropLock(s, k) \/ Heartbeat(s, k)
      PROVE  \A t \in Others(s) : phase'[t] = phase[t] /\ wanted'[t] = wanted[t] /\ taken'[t] = taken[t]
  BY <1>3 DEF GetLock, MissLock, DropLock, Heartbeat, LockTypeOK, calls
<1>4. CASE EnterLocked(s) \/ LeaveLocked(s) \/ EndCall(s) \/ LockerDies(s) \/ LockerRestarts(s)
  BY <1>4 DEF EnterLocked, LeaveLocked, EndCall, LockerDies, LockerRestarts, LockTypeOK
<1> QED
  BY <1>1, <1>2, <1>3, <1>4

Act(s) ==
  \/ \E j \in Job : Request(s, j)
  \/ Advance(s) \/ Beat(s) \/ Timeout(s) \/ Die(s) \/ Restart(s)

LEMMA LockAction ==
  ASSUME Typed, NEW s \in Session, Act(s)
  PROVE  \/ UNCHANGED lockVars \/ (\E K : BeginLock(s, K))
         \/ (\E k \in Key : GetLock(s, k) \/ MissLock(s, k) \/ DropLock(s, k) \/ Heartbeat(s, k))
         \/ EnterLocked(s) \/ LeaveLocked(s) \/ EndCall(s) \/ LockerDies(s) \/ LockerRestarts(s)
<1>1. CASE \E l \in Step : Working(s, l)
  BY <1>1 DEF Working
<1>2. CASE ~\E l \in Step : Working(s, l)
  BY <1>2 DEF Act, Advance, Step, Request, FindFile, PurgeObject, ReadEarly, Locking, Locked, Beat,
     ReadRow, CheckDestination, WriteCopying, CheckSource, CopyObject, CutObject, WriteUploaded,
     DeleteFileRow, EraseObject, WriteRow, Unlocked, Commit, Rollback, Timeout, Die, Restart
<1> QED
  BY <1>1, <1>2

LEMMA OnlyOwn ==
  ASSUME Typed, NEW s \in Session, Act(s)
  PROVE  OthersSame(s)
<1>0. LockTypeOK /\ FilesOK
  BY DEF Typed, FilesInv
<1>1. \A t \in Others(s) : phase'[t] = phase[t] /\ wanted'[t] = wanted[t] /\ taken'[t] = taken[t]
  BY <1>0, LockAction, LockOthers
<1>2. \A t \in Others(s) : /\ step'[t] = step[t] /\ draft'[t] = draft[t] /\ job'[t] = job[t]
                           /\ copy'[t] = copy[t] /\ touched'[t] = touched[t] /\ open'[t] = open[t]
  <2> USE <1>0 DEF FilesOK, Others, Goto, Keep, Working
  <2>1. ASSUME NEW j \in Job, Request(s, j)
        PROVE  \A t \in Others(s) : /\ step'[t] = step[t] /\ draft'[t] = draft[t] /\ job'[t] = job[t]
                                    /\ copy'[t] = copy[t] /\ touched'[t] = touched[t] /\ open'[t] = open[t]
    BY <2>1 DEF Request
  <2>2. CASE FindFile(s) \/ PurgeObject(s) \/ ReadEarly(s)
    BY <2>2 DEF FindFile, PurgeObject, ReadEarly
  <2>3. CASE Locking(s) \/ Locked(s) \/ Beat(s)
    BY <2>3 DEF Locking, Locked, Beat
  <2>4. CASE ReadRow(s) \/ CheckDestination(s) \/ CheckSource(s)
    BY <2>4 DEF ReadRow, CheckDestination, CheckSource
  <2>5. CASE WriteCopying(s) \/ WriteUploaded(s) \/ WriteRow(s) \/ DeleteFileRow(s)
    BY <2>5 DEF WriteCopying, WriteUploaded, WriteRow, DeleteFileRow, UpdateRow, DeleteRow
  <2>6. CASE CopyObject(s) \/ CutObject(s) \/ EraseObject(s)
    BY <2>6 DEF CopyObject, CutObject, EraseObject
  <2>7. CASE Unlocked(s) \/ Commit(s) \/ Rollback(s)
    BY <2>7 DEF Unlocked, Commit, Rollback, Reset
  <2>8. CASE Timeout(s) \/ Die(s) \/ Restart(s)
    BY <2>8 DEF Timeout, Die, Restart, Reset
  <2> QED
    BY <2>1, <2>2, <2>3, <2>4, <2>5, <2>6, <2>7, <2>8 DEF Act, Advance
<1> QED
  BY <1>1, <1>2 DEF OthersSame

\* An operation starts.
LEMMA StartEffect ==
  ASSUME Typed, NEW s \in Session, (\E j \in Job : Request(s, j)) \/ FindFile(s) \/ ReadEarly(s)
  PROVE  /\ step[s] \in {"idle", "find", "early"}
         /\ step'[s] \in {"find", "early", "lock", "abort", "purge"}
         /\ step'[s] = "lock" => BeginLock(s, {job'[s].file})
         /\ step'[s] # "lock" => UNCHANGED lockVars
         /\ UNCHANGED <<row, object, draft, touched, cause>>
         /\ IF step[s] = "idle" THEN open'[s] = TRUE ELSE open'[s] = open[s]
         /\ step'[s] = "lock" /\ job'[s].op = "apps" => copy'[s] = row[job[s].file] /\ copy'[s] # Gone
<1>0. FilesOK /\ ReadFirst
  BY DEF Typed, FilesInv
<1> USE <1>0 DEF FilesOK, Goto, Keep
<1>1. ASSUME NEW j \in Job, Request(s, j)
      PROVE  /\ step[s] \in {"idle", "find", "early"}
             /\ step'[s] \in {"find", "early", "lock", "abort", "purge"}
             /\ step'[s] = "lock" => BeginLock(s, {job'[s].file})
             /\ step'[s] # "lock" => UNCHANGED lockVars
             /\ UNCHANGED <<row, object, draft, touched, cause>>
             /\ IF step[s] = "idle" THEN open'[s] = TRUE ELSE open'[s] = open[s]
             /\ step'[s] = "lock" /\ job'[s].op = "apps" => copy'[s] = row[job[s].file] /\ copy'[s] # Gone
  <2>1. job'[s] = j /\ open'[s] = TRUE /\ step[s] = "idle" /\ UNCHANGED <<row, object, draft, touched, cause>>
    BY <1>1 DEF Request
  <2>2. CASE j.op = "delete"
    <3>1. step'[s] = "find" /\ UNCHANGED lockVars
      BY <1>1, <2>2 DEF Request
    <3> QED
      BY <2>1, <3>1
  <2>3. CASE j.op = "apps"
    <3>1. step'[s] = "early" /\ UNCHANGED lockVars
      BY <1>1, <2>3 DEF Request
    <3> QED
      BY <2>1, <3>1
  <2>4. CASE j.op # "delete" /\ j.op # "apps"
    <3>1. step'[s] = "lock" /\ BeginLock(s, {j.file})
      BY <1>1, <2>4 DEF Request
    <3> QED
      BY <2>1, <2>4, <3>1
  <2> QED
    BY <2>2, <2>3, <2>4
<1>2. CASE FindFile(s)
  <2>1. /\ job[s].op = "delete" /\ step[s] = "find"
        /\ UNCHANGED <<row, object, draft, touched, cause, open>>
    BY <1>2 DEF FindFile, ReadFirst
  <2>2. CASE step'[s] = "lock"
    <3>1. \E f \in File : job' = [job EXCEPT ![s].file = f] /\ BeginLock(s, {f})
      BY <1>2, <2>2 DEF FindFile
    <3>2. PICK f \in File : job' = [job EXCEPT ![s].file = f] /\ BeginLock(s, {f})
      BY <3>1
    <3>3. job'[s].file = f /\ job'[s].op = "delete"
      BY <2>1, <3>2 DEF Job
    <3> QED
      BY <2>1, <2>2, <3>2, <3>3
  <2>3. CASE step'[s] # "lock"
    <3>1. UNCHANGED lockVars /\ step'[s] \in {"abort", "purge"}
      BY <1>2, <2>3 DEF FindFile
    <3> QED
      BY <2>1, <2>3, <3>1
  <2> QED
    BY <2>2, <2>3
<1>3. CASE ReadEarly(s)
  <2>1. /\ step[s] = "early" /\ job' = job /\ copy'[s] = row[job[s].file]
        /\ UNCHANGED <<row, object, draft, touched, cause, open>>
    BY <1>3 DEF ReadEarly
  <2>2. CASE row[job[s].file] = Gone
    <3>1. step'[s] = "abort" /\ UNCHANGED lockVars
      BY <1>3, <2>2 DEF ReadEarly
    <3> QED
      BY <2>1, <3>1
  <2>3. CASE row[job[s].file] # Gone
    <3>1. step'[s] = "lock" /\ BeginLock(s, {job[s].file})
      BY <1>3, <2>3 DEF ReadEarly
    <3> QED
      BY <2>1, <2>3, <3>1
  <2> QED
    BY <2>2, <2>3
<1> QED
  BY <1>1, <1>2, <1>3

\* The lock service is at work, or the operation leaves it.
LEMMA LockEffect ==
  ASSUME Typed, NEW s \in Session, Locking(s) \/ Locked(s) \/ Beat(s) \/ Unlocked(s) \/ Restart(s)
  PROVE  /\ UNCHANGED <<row, object, draft, job, copy, open, touched, cause>>
         /\ \/ step'[s] = step[s]
            \/ step[s] \in {"lock", "leave", "fail"} /\ step'[s] = "fail"
            \/ /\ step[s] = "lock" /\ EnterLocked(s)
               /\ step'[s] = IF job[s].op = "apps" THEN "write" ELSE "read"
            \/ step[s] = "leave" /\ step'[s] = "commit"
            \/ step[s] = "fail" /\ step'[s] = "abort"
            \/ step[s] = "dead" /\ step'[s] = "idle"
<1>0. FilesOK
  BY DEF Typed, FilesInv
<1> USE <1>0 DEF FilesOK, Goto, Keep
<1>1. CASE Locking(s)
  BY <1>1 DEF Locking
<1>2. CASE Locked(s)
  BY <1>2 DEF Locked
<1>3. CASE Beat(s)
  BY <1>3 DEF Beat
<1>4. CASE Unlocked(s)
  BY <1>4 DEF Unlocked
<1>5. CASE Restart(s)
  BY <1>5 DEF Restart
<1> QED
  BY <1>1, <1>2, <1>3, <1>4, <1>5

\* The operation reads and decides.
LEMMA DecideEffect ==
  ASSUME Typed, NEW s \in Session, ReadRow(s) \/ CheckDestination(s) \/ CheckSource(s)
  PROVE  /\ phase[s] = "locked" /\ UNCHANGED <<lockVars, row, object, draft, job, open, touched>>
         /\ \/ /\ step[s] = "read"
               /\ copy'[s] = Visible(s, job[s].file)
               /\ step'[s] \in {"fail", "check", "delete", "write"}
               /\ step'[s] # "fail" => copy'[s] \in Row /\ copy'[s].status = "UPLOADED"
               /\ cause \subseteq cause'
               /\ RowBusy(s, job[s].file) => "uncommitted" \in cause'
            \/ /\ step[s] = "check" /\ copy' = copy /\ cause' = cause
               /\ step'[s] \in {"leave", "copying", "fail"}
               /\ step'[s] = "copying" => Target(s) # copy[s].at
            \/ /\ step[s] = "source" /\ copy' = copy
               /\ \/ /\ cause' = cause
                     /\ step'[s] = IF object[copy[s].at] = Gone THEN "uploaded" ELSE "copy"
                  \/ /\ cause' = After("stat") /\ step'[s] = "uploaded"
<1>0. FilesOK /\ ReadFirst
  BY DEF Typed, FilesInv
<1> USE <1>0 DEF FilesOK, Goto, Keep, Working
<1>1. CASE ReadRow(s)
  <2>1. Visible(s, job[s].file) \in Row \cup {Gone}
    BY DEF Visible, Job
  <2> DEFINE r == Visible(s, job[s].file)
  <2>2. /\ phase[s] = "locked" /\ UNCHANGED <<lockVars, row, object, draft, job, open, touched>>
        /\ step[s] = "read" /\ copy'[s] = r /\ cause \subseteq cause'
        /\ RowBusy(s, job[s].file) => "uncommitted" \in cause'
    BY <1>1 DEF ReadRow
  <2>3. CASE ~open[s] \/ r = Gone \/ r.status # "UPLOADED"
    <3>1. step'[s] = "fail"
      BY <1>1, <2>3 DEF ReadRow
    <3> QED
      BY <2>2, <3>1
  <2>4. CASE ~(~open[s] \/ r = Gone \/ r.status # "UPLOADED")
    <3>1. step'[s] \in {"check", "delete", "write"}
      BY <1>1, <2>4 DEF ReadRow
    <3> QED
      BY <2>1, <2>2, <2>4, <3>1
  <2> QED
    BY <2>3, <2>4
<1>2. CASE CheckDestination(s)
  BY <1>2 DEF CheckDestination
<1>3. CASE CheckSource(s)
  BY <1>3 DEF CheckSource
<1> QED
  BY <1>1, <1>2, <1>3

\* What an operation writes into the row; Gone when it deletes it.
Written(s) ==
  CASE step[s] = "copying" -> [copy[s] EXCEPT !.status = "COPYING", !.at = Target(s)]
    [] step[s] = "uploaded" -> [copy[s] EXCEPT !.at = Target(s)]
    [] step[s] = "write" -> copy[s]
    [] OTHER -> Gone

\* A statement that writes the row waits for other writers, and fails or has its effect.
LEMMA WriteEffect ==
  ASSUME Typed, NEW s \in Session,
         WriteCopying(s) \/ WriteUploaded(s) \/ WriteRow(s) \/ DeleteFileRow(s)
  PROVE  /\ phase[s] = "locked" /\ UNCHANGED <<lockVars, row, object, job, copy, open, touched>>
         /\ step[s] \in {"copying", "uploaded", "write", "delete"}
         /\ ~RowBusy(s, job[s].file)
         /\ cause \subseteq cause' /\ (cause' = cause \/ step[s] = "write")
         /\ step[s] = "write" /\ row[job[s].file] # copy[s] => "stale" \in cause'
         /\ Written(s) \in Row \cup {Gone}
         /\ Written(s) # Gone => ~KeyBusy(s, job[s].file, Written(s).at)
         /\ \/ step'[s] = "fail" /\ draft' = draft
            \/ /\ step'[s] = IF step[s] = "copying" THEN "source"
                             ELSE IF step[s] = "delete" THEN "erase" ELSE "leave"
               /\ draft'[s] = Written(s) /\ open[s] /\ row[job[s].file] # Gone
               /\ Written(s) # Gone => ~KeyTaken(job[s].file, Written(s).at)
<1>0. FilesOK /\ ReadFirst
  BY DEF Typed, FilesInv
<1>1. ASSUME NEW r \in Row, NEW next \in {"source", "leave"}, UpdateRow(s, r, next)
      PROVE  /\ ~RowBusy(s, job[s].file) /\ ~KeyBusy(s, job[s].file, r.at)
             /\ UNCHANGED <<row, copy>>
             /\ \/ step'[s] = "fail" /\ draft' = draft
                \/ /\ step'[s] = next /\ draft'[s] = r /\ open[s] /\ row[job[s].file] # Gone
                   /\ ~KeyTaken(job[s].file, r.at)
  BY <1>0, <1>1 DEF FilesOK, Goto, UpdateRow
<1>2. CASE WriteCopying(s)
  <2>1. step[s] = "copying" /\ copy[s] \in Row
    BY <1>0, <1>2 DEF WriteCopying, Working, ReadFirst
  <2> DEFINE r == [copy[s] EXCEPT !.status = "COPYING", !.at = Target(s)]
  <2>2. r \in Row /\ r # Gone /\ Written(s) = r
    BY <1>0, <2>1, TargetPlace, FileAssumption DEF Written
  <2>3. UpdateRow(s, r, "source")
    BY <1>2 DEF WriteCopying
  <2>4. phase[s] = "locked" /\ UNCHANGED <<lockVars, object, job, open, touched, cause>>
    BY <1>2 DEF WriteCopying, Working
  <2> HIDE DEF r
  <2> QED
    BY <1>1, <2>1, <2>2, <2>3, <2>4
<1>3. CASE WriteUploaded(s)
  <2>1. step[s] = "uploaded" /\ copy[s] \in Row
    BY <1>0, <1>3 DEF WriteUploaded, Working, ReadFirst
  <2> DEFINE r == [copy[s] EXCEPT !.at = Target(s)]
  <2>2. r \in Row /\ r # Gone /\ Written(s) = r
    BY <1>0, <2>1, TargetPlace, FileAssumption DEF Written
  <2>3. UpdateRow(s, r, "leave")
    BY <1>3 DEF WriteUploaded
  <2>4. phase[s] = "locked" /\ UNCHANGED <<lockVars, object, job, open, touched, cause>>
    BY <1>3 DEF WriteUploaded, Working
  <2> HIDE DEF r
  <2> QED
    BY <1>1, <2>1, <2>2, <2>3, <2>4
<1>4. CASE WriteRow(s)
  <2>1. step[s] = "write" /\ copy[s] \in Row /\ Written(s) = copy[s]
    BY <1>0, <1>4 DEF WriteRow, Working, ReadFirst, Written
  <2>2. UpdateRow(s, copy[s], "leave")
    BY <1>4 DEF WriteRow
  <2>3. phase[s] = "locked" /\ UNCHANGED <<lockVars, object, job, open, touched>>
    BY <1>4 DEF WriteRow, Working
  <2>4. cause \subseteq cause' /\ (row[job[s].file] # copy[s] => "stale" \in cause')
    BY <1>4 DEF WriteRow
  <2> QED
    BY <1>1, <2>1, <2>2, <2>3, <2>4
<1>5. CASE DeleteFileRow(s)
  <2>1. step[s] = "delete" /\ Written(s) = Gone
    BY <1>5 DEF DeleteFileRow, Working, Written
  <2>2. phase[s] = "locked" /\ UNCHANGED <<lockVars, object, job, open, touched, cause>>
    BY <1>5 DEF DeleteFileRow, Working
  <2>3. /\ ~RowBusy(s, job[s].file) /\ UNCHANGED <<row, copy>>
        /\ \/ step'[s] = "fail" /\ draft' = draft
           \/ step'[s] = "erase" /\ draft'[s] = Gone /\ open[s] /\ row[job[s].file] # Gone
    BY <1>0, <1>5 DEF DeleteFileRow, DeleteRow, FilesOK, Goto
  <2> QED
    BY <2>1, <2>2, <2>3
<1> QED
  BY <1>2, <1>3, <1>4, <1>5

\* One command to the store.
LEMMA StoreEffect ==
  ASSUME Typed, NEW s \in Session, PurgeObject(s) \/ CopyObject(s) \/ CutObject(s) \/ EraseObject(s)
  PROVE  /\ UNCHANGED <<lockVars, row, draft, job, copy, open>>
         /\ \/ /\ step[s] = "purge" /\ step'[s] = "commit" /\ touched'[s] = TRUE
               /\ \E p \in Place :
                    /\ object' = [object EXCEPT ![p] = Gone]
                    /\ cause' = IF object[p] # Gone /\ Owned(s, p) THEN After("purge") ELSE cause
            \/ /\ step[s] = "copy" /\ cause' = cause /\ Target(s) \in Place /\ copy[s] \in Row
               /\ \/ /\ step'[s] = "cut" /\ touched'[s] = TRUE /\ object[copy[s].at] # Gone
                     /\ object' = [object EXCEPT ![Target(s)] = object[copy[s].at]]
                  \/ /\ step'[s] = "fail" /\ touched' = touched /\ object' = object
            \/ /\ step[s] = "cut" /\ cause' = cause /\ touched' = touched /\ copy[s] \in Row
               /\ \/ step'[s] = "uploaded" /\ object' = [object EXCEPT ![copy[s].at] = Gone]
                  \/ step'[s] = "fail" /\ object' = object
            \/ /\ step[s] = "erase" /\ cause' = cause /\ copy[s] \in Row
               /\ \/ /\ step'[s] = "leave" /\ object' = [object EXCEPT ![copy[s].at] = Gone]
                     /\ touched'[s] = (object[copy[s].at] # Gone)
                  \/ step'[s] = "fail" /\ object' = object /\ touched' = touched
<1>0. FilesOK /\ ReadFirst
  BY DEF Typed, FilesInv
<1>1. CASE PurgeObject(s)
  <2>1. <<job[s].folder, job[s].name>> \in Place
    BY <1>0 DEF FilesOK, Job, Place
  <2> QED
    BY <1>0, <1>1, <2>1 DEF PurgeObject, FilesOK, Goto
<1>2. CASE CopyObject(s)
  <2>1. copy[s] \in Row /\ step[s] = "copy"
    BY <1>0, <1>2 DEF CopyObject, Working, ReadFirst
  <2>2. Target(s) \in Place
    BY <1>0, <2>1, TargetPlace
  <2> QED
    BY <1>0, <1>2, <2>1, <2>2 DEF CopyObject, Working, FilesOK, Goto
<1>3. CASE CutObject(s)
  BY <1>0, <1>3 DEF CutObject, Working, FilesOK, Goto, ReadFirst
<1>4. CASE EraseObject(s)
  BY <1>0, <1>4 DEF EraseObject, Working, FilesOK, Goto, ReadFirst
<1> QED
  BY <1>1, <1>2, <1>3, <1>4

\* The transaction ends; only a commit changes a row.
LEMMA CloseEffect ==
  ASSUME Typed, NEW s \in Session, Commit(s) \/ Rollback(s) \/ Timeout(s) \/ Die(s)
  PROVE  /\ UNCHANGED object /\ draft'[s] = None
         /\ \/ /\ step[s] = "commit" /\ open[s] /\ cause' = cause /\ UNCHANGED lockVars
               /\ row' = IF draft[s] = None THEN row ELSE [row EXCEPT ![job[s].file] = draft[s]]
               /\ step'[s] = "idle" /\ touched'[s] = FALSE
            \/ /\ row' = row /\ (step[s] = "abort" \/ ~open[s]) /\ UNCHANGED lockVars
               /\ cause' = IF touched[s] THEN After("rollback") ELSE cause
               /\ step'[s] = "idle" /\ touched'[s] = FALSE
            \/ /\ row' = row /\ cause' = cause \cup {"timeout"}
               /\ UNCHANGED <<lockVars, job, copy, step, touched>>
            \/ /\ row' = row /\ (LockerDies(s) \/ (UNCHANGED lockVars /\ phase[s] = "free"))
               /\ cause' = IF touched[s] THEN After("rollback") ELSE cause
               /\ step'[s] = "dead" /\ touched'[s] = FALSE
<1>0. FilesOK
  BY DEF Typed, FilesInv
<1> USE <1>0 DEF FilesOK, Goto, Reset
<1>1. CASE Commit(s)
  BY <1>1 DEF Commit
<1>2. CASE Rollback(s)
  BY <1>2 DEF Rollback
<1>3. CASE Timeout(s)
  BY <1>3 DEF Timeout
<1>4. CASE Die(s)
  BY <1>4 DEF Die
<1> QED
  BY <1>1, <1>2, <1>3, <1>4

-----------------------------------------------------------------------------
(* The database: writers, keys and statuses.                                *)

LEMMA KeysShrink ==
  ASSUME row' = row,
         \A t \in Session : \/ draft'[t] = None
                            \/ draft'[t] = draft[t] /\ (draft[t] # None => job'[t].file = job[t].file)
  PROVE  \A f \in File : KeysOf(f)' \subseteq KeysOf(f)
BY DEF KeysOf

\* Nobody's transaction is disturbed when s writes nothing into a row.
LEMMA TransactionKept ==
  ASSUME Typed, Database, NEW s \in Session, NEW t \in Others(s), OthersSame(s),
         draft[t] # None => row'[job[t].file] # Gone,
         \/ draft'[s] = None
         \/ draft'[s] = draft[s] /\ (draft[s] # None => job'[s].file = job[s].file)
         \/ draft[t] # None => job[t].file # job'[s].file
  PROVE  Transaction(t)' /\ Statuses(t)'
<1>1. /\ step'[t] = step[t] /\ draft'[t] = draft[t] /\ job'[t] = job[t] /\ copy'[t] = copy[t]
      /\ touched'[t] = touched[t] /\ open'[t] = open[t]
  BY DEF OthersSame
<1>2. t \in Session /\ t # s /\ Transaction(t) /\ Statuses(t)
  BY DEF Others, Database
<1>3. Target(t)' = Target(t)
  BY <1>1 DEF Target
<1>4. draft'[t] # None =>
        /\ step'[t] \in Writing \cup {"erase"} \cup Ending /\ open'[t] /\ row'[job'[t].file] # Gone
        /\ \A v \in Others(t) : draft'[v] = None \/ job'[v].file # job'[t].file
  <2>1. \A v \in Others(t) : v = s \/ (draft'[v] = draft[v] /\ job'[v] = job[v])
    BY DEF OthersSame, Others
  <2>2. \A v \in Others(t) : draft[t] # None => draft[v] = None \/ job[v].file # job[t].file
    BY <1>2 DEF Transaction
  <2> QED
    BY <1>1, <1>2, <2>1, <2>2 DEF Transaction
<1>5. Transaction(t)'
  BY <1>1, <1>2, <1>3, <1>4 DEF Transaction
<1>6. Statuses(t)'
  BY <1>1, <1>2 DEF Statuses
<1> QED
  BY <1>5, <1>6

LEMMA DatabaseFromOne ==
  ASSUME Typed, Database, NEW s \in Session, OthersSame(s), row' = row,
         \/ draft'[s] = None
         \/ draft'[s] = draft[s] /\ (draft[s] # None => job'[s].file = job[s].file),
         Transaction(s)', Statuses(s)'
  PROVE  Database'
<1>1. \A t \in Session \ {s} : Transaction(t)' /\ Statuses(t)'
  <2>1. \A t \in Session \ {s} : draft[t] # None => row'[job[t].file] # Gone
    BY DEF Database, Transaction
  <2> QED
    BY <2>1, TransactionKept DEF Others
<1>2. \A t \in Session : \/ draft'[t] = None
                         \/ draft'[t] = draft[t] /\ (draft[t] # None => job'[t].file = job[t].file)
  BY DEF OthersSame, Others
<1>3. \A f \in File : KeysOf(f)' \subseteq KeysOf(f)
  BY <1>2, KeysShrink
<1>4. \A f, g \in File : f # g => KeysOf(f)' \cap KeysOf(g)' = {}
  BY <1>3 DEF Database
<1>5. \A t \in Session : Transaction(t)' /\ Statuses(t)'
  BY <1>1
<1>6. \A f \in File : row'[f] # Gone => row'[f].status = "UPLOADED"
  BY DEF Database
<1> QED
  BY <1>4, <1>5, <1>6 DEF Database

LEMMA DatabaseStart ==
  ASSUME Typed, Database, NEW s \in Session, OthersSame(s),
         (\E j \in Job : Request(s, j)) \/ FindFile(s) \/ ReadEarly(s)
  PROVE  Database'
<1>1. /\ step[s] \in {"idle", "find", "early"}
      /\ step'[s] \in {"find", "early", "lock", "abort", "purge"}
      /\ UNCHANGED <<row, draft, touched>>
      /\ step'[s] = "lock" /\ job'[s].op = "apps" => copy'[s] = row[job[s].file] /\ copy'[s] # Gone
  BY StartEffect
<1>2. Transaction(s)
  BY DEF Database
<1>3. draft[s] = None /\ ~touched[s]
  BY <1>1, <1>2 DEF Transaction, Writing, Ending
<1>4. Transaction(s)'
  BY <1>1, <1>3 DEF Transaction
<1>5. Statuses(s)'
  <2>1. job[s].file \in File
    BY DEF Typed, FilesInv, FilesOK, Job
  <2> QED
    BY <1>1, <1>3, <2>1 DEF Statuses, Holding, Database
<1> QED
  BY <1>1, <1>3, <1>4, <1>5, DatabaseFromOne

LEMMA DatabaseLock ==
  ASSUME Typed, Database, NEW s \in Session, OthersSame(s),
         Locking(s) \/ Locked(s) \/ Beat(s) \/ Unlocked(s) \/ Restart(s)
  PROVE  Database'
<1>1. /\ UNCHANGED <<row, object, draft, job, copy, open, touched, cause>>
      /\ \/ step'[s] = step[s]
         \/ step[s] \in {"lock", "leave", "fail"} /\ step'[s] = "fail"
         \/ /\ step[s] = "lock" /\ EnterLocked(s)
            /\ step'[s] = IF job[s].op = "apps" THEN "write" ELSE "read"
         \/ step[s] = "leave" /\ step'[s] = "commit"
         \/ step[s] = "fail" /\ step'[s] = "abort"
         \/ step[s] = "dead" /\ step'[s] = "idle"
  BY LockEffect
<1>2. Transaction(s) /\ Statuses(s) /\ Target(s)' = Target(s)
  BY <1>1 DEF Database, Target
<1>3. Transaction(s)'
  <2>1. \A t \in Others(s) : draft'[t] = draft[t] /\ job'[t] = job[t]
    BY <1>1
  <2> QED
    BY <1>1, <1>2, <2>1 DEF Transaction, Writing, Ending
<1>4. Statuses(s)'
  BY <1>1, <1>2 DEF Statuses, Holding
<1> QED
  BY <1>1, <1>3, <1>4, DatabaseFromOne

LEMMA DatabaseDecide ==
  ASSUME Typed, Database, NEW s \in Session, OthersSame(s),
         ReadRow(s) \/ CheckDestination(s) \/ CheckSource(s)
  PROVE  Database'
<1>1. /\ UNCHANGED <<row, draft, job, open, touched>>
      /\ \/ /\ step[s] = "read"
            /\ step'[s] \in {"fail", "check", "delete", "write"}
            /\ step'[s] # "fail" => copy'[s] \in Row /\ copy'[s].status = "UPLOADED"
         \/ /\ step[s] = "check" /\ copy' = copy
            /\ step'[s] \in {"leave", "copying", "fail"}
            /\ step'[s] = "copying" => Target(s) # copy[s].at
         \/ /\ step[s] = "source" /\ copy' = copy /\ step'[s] \in {"uploaded", "copy"}
  BY DecideEffect
<1>2. Transaction(s) /\ Statuses(s)
  BY DEF Database
<1>3. \A t \in Others(s) : draft'[t] = draft[t] /\ job'[t] = job[t]
  BY <1>1
<1>4. CASE step[s] = "read"
  <2>1. draft[s] = None /\ ~touched[s]
    BY <1>2, <1>4 DEF Transaction, Writing, Ending
  <2>2. Transaction(s)' /\ Statuses(s)'
    BY <1>1, <1>4, <2>1 DEF Transaction, Statuses, Holding
  <2> QED
    BY <1>1, <2>2, DatabaseFromOne
<1>5. CASE step[s] # "read"
  <2>1. copy' = copy /\ Target(s)' = Target(s)
    BY <1>1, <1>5 DEF Target
  <2>2. Transaction(s)'
    BY <1>1, <1>2, <1>3, <1>5, <2>1 DEF Transaction, Writing, Ending
  <2>3. Statuses(s)'
    <3>1. step[s] = "check" => draft[s] = None
      BY <1>2 DEF Transaction, Writing, Ending
    <3> QED
      BY <1>1, <1>2, <1>5, <2>1, <3>1 DEF Statuses, Holding
  <2> QED
    BY <1>1, <2>2, <2>3, DatabaseFromOne
<1> QED
  BY <1>4, <1>5

LEMMA DatabaseStore ==
  ASSUME Typed, Database, NEW s \in Session, OthersSame(s),
         PurgeObject(s) \/ CopyObject(s) \/ CutObject(s) \/ EraseObject(s)
  PROVE  Database'
<1>1. /\ UNCHANGED <<row, draft, job, copy, open>>
      /\ \/ step[s] = "purge" /\ step'[s] = "commit"
         \/ step[s] = "copy" /\ step'[s] = "cut"
         \/ step[s] = "cut" /\ step'[s] = "uploaded"
         \/ step[s] = "erase" /\ step'[s] = "leave"
         \/ step[s] \in {"copy", "cut", "erase"} /\ step'[s] = "fail"
  BY StoreEffect
<1>2. Transaction(s) /\ Statuses(s) /\ Target(s)' = Target(s)
  BY <1>1 DEF Database, Target
<1>3. \A t \in Others(s) : draft'[t] = draft[t] /\ job'[t] = job[t]
  BY <1>1
<1>4. Transaction(s)'
  BY <1>1, <1>2, <1>3 DEF Transaction, Writing, Ending
<1>5. Statuses(s)'
  <2>1. step[s] = "purge" => draft[s] = None
    BY <1>2 DEF Transaction, Writing, Ending
  <2> QED
    BY <1>1, <1>2, <2>1 DEF Statuses, Holding
<1> QED
  BY <1>1, <1>4, <1>5, DatabaseFromOne

\* A new key of the file of s is nobody else's.
LEMMA KeysStayApart ==
  ASSUME NEW s \in Session, NEW f \in File, f = job[s].file, NEW r \in Row \cup {Gone},
         \A g, h \in File : g # h => KeysOf(g) \cap KeysOf(h) = {},
         row' = row, job' = job, \A t \in Others(s) : draft'[t] = draft[t], draft'[s] = r,
         r # Gone => ~KeyBusy(s, f, r.at) /\ ~KeyTaken(f, r.at)
  PROVE  \A g, h \in File : g # h => KeysOf(g)' \cap KeysOf(h)' = {}
<1>1. \A g \in File \ {f} : KeysOf(g)' \subseteq KeysOf(g)
  BY DEF KeysOf, Others
<1>2. \A p \in KeysOf(f)' : p \in KeysOf(f) \/ (r # Gone /\ p = r.at)
  BY DEF KeysOf, Others
<1>3. \A g \in File \ {f} : r # Gone => r.at \notin KeysOf(g)
  BY DEF KeysOf, Others, KeyBusy, KeyTaken
<1>4. \A g \in File \ {f} : KeysOf(g)' \cap KeysOf(f)' = {}
  BY <1>1, <1>2, <1>3
<1> QED
  BY <1>1, <1>4

LEMMA DatabaseWrite ==
  ASSUME Typed, Database, NEW s \in Session, OthersSame(s),
         WriteCopying(s) \/ WriteUploaded(s) \/ WriteRow(s) \/ DeleteFileRow(s)
  PROVE  Database'
<1> DEFINE f == job[s].file
           r == Written(s)
<1>1. /\ UNCHANGED <<row, job, copy, open, touched>>
      /\ step[s] \in {"copying", "uploaded", "write", "delete"}
      /\ ~RowBusy(s, f)
      /\ r \in Row \cup {Gone} /\ (r # Gone => ~KeyBusy(s, f, r.at))
      /\ \/ step'[s] = "fail" /\ draft' = draft
         \/ /\ step'[s] = IF step[s] = "copying" THEN "source"
                          ELSE IF step[s] = "delete" THEN "erase" ELSE "leave"
            /\ draft'[s] = r /\ open[s] /\ row[f] # Gone
            /\ r # Gone => ~KeyTaken(f, r.at)
  BY WriteEffect
<1>2. Transaction(s) /\ Statuses(s) /\ Target(s)' = Target(s) /\ f \in File
  BY <1>1 DEF Database, Target, Typed, FilesInv, FilesOK, Job
<1>3. \A t \in Others(s) : draft'[t] = draft[t]
  BY DEF OthersSame
<1>4. CASE step'[s] = "fail" /\ draft' = draft
  <2>1. Transaction(s)' /\ Statuses(s)'
    BY <1>1, <1>2, <1>4 DEF Transaction, Statuses, Holding, Ending
  <2> QED
    BY <1>1, <1>4, <2>1, DatabaseFromOne
<1>5. CASE /\ step'[s] = IF step[s] = "copying" THEN "source"
                         ELSE IF step[s] = "delete" THEN "erase" ELSE "leave"
           /\ draft'[s] = r /\ open[s] /\ row[f] # Gone
           /\ r # Gone => ~KeyTaken(f, r.at)
  <2>1. \A t \in Others(s) : draft[t] = None \/ job[t].file # f
    BY <1>1 DEF RowBusy, Changing
  <2>2. \A t \in Others(s) : Transaction(t)' /\ Statuses(t)'
    <3>1. \A t \in Others(s) : draft[t] # None => row'[job[t].file] # Gone
      BY <1>1 DEF Database, Transaction, Others
    <3> QED
      BY <1>1, <2>1, <3>1, TransactionKept
  <2>3. Transaction(s)'
    BY <1>1, <1>2, <1>3, <1>5, <2>1 DEF Transaction, Writing, Ending
  <2>4. Statuses(s)'
    <3>1. CASE step[s] = "copying"
      BY <1>1, <1>2, <1>5, <3>1 DEF Statuses, Holding
    <3>2. CASE step[s] = "delete"
      <4>1. r = Gone
        BY <3>2 DEF Written
      <4> QED
        BY <1>1, <1>2, <1>5, <3>2, <4>1 DEF Statuses, Holding
    <3>3. CASE step[s] \in {"uploaded", "write"}
      <4>1. copy[s] \in Row /\ copy[s].status = "UPLOADED"
        BY <1>2, <3>3 DEF Typed, FilesInv, ReadFirst, Statuses, Holding
      <4>2. r.status = "UPLOADED"
        BY <3>3, <4>1 DEF Written, Row
      <4> QED
        BY <1>1, <1>5, <3>3, <4>2 DEF Statuses, Holding
    <3> QED
      BY <1>1, <3>1, <3>2, <3>3
  <2>5. \A g, h \in File : g # h => KeysOf(g)' \cap KeysOf(h)' = {}
    <3> HIDE DEF f, r
    <3>1. \A g, h \in File : g # h => KeysOf(g) \cap KeysOf(h) = {}
      BY DEF Database
    <3>2. f = job[s].file
      BY DEF f
    <3> QED
      BY <1>1, <1>2, <1>3, <1>5, <3>1, <3>2, KeysStayApart
  <2>6. \A t \in Session : Transaction(t)' /\ Statuses(t)'
    BY <2>2, <2>3, <2>4 DEF Others
  <2>7. \A g \in File : row'[g] # Gone => row'[g].status = "UPLOADED"
    BY <1>1 DEF Database
  <2> QED
    BY <2>5, <2>6, <2>7 DEF Database
<1> QED
  BY <1>1, <1>4, <1>5

LEMMA DatabaseClose ==
  ASSUME Typed, Database, NEW s \in Session, OthersSame(s),
         Commit(s) \/ Rollback(s) \/ Timeout(s) \/ Die(s)
  PROVE  Database'
<1>0. PICK f \in File : f = job[s].file
  BY DEF Typed, FilesInv, FilesOK, Job
<1>1. /\ draft'[s] = None
      /\ \/ /\ step[s] = "commit"
            /\ row' = IF draft[s] = None THEN row ELSE [row EXCEPT ![f] = draft[s]]
            /\ step'[s] = "idle" /\ touched'[s] = FALSE
         \/ row' = row /\ step'[s] \in {"idle", "dead"} /\ touched'[s] = FALSE
         \/ row' = row /\ UNCHANGED <<job, copy, step, touched>>
  BY <1>0, CloseEffect
<1>2. Transaction(s) /\ Statuses(s)
  BY DEF Database
<1>3. Transaction(s)' /\ Statuses(s)'
  <2>1. CASE step'[s] \in {"idle", "dead"} /\ touched'[s] = FALSE
    BY <1>1, <2>1 DEF Transaction, Statuses, Holding
  <2>2. CASE UNCHANGED <<job, copy, step, touched>>
    <3>1. Target(s)' = Target(s)
      BY <2>2 DEF Target
    <3> QED
      BY <1>1, <1>2, <2>2, <3>1 DEF Transaction, Statuses
  <2> QED
    BY <1>1, <2>1, <2>2
<1>4. CASE row' = row
  BY <1>1, <1>3, <1>4, DatabaseFromOne
<1>5. CASE row' # row
  <2>1. step[s] = "commit" /\ draft[s] # None /\ row' = [row EXCEPT ![f] = draft[s]]
    BY <1>1, <1>5
  <2>2. row'[f] = draft[s] /\ \A g \in File \ {f} : row'[g] = row[g]
    BY <2>1 DEF Typed, FilesInv, FilesOK
  <2>3. \A t \in Others(s) : Transaction(t)' /\ Statuses(t)'
    <3>1. \A t \in Others(s) : draft[t] # None => job[t].file \in File \ {f}
      BY <1>0, <1>2, <2>1 DEF Transaction, Others, Typed, FilesInv, FilesOK, Job
    <3>2. \A t \in Others(s) : draft[t] # None => row'[job[t].file] # Gone
      BY <2>2, <3>1 DEF Database, Transaction, Others
    <3> QED
      BY <1>1, <3>2, TransactionKept
  <2>4. \A g \in File : row'[g] # Gone => row'[g].status = "UPLOADED"
    BY <1>2, <2>1, <2>2 DEF Database, Statuses
  <2>5. \A g \in File : KeysOf(g)' \subseteq KeysOf(g)
    <3>1. \A t \in Session : draft'[t] # None => t # s /\ draft'[t] = draft[t] /\ job'[t] = job[t]
      BY <1>1 DEF OthersSame, Others
    <3>2. \A g \in File \ {f} : KeysOf(g)' \subseteq KeysOf(g)
      BY <2>2, <3>1 DEF KeysOf
    <3>3. KeysOf(f)' \subseteq KeysOf(f)
      BY <1>0, <2>1, <2>2, <3>1 DEF KeysOf
    <3> QED
      BY <3>2, <3>3
  <2>6. \A g, h \in File : g # h => KeysOf(g)' \cap KeysOf(h)' = {}
    BY <2>5 DEF Database
  <2>7. \A t \in Session : Transaction(t)' /\ Statuses(t)'
    BY <1>3, <2>3 DEF Others
  <2> QED
    BY <2>4, <2>6, <2>7 DEF Database
<1> QED
  BY <1>4, <1>5

LEMMA DatabaseSame ==
  ASSUME Database, UNCHANGED <<row, draft, job, copy, step, open, touched>>
  PROVE  Database'
<1>1. \A s \in Session : Target(s)' = Target(s)
  BY DEF Target
<1>2. \A f \in File : KeysOf(f)' = KeysOf(f)
  BY DEF KeysOf
<1>3. \A s \in Session : Transaction(s)' /\ Statuses(s)'
  BY <1>1 DEF Database, Transaction, Statuses
<1> QED
  BY <1>2, <1>3 DEF Database

LEMMA DatabaseInit == Init => Database
<1> SUFFICES ASSUME Init PROVE Database
  OBVIOUS
<1>1. \A s \in Session : Transaction(s) /\ Statuses(s)
  BY DEF Init, Transaction, Statuses, Holding
<1>2. \A f \in File : row[f] # Gone => row[f].status = "UPLOADED"
  BY DEF Init
<1>3. \A f \in File : KeysOf(f) \subseteq {Home[f]}
  <2> TAKE f \in File
  <2>1. row[f].at = Home[f] /\ \A t \in Session : draft[t] = None
    BY DEF Init
  <2> QED
    BY <2>1 DEF KeysOf
<1>4. \A f, g \in File : f # g => Home[f] # Home[g]
  BY FileAssumption
<1> QED
  BY <1>1, <1>2, <1>3, <1>4 DEF Database

LEMMA DatabaseStep == Typed /\ Database /\ [Next]_vars => Database'
<1> SUFFICES ASSUME Typed, Database, [Next]_vars PROVE Database'
  OBVIOUS
<1>1. ASSUME NEW s \in Session, Act(s)
      PROVE  Database'
  <2>1. OthersSame(s)
    BY <1>1, OnlyOwn
  <2> QED
    BY <1>1, <2>1, DatabaseStart, DatabaseLock, DatabaseDecide, DatabaseStore, DatabaseWrite,
       DatabaseClose DEF Act, Advance
<1>2. CASE Tick
  BY <1>2, DatabaseSame DEF Tick
<1>3. CASE UNCHANGED vars
  BY <1>3, DatabaseSame DEF vars
<1> QED
  BY <1>1, <1>2, <1>3 DEF Next, Act

LEMMA TypedAlways == Spec => []Typed
<1>1. Init => Typed
  BY LockTypeInit, FilesInit DEF Init, Typed
<1>2. Typed /\ [Next]_vars => Typed'
  BY LockTypeStep, FilesStep, EveryStepLocks DEF Typed
<1> QED
  BY <1>1, <1>2, PTL DEF Spec

LEMMA DatabaseAlways == Spec => [](Typed /\ Database)
<1>1. Init => Database
  BY DatabaseInit
<1>2. Typed /\ Database /\ [Next]_vars => Database'
  BY DatabaseStep
<1> QED
  BY <1>1, <1>2, TypedAlways, PTL DEF Spec

\* No committed row is ever in COPYING, whatever happens to the locks, the transaction or
\* the process: a transaction that leaves a row in COPYING ends with its rollback, for
\* withFileLock returns normally only after WriteUploaded.
THEOREM RowsNeverLeftCopying == Spec => []NeverLeftCopying
<1>1. Database => NeverLeftCopying
  BY DEF Database, NeverLeftCopying
<1> QED
  BY <1>1, DatabaseAlways, PTL

-----------------------------------------------------------------------------
(* The calls of the lock service.                                           *)

\* What the steps of the lock service do to the phase and the keys of the caller.
LEMMA CallEffect ==
  ASSUME Typed, NEW s \in Session, Calling(s),
         Locking(s) \/ Locked(s) \/ Beat(s) \/ Unlocked(s) \/ Restart(s)
  PROVE  /\ job' = job
         /\ \/ /\ step'[s] = step[s] /\ phase'[s] = phase[s]
               /\ wanted'[s] \cup taken'[s] = wanted[s] \cup taken[s] \/ phase[s] = "releasing"
               /\ wanted'[s] = {} \/ phase[s] = "acquiring"
            \/ /\ step'[s] = "fail" /\ phase'[s] = "releasing" /\ wanted'[s] = {}
            \/ /\ step'[s] = step[s] /\ step[s] \in {"leave", "fail"}
               /\ phase'[s] = "releasing" /\ wanted'[s] = {}
            \/ /\ step[s] = "lock" /\ step'[s] \in {"read", "write"} /\ phase'[s] = "locked"
               /\ wanted[s] = {} /\ wanted'[s] = {} /\ taken'[s] = taken[s]
            \/ /\ step'[s] \in {"commit", "abort"} /\ phase'[s] = "free"
               /\ wanted'[s] = {} /\ taken'[s] = {}
            \/ /\ step[s] = "dead" /\ step'[s] = "idle" /\ phase'[s] = "free"
               /\ wanted'[s] = {} /\ taken'[s] = {}
<1>0. FilesOK /\ LockTypeOK
  BY DEF Typed, FilesInv
<1>1. ASSUME NEW k \in Key, GetLock(s, k), Locking(s)
      PROVE  /\ job' = job /\ step'[s] = step[s] /\ phase'[s] = phase[s] /\ phase[s] = "acquiring"
             /\ wanted'[s] \cup taken'[s] = wanted[s] \cup taken[s]
  <2>1. phase' = phase /\ phase[s] = "acquiring" /\ k \in wanted[s]
        /\ wanted'[s] = wanted[s] \ {k} /\ taken'[s] = taken[s] \cup {k}
    BY <1>0, <1>1 DEF GetLock, FirstWanted, LockTypeOK
  <2>2. job' = job /\ step' = step
    BY <1>1, <2>1 DEF Locking
  <2> QED
    BY <2>1, <2>2
<1>2. ASSUME NEW k \in Key, MissLock(s, k), Locking(s)
      PROVE  job' = job /\ step'[s] = "fail" /\ phase'[s] = "releasing" /\ wanted'[s] = {}
  <2>1. phase[s] = "acquiring" /\ phase'[s] = "releasing" /\ wanted'[s] = {}
    BY <1>0, <1>2 DEF MissLock, LockTypeOK
  <2> QED
    BY <1>0, <1>2, <2>1 DEF Locking, Goto, FilesOK
<1>3. ASSUME NEW k \in Key, DropLock(s, k), Locking(s)
      PROVE  job' = job /\ step' = step /\ phase' = phase /\ phase[s] = "releasing" /\ wanted' = wanted
  <2>1. phase[s] = "releasing" /\ phase' = phase /\ wanted' = wanted
    BY <1>3 DEF DropLock
  <2> QED
    BY <1>3, <2>1 DEF Locking
<1>4. ASSUME step[s] \in {"leave", "fail"}, LeaveLocked(s), Locking(s)
      PROVE  job' = job /\ step' = step /\ phase[s] = "locked" /\ phase'[s] = "releasing" /\ wanted' = wanted
  <2>1. phase[s] = "locked" /\ phase'[s] = "releasing" /\ wanted' = wanted
    BY <1>0, <1>4 DEF LeaveLocked, LockTypeOK
  <2> QED
    BY <1>4, <2>1 DEF Locking
<1>5. CASE Locking(s)
  <2>1. \/ \E k \in Key : GetLock(s, k) \/ MissLock(s, k) \/ DropLock(s, k)
        \/ step[s] \in {"leave", "fail"} /\ LeaveLocked(s)
    BY <1>5 DEF Locking
  <2>2. CASE \E k \in Key : GetLock(s, k)
    BY <1>1, <1>5, <2>2
  <2>3. CASE \E k \in Key : MissLock(s, k)
    BY <1>2, <1>5, <2>3
  <2>4. CASE \E k \in Key : DropLock(s, k)
    BY <1>3, <1>5, <2>4 DEF Calling
  <2>5. CASE step[s] \in {"leave", "fail"} /\ LeaveLocked(s)
    BY <1>4, <1>5, <2>5 DEF Calling
  <2> QED
    BY <2>1, <2>2, <2>3, <2>4, <2>5
<1>6. CASE Locked(s)
  BY <1>0, <1>6 DEF Locked, EnterLocked, Goto, FilesOK, LockTypeOK
<1>7. CASE Beat(s)
  BY <1>7 DEF Beat, Heartbeat, calls, Calling
<1>8. CASE Unlocked(s)
  BY <1>0, <1>8 DEF Unlocked, EndCall, Goto, FilesOK, LockTypeOK, Calling
<1>9. CASE Restart(s)
  <2>1. step[s] = "dead" /\ step'[s] = "idle" /\ job' = job
    BY <1>0, <1>9 DEF Restart, Goto, FilesOK
  <2>2. CASE phase[s] = "dead"
    <3>1. LockerRestarts(s)
      BY <1>9, <2>2 DEF Restart
    <3> QED
      BY <1>0, <2>1, <2>2, <3>1 DEF LockerRestarts, LockTypeOK, Calling
  <2>3. CASE phase[s] # "dead"
    <3>1. UNCHANGED <<phase, wanted, taken>> /\ phase[s] = "free"
      BY <1>9, <2>1, <2>3 DEF Restart, lockVars, Calling
    <3> QED
      BY <2>1, <3>1 DEF Calling
  <2> QED
    BY <2>2, <2>3
<1> QED
  BY <1>5, <1>6, <1>7, <1>8, <1>9

LEMMA CallingStep ==
  ASSUME Typed, NEW s \in Session, Calling(s), Act(s)
  PROVE  Calling(s)'
<1>0. FilesOK /\ LockTypeOK
  BY DEF Typed, FilesInv
<1>1. CASE (\E j \in Job : Request(s, j)) \/ FindFile(s) \/ ReadEarly(s)
  <2>1. /\ step[s] \in {"idle", "find", "early"}
        /\ step'[s] \in {"find", "early", "lock", "abort", "purge"}
        /\ step'[s] = "lock" => BeginLock(s, {job'[s].file})
        /\ step'[s] # "lock" => UNCHANGED lockVars
    BY <1>1, StartEffect
  <2>2. phase[s] = "free" /\ taken[s] = {} /\ wanted[s] = {}
    BY <2>1 DEF Calling
  <2>3. CASE step'[s] = "lock"
    <3>1. phase'[s] = "acquiring" /\ wanted'[s] = {job'[s].file} /\ taken'[s] = {}
      BY <1>0, <2>1, <2>2, <2>3 DEF BeginLock, LockTypeOK
    <3> QED
      BY <2>3, <3>1 DEF Calling, Inside, Holding
  <2>4. CASE step'[s] # "lock"
    <3>1. phase'[s] = "free" /\ wanted'[s] = {} /\ taken'[s] = {}
      BY <2>1, <2>2, <2>4 DEF lockVars
    <3> QED
      BY <2>1, <2>4, <3>1 DEF Calling, Inside, Holding
  <2> QED
    BY <2>3, <2>4
<1>2. CASE Locking(s) \/ Locked(s) \/ Beat(s) \/ Unlocked(s) \/ Restart(s)
  <2>1. /\ job' = job
        /\ \/ /\ step'[s] = step[s] /\ phase'[s] = phase[s]
              /\ wanted'[s] \cup taken'[s] = wanted[s] \cup taken[s] \/ phase[s] = "releasing"
              /\ wanted'[s] = {} \/ phase[s] = "acquiring"
           \/ /\ step'[s] = "fail" /\ phase'[s] = "releasing" /\ wanted'[s] = {}
           \/ /\ step'[s] = step[s] /\ step[s] \in {"leave", "fail"}
              /\ phase'[s] = "releasing" /\ wanted'[s] = {}
           \/ /\ step[s] = "lock" /\ step'[s] \in {"read", "write"} /\ phase'[s] = "locked"
              /\ wanted[s] = {} /\ wanted'[s] = {} /\ taken'[s] = taken[s]
           \/ /\ step'[s] \in {"commit", "abort"} /\ phase'[s] = "free"
              /\ wanted'[s] = {} /\ taken'[s] = {}
           \/ /\ step[s] = "dead" /\ step'[s] = "idle" /\ phase'[s] = "free"
              /\ wanted'[s] = {} /\ taken'[s] = {}
    BY <1>2, CallEffect
  <2>2. CASE /\ step'[s] = step[s] /\ phase'[s] = phase[s]
             /\ wanted'[s] \cup taken'[s] = wanted[s] \cup taken[s] \/ phase[s] = "releasing"
             /\ wanted'[s] = {} \/ phase[s] = "acquiring"
    BY <2>1, <2>2 DEF Calling, Inside, Holding
  <2>3. CASE step'[s] \in {"leave", "fail"} /\ phase'[s] = "releasing" /\ wanted'[s] = {}
    BY <2>1, <2>3 DEF Calling, Inside, Holding
  <2>4. CASE /\ step[s] = "lock" /\ step'[s] \in {"read", "write"} /\ phase'[s] = "locked"
             /\ wanted[s] = {} /\ wanted'[s] = {} /\ taken'[s] = taken[s]
    BY <2>1, <2>4 DEF Calling, Inside, Holding
  <2>5. CASE /\ step'[s] \in {"commit", "abort", "idle"} /\ phase'[s] = "free"
             /\ wanted'[s] = {} /\ taken'[s] = {}
    BY <2>1, <2>5 DEF Calling, Inside, Holding
  <2> QED
    BY <2>1, <2>2, <2>3, <2>4, <2>5
<1>3. CASE \/ ReadRow(s) \/ CheckDestination(s) \/ CheckSource(s)
           \/ WriteCopying(s) \/ WriteUploaded(s) \/ WriteRow(s) \/ DeleteFileRow(s)
           \/ CopyObject(s) \/ CutObject(s) \/ EraseObject(s)
  <2>1. /\ step[s] \in Inside /\ UNCHANGED <<lockVars, job>>
        /\ step'[s] \in Inside \cup {"leave", "fail"}
    <3>1. CASE ReadRow(s) \/ CheckDestination(s) \/ CheckSource(s)
      BY <3>1, DecideEffect DEF Inside, Holding
    <3>2. CASE WriteCopying(s) \/ WriteUploaded(s) \/ WriteRow(s) \/ DeleteFileRow(s)
      BY <3>2, WriteEffect DEF Inside, Holding
    <3>3. CASE CopyObject(s) \/ CutObject(s) \/ EraseObject(s)
      <4>1. step[s] # "purge"
        BY <3>3 DEF CopyObject, CutObject, EraseObject, Working
      <4> QED
        BY <3>3, <4>1, StoreEffect DEF Inside, Holding
    <3> QED
      BY <1>3, <3>1, <3>2, <3>3
  <2> QED
    BY <2>1 DEF Calling, Inside, Holding, lockVars
<1>4. CASE PurgeObject(s)
  BY <1>0, <1>4 DEF PurgeObject, Goto, FilesOK, Calling, Inside, Holding, lockVars
<1>5. CASE Commit(s) \/ Rollback(s)
  BY <1>0, <1>5 DEF Commit, Rollback, Goto, FilesOK, Calling, Inside, Holding, lockVars
<1>6. CASE Timeout(s)
  BY <1>6 DEF Timeout, Calling, lockVars
<1>7. CASE Die(s)
  <2>1. step'[s] = "dead"
    BY <1>0, <1>7 DEF Die, Goto, FilesOK
  <2>2. phase'[s] \in {"free", "dead"} /\ taken'[s] = {} /\ wanted'[s] = {}
    BY <1>0, <1>7 DEF Die, LockerDies, LockTypeOK, Calling, lockVars
  <2> QED
    BY <2>1, <2>2 DEF Calling, Inside, Holding
<1> QED
  BY <1>1, <1>2, <1>3, <1>4, <1>5, <1>6, <1>7 DEF Act, Advance

LEMMA CallsStep == Typed /\ Calls /\ [Next]_vars => Calls'
<1> SUFFICES ASSUME Typed, Calls, [Next]_vars PROVE Calls'
  OBVIOUS
<1>1. ASSUME NEW s \in Session, Act(s)
      PROVE  Calls'
  <2>1. OthersSame(s) /\ Calling(s)'
    BY <1>1, OnlyOwn, CallingStep DEF Calls
  <2>2. \A t \in Others(s) : Calling(t)'
    BY <2>1 DEF Calls, Calling, OthersSame, Others
  <2> QED
    BY <2>1, <2>2 DEF Calls, Others
<1>2. CASE UNCHANGED <<phase, wanted, taken, step, job>>
  BY <1>2 DEF Calls, Calling
<1>3. CASE Tick
  BY <1>2, <1>3 DEF Tick, SlotTick, calls
<1>4. CASE UNCHANGED vars
  BY <1>2, <1>4 DEF vars, lockVars
<1> QED
  BY <1>1, <1>3, <1>4 DEF Next, Act

-----------------------------------------------------------------------------
(* What the lock protects.                                                  *)

LEMMA CauseGrows == Typed /\ [Next]_vars => cause \subseteq cause'
<1> SUFFICES ASSUME Typed, Next PROVE cause \subseteq cause'
  BY DEF vars
<1>1. ASSUME NEW s \in Session, Act(s)
      PROVE  cause \subseteq cause'
  <2>1. CASE (\E j \in Job : Request(s, j)) \/ FindFile(s) \/ ReadEarly(s)
    BY <2>1, StartEffect
  <2>2. CASE Locking(s) \/ Locked(s) \/ Beat(s) \/ Unlocked(s) \/ Restart(s)
    BY <2>2, LockEffect
  <2>3. CASE ReadRow(s) \/ CheckDestination(s) \/ CheckSource(s)
    BY <2>3, DecideEffect DEF After
  <2>4. CASE WriteCopying(s) \/ WriteUploaded(s) \/ WriteRow(s) \/ DeleteFileRow(s)
    BY <2>4, WriteEffect
  <2>5. CASE PurgeObject(s) \/ CopyObject(s) \/ CutObject(s) \/ EraseObject(s)
    BY <2>5, StoreEffect DEF After
  <2>6. CASE Commit(s) \/ Rollback(s) \/ Timeout(s) \/ Die(s)
    BY <2>6, CloseEffect DEF After
  <2> QED
    BY <1>1, <2>1, <2>2, <2>3, <2>4, <2>5, <2>6 DEF Act, Advance
<1>2. CASE Tick
  BY <1>2 DEF Tick
<1> QED
  BY <1>1, <1>2 DEF Next, Act

\* A key stays with its holder whatever the others do.
LEMMA SlotStays ==
  ASSUME LockTypeOK, NEW s \in Session,
         \/ UNCHANGED lockVars \/ (\E K : BeginLock(s, K))
         \/ (\E k \in Key : GetLock(s, k) \/ MissLock(s, k) \/ DropLock(s, k) \/ Heartbeat(s, k))
         \/ EnterLocked(s) \/ LeaveLocked(s) \/ EndCall(s) \/ LockerDies(s) \/ LockerRestarts(s)
  PROVE  /\ \A k \in Key : slot[k] # None /\ slot[k] # s => slot'[k] = slot[k]
         /\ (\A k \in taken[s] : slot[k] = s) => \A k \in taken'[s] : slot'[k] = s
<1>1. CASE UNCHANGED lockVars
  BY <1>1 DEF lockVars
<1>2. ASSUME NEW K, BeginLock(s, K)
      PROVE  slot' = slot /\ taken' = taken
  BY <1>2 DEF BeginLock, slots
<1>3. ASSUME NEW k \in Key, GetLock(s, k)
      PROVE  /\ \A l \in Key : slot[l] # None /\ slot[l] # s => slot'[l] = slot[l]
             /\ (\A l \in taken[s] : slot[l] = s) => \A l \in taken'[s] : slot'[l] = s
  BY <1>3 DEF GetLock, SetSlot, LockTypeOK
<1>4. ASSUME NEW k \in Key, MissLock(s, k)
      PROVE  /\ \A l \in Key : slot[l] # None /\ slot[l] # s => slot'[l] = slot[l]
             /\ (\A l \in taken[s] : slot[l] = s) => \A l \in taken'[s] : slot'[l] = s
  <2>1. taken' = taken /\ (slot' = slot \/ (slot[k] = None /\ slot' = [slot EXCEPT ![k] = s]))
    BY <1>4 DEF MissLock, SetSlot, slots
  <2> QED
    BY <2>1 DEF LockTypeOK
<1>5. ASSUME NEW k \in Key, DropLock(s, k)
      PROVE  /\ \A l \in Key : slot[l] # None /\ slot[l] # s => slot'[l] = slot[l]
             /\ (\A l \in taken[s] : slot[l] = s) => \A l \in taken'[s] : slot'[l] = s
  <2>1. /\ taken'[s] = taken[s] \ {k}
        /\ slot' = slot \/ (slot[k] = s /\ slot' = [slot EXCEPT ![k] = None])
    BY <1>5 DEF DropLock, ReleaseSlotWithValue, slots, LockTypeOK
  <2> QED
    BY <2>1 DEF LockTypeOK
<1>6. ASSUME NEW k \in Key, Heartbeat(s, k)
      PROVE  slot' = slot /\ taken' = taken
  BY <1>6 DEF Heartbeat, RefreshSlotIfValue, calls
<1>7. CASE EnterLocked(s) \/ LeaveLocked(s) \/ EndCall(s) \/ LockerRestarts(s)
  BY <1>7 DEF EnterLocked, LeaveLocked, EndCall, LockerRestarts, slots
<1>8. CASE LockerDies(s)
  BY <1>8 DEF LockerDies, slots, LockTypeOK
<1> QED
  BY <1>1, <1>2, <1>3, <1>4, <1>5, <1>6, <1>7, <1>8

\* While s works under the lock, its file is its own.
LEMMA HolderAlone ==
  ASSUME Typed, Calls, \A u \in Session : Protected(u),
         NEW s \in Session, NEW t \in Others(s), step[s] \in Inside, step[t] \in Inside
  PROVE  job[s].file # job[t].file
<1>1. taken[s] = {job[s].file} /\ taken[t] = {job[t].file}
  BY DEF Calls, Calling, Others
<1>2. slot[job[s].file] = s /\ slot[job[t].file] = t
  BY <1>1 DEF Protected, Others
<1> QED
  BY <1>2 DEF Others

LEMMA ProtectedOther ==
  ASSUME Typed, Database, Calls, \A u \in Session : Protected(u),
         NEW s \in Session, NEW t \in Others(s), OthersSame(s),
         \A k \in Key : slot[k] = t => slot'[k] = t,
         row'[job[t].file] = row[job[t].file] \/ (draft[s] # None /\ job[s].file = job[t].file),
         draft'[s] # None => /\ job'[s].file = job[s].file
                             /\ draft[s] # None \/ step[s] \in Inside
  PROVE  Protected(t)'
<1>1. /\ step'[t] = step[t] /\ draft'[t] = draft[t] /\ job'[t] = job[t] /\ copy'[t] = copy[t]
      /\ touched'[t] = touched[t] /\ open'[t] = open[t] /\ taken'[t] = taken[t]
  BY DEF OthersSame
<1>2. t \in Session /\ t # s /\ Protected(t) /\ Transaction(t) /\ Target(t)' = Target(t)
  BY <1>1 DEF Others, Database, Target
<1>3. \A k \in taken'[t] : slot'[k] = t
  BY <1>1, <1>2 DEF Protected, Typed, LockTypeOK
<1>4. step[t] \in Holding => Changing(job[t].file, Others(t))' = {}
  <2> SUFFICES ASSUME step[t] \in Holding, NEW u \in Others(t), draft'[u] # None,
                      job'[u].file = job[t].file
               PROVE  FALSE
    BY <1>1 DEF Changing
  <2>1. draft[u] = None \/ job[u].file # job[t].file
    BY <1>2 DEF Protected, Changing
  <2>2. u = s
    BY <2>1 DEF OthersSame, Others
  <2>3. step[s] \in Inside /\ job[s].file = job[t].file
    BY <2>1, <2>2
  <2> QED
    BY <1>2, <2>3, HolderAlone DEF Inside
<1>5. step[t] \in Holding \/ draft[t] # None => copy[t] = row'[job[t].file]
  <2>1. draft[t] # None => draft[s] = None \/ job[s].file # job[t].file
    BY <1>2 DEF Transaction, Others
  <2>2. step[t] \in Holding => draft[s] = None \/ job[s].file # job[t].file
    BY <1>2 DEF Protected, Changing, Others
  <2> QED
    BY <1>2, <2>1, <2>2 DEF Protected
<1> QED
  BY <1>1, <1>2, <1>3, <1>4, <1>5 DEF Protected

LEMMA ProtectedOwn ==
  ASSUME Typed, Database, Calls, \A u \in Session : Protected(u),
         NEW s \in Session, OthersSame(s), Act(s), Orderly'
  PROVE  Protected(s)'
<1>0. FilesOK /\ LockTypeOK /\ Protected(s) /\ Transaction(s) /\ Calling(s)
  BY DEF Typed, FilesInv, Database, Calls
<1>1. \A k \in taken'[s] : slot'[k] = s
  BY <1>0, LockAction, SlotStays DEF Protected
<1>2. CASE (\E j \in Job : Request(s, j)) \/ FindFile(s) \/ ReadEarly(s)
  <2>1. /\ step[s] \in {"idle", "find", "early"}
        /\ step'[s] \in {"find", "early", "lock", "abort", "purge"}
        /\ draft'[s] = None /\ open'[s]
    BY <1>0, <1>2, StartEffect DEF Transaction, Writing, Ending, Protected
  <2> QED
    BY <1>1, <2>1 DEF Protected, Writing, Holding
<1>3. CASE Locking(s) \/ Locked(s) \/ Beat(s) \/ Unlocked(s) \/ Restart(s)
  <2>1. /\ UNCHANGED <<row, draft, job, copy, open>>
        /\ \/ step'[s] = step[s]
           \/ /\ step[s] \notin {"idle"}
              /\ step'[s] \in {"fail", "write", "read", "commit", "abort"} /\ step[s] # "dead"
           \/ step'[s] = "idle"
    BY <1>3, LockEffect
  <2>2. /\ Target(s)' = Target(s) /\ Changing(job[s].file, Others(s))' = Changing(job[s].file, Others(s))
    BY <2>1 DEF Target, Changing
  <2> QED
    BY <1>0, <1>1, <2>1, <2>2 DEF Protected, Writing, Holding
<1>4. CASE ReadRow(s) \/ CheckDestination(s) \/ CheckSource(s)
  <2>1. /\ phase[s] = "locked" /\ UNCHANGED <<row, draft, job, open, touched>>
        /\ \/ /\ step[s] = "read"
              /\ copy'[s] = Visible(s, job[s].file)
              /\ step'[s] \in {"fail", "check", "delete", "write"}
              /\ RowBusy(s, job[s].file) => "uncommitted" \in cause'
           \/ /\ step[s] = "check" /\ copy' = copy
              /\ step'[s] \in {"leave", "copying", "fail"}
           \/ /\ step[s] = "source" /\ copy' = copy /\ step'[s] \in {"uploaded", "copy"}
    BY <1>4, DecideEffect
  <2>2. Changing(job[s].file, Others(s))' = Changing(job[s].file, Others(s))
    BY <2>1 DEF Changing
  <2>3. CASE step[s] = "read"
    <3>1. draft[s] = None /\ draft'[s] = None
      BY <1>0, <2>1, <2>3 DEF Transaction, Writing, Ending
    <3>2. copy'[s] = row[job[s].file]
      BY <2>1, <2>3, <3>1 DEF Visible
    <3>3. Changing(job[s].file, Others(s)) = {}
      BY <2>1, <2>3 DEF Orderly, RowBusy
    <3> QED
      BY <1>0, <1>1, <2>1, <2>2, <2>3, <3>1, <3>2, <3>3 DEF Protected, Writing, Holding
  <2>4. CASE step[s] # "read"
    <3>1. copy' = copy /\ Target(s)' = Target(s)
      BY <2>1, <2>4 DEF Target
    <3> QED
      BY <1>0, <1>1, <2>1, <2>2, <2>4, <3>1 DEF Protected, Writing, Holding
  <2> QED
    BY <2>3, <2>4
<1>5. CASE WriteCopying(s) \/ WriteUploaded(s) \/ WriteRow(s) \/ DeleteFileRow(s)
  <2>1. /\ UNCHANGED <<row, job, copy, open, touched>>
        /\ step[s] \in {"copying", "uploaded", "write", "delete"}
        /\ step[s] = "write" /\ row[job[s].file] # copy[s] => "stale" \in cause'
        /\ \/ step'[s] = "fail" /\ draft' = draft
           \/ /\ step'[s] = IF step[s] = "copying" THEN "source"
                            ELSE IF step[s] = "delete" THEN "erase" ELSE "leave"
              /\ draft'[s] = Written(s)
    BY <1>5, WriteEffect
  <2>2. Target(s)' = Target(s) /\ copy[s] = row[job[s].file]
    BY <1>0, <2>1 DEF Target, Protected, Orderly, Holding
  <2>3. CASE step'[s] = "fail" /\ draft' = draft
    BY <1>0, <1>1, <2>1, <2>2, <2>3 DEF Protected, Writing, Holding
  <2>4. CASE draft'[s] = Written(s) /\ step[s] = "copying" /\ step'[s] = "source"
    <3>1. /\ Written(s) = [copy[s] EXCEPT !.status = "COPYING", !.at = Target(s)]
          /\ copy[s] \in Row
      BY <2>4 DEF Written, Typed, FilesInv, ReadFirst
    <3>2. Written(s) \in Row /\ Written(s).at = Target(s)
      BY <1>0, <3>1, TargetPlace DEF Row
    <3>3. Written(s) # None /\ Written(s) # Gone
      BY <3>2, FileAssumption
    <3>4. Changing(job[s].file, Others(s))' = Changing(job[s].file, Others(s))
      BY <2>1 DEF Changing, OthersSame
    <3> QED
      BY <1>0, <1>1, <2>1, <2>2, <2>4, <3>2, <3>3, <3>4 DEF Protected, Writing, Holding
  <2>5. CASE draft'[s] = Written(s) /\ step[s] = "delete" /\ step'[s] = "erase"
    <3>1. Written(s) = Gone /\ Gone # None
      BY <2>5, FileAssumption DEF Written
    <3>2. Changing(job[s].file, Others(s))' = Changing(job[s].file, Others(s))
      BY <2>1 DEF Changing, OthersSame
    <3> QED
      BY <1>0, <1>1, <2>1, <2>2, <2>5, <3>1, <3>2 DEF Protected, Writing, Holding
  <2>6. CASE draft'[s] = Written(s) /\ step'[s] = "leave"
    BY <1>0, <1>1, <2>1, <2>2, <2>6 DEF Protected, Writing, Holding
  <2> QED
    BY <2>1, <2>3, <2>4, <2>5, <2>6
<1>6. CASE PurgeObject(s) \/ CopyObject(s) \/ CutObject(s) \/ EraseObject(s)
  <2>1. /\ UNCHANGED <<row, draft, job, copy, open>>
        /\ \/ step[s] = "purge" /\ step'[s] = "commit"
           \/ step[s] = "copy" /\ step'[s] = "cut"
           \/ step[s] = "cut" /\ step'[s] = "uploaded"
           \/ step[s] = "erase" /\ step'[s] = "leave"
           \/ step[s] \in {"copy", "cut", "erase"} /\ step'[s] = "fail"
    BY <1>6, StoreEffect
  <2>2. /\ Target(s)' = Target(s) /\ Changing(job[s].file, Others(s))' = Changing(job[s].file, Others(s))
    BY <2>1 DEF Target, Changing
  <2> QED
    BY <1>0, <1>1, <2>1, <2>2 DEF Protected, Writing, Holding
<1>7. CASE Commit(s) \/ Rollback(s) \/ Timeout(s) \/ Die(s)
  <2>1. /\ draft'[s] = None
        /\ step'[s] \in {"idle", "dead"} \/ "timeout" \in cause'
    BY <1>7, CloseEffect
  <2> QED
    BY <1>1, <2>1 DEF Protected, Writing, Holding, Orderly
<1> QED
  BY <1>2, <1>3, <1>4, <1>5, <1>6, <1>7 DEF Act, Advance

\* What a step of s may do to rows and drafts.
LEMMA RowsOfOne ==
  ASSUME Typed, Database, NEW s \in Session, Act(s), Calls
  PROVE  /\ \A f \in File : row'[f] = row[f] \/ (draft[s] # None /\ job[s].file = f)
         /\ draft'[s] # None => /\ job'[s].file = job[s].file
                                /\ draft[s] # None \/ step[s] \in Inside
<1>0. FilesOK /\ Transaction(s)
  BY DEF Typed, FilesInv, Database
<1>1. CASE (\E j \in Job : Request(s, j)) \/ FindFile(s) \/ ReadEarly(s)
  <2>1. row' = row /\ draft'[s] = draft[s] /\ step[s] \in {"idle", "find", "early"}
    BY <1>1, StartEffect
  <2>2. draft[s] = None
    BY <1>0, <2>1 DEF Transaction, Writing, Ending
  <2> QED
    BY <2>1, <2>2
<1>2. CASE Locking(s) \/ Locked(s) \/ Beat(s) \/ Unlocked(s) \/ Restart(s)
  BY <1>2, LockEffect
<1>3. CASE ReadRow(s) \/ CheckDestination(s) \/ CheckSource(s)
  BY <1>3, DecideEffect
<1>4. CASE WriteCopying(s) \/ WriteUploaded(s) \/ WriteRow(s) \/ DeleteFileRow(s)
  BY <1>4, WriteEffect DEF Inside, Holding
<1>5. CASE PurgeObject(s) \/ CopyObject(s) \/ CutObject(s) \/ EraseObject(s)
  BY <1>5, StoreEffect
<1>6. CASE Commit(s) \/ Rollback(s) \/ Timeout(s) \/ Die(s)
  BY <1>0, <1>6, CloseEffect DEF FilesOK
<1> QED
  BY <1>1, <1>2, <1>3, <1>4, <1>5, <1>6 DEF Act, Advance

LEMMA ShelteredStep == Typed /\ Database /\ Calls /\ Sheltered /\ [Next]_vars => Sheltered'
<1> SUFFICES ASSUME Typed, Database, Calls, Sheltered, [Next]_vars, Orderly'
             PROVE  \A u \in Session : Protected(u)'
  BY DEF Sheltered
<1>1. Orderly
  BY CauseGrows DEF Orderly
<1>2. \A u \in Session : Protected(u)
  BY <1>1 DEF Sheltered
<1>3. ASSUME NEW s \in Session, Act(s)
      PROVE  \A u \in Session : Protected(u)'
  <2>1. OthersSame(s)
    BY <1>3, OnlyOwn
  <2>2. \A t \in Others(s), k \in Key : slot[k] = t => slot'[k] = t
    BY <1>3, LockAction, SlotStays, FileLockAssumption DEF Others, Typed
  <2>3. \A t \in Others(s) : job[t].file \in File
    BY DEF Typed, FilesInv, FilesOK, Job, Others
  <2>4. \A t \in Others(s) : Protected(t)'
    BY <1>2, <1>3, <2>1, <2>2, <2>3, RowsOfOne, ProtectedOther
  <2> QED
    BY <1>2, <1>3, <2>1, <2>4, ProtectedOwn DEF Others
<1>4. ASSUME UNCHANGED <<row, draft, job, copy, step, open, taken>>,
             \A s \in Session : \A k \in taken[s] : slot[k] = s => slot'[k] = s
      PROVE  \A u \in Session : Protected(u)'
  <2> TAKE u \in Session
  <2>1. Target(u)' = Target(u) /\ Changing(job[u].file, Others(u))' = Changing(job[u].file, Others(u))
    BY <1>4 DEF Target, Changing
  <2> QED
    BY <1>2, <1>4, <2>1 DEF Protected
<1>5. CASE Tick
  <2>1. ASSUME NEW s \in Session, NEW k \in taken[s], slot[k] = s
        PROVE  slot'[k] = s
    <3>1. k \in Key
      BY DEF Typed, LockTypeOK
    <3>2. slotTtl[k] # 1
      BY <1>5, <2>1, <3>1 DEF Tick, Orderly
    <3> QED
      BY <1>5, <2>1, <3>1, <3>2 DEF Tick, SlotTick
  <2> QED
    BY <1>4, <1>5, <2>1 DEF Tick, SlotTick, calls
<1>6. CASE UNCHANGED vars
  BY <1>4, <1>6 DEF vars, lockVars
<1> QED
  BY <1>3, <1>5, <1>6 DEF Next, Act

-----------------------------------------------------------------------------
(* The bytes of a file.                                                     *)

\* Bytes that stay where they are stay fine, whatever the transactions on other files do.
LEMMA FineFrame ==
  ASSUME Typed, \A u \in Session : Protected(u), NEW f \in File, Fine(f), row'[f] = row[f],
         \A p \in Place : object'[p] = f <=> object[p] = f,
         row[f] # Gone /\ object[row[f].at] = Gone => object'[row[f].at] = Gone,
         \A t \in Session :
           \/ t \notin Changing(f, Session) /\ (t \notin Changing(f, Session))'
           \/ /\ draft'[t] = draft[t] /\ job'[t].file = job[t].file /\ touched'[t] = touched[t]
              /\ \/ step'[t] = step[t]
                 \/ step'[t] \notin {"cut", "uploaded", "leave", "commit"}
                 \/ step[t] = "leave" /\ step'[t] = "commit"
  PROVE  Fine(f)'
<1> SUFFICES ASSUME row[f] # Gone PROVE Fine(f)'
  BY DEF Fine
<1>1. row[f].at \in Place /\ \A t \in Session : draft[t] \notin {None, Gone} => draft[t].at \in Place
  BY DEF Typed, FilesInv, FilesOK, Row
<1>2. Changing(f, Session)' = Changing(f, Session)
  BY DEF Changing
<1>3. \A t \in Changing(f, Session) :
        /\ t \in Session /\ draft'[t] = draft[t] /\ touched'[t] = touched[t] /\ draft[t] # None
        /\ \/ step'[t] = step[t]
           \/ step'[t] \notin {"cut", "uploaded", "leave", "commit"}
           \/ step[t] = "leave" /\ step'[t] = "commit"
  BY DEF Changing
<1>4. KeysOf(f) \subseteq KeysOf(f)'
  <2>1. \A t \in Session : draft[t] \notin {None, Gone} /\ job[t].file = f =>
                             draft'[t] = draft[t] /\ job'[t].file = f
    BY <1>2 DEF Changing
  <2> QED
    BY <2>1 DEF KeysOf
<1>5. \A p \in Place : object'[p] = f => p \in KeysOf(f)'
  BY <1>4 DEF Fine
<1>6. object'[row[f].at] \in {f, Gone}
  BY <1>1 DEF Fine
<1>7. Changing(f, Session)' = {} => object'[row[f].at] = f
  BY <1>1, <1>2 DEF Fine
<1>8. ASSUME NEW t \in Changing(f, Session)
      PROVE  /\ ~touched'[t] => /\ object'[row[f].at] = f
                                /\ draft'[t] # Gone /\ draft'[t].at # row[f].at => object'[draft'[t].at] # f
             /\ step'[t] \in {"cut", "uploaded"} => object'[draft'[t].at] = f
             /\ step'[t] = "uploaded" => object'[row[f].at] = Gone
             /\ step'[t] \in {"leave", "commit"} /\ draft'[t] # Gone =>
                  /\ object'[draft'[t].at] = f
                  /\ draft'[t].at # row[f].at => object'[row[f].at] # f
  <2>1. /\ draft'[t] = draft[t] /\ touched'[t] = touched[t]
        /\ draft[t] # Gone => draft[t].at \in Place
        /\ \/ step'[t] = step[t]
           \/ step'[t] \notin {"cut", "uploaded", "leave", "commit"}
           \/ step[t] = "leave" /\ step'[t] = "commit"
    BY <1>1, <1>3
  <2>2. /\ ~touched[t] => /\ object[row[f].at] = f
                          /\ draft[t] # Gone /\ draft[t].at # row[f].at => object[draft[t].at] # f
        /\ step[t] \in {"cut", "uploaded"} => object[draft[t].at] = f
        /\ step[t] = "uploaded" => object[row[f].at] = Gone
        /\ step[t] \in {"leave", "commit"} /\ draft[t] # Gone =>
             /\ object[draft[t].at] = f
             /\ draft[t].at # row[f].at => object[row[f].at] # f
    BY DEF Fine
  <2>3. step[t] = "cut" \/ step[t] = "uploaded" => draft[t] # Gone
    BY <1>3 DEF Protected, Writing
  <2> QED
    BY <1>1, <2>1, <2>2, <2>3
<1> QED
  BY <1>2, <1>5, <1>6, <1>7, <1>8 DEF Fine

LEMMA WriterAlone ==
  ASSUME Database, NEW s \in Session, NEW f \in File, s \in Changing(f, Session)
  PROVE  Changing(f, Session) = {s} /\ row[f] # Gone
BY DEF Database, Transaction, Changing, Others

\* An operation that has not started to write leaves every file as it is.
LEMMA FineStart ==
  ASSUME Typed, Database, \A u \in Session : Protected(u), NEW s \in Session, OthersSame(s),
         NEW f \in File, Fine(f),
         (\E j \in Job : Request(s, j)) \/ FindFile(s) \/ ReadEarly(s)
  PROVE  Fine(f)'
<1>1. /\ step[s] \in {"idle", "find", "early"}
      /\ UNCHANGED <<row, object, draft>>
  BY StartEffect
<1>2. draft[s] = None
  BY <1>1 DEF Database, Transaction, Writing, Ending
<1>3. \A t \in Session :
        \/ t \notin Changing(f, Session) /\ (t \notin Changing(f, Session))'
        \/ /\ draft'[t] = draft[t] /\ job'[t].file = job[t].file /\ touched'[t] = touched[t]
           /\ step'[t] = step[t]
  BY <1>1, <1>2 DEF OthersSame, Others, Changing
<1> QED
  BY <1>1, <1>3, FineFrame

LEMMA FineLock ==
  ASSUME Typed, Database, \A u \in Session : Protected(u), NEW s \in Session, OthersSame(s),
         NEW f \in File, Fine(f),
         Locking(s) \/ Locked(s) \/ Beat(s) \/ Unlocked(s) \/ Restart(s)
  PROVE  Fine(f)'
<1>1. /\ UNCHANGED <<row, object, draft, job, touched>>
      /\ \/ step'[s] = step[s]
         \/ step'[s] \notin {"cut", "uploaded", "leave", "commit"}
         \/ step[s] = "leave" /\ step'[s] = "commit"
  BY LockEffect
<1>2. \A t \in Others(s) : step'[t] = step[t]
  BY DEF OthersSame
<1>3. \A t \in Session :
        /\ draft'[t] = draft[t] /\ job'[t].file = job[t].file /\ touched'[t] = touched[t]
        /\ \/ step'[t] = step[t]
           \/ step'[t] \notin {"cut", "uploaded", "leave", "commit"}
           \/ step[t] = "leave" /\ step'[t] = "commit"
  BY <1>1, <1>2 DEF Others
<1> QED
  BY <1>1, <1>3, FineFrame

\* An operation finds the object missing only if its file has lost it, or the driver
\* takes an error for absence.
LEMMA FineDecide ==
  ASSUME Typed, Database, \A u \in Session : Protected(u), NEW s \in Session, OthersSame(s),
         NEW f \in File, Fine(f),
         ReadRow(s) \/ CheckDestination(s) \/ CheckSource(s),
         step[s] = "source" /\ job[s].file = f => cause' # After("stat")
  PROVE  Fine(f)'
<1>1. /\ UNCHANGED <<row, object, draft, job, touched>>
      /\ \/ step[s] = "read"
         \/ step[s] = "check"
         \/ /\ step[s] = "source"
            /\ \/ step'[s] = IF object[copy[s].at] = Gone THEN "uploaded" ELSE "copy"
               \/ cause' = After("stat")
  BY DecideEffect
<1>2. \A t \in Others(s) : step'[t] = step[t]
  BY DEF OthersSame
<1>3. CASE step[s] \in {"read", "check"} \/ job[s].file # f
  <2>1. s \notin Changing(f, Session) /\ (s \notin Changing(f, Session))'
    BY <1>1, <1>3 DEF Database, Transaction, Writing, Ending, Changing
  <2>2. \A t \in Session :
          \/ t \notin Changing(f, Session) /\ (t \notin Changing(f, Session))'
          \/ /\ draft'[t] = draft[t] /\ job'[t].file = job[t].file /\ touched'[t] = touched[t]
             /\ step'[t] = step[t]
    BY <1>1, <1>2, <2>1 DEF Others
  <2> QED
    BY <1>1, <2>2, FineFrame
<1>4. CASE step[s] = "source" /\ job[s].file = f
  <2>1. s \in Changing(f, Session) /\ ~touched[s] /\ copy[s] = row[f] /\ row[f] # Gone
    BY <1>4, WriterAlone DEF Database, Transaction, Writing, Ending, Changing, Protected, Holding
  <2>2. object[row[f].at] = f /\ f # Gone
    BY <2>1, FileAssumption DEF Fine, File
  <2>3. step'[s] = "copy"
    BY <1>1, <1>4, <2>1, <2>2
  <2>4. \A t \in Session :
          /\ draft'[t] = draft[t] /\ job'[t].file = job[t].file /\ touched'[t] = touched[t]
          /\ step'[t] = step[t] \/ step'[t] \notin {"cut", "uploaded", "leave", "commit"}
    BY <1>1, <1>2, <2>3 DEF Others
  <2> QED
    BY <1>1, <2>4, FineFrame
<1> QED
  BY <1>1, <1>3, <1>4

LEMMA FineWrite ==
  ASSUME Typed, Database, \A u \in Session : Protected(u), NEW s \in Session, OthersSame(s),
         NEW f \in File, Fine(f), "stale" \notin cause',
         WriteCopying(s) \/ WriteUploaded(s) \/ WriteRow(s) \/ DeleteFileRow(s)
  PROVE  Fine(f)'
<1>1. /\ UNCHANGED <<row, object, job, copy, touched>>
      /\ step[s] \in {"copying", "uploaded", "write", "delete"}
      /\ ~RowBusy(s, job[s].file)
      /\ step[s] = "write" /\ row[job[s].file] # copy[s] => "stale" \in cause'
      /\ Written(s) \in Row \cup {Gone}
      /\ \/ step'[s] = "fail" /\ draft' = draft
         \/ /\ step'[s] = IF step[s] = "copying" THEN "source"
                          ELSE IF step[s] = "delete" THEN "erase" ELSE "leave"
            /\ draft'[s] = Written(s)
  BY WriteEffect
<1>2. \A t \in Others(s) : step'[t] = step[t] /\ draft'[t] = draft[t]
  BY DEF OthersSame
<1>3. CASE step'[s] = "fail" /\ draft' = draft
  <2>1. \A t \in Session :
          /\ draft'[t] = draft[t] /\ job'[t].file = job[t].file /\ touched'[t] = touched[t]
          /\ step'[t] = step[t] \/ step'[t] \notin {"cut", "uploaded", "leave", "commit"}
    BY <1>1, <1>2, <1>3 DEF Others
  <2> QED
    BY <1>1, <2>1, FineFrame
<1>4. CASE job[s].file # f
  <2>1. \A t \in Session :
          \/ t \notin Changing(f, Session) /\ (t \notin Changing(f, Session))'
          \/ /\ draft'[t] = draft[t] /\ job'[t].file = job[t].file /\ touched'[t] = touched[t]
             /\ step'[t] = step[t]
    BY <1>1, <1>2, <1>4 DEF Others, Changing
  <2> QED
    BY <1>1, <2>1, FineFrame
<1>5. CASE job[s].file = f /\ draft'[s] = Written(s)
           /\ step'[s] = IF step[s] = "copying" THEN "source"
                         ELSE IF step[s] = "delete" THEN "erase" ELSE "leave"
  <2> SUFFICES ASSUME row[f] # Gone PROVE Fine(f)'
    BY <1>1 DEF Fine
  <2>1. Changing(f, Session) \subseteq {s} /\ Changing(f, Session)' = {s}
    <3>1. \A t \in Others(s) : draft[t] = None \/ job[t].file # f
      BY <1>1, <1>5 DEF RowBusy, Changing
    <3>2. draft'[s] # None
      BY <1>1, <1>5, FileAssumption
    <3> QED
      BY <1>1, <1>2, <1>5, <3>1, <3>2 DEF Changing, Others
  <2>2. copy[s] = row[f] /\ row[f] \in Row
    BY <1>1, <1>5 DEF Protected, Holding, Typed, FilesInv, FilesOK
  <2>3. CASE step[s] # "uploaded"
    <3>1. draft[s] = None /\ ~touched[s] /\ Changing(f, Session) = {}
      BY <1>1, <2>1, <2>3 DEF Database, Transaction, Writing, Ending, Changing
    <3>2. object[row[f].at] = f /\ \A p \in Place : object[p] = f => p = row[f].at
      <4>1. \A p \in KeysOf(f) : p = row[f].at
        BY <3>1 DEF KeysOf, Changing
      <4> QED
        BY <3>1, <4>1 DEF Fine
    <3>3. \A p \in Place : object'[p] = f => p \in KeysOf(f)'
      BY <1>1, <3>2 DEF KeysOf
    <3>4. draft'[s] # Gone => draft'[s].at \in Place
      BY <1>1, <1>5 DEF Row
    <3>5. step'[s] = "leave" => draft'[s] = row[f]
      BY <1>1, <1>5, <2>2, <2>3 DEF Written
    <3> HIDE DEF Written
    <3> QED
      BY <1>1, <1>5, <2>1, <2>3, <3>1, <3>2, <3>3, <3>4, <3>5 DEF Fine
  <2>4. CASE step[s] = "uploaded"
    <3>1. s \in Changing(f, Session) /\ draft[s] # Gone /\ draft[s].at = Target(s)
      BY <1>5, <2>4 DEF Changing, Protected, Writing
    <3>2. Written(s) = [copy[s] EXCEPT !.at = Target(s)] /\ Target(s) \in Place
      BY <2>2, <2>4, TargetPlace DEF Written, Typed, FilesInv
    <3>3. draft'[s] \in Row /\ draft'[s].at = draft[s].at
      BY <1>5, <2>2, <3>1, <3>2 DEF Row
    <3>4. draft'[s] # Gone /\ draft'[s] # None
      BY <3>3, FileAssumption
    <3>5. object[draft[s].at] = f /\ object[row[f].at] = Gone /\ f # Gone
      BY <2>4, <3>1, FileAssumption DEF Fine, File
    <3>6. touched[s]
      BY <3>1, <3>5 DEF Fine
    <3>7. \A p \in Place : object'[p] = f => p \in KeysOf(f)'
      <4>1. \A p \in KeysOf(f) : p = row[f].at \/ p = draft[s].at
        BY <2>1 DEF KeysOf, Changing
      <4>2. \A p \in Place : p = row[f].at \/ p = draft'[s].at => p \in KeysOf(f)'
        BY <1>1, <1>5, <3>4 DEF KeysOf
      <4> QED
        BY <1>1, <3>3, <4>1, <4>2 DEF Fine
    <3> HIDE DEF Written
    <3> QED
      BY <1>1, <1>5, <2>1, <2>4, <3>3, <3>5, <3>6, <3>7 DEF Fine
  <2> QED
    BY <2>3, <2>4
<1> QED
  BY <1>1, <1>3, <1>4, <1>5

\* A key that some other row, committed or not, has is not one of f.
LEMMA ForeignKey ==
  ASSUME Database, NEW s \in Session, NEW f \in File, draft[s] # None,
         job[s].file \in File \ {f}, Fine(f), row[f] # Gone,
         NEW p \in Place, p \in KeysOf(job[s].file)
  PROVE  object[p] # f /\ p \notin KeysOf(f)
BY DEF Database, Fine

LEMMA FinePurge ==
  ASSUME Typed, Database, \A u \in Session : Protected(u), NEW s \in Session, OthersSame(s),
         NEW f \in File, Fine(f), PurgeObject(s),
         NEW p \in Place, object' = [object EXCEPT ![p] = Gone], object[p] # f
  PROVE  Fine(f)'
<1>1. step[s] = "purge" /\ UNCHANGED <<row, draft, job>>
  BY DEF PurgeObject
<1>2. draft[s] = None
  BY <1>1 DEF Database, Transaction, Writing, Ending
<1>3. \A t \in Session :
        \/ t \notin Changing(f, Session) /\ (t \notin Changing(f, Session))'
        \/ /\ draft'[t] = draft[t] /\ job'[t].file = job[t].file /\ touched'[t] = touched[t]
           /\ step'[t] = step[t]
  BY <1>1, <1>2 DEF OthersSame, Others, Changing
<1>4. /\ \A q \in Place : object'[q] = f <=> object[q] = f
      /\ row[f] # Gone /\ object[row[f].at] = Gone => object'[row[f].at] = Gone
  <2>1. f # Gone /\ (row[f] # Gone => row[f].at \in Place) /\ object \in [Place -> File \cup {Gone}]
    BY FileAssumption DEF File, Typed, FilesInv, FilesOK, Row
  <2>2. \A q \in Place : object'[q] = IF q = p THEN Gone ELSE object[q]
    BY <2>1
  <2> QED
    BY <2>1, <2>2
<1> QED
  BY <1>1, <1>3, <1>4, FineFrame

\* A store command on another file changes nothing at the keys of f.
LEMMA FineElsewhere ==
  ASSUME Typed, Database, \A u \in Session : Protected(u), NEW s \in Session, OthersSame(s),
         NEW f \in File, Fine(f), UNCHANGED <<row, draft, job>>, draft[s] # None,
         job[s].file \in File \ {f}, NEW p \in Place, p \in KeysOf(job[s].file),
         NEW b, b # f, object' = [object EXCEPT ![p] = b] \/ object' = object
  PROVE  Fine(f)'
<1> SUFFICES ASSUME row[f] # Gone PROVE Fine(f)'
  BY DEF Fine
<1>1. object[p] # f /\ p \notin KeysOf(f)
  BY ForeignKey
<1>2. row[f].at \in KeysOf(f) /\ object \in [Place -> File \cup {Gone}]
  BY DEF KeysOf, Typed, FilesInv, FilesOK, Row
<1>3. /\ \A q \in Place : object'[q] = f <=> object[q] = f
      /\ object'[row[f].at] = object[row[f].at]
  <2>1. \A q \in Place : object'[q] = object[q] \/ (q = p /\ object'[q] = b)
    BY <1>2
  <2>2. KeysOf(f) \subseteq Place
    BY DEF KeysOf
  <2> QED
    BY <1>1, <1>2, <2>1, <2>2
<1>4. \A t \in Session :
        \/ t \notin Changing(f, Session) /\ (t \notin Changing(f, Session))'
        \/ /\ draft'[t] = draft[t] /\ job'[t].file = job[t].file /\ touched'[t] = touched[t]
           /\ step'[t] = step[t]
  BY DEF OthersSame, Others, Changing
<1> QED
  BY <1>3, <1>4, FineFrame

LEMMA FineStore ==
  ASSUME Typed, Database, \A u \in Session : Protected(u), NEW s \in Session, OthersSame(s),
         NEW f \in File, Fine(f), CopyObject(s) \/ CutObject(s) \/ EraseObject(s)
  PROVE  Fine(f)'
<1> SUFFICES ASSUME row[f] # Gone PROVE Fine(f)'
  BY StoreEffect DEF Fine
<1>0. step[s] \in {"copy", "cut", "erase"}
  BY DEF CopyObject, CutObject, EraseObject, Working
<1>1. /\ UNCHANGED <<row, draft, job, copy>> /\ copy[s] \in Row
      /\ \/ /\ step[s] = "copy" /\ Target(s) \in Place
            /\ step'[s] = "cut" /\ touched'[s] = TRUE /\ object[copy[s].at] # Gone
            /\ object' = [object EXCEPT ![Target(s)] = object[copy[s].at]]
         \/ /\ step[s] = "cut" /\ touched' = touched
            /\ step'[s] = "uploaded" /\ object' = [object EXCEPT ![copy[s].at] = Gone]
         \/ /\ step[s] = "erase" /\ step'[s] = "leave" /\ object' = [object EXCEPT ![copy[s].at] = Gone]
            /\ touched'[s] = (object[copy[s].at] # Gone)
         \/ step'[s] = "fail" /\ object' = object /\ touched' = touched
  BY <1>0, StoreEffect
<1>2. draft[s] # None /\ copy[s] = row[job[s].file]
      /\ (step[s] \in Writing => draft[s] # Gone /\ draft[s].at = Target(s))
      /\ (step[s] = "erase" => draft[s] = Gone)
  BY <1>0 DEF Protected, Writing, Holding
<1>3. /\ \A t \in Others(s) : step'[t] = step[t] /\ draft'[t] = draft[t] /\ touched'[t] = touched[t]
      /\ f # Gone /\ object \in [Place -> File \cup {Gone}] /\ job[s].file \in File
      /\ copy[s].at \in Place /\ row[job[s].file] # Gone /\ row[f].at \in Place
  BY <1>1, <1>2, FileAssumption
  DEF OthersSame, Typed, FilesInv, FilesOK, Row, File, Job, Database, Transaction
<1>4. CASE step'[s] = "fail" /\ object' = object /\ touched' = touched
  <2>1. \A t \in Session :
          /\ draft'[t] = draft[t] /\ job'[t].file = job[t].file /\ touched'[t] = touched[t]
          /\ step'[t] = step[t] \/ step'[t] \notin {"cut", "uploaded", "leave", "commit"}
    BY <1>1, <1>3, <1>4 DEF Others
  <2> QED
    BY <1>1, <1>4, <2>1, FineFrame
<1>5. CASE job[s].file # f
  <2>1. copy[s].at \in KeysOf(job[s].file) /\ object[copy[s].at] # f
    <3>1. copy[s].at \in KeysOf(job[s].file)
      BY <1>2, <1>3 DEF KeysOf
    <3> QED
      BY <1>2, <1>3, <1>5, <3>1, ForeignKey
  <2>2. step[s] = "copy" => Target(s) \in KeysOf(job[s].file)
    <3>1. draft[s] # Gone => draft[s].at \in Place
      BY <1>2 DEF Typed, FilesInv, FilesOK, Row
    <3> QED
      BY <1>2, <3>1 DEF KeysOf, Writing
  <2>3. \E p \in Place : \E b :
          /\ p \in KeysOf(job[s].file) /\ b # f
          /\ object' = [object EXCEPT ![p] = b] \/ object' = object
    <3>1. CASE object' = [object EXCEPT ![Target(s)] = object[copy[s].at]] /\ step[s] = "copy"
      <4>1. Target(s) \in Place
        BY <2>2, <3>1 DEF KeysOf
      <4> QED
        BY <2>1, <2>2, <3>1, <4>1
    <3>2. CASE object' = [object EXCEPT ![copy[s].at] = Gone] \/ object' = object
      BY <1>3, <2>1, <3>2
    <3> QED
      BY <1>1, <3>1, <3>2
  <2>4. job[s].file \in File \ {f}
    BY <1>3, <1>5
  <2> QED
    BY <1>1, <1>2, <2>3, <2>4, FineElsewhere
<1>6. CASE job[s].file = f /\ step'[s] # "fail"
  <2>1. Changing(f, Session) = {s} /\ Changing(f, Session)' = {s}
    <3>1. s \in Changing(f, Session)
      BY <1>2, <1>6 DEF Changing
    <3> QED
      BY <1>1, <3>1, WriterAlone DEF Changing
  <2>2. KeysOf(f)' = KeysOf(f)
    BY <1>1 DEF KeysOf
  <2>3. CASE step[s] = "copy"
    <3>1. Target(s) # row[f].at /\ draft[s].at = Target(s) /\ draft[s] # Gone
      BY <1>2, <1>6, <2>3 DEF Database, Transaction, Writing
    <3>2. object[row[f].at] = f
      BY <1>1, <1>2, <1>6, <2>3 DEF Fine
    <3>3. object'[row[f].at] = f /\ object'[Target(s)] = f
      BY <1>1, <1>2, <1>3, <1>6, <2>3, <3>1, <3>2
    <3>4. Target(s) \in KeysOf(f)
      BY <1>1, <1>2, <1>6, <2>3, <3>1 DEF KeysOf
    <3>5. \A q \in Place : object'[q] = f => q \in KeysOf(f)
      BY <1>1, <1>3, <1>6, <2>3, <3>4 DEF Fine
    <3> QED
      BY <1>1, <1>6, <2>1, <2>2, <2>3, <3>1, <3>3, <3>5 DEF Fine
  <2>4. CASE step[s] = "cut"
    <3>1. Target(s) # row[f].at /\ draft[s].at = Target(s) /\ draft[s] # Gone /\ draft[s].at \in Place
      BY <1>2, <1>3, <1>6, <2>4 DEF Database, Transaction, Writing, Typed, FilesInv, FilesOK, Row
    <3>2. object[draft[s].at] = f /\ touched[s]
      BY <2>1, <2>4, <3>1 DEF Fine
    <3>3. object'[row[f].at] = Gone /\ object'[draft[s].at] = f
      BY <1>1, <1>2, <1>3, <1>6, <2>4, <3>1, <3>2
    <3>4. \A q \in Place : object'[q] = f => q \in KeysOf(f)
      BY <1>1, <1>3, <1>6, <2>4 DEF Fine
    <3> QED
      BY <1>1, <1>6, <2>1, <2>2, <2>4, <3>1, <3>2, <3>3, <3>4 DEF Fine
  <2>5. CASE step[s] = "erase"
    <3>1. draft[s] = Gone /\ ~touched[s]
      BY <1>2, <2>5 DEF Database, Transaction, Writing, Ending
    <3>2. object[row[f].at] = f
      BY <2>1, <3>1 DEF Fine
    <3>3. object'[row[f].at] = Gone /\ touched'[s]
      BY <1>1, <1>2, <1>3, <1>6, <2>5, <3>2
    <3>4. \A q \in Place : object'[q] = f => q \in KeysOf(f)
      BY <1>1, <1>3, <1>6, <2>5 DEF Fine
    <3> QED
      BY <1>1, <1>6, <2>1, <2>2, <2>5, <3>1, <3>3, <3>4 DEF Fine
  <2> QED
    BY <1>0, <2>3, <2>4, <2>5
<1> QED
  BY <1>1, <1>4, <1>5, <1>6

LEMMA FineClose ==
  ASSUME Typed, Database, \A u \in Session : Protected(u), NEW s \in Session, OthersSame(s),
         NEW f \in File, Fine(f), "timeout" \notin cause',
         Commit(s) \/ Rollback(s) \/ Timeout(s) \/ Die(s),
         Commit(s) \/ ~touched[s] \/ job[s].file # f
  PROVE  Fine(f)'
<1>1. /\ UNCHANGED object /\ draft'[s] = None
      /\ \/ /\ step[s] = "commit"
            /\ row' = IF draft[s] = None THEN row ELSE [row EXCEPT ![job[s].file] = draft[s]]
         \/ row' = row
  BY CloseEffect
<1>2. \A t \in Others(s) : /\ step'[t] = step[t] /\ draft'[t] = draft[t] /\ touched'[t] = touched[t]
                           /\ job'[t] = job[t]
  BY DEF OthersSame
<1>3. f # Gone /\ job[s].file \in File
  BY FileAssumption DEF File, Typed, FilesInv, FilesOK, Job
<1>4. CASE s \notin Changing(f, Session)
  <2>1. row'[f] = row[f]
    BY <1>1, <1>4 DEF Changing, Typed, FilesInv, FilesOK
  <2>2. \A t \in Session :
          \/ t \notin Changing(f, Session) /\ (t \notin Changing(f, Session))'
          \/ /\ draft'[t] = draft[t] /\ job'[t].file = job[t].file /\ touched'[t] = touched[t]
             /\ step'[t] = step[t]
    BY <1>1, <1>2, <1>4 DEF Others, Changing
  <2> QED
    BY <1>1, <2>1, <2>2, FineFrame
<1>5. CASE s \in Changing(f, Session)
  <2>1. /\ Changing(f, Session) = {s} /\ row[f] # Gone /\ draft[s] # None /\ job[s].file = f
    BY <1>5, WriterAlone DEF Changing
  <2>2. Changing(f, Session)' = {}
    BY <1>1, <1>2, <2>1 DEF Changing, Others
  <2>3. \A p \in KeysOf(f) : p = row[f].at \/ (draft[s] # Gone /\ p = draft[s].at)
    BY <2>1 DEF KeysOf, Changing
  <2>4. CASE row' = row /\ ~touched[s]
    <3>1. /\ object[row[f].at] = f
          /\ draft[s] # Gone /\ draft[s].at # row[f].at => object[draft[s].at] # f
      BY <2>1, <2>4 DEF Fine
    <3>2. \A p \in Place : object'[p] = f => p \in KeysOf(f)'
      <4>1. \A p \in Place : object'[p] = f => p = row[f].at
        BY <1>1, <2>1, <2>3, <3>1 DEF Fine
      <4> QED
        BY <2>1, <2>4, <4>1 DEF KeysOf
    <3> QED
      BY <1>1, <2>2, <2>4, <3>1, <3>2 DEF Fine
  <2>5. CASE step[s] = "commit" /\ row' = [row EXCEPT ![f] = draft[s]]
    <3>1. row'[f] = draft[s]
      BY <2>5 DEF Typed, FilesInv, FilesOK
    <3> SUFFICES ASSUME draft[s] # Gone PROVE Fine(f)'
      BY <3>1 DEF Fine
    <3>2. object[draft[s].at] = f /\ (draft[s].at # row[f].at => object[row[f].at] # f)
      BY <2>1, <2>5 DEF Fine
    <3>3. \A p \in Place : object'[p] = f => p \in KeysOf(f)'
      <4>1. \A p \in Place : object'[p] = f => p = draft[s].at
        BY <1>1, <2>1, <2>3, <3>2 DEF Fine
      <4> QED
        BY <3>1, <4>1 DEF KeysOf
    <3> QED
      BY <1>1, <2>2, <3>1, <3>2, <3>3 DEF Fine
  <2>6. (row' = row /\ ~touched[s]) \/ (step[s] = "commit" /\ row' = [row EXCEPT ![f] = draft[s]])
    <3>1. CASE Commit(s)
      BY <2>1, <3>1 DEF Commit
    <3>2. CASE ~Commit(s)
      <4>1. ~Timeout(s)
        BY DEF Timeout
      <4> QED
        BY <2>1, <3>2, <4>1 DEF Rollback, Die
    <3> QED
      BY <3>1, <3>2
  <2> QED
    BY <2>4, <2>5, <2>6
<1> QED
  BY <1>4, <1>5

\* The file that an accident of s would cost its bytes.
Struck(s, f) ==
  \/ step[s] = "purge" /\ object[<<job[s].folder, job[s].name>>] = f
  \/ step[s] # "purge" /\ job[s].file = f

LEMMA FineStep ==
  ASSUME Typed, Database, \A u \in Session : Protected(u), NEW s \in Session, Act(s),
         OneAccident', NEW f \in File, Fine(f), cause' = cause \/ ~Struck(s, f)
  PROVE  Fine(f)'
<1>0. OthersSame(s) /\ "stale" \notin cause' /\ "timeout" \notin cause' /\ "again" \notin cause'
  BY OnlyOwn DEF OneAccident
<1>1. CASE (\E j \in Job : Request(s, j)) \/ FindFile(s) \/ ReadEarly(s)
  BY <1>0, <1>1, FineStart
<1>2. CASE Locking(s) \/ Locked(s) \/ Beat(s) \/ Unlocked(s) \/ Restart(s)
  BY <1>0, <1>2, FineLock
<1>3. \A c : cause' = cause => cause' # After(c)
  <2> SUFFICES ASSUME NEW c, cause' = cause, cause' = After(c) PROVE FALSE
    OBVIOUS
  <2>1. (IF c \in cause THEN "again" ELSE c) \in cause
    BY DEF After
  <2> QED
    BY <1>0, <2>1
<1>4. CASE ReadRow(s) \/ CheckDestination(s) \/ CheckSource(s)
  <2>1. step[s] = "source" /\ job[s].file = f => cause' # After("stat")
    BY <1>3 DEF Struck
  <2> QED
    BY <1>0, <1>4, <2>1, FineDecide
<1>5. CASE WriteCopying(s) \/ WriteUploaded(s) \/ WriteRow(s) \/ DeleteFileRow(s)
  BY <1>0, <1>5, FineWrite
<1>6. CASE PurgeObject(s)
  <2> DEFINE p == <<job[s].folder, job[s].name>>
  <2>1. /\ p \in Place /\ step[s] = "purge" /\ object' = [object EXCEPT ![p] = Gone]
        /\ cause' = IF object[p] # Gone /\ Owned(s, p) THEN After("purge") ELSE cause
    BY <1>6 DEF PurgeObject, Typed, FilesInv, FilesOK, Job, Place
  <2>2. f # Gone
    BY FileAssumption DEF File
  <2>3. CASE row[f] = Gone
    <3>1. row'[f] = Gone
      BY <1>6, <2>3 DEF PurgeObject
    <3> QED
      BY <3>1 DEF Fine
  <2>4. CASE row[f] # Gone
    <3>1. object[p] = f => Owned(s, p)
      <4> SUFFICES ASSUME object[p] = f PROVE Owned(s, p)
        OBVIOUS
      <4>1. p \in KeysOf(f)
        BY <2>1, <2>4 DEF Fine
      <4>2. draft[s] = None
        BY <2>1 DEF Database, Transaction, Writing, Ending
      <4> HIDE DEF p
      <4> QED
        BY <4>1, <4>2 DEF KeysOf, Owned, Others
    <3>2. object[p] # f
      BY <1>3, <2>1, <2>2, <3>1 DEF Struck
    <3> HIDE DEF p
    <3> QED
      BY <1>0, <1>6, <2>1, <3>2, FinePurge
  <2> QED
    BY <2>3, <2>4
<1>7. CASE CopyObject(s) \/ CutObject(s) \/ EraseObject(s)
  BY <1>0, <1>7, FineStore
<1>8. CASE Commit(s) \/ Rollback(s) \/ Timeout(s) \/ Die(s)
  <2>1. Commit(s) \/ ~touched[s] \/ job[s].file # f
    <3>1. CASE Rollback(s) \/ Die(s)
      <4>1. touched[s] => cause' = After("rollback") /\ step[s] # "purge"
        BY <3>1 DEF Rollback, Die, Database, Transaction, Ending
      <4> QED
        BY <1>3, <4>1 DEF Struck
    <3>2. CASE Timeout(s)
      BY <1>0, <3>2 DEF Timeout
    <3> QED
      BY <1>8, <3>1, <3>2
  <2> QED
    BY <1>0, <1>8, <2>1, FineClose
<1> QED
  BY <1>1, <1>2, <1>4, <1>5, <1>6, <1>7, <1>8 DEF Act, Advance

LEMMA FineSame ==
  ASSUME NEW f \in File, Fine(f), UNCHANGED <<row, object, draft, job, step, touched>>
  PROVE  Fine(f)'
<1>1. Changing(f, Session)' = Changing(f, Session) /\ KeysOf(f)' = KeysOf(f)
  BY DEF Changing, KeysOf
<1> QED
  BY <1>1 DEF Fine

LEMMA BytesStep == Typed /\ Database /\ Sheltered /\ Bytes /\ [Next]_vars => Bytes'
<1> SUFFICES ASSUME Typed, Database, Sheltered, Bytes, [Next]_vars PROVE Bytes'
  OBVIOUS
<1>1. cause \subseteq cause' /\ (cause' = {} => OneAccident')
  BY CauseGrows DEF OneAccident
<1>2. ASSUME OneAccident'
      PROVE  OneAccident /\ \A u \in Session : Protected(u)
  BY <1>1, <1>2 DEF OneAccident, Orderly, Sheltered
<1>3. ASSUME NEW s \in Session, Act(s), OneAccident', cause' = cause, NEW f \in File, Fine(f)
      PROVE  Fine(f)'
  BY <1>2, <1>3, FineStep
<1>4. ASSUME NEW s \in Session, Act(s), OneAccident', cause' # cause
      PROVE  \E a \in File : \A f \in File \ {a} : Fine(f)'
  <2>1. cause = {}
    <3>1. PICK c \in {"rollback", "purge", "stat"} : cause' \subseteq {c}
      BY <1>4 DEF OneAccident
    <3> QED
      BY <1>1, <1>4, <3>1
  <2>2. \A f \in File : Fine(f)
    BY <2>1 DEF Bytes
  <2>3. \E a \in File : \A f \in File \ {a} : ~Struck(s, f)
    <3>1. CASE step[s] = "purge"
      <4> DEFINE b == object[<<job[s].folder, job[s].name>>]
      <4>1. \A f \in File \ {b} : ~Struck(s, f)
        BY <3>1 DEF Struck
      <4>2. \E a \in File : b \in File => a = b
        BY FileAssumption DEF File
      <4> HIDE DEF b
      <4> QED
        BY <4>1, <4>2
    <3>2. CASE step[s] # "purge"
      <4>1. job[s].file \in File
        BY DEF Typed, FilesInv, FilesOK, Job
      <4> QED
        BY <3>2, <4>1 DEF Struck
    <3> QED
      BY <3>1, <3>2
  <2>4. \A f \in File : ~Struck(s, f) => Fine(f)'
    BY <1>2, <1>4, <2>2, FineStep
  <2> QED
    BY <2>3, <2>4
<1>5. ASSUME NEW s \in Session, Act(s)
      PROVE  Bytes'
  <2>1. ASSUME cause' = {}
        PROVE  \A f \in File : Fine(f)'
    <3>1. cause' = cause /\ \A f \in File : Fine(f)
      BY <1>1, <2>1 DEF Bytes
    <3> QED
      BY <1>1, <1>3, <1>5, <2>1, <3>1
  <2>2. ASSUME OneAccident'
        PROVE  \E a \in File : \A f \in File \ {a} : Fine(f)'
    <3>1. CASE cause' = cause
      <4>1. PICK a \in File : \A f \in File \ {a} : Fine(f)
        BY <1>2, <2>2 DEF Bytes
      <4>2. \A f \in File \ {a} : Fine(f)'
        BY <1>3, <1>5, <2>2, <3>1, <4>1
      <4> QED
        BY <4>2
    <3>2. CASE cause' # cause
      BY <1>4, <1>5, <2>2, <3>2
    <3> QED
      BY <3>1, <3>2
  <2> QED
    BY <2>1, <2>2 DEF Bytes
<1>6. ASSUME UNCHANGED <<row, object, draft, job, step, touched>>
      PROVE  Bytes'
  <2>1. \A f \in File : Fine(f) => Fine(f)'
    BY <1>6, FineSame
  <2>2. cause' = {} => \A f \in File : Fine(f)'
    BY <1>1, <2>1 DEF Bytes
  <2>3. OneAccident' => \E a \in File : \A f \in File \ {a} : Fine(f)'
    BY <1>2, <2>1 DEF Bytes
  <2> QED
    BY <2>2, <2>3 DEF Bytes
<1>7. CASE Tick
  BY <1>6, <1>7 DEF Tick
<1>8. CASE UNCHANGED vars
  BY <1>6, <1>8 DEF vars
<1> QED
  BY <1>5, <1>7, <1>8 DEF Next, Act

LEMMA RowsInit == Init => RowsInv
<1> SUFFICES ASSUME Init PROVE RowsInv
  OBVIOUS
<1>1. Calls
  BY DEF Init, LockInit, Calls, Calling, Inside, Holding
<1>2. \A s \in Session : Protected(s)
  BY DEF Init, LockInit, Protected, Writing, Holding
<1>3. ASSUME NEW f \in File
      PROVE  Fine(f)
  <2>1. /\ Home[f] \in Place /\ f # Gone /\ row[f].at = Home[f] /\ row[f] # Gone
        /\ \A g \in File : Home[g] = Home[f] => g = f
    BY FileAssumption DEF Init, File, Row
  <2>2. Changing(f, Session) = {}
    BY DEF Init, Changing
  <2>3. object[Home[f]] = f
    <3>1. \E g \in File : Home[g] = Home[f]
      OBVIOUS
    <3>2. object[Home[f]] = CHOOSE g \in File : Home[g] = Home[f]
      BY <2>1 DEF Init
    <3>3. (CHOOSE g \in File : Home[g] = Home[f]) \in File
          /\ Home[CHOOSE g \in File : Home[g] = Home[f]] = Home[f]
      BY <3>1
    <3> QED
      BY <2>1, <3>2, <3>3
  <2>4. \A p \in Place : object[p] = f => p = Home[f]
    <3> SUFFICES ASSUME NEW p \in Place, object[p] = f PROVE p = Home[f]
      OBVIOUS
    <3>1. \E g \in File : Home[g] = p
      BY <2>1 DEF Init
    <3>2. f = CHOOSE g \in File : Home[g] = p
      BY <3>1 DEF Init
    <3> QED
      BY <3>1, <3>2
  <2>5. Home[f] \in KeysOf(f)
    BY <2>1 DEF KeysOf
  <2> QED
    BY <2>1, <2>2, <2>3, <2>4, <2>5 DEF Fine
<1>4. Bytes
  BY <1>3, FileAssumption DEF Bytes, File
<1> QED
  BY <1>1, <1>2, <1>4, DatabaseInit DEF RowsInv, Sheltered

LEMMA RowsAlways == Spec => []RowsInv
<1>1. Init => RowsInv
  BY RowsInit
<1>2. Typed /\ RowsInv /\ [Next]_vars => RowsInv'
  BY DatabaseStep, CallsStep, ShelteredStep, BytesStep DEF RowsInv
<1> QED
  BY <1>1, <1>2, TypedAlways, PTL DEF Spec

\* A file that no transaction is changing is served from the key of its row, as long as
\* none of the named accidents has happened: the lock of the file and the order of the
\* statements (row first, then copy, cut and the final write) are enough.
THEOREM ServedFromItsRow == Spec => []ServedWithoutAccident
<1>1. RowsInv => ServedWithoutAccident
  BY DEF RowsInv, Bytes, Fine, ServedWithoutAccident
<1> QED
  BY <1>1, RowsAlways, PTL

\* A key never serves the bytes of another file that still has a row, even after one
\* rollback, one purge or one misread error: at most one file is out of step with the
\* store then, and the keys of two files have no place in common.
THEOREM KeysServeTheirFile == Spec => []NoForeignBytes
<1>1. ASSUME RowsInv, Typed
      PROVE  NoForeignBytes
  <2> SUFFICES ASSUME OneAccident, NEW f \in File, row[f] # Gone,
                      object[row[f].at] \notin {f, Gone}, row[object[row[f].at]] # Gone
               PROVE  FALSE
    BY DEF NoForeignBytes
  <2>1. PICK a \in File : \A g \in File \ {a} : Fine(g)
    BY <1>1 DEF RowsInv, Bytes
  <2>2. f = a
    BY <2>1 DEF Fine
  <2>3. row[f].at \in Place /\ object[row[f].at] \in File \ {f}
    BY <1>1 DEF Typed, FilesInv, FilesOK, Row
  <2>4. row[f].at \in KeysOf(object[row[f].at])
    BY <2>1, <2>2, <2>3 DEF Fine
  <2>5. row[f].at \in KeysOf(f)
    BY <2>3 DEF KeysOf
  <2> QED
    BY <1>1, <2>3, <2>4, <2>5 DEF RowsInv, Database
<1> QED
  BY <1>1, RowsAlways, TypedAlways, PTL

===============================================================================
